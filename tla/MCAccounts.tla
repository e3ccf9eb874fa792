------------------------------ MODULE MCAccounts ------------------------------
(***************************************************************************)
(* Small sets of accounts and connections for model checking Accounts.     *)
(***************************************************************************)
EXTENDS Accounts, TLC

CONSTANTS c1, c2, secret, other

\* An empty file, one with a customer only, and one as the program leaves it.
SmallFiles ==
  {<< >>,
   <<NewUser("alice", other, "CUSTOMER")>>,
   <<NewUser("admin", secret, "ADMIN"), NewUser("alice", other, "CUSTOMER")>>}

ConnectionSymmetry == Permutations(Connections)
===============================================================================
