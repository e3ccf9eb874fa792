--------------------------- MODULE MCRefusalReplies ---------------------------
(***************************************************************************)
(* A small shop for model checking RefusalReplies.                         *)
(***************************************************************************)
EXTENDS RefusalReplies, TLC

CONSTANTS w1, w2, alice, pen

OneProduct == <<[id |-> 1, name |-> pen, stock |-> 1]>>

WorkerSymmetry == Permutations(Workers)
===============================================================================
