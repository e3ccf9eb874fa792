---------------------------- MODULE MCCrashRestart ----------------------------
(***************************************************************************)
(* Small shops for model checking CrashRestart.                            *)
(***************************************************************************)
EXTENDS CrashRestart, TLC

CONSTANTS w1, w2, alice, pen, mug

OneProduct == <<[id |-> 1, name |-> pen, stock |-> 2]>>

TwoProducts == <<[id |-> 1, name |-> pen, stock |-> 1],
                 [id |-> 2, name |-> mug, stock |-> 1]>>

WorkerSymmetry == Permutations(Workers)
===============================================================================
