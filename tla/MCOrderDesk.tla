----------------------------- MODULE MCOrderDesk -----------------------------
(***************************************************************************)
(* Small shops for model checking OrderDesk.                               *)
(***************************************************************************)
EXTENDS OrderDeskRefinement, Report, TLC

CONSTANTS w1, w2, alice, pen, mug

\* Two products, two units of one and one of the other.
TwoProducts == <<[id |-> 1, name |-> pen, stock |-> 2],
                 [id |-> 2, name |-> mug, stock |-> 1]>>

OneProduct == <<[id |-> 1, name |-> pen, stock |-> 2]>>

WorkerSymmetry == Permutations(Workers)
==============================================================================
