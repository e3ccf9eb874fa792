---------------------------- MODULE MCServerLocks ----------------------------
(***************************************************************************)
(* A server with a few connections, for model checking ServerLocks.        *)
(***************************************************************************)
EXTENDS ServerLocks

CONSTANTS w1, w2
==============================================================================
