---------------------------- MODULE MCClientSession ----------------------------
(***************************************************************************)
(* Small sessions for model checking ClientSession.                        *)
(***************************************************************************)
EXTENDS ClientSession, TLC

CONSTANTS pens, mugs

\* The words, the carriage return and the newline another peer sends.
SomeBytes == {"PING", CR, NL}
===============================================================================
