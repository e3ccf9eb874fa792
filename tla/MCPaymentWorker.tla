--------------------------- MODULE MCPaymentWorker ---------------------------
(***************************************************************************)
(* Three threads that pay at once, for model checking PaymentWorker.       *)
(***************************************************************************)
EXTENDS PaymentWorker

CONSTANTS w1, w2, w3
==============================================================================
