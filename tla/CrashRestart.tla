----------------------------- MODULE CrashRestart -----------------------------
(***************************************************************************)
(* OrderDesk with a server that stops and is started again.  SIGINT and    *)
(* SIGTERM make main return, which ends the process with its detached      *)
(* workers wherever they are; kill -9 and a power cut do the same.  The    *)
(* new process loads the tables from the files (db_initialize) and starts  *)
(* without connections.  A file it cannot lock or open for reading is      *)
(* taken for an empty one and the start goes on: what is in the file stays *)
(* there until the first save of that table overwrites it.                 *)
(*                                                                         *)
(* A stop in the middle of a save catches a file that fopen(..., "w") has  *)
(* emptied: its rows come out of the stdio buffer from the first one on,   *)
(* so what is left is some of the first rows of the new contents.          *)
(***************************************************************************)
EXTENDS OrderDesk

CONSTANTS
  TornSaves,      \* whether a stop may fall between the fopen and the fclose
  LoadsMayFail,   \* whether a file may fail to open when the server starts
  MaxStops        \* bound: how often the server is stopped

ASSUME StopsAssumption ==
  TornSaves \in BOOLEAN /\ LoadsMayFail \in BOOLEAN /\ MaxStops \in Nat

VARIABLES
  stops,    \* how often it has been
  missed,   \* history: a save has failed since the last start
  unread    \* history: the last start could not read the orders, and none has
            \* been saved since

\* The file a worker at a step is writing.
ProductSteps ==
  {"saving_reservation", "saving_rollback", "saving_catalogue", "saving_update_products"}
OrderSteps == {"saving_order", "saving_update_orders"}

Writing(steps) == \E w \in Workers : pc[w] \in steps

\* What a stop leaves of a file that holds old and is to hold new: nothing was
\* done yet, all was done, or, when the save is caught, the first rows of it.
Leftovers(old, new) ==
  {old, new} \cup (IF TornSaves THEN {SubSeq(new, 1, n) : n \in 0 .. Len(new)} ELSE {})

LoadFailures == IF LoadsMayFail THEN BOOLEAN ELSE {FALSE}

\* Mutant: the orders are loaded from the second row on.
LoadWithoutFirst(rows, failed) ==
  IF failed \/ rows = << >> THEN << >> ELSE Tail(rows)

\* load_products_locked and load_orders_locked take the rows in their order, or
\* return without a word and with a count of 0.
Load(rows, failed) == IF failed THEN << >> ELSE rows

StopAndRestart ==
  /\ stops < MaxStops
  /\ stops' = stops + 1
  /\ missed' = FALSE
  /\ products_file' \in IF Writing(ProductSteps) THEN Leftovers(products_file, g_products)
                                                 ELSE {products_file}
  /\ orders_file' \in IF Writing(OrderSteps) THEN Leftovers(orders_file, g_orders)
                                             ELSE {orders_file}
  /\ \E failed \in LoadFailures : g_products' = Load(products_file', failed)
  /\ unread' \in LoadFailures
  /\ g_orders' = Load(orders_file', unread')
  /\ g_db_mutex' = NoWorker
  /\ pc' = [w \in Workers |-> "idle"]
  /\ call' = [w \in Workers |-> NoCall]

crashVars == <<vars, stops, missed, unread>>

CrashInit == Init /\ stops = 0 /\ missed = FALSE /\ unread = FALSE

\* The step is one of a worker whose save fails.
SaveMissed ==
  \E w \in Workers :
    \/ ReservationNotSaved(w) \/ OrderNotSaved(w) \/ UpdateProductsNotSaved(w)
    \/ SaveFails /\ (RollbackEnds(w) \/ UpdateEnds(w) \/ CatalogueEnds(w))

\* The step is one of a worker that saves the orders.
OrdersSaved == \E w \in Workers : OrderSaved(w) \/ (UpdateEnds(w) /\ SaveOrders)

CrashNext ==
  \/ StopAndRestart
  \/ /\ Next
     /\ missed' = (missed \/ SaveMissed)
     /\ unread' = (unread /\ ~OrdersSaved)
     /\ UNCHANGED stops

CrashSpec == CrashInit /\ [][CrashNext]_crashVars

-----------------------------------------------------------------------------
\* Memory and data/sales.csv agree on the orders, over any number of stops, torn
\* saves and failed saves.  A process that could not read the file at its start
\* has no order and promises none until its first save of the orders, which
\* overwrites the file; from then on they agree again (lines 310-317).
OrdersOnFileIfRead == IF unread THEN Promised = 0 ELSE OrdersOnFile

\* An order a customer was told of is not lost, changed or given a new owner,
\* and the status on file never goes back, over any number of stops and failed
\* saves (docs/DESIGN.md:91, "persistence for all stores"), but in two cases: a
\* stop catches a save of the orders, or it is the first save of a process that
\* could not read the orders at its start.
DurableOrders ==
  [][\/ Writing(OrderSteps) /\ (StopAndRestart \/ unread)
     \/ \A i \in DOMAIN orders_file :
          /\ i \in DOMAIN orders_file'
          /\ Identity(orders_file'[i]) = Identity(orders_file[i])
          /\ orders_file[i].order_status \in Past(orders_file'[i].order_status)]_crashVars

\* Units of orders that are cancelled in memory and, after the step, not on file.
Uncancelled(product_id) ==
  SumFunction([k \in DOMAIN g_orders |->
    IF /\ g_orders[k].product_id = product_id
       /\ g_orders[k].order_status = "CANCELLED"
       /\ k \in DOMAIN orders_file'
       /\ orders_file'[k].order_status # "CANCELLED"
    THEN g_orders[k].quantity ELSE 0])

\* A stop before which no save failed gives no product more units than it had,
\* save the units of a cancellation that is caught between its two saves (lines
\* 1145 and 1261): the reservation reaches the file before the order does (lines
\* 987 and 1035).  A product whose row was torn off is gone.  A process that could
\* not read the orders is excepted: the next start may find them again.
StopCreatesNoUnits ==
  [][(StopAndRestart /\ ~missed /\ ~unread /\ ~Writing({"saving_catalogue"}))
     => \A i \in DOMAIN g_products \cap DOMAIN g_products' :
          Units(i)' <= Units(i) + Uncancelled(i)]_crashVars

\* A stop while no worker is saving and memory and file agree costs no units, if
\* the next start reads the files (README.md:31, "Graceful signal-based server
\* shutdown"; retail_server.c:1625).
GracefulStopKeepsUnits ==
  [][(/\ StopAndRestart
      /\ g_db_mutex = NoWorker
      /\ products_file = g_products)
     => \A i \in DOMAIN g_products : Units(i)' = Units(i)]_crashVars
===============================================================================
