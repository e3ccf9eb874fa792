------------------------------ MODULE OrderDesk ------------------------------
(***************************************************************************)
(* The core of retail_server.c: one worker thread per client connection,   *)
(* all of them working on the tables g_products and g_orders under         *)
(* g_db_mutex and saving them to data/products.csv and data/sales.csv.     *)
(*                                                                         *)
(* A handler that changes the tables is a chain of steps.  The first step  *)
(* takes the mutex, makes the handler's checks and changes the tables; the *)
(* next ones write the files, the last of them releasing the mutex.        *)
(* PLACE_ORDER holds the mutex twice: it reserves the units, releases the  *)
(* mutex while a forked process takes the payment, and locks again to      *)
(* record the order or to give the units back.  A request that is refused  *)
(* changes nothing and is a stuttering step.                               *)
(*                                                                         *)
(* Abstracted: prices, categories, timestamps, the wording of the replies, *)
(* the log, and who is logged in on which connection (the user of a        *)
(* request is one of its inputs).                                          *)
(***************************************************************************)
EXTENDS StoreRules, FiniteSetsExt, Functions

CONSTANTS
  Workers,          \* client_worker threads
  NoWorker,         \* the value of g_db_mutex when it is free
  Customers,        \* usernames of customers
  Names,            \* product names, different even when case is ignored
  NewNames,         \* what MODIFY_PRODUCT is sent as the name; "." keeps the old one
  Methods,          \* payment methods that are used
  StockInputs,      \* stock values administrators send
  Quantities,       \* quantities customers order
  MaxProducts,      \* MAX_PRODUCTS
  MaxOrders,        \* MAX_ORDERS
  SavesMayFail,     \* whether a file may fail to be opened for writing
  InitialProducts   \* the table loaded from data/products.csv

ASSUME WorkersAssumption == IsFiniteSet(Workers)
ASSUME NoWorkerAssumption == NoWorker \notin Workers
ASSUME NamesAssumption == "." \notin Names /\ NewNames \subseteq Names \cup {"."}
ASSUME MethodsAssumption == Methods \subseteq PaymentMethods
ASSUME StockAssumption == StockInputs \subseteq 0 .. IntMax
ASSUME QuantitiesAssumption == Quantities \subseteq 1 .. IntMax
ASSUME CapacityAssumption == MaxProducts \in Nat /\ MaxOrders \in Nat
ASSUME SavesAssumption == SavesMayFail \in BOOLEAN

Product == [id : Nat, name : Names, stock : CInt]

ASSUME InitialProductsAssumption ==
  /\ InitialProducts \in Seq(Product)
  /\ Len(InitialProducts) <= MaxProducts
  /\ \A i \in 1 .. Len(InitialProducts) :
       InitialProducts[i].id = i /\ InitialProducts[i].stock >= 0

Order ==
  [id : Nat, username : Customers, product_id : Nat, product_name : Names,
   quantity : Quantities, payment_method : Methods,
   payment_status : PaymentStatuses, order_status : OrderStatuses]

\* The locals of handle_place_order that outlive its first critical section.
Call ==
  [username : Customers, product_id : Nat, product_name : Names,
   quantity : Quantities, payment_method : Methods]

NoCall == [username |-> "none"]

VARIABLES
  g_products, g_orders,         \* the tables in memory
  g_db_mutex,                   \* the worker that holds it, or NoWorker
  products_file, orders_file,   \* the rows of data/products.csv and data/sales.csv
  pc,                           \* where each worker is in its handler
  call                          \* the order each worker is placing, or NoCall

files == <<products_file, orders_file>>
vars == <<g_products, g_orders, g_db_mutex, products_file, orders_file, pc, call>>

\* A worker in one of these holds g_db_mutex ...
LockedSteps ==
  {"saving_reservation", "saving_order", "saving_rollback", "saving_catalogue",
   "saving_update_products", "saving_update_orders"}
\* ... and in one of these it has reserved units and does not hold it.
PaymentSteps == {"paying", "payment_failed", "paid"}
Steps == {"idle"} \cup PaymentSteps \cup LockedSteps

TypeOK ==
  /\ g_products \in Seq(Product)
  /\ g_orders \in Seq(Order)
  /\ g_db_mutex \in Workers \cup {NoWorker}
  /\ products_file \in Seq(Product)
  /\ orders_file \in Seq(Order)
  /\ pc \in [Workers -> Steps]
  /\ call \in [Workers -> Call \cup {NoCall}]

Init ==
  /\ g_products = InitialProducts
  /\ g_orders = << >>
  /\ g_db_mutex = NoWorker
  /\ products_file = InitialProducts
  /\ orders_file = << >>
  /\ pc = [w \in Workers |-> "idle"]
  /\ call = [w \in Workers |-> NoCall]

-----------------------------------------------------------------------------
(* Moving between steps *)

\* pthread_mutex_lock(&g_db_mutex), then a first step that goes on to a save.
LockAndGo(w, from, to) ==
  /\ pc[w] = from
  /\ g_db_mutex = NoWorker
  /\ g_db_mutex' = w
  /\ pc' = [pc EXCEPT ![w] = to]

\* The next save of a handler that keeps the mutex.
Go(w, from, to) ==
  /\ pc[w] = from
  /\ pc' = [pc EXCEPT ![w] = to]
  /\ UNCHANGED g_db_mutex

\* pthread_mutex_unlock(&g_db_mutex) at the end of a critical section.
UnlockAndGo(w, from, to) ==
  /\ pc[w] = from
  /\ g_db_mutex' = NoWorker
  /\ pc' = [pc EXCEPT ![w] = to]

\* The handler gives its reply and the worker waits for the next command.
Forget(w) == call' = [call EXCEPT ![w] = NoCall]

SaveProducts == products_file' = g_products /\ UNCHANGED orders_file
SaveOrders == orders_file' = g_orders /\ UNCHANGED products_file
\* fopen(..., "w") or the lock file's open failed: the save returns 0.
SaveFails == SavesMayFail /\ UNCHANGED files

-----------------------------------------------------------------------------
(* PLACE_ORDER, from the reservation to the payment *)

\* Mutant: the stock is not compared with the quantity.
ReserveUnchecked(w, username, product_id, quantity, method) ==
  \E i \in DOMAIN g_products :
    /\ LockAndGo(w, "idle", "saving_reservation")
    /\ FoundAt(g_products, product_id, i)
    /\ Len(g_orders) < MaxOrders
    /\ g_products' = [g_products EXCEPT ![i].stock = @ - quantity]
    /\ call' = [call EXCEPT ![w] =
                  [username |-> username, product_id |-> product_id,
                   product_name |-> g_products[i].name, quantity |-> quantity,
                   payment_method |-> method]]
    /\ UNCHANGED <<g_orders, files>>

\* Lines 961-985: the product exists, has the units, and there is room.
Reserve(w, username, product_id, quantity, method) ==
  \E i \in DOMAIN g_products :
    /\ LockAndGo(w, "idle", "saving_reservation")
    /\ FoundAt(g_products, product_id, i)
    /\ g_products[i].stock >= quantity
    /\ Len(g_orders) < MaxOrders
    /\ g_products' = [g_products EXCEPT ![i].stock = @ - quantity]
    /\ call' = [call EXCEPT ![w] =
                  [username |-> username, product_id |-> product_id,
                   product_name |-> g_products[i].name, quantity |-> quantity,
                   payment_method |-> method]]
    /\ UNCHANGED <<g_orders, files>>

\* Mutant: the reservation is kept in memory only.
ReservationNotWritten(w) ==
  /\ UnlockAndGo(w, "saving_reservation", "paying")
  /\ UNCHANGED <<g_products, g_orders, files, call>>

ReservationSaved(w) ==
  /\ UnlockAndGo(w, "saving_reservation", "paying")
  /\ SaveProducts
  /\ UNCHANGED <<g_products, g_orders, call>>

\* Mutant: the units of a reservation that could not be saved stay taken.
ReservationLost(w) ==
  /\ UnlockAndGo(w, "saving_reservation", "idle")
  /\ SaveFails
  /\ Forget(w)
  /\ UNCHANGED <<g_products, g_orders>>

\* Mutant: the error path returns without unlocking.
ReservationLeftLocked(w) ==
  /\ Go(w, "saving_reservation", "idle")
  /\ SaveFails
  /\ g_products' = Credit(g_products, call[w].product_id, call[w].quantity)
  /\ Forget(w)
  /\ UNCHANGED g_orders

ReservationNotSaved(w) ==
  /\ UnlockAndGo(w, "saving_reservation", "idle")
  /\ SaveFails
  /\ g_products' = Credit(g_products, call[w].product_id, call[w].quantity)
  /\ Forget(w)
  /\ UNCHANGED g_orders

\* run_payment_process returns, without the mutex.
PaymentSucceeds(w) ==
  /\ Go(w, "paying", "paid")
  /\ UNCHANGED <<g_products, g_orders, files, call>>

PaymentFails(w) ==
  /\ Go(w, "paying", "payment_failed")
  /\ UNCHANGED <<g_products, g_orders, files, call>>

-----------------------------------------------------------------------------
(* PLACE_ORDER, from the payment to the reply *)

\* The units go back to whatever product has the id now, and only then is
\* there a file to save: the rest of the handler's rollbacks.
GiveBack(w, from) ==
  /\ pc[w] = from
  /\ g_db_mutex = NoWorker
  /\ g_products' = Credit(g_products, call[w].product_id, call[w].quantity)
  /\ IF Found(g_products, call[w].product_id)
     THEN LockAndGo(w, from, "saving_rollback")
     ELSE UnlockAndGo(w, from, "idle")
  /\ Forget(w)
  /\ UNCHANGED <<g_orders, files>>

\* The payment failed.
AbandonPayment(w) == GiveBack(w, "payment_failed")

\* Mutant: a full table is reported and the units are kept.
RefuseAndKeepUnits(w) ==
  /\ Len(g_orders) >= MaxOrders
  /\ pc[w] = "paid"
  /\ g_db_mutex = NoWorker
  /\ pc' = [pc EXCEPT ![w] = "idle"]
  /\ Forget(w)
  /\ UNCHANGED <<g_products, g_orders, g_db_mutex, files>>

\* The payment succeeded and the table has filled up in the meantime.
RefuseAtCapacity(w) ==
  /\ Len(g_orders) >= MaxOrders
  /\ GiveBack(w, "paid")

NewOrder(w, id) ==
  [id |-> id, username |-> call[w].username,
   product_id |-> call[w].product_id, product_name |-> call[w].product_name,
   quantity |-> call[w].quantity, payment_method |-> call[w].payment_method,
   payment_status |-> PaymentResult(call[w].payment_method),
   order_status |-> "PLACED"]

\* Mutant: room for the order is only checked before the payment.
RecordUnchecked(w) ==
  /\ LockAndGo(w, "paid", "saving_order")
  /\ \E id \in NextIds(g_orders) : g_orders' = Append(g_orders, NewOrder(w, id))
  /\ UNCHANGED <<g_products, files, call>>

RecordOrder(w) ==
  /\ LockAndGo(w, "paid", "saving_order")
  /\ Len(g_orders) < MaxOrders
  /\ \E id \in NextIds(g_orders) : g_orders' = Append(g_orders, NewOrder(w, id))
  /\ UNCHANGED <<g_products, files, call>>

\* OK ORDER_PLACED
OrderSaved(w) ==
  /\ UnlockAndGo(w, "saving_order", "idle")
  /\ SaveOrders
  /\ Forget(w)
  /\ UNCHANGED <<g_products, g_orders>>

\* Mutant: the units go back and the order stays in the table.
OrderNotDropped(w) ==
  /\ pc[w] = "saving_order"
  /\ IF Found(g_products, call[w].product_id)
     THEN Go(w, "saving_order", "saving_rollback")
     ELSE UnlockAndGo(w, "saving_order", "idle")
  /\ SaveFails
  /\ g_products' = Credit(g_products, call[w].product_id, call[w].quantity)
  /\ UNCHANGED g_orders
  /\ Forget(w)

\* ERR Failed to save order: the units go back and the order is dropped.
OrderNotSaved(w) ==
  /\ pc[w] = "saving_order"
  /\ IF Found(g_products, call[w].product_id)
     THEN Go(w, "saving_order", "saving_rollback")
     ELSE UnlockAndGo(w, "saving_order", "idle")
  /\ SaveFails
  /\ g_products' = Credit(g_products, call[w].product_id, call[w].quantity)
  /\ g_orders' = SubSeq(g_orders, 1, Len(g_orders) - 1)
  /\ Forget(w)

\* The result of this save is not looked at.
RollbackEnds(w) ==
  /\ UnlockAndGo(w, "saving_rollback", "idle")
  /\ SaveProducts \/ SaveFails
  /\ UNCHANGED <<g_products, g_orders, call>>

-----------------------------------------------------------------------------
(* CANCEL_ORDER and UPDATE_ORDER *)

\* Both handlers cancel the order at row i and return its units in memory.
CancelAndRestock(w, i) ==
  /\ LockAndGo(w, "idle", "saving_update_products")
  /\ g_orders[i].order_status \in Cancellable
  /\ g_orders' = [g_orders EXCEPT ![i] = Cancelled(@)]
  /\ g_products' = Credit(g_products, g_orders[i].product_id, g_orders[i].quantity)
  /\ UNCHANGED <<files, call>>

CancelOrder(w, username, order_id) ==
  \E i \in DOMAIN g_orders :
    /\ FoundAt(g_orders, order_id, i)
    /\ g_orders[i].username = username
    /\ CancelAndRestock(w, i)

UpdateToCancelled(w, order_id) ==
  \E i \in DOMAIN g_orders :
    /\ FoundAt(g_orders, order_id, i)
    /\ CancelAndRestock(w, i)

UpdateToNext(w, order_id, next) ==
  \E i \in DOMAIN g_orders :
    /\ LockAndGo(w, "idle", "saving_update_products")
    /\ FoundAt(g_orders, order_id, i)
    /\ next # "CANCELLED"
    /\ ValidTransition(g_orders[i].order_status, next)
    /\ g_orders' = [g_orders EXCEPT ![i] = Advanced(@, next)]
    /\ UNCHANGED <<g_products, files, call>>

\* save_products_locked() || save_orders_locked(): the second is tried only
\* after the first, and a failure of either leaves the tables changed.
UpdateProductsSaved(w) ==
  /\ Go(w, "saving_update_products", "saving_update_orders")
  /\ SaveProducts
  /\ UNCHANGED <<g_products, g_orders, call>>

UpdateProductsNotSaved(w) ==
  /\ UnlockAndGo(w, "saving_update_products", "idle")
  /\ SaveFails
  /\ UNCHANGED <<g_products, g_orders, call>>

UpdateEnds(w) ==
  /\ UnlockAndGo(w, "saving_update_orders", "idle")
  /\ SaveOrders \/ SaveFails
  /\ UNCHANGED <<g_products, g_orders, call>>

-----------------------------------------------------------------------------
(* The administrator's catalogue *)

AddProduct(w, name, stock) ==
  /\ LockAndGo(w, "idle", "saving_catalogue")
  /\ Len(g_products) < MaxProducts
  /\ \A i \in DOMAIN g_products : g_products[i].name # name
  /\ \E id \in NextIds(g_products) :
       g_products' = Append(g_products, [id |-> id, name |-> name, stock |-> stock])
  /\ UNCHANGED <<g_orders, files, call>>

\* Mutant: "." is taken for the new name.
ModifiedToDot(product, name, stock) ==
  [product EXCEPT !.name = name,
                  !.stock = IF stock = -1 THEN @ ELSE stock]

\* "." and -1 keep what is there.
Modified(product, name, stock) ==
  [product EXCEPT !.name = IF name = "." THEN @ ELSE name,
                  !.stock = IF stock = -1 THEN @ ELSE stock]

ModifyProduct(w, product_id, name, stock) ==
  \E i \in DOMAIN g_products :
    /\ LockAndGo(w, "idle", "saving_catalogue")
    /\ FoundAt(g_products, product_id, i)
    /\ g_products' = [g_products EXCEPT ![i] = Modified(@, name, stock)]
    /\ UNCHANGED <<g_orders, files, call>>

DeleteProduct(w, product_id) ==
  \E i \in DOMAIN g_products :
    /\ LockAndGo(w, "idle", "saving_catalogue")
    /\ FoundAt(g_products, product_id, i)
    /\ g_products' = DeleteAndRenumber(g_products, i)
    /\ UNCHANGED <<g_orders, files, call>>

\* A failed save is reported and the table stays changed.
CatalogueEnds(w) ==
  /\ UnlockAndGo(w, "saving_catalogue", "idle")
  /\ SaveProducts \/ SaveFails
  /\ UNCHANGED <<g_products, g_orders, call>>

-----------------------------------------------------------------------------
CustomerRequest(w) ==
  \E username \in Customers :
    \/ \E product_id \in 1 .. MaxProducts, quantity \in Quantities, method \in Methods :
         Reserve(w, username, product_id, quantity, method)
    \/ \E order_id \in 1 .. MaxOrders : CancelOrder(w, username, order_id)

OrderRequest(w) ==
  \E order_id \in 1 .. MaxOrders :
    \/ UpdateToCancelled(w, order_id)
    \/ \E next \in OrderStatuses \ {"PLACED"} : UpdateToNext(w, order_id, next)

CatalogueRequest(w) ==
  \/ \E name \in Names, stock \in StockInputs : AddProduct(w, name, stock)
  \/ \E product_id \in 1 .. MaxProducts :
       \/ \E name \in NewNames, stock \in StockInputs \cup {-1} :
            ModifyProduct(w, product_id, name, stock)
       \/ DeleteProduct(w, product_id)

\* The second critical section of PLACE_ORDER begins.
SecondLock(w) == AbandonPayment(w) \/ RefuseAtCapacity(w) \/ RecordOrder(w)

\* What a worker inside a handler goes on to do without waiting for anybody.
GoOn(w) ==
  \/ ReservationSaved(w) \/ ReservationNotSaved(w)
  \/ PaymentSucceeds(w) \/ PaymentFails(w)
  \/ OrderSaved(w) \/ OrderNotSaved(w) \/ RollbackEnds(w)
  \/ UpdateProductsSaved(w) \/ UpdateProductsNotSaved(w) \/ UpdateEnds(w)
  \/ CatalogueEnds(w)

Worker(w) ==
  \/ CustomerRequest(w) \/ OrderRequest(w) \/ CatalogueRequest(w)
  \/ SecondLock(w) \/ GoOn(w)

Next == \E w \in Workers : Worker(w)

Spec == Init /\ [][Next]_vars

\* The threads are scheduled, the payment process and the file system answer,
\* and a thread that waits for a mutex which keeps being released gets it.  SF(
\* SecondLock) supposes that g_db_mutex does keep being released: here only the
\* handlers of the desk hold it, and they wait for nobody.  A listing holds it
\* while it sends (lines 897-920), so a client that stops reading one in the middle
\* keeps it for ever; ServerLocks has the listings, and such clients in Stalling.
Fairness == \A w \in Workers : WF_vars(GoOn(w)) /\ SF_vars(SecondLock(w))

FairSpec == Spec /\ Fairness

-----------------------------------------------------------------------------
(* Safety *)

\* A worker is inside a critical section exactly when it holds g_db_mutex, so
\* no two of them are: the saves of two handlers never interleave (lines 74-75).
MutexInv ==
  \A w \in Workers : (pc[w] \in LockedSteps) <=> (g_db_mutex = w)

\* Products are numbered 1, 2, 3, ... in the table and in the file, whatever is
\* added and deleted and whichever save fails, so that every id a customer reads
\* from the list names one product (lines 841-895, docs/DESIGN.md:35).
ProductIdsSequential ==
  /\ \A i \in DOMAIN g_products : g_products[i].id = i
  /\ \A i \in DOMAIN products_file : products_file[i].id = i

\* No two orders, in memory or acknowledged on file, share an id, although an
\* order that could not be saved gives its id back (lines 475-486, 1035-1044).
OrderIdsUnique ==
  /\ \A i, j \in DOMAIN g_orders : i < j => g_orders[i].id < g_orders[j].id
  /\ \A i, j \in DOMAIN orders_file : i < j => orders_file[i].id < orders_file[j].id

\* Neither table outgrows its array, although the room for an order is checked
\* before the payment and may be gone after it (lines 976 and 1010).
CapacityRespected ==
  Len(g_products) <= MaxProducts /\ Len(g_orders) <= MaxOrders

\* What the payment column says fits the status of the order and its method, in
\* memory and on file (docs/DESIGN.md, section 6).
PaymentFits(order) ==
  LET cash == order.payment_method = "COD"
  IN  order.payment_status =
        CASE order.order_status = "CANCELLED" -> IF cash THEN "CANCELLED" ELSE "REFUND_INITIATED"
          [] order.order_status = "DELIVERED" -> "PAID"
          [] OTHER -> IF cash THEN "PENDING" ELSE "PAID"

PaymentMatchesStatus ==
  /\ \A i \in DOMAIN g_orders : PaymentFits(g_orders[i])
  /\ \A i \in DOMAIN orders_file : PaymentFits(orders_file[i])

\* What of an order is settled when it is recorded.
Identity(order) ==
  <<order.id, order.username, order.product_id, order.product_name,
    order.quantity, order.payment_method>>

\* The statuses an order can have gone through on the way to a status.
Past(status) ==
  CASE status = "PLACED"    -> {"PLACED"}
    [] status = "CONFIRMED" -> {"PLACED", "CONFIRMED"}
    [] status = "SHIPPED"   -> {"PLACED", "CONFIRMED", "SHIPPED"}
    [] status = "DELIVERED" -> {"PLACED", "CONFIRMED", "SHIPPED", "DELIVERED"}
    [] status = "CANCELLED" -> {"PLACED", "CONFIRMED", "CANCELLED"}

\* An order that is being saved for the first time is not promised to anybody.
Saving == \E w \in Workers : pc[w] = "saving_order"
Promised == IF Saving THEN Len(g_orders) - 1 ELSE Len(g_orders)

\* data/sales.csv holds exactly the orders the customers were told of, and each
\* of its rows is the order in memory or an earlier state of it: failed saves
\* leave the file behind, never ahead and never short of an order.
OrdersOnFile ==
  /\ Len(orders_file) = Promised
  /\ \A i \in DOMAIN orders_file :
       /\ Identity(orders_file[i]) = Identity(g_orders[i])
       /\ orders_file[i].order_status \in Past(g_orders[i].order_status)

-----------------------------------------------------------------------------
(* What a step may never do *)

\* Orders are never rewritten or lost: an order keeps its identity, its status
\* only moves along the arrows of docs/DESIGN.md section 5, and the only order
\* that may disappear is one whose first save failed before it was promised.
OrderLifecycle ==
  [][/\ Len(g_orders') >= Promised
     /\ \A i \in 1 .. Promised :
          /\ Identity(g_orders'[i]) = Identity(g_orders[i])
          /\ \/ g_orders'[i] = g_orders[i]
             \/ ValidTransition(g_orders[i].order_status, g_orders'[i].order_status)
    ]_vars

\* Whether an administrator's change of the catalogue is what the step does.
CatalogueStep == \E w \in Workers : pc[w] = "idle" /\ pc'[w] = "saving_catalogue"

\* The units of a product that exist: on the shelf, reserved by orders being
\* placed, and sold by orders that are not cancelled.
Held(w, product_id) ==
  IF /\ pc[w] \in PaymentSteps \cup {"saving_reservation"}
     /\ call[w].product_id = product_id
  THEN call[w].quantity ELSE 0

Ordered(order, product_id) ==
  IF order.product_id = product_id /\ order.order_status # "CANCELLED"
  THEN order.quantity ELSE 0

Reserved(product_id) == SumFunction([w \in Workers |-> Held(w, product_id)])
Sold(product_id) ==
  SumFunction([k \in DOMAIN g_orders |-> Ordered(g_orders[k], product_id)])

Units(i) == g_products[i].stock + Reserved(i) + Sold(i)

\* Placing, paying, failing to pay or to save, cancelling and updating orders
\* create and destroy no unit of any product, in any interleaving: two customers
\* never get the last one and every unit that is not sold comes back once.  Units
\* that an int cannot hold are lost when they come back (lines 1000 and 1142).
UnitsConserved ==
  [][\/ CatalogueStep
     \/ \A i \in DOMAIN g_products : Units(i) <= IntMax => Units(i)' = Units(i)]_vars

\* As long as an int holds the units of every product, no stock is ever negative
\* (what ADD_PRODUCT and MODIFY_PRODUCT refuse to enter, lines 717 and 798): two
\* customers never both get the last unit.  A stock that overflows does turn
\* negative.
StockNonNegative == \A i \in DOMAIN g_products : g_products[i].stock >= 0

\* Cancelling an order puts its units back on the product that was ordered and on
\* no other one (README.md:23, "Real-time stock update when order is
\* placed/cancelled").  The handlers go by the id the product had at the time.
CancelRestocksItsProduct ==
  [][\A i \in DOMAIN g_orders :
       (/\ g_orders[i].order_status # "CANCELLED"
        /\ i \in DOMAIN g_orders'
        /\ g_orders'[i].order_status = "CANCELLED")
       => \A k \in DOMAIN g_products :
            g_products'[k].stock # g_products[k].stock
              => g_products[k].name = g_orders[i].product_name]_vars

-----------------------------------------------------------------------------
(* Liveness *)

\* Every reservation is settled, with the order recorded or the units given back,
\* although the others compete for the mutex and any save or payment may fail, as
\* long as no client of a listing stops reading (see Fairness): the worker would
\* wait at line 997 or 1008 for the mutex which that listing keeps.
ReservationSettled == \A w \in Workers : (pc[w] = "paying") ~> (pc[w] = "idle")
==============================================================================
