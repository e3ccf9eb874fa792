--------------------------- MODULE OrderDesk_proofs ---------------------------
(***************************************************************************)
(* Proofs about OrderDesk, for every number of workers, every capacity and *)
(* every set of inputs the assumptions of OrderDesk allow: its invariants, *)
(* that it implements OrderBook and, at the end, that no step but a change *)
(* of the catalogue creates or destroys units and no stock is negative, as *)
(* long as an int holds them.  That part needs sums over finite sets,      *)
(* whose recursion is unfolded by least counterexamples: the first natural *)
(* number for which a fact about sets of that size fails.                  *)
(***************************************************************************)
EXTENDS OrderDeskRefinement, SequenceTheorems, FiniteSetTheorems, TLAPS

-----------------------------------------------------------------------------
(* What the operators of StoreRules return *)

\* An addition to an int leaves an int, wrapped or not (lines 1000, 1142).
LEMMA AddIntType ==
  ASSUME NEW a \in CInt, NEW b \in CInt
  PROVE  AddInt(a, b) \in CInt
  BY IntMaxAssumption DEF AddInt, CInt

\* Giving units back keeps the rows of the table and their ids.
LEMMA CreditShape ==
  ASSUME NEW table \in Seq(Product), NEW product_id, NEW quantity \in Quantities
  PROVE  /\ Credit(table, product_id, quantity) \in Seq(Product)
         /\ Len(Credit(table, product_id, quantity)) = Len(table)
         /\ \A i \in 1 .. Len(table) :
              Credit(table, product_id, quantity)[i].id = table[i].id
<1> DEFINE credited == Credit(table, product_id, quantity)
<1>1. DOMAIN table = 1 .. Len(table)
  OBVIOUS
<1>2. quantity \in CInt
  BY QuantitiesAssumption, IntMaxAssumption DEF CInt
<1>3. \A i \in 1 .. Len(table) : credited[i] \in Product /\ credited[i].id = table[i].id
  <2> SUFFICES ASSUME NEW i \in 1 .. Len(table)
               PROVE  credited[i] \in Product /\ credited[i].id = table[i].id
    OBVIOUS
  <2>1. table[i] \in Product
    OBVIOUS
  <2>2. AddInt(table[i].stock, quantity) \in CInt
    BY <2>1, <1>2, AddIntType DEF Product
  <2>3. credited[i] = table[i] \/
        credited[i] = [table[i] EXCEPT !.stock = AddInt(table[i].stock, quantity)]
    BY <1>1 DEF Credit
  <2> QED
    BY <2>1, <2>2, <2>3 DEF Product
<1>4. credited = [i \in 1 .. Len(table) |-> credited[i]]
  BY <1>1 DEF Credit
<1>5. credited \in [1 .. Len(table) -> Product]
  BY <1>3, <1>4
<1>6. credited \in Seq(Product) /\ Len(credited) = Len(table)
  BY <1>5
<1> QED
  BY <1>3, <1>6

\* A new row gets a natural number above every id of the table.
LEMMA NextIdsAbove ==
  ASSUME NEW S, NEW table \in Seq(S), \A row \in S : row.id \in Nat,
         NEW id \in NextIds(table)
  PROVE  id \in Nat \ {0} /\ \A i \in 1 .. Len(table) : table[i].id < id
<1>1. DOMAIN table = 1 .. Len(table)
  OBVIOUS
<1>2. \A i \in DOMAIN table : table[i].id \in Nat
  BY <1>1
<1> QED
  BY <1>1, <1>2 DEF NextIds

\* Deleting a row leaves rows that are numbered 1, 2, 3, ...
LEMMA DeleteShape ==
  ASSUME NEW table \in Seq(Product), NEW idx \in 1 .. Len(table)
  PROVE  /\ DeleteAndRenumber(table, idx) \in Seq(Product)
         /\ Len(DeleteAndRenumber(table, idx)) = Len(table) - 1
         /\ \A i \in 1 .. Len(table) - 1 : DeleteAndRenumber(table, idx)[i].id = i
<1> DEFINE shorter == DeleteAndRenumber(table, idx)
<1>1. \A i \in 1 .. Len(table) - 1 : shorter[i] \in Product /\ shorter[i].id = i
  <2> SUFFICES ASSUME NEW i \in 1 .. Len(table) - 1
               PROVE  shorter[i] \in Product /\ shorter[i].id = i
    OBVIOUS
  <2> DEFINE row == IF i < idx THEN table[i] ELSE table[i + 1]
  <2>1. row \in Product
    OBVIOUS
  <2>2. shorter[i] = [row EXCEPT !.id = i]
    BY DEF DeleteAndRenumber
  <2> HIDE DEF row
  <2> QED
    BY <2>1, <2>2 DEF Product
<1>2. shorter = [i \in 1 .. Len(table) - 1 |-> shorter[i]]
  BY DEF DeleteAndRenumber
<1>3. shorter \in [1 .. Len(table) - 1 -> Product]
  BY <1>1, <1>2
<1>4. Len(table) - 1 \in Nat
  OBVIOUS
<1>5. shorter \in Seq(Product) /\ Len(shorter) = Len(table) - 1
  BY <1>3, <1>4
<1> QED
  BY <1>1, <1>5

-----------------------------------------------------------------------------
(* Types *)

\* A worker that is placing an order knows which one.  TypeOK needs it: the
\* second critical section of PLACE_ORDER works on the locals of the first.
Placing == PaymentSteps \cup {"saving_reservation", "saving_order"}
CallInv == \A w \in Workers : pc[w] \in Placing => call[w] \in Call

TypeInv == TypeOK /\ CallInv

\* The changes an action makes to one order keep it an order.
LEMMA OrderShape ==
  ASSUME NEW order \in Order, NEW next \in OrderStatuses
  PROVE  Cancelled(order) \in Order /\ Advanced(order, next) \in Order
<1>1. Cancelled(order) \in Order
  BY DEF Cancelled, Order, OrderStatuses, PaymentStatuses
<1>2. Advanced(order, next) \in Order
  BY DEF Advanced, Order, OrderStatuses, PaymentStatuses
<1> QED
  BY <1>1, <1>2

\* An order made of a worker's locals is an order.
LEMMA NewOrderType ==
  ASSUME NEW w \in Workers, call[w] \in Call, NEW id \in Nat
  PROVE  NewOrder(w, id) \in Order
  BY MethodsAssumption
     DEF NewOrder, Order, Call, PaymentResult, PaymentStatuses, OrderStatuses

\* The tables loaded at the start have their types.
LEMMA TypeInit == Init => TypeInv
<1> SUFFICES ASSUME Init PROVE TypeInv
  OBVIOUS
<1>1. InitialProducts \in Seq(Product)
  BY InitialProductsAssumption
<1>2. g_orders \in Seq(Order) /\ orders_file \in Seq(Order)
  BY DEF Init
<1> QED
  BY <1>1, <1>2 DEF Init, TypeInv, TypeOK, CallInv, Steps, Placing, PaymentSteps

\* Moving between steps keeps the mutex and pc in their types.
LEMMA MoveTypes ==
  ASSUME TypeInv, NEW w \in Workers, NEW from, NEW to \in Steps,
         LockAndGo(w, from, to) \/ Go(w, from, to) \/ UnlockAndGo(w, from, to)
  PROVE  /\ g_db_mutex' \in Workers \cup {NoWorker}
         /\ pc' \in [Workers -> Steps]
         /\ pc[w] = from /\ pc'[w] = to
         /\ \A v \in Workers \ {w} : pc'[v] = pc[v]
  BY DEF TypeInv, TypeOK, LockAndGo, Go, UnlockAndGo

\* A save, made or failed, leaves typed tables in the files.
LEMMA FilesTypes ==
  ASSUME TypeInv, SaveProducts \/ SaveOrders \/ SaveFails \/ UNCHANGED files
  PROVE  products_file' \in Seq(Product) /\ orders_file' \in Seq(Order)
  BY DEF TypeInv, TypeOK, SaveProducts, SaveOrders, SaveFails, files

\* The steps before and in the payment.
LEMMA ReserveType ==
  ASSUME TypeInv, NEW w \in Workers, NEW username \in Customers,
         NEW product_id \in Nat, NEW quantity \in Quantities, NEW method \in Methods,
         Reserve(w, username, product_id, quantity, method)
  PROVE  TypeInv'
<1> PICK i \in DOMAIN g_products :
      /\ LockAndGo(w, "idle", "saving_reservation")
      /\ g_products[i].stock >= quantity
      /\ g_products' = [g_products EXCEPT ![i].stock = @ - quantity]
      /\ call' = [call EXCEPT ![w] =
                    [username |-> username, product_id |-> product_id,
                     product_name |-> g_products[i].name, quantity |-> quantity,
                     payment_method |-> method]]
      /\ UNCHANGED <<g_orders, files>>
  BY DEF Reserve
<1>1. g_products \in Seq(Product) /\ g_products[i] \in Product
  BY DEF TypeInv, TypeOK
<1>2. [g_products[i] EXCEPT !.stock = @ - quantity] \in Product
  <2>1. g_products[i].stock - quantity \in CInt
    BY <1>1, QuantitiesAssumption, IntMaxAssumption DEF Product, CInt
  <2> QED
    BY <1>1, <2>1 DEF Product
<1>3. g_products' \in Seq(Product)
  BY <1>1, <1>2
<1>4. call' \in [Workers -> Call \cup {NoCall}] /\ call'[w] \in Call
      /\ \A v \in Workers \ {w} : call'[v] = call[v]
  BY <1>1 DEF TypeInv, TypeOK, Call, Product
<1>5. /\ g_db_mutex' \in Workers \cup {NoWorker}
      /\ pc' \in [Workers -> Steps]
      /\ \A v \in Workers \ {w} : pc'[v] = pc[v]
  BY MoveTypes DEF Steps, LockedSteps
<1> QED
  BY <1>3, <1>4, <1>5, FilesTypes DEF TypeInv, TypeOK, CallInv

\* Giving a worker's units back is a change of the table that keeps its type.
LEMMA CallCreditType ==
  ASSUME TypeInv, NEW w \in Workers, pc[w] \in Placing
  PROVE  Credit(g_products, call[w].product_id, call[w].quantity) \in Seq(Product)
  BY CreditShape DEF TypeInv, TypeOK, CallInv, Call

\* A handler that has replied no longer needs its locals.
LEMMA ForgetType ==
  ASSUME TypeInv, NEW w \in Workers, Forget(w),
         pc'[w] \notin Placing, \A v \in Workers \ {w} : pc'[v] = pc[v]
  PROVE  call' \in [Workers -> Call \cup {NoCall}] /\ CallInv'
  BY DEF TypeInv, TypeOK, CallInv, Forget

\* Giving the units of a failed payment back, or of an order without room.
LEMMA GiveBackType ==
  ASSUME TypeInv, NEW w \in Workers, NEW from \in PaymentSteps, GiveBack(w, from)
  PROVE  TypeInv'
<1> DEFINE to == IF Found(g_products, call[w].product_id) THEN "saving_rollback" ELSE "idle"
<1>1. LockAndGo(w, from, to) \/ UnlockAndGo(w, from, to)
  BY DEF GiveBack
<1>2. to \in Steps \ Placing
  BY DEF Steps, LockedSteps, Placing, PaymentSteps
<1> HIDE DEF to
<1>3. /\ g_db_mutex' \in Workers \cup {NoWorker}
      /\ pc' \in [Workers -> Steps]
      /\ pc[w] = from /\ pc'[w] = to
      /\ \A v \in Workers \ {w} : pc'[v] = pc[v]
  BY <1>1, <1>2, MoveTypes
<1>4. g_products' \in Seq(Product)
  BY <1>3, CallCreditType DEF GiveBack, Placing
<1>5. call' \in [Workers -> Call \cup {NoCall}] /\ CallInv'
  BY <1>2, <1>3, ForgetType DEF GiveBack
<1>6. g_orders' = g_orders /\ UNCHANGED files
  BY DEF GiveBack
<1> QED
  BY <1>3, <1>4, <1>5, <1>6, FilesTypes DEF TypeInv, TypeOK

\* The customers' requests and what follows them.
LEMMA CustomerRequestType ==
  ASSUME TypeInv, NEW w \in Workers, CustomerRequest(w) \/ OrderRequest(w)
  PROVE  TypeInv'
<1>1. CASE \E u \in Customers, id \in 1 .. MaxProducts, q \in Quantities, m \in Methods :
             Reserve(w, u, id, q, m)
  BY <1>1, CapacityAssumption, ReserveType
<1>2. CASE \E j \in DOMAIN g_orders : CancelAndRestock(w, j)
  <2> PICK j \in DOMAIN g_orders : CancelAndRestock(w, j)
    BY <1>2
  <2>1. g_orders \in Seq(Order) /\ g_products \in Seq(Product) /\ g_orders[j] \in Order
    BY DEF TypeInv, TypeOK
  <2>2. Cancelled(g_orders[j]) \in Order
    BY <2>1, OrderShape DEF OrderStatuses
  <2>3. g_orders' \in Seq(Order)
    BY <2>1, <2>2 DEF CancelAndRestock
  <2>4. g_products' \in Seq(Product)
    BY <2>1, CreditShape DEF CancelAndRestock, Order
  <2>5. LockAndGo(w, "idle", "saving_update_products") /\ UNCHANGED <<files, call>>
    BY DEF CancelAndRestock
  <2> QED
    BY <2>3, <2>4, <2>5, MoveTypes, FilesTypes
       DEF TypeInv, TypeOK, CallInv, Steps, LockedSteps, Placing, PaymentSteps
<1>3. CASE \E order_id \in 1 .. MaxOrders, next \in OrderStatuses : UpdateToNext(w, order_id, next)
  <2> PICK next \in OrderStatuses, j \in DOMAIN g_orders :
        /\ LockAndGo(w, "idle", "saving_update_products")
        /\ g_orders' = [g_orders EXCEPT ![j] = Advanced(@, next)]
        /\ UNCHANGED <<g_products, files, call>>
    BY <1>3 DEF UpdateToNext
  <2>1. g_orders \in Seq(Order) /\ g_orders[j] \in Order
    BY DEF TypeInv, TypeOK
  <2>2. Advanced(g_orders[j], next) \in Order
    BY <2>1, OrderShape
  <2>3. g_orders' \in Seq(Order)
    BY <2>1, <2>2
  <2> QED
    BY <2>3, MoveTypes, FilesTypes
       DEF TypeInv, TypeOK, CallInv, Steps, LockedSteps, Placing, PaymentSteps
<1> QED
  BY <1>1, <1>2, <1>3 DEF CustomerRequest, OrderRequest, CancelOrder, UpdateToCancelled

\* The catalogue.
LEMMA CatalogueRequestType ==
  ASSUME TypeInv, NEW w \in Workers, CatalogueRequest(w)
  PROVE  TypeInv'
<1> DEFINE Locked == LockAndGo(w, "idle", "saving_catalogue")
                     /\ UNCHANGED <<g_orders, files, call>>
<1>0. g_products \in Seq(Product) /\ \A i \in DOMAIN g_products : g_products[i] \in Product
  BY DEF TypeInv, TypeOK
<1>1. ASSUME NEW name \in Names, NEW stock \in StockInputs, AddProduct(w, name, stock)
      PROVE  g_products' \in Seq(Product) /\ Locked
  <2> PICK id \in NextIds(g_products) :
        g_products' = Append(g_products, [id |-> id, name |-> name, stock |-> stock])
    BY <1>1 DEF AddProduct
  <2>1. id \in Nat
    <3>1. \A row \in Product : row.id \in Nat
      BY DEF Product
    <3> QED
      BY <1>0, <3>1, NextIdsAbove
  <2>2. stock \in CInt
    BY StockAssumption, IntMaxAssumption DEF CInt
  <2>3. [id |-> id, name |-> name, stock |-> stock] \in Product
    BY <2>1, <2>2 DEF Product
  <2> QED
    BY <1>0, <1>1, <2>3 DEF AddProduct
<1>2. ASSUME NEW product_id \in Nat, NEW name \in NewNames, NEW stock \in StockInputs \cup {-1},
             ModifyProduct(w, product_id, name, stock)
      PROVE  g_products' \in Seq(Product) /\ Locked
  <2> PICK i \in DOMAIN g_products :
        g_products' = [g_products EXCEPT ![i] = Modified(@, name, stock)]
    BY <1>2 DEF ModifyProduct
  <2>1. Modified(g_products[i], name, stock) \in Product
    <3>1. stock # -1 => stock \in CInt
      BY StockAssumption, IntMaxAssumption DEF CInt
    <3>2. name # "." => name \in Names
      BY NamesAssumption
    <3> QED
      BY <1>0, <3>1, <3>2 DEF Product, Modified
  <2>2. g_products' \in Seq(Product)
    BY <1>0, <2>1
  <2> QED
    BY <1>2, <2>2 DEF ModifyProduct
<1>3. ASSUME NEW product_id \in Nat, DeleteProduct(w, product_id)
      PROVE  g_products' \in Seq(Product) /\ Locked
  BY <1>0, <1>3, DeleteShape DEF DeleteProduct
<1>4. g_products' \in Seq(Product) /\ Locked
  BY <1>1, <1>2, <1>3, CapacityAssumption DEF CatalogueRequest
<1> QED
  BY <1>4, MoveTypes, FilesTypes
     DEF TypeInv, TypeOK, CallInv, Steps, LockedSteps, Placing, PaymentSteps

\* The second critical section of PLACE_ORDER.
LEMMA SecondLockType ==
  ASSUME TypeInv, NEW w \in Workers, SecondLock(w)
  PROVE  TypeInv'
<1>1. CASE AbandonPayment(w) \/ RefuseAtCapacity(w)
  BY <1>1, GiveBackType DEF AbandonPayment, RefuseAtCapacity, PaymentSteps
<1>2. CASE RecordOrder(w)
  <2> PICK id \in NextIds(g_orders) : g_orders' = Append(g_orders, NewOrder(w, id))
    BY <1>2 DEF RecordOrder
  <2>1. LockAndGo(w, "paid", "saving_order") /\ UNCHANGED <<g_products, files, call>>
    BY <1>2 DEF RecordOrder
  <2>2. call[w] \in Call
    BY <2>1 DEF TypeInv, CallInv, LockAndGo, Placing, PaymentSteps
  <2>3. g_orders \in Seq(Order) /\ \A order \in Order : order.id \in Nat
    BY DEF TypeInv, TypeOK, Order
  <2>4. id \in Nat
    BY <2>3, NextIdsAbove
  <2>5. g_orders' \in Seq(Order)
    BY <2>2, <2>3, <2>4, NewOrderType
  <2> QED
    BY <2>1, <2>2, <2>5, MoveTypes, FilesTypes
       DEF TypeInv, TypeOK, CallInv, Steps, LockedSteps, Placing, PaymentSteps
<1> QED
  BY <1>1, <1>2 DEF SecondLock

\* The steps of a worker inside a handler.
LEMMA GoOnType ==
  ASSUME TypeInv, NEW w \in Workers, GoOn(w)
  PROVE  TypeInv'
<1> USE DEF Steps, LockedSteps, Placing, PaymentSteps
<1>1. CASE ReservationSaved(w)
  <2>1. UnlockAndGo(w, "saving_reservation", "paying") /\ SaveProducts
        /\ UNCHANGED <<g_products, g_orders, call>>
    BY <1>1 DEF ReservationSaved
  <2> QED
    BY <2>1, MoveTypes, FilesTypes DEF TypeInv, TypeOK, CallInv
<1>2. CASE ReservationNotSaved(w)
  <2>1. UnlockAndGo(w, "saving_reservation", "idle") /\ SaveFails /\ Forget(w)
        /\ UNCHANGED g_orders
    BY <1>2 DEF ReservationNotSaved
  <2>2. /\ g_db_mutex' \in Workers \cup {NoWorker}
        /\ pc' \in [Workers -> Steps]
        /\ pc[w] = "saving_reservation" /\ pc'[w] = "idle"
        /\ \A v \in Workers \ {w} : pc'[v] = pc[v]
    BY <2>1, MoveTypes
  <2>3. g_products' \in Seq(Product)
    BY <1>2, <2>2, CallCreditType DEF ReservationNotSaved
  <2>4. call' \in [Workers -> Call \cup {NoCall}] /\ CallInv'
    BY <2>1, <2>2, ForgetType
  <2> QED
    BY <2>1, <2>2, <2>3, <2>4, FilesTypes DEF TypeInv, TypeOK
<1>3. CASE PaymentSucceeds(w) \/ PaymentFails(w)
  <2>1. PICK to \in {"paid", "payment_failed"} :
          Go(w, "paying", to) /\ UNCHANGED <<g_products, g_orders, files, call>>
    BY <1>3 DEF PaymentSucceeds, PaymentFails
  <2> QED
    BY <2>1, MoveTypes, FilesTypes DEF TypeInv, TypeOK, CallInv
<1>4. CASE OrderSaved(w)
  <2>1. UnlockAndGo(w, "saving_order", "idle") /\ SaveOrders /\ Forget(w)
        /\ UNCHANGED <<g_products, g_orders>>
    BY <1>4 DEF OrderSaved
  <2>2. /\ g_db_mutex' \in Workers \cup {NoWorker}
        /\ pc' \in [Workers -> Steps]
        /\ pc'[w] = "idle"
        /\ \A v \in Workers \ {w} : pc'[v] = pc[v]
    BY <2>1, MoveTypes
  <2>3. call' \in [Workers -> Call \cup {NoCall}] /\ CallInv'
    BY <2>1, <2>2, ForgetType
  <2> QED
    BY <2>1, <2>2, <2>3, FilesTypes DEF TypeInv, TypeOK
<1>5. CASE OrderNotSaved(w)
  <2>1. PICK to \in {"saving_rollback", "idle"} :
          Go(w, "saving_order", to) \/ UnlockAndGo(w, "saving_order", to)
    BY <1>5 DEF OrderNotSaved
  <2>2. /\ g_db_mutex' \in Workers \cup {NoWorker}
        /\ pc' \in [Workers -> Steps]
        /\ pc[w] = "saving_order" /\ pc'[w] \in {"saving_rollback", "idle"}
        /\ \A v \in Workers \ {w} : pc'[v] = pc[v]
    BY <2>1, MoveTypes
  <2>3. g_products' \in Seq(Product)
    BY <1>5, <2>2, CallCreditType DEF OrderNotSaved
  <2>4. g_orders' \in Seq(Order)
    BY <1>5 DEF OrderNotSaved, TypeInv, TypeOK
  <2>5. call' \in [Workers -> Call \cup {NoCall}] /\ CallInv'
    BY <1>5, <2>2, ForgetType DEF OrderNotSaved
  <2>6. products_file' \in Seq(Product) /\ orders_file' \in Seq(Order)
    BY <1>5, FilesTypes DEF OrderNotSaved
  <2> QED
    BY <2>2, <2>3, <2>4, <2>5, <2>6 DEF TypeInv, TypeOK
<1>6. CASE UpdateProductsSaved(w)
  <2>1. Go(w, "saving_update_products", "saving_update_orders") /\ SaveProducts
        /\ UNCHANGED <<g_products, g_orders, call>>
    BY <1>6 DEF UpdateProductsSaved
  <2> QED
    BY <2>1, MoveTypes, FilesTypes DEF TypeInv, TypeOK, CallInv
<1>7. CASE RollbackEnds(w) \/ UpdateProductsNotSaved(w) \/ UpdateEnds(w) \/ CatalogueEnds(w)
  <2>1. PICK from \in LockedSteps :
          /\ UnlockAndGo(w, from, "idle")
          /\ SaveProducts \/ SaveOrders \/ SaveFails
          /\ UNCHANGED <<g_products, g_orders, call>>
    BY <1>7 DEF RollbackEnds, UpdateProductsNotSaved, UpdateEnds, CatalogueEnds
  <2> QED
    BY <2>1, MoveTypes, FilesTypes DEF TypeInv, TypeOK, CallInv
<1> QED
  BY <1>1, <1>2, <1>3, <1>4, <1>5, <1>6, <1>7 DEF GoOn

\* Every step of every worker keeps the types.
LEMMA TypeNext == TypeInv /\ [Next]_vars => TypeInv'
<1> SUFFICES ASSUME TypeInv, [Next]_vars PROVE TypeInv'
  OBVIOUS
<1>1. CASE UNCHANGED vars
  BY <1>1 DEF vars, files, TypeInv, TypeOK, CallInv
<1>2. CASE Next
  BY <1>2, CustomerRequestType, CatalogueRequestType, SecondLockType, GoOnType
     DEF Next, Worker
<1> QED
  BY <1>1, <1>2

\* Types hold, and the locals of handle_place_order are there from the reservation
\* to the reply (lines 922-1055): the inductive form of TypeOK.
THEOREM TypeInvariance == Spec => []TypeInv
  BY TypeInit, TypeNext, PTL DEF Spec

\* The tables, the files and every worker's locals keep their types over all
\* handlers, failed saves and rollbacks.
THEOREM TypeCorrect == Spec => []TypeOK
<1>1. TypeInv => TypeOK
  BY DEF TypeInv
<1> QED
  BY <1>1, TypeInvariance, PTL

-----------------------------------------------------------------------------
(* Mutual exclusion *)

\* A move keeps the correspondence of steps and mutex when it takes the mutex to
\* enter a critical section, keeps its side, or releases it on the way out.
LEMMA MutexMove ==
  ASSUME TypeInv, MutexInv, NEW w \in Workers, NEW from, NEW to,
         \/ LockAndGo(w, from, to) /\ to \in LockedSteps
         \/ Go(w, from, to) /\ (from \in LockedSteps <=> to \in LockedSteps)
         \/ UnlockAndGo(w, from, to) /\ to \notin LockedSteps
            /\ (from \in LockedSteps \/ g_db_mutex = NoWorker)
  PROVE  MutexInv'
<1>1. pc \in [Workers -> Steps] /\ pc[w] = from
      /\ pc' = [pc EXCEPT ![w] = to]
  BY DEF TypeInv, TypeOK, LockAndGo, Go, UnlockAndGo
<1>2. pc'[w] = to /\ \A v \in Workers \ {w} : pc'[v] = pc[v]
  BY <1>1
<1>3. CASE LockAndGo(w, from, to) /\ to \in LockedSteps
  <2>1. \A v \in Workers : pc[v] \notin LockedSteps
    BY <1>3, NoWorkerAssumption DEF MutexInv, LockAndGo
  <2> QED
    BY <1>2, <1>3, <2>1 DEF MutexInv, LockAndGo
<1>4. CASE Go(w, from, to) /\ (from \in LockedSteps <=> to \in LockedSteps)
  BY <1>1, <1>2, <1>4 DEF MutexInv, Go
<1>5. CASE /\ UnlockAndGo(w, from, to) /\ to \notin LockedSteps
           /\ (from \in LockedSteps \/ g_db_mutex = NoWorker)
  <2>1. g_db_mutex \in {w, NoWorker} /\ g_db_mutex' = NoWorker
    BY <1>1, <1>5 DEF MutexInv, UnlockAndGo
  <2>2. \A v \in Workers \ {w} : pc[v] \notin LockedSteps
    BY <2>1, NoWorkerAssumption DEF MutexInv
  <2> QED
    BY <1>2, <1>5, <2>1, <2>2, NoWorkerAssumption DEF MutexInv
<1> QED
  BY <1>3, <1>4, <1>5

\* Every step keeps the correspondence of steps and owner of g_db_mutex.
LEMMA MutexNext ==
  TypeInv /\ MutexInv /\ [Next]_vars => MutexInv'
<1> SUFFICES ASSUME TypeInv, MutexInv, [Next]_vars PROVE MutexInv'
  OBVIOUS
<1> USE DEF LockedSteps
<1>1. CASE UNCHANGED vars
  BY <1>1 DEF vars, MutexInv
<1>2. CASE Next
  <2> PICK w \in Workers : Worker(w)
    BY <1>2 DEF Next
  <2>1. CASE CustomerRequest(w) \/ OrderRequest(w) \/ CatalogueRequest(w)
    <3>1. PICK to \in {"saving_reservation", "saving_update_products", "saving_catalogue"} :
            LockAndGo(w, "idle", to)
      BY <2>1 DEF CustomerRequest, OrderRequest, CatalogueRequest, Reserve, CancelOrder,
                  UpdateToCancelled, CancelAndRestock, UpdateToNext, AddProduct,
                  ModifyProduct, DeleteProduct
    <3> QED
      BY <3>1, MutexMove
  <2>2. CASE \E from \in PaymentSteps : GiveBack(w, from)
    BY <2>2, MutexMove DEF GiveBack
  <2>3. CASE RecordOrder(w)
    BY <2>3, MutexMove DEF RecordOrder
  <2>4. CASE GoOn(w)
    <3>1. CASE PaymentSucceeds(w) \/ PaymentFails(w)
      <4>1. PICK to \in {"paid", "payment_failed"} : Go(w, "paying", to)
        BY <3>1 DEF PaymentSucceeds, PaymentFails
      <4> QED
        BY <4>1, MutexMove
    <3>2. CASE UpdateProductsSaved(w)
      BY <3>2, MutexMove DEF UpdateProductsSaved
    <3>3. CASE OrderNotSaved(w)
      BY <3>3, MutexMove DEF OrderNotSaved
    <3>4. CASE ReservationSaved(w)
      BY <3>4, MutexMove DEF ReservationSaved
    <3>5. CASE \/ ReservationNotSaved(w) \/ OrderSaved(w) \/ RollbackEnds(w)
               \/ UpdateProductsNotSaved(w) \/ UpdateEnds(w) \/ CatalogueEnds(w)
      <4>1. PICK from \in LockedSteps : UnlockAndGo(w, from, "idle")
        BY <3>5 DEF ReservationNotSaved, OrderSaved, RollbackEnds,
                    UpdateProductsNotSaved, UpdateEnds, CatalogueEnds
      <4> QED
        BY <4>1, MutexMove
    <3> QED
      BY <2>4, <3>1, <3>2, <3>3, <3>4, <3>5 DEF GoOn
  <2> QED
    BY <2>1, <2>2, <2>3, <2>4
       DEF Worker, SecondLock, AbandonPayment, RefuseAtCapacity, PaymentSteps
<1> QED
  BY <1>1, <1>2

\* At most one worker at a time is changing or saving the tables.
THEOREM MutualExclusion == Spec => []MutexInv
<1>1. Init => MutexInv
  BY NoWorkerAssumption DEF Init, MutexInv, LockedSteps
<1> QED
  BY <1>1, TypeInvariance, MutexNext, PTL DEF Spec

-----------------------------------------------------------------------------
(* Product ids *)

NumberedFrom1(table) == \A i \in 1 .. Len(table) : table[i].id = i

\* Everything a step does to the catalogue leaves it numbered and within bounds.
CatalogueOK(table) == NumberedFrom1(table) /\ Len(table) <= MaxProducts

\* Every step keeps the product table numbered from 1 and within its array.
LEMMA ProductsStep ==
  ASSUME TypeInv, CatalogueOK(g_products), Next
  PROVE  CatalogueOK(g_products')
<1> USE CapacityAssumption DEF CatalogueOK
<1> PICK w \in Workers : Worker(w)
  BY DEF Next
<1>0. /\ g_products \in Seq(Product)
      /\ DOMAIN g_products = 1 .. Len(g_products)
      /\ \A i \in 1 .. Len(g_products) : g_products[i] \in Product
  BY DEF TypeInv, TypeOK
<1>1. CASE UNCHANGED g_products
  BY <1>1
<1>2. CASE \E product_id : \E quantity \in Quantities :
             g_products' = Credit(g_products, product_id, quantity)
  BY <1>0, <1>2, CreditShape DEF NumberedFrom1
<1>3. CASE \E i \in DOMAIN g_products, quantity \in Quantities :
             g_products' = [g_products EXCEPT ![i].stock = @ - quantity]
  BY <1>0, <1>3 DEF NumberedFrom1, Product
<1>4. CASE \E name \in Names, stock \in StockInputs : AddProduct(w, name, stock)
  <2> PICK id \in NextIds(g_products), name \in Names, stock \in StockInputs :
        /\ Len(g_products) < MaxProducts
        /\ g_products' = Append(g_products, [id |-> id, name |-> name, stock |-> stock])
    BY <1>4 DEF AddProduct
  <2>1. id = Len(g_products) + 1
    BY <1>0 DEF NextIds, NumberedFrom1
  <2> QED
    BY <1>0, <2>1 DEF NumberedFrom1
<1>5. CASE \E product_id, name, stock : ModifyProduct(w, product_id, name, stock)
  BY <1>0, <1>5 DEF ModifyProduct, Modified, NumberedFrom1, Product
<1>6. CASE \E product_id : DeleteProduct(w, product_id)
  <2> PICK i \in 1 .. Len(g_products) : g_products' = DeleteAndRenumber(g_products, i)
    BY <1>0, <1>6 DEF DeleteProduct
  <2> QED
    BY <1>0, DeleteShape DEF NumberedFrom1
<1> QED
  <2>1. CASE CustomerRequest(w) \/ OrderRequest(w)
    <3>1. \A j \in DOMAIN g_orders : CancelAndRestock(w, j) =>
            \E product_id : \E quantity \in Quantities :
              g_products' = Credit(g_products, product_id, quantity)
      <4>1. \A j \in DOMAIN g_orders : g_orders[j].quantity \in Quantities
        <5>1. g_orders \in Seq(Order)
          BY DEF TypeInv, TypeOK
        <5>2. \A order \in Order : order.quantity \in Quantities
          BY DEF Order
        <5> QED
          BY <5>1, <5>2
      <4> SUFFICES ASSUME NEW j \in DOMAIN g_orders, CancelAndRestock(w, j)
                   PROVE  \E product_id : \E quantity \in Quantities :
                            g_products' = Credit(g_products, product_id, quantity)
        OBVIOUS
      <4>2. g_products' = Credit(g_products, g_orders[j].product_id, g_orders[j].quantity)
        BY DEF CancelAndRestock
      <4> QED
        BY <4>1, <4>2
    <3>2. CASE \E u, id, m : \E quantity \in Quantities : Reserve(w, u, id, quantity, m)
      BY <3>2, <1>3 DEF Reserve
    <3>3. CASE \E j \in DOMAIN g_orders : CancelAndRestock(w, j)
      BY <3>3, <3>1, <1>2
    <3>4. CASE \E order_id, next : UpdateToNext(w, order_id, next)
      BY <3>4, <1>1 DEF UpdateToNext
    <3> QED
      BY <2>1, <3>2, <3>3, <3>4
         DEF CustomerRequest, OrderRequest, CancelOrder, UpdateToCancelled
  <2>2. CASE CatalogueRequest(w)
    BY <2>2, <1>4, <1>5, <1>6 DEF CatalogueRequest
  <2>3. CASE \/ ReservationNotSaved(w) \/ OrderNotSaved(w)
             \/ \E from \in PaymentSteps : GiveBack(w, from)
    <3>1. /\ pc[w] \in Placing
          /\ g_products' = Credit(g_products, call[w].product_id, call[w].quantity)
      BY <2>3 DEF ReservationNotSaved, OrderNotSaved, GiveBack, UnlockAndGo, Placing
    <3>2. call[w].quantity \in Quantities
      BY <3>1 DEF TypeInv, CallInv, Call
    <3> QED
      BY <3>1, <3>2, <1>2
  <2>4. CASE UNCHANGED g_products
    BY <2>4, <1>1
  <2> QED
    BY <2>1, <2>2, <2>3, <2>4
       DEF Worker, SecondLock, AbandonPayment, RefuseAtCapacity, RecordOrder, GoOn,
           ReservationSaved, PaymentSucceeds, PaymentFails, OrderSaved, RollbackEnds,
           UpdateProductsSaved, UpdateProductsNotSaved, UpdateEnds, CatalogueEnds, PaymentSteps

\* A step leaves the files as they are or writes a table as it is in memory.
LEMMA FilesStep ==
  ASSUME [Next]_vars
  PROVE  /\ products_file' \in {products_file, g_products}
         /\ orders_file' \in {orders_file, g_orders}
<1>1. CASE UNCHANGED vars
  BY <1>1 DEF vars, files
<1>2. CASE Next
  <2> PICK w \in Workers : Worker(w)
    BY <1>2 DEF Next
  <2> USE DEF files, SaveProducts, SaveOrders, SaveFails
  <2>1. CASE CustomerRequest(w) \/ OrderRequest(w) \/ CatalogueRequest(w)
    BY <2>1 DEF CustomerRequest, OrderRequest, CatalogueRequest, Reserve, CancelOrder,
                UpdateToCancelled, CancelAndRestock, UpdateToNext, AddProduct,
                ModifyProduct, DeleteProduct
  <2>2. CASE SecondLock(w)
    BY <2>2 DEF SecondLock, AbandonPayment, RefuseAtCapacity, GiveBack, RecordOrder
  <2>3. CASE GoOn(w)
    BY <2>3 DEF GoOn, ReservationSaved, ReservationNotSaved, PaymentSucceeds, PaymentFails,
                OrderSaved, OrderNotSaved, RollbackEnds, UpdateProductsSaved,
                UpdateProductsNotSaved, UpdateEnds, CatalogueEnds
  <2> QED
    BY <2>1, <2>2, <2>3 DEF Worker
<1> QED
  BY <1>1, <1>2

\* Products are numbered 1, 2, 3, ... in memory and on file for good: an id in the
\* list a customer reads names at most one product (docs/DESIGN.md:35).
THEOREM ProductIdsAlwaysSequential == Spec => []ProductIdsSequential
<1> DEFINE Numbered == CatalogueOK(g_products) /\ CatalogueOK(products_file)
<1>1. Init => Numbered
  BY InitialProductsAssumption DEF Init, NumberedFrom1, CatalogueOK
<1>2. TypeInv /\ Numbered /\ [Next]_vars => Numbered'
  <2> SUFFICES ASSUME TypeInv, Numbered, [Next]_vars PROVE Numbered'
    OBVIOUS
  <2>1. CatalogueOK(g_products')
    BY ProductsStep DEF vars
  <2>2. CatalogueOK(products_file')
    BY FilesStep
  <2> QED
    BY <2>1, <2>2
<1>3. TypeInv /\ Numbered => ProductIdsSequential
  BY DEF TypeInv, TypeOK, CatalogueOK, NumberedFrom1, ProductIdsSequential
<1> HIDE DEF Numbered
<1> QED
  BY <1>1, <1>2, <1>3, TypeInvariance, PTL DEF Spec

-----------------------------------------------------------------------------
(* Orders *)

\* Whoever holds the mutex decides whether an order is being saved.
LEMMA SavingMove ==
  ASSUME TypeInv, MutexInv, NEW w \in Workers, NEW from, NEW to,
         LockAndGo(w, from, to) \/ Go(w, from, to) \/ UnlockAndGo(w, from, to)
  PROVE  /\ (from \in LockedSteps \/ g_db_mutex = NoWorker)
              => (Saving <=> from = "saving_order") /\ (Saving' <=> to = "saving_order")
         /\ (from # "saving_order" /\ to # "saving_order") => (Saving' <=> Saving)
<1>1. pc \in [Workers -> Steps] /\ pc[w] = from /\ pc' = [pc EXCEPT ![w] = to]
  BY DEF TypeInv, TypeOK, LockAndGo, Go, UnlockAndGo
<1>2. pc'[w] = to /\ \A v \in Workers \ {w} : pc'[v] = pc[v]
  BY <1>1
<1>3. ASSUME from \in LockedSteps \/ g_db_mutex = NoWorker
      PROVE  \A v \in Workers \ {w} : pc[v] # "saving_order"
  BY <1>1, <1>3, NoWorkerAssumption DEF MutexInv, LockedSteps
<1> QED
  BY <1>1, <1>2, <1>3 DEF Saving

\* What a step can do to the orders: nothing, a new order appended and waiting to
\* be saved, that order saved or dropped, or one promised order changed.
QuietStep ==
  /\ g_orders' = g_orders /\ (Saving' <=> Saving)
  /\ orders_file' = orders_file \/ (~Saving /\ orders_file' = g_orders)
RecordStep ==
  /\ ~Saving /\ Saving' /\ orders_file' = orders_file
  /\ Len(g_orders) < MaxOrders
  /\ \E w \in Workers, id \in NextIds(g_orders) :
       call[w] \in Call /\ g_orders' = Append(g_orders, NewOrder(w, id))
SavedStep ==
  /\ Saving /\ ~Saving' /\ g_orders' = g_orders /\ orders_file' = g_orders
  /\ \E w \in Workers : OrderSaved(w)
DroppedStep ==
  /\ Saving /\ ~Saving' /\ orders_file' = orders_file
  /\ g_orders' = SubSeq(g_orders, 1, Len(g_orders) - 1)
ChangeStep ==
  /\ ~Saving /\ ~Saving' /\ orders_file' = orders_file
  /\ \E i \in DOMAIN g_orders :
       \/ /\ g_orders[i].order_status \in Cancellable
          /\ g_orders' = [g_orders EXCEPT ![i] = Cancelled(@)]
       \/ \E next \in OrderStatuses :
            /\ next # "CANCELLED"
            /\ ValidTransition(g_orders[i].order_status, next)
            /\ g_orders' = [g_orders EXCEPT ![i] = Advanced(@, next)]

\* Whatever a step does to the orders and their file is one of five shapes.
LEMMA OrdersStep ==
  ASSUME TypeInv, MutexInv, [Next]_vars
  PROVE  QuietStep \/ RecordStep \/ SavedStep \/ DroppedStep \/ ChangeStep
<1>1. CASE UNCHANGED vars
  BY <1>1 DEF vars, files, QuietStep, Saving
<1>2. CASE Next
  <2> PICK w \in Workers : Worker(w)
    BY <1>2 DEF Next
  <2> USE DEF LockedSteps
  <2>1. CASE CatalogueRequest(w) \/ \E u, id, q, m : Reserve(w, u, id, q, m)
    <3>1. PICK to \in {"saving_reservation", "saving_catalogue"} : LockAndGo(w, "idle", to)
      BY <2>1 DEF CatalogueRequest, AddProduct, ModifyProduct, DeleteProduct, Reserve
    <3>2. UNCHANGED <<g_orders, files>>
      BY <2>1 DEF CatalogueRequest, AddProduct, ModifyProduct, DeleteProduct, Reserve
    <3> QED
      BY <3>1, <3>2, SavingMove DEF QuietStep, files
  <2>2. CASE \E i \in DOMAIN g_orders : CancelAndRestock(w, i)
    <3>1. LockAndGo(w, "idle", "saving_update_products") /\ UNCHANGED files
      BY <2>2 DEF CancelAndRestock
    <3>2. g_db_mutex = NoWorker
      BY <3>1 DEF LockAndGo
    <3>3. ~Saving /\ ~Saving'
      BY <3>1, <3>2, SavingMove
    <3> QED
      BY <2>2, <3>1, <3>3 DEF ChangeStep, CancelAndRestock, files
  <2>3. CASE \E order_id : \E next \in OrderStatuses : UpdateToNext(w, order_id, next)
    <3>1. LockAndGo(w, "idle", "saving_update_products") /\ UNCHANGED files
      BY <2>3 DEF UpdateToNext
    <3>2. g_db_mutex = NoWorker
      BY <3>1 DEF LockAndGo
    <3>3. ~Saving /\ ~Saving'
      BY <3>1, <3>2, SavingMove
    <3> QED
      BY <2>3, <3>1, <3>3 DEF ChangeStep, UpdateToNext, files
  <2>4. CASE \E from \in PaymentSteps : GiveBack(w, from)
    <3>1. PICK from \in PaymentSteps, to \in {"saving_rollback", "idle"} :
            LockAndGo(w, from, to) \/ UnlockAndGo(w, from, to)
      BY <2>4 DEF GiveBack
    <3> QED
      BY <2>4, <3>1, SavingMove DEF QuietStep, GiveBack, files, PaymentSteps
  <2>5. CASE RecordOrder(w)
    <3>1. LockAndGo(w, "paid", "saving_order") /\ UNCHANGED files
      BY <2>5 DEF RecordOrder
    <3>2. ~Saving /\ Saving'
      BY <3>1, SavingMove DEF LockAndGo
    <3>3. call[w] \in Call
      BY <3>1 DEF LockAndGo, TypeInv, CallInv, Placing, PaymentSteps
    <3> QED
      BY <2>5, <3>1, <3>2, <3>3 DEF RecordStep, RecordOrder, files
  <2>6. CASE OrderSaved(w)
    <3>1. UnlockAndGo(w, "saving_order", "idle")
      BY <2>6 DEF OrderSaved
    <3> QED
      BY <2>6, <3>1, SavingMove DEF SavedStep, OrderSaved, SaveOrders
  <2>7. CASE OrderNotSaved(w)
    <3>1. PICK to \in {"saving_rollback", "idle"} :
            Go(w, "saving_order", to) \/ UnlockAndGo(w, "saving_order", to)
      BY <2>7 DEF OrderNotSaved
    <3> QED
      BY <2>7, <3>1, SavingMove DEF DroppedStep, OrderNotSaved, SaveFails, files
  <2>8. CASE UpdateEnds(w)
    <3>1. UnlockAndGo(w, "saving_update_orders", "idle")
      BY <2>8 DEF UpdateEnds
    <3> QED
      BY <2>8, <3>1, SavingMove DEF QuietStep, UpdateEnds, SaveOrders, SaveFails, files
  <2>9. CASE \/ ReservationSaved(w) \/ ReservationNotSaved(w) \/ PaymentSucceeds(w)
             \/ PaymentFails(w) \/ RollbackEnds(w) \/ UpdateProductsSaved(w)
             \/ UpdateProductsNotSaved(w) \/ CatalogueEnds(w)
    <3> DEFINE Moves(from, to) == Go(w, from, to) \/ UnlockAndGo(w, from, to)
    <3>1. UNCHANGED <<g_orders, orders_file>>
      BY <2>9 DEF ReservationSaved, ReservationNotSaved, PaymentSucceeds, PaymentFails,
                  RollbackEnds, UpdateProductsSaved, UpdateProductsNotSaved, CatalogueEnds,
                  SaveProducts, SaveFails, files
    <3>2. \/ \E to \in {"paying", "idle"} : Moves("saving_reservation", to)
          \/ \E to \in {"paid", "payment_failed"} : Moves("paying", to)
          \/ \E from \in {"saving_rollback", "saving_update_products", "saving_catalogue"},
                to \in {"idle", "saving_update_orders"} : Moves(from, to)
      BY <2>9 DEF ReservationSaved, ReservationNotSaved, PaymentSucceeds, PaymentFails,
                  RollbackEnds, UpdateProductsSaved, UpdateProductsNotSaved, CatalogueEnds
    <3>3. PICK from, to : Moves(from, to) /\ from # "saving_order" /\ to # "saving_order"
      BY <3>2
    <3> QED
      BY <3>1, <3>3, SavingMove DEF QuietStep
  <2>10. CASE CustomerRequest(w) \/ OrderRequest(w)
    BY <2>10, <2>1, <2>2, <2>3
       DEF CustomerRequest, OrderRequest, CancelOrder, UpdateToCancelled
  <2>11. CASE SecondLock(w)
    BY <2>11, <2>4, <2>5 DEF SecondLock, AbandonPayment, RefuseAtCapacity, PaymentSteps
  <2>12. CASE GoOn(w)
    BY <2>12, <2>6, <2>7, <2>8, <2>9 DEF GoOn
  <2> QED
    BY <2>1, <2>10, <2>11, <2>12 DEF Worker
<1> QED
  BY <1>1, <1>2

\* What cancelling or advancing does to one order.
ChangeOf(order, changed) ==
  \/ order.order_status \in Cancellable /\ changed = Cancelled(order)
  \/ \E next \in OrderStatuses :
       /\ next # "CANCELLED"
       /\ ValidTransition(order.order_status, next)
       /\ changed = Advanced(order, next)

\* A cancellation or an update keeps the identity of an order, follows an arrow of
\* the state machine and keeps the payment in agreement (lines 1133-1138, 1228-1258).
LEMMA ChangeOfOrder ==
  ASSUME NEW order \in Order, NEW changed, ChangeOf(order, changed)
  PROVE  /\ changed \in Order
         /\ Identity(changed) = Identity(order)
         /\ ValidTransition(order.order_status, changed.order_status)
         /\ Past(order.order_status) \subseteq Past(changed.order_status)
         /\ PaymentFits(order) => PaymentFits(changed)
<1>1. CASE order.order_status \in Cancellable /\ changed = Cancelled(order)
  <2>1. changed \in Order
    BY <1>1, OrderShape DEF OrderStatuses
  <2>2. Identity(changed) = Identity(order) /\ changed.payment_method = order.payment_method
    BY <1>1 DEF Cancelled, Identity, Order
  <2>3. /\ changed.order_status = "CANCELLED"
        /\ changed.payment_status = IF order.payment_status = "PAID" THEN "REFUND_INITIATED"
                                                                     ELSE "CANCELLED"
    BY <1>1 DEF Cancelled, Order
  <2>4. ValidTransition(order.order_status, changed.order_status)
        /\ Past(order.order_status) \subseteq Past(changed.order_status)
    BY <1>1, <2>3 DEF Cancellable, ValidTransition, Past
  <2>5. PaymentFits(order) => PaymentFits(changed)
    BY <1>1, <2>2, <2>3 DEF Cancellable, PaymentFits
  <2> QED
    BY <2>1, <2>2, <2>4, <2>5
<1>2. CASE \E next \in OrderStatuses :
             /\ next # "CANCELLED"
             /\ ValidTransition(order.order_status, next)
             /\ changed = Advanced(order, next)
  <2> PICK next \in OrderStatuses :
        /\ next # "CANCELLED"
        /\ ValidTransition(order.order_status, next)
        /\ changed = Advanced(order, next)
    BY <1>2
  <2>1. changed \in Order
    BY OrderShape
  <2>2. Identity(changed) = Identity(order) /\ changed.payment_method = order.payment_method
    BY DEF Advanced, Identity, Order
  <2>3. /\ changed.order_status = next
        /\ changed.payment_status =
             IF next = "DELIVERED" /\ order.payment_method = "COD"
                /\ order.payment_status = "PENDING" THEN "PAID" ELSE order.payment_status
    BY DEF Advanced, Order
  <2>4. Past(order.order_status) \subseteq Past(changed.order_status)
    BY <2>3 DEF ValidTransition, Past
  <2>5. PaymentFits(order) => PaymentFits(changed)
    BY <2>2, <2>3 DEF ValidTransition, PaymentFits
  <2> QED
    BY <2>1, <2>2, <2>3, <2>4, <2>5
<1> QED
  BY <1>1, <1>2 DEF ChangeOf

\* A change of an order leaves the other orders and the number of orders alone.
LEMMA ChangeStepShape ==
  ASSUME TypeInv, ChangeStep
  PROVE  \E i \in 1 .. Len(g_orders), changed \in Order :
           /\ ChangeOf(g_orders[i], changed)
           /\ g_orders' = [g_orders EXCEPT ![i] = changed]
<1>1. g_orders \in Seq(Order) /\ DOMAIN g_orders = 1 .. Len(g_orders)
  BY DEF TypeInv, TypeOK
<1>2. PICK i \in 1 .. Len(g_orders) :
        \/ /\ g_orders[i].order_status \in Cancellable
           /\ g_orders' = [g_orders EXCEPT ![i] = Cancelled(@)]
        \/ \E next \in OrderStatuses :
             /\ next # "CANCELLED"
             /\ ValidTransition(g_orders[i].order_status, next)
             /\ g_orders' = [g_orders EXCEPT ![i] = Advanced(@, next)]
  BY <1>1 DEF ChangeStep
<1>3. PICK changed : ChangeOf(g_orders[i], changed)
                     /\ g_orders' = [g_orders EXCEPT ![i] = changed]
  BY <1>2 DEF ChangeOf
<1>4. g_orders[i] \in Order
  BY <1>1
<1>5. changed \in Order
  BY <1>3, <1>4, ChangeOfOrder
<1> QED
  BY <1>3, <1>5

\* The order that waits for its first save is the last one of the table.
SavingInv == Saving => Len(g_orders) > 0

OnFileInv == SavingInv /\ OrdersOnFile

\* The promised orders are the first rows of the table.
LEMMA PromisedType ==
  ASSUME TypeInv, SavingInv
  PROVE  Promised \in 0 .. Len(g_orders)
  BY DEF TypeInv, TypeOK, SavingInv, Promised

\* Every step keeps a row for the order that is being saved.
LEMMA SavingNext ==
  ASSUME TypeInv, MutexInv, SavingInv, [Next]_vars
  PROVE  SavingInv'
<1>1. g_orders \in Seq(Order)
  BY DEF TypeInv, TypeOK
<1>2. CASE QuietStep
  BY <1>2 DEF QuietStep, SavingInv
<1>3. CASE RecordStep
  BY <1>1, <1>3 DEF RecordStep, SavingInv
<1>4. CASE SavedStep \/ DroppedStep \/ ChangeStep
  BY <1>4 DEF SavedStep, DroppedStep, ChangeStep, SavingInv
<1> QED
  BY <1>2, <1>3, <1>4, OrdersStep

\* Every step keeps the file in agreement with the promised orders.
LEMMA OnFileNext ==
  ASSUME TypeInv, MutexInv, OnFileInv, [Next]_vars
  PROVE  OnFileInv'
<1>1. /\ g_orders \in Seq(Order) /\ orders_file \in Seq(Order)
      /\ \A k \in 1 .. Len(g_orders) : g_orders[k] \in Order
      /\ DOMAIN orders_file = 1 .. Len(orders_file)
  BY DEF TypeInv, TypeOK
<1>2. SavingInv' /\ Promised \in 0 .. Len(g_orders) /\ Len(orders_file) = Promised
  BY PromisedType, SavingNext DEF OnFileInv, OrdersOnFile
<1>3. \A order \in Order : order.order_status \in Past(order.order_status)
  BY DEF Order, OrderStatuses, Past
<1>4. CASE QuietStep
  <2>1. Promised' = Promised
    BY <1>4 DEF QuietStep, Promised
  <2>2. CASE orders_file' = orders_file
    BY <1>2, <1>4, <2>1, <2>2 DEF QuietStep, OnFileInv, OrdersOnFile
  <2>3. CASE ~Saving /\ orders_file' = g_orders
    <3>1. DOMAIN orders_file' = 1 .. Len(g_orders) /\ Promised' = Len(orders_file')
      BY <1>1, <1>4, <2>1, <2>3 DEF QuietStep, Promised
    <3>2. \A k \in DOMAIN orders_file' :
            /\ Identity(orders_file'[k]) = Identity(g_orders'[k])
            /\ orders_file'[k].order_status \in Past(g_orders'[k].order_status)
      BY <1>1, <1>3, <1>4, <2>3, <3>1 DEF QuietStep
    <3> QED
      BY <1>2, <2>1, <3>1, <3>2 DEF OnFileInv, OrdersOnFile
  <2> QED
    BY <1>4, <2>2, <2>3 DEF QuietStep
<1>5. CASE RecordStep
  <2> PICK order : g_orders' = Append(g_orders, order)
    BY <1>5 DEF RecordStep
  <2>1. Promised' = Promised /\ Len(g_orders') > 0
    BY <1>1, <1>5 DEF RecordStep, Promised
  <2>2. \A k \in 1 .. Len(g_orders) : g_orders'[k] = g_orders[k]
    BY <1>1
  <2> QED
    BY <1>1, <1>2, <1>5, <2>1, <2>2 DEF RecordStep, OnFileInv, OrdersOnFile
<1>6. CASE SavedStep
  <2>1. Promised' = Len(g_orders) /\ orders_file' = g_orders /\ g_orders' = g_orders
    BY <1>6 DEF SavedStep, Promised
  <2> QED
    BY <1>1, <1>2, <1>3, <1>6, <2>1 DEF SavedStep, OnFileInv, OrdersOnFile
<1>7. CASE DroppedStep
  <2>1. Promised' = Promised
    BY <1>1, <1>2, <1>7 DEF DroppedStep, Promised, OnFileInv, SavingInv
  <2>2. \A k \in 1 .. Promised : g_orders'[k] = g_orders[k]
    BY <1>1, <1>2, <1>7 DEF DroppedStep, Promised, OnFileInv, SavingInv
  <2> QED
    BY <1>1, <1>2, <1>7, <2>1, <2>2 DEF DroppedStep, OnFileInv, OrdersOnFile
<1>8. CASE ChangeStep
  <2> PICK i \in 1 .. Len(g_orders), changed \in Order :
        /\ ChangeOf(g_orders[i], changed)
        /\ g_orders' = [g_orders EXCEPT ![i] = changed]
    BY <1>8, ChangeStepShape
  <2>1. Len(g_orders') = Len(g_orders) /\ ~Saving /\ ~Saving' /\ orders_file' = orders_file
    BY <1>1, <1>8 DEF ChangeStep
  <2>2. \A k \in 1 .. Len(g_orders) :
          /\ Identity(g_orders'[k]) = Identity(g_orders[k])
          /\ Past(g_orders[k].order_status) \subseteq Past(g_orders'[k].order_status)
    <3>1. g_orders'[i] = changed /\ \A k \in 1 .. Len(g_orders) : k # i => g_orders'[k] = g_orders[k]
      BY <1>1
    <3> QED
      BY <1>1, <3>1, ChangeOfOrder
  <2> QED
    BY <1>1, <1>2, <2>1, <2>2 DEF OnFileInv, OrdersOnFile, Promised
<1> QED
  BY <1>4, <1>5, <1>6, <1>7, <1>8, OrdersStep

\* data/sales.csv holds exactly the orders customers were told of, none missing,
\* none that was dropped, none ahead of memory, whichever saves fail.
THEOREM OrdersAlwaysOnFile == Spec => []OrdersOnFile
<1>1. Init => OnFileInv
  BY DEF Init, OnFileInv, SavingInv, OrdersOnFile, Promised, Saving
<1>2. OnFileInv => OrdersOnFile
  BY DEF OnFileInv
<1> QED
  BY <1>1, <1>2, OnFileNext, TypeInvariance, MutualExclusion, PTL DEF Spec

IncreasingIds(table) ==
  \A j, k \in 1 .. Len(table) : j < k => table[j].id < table[k].id

Increasing == IncreasingIds(g_orders) /\ IncreasingIds(orders_file)

\* A step keeps the ids increasing: a new order gets one above all of them.
LEMMA IncreasingNext ==
  TypeInv /\ MutexInv /\ Increasing /\ [Next]_vars => Increasing'
<1> SUFFICES ASSUME TypeInv, MutexInv, Increasing, [Next]_vars PROVE Increasing'
  OBVIOUS
<1> USE DEF Increasing
<1>0. g_orders \in Seq(Order) /\ \A k \in 1 .. Len(g_orders) : g_orders[k] \in Order
  BY DEF TypeInv, TypeOK
<1>1. IncreasingIds(orders_file')
  BY FilesStep
<1>2. CASE g_orders' = g_orders
  BY <1>1, <1>2
<1>3. CASE RecordStep
  <2> PICK w \in Workers, id \in NextIds(g_orders) : g_orders' = Append(g_orders, NewOrder(w, id))
    BY <1>3 DEF RecordStep
  <2>1. id \in Nat /\ \A k \in 1 .. Len(g_orders) : g_orders[k].id < id
    <3>1. \A order \in Order : order.id \in Nat
      BY DEF Order
    <3> QED
      BY <1>0, <3>1, NextIdsAbove
  <2>2. /\ Len(g_orders') = Len(g_orders) + 1
        /\ \A k \in 1 .. Len(g_orders) : g_orders'[k] = g_orders[k]
        /\ g_orders'[Len(g_orders) + 1].id = id
    BY <1>0 DEF NewOrder
  <2> QED
    BY <1>0, <1>1, <2>1, <2>2 DEF IncreasingIds
<1>4. CASE DroppedStep
  <2>1. /\ Len(g_orders') <= Len(g_orders)
        /\ \A k \in 1 .. Len(g_orders') : g_orders'[k] = g_orders[k]
    BY <1>0, <1>4 DEF DroppedStep
  <2> QED
    BY <1>0, <1>1, <1>4, <2>1 DEF IncreasingIds, DroppedStep
<1>5. CASE ChangeStep
  <2> PICK i \in 1 .. Len(g_orders), changed \in Order :
        /\ ChangeOf(g_orders[i], changed)
        /\ g_orders' = [g_orders EXCEPT ![i] = changed]
    BY <1>5, ChangeStepShape
  <2>1. changed.id = g_orders[i].id
    BY <1>0, ChangeOfOrder DEF Identity
  <2>2. /\ Len(g_orders') = Len(g_orders)
        /\ \A k \in 1 .. Len(g_orders) : g_orders'[k].id = g_orders[k].id
    BY <1>0, <2>1
  <2> QED
    BY <1>1, <2>2 DEF IncreasingIds
<1> QED
  BY <1>1, <1>2, <1>3, <1>4, <1>5, OrdersStep DEF QuietStep, SavedStep

\* The form in which the proofs use the ids is the one that is stated.
LEMMA IncreasingIsUnique == TypeInv /\ Increasing => OrderIdsUnique
<1> SUFFICES ASSUME TypeInv, Increasing PROVE OrderIdsUnique
  OBVIOUS
<1> USE DEF Increasing
<1>1. g_orders \in Seq(Order) /\ orders_file \in Seq(Order)
  BY DEF TypeInv, TypeOK
<1>2. DOMAIN g_orders = 1 .. Len(g_orders) /\ DOMAIN orders_file = 1 .. Len(orders_file)
  BY <1>1
<1> QED
  BY <1>2 DEF IncreasingIds, OrderIdsUnique

\* Order ids never repeat, although an order that could not be saved gives its id
\* back (lines 475-486 and 1035-1044).
THEOREM OrderIdsAlwaysUnique == Spec => []OrderIdsUnique
<1>1. Init => Increasing
  BY DEF Init, Increasing, IncreasingIds
<1> QED
  BY <1>1, IncreasingNext, IncreasingIsUnique, TypeInvariance, MutualExclusion, PTL DEF Spec

PaymentsFit(table) == \A k \in 1 .. Len(table) : PaymentFits(table[k])
PaymentsInv == PaymentsFit(g_orders) /\ PaymentsFit(orders_file)

\* A step keeps the payment column of every order in agreement with its status.
LEMMA PaymentsNext ==
  TypeInv /\ MutexInv /\ PaymentsInv /\ [Next]_vars => PaymentsInv'
<1> SUFFICES ASSUME TypeInv, MutexInv, PaymentsInv, [Next]_vars PROVE PaymentsInv'
  OBVIOUS
<1> USE DEF PaymentsInv, PaymentsFit
<1>0. g_orders \in Seq(Order) /\ \A k \in 1 .. Len(g_orders) : g_orders[k] \in Order
  BY DEF TypeInv, TypeOK
<1>1. PaymentsFit(orders_file')
  BY FilesStep
<1>2. CASE g_orders' = g_orders
  BY <1>1, <1>2
<1>3. CASE RecordStep
  <2> PICK w \in Workers, id \in NextIds(g_orders) :
        call[w] \in Call /\ g_orders' = Append(g_orders, NewOrder(w, id))
    BY <1>3 DEF RecordStep
  <2>1. PaymentFits(NewOrder(w, id))
    BY MethodsAssumption DEF NewOrder, PaymentFits, PaymentResult, Call
  <2>2. /\ Len(g_orders') = Len(g_orders) + 1
        /\ \A k \in 1 .. Len(g_orders) : g_orders'[k] = g_orders[k]
        /\ g_orders'[Len(g_orders) + 1] = NewOrder(w, id)
    BY <1>0
  <2> QED
    BY <1>0, <1>1, <2>1, <2>2
<1>4. CASE DroppedStep
  <2>1. /\ Len(g_orders') <= Len(g_orders)
        /\ \A k \in 1 .. Len(g_orders') : g_orders'[k] = g_orders[k]
    BY <1>0, <1>4 DEF DroppedStep
  <2> QED
    BY <1>0, <1>1, <1>4, <2>1 DEF DroppedStep
<1>5. CASE ChangeStep
  <2> PICK i \in 1 .. Len(g_orders), changed \in Order :
        /\ ChangeOf(g_orders[i], changed)
        /\ g_orders' = [g_orders EXCEPT ![i] = changed]
    BY <1>5, ChangeStepShape
  <2>1. PaymentFits(changed)
    BY <1>0, ChangeOfOrder
  <2>2. /\ Len(g_orders') = Len(g_orders)
        /\ g_orders'[i] = changed
        /\ \A k \in 1 .. Len(g_orders) : k # i => g_orders'[k] = g_orders[k]
    BY <1>0
  <2> QED
    BY <1>1, <2>1, <2>2
<1> QED
  BY <1>2, <1>3, <1>4, <1>5, OrdersStep DEF QuietStep, SavedStep

\* The form in which the proofs use the payments is the one that is stated.
LEMMA PaymentsInvMatches == TypeInv /\ PaymentsInv => PaymentMatchesStatus
<1> SUFFICES ASSUME TypeInv, PaymentsInv PROVE PaymentMatchesStatus
  OBVIOUS
<1> USE DEF PaymentsInv, PaymentsFit
<1>1. g_orders \in Seq(Order) /\ orders_file \in Seq(Order)
  BY DEF TypeInv, TypeOK
<1>2. DOMAIN g_orders = 1 .. Len(g_orders) /\ DOMAIN orders_file = 1 .. Len(orders_file)
  BY <1>1
<1> QED
  BY <1>2 DEF PaymentMatchesStatus

\* The payment column fits the status of every order, in memory and on file.
THEOREM PaymentsAlwaysMatch == Spec => []PaymentMatchesStatus
<1>1. Init => PaymentsInv
  BY DEF Init, PaymentsInv, PaymentsFit
<1> QED
  BY <1>1, PaymentsNext, PaymentsInvMatches, TypeInvariance, MutualExclusion, PTL DEF Spec

\* Orders are never rewritten or lost and move only along the arrows of
\* docs/DESIGN.md section 5.
THEOREM OrdersFollowLifecycle == Spec => OrderLifecycle
<1> DEFINE Lifecycle ==
      /\ Len(g_orders') >= Promised
      /\ \A i \in 1 .. Promised :
           /\ Identity(g_orders'[i]) = Identity(g_orders[i])
           /\ \/ g_orders'[i] = g_orders[i]
              \/ ValidTransition(g_orders[i].order_status, g_orders'[i].order_status)
<1>1. TypeInv /\ MutexInv /\ OnFileInv /\ [Next]_vars => [Lifecycle]_vars
  <2> SUFFICES ASSUME TypeInv, MutexInv, OnFileInv, [Next]_vars PROVE Lifecycle
    OBVIOUS
  <2>0. /\ g_orders \in Seq(Order) /\ \A k \in 1 .. Len(g_orders) : g_orders[k] \in Order
        /\ Promised \in 0 .. Len(g_orders)
    BY PromisedType DEF TypeInv, TypeOK, OnFileInv
  <2>1. CASE g_orders' = g_orders
    BY <2>0, <2>1
  <2>2. CASE RecordStep
    <3> PICK order : g_orders' = Append(g_orders, order)
      BY <2>2 DEF RecordStep
    <3>1. /\ Len(g_orders') = Len(g_orders) + 1
          /\ \A k \in 1 .. Len(g_orders) : g_orders'[k] = g_orders[k]
      BY <2>0
    <3> QED
      BY <2>0, <3>1
  <2>3. CASE DroppedStep
    <3>1. Promised = Len(g_orders) - 1
      BY <2>3 DEF DroppedStep, Promised
    <3>2. Len(g_orders') = Promised /\ \A k \in 1 .. Promised : g_orders'[k] = g_orders[k]
      BY <2>0, <2>3, <3>1 DEF DroppedStep
    <3> QED
      BY <2>0, <3>2
  <2>4. CASE ChangeStep
    <3> PICK i \in 1 .. Len(g_orders), changed \in Order :
          /\ ChangeOf(g_orders[i], changed)
          /\ g_orders' = [g_orders EXCEPT ![i] = changed]
      BY <2>4, ChangeStepShape
    <3>1. /\ Identity(changed) = Identity(g_orders[i])
          /\ ValidTransition(g_orders[i].order_status, changed.order_status)
      BY <2>0, ChangeOfOrder
    <3>2. /\ Len(g_orders') = Len(g_orders)
          /\ g_orders'[i] = changed
          /\ \A k \in 1 .. Len(g_orders) : k # i => g_orders'[k] = g_orders[k]
      BY <2>0
    <3> QED
      BY <2>0, <3>1, <3>2
  <2> QED
    BY <2>1, <2>2, <2>3, <2>4, OrdersStep DEF QuietStep, SavedStep
<1>2. Init => OnFileInv
  BY DEF Init, OnFileInv, SavingInv, OrdersOnFile, Promised, Saving
<1>3. Spec => [][Lifecycle]_vars
  <2> HIDE DEF Lifecycle
  <2> QED
    BY <1>1, <1>2, OnFileNext, TypeInvariance, MutualExclusion, PTL DEF Spec
<1> QED
  BY <1>3 DEF OrderLifecycle

TablesFit == CatalogueOK(g_products) /\ Len(g_orders) <= MaxOrders

\* A step keeps the tables within their arrays: a row is added where there is room.
LEMMA TablesFitNext ==
  TypeInv /\ MutexInv /\ TablesFit /\ [Next]_vars => TablesFit'
<1> SUFFICES ASSUME TypeInv, MutexInv, TablesFit, [Next]_vars PROVE TablesFit'
  OBVIOUS
<1> USE DEF TablesFit
<1>0. g_orders \in Seq(Order)
  BY DEF TypeInv, TypeOK
<1>1. CatalogueOK(g_products')
  BY ProductsStep DEF vars
<1>2. CASE RecordStep
  BY <1>0, <1>1, <1>2, CapacityAssumption DEF RecordStep
<1>3. CASE DroppedStep
  <2>1. Len(g_orders') <= Len(g_orders) /\ Len(g_orders') \in Nat
    BY <1>0, <1>3 DEF DroppedStep
  <2> QED
    BY <1>0, <1>1, <2>1, CapacityAssumption
<1>4. CASE ChangeStep
  BY <1>0, <1>1, <1>4, ChangeStepShape
<1> QED
  BY <1>1, <1>2, <1>3, <1>4, OrdersStep DEF QuietStep, SavedStep

\* Neither array is ever outgrown, although the room for an order is looked at
\* before the payment and may be taken by others meanwhile (lines 976 and 1010).
THEOREM CapacityAlwaysRespected == Spec => []CapacityRespected
<1>1. Init => TablesFit
  BY InitialProductsAssumption, CapacityAssumption
     DEF Init, TablesFit, CatalogueOK, NumberedFrom1
<1>2. TablesFit => CapacityRespected
  BY DEF TablesFit, CatalogueOK, CapacityRespected
<1> QED
  BY <1>1, <1>2, TablesFitNext, TypeInvariance, MutualExclusion, PTL DEF Spec

-----------------------------------------------------------------------------
(* OrderDesk implements OrderBook.  A basket changes when its worker goes  *)
(* from one step to another; the book changes when an order is saved for   *)
(* the first time or when one that has been saved is changed.  Every       *)
(* action is one step of the book, or a stutter.                           *)

\* The rules of the shop are the same for both.
LEMMA SameRules ==
  /\ \A s, id, q : Book!Credit(s, id, q) = Credit(s, id, q)
  /\ \A t : Book!NextIds(t) = NextIds(t)
  /\ \A t, i : Book!DeleteAndRenumber(t, i) = DeleteAndRenumber(t, i)
  /\ \A o : Book!Cancelled(o) = Cancelled(o)
  /\ \A o, next : Book!Advanced(o, next) = Advanced(o, next)
  /\ \A s, next : Book!ValidTransition(s, next) = ValidTransition(s, next)
  /\ \A m : Book!PaymentResult(m) = PaymentResult(m)
  /\ Book!OrderStatuses = OrderStatuses
<1>1. \A s, id, q : Book!Credit(s, id, q) = Credit(s, id, q)
  BY DEF Book!Credit, Credit, Book!FoundAt, FoundAt, Book!AddInt, AddInt
<1>2. /\ \A t : Book!NextIds(t) = NextIds(t)
      /\ \A t, i : Book!DeleteAndRenumber(t, i) = DeleteAndRenumber(t, i)
  BY DEF Book!NextIds, NextIds, Book!DeleteAndRenumber, DeleteAndRenumber
<1>3. /\ \A o : Book!Cancelled(o) = Cancelled(o)
      /\ \A o, next : Book!Advanced(o, next) = Advanced(o, next)
  BY DEF Book!Cancelled, Cancelled, Book!Advanced, Advanced
<1>4. /\ \A s, next : Book!ValidTransition(s, next) = ValidTransition(s, next)
      /\ \A m : Book!PaymentResult(m) = PaymentResult(m)
      /\ Book!OrderStatuses = OrderStatuses
  BY DEF Book!ValidTransition, ValidTransition, Book!PaymentResult, PaymentResult,
         Book!OrderStatuses, OrderStatuses
<1> QED
  BY <1>1, <1>2, <1>3, <1>4

-----------------------------------------------------------------------------
(* Baskets *)

\* What a worker that went to a step has in its basket.
InBasket(w, step) == IF step \in Placing THEN call'[w] ELSE NoCall

\* A worker's move changes its own basket and no other one.
LEMMA BasketMove ==
  ASSUME TypeInv, NEW w \in Workers, NEW from, NEW to \in Steps,
         LockAndGo(w, from, to) \/ Go(w, from, to) \/ UnlockAndGo(w, from, to),
         \A v \in Workers \ {w} : call'[v] = call[v]
  PROVE  Basket' = [Basket EXCEPT ![w] = InBasket(w, to)]
<1>1. pc'[w] = to /\ \A v \in Workers \ {w} : pc'[v] = pc[v]
  BY MoveTypes
<1> QED
  BY <1>1 DEF Basket, InBasket, Placing

\* A move that keeps the units of a worker, or finds and leaves it without any,
\* keeps all baskets.
LEMMA BasketKept ==
  ASSUME TypeInv, NEW w \in Workers, NEW from, NEW to \in Steps,
         LockAndGo(w, from, to) \/ Go(w, from, to) \/ UnlockAndGo(w, from, to),
         call' = call, from \in Placing <=> to \in Placing
  PROVE  Basket' = Basket
<1>1. Basket' = [Basket EXCEPT ![w] = InBasket(w, to)]
  BY BasketMove
<1>2. Basket[w] = InBasket(w, to)
  BY MoveTypes DEF Basket, InBasket, Placing
<1> QED
  BY <1>1, <1>2 DEF Basket

\* A call is not the empty basket.
LEMMA CallIsNotEmpty == NoCall \notin Call
<1>1. "product_id" \notin DOMAIN NoCall
  BY DEF NoCall
<1>2. \A c \in Call : "product_id" \in DOMAIN c
  BY DEF Call
<1> QED
  BY <1>1, <1>2

\* The basket of a worker that is placing an order holds its units.
LEMMA FullBasket ==
  ASSUME TypeInv, NEW w \in Workers, pc[w] \in Placing
  PROVE  Basket[w] = call[w] /\ Basket[w] \in Call /\ Basket[w] # NoCall
  BY CallIsNotEmpty DEF TypeInv, CallInv, Basket, Placing

\* A worker that has replied has an empty basket.
LEMMA BasketEmptied ==
  ASSUME TypeInv, NEW w \in Workers, NEW from, NEW to \in Steps \ Placing,
         LockAndGo(w, from, to) \/ Go(w, from, to) \/ UnlockAndGo(w, from, to),
         Forget(w)
  PROVE  Basket' = [Basket EXCEPT ![w] = NoCall]
<1>1. \A v \in Workers \ {w} : call'[v] = call[v]
  BY DEF Forget, TypeInv, TypeOK
<1> QED
  BY <1>1, BasketMove DEF InBasket

-----------------------------------------------------------------------------
(* The book *)

BookRows == SubSeq(g_orders, 1, Promised)

\* The promised orders are the table, or all of it but its last row.
LEMMA BookShape ==
  ASSUME TypeInv, SavingInv
  PROVE  /\ BookRows \in Seq(Order) /\ Len(BookRows) = Promised
         /\ \A i \in 1 .. Promised : BookRows[i] = g_orders[i]
         /\ ~Saving => BookRows = g_orders
<1>1. g_orders \in Seq(Order) /\ Promised \in 0 .. Len(g_orders)
  BY PromisedType DEF TypeInv, TypeOK
<1>2. /\ BookRows \in Seq(Order) /\ Len(BookRows) = Promised
      /\ \A i \in 1 .. Promised : BookRows[i] = g_orders[i]
  BY <1>1 DEF BookRows
<1>3. ~Saving => BookRows = g_orders
  BY <1>1, SubSeqFull DEF BookRows, Promised
<1> QED
  BY <1>2, <1>3

\* While a worker is saving a new order, that order is the last row of the table,
\* made of the worker's locals under an id that is new to the book (lines 1016-1035).
PendingInv ==
  \A w \in Workers : pc[w] = "saving_order" =>
    /\ Promised < MaxOrders
    /\ \E id \in NextIds(BookRows) : g_orders = Append(BookRows, NewOrder(w, id))

\* The step of an order that waits for its first save, seen by a worker that
\* does not take it.
LEMMA PendingKept ==
  ASSUME TypeInv, MutexInv, SavingInv, PendingInv, NEW w \in Workers, NEW from, NEW to,
         LockAndGo(w, from, to) \/ Go(w, from, to) \/ UnlockAndGo(w, from, to),
         from # "saving_order", to # "saving_order",
         \A v \in Workers \ {w} : call'[v] = call[v],
         g_orders' = g_orders
  PROVE  PendingInv' /\ BookRows' = BookRows
<1>1. Saving' <=> Saving
  BY SavingMove
<1>2. Promised' = Promised /\ BookRows' = BookRows
  BY <1>1 DEF Promised, BookRows
<1>3. /\ pc'[w] # "saving_order"
      /\ \A v \in Workers \ {w} : pc'[v] = pc[v]
  BY DEF TypeInv, TypeOK, LockAndGo, Go, UnlockAndGo
<1> QED
  BY <1>2, <1>3 DEF PendingInv, NewOrder

\* Where no order is being saved afterwards there is none to speak of.
LEMMA NothingPending == ASSUME ~Saving' PROVE PendingInv'
  BY DEF Saving, PendingInv

-----------------------------------------------------------------------------
(* The steps *)

Refines == PendingInv' /\ (Book!Next \/ UNCHANGED Book!bookVars)

DeskInv == TypeInv /\ MutexInv /\ SavingInv /\ CapacityRespected /\ PendingInv

\* A step between two others of the same handler is invisible in the book.
LEMMA StutterRefines ==
  ASSUME DeskInv, NEW w \in Workers, NEW from, NEW to \in Steps,
         LockAndGo(w, from, to) \/ Go(w, from, to) \/ UnlockAndGo(w, from, to),
         from # "saving_order", to # "saving_order",
         from \in Placing <=> to \in Placing,
         call' = call, g_products' = g_products, g_orders' = g_orders
  PROVE  Refines
<1>1. Basket' = Basket
  BY BasketKept DEF DeskInv
<1>2. PendingInv' /\ BookRows' = BookRows
  BY PendingKept DEF DeskInv
<1> QED
  BY <1>1, <1>2 DEF Refines, Book!bookVars, BookRows

\* Lines 961-985 take units from the shelf.
LEMMA ReserveRefines ==
  ASSUME DeskInv, NEW w \in Workers, NEW username \in Customers, NEW product_id \in Nat,
         NEW quantity \in Quantities, NEW method \in Methods,
         Reserve(w, username, product_id, quantity, method)
  PROVE  Refines
<1> DEFINE to == "saving_reservation"
<1> PICK i \in DOMAIN g_products :
      /\ LockAndGo(w, "idle", to)
      /\ g_products[i].id = product_id
      /\ g_products[i].stock >= quantity
      /\ g_products' = [g_products EXCEPT ![i].stock = @ - quantity]
      /\ call' = [call EXCEPT ![w] =
                    [username |-> username, product_id |-> product_id,
                     product_name |-> g_products[i].name, quantity |-> quantity,
                     payment_method |-> method]]
      /\ g_orders' = g_orders
  BY DEF Reserve, FoundAt
<1>0. to \in Steps /\ to \in Placing /\ "idle" \notin Placing
  BY DEF Steps, LockedSteps, Placing, PaymentSteps
<1>1. \A v \in Workers \ {w} : call'[v] = call[v]
  BY DEF DeskInv, TypeInv, TypeOK
<1>2. Basket[w] = NoCall
  BY <1>0 DEF Basket, LockAndGo, Placing
<1>3. Basket' = [Basket EXCEPT ![w] =
                   [username |-> username, product_id |-> g_products[i].id,
                    product_name |-> g_products[i].name, quantity |-> quantity,
                    payment_method |-> method]]
  <2>1. Basket' = [Basket EXCEPT ![w] = InBasket(w, to)]
    BY <1>0, <1>1, BasketMove DEF DeskInv
  <2>2. InBasket(w, to) = call'[w]
    BY <1>0 DEF InBasket
  <2>3. call'[w] = [username |-> username, product_id |-> g_products[i].id,
                    product_name |-> g_products[i].name, quantity |-> quantity,
                    payment_method |-> method]
    BY DEF DeskInv, TypeInv, TypeOK
  <2> QED
    BY <2>1, <2>2, <2>3
<1>4. PendingInv' /\ BookRows' = BookRows
  BY <1>1, PendingKept DEF DeskInv
<1>5. quantity <= g_products[i].stock
  <2>1. g_products[i] \in Product
    BY DEF DeskInv, TypeInv, TypeOK
  <2>2. g_products[i].stock \in Int /\ quantity \in Int
    BY <2>1, QuantitiesAssumption, IntMaxAssumption DEF Product, CInt
  <2> QED
    BY <2>2
<1>6. Book!TakeUnits(w)
  BY <1>2, <1>3, <1>4, <1>5 DEF Book!TakeUnits, BookRows
<1> QED
  BY <1>4, <1>6 DEF Refines, Book!Next

\* Units that are given back go from the basket to the shelf, and the book stays
\* as it is, whichever of the handler's error paths gives them back.
LEMMA ReturnRefines ==
  ASSUME DeskInv, NEW w \in Workers, NEW from \in Placing, NEW to \in Steps \ Placing,
         LockAndGo(w, from, to) \/ Go(w, from, to) \/ UnlockAndGo(w, from, to),
         g_products' = Credit(g_products, call[w].product_id, call[w].quantity),
         Forget(w), BookRows' = BookRows, PendingInv'
  PROVE  Refines
<1>1. pc[w] = from
  BY DEF LockAndGo, Go, UnlockAndGo
<1>2. Basket[w] = call[w] /\ Basket[w] # NoCall
  BY <1>1, FullBasket DEF DeskInv
<1>3. Basket' = [Basket EXCEPT ![w] = NoCall]
  BY BasketEmptied DEF DeskInv
<1>4. Book!ReturnUnits(w)
  BY <1>2, <1>3, SameRules DEF Book!ReturnUnits, BookRows
<1> QED
  BY <1>4 DEF Refines, Book!Next

\* Lines 987-996 and 998-1015.
LEMMA GiveBackRefines ==
  ASSUME DeskInv, NEW w \in Workers,
         ReservationNotSaved(w) \/ \E from \in PaymentSteps : GiveBack(w, from)
  PROVE  Refines
<1>1. PICK from \in Placing \ {"saving_order"}, to \in {"saving_rollback", "idle"} :
        LockAndGo(w, from, to) \/ UnlockAndGo(w, from, to)
  BY DEF ReservationNotSaved, GiveBack, Placing, PaymentSteps
<1>2. /\ g_products' = Credit(g_products, call[w].product_id, call[w].quantity)
      /\ Forget(w) /\ g_orders' = g_orders
  BY DEF ReservationNotSaved, GiveBack
<1>3. to \in Steps \ Placing
  BY DEF Steps, LockedSteps, Placing, PaymentSteps
<1>4. \A v \in Workers \ {w} : call'[v] = call[v]
  BY <1>2 DEF Forget, DeskInv, TypeInv, TypeOK
<1>5. PendingInv' /\ BookRows' = BookRows
  BY <1>1, <1>2, <1>4, PendingKept DEF DeskInv
<1> QED
  BY <1>1, <1>2, <1>3, <1>5, ReturnRefines

\* Line 1016-1034: the order is in the table and not in the book yet.
LEMMA RecordRefines ==
  ASSUME DeskInv, NEW w \in Workers, RecordOrder(w)
  PROVE  Refines
<1> DEFINE to == "saving_order"
<1>1. /\ LockAndGo(w, "paid", to)
      /\ Len(g_orders) < MaxOrders
      /\ UNCHANGED <<g_products, call>>
  BY DEF RecordOrder
<1>2. to \in Steps /\ to \in Placing /\ "paid" \in Placing
  BY DEF Steps, LockedSteps, Placing, PaymentSteps
<1>3. Basket' = Basket
  BY <1>1, <1>2, BasketKept DEF DeskInv
<1>4. ~Saving /\ Saving'
  BY <1>1, SavingMove DEF LockAndGo, DeskInv
<1>5. PICK id \in NextIds(g_orders) : g_orders' = Append(g_orders, NewOrder(w, id))
  BY DEF RecordOrder
<1>6. /\ g_orders \in Seq(Order) /\ BookRows = g_orders
      /\ id \in Nat /\ call[w] \in Call
  <2>1. g_orders \in Seq(Order) /\ BookRows = g_orders
    BY <1>4, BookShape DEF DeskInv, TypeInv, TypeOK
  <2>2. \A order \in Order : order.id \in Nat
    BY DEF Order
  <2>3. id \in Nat
    BY <2>1, <2>2, NextIdsAbove
  <2>4. call[w] \in Call
    BY <1>1, <1>2 DEF DeskInv, TypeInv, CallInv, LockAndGo
  <2> QED
    BY <2>1, <2>3, <2>4
<1>7. NewOrder(w, id) \in Order /\ NewOrder(w, id)' = NewOrder(w, id)
  BY <1>1, <1>6, NewOrderType DEF NewOrder
<1>8. Promised' = Len(g_orders) /\ BookRows' = g_orders
  <2>1. Promised' = Len(g_orders)
    BY <1>4, <1>5, <1>6, <1>7 DEF Promised
  <2>2. SubSeq(Append(g_orders, NewOrder(w, id)), 1, Len(g_orders)) = g_orders
    BY <1>6, <1>7
  <2> QED
    BY <1>5, <2>1, <2>2 DEF BookRows
<1>9. \A v \in Workers : pc'[v] = "saving_order" => v = w
  <2>1. \A v \in Workers : pc[v] \notin LockedSteps
    BY <1>1, NoWorkerAssumption DEF DeskInv, MutexInv, LockAndGo
  <2>2. "saving_order" \in LockedSteps
    BY DEF LockedSteps
  <2> QED
    BY <1>1, <1>2, <2>1, <2>2, MoveTypes DEF DeskInv
<1>10. PendingInv'
  BY <1>1, <1>5, <1>7, <1>8, <1>9 DEF PendingInv
<1> QED
  BY <1>1, <1>3, <1>6, <1>8, <1>10 DEF Refines, Book!bookVars, BookRows

\* OK ORDER_PLACED (line 1047): the basket becomes an order of the book.
LEMMA PlaceRefines ==
  ASSUME DeskInv, NEW w \in Workers, OrderSaved(w)
  PROVE  Refines
<1>1. /\ UnlockAndGo(w, "saving_order", "idle") /\ Forget(w)
      /\ UNCHANGED <<g_products, g_orders>>
  BY DEF OrderSaved
<1>2. "saving_order" \in Placing /\ "idle" \in Steps \ Placing
      /\ "saving_order" \in LockedSteps
  BY DEF Steps, LockedSteps, Placing, PaymentSteps
<1>3. pc[w] = "saving_order" /\ ~Saving'
  <2>1. pc[w] = "saving_order"
    BY <1>1 DEF UnlockAndGo
  <2> QED
    BY <1>1, <1>2, <2>1, SavingMove DEF DeskInv
<1>4. Basket' = [Basket EXCEPT ![w] = NoCall]
  BY <1>1, <1>2, BasketEmptied DEF DeskInv
<1>5. Basket[w] = call[w] /\ Basket[w] # NoCall
  BY <1>2, <1>3, FullBasket DEF DeskInv
<1>6. PICK id \in NextIds(BookRows) :
        Promised < MaxOrders /\ g_orders = Append(BookRows, NewOrder(w, id))
  BY <1>3 DEF DeskInv, PendingInv
<1>7. BookRows' = g_orders /\ Len(BookRows) = Promised
  <2>1. TypeInv /\ SavingInv /\ g_orders \in Seq(Order)
    BY DEF DeskInv, TypeInv, TypeOK
  <2>2. SubSeq(g_orders, 1, Len(g_orders)) = g_orders
    BY <2>1, SubSeqFull
  <2> QED
    BY <1>1, <1>3, <2>1, <2>2, BookShape DEF BookRows, Promised
<1>8. Book!PlaceOrder(w)
  BY <1>1, <1>4, <1>5, <1>6, <1>7, SameRules DEF Book!PlaceOrder, BookRows, NewOrder
<1> QED
  BY <1>3, <1>8, NothingPending DEF Refines, Book!Next

\* ERR Failed to save order (line 1035): the book never had it.
LEMMA DropRefines ==
  ASSUME DeskInv, NEW w \in Workers, OrderNotSaved(w)
  PROVE  Refines
<1>1. PICK to \in {"saving_rollback", "idle"} :
        Go(w, "saving_order", to) \/ UnlockAndGo(w, "saving_order", to)
  BY DEF OrderNotSaved
<1>2. /\ g_products' = Credit(g_products, call[w].product_id, call[w].quantity)
      /\ Forget(w) /\ g_orders' = SubSeq(g_orders, 1, Len(g_orders) - 1)
  BY DEF OrderNotSaved
<1>3. to \in Steps \ Placing /\ "saving_order" \in Placing /\ "saving_order" \in LockedSteps
  BY DEF Steps, LockedSteps, Placing, PaymentSteps
<1>4. Saving /\ ~Saving'
  BY <1>1, <1>3, SavingMove DEF DeskInv
<1>5. BookRows' = BookRows
  <2>1. g_orders \in Seq(Order) /\ Promised = Len(g_orders) - 1 /\ Len(g_orders) > 0
    BY <1>4 DEF DeskInv, TypeInv, TypeOK, SavingInv, Promised
  <2>2. g_orders' = BookRows /\ BookRows \in Seq(Order)
    BY <1>2, <2>1, BookShape DEF BookRows, DeskInv
  <2>3. SubSeq(BookRows, 1, Len(BookRows)) = BookRows
    BY <2>2, SubSeqFull
  <2> QED
    BY <1>4, <2>2, <2>3 DEF BookRows, Promised
<1> QED
  BY <1>1, <1>2, <1>3, <1>4, <1>5, NothingPending, ReturnRefines

\* A cancellation or an update under the mutex is one step on an order of the book.
LEMMA ChangeRefines ==
  ASSUME DeskInv, NEW w \in Workers, NEW i \in DOMAIN g_orders,
         LockAndGo(w, "idle", "saving_update_products"), call' = call,
         \/ /\ g_orders[i].order_status \in Cancellable
            /\ g_orders' = [g_orders EXCEPT ![i] = Cancelled(@)]
            /\ g_products' = Credit(g_products, g_orders[i].product_id, g_orders[i].quantity)
         \/ \E next \in OrderStatuses :
              /\ next # "CANCELLED"
              /\ ValidTransition(g_orders[i].order_status, next)
              /\ g_orders' = [g_orders EXCEPT ![i] = Advanced(@, next)]
              /\ g_products' = g_products
  PROVE  Refines
<1>1. "saving_update_products" \in Steps \ Placing /\ "idle" \notin Placing
  BY DEF Steps, LockedSteps, Placing, PaymentSteps
<1>2. Basket' = Basket
  BY <1>1, BasketKept DEF DeskInv
<1>3. ~Saving /\ ~Saving'
  <2>1. g_db_mutex = NoWorker
    BY DEF LockAndGo
  <2> QED
    BY <2>1, SavingMove DEF DeskInv
<1>4. BookRows = g_orders
  BY <1>3, BookShape DEF DeskInv
<1>5. BookRows' = g_orders'
  <2>1. g_orders \in Seq(Order) /\ g_orders[i] \in Order
    BY DEF DeskInv, TypeInv, TypeOK
  <2>2. PICK changed \in Order : g_orders' = [g_orders EXCEPT ![i] = changed]
    BY <2>1, OrderShape DEF OrderStatuses
  <2>3. g_orders' \in Seq(Order)
    BY <2>1, <2>2
  <2>4. SubSeq(g_orders', 1, Len(g_orders')) = g_orders'
    BY <2>3, SubSeqFull
  <2> QED
    BY <1>3, <2>4 DEF BookRows, Promised
<1>6. Book!CancelOrder(i) \/ \E next \in OrderStatuses : Book!AdvanceOrder(i, next)
  BY <1>2, <1>4, <1>5, SameRules
     DEF Book!CancelOrder, Book!AdvanceOrder, BookRows, Cancellable
<1> QED
  BY <1>3, <1>4, <1>6, NothingPending, SameRules DEF Refines, Book!Next, BookRows

\* The administrator changes the shelf alone.
LEMMA CatalogueRefines ==
  ASSUME DeskInv, NEW w \in Workers, CatalogueRequest(w)
  PROVE  Refines
<1>1. /\ LockAndGo(w, "idle", "saving_catalogue")
      /\ UNCHANGED <<g_orders, call>>
  BY DEF CatalogueRequest, AddProduct, ModifyProduct, DeleteProduct
<1>2. "saving_catalogue" \in Steps \ Placing /\ "idle" \notin Placing
  BY DEF Steps, LockedSteps, Placing, PaymentSteps
<1>3. Basket' = Basket
  BY <1>1, <1>2, BasketKept DEF DeskInv
<1>4. PendingInv' /\ BookRows' = BookRows
  BY <1>1, PendingKept DEF DeskInv
<1>0. g_products \in Seq(Product)
  BY DEF DeskInv, TypeInv, TypeOK
<1>5. ASSUME NEW name, NEW stock, AddProduct(w, name, stock) PROVE Book!AddRow
  <2> PICK id \in NextIds(g_products) :
        g_products' = Append(g_products, [id |-> id, name |-> name, stock |-> stock])
    BY <1>5 DEF AddProduct
  <2> DEFINE product == [id |-> id, name |-> name, stock |-> stock]
  <2>1. Len(g_products') = Len(g_products) + 1 /\ g_products'[Len(g_products) + 1] = product
    BY <1>0
  <2> QED
    BY <2>1, SameRules DEF Book!AddRow
<1>6. ASSUME NEW product_id, NEW name, NEW stock, ModifyProduct(w, product_id, name, stock)
      PROVE  Book!ChangeRow
  <2> PICK i \in DOMAIN g_products :
        g_products' = [g_products EXCEPT ![i] = Modified(@, name, stock)]
    BY <1>6 DEF ModifyProduct
  <2>1. g_products'[i].id = g_products[i].id
    <3>1. g_products[i] \in Product /\ g_products'[i] = Modified(g_products[i], name, stock)
      BY <1>0
    <3> QED
      BY <3>1 DEF Modified, Product
  <2> QED
    BY <1>0, <2>1 DEF Book!ChangeRow
<1>7. ASSUME NEW product_id, DeleteProduct(w, product_id) PROVE Book!RemoveRow
  BY <1>7, SameRules DEF DeleteProduct, Book!RemoveRow
<1>8. Book!AddRow \/ Book!RemoveRow \/ Book!ChangeRow
  BY <1>5, <1>6, <1>7 DEF CatalogueRequest
<1> QED
  BY <1>3, <1>4, <1>8 DEF Refines, Book!Next, Book!ChangeCatalogue, BookRows


\* Every step of the program is a step of the book or invisible in it.
LEMMA StepRefines == DeskInv /\ [Next]_vars => Refines
<1> SUFFICES ASSUME DeskInv, [Next]_vars PROVE Refines
  OBVIOUS
<1>1. CASE UNCHANGED vars
  <2>1. Basket' = Basket /\ BookRows' = BookRows
    BY <1>1 DEF vars, Basket, BookRows, Promised, Saving
  <2>2. PendingInv'
    BY <1>1, <2>1 DEF vars, DeskInv, PendingInv, NewOrder, Promised, Saving
  <2> QED
    BY <1>1, <2>1, <2>2 DEF vars, Refines, Book!bookVars, BookRows
<1>2. CASE Next
  <2> PICK w \in Workers : Worker(w)
    BY <1>2 DEF Next
  <2>1. CASE CustomerRequest(w) \/ OrderRequest(w)
    <3>1. CASE \E i \in DOMAIN g_orders :
                 \/ CancelAndRestock(w, i)
                 \/ \E order_id : \E next \in OrderStatuses :
                      /\ LockAndGo(w, "idle", "saving_update_products")
                      /\ next # "CANCELLED"
                      /\ ValidTransition(g_orders[i].order_status, next)
                      /\ g_orders' = [g_orders EXCEPT ![i] = Advanced(@, next)]
                      /\ UNCHANGED <<g_products, files, call>>
      BY <3>1, ChangeRefines DEF CancelAndRestock
    <3>2. CASE \E username \in Customers, product_id \in 1 .. MaxProducts,
                  quantity \in Quantities, method \in Methods :
                 Reserve(w, username, product_id, quantity, method)
      BY <3>2, CapacityAssumption, ReserveRefines
    <3> QED
      BY <2>1, <3>1, <3>2
         DEF CustomerRequest, OrderRequest, CancelOrder, UpdateToCancelled, UpdateToNext
  <2>2. CASE CatalogueRequest(w)
    BY <2>2, CatalogueRefines
  <2>3. CASE SecondLock(w)
    BY <2>3, GiveBackRefines, RecordRefines
       DEF SecondLock, AbandonPayment, RefuseAtCapacity, PaymentSteps
  <2>4. CASE GoOn(w)
    <3> DEFINE Moves(from, to) == Go(w, from, to) \/ UnlockAndGo(w, from, to)
    <3>1. CASE \/ ReservationSaved(w) \/ PaymentSucceeds(w) \/ PaymentFails(w)
               \/ RollbackEnds(w) \/ UpdateProductsSaved(w) \/ UpdateProductsNotSaved(w)
               \/ UpdateEnds(w) \/ CatalogueEnds(w)
      <4>1. UNCHANGED <<g_products, g_orders, call>>
        BY <3>1 DEF ReservationSaved, PaymentSucceeds, PaymentFails, RollbackEnds,
                    UpdateProductsSaved, UpdateProductsNotSaved, UpdateEnds, CatalogueEnds
      <4>2. \/ Moves("saving_reservation", "paying")
            \/ \E to \in {"paid", "payment_failed"} : Moves("paying", to)
            \/ \E from \in {"saving_rollback", "saving_update_products",
                            "saving_update_orders", "saving_catalogue"},
                  to \in {"idle", "saving_update_orders"} : Moves(from, to)
        BY <3>1 DEF ReservationSaved, PaymentSucceeds, PaymentFails, RollbackEnds,
                    UpdateProductsSaved, UpdateProductsNotSaved, UpdateEnds, CatalogueEnds
      <4>3. PICK from \in Steps, to \in Steps :
              /\ Moves(from, to) /\ (from \in Placing <=> to \in Placing)
              /\ from # "saving_order" /\ to # "saving_order"
        BY <4>2 DEF Steps, LockedSteps, Placing, PaymentSteps
      <4> QED
        BY <4>1, <4>3, StutterRefines
    <3>2. CASE ReservationNotSaved(w)
      BY <3>2, GiveBackRefines
    <3> QED
      BY <2>4, <3>1, <3>2, PlaceRefines, DropRefines DEF GoOn
  <2> QED
    BY <2>1, <2>2, <2>3, <2>4 DEF Worker
<1> QED
  BY <1>1, <1>2

\* Placing an order is atomic to everybody else although the code spreads it over
\* two critical sections, a payment and up to three saves, any of which may fail
\* (handle_place_order, handle_cancel_order, handle_update_order and the catalogue).
THEOREM DeskImplementsBook == Spec => ImplementsOrderBook
<1>1. Init => OnFileInv /\ PendingInv /\ Book!Init
  <2> SUFFICES ASSUME Init PROVE OnFileInv /\ PendingInv /\ Book!Init
    OBVIOUS
  <2>1. OnFileInv /\ PendingInv
    BY DEF Init, OnFileInv, SavingInv, PendingInv, OrdersOnFile, Promised, Saving
  <2>2. Basket = [w \in Workers |-> NoCall]
    BY DEF Init, Basket, PaymentSteps
  <2>3. Promised = 0 /\ SubSeq(g_orders, 1, Promised) = << >>
    BY SubSeqEmpty DEF Init, Promised, Saving
  <2> QED
    BY <2>1, <2>2, <2>3 DEF Book!Init
<1>2. TypeInv /\ MutexInv /\ OnFileInv /\ CapacityRespected /\ PendingInv /\ [Next]_vars
        => PendingInv' /\ [Book!Next]_Book!bookVars
  BY StepRefines DEF DeskInv, OnFileInv, Refines
<1> QED
  BY <1>1, <1>2, OnFileNext, TypeInvariance, MutualExclusion, CapacityAlwaysRespected, PTL
     DEF Spec, ImplementsOrderBook, Book!Spec

-----------------------------------------------------------------------------
(* Sums *)

\* A set of natural numbers that has an element has a least one.
LEMMA LeastNatural ==
  ASSUME NEW T \in SUBSET Nat, T # {}
  PROVE  \E m \in T : m \in Nat /\ \A n \in Nat : n < m => n \notin T
<1> DEFINE Less == {ss \in Nat \X Nat : ss[1] < ss[2]}
<1>1. IsWellFoundedOn(Less, Nat)
  BY NatLessThanWellFounded DEF OpToRel
<1>2. \A m, n \in Nat : <<n, m>> \in Less <=> n < m
  OBVIOUS
<1> HIDE DEF Less
<1>3. \E m \in T : \A n \in T : ~(<<n, m>> \in Less)
  BY <1>1, WFMin
<1> QED
  BY <1>2, <1>3

\* How a sum is computed: one element after the other, in the order of CHOOSE.
Pick(s) == CHOOSE x \in s : TRUE
Turn(fun, g, s) == IF s = {} THEN 0 ELSE fun[Pick(s)] + g[s \ {Pick(s)}]
Agree(fun, gun, S) == \A x \in S : fun[x] = gun[x]
Solves(g, fun, S) == g = [s \in SUBSET S |-> Turn(fun, g, s)]

\* The element CHOOSE takes is one of the set.
LEMMA PickIn ==
  ASSUME NEW s, s # {}
  PROVE  Pick(s) \in s
  BY DEF Pick

\* The subsets of a finite set, smaller ones by smaller numbers.
LEMMA SmallerSets ==
  ASSUME NEW S, IsFiniteSet(S), NEW s \in SUBSET S
  PROVE  /\ IsFiniteSet(s) /\ Cardinality(s) \in Nat
         /\ Cardinality(s) <= Cardinality(S)
         /\ Cardinality(s) <= 0 => s = {}
         /\ \A x \in s : /\ s \ {x} \in SUBSET S
                         /\ Cardinality(s \ {x}) = Cardinality(s) - 1
<1>1. IsFiniteSet(s) /\ Cardinality(s) <= Cardinality(S)
  BY FS_Subset
<1>2. Cardinality(s) \in Nat
  BY <1>1, FS_CardinalityType
<1>3. Cardinality(s) = 0 <=> s = {}
  BY <1>1, FS_EmptySet
<1>4. \A x \in s : Cardinality(s \ {x}) = Cardinality(s) - 1
  BY <1>1, FS_RemoveElement
<1> QED
  BY <1>1, <1>2, <1>3, <1>4

\* The recursion of a sum over a finite set has a solution.
LEMMA SumExists ==
  ASSUME NEW fun, NEW S, IsFiniteSet(S)
  PROVE  \E g : Solves(g, fun, S)
<1> DEFINE Good(n) == \E g : \A s \in SUBSET S : Cardinality(s) <= n => g[s] = Turn(fun, g, s)
<1>1. Good(0)
  <2> DEFINE g == [s \in SUBSET S |-> 0]
  <2>1. \A s \in SUBSET S : Cardinality(s) <= 0 => g[s] = Turn(fun, g, s)
    BY SmallerSets DEF Turn
  <2> QED
    BY <2>1
<1>2. ASSUME NEW n \in Nat, Good(n) PROVE Good(n + 1)
  <2> PICK g : \A s \in SUBSET S : Cardinality(s) <= n => g[s] = Turn(fun, g, s)
    BY <1>2
  <2> DEFINE h == [s \in SUBSET S |-> IF Cardinality(s) <= n THEN g[s] ELSE Turn(fun, g, s)]
  <2>1. ASSUME NEW s \in SUBSET S, Cardinality(s) <= n + 1 PROVE h[s] = Turn(fun, g, s)
    BY <2>1
  <2>2. ASSUME NEW s \in SUBSET S, Cardinality(s) <= n + 1, s # {}
        PROVE  h[s \ {Pick(s)}] = g[s \ {Pick(s)}]
    <3>1. s \ {Pick(s)} \in SUBSET S /\ Cardinality(s \ {Pick(s)}) = Cardinality(s) - 1
          /\ Cardinality(s) \in Nat
      BY <2>2, PickIn, SmallerSets
    <3> QED
      BY <2>2, <3>1
  <2>3. \A s \in SUBSET S : Cardinality(s) <= n + 1 => h[s] = Turn(fun, h, s)
    BY <2>1, <2>2 DEF Turn
  <2> QED
    BY <2>3
<1> HIDE DEF Good
<1>3. \A n \in Nat : Good(n)
  <2> DEFINE T == {n \in Nat : ~Good(n)}
  <2>1. SUFFICES ASSUME T # {} PROVE FALSE
    OBVIOUS
  <2>2. PICK m \in T : m \in Nat /\ \A n \in Nat : n < m => n \notin T
    BY <2>1, LeastNatural
  <2>3. m # 0
    BY <1>1
  <2>4. m - 1 \in Nat /\ Good(m - 1)
    BY <2>2, <2>3
  <2> QED
    BY <1>2, <2>4
<1>4. PICK g : \A s \in SUBSET S : g[s] = Turn(fun, g, s)
  <2>1. Good(Cardinality(S))
    BY <1>3, FS_CardinalityType
  <2> QED
    BY <2>1, SmallerSets DEF Good
<1> DEFINE sum == [s \in SUBSET S |-> g[s]]
<1>5. ASSUME NEW s \in SUBSET S PROVE sum[s] = Turn(fun, sum, s)
  <2>1. s # {} => s \ {Pick(s)} \in SUBSET S
    OBVIOUS
  <2> QED
    BY <1>4, <2>1 DEF Turn
<1>6. sum = [s \in SUBSET S |-> Turn(fun, sum, s)]
  BY <1>5
<1> QED
  BY <1>6 DEF Solves

\* Two solutions agree where both are defined and the functions do.
LEMMA SumUnique ==
  ASSUME NEW S, IsFiniteSet(S), NEW fun, NEW gun, Agree(fun, gun, S),
         NEW T, S \subseteq T, NEW g, Solves(g, fun, T), NEW h, Solves(h, gun, S)
  PROVE  g[S] = h[S]
<1> DEFINE Bad == {n \in Nat : \E s \in SUBSET S : Cardinality(s) = n /\ g[s] # h[s]}
<1>1. SUFFICES ASSUME g[S] # h[S] PROVE FALSE
  OBVIOUS
<1>2. Cardinality(S) \in Bad
  BY <1>1, FS_CardinalityType
<1>3. PICK n \in Bad : n \in Nat /\ \A m \in Nat : m < n => m \notin Bad
  BY <1>2, LeastNatural
<1>4. PICK s \in SUBSET S : Cardinality(s) = n /\ g[s] # h[s]
  BY <1>3
<1>5. g[s] = Turn(fun, g, s) /\ h[s] = Turn(gun, h, s)
  BY <1>4 DEF Solves
<1>6. s # {}
  BY <1>4, <1>5 DEF Turn
<1> DEFINE t == s \ {Pick(s)}
<1>7. Pick(s) \in s
  BY <1>6, PickIn
<1>8. t \in SUBSET S /\ Cardinality(t) = n - 1 /\ Cardinality(t) \in Nat
  BY <1>4, <1>7, SmallerSets
<1> HIDE DEF t
<1>9. Cardinality(t) \notin Bad
  BY <1>3, <1>8
<1>10. g[t] = h[t]
  BY <1>8, <1>9
<1> QED
  BY <1>4, <1>5, <1>6, <1>7, <1>10 DEF Turn, Agree, t

\* The sum of the community modules is what a solution gives for the whole set.
LEMMA SumSolution ==
  ASSUME NEW fun, NEW S, IsFiniteSet(S)
  PROVE  \E g : Solves(g, fun, S) /\ SumFunctionOnSet(fun, S) = g[S]
<1> DEFINE g == CHOOSE g : Solves(g, fun, S)
<1>1. Solves(g, fun, S)
  BY SumExists
<1>2. SumFunctionOnSet(fun, S) = g[S]
  BY DEF SumFunctionOnSet, FoldFunctionOnSet, MapThenFoldSet, Solves, Turn, Pick
<1> QED
  BY <1>1, <1>2

\* A sum depends on the function's values on the set alone.
LEMMA SumCongruent ==
  ASSUME NEW S, IsFiniteSet(S), NEW fun, NEW gun, \A x \in S : fun[x] = gun[x]
  PROVE  SumFunctionOnSet(fun, S) = SumFunctionOnSet(gun, S)
<1>1. PICK g : Solves(g, fun, S) /\ SumFunctionOnSet(fun, S) = g[S]
  BY SumSolution
<1>2. PICK h : Solves(h, gun, S) /\ SumFunctionOnSet(gun, S) = h[S]
  BY SumSolution
<1>3. g[S] = h[S]
  BY <1>1, <1>2, SumUnique DEF Agree
<1> QED
  BY <1>1, <1>2, <1>3

\* One turn of the recursion: nothing, or one element and the sum of the others.
LEMMA SumTurn ==
  ASSUME NEW fun, NEW S, IsFiniteSet(S)
  PROVE  /\ S = {} => SumFunctionOnSet(fun, S) = 0
         /\ S # {} => SumFunctionOnSet(fun, S) =
                        fun[Pick(S)] + SumFunctionOnSet(fun, S \ {Pick(S)})
<1>1. PICK g : Solves(g, fun, S) /\ SumFunctionOnSet(fun, S) = g[S]
  BY SumSolution
<1>2. g[S] = Turn(fun, g, S)
  BY <1>1 DEF Solves
<1> DEFINE T == S \ {Pick(S)}
<1>3. IsFiniteSet(T) /\ T \subseteq S
  BY FS_RemoveElement
<1> HIDE DEF T
<1>4. PICK h : Solves(h, fun, T) /\ SumFunctionOnSet(fun, T) = h[T]
  BY <1>3, SumSolution
<1>5. g[T] = h[T]
  <2>1. Agree(fun, fun, T)
    BY DEF Agree
  <2> QED
    BY <1>1, <1>3, <1>4, <2>1, SumUnique
<1> QED
  BY <1>1, <1>2, <1>4, <1>5 DEF Turn, T

\* A sum of natural numbers is one, a sum of integers is one and one of zeros is zero.
LEMMA SumType ==
  ASSUME NEW R \in {Nat, Int, {0}}, NEW S, IsFiniteSet(S), NEW fun, \A x \in S : fun[x] \in R
  PROVE  SumFunctionOnSet(fun, S) \in R
<1> DEFINE Sum(T) == SumFunctionOnSet(fun, T)
           Bad == {n \in Nat : \E T \in SUBSET S : Cardinality(T) = n /\ Sum(T) \notin R}
<1>1. SUFFICES ASSUME Sum(S) \notin R PROVE FALSE
  OBVIOUS
<1> HIDE DEF Sum
<1>2. Cardinality(S) \in Bad
  BY <1>1, FS_CardinalityType
<1>3. PICK n \in Bad : n \in Nat /\ \A m \in Nat : m < n => m \notin Bad
  BY <1>2, LeastNatural
<1>4. PICK T \in SUBSET S : Cardinality(T) = n /\ Sum(T) \notin R
  BY <1>3
<1>5. IsFiniteSet(T)
  BY FS_Subset
<1>6. T # {}
  <2>1. Sum({}) = 0
    BY SumTurn, FS_EmptySet DEF Sum
  <2> QED
    BY <1>4, <2>1
<1> DEFINE t == T \ {Pick(T)}
<1>7. Pick(T) \in T /\ Sum(T) = fun[Pick(T)] + Sum(t)
  BY <1>5, <1>6, PickIn, SumTurn DEF Sum
<1>8. t \in SUBSET S /\ Cardinality(t) = n - 1 /\ Cardinality(t) \in Nat
  BY <1>4, <1>7, SmallerSets
<1> HIDE DEF t
<1>9. Cardinality(t) \notin Bad
  BY <1>3, <1>8
<1>10. Sum(t) \in R
  BY <1>8, <1>9
<1> QED
  BY <1>4, <1>7, <1>10

\* Any element may be taken out first.
LEMMA SumRemove ==
  ASSUME NEW S, IsFiniteSet(S), NEW fun, \A x \in S : fun[x] \in Int, NEW x \in S
  PROVE  SumFunctionOnSet(fun, S) = fun[x] + SumFunctionOnSet(fun, S \ {x})
<1> DEFINE Sum(T) == SumFunctionOnSet(fun, T)
           Good(T) == \A y \in T : Sum(T) = fun[y] + Sum(T \ {y})
           Bad == {n \in Nat : \E T \in SUBSET S : Cardinality(T) = n /\ ~Good(T)}
<1>1. SUFFICES ASSUME ~Good(S) PROVE FALSE
  OBVIOUS
<1>2. \A T \in SUBSET S : IsFiniteSet(T) /\ Sum(T) \in Int
  BY FS_Subset, SumType
<1> HIDE DEF Sum
<1>3. Cardinality(S) \in Bad
  BY <1>1, FS_CardinalityType
<1>4. PICK n \in Bad : n \in Nat /\ \A m \in Nat : m < n => m \notin Bad
  BY <1>3, LeastNatural
<1>5. PICK T \in SUBSET S : Cardinality(T) = n /\ ~Good(T)
  BY <1>4
<1>6. ASSUME NEW y \in T PROVE Good(T \ {y})
  <2> DEFINE t == T \ {y}
  <2>1. t \in SUBSET S /\ Cardinality(t) = n - 1 /\ Cardinality(t) \in Nat
    BY <1>5, SmallerSets
  <2> HIDE DEF t
  <2>2. Cardinality(t) \notin Bad
    BY <1>4, <2>1
  <2>3. Good(t)
    BY <2>1, <2>2
  <2> QED
    BY <2>3 DEF t
<1>7. PICK y \in T : Sum(T) # fun[y] + Sum(T \ {y})
  BY <1>5
<1> DEFINE c == Pick(T)
           rest == (T \ {c}) \ {y}
<1>8. c \in T /\ Sum(T) = fun[c] + Sum(T \ {c})
  BY <1>2, <1>7, PickIn, SumTurn DEF Sum
<1> HIDE DEF c
<1>9. y # c
  BY <1>7, <1>8
<1>10. Sum(T \ {c}) = fun[y] + Sum(rest)
  BY <1>6, <1>8, <1>9
<1>11. Sum(T \ {y}) = fun[c] + Sum(rest)
  <2>1. (T \ {y}) \ {c} = rest
    OBVIOUS
  <2> QED
    BY <1>6, <1>8, <1>9, <2>1
<1>12. fun[c] \in Int /\ fun[y] \in Int /\ Sum(rest) \in Int
  BY <1>2, <1>8
<1> HIDE DEF rest
<1> QED
  BY <1>7, <1>8, <1>10, <1>11, <1>12

\* A sum over two functions that differ at one place.
LEMMA SumChange ==
  ASSUME NEW S, IsFiniteSet(S), NEW fun, NEW gun, NEW x \in S,
         \A y \in S : fun[y] \in Int /\ gun[y] \in Int,
         \A y \in S \ {x} : gun[y] = fun[y]
  PROVE  SumFunctionOnSet(gun, S) = SumFunctionOnSet(fun, S) - fun[x] + gun[x]
<1> DEFINE rest == S \ {x}
<1>1. IsFiniteSet(rest)
  BY FS_RemoveElement
<1>2. SumFunctionOnSet(fun, rest) \in Int
  BY <1>1, SumType
<1>3. SumFunctionOnSet(gun, rest) = SumFunctionOnSet(fun, rest)
  BY <1>1, SumCongruent
<1>4. /\ SumFunctionOnSet(fun, S) = fun[x] + SumFunctionOnSet(fun, rest)
      /\ SumFunctionOnSet(gun, S) = gun[x] + SumFunctionOnSet(gun, rest)
  BY SumRemove
<1> HIDE DEF rest
<1> QED
  BY <1>2, <1>3, <1>4

\* No term of a sum of natural numbers is larger than the sum.
LEMMA SumBound ==
  ASSUME NEW S, IsFiniteSet(S), NEW fun, \A y \in S : fun[y] \in Nat, NEW x \in S
  PROVE  fun[x] <= SumFunctionOnSet(fun, S) /\ SumFunctionOnSet(fun, S) \in Nat
<1> DEFINE rest == S \ {x}
<1>1. IsFiniteSet(rest)
  BY FS_RemoveElement
<1>2. SumFunctionOnSet(fun, rest) \in Nat /\ SumFunctionOnSet(fun, S) \in Nat
  BY <1>1, SumType
<1>3. SumFunctionOnSet(fun, S) = fun[x] + SumFunctionOnSet(fun, rest)
  BY SumRemove
<1> HIDE DEF rest
<1> QED
  BY <1>2, <1>3

-----------------------------------------------------------------------------
(* Units reserved and sold *)

\* What a worker holds of a product is a number of units.
LEMMA HeldType == TypeInv => \A w \in Workers : \A p : Held(w, p) \in Nat
<1> SUFFICES ASSUME TypeInv, NEW w \in Workers, NEW p PROVE Held(w, p) \in Nat
  OBVIOUS
<1>1. pc[w] \in PaymentSteps \cup {"saving_reservation"} => call[w].quantity \in Quantities
  BY DEF TypeInv, CallInv, Placing, Call
<1>2. Quantities \subseteq Nat
  BY QuantitiesAssumption, IntMaxAssumption
<1> QED
  BY <1>1, <1>2 DEF Held

\* The same after a step.
LEMMA HeldTypeAfter == TypeInv' => (\A w \in Workers : \A p : Held(w, p) \in Nat)'
  BY HeldType, PTL

\* The units reserved are as many as each worker holds at least.
LEMMA ReservedType ==
  ASSUME TypeInv, NEW p
  PROVE  Reserved(p) \in Nat /\ \A w \in Workers : Held(w, p) <= Reserved(p)
<1> DEFINE held == [w \in Workers |-> Held(w, p)]
<1>1. \A w \in Workers : held[w] \in Nat /\ held[w] = Held(w, p)
  BY HeldType
<1>2. Reserved(p) = SumFunctionOnSet(held, Workers)
  BY DEF Reserved, SumFunction
<1> HIDE DEF held
<1> QED
  BY <1>1, <1>2, SumType, SumBound, WorkersAssumption

\* When one worker moves, the units reserved change by what it holds.
LEMMA ReservedMove ==
  ASSUME TypeInv, TypeInv', NEW w \in Workers, NEW p,
         \A v \in Workers \ {w} : pc'[v] = pc[v] /\ call'[v] = call[v]
  PROVE  Reserved(p)' = Reserved(p) - Held(w, p) + Held(w, p)'
<1> DEFINE before == [v \in Workers |-> Held(v, p)]
           after == [v \in Workers |-> Held(v, p)']
<1>1. \A v \in Workers : before[v] \in Nat /\ after[v] \in Nat
  <2>1. \A v \in Workers : Held(v, p) \in Nat
    BY HeldType
  <2>2. (\A v \in Workers : \A q : Held(v, q) \in Nat)'
    BY HeldTypeAfter
  <2> QED
    BY <2>1, <2>2
<1>2. \A v \in Workers \ {w} : after[v] = before[v]
  BY DEF Held
<1>3. /\ Reserved(p) = SumFunctionOnSet(before, Workers)
      /\ Reserved(p)' = SumFunctionOnSet(after, Workers)
  BY DEF Reserved, SumFunction
<1>4. before[w] = Held(w, p) /\ after[w] = Held(w, p)'
  OBVIOUS
<1> HIDE DEF before, after
<1> QED
  BY <1>1, <1>2, <1>3, <1>4, SumChange, WorkersAssumption

\* The same sum over any table of orders.
SoldIn(orders, p) == SumFunction([k \in DOMAIN orders |-> Ordered(orders[k], p)])

\* What an order takes of a product is a number of units.
LEMMA OrderedType ==
  ASSUME NEW order \in Order, NEW p
  PROVE  Ordered(order, p) \in Nat
<1>1. order.quantity \in Quantities
  BY DEF Order
<1>2. Quantities \subseteq Nat
  BY QuantitiesAssumption, IntMaxAssumption
<1> QED
  BY <1>1, <1>2 DEF Ordered

\* A table of orders as the function that is summed.
LEMMA SoldAsSum ==
  ASSUME NEW orders \in Seq(Order), NEW p
  PROVE  /\ IsFiniteSet(1 .. Len(orders))
         /\ \A k \in 1 .. Len(orders) : Ordered(orders[k], p) \in Nat
         /\ SoldIn(orders, p) =
              SumFunctionOnSet([k \in 1 .. Len(orders) |-> Ordered(orders[k], p)],
                               1 .. Len(orders))
<1>1. IsFiniteSet(1 .. Len(orders))
  BY FS_Interval
<1>2. \A k \in 1 .. Len(orders) : Ordered(orders[k], p) \in Nat
  BY OrderedType
<1>3. DOMAIN orders = 1 .. Len(orders)
  OBVIOUS
<1> QED
  BY <1>1, <1>2, <1>3 DEF SoldIn, SumFunction

\* The units sold are as many as each order takes at least.
LEMMA SoldType ==
  ASSUME NEW orders \in Seq(Order), NEW p
  PROVE  /\ SoldIn(orders, p) \in Nat
         /\ \A k \in 1 .. Len(orders) : Ordered(orders[k], p) <= SoldIn(orders, p)
<1> DEFINE fun == [k \in 1 .. Len(orders) |-> Ordered(orders[k], p)]
<1>1. \A k \in 1 .. Len(orders) : fun[k] \in Nat /\ fun[k] = Ordered(orders[k], p)
  BY SoldAsSum
<1>2. SoldIn(orders, p) = SumFunctionOnSet(fun, 1 .. Len(orders))
      /\ IsFiniteSet(1 .. Len(orders))
  BY SoldAsSum
<1> HIDE DEF fun
<1> QED
  BY <1>1, <1>2, SumType, SumBound

\* A new order adds its units ...
LEMMA SoldAppend ==
  ASSUME NEW orders \in Seq(Order), NEW order \in Order, NEW p
  PROVE  SoldIn(Append(orders, order), p) = SoldIn(orders, p) + Ordered(order, p)
<1> DEFINE more == Append(orders, order)
           n == Len(orders) + 1
           fun == [k \in 1 .. Len(orders) |-> Ordered(orders[k], p)]
           gun == [k \in 1 .. Len(more) |-> Ordered(more[k], p)]
<1>1. more \in Seq(Order) /\ Len(more) = n /\ more[n] = order
      /\ \A k \in 1 .. Len(orders) : more[k] = orders[k]
  OBVIOUS
<1>2. /\ SoldIn(orders, p) = SumFunctionOnSet(fun, 1 .. Len(orders))
      /\ IsFiniteSet(1 .. Len(orders))
  BY SoldAsSum
<1>3. /\ SoldIn(more, p) = SumFunctionOnSet(gun, 1 .. n)
      /\ IsFiniteSet(1 .. n)
      /\ \A k \in 1 .. n : gun[k] \in Nat
  BY <1>1, SoldAsSum
<1>4. \A k \in 1 .. Len(orders) : fun[k] = gun[k]
  BY <1>1
<1>5. gun[n] = Ordered(order, p)
  BY <1>1
<1>6. n \in 1 .. n /\ (1 .. n) \ {n} = 1 .. Len(orders)
  OBVIOUS
<1> HIDE DEF n, fun, gun, more
<1>7. SumFunctionOnSet(gun, 1 .. n) = gun[n] + SumFunctionOnSet(gun, 1 .. Len(orders))
  <2>1. \A k \in 1 .. n : gun[k] \in Int
    BY <1>3
  <2>2. SumFunctionOnSet(gun, 1 .. n) = gun[n] + SumFunctionOnSet(gun, (1 .. n) \ {n})
    BY <1>3, <1>6, <2>1, SumRemove
  <2> QED
    BY <1>6, <2>2
<1>8. SumFunctionOnSet(fun, 1 .. Len(orders)) = SumFunctionOnSet(gun, 1 .. Len(orders))
  BY <1>2, <1>4, SumCongruent
<1>9. Ordered(order, p) \in Nat /\ SoldIn(orders, p) \in Nat
  BY OrderedType, SoldType
<1> QED
  BY <1>2, <1>3, <1>5, <1>7, <1>8, <1>9 DEF more

\* ... and one that changes, the difference.
LEMMA SoldChange ==
  ASSUME NEW orders \in Seq(Order), NEW i \in 1 .. Len(orders), NEW changed \in Order, NEW p
  PROVE  SoldIn([orders EXCEPT ![i] = changed], p) =
           SoldIn(orders, p) - Ordered(orders[i], p) + Ordered(changed, p)
<1> DEFINE other == [orders EXCEPT ![i] = changed]
           n == Len(orders)
           fun == [k \in 1 .. Len(orders) |-> Ordered(orders[k], p)]
           gun == [k \in 1 .. Len(other) |-> Ordered(other[k], p)]
<1>1. other \in Seq(Order) /\ Len(other) = n /\ other[i] = changed
      /\ \A k \in (1 .. n) \ {i} : other[k] = orders[k]
  OBVIOUS
<1>2. /\ SoldIn(orders, p) = SumFunctionOnSet(fun, 1 .. n)
      /\ IsFiniteSet(1 .. n)
      /\ \A k \in 1 .. n : fun[k] \in Nat
  BY SoldAsSum
<1>3. /\ SoldIn(other, p) = SumFunctionOnSet(gun, 1 .. n)
      /\ \A k \in 1 .. n : gun[k] \in Nat
  BY <1>1, SoldAsSum
<1>4. /\ fun[i] = Ordered(orders[i], p) /\ gun[i] = Ordered(changed, p)
      /\ \A k \in (1 .. n) \ {i} : gun[k] = fun[k]
  BY <1>1
<1> HIDE DEF fun, gun, other, n
<1>5. SumFunctionOnSet(gun, 1 .. n) = SumFunctionOnSet(fun, 1 .. n) - fun[i] + gun[i]
  <2>1. \A k \in 1 .. n : fun[k] \in Int /\ gun[k] \in Int
    BY <1>2, <1>3
  <2>2. i \in 1 .. n /\ IsFiniteSet(1 .. n)
    BY <1>2 DEF n
  <2>3. \A k \in (1 .. n) \ {i} : fun[k] = gun[k]
    BY <1>4
  <2> DEFINE ks == 1 .. n
             row == i
  <2>4. /\ row \in ks /\ IsFiniteSet(ks)
        /\ \A k \in ks : fun[k] \in Int /\ gun[k] \in Int
        /\ \A k \in ks \ {row} : gun[k] = fun[k]
    BY <2>1, <2>2, <2>3
  <2> HIDE DEF ks, row
  <2>5. SumFunctionOnSet(gun, ks) = SumFunctionOnSet(fun, ks) - fun[row] + gun[row]
    BY <2>4, SumChange
  <2> QED
    BY <2>5 DEF ks, row
<1> QED
  BY <1>2, <1>3, <1>4, <1>5 DEF other

-----------------------------------------------------------------------------
(* The stock *)

\* The units that come back are added to the stock of the row that has the id, as
\* far as an int holds them, and to no other row (lines 1000, 1010-1015, 1142).
LEMMA CreditedStock ==
  ASSUME NEW table \in Seq(Product), \A k \in 1 .. Len(table) : table[k].id = k,
         NEW p, NEW q \in Quantities, NEW i \in 1 .. Len(table),
         p = i => table[i].stock + q <= IntMax
  PROVE  Credit(table, p, q)[i].stock = table[i].stock + (IF p = i THEN q ELSE 0)
<1>1. table[i] \in Product /\ table[i].id = i /\ DOMAIN table = 1 .. Len(table)
  OBVIOUS
<1>2. table[i].stock \in Int /\ table[i].stock >= 0 - IntMax - 1 /\ q \in Nat /\ IntMax \in Nat
  BY <1>1, QuantitiesAssumption, IntMaxAssumption DEF Product, CInt
<1>3. FoundAt(table, p, i) <=> p = i
  BY <1>1 DEF FoundAt
<1>4. CASE p = i
  <2>1. Credit(table, p, q)[i] = [table[i] EXCEPT !.stock = AddInt(table[i].stock, q)]
    BY <1>1, <1>3, <1>4 DEF Credit
  <2>2. AddInt(table[i].stock, q) = table[i].stock + q
    BY <1>2, <1>4 DEF AddInt
  <2> QED
    BY <1>1, <1>4, <2>1, <2>2 DEF Product
<1>5. CASE p # i
  BY <1>1, <1>2, <1>3, <1>5 DEF Credit
<1> QED
  BY <1>4, <1>5

-----------------------------------------------------------------------------
(* The steps *)

\* What the units need: everything the refinement needs, and that the product with
\* an id is the row with that number, so that units come back to their row.
UnitsInv == DeskInv /\ CatalogueOK(g_products)

\* What a step does to the units of a row, and one that gives units back.
Conserved(i) == Units(i) <= IntMax => Units(i)' = Units(i)
Restocked(i) == Units(i)' = Units(i) /\ g_products'[i].stock >= g_products[i].stock

\* A worker that is placing an order holds units until the order is recorded.
Holding == PaymentSteps \cup {"saving_reservation"}

\* What units are made of.
LEMMA UnitsType ==
  ASSUME UnitsInv, NEW i \in DOMAIN g_products
  PROVE  /\ g_products[i].stock \in Int /\ g_products[i].id = i
         /\ Reserved(i) \in Nat /\ Sold(i) \in Nat /\ IntMax \in Nat
         /\ i \in 1 .. Len(g_products) /\ g_products[i] \in Product
<1>1. g_products \in Seq(Product) /\ g_orders \in Seq(Order) /\ TypeInv
  BY DEF UnitsInv, DeskInv, TypeInv, TypeOK
<1>2. i \in 1 .. Len(g_products) /\ g_products[i] \in Product
  BY <1>1
<1>3. g_products[i].stock \in Int /\ g_products[i].id = i
  BY <1>2 DEF Product, CInt, UnitsInv, CatalogueOK, NumberedFrom1
<1>4. Reserved(i) \in Nat
  BY <1>1, ReservedType
<1>5. Sold(i) \in Nat
  BY <1>1, SoldType DEF Sold, SoldIn
<1> QED
  BY <1>2, <1>3, <1>4, <1>5, IntMaxAssumption

\* Units that one worker moves between the shelf, its basket and the orders.
LEMMA UnitsMoved ==
  ASSUME UnitsInv, TypeInv', NEW w \in Workers, NEW i \in DOMAIN g_products,
         \A v \in Workers \ {w} : pc'[v] = pc[v] /\ call'[v] = call[v],
         NEW shelf \in Int, NEW sold \in Int,
         g_products'[i].stock = g_products[i].stock + shelf,
         Sold(i)' = Sold(i) + sold,
         Held(w, i)' = Held(w, i) - shelf - sold
  PROVE  Units(i)' = Units(i)
<1>1. g_products[i].stock \in Int /\ Reserved(i) \in Nat /\ Sold(i) \in Nat
  BY UnitsType
<1>2. Held(w, i) \in Nat
  BY HeldType DEF UnitsInv, DeskInv
<1>3. Reserved(i)' = Reserved(i) - Held(w, i) + Held(w, i)'
  BY ReservedMove DEF UnitsInv, DeskInv
<1>4. Units(i)' = g_products'[i].stock + Reserved(i)' + Sold(i)'
  BY DEF Units
<1> QED
  BY <1>1, <1>2, <1>3, <1>4 DEF Units

\* Units that come back to the shelf find room in an int (lines 1000, 1142).
LEMMA UnitsComeBack ==
  ASSUME UnitsInv, NEW i \in DOMAIN g_products, NEW p, NEW q \in Quantities,
         p = i => g_products[i].stock + q <= IntMax,
         g_products' = Credit(g_products, p, q)
  PROVE  g_products'[i].stock = g_products[i].stock + (IF p = i THEN q ELSE 0)
<1>1. /\ g_products \in Seq(Product)
      /\ \A k \in 1 .. Len(g_products) : g_products[k].id = k
  BY DEF UnitsInv, DeskInv, TypeInv, TypeOK, CatalogueOK, NumberedFrom1
<1>2. i \in 1 .. Len(g_products)
  BY UnitsType
<1> QED
  BY <1>1, <1>2, CreditedStock

\* A worker that moves on with its units, or finds and leaves none, holds as many.
LEMMA HeldKept ==
  ASSUME NEW w \in Workers, NEW p,
         pc'[w] \in Holding <=> pc[w] \in Holding,
         pc[w] \in Holding => call'[w] = call[w]
  PROVE  Held(w, p)' = Held(w, p)
  BY DEF Held, Holding

\* What a worker holds, and that it holds nothing once its order is settled.
LEMMA HeldUnits ==
  ASSUME TypeInv, NEW w \in Workers, NEW p
  PROVE  /\ pc[w] \in Holding => Held(w, p) = (IF call[w].product_id = p
                                               THEN call[w].quantity ELSE 0)
         /\ pc[w] \notin Holding => Held(w, p) = 0
         /\ pc'[w] \notin Holding => Held(w, p)' = 0
         /\ pc[w] \in Placing => call[w] \in Call /\ call[w].quantity \in Quantities
  BY DEF Held, Holding, TypeInv, CallInv, Placing, Call

\* The units a handler moves from one of its steps to another.
LEMMA WorkerMoves ==
  ASSUME TypeInv, NEW w \in Workers, NEW from, NEW to \in Steps,
         LockAndGo(w, from, to) \/ Go(w, from, to) \/ UnlockAndGo(w, from, to),
         call' = call \/ Forget(w)
  PROVE  /\ pc[w] = from /\ pc'[w] = to
         /\ \A v \in Workers \ {w} : pc'[v] = pc[v] /\ call'[v] = call[v]
         /\ call' = call => call'[w] = call[w]
<1>1. pc[w] = from /\ pc'[w] = to /\ \A v \in Workers \ {w} : pc'[v] = pc[v]
  BY MoveTypes
<1>2. \A v \in Workers \ {w} : call'[v] = call[v]
  BY DEF Forget, TypeInv, TypeOK
<1> QED
  BY <1>1, <1>2

\* A step that changes no table and keeps what its worker holds.
LEMMA QuietUnits ==
  ASSUME UnitsInv, TypeInv', NEW w \in Workers, NEW from, NEW to \in Steps,
         LockAndGo(w, from, to) \/ Go(w, from, to) \/ UnlockAndGo(w, from, to),
         \/ call' = call /\ (from \in Holding <=> to \in Holding)
         \/ Forget(w) /\ from \notin Holding /\ to \notin Holding,
         g_products' = g_products, g_orders' = g_orders,
         NEW i \in DOMAIN g_products
  PROVE  Conserved(i)
<1>1. TypeInv
  BY DEF UnitsInv, DeskInv
<1>2. /\ pc[w] = from /\ pc'[w] = to
      /\ \A v \in Workers \ {w} : pc'[v] = pc[v] /\ call'[v] = call[v]
      /\ call' = call => call'[w] = call[w]
  BY <1>1, WorkerMoves
<1>3. Held(w, i)' = Held(w, i)
  BY <1>2, HeldKept
<1>4. Sold(i)' = Sold(i) /\ g_products'[i].stock = g_products[i].stock
  BY DEF Sold
<1>5. g_products[i].stock \in Int /\ Sold(i) \in Int /\ Held(w, i) \in Int
  BY <1>1, HeldType, UnitsType
<1>6. Units(i)' = Units(i)
  <2>1. /\ g_products'[i].stock = g_products[i].stock + 0
        /\ Sold(i)' = Sold(i) + 0
        /\ Held(w, i)' = Held(w, i) - 0 - 0
    BY <1>3, <1>4, <1>5
  <2>2. 0 \in Int
    OBVIOUS
  <2> QED
    BY <1>2, <2>1, <2>2, UnitsMoved
<1> QED
  BY <1>6 DEF Conserved

\* Lines 987-996 and 998-1015: units go from the basket back to the shelf.
LEMMA GiveBackUnits ==
  ASSUME UnitsInv, TypeInv', NEW w \in Workers, NEW from \in Holding, NEW to \in Steps \ Placing,
         LockAndGo(w, from, to) \/ Go(w, from, to) \/ UnlockAndGo(w, from, to),
         g_products' = Credit(g_products, call[w].product_id, call[w].quantity),
         Forget(w), g_orders' = g_orders,
         NEW i \in DOMAIN g_products, Units(i) <= IntMax
  PROVE  Restocked(i)
<1> DEFINE q == IF call[w].product_id = i THEN call[w].quantity ELSE 0
<1>1. TypeInv
  BY DEF UnitsInv, DeskInv
<1>2. /\ pc[w] = from /\ pc'[w] = to
      /\ \A v \in Workers \ {w} : pc'[v] = pc[v] /\ call'[v] = call[v]
  BY <1>1, WorkerMoves
<1>3. from \in Placing /\ to \notin Holding
  BY DEF Placing, Holding
<1>4. Held(w, i) = q /\ Held(w, i)' = 0 /\ call[w].quantity \in Quantities
  BY <1>1, <1>2, <1>3, HeldUnits
<1>5. /\ g_products[i].stock \in Int /\ Reserved(i) \in Nat /\ Sold(i) \in Nat
      /\ IntMax \in Nat
  BY UnitsType
<1>6. Held(w, i) <= Reserved(i) /\ Held(w, i) \in Nat
  BY <1>1, HeldType, ReservedType
<1>7. call[w].product_id = i => g_products[i].stock + call[w].quantity <= IntMax
  BY <1>4, <1>5, <1>6 DEF Units
<1>8. g_products'[i].stock = g_products[i].stock + q
  BY <1>4, <1>7, UnitsComeBack
<1>9. Sold(i)' = Sold(i)
  BY DEF Sold
<1>10. q \in Nat /\ Held(w, i)' = Held(w, i) - q - 0 /\ Sold(i)' = Sold(i) + 0 /\ 0 \in Int
  BY <1>4, <1>5, <1>6, <1>9
<1> HIDE DEF q
<1>11. q \in Int
  BY <1>10
<1>12. Units(i)' = Units(i)
  BY <1>2, <1>8, <1>10, <1>11, UnitsMoved
<1> QED
  BY <1>5, <1>8, <1>10, <1>12 DEF Restocked

\* What an order made of a worker's locals takes of a product.
LEMMA NewOrderUnits ==
  ASSUME NEW w \in Workers, NEW id, NEW p
  PROVE  Ordered(NewOrder(w, id), p) = IF call[w].product_id = p THEN call[w].quantity ELSE 0
  BY DEF Ordered, NewOrder

\* Lines 1016-1034: units go from the basket to a new order.
LEMMA RecordUnits ==
  ASSUME UnitsInv, TypeInv', NEW w \in Workers, RecordOrder(w), NEW i \in DOMAIN g_products
  PROVE  Conserved(i)
<1> DEFINE q == IF call[w].product_id = i THEN call[w].quantity ELSE 0
           to == "saving_order"
<1>1. TypeInv /\ g_orders \in Seq(Order)
  BY DEF UnitsInv, DeskInv, TypeInv, TypeOK
<1>2. /\ LockAndGo(w, "paid", to)
      /\ g_products' = g_products /\ call' = call
  BY DEF RecordOrder
<1>3. to \in Steps /\ to \notin Holding /\ "paid" \in Holding /\ "paid" \in Placing
  BY DEF Steps, LockedSteps, Placing, PaymentSteps, Holding
<1>4. /\ pc[w] = "paid" /\ pc'[w] = to
      /\ \A v \in Workers \ {w} : pc'[v] = pc[v] /\ call'[v] = call[v]
  BY <1>1, <1>2, <1>3, WorkerMoves
<1>5. Held(w, i) = q /\ Held(w, i)' = 0 /\ call[w] \in Call
  BY <1>1, <1>3, <1>4, HeldUnits
<1>6. PICK id \in NextIds(g_orders) : g_orders' = Append(g_orders, NewOrder(w, id))
  BY DEF RecordOrder
<1>7. NewOrder(w, id) \in Order
  <2>1. \A order \in Order : order.id \in Nat
    BY DEF Order
  <2>2. id \in Nat
    BY <1>1, <2>1, NextIdsAbove
  <2> QED
    BY <1>5, <2>2, NewOrderType
<1>8. Sold(i)' = Sold(i) + q
  <2>1. SoldIn(Append(g_orders, NewOrder(w, id)), i) = SoldIn(g_orders, i) + q
    BY <1>1, <1>7, SoldAppend, NewOrderUnits
  <2>2. Sold(i) = SoldIn(g_orders, i) /\ Sold(i)' = SoldIn(g_orders', i)
    BY DEF Sold, SoldIn
  <2> QED
    BY <1>6, <2>1, <2>2
<1>9. g_products[i].stock \in Int /\ Held(w, i) \in Nat
  BY <1>1, HeldType, UnitsType
<1>10. /\ q \in Int /\ 0 \in Int
       /\ g_products'[i].stock = g_products[i].stock + 0
       /\ Held(w, i)' = Held(w, i) - 0 - q
  BY <1>2, <1>5, <1>9
<1> HIDE DEF q
<1>11. Units(i)' = Units(i)
  BY <1>4, <1>8, <1>10, UnitsMoved
<1> QED
  BY <1>11 DEF Conserved

\* Line 1035: an order that cannot be saved is dropped and its units go back.
LEMMA DropUnits ==
  ASSUME UnitsInv, TypeInv', NEW w \in Workers, OrderNotSaved(w),
         NEW i \in DOMAIN g_products, Units(i) <= IntMax
  PROVE  Restocked(i)
<1> DEFINE q == IF call[w].product_id = i THEN call[w].quantity ELSE 0
<1>1. TypeInv /\ MutexInv /\ SavingInv /\ PendingInv /\ g_orders \in Seq(Order)
  BY DEF UnitsInv, DeskInv, TypeInv, TypeOK
<1>2. PICK to \in {"saving_rollback", "idle"} :
        Go(w, "saving_order", to) \/ UnlockAndGo(w, "saving_order", to)
  BY DEF OrderNotSaved
<1>3. /\ g_products' = Credit(g_products, call[w].product_id, call[w].quantity)
      /\ Forget(w) /\ g_orders' = SubSeq(g_orders, 1, Len(g_orders) - 1)
  BY DEF OrderNotSaved
<1>4. /\ to \in Steps /\ to \notin Holding /\ "saving_order" \notin Holding
      /\ "saving_order" \in Placing /\ "saving_order" \in LockedSteps
  BY DEF Steps, LockedSteps, Placing, PaymentSteps, Holding
<1>5. /\ pc[w] = "saving_order" /\ pc'[w] = to
      /\ \A v \in Workers \ {w} : pc'[v] = pc[v] /\ call'[v] = call[v]
  BY <1>1, <1>2, <1>3, <1>4, WorkerMoves
<1>6. Held(w, i) = 0 /\ Held(w, i)' = 0 /\ call[w] \in Call /\ call[w].quantity \in Quantities
  BY <1>1, <1>4, <1>5, HeldUnits
<1>7. PICK id \in NextIds(BookRows) : g_orders = Append(BookRows, NewOrder(w, id))
  BY <1>1, <1>5 DEF PendingInv
<1>8. g_orders' = BookRows /\ BookRows \in Seq(Order)
  <2>1. Saving
    BY <1>5 DEF Saving
  <2> QED
    BY <1>1, <1>3, <2>1, BookShape DEF BookRows, Promised
<1>9. NewOrder(w, id) \in Order
  <2>1. \A order \in Order : order.id \in Nat
    BY DEF Order
  <2>2. id \in Nat
    BY <1>8, <2>1, NextIdsAbove
  <2> QED
    BY <1>6, <2>2, NewOrderType
<1>10. Sold(i) = Sold(i)' + q
  <2>1. SoldIn(Append(BookRows, NewOrder(w, id)), i) = SoldIn(BookRows, i) + q
    BY <1>8, <1>9, SoldAppend, NewOrderUnits
  <2>2. Sold(i) = SoldIn(g_orders, i) /\ Sold(i)' = SoldIn(g_orders', i)
    BY DEF Sold, SoldIn
  <2> QED
    BY <1>7, <1>8, <2>1, <2>2
<1>11. /\ g_products[i].stock \in Int /\ Reserved(i) \in Nat /\ Sold(i) \in Nat
       /\ IntMax \in Nat
  BY UnitsType
<1>12. Sold(i)' \in Nat
  <2>1. SoldIn(BookRows, i) \in Nat
    BY <1>8, SoldType
  <2> QED
    BY <1>8, <2>1 DEF Sold, SoldIn
<1>13. q \in Int /\ q >= 0
  <2>1. call[w].quantity \in 1 .. IntMax
    BY <1>6, QuantitiesAssumption
  <2> QED
    BY <2>1, IntMaxAssumption
<1>14. call[w].product_id = i => g_products[i].stock + call[w].quantity <= IntMax
  <2> DEFINE stock == g_products[i].stock
             left == Sold(i)'
  <2>1. q \in Int /\ left \in Nat /\ stock \in Int
    BY <1>11, <1>12, <1>13
  <2>2. stock + Reserved(i) + (left + q) <= IntMax
    BY <1>10 DEF Units
  <2> HIDE DEF q, stock, left
  <2>3. stock + q <= IntMax
    BY <1>11, <2>1, <2>2
  <2> QED
    BY <2>3 DEF q, stock
<1>15. g_products'[i].stock = g_products[i].stock + q
  BY <1>3, <1>6, <1>14, UnitsComeBack
<1>16. /\ 0 - q \in Int
       /\ Sold(i)' = Sold(i) + (0 - q)
       /\ Held(w, i)' = Held(w, i) - q - (0 - q)
  BY <1>6, <1>10, <1>11, <1>12, <1>13
<1> HIDE DEF q
<1>17. Units(i)' = Units(i)
  BY <1>5, <1>13, <1>15, <1>16, UnitsMoved
<1> QED
  BY <1>11, <1>13, <1>15, <1>17 DEF Restocked

\* What a cancellation or an update does to what an order takes.
LEMMA ChangedUnits ==
  ASSUME NEW order \in Order, NEW p
  PROVE  /\ Ordered(Cancelled(order), p) = 0
         /\ order.order_status \in Cancellable =>
              Ordered(order, p) = (IF order.product_id = p THEN order.quantity ELSE 0)
         /\ \A next \in OrderStatuses :
              next # "CANCELLED" /\ ValidTransition(order.order_status, next)
                => Ordered(Advanced(order, next), p) = Ordered(order, p)
<1>1. Ordered(Cancelled(order), p) = 0
  BY DEF Ordered, Cancelled, Order
<1>2. order.order_status \in Cancellable =>
        Ordered(order, p) = (IF order.product_id = p THEN order.quantity ELSE 0)
  BY DEF Ordered, Cancellable
<1>3. ASSUME NEW next \in OrderStatuses, next # "CANCELLED",
             ValidTransition(order.order_status, next)
      PROVE  Ordered(Advanced(order, next), p) = Ordered(order, p)
  <2>1. order.order_status # "CANCELLED"
    BY <1>3 DEF ValidTransition
  <2>2. /\ Advanced(order, next).order_status = next
        /\ Advanced(order, next).product_id = order.product_id
        /\ Advanced(order, next).quantity = order.quantity
    BY DEF Advanced, Order
  <2> QED
    BY <1>3, <2>1, <2>2 DEF Ordered
<1> QED
  BY <1>1, <1>2, <1>3

\* Lines 1111-1150 and 1232-1290: the units of a cancelled order go to the shelf.
LEMMA CancelUnits ==
  ASSUME UnitsInv, TypeInv', NEW w \in Workers, NEW k \in DOMAIN g_orders,
         CancelAndRestock(w, k), NEW i \in DOMAIN g_products, Units(i) <= IntMax
  PROVE  Restocked(i)
<1> DEFINE q == IF g_orders[k].product_id = i THEN g_orders[k].quantity ELSE 0
           to == "saving_update_products"
<1>1. TypeInv /\ g_orders \in Seq(Order)
  BY DEF UnitsInv, DeskInv, TypeInv, TypeOK
<1>2. /\ LockAndGo(w, "idle", to) /\ call' = call
      /\ g_orders[k].order_status \in Cancellable
      /\ g_orders' = [g_orders EXCEPT ![k] = Cancelled(g_orders[k])]
      /\ g_products' = Credit(g_products, g_orders[k].product_id, g_orders[k].quantity)
  BY DEF CancelAndRestock
<1>3. to \in Steps /\ to \notin Holding /\ "idle" \notin Holding
  BY DEF Steps, LockedSteps, PaymentSteps, Holding
<1>4. /\ pc[w] = "idle" /\ pc'[w] = to
      /\ \A v \in Workers \ {w} : pc'[v] = pc[v] /\ call'[v] = call[v]
  BY <1>1, <1>2, <1>3, WorkerMoves
<1>5. Held(w, i) = 0 /\ Held(w, i)' = 0
  BY <1>1, <1>3, <1>4, HeldUnits
<1>6. /\ k \in 1 .. Len(g_orders) /\ g_orders[k] \in Order
      /\ g_orders[k].quantity \in Quantities
  <2>1. k \in 1 .. Len(g_orders) /\ g_orders[k] \in Order
    BY <1>1
  <2> QED
    BY <2>1 DEF Order
<1>7. Ordered(g_orders[k], i) = q /\ Ordered(Cancelled(g_orders[k]), i) = 0
  BY <1>2, <1>6, ChangedUnits
<1>8. Cancelled(g_orders[k]) \in Order
  BY <1>6, OrderShape DEF OrderStatuses
<1>9. q \in Nat
  BY <1>6, <1>7, OrderedType
<1>10. /\ g_products[i].stock \in Int /\ Reserved(i) \in Nat /\ Sold(i) \in Nat
       /\ IntMax \in Nat
  BY UnitsType
<1>11. Sold(i)' = Sold(i) - q /\ q <= Sold(i)
  <2>0. SoldIn(g_orders', i) =
          SoldIn(g_orders, i) - Ordered(g_orders[k], i) + Ordered(Cancelled(g_orders[k]), i)
    BY <1>1, <1>2, <1>6, <1>8, SoldChange
  <2>1. SoldIn(g_orders', i) = SoldIn(g_orders, i) - q + 0
    BY <1>7, <2>0
  <2>2. q <= SoldIn(g_orders, i)
    BY <1>1, <1>6, <1>7, SoldType
  <2>3. Sold(i) = SoldIn(g_orders, i) /\ Sold(i)' = SoldIn(g_orders', i)
    BY DEF Sold, SoldIn
  <2> HIDE DEF q
  <2> QED
    BY <1>9, <1>10, <2>1, <2>2, <2>3
<1>12. g_orders[k].product_id = i => g_products[i].stock + g_orders[k].quantity <= IntMax
  <2> DEFINE stock == g_products[i].stock
             sold == Sold(i)
  <2>1. q \in Nat /\ sold \in Nat /\ stock \in Int /\ q <= sold
    BY <1>9, <1>10, <1>11
  <2>2. stock + Reserved(i) + sold <= IntMax
    BY DEF Units
  <2> HIDE DEF q, stock, sold
  <2>3. stock + q <= IntMax
    BY <1>10, <2>1, <2>2
  <2> QED
    BY <2>3 DEF q, stock
<1>13. g_products'[i].stock = g_products[i].stock + q
  BY <1>2, <1>6, <1>12, UnitsComeBack
<1> HIDE DEF q
<1>14. /\ q \in Int /\ 0 - q \in Int
       /\ Sold(i)' = Sold(i) + (0 - q)
       /\ Held(w, i)' = Held(w, i) - q - (0 - q)
  BY <1>5, <1>9, <1>10, <1>11
<1>15. Units(i)' = Units(i)
  BY <1>4, <1>13, <1>14, UnitsMoved
<1> QED
  BY <1>9, <1>10, <1>13, <1>15 DEF Restocked

\* An update to another status than CANCELLED moves no units.
LEMMA AdvanceUnits ==
  ASSUME UnitsInv, TypeInv', NEW w \in Workers, NEW order_id, NEW next \in OrderStatuses,
         UpdateToNext(w, order_id, next), NEW i \in DOMAIN g_products
  PROVE  Conserved(i)
<1> DEFINE to == "saving_update_products"
<1>1. TypeInv /\ g_orders \in Seq(Order)
  BY DEF UnitsInv, DeskInv, TypeInv, TypeOK
<1>2. PICK k \in 1 .. Len(g_orders) :
        /\ LockAndGo(w, "idle", to) /\ call' = call
        /\ next # "CANCELLED"
        /\ ValidTransition(g_orders[k].order_status, next)
        /\ g_orders' = [g_orders EXCEPT ![k] = Advanced(g_orders[k], next)]
        /\ g_products' = g_products
  <2>1. DOMAIN g_orders = 1 .. Len(g_orders)
    BY <1>1
  <2> QED
    BY <2>1 DEF UpdateToNext
<1>3. to \in Steps /\ to \notin Holding /\ "idle" \notin Holding
  BY DEF Steps, LockedSteps, PaymentSteps, Holding
<1>4. /\ pc[w] = "idle" /\ pc'[w] = to
      /\ \A v \in Workers \ {w} : pc'[v] = pc[v] /\ call'[v] = call[v]
  BY <1>1, <1>2, <1>3, WorkerMoves
<1>5. Held(w, i) = 0 /\ Held(w, i)' = 0
  BY <1>1, <1>3, <1>4, HeldUnits
<1>6. g_orders[k] \in Order /\ Advanced(g_orders[k], next) \in Order
  BY <1>1, OrderShape
<1>7. /\ Ordered(Advanced(g_orders[k], next), i) = Ordered(g_orders[k], i)
      /\ Ordered(g_orders[k], i) \in Nat
  BY <1>2, <1>6, ChangedUnits, OrderedType
<1>8. Sold(i)' = Sold(i)
  <2>1. SoldIn(g_orders', i) =
          SoldIn(g_orders, i) - Ordered(g_orders[k], i) + Ordered(Advanced(g_orders[k], next), i)
    BY <1>1, <1>2, <1>6, SoldChange
  <2>2. SoldIn(g_orders, i) \in Nat
    BY <1>1, SoldType
  <2>3. Sold(i) = SoldIn(g_orders, i) /\ Sold(i)' = SoldIn(g_orders', i)
    BY DEF Sold, SoldIn
  <2> QED
    BY <1>7, <2>1, <2>2, <2>3
<1>9. g_products[i].stock \in Int /\ Sold(i) \in Int
  BY UnitsType
<1>10. /\ 0 \in Int
       /\ g_products'[i].stock = g_products[i].stock + 0
       /\ Sold(i)' = Sold(i) + 0
       /\ Held(w, i)' = Held(w, i) - 0 - 0
  BY <1>2, <1>5, <1>8, <1>9
<1>11. Units(i)' = Units(i)
  BY <1>4, <1>10, UnitsMoved
<1> QED
  BY <1>11 DEF Conserved

\* Lines 961-985: units go from the shelf to the basket.
LEMMA ReserveUnits ==
  ASSUME UnitsInv, TypeInv', NEW w \in Workers, NEW username \in Customers,
         NEW product_id \in Nat, NEW quantity \in Quantities, NEW method \in Methods,
         Reserve(w, username, product_id, quantity, method), NEW i \in DOMAIN g_products
  PROVE  Conserved(i)
<1> DEFINE q == IF product_id = i THEN quantity ELSE 0
           to == "saving_reservation"
<1>1. TypeInv /\ g_products \in Seq(Product)
  BY DEF UnitsInv, DeskInv, TypeInv, TypeOK
<1>2. PICK k \in 1 .. Len(g_products) :
        /\ LockAndGo(w, "idle", to)
        /\ g_products[k].id = product_id
        /\ g_products' = [g_products EXCEPT ![k].stock = @ - quantity]
        /\ call' = [call EXCEPT ![w] =
                      [username |-> username, product_id |-> product_id,
                       product_name |-> g_products[k].name, quantity |-> quantity,
                       payment_method |-> method]]
        /\ g_orders' = g_orders
  <2>1. DOMAIN g_products = 1 .. Len(g_products)
    BY <1>1
  <2> QED
    BY <2>1 DEF Reserve, FoundAt
<1>3. to \in Steps /\ to \in Holding /\ "idle" \notin Holding
  BY DEF Steps, LockedSteps, PaymentSteps, Holding
<1>4. /\ pc[w] = "idle" /\ pc'[w] = to
      /\ \A v \in Workers \ {w} : pc'[v] = pc[v]
  BY <1>1, <1>2, <1>3, MoveTypes
<1>5. /\ \A v \in Workers \ {w} : call'[v] = call[v]
      /\ call'[w].product_id = product_id /\ call'[w].quantity = quantity
  BY <1>1, <1>2 DEF TypeInv, TypeOK
<1>6. Held(w, i) = 0 /\ Held(w, i)' = q
  <2>1. Held(w, i) = 0
    BY <1>1, <1>3, <1>4, HeldUnits
  <2>2. Held(w, i)' = q
    BY <1>3, <1>4, <1>5 DEF Held, Holding
  <2> QED
    BY <2>1, <2>2
<1>7. quantity \in Nat
  <2>1. quantity \in 1 .. IntMax
    BY QuantitiesAssumption
  <2> QED
    BY <2>1, IntMaxAssumption
<1>8. /\ g_products[i].stock \in Int /\ Sold(i) \in Int /\ i \in 1 .. Len(g_products)
      /\ g_products[i] \in Product
  BY UnitsType
<1>9. k = i <=> product_id = i
  BY <1>1, <1>2 DEF UnitsInv, CatalogueOK, NumberedFrom1
<1>10. g_products'[i].stock = g_products[i].stock - q
  <2>1. CASE k = i
    <3>1. g_products'[i] = [g_products[i] EXCEPT !.stock = @ - quantity]
      BY <1>1, <1>2, <1>8, <2>1
    <3> QED
      BY <1>8, <1>9, <2>1, <3>1 DEF Product
  <2>2. CASE k # i
    <3>1. g_products'[i] = g_products[i]
      BY <1>1, <1>2, <1>8, <2>2
    <3> QED
      BY <1>8, <1>9, <2>2, <3>1
  <2> QED
    BY <2>1, <2>2
<1>11. Sold(i)' = Sold(i)
  BY <1>2 DEF Sold
<1>12. /\ 0 - q \in Int /\ 0 \in Int
       /\ g_products'[i].stock = g_products[i].stock + (0 - q)
       /\ Sold(i)' = Sold(i) + 0
       /\ Held(w, i)' = Held(w, i) - (0 - q) - 0
  BY <1>6, <1>7, <1>8, <1>10, <1>11
<1> HIDE DEF q
<1>13. Units(i)' = Units(i)
  BY <1>4, <1>5, <1>12, UnitsMoved
<1> QED
  BY <1>13 DEF Conserved

\* The steps that are neither a change of the catalogue nor a matter of units.
LEMMA GoOnUnits ==
  ASSUME UnitsInv, TypeInv', NEW w \in Workers, GoOn(w),
         ~ReservationNotSaved(w), ~OrderNotSaved(w), NEW i \in DOMAIN g_products
  PROVE  Conserved(i) /\ g_products' = g_products
<1> DEFINE Moves(from, to) == Go(w, from, to) \/ UnlockAndGo(w, from, to)
<1>1. CASE OrderSaved(w)
  <2>1. /\ UnlockAndGo(w, "saving_order", "idle") /\ Forget(w)
        /\ g_products' = g_products /\ g_orders' = g_orders
    BY <1>1 DEF OrderSaved
  <2>2. "saving_order" \notin Holding /\ "idle" \notin Holding /\ "idle" \in Steps
    BY DEF Steps, PaymentSteps, Holding
  <2> QED
    BY <2>1, <2>2, QuietUnits
<1>2. CASE ~OrderSaved(w)
  <2>1. /\ g_products' = g_products /\ g_orders' = g_orders /\ call' = call
    BY <1>2 DEF GoOn, ReservationSaved, PaymentSucceeds, PaymentFails, RollbackEnds,
                UpdateProductsSaved, UpdateProductsNotSaved, UpdateEnds, CatalogueEnds
  <2>2. \/ Moves("saving_reservation", "paying")
        \/ \E to \in {"paid", "payment_failed"} : Moves("paying", to)
        \/ \E from \in {"saving_rollback", "saving_update_products",
                        "saving_update_orders", "saving_catalogue"},
              to \in {"idle", "saving_update_orders"} : Moves(from, to)
    BY <1>2 DEF GoOn, ReservationSaved, PaymentSucceeds, PaymentFails, RollbackEnds,
                UpdateProductsSaved, UpdateProductsNotSaved, UpdateEnds, CatalogueEnds
  <2>3. PICK from \in Steps, to \in Steps :
          Moves(from, to) /\ (from \in Holding <=> to \in Holding)
    BY <2>2 DEF Steps, LockedSteps, PaymentSteps, Holding
  <2> QED
    BY <2>1, <2>3, QuietUnits
<1> QED
  BY <1>1, <1>2

\* Lines 987-996 and 998-1015: whichever error path it is.
LEMMA RollbackUnits ==
  ASSUME UnitsInv, TypeInv', NEW w \in Workers,
         \/ ReservationNotSaved(w) \/ OrderNotSaved(w)
         \/ AbandonPayment(w) \/ RefuseAtCapacity(w),
         NEW i \in DOMAIN g_products, Units(i) <= IntMax
  PROVE  Restocked(i)
<1>1. CASE OrderNotSaved(w)
  BY <1>1, DropUnits
<1>2. CASE ~OrderNotSaved(w)
  <2>1. PICK from \in Holding, to \in {"saving_rollback", "idle"} :
          LockAndGo(w, from, to) \/ UnlockAndGo(w, from, to)
    BY <1>2 DEF ReservationNotSaved, AbandonPayment, RefuseAtCapacity, GiveBack,
                Holding, PaymentSteps
  <2>2. /\ g_products' = Credit(g_products, call[w].product_id, call[w].quantity)
        /\ Forget(w) /\ g_orders' = g_orders
    BY <1>2 DEF ReservationNotSaved, AbandonPayment, RefuseAtCapacity, GiveBack
  <2>3. to \in Steps \ Placing
    BY DEF Steps, LockedSteps, Placing, PaymentSteps
  <2> QED
    BY <2>1, <2>2, <2>3, GiveBackUnits
<1> QED
  BY <1>1, <1>2

\* Every step of a worker, sorted by what it does to the units.
LEMMA UnitsSteps ==
  ASSUME NEW w \in Workers, Worker(w)
  PROVE  \/ \E username \in Customers, product_id \in Nat, quantity \in Quantities,
              method \in Methods : Reserve(w, username, product_id, quantity, method)
         \/ \E k \in DOMAIN g_orders : CancelAndRestock(w, k)
         \/ \E order_id : \E next \in OrderStatuses : UpdateToNext(w, order_id, next)
         \/ CatalogueRequest(w)
         \/ ReservationNotSaved(w) \/ OrderNotSaved(w)
         \/ AbandonPayment(w) \/ RefuseAtCapacity(w)
         \/ RecordOrder(w)
         \/ GoOn(w) /\ ~ReservationNotSaved(w) /\ ~OrderNotSaved(w)
<1>1. CASE CustomerRequest(w)
  <2>1. 1 .. MaxProducts \subseteq Nat
    BY CapacityAssumption
  <2> QED
    BY <1>1, <2>1 DEF CustomerRequest, CancelOrder
<1>2. CASE OrderRequest(w)
  BY <1>2 DEF OrderRequest, UpdateToCancelled
<1> QED
  BY <1>1, <1>2 DEF Worker, SecondLock

\* No step but a change of the catalogue creates or destroys a unit.
LEMMA UnitsStep ==
  UnitsInv /\ TypeInv' /\ [Next]_vars
    => CatalogueStep \/ \A i \in DOMAIN g_products : Conserved(i)
<1> SUFFICES ASSUME UnitsInv, TypeInv', [Next]_vars, ~CatalogueStep, NEW i \in DOMAIN g_products
             PROVE  Conserved(i)
  OBVIOUS
<1>1. CASE UNCHANGED vars
  <2>1. Units(i)' = Units(i)
    BY <1>1 DEF vars, Units, Reserved, Sold, Held
  <2> QED
    BY <2>1 DEF Conserved
<1>2. CASE Next
  <2> PICK w \in Workers : Worker(w)
    BY <1>2 DEF Next
  <2>1. ~CatalogueRequest(w)
    BY DEF CatalogueRequest, AddProduct, ModifyProduct, DeleteProduct, LockAndGo,
           CatalogueStep, UnitsInv, DeskInv, TypeInv, TypeOK
  <2>2. ASSUME Units(i) <= IntMax,
               \/ ReservationNotSaved(w) \/ OrderNotSaved(w)
               \/ AbandonPayment(w) \/ RefuseAtCapacity(w)
               \/ \E k \in DOMAIN g_orders : CancelAndRestock(w, k)
        PROVE  Units(i)' = Units(i)
    BY <2>2, RollbackUnits, CancelUnits DEF Restocked
  <2>3. ASSUME \/ \E username \in Customers, product_id \in Nat, quantity \in Quantities,
                    method \in Methods : Reserve(w, username, product_id, quantity, method)
               \/ \E order_id : \E next \in OrderStatuses : UpdateToNext(w, order_id, next)
               \/ RecordOrder(w)
               \/ GoOn(w) /\ ~ReservationNotSaved(w) /\ ~OrderNotSaved(w)
        PROVE  Conserved(i)
    BY <2>3, ReserveUnits, AdvanceUnits, RecordUnits, GoOnUnits
  <2> QED
    BY <2>1, <2>2, <2>3, UnitsSteps DEF Conserved
<1> QED
  BY <1>1, <1>2

\* The invariant that the units rest on holds of the tables that are loaded.
LEMMA UnitsInit == Init => UnitsInv
<1> SUFFICES ASSUME Init PROVE UnitsInv
  OBVIOUS
<1>1. SavingInv /\ PendingInv
  BY DEF Init, SavingInv, PendingInv, Saving
<1>2. MutexInv
  BY NoWorkerAssumption DEF Init, MutexInv, LockedSteps
<1>3. CatalogueOK(g_products) /\ CapacityRespected
  BY InitialProductsAssumption, CapacityAssumption
     DEF Init, CatalogueOK, NumberedFrom1, CapacityRespected
<1> QED
  BY <1>1, <1>2, <1>3, TypeInit DEF UnitsInv, DeskInv

\* Every step of every worker keeps it.
LEMMA UnitsNext == UnitsInv /\ [Next]_vars => UnitsInv'
<1> SUFFICES ASSUME UnitsInv, [Next]_vars PROVE UnitsInv'
  OBVIOUS
<1>1. TypeInv /\ MutexInv /\ SavingInv /\ CatalogueOK(g_products) /\ CapacityRespected
  BY DEF UnitsInv, DeskInv
<1>2. TablesFit'
  BY <1>1, TablesFitNext DEF TablesFit, CapacityRespected
<1>3. CatalogueOK(g_products)' /\ CapacityRespected'
  BY <1>2 DEF TablesFit, CatalogueOK, CapacityRespected
<1>4. PendingInv'
  BY StepRefines DEF UnitsInv, Refines
<1> QED
  BY <1>1, <1>3, <1>4, TypeNext, MutexNext, SavingNext DEF UnitsInv, DeskInv

\* It is an invariant, for all workers.
LEMMA UnitsInvariance == Spec => []UnitsInv
  BY UnitsInit, UnitsNext, PTL DEF Spec

\* Customers never get the last unit twice and every unit that is not sold comes
\* back once, in any interleaving of any number of workers, any of whose payments and
\* saves may fail (handle_place_order, handle_cancel_order, handle_update_order).
THEOREM UnitsAlwaysConserved == Spec => UnitsConserved
<1> DEFINE Balance ==
      \/ CatalogueStep
      \/ \A i \in DOMAIN g_products : Units(i) <= IntMax => Units(i)' = Units(i)
<1>1. UnitsInv /\ UnitsInv' /\ [Next]_vars => [Balance]_vars
  BY UnitsStep DEF Conserved, UnitsInv, DeskInv
<1>2. Spec => [][Balance]_vars
  BY <1>1, UnitsInvariance, PTL DEF Spec
<1> QED
  BY <1>2 DEF UnitsConserved

-----------------------------------------------------------------------------
(* The stock is never negative *)

\* An int holds the units of every product.
UnitsFit == \A i \in DOMAIN g_products : Units(i) <= IntMax

\* No reservation takes more than there is (line 969).
LEMMA ReserveStock ==
  ASSUME UnitsInv, StockNonNegative, NEW w \in Workers, NEW username, NEW product_id \in Nat,
         NEW quantity \in Quantities, NEW method,
         Reserve(w, username, product_id, quantity, method)
  PROVE  StockNonNegative'
<1>1. g_products \in Seq(Product)
  BY DEF UnitsInv, DeskInv, TypeInv, TypeOK
<1>2. PICK k \in DOMAIN g_products :
        /\ g_products[k].stock >= quantity
        /\ g_products' = [g_products EXCEPT ![k].stock = @ - quantity]
  BY DEF Reserve
<1>3. quantity \in Nat /\ g_products[k].stock \in Int
  <2>1. quantity \in 1 .. IntMax
    BY QuantitiesAssumption
  <2> QED
    BY <2>1, UnitsType, IntMaxAssumption
<1>4. DOMAIN g_products' = DOMAIN g_products
  BY <1>2
<1>5. \A i \in DOMAIN g_products : g_products'[i].stock >= 0
  <2> SUFFICES ASSUME NEW i \in DOMAIN g_products PROVE g_products'[i].stock >= 0
    OBVIOUS
  <2>1. CASE i = k
    <3>1. g_products[k] \in Product /\ g_products'[k] = [g_products[k] EXCEPT !.stock = @ - quantity]
      BY <1>1, <1>2
    <3>2. g_products'[k].stock = g_products[k].stock - quantity
      BY <3>1 DEF Product
    <3> QED
      BY <1>2, <1>3, <2>1, <3>2
  <2>2. CASE i # k
    BY <1>2, <2>2 DEF StockNonNegative
  <2> QED
    BY <2>1, <2>2
<1> QED
  BY <1>4, <1>5 DEF StockNonNegative

\* The administrator enters no negative stock (lines 714 and 801).
LEMMA CatalogueStock ==
  ASSUME UnitsInv, StockNonNegative, NEW w \in Workers, CatalogueRequest(w)
  PROVE  StockNonNegative'
<1>1. g_products \in Seq(Product) /\ DOMAIN g_products = 1 .. Len(g_products)
  BY DEF UnitsInv, DeskInv, TypeInv, TypeOK
<1>2. \A stock \in StockInputs : stock \in Nat
  BY StockAssumption, IntMaxAssumption
<1>3. ASSUME NEW name \in Names, NEW stock \in StockInputs, AddProduct(w, name, stock)
      PROVE  StockNonNegative'
  <2> PICK id \in NextIds(g_products) :
        g_products' = Append(g_products, [id |-> id, name |-> name, stock |-> stock])
    BY <1>3 DEF AddProduct
  <2>1. /\ DOMAIN g_products' = 1 .. Len(g_products) + 1
        /\ g_products'[Len(g_products) + 1].stock = stock
        /\ \A i \in 1 .. Len(g_products) : g_products'[i] = g_products[i]
    BY <1>1
  <2> QED
    BY <1>1, <1>2, <2>1 DEF StockNonNegative
<1>4. ASSUME NEW product_id, NEW name \in NewNames, NEW stock \in StockInputs \cup {-1},
             ModifyProduct(w, product_id, name, stock)
      PROVE  StockNonNegative'
  <2> PICK i \in DOMAIN g_products :
        g_products' = [g_products EXCEPT ![i] = Modified(@, name, stock)]
    BY <1>4 DEF ModifyProduct
  <2>1. g_products'[i].stock = IF stock = -1 THEN g_products[i].stock ELSE stock
    <3>1. g_products[i] \in Product /\ g_products'[i] = Modified(g_products[i], name, stock)
      BY <1>1
    <3> QED
      BY <3>1 DEF Modified, Product
  <2>2. g_products'[i].stock >= 0
    BY <1>2, <2>1 DEF StockNonNegative
  <2>3. \A j \in DOMAIN g_products : j # i => g_products'[j] = g_products[j]
    OBVIOUS
  <2> QED
    BY <2>2, <2>3 DEF StockNonNegative
<1>5. ASSUME NEW product_id, DeleteProduct(w, product_id) PROVE StockNonNegative'
  <2> PICK idx \in 1 .. Len(g_products) : g_products' = DeleteAndRenumber(g_products, idx)
    BY <1>1, <1>5 DEF DeleteProduct
  <2>1. DOMAIN g_products' = 1 .. Len(g_products) - 1
    BY DEF DeleteAndRenumber
  <2>2. ASSUME NEW i \in 1 .. Len(g_products) - 1
        PROVE  g_products'[i].stock >= 0
    <3> DEFINE j == IF i < idx THEN i ELSE i + 1
    <3>1. j \in 1 .. Len(g_products)
      BY <1>1
    <3>2. g_products'[i] = [g_products[j] EXCEPT !.id = i]
      BY <2>2 DEF DeleteAndRenumber
    <3> HIDE DEF j
    <3>3. g_products[j] \in Product /\ g_products[j].stock >= 0
      BY <1>1, <3>1 DEF StockNonNegative
    <3> QED
      BY <3>2, <3>3 DEF Product
  <2> QED
    BY <2>1, <2>2 DEF StockNonNegative
<1> QED
  BY <1>3, <1>4, <1>5 DEF CatalogueRequest

\* No step makes a stock negative where an int holds all units.
LEMMA StockStep ==
  UnitsInv /\ TypeInv' /\ UnitsFit /\ StockNonNegative /\ [Next]_vars => StockNonNegative'
<1> SUFFICES ASSUME UnitsInv, TypeInv', UnitsFit, StockNonNegative, [Next]_vars
             PROVE  StockNonNegative'
  OBVIOUS
<1>1. CASE UNCHANGED g_products
  BY <1>1 DEF StockNonNegative
<1>2. CASE Next
  <2> PICK w \in Workers : Worker(w)
    BY <1>2 DEF Next
  <2>1. CASE \/ ReservationNotSaved(w) \/ OrderNotSaved(w)
             \/ AbandonPayment(w) \/ RefuseAtCapacity(w)
             \/ \E k \in DOMAIN g_orders : CancelAndRestock(w, k)
    <3>1. \A i \in DOMAIN g_products : Restocked(i)
      BY <2>1, RollbackUnits, CancelUnits DEF UnitsFit
    <3>2. DOMAIN g_products' = DOMAIN g_products
      BY <2>1 DEF ReservationNotSaved, OrderNotSaved, AbandonPayment, RefuseAtCapacity,
                  GiveBack, CancelAndRestock, Credit
    <3>3. \A i \in DOMAIN g_products : g_products'[i].stock >= 0
      <4> SUFFICES ASSUME NEW i \in DOMAIN g_products PROVE g_products'[i].stock >= 0
        OBVIOUS
      <4>1. g_products'[i] \in Product
        BY <3>2 DEF TypeInv, TypeOK
      <4>2. g_products'[i].stock \in Int
        BY <4>1, IntMaxAssumption DEF Product, CInt
      <4> QED
        BY <3>1, <4>2, UnitsType DEF Restocked, StockNonNegative
    <3> QED
      BY <3>2, <3>3 DEF StockNonNegative
  <2>2. CASE \/ \E order_id : \E next \in OrderStatuses : UpdateToNext(w, order_id, next)
             \/ RecordOrder(w)
    BY <2>2, <1>1 DEF UpdateToNext, RecordOrder
  <2>3. CASE GoOn(w) /\ ~ReservationNotSaved(w) /\ ~OrderNotSaved(w)
    BY <2>3, <1>1 DEF GoOn, ReservationSaved, PaymentSucceeds, PaymentFails, OrderSaved,
       RollbackEnds, UpdateProductsSaved, UpdateProductsNotSaved, UpdateEnds, CatalogueEnds
  <2> QED
    BY <2>1, <2>2, <2>3, UnitsSteps, ReserveStock, CatalogueStock
<1> QED
  BY <1>1, <1>2 DEF vars

\* The stock never becomes negative as long as an int holds the units there are of
\* each product, whatever customers reserve at the same time and administrators change
\* (lines 969, 714 and 801).
THEOREM StockNeverNegative == Spec /\ []UnitsFit => []StockNonNegative
<1>1. Init => StockNonNegative
  BY InitialProductsAssumption DEF Init, StockNonNegative
<1>2. UnitsInv => TypeInv
  BY DEF UnitsInv, DeskInv
<1> QED
  BY <1>1, <1>2, StockStep, UnitsInvariance, PTL DEF Spec
===============================================================================
