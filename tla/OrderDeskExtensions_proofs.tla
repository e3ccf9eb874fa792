---------------------- MODULE OrderDeskExtensions_proofs ----------------------
(***************************************************************************)
(* Proofs about the three modules that add to OrderDesk what goes on       *)
(* beside it.                                                              *)
(*                                                                         *)
(* RefusalReplies: a thread on its way to a reply leaves the tables alone, *)
(* so what is proved of OrderDesk holds there too; what is left to show is *)
(* that the row such a thread keeps remains a reason to refuse while the   *)
(* others go on.                                                           *)
(*                                                                         *)
(* CrashRestart: any number of stops at any step, with saves that fail and *)
(* saves that are caught half-way.  The invariant of OrderDesk survives a  *)
(* restart, because what is loaded is a file that was written from a       *)
(* table, and tables and files agree after it.  That a stop creates no     *)
(* units rests on a comparison of shelf and file: what the file has too    *)
(* many of, the baskets of the customers hold.                             *)
(*                                                                         *)
(* Report: what one pass over the orders adds up is what sums over the     *)
(* rows say, and sums over customers or products are sums over the orders, *)
(* sorted by their customer or product.                                    *)
(***************************************************************************)
EXTENDS RefusalReplies, CrashRestart, Report, OrderDesk_proofs

-----------------------------------------------------------------------------
(* RefusalReplies: the desk goes on *)

\* Formatting a reply late disturbs nobody: the order desk takes its own steps.
LEMMA DeskStep == RefusalNext => [Next]_vars
  BY DEF RefusalNext, Next, RefuseStock, RefuseCancel, RefuseUpdate, Refuse, Reply

\* The threads that wait to reply are invisible to the order desk, whose
\* invariants therefore hold among them.
THEOREM RepliesLeaveTheDesk == RefusalSpec => Spec
<1>1. RefusalInit => Init
  BY DEF RefusalInit
<1>2. [RefusalNext]_refusalVars => [Next]_vars
  BY DeskStep DEF refusalVars
<1> QED
  BY <1>1, <1>2, PTL DEF RefusalSpec, Spec

-----------------------------------------------------------------------------
(* Types *)

\* A reply carries a row of the table it was looked up in, within its array, and
\* what was asked for (lines 970-974, 1127-1131, 1246-1250).
THEOREM RefusalsTyped == RefusalSpec => []RefusalTypeOK
<1>1. RefusalInit => RefusalTypeOK
  BY DEF RefusalInit, RefusalTypeOK
<1>2. ASSUME TypeInv, CapacityRespected, RefusalTypeOK, [RefusalNext]_refusalVars
      PROVE  RefusalTypeOK'
  <2>1. CASE UNCHANGED refusal
    BY <1>2, <2>1 DEF RefusalTypeOK
  <2>2. CASE \E w \in Workers, reply \in Refusals \cup {NoRefusal} :
               refusal' = [refusal EXCEPT ![w] = reply]
    BY <1>2, <2>2 DEF RefusalTypeOK
  <2> SUFFICES ASSUME NEW w \in Workers,
                      NEW reply, refusal' = [refusal EXCEPT ![w] = reply],
                      \/ \E product_id \in 1 .. MaxProducts, quantity \in Quantities :
                           RefuseStock(w, product_id, quantity)
                      \/ \E username \in Customers, order_id \in 1 .. MaxOrders :
                           RefuseCancel(w, username, order_id)
                      \/ \E order_id \in 1 .. MaxOrders, next \in OrderStatuses \ {"PLACED"} :
                           RefuseUpdate(w, order_id, next)
               PROVE  RefusalTypeOK'
    BY <1>2, <2>1, <2>2 DEF RefusalNext, refusalVars, Reply, RefuseStock, RefuseCancel,
                            RefuseUpdate, Refuse
  <2>3. DOMAIN g_products \subseteq 1 .. MaxProducts /\ DOMAIN g_orders \subseteq 1 .. MaxOrders
    BY <1>2, CapacityAssumption DEF TypeInv, TypeOK, CapacityRespected
  <2>4. CASE \E quantity \in Quantities : \E product_id : RefuseStock(w, product_id, quantity)
    <3> PICK quantity \in Quantities, i \in DOMAIN g_products :
          Refuse(w, [kind |-> "stock", row |-> i, asked |-> quantity])
      BY <2>4 DEF RefuseStock
    <3>1. [kind |-> "stock", row |-> i, asked |-> quantity] \in Refusals
      BY <2>3 DEF Refusals
    <3> QED
      BY <2>2, <3>1 DEF Refuse
  <2>5. CASE \E username, order_id : RefuseCancel(w, username, order_id)
    <3> PICK i \in DOMAIN g_orders : Refuse(w, [kind |-> "cancel", row |-> i])
      BY <2>5 DEF RefuseCancel
    <3>1. [kind |-> "cancel", row |-> i] \in Refusals
      BY <2>3 DEF Refusals
    <3> QED
      BY <2>2, <3>1 DEF Refuse
  <2>6. CASE \E next \in OrderStatuses : \E order_id : RefuseUpdate(w, order_id, next)
    <3> PICK next \in OrderStatuses, i \in DOMAIN g_orders :
          Refuse(w, [kind |-> "update", row |-> i, asked |-> next])
      BY <2>6 DEF RefuseUpdate
    <3>1. [kind |-> "update", row |-> i, asked |-> next] \in Refusals
      BY <2>3 DEF Refusals
    <3> QED
      BY <2>2, <3>1 DEF Refuse
  <2> QED
    BY <2>4, <2>5, <2>6
<1> QED
  BY <1>1, <1>2, RepliesLeaveTheDesk, TypeInvariance, CapacityAlwaysRespected, PTL
     DEF RefusalSpec

-----------------------------------------------------------------------------
(* The status in the refusal of CANCEL_ORDER *)

\* An order that was promised and can no longer be cancelled.
PastCancelling(i) == i \in 1 .. Promised /\ g_orders[i].order_status \notin Cancellable

\* Such an order stays in its row and never becomes cancellable again, because
\* dropping takes an order that was not promised and the state machine has no
\* arrow back (lines 488-500 and 1035-1044).
LEMMA SettledStays ==
  ASSUME TypeInv, MutexInv, SavingInv, [Next]_vars, NEW i, PastCancelling(i)
  PROVE  PastCancelling(i)'
<1>0. /\ g_orders \in Seq(Order) /\ \A k \in 1 .. Len(g_orders) : g_orders[k] \in Order
      /\ Promised \in 0 .. Len(g_orders) /\ i \in 1 .. Promised
  BY PromisedType DEF TypeInv, TypeOK, PastCancelling
<1>1. CASE QuietStep \/ SavedStep
  <2>1. g_orders' = g_orders /\ Promised' >= Promised /\ Promised' \in Nat
    BY <1>0, <1>1 DEF QuietStep, SavedStep, Promised
  <2> QED
    BY <1>0, <2>1 DEF PastCancelling
<1>2. CASE RecordStep
  <2> PICK order : g_orders' = Append(g_orders, order)
    BY <1>2 DEF RecordStep
  <2>1. Promised' = Promised /\ g_orders'[i] = g_orders[i]
    BY <1>0, <1>2 DEF RecordStep, Promised
  <2> QED
    BY <2>1 DEF PastCancelling
<1>3. CASE DroppedStep
  <2>1. Promised = Len(g_orders) - 1 /\ Promised' = Promised
    BY <1>0, <1>3 DEF DroppedStep, Promised, SavingInv
  <2>2. g_orders'[i] = g_orders[i]
    BY <1>0, <1>3, <2>1 DEF DroppedStep
  <2> QED
    BY <2>1, <2>2 DEF PastCancelling
<1>4. CASE ChangeStep
  <2> PICK k \in 1 .. Len(g_orders), changed \in Order :
        /\ ChangeOf(g_orders[k], changed)
        /\ g_orders' = [g_orders EXCEPT ![k] = changed]
    BY <1>4, ChangeStepShape
  <2>1. Promised' = Promised
    BY <1>0, <1>4 DEF ChangeStep, Promised
  <2>2. CASE i = k
    <3>1. g_orders'[i] = changed
          /\ ValidTransition(g_orders[i].order_status, changed.order_status)
      BY <1>0, <2>2, ChangeOfOrder
    <3> QED
      BY <2>1, <3>1 DEF PastCancelling, ValidTransition, Cancellable
  <2>3. CASE i # k
    BY <1>0, <2>1, <2>3 DEF PastCancelling
  <2> QED
    BY <2>2, <2>3
<1> QED
  BY <1>1, <1>2, <1>3, <1>4, OrdersStep

\* Whoever is about to refuse a cancellation keeps the row of a settled order.
SettledRefusals ==
  \A w \in Workers : refusal[w].kind = "cancel" => PastCancelling(refusal[w].row)

\* The row a refused cancellation found while it held the mutex is promised: an
\* order that waits for its first save is found by its own worker only.
LEMMA RefusedIsSettled ==
  ASSUME TypeInv, MutexInv, NEW w \in Workers, NEW username, NEW order_id,
         RefuseCancel(w, username, order_id)
  PROVE  \E i : PastCancelling(i) /\ Refuse(w, [kind |-> "cancel", row |-> i])
<1> PICK i \in DOMAIN g_orders :
      /\ g_orders[i].order_status \notin Cancellable
      /\ Refuse(w, [kind |-> "cancel", row |-> i])
  BY DEF RefuseCancel
<1>1. ~Saving
  BY NoWorkerAssumption DEF Refuse, MutexInv, LockedSteps, Saving
<1>2. DOMAIN g_orders = 1 .. Promised
  BY <1>1 DEF TypeInv, TypeOK, Promised
<1> QED
  BY <1>2 DEF PastCancelling

\* "Cannot cancel order at current status=%s" (line 1129) names a status that
\* cannot be cancelled, although the row is read without the mutex.
THEOREM CancelRefusalsTruthful == RefusalSpec => []CancelRefusalTruthful
<1>1. RefusalInit => SettledRefusals
  BY DEF RefusalInit, SettledRefusals, NoRefusal
<1>2. ASSUME TypeInv, MutexInv, SavingInv, RefusalTypeOK, SettledRefusals,
             [RefusalNext]_refusalVars
      PROVE  SettledRefusals'
  <2>1. \A i : PastCancelling(i) => PastCancelling(i)'
    BY <1>2, DeskStep, SettledStays DEF refusalVars
  <2>2. CASE UNCHANGED refusal
    BY <1>2, <2>1, <2>2 DEF SettledRefusals, PastCancelling
  <2>3. CASE \E w \in Workers : \E reply :
               /\ refusal' = [refusal EXCEPT ![w] = reply]
               /\ reply.kind = "cancel" => PastCancelling(reply.row)
    <3> PICK w \in Workers : \E reply :
               /\ refusal' = [refusal EXCEPT ![w] = reply]
               /\ reply.kind = "cancel" => PastCancelling(reply.row)
      BY <2>3
    <3> PICK reply : /\ refusal' = [refusal EXCEPT ![w] = reply]
                     /\ reply.kind = "cancel" => PastCancelling(reply.row)
      OBVIOUS
    <3>1. refusal'[w] = reply /\ \A v \in Workers \ {w} : refusal'[v] = refusal[v]
      BY <1>2 DEF RefusalTypeOK
    <3>2. reply.kind = "cancel" => PastCancelling(reply.row)'
      BY <2>1
    <3>3. \A v \in Workers, i \in Int :
            refusal[v].kind = "cancel" /\ refusal[v].row = i => PastCancelling(i)'
      BY <1>2, <2>1 DEF SettledRefusals
    <3>4. \A v \in Workers : refusal[v].kind = "cancel" => refusal[v].row \in Int
      BY <1>2 DEF SettledRefusals, PastCancelling
    <3> QED
      BY <3>1, <3>2, <3>3, <3>4 DEF SettledRefusals, PastCancelling
  <2>4. ASSUME NEW w \in Workers, NEW username, NEW order_id,
               RefuseCancel(w, username, order_id)
        PROVE  SettledRefusals'
    <3> PICK i : PastCancelling(i) /\ Refuse(w, [kind |-> "cancel", row |-> i])
      BY <1>2, <2>4, RefusedIsSettled
    <3> DEFINE reply == [kind |-> "cancel", row |-> i]
    <3>1. refusal' = [refusal EXCEPT ![w] = reply] /\ reply.row = i
      BY DEF Refuse
    <3> QED
      BY <2>3, <3>1
  <2>5. CASE \E w \in Workers : \E reply : /\ refusal' = [refusal EXCEPT ![w] = reply]
                                       /\ reply.kind # "cancel"
    BY <2>3, <2>5
  <2>6. ASSUME NEW w \in Workers, NEW id, NEW asked,
               RefuseStock(w, id, asked) \/ RefuseUpdate(w, id, asked)
        PROVE  SettledRefusals'
    <3> PICK kind \in {"stock", "update"} : \E i :
          refusal' = [refusal EXCEPT ![w] = [kind |-> kind, row |-> i, asked |-> asked]]
      BY <2>6 DEF RefuseStock, RefuseUpdate, Refuse
    <3> PICK i : refusal' = [refusal EXCEPT ![w] = [kind |-> kind, row |-> i, asked |-> asked]]
      OBVIOUS
    <3> DEFINE reply == [kind |-> kind, row |-> i, asked |-> asked]
    <3>1. reply.kind # "cancel"
      OBVIOUS
    <3> QED
      BY <2>5, <3>1
  <2>7. ASSUME NEW w \in Workers, Reply(w) PROVE SettledRefusals'
    <3>1. NoRefusal.kind # "cancel"
      BY DEF NoRefusal
    <3> QED
      BY <2>5, <2>7, <3>1 DEF Reply
  <2> QED
    BY <1>2, <2>2, <2>4, <2>6, <2>7 DEF RefusalNext, refusalVars
<1>3. TypeInv /\ SavingInv /\ SettledRefusals => CancelRefusalTruthful
  <2> SUFFICES ASSUME TypeInv, SavingInv, SettledRefusals PROVE CancelRefusalTruthful
    OBVIOUS
  <2>1. 1 .. Promised \subseteq DOMAIN g_orders
    BY PromisedType DEF TypeInv, TypeOK
  <2> QED
    BY <2>1 DEF SettledRefusals, PastCancelling, CancelRefusalTruthful
<1>4. Spec => []SavingInv
  <2>1. Init => SavingInv
    BY DEF Init, SavingInv, Saving
  <2> QED
    BY <2>1, SavingNext, TypeInvariance, MutualExclusion, PTL DEF Spec
<1> QED
  BY <1>1, <1>2, <1>3, <1>4, RepliesLeaveTheDesk, RefusalsTyped, TypeInvariance,
     MutualExclusion, PTL DEF RefusalSpec

-----------------------------------------------------------------------------
(* CrashRestart: what a restart loads *)

\* What a stop leaves of a file is the first rows of the table or of the file before.
LEMMA LeftoversShape ==
  ASSUME NEW S, NEW old \in Seq(S), NEW new \in Seq(S), NEW left \in Leftovers(old, new)
  PROVE  /\ left \in Seq(S)
         /\ \E whole \in {old, new} :
              /\ Len(left) <= Len(whole)
              /\ \A k \in 1 .. Len(left) : left[k] = whole[k]
<1>1. CASE left \in {old, new}
  BY <1>1
<1>2. CASE \E n \in 0 .. Len(new) : left = SubSeq(new, 1, n)
  <2> PICK n \in 0 .. Len(new) : left = SubSeq(new, 1, n)
    BY <1>2
  <2>1. left \in Seq(S) /\ Len(left) = n /\ \A k \in 1 .. n : left[k] = new[k]
    OBVIOUS
  <2> QED
    BY <2>1
<1> QED
  BY <1>1, <1>2 DEF Leftovers

\* The tables on file are numbered and fit as the ones in memory do.
CrashInv ==
  UnitsInv /\ CatalogueOK(products_file) /\ Len(orders_file) <= MaxOrders

\* The rows a stop leaves in a file are the first ones of the table or of the file
\* before, and a new process has them all or, if it cannot read the file, none.
LEMMA RestartLoads ==
  ASSUME CrashInv, StopAndRestart
  PROVE  /\ g_products' \in {products_file', << >>} /\ products_file' \in Seq(Product)
         /\ \E whole \in {products_file, g_products} :
              /\ Len(products_file') <= Len(whole)
              /\ \A k \in 1 .. Len(products_file') : products_file'[k] = whole[k]
         /\ g_orders' = (IF unread' THEN << >> ELSE orders_file')
         /\ orders_file' \in Seq(Order)
         /\ \E whole \in {orders_file, g_orders} :
              /\ Len(orders_file') <= Len(whole)
              /\ \A k \in 1 .. Len(orders_file') : orders_file'[k] = whole[k]
<1>1. /\ g_products \in Seq(Product) /\ products_file \in Seq(Product)
      /\ g_orders \in Seq(Order) /\ orders_file \in Seq(Order)
  BY DEF CrashInv, UnitsInv, DeskInv, TypeInv, TypeOK
<1>2. /\ products_file' = products_file \/ products_file' \in Leftovers(products_file, g_products)
      /\ orders_file' = orders_file \/ orders_file' \in Leftovers(orders_file, g_orders)
  BY DEF StopAndRestart
<1>3. /\ g_products' \in {products_file', << >>}
      /\ g_orders' = (IF unread' THEN << >> ELSE orders_file')
  BY DEF StopAndRestart, Load
<1>4. products_file' \in Leftovers(products_file, g_products)
      /\ orders_file' \in Leftovers(orders_file, g_orders)
  BY <1>2 DEF Leftovers
<1>5. /\ products_file' \in Seq(Product)
      /\ \E whole \in {products_file, g_products} :
           /\ Len(products_file') <= Len(whole)
           /\ \A k \in 1 .. Len(products_file') : products_file'[k] = whole[k]
  BY <1>1, <1>4, LeftoversShape
<1>6. /\ orders_file' \in Seq(Order)
      /\ \E whole \in {orders_file, g_orders} :
           /\ Len(orders_file') <= Len(whole)
           /\ \A k \in 1 .. Len(orders_file') : orders_file'[k] = whole[k]
  BY <1>1, <1>4, LeftoversShape
<1> QED
  BY <1>3, <1>5, <1>6

\* A new process has typed tables within their arrays and a free mutex, whatever the
\* stop left of the files and whichever it can read (db_initialize, lines 533-548).
LEMMA RestartKeeps ==
  ASSUME CrashInv, StopAndRestart
  PROVE  CrashInv'
<1>1. /\ g_products' \in {products_file', << >>} /\ products_file' \in Seq(Product)
      /\ g_orders' \in {orders_file', << >>} /\ orders_file' \in Seq(Order)
  BY RestartLoads
<1>2. /\ g_db_mutex' = NoWorker
      /\ pc' = [w \in Workers |-> "idle"]
      /\ call' = [w \in Workers |-> NoCall]
  BY DEF StopAndRestart
<1>3. TypeInv'
  <2>1. << >> \in Seq(Product) /\ << >> \in Seq(Order)
    OBVIOUS
  <2>2. g_products' \in Seq(Product) /\ g_orders' \in Seq(Order)
    BY <1>1, <2>1
  <2> QED
    BY <1>1, <1>2, <2>2 DEF TypeInv, TypeOK, CallInv, Steps, Placing, PaymentSteps
<1>4. MutexInv'
  BY <1>2, NoWorkerAssumption DEF MutexInv, LockedSteps
<1>5. ~Saving'
  BY <1>2 DEF Saving
<1>6. CatalogueOK(products_file') /\ CatalogueOK(g_products')
  <2> PICK whole \in {products_file, g_products} :
        /\ Len(products_file') <= Len(whole)
        /\ \A k \in 1 .. Len(products_file') : products_file'[k] = whole[k]
    BY RestartLoads
  <2>1. CatalogueOK(whole) /\ Len(whole) \in Nat /\ Len(products_file') \in Nat
    BY <1>1 DEF CrashInv, UnitsInv, DeskInv, TypeInv, TypeOK
  <2>2. CatalogueOK(products_file')
    BY <2>1, CapacityAssumption DEF CatalogueOK, NumberedFrom1
  <2>3. CatalogueOK(<< >>)
    BY CapacityAssumption DEF CatalogueOK, NumberedFrom1
  <2> QED
    BY <1>1, <2>2, <2>3
<1>7. Len(orders_file') <= MaxOrders /\ Len(g_orders') <= MaxOrders
  <2> PICK whole \in {orders_file, g_orders} : Len(orders_file') <= Len(whole)
    BY RestartLoads
  <2>1. Len(whole) <= MaxOrders
    BY DEF CrashInv, UnitsInv, DeskInv, CapacityRespected
  <2>2. Len(whole) \in Nat /\ Len(orders_file') \in Nat
    BY <1>1 DEF CrashInv, UnitsInv, DeskInv, TypeInv, TypeOK
  <2> QED
    BY <1>1, <2>1, <2>2, CapacityAssumption
<1>8. PendingInv' /\ SavingInv'
  BY <1>5, NothingPending DEF SavingInv
<1> QED
  BY <1>3, <1>4, <1>6, <1>7, <1>8
     DEF CrashInv, UnitsInv, DeskInv, CapacityRespected, CatalogueOK

\* A step of a worker keeps the invariant, for it writes tables as they are.
LEMMA WorkerKeeps == CrashInv /\ [Next]_vars => CrashInv'
<1> SUFFICES ASSUME CrashInv, [Next]_vars PROVE CrashInv'
  OBVIOUS
<1>1. products_file' \in {products_file, g_products} /\ orders_file' \in {orders_file, g_orders}
  BY FilesStep
<1> QED
  BY <1>1, UnitsNext DEF CrashInv, UnitsInv, DeskInv, CapacityRespected

\* The tables stay well formed and within their arrays and the catalogue numbered
\* from 1, over any number of stops and starts that cannot read a file.
THEOREM CrashInvariance == CrashSpec => []CrashInv
<1>1. CrashInit => CrashInv
  <2>1. Init => products_file = g_products /\ Len(orders_file) <= MaxOrders
    BY CapacityAssumption DEF Init
  <2> QED
    BY <2>1, UnitsInit DEF CrashInit, CrashInv, UnitsInv
<1>2. CrashInv /\ [CrashNext]_crashVars => CrashInv'
  BY WorkerKeeps, RestartKeeps DEF CrashNext, crashVars
<1> QED
  BY <1>1, <1>2, PTL DEF CrashSpec

\* Product ids stay sequential and order ids unique, the payment column keeps fitting
\* the status and the arrays are not outgrown, whatever a stop leaves of the files.
THEOREM TablesSurviveStops ==
  CrashSpec => [](ProductIdsSequential /\ OrderIdsUnique
                  /\ PaymentMatchesStatus /\ CapacityRespected)
<1> DEFINE RowsInv == Increasing /\ PaymentsInv
<1>1. CrashInit => RowsInv
  BY DEF CrashInit, Init, Increasing, IncreasingIds, PaymentsInv, PaymentsFit
<1>2. CrashInv /\ RowsInv /\ [CrashNext]_crashVars => RowsInv'
  <2> SUFFICES ASSUME CrashInv, RowsInv, [CrashNext]_crashVars PROVE RowsInv'
    OBVIOUS
  <2>1. CASE [Next]_vars
    BY <2>1, IncreasingNext, PaymentsNext DEF CrashInv, UnitsInv, DeskInv
  <2>2. CASE StopAndRestart
    <3> PICK whole \in {orders_file, g_orders} :
          /\ Len(orders_file') <= Len(whole)
          /\ \A k \in 1 .. Len(orders_file') : orders_file'[k] = whole[k]
      BY <2>2, RestartLoads
    <3>1. /\ g_orders' \in {orders_file', << >>}
          /\ Len(orders_file') \in Nat /\ Len(whole) \in Nat
      BY <2>2, RestartLoads DEF CrashInv, UnitsInv, DeskInv, TypeInv, TypeOK
    <3>2. IncreasingIds(whole) /\ PaymentsFit(whole)
      BY DEF Increasing, PaymentsInv
    <3>3. IncreasingIds(orders_file')
      BY <3>1, <3>2 DEF IncreasingIds
    <3>4. PaymentsFit(orders_file')
      BY <3>1, <3>2 DEF PaymentsFit
    <3>5. IncreasingIds(<< >>) /\ PaymentsFit(<< >>)
      BY DEF IncreasingIds, PaymentsFit
    <3> QED
      BY <3>1, <3>3, <3>4, <3>5 DEF Increasing, PaymentsInv
  <2> QED
    BY <2>1, <2>2 DEF CrashNext, crashVars
<1>3. CrashInv /\ RowsInv => /\ ProductIdsSequential /\ OrderIdsUnique
                            /\ PaymentMatchesStatus /\ CapacityRespected
  <2> SUFFICES ASSUME CrashInv, RowsInv
               PROVE  /\ ProductIdsSequential /\ OrderIdsUnique
                      /\ PaymentMatchesStatus /\ CapacityRespected
    OBVIOUS
  <2>1. OrderIdsUnique /\ PaymentMatchesStatus
    BY IncreasingIsUnique, PaymentsInvMatches DEF CrashInv, UnitsInv, DeskInv
  <2>2. /\ DOMAIN g_products = 1 .. Len(g_products)
        /\ DOMAIN products_file = 1 .. Len(products_file)
    BY DEF CrashInv, UnitsInv, DeskInv, TypeInv, TypeOK
  <2>3. ProductIdsSequential
    BY <2>2 DEF CrashInv, UnitsInv, CatalogueOK, NumberedFrom1, ProductIdsSequential
  <2> QED
    BY <2>1, <2>3 DEF CrashInv, UnitsInv, DeskInv
<1> HIDE DEF RowsInv
<1> QED
  BY <1>1, <1>2, <1>3, CrashInvariance, PTL DEF CrashSpec

\* The orders file changes when a worker saves the orders, and only then.
LEMMA OrdersFileStep ==
  ASSUME [Next]_vars
  PROVE  \/ orders_file' = orders_file
         \/ OrdersSaved /\ orders_file' = g_orders /\ g_orders' = g_orders
<1>1. CASE UNCHANGED vars
  BY <1>1 DEF vars, files
<1>2. CASE Next
  <2> PICK w \in Workers : Worker(w)
    BY <1>2 DEF Next
  <2> USE DEF files, SaveProducts, SaveOrders, SaveFails
  <2>1. CASE CustomerRequest(w) \/ OrderRequest(w) \/ CatalogueRequest(w)
    BY <2>1 DEF CustomerRequest, OrderRequest, CatalogueRequest, Reserve, CancelOrder,
                UpdateToCancelled, CancelAndRestock, UpdateToNext, AddProduct,
                ModifyProduct, DeleteProduct
  <2>2. CASE SecondLock(w)
    BY <2>2 DEF SecondLock, AbandonPayment, RefuseAtCapacity, GiveBack, RecordOrder
  <2>3. CASE GoOn(w)
    BY <2>3 DEF GoOn, ReservationSaved, ReservationNotSaved, PaymentSucceeds, PaymentFails,
                OrderSaved, OrderNotSaved, RollbackEnds, UpdateProductsSaved,
                UpdateProductsNotSaved, UpdateEnds, CatalogueEnds, OrdersSaved
  <2> QED
    BY <2>1, <2>2, <2>3 DEF Worker
<1> QED
  BY <1>1, <1>2

\* A save of the orders writes the table as it is and ends the critical section.
LEMMA OrdersSavedStep ==
  ASSUME TypeInv, MutexInv', OrdersSaved
  PROVE  /\ Writing(OrderSteps) /\ ~Saving'
         /\ orders_file' = g_orders /\ g_orders' = g_orders
<1>1. PICK w \in Workers : OrderSaved(w) \/ (UpdateEnds(w) /\ SaveOrders)
  BY DEF OrdersSaved
<1>2. /\ pc[w] \in OrderSteps /\ g_db_mutex' = NoWorker
      /\ orders_file' = g_orders /\ g_orders' = g_orders
  BY <1>1 DEF OrderSaved, UpdateEnds, SaveOrders, UnlockAndGo, OrderSteps
<1>3. ~Saving'
  BY <1>2, NoWorkerAssumption DEF MutexInv, LockedSteps, Saving
<1> QED
  BY <1>2, <1>3 DEF Writing

\* A process that could not read the orders promises none until it saves one.
LEMMA NothingPromised ==
  ASSUME TypeInv, MutexInv, SavingInv, Promised = 0, [Next]_vars, ~OrdersSaved
  PROVE  Promised' = 0
<1>1. g_orders \in Seq(Order)
  BY DEF TypeInv, TypeOK
<1>2. CASE QuietStep
  BY <1>2 DEF QuietStep, Promised
<1>3. CASE RecordStep
  BY <1>1, <1>3 DEF RecordStep, Promised
<1>4. CASE SavedStep
  BY <1>4 DEF SavedStep, OrdersSaved
<1>5. CASE DroppedStep
  BY <1>1, <1>5 DEF DroppedStep, Promised, SavingInv
<1>6. CASE ChangeStep
  BY <1>1, <1>6 DEF ChangeStep, Promised
<1> QED
  BY <1>2, <1>3, <1>4, <1>5, <1>6, OrdersStep

\* A table that is what the file is, while no order waits for its first save.
LEMMA AgreeWhenEqual ==
  ASSUME TypeInv, g_orders = orders_file, ~Saving
  PROVE  OrdersOnFile
<1>1. \A order \in Order : order.order_status \in Past(order.order_status)
  BY DEF Order, OrderStatuses, Past
<1>2. \A i \in DOMAIN orders_file : orders_file[i] \in Order
  BY DEF TypeInv, TypeOK
<1> QED
  BY <1>1, <1>2 DEF OrdersOnFile, Promised

\* The same after a step.
LEMMA AgreeWhenEqualAfter ==
  (TypeInv /\ g_orders = orders_file /\ ~Saving => OrdersOnFile)'
<1>1. TypeInv /\ g_orders = orders_file /\ ~Saving => OrdersOnFile
  BY AgreeWhenEqual
<1> QED
  BY <1>1, PTL

\* Every step, of a worker or of a stop, keeps memory and file in agreement, or
\* leaves a process that could not read the file without a promised order.
LEMMA OnFileIfReadNext ==
  CrashInv /\ CrashInv' /\ OrdersOnFileIfRead /\ [CrashNext]_crashVars => OrdersOnFileIfRead'
<1> SUFFICES ASSUME CrashInv, CrashInv', OrdersOnFileIfRead, [CrashNext]_crashVars
             PROVE  OrdersOnFileIfRead'
  OBVIOUS
<1>1. /\ TypeInv /\ MutexInv /\ SavingInv
      /\ TypeInv' /\ MutexInv' /\ SavingInv'
  BY DEF CrashInv, UnitsInv, DeskInv
<1>2. CASE StopAndRestart
  <2>1. ~Saving'
    BY <1>2 DEF StopAndRestart, Saving
  <2>2. g_orders' = IF unread' THEN << >> ELSE orders_file'
    BY <1>2, RestartLoads
  <2>3. CASE unread'
    BY <2>1, <2>2, <2>3 DEF OrdersOnFileIfRead, Promised
  <2>4. CASE ~unread'
    BY <1>1, <2>1, <2>2, <2>4, AgreeWhenEqualAfter DEF OrdersOnFileIfRead
  <2> QED
    BY <2>3, <2>4
<1>3. CASE Next /\ unread' = (unread /\ ~OrdersSaved)
  <2>1. CASE ~unread
    BY <1>1, <1>3, <2>1, OnFileNext DEF OrdersOnFileIfRead, OnFileInv
  <2>2. CASE OrdersSaved
    BY <1>1, <1>3, <2>2, OrdersSavedStep, AgreeWhenEqualAfter DEF OrdersOnFileIfRead
  <2>3. CASE unread /\ ~OrdersSaved
    BY <1>1, <1>3, <2>3, NothingPromised DEF OrdersOnFileIfRead
  <2> QED
    BY <2>1, <2>2, <2>3
<1>4. CASE UNCHANGED crashVars
  BY <1>4 DEF crashVars, vars, files, OrdersOnFileIfRead, OrdersOnFile, Promised, Saving
<1> QED
  BY <1>2, <1>3, <1>4 DEF CrashNext

\* Memory and file agree on the orders however often the server was stopped, except
\* in a process that could not read the file (lines 310-317): it has no order of it,
\* promises none, and agrees with the file from its first save on.
THEOREM OrdersOnFileAfterStops == CrashSpec => []OrdersOnFileIfRead
<1>1. CrashInit => OrdersOnFileIfRead
  BY DEF CrashInit, Init, OrdersOnFileIfRead, OrdersOnFile, Promised, Saving
<1> QED
  BY <1>1, OnFileIfReadNext, CrashInvariance, PTL DEF CrashSpec

\* Orders on file keep their owner and their contents, and their status never goes
\* back: a failed save leaves the old file, and a save that is made writes a table
\* that knows all its orders.  Excepted are a stop that catches a save of the orders
\* and the first save of a process that could not read them at its start.
THEOREM OrdersAlwaysDurable == CrashSpec => DurableOrders
<1> DEFINE Kept ==
      \/ Writing(OrderSteps) /\ (StopAndRestart \/ unread)
      \/ \A i \in DOMAIN orders_file :
           /\ i \in DOMAIN orders_file'
           /\ Identity(orders_file'[i]) = Identity(orders_file[i])
           /\ orders_file[i].order_status \in Past(orders_file'[i].order_status)
<1>1. ASSUME CrashInv, CrashInv', OrdersOnFileIfRead, [CrashNext]_crashVars PROVE Kept
  <2>0. /\ TypeInv /\ SavingInv /\ MutexInv'
        /\ g_orders \in Seq(Order) /\ orders_file \in Seq(Order)
    BY <1>1 DEF CrashInv, UnitsInv, DeskInv, TypeInv, TypeOK
  <2>1. CASE orders_file' = orders_file
    <3>1. \A order \in Order : order.order_status \in Past(order.order_status)
      BY DEF Order, OrderStatuses, Past
    <3> QED
      BY <2>0, <2>1, <3>1
  <2>2. CASE orders_file' = g_orders /\ ~unread
    <3>1. OrdersOnFile
      BY <1>1, <2>2 DEF OrdersOnFileIfRead
    <3>2. DOMAIN orders_file \subseteq DOMAIN g_orders
      BY <2>0, <3>1, PromisedType DEF OrdersOnFile
    <3> QED
      BY <2>0, <2>2, <3>1, <3>2 DEF OrdersOnFile
  <2>3. CASE [Next]_vars
    <3>1. OrdersSaved => Writing(OrderSteps)
      BY <2>0, OrdersSavedStep
    <3> QED
      BY <2>1, <2>2, <2>3, <3>1, OrdersFileStep
  <2>4. CASE StopAndRestart
    BY <2>1, <2>4 DEF StopAndRestart
  <2> QED
    BY <1>1, <2>3, <2>4 DEF CrashNext, crashVars
<1>2. CrashSpec => [][Kept]_crashVars
  <2>1. CrashInv /\ CrashInv' /\ OrdersOnFileIfRead /\ [CrashNext]_crashVars
          => [Kept]_crashVars
    BY <1>1
  <2> HIDE DEF Kept
  <2> QED
    BY <2>1, CrashInvariance, OrdersOnFileAfterStops, PTL DEF CrashSpec
<1> QED
  BY <1>2 DEF DurableOrders

-----------------------------------------------------------------------------
(* The units, over stops *)

\* Between two stops units are conserved as they are without any: what is loaded is
\* a table like another.
THEOREM UnitsConservedBetweenStops ==
  CrashSpec =>
    [][\/ StopAndRestart \/ CatalogueStep
       \/ \A i \in DOMAIN g_products : Units(i) <= IntMax => Units(i)' = Units(i)]_crashVars
<1> DEFINE Balance ==
      \/ StopAndRestart \/ CatalogueStep
      \/ \A i \in DOMAIN g_products : Units(i) <= IntMax => Units(i)' = Units(i)
<1>1. CrashInv /\ CrashInv' /\ [CrashNext]_crashVars => [Balance]_crashVars
  <2> SUFFICES ASSUME CrashInv, CrashInv', CrashNext PROVE Balance
    BY DEF crashVars
  <2>1. CASE Next
    BY <2>1, UnitsStep DEF Conserved, CrashInv, UnitsInv, DeskInv
  <2> QED
    BY <2>1 DEF CrashNext
<1>2. CrashSpec => [][Balance]_crashVars
  <2> HIDE DEF Balance
  <2> QED
    BY <1>1, CrashInvariance, PTL DEF CrashSpec
<1> QED
  BY <1>2

\* What a stop leaves on file of a product that is still there is what the table or
\* the file had.
LEMMA RestartRow ==
  ASSUME CrashInv, StopAndRestart, NEW i \in DOMAIN products_file'
  PROVE  \/ i \in DOMAIN g_products /\ products_file'[i] = g_products[i]
         \/ i \in DOMAIN products_file /\ products_file' = products_file
<1>1. /\ g_products \in Seq(Product) /\ products_file \in Seq(Product)
      /\ products_file' \in Seq(Product)
  BY RestartLoads DEF CrashInv, UnitsInv, DeskInv, TypeInv, TypeOK
<1>2. CASE products_file' = products_file
  BY <1>1, <1>2
<1>3. CASE products_file' \in Leftovers(products_file, g_products) /\ products_file' # products_file
  <2>1. CASE products_file' = g_products
    BY <1>1, <2>1
  <2>2. CASE \E n \in 0 .. Len(g_products) : products_file' = SubSeq(g_products, 1, n)
    BY <1>1, <2>2
  <2> QED
    BY <1>3, <2>1, <2>2 DEF Leftovers
<1> QED
  BY <1>2, <1>3 DEF StopAndRestart

\* No stock is negative on file either.
FileNonNegative == \A i \in DOMAIN products_file : products_file[i].stock >= 0

\* The stock is not negative after a restart, however the stop fell.
THEOREM StockNeverNegativeAfterStops == CrashSpec /\ []UnitsFit => []StockNonNegative
<1> DEFINE ShelvesInv == StockNonNegative /\ FileNonNegative
<1>1. CrashInit => ShelvesInv
  BY InitialProductsAssumption DEF CrashInit, Init, StockNonNegative, FileNonNegative
<1>2. CrashInv /\ CrashInv' /\ UnitsFit /\ ShelvesInv /\ [CrashNext]_crashVars => ShelvesInv'
  <2> SUFFICES ASSUME CrashInv, CrashInv', UnitsFit, ShelvesInv, [CrashNext]_crashVars
               PROVE  ShelvesInv'
    OBVIOUS
  <2>1. CASE [Next]_vars
    <3>1. StockNonNegative'
      BY <2>1, StockStep DEF CrashInv, UnitsInv, DeskInv
    <3>2. products_file' \in {products_file, g_products}
      BY <2>1, FilesStep
    <3> QED
      BY <3>1, <3>2 DEF StockNonNegative, FileNonNegative
  <2>2. CASE StopAndRestart
    <3>1. g_products' \in {products_file', << >>}
      BY <2>2, RestartLoads
    <3>2. \A i \in DOMAIN products_file' : products_file'[i].stock >= 0
      BY <2>2, RestartRow DEF StockNonNegative, FileNonNegative
    <3> QED
      BY <3>1, <3>2 DEF StockNonNegative, FileNonNegative
  <2> QED
    BY <2>1, <2>2 DEF CrashNext, crashVars
<1>3. ShelvesInv => StockNonNegative
  OBVIOUS
<1> HIDE DEF ShelvesInv
<1> QED
  BY <1>1, <1>2, <1>3, CrashInvariance, PTL DEF CrashSpec

-----------------------------------------------------------------------------
(* A stop creates no units *)

\* No save has failed since the last start and no change of the catalogue waits for
\* its save: then the file has no more of a product than the shelf has, except what
\* the reservation that is being saved has just taken.
Settled == ~missed /\ ~Writing({"saving_catalogue"})
Covered(i) ==
  \/ products_file[i].stock <= g_products[i].stock
  \/ \E w \in Workers : /\ pc[w] = "saving_reservation"
                        /\ products_file[i].stock <= g_products[i].stock + Held(w, i)
ShelfInv == Settled => \A i \in DOMAIN g_products \cap DOMAIN products_file : Covered(i)

\* The stocks in the table and in the file are integers.
LEMMA ShelfTypes ==
  ASSUME CrashInv
  PROVE  /\ \A i \in DOMAIN g_products : g_products[i].stock \in Int
         /\ \A i \in DOMAIN products_file : products_file[i].stock \in Int
<1>1. g_products \in Seq(Product) /\ products_file \in Seq(Product)
  BY DEF CrashInv, UnitsInv, DeskInv, TypeInv, TypeOK
<1>2. \A x \in Product : x.stock \in Int
  BY IntMaxAssumption DEF Product, CInt
<1> QED
  BY <1>1, <1>2

\* The same after a step.
LEMMA ShelfTypesAfter ==
  CrashInv' => (/\ \A i \in DOMAIN g_products : g_products[i].stock \in Int
                /\ \A i \in DOMAIN products_file : products_file[i].stock \in Int)'
<1>1. CrashInv => /\ \A i \in DOMAIN g_products : g_products[i].stock \in Int
                  /\ \A i \in DOMAIN products_file : products_file[i].stock \in Int
  BY ShelfTypes
<1> QED
  BY <1>1, PTL

\* Nobody saves a reservation while the mutex is free or held for something else.
LEMMA NoneReserving ==
  ASSUME MutexInv, \/ g_db_mutex = NoWorker
                   \/ \E w \in Workers : pc[w] \in LockedSteps \ {"saving_reservation"}
  PROVE  \A v \in Workers : pc[v] # "saving_reservation"
  BY NoWorkerAssumption DEF MutexInv, LockedSteps

\* Only the end of a change of the catalogue settles anything.
LEMMA SettledBefore ==
  ASSUME TypeInv, NEW w \in Workers, NEW from, NEW to \in Steps,
         LockAndGo(w, from, to) \/ Go(w, from, to) \/ UnlockAndGo(w, from, to),
         from # "saving_catalogue", missed' = (missed \/ SaveMissed), Settled'
  PROVE  Settled /\ ~SaveMissed
<1>1. ~missed /\ ~SaveMissed /\ ~Writing({"saving_catalogue"})'
  BY DEF Settled
<1>2. pc[w] = from /\ \A v \in Workers \ {w} : pc'[v] = pc[v]
  BY MoveTypes
<1> QED
  BY <1>1, <1>2 DEF Settled, Writing

\* After a save the file is what the table is.
LEMMA ShelfWritten ==
  ASSUME CrashInv', products_file' = g_products'
  PROVE  ShelfInv'
  BY ShelfTypesAfter DEF ShelfInv, Covered

\* The shelf only fills up and the file is left alone.
LEMMA ShelfStays ==
  ASSUME CrashInv, CrashInv', ShelfInv, Settled' => Settled,
         products_file' = products_file, DOMAIN g_products' = DOMAIN g_products,
         \A v \in Workers : pc[v] # "saving_reservation",
         \A i \in DOMAIN g_products : g_products'[i].stock >= g_products[i].stock
  PROVE  ShelfInv'
<1> SUFFICES ASSUME Settled', NEW i \in DOMAIN g_products, i \in DOMAIN products_file
             PROVE  Covered(i)'
  BY DEF ShelfInv
<1>1. Covered(i)
  BY DEF ShelfInv
<1>2. products_file[i].stock <= g_products[i].stock
  BY <1>1 DEF Covered
<1>3. /\ g_products[i].stock \in Int /\ g_products'[i].stock \in Int
      /\ products_file[i].stock \in Int
  BY ShelfTypes, ShelfTypesAfter
<1>4. products_file'[i].stock <= g_products'[i].stock
  BY <1>2, <1>3
<1> QED
  BY <1>4 DEF Covered

\* What a reservation takes off the shelf is in the basket while it is saved.
LEMMA ShelfReserve ==
  ASSUME CrashInv, CrashInv', ShelfInv, missed' = (missed \/ SaveMissed),
         NEW w \in Workers, NEW username \in Customers, NEW product_id \in Nat,
         NEW quantity \in Quantities, NEW method \in Methods,
         Reserve(w, username, product_id, quantity, method)
  PROVE  ShelfInv'
<1> PICK k \in DOMAIN g_products :
      /\ LockAndGo(w, "idle", "saving_reservation")
      /\ FoundAt(g_products, product_id, k)
      /\ g_products' = [g_products EXCEPT ![k].stock = @ - quantity]
      /\ call' = [call EXCEPT ![w] =
                    [username |-> username, product_id |-> product_id,
                     product_name |-> g_products[k].name, quantity |-> quantity,
                     payment_method |-> method]]
      /\ UNCHANGED <<g_orders, files>>
  BY DEF Reserve
<1> SUFFICES ASSUME Settled', NEW i \in DOMAIN g_products, i \in DOMAIN products_file
             PROVE  Covered(i)'
  BY DEF ShelfInv, files
<1>1. TypeInv /\ MutexInv /\ UnitsInv
  BY DEF CrashInv, UnitsInv, DeskInv
<1>2. Settled
  <2>1. "saving_reservation" \in Steps
    BY DEF Steps, LockedSteps
  <2> QED
    BY <1>1, <2>1, SettledBefore
<1>3. products_file[i].stock <= g_products[i].stock
  <2>1. \A v \in Workers : pc[v] # "saving_reservation"
    BY <1>1, NoneReserving DEF LockAndGo
  <2>2. Covered(i)
    BY <1>2 DEF ShelfInv
  <2> QED
    BY <2>1, <2>2 DEF Covered
<1>4. pc'[w] = "saving_reservation" /\ products_file' = products_file
  BY <1>1 DEF LockAndGo, TypeInv, TypeOK, files
<1>5. CASE i # k
  BY <1>3, <1>5, <1>4 DEF Covered
<1>6. CASE i = k
  <2>1. g_products[i].id = i /\ g_products[i] \in Product /\ g_products[i].stock \in Int
    BY <1>1, UnitsType
  <2>2. product_id = i
    BY <1>6, <2>1 DEF FoundAt
  <2>3. call'[w].product_id = i /\ call'[w].quantity = quantity
    BY <1>1, <2>2 DEF TypeInv, TypeOK
  <2>4. Held(w, i)' = quantity
    BY <1>4, <2>3 DEF Held
  <2>5. g_products'[i].stock = g_products[i].stock - quantity
    BY <1>6, <2>1 DEF Product
  <2>6. quantity \in Nat
    <3>1. quantity \in 1 .. IntMax
      BY QuantitiesAssumption
    <3> QED
      BY <3>1, IntMaxAssumption
  <2>7. products_file'[i].stock <= g_products'[i].stock + Held(w, i)'
    BY <1>3, <1>4, <2>1, <2>4, <2>5, <2>6, ShelfTypes
  <2> QED
    BY <1>4, <2>7 DEF Covered
<1> QED
  BY <1>5, <1>6

\* A payment that ends touches neither shelf nor file nor anybody else's basket.
LEMMA ShelfPayment ==
  ASSUME CrashInv, ShelfInv, missed' = (missed \/ SaveMissed), NEW w \in Workers,
         PaymentSucceeds(w) \/ PaymentFails(w)
  PROVE  ShelfInv'
<1> SUFFICES ASSUME Settled', NEW i \in DOMAIN g_products, i \in DOMAIN products_file
             PROVE  Covered(i)'
  BY DEF ShelfInv, PaymentSucceeds, PaymentFails, files
<1>1. TypeInv
  BY DEF CrashInv, UnitsInv, DeskInv
<1>2. PICK to \in {"paid", "payment_failed"} : Go(w, "paying", to)
  BY DEF PaymentSucceeds, PaymentFails
<1>3. to \in Steps
  BY DEF Steps, PaymentSteps
<1>4. pc[w] = "paying" /\ \A v \in Workers \ {w} : pc'[v] = pc[v]
  BY <1>1, <1>2, <1>3, MoveTypes
<1>5. Settled
  BY <1>1, <1>2, <1>3, SettledBefore
<1>6. UNCHANGED <<g_products, products_file, call>>
  BY DEF PaymentSucceeds, PaymentFails, files
<1>7. Covered(i)
  BY <1>5 DEF ShelfInv
<1>8. \A v \in Workers : pc[v] = "saving_reservation" =>
        pc'[v] = "saving_reservation" /\ Held(v, i)' = Held(v, i)
  BY <1>4, <1>6 DEF Held
<1> QED
  BY <1>6, <1>7, <1>8 DEF Covered

\* The steps that leave the file alone while nobody saves a reservation.
LEMMA ShelfQuiet ==
  ASSUME CrashInv, CrashInv', UnitsFit, ShelfInv, missed' = (missed \/ SaveMissed),
         NEW w \in Workers,
         \/ \E k \in DOMAIN g_orders : CancelAndRestock(w, k)
         \/ \E order_id : \E next \in OrderStatuses : UpdateToNext(w, order_id, next)
         \/ AbandonPayment(w) \/ RefuseAtCapacity(w) \/ RecordOrder(w)
         \/ OrderSaved(w) \/ (UpdateEnds(w) /\ SaveOrders)
  PROVE  ShelfInv'
<1>1. TypeInv /\ MutexInv /\ UnitsInv /\ TypeInv'
  BY DEF CrashInv, UnitsInv, DeskInv
<1>2. \/ \E from \in {"idle", "payment_failed", "paid"}, to \in LockedSteps \cup {"idle"} :
           g_db_mutex = NoWorker /\ (LockAndGo(w, from, to) \/ UnlockAndGo(w, from, to))
      \/ \E from \in {"saving_order", "saving_update_orders"} : UnlockAndGo(w, from, "idle")
  BY DEF CancelAndRestock, UpdateToNext, AbandonPayment, RefuseAtCapacity, GiveBack,
         RecordOrder, OrderSaved, UpdateEnds, LockAndGo, LockedSteps
<1>3. \A v \in Workers : pc[v] # "saving_reservation"
  BY <1>1, <1>2, NoneReserving DEF UnlockAndGo, LockedSteps
<1>4. Settled' => Settled
  <2>1. LockedSteps \cup {"idle"} \subseteq Steps
    BY DEF Steps
  <2> QED
    BY <1>1, <1>2, <2>1, SettledBefore
<1>5. products_file' = products_file
  BY DEF CancelAndRestock, UpdateToNext, AbandonPayment, RefuseAtCapacity, GiveBack,
         RecordOrder, OrderSaved, UpdateEnds, SaveOrders, files
<1>6. /\ DOMAIN g_products' = DOMAIN g_products
      /\ \A i \in DOMAIN g_products : g_products'[i].stock >= g_products[i].stock
  <2>1. CASE \/ \E k \in DOMAIN g_orders : CancelAndRestock(w, k)
             \/ AbandonPayment(w) \/ RefuseAtCapacity(w)
    <3>1. \A i \in DOMAIN g_products : Restocked(i)
      BY <1>1, <2>1, RollbackUnits, CancelUnits DEF UnitsFit
    <3> QED
      BY <2>1, <3>1 DEF Restocked, CancelAndRestock, AbandonPayment, RefuseAtCapacity,
                        GiveBack, Credit
  <2>2. CASE g_products' = g_products
    BY <2>2, ShelfTypes
  <2> QED
    BY <2>1, <2>2 DEF UpdateToNext, RecordOrder, OrderSaved, UpdateEnds
<1> QED
  BY <1>3, <1>4, <1>5, <1>6, ShelfStays

\* Every step of a worker keeps the file from having what neither shelf nor basket has.
LEMMA ShelfNext ==
  ASSUME CrashInv, CrashInv', UnitsFit, ShelfInv, missed' = (missed \/ SaveMissed), Next
  PROVE  ShelfInv'
<1> PICK w \in Workers : Worker(w)
  BY DEF Next
<1>1. CASE \E username \in Customers, product_id \in Nat, quantity \in Quantities,
              method \in Methods : Reserve(w, username, product_id, quantity, method)
  BY <1>1, ShelfReserve
<1>2. CASE CatalogueRequest(w)
  <2>1. pc'[w] = "saving_catalogue"
    BY <1>2 DEF CatalogueRequest, AddProduct, ModifyProduct, DeleteProduct, LockAndGo,
                CrashInv, UnitsInv, DeskInv, TypeInv, TypeOK
  <2> QED
    BY <2>1 DEF ShelfInv, Settled, Writing
<1>3. CASE SaveMissed
  BY <1>3 DEF ShelfInv, Settled
<1>4. CASE PaymentSucceeds(w) \/ PaymentFails(w)
  BY <1>4, ShelfPayment
<1>5. CASE products_file' = g_products'
  BY <1>5, ShelfWritten
<1>6. CASE \/ \E k \in DOMAIN g_orders : CancelAndRestock(w, k)
           \/ \E order_id : \E next \in OrderStatuses : UpdateToNext(w, order_id, next)
           \/ AbandonPayment(w) \/ RefuseAtCapacity(w) \/ RecordOrder(w)
           \/ OrderSaved(w) \/ (UpdateEnds(w) /\ SaveOrders)
  BY <1>6, ShelfQuiet
<1>7. ASSUME GoOn(w), ~SaveMissed
      PROVE  \/ PaymentSucceeds(w) \/ PaymentFails(w)
             \/ OrderSaved(w) \/ (UpdateEnds(w) /\ SaveOrders)
             \/ products_file' = g_products'
  <2>1. \/ ReservationSaved(w) \/ PaymentSucceeds(w) \/ PaymentFails(w)
        \/ OrderSaved(w) \/ UpdateProductsSaved(w)
        \/ (RollbackEnds(w) \/ UpdateEnds(w) \/ CatalogueEnds(w)) /\ ~SaveFails
    BY <1>7 DEF GoOn, SaveMissed
  <2>2. (RollbackEnds(w) \/ CatalogueEnds(w)) /\ ~SaveFails => products_file' = g_products'
    BY DEF RollbackEnds, CatalogueEnds, SaveProducts
  <2>3. ReservationSaved(w) \/ UpdateProductsSaved(w) => products_file' = g_products'
    BY DEF ReservationSaved, UpdateProductsSaved, SaveProducts
  <2>4. UpdateEnds(w) /\ ~SaveFails => SaveOrders
    BY DEF UpdateEnds
  <2> QED
    BY <2>1, <2>2, <2>3, <2>4
<1>8. ReservationNotSaved(w) \/ OrderNotSaved(w) => SaveMissed
  BY DEF SaveMissed
<1> QED
  BY <1>1, <1>2, <1>3, <1>4, <1>5, <1>6, <1>7, <1>8, UnitsSteps

\* What the file has too many of is in a basket, over any number of stops, as long as
\* an int holds the units.
LEMMA ShelfInvariance == CrashSpec /\ []UnitsFit => []ShelfInv
<1>1. CrashInit => CrashInv
  BY UnitsInit, CapacityAssumption DEF CrashInit, CrashInv, UnitsInv, Init
<1>2. CrashInit => ShelfInv
  <2> SUFFICES ASSUME CrashInit PROVE ShelfInv
    OBVIOUS
  <2>1. products_file = g_products
    BY DEF CrashInit, Init
  <2> QED
    BY <1>1, <2>1, ShelfTypes DEF ShelfInv, Covered
<1>3. CrashInv /\ CrashInv' /\ UnitsFit /\ ShelfInv /\ [CrashNext]_crashVars => ShelfInv'
  <2> SUFFICES ASSUME CrashInv, CrashInv', UnitsFit, ShelfInv, [CrashNext]_crashVars
               PROVE  ShelfInv'
    OBVIOUS
  <2>1. CASE StopAndRestart
    <3>1. CASE g_products' = products_file'
      BY <3>1, ShelfWritten
    <3>2. CASE g_products' = << >>
      BY <3>2 DEF ShelfInv
    <3> QED
      BY <2>1, <3>1, <3>2, RestartLoads
  <2>2. CASE Next /\ missed' = (missed \/ SaveMissed)
    BY <2>2, ShelfNext
  <2>3. CASE UNCHANGED crashVars
    BY <2>3 DEF crashVars, vars, ShelfInv, Settled, Covered, Writing, Held
  <2> QED
    BY <2>1, <2>2, <2>3 DEF CrashNext
<1> QED
  BY <1>2, <1>3, CrashInvariance, PTL DEF CrashSpec

\* A sum that is bounded row by row by two others is bounded by them.
LEMMA SumAtMost ==
  ASSUME NEW T, IsFiniteSet(T), NEW S \in SUBSET T, NEW fun, NEW gun, NEW hun,
         \A x \in S : fun[x] \in Nat,
         \A x \in T : gun[x] \in Nat /\ hun[x] \in Nat,
         \A x \in S : fun[x] <= gun[x] + hun[x]
  PROVE  SumFunctionOnSet(fun, S) <= SumFunctionOnSet(gun, T) + SumFunctionOnSet(hun, T)
<1> DEFINE F(t) == SumFunctionOnSet(fun, t \cap S)
           G(t) == SumFunctionOnSet(gun, t)
           H(t) == SumFunctionOnSet(hun, t)
           Good(t) == F(t) <= G(t) + H(t)
           Bad == {n \in Nat : \E t \in SUBSET T : Cardinality(t) = n /\ ~Good(t)}
<1>1. \A t \in SUBSET T : IsFiniteSet(t) /\ IsFiniteSet(t \cap S)
  BY FS_Subset
<1>2. \A t \in SUBSET T : F(t) \in Nat /\ G(t) \in Nat /\ H(t) \in Nat
  <2> SUFFICES ASSUME NEW t \in SUBSET T PROVE F(t) \in Nat /\ G(t) \in Nat /\ H(t) \in Nat
    OBVIOUS
  <2>1. F(t) \in Nat
    <3>1. \A x \in t \cap S : fun[x] \in Nat
      OBVIOUS
    <3> QED
      BY <1>1, <3>1, SumType
  <2>2. G(t) \in Nat /\ H(t) \in Nat
    BY <1>1, SumType
  <2> QED
    BY <2>1, <2>2
<1>3. \A t \in SUBSET T : \A x \in t :
        /\ G(t) = gun[x] + G(t \ {x}) /\ H(t) = hun[x] + H(t \ {x})
        /\ x \in S => F(t) = fun[x] + F(t \ {x})
        /\ x \notin S => F(t) = F(t \ {x})
  <2> SUFFICES ASSUME NEW t \in SUBSET T, NEW x \in t
               PROVE  /\ G(t) = gun[x] + G(t \ {x}) /\ H(t) = hun[x] + H(t \ {x})
                      /\ x \in S => F(t) = fun[x] + F(t \ {x})
                      /\ x \notin S => F(t) = F(t \ {x})
    OBVIOUS
  <2>1. G(t) = gun[x] + G(t \ {x}) /\ H(t) = hun[x] + H(t \ {x})
    <3>1. \A y \in t : gun[y] \in Int /\ hun[y] \in Int
      OBVIOUS
    <3>2. SumFunctionOnSet(gun, t) = gun[x] + SumFunctionOnSet(gun, t \ {x})
      BY <1>1, <3>1, SumRemove
    <3>3. SumFunctionOnSet(hun, t) = hun[x] + SumFunctionOnSet(hun, t \ {x})
      BY <1>1, <3>1, SumRemove
    <3> QED
      BY <3>2, <3>3
  <2>2. ASSUME x \in S PROVE F(t) = fun[x] + F(t \ {x})
    <3>1. (t \cap S) \ {x} = (t \ {x}) \cap S /\ x \in t \cap S
      BY <2>2
    <3>2. \A y \in t \cap S : fun[y] \in Int
      OBVIOUS
    <3> QED
      BY <1>1, <3>1, <3>2, SumRemove
  <2>3. ASSUME x \notin S PROVE F(t) = F(t \ {x})
    <3>1. t \cap S = (t \ {x}) \cap S
      BY <2>3
    <3> QED
      BY <3>1
  <2> QED
    BY <2>1, <2>2, <2>3
<1>4. F({}) = 0 /\ G({}) = 0 /\ H({}) = 0
  <2>1. {} \cap S = {}
    OBVIOUS
  <2> QED
    BY <2>1, SumTurn, FS_EmptySet
<1>5. T \cap S = S
  OBVIOUS
<1>6. SUFFICES ASSUME ~Good(T) PROVE FALSE
  BY <1>5
<1> HIDE DEF F, G, H
<1>7. Cardinality(T) \in Bad
  BY <1>6, FS_CardinalityType
<1>8. PICK n \in Bad : n \in Nat /\ \A m \in Nat : m < n => m \notin Bad
  BY <1>7, LeastNatural
<1>9. PICK t \in SUBSET T : Cardinality(t) = n /\ ~Good(t)
  BY <1>8
<1>10. t # {}
  BY <1>4, <1>9
<1>11. PICK x : x \in t
  BY <1>10
<1> DEFINE u == t \ {x}
<1>12. u \in SUBSET T /\ Cardinality(u) = n - 1 /\ Cardinality(u) \in Nat
  BY <1>9, <1>11, SmallerSets
<1>13. /\ G(t) = gun[x] + G(u) /\ H(t) = hun[x] + H(u)
       /\ x \in S => F(t) = fun[x] + F(u)
       /\ x \notin S => F(t) = F(u)
  BY <1>3, <1>11
<1> HIDE DEF u
<1>14. Cardinality(u) \notin Bad
  BY <1>8, <1>12
<1>15. Good(u)
  BY <1>12, <1>14
<1>16. x \in T /\ gun[x] \in Nat /\ hun[x] \in Nat
  BY <1>11
<1>17. F(u) \in Nat /\ G(u) \in Nat /\ H(u) \in Nat
  BY <1>2, <1>12
<1> HIDE DEF Bad
<1>18. CASE x \in S
  BY <1>9, <1>13, <1>15, <1>16, <1>17, <1>18
<1>19. CASE x \notin S
  BY <1>9, <1>13, <1>15, <1>16, <1>17, <1>19
<1> QED
  BY <1>18, <1>19

\* The rows of the orders a new process loads, one by one: each is the order in
\* memory or an earlier state of it, which only a cancellation takes units from.
LEMMA RestartOrdered ==
  ASSUME CrashInv, OrdersOnFile, StopAndRestart, NEW p, NEW k \in DOMAIN orders_file'
  PROVE  /\ k \in 1 .. Len(g_orders) /\ g_orders[k] \in Order /\ orders_file'[k] \in Order
         /\ Ordered(orders_file'[k], p) <=
              Ordered(g_orders[k], p)
              + (IF /\ g_orders[k].product_id = p
                    /\ g_orders[k].order_status = "CANCELLED"
                    /\ k \in DOMAIN orders_file'
                    /\ orders_file'[k].order_status # "CANCELLED"
                 THEN g_orders[k].quantity ELSE 0)
<1>1. /\ g_orders \in Seq(Order) /\ orders_file \in Seq(Order) /\ orders_file' \in Seq(Order)
      /\ DOMAIN orders_file = 1 .. Len(orders_file)
  BY RestartLoads DEF CrashInv, UnitsInv, DeskInv, TypeInv, TypeOK
<1>2. Promised \in 0 .. Len(g_orders) /\ Len(orders_file) = Promised
  BY PromisedType DEF CrashInv, UnitsInv, DeskInv, OrdersOnFile
<1>3. PICK whole \in {orders_file, g_orders} :
        /\ Len(orders_file') <= Len(whole)
        /\ \A j \in 1 .. Len(orders_file') : orders_file'[j] = whole[j]
  BY RestartLoads
<1>4. k \in 1 .. Len(whole) /\ k \in 1 .. Len(g_orders) /\ orders_file'[k] = whole[k]
  BY <1>1, <1>2, <1>3
<1>5. g_orders[k] \in Order /\ orders_file'[k] \in Order
  BY <1>1, <1>4
<1>6. Ordered(g_orders[k], p) \in Nat /\ g_orders[k].quantity \in Nat
  <2>1. g_orders[k].quantity \in 1 .. IntMax
    BY <1>5, QuantitiesAssumption DEF Order
  <2> QED
    BY <1>5, <2>1, OrderedType, IntMaxAssumption
<1>7. CASE orders_file'[k] = g_orders[k]
  BY <1>4, <1>5, <1>6, <1>7
<1>8. CASE orders_file'[k] = orders_file[k] /\ k \in 1 .. Len(orders_file)
  <2>1. Identity(orders_file[k]) = Identity(g_orders[k])
    BY <1>1, <1>8 DEF OrdersOnFile
  <2>2. /\ orders_file[k].product_id = g_orders[k].product_id
        /\ orders_file[k].quantity = g_orders[k].quantity
    BY <2>1 DEF Identity
  <2> QED
    BY <1>4, <1>5, <1>6, <1>8, <2>2 DEF Ordered
<1> QED
  BY <1>3, <1>4, <1>5, <1>7, <1>8

\* What was sold according to a new process was sold or is cancelled in memory alone.
LEMMA RestartSold ==
  ASSUME CrashInv, OrdersOnFile, StopAndRestart, NEW p
  PROVE  /\ Sold(p)' <= Sold(p) + Uncancelled(p)
         /\ Sold(p)' \in Nat /\ Sold(p) \in Nat /\ Uncancelled(p) \in Nat
<1> DEFINE S == 1 .. Len(g_orders')
           T == 1 .. Len(g_orders)
           now == [k \in S |-> Ordered(g_orders'[k], p)]
           before == [k \in T |-> Ordered(g_orders[k], p)]
           undone == [k \in DOMAIN g_orders |->
                        IF /\ g_orders[k].product_id = p
                           /\ g_orders[k].order_status = "CANCELLED"
                           /\ k \in DOMAIN orders_file'
                           /\ orders_file'[k].order_status # "CANCELLED"
                        THEN g_orders[k].quantity ELSE 0]
<1>0. /\ g_orders \in Seq(Order) /\ orders_file' \in Seq(Order)
      /\ g_orders' \in {orders_file', << >>}
  BY RestartLoads DEF CrashInv, UnitsInv, DeskInv, TypeInv, TypeOK
<1>1. /\ g_orders \in Seq(Order) /\ g_orders' \in Seq(Order)
      /\ DOMAIN g_orders = T /\ DOMAIN g_orders' = S
      /\ \A k \in S : k \in DOMAIN orders_file' /\ g_orders'[k] = orders_file'[k]
  <2>1. << >> \in Seq(Order) /\ Len(<< >>) = 0
    OBVIOUS
  <2>2. g_orders' \in Seq(Order)
    BY <1>0, <2>1
  <2>3. DOMAIN g_orders = T /\ DOMAIN g_orders' = S
    BY <1>0, <2>2
  <2>4. \A k \in DOMAIN g_orders' : k \in DOMAIN orders_file' /\ g_orders'[k] = orders_file'[k]
    <3>1. CASE g_orders' = orders_file'
      BY <3>1
    <3>2. CASE g_orders' = << >>
      BY <3>2
    <3> QED
      BY <1>0, <3>1, <3>2
  <2> QED
    BY <1>0, <2>2, <2>3, <2>4
<1>2. Sold(p)' = SumFunctionOnSet(now, S)
  <2>1. Sold(p)' = SoldIn(g_orders', p)
    BY DEF Sold, SoldIn
  <2> QED
    BY <1>1, <2>1, SoldAsSum
<1>3. Sold(p) = SumFunctionOnSet(before, T)
  <2>1. Sold(p) = SoldIn(g_orders, p)
    BY DEF Sold, SoldIn
  <2> QED
    BY <1>1, <2>1, SoldAsSum
<1>4. Uncancelled(p) = SumFunctionOnSet(undone, T)
  BY <1>1 DEF Uncancelled, SumFunction
<1>5. IsFiniteSet(S) /\ IsFiniteSet(T)
  BY <1>1, FS_Interval
<1>6. S \in SUBSET T
  BY <1>1, RestartOrdered
<1>7. \A k \in S : now[k] \in Nat /\ now[k] <= before[k] + undone[k]
  <2> SUFFICES ASSUME NEW k \in S PROVE now[k] \in Nat /\ now[k] <= before[k] + undone[k]
    OBVIOUS
  <2>1. k \in T /\ k \in DOMAIN orders_file' /\ g_orders'[k] \in Order
    BY <1>1, RestartOrdered
  <2> QED
    BY <1>1, <2>1, RestartOrdered, OrderedType
<1>8. \A k \in T : before[k] \in Nat /\ undone[k] \in Nat
  <2> SUFFICES ASSUME NEW k \in T PROVE before[k] \in Nat /\ undone[k] \in Nat
    OBVIOUS
  <2>1. g_orders[k] \in Order
    BY <1>1
  <2>2. g_orders[k].quantity \in 1 .. IntMax
    BY <2>1, QuantitiesAssumption DEF Order
  <2>3. g_orders[k].quantity \in Nat
    BY <2>2, IntMaxAssumption
  <2> QED
    BY <1>1, <2>1, <2>3, OrderedType
<1> HIDE DEF S, T, now, before, undone
<1> QED
  BY <1>2, <1>3, <1>4, <1>5, <1>6, <1>7, <1>8, SumAtMost, SumType

\* A stop gives no product more units than it had: not with a stop in the middle of
\* a reservation, a payment, a rollback or the saves of a cancellation, save for the
\* cancellation's own (lines 987, 1035, 1145 and 1261).
THEOREM StopsCreateNoUnits == CrashSpec /\ []UnitsFit => StopCreatesNoUnits
<1> DEFINE NoNewUnits ==
      (StopAndRestart /\ ~missed /\ ~unread /\ ~Writing({"saving_catalogue"}))
        => \A i \in DOMAIN g_products \cap DOMAIN g_products' :
             Units(i)' <= Units(i) + Uncancelled(i)
<1>1. CrashInv /\ CrashInv' /\ ShelfInv /\ OrdersOnFileIfRead => NoNewUnits
  <2> SUFFICES ASSUME CrashInv, CrashInv', ShelfInv, OrdersOnFile, StopAndRestart, Settled,
                      NEW i \in DOMAIN g_products, i \in DOMAIN g_products'
               PROVE  Units(i)' <= Units(i) + Uncancelled(i)
    BY DEF Settled, OrdersOnFileIfRead
  <2>0. g_products' = products_file'
    <3>1. i \notin DOMAIN << >>
      OBVIOUS
    <3> QED
      BY <3>1, RestartLoads
  <2>1. g_products'[i].stock <= g_products[i].stock + Reserved(i)
    <3>1. /\ g_products[i].stock \in Int /\ Reserved(i) \in Nat
          /\ \A w \in Workers : Held(w, i) \in Nat /\ Held(w, i) <= Reserved(i)
      BY UnitsType, ReservedType, HeldType DEF CrashInv, UnitsInv, DeskInv
    <3>2. CASE g_products'[i] = g_products[i]
      BY <3>1, <3>2
    <3>3. CASE i \in DOMAIN products_file /\ g_products' = products_file
      <4>1. Covered(i) /\ products_file[i].stock \in Int
        BY <3>3, ShelfTypes DEF ShelfInv
      <4> QED
        BY <3>1, <3>3, <4>1 DEF Covered
    <3> QED
      BY <2>0, <3>2, <3>3, RestartRow
  <2>2. Reserved(i)' = 0
    <3> DEFINE held == [w \in Workers |-> Held(w, i)']
    <3>1. \A w \in Workers : held[w] \in {0}
      BY DEF StopAndRestart, Held, PaymentSteps
    <3>2. Reserved(i)' = SumFunctionOnSet(held, Workers)
      BY DEF Reserved, SumFunction
    <3> HIDE DEF held
    <3> QED
      BY <3>1, <3>2, SumType, WorkersAssumption
  <2>3. /\ Sold(i)' <= Sold(i) + Uncancelled(i)
        /\ Sold(i)' \in Nat /\ Sold(i) \in Nat /\ Uncancelled(i) \in Nat
    BY RestartSold
  <2>4. /\ g_products[i].stock \in Int /\ Reserved(i) \in Nat /\ g_products'[i].stock \in Int
    BY UnitsType, ShelfTypesAfter DEF CrashInv
  <2> QED
    BY <2>1, <2>2, <2>3, <2>4 DEF Units
<1>2. CrashSpec /\ []UnitsFit => [][NoNewUnits]_crashVars
  <2> HIDE DEF NoNewUnits
  <2> QED
    BY <1>1, CrashInvariance, ShelfInvariance, OrdersOnFileAfterStops, PTL DEF CrashSpec
<1> QED
  BY <1>2 DEF StopCreatesNoUnits

-----------------------------------------------------------------------------
(* The report *)

\* One turn of the loop over the orders, seen from its last row.
SalesTurn(orders, g, s) ==
  IF s = {} THEN NoSales ELSE Sale(g[s \ {Max(s)}], orders[Max(s)])

\* The last row of a part of a table.
LEMMA LastRow ==
  ASSUME NEW n \in Nat, NEW s \in SUBSET (1 .. n), s # {}
  PROVE  Max(s) \in s /\ \A x \in s : Max(s) >= x
<1> DEFINE T == {k \in Nat : \E x \in s : k = n - x}
<1>0. PICK row \in s : row \in 1 .. n
  OBVIOUS
<1>1. T \in SUBSET Nat /\ T # {}
  <2>1. n - row \in Nat
    BY <1>0
  <2>2. n - row \in T
    BY <1>0, <2>1
  <2> QED
    BY <2>2
<1>2. PICK m \in T : m \in Nat /\ \A k \in Nat : k < m => k \notin T
  BY <1>1, LeastNatural
<1>3. PICK x \in s : m = n - x
  BY <1>2
<1>4. \A y \in s : x >= y
  <2> SUFFICES ASSUME NEW y \in s, ~(x >= y) PROVE FALSE
    OBVIOUS
  <2>1. n - y \in T /\ n - y \in Nat
    OBVIOUS
  <2>2. n - y < m
    BY <1>3
  <2> QED
    BY <1>2, <2>1, <2>2
<1>5. \E z \in s : \A y \in s : z >= y
  BY <1>4
<1> QED
  BY <1>5 DEF Max

\* The recursion of the loop has a solution.
LEMMA SalesExist ==
  ASSUME NEW orders \in Seq(Order)
  PROVE  \E g : g = [s \in SUBSET DOMAIN orders |-> SalesTurn(orders, g, s)]
<1> DEFINE S == 1 .. Len(orders)
           Good(n) == \E g : \A s \in SUBSET S :
                        Cardinality(s) <= n => g[s] = SalesTurn(orders, g, s)
<1>0. IsFiniteSet(S) /\ DOMAIN orders = S /\ Len(orders) \in Nat
  BY FS_Interval
<1> HIDE DEF S
<1>1. Good(0)
  <2> DEFINE g == [s \in SUBSET S |-> NoSales]
  <2>1. \A s \in SUBSET S : Cardinality(s) <= 0 => g[s] = SalesTurn(orders, g, s)
    BY <1>0, SmallerSets DEF SalesTurn
  <2> QED
    BY <2>1
<1>2. ASSUME NEW n \in Nat, Good(n) PROVE Good(n + 1)
  <2> PICK g : \A s \in SUBSET S : Cardinality(s) <= n => g[s] = SalesTurn(orders, g, s)
    BY <1>2
  <2> DEFINE h == [s \in SUBSET S |->
                     IF Cardinality(s) <= n THEN g[s] ELSE SalesTurn(orders, g, s)]
  <2>1. ASSUME NEW s \in SUBSET S, Cardinality(s) <= n + 1 PROVE h[s] = SalesTurn(orders, g, s)
    BY <2>1
  <2>2. ASSUME NEW s \in SUBSET S, Cardinality(s) <= n + 1, s # {}
        PROVE  h[s \ {Max(s)}] = g[s \ {Max(s)}]
    <3>0. Max(s) \in s
      BY <1>0, <2>2, LastRow DEF S
    <3>1. s \ {Max(s)} \in SUBSET S /\ Cardinality(s \ {Max(s)}) = Cardinality(s) - 1
          /\ Cardinality(s) \in Nat
      BY <1>0, <2>2, <3>0, SmallerSets
    <3> QED
      BY <2>2, <3>1
  <2>3. \A s \in SUBSET S : Cardinality(s) <= n + 1 => h[s] = SalesTurn(orders, h, s)
    BY <2>1, <2>2 DEF SalesTurn
  <2> QED
    BY <2>3
<1> HIDE DEF Good
<1>3. \A n \in Nat : Good(n)
  <2> DEFINE T == {n \in Nat : ~Good(n)}
  <2>1. SUFFICES ASSUME T # {} PROVE FALSE
    OBVIOUS
  <2>2. PICK m \in T : m \in Nat /\ \A n \in Nat : n < m => n \notin T
    BY <2>1, LeastNatural
  <2>3. m # 0
    BY <1>1
  <2>4. m - 1 \in Nat /\ Good(m - 1)
    BY <2>2, <2>3
  <2> QED
    BY <1>2, <2>4
<1>4. PICK g : \A s \in SUBSET S : g[s] = SalesTurn(orders, g, s)
  <2>1. Good(Cardinality(S))
    BY <1>0, <1>3, FS_CardinalityType
  <2> QED
    BY <1>0, <2>1, SmallerSets DEF Good
<1> DEFINE sum == [s \in SUBSET S |-> g[s]]
<1>5. ASSUME NEW s \in SUBSET S PROVE sum[s] = SalesTurn(orders, sum, s)
  <2>1. s # {} => s \ {Max(s)} \in SUBSET S
    OBVIOUS
  <2> QED
    BY <1>4, <2>1 DEF SalesTurn
<1>6. sum = [s \in SUBSET S |-> SalesTurn(orders, sum, s)]
  BY <1>5
<1> QED
  BY <1>0, <1>6

\* The loop goes over the rows in turn: what it has after k of them.
LEMMA SalesLoop ==
  ASSUME NEW orders \in Seq(Order)
  PROVE  \E run : /\ FoldLeft(Sale, NoSales, orders) = run[Len(orders)]
                  /\ run[0] = NoSales
                  /\ \A k \in 1 .. Len(orders) : run[k] = Sale(run[k - 1], orders[k])
<1> DEFINE S == DOMAIN orders
           n == Len(orders)
           g == CHOOSE g : g = [s \in SUBSET S |-> SalesTurn(orders, g, s)]
           run == [k \in 0 .. n |-> g[1 .. k]]
<1>0. S = 1 .. n /\ n \in Nat
  OBVIOUS
<1>1. g = [s \in SUBSET S |-> SalesTurn(orders, g, s)]
  BY SalesExist
<1>2. FoldLeft(Sale, NoSales, orders) = g[S]
  BY DEF FoldLeft, MapThenFoldSet, SalesTurn
<1> HIDE DEF g
<1>3. run[0] = NoSales
  BY <1>0, <1>1 DEF SalesTurn
<1>4. ASSUME NEW k \in 1 .. n PROVE run[k] = Sale(run[k - 1], orders[k])
  <2>1. (1 .. k) \in SUBSET S /\ 1 .. k # {}
    <3>1. k \in Nat /\ k <= n /\ 1 <= k
      BY <1>0
    <3>2. 1 .. k \subseteq 1 .. n
      BY <1>0, <3>1
    <3>3. 1 \in 1 .. k
      BY <3>1
    <3> QED
      BY <1>0, <3>2, <3>3
  <2>2. Max(1 .. k) = k
    <3>1. Max(1 .. k) \in 1 .. k /\ \A x \in 1 .. k : Max(1 .. k) >= x
      BY <1>0, <2>1, LastRow
    <3> QED
      BY <3>1
  <2>3. (1 .. k) \ {k} = 1 .. (k - 1)
    BY <1>0
  <2>4. g[1 .. k] = Sale(g[1 .. (k - 1)], orders[k])
    BY <1>1, <2>1, <2>2, <2>3 DEF SalesTurn
  <2>5. k \in 0 .. n /\ k - 1 \in 0 .. n
    BY <1>0
  <2> QED
    BY <2>4, <2>5
<1>5. FoldLeft(Sale, NoSales, orders) = run[n]
  BY <1>0, <1>2
<1> HIDE DEF run
<1> QED
  BY <1>3, <1>4, <1>5

-----------------------------------------------------------------------------
(* Sums of sums *)

\* The sum of two functions.
LEMMA SumPlus ==
  ASSUME NEW S, IsFiniteSet(S), NEW f, NEW g, NEW h,
         \A x \in S : f[x] \in Int /\ g[x] \in Int /\ h[x] = f[x] + g[x]
  PROVE  SumFunctionOnSet(h, S) = SumFunctionOnSet(f, S) + SumFunctionOnSet(g, S)
<1> DEFINE F(T) == SumFunctionOnSet(f, T)
           G(T) == SumFunctionOnSet(g, T)
           H(T) == SumFunctionOnSet(h, T)
           Good(T) == H(T) = F(T) + G(T)
           Bad == {n \in Nat : \E T \in SUBSET S : Cardinality(T) = n /\ ~Good(T)}
<1>1. SUFFICES ASSUME ~Good(S) PROVE FALSE
  OBVIOUS
<1>2. \A T \in SUBSET S : IsFiniteSet(T) /\ F(T) \in Int /\ G(T) \in Int
  <2> SUFFICES ASSUME NEW T \in SUBSET S PROVE IsFiniteSet(T) /\ F(T) \in Int /\ G(T) \in Int
    OBVIOUS
  <2>1. IsFiniteSet(T)
    BY FS_Subset
  <2>2. F(T) \in Int
    BY <2>1, SumType
  <2>3. G(T) \in Int
    BY <2>1, SumType
  <2> QED
    BY <2>1, <2>2, <2>3
<1>3. Good({})
  <2>1. F({}) = 0 /\ G({}) = 0 /\ H({}) = 0
    BY SumTurn, FS_EmptySet
  <2> QED
    BY <2>1
<1>4. ASSUME NEW T \in SUBSET S, NEW x \in T
      PROVE  /\ F(T) = f[x] + F(T \ {x})
             /\ G(T) = g[x] + G(T \ {x})
             /\ H(T) = h[x] + H(T \ {x})
  <2>0. IsFiniteSet(T) /\ \A y \in T : h[y] \in Int
    BY <1>2
  <2>1. F(T) = f[x] + F(T \ {x})
    BY <2>0, SumRemove
  <2>2. G(T) = g[x] + G(T \ {x})
    BY <2>0, SumRemove
  <2>3. H(T) = h[x] + H(T \ {x})
    BY <2>0, SumRemove
  <2> QED
    BY <2>1, <2>2, <2>3
<1> HIDE DEF F, G, H
<1>5. Cardinality(S) \in Bad
  BY <1>1, FS_CardinalityType
<1>6. PICK n \in Bad : n \in Nat /\ \A m \in Nat : m < n => m \notin Bad
  BY <1>5, LeastNatural
<1>7. PICK T \in SUBSET S : Cardinality(T) = n /\ ~Good(T)
  BY <1>6
<1>8. PICK x \in T : TRUE
  BY <1>3, <1>7
<1> DEFINE t == T \ {x}
<1>9. t \in SUBSET S /\ Cardinality(t) = n - 1 /\ Cardinality(t) \in Nat
  BY <1>7, <1>8, SmallerSets
<1>10. /\ F(T) = f[x] + F(t) /\ G(T) = g[x] + G(t) /\ H(T) = h[x] + H(t)
       /\ f[x] \in Int /\ g[x] \in Int /\ h[x] = f[x] + g[x]
  BY <1>4, <1>7, <1>8
<1> HIDE DEF t
<1>11. Cardinality(t) \notin Bad
  BY <1>6, <1>9
<1>12. Good(t) /\ F(t) \in Int /\ G(t) \in Int
  BY <1>2, <1>9, <1>11
<1> QED
  BY <1>7, <1>10, <1>12

\* Larger terms, larger sum.
LEMMA SumMonotonic ==
  ASSUME NEW S, IsFiniteSet(S), NEW f, NEW g,
         \A x \in S : f[x] \in Int /\ g[x] \in Int /\ f[x] <= g[x]
  PROVE  SumFunctionOnSet(f, S) <= SumFunctionOnSet(g, S)
<1> DEFINE d == [x \in S |-> g[x] - f[x]]
<1>1. \A x \in S : f[x] \in Int /\ d[x] \in Int /\ d[x] \in Nat /\ g[x] = f[x] + d[x]
  OBVIOUS
<1> HIDE DEF d
<1>2. SumFunctionOnSet(g, S) = SumFunctionOnSet(f, S) + SumFunctionOnSet(d, S)
  BY <1>1, SumPlus
<1>3. SumFunctionOnSet(f, S) \in Int
  BY SumType
<1>4. SumFunctionOnSet(d, S) \in Nat
  BY <1>1, SumType
<1> QED
  BY <1>2, <1>3, <1>4

\* The sum of the terms of one class, of every class, and of all that have a class.
ClassSum(S, class, q, c) == SumFunctionOnSet([x \in S |-> If(class[x] = c, q[x])], S)
ClassSums(S, C, class, q) == SumFunctionOnSet([c \in C |-> ClassSum(S, class, q, c)], C)
ClassedSum(S, C, class, q) == SumFunctionOnSet([x \in S |-> If(class[x] \in C, q[x])], S)

\* Terms sorted into classes: the sums of the classes, put together, are the sum of
\* the terms that belong to one of them.
LEMMA SumByClass ==
  ASSUME NEW S, IsFiniteSet(S), NEW C, IsFiniteSet(C), NEW class,
         NEW q, \A x \in S : q[x] \in Int
  PROVE  ClassSums(S, C, class, q) = ClassedSum(S, C, class, q)
<1> DEFINE Of(c) == [x \in S |-> If(class[x] = c, q[x])]
           All == [x \in S |-> If(class[x] \in C, q[x])]
           In(T, c) == SumFunctionOnSet(Of(c), T)
           Row(T) == [c \in C |-> In(T, c)]
           Good(T) == SumFunctionOnSet(Row(T), C) = SumFunctionOnSet(All, T)
           Bad == {n \in Nat : \E T \in SUBSET S : Cardinality(T) = n /\ ~Good(T)}
<1>1. SUFFICES ASSUME ~Good(S) PROVE FALSE
  BY DEF ClassSums, ClassSum, ClassedSum
<1>2. \A x \in S : All[x] \in Int /\ \A c : Of(c)[x] \in Int
  BY DEF If
<1>3. ASSUME NEW T \in SUBSET S
      PROVE  IsFiniteSet(T) /\ SumFunctionOnSet(All, T) \in Int /\ \A c : In(T, c) \in Int
  <2>1. IsFiniteSet(T)
    BY FS_Subset
  <2>2. SumFunctionOnSet(All, T) \in Int
    BY <1>2, <2>1, SumType
  <2>3. ASSUME NEW c PROVE In(T, c) \in Int
    BY <1>2, <2>1, SumType
  <2> QED
    BY <2>1, <2>2, <2>3
<1>4. Good({})
  <2>1. SumFunctionOnSet(All, {}) = 0 /\ \A c : In({}, c) = 0
    BY SumTurn, FS_EmptySet
  <2> HIDE DEF In, All
  <2>2. \A c \in C : Row({})[c] \in {0}
    BY <2>1
  <2> HIDE DEF Row
  <2>3. SumFunctionOnSet(Row({}), C) \in {0}
    BY <2>2, SumType
  <2> QED
    BY <2>1, <2>3
<1>5. Cardinality(S) \in Bad
  BY <1>1, FS_CardinalityType
<1>6. PICK n \in Bad : n \in Nat /\ \A m \in Nat : m < n => m \notin Bad
  BY <1>5, LeastNatural
<1>7. PICK T \in SUBSET S : Cardinality(T) = n /\ ~Good(T)
  BY <1>6
<1>8. PICK x \in T : TRUE
  BY <1>4, <1>7
<1> DEFINE t == T \ {x}
<1>9. t \in SUBSET S /\ Cardinality(t) = n - 1 /\ Cardinality(t) \in Nat /\ x \in S
  BY <1>7, <1>8, SmallerSets
<1>10. SumFunctionOnSet(All, T) = All[x] + SumFunctionOnSet(All, t)
  <2> HIDE DEF All
  <2> QED
    BY <1>2, <1>3, <1>8, SumRemove
<1>11. ASSUME NEW c PROVE In(T, c) = Of(c)[x] + In(t, c)
  <2>1. \A y \in T : Of(c)[y] \in Int
    BY <1>2
  <2> HIDE DEF Of
  <2> QED
    BY <1>3, <1>8, <2>1, SumRemove
<1>12. Good(t)
  <2> HIDE DEF t, Good
  <2>1. Cardinality(t) \notin Bad
    BY <1>6, <1>9
  <2> QED
    BY <1>9, <2>1
<1>13. /\ All[x] = If(class[x] \in C, q[x]) /\ q[x] \in Int
       /\ \A c : Of(c)[x] = If(class[x] = c, q[x])
  BY <1>9
<1>14. \A c \in C : Row(T)[c] \in Int /\ Row(t)[c] \in Int
  BY <1>3, <1>9
<1>15. SumFunctionOnSet(All, t) \in Int
  BY <1>3, <1>9
<1> HIDE DEF t, All, Of, In
<1> DEFINE k == class[x]
<1> HIDE DEF k
<1>30. ASSUME NEW c PROVE In(T, c) = If(k = c, q[x]) + In(t, c) /\ In(t, c) \in Int
  BY <1>3, <1>9, <1>11, <1>13 DEF k
<1>31. ASSUME NEW c, c # k PROVE In(T, c) = In(t, c)
  BY <1>30, <1>31 DEF If
<1>16. CASE k \in C
  <2>1. \A c \in C \ {k} : Row(T)[c] = Row(t)[c]
    BY <1>31
  <2>2. Row(T)[k] = q[x] + Row(t)[k]
    BY <1>16, <1>30 DEF If
  <2> HIDE DEF Row
  <2>3. SumFunctionOnSet(Row(T), C) =
          SumFunctionOnSet(Row(t), C) - Row(t)[k] + Row(T)[k]
    BY <1>14, <1>16, <2>1, SumChange
  <2>4. SumFunctionOnSet(Row(t), C) \in Int
    BY <1>14, SumType
  <2>5. All[x] = q[x]
    BY <1>13, <1>16 DEF If, k
  <2>6. Row(t)[k] \in Int
    BY <1>14, <1>16
  <2> QED
    BY <1>7, <1>10, <1>12, <1>13, <1>15, <2>2, <2>3, <2>4, <2>5, <2>6
<1>17. CASE k \notin C
  <2>1. \A c \in C : Row(T)[c] = Row(t)[c]
    BY <1>17, <1>31
  <2> HIDE DEF Row
  <2>2. SumFunctionOnSet(Row(T), C) = SumFunctionOnSet(Row(t), C)
    BY <2>1, SumCongruent
  <2>3. All[x] = 0
    BY <1>13, <1>17 DEF If, k
  <2> QED
    BY <1>7, <1>10, <1>12, <1>15, <2>2, <2>3
<1> QED
  BY <1>16, <1>17

\* Counting is adding ones.
LEMMA CountAsSum ==
  ASSUME NEW S, IsFiniteSet(S), NEW P \in SUBSET S
  PROVE  Cardinality(P) = SumFunctionOnSet([x \in S |-> If(x \in P, 1)], S)
<1> DEFINE f == [x \in S |-> If(x \in P, 1)]
           Sum(T) == SumFunctionOnSet(f, T)
           Good(T) == Cardinality(P \cap T) = Sum(T)
           Bad == {n \in Nat : \E T \in SUBSET S : Cardinality(T) = n /\ ~Good(T)}
<1>0. P \cap S = P
  OBVIOUS
<1>1. SUFFICES ASSUME ~Good(S) PROVE FALSE
  BY <1>0
<1>2. \A x \in S : f[x] = If(x \in P, 1) /\ f[x] \in Int
  BY DEF If
<1> HIDE DEF f
<1>3. \A T \in SUBSET S : IsFiniteSet(T) /\ Sum(T) \in Int
  BY <1>2, FS_Subset, SumType
<1>4. Good({})
  <2>1. P \cap {} = {}
    OBVIOUS
  <2> QED
    BY <2>1, SumTurn, FS_EmptySet
<1>5. Cardinality(S) \in Bad
  BY <1>1, FS_CardinalityType
<1>6. PICK n \in Bad : n \in Nat /\ \A m \in Nat : m < n => m \notin Bad
  BY <1>5, LeastNatural
<1>7. PICK T \in SUBSET S : Cardinality(T) = n /\ ~Good(T)
  BY <1>6
<1>8. PICK x \in T : TRUE
  BY <1>4, <1>7
<1> DEFINE t == T \ {x}
<1>9. t \in SUBSET S /\ Cardinality(t) = n - 1 /\ Cardinality(t) \in Nat
  BY <1>7, <1>8, SmallerSets
<1>10. Sum(T) = f[x] + Sum(t)
  BY <1>2, <1>3, <1>8, SumRemove
<1>11. IsFiniteSet(P \cap T) /\ Cardinality(P \cap T) \in Nat
  BY <1>3, FS_Subset, FS_CardinalityType
<1>12. Cardinality(P \cap t) = Cardinality(P \cap T) - If(x \in P, 1)
  <2>1. CASE x \in P
    <3>1. P \cap t = (P \cap T) \ {x} /\ x \in P \cap T
      BY <1>8, <2>1
    <3>2. Cardinality((P \cap T) \ {x}) = Cardinality(P \cap T) - 1
      BY <1>11, <3>1, FS_RemoveElement
    <3> QED
      BY <2>1, <3>1, <3>2 DEF If
  <2>2. CASE x \notin P
    <3>1. P \cap t = P \cap T
      BY <2>2
    <3> QED
      BY <1>11, <2>2, <3>1 DEF If
  <2> QED
    BY <2>1, <2>2
<1> HIDE DEF t, Sum
<1>13. Good(t) /\ Sum(t) \in Int
  <2>1. Cardinality(t) \notin Bad
    BY <1>6, <1>9
  <2> QED
    BY <1>3, <1>9, <2>1
<1>14. f[x] = If(x \in P, 1) /\ If(x \in P, 1) \in Int
  BY <1>2, <1>8
<1> QED
  BY <1>7, <1>10, <1>11, <1>12, <1>13, <1>14

-----------------------------------------------------------------------------
(* What the report adds up *)

KeptUnits(orders) ==
  [k \in 1 .. Len(orders) |-> If(orders[k].order_status # "CANCELLED", orders[k].quantity)]
HandedUnits(orders) ==
  [k \in 1 .. Len(orders) |-> If(orders[k].order_status = "DELIVERED", orders[k].quantity)]
Sum(f, n) == SumFunctionOnSet(f, 1 .. n)

\* What the report knows after k rows.
AddedUp(orders, r, k) ==
  /\ r \in [total : Nat, delivered : Nat, cancelled : Nat,
            gross : Nat, collected : Nat, pending : Nat]
  /\ r.total = k
  /\ r.gross = Sum(KeptUnits(orders), k)
  /\ r.gross = r.collected + r.pending
  /\ r.collected >= Sum(HandedUnits(orders), k)

\* A sum over a row more.
LEMMA SumRow ==
  ASSUME NEW n \in Nat, NEW f, NEW k \in 1 .. n, \A i \in 1 .. n : f[i] \in Nat
  PROVE  Sum(f, k) = f[k] + Sum(f, k - 1) /\ Sum(f, k - 1) \in Nat
<1> DEFINE S == 1 .. k
<1>1. IsFiniteSet(S) /\ k \in S /\ S \subseteq 1 .. n /\ S \ {k} = 1 .. (k - 1)
  BY FS_Interval
<1>2. IsFiniteSet(1 .. (k - 1)) /\ 1 .. (k - 1) \subseteq 1 .. n
  BY FS_Interval
<1>3. Sum(f, k - 1) \in Nat
  BY <1>2, SumType DEF Sum
<1> HIDE DEF S
<1>4. SumFunctionOnSet(f, S) = f[k] + SumFunctionOnSet(f, S \ {k})
  BY <1>1, SumRemove
<1> QED
  BY <1>1, <1>3, <1>4 DEF Sum, S

\* One row: a cancelled order is counted only; of any other one the payment column,
\* which fits the status, says whether it has been paid or is to be paid.
LEMMA SaleAddsUp ==
  ASSUME NEW orders \in Seq(Order), PaymentsFit(orders), NEW k \in 1 .. Len(orders),
         NEW r, AddedUp(orders, r, k - 1)
  PROVE  AddedUp(orders, Sale(r, orders[k]), k)
<1> DEFINE o == orders[k]
           q == o.quantity
           n == Len(orders)
<1>0. Quantities \subseteq Nat
  BY QuantitiesAssumption, IntMaxAssumption
<1>1. o \in Order /\ q \in Nat /\ k \in Nat /\ k - 1 \in Nat /\ n \in Nat
  <2>1. orders[k] \in Order
    OBVIOUS
  <2>2. orders[k].quantity \in Quantities
    BY <2>1 DEF Order
  <2>3. k \in Nat /\ k - 1 \in Nat /\ n \in Nat
    OBVIOUS
  <2> QED
    BY <1>0, <2>1, <2>2, <2>3
<1>2. ASSUME NEW i \in 1 .. n PROVE KeptUnits(orders)[i] \in Nat /\ HandedUnits(orders)[i] \in Nat
  <2>0. orders[i] \in Order
    OBVIOUS
  <2>1. orders[i].quantity \in Nat
    BY <1>0, <2>0 DEF Order
  <2> QED
    BY <2>1 DEF KeptUnits, HandedUnits, If
<1>3. /\ KeptUnits(orders)[k] = If(o.order_status # "CANCELLED", q)
      /\ HandedUnits(orders)[k] = If(o.order_status = "DELIVERED", q)
  BY DEF KeptUnits, HandedUnits
<1>4. /\ o.order_status # "CANCELLED" => o.payment_status \in {"PAID", "PENDING"}
      /\ o.order_status = "DELIVERED" => o.payment_status = "PAID"
  BY <1>1 DEF PaymentsFit, PaymentFits
<1> DEFINE f == KeptUnits(orders)
           g == HandedUnits(orders)
<1> HIDE DEF f, g
<1>5. Sum(f, k) = f[k] + Sum(f, k - 1) /\ Sum(f, k - 1) \in Nat
  BY <1>1, <1>2, SumRow DEF f
<1>6. Sum(g, k) = g[k] + Sum(g, k - 1) /\ Sum(g, k - 1) \in Nat
  BY <1>1, <1>2, SumRow DEF g
<1> DEFINE new == Sale(r, o)
<1>7. /\ r \in [total : Nat, delivered : Nat, cancelled : Nat,
                gross : Nat, collected : Nat, pending : Nat]
      /\ r.total = k - 1 /\ r.gross = Sum(f, k - 1)
      /\ r.gross = r.collected + r.pending /\ r.collected >= Sum(g, k - 1)
  BY DEF AddedUp, f, g
<1> HIDE DEF o, q
<1>8. CASE o.order_status = "CANCELLED"
  <2>1. f[k] = 0 /\ g[k] = 0
    BY <1>3, <1>8 DEF If, f, g
  <2>2. new = [r EXCEPT !.total = r.total + 1, !.cancelled = r.cancelled + 1]
    BY <1>8 DEF Sale
  <2>3. /\ new \in [total : Nat, delivered : Nat, cancelled : Nat,
                    gross : Nat, collected : Nat, pending : Nat]
        /\ new.total = r.total + 1 /\ new.gross = r.gross
        /\ new.collected = r.collected /\ new.pending = r.pending
    <3>1. r.total + 1 \in Nat /\ r.cancelled + 1 \in Nat
      BY <1>7
    <3> QED
      BY <1>7, <2>2, <3>1
  <2> QED
    BY <1>1, <1>5, <1>6, <1>7, <2>1, <2>3 DEF AddedUp, f, g, o
<1>9. CASE o.order_status # "CANCELLED"
  <2> DEFINE paid == If(o.payment_status = "PAID", q)
             owed == If(o.payment_status = "PENDING", q)
             more == If(o.order_status = "DELIVERED", 1)
  <2>1. f[k] = q
    BY <1>3, <1>9 DEF If, f
  <2>2. /\ paid \in Nat /\ owed \in Nat /\ more \in Nat
        /\ paid + owed = q /\ q \in Nat
        /\ g[k] <= paid /\ g[k] \in Nat
    BY <1>1, <1>3, <1>4, <1>9 DEF If, g, q
  <2>3. new = [r EXCEPT !.total = r.total + 1, !.gross = r.gross + q,
                        !.delivered = r.delivered + more,
                        !.collected = r.collected + paid,
                        !.pending = r.pending + owed]
    BY <1>9 DEF Sale, q
  <2> HIDE DEF paid, owed, more, new
  <2>4. /\ new \in [total : Nat, delivered : Nat, cancelled : Nat,
                    gross : Nat, collected : Nat, pending : Nat]
        /\ new.total = r.total + 1 /\ new.gross = r.gross + q
        /\ new.collected = r.collected + paid /\ new.pending = r.pending + owed
    <3>1. /\ r.total + 1 \in Nat /\ r.gross + q \in Nat /\ r.delivered + more \in Nat
          /\ r.collected + paid \in Nat /\ r.pending + owed \in Nat
      <4>1. /\ r.total \in Nat /\ r.gross \in Nat /\ r.delivered \in Nat
            /\ r.collected \in Nat /\ r.pending \in Nat
        BY <1>7
      <4>2. \A a, b \in Nat : a + b \in Nat
        OBVIOUS
      <4>3. paid \in Nat /\ owed \in Nat /\ more \in Nat /\ q \in Nat /\ 1 \in Nat
        BY <2>2
      <4> QED
        BY <4>1, <4>2, <4>3
    <3> QED
      BY <1>7, <2>3, <3>1
  <2>5. r.collected \in Nat /\ r.pending \in Nat /\ r.total \in Nat /\ r.gross \in Nat
    BY <1>7
  <2>6. /\ new.total = k
        /\ new.gross = Sum(f, k)
        /\ new.gross = new.collected + new.pending
        /\ new.collected >= Sum(g, k)
    <3>1. new.total = k
      BY <1>1, <1>7, <2>4
    <3>2. new.gross = Sum(f, k)
      BY <1>5, <1>7, <2>1, <2>2, <2>4
    <3>3. /\ r.gross = r.collected + r.pending
          /\ r.collected >= Sum(g, k - 1)
          /\ new.gross = r.gross + q
          /\ new.collected = r.collected + paid /\ new.pending = r.pending + owed
      BY <1>7, <2>4
    <3>4. new.gross = new.collected + new.pending
      BY <2>2, <2>5, <3>3
    <3>5. new.collected >= Sum(g, k)
      BY <1>6, <2>2, <2>5, <3>3
    <3> QED
      BY <3>1, <3>2, <3>4, <3>5
  <2> QED
    BY <2>4, <2>6 DEF AddedUp, f, g, o, new
<1> QED
  BY <1>8, <1>9

\* The whole loop.
LEMMA SalesAddUp ==
  ASSUME NEW orders \in Seq(Order), PaymentsFit(orders)
  PROVE  AddedUp(orders, FoldLeft(Sale, NoSales, orders), Len(orders))
<1> DEFINE n == Len(orders)
<1>1. PICK run : /\ FoldLeft(Sale, NoSales, orders) = run[n]
                 /\ run[0] = NoSales
                 /\ \A k \in 1 .. n : run[k] = Sale(run[k - 1], orders[k])
  BY SalesLoop
<1> DEFINE Bad == {k \in Nat : k <= n /\ ~AddedUp(orders, run[k], k)}
<1>2. SUFFICES ASSUME ~AddedUp(orders, run[n], n) PROVE FALSE
  BY <1>1
<1>3. n \in Bad
  BY <1>2
<1>4. PICK k \in Bad : k \in Nat /\ \A m \in Nat : m < k => m \notin Bad
  BY <1>3, LeastNatural
<1>5. k # 0
  <2>1. \A f : Sum(f, 0) = 0
    <3>1. 1 .. 0 = {}
      OBVIOUS
    <3> QED
      BY <3>1, SumTurn, FS_EmptySet DEF Sum
  <2>2. AddedUp(orders, NoSales, 0)
    BY <2>1 DEF AddedUp, NoSales
  <2> QED
    BY <1>1, <1>4, <2>2
<1>6. k \in 1 .. n /\ k - 1 \in Nat /\ k - 1 < k /\ k - 1 <= n
  BY <1>4, <1>5
<1>7. AddedUp(orders, run[k - 1], k - 1)
  BY <1>4, <1>6
<1>8. AddedUp(orders, run[k], k)
  BY <1>1, <1>6, <1>7, SaleAddsUp
<1> QED
  BY <1>4, <1>8

\* The rows of all customers together are the table: every order has its customer.
LEMMA RowsOfCustomers ==
  ASSUME g_orders \in Seq(Order)
  PROVE  Len(g_orders) = SumFunction([c \in Customers |-> Cardinality(MyOrders(c))])
<1> DEFINE K == 1 .. Len(g_orders)
           class == [k \in K |-> g_orders[k].username]
           one == [k \in K |-> 1]
           rows == [c \in Customers |-> Cardinality(MyOrders(c))]
           counts == [c \in Customers |->
                        SumFunctionOnSet([k \in K |-> If(class[k] = c, one[k])], K)]
           all == [k \in K |-> If(class[k] \in Customers, one[k])]
           every == [k \in K |-> If(k \in K, 1)]
<1>1. IsFiniteSet(K) /\ Cardinality(K) = Len(g_orders) /\ DOMAIN g_orders = K
  <2>1. 1 \in Int /\ Len(g_orders) \in Nat
    OBVIOUS
  <2>2. /\ IsFiniteSet(1 .. Len(g_orders))
        /\ Cardinality(1 .. Len(g_orders)) =
             IF 1 > Len(g_orders) THEN 0 ELSE Len(g_orders) - 1 + 1
    BY <2>1, FS_Interval
  <2> QED
    BY <2>1, <2>2
<1>2. \A k \in K : class[k] = g_orders[k].username /\ one[k] = 1 /\ class[k] \in Customers
  <2> SUFFICES ASSUME NEW k \in K
               PROVE  class[k] = g_orders[k].username /\ one[k] = 1 /\ class[k] \in Customers
    OBVIOUS
  <2>1. g_orders[k] \in Order
    OBVIOUS
  <2> QED
    BY <2>1 DEF Order
<1> HIDE DEF K, class, one
<1>3. ASSUME NEW c \in Customers PROVE rows[c] = counts[c]
  <2> DEFINE f == [k \in K |-> If(k \in MyOrders(c), 1)]
             g == [k \in K |-> If(class[k] = c, one[k])]
  <2>1. MyOrders(c) \in SUBSET K
    BY <1>1 DEF MyOrders
  <2>2. Cardinality(MyOrders(c)) = SumFunctionOnSet(f, K)
    BY <1>1, <2>1, CountAsSum
  <2>3. \A k \in K : f[k] = g[k]
    BY <1>1, <1>2 DEF MyOrders, If
  <2> HIDE DEF f, g
  <2>4. SumFunctionOnSet(f, K) = SumFunctionOnSet(g, K)
    BY <1>1, <2>3, SumCongruent
  <2> QED
    BY <2>2, <2>4 DEF g
<1>4. SumFunctionOnSet(counts, Customers) = SumFunctionOnSet(all, K)
  <2>1. ClassSums(K, Customers, class, one) = ClassedSum(K, Customers, class, one)
    <3>1. \A k \in K : one[k] \in Int
      BY <1>2
    <3> QED
      BY <1>1, <3>1, CustomersAssumption, SumByClass
  <2> QED
    BY <2>1 DEF ClassSums, ClassSum, ClassedSum
<1>5. \A k \in K : all[k] = every[k]
  BY <1>2 DEF If
<1>6. Cardinality(K) = SumFunctionOnSet(every, K)
  BY <1>1, CountAsSum
<1>7. SumFunction(rows) = SumFunctionOnSet(rows, Customers)
  BY DEF SumFunction
<1> HIDE DEF rows, counts, all, every
<1>8. SumFunctionOnSet(rows, Customers) = SumFunctionOnSet(counts, Customers)
  BY <1>3, CustomersAssumption, SumCongruent
<1>9. SumFunctionOnSet(all, K) = SumFunctionOnSet(every, K)
  BY <1>1, <1>5, SumCongruent
<1> QED
  BY <1>1, <1>4, <1>6, <1>7, <1>8, <1>9 DEF rows

\* What was sold of the products of the catalogue is part of what was sold.
LEMMA SoldIsKept ==
  ASSUME g_orders \in Seq(Order), NEW D, IsFiniteSet(D)
  PROVE  SumFunctionOnSet([i \in D |-> Sold(i)], D) <= Sum(KeptUnits(g_orders), Len(g_orders))
<1> DEFINE K == 1 .. Len(g_orders)
           class == [k \in K |-> g_orders[k].product_id]
           q == KeptUnits(g_orders)
           sold == [i \in D |-> Sold(i)]
           counts == [i \in D |-> SumFunctionOnSet([k \in K |-> If(class[k] = i, q[k])], K)]
           all == [k \in K |-> If(class[k] \in D, q[k])]
<1>1. IsFiniteSet(K) /\ DOMAIN g_orders = K
  BY FS_Interval
<1>2. ASSUME NEW k \in K
      PROVE  /\ class[k] = g_orders[k].product_id
             /\ q[k] = If(g_orders[k].order_status # "CANCELLED", g_orders[k].quantity)
             /\ q[k] \in Nat
  <2>1. g_orders[k].quantity \in Nat
    <3>1. g_orders[k] \in Order
      OBVIOUS
    <3>2. Quantities \subseteq Nat
      BY QuantitiesAssumption, IntMaxAssumption
    <3> QED
      BY <3>1, <3>2 DEF Order
  <2> QED
    BY <2>1 DEF KeptUnits, If
<1>3. SumFunctionOnSet(q, K) = Sum(KeptUnits(g_orders), Len(g_orders))
  BY DEF Sum
<1> HIDE DEF K, class, q
<1>4. ASSUME NEW i \in D PROVE sold[i] = counts[i]
  <2> DEFINE f == [k \in K |-> Ordered(g_orders[k], i)]
             g == [k \in K |-> If(class[k] = i, q[k])]
  <2>1. Sold(i) = SumFunctionOnSet(f, K)
    BY <1>1 DEF Sold, SumFunction
  <2>2. \A k \in K : f[k] = g[k]
    BY <1>2 DEF Ordered, If
  <2> HIDE DEF f, g
  <2>3. SumFunctionOnSet(f, K) = SumFunctionOnSet(g, K)
    BY <1>1, <2>2, SumCongruent
  <2> QED
    BY <2>1, <2>3 DEF g
<1>5. SumFunctionOnSet(counts, D) = SumFunctionOnSet(all, K)
  <2>1. ClassSums(K, D, class, q) = ClassedSum(K, D, class, q)
    <3>1. \A k \in K : q[k] \in Int
      BY <1>2
    <3> QED
      BY <1>1, <3>1, SumByClass
  <2> QED
    BY <2>1 DEF ClassSums, ClassSum, ClassedSum
<1>6. \A k \in K : all[k] \in Int /\ q[k] \in Int /\ all[k] <= q[k]
  BY <1>2 DEF If
<1> HIDE DEF sold, counts, all
<1>7. SumFunctionOnSet(sold, D) = SumFunctionOnSet(counts, D)
  BY <1>4, SumCongruent
<1>8. SumFunctionOnSet(all, K) <= SumFunctionOnSet(q, K)
  BY <1>1, <1>6, SumMonotonic
<1> QED
  BY <1>3, <1>5, <1>7, <1>8 DEF sold

\* Any state with its types whose payments fit its orders has a report that balances.
LEMMA Balanced ==
  ASSUME TypeInv, PaymentsInv
  PROVE  ReportBalances
<1> DEFINE D == DOMAIN g_products
           n == Len(g_orders)
           gross == Sum(KeptUnits(g_orders), n)
           stock == [i \in D |-> g_products[i].stock]
           sold == [i \in D |-> Sold(i)]
           units == [i \in D |-> Units(i) - Reserved(i)]
           handed == [i \in DOMAIN g_orders |->
             If(g_orders[i].order_status = "DELIVERED", g_orders[i].quantity)]
<1>0. g_orders \in Seq(Order) /\ g_products \in Seq(Product)
  BY DEF TypeInv, TypeOK
<1>1. AddedUp(g_orders, Sales, n)
  BY <1>0, SalesAddUp DEF Sales, PaymentsInv
<1>2. /\ Sales.total = n /\ Sales.gross = gross /\ Sales.gross \in Nat
      /\ Sales.gross = Sales.collected + Sales.pending
      /\ Sales.collected >= Sum(HandedUnits(g_orders), n)
  BY <1>1 DEF AddedUp
<1>3. Sales.total = SumFunction([c \in Customers |-> Cardinality(MyOrders(c))])
  BY <1>0, <1>2, RowsOfCustomers
<1>4. SumFunction(handed) = Sum(HandedUnits(g_orders), n)
  <2>1. DOMAIN g_orders = 1 .. n
    BY <1>0
  <2> QED
    BY <2>1 DEF SumFunction, Sum, HandedUnits
<1>5. Sales.gross + Inventory.value >= SumFunction(units)
  <2>1. IsFiniteSet(D)
    <3>1. D = 1 .. Len(g_products) /\ Len(g_products) \in Nat
      BY <1>0
    <3> QED
      BY <3>1, FS_Interval
  <2>2. ASSUME NEW i \in D
        PROVE  stock[i] \in Int /\ sold[i] \in Int /\ units[i] = stock[i] + sold[i]
    <3>1. g_products[i].stock \in Int
      <4>1. g_products[i] \in Product
        BY <1>0
      <4> QED
        BY <4>1, IntMaxAssumption DEF Product, CInt
    <3>2. Reserved(i) \in Nat
      BY ReservedType
    <3>3. Sold(i) \in Nat
      BY <1>0, SoldType DEF Sold, SoldIn
    <3> QED
      BY <3>1, <3>2, <3>3 DEF Units
  <2>3. SumFunction(units) = SumFunctionOnSet(units, D)
    BY DEF SumFunction
  <2>4. Inventory.value = SumFunctionOnSet(stock, D)
    BY DEF Inventory, SumFunction
  <2>5. SumFunctionOnSet(sold, D) <= gross
    BY <1>0, <2>1, SoldIsKept
  <2> HIDE DEF D, stock, sold, units, gross
  <2>6. SumFunctionOnSet(units, D) = SumFunctionOnSet(stock, D) + SumFunctionOnSet(sold, D)
    BY <2>1, <2>2, SumPlus
  <2>7. SumFunctionOnSet(stock, D) \in Int /\ SumFunctionOnSet(sold, D) \in Int
    BY <2>1, <2>2, SumType
  <2> QED
    BY <1>2, <2>3, <2>4, <2>5, <2>6, <2>7
<1> QED
  BY <1>2, <1>3, <1>4, <1>5 DEF ReportBalances

\* The report adds up, for any tables: revenue is collected or outstanding, the orders
\* of the customers are all the orders, and what was delivered has been paid
\* (handle_report, lines 1294-1322, and handle_my_orders, lines 1064-1072).
THEOREM ReportsAlwaysBalance == Spec => []ReportBalances
<1>1. Init => PaymentsInv
  BY DEF Init, PaymentsInv, PaymentsFit
<1>2. TypeInv /\ PaymentsInv => ReportBalances
  BY Balanced
<1> QED
  BY <1>1, <1>2, PaymentsNext, TypeInvariance, MutualExclusion, PTL DEF Spec

\* The report of a process that came up from files torn by any number of stops
\* balances as well.
THEOREM ReportsBalanceAfterStops == CrashSpec => []ReportBalances
<1>1. CrashInv /\ PaymentMatchesStatus => ReportBalances
  <2> SUFFICES ASSUME CrashInv, PaymentMatchesStatus PROVE ReportBalances
    OBVIOUS
  <2>1. TypeInv
    BY DEF CrashInv, UnitsInv, DeskInv
  <2>2. /\ DOMAIN g_orders = 1 .. Len(g_orders)
        /\ DOMAIN orders_file = 1 .. Len(orders_file)
    BY <2>1 DEF TypeInv, TypeOK
  <2>3. PaymentsInv
    BY <2>2 DEF PaymentMatchesStatus, PaymentsInv, PaymentsFit
  <2> QED
    BY <2>1, <2>3, Balanced
<1> QED
  BY <1>1, CrashInvariance, TablesSurviveStops, PTL
===============================================================================
