---------------------------- MODULE RefusalReplies ----------------------------
(***************************************************************************)
(* The refusals of OrderDesk whose text is read from the tables after the  *)
(* mutex is released: "available=%d" of PLACE_ORDER, "status=%s" of        *)
(* CANCEL_ORDER and "%s->%s" of UPDATE_ORDER.  A worker that refuses a     *)
(* request keeps the row it looked at and is at the send_linef after the   *)
(* unlock; the others go on with the steps of OrderDesk.                   *)
(***************************************************************************)
EXTENDS OrderDesk

VARIABLE refusal   \* the reply each worker is about to format, or NoRefusal

NoRefusal == [kind |-> "none"]

\* Stock and order refusals carry what was asked for; row is product_idx or
\* order_idx, a local of the handler.
Refusals ==
  [kind : {"stock"}, row : 1 .. MaxProducts, asked : Quantities]
    \cup [kind : {"cancel"}, row : 1 .. MaxOrders]
    \cup [kind : {"update"}, row : 1 .. MaxOrders, asked : OrderStatuses]

RefusalTypeOK == refusal \in [Workers -> Refusals \cup {NoRefusal}]

RefusalInit == Init /\ refusal = [w \in Workers |-> NoRefusal]

\* The handler took the mutex, found the row, made its check and unlocked.
Refuse(w, reply) ==
  /\ pc[w] = "idle" /\ refusal[w] = NoRefusal
  /\ g_db_mutex = NoWorker
  /\ refusal' = [refusal EXCEPT ![w] = reply]
  /\ UNCHANGED vars

RefuseStock(w, product_id, quantity) ==
  \E i \in DOMAIN g_products :
    /\ FoundAt(g_products, product_id, i)
    /\ g_products[i].stock < quantity
    /\ Refuse(w, [kind |-> "stock", row |-> i, asked |-> quantity])

RefuseCancel(w, username, order_id) ==
  \E i \in DOMAIN g_orders :
    /\ FoundAt(g_orders, order_id, i)
    /\ g_orders[i].username = username
    /\ g_orders[i].order_status \notin Cancellable
    /\ Refuse(w, [kind |-> "cancel", row |-> i])

RefuseUpdate(w, order_id, next) ==
  \E i \in DOMAIN g_orders :
    /\ FoundAt(g_orders, order_id, i)
    /\ next # "CANCELLED"
    /\ ~ValidTransition(g_orders[i].order_status, next)
    /\ Refuse(w, [kind |-> "update", row |-> i, asked |-> next])

\* send_linef formats the row as it is now.  The code reads the string without the
\* mutex while another worker may be writing it; here it is read in one piece.
Reply(w) ==
  /\ refusal[w] # NoRefusal
  /\ refusal' = [refusal EXCEPT ![w] = NoRefusal]
  /\ UNCHANGED vars

RefusalNext ==
  \E w \in Workers :
    \/ refusal[w] = NoRefusal /\ Worker(w) /\ UNCHANGED refusal
    \/ \E product_id \in 1 .. MaxProducts, quantity \in Quantities :
         RefuseStock(w, product_id, quantity)
    \/ \E username \in Customers, order_id \in 1 .. MaxOrders :
         RefuseCancel(w, username, order_id)
    \/ \E order_id \in 1 .. MaxOrders, next \in OrderStatuses \ {"PLACED"} :
         RefuseUpdate(w, order_id, next)
    \/ Reply(w)

refusalVars == <<vars, refusal>>

RefusalSpec == RefusalInit /\ [][RefusalNext]_refusalVars

\* Fairness of OrderDesk, and of the thread that is about to send a refusal.
RefusalFairness ==
  \A w \in Workers : /\ WF_refusalVars(GoOn(w) /\ UNCHANGED refusal)
                     /\ SF_refusalVars(SecondLock(w) /\ UNCHANGED refusal)
                     /\ WF_refusalVars(Reply(w))

FairRefusalSpec == RefusalSpec /\ RefusalFairness

-----------------------------------------------------------------------------
(* What a reply says is a reason to refuse: so it is for CANCEL_ORDER only. *)

\* "Cannot cancel order at current status=%s" (line 1129) names a status that
\* cannot be cancelled although the row is read without the mutex: the row is
\* still there, and no order comes back from such a status.
CancelRefusalTruthful ==
  \A w \in Workers : refusal[w].kind = "cancel" =>
    /\ refusal[w].row \in DOMAIN g_orders
    /\ g_orders[refusal[w].row].order_status \notin Cancellable
===============================================================================
