----------------------------- MODULE StoreRules -----------------------------
(***************************************************************************)
(* The rules of the shop that involve no state: how the server looks a row *)
(* up in one of its tables, which identifier a new row gets, what deleting *)
(* a product does to the other rows, the life of an order and what each    *)
(* step of it does to the payment.  Tables are sequences of records with a *)
(* field id: g_products[0 .. g_product_count - 1] and g_orders[...] of     *)
(* retail_server.c, numbered from 1.                                       *)
(***************************************************************************)
EXTENDS Integers, Sequences

CONSTANT IntMax   \* largest value of a C int (INT_MAX)

ASSUME IntMaxAssumption == IntMax \in Nat \ {0}

CInt == (0 - IntMax - 1) .. IntMax

\* a + b stored in an int, for a and b already ints: the build's addition wraps.
AddInt(a, b) ==
  IF a + b > IntMax THEN a + b - 2 * (IntMax + 1)
  ELSE IF a + b < 0 - IntMax - 1 THEN a + b + 2 * (IntMax + 1)
  ELSE a + b

-----------------------------------------------------------------------------
(* Tables *)

\* The scan of find_*_index_locked stops at row i: the first one with that id.
FoundAt(table, id, i) ==
  /\ i \in DOMAIN table
  /\ table[i].id = id
  /\ \A j \in DOMAIN table : j < i => table[j].id # id

Found(table, id) == \E i \in DOMAIN table : table[i].id = id

\* Mutant: the largest id itself is taken again.
NextIdsOffByOne(table) ==
  {id \in {1} \cup {table[i].id : i \in DOMAIN table} :
     \A i \in DOMAIN table : table[i].id <= id}

\* next_*_id_locked: one more than the largest id, and 1 for an empty table
\* (a set of exactly one element).
NextIds(table) ==
  {id \in {1} \cup {table[i].id + 1 : i \in DOMAIN table} :
     \A i \in DOMAIN table : table[i].id < id}

\* Mutant: the loop that numbers the rows again is forgotten.
DeleteAndKeepIds(table, idx) ==
  [i \in 1 .. Len(table) - 1 |-> IF i < idx THEN table[i] ELSE table[i + 1]]

\* handle_delete_product: the rows behind idx move down, all are renumbered.
DeleteAndRenumber(table, idx) ==
  [i \in 1 .. Len(table) - 1 |->
     [(IF i < idx THEN table[i] ELSE table[i + 1]) EXCEPT !.id = i]]

\* Give quantity units back to the product the scan for product_id finds.
Credit(products, product_id, quantity) ==
  [i \in DOMAIN products |->
     IF FoundAt(products, product_id, i)
     THEN [products[i] EXCEPT !.stock = AddInt(@, quantity)]
     ELSE products[i]]

-----------------------------------------------------------------------------
(* Orders and payments *)

OrderStatuses == {"PLACED", "CONFIRMED", "SHIPPED", "DELIVERED", "CANCELLED"}
PaymentStatuses == {"PAID", "PENDING", "REFUND_INITIATED", "CANCELLED"}
PaymentMethods == {"UPI", "CARD", "COD"}

\* Mutant: a cancelled order can be taken up again.
TransitionAndReopen(current, next) ==
  \/ current \in {"PLACED", "CANCELLED"} /\ next \in {"CONFIRMED", "CANCELLED"}
  \/ current = "CONFIRMED" /\ next \in {"SHIPPED", "CANCELLED"}
  \/ current = "SHIPPED" /\ next = "DELIVERED"

\* is_valid_status_transition
ValidTransition(current, next) ==
  \/ current = "PLACED" /\ next \in {"CONFIRMED", "CANCELLED"}
  \/ current = "CONFIRMED" /\ next \in {"SHIPPED", "CANCELLED"}
  \/ current = "SHIPPED" /\ next = "DELIVERED"

\* Mutant: an order that has left the shop can still be cancelled.
CancellableUntilDelivered == {"PLACED", "CONFIRMED", "SHIPPED"}

\* handle_cancel_order refuses the other three.
Cancellable == {"PLACED", "CONFIRMED"}

\* What the payment process answers for a method when it answers at all.
PaymentResult(method) == IF method = "COD" THEN "PENDING" ELSE "PAID"

Cancelled(order) ==
  [order EXCEPT !.order_status = "CANCELLED",
                !.payment_status = IF @ = "PAID" THEN "REFUND_INITIATED"
                                                 ELSE "CANCELLED"]

\* Mutant: cash counts as collected at the first update.
AdvancedAndPaid(order, next) ==
  [order EXCEPT !.order_status = next,
                !.payment_status = IF @ = "PENDING" THEN "PAID" ELSE @]

\* UPDATE_ORDER to a status other than CANCELLED: cash is collected on delivery.
Advanced(order, next) ==
  [order EXCEPT !.order_status = next,
                !.payment_status = IF /\ next = "DELIVERED"
                                      /\ order.payment_method = "COD"
                                      /\ @ = "PENDING"
                                   THEN "PAID" ELSE @]
=============================================================================
