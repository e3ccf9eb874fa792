-------------------------------- MODULE Report --------------------------------
(***************************************************************************)
(* The listings of the order desk: what REPORT adds up and which rows      *)
(* MY_ORDERS sends, under g_db_mutex.  Prices are abstracted: every unit   *)
(* costs one, so the amount of an order is its quantity and the value of   *)
(* the inventory is the number of units on the shelf.                      *)
(***************************************************************************)
EXTENDS OrderDesk, SequencesExt

CONSTANT LowStock   \* a product with at most so many units counts as low: 5

ASSUME LowStockAssumption == LowStock \in Nat

\* g_users has MAX_USERS rows (line 19).
ASSUME CustomersAssumption == IsFiniteSet(Customers)

\* The counters and sums handle_report starts with.
NoSales ==
  [total |-> 0, delivered |-> 0, cancelled |-> 0,
   gross |-> 0, collected |-> 0, pending |-> 0]

If(condition, n) == IF condition THEN n ELSE 0

\* Mutant: the refund of a cancelled order is not told apart from a payment.
SaleOfAny(sum, order) ==
  [sum EXCEPT
     !.total = @ + 1,
     !.cancelled = @ + If(order.order_status = "CANCELLED", 1),
     !.gross = @ + order.quantity,
     !.delivered = @ + If(order.order_status = "DELIVERED", 1),
     !.collected = @ + If(order.payment_status = "PAID", order.quantity),
     !.pending = @ + If(order.payment_status = "PENDING", order.quantity)]

\* One turn of the loop over the orders: a cancelled one is only counted.
Sale(sum, order) ==
  IF order.order_status = "CANCELLED"
  THEN [sum EXCEPT !.total = @ + 1, !.cancelled = @ + 1]
  ELSE [sum EXCEPT
          !.total = @ + 1,
          !.gross = @ + order.quantity,
          !.delivered = @ + If(order.order_status = "DELIVERED", 1),
          !.collected = @ + If(order.payment_status = "PAID", order.quantity),
          !.pending = @ + If(order.payment_status = "PENDING", order.quantity)]

Sales == FoldLeft(Sale, NoSales, g_orders)

\* The loop over the products.
Inventory ==
  [value |-> SumFunction([i \in DOMAIN g_products |-> g_products[i].stock]),
   low |-> Cardinality({i \in DOMAIN g_products : g_products[i].stock <= LowStock})]

\* The rows of MY_ORDERS, in the order of the table; their number is sent before them.
MyOrders(username) == {i \in DOMAIN g_orders : g_orders[i].username = username}

-----------------------------------------------------------------------------
\* The report adds up, whatever mixture of placed, paid, refunded, delivered and
\* half-saved orders it finds when it gets the mutex: every order that is not
\* cancelled is either paid or to be paid, what was delivered has been paid, and
\* the money and the shelf together account for the units of every product that
\* is still in the catalogue (docs/DESIGN.md, section 6).
ReportBalances ==
  g_db_mutex = NoWorker =>
    /\ Sales.gross = Sales.collected + Sales.pending
    /\ Sales.gross + Inventory.value
         >= SumFunction([i \in DOMAIN g_products |-> Units(i) - Reserved(i)])
    /\ Sales.total = SumFunction([c \in Customers |-> Cardinality(MyOrders(c))])
    /\ Sales.collected >= SumFunction([i \in DOMAIN g_orders |->
         If(g_orders[i].order_status = "DELIVERED", g_orders[i].quantity)])
===============================================================================
