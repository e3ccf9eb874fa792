------------------------------ MODULE OrderBook ------------------------------
(***************************************************************************)
(* What the ordering service promises, without threads, mutex, payment     *)
(* process or files: units lie on the shelf or in the basket of a buyer,   *)
(* and a basket either goes back or becomes an order of the book in one    *)
(* step.  An order in the book is promised to its customer.  OrderDesk is  *)
(* shown to implement this.                                                *)
(***************************************************************************)
EXTENDS StoreRules

CONSTANTS Buyers, Customers, Quantities, Methods, MaxOrders,
          Empty   \* the basket with nothing in it

VARIABLES shelf,   \* the rows of the catalogue with the units in stock
          basket,  \* what each buyer has taken from the shelf
          book     \* the orders, in the order they were accepted

bookVars == <<shelf, basket, book>>

Init ==
  /\ basket = [b \in Buyers |-> Empty]
  /\ book = << >>

\* Never more than the shelf holds.
TakeUnits(b) ==
  /\ basket[b] = Empty
  /\ \E i \in DOMAIN shelf, u \in Customers, q \in Quantities, m \in Methods :
       /\ q <= shelf[i].stock
       /\ shelf' = [shelf EXCEPT ![i].stock = @ - q]
       /\ basket' = [basket EXCEPT ![b] =
                       [username |-> u, product_id |-> shelf[i].id,
                        product_name |-> shelf[i].name, quantity |-> q,
                        payment_method |-> m]]
  /\ UNCHANGED book

ReturnUnits(b) ==
  /\ basket[b] # Empty
  /\ shelf' = Credit(shelf, basket[b].product_id, basket[b].quantity)
  /\ basket' = [basket EXCEPT ![b] = Empty]
  /\ UNCHANGED book

\* The basket becomes an order under an id no order has.
PlaceOrder(b) ==
  /\ basket[b] # Empty
  /\ Len(book) < MaxOrders
  /\ \E id \in NextIds(book) :
       book' = Append(book,
         [id |-> id, username |-> basket[b].username,
          product_id |-> basket[b].product_id,
          product_name |-> basket[b].product_name,
          quantity |-> basket[b].quantity,
          payment_method |-> basket[b].payment_method,
          payment_status |-> PaymentResult(basket[b].payment_method),
          order_status |-> "PLACED"])
  /\ basket' = [basket EXCEPT ![b] = Empty]
  /\ UNCHANGED shelf

CancelOrder(i) ==
  /\ book[i].order_status \in {"PLACED", "CONFIRMED"}
  /\ book' = [book EXCEPT ![i] = Cancelled(@)]
  /\ shelf' = Credit(shelf, book[i].product_id, book[i].quantity)
  /\ UNCHANGED basket

AdvanceOrder(i, next) ==
  /\ next # "CANCELLED"
  /\ ValidTransition(book[i].order_status, next)
  /\ book' = [book EXCEPT ![i] = Advanced(@, next)]
  /\ UNCHANGED <<shelf, basket>>

\* The administrator adds a row, removes one or changes one that keeps its id,
\* and touches neither a basket nor the book.
AddRow == \E id \in NextIds(shelf) :
            /\ Len(shelf') = Len(shelf) + 1
            /\ shelf' = Append(shelf, shelf'[Len(shelf) + 1])
            /\ shelf'[Len(shelf) + 1].id = id
RemoveRow == \E i \in DOMAIN shelf : shelf' = DeleteAndRenumber(shelf, i)
ChangeRow == \E i \in DOMAIN shelf :
               /\ DOMAIN shelf' = DOMAIN shelf
               /\ shelf' = [shelf EXCEPT ![i] = shelf'[i]]
               /\ shelf'[i].id = shelf[i].id

ChangeCatalogue ==
  /\ AddRow \/ RemoveRow \/ ChangeRow
  /\ UNCHANGED <<basket, book>>

Next ==
  \/ \E b \in Buyers : TakeUnits(b) \/ ReturnUnits(b) \/ PlaceOrder(b)
  \/ \E i \in DOMAIN book :
       CancelOrder(i) \/ \E next \in OrderStatuses : AdvanceOrder(i, next)
  \/ ChangeCatalogue

Spec == Init /\ [][Next]_bookVars
==============================================================================
