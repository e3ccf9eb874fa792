------------------------- MODULE OrderDeskRefinement -------------------------
(***************************************************************************)
(* OrderDesk implements OrderBook.  The units of an order are in a basket  *)
(* from the reservation until the order is on file; only then is it in the *)
(* book.                                                                   *)
(***************************************************************************)
EXTENDS OrderDesk

\* An order in g_orders that still waits for its first save is a basket.
Basket == [w \in Workers |->
             IF pc[w] \in PaymentSteps \cup {"saving_reservation", "saving_order"}
             THEN call[w] ELSE NoCall]

Book == INSTANCE OrderBook WITH
          Buyers <- Workers, Empty <- NoCall,
          shelf <- g_products, basket <- Basket,
          book <- SubSeq(g_orders, 1, Promised)

\* Placing an order is atomic to everybody else although the code spreads it over
\* two critical sections, a payment process and up to three saves: in every
\* interleaving and after every failure the units are back on the shelf or in
\* exactly one promised order (handle_place_order and the handlers it races).
ImplementsOrderBook == Book!Spec
==============================================================================
