------------------------------ MODULE Exchange ------------------------------
(***************************************************************************)
(* The exchange behind the feed.  It is not part of the repository: this   *)
(* is what the program assumes of it (README.md, "Assumptions").  Orders   *)
(* are limit orders matched in price-time priority; order messages are     *)
(* published in the order they take effect, and so are trades, one message *)
(* per fill, each on a stream of its own.                                  *)
(***************************************************************************)
EXTENDS Level

CONSTANTS Requests,     \* the kinds of request participants send
          MaxRequests   \* how many they send

ASSUME ExchangeAssumption == /\ Requests \subseteq {"ADD", "CANCEL", "MODIFY"}
                             /\ MaxRequests \in Nat

VARIABLES resting,        \* the exchange's own book, in time order
          taker,          \* the order being matched; quantity 0 if there is none
          order_stream,   \* order messages published and not yet received
          trade_stream,   \* trade messages published and not yet received
          open            \* the session is open

exchangeVars == <<resting, taker, order_stream, trade_stream, open>>

NoTaker == [odid |-> NoId, is_sell |-> FALSE, quantity |-> 0, price |-> 0]

ExchangeInit ==
  /\ resting = << >>
  /\ taker = NoTaker
  /\ order_stream = << >>
  /\ trade_stream = << >>
  /\ open = TRUE

OrderMsg(type, o) == [type |-> type, odid |-> o.odid, is_sell |-> o.is_sell,
                      quantity |-> o.quantity, price |-> o.price]

CanRequest(type) ==
  /\ open
  /\ type \in Requests
  /\ taker.quantity = 0
  /\ Len(order_stream) < MaxRequests

NewOrder(o) ==
  /\ CanRequest("ADD")
  /\ \A k \in DOMAIN order_stream : order_stream[k].odid # o.odid
  /\ taker' = o
  /\ order_stream' = Append(order_stream, OrderMsg("ADD", o))
  /\ UNCHANGED <<resting, trade_stream, open>>

\* The message carries what was left of the order.
CancelOrder(i) ==
  /\ CanRequest("CANCEL")
  /\ order_stream' = Append(order_stream, OrderMsg("CANCEL", resting[i]))
  /\ resting' = EraseAt(resting, i)
  /\ UNCHANGED <<taker, trade_stream, open>>

\* The order keeps its side; the quantity is the new remaining quantity
\* (order_book.cpp assumes so), and the order loses its place in the book.
ModifyOrder(i, quantity, price) ==
  LET o == [resting[i] EXCEPT !.quantity = quantity, !.price = price]
  IN  /\ CanRequest("MODIFY")
      /\ o # resting[i]
      /\ taker' = o
      /\ order_stream' = Append(order_stream, OrderMsg("MODIFY", o))
      /\ resting' = EraseAt(resting, i)
      /\ UNCHANGED <<trade_stream, open>>

Crosses(o) ==
  /\ o.is_sell # taker.is_sell
  /\ ~Before(o.is_sell, taker.price, o.price)

\* The i-th resting order is first in price-time priority for the taker.
IsNextMatch(i) ==
  /\ Crosses(resting[i])
  /\ \A j \in DOMAIN resting :
       Crosses(resting[j]) => \/ Before(resting[i].is_sell, resting[i].price, resting[j].price)
                              \/ resting[i].price = resting[j].price /\ i <= j

Match(i) ==
  LET qty == MinOf(taker.quantity, resting[i].quantity)
  IN  /\ taker.quantity > 0
      /\ IsNextMatch(i)
      /\ taker' = IF taker.quantity = qty THEN NoTaker ELSE [taker EXCEPT !.quantity = @ - qty]
      /\ resting' = IF resting[i].quantity = qty
                    THEN EraseAt(resting, i)
                    ELSE [resting EXCEPT ![i].quantity = @ - qty]
      /\ trade_stream' = Append(trade_stream, [quantity |-> qty, price |-> resting[i].price])
      /\ UNCHANGED <<order_stream, open>>

Rest ==
  /\ taker.quantity > 0
  /\ \A i \in DOMAIN resting : ~Crosses(resting[i])
  /\ resting' = Append(resting, taker)
  /\ taker' = NoTaker
  /\ UNCHANGED <<order_stream, trade_stream, open>>

Close ==
  /\ open
  /\ taker.quantity = 0
  /\ open' = FALSE
  /\ UNCHANGED <<resting, taker, order_stream, trade_stream>>

ExchangeStep ==
  \/ \E o \in [odid : OrderId, is_sell : BOOLEAN, quantity : 1 .. MaxQty, price : Price] :
       NewOrder(o)
  \/ \E i \in DOMAIN resting : CancelOrder(i) \/ Match(i)
  \/ \E i \in DOMAIN resting, quantity \in 1 .. MaxQty, price \in Price :
       ModifyOrder(i, quantity, price)
  \/ Rest
  \/ Close

=============================================================================
