------------------------------- MODULE L2Book -------------------------------
(***************************************************************************)
(* L2Book (l2_book.cpp) as SmartOrderBook::getL2Book fills it: a map of    *)
(* price levels for each side.                                             *)
(***************************************************************************)
EXTENDS SmartOrderBook

EmptyL2Book == [s \in BOOLEAN |-> EmptyMap]

\* Mutant: the bid map for both sides.
addLevelToBids(book, is_sell, price, quantity) ==
  [book EXCEPT ![FALSE] = Put(@, price, [price |-> price, quantity |-> quantity])]

\* A level that exists is left alone.
addLevel(book, is_sell, price, quantity) ==
  IF price \in DOMAIN book[is_sell] THEN book
  ELSE [book EXCEPT ![is_sell] = Put(@, price, [price |-> price, quantity |-> quantity])]

\* The two loops of getL2Book, over the levels L of each side.
addSide(book, s, L) ==
  LET add(p, b) == addLevel(b, s, p, L[s][p].quantity)
  IN  FoldFunction(add, book, [p \in DOMAIN L[s] |-> p])

getL2Book(L) == addSide(addSide(EmptyL2Book, FALSE, L), TRUE, L)

-----------------------------------------------------------------------------
\* The L2 book that getL2Book returns between two messages shows the orders: a
\* level for each price some order has, with the sum of what is left of them.
L2BookShowsOrders ==
  pc = "idle" =>
    \A s \in BOOLEAN :
      LET at(p) == {id \in DOMAIN order_map[s] : order_map[s][id].price = p}
          left  == [id \in DOMAIN order_map[s] |-> Remaining(order_map[s][id])]
      IN  getL2Book(levels)[s] =
            [p \in {order_map[s][id].price : id \in DOMAIN order_map[s]} |->
               [price |-> p, quantity |-> SumFunctionOnSet(left, at(p))]]

=============================================================================
