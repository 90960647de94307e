--------------------------- MODULE BookRefinement ---------------------------
(***************************************************************************)
(* The order book implements MatchingBook, whatever the feed: between and  *)
(* inside calls, what it shows of its orders changes one order at a time   *)
(* and by the rules of a matching book.                                    *)
(***************************************************************************)
EXTENDS SmartOrderBook

\* The orders with something left: one that was filled completely still sits
\* in the containers until the end of the walk.
Live(s) == {id \in DOMAIN order_map[s] : Remaining(order_map[s][id]) > 0}

LiveOrders(s) ==
  [id \in Live(s) |-> [price    |-> order_map[s][id].price,
                       quantity |-> Remaining(order_map[s][id])]]

\* x comes before y in a list.
Precedes(list, x, y) == \E i, j \in DOMAIN list : i < j /\ list[i] = x /\ list[j] = y

LiveAhead(s) ==
  {w \in Live(s) \X Live(s) :
     /\ order_map[s][w[1]].price = order_map[s][w[2]].price
     /\ Precedes(levels[s][order_map[s][w[1]].price].orders, w[1], w[2])}

MB == INSTANCE MatchingBook WITH orders <- [s \in BOOLEAN |-> LiveOrders(s)],
                                 ahead <- [s \in BOOLEAN |-> LiveAhead(s)]

\* The detailed book implements the abstract one (addOrder, removeOrder,
\* processCrossedOrder, processTrade, processOrderCancel): no message, in any
\* order, makes it rest a crossing order, execute one that is not first, or
\* change two orders at once.
IsMatchingBook == MB!MBSpec

=============================================================================
