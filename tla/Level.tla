-------------------------------- MODULE Level --------------------------------
(***************************************************************************)
(* Orders, price levels and the two price comparators of the order book    *)
(* (order.h, level.h, level.cpp, common.h): the values a BookSide keeps    *)
(* and the operations on one of them.                                      *)
(*                                                                         *)
(* A side of the book is named by its is_sell flag: FALSE is the bid side, *)
(* TRUE the ask side.  Prices are doubles that the program only compares,  *)
(* so any integers with the same order stand for them.  A std::map or      *)
(* unordered_map is a function whose domain is the set of its keys.        *)
(***************************************************************************)
EXTENDS Integers, Sequences, Functions

CONSTANTS OrderId,  \* ids the exchange assigns
          NoId,     \* the id -1 of a guessed order
          Price,    \* the prices messages carry
          MaxQty    \* the largest quantity of a message

ASSUME LevelAssumption == /\ Price \subseteq Int
                          /\ NoId \notin OrderId
                          /\ MaxQty \in Nat \ {0}

\* f is a map from keys in K to values in V.
IsMap(f, K, V) == DOMAIN f \subseteq K /\ f \in [DOMAIN f -> V]

EmptyMap == [x \in {} |-> x]
MinOf(a, b) == IF a <= b THEN a ELSE b
Put(f, k, v) == [x \in DOMAIN f \cup {k} |-> IF x = k THEN v ELSE f[x]]
Erase(f, k) == Restrict(f, DOMAIN f \ {k})
\* map[k] += q, where operator[] makes a missing entry 0 first.
Increase(f, k, q) == Put(f, k, (IF k \in DOMAIN f THEN f[k] ELSE 0) + q)

-----------------------------------------------------------------------------
(* Comparators: the key order of levels_ and pending_liq_add_qty_.         *)

\* p comes strictly before q on side s: AskComparator is <, BidComparator >.
Before(s, p, q) == IF s THEN p < q ELSE p > q

\* Mutant: any key.
IsAnyKey(s, D, p) == p \in D

\* p is the key begin() points at in a map of side s with keys D.
IsBegin(s, D, p) == p \in D /\ \A q \in D : ~Before(s, q, p)

-----------------------------------------------------------------------------
(* Orders. The id is the key of order_map_, the side is the BookSide.      *)

Order == [quantity : Nat, price : Price, filled_quantity : Nat]
Remaining(o) == o.quantity - o.filled_quantity

(* Price levels: orders is the std::list in arrival order. price is left   *)
(* out, as addOrder sets it to the level's key.                            *)

L3PriceLevel == [quantity : Int, num_orders : Int, orders : Seq(OrderId)]
L2PriceLevel == [price : Price, quantity : Int]
EmptyLevel == [quantity |-> 0, num_orders |-> 0, orders |-> << >>]

\* Mutant: push_front for push_back.
LevelAddFront(l, id, o) ==
  [quantity   |-> l.quantity + Remaining(o),
   num_orders |-> l.num_orders + 1,
   orders     |-> <<id>> \o l.orders]

LevelAddOrder(l, id, o) ==
  [quantity   |-> l.quantity + Remaining(o),
   num_orders |-> l.num_orders + 1,
   orders     |-> Append(l.orders, id)]

\* list::erase at position i.
EraseAt(list, i) ==
  [j \in 1 .. Len(list) - 1 |-> IF j < i THEN list[j] ELSE list[j + 1]]

\* handler.iter is the place of the order in the list of its level.
LevelRemoveOrder(l, id, o) ==
  [quantity   |-> l.quantity - Remaining(o),
   num_orders |-> l.num_orders - 1,
   orders     |-> EraseAt(l.orders, CHOOSE i \in DOMAIN l.orders : l.orders[i] = id)]

\* Mutant: the order is filled, the level's quantity stays.
LevelKeepQuantity(l, qty) == l

LevelFillOrder(l, qty) == [l EXCEPT !.quantity = @ - qty]
OrderFilled(o, qty) == [o EXCEPT !.filled_quantity = @ + qty]

-----------------------------------------------------------------------------
(* Events.                                                                 *)

OrderInfo(e, id, s, q, p) ==
  [event |-> e, odid |-> id, is_sell |-> s, quantity |-> q, price |-> p]

\* Mutant: the events already in a are lost.
ReplaceEvents(a, b) == b

mergeEvents(a, b) == a \o b

=============================================================================
