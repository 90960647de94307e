--------------------------- MODULE SmartOrderBook ---------------------------
(***************************************************************************)
(* The order book of order_book.h and order_book.cpp under the order       *)
(* stream (ADD, CANCEL, MODIFY) and the trade stream (TRADE).  The streams *)
(* are not synchronized: messages come in any order and carry any id,      *)
(* side, quantity and price.                                               *)
(***************************************************************************)
EXTENDS BookSide

CONSTANT Kinds   \* the kinds of message the feed carries

ASSUME FeedAssumption == /\ Kinds \subseteq {"ADD", "CANCEL", "MODIFY", "TRADE"}
                         /\ Price # {}

vars == <<sideVars, pc, act, loopVars, events>>

OrderMessage == [odid : OrderId, is_sell : BOOLEAN, quantity : 1 .. MaxQty, price : Price]
TradeMessage == [quantity : 1 .. MaxQty, price : Price]

AnyPrice == CHOOSE p \in Price : TRUE
Idle == [kind |-> "NONE", odid |-> NoId, is_sell |-> FALSE, quantity |-> 0,
         price |-> AnyPrice, filled_quantity |-> 0]

Init ==
  /\ levels = [s \in BOOLEAN |-> EmptyMap]
  /\ order_map = [s \in BOOLEAN |-> EmptyMap]
  /\ pending_liq_remove_qty = [s \in BOOLEAN |-> EmptyMap]
  /\ pending_liq_add_qty = [s \in BOOLEAN |-> EmptyMap]
  /\ l2_snap_queue = [s \in BOOLEAN |-> << >>]
  /\ pc = "idle"
  /\ act = Idle
  /\ side = FALSE
  /\ cur = AnyPrice
  /\ iter = 1
  /\ orders_to_remove = << >>
  /\ events = << >>

-----------------------------------------------------------------------------
(* Messages.                                                               *)

Activate(kind, m) ==
  act' = [kind |-> kind, odid |-> m.odid, is_sell |-> m.is_sell, quantity |-> m.quantity,
          price |-> m.price, filled_quantity |-> 0]

processOrderAddMessage(m) ==
  /\ pc = "idle"
  /\ Activate("ADD", m)
  /\ pc' = "matchAdd"
  /\ events' = << >>
  /\ UNCHANGED <<sideVars, loopVars>>

processOrderCancelMessage(m) ==
  /\ pc = "idle"
  /\ processOrderCancel(m.is_sell, m.odid, m.quantity, m.price)
  /\ events' =
       IF CancelRemoves(m.is_sell, m.odid, m.quantity, m.price)
       THEN <<OrderInfo("CANCEL", m.odid, m.is_sell,
                        m.quantity - MatchedRemove(pending_liq_remove_qty[m.is_sell],
                                                   m.quantity, m.price),
                        m.price)>>
       ELSE << >>
  /\ pc' = "done"
  /\ UNCHANGED <<pending_liq_add_qty, l2_snap_queue, act, loopVars>>

\* A cancel of what remains, at the new price, then an add with the same id.
\* Neither call's events are kept.
processOrderModifyMessage(m) ==
  LET home == ~existOrder(FALSE, m.odid)
  IN  /\ pc = "idle"
      /\ events' = <<OrderInfo("MODIF", m.odid, m.is_sell, m.quantity, m.price)>>
      /\ IF existOrder(FALSE, m.odid) \/ existOrder(TRUE, m.odid)
         THEN /\ processOrderCancel(m.is_sell, m.odid,
                                    Remaining(order_map[home][m.odid]), m.price)
              /\ Activate("MODIFY", m)
              /\ pc' = "matchAdd"
              /\ UNCHANGED <<pending_liq_add_qty, l2_snap_queue>>
         ELSE /\ pc' = "done"
              /\ UNCHANGED <<sideVars, act>>
      /\ UNCHANGED loopVars

\* The bid side handles the trade first, then the ask side.
processTradeMessage(t) ==
  /\ pc = "idle"
  /\ Activate("TRADE", [odid |-> NoId, is_sell |-> FALSE, quantity |-> t.quantity,
                        price |-> t.price])
  /\ pc' = "trade"
  /\ side' = FALSE
  /\ events' = << >>
  /\ UNCHANGED <<sideVars, cur, iter, orders_to_remove>>

-----------------------------------------------------------------------------
(* The end of processOrderAddMessage, and the return to the caller.        *)

\* The loop of processCrossedOrder is over: what remains of the order rests.
RestOrder ==
  LET o == [quantity |-> act.quantity, price |-> act.price,
            filled_quantity |-> act.filled_quantity]
  IN  /\ pc = "uncross"
      /\ ~CanUncross
      /\ IF Remaining(act) = 0
         THEN UNCHANGED <<levels, order_map, events>>
         ELSE /\ addOrder(act.is_sell, act.odid, o)
              /\ Emit(<<OrderInfo("ADD", act.odid, act.is_sell, Remaining(act), act.price)>>)
      /\ pc' = "done"
      /\ UNCHANGED <<pending_liq_remove_qty, pending_liq_add_qty, l2_snap_queue, act,
                     loopVars>>

\* The locals of the handler are gone.
Return ==
  /\ pc = "done"
  /\ pc' = "idle"
  /\ act' = Idle
  /\ side' = FALSE
  /\ cur' = AnyPrice
  /\ iter' = 1
  /\ orders_to_remove' = << >>
  /\ UNCHANGED <<sideVars, events>>

Receive ==
  \/ \E m \in OrderMessage : \/ "ADD" \in Kinds /\ processOrderAddMessage(m)
                             \/ "CANCEL" \in Kinds /\ processOrderCancelMessage(m)
                             \/ "MODIFY" \in Kinds /\ processOrderModifyMessage(m)
  \/ \E t \in TradeMessage : "TRADE" \in Kinds /\ processTradeMessage(t)

HandlerStep ==
  \/ MatchPendingLiqAdd \/ MatchPendingLiqAddDone
  \/ Uncross \/ Fill \/ FillDone \/ RemoveFilled \/ RemoveFilledDone \/ RestOrder
  \/ TradeMatch \/ Sweep \/ SweepDone \/ TradeRest
  \/ Return

Next == Receive \/ HandlerStep

Spec == Init /\ [][Next]_vars

-----------------------------------------------------------------------------
(* Properties.                                                             *)

PC == {"idle", "matchAdd", "uncross", "fill", "remove", "trade", "sweep", "tradeRest", "done"}
Action == [kind : {"NONE", "ADD", "MODIFY", "TRADE"}, odid : OrderId \cup {NoId},
           is_sell : BOOLEAN, quantity : Nat, price : Price, filled_quantity : Nat]
Info == [event : {"ADD", "CANCEL", "EXEC", "MODIF"}, odid : OrderId \cup {NoId},
         is_sell : BOOLEAN, quantity : Int, price : Price]

\* Every member and local has its type; in particular no pending quantity
\* goes below zero (matchPendingLiqAdd, matchPendingLiqRemove) and no order
\* is filled below zero.
TypeOK ==
  /\ DOMAIN levels = BOOLEAN
  /\ DOMAIN order_map = BOOLEAN
  /\ DOMAIN pending_liq_remove_qty = BOOLEAN
  /\ DOMAIN pending_liq_add_qty = BOOLEAN
  /\ DOMAIN l2_snap_queue = BOOLEAN
  /\ \A s \in BOOLEAN : /\ IsMap(levels[s], Price, L3PriceLevel)
                        /\ IsMap(order_map[s], OrderId, Order)
                        /\ IsMap(pending_liq_remove_qty[s], Price, Nat)
                        /\ IsMap(pending_liq_add_qty[s], Price, Nat)
                        /\ l2_snap_queue[s] \in Seq(SUBSET L2PriceLevel)
  /\ pc \in PC
  /\ act \in Action
  /\ side \in BOOLEAN
  /\ cur \in Price
  /\ iter \in Nat \ {0}
  /\ orders_to_remove \in Seq(OrderId)
  /\ events \in Seq(Info)

\* levels_ and order_map_ describe the same orders: a level lists, once each,
\* exactly the orders of order_map_ with its price, counts them right, and is
\* erased with its last order (addOrder, removeOrder).
SideConsistent(L, M) ==
  /\ \A p \in DOMAIN L :
       LET list == L[p].orders
       IN  /\ list # << >>
           /\ L[p].num_orders = Len(list)
           /\ \A i, j \in DOMAIN list : list[i] = list[j] => i = j
           /\ \A i \in DOMAIN list : list[i] \in DOMAIN M /\ M[list[i]].price = p
  /\ \A id \in DOMAIN M :
       /\ M[id].price \in DOMAIN L
       /\ \E i \in DOMAIN L[M[id].price].orders : L[M[id].price].orders[i] = id
BookConsistent == \A s \in BOOLEAN : SideConsistent(levels[s], order_map[s])

\* The cached quantity of a level is the sum of what remains of its orders,
\* through every fill, add and remove (level.cpp).
LevelQuantityIsSum ==
  \A s \in BOOLEAN : \A p \in DOMAIN levels[s] :
    levels[s][p].quantity =
      SumFunction([i \in DOMAIN levels[s][p].orders |->
                     Remaining(order_map[s][levels[s][p].orders[i]])])

\* The book is never crossed ("The uncrossed L3 book"): processCrossedOrder
\* clears every level an order crosses before the order may rest.
Uncrossed ==
  \A b \in DOMAIN levels[FALSE], a \in DOMAIN levels[TRUE] : b < a

\* No order rests with nothing left, except between its fill and its removal
\* in the same call.
NoSpentOrders ==
  \A s \in BOOLEAN : \A id \in DOMAIN order_map[s] :
    \/ Remaining(order_map[s][id]) > 0
    \/ /\ pc \in {"fill", "remove"}
       /\ s = side
       /\ Remaining(order_map[s][id]) = 0
       /\ \E k \in DOMAIN orders_to_remove : orders_to_remove[k] = id

\* Order x is ahead of order y of side s in price-time priority.
Ahead(s, x, y) ==
  LET p == order_map[s][x].price
      q == order_map[s][y].price
  IN  \/ Before(s, p, q)
      \/ p = q /\ \E i, j \in DOMAIN levels[s][p].orders :
                    /\ i < j
                    /\ levels[s][p].orders[i] = x
                    /\ levels[s][p].orders[j] = y

\* Fills follow price-time priority, whichever stream triggers them: an order
\* is filled only when every order ahead of it on its side has nothing left.
PriceTimePriority ==
  [][\A s \in BOOLEAN : \A y \in DOMAIN order_map[s] \cap DOMAIN order_map'[s] :
       order_map'[s][y].filled_quantity > order_map[s][y].filled_quantity
         => \A x \in DOMAIN order_map[s] :
              Ahead(s, x, y) => Remaining(order_map[s][x]) = 0]_vars

\* Step 3 of processTrade guesses an order still to come only for what the
\* book cannot supply: there is no level left at the trade's price, and none
\* ahead of it.
GuessOnlyWhenExhausted ==
  pc = "tradeRest" /\ Remaining(act) > 0
    => \A p \in DOMAIN levels[side] : Before(side, act.price, p)

\* With no cancels and modifies in the feed, between two messages both sides
\* expect exactly the same trades: a trade that follows its order is matched
\* on both sides or on none (processCrossedOrder, addPendingLiqRemoveQty).
SidesExpectSameTrades ==
  Kinds \subseteq {"ADD", "TRADE"} /\ pc = "idle"
    => pending_liq_remove_qty[FALSE] = pending_liq_remove_qty[TRUE]

=============================================================================
