------------------------------ MODULE BookSide ------------------------------
(***************************************************************************)
(* The two BookSide objects of a SmartOrderBook (book_side.h,              *)
(* book_side.cpp).  Every member is a function of the side's is_sell flag. *)
(*                                                                         *)
(* The methods with loops (matchPendingLiqAdd, processCrossedOrder,        *)
(* processTrade) are one action per iteration, sequenced by pc; the other  *)
(* methods are operators used inside one action.  The program is           *)
(* sequential: a message is only taken when pc = "idle".                   *)
(***************************************************************************)
EXTENDS Level

VARIABLES                     \* the members of the two sides
  levels,                     \* price -> level, in key order of Before
  order_map,                  \* id -> order
  pending_liq_remove_qty,     \* price -> quantity of trades and cancels expected
  pending_liq_add_qty,        \* price -> quantity of new orders expected
  l2_snap_queue               \* the L2 views expected from the snapshot stream

VARIABLES                     \* the handler that is running
  pc,                         \* where it is; "idle" between messages
  act,                        \* the order or trade it handles
  side,                       \* the BookSide whose method runs
  cur,                        \* key of cur_level
  iter,                       \* place in the list of cur_level
  orders_to_remove,           \* the ids to remove after the list is walked
  events                      \* the OrderInfoVec it returns

sideVars == <<levels, order_map, pending_liq_remove_qty, pending_liq_add_qty,
              l2_snap_queue>>
loopVars == <<side, cur, iter, orders_to_remove>>

-----------------------------------------------------------------------------
(* Methods without loops.                                                  *)

existOrder(s, id) == id \in DOMAIN order_map[s]

\* Mutant: an equal price does not cross.
CrossedStrictly(s, price) ==
  \E p \in DOMAIN levels[s] : IF s THEN price > p ELSE p > price

\* The best level crosses with the price exactly when some level does.
bookCrossedWithPrice(s, price) ==
  \E p \in DOMAIN levels[s] : IF s THEN price >= p ELSE p >= price

LevelsAdd(L, id, o) ==
  Put(L, o.price,
      LevelAddOrder(IF o.price \in DOMAIN L THEN L[o.price] ELSE EmptyLevel, id, o))

\* Mutant: an empty level stays.
LevelsRemoveKeep(L, id, o) == [L EXCEPT ![o.price] = LevelRemoveOrder(@, id, o)]

LevelsRemove(L, id, o) ==
  LET l == LevelRemoveOrder(L[o.price], id, o)
  IN  IF l.num_orders = 0 THEN Erase(L, o.price) ELSE [L EXCEPT ![o.price] = l]

addOrder(s, id, o) ==
  IF existOrder(s, id)
  THEN UNCHANGED <<levels, order_map>>
  ELSE /\ levels' = [levels EXCEPT ![s] = LevelsAdd(@, id, o)]
       /\ order_map' = [order_map EXCEPT ![s] = Put(@, id, o)]

removeOrder(s, id) ==
  IF existOrder(s, id)
  THEN /\ levels' = [levels EXCEPT ![s] = LevelsRemove(@, id, order_map[s][id])]
       /\ order_map' = [order_map EXCEPT ![s] = Erase(@, id)]
  ELSE UNCHANGED <<levels, order_map>>

\* A L2SnapshotSide is a vector in key order, so the set of its elements.
L2View(L) == {[price |-> p, quantity |-> L[p].quantity] : p \in DOMAIN L}

saveL2SnapshotSide(s) ==
  l2_snap_queue' = [l2_snap_queue EXCEPT ![s] = Append(@, L2View(levels'[s]))]

\* Mutant: no min with the pending quantity.
MatchedRemoveAll(f, quantity, price) == IF price \in DOMAIN f THEN quantity ELSE 0

\* What matchPendingLiqRemove returns, and the map it leaves.
MatchedRemove(f, quantity, price) ==
  IF price \in DOMAIN f THEN MinOf(f[price], quantity) ELSE 0

AfterMatchRemove(f, quantity, price) ==
  LET left == f[price] - MatchedRemove(f, quantity, price)
  IN  IF price \notin DOMAIN f THEN f
      ELSE IF left = 0 THEN Erase(f, price) ELSE [f EXCEPT ![price] = left]

matchPendingLiqRemove(s, quantity, price) ==
  pending_liq_remove_qty' =
    [pending_liq_remove_qty EXCEPT ![s] = AfterMatchRemove(@, quantity, price)]

\* A modify throws the events of the add it makes away.
Emit(infos) == events' = IF act.kind = "MODIFY" THEN events ELSE mergeEvents(events, infos)

\* processOrderCancel: what is left of the cancel after matching the pending
\* quantity, if anything, removes the whole order.
CancelRemoves(s, id, quantity, price) ==
  /\ quantity - MatchedRemove(pending_liq_remove_qty[s], quantity, price) > 0
  /\ existOrder(s, id)

processOrderCancel(s, id, quantity, price) ==
  /\ matchPendingLiqRemove(s, quantity, price)
  /\ IF CancelRemoves(s, id, quantity, price)
     THEN removeOrder(s, id)
     ELSE UNCHANGED <<levels, order_map>>

-----------------------------------------------------------------------------
(* matchPendingLiqAdd.  act.filled_quantity is matched_qty.                *)

\* The top of the pending quantities can be matched with the order.
Matchable(s, p) ==
  IsBegin(s, DOMAIN pending_liq_add_qty[s], p) /\ ~Before(s, p, act.price)

\* The map after the entry at p is matched with qty of an order at price.
\* The entry erased is the one at the order's price, not the one that was
\* matched: a matched entry at another price stays, at 0.
AfterMatchAdd(f, p, qty, price) ==
  LET left == [f EXCEPT ![p] = @ - qty]
  IN  IF left[p] = 0 THEN Erase(left, price) ELSE left

MatchPendingLiqAdd ==
  /\ pc = "matchAdd"
  /\ \E p \in DOMAIN pending_liq_add_qty[act.is_sell] :
       LET s   == act.is_sell
           qty == MinOf(pending_liq_add_qty[s][p], Remaining(act))
       IN  /\ Matchable(s, p)
           /\ pending_liq_add_qty' = [pending_liq_add_qty EXCEPT
                ![s] = AfterMatchAdd(@, p, qty, act.price)]
           /\ act' = OrderFilled(act, qty)
           /\ pc' = IF Remaining(act) = qty THEN "uncross" ELSE pc
  /\ UNCHANGED <<levels, order_map, pending_liq_remove_qty, l2_snap_queue,
                 loopVars, events>>

MatchPendingLiqAddDone ==
  /\ pc = "matchAdd"
  /\ \A p \in DOMAIN pending_liq_add_qty[act.is_sell] : ~Matchable(act.is_sell, p)
  /\ pc' = "uncross"
  /\ UNCHANGED <<sideVars, act, loopVars, events>>

-----------------------------------------------------------------------------
(* processCrossedOrder, and the walk over a list it shares with            *)
(* processTrade.                                                           *)

WalkLevel(s, p) ==
  /\ pc' = "fill"
  /\ side' = s
  /\ cur' = p
  /\ iter' = 1
  /\ orders_to_remove' = << >>

\* Mutant: the loop does not look at what remains.
StillCrossed == bookCrossedWithPrice(~act.is_sell, act.price)

\* The condition of the while loop.
CanUncross == Remaining(act) > 0 /\ bookCrossedWithPrice(~act.is_sell, act.price)

\* Take the best level of the other side.
Uncross ==
  LET s == ~act.is_sell
  IN  /\ pc = "uncross"
      /\ CanUncross
      /\ \E p \in DOMAIN levels[s] : IsBegin(s, DOMAIN levels[s], p) /\ WalkLevel(s, p)
      /\ UNCHANGED <<sideVars, act, events>>

\* Mutant: addPendingLiqRemoveQty is not called on the aggressor's side.
ExpectTradeHere(price, qty) ==
  pending_liq_remove_qty' = [pending_liq_remove_qty EXCEPT ![side] = Increase(@, price, qty)]

\* An aggressor's fill is expected back as a trade on both sides.
\* addPendingLiqRemoveQty adds it on the aggressor's side after the loop, from
\* the events; nothing reads that side's map in between, so it is added here.
ExpectTrade(price, qty) ==
  pending_liq_remove_qty' =
    [s \in BOOLEAN |-> Increase(pending_liq_remove_qty[s], price, qty)]

\* One order of the list is filled.
Fill ==
  LET id  == levels[side][cur].orders[iter]
      qty == MinOf(Remaining(act), Remaining(order_map[side][id]))
  IN  /\ pc = "fill"
      /\ iter <= Len(levels[side][cur].orders)
      /\ Remaining(act) > 0
      /\ levels' = [levels EXCEPT ![side][cur] = LevelFillOrder(@, qty)]
      /\ order_map' = [order_map EXCEPT ![side][id] = OrderFilled(@, qty)]
      /\ saveL2SnapshotSide(side)
      /\ orders_to_remove' = IF Remaining(order_map[side][id]) = qty
                             THEN Append(orders_to_remove, id)
                             ELSE orders_to_remove
      /\ Emit(<<OrderInfo("EXEC", id, side, qty, cur)>>)
      /\ IF act.kind = "TRADE" THEN UNCHANGED pending_liq_remove_qty ELSE ExpectTrade(cur, qty)
      /\ act' = OrderFilled(act, qty)
      /\ iter' = iter + 1
      /\ UNCHANGED <<pending_liq_add_qty, pc, side, cur>>

\* Mutant: the walk may stop at any order.
FillStop ==
  /\ pc = "fill"
  /\ pc' = "remove"
  /\ UNCHANGED <<sideVars, act, loopVars, events>>

FillDone ==
  /\ pc = "fill"
  /\ iter > Len(levels[side][cur].orders) \/ Remaining(act) = 0
  /\ pc' = "remove"
  /\ UNCHANGED <<sideVars, act, loopVars, events>>

\* The filled orders leave the book; processTrade saves a view after each.
RemoveFilled ==
  /\ pc = "remove"
  /\ orders_to_remove # << >>
  /\ removeOrder(side, Head(orders_to_remove))
  /\ IF act.kind = "TRADE" THEN saveL2SnapshotSide(side) ELSE UNCHANGED l2_snap_queue
  /\ orders_to_remove' = Tail(orders_to_remove)
  /\ UNCHANGED <<pending_liq_remove_qty, pending_liq_add_qty, pc, act, side, cur,
                 iter, events>>

\* Mutant: filled orders may be left behind.
RemoveFilledStop ==
  /\ pc = "remove"
  /\ pc' = IF act.kind = "TRADE" THEN "tradeRest" ELSE "uncross"
  /\ UNCHANGED <<sideVars, act, loopVars, events>>

RemoveFilledDone ==
  /\ pc = "remove"
  /\ orders_to_remove = << >>
  /\ pc' = IF act.kind = "TRADE" THEN "tradeRest" ELSE "uncross"
  /\ UNCHANGED <<sideVars, act, loopVars, events>>

-----------------------------------------------------------------------------
(* processTrade of one side.                                               *)

TradeMatch ==
  /\ pc = "trade"
  /\ act' = OrderFilled(act, MatchedRemove(pending_liq_remove_qty[side],
                                           act.quantity, act.price))
  /\ matchPendingLiqRemove(side, act.quantity, act.price)
  /\ pc' = "sweep"
  /\ UNCHANGED <<levels, order_map, pending_liq_add_qty, l2_snap_queue, loopVars,
                 events>>

\* Step 1, one order of the best level: it is ahead of the trade, so it is
\* taken to be cancelled.  The event carries the order's whole quantity.
Sweep ==
  /\ pc = "sweep"
  /\ \E p \in DOMAIN levels[side] :
       LET id == Head(levels[side][p].orders)
       IN  /\ IsBegin(side, DOMAIN levels[side], p)
           /\ Before(side, p, act.price)
           /\ removeOrder(side, id)
           /\ Emit(<<OrderInfo("CANCEL", id, side, order_map[side][id].quantity, p)>>)
  /\ saveL2SnapshotSide(side)
  /\ UNCHANGED <<pending_liq_remove_qty, pending_liq_add_qty, pc, act, loopVars>>

\* Step 2 starts if there is a level at the trade's price.
SweepDone ==
  /\ pc = "sweep"
  /\ \A p \in DOMAIN levels[side] : ~Before(side, p, act.price)
  /\ IF act.price \in DOMAIN levels[side]
     THEN WalkLevel(side, act.price)
     ELSE pc' = "tradeRest" /\ UNCHANGED loopVars
  /\ UNCHANGED <<sideVars, act, events>>

\* Step 3: what is left of the trade is a new order still to come.
TradeRest ==
  /\ pc = "tradeRest"
  /\ IF Remaining(act) > 0
     THEN /\ pending_liq_add_qty' = [pending_liq_add_qty EXCEPT
               ![side] = Increase(@, act.price, Remaining(act))]
          /\ Emit(<<OrderInfo("ADD", NoId, side, Remaining(act), act.price),
                    OrderInfo("EXEC", NoId, side, Remaining(act), act.price)>>)
     ELSE UNCHANGED <<pending_liq_add_qty, events>>
  /\ pc' = IF side THEN "done" ELSE "trade"
  /\ side' = TRUE
  /\ act' = [act EXCEPT !.filled_quantity = 0]
  /\ UNCHANGED <<levels, order_map, pending_liq_remove_qty, l2_snap_queue, cur, iter,
                 orders_to_remove>>

=============================================================================
