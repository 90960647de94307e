------------------------ MODULE SmartOrderBookProofs ------------------------
(***************************************************************************)
(* Proofs about SmartOrderBook, for any ids, prices, quantities and any    *)
(* number of messages in any order.                                        *)
(***************************************************************************)
EXTENDS BookSideProofs

-----------------------------------------------------------------------------
(* The inductive invariant.                                                *)

\* The order or trade being handled.
ActInv ==
  /\ act.filled_quantity <= act.quantity
  /\ act.kind \in {"ADD", "MODIFY"} => act.odid \in OrderId
  /\ pc \in {"matchAdd", "uncross"} => act.kind \in {"ADD", "MODIFY"}
  /\ pc \in {"fill", "remove"} => act.kind \in {"ADD", "MODIFY", "TRADE"}
  /\ pc \in {"trade", "sweep", "tradeRest"} => act.kind = "TRADE"
  /\ pc = "trade" => act.filled_quantity = 0

\* The walk over a level: it is the best level of its side, and while the
\* aggressor or trade has something left every order passed has nothing left.
WalkInv ==
  pc = "fill" =>
    /\ IsBegin(side, DOMAIN levels[side], cur)
    /\ iter <= Len(levels[side][cur].orders) + 1
    /\ Remaining(act) > 0 =>
         \A i \in 1 .. iter - 1 : Remaining(order_map[side][levels[side][cur].orders[i]]) = 0

\* processTrade after step 1: nothing is ahead of the trade, and if the walk
\* ended with some of the trade left, every order at its price is spent.
TradeInv ==
  pc \in {"fill", "remove"} /\ act.kind = "TRADE" =>
    /\ cur = act.price
    /\ \A p \in DOMAIN levels[side] : ~Before(side, p, act.price)
    /\ pc = "remove" /\ Remaining(act) > 0 /\ cur \in DOMAIN levels[side] =>
         \A i \in DOMAIN levels[side][cur].orders :
           Remaining(order_map[side][levels[side][cur].orders[i]]) = 0

IInv ==
  /\ TypeOK
  /\ BookConsistent
  /\ NoSpentOrders
  /\ ActInv
  /\ WalkInv
  /\ TradeInv
  /\ GuessOnlyWhenExhausted

-----------------------------------------------------------------------------
(* Every step keeps the invariant: first the steps that leave the book and *)
(* the list of spent orders alone.                                         *)

\* What is left of the order or trade being handled is never below zero.
LEMMA ActNat ==
  ASSUME TypeOK, ActInv
  PROVE  act \in Action /\ Remaining(act) \in Nat
BY DEF TypeOK, ActInv, Action, Remaining

\* The empty book satisfies the invariant.
LEMMA InitIInv == Init => IInv
<1> SUFFICES ASSUME Init PROVE IInv
  OBVIOUS
<1> USE DEF Init
<1>1. AnyPrice \in Price
  BY FeedAssumption DEF AnyPrice
<1>2. act \in Action
  BY <1>1 DEF Idle, Action
<1>3. \A s \in BOOLEAN : /\ IsMap(levels[s], Price, L3PriceLevel) /\ DOMAIN levels[s] = {}
                         /\ IsMap(order_map[s], OrderId, Order) /\ DOMAIN order_map[s] = {}
                         /\ IsMap(pending_liq_remove_qty[s], Price, Nat)
                         /\ IsMap(pending_liq_add_qty[s], Price, Nat)
                         /\ l2_snap_queue[s] \in Seq(SUBSET L2PriceLevel)
  BY EmptyMapOK
<1>4. TypeOK
  <2>1. /\ DOMAIN levels = BOOLEAN /\ DOMAIN order_map = BOOLEAN
        /\ DOMAIN pending_liq_remove_qty = BOOLEAN /\ DOMAIN pending_liq_add_qty = BOOLEAN
        /\ DOMAIN l2_snap_queue = BOOLEAN
    OBVIOUS
  <2>2. pc \in PC /\ cur \in Price /\ iter \in Nat \ {0}
    BY <1>1 DEF PC
  <2>4. side \in BOOLEAN
    OBVIOUS
  <2>3. orders_to_remove \in Seq(OrderId) /\ events \in Seq(Info)
    OBVIOUS
  <2> QED
    BY <2>1, <2>2, <2>3, <2>4, <1>2, <1>3 DEF TypeOK
<1>5. BookConsistent /\ NoSpentOrders
  BY <1>3 DEF BookConsistent, SideConsistent, NoSpentOrders
<1>6. ActInv /\ WalkInv /\ TradeInv /\ GuessOnlyWhenExhausted
  BY DEF ActInv, WalkInv, TradeInv, GuessOnlyWhenExhausted, Idle
<1> QED
  BY <1>4, <1>5, <1>6 DEF IInv

\* Outside the walk no order is spent, so a step that leaves the orders alone
\* keeps it so.
LEMMA SameOrders ==
  ASSUME IInv, UNCHANGED <<levels, order_map>>
  PROVE  /\ BookConsistent'
         /\ pc \notin {"fill", "remove"} => NoSpentOrders'
         /\ pc \in {"fill", "remove"} /\ UNCHANGED <<side, orders_to_remove>>
              /\ (pc' \in {"fill", "remove"} \/ orders_to_remove = << >>) => NoSpentOrders'
BY DEF IInv, BookConsistent, NoSpentOrders

\* An order takes no more than is pending, and no more than it has left.
LEMMA MatchPendingLiqAddStep == IInv /\ MatchPendingLiqAdd => IInv'
<1> SUFFICES ASSUME IInv, MatchPendingLiqAdd PROVE IInv'
  OBVIOUS
<1> USE DEF IInv
<1> DEFINE s == act.is_sell
           f == pending_liq_add_qty[s]
<1>1. /\ pc = "matchAdd"
      /\ UNCHANGED <<levels, order_map, pending_liq_remove_qty, l2_snap_queue, loopVars, events>>
  BY DEF MatchPendingLiqAdd
<1>2. PICK p \in DOMAIN f :
        /\ pending_liq_add_qty' = [pending_liq_add_qty EXCEPT
              ![s] = AfterMatchAdd(@, p, MinOf(f[p], Remaining(act)), act.price)]
        /\ act' = OrderFilled(act, MinOf(f[p], Remaining(act)))
        /\ pc' = IF Remaining(act) = MinOf(f[p], Remaining(act)) THEN "uncross" ELSE pc
  BY DEF MatchPendingLiqAdd
<1> DEFINE qty == MinOf(f[p], Remaining(act))
<1>3. act \in Action /\ Remaining(act) \in Nat /\ s \in BOOLEAN
  BY ActNat DEF Action
<1>4. IsMap(f, Price, Nat) /\ f[p] \in Nat
  BY <1>3 DEF TypeOK, IsMap
<1>5. qty \in Nat /\ qty <= f[p] /\ qty <= Remaining(act)
  BY <1>3, <1>4, MinOfNat
<1> HIDE DEF qty
<1>6. IsMap(AfterMatchAdd(f, p, qty, act.price), Price, Nat)
  <2>1. f[p] - qty \in Nat
    BY <1>4, <1>5
  <2> QED
    BY <2>1, <1>4 DEF AfterMatchAdd, IsMap, Erase, Restrict
<1>7. /\ act' \in Action /\ act'.kind = act.kind /\ act'.odid = act.odid
      /\ act'.filled_quantity <= act'.quantity
  BY <1>2, <1>3, <1>5, ActFilled DEF qty
<1>8. pc' \in {"matchAdd", "uncross"}
  BY <1>1, <1>2
<1>9. /\ DOMAIN pending_liq_add_qty' = BOOLEAN
      /\ \A t \in BOOLEAN : IsMap(pending_liq_add_qty'[t], Price, Nat)
  BY <1>2, <1>3, <1>6 DEF TypeOK, qty
<1>10. TypeOK'
  BY <1>1, <1>7, <1>8, <1>9 DEF TypeOK, PC, loopVars
<1>11. BookConsistent' /\ NoSpentOrders'
  BY <1>1, SameOrders
<1>12. ActInv'
  BY <1>1, <1>7, <1>8 DEF ActInv
<1>13. WalkInv' /\ TradeInv' /\ GuessOnlyWhenExhausted'
  BY <1>8 DEF WalkInv, TradeInv, GuessOnlyWhenExhausted
<1> QED
  BY <1>10, <1>11, <1>12, <1>13

\* Leaving the loop of matchPendingLiqAdd changes no member.
LEMMA MatchPendingLiqAddDoneStep == IInv /\ MatchPendingLiqAddDone => IInv'
<1> SUFFICES ASSUME IInv, MatchPendingLiqAddDone PROVE IInv'
  OBVIOUS
<1> USE DEF IInv
<1>1. /\ pc = "matchAdd" /\ pc' = "uncross"
      /\ UNCHANGED <<sideVars, act, loopVars, events>>
  BY DEF MatchPendingLiqAddDone
<1>2. TypeOK'
  BY <1>1 DEF TypeOK, PC, sideVars, loopVars
<1>3. BookConsistent' /\ NoSpentOrders'
  BY <1>1, SameOrders DEF sideVars
<1>4. ActInv' /\ WalkInv' /\ TradeInv' /\ GuessOnlyWhenExhausted'
  BY <1>1 DEF ActInv, WalkInv, TradeInv, GuessOnlyWhenExhausted
<1> QED
  BY <1>2, <1>3, <1>4

\* The walk starts at the front of the best level of the other side.
LEMMA UncrossStep == IInv /\ Uncross => IInv'
<1> SUFFICES ASSUME IInv, Uncross PROVE IInv'
  OBVIOUS
<1> USE DEF IInv
<1>1. pc = "uncross" /\ UNCHANGED <<sideVars, act, events>>
  BY DEF Uncross
<1>2. PICK p \in DOMAIN levels[~act.is_sell] :
        /\ IsBegin(~act.is_sell, DOMAIN levels[~act.is_sell], p)
        /\ WalkLevel(~act.is_sell, p)
  BY DEF Uncross
<1>3. (~act.is_sell) \in BOOLEAN
  BY DEF TypeOK, Action
<1>4. /\ pc' = "fill" /\ side' = ~act.is_sell /\ cur' = p /\ iter' = 1
      /\ orders_to_remove' = << >>
  BY <1>2 DEF WalkLevel
<1>5. p \in Price /\ levels[~act.is_sell][p].orders \in Seq(OrderId)
  BY <1>2, <1>3 DEF TypeOK, IsMap, L3PriceLevel
<1>6. TypeOK'
  BY <1>1, <1>3, <1>4, <1>5 DEF TypeOK, PC, sideVars
<1>7. BookConsistent' /\ NoSpentOrders'
  BY <1>1, SameOrders DEF sideVars
<1>8. ActInv' /\ TradeInv' /\ GuessOnlyWhenExhausted'
  BY <1>1, <1>4 DEF ActInv, TradeInv, GuessOnlyWhenExhausted
<1>9. WalkInv'
  BY <1>1, <1>2, <1>4, <1>5 DEF WalkInv, sideVars
<1> QED
  BY <1>6, <1>7, <1>8, <1>9

\* The walk ends at the end of the list or when nothing is left to fill.
LEMMA FillDoneStep == IInv /\ FillDone => IInv'
<1> SUFFICES ASSUME IInv, FillDone PROVE IInv'
  OBVIOUS
<1> USE DEF IInv
<1>1. /\ pc = "fill" /\ pc' = "remove"
      /\ iter > Len(levels[side][cur].orders) \/ Remaining(act) = 0
      /\ UNCHANGED <<sideVars, act, loopVars, events>>
  BY DEF FillDone
<1>2. TypeOK'
  BY <1>1 DEF TypeOK, PC, sideVars, loopVars
<1>3. BookConsistent' /\ NoSpentOrders'
  BY <1>1, SameOrders DEF sideVars, loopVars
<1>4. ActInv' /\ WalkInv' /\ GuessOnlyWhenExhausted'
  BY <1>1 DEF ActInv, WalkInv, GuessOnlyWhenExhausted
<1>5. cur \in DOMAIN levels[side] /\ levels[side][cur].orders \in Seq(OrderId)
  BY <1>1 DEF WalkInv, IsBegin, TypeOK, IsMap, L3PriceLevel
<1>6. Remaining(act) > 0 => \A i \in DOMAIN levels[side][cur].orders :
                              Remaining(order_map[side][levels[side][cur].orders[i]]) = 0
  <2> DEFINE list == levels[side][cur].orders
  <2> SUFFICES ASSUME Remaining(act) > 0, NEW i \in DOMAIN list
               PROVE  Remaining(order_map[side][list[i]]) = 0
    OBVIOUS
  <2>1. \A j \in 1 .. iter - 1 : Remaining(order_map[side][list[j]]) = 0
    BY <1>1 DEF WalkInv
  <2>2. iter > Len(list) /\ iter \in Nat /\ list \in Seq(OrderId)
    BY <1>1, <1>5 DEF TypeOK
  <2> HIDE DEF list
  <2>3. i \in 1 .. iter - 1
    BY <2>2
  <2> QED
    BY <2>1, <2>3
<1>7. TradeInv'
  BY <1>1, <1>6 DEF TradeInv, sideVars, loopVars
<1> QED
  BY <1>2, <1>3, <1>4, <1>7

\* No spent order is left, so a trade with something left has used its level up.
LEMMA RemoveFilledDoneStep == IInv /\ RemoveFilledDone => IInv'
<1> SUFFICES ASSUME IInv, RemoveFilledDone PROVE IInv'
  OBVIOUS
<1> USE DEF IInv
<1>1. /\ pc = "remove" /\ orders_to_remove = << >>
      /\ pc' = IF act.kind = "TRADE" THEN "tradeRest" ELSE "uncross"
      /\ UNCHANGED <<sideVars, act, loopVars, events>>
  BY DEF RemoveFilledDone
<1>2. TypeOK'
  BY <1>1 DEF TypeOK, PC, sideVars, loopVars
<1>3. BookConsistent' /\ NoSpentOrders'
  BY <1>1, SameOrders DEF sideVars, loopVars
<1>4. ActInv'
  BY <1>1 DEF ActInv, sideVars
<1>5. WalkInv' /\ TradeInv'
  BY <1>1 DEF WalkInv, TradeInv
<1>6. GuessOnlyWhenExhausted'
  <2> SUFFICES ASSUME act.kind = "TRADE", Remaining(act) > 0, NEW p \in DOMAIN levels[side]
               PROVE  Before(side, act.price, p)
    BY <1>1 DEF GuessOnlyWhenExhausted, sideVars, loopVars
  <2>1. cur = act.price /\ ~Before(side, p, act.price)
    BY <1>1 DEF TradeInv
  \* The level at the trade's price would list an order that is not spent.
  <2>2. cur \notin DOMAIN levels[side]
    <3> SUFFICES ASSUME cur \in DOMAIN levels[side] PROVE FALSE
      OBVIOUS
    <3>1. /\ levels[side][cur].orders # << >>
          /\ levels[side][cur].orders \in Seq(OrderId)
          /\ side \in BOOLEAN
      BY DEF TypeOK, IsMap, L3PriceLevel, BookConsistent, SideConsistent
    <3>2. 1 \in DOMAIN levels[side][cur].orders
      BY <3>1
    <3>3. Remaining(order_map[side][levels[side][cur].orders[1]]) = 0
      BY <1>1, <3>2 DEF TradeInv
    <3>4. levels[side][cur].orders[1] \in DOMAIN order_map[side]
      BY <3>1, <3>2 DEF BookConsistent, SideConsistent
    <3> QED
      BY <1>1, <3>1, <3>3, <3>4 DEF NoSpentOrders
  <2>3. act.price \in Int /\ p \in Int /\ p # act.price
    BY <2>1, <2>2, LevelAssumption DEF TypeOK, Action, IsMap
  <2> QED
    BY <2>1, <2>3 DEF Before
<1> QED
  BY <1>2, <1>3, <1>4, <1>5, <1>6

\* The part of a trade that was expected is filled from the pending quantity.
LEMMA TradeMatchStep == IInv /\ TradeMatch => IInv'
<1> SUFFICES ASSUME IInv, TradeMatch PROVE IInv'
  OBVIOUS
<1> USE DEF IInv
<1> DEFINE f == pending_liq_remove_qty[side]
           m == MatchedRemove(f, act.quantity, act.price)
<1>1. /\ pc = "trade" /\ pc' = "sweep"
      /\ act' = OrderFilled(act, m)
      /\ pending_liq_remove_qty' = [pending_liq_remove_qty EXCEPT
            ![side] = AfterMatchRemove(@, act.quantity, act.price)]
      /\ UNCHANGED <<levels, order_map, pending_liq_add_qty, l2_snap_queue, loopVars, events>>
  BY DEF TradeMatch, matchPendingLiqRemove
<1>2. /\ act \in Action /\ act.quantity \in Nat /\ side \in BOOLEAN
      /\ Remaining(act) = act.quantity /\ act.kind = "TRADE"
  BY <1>1 DEF TypeOK, Action, ActInv, Remaining
<1>3. IsMap(f, Price, Nat)
  BY <1>2 DEF TypeOK
<1>4. m \in Nat /\ m <= act.quantity
  BY <1>2, <1>3, MatchRemoveOK
<1>5. IsMap(AfterMatchRemove(f, act.quantity, act.price), Price, Nat)
  BY <1>2, <1>3, MatchRemoveOK
<1> HIDE DEF m
<1>6. /\ act' \in Action /\ act'.kind = act.kind /\ act'.odid = act.odid
      /\ act'.filled_quantity <= act'.quantity
  BY <1>1, <1>2, <1>4, ActFilled
<1>7. /\ DOMAIN pending_liq_remove_qty' = BOOLEAN
      /\ \A t \in BOOLEAN : IsMap(pending_liq_remove_qty'[t], Price, Nat)
  BY <1>1, <1>2, <1>5 DEF TypeOK
<1>8. TypeOK'
  BY <1>1, <1>6, <1>7 DEF TypeOK, PC, loopVars
<1>9. BookConsistent' /\ NoSpentOrders'
  BY <1>1, SameOrders
<1>10. ActInv' /\ WalkInv' /\ TradeInv' /\ GuessOnlyWhenExhausted'
  BY <1>1, <1>2, <1>6 DEF ActInv, WalkInv, TradeInv, GuessOnlyWhenExhausted
<1> QED
  BY <1>8, <1>9, <1>10

\* Nothing is ahead of the trade any more: the walk starts at its price.
LEMMA SweepDoneStep == IInv /\ SweepDone => IInv'
<1> SUFFICES ASSUME IInv, SweepDone PROVE IInv'
  OBVIOUS
<1> USE DEF IInv
<1>1. /\ pc = "sweep" /\ UNCHANGED <<sideVars, act, events>>
      /\ \A p \in DOMAIN levels[side] : ~Before(side, p, act.price)
  BY DEF SweepDone
<1>2. act.kind = "TRADE" /\ act.price \in Price /\ act.price \in Int
  BY <1>1, LevelAssumption DEF TypeOK, Action, ActInv
<1>3. BookConsistent' /\ NoSpentOrders'
  BY <1>1, SameOrders DEF sideVars
<1>4. CASE act.price \in DOMAIN levels[side]
  <2>1. /\ pc' = "fill" /\ side' = side /\ cur' = act.price /\ iter' = 1
        /\ orders_to_remove' = << >>
    BY <1>4 DEF SweepDone, WalkLevel
  <2>2. levels[side][act.price].orders \in Seq(OrderId)
    BY <1>4 DEF TypeOK, IsMap, L3PriceLevel
  <2>3. TypeOK'
    BY <1>1, <1>2, <2>1 DEF TypeOK, PC, sideVars
  <2>4. ActInv' /\ TradeInv' /\ GuessOnlyWhenExhausted'
    BY <1>1, <1>2, <2>1 DEF ActInv, TradeInv, GuessOnlyWhenExhausted, sideVars
  <2>5. WalkInv'
    BY <1>1, <1>4, <2>1, <2>2 DEF WalkInv, IsBegin, sideVars
  <2> QED
    BY <1>3, <2>3, <2>4, <2>5
<1>5. CASE act.price \notin DOMAIN levels[side]
  <2>1. pc' = "tradeRest" /\ UNCHANGED loopVars
    BY <1>5 DEF SweepDone
  <2>2. TypeOK'
    BY <1>1, <2>1 DEF TypeOK, PC, sideVars, loopVars
  <2>3. ActInv' /\ TradeInv' /\ WalkInv'
    BY <1>1, <1>2, <2>1 DEF ActInv, TradeInv, WalkInv
  <2>4. \A p \in DOMAIN levels[side] : Before(side, act.price, p)
    <3> SUFFICES ASSUME NEW p \in DOMAIN levels[side] PROVE Before(side, act.price, p)
      OBVIOUS
    <3>1. p \in Int /\ p # act.price
      BY <1>5, LevelAssumption DEF TypeOK, IsMap
    <3> QED
      BY <3>1, <1>1, <1>2 DEF Before
  <2>5. GuessOnlyWhenExhausted'
    BY <1>1, <2>1, <2>4 DEF GuessOnlyWhenExhausted, sideVars, loopVars
  <2> QED
    BY <1>3, <2>2, <2>3, <2>5
<1> QED
  BY <1>4, <1>5

\* What the book could not supply becomes a pending order.
LEMMA TradeRestStep == IInv /\ TradeRest => IInv'
<1> SUFFICES ASSUME IInv, TradeRest PROVE IInv'
  OBVIOUS
<1> USE DEF IInv
<1>1. /\ pc = "tradeRest" /\ pc' = (IF side THEN "done" ELSE "trade") /\ side' = TRUE
      /\ act' = [act EXCEPT !.filled_quantity = 0]
      /\ UNCHANGED <<levels, order_map, pending_liq_remove_qty, l2_snap_queue, cur, iter,
                     orders_to_remove>>
  BY DEF TradeRest
<1>2. act \in Action /\ Remaining(act) \in Nat /\ side \in BOOLEAN /\ act.price \in Price
  BY ActNat DEF TypeOK, Action
<1>3. /\ act' \in Action /\ act'.kind = act.kind /\ act'.odid = act.odid
      /\ act'.filled_quantity = 0 /\ act'.quantity \in Nat
  BY <1>1, <1>2 DEF Action
<1>4. pc' \in {"done", "trade"}
  BY <1>1
<1>5. /\ DOMAIN pending_liq_add_qty' = BOOLEAN
      /\ \A t \in BOOLEAN : IsMap(pending_liq_add_qty'[t], Price, Nat)
      /\ events' \in Seq(Info)
  <2>1. CASE Remaining(act) > 0
    <3>1. /\ pending_liq_add_qty' = [pending_liq_add_qty EXCEPT
                ![side] = Increase(@, act.price, Remaining(act))]
          /\ Emit(<<OrderInfo("ADD", NoId, side, Remaining(act), act.price),
                    OrderInfo("EXEC", NoId, side, Remaining(act), act.price)>>)
      BY <2>1 DEF TradeRest
    <3>2. IsMap(Increase(pending_liq_add_qty[side], act.price, Remaining(act)), Price, Nat)
      BY <1>2, IncreaseOK DEF TypeOK
    <3>3. /\ OrderInfo("ADD", NoId, side, Remaining(act), act.price) \in Info
          /\ OrderInfo("EXEC", NoId, side, Remaining(act), act.price) \in Info
      BY <1>2 DEF OrderInfo, Info
    <3>4. events' \in Seq(Info)
      BY <3>1, <3>3 DEF Emit, mergeEvents, TypeOK
    <3> QED
      BY <3>1, <3>2, <3>4, <1>2 DEF TypeOK
  <2>2. CASE ~(Remaining(act) > 0)
    BY <2>2 DEF TradeRest, TypeOK
  <2> QED
    BY <2>1, <2>2
<1>6. TypeOK'
  BY <1>1, <1>3, <1>4, <1>5 DEF TypeOK, PC
<1>7. BookConsistent' /\ NoSpentOrders'
  BY <1>1, SameOrders
<1>8. ActInv' /\ WalkInv' /\ TradeInv' /\ GuessOnlyWhenExhausted'
  BY <1>1, <1>3, <1>4 DEF ActInv, WalkInv, TradeInv, GuessOnlyWhenExhausted
<1> QED
  BY <1>6, <1>7, <1>8

\* The locals are gone when the handler returns.
LEMMA ReturnStep == IInv /\ Return => IInv'
<1> SUFFICES ASSUME IInv, Return PROVE IInv'
  OBVIOUS
<1> USE DEF IInv
<1>1. /\ pc = "done" /\ pc' = "idle" /\ act' = Idle /\ side' = FALSE /\ cur' = AnyPrice
      /\ iter' = 1 /\ orders_to_remove' = << >>
      /\ UNCHANGED <<sideVars, events>>
  BY DEF Return
<1>2. AnyPrice \in Price
  BY FeedAssumption DEF AnyPrice
<1>3. Idle \in Action /\ Idle.kind = "NONE" /\ Idle.filled_quantity = Idle.quantity
      /\ Idle.quantity = 0
  BY <1>2 DEF Idle, Action
<1>4. TypeOK'
  <2>1. pc' \in PC /\ cur' \in Price /\ iter' \in Nat \ {0} /\ orders_to_remove' \in Seq(OrderId)
    BY <1>1, <1>2 DEF PC
  <2>2. side' \in BOOLEAN
    BY <1>1
  <2> QED
    BY <2>1, <2>2, <1>1, <1>3 DEF TypeOK, sideVars
<1>5. BookConsistent' /\ NoSpentOrders'
  BY <1>1, SameOrders DEF sideVars
<1>6. ActInv' /\ WalkInv' /\ TradeInv' /\ GuessOnlyWhenExhausted'
  BY <1>1, <1>3 DEF ActInv, WalkInv, TradeInv, GuessOnlyWhenExhausted
<1> QED
  BY <1>4, <1>5, <1>6

-----------------------------------------------------------------------------
(* The steps that change the book.                                         *)

\* removeOrder of the next spent order.
LEMMA RemoveFilledStep == IInv /\ RemoveFilled => IInv'
<1> SUFFICES ASSUME IInv, RemoveFilled PROVE IInv'
  OBVIOUS
<1> USE DEF IInv
<1> DEFINE id == Head(orders_to_remove)
<1>1. /\ pc = "remove" /\ orders_to_remove # << >>
      /\ removeOrder(side, id)
      /\ orders_to_remove' = Tail(orders_to_remove)
      /\ UNCHANGED <<pending_liq_remove_qty, pending_liq_add_qty, pc, act, side, cur, iter, events>>
  BY DEF RemoveFilled
<1>2. side \in BOOLEAN /\ orders_to_remove \in Seq(OrderId)
  BY DEF TypeOK
<1>3. /\ orders_to_remove' \in Seq(OrderId)
      /\ \A k \in DOMAIN orders_to_remove :
           orders_to_remove[k] # id => \E j \in DOMAIN orders_to_remove' :
                                         orders_to_remove'[j] = orders_to_remove[k]
  <2>1. /\ orders_to_remove' \in Seq(OrderId)
        /\ Len(orders_to_remove') = Len(orders_to_remove) - 1
        /\ \A j \in 1 .. Len(orders_to_remove) - 1 : orders_to_remove'[j] = orders_to_remove[j + 1]
        /\ id = orders_to_remove[1]
        /\ Len(orders_to_remove) \in Nat
    BY <1>1, <1>2
  <2>2. ASSUME NEW k \in DOMAIN orders_to_remove, orders_to_remove[k] # id
        PROVE  \E j \in DOMAIN orders_to_remove' : orders_to_remove'[j] = orders_to_remove[k]
    <3>1. k \in 2 .. Len(orders_to_remove)
      BY <2>1, <2>2, <1>2
    <3>2. k - 1 \in DOMAIN orders_to_remove' /\ orders_to_remove'[k - 1] = orders_to_remove[k]
      BY <3>1, <2>1
    <3> QED
      BY <3>2
  <2> QED
    BY <2>1, <2>2
<1> HIDE DEF id
<1>4. /\ DOMAIN levels' = BOOLEAN /\ DOMAIN order_map' = BOOLEAN
      /\ \A t \in BOOLEAN : SideOK(levels'[t], order_map'[t])
      /\ \A t \in BOOLEAN : t # side => levels'[t] = levels[t] /\ order_map'[t] = order_map[t]
      /\ DOMAIN levels'[side] \subseteq DOMAIN levels[side]
      /\ DOMAIN order_map'[side] = DOMAIN order_map[side] \ {id}
      /\ \A x \in DOMAIN order_map[side] \ {id} : order_map'[side][x] = order_map[side][x]
      /\ \A q \in DOMAIN levels'[side] : \A i \in DOMAIN levels'[side][q].orders :
           \E j \in DOMAIN levels[side][q].orders :
             levels[side][q].orders[j] = levels'[side][q].orders[i]
  BY <1>1, <1>2, RemoveOrderStep
<1>5. /\ BookConsistent'
      /\ \A s \in BOOLEAN : /\ IsMap(levels'[s], Price, L3PriceLevel)
                            /\ IsMap(order_map'[s], OrderId, Order)
  BY <1>4, BookFromSides
<1>6. /\ DOMAIN l2_snap_queue' = BOOLEAN
      /\ \A t \in BOOLEAN : l2_snap_queue'[t] \in Seq(SUBSET L2PriceLevel)
  <2>1. CASE act.kind = "TRADE"
    BY <2>1, <1>2, <1>5, SaveOK DEF RemoveFilled
  <2>2. CASE act.kind # "TRADE"
    BY <2>2 DEF RemoveFilled, TypeOK
  <2> QED
    BY <2>1, <2>2
<1>7. TypeOK'
  BY <1>1, <1>3, <1>4, <1>5, <1>6 DEF TypeOK
<1>8. NoSpentOrders'
  BY <1>1, <1>2, <1>3, <1>4 DEF NoSpentOrders
<1>9. ActInv' /\ WalkInv' /\ GuessOnlyWhenExhausted'
  BY <1>1 DEF ActInv, WalkInv, GuessOnlyWhenExhausted
<1>10. TradeInv'
  <2> SUFFICES ASSUME act.kind = "TRADE"
               PROVE  /\ cur = act.price
                      /\ \A p \in DOMAIN levels'[side] : ~Before(side, p, act.price)
                      /\ Remaining(act) > 0 /\ cur \in DOMAIN levels'[side] =>
                           \A i \in DOMAIN levels'[side][cur].orders :
                             Remaining(order_map'[side][levels'[side][cur].orders[i]]) = 0
    BY <1>1 DEF TradeInv
  <2>1. cur = act.price /\ \A p \in DOMAIN levels'[side] : ~Before(side, p, act.price)
    BY <1>1, <1>4 DEF TradeInv
  <2>2. ASSUME Remaining(act) > 0, cur \in DOMAIN levels'[side],
               NEW i \in DOMAIN levels'[side][cur].orders
        PROVE  Remaining(order_map'[side][levels'[side][cur].orders[i]]) = 0
    <3>1. levels'[side][cur].orders[i] \in DOMAIN order_map'[side]
      BY <2>2, <1>2, <1>4 DEF SideOK, SideConsistent
    <3>2. PICK j \in DOMAIN levels[side][cur].orders :
            levels[side][cur].orders[j] = levels'[side][cur].orders[i]
      BY <2>2, <1>4
    <3>3. Remaining(order_map[side][levels[side][cur].orders[j]]) = 0
      BY <2>2, <1>1, <1>4 DEF TradeInv
    <3> QED
      BY <3>1, <3>2, <3>3, <1>4
  <2> QED
    BY <2>1, <2>2
<1> QED
  BY <1>5, <1>7, <1>8, <1>9, <1>10

\* removeOrder of the first order of a level ahead of the trade.
LEMMA SweepStep == IInv /\ Sweep => IInv'
<1> SUFFICES ASSUME IInv, Sweep PROVE IInv'
  OBVIOUS
<1> USE DEF IInv
<1>1. /\ pc = "sweep" /\ saveL2SnapshotSide(side)
      /\ UNCHANGED <<pending_liq_remove_qty, pending_liq_add_qty, pc, act, loopVars>>
  BY DEF Sweep
<1>2. PICK p \in DOMAIN levels[side] :
        /\ removeOrder(side, Head(levels[side][p].orders))
        /\ Emit(<<OrderInfo("CANCEL", Head(levels[side][p].orders), side,
                            order_map[side][Head(levels[side][p].orders)].quantity, p)>>)
  BY DEF Sweep
<1> DEFINE id == Head(levels[side][p].orders)
<1>3. side \in BOOLEAN /\ p \in Price
  BY DEF TypeOK, IsMap
<1>4. id \in DOMAIN order_map[side]
  <2>1. /\ levels[side][p].orders \in Seq(OrderId)
        /\ levels[side][p].orders # << >>
    BY <1>3 DEF TypeOK, IsMap, L3PriceLevel, BookConsistent, SideConsistent
  <2>2. id = levels[side][p].orders[1] /\ 1 \in DOMAIN levels[side][p].orders
    BY <2>1
  <2> QED
    BY <2>2, <1>3 DEF BookConsistent, SideConsistent
<1> HIDE DEF id
<1>5. /\ DOMAIN levels' = BOOLEAN /\ DOMAIN order_map' = BOOLEAN
      /\ \A t \in BOOLEAN : SideOK(levels'[t], order_map'[t])
      /\ \A t \in BOOLEAN : t # side => order_map'[t] = order_map[t]
      /\ DOMAIN order_map'[side] = DOMAIN order_map[side] \ {id}
      /\ \A x \in DOMAIN order_map[side] \ {id} : order_map'[side][x] = order_map[side][x]
  BY <1>2, <1>3, RemoveOrderStep DEF id
<1>6. /\ BookConsistent'
      /\ \A s \in BOOLEAN : /\ IsMap(levels'[s], Price, L3PriceLevel)
                            /\ IsMap(order_map'[s], OrderId, Order)
  BY <1>5, BookFromSides
<1>7. /\ DOMAIN l2_snap_queue' = BOOLEAN
      /\ \A t \in BOOLEAN : l2_snap_queue'[t] \in Seq(SUBSET L2PriceLevel)
  BY <1>1, <1>3, <1>6, SaveOK
<1>8. events' \in Seq(Info)
  <2>1. id \in OrderId /\ order_map[side][id].quantity \in Int
    BY <1>3, <1>4 DEF TypeOK, IsMap, Order
  <2>2. OrderInfo("CANCEL", id, side, order_map[side][id].quantity, p) \in Info
    BY <2>1, <1>3 DEF OrderInfo, Info
  <2> QED
    BY <2>2, <1>2, EmitOK DEF id
<1>9. TypeOK'
  BY <1>1, <1>5, <1>6, <1>7, <1>8 DEF TypeOK, loopVars
<1>10. NoSpentOrders'
  BY <1>1, <1>3, <1>5 DEF NoSpentOrders
<1>11. ActInv' /\ WalkInv' /\ TradeInv' /\ GuessOnlyWhenExhausted'
  BY <1>1 DEF ActInv, WalkInv, TradeInv, GuessOnlyWhenExhausted
<1> QED
  BY <1>6, <1>9, <1>10, <1>11

\* A fill moves one order and its aggressor by the same quantity.
LEMMA FillStep == IInv /\ Fill => IInv'
<1> SUFFICES ASSUME IInv, Fill PROVE IInv'
  OBVIOUS
<1> USE DEF IInv
<1> DEFINE list == levels[side][cur].orders
           id   == list[iter]
           qty  == MinOf(Remaining(act), Remaining(order_map[side][id]))
           L2   == [levels[side] EXCEPT ![cur] = LevelFillOrder(@, qty)]
           M2   == [order_map[side] EXCEPT ![id] = OrderFilled(@, qty)]
<1>1. /\ pc = "fill" /\ iter <= Len(list) /\ Remaining(act) > 0
      /\ levels' = [levels EXCEPT ![side][cur] = LevelFillOrder(@, qty)]
      /\ order_map' = [order_map EXCEPT ![side][id] = OrderFilled(@, qty)]
      /\ saveL2SnapshotSide(side)
      /\ orders_to_remove' = IF Remaining(order_map[side][id]) = qty
                             THEN Append(orders_to_remove, id) ELSE orders_to_remove
      /\ Emit(<<OrderInfo("EXEC", id, side, qty, cur)>>)
      /\ IF act.kind = "TRADE" THEN UNCHANGED pending_liq_remove_qty ELSE ExpectTrade(cur, qty)
      /\ act' = OrderFilled(act, qty)
      /\ iter' = iter + 1
      /\ UNCHANGED <<pending_liq_add_qty, pc, side, cur>>
  BY DEF Fill
<1>2. side \in BOOLEAN /\ cur \in Price /\ iter \in Nat \ {0} /\ DOMAIN levels = BOOLEAN
      /\ DOMAIN order_map = BOOLEAN
  BY DEF TypeOK
<1>3. cur \in DOMAIN levels[side] /\ list \in Seq(OrderId)
  BY <1>1, <1>2 DEF WalkInv, IsBegin, TypeOK, IsMap, L3PriceLevel
<1>4. iter \in DOMAIN list
  BY <1>1, <1>2, <1>3
<1>5. id \in DOMAIN order_map[side] /\ id \in OrderId /\ order_map[side][id] \in Order
  BY <1>2, <1>3, <1>4 DEF BookConsistent, SideConsistent, TypeOK, IsMap
<1>6. SideOK(levels[side], order_map[side])
  BY <1>2, SidesOK
<1>7. Remaining(order_map[side][id]) \in Nat
  BY <1>5, <1>6 DEF SideOK, Remaining, Order
<1>8. act \in Action /\ Remaining(act) \in Nat
  BY ActNat
<1>9. qty \in Nat /\ qty <= Remaining(act) /\ qty <= Remaining(order_map[side][id])
  BY <1>7, <1>8, MinOfNat
<1>10. qty = Remaining(act) \/ qty = Remaining(order_map[side][id])
  BY DEF MinOf
<1>11. levels' = [levels EXCEPT ![side] = L2] /\ order_map' = [order_map EXCEPT ![side] = M2]
  BY <1>1, <1>2
<1> HIDE DEF qty
<1>12. /\ SideOK(L2, M2)
       /\ DOMAIN L2 = DOMAIN levels[side]
       /\ \A q \in DOMAIN levels[side] : L2[q].orders = levels[side][q].orders
       /\ DOMAIN M2 = DOMAIN order_map[side]
       /\ \A x \in DOMAIN order_map[side] : x # id => M2[x] = order_map[side][x]
       /\ M2[id] = OrderFilled(order_map[side][id], qty)
  <2>1. id \in DOMAIN order_map[side] /\ cur \in DOMAIN levels[side]
    BY <1>3, <1>5
  <2>2. qty \in Nat /\ qty <= Remaining(order_map[side][id])
    BY <1>9
  <2> HIDE DEF id, list
  <2> QED
    BY <2>1, <2>2, <1>6, FillSideOK
<1> HIDE DEF L2, M2, id
<1>13. /\ DOMAIN levels' = BOOLEAN /\ DOMAIN order_map' = BOOLEAN
       /\ levels'[side] = L2 /\ order_map'[side] = M2
       /\ \A t \in BOOLEAN : t # side => levels'[t] = levels[t] /\ order_map'[t] = order_map[t]
  BY <1>2, <1>11
<1>14. \A t \in BOOLEAN : SideOK(levels'[t], order_map'[t])
  BY <1>12, <1>13, SidesOK
<1>15. /\ BookConsistent'
       /\ \A s \in BOOLEAN : /\ IsMap(levels'[s], Price, L3PriceLevel)
                             /\ IsMap(order_map'[s], OrderId, Order)
  BY <1>14, BookFromSides
<1>16. /\ act' \in Action /\ act'.kind = act.kind /\ act'.odid = act.odid
       /\ act'.price = act.price /\ act'.filled_quantity <= act'.quantity
       /\ Remaining(act') = Remaining(act) - qty
  BY <1>1, <1>8, <1>9, ActFilled
<1>17. Remaining(M2[id]) = Remaining(order_map[side][id]) - qty
  BY <1>5, <1>9, <1>12 DEF Remaining, Order, OrderFilled
<1>18. /\ orders_to_remove' \in Seq(OrderId)
       /\ \A k \in DOMAIN orders_to_remove : /\ k \in DOMAIN orders_to_remove'
                                             /\ orders_to_remove'[k] = orders_to_remove[k]
       /\ Remaining(M2[id]) = 0 => \E k \in DOMAIN orders_to_remove' : orders_to_remove'[k] = id
  <2>1. orders_to_remove \in Seq(OrderId)
    BY DEF TypeOK
  <2>2. CASE Remaining(order_map[side][id]) = qty
    <3>1. orders_to_remove' = Append(orders_to_remove, id)
      BY <2>2, <1>1 DEF id, qty
    <3>2. /\ Len(orders_to_remove) + 1 \in DOMAIN orders_to_remove'
          /\ orders_to_remove'[Len(orders_to_remove) + 1] = id
      BY <2>1, <3>1, <1>5
    <3> QED
      BY <2>1, <3>1, <3>2, <1>5
  <2>3. CASE Remaining(order_map[side][id]) # qty
    <3>1. orders_to_remove' = orders_to_remove
      BY <2>3, <1>1 DEF id, qty
    <3> QED
      BY <2>1, <2>3, <3>1, <1>7, <1>9, <1>17
  <2> QED
    BY <2>2, <2>3
<1>19. /\ DOMAIN pending_liq_remove_qty' = BOOLEAN
       /\ \A t \in BOOLEAN : IsMap(pending_liq_remove_qty'[t], Price, Nat)
  <2>1. CASE act.kind = "TRADE"
    BY <2>1, <1>1 DEF TypeOK
  <2>2. CASE act.kind # "TRADE"
    <3>1. pending_liq_remove_qty' =
            [t \in BOOLEAN |-> Increase(pending_liq_remove_qty[t], cur, qty)]
      BY <2>2, <1>1 DEF ExpectTrade, qty, id
    <3>2. \A t \in BOOLEAN : IsMap(Increase(pending_liq_remove_qty[t], cur, qty), Price, Nat)
      BY <1>2, <1>9, IncreaseOK DEF TypeOK
    <3> QED
      BY <3>1, <3>2
  <2> QED
    BY <2>1, <2>2
<1>20. /\ DOMAIN l2_snap_queue' = BOOLEAN
       /\ \A t \in BOOLEAN : l2_snap_queue'[t] \in Seq(SUBSET L2PriceLevel)
  BY <1>1, <1>2, <1>15, SaveOK
<1>21. events' \in Seq(Info)
  <2>1. OrderInfo("EXEC", id, side, qty, cur) \in Info
    BY <1>2, <1>5, <1>9 DEF OrderInfo, Info
  <2>2. Emit(<<OrderInfo("EXEC", id, side, qty, cur)>>)
    BY <1>1 DEF id, qty
  <2> QED
    BY <2>1, <2>2, EmitOK
<1>22. TypeOK'
  <2>1. iter' \in Nat \ {0}
    BY <1>1, <1>2
  <2>2. /\ DOMAIN pending_liq_add_qty' = BOOLEAN
        /\ \A t \in BOOLEAN : IsMap(pending_liq_add_qty'[t], Price, Nat)
        /\ pc' \in PC /\ side' \in BOOLEAN /\ cur' \in Price
    BY <1>1 DEF TypeOK
  <2> QED
    BY <2>1, <2>2, <1>13, <1>15, <1>16, <1>18, <1>19, <1>20, <1>21 DEF TypeOK
<1>23. NoSpentOrders'
  <2> SUFFICES ASSUME NEW s \in BOOLEAN, NEW x \in DOMAIN order_map'[s]
               PROVE  \/ Remaining(order_map'[s][x]) > 0
                      \/ /\ s = side
                         /\ Remaining(order_map'[s][x]) = 0
                         /\ \E k \in DOMAIN orders_to_remove' : orders_to_remove'[k] = x
    BY <1>1 DEF NoSpentOrders
  <2>1. CASE s = side /\ x = id
    BY <2>1, <1>7, <1>9, <1>13, <1>17, <1>18
  <2>2. CASE ~(s = side /\ x = id)
    <3>1. x \in DOMAIN order_map[s] /\ order_map'[s][x] = order_map[s][x]
      BY <2>2, <1>12, <1>13
    <3>2. \/ Remaining(order_map[s][x]) > 0
          \/ /\ s = side
             /\ Remaining(order_map[s][x]) = 0
             /\ \E k \in DOMAIN orders_to_remove : orders_to_remove[k] = x
      BY <3>1 DEF NoSpentOrders
    <3> QED
      BY <3>1, <3>2, <1>18
  <2> QED
    BY <2>1, <2>2
<1>24. ActInv'
  BY <1>1, <1>16 DEF ActInv
<1>25. WalkInv'
  <2>1. levels'[side][cur].orders = list /\ DOMAIN levels'[side] = DOMAIN levels[side]
    BY <1>3, <1>12, <1>13
  <2>2. IsBegin(side, DOMAIN levels'[side], cur)
    BY <2>1, <1>1 DEF WalkInv
  <2>3. iter + 1 <= Len(list) + 1
    BY <1>1, <1>2, <1>3
  \* The aggressor has something left only if this order has not, and no order
  \* is twice in the list.
  <2>4. ASSUME Remaining(act') > 0, NEW i \in 1 .. iter
        PROVE  Remaining(order_map'[side][list[i]]) = 0
    <3>1. Remaining(M2[id]) = 0
      BY <2>4, <1>7, <1>8, <1>9, <1>10, <1>16, <1>17
    <3>2. CASE i = iter
      BY <3>1, <3>2, <1>13 DEF id
    <3>3. CASE i # iter
      <4>1. i \in 1 .. iter - 1 /\ i \in DOMAIN list
        BY <3>3, <1>2, <1>3, <1>4
      <4>2. list[i] # id
        BY <3>3, <4>1, <1>2, <1>3, <1>4 DEF BookConsistent, SideConsistent, id
      <4>3. list[i] \in DOMAIN order_map[side] /\ Remaining(order_map[side][list[i]]) = 0
        BY <4>1, <1>1, <1>2, <1>3 DEF BookConsistent, SideConsistent, WalkInv
      <4> QED
        BY <4>2, <4>3, <1>12, <1>13
    <3> QED
      BY <3>2, <3>3
  <2> QED
    BY <2>1, <2>2, <2>3, <2>4, <1>1, <1>2 DEF WalkInv
<1>26. TradeInv'
  BY <1>1, <1>12, <1>13, <1>16 DEF TradeInv
<1>27. GuessOnlyWhenExhausted'
  BY <1>1 DEF GuessOnlyWhenExhausted
<1> QED
  BY <1>15, <1>22, <1>23, <1>24, <1>25, <1>26, <1>27

\* What is left of the order rests, unless its id is taken.
LEMMA RestOrderStep == IInv /\ RestOrder => IInv'
<1> SUFFICES ASSUME IInv, RestOrder PROVE IInv'
  OBVIOUS
<1> USE DEF IInv
<1> DEFINE o == [quantity |-> act.quantity, price |-> act.price,
                 filled_quantity |-> act.filled_quantity]
<1>1. /\ pc = "uncross" /\ pc' = "done"
      /\ UNCHANGED <<pending_liq_remove_qty, pending_liq_add_qty, l2_snap_queue, act, loopVars>>
  BY DEF RestOrder
<1>2. /\ act \in Action /\ Remaining(act) \in Nat /\ act.odid \in OrderId
      /\ act.is_sell \in BOOLEAN /\ act.price \in Price
  BY <1>1, ActNat DEF Action, ActInv
<1>3. ActInv' /\ WalkInv' /\ TradeInv' /\ GuessOnlyWhenExhausted'
  BY <1>1 DEF ActInv, WalkInv, TradeInv, GuessOnlyWhenExhausted
<1>4. CASE Remaining(act) = 0
  <2>1. UNCHANGED <<levels, order_map, events>>
    BY <1>4 DEF RestOrder
  <2>2. TypeOK'
    BY <1>1, <2>1 DEF TypeOK, PC, loopVars
  <2>3. BookConsistent' /\ NoSpentOrders'
    BY <1>1, <2>1, SameOrders
  <2> QED
    BY <1>3, <2>2, <2>3
<1>5. CASE Remaining(act) # 0
  <2>1. /\ addOrder(act.is_sell, act.odid, o)
        /\ Emit(<<OrderInfo("ADD", act.odid, act.is_sell, Remaining(act), act.price)>>)
    BY <1>5 DEF RestOrder
  <2>2. o \in Order /\ o.filled_quantity <= o.quantity /\ Remaining(o) > 0
    BY <1>2, <1>5 DEF Order, Action, Remaining, ActInv
  <2> HIDE DEF o
  <2>3. /\ DOMAIN levels' = BOOLEAN /\ DOMAIN order_map' = BOOLEAN
        /\ \A t \in BOOLEAN : SideOK(levels'[t], order_map'[t])
        /\ \A t \in BOOLEAN : t # act.is_sell => order_map'[t] = order_map[t]
        /\ \A x \in DOMAIN order_map'[act.is_sell] :
             \/ /\ x \in DOMAIN order_map[act.is_sell]
                /\ order_map'[act.is_sell][x] = order_map[act.is_sell][x]
             \/ order_map'[act.is_sell][x] = o
    BY <1>2, <2>1, <2>2, AddOrderStep
  <2>4. /\ BookConsistent'
        /\ \A s \in BOOLEAN : /\ IsMap(levels'[s], Price, L3PriceLevel)
                              /\ IsMap(order_map'[s], OrderId, Order)
    BY <2>3, BookFromSides
  <2>5. OrderInfo("ADD", act.odid, act.is_sell, Remaining(act), act.price) \in Info
    BY <1>2 DEF OrderInfo, Info
  <2>6. events' \in Seq(Info)
    BY <2>1, <2>5, EmitOK
  <2>7. TypeOK'
    BY <1>1, <2>3, <2>4, <2>6 DEF TypeOK, PC, loopVars
  <2>8. NoSpentOrders'
    BY <1>1, <1>2, <2>2, <2>3 DEF NoSpentOrders
  <2> QED
    BY <1>3, <2>4, <2>7, <2>8
<1> QED
  BY <1>4, <1>5

-----------------------------------------------------------------------------
(* The message handlers.                                                   *)

\* Activate makes the message the order being handled, with nothing filled.
LEMMA ActivateOK ==
  ASSUME NEW kind \in {"ADD", "MODIFY", "TRADE"}, NEW m,
         m.odid \in OrderId \cup {NoId}, kind # "TRADE" => m.odid \in OrderId,
         m.is_sell \in BOOLEAN, m.quantity \in Nat, m.price \in Price,
         Activate(kind, m)
  PROVE  /\ act' \in Action /\ act'.kind = kind
         /\ act'.filled_quantity = 0 /\ act'.filled_quantity <= act'.quantity
         /\ act'.kind \in {"ADD", "MODIFY"} => act'.odid \in OrderId
BY DEF Activate, Action

\* The fields of an order message have their types.
LEMMA MessageOK ==
  ASSUME NEW m \in OrderMessage
  PROVE  /\ m.odid \in OrderId /\ m.odid \in OrderId \cup {NoId} /\ m.is_sell \in BOOLEAN
         /\ m.quantity \in Nat /\ m.price \in Price
BY LevelAssumption DEF OrderMessage

\* processOrderCancel keeps the book consistent and leaves no pending quantity
\* below zero.
LEMMA OrderCancelOK ==
  ASSUME TypeOK, BookConsistent, NoSpentOrders, NEW s \in BOOLEAN, NEW id,
         NEW quantity \in Nat, NEW price, processOrderCancel(s, id, quantity, price)
  PROVE  /\ DOMAIN levels' = BOOLEAN /\ DOMAIN order_map' = BOOLEAN
         /\ \A t \in BOOLEAN : SideOK(levels'[t], order_map'[t])
         /\ \A t \in BOOLEAN : /\ DOMAIN levels'[t] \subseteq DOMAIN levels[t]
                               /\ DOMAIN order_map'[t] \subseteq DOMAIN order_map[t]
                               /\ \A x \in DOMAIN order_map'[t] :
                                    order_map'[t][x] = order_map[t][x]
         /\ DOMAIN pending_liq_remove_qty' = BOOLEAN
         /\ \A t \in BOOLEAN : IsMap(pending_liq_remove_qty'[t], Price, Nat)
<1>1. /\ pending_liq_remove_qty' = [pending_liq_remove_qty EXCEPT
            ![s] = AfterMatchRemove(@, quantity, price)]
      /\ removeOrder(s, id) \/ UNCHANGED <<levels, order_map>>
  BY DEF processOrderCancel, matchPendingLiqRemove
<1>2. IsMap(AfterMatchRemove(pending_liq_remove_qty[s], quantity, price), Price, Nat)
  BY MatchRemoveOK DEF TypeOK
<1>3. /\ DOMAIN pending_liq_remove_qty' = BOOLEAN
      /\ \A t \in BOOLEAN : IsMap(pending_liq_remove_qty'[t], Price, Nat)
  BY <1>1, <1>2 DEF TypeOK
<1>4. CASE removeOrder(s, id)
  BY <1>3, <1>4, RemoveOrderStep
<1>5. CASE UNCHANGED <<levels, order_map>>
  BY <1>3, <1>5, SidesOK DEF TypeOK
<1> QED
  BY <1>1, <1>4, <1>5

\* An ADD message only sets the handler up.
LEMMA AddMessageStep ==
  ASSUME IInv, NEW m \in OrderMessage, processOrderAddMessage(m)
  PROVE  IInv'
<1> USE DEF IInv
<1>1. /\ pc = "idle" /\ pc' = "matchAdd" /\ Activate("ADD", m) /\ events' = << >>
      /\ UNCHANGED <<sideVars, loopVars>>
  BY DEF processOrderAddMessage
<1>2. /\ act' \in Action /\ act'.kind = "ADD" /\ act'.filled_quantity <= act'.quantity
      /\ act'.odid \in OrderId
  BY <1>1, MessageOK, ActivateOK
<1>3. TypeOK'
  BY <1>1, <1>2 DEF TypeOK, PC, sideVars, loopVars
<1>4. BookConsistent' /\ NoSpentOrders'
  BY <1>1, SameOrders DEF sideVars
<1>5. ActInv' /\ WalkInv' /\ TradeInv' /\ GuessOnlyWhenExhausted'
  BY <1>1, <1>2 DEF ActInv, WalkInv, TradeInv, GuessOnlyWhenExhausted
<1> QED
  BY <1>3, <1>4, <1>5

\* A TRADE message only sets the handler up.
LEMMA TradeMessageStep ==
  ASSUME IInv, NEW m \in TradeMessage, processTradeMessage(m)
  PROVE  IInv'
<1> USE DEF IInv
<1> DEFINE o == [odid |-> NoId, is_sell |-> FALSE, quantity |-> m.quantity, price |-> m.price]
<1>1. /\ pc = "idle" /\ pc' = "trade" /\ Activate("TRADE", o) /\ events' = << >>
      /\ side' = FALSE
      /\ UNCHANGED <<sideVars, cur, iter, orders_to_remove>>
  BY DEF processTradeMessage
<1>2. /\ o.odid \in OrderId \cup {NoId} /\ o.is_sell \in BOOLEAN
      /\ o.quantity \in Nat /\ o.price \in Price
  BY LevelAssumption DEF TradeMessage
<1> HIDE DEF o
<1>3. act' \in Action /\ act'.kind = "TRADE" /\ act'.filled_quantity = 0
      /\ act'.filled_quantity <= act'.quantity
  BY <1>1, <1>2, ActivateOK
<1>4. TypeOK'
  <2>1. side' \in BOOLEAN
    BY <1>1
  <2> QED
    BY <2>1, <1>1, <1>3 DEF TypeOK, PC, sideVars
<1>5. BookConsistent' /\ NoSpentOrders'
  BY <1>1, SameOrders DEF sideVars
<1>6. ActInv' /\ WalkInv' /\ TradeInv' /\ GuessOnlyWhenExhausted'
  BY <1>1, <1>3 DEF ActInv, WalkInv, TradeInv, GuessOnlyWhenExhausted
<1> QED
  BY <1>4, <1>5, <1>6

\* A CANCEL message is handled in one step.
LEMMA CancelMessageStep ==
  ASSUME IInv, NEW m \in OrderMessage, processOrderCancelMessage(m)
  PROVE  IInv'
<1> USE DEF IInv
<1> DEFINE left == m.quantity - MatchedRemove(pending_liq_remove_qty[m.is_sell],
                                              m.quantity, m.price)
<1>1. /\ pc = "idle" /\ pc' = "done"
      /\ processOrderCancel(m.is_sell, m.odid, m.quantity, m.price)
      /\ UNCHANGED <<pending_liq_add_qty, l2_snap_queue, act, loopVars>>
  BY DEF processOrderCancelMessage
<1>2. m.odid \in OrderId /\ m.is_sell \in BOOLEAN /\ m.quantity \in Nat /\ m.price \in Price
  BY MessageOK
<1>3. /\ DOMAIN levels' = BOOLEAN /\ DOMAIN order_map' = BOOLEAN
      /\ \A t \in BOOLEAN : SideOK(levels'[t], order_map'[t])
      /\ \A t \in BOOLEAN : /\ DOMAIN order_map'[t] \subseteq DOMAIN order_map[t]
                            /\ \A x \in DOMAIN order_map'[t] :
                                 order_map'[t][x] = order_map[t][x]
      /\ DOMAIN pending_liq_remove_qty' = BOOLEAN
      /\ \A t \in BOOLEAN : IsMap(pending_liq_remove_qty'[t], Price, Nat)
  BY <1>1, <1>2, OrderCancelOK
<1>4. /\ BookConsistent'
      /\ \A s \in BOOLEAN : /\ IsMap(levels'[s], Price, L3PriceLevel)
                            /\ IsMap(order_map'[s], OrderId, Order)
  BY <1>3, BookFromSides
<1>5. left \in Int
  BY <1>2, MatchRemoveOK DEF TypeOK
<1>6. OrderInfo("CANCEL", m.odid, m.is_sell, left, m.price) \in Info
  <2> HIDE DEF left
  <2> QED
    BY <1>2, <1>5 DEF OrderInfo, Info
<1>7. \/ events' = <<OrderInfo("CANCEL", m.odid, m.is_sell, left, m.price)>>
      \/ events' = << >>
  BY DEF processOrderCancelMessage
<1>8. events' \in Seq(Info)
  <2> DEFINE info == OrderInfo("CANCEL", m.odid, m.is_sell, left, m.price)
  <2>1. info \in Info /\ (events' = <<info>> \/ events' = << >>)
    BY <1>6, <1>7
  <2> HIDE DEF info
  <2>2. <<info>> \in Seq(Info) /\ << >> \in Seq(Info)
    BY <2>1
  <2> QED
    BY <2>1, <2>2
<1>9. TypeOK'
  BY <1>1, <1>3, <1>4, <1>8 DEF TypeOK, PC, loopVars
<1>10. NoSpentOrders'
  BY <1>1, <1>3 DEF NoSpentOrders
<1>11. ActInv' /\ WalkInv' /\ TradeInv' /\ GuessOnlyWhenExhausted'
  BY <1>1 DEF ActInv, WalkInv, TradeInv, GuessOnlyWhenExhausted
<1> QED
  BY <1>4, <1>9, <1>10, <1>11

\* A MODIFY message is a cancel and the set-up of an add, or nothing.
LEMMA ModifyMessageStep ==
  ASSUME IInv, NEW m \in OrderMessage, processOrderModifyMessage(m)
  PROVE  IInv'
<1> USE DEF IInv
<1> DEFINE home == ~existOrder(FALSE, m.odid)
           left == Remaining(order_map[home][m.odid])
<1>1. m.odid \in OrderId /\ m.is_sell \in BOOLEAN /\ m.quantity \in Nat /\ m.price \in Price
  BY MessageOK
<1>2. /\ pc = "idle" /\ UNCHANGED loopVars
      /\ events' = <<OrderInfo("MODIF", m.odid, m.is_sell, m.quantity, m.price)>>
  BY DEF processOrderModifyMessage
<1>3. events' \in Seq(Info)
  BY <1>1, <1>2 DEF OrderInfo, Info
<1>4. CASE existOrder(FALSE, m.odid) \/ existOrder(TRUE, m.odid)
  <2>1. /\ processOrderCancel(m.is_sell, m.odid, left, m.price)
        /\ Activate("MODIFY", m)
        /\ pc' = "matchAdd"
        /\ UNCHANGED <<pending_liq_add_qty, l2_snap_queue>>
    BY <1>4 DEF processOrderModifyMessage
  <2>2. home \in BOOLEAN /\ m.odid \in DOMAIN order_map[home]
    BY <1>4 DEF existOrder
  <2> HIDE DEF home
  <2>3. left \in Nat
    <3>1. SideOK(levels[home], order_map[home])
      BY <2>2, SidesOK
    <3> QED
      BY <2>2, <3>1 DEF SideOK, IsMap, Order, Remaining
  <2> HIDE DEF left
  <2>4. /\ DOMAIN levels' = BOOLEAN /\ DOMAIN order_map' = BOOLEAN
        /\ \A t \in BOOLEAN : SideOK(levels'[t], order_map'[t])
        /\ \A t \in BOOLEAN : /\ DOMAIN order_map'[t] \subseteq DOMAIN order_map[t]
                              /\ \A x \in DOMAIN order_map'[t] :
                                   order_map'[t][x] = order_map[t][x]
        /\ DOMAIN pending_liq_remove_qty' = BOOLEAN
        /\ \A t \in BOOLEAN : IsMap(pending_liq_remove_qty'[t], Price, Nat)
    BY <1>1, <2>1, <2>3, OrderCancelOK
  <2>5. /\ BookConsistent'
        /\ \A s \in BOOLEAN : /\ IsMap(levels'[s], Price, L3PriceLevel)
                              /\ IsMap(order_map'[s], OrderId, Order)
    BY <2>4, BookFromSides
  <2>6. /\ act' \in Action /\ act'.kind = "MODIFY" /\ act'.filled_quantity <= act'.quantity
        /\ act'.odid \in OrderId
    BY <2>1, MessageOK, ActivateOK
  <2>7. TypeOK'
    BY <1>2, <1>3, <2>1, <2>4, <2>5, <2>6 DEF TypeOK, PC, loopVars
  <2>8. NoSpentOrders'
    BY <1>2, <2>1, <2>4 DEF NoSpentOrders
  <2>9. ActInv' /\ WalkInv' /\ TradeInv' /\ GuessOnlyWhenExhausted'
    BY <2>1, <2>6 DEF ActInv, WalkInv, TradeInv, GuessOnlyWhenExhausted
  <2> QED
    BY <2>5, <2>7, <2>8, <2>9
<1>5. CASE ~(existOrder(FALSE, m.odid) \/ existOrder(TRUE, m.odid))
  <2>1. pc' = "done" /\ UNCHANGED <<sideVars, act>>
    BY <1>5 DEF processOrderModifyMessage
  <2>2. TypeOK'
    BY <1>2, <1>3, <2>1 DEF TypeOK, PC, sideVars, loopVars
  <2>3. BookConsistent' /\ NoSpentOrders'
    BY <1>2, <2>1, SameOrders DEF sideVars
  <2>4. ActInv' /\ WalkInv' /\ TradeInv' /\ GuessOnlyWhenExhausted'
    BY <2>1 DEF ActInv, WalkInv, TradeInv, GuessOnlyWhenExhausted
  <2> QED
    BY <2>2, <2>3, <2>4
<1> QED
  BY <1>4, <1>5

-----------------------------------------------------------------------------
(* The theorems.                                                           *)

\* Every step of the book, and every stuttering step, keeps the invariant.
LEMMA NextIInv == IInv /\ [Next]_vars => IInv'
<1> SUFFICES ASSUME IInv, [Next]_vars PROVE IInv'
  OBVIOUS
<1>1. CASE Receive
  BY <1>1, AddMessageStep, CancelMessageStep, ModifyMessageStep, TradeMessageStep DEF Receive
<1>2. CASE HandlerStep
  BY <1>2, MatchPendingLiqAddStep, MatchPendingLiqAddDoneStep, UncrossStep, FillStep,
     FillDoneStep, RemoveFilledStep, RemoveFilledDoneStep, RestOrderStep, TradeMatchStep,
     SweepStep, SweepDoneStep, TradeRestStep, ReturnStep DEF HandlerStep
<1>3. CASE UNCHANGED vars
  BY <1>3 DEF IInv, vars, sideVars, loopVars, TypeOK, BookConsistent, NoSpentOrders,
     ActInv, WalkInv, TradeInv, GuessOnlyWhenExhausted
<1> QED
  BY <1>1, <1>2, <1>3 DEF Next

\* The invariant holds in every reachable state.
THEOREM Invariance == Spec => []IInv
BY InitIInv, NextIInv, PTL DEF Spec

\* Every member and local of the book keeps its type whatever the feed sends:
\* no pending quantity and no filled quantity goes below zero.
THEOREM TypeCorrect == Spec => []TypeOK
<1>1. IInv => TypeOK
  BY DEF IInv
<1> QED
  BY <1>1, Invariance, PTL

\* levels_ and order_map_ of both sides always describe the same orders.
THEOREM Consistent == Spec => []BookConsistent
<1>1. IInv => BookConsistent
  BY DEF IInv
<1> QED
  BY <1>1, Invariance, PTL

\* An order with nothing left never outlives the call that filled it.
THEOREM SpentOrdersLeave == Spec => []NoSpentOrders
<1>1. IInv => NoSpentOrders
  BY DEF IInv
<1> QED
  BY <1>1, Invariance, PTL

\* processTrade guesses an order still to come only when the book has nothing
\* left at the trade's price or ahead of it.
THEOREM GuessesAreLast == Spec => []GuessOnlyWhenExhausted
<1>1. IInv => GuessOnlyWhenExhausted
  BY DEF IInv
<1> QED
  BY <1>1, Invariance, PTL

-----------------------------------------------------------------------------
(* The book is never crossed.                                              *)

\* A fill leaves every key and list in place, and every order but the one at
\* iter.
LEMMA FillChanges ==
  ASSUME IInv, Fill
  PROVE  /\ \A t \in BOOLEAN : DOMAIN levels'[t] = DOMAIN levels[t]
         /\ \A t \in BOOLEAN : \A x \in DOMAIN order_map[t] :
              ~(t = side /\ x = levels[side][cur].orders[iter])
                => order_map'[t][x] = order_map[t][x]
<1> DEFINE id  == levels[side][cur].orders[iter]
           l   == LevelFillOrder(levels[side][cur],
                                 MinOf(Remaining(act), Remaining(order_map[side][id])))
           o   == OrderFilled(order_map[side][id],
                              MinOf(Remaining(act), Remaining(order_map[side][id])))
<1>1. /\ levels' = [levels EXCEPT ![side][cur] = l]
      /\ order_map' = [order_map EXCEPT ![side][id] = o]
  BY DEF Fill
<1>2. DOMAIN levels = BOOLEAN /\ DOMAIN order_map = BOOLEAN /\ side \in BOOLEAN
  BY DEF IInv, TypeOK
<1> HIDE DEF id, l, o
<1> QED
  BY <1>1, <1>2 DEF id

\* Only the end of processCrossedOrder puts a level into the book.
LEMMA LevelsShrink ==
  ASSUME IInv, [Next]_vars, ~RestOrder
  PROVE  \A t \in BOOLEAN : DOMAIN levels'[t] \subseteq DOMAIN levels[t]
<1> USE DEF IInv
<1>1. CASE UNCHANGED levels
  BY <1>1
<1>2. ASSUME NEW m \in OrderMessage, processOrderCancelMessage(m)
      PROVE  \A t \in BOOLEAN : DOMAIN levels'[t] \subseteq DOMAIN levels[t]
  <2>1. processOrderCancel(m.is_sell, m.odid, m.quantity, m.price)
    BY <1>2 DEF processOrderCancelMessage
  <2>2. m.is_sell \in BOOLEAN /\ m.quantity \in Nat
    BY MessageOK
  <2> QED
    BY <2>1, <2>2, OrderCancelOK
<1>3. ASSUME NEW m \in OrderMessage, processOrderModifyMessage(m)
      PROVE  \A t \in BOOLEAN : DOMAIN levels'[t] \subseteq DOMAIN levels[t]
  <2> DEFINE home == ~existOrder(FALSE, m.odid)
  <2>1. CASE existOrder(FALSE, m.odid) \/ existOrder(TRUE, m.odid)
    <3>1. removeOrder(m.is_sell, m.odid) \/ UNCHANGED <<levels, order_map>>
      BY <1>3, <2>1 DEF processOrderModifyMessage, processOrderCancel
    <3>2. m.is_sell \in BOOLEAN
      BY MessageOK
    <3>3. CASE removeOrder(m.is_sell, m.odid)
      BY <3>2, <3>3, RemoveOrderStep
    <3> QED
      BY <3>1, <3>3, <1>1
  <2>2. CASE ~(existOrder(FALSE, m.odid) \/ existOrder(TRUE, m.odid))
    BY <1>3, <2>2 DEF processOrderModifyMessage, sideVars
  <2> QED
    BY <2>1, <2>2
<1>4. side \in BOOLEAN
  BY DEF TypeOK
<1>5. CASE RemoveFilled
  BY <1>4, <1>5, RemoveOrderStep DEF RemoveFilled
<1>6. CASE Sweep
  BY <1>4, <1>6, RemoveOrderStep DEF Sweep
<1>7. CASE Fill
  BY <1>7, FillChanges
<1>8. CASE Receive
  BY <1>1, <1>2, <1>3, <1>8 DEF Receive, processOrderAddMessage, processTradeMessage, sideVars
<1>9. CASE HandlerStep
  BY <1>1, <1>5, <1>6, <1>7, <1>9 DEF HandlerStep, MatchPendingLiqAdd, MatchPendingLiqAddDone,
     Uncross, FillDone, RemoveFilledDone, TradeMatch, SweepDone, TradeRest, Return, sideVars
<1>10. CASE UNCHANGED vars
  BY <1>1, <1>10 DEF vars, sideVars
<1> QED
  BY <1>8, <1>9, <1>10 DEF Next

\* An order rests only when nothing on the other side crosses its price.
LEMMA UncrossedStep == IInv /\ Uncrossed /\ [Next]_vars => Uncrossed'
<1> SUFFICES ASSUME IInv, Uncrossed, [Next]_vars,
                    NEW b \in DOMAIN levels'[FALSE], NEW a \in DOMAIN levels'[TRUE]
             PROVE  b < a
  BY DEF Uncrossed
<1> USE DEF IInv
<1>1. CASE ~RestOrder
  BY <1>1, LevelsShrink DEF Uncrossed
<1>2. CASE RestOrder /\ Remaining(act) = 0
  BY <1>2 DEF RestOrder, Uncrossed
<1>3. CASE RestOrder /\ Remaining(act) # 0
  <2> DEFINE o == [quantity |-> act.quantity, price |-> act.price,
                   filled_quantity |-> act.filled_quantity]
  <2>1. addOrder(act.is_sell, act.odid, o) /\ ~CanUncross /\ pc = "uncross"
    BY <1>3 DEF RestOrder
  <2>2. /\ act \in Action /\ Remaining(act) \in Nat /\ act.odid \in OrderId
        /\ act.price \in Price
    BY <2>1, ActNat DEF Action, ActInv
  <2>3. act.is_sell \in BOOLEAN
    BY <2>2 DEF Action
  <2>4. o \in Order /\ o.filled_quantity <= o.quantity /\ o.price = act.price
    BY <2>2 DEF Order, Action, ActInv
  <2> HIDE DEF o
  <2>5. /\ \A t \in BOOLEAN : t # act.is_sell => levels'[t] = levels[t]
        /\ DOMAIN levels'[act.is_sell] \subseteq DOMAIN levels[act.is_sell] \cup {act.price}
    BY <2>1, <2>2, <2>3, <2>4, AddOrderStep
  <2>6. \A p \in DOMAIN levels[~act.is_sell] :
          IF ~act.is_sell THEN ~(act.price >= p) ELSE ~(p >= act.price)
    BY <1>3, <2>1, <2>2 DEF CanUncross, bookCrossedWithPrice
  <2>7. /\ \A t \in BOOLEAN : \A p \in DOMAIN levels[t] : p \in Int
        /\ act.price \in Int
    BY <2>2, LevelAssumption DEF TypeOK, IsMap
  <2>8. CASE act.is_sell
    <3>1. levels'[FALSE] = levels[FALSE] /\ (a \in DOMAIN levels[TRUE] \/ a = act.price)
      BY <2>5, <2>8
    <3>2. b \in Int /\ ~(b >= act.price)
      BY <2>6, <2>7, <2>8, <3>1
    <3>3. CASE a \in DOMAIN levels[TRUE]
      BY <3>1, <3>3 DEF Uncrossed
    <3>4. CASE a = act.price
      BY <3>2, <3>4, <2>7
    <3> QED
      BY <3>1, <3>3, <3>4
  <2>9. CASE ~act.is_sell
    <3>1. levels'[TRUE] = levels[TRUE] /\ (b \in DOMAIN levels[FALSE] \/ b = act.price)
      BY <2>5, <2>9
    <3>2. a \in Int /\ ~(act.price >= a)
      BY <2>6, <2>7, <2>9, <3>1
    <3>3. CASE b \in DOMAIN levels[FALSE]
      BY <3>1, <3>3 DEF Uncrossed
    <3>4. CASE b = act.price
      BY <3>2, <3>4, <2>7
    <3> QED
      BY <3>1, <3>3, <3>4
  <2> QED
    BY <2>8, <2>9
<1> QED
  BY <1>1, <1>2, <1>3

\* The best bid is always below the best ask, in the middle of a handler too.
THEOREM NeverCrossed == Spec => []Uncrossed
<1>1. Init => Uncrossed
  BY DEF Init, Uncrossed, EmptyMap
<1> QED
  BY <1>1, Invariance, UncrossedStep, PTL DEF Spec

-----------------------------------------------------------------------------
(* Price-time priority.                                                    *)

\* Only a fill changes an order that stays in the book.
LEMMA OrdersKept ==
  ASSUME IInv, [Next]_vars, ~Fill
  PROVE  \A t \in BOOLEAN : \A y \in DOMAIN order_map[t] \cap DOMAIN order_map'[t] :
           order_map'[t][y] = order_map[t][y]
<1> USE DEF IInv
<1>1. CASE UNCHANGED order_map
  BY <1>1
<1>2. ASSUME NEW s \in BOOLEAN, NEW id, removeOrder(s, id)
      PROVE  \A t \in BOOLEAN : \A y \in DOMAIN order_map[t] \cap DOMAIN order_map'[t] :
               order_map'[t][y] = order_map[t][y]
  BY <1>2, RemoveOrderStep
<1>3. ASSUME NEW m \in OrderMessage,
             processOrderCancelMessage(m) \/ processOrderModifyMessage(m)
      PROVE  UNCHANGED order_map \/ removeOrder(m.is_sell, m.odid)
  BY <1>3 DEF processOrderCancelMessage, processOrderModifyMessage, processOrderCancel, sideVars
<1>4. \A m \in OrderMessage : m.is_sell \in BOOLEAN
  BY MessageOK
<1>5. CASE RestOrder
  <2> DEFINE o == [quantity |-> act.quantity, price |-> act.price,
                   filled_quantity |-> act.filled_quantity]
  <2>1. UNCHANGED order_map \/ addOrder(act.is_sell, act.odid, o)
    BY <1>5 DEF RestOrder
  <2>2. act.is_sell \in BOOLEAN /\ DOMAIN order_map = BOOLEAN
    BY DEF TypeOK, Action
  <2> HIDE DEF o
  <2>3. CASE addOrder(act.is_sell, act.odid, o) /\ act.odid \notin DOMAIN order_map[act.is_sell]
    BY <2>2, <2>3 DEF addOrder, existOrder, Put
  <2>4. CASE addOrder(act.is_sell, act.odid, o) /\ act.odid \in DOMAIN order_map[act.is_sell]
    BY <2>4, <1>1 DEF addOrder, existOrder
  <2> QED
    BY <2>1, <2>3, <2>4, <1>1
<1>6. side \in BOOLEAN
  BY DEF TypeOK
<1>7. CASE RemoveFilled
  BY <1>2, <1>6, <1>7 DEF RemoveFilled
<1>8. CASE Sweep
  BY <1>2, <1>6, <1>8 DEF Sweep
<1>9. CASE Receive
  BY <1>1, <1>2, <1>3, <1>4, <1>9 DEF Receive, processOrderAddMessage, processTradeMessage,
     sideVars
<1>10. CASE HandlerStep
  BY <1>1, <1>5, <1>7, <1>8, <1>10 DEF HandlerStep, MatchPendingLiqAdd,
     MatchPendingLiqAddDone, Uncross, FillDone, RemoveFilledDone, TradeMatch, SweepDone,
     TradeRest, Return, sideVars
<1>11. CASE UNCHANGED vars
  BY <1>1, <1>11 DEF vars, sideVars
<1> QED
  BY <1>9, <1>10, <1>11 DEF Next

\* What PriceTimePriority says of one step.
FillsInOrder ==
  \A s \in BOOLEAN : \A y \in DOMAIN order_map[s] \cap DOMAIN order_map'[s] :
    order_map'[s][y].filled_quantity > order_map[s][y].filled_quantity
      => \A x \in DOMAIN order_map[s] : Ahead(s, x, y) => Remaining(order_map[s][x]) = 0

\* The order a fill fills is at iter of the best level: whatever is ahead of it
\* is at an earlier place of the same list, so it is spent.
LEMMA FillsInOrderStep == IInv /\ [Next]_vars => FillsInOrder
<1> SUFFICES ASSUME IInv, [Next]_vars, NEW s \in BOOLEAN,
                    NEW y \in DOMAIN order_map[s] \cap DOMAIN order_map'[s],
                    order_map'[s][y].filled_quantity > order_map[s][y].filled_quantity,
                    NEW x \in DOMAIN order_map[s], Ahead(s, x, y)
             PROVE  Remaining(order_map[s][x]) = 0
  BY DEF FillsInOrder
<1> USE DEF IInv
<1>1. order_map'[s][y] # order_map[s][y]
  <2>1. order_map[s][y].filled_quantity \in Nat
    BY DEF TypeOK, IsMap, Order
  <2> QED
    BY <2>1
<1>2. Fill
  BY <1>1, OrdersKept
<1> DEFINE list == levels[s][cur].orders
<1>3. s = side /\ y = levels[side][cur].orders[iter]
  BY <1>1, <1>2, FillChanges
<1>4. y = list[iter] /\ pc = "fill" /\ iter <= Len(list) /\ Remaining(act) > 0
  BY <1>2, <1>3 DEF Fill
<1>5. /\ cur \in DOMAIN levels[s] /\ \A q \in DOMAIN levels[s] : ~Before(s, q, cur)
      /\ \A i \in 1 .. iter - 1 : Remaining(order_map[s][list[i]]) = 0
  BY <1>3, <1>4 DEF WalkInv, IsBegin
<1>6. list \in Seq(OrderId) /\ iter \in DOMAIN list
  BY <1>4, <1>5 DEF TypeOK, IsMap, L3PriceLevel
<1>7. /\ \A i, j \in DOMAIN list : list[i] = list[j] => i = j
      /\ \A i \in DOMAIN list : order_map[s][list[i]].price = cur
  BY <1>5 DEF BookConsistent, SideConsistent
<1>8. order_map[s][y].price = cur
  BY <1>4, <1>6, <1>7
<1>9. order_map[s][x].price \in DOMAIN levels[s]
  BY DEF BookConsistent, SideConsistent
<1>10. /\ order_map[s][x].price = cur
       /\ \E i, j \in DOMAIN levels[s][cur].orders :
            /\ i < j
            /\ levels[s][cur].orders[i] = x
            /\ levels[s][cur].orders[j] = y
  <2>1. ~Before(s, order_map[s][x].price, cur)
    BY <1>5, <1>9
  <2> QED
    BY <2>1, <1>8 DEF Ahead
<1>11. PICK i \in DOMAIN list, j \in DOMAIN list : i < j /\ list[i] = x /\ list[j] = y
  BY <1>10
<1>12. j = iter
  BY <1>4, <1>6, <1>7, <1>11
<1> QED
  BY <1>5, <1>6, <1>11, <1>12

\* Fills follow price-time priority, for aggressors and for trades.
THEOREM FillPriority == Spec => PriceTimePriority
<1>1. IInv /\ [Next]_vars => [FillsInOrder]_vars
  BY FillsInOrderStep
<1> QED
  BY <1>1, Invariance, PTL DEF Spec, PriceTimePriority, FillsInOrder

-----------------------------------------------------------------------------
(* Both sides expect the same trades.                                      *)

\* The bid side has matched the trade with its expected quantity and the ask
\* side has not yet.
HalfMatched ==
  \/ act.kind = "TRADE" /\ ~side /\ pc \in {"sweep", "fill", "remove", "tradeRest"}
  \/ side /\ pc = "trade"

\* With no cancels and modifies, the two sides expect the same trades, save
\* what the bid side has matched of the trade being handled.
ExpectInv ==
  Kinds \subseteq {"ADD", "TRADE"} =>
    pending_liq_remove_qty[FALSE] =
      IF HalfMatched
      THEN AfterMatchRemove(pending_liq_remove_qty[TRUE], act.quantity, act.price)
      ELSE pending_liq_remove_qty[TRUE]

\* Every step keeps the sides' expectations in step.
LEMMA ExpectStep == IInv /\ ExpectInv /\ [Next]_vars => ExpectInv'
<1> SUFFICES ASSUME IInv, ExpectInv, [Next]_vars, Kinds \subseteq {"ADD", "TRADE"}
             PROVE  ExpectInv'
  BY DEF ExpectInv
<1> USE DEF IInv
<1>1. /\ side \in BOOLEAN /\ act \in Action /\ DOMAIN pending_liq_remove_qty = BOOLEAN
      /\ ActInv
  BY DEF TypeOK
<1>2. CASE Receive
  BY <1>1, <1>2 DEF ExpectInv, HalfMatched, Receive, processOrderAddMessage,
     processTradeMessage, sideVars
<1>3. CASE TradeMatch
  <2>1. /\ pc = "trade" /\ pc' = "sweep" /\ side' = side
        /\ act'.kind = act.kind /\ act'.quantity = act.quantity /\ act'.price = act.price
        /\ pending_liq_remove_qty' = [pending_liq_remove_qty EXCEPT
              ![side] = AfterMatchRemove(@, act.quantity, act.price)]
    BY <1>1, <1>3 DEF TradeMatch, matchPendingLiqRemove, OrderFilled, Action, loopVars
  <2>2. act.kind = "TRADE"
    BY <1>1, <2>1 DEF ActInv
  <2>3. CASE side
    BY <1>1, <2>1, <2>2, <2>3 DEF ExpectInv, HalfMatched
  <2>4. CASE ~side
    BY <1>1, <2>1, <2>2, <2>4 DEF ExpectInv, HalfMatched
  <2> QED
    BY <2>3, <2>4
<1>4. CASE Fill
  <2>1. /\ pc = "fill" /\ pc' = pc /\ side' = side
        /\ act'.kind = act.kind /\ act'.quantity = act.quantity /\ act'.price = act.price
    BY <1>1, <1>4 DEF Fill, OrderFilled, Action
  <2>2. CASE act.kind = "TRADE"
    <3>1. UNCHANGED pending_liq_remove_qty
      BY <1>4, <2>2 DEF Fill
    <3> QED
      BY <2>1, <3>1 DEF ExpectInv, HalfMatched
  <2>3. CASE act.kind # "TRADE"
    <3>1. pending_liq_remove_qty[FALSE] = pending_liq_remove_qty[TRUE]
      BY <2>1, <2>3 DEF ExpectInv, HalfMatched
    <3>2. pending_liq_remove_qty'[FALSE] = pending_liq_remove_qty'[TRUE]
      BY <1>4, <2>3, <3>1 DEF Fill, ExpectTrade
    <3> QED
      BY <2>1, <2>3, <3>2 DEF ExpectInv, HalfMatched
  <2> QED
    BY <2>2, <2>3
<1>5. CASE TradeRest
  <2>1. /\ pc = "tradeRest" /\ pc' = (IF side THEN "done" ELSE "trade") /\ side' = TRUE
        /\ act'.kind = act.kind /\ act'.quantity = act.quantity /\ act'.price = act.price
        /\ UNCHANGED pending_liq_remove_qty
    BY <1>1, <1>5 DEF TradeRest, Action
  <2> QED
    BY <1>1, <2>1 DEF ExpectInv, HalfMatched, ActInv
<1>6. CASE MatchPendingLiqAdd
  <2>1. /\ pc = "matchAdd" /\ pc' \in {"matchAdd", "uncross"}
        /\ UNCHANGED pending_liq_remove_qty
    BY <1>6 DEF MatchPendingLiqAdd
  <2> QED
    BY <2>1 DEF ExpectInv, HalfMatched
<1>7. CASE MatchPendingLiqAddDone \/ RestOrder \/ Return
  BY <1>7 DEF ExpectInv, HalfMatched, MatchPendingLiqAddDone, RestOrder, Return, sideVars
<1>8. CASE Uncross
  <2>1. pc = "uncross" /\ pc' = "fill" /\ UNCHANGED <<pending_liq_remove_qty, act>>
    BY <1>8 DEF Uncross, WalkLevel, sideVars
  <2> QED
    BY <1>1, <2>1 DEF ExpectInv, HalfMatched, ActInv
<1>9. CASE FillDone \/ RemoveFilled \/ RemoveFilledDone
  <2>1. /\ pc \in {"fill", "remove"} /\ UNCHANGED <<pending_liq_remove_qty, act, side>>
        /\ act.kind = "TRADE" => pc' \in {"fill", "remove", "tradeRest"}
        /\ act.kind # "TRADE" => pc' \in {"fill", "remove", "uncross"}
    BY <1>9 DEF FillDone, RemoveFilled, RemoveFilledDone, sideVars, loopVars
  <2> QED
    BY <2>1 DEF ExpectInv, HalfMatched
<1>10. CASE Sweep \/ SweepDone
  <2>1. /\ pc = "sweep" /\ UNCHANGED <<pending_liq_remove_qty, act, side>>
        /\ pc' \in {"sweep", "fill", "tradeRest"}
    BY <1>10 DEF Sweep, SweepDone, WalkLevel, sideVars, loopVars
  <2> QED
    BY <1>1, <2>1 DEF ExpectInv, HalfMatched, ActInv
<1>11. CASE UNCHANGED vars
  BY <1>11 DEF ExpectInv, HalfMatched, vars, sideVars, loopVars
<1> QED
  BY <1>2, <1>3, <1>4, <1>5, <1>6, <1>7, <1>8, <1>9, <1>10, <1>11 DEF Next, HandlerStep

\* Without cancels and modifies in the feed, both sides expect exactly the same
\* trades between two messages, so a late trade is matched on both or on none.
THEOREM SameTrades == Spec => []SidesExpectSameTrades
<1>1. Init => ExpectInv
  BY DEF Init, ExpectInv, HalfMatched
<1>2. ExpectInv => SidesExpectSameTrades
  BY DEF ExpectInv, HalfMatched, SidesExpectSameTrades
<1> QED
  BY <1>1, <1>2, Invariance, ExpectStep, PTL DEF Spec

=============================================================================
