---------------------------- MODULE AppliedProofs ----------------------------
(***************************************************************************)
(* A leading snapshot is applied: the side ends with the snapshot's        *)
(* levels.                                                                 *)
(***************************************************************************)
EXTENDS QuantityProofs

-----------------------------------------------------------------------------
(* The inductive invariant.                                                *)

\* The first of the collected orders that is not applied yet.
From == IF spc = "apply" THEN iter ELSE 1

\* The quantity that is to go at price p, order by order.
Going(p) ==
  [i \in 1 .. Len(pending_orders) |->
     IF i >= From /\ GuessPrice(i) = p THEN pending_orders[i].quantity ELSE 0]

ToGo(p) == Total(Going(p), Len(pending_orders))

\* What the book will have at p once the collected orders are applied.
WillBe(p) == QtyAt(p) - ToGo(p)

\* A level of the snapshot has been seen to: the book will have it, or the guess
\* for the difference was reported and its id was taken.
Settled(l) ==
  \/ WillBe(l.price) = l.quantity
  \/ \E k \in DOMAIN events :
       /\ events[k] = OrderInfo("ADD", NoId, side, l.quantity - WillBe(l.price), l.price)
       /\ GuessId(k) \in ids_before

\* The levels of the snapshot that were visited are settled.
VisitedInv ==
  /\ spc = "compare" => \A l \in snapshot[side] \ todo : Settled(l)
  /\ spc = "front" => \A l \in snapshot[side] \ todo : l.price # cur => Settled(l)
  /\ spc \in {"collect", "apply"} => \A l \in snapshot[side] : Settled(l)

\* The level that is walked: qty_to_remove is still to be collected, and until
\* it is, the walk has taken all of the orders that it passed.
WalkedInv ==
  spc = "front" =>
    LET list == levels[side][cur].orders
    IN  /\ iter \in 1 .. Len(list) + 1
        /\ \A l \in snapshot[side] : l.price = cur => WillBe(cur) - qty_to_remove = l.quantity
        /\ qty_to_remove > 0 => ToGo(cur) = Total(Left(order_map[side], list), iter - 1)

\* The levels to collect are not in the snapshot, and an order at a price the
\* snapshot does not have goes, unless its level is still to be visited.
MissingInv ==
  /\ spc = "collect" => PricesOf(todo) \cap PricesOf(snapshot[side]) = {}
  /\ spc \in {"collect", "apply"} =>
    \A id \in DOMAIN order_map[side] :
      \/ order_map[side][id].price \in PricesOf(snapshot[side])
      \/ spc = "collect" /\ order_map[side][id].price \in PricesOf(todo)
      \/ \E i \in From .. Len(pending_orders) :
           pending_orders[i] = [odid |-> id, quantity |-> Remaining(order_map[side][id])]

AppliedInv == VisitedInv /\ WalkedInv /\ MissingInv

\* The bid side's events come before the ask side's.
EventsInv ==
  /\ spc # "idle" => \A j \in DOMAIN events : events[j].is_sell => side
  /\ spc = "side" => \A j \in DOMAIN events : events[j].is_sell # side

\* fake_order_id numbers the guesses of the side, and an order of the side is one
\* of them or was there before.
NumberedInv ==
  spc \in {"compare", "front"} =>
    /\ fake_order_id = GuessId(Len(events) + 1)
    /\ \A id \in DOMAIN order_map[side] :
         id \in ids_before \/ id \in FirstFakeId .. (fake_order_id - 1)

AllInv == SnapInv /\ BookTotals /\ EventsInv /\ NumberedInv /\ AppliedInv

-----------------------------------------------------------------------------
(* What is to go.                                                          *)

\* The quantities to go are numbers.
LEMMA GoingNat ==
  ASSUME SnapInv, NEW p
  PROVE  /\ Len(pending_orders) \in Nat /\ DOMAIN pending_orders = 1 .. Len(pending_orders)
         /\ \A i \in 1 .. Len(pending_orders) :
              /\ pending_orders[i] \in Guess
              /\ pending_orders[i].odid \in OrderId /\ pending_orders[i].quantity \in Nat
              /\ Going(p)[i] \in Nat
         /\ ToGo(p) \in Int
<1>1. pending_orders \in Seq(Guess)
  BY DEF SnapInv, SnapTypeOK
<1>2. Len(pending_orders) \in Nat /\ DOMAIN pending_orders = 1 .. Len(pending_orders)
  BY <1>1
<1>3. \A i \in 1 .. Len(pending_orders) : pending_orders[i] \in Guess
  BY <1>1
<1>4. \A i \in 1 .. Len(pending_orders) :
        /\ pending_orders[i].odid \in OrderId /\ pending_orders[i].quantity \in Nat
        /\ Going(p)[i] \in Nat
  BY <1>3 DEF Guess, Going
<1>5. \A i \in 1 .. Len(pending_orders) : Going(p)[i] \in Int
  BY <1>4
<1>6. ToGo(p) \in Int
  BY <1>2, <1>5, TotalInt DEF ToGo
<1> QED
  BY <1>2, <1>3, <1>4, <1>6

\* Nothing goes at a price no order was collected at.
LEMMA ToGoNone ==
  ASSUME SnapInv, NEW p, From \in Int,
         \A i \in 1 .. Len(pending_orders) : i >= From => GuessPrice(i) # p
  PROVE  ToGo(p) = 0
<1>1. Len(pending_orders) \in Nat
  BY GoingNat
<1>2. \A i \in 1 .. Len(pending_orders) : Going(p)[i] = 0
  BY DEF Going
<1> QED
  BY <1>1, <1>2, TotalNone DEF ToGo

\* As long as the orders collected are where they were, the same goes.
LEMMA ToGoSame ==
  ASSUME SnapInv, UNCHANGED <<side, pending_orders>>, From' = From, NEW p,
         \A i \in 1 .. Len(pending_orders) : i >= From => GuessPrice(i)' = GuessPrice(i)
  PROVE  ToGo(p)' = ToGo(p)
<1>1. Going(p)' = Going(p)
  BY DEF Going
<1> QED
  BY <1>1 DEF ToGo

\* One order more is collected.
LEMMA ToGoAppend ==
  ASSUME SnapInv, NEW g \in Guess, pending_orders' = Append(pending_orders, g),
         UNCHANGED <<side, order_map>>, From = 1, From' = 1, NEW p
  PROVE  ToGo(p)' = ToGo(p) + IF order_map[side][g.odid].price = p THEN g.quantity ELSE 0
<1> DEFINE n == Len(pending_orders)
           F == Going(p)
           G == Going(p)'
           q == IF order_map[side][g.odid].price = p THEN g.quantity ELSE 0
<1>1. n \in Nat /\ pending_orders \in Seq(Guess) /\ \A i \in 1 .. n : F[i] \in Nat
  BY GoingNat DEF SnapInv, SnapTypeOK
<1>2. /\ Len(pending_orders') = n + 1
      /\ \A i \in 1 .. n : pending_orders'[i] = pending_orders[i]
      /\ pending_orders'[n + 1] = g
  BY <1>1
<1>3. q \in Nat
  BY DEF Guess
<1> HIDE DEF n
<1>4. n + 1 \in 1 .. n + 1
  BY <1>1
<1>5. G[n + 1] = q
  BY <1>1, <1>2, <1>4 DEF Going, GuessPrice
<1>6. \A i \in 1 .. n : G[i] = F[i]
  <2> SUFFICES ASSUME NEW i \in 1 .. n
               PROVE  G[i] = F[i]
    OBVIOUS
  <2>1. i \in 1 .. n + 1 /\ i >= 1
    BY <1>1
  <2>2. GuessPrice(i)' = GuessPrice(i)
    BY <1>2 DEF GuessPrice
  <2>3. G[i] = IF GuessPrice(i)' = p THEN pending_orders'[i].quantity ELSE 0
    BY <1>2, <2>1 DEF Going
  <2>4. F[i] = IF GuessPrice(i) = p THEN pending_orders[i].quantity ELSE 0
    BY <2>1 DEF Going, n
  <2> QED
    BY <1>2, <2>2, <2>3, <2>4
<1> HIDE DEF F, G, q
<1>7. \A i \in 1 .. n + 1 : G[i] \in Int
  <2> SUFFICES ASSUME NEW i \in 1 .. n + 1
               PROVE  G[i] \in Int
    OBVIOUS
  <2>1. i \in 1 .. n \/ i = n + 1
    BY <1>1
  <2> QED
    BY <1>1, <1>3, <1>5, <1>6, <2>1
<1>8. Total(G, n + 1) = Total(G, n) + G[n + 1]
  BY <1>1, <1>7, TotalNext
<1>9. \A i \in 1 .. n : F[i] \in Int /\ G[i] = F[i]
  BY <1>1, <1>6
<1>10. Total(G, n) = Total(F, n)
  BY <1>1, <1>9, TotalSame
<1>11. ToGo(p) = Total(F, n)
  BY DEF ToGo, F, n
<1>12. ToGo(p)' = Total(G, n + 1)
  BY <1>2 DEF ToGo, G
<1> QED
  BY <1>5, <1>8, <1>10, <1>11, <1>12 DEF q

\* Orders at other prices are collected.
LEMMA ToGoElsewhere ==
  ASSUME SnapInv, NEW ext \in Seq(Guess), pending_orders' = pending_orders \o ext,
         UNCHANGED <<side, order_map>>, From = 1, From' = 1, NEW p,
         \A i \in 1 .. Len(ext) : order_map[side][ext[i].odid].price # p
  PROVE  ToGo(p)' = ToGo(p)
<1> DEFINE n == Len(pending_orders)
           m == Len(pending_orders')
           F == Going(p)
           G == Going(p)'
<1>1. n \in Nat /\ pending_orders \in Seq(Guess) /\ \A i \in 1 .. n : F[i] \in Int
  BY GoingNat DEF SnapInv, SnapTypeOK
<1>2. /\ m = n + Len(ext) /\ Len(ext) \in Nat
      /\ \A i \in 1 .. n : pending_orders'[i] = pending_orders[i]
      /\ \A i \in n + 1 .. m : pending_orders'[i] = ext[i - n]
  BY <1>1
<1> HIDE DEF n
<1>3. \A i \in 1 .. n : G[i] = F[i]
  <2> SUFFICES ASSUME NEW i \in 1 .. n
               PROVE  G[i] = F[i]
    OBVIOUS
  <2>1. i \in 1 .. m /\ i >= 1
    BY <1>1, <1>2
  <2>2. GuessPrice(i)' = GuessPrice(i)
    BY <1>2 DEF GuessPrice
  <2>3. G[i] = IF GuessPrice(i)' = p THEN pending_orders'[i].quantity ELSE 0
    BY <2>1 DEF Going
  <2>4. F[i] = IF GuessPrice(i) = p THEN pending_orders[i].quantity ELSE 0
    BY <2>1 DEF Going, n
  <2> QED
    BY <1>2, <2>2, <2>3, <2>4
<1>4. \A i \in n + 1 .. m : G[i] = 0
  <2> SUFFICES ASSUME NEW i \in n + 1 .. m
               PROVE  G[i] = 0
    OBVIOUS
  <2>1. i \in 1 .. m /\ i - n \in 1 .. Len(ext)
    BY <1>1, <1>2
  <2>2. GuessPrice(i)' # p
    BY <1>2, <2>1 DEF GuessPrice
  <2> QED
    BY <2>1, <2>2 DEF Going
<1>5. n <= m /\ m \in Nat
  BY <1>1, <1>2
<1>6. \A i \in 1 .. n : F[i] \in Int /\ G[i] = F[i]
  BY <1>1, <1>3
<1> HIDE DEF F, G, m
<1>7. Total(G, m) = Total(F, n)
  <2>1. n \in Nat /\ m \in Nat /\ n <= m
    BY <1>1, <1>5
  <2> QED
    BY ONLY <2>1, <1>4, <1>6, TotalExtend
<1> QED
  BY <1>7 DEF ToGo, F, G, m, n

\* The order at iter is applied: what goes at its price is less by its quantity.
LEMMA ToGoApply ==
  ASSUME SnapInv, spc = "apply", UNCHANGED <<spc, side, pending_orders>>,
         iter <= Len(pending_orders), iter' = iter + 1, NEW p,
         \A i \in iter + 1 .. Len(pending_orders) : GuessPrice(i)' = GuessPrice(i)
  PROVE  ToGo(p)' = ToGo(p) - IF GuessPrice(iter) = p THEN pending_orders[iter].quantity ELSE 0
<1> DEFINE n == Len(pending_orders)
           F == Going(p)
           G == Going(p)'
           q == IF GuessPrice(iter) = p THEN pending_orders[iter].quantity ELSE 0
<1>1. n \in Nat /\ \A i \in 1 .. n : F[i] \in Int
  BY GoingNat
<1>2. From = iter /\ From' = iter + 1 /\ iter \in 1 .. n
  <2>1. iter \in Nat \ {0}
    BY DEF SnapInv, SnapTypeOK, TypeOK
  <2> QED
    BY <1>1, <2>1 DEF From
<1>3. F[iter] = q /\ G[iter] = 0
  <2>1. iter >= iter /\ ~(iter >= iter + 1)
    BY <1>1, <1>2
  <2> QED
    BY <1>2, <2>1 DEF Going
<1>4. ASSUME NEW i \in 1 .. n, i # iter
      PROVE  G[i] = F[i]
  <2>1. CASE i < iter
    <3>1. ~(i >= iter) /\ ~(i >= iter + 1)
      BY <1>1, <1>2, <2>1
    <3> QED
      BY <1>2, <3>1 DEF Going
  <2>2. CASE i > iter
    <3>1. i >= iter /\ i >= iter + 1 /\ i \in iter + 1 .. n
      BY <1>1, <1>2, <2>2
    <3>2. GuessPrice(i)' = GuessPrice(i)
      BY <3>1
    <3> QED
      BY <1>2, <3>1, <3>2 DEF Going
  <2> QED
    BY <1>2, <1>4, <2>1, <2>2
<1> HIDE DEF n, F, G, q
<1>5. \A i \in 1 .. n : F[i] \in Int /\ G[i] \in Int /\ (i # iter => G[i] = F[i])
  BY <1>1, <1>3, <1>4
<1>6. Total(G, n) = Total(F, n) - F[iter] + G[iter]
  <2>1. n \in Nat /\ iter \in 1 .. n
    BY <1>1, <1>2
  <2> QED
    BY ONLY <2>1, <1>5, TotalChange
<1>7. ToGo(p) = Total(F, n) /\ ToGo(p)' = Total(G, n)
  BY DEF ToGo, F, G, n
<1>8. Total(F, n) \in Int /\ F[iter] \in Int
  BY <1>1, <1>2, TotalInt
<1>9. ToGo(p)' = ToGo(p) - q
  BY <1>3, <1>6, <1>7, <1>8
<1> QED
  BY <1>9 DEF q

-----------------------------------------------------------------------------
(* What the book has.                                                      *)

\* A new order adds to its level.
LEMMA QtyAtAdd ==
  ASSUME TypeOK, NEW id, NEW o \in Order, ~existOrder(side, id), addOrder(side, id, o),
         side' = side, NEW p
  PROVE  QtyAt(p)' = QtyAt(p) + IF p = o.price THEN Remaining(o) ELSE 0
<1>1. side \in BOOLEAN /\ DOMAIN levels = BOOLEAN
  BY DEF TypeOK
<1>2. levels'[side] = LevelsAdd(levels[side], id, o)
  BY <1>1 DEF addOrder
<1>3. Remaining(o) \in Int /\ QtyAt(p) \in Int
  BY QtyAtInt DEF Order, Remaining
<1> QED
  BY <1>2, <1>3 DEF QtyAt, LevelsAdd, Put, LevelAddOrder, EmptyLevel

\* A fill takes from the level of its order.
LEMMA QtyAtFill ==
  ASSUME SnapInv, NEW id \in DOMAIN order_map[side], NEW qty \in Nat, FillGuess(id, qty),
         side' = side, NEW p
  PROVE  QtyAt(p)' = QtyAt(p) - IF p = order_map[side][id].price THEN qty ELSE 0
<1> DEFINE L == levels[side]
           r == order_map[side][id].price
<1>1. TypeOK /\ BookConsistent
  BY DEF SnapInv, IInv
<1>2. side \in BOOLEAN /\ DOMAIN levels = BOOLEAN
  BY <1>1 DEF TypeOK
<1>3. r \in DOMAIN L
  BY <1>1, <1>2 DEF BookConsistent, SideConsistent
<1>4. L[r] \in L3PriceLevel /\ QtyAt(p) \in Int
  BY <1>1, <1>2, <1>3, QtyAtInt DEF TypeOK, IsMap
<1>5. levels'[side] = [L EXCEPT ![r] = LevelFillOrder(@, qty)]
  BY <1>2, FillGuessFills DEF SnapInv
<1> HIDE DEF L, r
<1>6. LevelFillOrder(L[r], qty).quantity = L[r].quantity - qty
  BY <1>4 DEF LevelFillOrder, L3PriceLevel
<1>7. QtyAt(p) = IF p \in DOMAIN L THEN L[p].quantity ELSE 0
  BY DEF QtyAt, L
<1>8. QtyAt(p)' = IF p \in DOMAIN L THEN levels'[side][p].quantity ELSE 0
  BY <1>5 DEF QtyAt
<1>9. QtyAt(p)' = QtyAt(p) - IF p = r THEN qty ELSE 0
  BY <1>3, <1>4, <1>5, <1>6, <1>7, <1>8
<1> QED
  BY <1>9 DEF r

\* An order that leaves takes what remains of it from its level, and a level that
\* leaves with its last order had just that.
LEMMA QtyAtRemove ==
  ASSUME SnapInv, BookTotals, NEW id \in DOMAIN order_map[side], removeOrder(side, id),
         side' = side, NEW p
  PROVE  QtyAt(p)' = QtyAt(p) - IF p = order_map[side][id].price
                                THEN Remaining(order_map[side][id]) ELSE 0
<1> DEFINE L  == levels[side]
           M  == order_map[side]
           o  == M[id]
           r  == o.price
           l  == LevelRemoveOrder(L[r], id, o)
<1>1. side \in BOOLEAN /\ DOMAIN levels = BOOLEAN
  BY DEF SnapInv, IInv, TypeOK
<1>2. SideOK(L, M) /\ SideTotals(L, M)
  BY <1>1, SidesOK DEF SnapInv, IInv, BookTotals
<1>3. levels'[side] = LevelsRemove(L, id, o)
  BY <1>1 DEF removeOrder, existOrder
<1>4. QtyAt(p) = IF p \in DOMAIN L THEN L[p].quantity ELSE 0
  BY DEF QtyAt
<1>5. QtyAt(p)' = IF p \in DOMAIN levels'[side] THEN levels'[side][p].quantity ELSE 0
  BY DEF QtyAt
<1>6. QtyAt(p) \in Int /\ id \in DOMAIN M
  BY QtyAtInt DEF SnapInv, IInv
<1> HIDE DEF L, M
<1>7. /\ r \in DOMAIN L /\ o \in Order /\ L[r].num_orders = Len(L[r].orders)
      /\ \E i \in DOMAIN L[r].orders : L[r].orders[i] = id
  BY <1>2, <1>6 DEF SideOK, SideConsistent, IsMap
<1>8. /\ L[r].orders \in Seq(OrderId) /\ Len(L[r].orders) \in Nat
      /\ DOMAIN L[r].orders = 1 .. Len(L[r].orders) /\ L[r].quantity \in Int
      /\ \A i \in 1 .. Len(L[r].orders) :
           /\ Left(M, L[r].orders)[i] = Remaining(M[L[r].orders[i]])
           /\ Left(M, L[r].orders)[i] \in Nat
  BY <1>2, <1>7, LeftInt
<1>9. Remaining(o) \in Int
  BY <1>7 DEF Order, Remaining
<1>10. l.num_orders = L[r].num_orders - 1 /\ l.quantity = L[r].quantity - Remaining(o)
  BY DEF LevelRemoveOrder
<1>11. l.num_orders = 0 => L[r].quantity = Remaining(o)
  <2> SUFFICES ASSUME l.num_orders = 0
               PROVE  L[r].quantity = Remaining(o)
    OBVIOUS
  <2>1. Len(L[r].orders) = 1
    <3>1. L[r].num_orders = Len(L[r].orders) /\ Len(L[r].orders) \in Nat
      BY <1>7, <1>8
    <3>2. L[r].num_orders - 1 = 0
      BY <1>10
    <3> HIDE DEF r
    <3> QED
      BY ONLY <3>1, <3>2
  <2>2. L[r].orders[1] = id
    BY <1>7, <1>8, <2>1
  <2>3. L[r].quantity = Total(Left(M, L[r].orders), 1)
    BY <1>2, <1>7, <2>1 DEF SideTotals, LevelTotal
  <2> DEFINE F == Left(M, L[r].orders)
  <2>4. F[1] = Remaining(o) /\ \A i \in 1 .. 0 + 1 : F[i] \in Int
    BY <1>8, <2>1, <2>2
  <2> HIDE DEF F
  <2>5. Total(F, 0 + 1) = Total(F, 0) + F[0 + 1]
    BY <2>4, TotalNext
  <2>6. Total(F, 0) = 0
    BY TotalZero
  <2> QED
    BY <1>9, <2>3, <2>4, <2>5, <2>6 DEF F
<1> HIDE DEF l, r, o
<1>12. LevelsRemove(L, id, o) = IF l.num_orders = 0 THEN Erase(L, r) ELSE [L EXCEPT ![r] = l]
  BY DEF LevelsRemove, l, r
<1>13. QtyAt(p)' = QtyAt(p) - IF p = r THEN Remaining(o) ELSE 0
  <2>1. CASE l.num_orders = 0
    <3>1. DOMAIN levels'[side] = DOMAIN L \ {r} /\ \A q \in DOMAIN L \ {r} : levels'[side][q] = L[q]
      BY <1>3, <1>12, <2>1 DEF Erase, Restrict
    <3> QED
      BY <1>4, <1>5, <1>6, <1>7, <1>9, <1>11, <2>1, <3>1
  <2>2. CASE l.num_orders # 0
    <3>1. levels'[side] = [L EXCEPT ![r] = l]
      BY <1>3, <1>12, <2>2
    <3> QED
      BY <1>4, <1>5, <1>6, <1>7, <1>9, <1>10, <3>1
  <2> QED
    BY <2>1, <2>2
<1> QED
  BY <1>13 DEF o, r, M

-----------------------------------------------------------------------------
(* The numbers of the guesses.                                             *)

\* An event that is reported does not change the numbers of those before it.
LEMMA GuessIdSame ==
  ASSUME events \in Seq(Info), side' = side, NEW k \in 1 .. Len(events) + 1,
         events' = events \/ \E e \in Info : events' = Append(events, e)
  PROVE  GuessId(k)' = GuessId(k)
<1> DEFINE Mine(ev) == {j \in 1 .. k - 1 : ev[j].event = "ADD" /\ ev[j].is_sell = side}
<1>1. \A j \in 1 .. k - 1 : events'[j] = events[j]
  <2>1. Len(events) \in Nat
    OBVIOUS
  <2>2. \A j \in 1 .. k - 1 : j \in 1 .. Len(events)
    BY <2>1
  <2> QED
    BY <2>2
<1>2. Mine(events') = Mine(events)
  BY <1>1
<1>3. GuessId(k)' = FirstFakeId + Cardinality(Mine(events'))
  BY DEF GuessId, FirstFakeId
<1>4. GuessId(k) = FirstFakeId + Cardinality(Mine(events))
  BY DEF GuessId
<1> QED
  BY <1>2, <1>3, <1>4

\* A guess that is reported takes one number.
LEMMA GuessIdNext ==
  ASSUME events \in Seq(Info), side' = side, NEW e \in Info, events' = Append(events, e),
         e.event = "ADD", e.is_sell = side
  PROVE  GuessId(Len(events) + 1)' = GuessId(Len(events) + 1) + 1
<1> DEFINE n == Len(events)
           Mine(ev, m) == {j \in 1 .. m : ev[j].event = "ADD" /\ ev[j].is_sell = side}
<1>1. n \in Nat /\ Len(events') = n + 1 /\ events'[n + 1] = e
      /\ \A j \in 1 .. n : events'[j] = events[j]
  OBVIOUS
<1>2. GuessId(Len(events) + 1)' = FirstFakeId + Cardinality(Mine(events', n + 1))
  <2>1. PICK m \in Nat : m = Len(events') + 1
    BY <1>1
  <2>2. GuessId(m)' = FirstFakeId + Cardinality(Mine(events', m - 1))
    BY DEF GuessId, FirstFakeId
  <2>3. m - 1 = n + 1
    BY <1>1, <2>1
  <2> HIDE DEF n, Mine
  <2> QED
    BY <2>1, <2>2, <2>3
<1>3. GuessId(Len(events) + 1) = FirstFakeId + Cardinality(Mine(events, n))
  <2>1. n + 1 - 1 = n
    BY <1>1
  <2> QED
    BY <2>1 DEF GuessId
<1> HIDE DEF n
<1>4. Mine(events', n + 1) = Mine(events, n) \cup {n + 1} /\ n + 1 \notin Mine(events, n)
  BY <1>1
<1>5. IsFiniteSet(Mine(events, n))
  <2>1. IsFiniteSet(1 .. n)
    BY <1>1, FS_Interval
  <2> QED
    BY <2>1, FS_Subset
<1> HIDE DEF Mine
<1>6. /\ Cardinality(Mine(events, n)) \in Nat
      /\ Cardinality(Mine(events', n + 1)) = Cardinality(Mine(events, n)) + 1
  BY <1>4, <1>5, FS_AddElement, FS_CardinalityType
<1> QED
  BY <1>2, <1>3, <1>6 DEF FirstFakeId

\* The events of a side are reported while it is handled.
LEMMA NextEvents == SnapInv /\ EventsInv /\ [SnapNext]_svars => EventsInv'
<1> SUFFICES ASSUME SnapInv, EventsInv, [SnapNext]_svars PROVE EventsInv'
  OBVIOUS
<1> USE DEF EventsInv
<1>1. side \in BOOLEAN /\ events \in Seq(Info)
  BY DEF SnapInv, IInv, TypeOK
<1>2. ASSUME UNCHANGED <<events, side>>, spc = "idle" => spc' = "idle",
             spc' = "side" => spc = "side"
      PROVE  EventsInv'
  BY <1>2
<1>3. CASE BookStep
  BY <1>3 DEF BookStep, snapVars
<1>4. CASE ReceiveSnapshot
  <2>1. spc' = "side" /\ side' = FALSE /\ events' = << >>
    BY <1>4 DEF ReceiveSnapshot, processSnapshotMessage
  <2> QED
    BY <2>1
<1>5. CASE CompareLevel
  <2>1. PICK l \in todo : CompareLess(l) \/ CompareMore(l) \/ CompareEqual(l)
    BY <1>5 DEF CompareLevel
  <2>2. spc = "compare" /\ side' = side
    BY <1>5 DEF CompareLevel
  <2>3. CASE CompareMore(l)
    <3> DEFINE e == OrderInfo("ADD", NoId, side, l.quantity - QtyAt(l.price), l.price)
    <3>1. events' = Append(events, e) /\ spc' = spc
      BY <2>3 DEF CompareMore
    <3>2. e.is_sell = side
      BY DEF OrderInfo
    <3>3. \A j \in DOMAIN events' : events'[j] \in {events[i] : i \in DOMAIN events} \cup {e}
      BY <1>1, <3>1
    <3> HIDE DEF e
    <3> QED
      BY <2>2, <3>1, <3>2, <3>3
  <2>4. CASE CompareLess(l) \/ CompareEqual(l)
    BY <1>2, <2>2, <2>4 DEF CompareLess, CompareEqual
  <2> QED
    BY <2>1, <2>3, <2>4
<1>6. CASE ApplyGuess
  <2> DEFINE e == OrderInfo(GuessKind(iter), pending_orders[iter].odid, side,
                            pending_orders[iter].quantity,
                            order_map[side][pending_orders[iter].odid].price)
  <2>1. events' = Append(events, e) /\ spc = "apply" /\ UNCHANGED <<spc, side>>
    BY <1>6 DEF ApplyGuess, snapVars
  <2>2. e.is_sell = side
    BY DEF OrderInfo
  <2>3. \A j \in DOMAIN events' : events'[j] \in {events[i] : i \in DOMAIN events} \cup {e}
    BY <1>1, <2>1
  <2> HIDE DEF e
  <2> QED
    BY <2>1, <2>2, <2>3
<1>7. CASE NextSide
  <2>1. spc = "next" /\ side' = ~side /\ events' = events /\ spc' = IF side THEN "idle" ELSE "side"
    BY <1>7 DEF NextSide
  <2> QED
    BY <1>1, <2>1
<1>8. CASE SnapQueued \/ CollectFront \/ CollectDone
  BY <1>2, <1>8 DEF SnapQueued, CollectFront, CollectDone, loopVars
<1>9. CASE SnapLeads \/ CollectFrontDone \/ CompareDone \/ CollectLevel \/ ApplyDone
  BY <1>2, <1>9 DEF SnapLeads, CollectFrontDone, CompareDone, CollectLevel, ApplyDone, Applied,
     vars, loopVars
<1>10. CASE UNCHANGED svars
  BY <1>2, <1>10 DEF svars, vars, loopVars, snapVars
<1> QED
  BY <1>3, <1>4, <1>5, <1>6, <1>7, <1>8, <1>9, <1>10 DEF SnapNext, SnapStep

\* The guesses are numbered as they are reported, and addOrder gives the number
\* to an order or finds one that has it.
LEMMA NextNumbered ==
  SnapInv /\ EventsInv /\ NumberedInv /\ [SnapNext]_svars => NumberedInv'
<1> SUFFICES ASSUME SnapInv, EventsInv, NumberedInv, [SnapNext]_svars PROVE NumberedInv'
  OBVIOUS
<1>1. side \in BOOLEAN /\ events \in Seq(Info) /\ Len(events) \in Nat /\ fake_order_id \in Int
  BY DEF SnapInv, SnapTypeOK, IInv, TypeOK
<1>2. ASSUME spc \in {"compare", "front"},
             UNCHANGED <<events, side, order_map, fake_order_id, ids_before>>
      PROVE  NumberedInv'
  BY <1>2 DEF NumberedInv, GuessId, FirstFakeId
<1>3. CASE SnapLeads
  <2>1. /\ spc = "side" /\ fake_order_id' = FirstFakeId /\ ids_before' = DOMAIN order_map[side]
        /\ UNCHANGED <<events, side, order_map>>
    BY <1>3 DEF SnapLeads, vars, sideVars, loopVars
  <2>2. {j \in 1 .. Len(events') + 1 - 1 : events'[j].event = "ADD" /\ events'[j].is_sell = side'} = {}
    BY <1>1, <2>1 DEF EventsInv
  <2>3. GuessId(Len(events) + 1)' = FirstFakeId
    BY <2>2, FS_EmptySet DEF GuessId, FirstFakeId
  <2> QED
    BY <2>1, <2>3 DEF NumberedInv
<1>4. CASE CompareLevel
  <2>1. PICK l \in todo : /\ todo' = todo \ {l}
                          /\ CompareLess(l) \/ CompareMore(l) \/ CompareEqual(l)
    BY <1>4 DEF CompareLevel
  <2>2. spc = "compare" /\ UNCHANGED <<side, ids_before>>
    BY <1>4 DEF CompareLevel
  <2>3. CASE CompareMore(l)
    <3> DEFINE qty == l.quantity - QtyAt(l.price)
               e   == OrderInfo("ADD", NoId, side, qty, l.price)
               o   == [quantity |-> qty, price |-> l.price, filled_quantity |-> 0]
    <3>1. /\ l.quantity > QtyAt(l.price) /\ events' = Append(events, e)
          /\ fake_order_id' = fake_order_id + 1 /\ addOrder(side, fake_order_id, o)
      BY <2>3 DEF CompareMore, NextFakeId
    <3>2. l.price \in Price /\ l.quantity \in Nat /\ QtyAt(l.price) \in Int
      BY <2>1, <2>2, VisitLevel, QtyAtInt DEF SnapInv, IInv
    <3>3. qty \in Nat
      BY <3>1, <3>2
    <3>4. e \in Info /\ e.event = "ADD" /\ e.is_sell = side
      BY <1>1, <3>2, <3>3 DEF OrderInfo, Info
    <3> HIDE DEF e, o
    <3>5. GuessId(Len(events) + 1)' = GuessId(Len(events) + 1) + 1
      BY <1>1, <2>2, <3>1, <3>4, GuessIdNext
    <3>6. DOMAIN order_map'[side] \subseteq DOMAIN order_map[side] \cup {fake_order_id}
      <4>1. DOMAIN order_map = BOOLEAN
        BY DEF SnapInv, IInv, TypeOK
      <4> QED
        BY <1>1, <3>1, <4>1 DEF addOrder, existOrder, Put
    <3>7. fake_order_id = GuessId(Len(events) + 1) /\ fake_order_id >= FirstFakeId
      BY <2>2 DEF NumberedInv, SnapInv, CompareInv
    <3>8. \A id \in DOMAIN order_map'[side] :
            id \in ids_before \/ id \in FirstFakeId .. (fake_order_id' - 1)
      BY <1>1, <2>2, <3>1, <3>6, <3>7 DEF NumberedInv, FirstFakeId
    <3> QED
      BY <2>2, <3>1, <3>5, <3>7, <3>8 DEF NumberedInv, FirstFakeId
  <2>4. CASE CompareLess(l) \/ CompareEqual(l)
    BY <1>2, <2>2, <2>4 DEF CompareLess, CompareEqual, sideVars
  <2> QED
    BY <2>1, <2>3, <2>4
<1>5. CASE CollectFront \/ CollectFrontDone
  BY <1>2, <1>5 DEF CollectFront, CollectFrontDone, vars, sideVars, loopVars, snapLocals
<1>6. CASE UNCHANGED svars
  <2>1. UNCHANGED <<spc, events, side, order_map, fake_order_id, ids_before>>
    BY <1>6 DEF svars, vars, sideVars, loopVars, snapVars
  <2> QED
    BY <1>2, <2>1 DEF NumberedInv
<1>7. CASE spc' \notin {"compare", "front"}
  BY <1>7 DEF NumberedInv
<1> QED
  BY <1>3, <1>4, <1>5, <1>6, <1>7 DEF SnapNext, SnapStep, BookStep, snapVars, ReceiveSnapshot,
     processSnapshotMessage, SnapQueued, CompareDone, CollectLevel, CollectDone, ApplyGuess,
     ApplyDone, NextSide

-----------------------------------------------------------------------------
(* The loop over the levels of the snapshot.                               *)

\* A level that is settled stays so while the book will have the same there.
LEMMA SettledSame ==
  ASSUME NEW l, Settled(l), WillBe(l.price)' = WillBe(l.price), UNCHANGED <<side, ids_before>>,
         events \in Seq(Info), events' = events \/ \E e \in Info : events' = Append(events, e)
  PROVE  Settled(l)'
<1>1. CASE WillBe(l.price) = l.quantity
  BY <1>1 DEF Settled
<1>2. CASE WillBe(l.price) # l.quantity
  <2>1. PICK k \in DOMAIN events :
          /\ events[k] = OrderInfo("ADD", NoId, side, l.quantity - WillBe(l.price), l.price)
          /\ GuessId(k) \in ids_before
    BY <1>2 DEF Settled
  <2>2. k \in DOMAIN events' /\ events'[k] = events[k] /\ k \in 1 .. Len(events) + 1
    OBVIOUS
  <2>3. events'[k] = OrderInfo("ADD", NoId, side', l.quantity - WillBe(l.price)', l.price)
    BY <2>1, <2>2
  <2>4. GuessId(k)' \in ids_before'
    BY <2>1, <2>2, GuessIdSame
  <2> QED
    BY <2>2, <2>3, <2>4 DEF Settled
<1> QED
  BY <1>1, <1>2

\* The level being compared has no order collected yet.
LEMMA NothingGoesYet ==
  ASSUME SnapInv, spc = "compare", NEW l \in todo
  PROVE  /\ ToGo(l.price) = 0 /\ WillBe(l.price) = QtyAt(l.price) /\ From = 1
         /\ QtyAt(l.price) \in Int /\ l.quantity \in Nat /\ l \in snapshot[side]
         /\ \A k \in snapshot[side] : k.price = l.price => k = l
<1>1. From = 1
  BY DEF From
<1>2. side \in BOOLEAN /\ TypeOK
  BY DEF SnapInv, IInv, TypeOK
<1>3. l \in snapshot[side]
  BY DEF SnapInv, CompareInv
<1>4. l.price \in PricesOf(todo)
  BY DEF PricesOf
<1>5. \A i \in 1 .. Len(pending_orders) : GuessPrice(i) # l.price
  BY <1>4, GoingNat DEF SnapInv, CompareInv
<1>6. ToGo(l.price) = 0
  BY <1>1, <1>5, ToGoNone
<1>7. QtyAt(l.price) \in Int
  BY <1>2, QtyAtInt
<1>8. l.quantity \in Nat
  BY <1>2, <1>3 DEF SnapInv, SnapTypeOK
<1>9. \A k \in snapshot[side] : k.price = l.price => k = l
  BY <1>2, <1>3 DEF SnapInv, ViewsInv
<1> QED
  BY <1>1, <1>3, <1>6, <1>7, <1>8, <1>9 DEF WillBe

\* A step that leaves the orders and what is collected alone.
LEMMA WillBeSame ==
  ASSUME SnapInv, UNCHANGED <<levels, order_map, side, pending_orders>>, From' = From, NEW p
  PROVE  WillBe(p)' = WillBe(p) /\ ToGo(p)' = ToGo(p) /\ QtyAt(p)' = QtyAt(p)
<1>1. \A i \in 1 .. Len(pending_orders) : i >= From => GuessPrice(i)' = GuessPrice(i)
  BY DEF GuessPrice
<1>2. ToGo(p)' = ToGo(p)
  BY <1>1, ToGoSame
<1>3. QtyAt(p)' = QtyAt(p)
  BY DEF QtyAt
<1> QED
  BY <1>2, <1>3 DEF WillBe

\* All the levels of the snapshot are to be visited.
LEMMA SnapLeadsApplied ==
  ASSUME AllInv, SnapLeads
  PROVE  AppliedInv'
<1>1. spc' = "compare" /\ todo' = snapshot[side] /\ UNCHANGED <<side, snapshot>>
  BY DEF SnapLeads, vars, loopVars
<1> QED
  BY <1>1 DEF AppliedInv, VisitedInv, WalkedInv, MissingInv

\* The level has too much: all of the difference is to be collected.
LEMMA CompareLessApplied ==
  ASSUME AllInv, CompareLevel, NEW l \in todo, todo' = todo \ {l}, CompareLess(l)
  PROVE  AppliedInv'
<1> USE DEF AllInv, AppliedInv
<1>1. /\ spc = "compare" /\ spc' = "front" /\ cur' = l.price /\ iter' = 1
      /\ qty_to_remove' = QtyAt(l.price) - l.quantity /\ l.quantity < QtyAt(l.price)
      /\ UNCHANGED <<levels, order_map, side, pending_orders, events, snapshot, ids_before>>
  BY DEF CompareLevel, CompareLess, sideVars
<1>2. /\ ToGo(l.price) = 0 /\ WillBe(l.price) = QtyAt(l.price) /\ From = 1
      /\ QtyAt(l.price) \in Int /\ l.quantity \in Nat /\ l \in snapshot[side]
      /\ \A k \in snapshot[side] : k.price = l.price => k = l
  BY <1>1, NothingGoesYet
<1>3. From' = From
  BY <1>1, <1>2 DEF From
<1>4. \A p : WillBe(p)' = WillBe(p) /\ ToGo(p)' = ToGo(p)
  BY <1>1, <1>3, WillBeSame
<1>5. events \in Seq(Info) /\ events' = events
  BY <1>1 DEF SnapInv, IInv, TypeOK
<1>6. VisitedInv'
  <2> SUFFICES ASSUME NEW k \in snapshot[side] \ todo', k.price # l.price
               PROVE  Settled(k)'
    BY <1>1 DEF VisitedInv
  <2>1. k \in snapshot[side] \ todo
    OBVIOUS
  <2>2. Settled(k)
    BY <1>1, <2>1 DEF VisitedInv
  <2> QED
    BY <1>1, <1>4, <1>5, <2>2, SettledSame
<1>7. WalkedInv'
  <2>1. l.price \in DOMAIN levels[side] /\ side \in BOOLEAN
    BY <1>1, <1>2 DEF QtyAt, SnapInv, IInv, TypeOK
  <2>2. Len(levels[side][l.price].orders) \in Nat
    BY <2>1 DEF SnapInv, IInv, TypeOK, IsMap, L3PriceLevel
  <2>3. iter' \in 1 .. Len(levels'[side'][cur'].orders) + 1
    BY <1>1, <2>2
  <2>4. \A k \in snapshot'[side'] : k.price = cur' => WillBe(cur)' - qty_to_remove' = k.quantity
    <3>1. ToGo(cur)' = 0
      BY <1>1, <1>2, <1>4 DEF ToGo, Going
    <3>2. QtyAt(cur)' = QtyAt(l.price)
      BY <1>1 DEF QtyAt
    <3>3. WillBe(cur)' = QtyAt(l.price)
      BY <1>2, <3>1, <3>2 DEF WillBe
    <3> QED
      BY <1>1, <1>2, <3>3
  <2>5. ToGo(cur)' = Total(Left(order_map'[side'], levels'[side'][cur'].orders), iter' - 1)
    <3>1. ToGo(cur)' = 0
      BY <1>1, <1>2, <1>4 DEF ToGo, Going
    <3> QED
      BY <1>1, <3>1, TotalZero
  <2> QED
    BY <2>3, <2>4, <2>5 DEF WalkedInv
<1>8. MissingInv'
  BY <1>1 DEF MissingInv
<1> QED
  BY <1>6, <1>7, <1>8

\* The level has what the snapshot says.
LEMMA CompareEqualApplied ==
  ASSUME AllInv, CompareLevel, NEW l \in todo, todo' = todo \ {l}, CompareEqual(l)
  PROVE  AppliedInv'
<1> USE DEF AllInv, AppliedInv
<1>1. /\ spc = "compare" /\ spc' = "compare" /\ l.quantity = QtyAt(l.price)
      /\ UNCHANGED <<levels, order_map, side, pending_orders, events, snapshot, ids_before>>
  BY DEF CompareLevel, CompareEqual, sideVars
<1>2. WillBe(l.price) = QtyAt(l.price) /\ From = 1
  BY <1>1, NothingGoesYet
<1>3. From' = From
  BY <1>1, <1>2 DEF From
<1>4. \A p : WillBe(p)' = WillBe(p)
  BY <1>1, <1>3, WillBeSame
<1>5. events \in Seq(Info) /\ events' = events
  BY <1>1 DEF SnapInv, IInv, TypeOK
<1>6. VisitedInv'
  <2> SUFFICES ASSUME NEW k \in snapshot[side] \ todo'
               PROVE  Settled(k)'
    BY <1>1 DEF VisitedInv
  <2>1. k = l \/ k \in snapshot[side] \ todo
    OBVIOUS
  <2>2. Settled(k)
    BY <1>1, <1>2, <2>1 DEF VisitedInv, Settled
  <2> QED
    BY <1>1, <1>4, <1>5, <2>2, SettledSame
<1> QED
  BY <1>1, <1>6 DEF WalkedInv, MissingInv

\* The level has too little: the guessed order makes up for it, or was reported
\* and dropped.
LEMMA CompareMoreApplied ==
  ASSUME AllInv, CompareLevel, NEW l \in todo, todo' = todo \ {l}, CompareMore(l)
  PROVE  AppliedInv'
<1> USE DEF AllInv, AppliedInv
<1> DEFINE qty == l.quantity - QtyAt(l.price)
           o   == [quantity |-> qty, price |-> l.price, filled_quantity |-> 0]
           e   == OrderInfo("ADD", NoId, side, qty, l.price)
<1>1. /\ spc = "compare" /\ spc' = "compare" /\ l.quantity > QtyAt(l.price)
      /\ events' = Append(events, e)
      /\ addOrder(side, fake_order_id, o)
      /\ UNCHANGED <<side, pending_orders, snapshot, ids_before>>
  BY DEF CompareLevel, CompareMore
<1>2. /\ WillBe(l.price) = QtyAt(l.price) /\ From = 1 /\ ToGo(l.price) = 0
      /\ QtyAt(l.price) \in Int /\ l.quantity \in Nat /\ l \in snapshot[side]
      /\ \A k \in snapshot[side] : k.price = l.price => k = l
  BY <1>1, NothingGoesYet
<1>3. From' = From
  BY <1>1, <1>2 DEF From
<1>4. side \in BOOLEAN /\ l.price \in Price /\ qty \in Nat /\ TypeOK
  BY <1>1, <1>2 DEF SnapInv, SnapTypeOK, IInv, TypeOK
<1>5. o \in Order /\ Remaining(o) = qty
  BY <1>4 DEF Order, Remaining
<1>6. events \in Seq(Info) /\ e \in Info /\ events' = Append(events, e)
  BY <1>1, <1>4 DEF TypeOK, Info, OrderInfo
<1> HIDE DEF qty, o, e
<1>7. \A i \in 1 .. Len(pending_orders) : i >= From => GuessPrice(i)' = GuessPrice(i)
  <2> SUFFICES ASSUME NEW i \in 1 .. Len(pending_orders)
               PROVE  GuessPrice(i)' = GuessPrice(i)
    OBVIOUS
  <2>1. pending_orders[i].odid \in DOMAIN order_map[side]
    BY <1>1, GoingNat DEF SnapInv, CompareInv, GuessesOK, existOrder
  <2>2. order_map'[side][pending_orders[i].odid] = order_map[side][pending_orders[i].odid]
    BY <1>1, <1>4, <2>1 DEF addOrder, existOrder, Put, TypeOK
  <2> QED
    BY <1>1, <2>2 DEF GuessPrice
<1>8. \A p : ToGo(p)' = ToGo(p)
  BY <1>1, <1>3, <1>7, ToGoSame
<1>9. \A p : p # l.price => WillBe(p)' = WillBe(p)
  <2> SUFFICES ASSUME NEW p, p # l.price
               PROVE  QtyAt(p)' = QtyAt(p)
    BY <1>8 DEF WillBe
  <2>1. CASE existOrder(side, fake_order_id)
    BY <1>1, <2>1 DEF addOrder, QtyAt
  <2>2. CASE ~existOrder(side, fake_order_id)
    <3>1. QtyAt(p)' = QtyAt(p) + 0 /\ QtyAt(p) \in Int
      BY <1>1, <1>4, <1>5, <2>2, QtyAtAdd, QtyAtInt DEF o
    <3> QED
      BY <3>1
  <2> QED
    BY <2>1, <2>2
<1>10. Settled(l)'
  <2>1. CASE existOrder(side, fake_order_id)
    <3>1. WillBe(l.price)' = WillBe(l.price)
      BY <1>1, <1>8, <2>1 DEF addOrder, QtyAt, WillBe
    <3>2. PICK k \in 1 .. Len(events) + 1 : k = Len(events) + 1
      BY <1>6
    <3>3. k \in DOMAIN events'
          /\ events'[k] = OrderInfo("ADD", NoId, side', l.quantity - WillBe(l.price)', l.price)
      <4>1. k \in DOMAIN events' /\ events'[k] = e
        BY <1>6, <3>2
      <4> QED
        BY <1>1, <1>2, <3>1, <4>1 DEF e, qty
    <3>4. GuessId(k)' = fake_order_id
      <4>1. GuessId(k)' = GuessId(k)
        BY <1>1, <1>6, GuessIdSame
      <4> QED
        BY <1>1, <3>2, <4>1 DEF NumberedInv
    <3>5. fake_order_id \in ids_before'
      <4>1. fake_order_id \in Int
        BY DEF SnapInv, SnapTypeOK
      <4>2. fake_order_id \in DOMAIN order_map[side]
        BY <2>1 DEF existOrder
      <4> QED
        BY <1>1, <4>1, <4>2 DEF NumberedInv, FirstFakeId
    <3> QED
      BY <3>3, <3>4, <3>5 DEF Settled
  <2>2. CASE ~existOrder(side, fake_order_id)
    <3>1. QtyAt(l.price)' = QtyAt(l.price) + qty
      BY <1>1, <1>4, <1>5, <2>2, QtyAtAdd DEF o
    <3>2. QtyAt(l.price)' = l.quantity
      BY <1>2, <3>1 DEF qty
    <3>3. WillBe(l.price)' = l.quantity
      BY <1>2, <1>8, <3>2 DEF WillBe
    <3> QED
      BY <3>3 DEF Settled
  <2> QED
    BY <2>1, <2>2
<1>11. VisitedInv'
  <2> SUFFICES ASSUME NEW k \in snapshot[side] \ todo'
               PROVE  Settled(k)'
    BY <1>1 DEF VisitedInv
  <2>1. CASE k = l
    BY <1>10, <2>1
  <2>2. CASE k # l
    <3>1. k \in snapshot[side] \ todo /\ k.price # l.price
      BY <1>2, <2>2
    <3>2. Settled(k)
      BY <1>1, <3>1 DEF VisitedInv
    <3> QED
      BY <1>1, <1>6, <1>9, <3>1, <3>2, SettledSame
  <2> QED
    BY <2>1, <2>2
<1> QED
  BY <1>1, <1>11 DEF WalkedInv, MissingInv

-----------------------------------------------------------------------------
(* The walk over a level that has too much.                                *)

\* One order more is to go, whole or as far as the level has too much.
LEMMA CollectFrontApplied ==
  ASSUME AllInv, CollectFront
  PROVE  AppliedInv'
<1> USE DEF AllInv, AppliedInv
<1> DEFINE M    == order_map[side]
           list == levels[side][cur].orders
           n    == Len(list)
           id   == list[iter]
           qty  == TakeFrom(M[id])
           g    == [odid |-> id, quantity |-> qty]
           F    == Left(M, list)
<1>1. /\ spc = "front" /\ spc' = "front" /\ iter <= n /\ qty_to_remove > 0
      /\ qty_to_remove' = qty_to_remove - qty /\ pending_orders' = Append(pending_orders, g)
      /\ iter' = iter + 1 /\ UNCHANGED <<levels, order_map, side, cur, snapshot, todo, events, ids_before>>
  BY DEF CollectFront, sideVars
<1>2. /\ side \in BOOLEAN /\ cur \in DOMAIN levels[side] /\ iter \in Nat \ {0}
      /\ qty_to_remove \in Nat
  BY <1>1 DEF SnapInv, FrontInv, SnapTypeOK, IInv, TypeOK
<1>3. SideOK(levels[side], M)
  BY <1>2, SidesOK DEF SnapInv, IInv
<1>4. /\ n \in Nat
      /\ \A i \in 1 .. n : /\ list[i] \in DOMAIN M /\ M[list[i]] \in Order
                           /\ M[list[i]].price = cur
                           /\ F[i] = Remaining(M[list[i]]) /\ F[i] \in Nat
  BY <1>2, <1>3, LeftInt
<1>5. iter \in 1 .. n
  <2>1. iter <= n /\ iter \in Nat \ {0} /\ n \in Nat
    BY <1>1, <1>2, <1>4
  <2> HIDE DEF n
  <2> QED
    BY ONLY <2>1
<1>6. /\ id \in DOMAIN M /\ M[id].price = cur /\ F[iter] = Remaining(M[id]) /\ F[iter] \in Nat
      /\ id \in OrderId
  <2>1. DOMAIN M \subseteq OrderId
    BY <1>3 DEF SideOK, IsMap
  <2> QED
    BY <1>4, <1>5, <2>1
<1>7. qty = (IF qty_to_remove <= F[iter] THEN qty_to_remove ELSE F[iter]) /\ qty \in Nat
  BY <1>2, <1>6 DEF TakeFrom, MinOf
<1>8. g \in Guess
  BY <1>6, <1>7 DEF Guess
<1>9. From = 1 /\ From' = 1
  BY <1>1 DEF From
<1>10. g.odid = id /\ g.quantity = qty
  OBVIOUS
<1> HIDE DEF g, qty, id, n, list, M, F
<1>11. ASSUME NEW p
       PROVE  /\ ToGo(p)' = ToGo(p) + IF cur = p THEN qty ELSE 0
              /\ WillBe(p)' = WillBe(p) - IF cur = p THEN qty ELSE 0
              /\ ToGo(p) \in Int /\ WillBe(p) \in Int
  <2>1. ToGo(p)' = ToGo(p) + IF cur = p THEN qty ELSE 0
    BY <1>1, <1>6, <1>8, <1>9, <1>10, ToGoAppend DEF M
  <2>2. QtyAt(p)' = QtyAt(p)
    BY <1>1 DEF QtyAt
  <2>3. ToGo(p) \in Int /\ QtyAt(p) \in Int
    BY GoingNat, QtyAtInt DEF SnapInv, IInv
  <2> QED
    BY <1>7, <2>1, <2>2, <2>3 DEF WillBe
<1>12. events \in Seq(Info) /\ events' = events
  BY <1>1 DEF SnapInv, IInv, TypeOK
<1>13. VisitedInv'
  <2> SUFFICES ASSUME NEW l \in snapshot[side] \ todo, l.price # cur
               PROVE  Settled(l)'
    BY <1>1 DEF VisitedInv
  <2>1. Settled(l)
    BY <1>1 DEF VisitedInv
  <2>2. WillBe(l.price)' = WillBe(l.price)
    BY <1>11
  <2> QED
    BY <1>1, <1>12, <2>1, <2>2, SettledSame
<1>14. WalkedInv'
  <2>1. /\ \A l \in snapshot[side] : l.price = cur => WillBe(cur) - qty_to_remove = l.quantity
        /\ ToGo(cur) = Total(F, iter - 1)
    BY <1>1 DEF WalkedInv, F, M, list
  <2>2. ToGo(cur)' = ToGo(cur) + qty /\ WillBe(cur)' = WillBe(cur) - qty
    <3>1. ToGo(cur)' = Total(Going(cur)', Len(pending_orders)')
      BY DEF ToGo
    <3>2. PICK p : p = cur
      OBVIOUS
    <3>3. ToGo(p)' = ToGo(cur)' /\ WillBe(p)' = WillBe(cur)'
      BY <1>1, <3>2 DEF ToGo, Going, WillBe, QtyAt
    <3> QED
      BY <1>11, <3>2, <3>3
  <2>3. iter' \in 1 .. n + 1
    BY <1>1, <1>4, <1>5
  <2>4. \A l \in snapshot[side] : l.price = cur => WillBe(cur)' - qty_to_remove' = l.quantity
    <3>1. WillBe(cur) \in Int
      BY <1>11
    <3> QED
      BY <1>1, <1>2, <1>7, <2>1, <2>2, <3>1
  <2>5. ASSUME qty_to_remove' > 0
        PROVE  ToGo(cur)' = Total(F, iter' - 1)
    <3>1. qty = F[iter]
      BY <1>1, <1>2, <1>6, <1>7, <2>5
    <3> DEFINE j == iter - 1
    <3>2. j \in Nat /\ j + 1 = iter /\ iter' - 1 = j + 1
      BY <1>1, <1>2
    <3>3. \A i \in 1 .. j + 1 : F[i] \in Int
      BY <1>4, <1>5
    <3> HIDE DEF j
    <3>4. Total(F, j + 1) = Total(F, j) + F[j + 1]
      BY <3>2, <3>3, TotalNext
    <3> QED
      BY <2>1, <2>2, <3>1, <3>2, <3>4 DEF j
  <2> QED
    BY <1>1, <2>3, <2>4, <2>5 DEF WalkedInv, F, M, list, n
<1>15. MissingInv'
  BY <1>1 DEF MissingInv
<1> QED
  BY <1>13, <1>14, <1>15

\* The walk ends when all that is too much is collected: it cannot run out of
\* orders before.
LEMMA CollectFrontDoneApplied ==
  ASSUME AllInv, CollectFrontDone
  PROVE  AppliedInv'
<1> USE DEF AllInv, AppliedInv
<1> DEFINE list == levels[side][cur].orders
           n    == Len(list)
<1>1. /\ spc = "front" /\ spc' = "compare" /\ (iter > n \/ qty_to_remove = 0)
      /\ UNCHANGED <<levels, order_map, side, cur, snapshot, todo, events, pending_orders, ids_before>>
  BY DEF CollectFrontDone, vars, sideVars, loopVars, snapLocals
<1>2. /\ side \in BOOLEAN /\ cur \in DOMAIN levels[side] /\ qty_to_remove \in Nat
      /\ \A l \in snapshot[side] : l.quantity \in Nat
  BY <1>1 DEF SnapInv, FrontInv, SnapTypeOK, IInv, TypeOK
<1>3. From = 1 /\ From' = 1
  BY <1>1 DEF From
<1>4. \A p : WillBe(p)' = WillBe(p)
  BY <1>1, <1>3, WillBeSame
<1>5. ASSUME NEW l \in snapshot[side], l.price = cur
      PROVE  WillBe(cur) = l.quantity
  <2>1. WillBe(cur) - qty_to_remove = l.quantity
    BY <1>1, <1>5 DEF WalkedInv
  <2>2. WillBe(cur) \in Int
    BY GoingNat, QtyAtInt DEF WillBe, SnapInv, IInv
  <2>3. ASSUME qty_to_remove > 0
        PROVE  FALSE
    <3>1. iter \in 1 .. n + 1 /\ ToGo(cur) = Total(Left(order_map[side], list), iter - 1)
      BY <1>1, <2>3 DEF WalkedInv
    <3>2. levels[side][cur].quantity = Total(Left(order_map[side], list), n)
      BY <1>2 DEF BookTotals, SideTotals, LevelTotal
    <3>3. n \in Nat
      BY <1>2 DEF SnapInv, IInv, TypeOK, IsMap, L3PriceLevel
    <3>4. iter - 1 = n
      <4>1. iter > n
        BY <1>1, <2>3
      <4> HIDE DEF n
      <4> QED
        BY <3>1, <3>3, <4>1
    <3>5. WillBe(cur) = levels[side][cur].quantity - levels[side][cur].quantity
      BY <1>2, <3>1, <3>2, <3>4 DEF WillBe, QtyAt
    <3>6. levels[side][cur].quantity \in Int
      BY <1>2 DEF SnapInv, IInv, TypeOK, IsMap, L3PriceLevel
    <3>7. WillBe(cur) = 0
      BY <3>5, <3>6
    <3> QED
      BY <1>2, <2>1, <2>3, <3>7
  <2> QED
    BY <1>2, <2>1, <2>2, <2>3
<1>6. events \in Seq(Info) /\ events' = events
  BY <1>1 DEF SnapInv, IInv, TypeOK
<1>7. VisitedInv'
  <2> SUFFICES ASSUME NEW l \in snapshot[side] \ todo
               PROVE  Settled(l)'
    BY <1>1 DEF VisitedInv
  <2>1. Settled(l)
    BY <1>1, <1>5 DEF VisitedInv, Settled
  <2> QED
    BY <1>1, <1>4, <1>6, <2>1, SettledSame
<1> QED
  BY <1>1, <1>7 DEF WalkedInv, MissingInv

-----------------------------------------------------------------------------
(* The loop over the levels the snapshot does not have.                    *)

\* All the levels of the snapshot are settled; an order at another price has a
\* level that is to be visited.
LEMMA CompareDoneApplied ==
  ASSUME AllInv, CompareDone
  PROVE  AppliedInv'
<1> USE DEF AllInv, AppliedInv
<1>1. /\ spc = "compare" /\ todo = {} /\ spc' = "collect" /\ todo' = MissingLevels
      /\ UNCHANGED <<levels, order_map, side, snapshot, events, pending_orders, ids_before>>
  BY DEF CompareDone, vars, sideVars, loopVars
<1>2. From = 1 /\ From' = 1
  BY <1>1 DEF From
<1>3. \A p : WillBe(p)' = WillBe(p)
  BY <1>1, <1>2, WillBeSame
<1>4. events \in Seq(Info) /\ events' = events /\ side \in BOOLEAN
  BY <1>1 DEF SnapInv, IInv, TypeOK
<1>5. VisitedInv'
  <2> SUFFICES ASSUME NEW l \in snapshot[side]
               PROVE  Settled(l)'
    BY <1>1 DEF VisitedInv
  <2>1. Settled(l)
    BY <1>1 DEF VisitedInv
  <2> QED
    BY <1>1, <1>3, <1>4, <2>1, SettledSame
<1>6. PricesOf(todo') = DOMAIN levels[side] \ PricesOf(snapshot[side])
  <2> DEFINE L == levels[side]
             P == PricesOf(snapshot[side])
             at(p) == [price |-> p, quantity |-> L[p].quantity]
  <2>1. todo' = {l \in {at(p) : p \in DOMAIN L} : l.price \notin P}
    BY <1>1 DEF MissingLevels, L2View
  <2>2. \A p \in DOMAIN L : at(p).price = p
    OBVIOUS
  <2> HIDE DEF L, P, at
  <2>3. \A p \in DOMAIN L \ P : at(p) \in todo'
    BY <2>1, <2>2
  <2>4. \A l \in todo' : l.price \in DOMAIN L \ P
    BY <2>1, <2>2
  <2>5. PricesOf(todo') = DOMAIN L \ P
    BY <2>2, <2>3, <2>4 DEF PricesOf
  <2> QED
    BY <2>5 DEF L, P
<1>7. \A id \in DOMAIN order_map[side] : order_map[side][id].price \in DOMAIN levels[side]
  BY <1>4 DEF SnapInv, IInv, BookConsistent, SideConsistent
<1>8. MissingInv'
  BY <1>1, <1>6, <1>7 DEF MissingInv
<1> QED
  BY <1>1, <1>5, <1>8 DEF WalkedInv

\* All the orders of one level more are to go.
LEMMA CollectLevelApplied ==
  ASSUME AllInv, CollectLevel
  PROVE  AppliedInv'
<1> USE DEF AllInv, AppliedInv
<1> DEFINE M == order_map[side]
           n == Len(pending_orders)
<1>1. PICK l \in todo :
        LET list == levels[side][l.price].orders
        IN  /\ todo' = todo \ {l}
            /\ pending_orders' = pending_orders \o
                 [i \in DOMAIN list |-> [odid     |-> list[i],
                                         quantity |-> Remaining(order_map[side][list[i]])]]
  BY DEF CollectLevel
<1> DEFINE list == levels[side][l.price].orders
           k    == Len(list)
           ext  == [i \in DOMAIN list |-> [odid |-> list[i], quantity |-> Remaining(M[list[i]])]]
<1>2. /\ spc = "collect" /\ spc' = "collect"
      /\ UNCHANGED <<levels, order_map, side, snapshot, events, ids_before>>
  BY DEF CollectLevel, vars, sideVars, loopVars
<1>3. side \in BOOLEAN /\ l.price \in DOMAIN levels[side]
  BY <1>2 DEF SnapInv, CollectInv, L2View, IInv, TypeOK
<1>4. SideOK(levels[side], M)
  BY <1>3, SidesOK DEF SnapInv, IInv
<1>5. /\ k \in Nat /\ DOMAIN list = 1 .. k
      /\ \A i \in 1 .. k : /\ list[i] \in DOMAIN M /\ M[list[i]].price = l.price
                           /\ Remaining(M[list[i]]) \in Nat
  BY <1>3, <1>4, LeftInt
<1>6. \A id \in DOMAIN M : M[id].price = l.price => \E i \in 1 .. k : list[i] = id
  BY <1>3, <1>4, <1>5 DEF SideOK, SideConsistent
<1>7. \A i \in 1 .. k : ext[i] = [odid |-> list[i], quantity |-> Remaining(M[list[i]])]
  BY <1>5
<1>8. ext \in Seq(Guess) /\ Len(ext) = k
  <2>1. DOMAIN M \subseteq OrderId
    BY <1>4 DEF SideOK, IsMap
  <2>2. \A i \in 1 .. k : ext[i] \in Guess
    BY <1>5, <1>7, <2>1 DEF Guess
  <2>3. ext = [i \in 1 .. k |-> ext[i]]
    BY <1>5
  <2> HIDE DEF k, ext
  <2> QED
    BY <1>5, <2>2, <2>3
<1>9. pending_orders' = pending_orders \o ext /\ todo' = todo \ {l}
  BY <1>1
<1> HIDE DEF ext, k, list
<1>10. From = 1 /\ From' = 1
  BY <1>2 DEF From
<1>11. l.price \in PricesOf(todo) /\ l.price \notin PricesOf(snapshot[side])
  BY <1>2 DEF MissingInv, PricesOf
<1>12. ASSUME NEW p, p # l.price
       PROVE  WillBe(p)' = WillBe(p)
  <2>1. \A i \in 1 .. Len(ext) : order_map[side][ext[i].odid].price # p
    BY <1>5, <1>7, <1>8, <1>12
  <2>2. ToGo(p)' = ToGo(p)
    BY <1>2, <1>8, <1>9, <1>10, <2>1, ToGoElsewhere
  <2>3. QtyAt(p)' = QtyAt(p)
    BY <1>2 DEF QtyAt
  <2> QED
    BY <2>2, <2>3 DEF WillBe
<1>13. events \in Seq(Info) /\ events' = events
  BY <1>2 DEF SnapInv, IInv, TypeOK
<1>14. VisitedInv'
  <2> SUFFICES ASSUME NEW m \in snapshot[side]
               PROVE  Settled(m)'
    BY <1>2 DEF VisitedInv
  <2>1. Settled(m) /\ m.price # l.price
    BY <1>2, <1>11 DEF VisitedInv, PricesOf
  <2> QED
    BY <1>2, <1>12, <1>13, <2>1, SettledSame
<1>15. /\ n \in Nat /\ Len(pending_orders') = n + k
       /\ \A i \in 1 .. n : pending_orders'[i] = pending_orders[i]
       /\ \A i \in 1 .. k : pending_orders'[n + i] = ext[i]
  <2>1. pending_orders \in Seq(Guess)
    BY DEF SnapInv, SnapTypeOK
  <2>2. n \in Nat /\ Len(pending_orders \o ext) = n + Len(ext)
    BY <1>8, <2>1
  <2>3. \A i \in 1 .. n : (pending_orders \o ext)[i] = pending_orders[i]
    BY <1>8, <2>1
  <2>4. \A i \in 1 .. Len(ext) : (pending_orders \o ext)[n + i] = ext[i]
    <3> SUFFICES ASSUME NEW i \in 1 .. Len(ext)
                 PROVE  (pending_orders \o ext)[n + i] = ext[i]
      OBVIOUS
    <3>1. Len(ext) \in Nat
      BY <1>5, <1>8
    <3>2. n + i \in 1 .. Len(pending_orders) + Len(ext) /\ ~(n + i <= n) /\ (n + i) - n = i
      BY <2>2, <3>1
    <3> QED
      BY <1>8, <2>1, <3>2
  <2> QED
    BY <1>8, <1>9, <2>2, <2>3, <2>4
<1> HIDE DEF n
<1>16. MissingInv'
  <2>1. PricesOf(todo') \subseteq PricesOf(todo)
    BY <1>9 DEF PricesOf
  <2>2. PricesOf(todo') \cap PricesOf(snapshot[side]) = {}
    BY <1>2, <2>1 DEF MissingInv
  <2>3. PricesOf(todo) \subseteq PricesOf(todo') \cup {l.price}
    BY <1>9 DEF PricesOf
  <2>4. ASSUME NEW id \in DOMAIN M, M[id].price \notin PricesOf(snapshot[side]),
               M[id].price \notin PricesOf(todo')
        PROVE  \E i \in 1 .. n + k :
                 pending_orders'[i] = [odid |-> id, quantity |-> Remaining(M[id])]
    <3>1. CASE M[id].price = l.price
      <4>1. PICK i \in 1 .. k : list[i] = id
        BY <1>6, <3>1
      <4>2. n + i \in 1 .. n + k
        BY <1>5, <1>15
      <4>3. pending_orders'[n + i] = [odid |-> id, quantity |-> Remaining(M[id])]
        BY <1>7, <1>15, <4>1
      <4> QED
        BY <4>2, <4>3
    <3>2. CASE M[id].price # l.price
      <4>1. M[id].price \notin PricesOf(todo)
        BY <2>3, <2>4, <3>2
      <4>2. PICK i \in 1 .. n :
              pending_orders[i] = [odid |-> id, quantity |-> Remaining(M[id])]
        BY <1>2, <1>10, <2>4, <4>1 DEF MissingInv, n
      <4>3. i \in 1 .. n + k
        BY <1>5, <1>15
      <4> QED
        BY <1>15, <4>2, <4>3
    <3> QED
      BY <3>1, <3>2
  <2> QED
    BY <1>2, <1>10, <1>15, <2>2, <2>4 DEF MissingInv
<1> QED
  BY <1>2, <1>14, <1>16 DEF WalkedInv

\* Nothing is left to collect.
LEMMA CollectDoneApplied ==
  ASSUME AllInv, CollectDone
  PROVE  AppliedInv'
<1> USE DEF AllInv, AppliedInv
<1>1. /\ spc = "collect" /\ todo = {} /\ spc' = "apply" /\ iter' = 1
      /\ UNCHANGED <<levels, order_map, side, snapshot, events, pending_orders, ids_before>>
  BY DEF CollectDone, sideVars, snapLocals
<1>2. From = 1 /\ From' = 1
  BY <1>1 DEF From
<1>3. \A p : WillBe(p)' = WillBe(p)
  BY <1>1, <1>2, WillBeSame
<1>4. events \in Seq(Info) /\ events' = events
  BY <1>1 DEF SnapInv, IInv, TypeOK
<1>5. VisitedInv'
  <2> SUFFICES ASSUME NEW l \in snapshot[side]
               PROVE  Settled(l)'
    BY <1>1 DEF VisitedInv
  <2>1. Settled(l)
    BY <1>1 DEF VisitedInv
  <2> QED
    BY <1>1, <1>3, <1>4, <2>1, SettledSame
<1>6. MissingInv'
  BY <1>1, <1>2 DEF MissingInv, PricesOf
<1> QED
  BY <1>1, <1>5, <1>6 DEF WalkedInv

-----------------------------------------------------------------------------
(* The guesses are applied.                                                *)

\* One order is filled or removed: what the book will have stays.
LEMMA ApplyGuessApplied ==
  ASSUME AllInv, ApplyGuess
  PROVE  AppliedInv'
<1> USE DEF AllInv, AppliedInv
<1> DEFINE M   == order_map[side]
           n   == Len(pending_orders)
           id  == pending_orders[iter].odid
           qty == pending_orders[iter].quantity
           e   == OrderInfo(GuessKind(iter), id, side, qty, M[id].price)
<1>1. /\ spc = "apply" /\ spc' = "apply" /\ iter <= n /\ iter' = iter + 1
      /\ RemoveGuess(id, qty) /\ events' = Append(events, e)
      /\ UNCHANGED <<side, pending_orders, snapshot, todo, ids_before>>
  BY DEF ApplyGuess, snapVars
<1>2. /\ side \in BOOLEAN /\ iter \in Nat \ {0} /\ n \in Nat /\ TypeOK
      /\ DOMAIN order_map = BOOLEAN
  BY GoingNat DEF SnapInv, IInv, TypeOK
<1>3. iter \in iter .. n /\ iter \in 1 .. n
  <2>1. iter <= n
    BY <1>1
  <2> HIDE DEF n
  <2> QED
    BY <1>2, <2>1
<1>4. /\ id \in DOMAIN M /\ qty \in Nat /\ qty > 0 /\ qty <= Remaining(M[id])
      /\ \A i \in iter .. n : pending_orders[i].odid = id => i = iter
  <2>1. qty \in Nat
    BY <1>3, GoingNat
  <2> QED
    BY <1>1, <1>3, <2>1 DEF SnapInv, GuessesApplicable, existOrder
<1>5. M[id].price \in Price
  BY <1>2, <1>4 DEF TypeOK, IsMap, Order
<1>6. events \in Seq(Info) /\ e \in Info
  <2>1. id \in OrderId
    BY <1>3, GoingNat
  <2> QED
    BY <1>2, <1>4, <1>5, <2>1 DEF TypeOK, Info, OrderInfo, GuessKind
<1> HIDE DEF e
\* The other orders stay as they are, and this one goes if it is used up.
<1>7. /\ \A x \in DOMAIN M : x # id => x \in DOMAIN order_map'[side] /\ order_map'[side][x] = M[x]
      /\ DOMAIN order_map'[side] \subseteq DOMAIN M
      /\ Remaining(M[id]) = qty => id \notin DOMAIN order_map'[side]
      /\ id \in DOMAIN order_map'[side] => order_map'[side][id].price = M[id].price
  <2>1. CASE Remaining(M[id]) = qty
    <3>1. order_map'[side] = Erase(M, id)
      BY <1>1, <1>2, <1>4, <2>1 DEF RemoveGuess, removeOrder, existOrder
    <3> QED
      BY <3>1 DEF Erase, Restrict
  <2>2. CASE Remaining(M[id]) # qty
    <3>1. order_map'[side] = [M EXCEPT ![id] = OrderFilled(@, qty)]
      BY <1>1, <1>2, <1>4, <2>2, FillGuessFills DEF RemoveGuess, SnapInv
    <3>2. OrderFilled(M[id], qty).price = M[id].price
      BY <1>2, <1>4 DEF TypeOK, IsMap, Order, OrderFilled
    <3> QED
      BY <1>4, <2>2, <3>1, <3>2
  <2> QED
    BY <2>1, <2>2
<1>8. \A i \in iter + 1 .. n : GuessPrice(i)' = GuessPrice(i)
  <2> SUFFICES ASSUME NEW i \in iter + 1 .. n
               PROVE  GuessPrice(i)' = GuessPrice(i)
    OBVIOUS
  <2>1. i \in iter .. n /\ i # iter
    <3> HIDE DEF n
    <3> QED
      BY <1>2
  <2>2. pending_orders[i].odid \in DOMAIN M /\ pending_orders[i].odid # id
    BY <1>1, <1>4, <2>1 DEF SnapInv, GuessesApplicable, existOrder
  <2> QED
    BY <1>1, <1>7, <2>2 DEF GuessPrice
<1>9. ASSUME NEW p
      PROVE  WillBe(p)' = WillBe(p)
  <2> DEFINE q == IF M[id].price = p THEN qty ELSE 0
  <2>1. ToGo(p)' = ToGo(p) - q
    BY <1>1, <1>8, ToGoApply DEF GuessPrice
  <2>2. QtyAt(p)' = QtyAt(p) - q
    <3>1. CASE Remaining(M[id]) = qty
      <4>1. removeOrder(side, id)
        BY <1>1, <3>1 DEF RemoveGuess
      <4> QED
        BY <1>1, <1>4, <3>1, <4>1, QtyAtRemove
    <3>2. CASE Remaining(M[id]) # qty
      <4>1. FillGuess(id, qty)
        BY <1>1, <3>2 DEF RemoveGuess
      <4> QED
        BY <1>1, <1>4, <4>1, QtyAtFill
    <3> QED
      BY <3>1, <3>2
  <2>3. ToGo(p) \in Int /\ QtyAt(p) \in Int /\ q \in Int
    BY <1>2, <1>4, GoingNat, QtyAtInt
  <2> HIDE DEF q
  <2> QED
    BY <2>1, <2>2, <2>3 DEF WillBe
<1>10. VisitedInv'
  <2> SUFFICES ASSUME NEW l \in snapshot[side]
               PROVE  Settled(l)'
    BY <1>1 DEF VisitedInv
  <2>1. Settled(l)
    BY <1>1 DEF VisitedInv
  <2> QED
    BY <1>1, <1>6, <1>9, <2>1, SettledSame
<1>11. MissingInv'
  <2> SUFFICES ASSUME NEW x \in DOMAIN order_map'[side],
                      order_map'[side][x].price \notin PricesOf(snapshot[side])
               PROVE  \E i \in iter + 1 .. n : pending_orders[i] =
                        [odid |-> x, quantity |-> Remaining(order_map'[side][x])]
    BY <1>1 DEF MissingInv, From
  <2>1. x \in DOMAIN M /\ M[x].price = order_map'[side][x].price
    BY <1>7
  <2>2. PICK i \in iter .. n : pending_orders[i] = [odid |-> x, quantity |-> Remaining(M[x])]
    BY <1>1, <2>1 DEF MissingInv, From
  <2>3. x # id
    <3> SUFFICES ASSUME x = id PROVE FALSE
      OBVIOUS
    <3>1. i = iter
      BY <1>4, <2>2
    <3>2. qty = Remaining(M[id])
      BY <2>2, <3>1
    <3> QED
      BY <1>7, <3>2
  <2>4. i # iter
    BY <2>2, <2>3
  <2>5. i \in iter + 1 .. n
    <3> HIDE DEF n
    <3> QED
      BY <1>2, <2>4
  <2>6. order_map'[side][x] = M[x]
    BY <1>7, <2>1, <2>3
  <2> QED
    BY <2>2, <2>5, <2>6
<1> QED
  BY <1>1, <1>10, <1>11 DEF WalkedInv

-----------------------------------------------------------------------------
(* Every step keeps the invariant.                                         *)

\* A step to a place where nothing is said of the side.
LEMMA OutsideApplied ==
  ASSUME spc' \notin {"compare", "front", "collect", "apply"}
  PROVE  AppliedInv'
BY DEF AppliedInv, VisitedInv, WalkedInv, MissingInv

\* A step that changes nothing.
LEMMA SameApplied ==
  ASSUME AllInv, UNCHANGED svars
  PROVE  AppliedInv'
<1> USE DEF AllInv, AppliedInv
<1>1. UNCHANGED <<levels, order_map, side, cur, iter, events, spc, snapshot, todo, qty_to_remove,
                  pending_orders, ids_before>>
  BY DEF svars, vars, sideVars, loopVars, snapVars
<1>2. From' = From
  BY <1>1 DEF From
<1>3. \A p : WillBe(p)' = WillBe(p) /\ ToGo(p)' = ToGo(p)
  BY <1>1, <1>2, WillBeSame
<1>4. events \in Seq(Info) /\ events' = events
  BY <1>1 DEF SnapInv, IInv, TypeOK
<1>5. \A l : Settled(l) => Settled(l)'
  BY <1>1, <1>3, <1>4, SettledSame
<1>6. VisitedInv'
  BY <1>1, <1>5 DEF VisitedInv
<1>7. WillBe(cur)' = WillBe(cur) /\ ToGo(cur)' = ToGo(cur)
  BY <1>1, <1>2 DEF WillBe, ToGo, Going, QtyAt, GuessPrice
<1>8. WalkedInv'
  BY <1>1, <1>7 DEF WalkedInv
<1>9. MissingInv'
  BY <1>1, <1>2 DEF MissingInv
<1> QED
  BY <1>6, <1>8, <1>9

\* Every step keeps the invariant.
LEMMA NextApplied == AllInv /\ [SnapNext]_svars => AllInv'
<1> SUFFICES ASSUME AllInv, [SnapNext]_svars PROVE AllInv'
  OBVIOUS
<1>1. SnapInv' /\ BookTotals' /\ EventsInv' /\ NumberedInv'
  BY SnapNextInv, SnapMoves, MovesTotals, NextEvents, NextNumbered DEF AllInv, SnapInv
<1>2. CASE BookStep \/ ReceiveSnapshot \/ SnapQueued \/ ApplyDone \/ NextSide
  <2>1. spc' \notin {"compare", "front", "collect", "apply"}
    BY <1>2 DEF BookStep, snapVars, ReceiveSnapshot, processSnapshotMessage, SnapQueued,
       ApplyDone, NextSide
  <2> QED
    BY <1>1, <2>1, OutsideApplied DEF AllInv
<1>3. CASE CompareLevel
  <2>1. PICK l \in todo : /\ todo' = todo \ {l}
                          /\ CompareLess(l) \/ CompareMore(l) \/ CompareEqual(l)
    BY <1>3 DEF CompareLevel
  <2>2. AppliedInv'
    BY <1>3, <2>1, CompareLessApplied, CompareMoreApplied, CompareEqualApplied
  <2> QED
    BY <1>1, <2>2 DEF AllInv
<1>4. CASE SnapLeads \/ CollectFront \/ CollectFrontDone \/ CompareDone \/ CollectLevel
           \/ CollectDone \/ ApplyGuess
  <2>1. AppliedInv'
    BY <1>4, SnapLeadsApplied, CollectFrontApplied, CollectFrontDoneApplied,
       CompareDoneApplied, CollectLevelApplied, CollectDoneApplied, ApplyGuessApplied
  <2> QED
    BY <1>1, <2>1 DEF AllInv
<1>5. CASE UNCHANGED svars
  BY <1>1, <1>5, SameApplied DEF AllInv
<1> QED
  BY <1>2, <1>3, <1>4, <1>5 DEF SnapNext, SnapStep

\* When all is applied, the side is what the snapshot says.
LEMMA AppliedIsSnapshot ==
  ASSUME AllInv
  PROVE  SnapshotApplied
<1> USE DEF AllInv, AppliedInv
<1> SUFFICES ASSUME spc = "apply", iter > Len(pending_orders)
             PROVE  /\ DOMAIN levels[side] \subseteq PricesOf(snapshot[side])
                    /\ \A l \in snapshot[side] :
                         \/ QtyAt(l.price) = l.quantity
                         \/ \E k \in DOMAIN events :
                              /\ events[k] = OrderInfo("ADD", NoId, side,
                                                       l.quantity - QtyAt(l.price), l.price)
                              /\ GuessId(k) \in ids_before
  BY DEF SnapshotApplied, Applied
<1>1. side \in BOOLEAN /\ iter \in Nat /\ Len(pending_orders) \in Nat
  BY GoingNat DEF SnapInv, IInv, TypeOK
<1>2. From = iter /\ \A i \in 1 .. Len(pending_orders) : ~(i >= iter)
  BY <1>1 DEF From
<1>3. ASSUME NEW p
      PROVE  WillBe(p) = QtyAt(p)
  <2>1. ToGo(p) = 0 /\ QtyAt(p) \in Int
    BY <1>1, <1>2, ToGoNone, QtyAtInt DEF SnapInv, IInv
  <2> QED
    BY <2>1 DEF WillBe
<1>4. \A l \in snapshot[side] : Settled(l)
  BY DEF VisitedInv
<1>5. \A id \in DOMAIN order_map[side] :
        order_map[side][id].price \in PricesOf(snapshot[side])
  <2>1. iter .. Len(pending_orders) = {}
    BY <1>1
  <2> QED
    BY <1>2, <2>1 DEF MissingInv
<1>6. DOMAIN levels[side] \subseteq PricesOf(snapshot[side])
  <2> SUFFICES ASSUME NEW p \in DOMAIN levels[side]
               PROVE  p \in PricesOf(snapshot[side])
    OBVIOUS
  <2>1. SideOK(levels[side], order_map[side])
    BY <1>1, SidesOK DEF SnapInv, IInv
  <2>2. levels[side][p].orders \in Seq(OrderId) /\ levels[side][p].orders # << >>
    BY <2>1, LeftInt DEF SideOK, SideConsistent
  <2>3. 1 \in DOMAIN levels[side][p].orders
    BY <2>2
  <2>4. \E id \in DOMAIN order_map[side] : order_map[side][id].price = p
    BY <2>1, <2>3 DEF SideOK, SideConsistent
  <2> QED
    BY <1>5, <2>4
<1> QED
  BY <1>3, <1>4, <1>6 DEF Settled

\* Once processL2Snapshot has applied a snapshot that leads, the side has exactly
\* the snapshot's levels and quantities, whatever the book was before, save at a
\* price whose guessed order was dropped because an order of the side already had
\* its id when the snapshot came.
THEOREM SnapshotsApply == SnapSpec => []SnapshotApplied
<1>1. SnapInit => AllInv
  BY SnapInitInv, InitTotals
     DEF SnapInit, AllInv, EventsInv, NumberedInv, AppliedInv, VisitedInv, WalkedInv, MissingInv
<1>2. AllInv => SnapshotApplied
  BY AppliedIsSnapshot
<1> QED
  BY <1>1, <1>2, NextApplied, PTL DEF SnapSpec

=============================================================================
