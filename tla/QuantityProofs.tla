--------------------------- MODULE QuantityProofs ---------------------------
(***************************************************************************)
(* The quantity a level caches is the sum of what remains of its orders,   *)
(* with and without snapshots in the feed.                                 *)
(***************************************************************************)
EXTENDS SnapshotProofs, L2Book

-----------------------------------------------------------------------------
(* What a step does to one side: nothing, or one call of addOrder,         *)
(* removeOrder or fillOrder.                                               *)

Adds(L, M, L2, M2) ==
  \E id \in OrderId \ DOMAIN M, o \in Order :
    o.filled_quantity <= o.quantity /\ L2 = LevelsAdd(L, id, o) /\ M2 = Put(M, id, o)

Removes(L, M, L2, M2) ==
  \E id \in DOMAIN M : L2 = LevelsRemove(L, id, M[id]) /\ M2 = Erase(M, id)

Fills(L, M, L2, M2) ==
  \E id \in DOMAIN M : \E qty \in 0 .. Remaining(M[id]) :
    /\ L2 = [L EXCEPT ![M[id].price] = LevelFillOrder(@, qty)]
    /\ M2 = [M EXCEPT ![id] = OrderFilled(@, qty)]

SideMoves(L, M, L2, M2) ==
  \/ L2 = L /\ M2 = M
  \/ Adds(L, M, L2, M2)
  \/ Removes(L, M, L2, M2)
  \/ Fills(L, M, L2, M2)

BookMoves == \A s \in BOOLEAN : SideMoves(levels[s], order_map[s], levels'[s], order_map'[s])

-----------------------------------------------------------------------------
(* The cached quantity of one side.                                        *)

\* What remains of each order of a list.
Left(M, list) == [i \in 1 .. Len(list) |-> Remaining(M[list[i]])]

LevelTotal(M, l) == l.quantity = Total(Left(M, l.orders), Len(l.orders))

SideTotals(L, M) == \A p \in DOMAIN L : LevelTotal(M, L[p])

\* What remains of the i-th order.
LEMMA LeftAt ==
  ASSUME NEW M, NEW list, NEW i \in 1 .. Len(list)
  PROVE  Left(M, list)[i] = Remaining(M[list[i]])
BY DEF Left

\* What remains of the orders of a level.
LEMMA LeftInt ==
  ASSUME NEW L, NEW M, SideOK(L, M), NEW p \in DOMAIN L
  PROVE  /\ L[p].orders \in Seq(OrderId) /\ Len(L[p].orders) \in Nat
         /\ DOMAIN L[p].orders = 1 .. Len(L[p].orders)
         /\ L[p].quantity \in Int
         /\ \A i \in 1 .. Len(L[p].orders) :
              /\ L[p].orders[i] \in DOMAIN M
              /\ M[L[p].orders[i]] \in Order
              /\ M[L[p].orders[i]].price = p
              /\ Left(M, L[p].orders)[i] = Remaining(M[L[p].orders[i]])
              /\ Left(M, L[p].orders)[i] \in Nat
<1>1. L[p] \in L3PriceLevel
  BY DEF SideOK, IsMap
<1>2. /\ L[p].orders \in Seq(OrderId) /\ Len(L[p].orders) \in Nat
      /\ DOMAIN L[p].orders = 1 .. Len(L[p].orders)
      /\ L[p].quantity \in Int
  BY <1>1 DEF L3PriceLevel
<1>3. ASSUME NEW i \in 1 .. Len(L[p].orders)
      PROVE  /\ L[p].orders[i] \in DOMAIN M
             /\ M[L[p].orders[i]] \in Order
             /\ M[L[p].orders[i]].price = p
             /\ Left(M, L[p].orders)[i] = Remaining(M[L[p].orders[i]])
             /\ Left(M, L[p].orders)[i] \in Nat
  <2>1. L[p].orders[i] \in DOMAIN M /\ M[L[p].orders[i]].price = p
    BY <1>2 DEF SideOK, SideConsistent
  <2>2. M[L[p].orders[i]] \in Order
    BY <2>1 DEF SideOK, IsMap
  <2>3. Remaining(M[L[p].orders[i]]) \in Nat
    BY <2>1, <2>2 DEF SideOK, Remaining, Order
  <2> QED
    BY <2>1, <2>2, <2>3 DEF Left
<1> QED
  BY <1>2, <1>3

\* A level that keeps its list and whose orders keep what remains.
LEMMA SameTotal ==
  ASSUME NEW L, NEW M, SideOK(L, M), NEW p \in DOMAIN L, LevelTotal(M, L[p]), NEW M2,
         \A i \in 1 .. Len(L[p].orders) : M2[L[p].orders[i]] = M[L[p].orders[i]]
  PROVE  LevelTotal(M2, L[p])
<1> DEFINE list == L[p].orders
<1>1. Len(list) \in Nat /\ \A i \in 1 .. Len(list) : Left(M, list)[i] \in Int
  BY LeftInt
<1>2. \A i \in 1 .. Len(list) : Left(M2, list)[i] = Left(M, list)[i]
  BY LeftAt
<1> HIDE DEF list
<1>3. Total(Left(M2, list), Len(list)) = Total(Left(M, list), Len(list))
  BY <1>1, <1>2, TotalSame
<1> QED
  BY <1>3 DEF LevelTotal, list

\* addOrder adds what remains of the order.
LEMMA AddTotals ==
  ASSUME NEW L, NEW M, SideOK(L, M), SideTotals(L, M), NEW id \in OrderId, id \notin DOMAIN M,
         NEW o \in Order, o.filled_quantity <= o.quantity
  PROVE  SideTotals(LevelsAdd(L, id, o), Put(M, id, o))
<1> DEFINE p  == o.price
           l  == IF p \in DOMAIN L THEN L[p] ELSE EmptyLevel
           n  == Len(l.orders)
           L2 == LevelsAdd(L, id, o)
           M2 == Put(M, id, o)
<1>1. Remaining(o) \in Nat
  BY DEF Remaining, Order
<1>2. /\ DOMAIN L2 = DOMAIN L \cup {p}
      /\ L2[p] = LevelAddOrder(l, id, o)
      /\ \A q \in DOMAIN L : q # p => L2[q] = L[q]
  BY DEF LevelsAdd, Put
<1>3. M2[id] = o /\ \A x \in DOMAIN M : M2[x] = M[x]
  BY DEF Put
<1> HIDE DEF L2, M2
<1>4. /\ l.orders \in Seq(OrderId) /\ n \in Nat /\ l.quantity \in Int
      /\ LevelTotal(M, l)
      /\ \A i \in 1 .. n : l.orders[i] \in DOMAIN M /\ Left(M, l.orders)[i] \in Int
  <2>1. CASE p \in DOMAIN L
    BY <2>1, LeftInt DEF SideTotals
  <2>2. CASE p \notin DOMAIN L
    <3>1. l.orders = << >> /\ l.quantity = 0 /\ n = 0
      BY <2>2 DEF EmptyLevel
    <3>2. LevelTotal(M, l)
      BY <3>1, TotalZero DEF LevelTotal
    <3> HIDE DEF l
    <3> QED
      BY <3>1, <3>2
  <2> QED
    BY <2>1, <2>2
<1>5. LevelTotal(M2, L2[p])
  <2> DEFINE list == Append(l.orders, id)
             F == Left(M2, list)
  <2>1. L2[p].orders = list /\ L2[p].quantity = l.quantity + Remaining(o)
    BY <1>2 DEF LevelAddOrder
  <2>2. Len(list) = n + 1 /\ list[n + 1] = id /\ \A i \in 1 .. n : list[i] = l.orders[i]
    BY <1>4
  <2> HIDE DEF list, l
  <2>3. F[n + 1] = Remaining(o)
    <3>1. n + 1 \in 1 .. Len(list)
      BY <2>2, <1>4
    <3>2. F[n + 1] = Remaining(M2[list[n + 1]])
      BY <3>1, LeftAt
    <3> QED
      BY <3>2, <2>2, <1>3
  <2>4. ASSUME NEW i \in 1 .. n
        PROVE  F[i] = Left(M, l.orders)[i]
    <3>1. i \in 1 .. Len(list) /\ i \in 1 .. Len(l.orders)
      BY <2>2, <1>4
    <3>2. F[i] = Remaining(M2[list[i]]) /\ Left(M, l.orders)[i] = Remaining(M[l.orders[i]])
      BY <3>1, LeftAt
    <3> QED
      BY <3>2, <2>2, <1>3, <1>4
  <2> HIDE DEF F
  <2>5. \A i \in 1 .. n + 1 : F[i] \in Int
    BY <2>3, <2>4, <1>1, <1>4
  <2>6. Total(F, n + 1) = Total(F, n) + F[n + 1]
    BY <2>5, <1>4, TotalNext
  <2>7. Total(F, n) = Total(Left(M, l.orders), n)
    BY <2>4, <1>4, TotalSame
  <2> QED
    BY <2>1, <2>2, <2>3, <2>6, <2>7, <1>4 DEF LevelTotal, F
<1>6. ASSUME NEW q \in DOMAIN L, q # p
      PROVE  LevelTotal(M2, L2[q])
  BY <1>2, <1>3, <1>6, LeftInt, SameTotal DEF SideTotals
<1> QED
  BY <1>2, <1>5, <1>6 DEF SideTotals, L2, M2


\* removeOrder takes off what remained of the order.
LEMMA RemoveTotals ==
  ASSUME NEW L, NEW M, SideOK(L, M), SideTotals(L, M), NEW id \in DOMAIN M
  PROVE  SideTotals(LevelsRemove(L, id, M[id]), Erase(M, id))
<1> DEFINE p    == M[id].price
           list == L[p].orders
           n    == Len(list)
           k    == CHOOSE i \in DOMAIN list : list[i] = id
           l2   == LevelRemoveOrder(L[p], id, M[id])
           L2   == LevelsRemove(L, id, M[id])
           M2   == Erase(M, id)
<1>1. p \in DOMAIN L
  BY DEF SideOK, SideConsistent
<1>2. k \in DOMAIN list /\ list[k] = id
  BY DEF SideOK, SideConsistent
<1>3. l2.orders = EraseAt(list, k) /\ l2.quantity = L[p].quantity - Remaining(M[id])
  BY DEF LevelRemoveOrder
<1>4. /\ list \in Seq(OrderId) /\ n \in Nat /\ DOMAIN list = 1 .. n /\ L[p].quantity \in Int
      /\ \A i \in 1 .. n : /\ list[i] \in DOMAIN M /\ Left(M, list)[i] \in Int
                           /\ Left(M, list)[i] = Remaining(M[list[i]])
  BY <1>1, LeftInt
<1>5. \A i, j \in 1 .. n : list[i] = list[j] => i = j
  BY <1>1, <1>4 DEF SideOK, SideConsistent
<1>6. \A x \in DOMAIN M \ {id} : M2[x] = M[x]
  BY DEF Erase, Restrict
<1>7. /\ DOMAIN L2 \subseteq DOMAIN L
      /\ \A q \in DOMAIN L2 : q # p => L2[q] = L[q]
      /\ p \in DOMAIN L2 => L2[p] = l2
  BY <1>1 DEF LevelsRemove, Erase, Restrict
<1>8. L[p].quantity = Total(Left(M, list), n)
  BY <1>1 DEF SideTotals, LevelTotal
<1> HIDE DEF k, l2, L2, M2, list
<1>9. LevelTotal(M2, l2)
  <2> DEFINE F == Left(M, list)
             G == Left(M2, l2.orders)
  <2>1. /\ Len(l2.orders) = n - 1
        /\ \A j \in 1 .. n - 1 : l2.orders[j] = IF j < k THEN list[j] ELSE list[j + 1]
    BY <1>2, <1>3, <1>4, EraseAtList
  <2>2. k \in 1 .. n /\ F[k] = Remaining(M[id])
    BY <1>2, <1>4
  <2>3. ASSUME NEW j \in 1 .. n - 1
        PROVE  G[j] = IF j < k THEN F[j] ELSE F[j + 1]
    <3> DEFINE i == IF j < k THEN j ELSE j + 1
    <3>0. j \in 1 .. Len(l2.orders)
      BY <2>1
    <3>1. G[j] = Remaining(M2[l2.orders[j]])
      BY <3>0, LeftAt
    <3>2. i \in 1 .. n /\ i # k /\ l2.orders[j] = list[i]
      <4> HIDE DEF n
      <4>1. CASE j < k
        BY <4>1, <2>1, <2>2, <1>4
      <4>2. CASE ~(j < k)
        BY <4>2, <2>1, <2>2, <1>4
      <4> QED
        BY <4>1, <4>2
    <3>3. list[i] \in DOMAIN M /\ list[i] # id
      BY <3>2, <2>2, <1>2, <1>4, <1>5
    <3>4. G[j] = F[i]
      BY <3>1, <3>2, <3>3, <1>4, <1>6
    <3> QED
      BY <3>4
  <2> HIDE DEF F, G
  <2>4. Total(G, n - 1) = Total(F, n) - F[k]
    BY <2>2, <2>3, <1>4, TotalErase DEF F
  <2> QED
    BY <2>1, <2>2, <2>4, <1>3, <1>8 DEF LevelTotal, F, G
<1>10. ASSUME NEW q \in DOMAIN L2, q # p
       PROVE  LevelTotal(M2, L2[q])
  <2>1. q \in DOMAIN L /\ L2[q] = L[q] /\ LevelTotal(M, L[q])
    BY <1>7, <1>10 DEF SideTotals
  <2>2. \A i \in 1 .. Len(L[q].orders) : L[q].orders[i] \in DOMAIN M /\ M[L[q].orders[i]].price = q
    BY <2>1, LeftInt
  <2>3. \A i \in 1 .. Len(L[q].orders) : M2[L[q].orders[i]] = M[L[q].orders[i]]
    BY <2>2, <1>6, <1>10
  <2> QED
    BY <2>1, <2>3, SameTotal
<1> QED
  BY <1>7, <1>9, <1>10 DEF SideTotals, L2, M2

\* fillOrder takes off what the order is filled by.
LEMMA FillTotals ==
  ASSUME NEW L, NEW M, SideOK(L, M), SideTotals(L, M), NEW id \in DOMAIN M,
         NEW qty \in 0 .. Remaining(M[id])
  PROVE  SideTotals([L EXCEPT ![M[id].price] = LevelFillOrder(@, qty)],
                    [M EXCEPT ![id] = OrderFilled(@, qty)])
<1> DEFINE p    == M[id].price
           list == L[p].orders
           n    == Len(list)
           L2   == [L EXCEPT ![p] = LevelFillOrder(@, qty)]
           M2   == [M EXCEPT ![id] = OrderFilled(@, qty)]
<1>1. p \in DOMAIN L /\ M[id] \in Order
  BY DEF SideOK, SideConsistent, IsMap
<1>2. PICK k \in DOMAIN list : list[k] = id
  BY DEF SideOK, SideConsistent
<1>3. /\ list \in Seq(OrderId) /\ n \in Nat /\ DOMAIN list = 1 .. n /\ L[p].quantity \in Int
      /\ \A i \in 1 .. n : /\ list[i] \in DOMAIN M /\ Left(M, list)[i] \in Int
                           /\ Left(M, list)[i] = Remaining(M[list[i]])
  BY <1>1, LeftInt
<1>4. \A i, j \in 1 .. n : list[i] = list[j] => i = j
  BY <1>1, <1>3 DEF SideOK, SideConsistent
<1>5. M2[id] = OrderFilled(M[id], qty) /\ \A x \in DOMAIN M : x # id => M2[x] = M[x]
  BY DEF SideOK, IsMap
<1>6. Remaining(M2[id]) = Remaining(M[id]) - qty /\ Remaining(M[id]) \in Int /\ qty \in Int
  BY <1>1, <1>5 DEF OrderFilled, Remaining, Order
<1>7. L[p] \in L3PriceLevel
  BY <1>1 DEF SideOK, IsMap
<1>8. /\ DOMAIN L2 = DOMAIN L
      /\ L2[p].orders = list /\ L2[p].quantity = L[p].quantity - qty
      /\ \A q \in DOMAIN L : q # p => L2[q] = L[q]
  BY <1>1, <1>7 DEF SideOK, IsMap, LevelFillOrder, L3PriceLevel
<1>9. L[p].quantity = Total(Left(M, list), n)
  BY <1>1 DEF SideTotals, LevelTotal
<1> HIDE DEF L2, M2, list
<1>10. LevelTotal(M2, L2[p])
  <2> DEFINE F == Left(M, list)
             G == Left(M2, list)
  <2>1. \A i \in 1 .. n : G[i] = Remaining(M2[list[i]])
    BY LeftAt
  <2>2. k \in 1 .. n /\ F[k] = Remaining(M[id]) /\ G[k] = Remaining(M[id]) - qty
    BY <2>1, <1>2, <1>3, <1>6
  <2>3. \A i \in 1 .. n : i # k => G[i] = F[i]
    BY <2>1, <2>2, <1>2, <1>3, <1>4, <1>5
  <2>4. \A i \in 1 .. n : F[i] \in Int /\ G[i] \in Int
    BY <2>2, <2>3, <1>3, <1>6
  <2> HIDE DEF F, G
  <2>5. Total(G, n) = Total(F, n) - F[k] + G[k] /\ Total(F, n) \in Int
    <3> HIDE DEF n
    <3>1. Total(F, n) \in Int
      BY <2>4, <1>3, TotalInt
    <3>2. n \in Nat /\ k \in 1 .. n
      BY <2>2, <1>3
    <3>3. \A i \in 1 .. n : F[i] \in Int /\ G[i] \in Int /\ (i # k => G[i] = F[i])
      BY <2>3, <2>4
    <3>4. Total(G, n) = Total(F, n) - F[k] + G[k]
      BY <3>2, <3>3, TotalChange
    <3> QED
      BY <3>1, <3>4
  <2>6. Total(G, n) = Total(F, n) - qty
    BY <2>2, <2>5, <1>6
  <2> QED
    BY <2>6, <1>8, <1>9 DEF LevelTotal, F, G
<1>11. ASSUME NEW q \in DOMAIN L, q # p
       PROVE  LevelTotal(M2, L2[q])
  <2>1. L2[q] = L[q] /\ LevelTotal(M, L[q])
    BY <1>8, <1>11 DEF SideTotals
  <2>2. \A i \in 1 .. Len(L[q].orders) : L[q].orders[i] \in DOMAIN M /\ M[L[q].orders[i]].price = q
    BY LeftInt
  <2>3. \A i \in 1 .. Len(L[q].orders) : M2[L[q].orders[i]] = M[L[q].orders[i]]
    BY <2>2, <1>5, <1>11
  <2> QED
    BY <2>1, <2>3, SameTotal
<1> QED
  BY <1>8, <1>10, <1>11 DEF SideTotals, L2, M2

-----------------------------------------------------------------------------
(* Every step of the book is a call on one side, or none.                  *)

\* No call.
LEMMA SameMoves ==
  ASSUME UNCHANGED <<levels, order_map>>
  PROVE  BookMoves
BY DEF BookMoves, SideMoves

\* addOrder.
LEMMA AddMoves ==
  ASSUME TypeOK, NEW s \in BOOLEAN, NEW id \in OrderId, NEW o \in Order,
         o.filled_quantity <= o.quantity, addOrder(s, id, o)
  PROVE  BookMoves
<1>1. CASE existOrder(s, id)
  BY <1>1, SameMoves DEF addOrder
<1>2. CASE ~existOrder(s, id)
  <2>1. /\ levels' = [levels EXCEPT ![s] = LevelsAdd(@, id, o)]
        /\ order_map' = [order_map EXCEPT ![s] = Put(@, id, o)]
        /\ id \in OrderId \ DOMAIN order_map[s]
    BY <1>2 DEF addOrder, existOrder
  <2>2. DOMAIN levels = BOOLEAN /\ DOMAIN order_map = BOOLEAN
    BY DEF TypeOK
  <2>3. Adds(levels[s], order_map[s], levels'[s], order_map'[s])
    BY <2>1, <2>2 DEF Adds
  <2>4. \A t \in BOOLEAN : t # s => levels'[t] = levels[t] /\ order_map'[t] = order_map[t]
    BY <2>1, <2>2
  <2> QED
    BY <2>3, <2>4 DEF BookMoves, SideMoves
<1> QED
  BY <1>1, <1>2

\* removeOrder.
LEMMA RemoveMoves ==
  ASSUME TypeOK, NEW s \in BOOLEAN, NEW id, removeOrder(s, id)
  PROVE  BookMoves
<1>1. CASE ~existOrder(s, id)
  BY <1>1, SameMoves DEF removeOrder
<1>2. CASE existOrder(s, id)
  <2>1. /\ levels' = [levels EXCEPT ![s] = LevelsRemove(@, id, order_map[s][id])]
        /\ order_map' = [order_map EXCEPT ![s] = Erase(@, id)]
        /\ id \in DOMAIN order_map[s]
    BY <1>2 DEF removeOrder, existOrder
  <2>2. DOMAIN levels = BOOLEAN /\ DOMAIN order_map = BOOLEAN
    BY DEF TypeOK
  <2>3. Removes(levels[s], order_map[s], levels'[s], order_map'[s])
    BY <2>1, <2>2 DEF Removes
  <2>4. \A t \in BOOLEAN : t # s => levels'[t] = levels[t] /\ order_map'[t] = order_map[t]
    BY <2>1, <2>2
  <2> QED
    BY <2>3, <2>4 DEF BookMoves, SideMoves
<1> QED
  BY <1>1, <1>2

\* fillOrder.
LEMMA FillMoves ==
  ASSUME TypeOK, NEW s \in BOOLEAN, NEW id \in DOMAIN order_map[s],
         NEW qty \in 0 .. Remaining(order_map[s][id]),
         levels' = [levels EXCEPT ![s][order_map[s][id].price] = LevelFillOrder(@, qty)],
         order_map' = [order_map EXCEPT ![s][id] = OrderFilled(@, qty)]
  PROVE  BookMoves
<1>1. DOMAIN levels = BOOLEAN /\ DOMAIN order_map = BOOLEAN
  BY DEF TypeOK
<1>2. Fills(levels[s], order_map[s], levels'[s], order_map'[s])
  BY <1>1 DEF Fills
<1>3. \A t \in BOOLEAN : t # s => levels'[t] = levels[t] /\ order_map'[t] = order_map[t]
  BY <1>1
<1> QED
  BY <1>2, <1>3 DEF BookMoves, SideMoves

\* A step of the order book.
LEMMA NextMoves == IInv /\ [Next]_vars => BookMoves
<1> SUFFICES ASSUME IInv, [Next]_vars PROVE BookMoves
  OBVIOUS
<1> USE DEF IInv
<1>1. side \in BOOLEAN
  BY DEF TypeOK
<1>2. ASSUME NEW m \in OrderMessage, processOrderCancelMessage(m) \/ processOrderModifyMessage(m)
      PROVE  BookMoves
  <2>1. removeOrder(m.is_sell, m.odid) \/ UNCHANGED <<levels, order_map>>
    BY <1>2 DEF processOrderCancelMessage, processOrderModifyMessage, processOrderCancel, sideVars
  <2> QED
    BY <2>1, MessageOK, SameMoves, RemoveMoves
<1>3. CASE RestOrder
  <2> DEFINE o == [quantity |-> act.quantity, price |-> act.price,
                   filled_quantity |-> act.filled_quantity]
  <2>1. CASE UNCHANGED <<levels, order_map>>
    BY <2>1, SameMoves
  <2>2. CASE addOrder(act.is_sell, act.odid, o)
    <3>1. pc = "uncross"
      BY <1>3 DEF RestOrder
    <3>2. act.is_sell \in BOOLEAN /\ act.odid \in OrderId
      BY <3>1, ActNat DEF Action, ActInv
    <3>3. o \in Order /\ o.filled_quantity <= o.quantity
      BY ActNat DEF Order, Action, ActInv
    <3> HIDE DEF o
    <3> QED
      BY <2>2, <3>2, <3>3, AddMoves
  <2> QED
    BY <1>3, <2>1, <2>2 DEF RestOrder
<1>4. CASE RemoveFilled
  BY <1>1, <1>4, RemoveMoves DEF RemoveFilled
<1>5. CASE Sweep
  BY <1>1, <1>5, RemoveMoves DEF Sweep
<1>6. CASE Fill
  <2> DEFINE list == levels[side][cur].orders
             id   == list[iter]
             qty  == MinOf(Remaining(act), Remaining(order_map[side][id]))
  <2>1. /\ pc = "fill" /\ iter <= Len(list)
        /\ levels' = [levels EXCEPT ![side][cur] = LevelFillOrder(@, qty)]
        /\ order_map' = [order_map EXCEPT ![side][id] = OrderFilled(@, qty)]
    BY <1>6 DEF Fill
  <2>2. cur \in DOMAIN levels[side] /\ SideOK(levels[side], order_map[side])
    BY <1>1, <2>1, SidesOK DEF WalkInv, IsBegin
  <2>3. Len(list) \in Nat /\ iter \in 1 .. Len(list)
    BY <2>1, <2>2, LeftInt DEF TypeOK
  <2>4. /\ id \in DOMAIN order_map[side] /\ order_map[side][id].price = cur
        /\ order_map[side][id] \in Order
    BY <2>2, <2>3, LeftInt
  <2>5. Remaining(order_map[side][id]) \in Nat /\ Remaining(act) \in Nat
    BY <2>2, <2>4, ActNat DEF SideOK, Remaining, Order
  <2>6. qty \in 0 .. Remaining(order_map[side][id])
    BY <2>5, MinOfNat
  <2> HIDE DEF id, qty
  <2> QED
    BY <1>1, <2>1, <2>4, <2>6, FillMoves
<1>7. CASE Receive
  BY <1>2, <1>7, SameMoves DEF Receive, processOrderAddMessage, processTradeMessage, sideVars
<1>8. CASE HandlerStep
  BY <1>3, <1>4, <1>5, <1>6, <1>8, SameMoves DEF HandlerStep, MatchPendingLiqAdd,
     MatchPendingLiqAddDone, Uncross, FillDone, RemoveFilledDone, TradeMatch, SweepDone,
     TradeRest, Return, sideVars
<1>9. CASE UNCHANGED vars
  BY <1>9, SameMoves DEF vars, sideVars
<1> QED
  BY <1>7, <1>8, <1>9 DEF Next

\* A step of the book with snapshots in its feed.
LEMMA SnapMoves == SnapInv /\ [SnapNext]_svars => BookMoves
<1> SUFFICES ASSUME SnapInv, [SnapNext]_svars PROVE BookMoves
  OBVIOUS
<1>1. IInv /\ TypeOK /\ side \in BOOLEAN
  BY DEF SnapInv, IInv, TypeOK
<1>2. CASE BookStep
  BY <1>1, <1>2, NextMoves DEF BookStep
<1>3. CASE CompareLevel
  <2>1. PICK l \in todo : /\ todo' = todo \ {l}
                          /\ CompareLess(l) \/ CompareMore(l) \/ CompareEqual(l)
    BY <1>3 DEF CompareLevel
  <2>2. CASE CompareMore(l)
    <3> DEFINE qty == l.quantity - QtyAt(l.price)
               o   == [quantity |-> qty, price |-> l.price, filled_quantity |-> 0]
    <3>1. spc = "compare"
      BY <1>3 DEF CompareLevel
    <3>2. l.price \in Price /\ l.quantity \in Int /\ QtyAt(l.price) \in Int
      BY <1>1, <2>1, <3>1, VisitLevel, QtyAtInt
    <3>3. l.quantity > QtyAt(l.price) /\ addOrder(side, fake_order_id, o)
      BY <2>2 DEF CompareMore
    <3>4. qty \in Nat
      BY <3>2, <3>3
    <3>5. o \in Order /\ o.filled_quantity <= o.quantity
      BY <3>2, <3>4 DEF Order
    <3>6. fake_order_id \in OrderId
      BY <2>1, <3>1, FakeIdLeft
    <3> HIDE DEF o
    <3> QED
      BY <1>1, <3>3, <3>5, <3>6, AddMoves
  <2> QED
    BY <2>1, <2>2, SameMoves DEF CompareLess, CompareEqual, sideVars
<1>4. CASE ApplyGuess
  <2> DEFINE id  == pending_orders[iter].odid
             qty == pending_orders[iter].quantity
  <2>1. spc = "apply" /\ iter <= Len(pending_orders) /\ RemoveGuess(id, qty)
    BY <1>4 DEF ApplyGuess
  <2>2. iter \in iter .. Len(pending_orders) /\ pending_orders[iter] \in Guess
    BY <1>1, <2>1 DEF SnapInv, SnapTypeOK, TypeOK
  <2>3. id \in DOMAIN order_map[side] /\ qty \in 0 .. Remaining(order_map[side][id])
    BY <2>1, <2>2 DEF SnapInv, GuessesApplicable, existOrder, Guess
  <2> HIDE DEF id, qty
  <2> QED
    BY <1>1, <2>1, <2>3, RemoveMoves, FillMoves, FillGuessFills DEF RemoveGuess
<1>5. CASE UNCHANGED <<levels, order_map>>
  BY <1>5, SameMoves
<1> QED
  BY <1>2, <1>3, <1>4, <1>5 DEF SnapNext, svars, vars, sideVars, ReceiveSnapshot, SnapStep,
     processSnapshotMessage, SnapQueued, SnapLeads, CollectFront, CollectFrontDone, CompareDone,
     CollectLevel, CollectDone, ApplyDone, NextSide

-----------------------------------------------------------------------------
(* The cached quantities of the book.                                      *)

BookTotals == \A s \in BOOLEAN : SideTotals(levels[s], order_map[s])

\* An empty book has no quantities.
LEMMA InitTotals == Init => BookTotals
BY DEF Init, BookTotals, SideTotals, EmptyMap

\* A call on a side keeps its cached quantities right.
LEMMA MovesTotals ==
  ASSUME IInv, BookTotals, BookMoves
  PROVE  BookTotals'
<1> SUFFICES ASSUME NEW s \in BOOLEAN
             PROVE  SideTotals(levels'[s], order_map'[s])
  BY DEF BookTotals
<1> DEFINE L  == levels[s]
           M  == order_map[s]
           L2 == levels'[s]
           M2 == order_map'[s]
<1>1. SideOK(L, M) /\ SideTotals(L, M)
  BY SidesOK DEF IInv, BookTotals
<1>2. SideMoves(L, M, L2, M2)
  BY DEF BookMoves
<1> HIDE DEF L, M, L2, M2
<1>3. Adds(L, M, L2, M2) => SideTotals(L2, M2)
  BY <1>1, AddTotals DEF Adds
<1>4. Removes(L, M, L2, M2) => SideTotals(L2, M2)
  BY <1>1, RemoveTotals DEF Removes
<1>5. ASSUME Fills(L, M, L2, M2)
      PROVE  SideTotals(L2, M2)
  <2>1. PICK id \in DOMAIN M : \E qty \in 0 .. Remaining(M[id]) :
               /\ L2 = [L EXCEPT ![M[id].price] = LevelFillOrder(@, qty)]
               /\ M2 = [M EXCEPT ![id] = OrderFilled(@, qty)]
    BY <1>5 DEF Fills
  <2>2. PICK qty \in 0 .. Remaining(M[id]) :
               /\ L2 = [L EXCEPT ![M[id].price] = LevelFillOrder(@, qty)]
               /\ M2 = [M EXCEPT ![id] = OrderFilled(@, qty)]
    BY <2>1
  <2>3. SideTotals([L EXCEPT ![M[id].price] = LevelFillOrder(@, qty)],
                   [M EXCEPT ![id] = OrderFilled(@, qty)])
    BY <1>1, FillTotals
  <2> QED
    BY <2>2, <2>3
<1>6. SideTotals(L2, M2)
  BY <1>1, <1>2, <1>3, <1>4, <1>5 DEF SideMoves
<1> QED
  BY <1>6 DEF L2, M2

\* The total of a list is the sum the property names.
LEMMA TotalIsSum ==
  ASSUME NEW L, NEW M, SideOK(L, M), NEW p \in DOMAIN L
  PROVE  Total(Left(M, L[p].orders), Len(L[p].orders)) =
           SumFunction([i \in DOMAIN L[p].orders |-> Remaining(M[L[p].orders[i]])])
<1> DEFINE list == L[p].orders
           n    == Len(list)
           f    == [i \in DOMAIN list |-> Remaining(M[list[i]])]
           same == [i \in 1 .. n |-> i]
<1>1. n \in Nat /\ DOMAIN list = 1 .. n /\ \A i \in 1 .. n : Left(M, list)[i] \in Int
  BY LeftInt
<1>2. f = Left(M, list)
  BY <1>1 DEF Left
<1> HIDE DEF n, list
<1>3. DOMAIN f = 1 .. n /\ \A i \in 1 .. n : f[i] \in Int
  BY <1>1, <1>2
<1>4. same \in Bijection(1 .. n, 1 .. n)
  BY <1>1, BijectionOf
<1> HIDE DEF f
<1>5. SumFunctionOnSet(f, 1 .. n) = Total(Listed(f, same, n), n)
  <2> HIDE DEF same
  <2> QED
    BY <1>1, <1>3, <1>4, SumOfList
<1>6. \A i \in 1 .. n : f[i] \in Int /\ Listed(f, same, n)[i] = f[i]
  BY <1>3 DEF Listed
<1>7. Total(Listed(f, same, n), n) = Total(f, n)
  <2> HIDE DEF same
  <2> QED
    BY <1>1, <1>6, TotalSame
<1>8. SumFunction(f) = SumFunctionOnSet(f, DOMAIN f)
  BY DEF SumFunction
<1> QED
  BY <1>2, <1>3, <1>5, <1>7, <1>8 DEF f, list, n

\* The invariant is the property.
LEMMA TotalsAreSums ==
  ASSUME IInv, BookTotals
  PROVE  LevelQuantityIsSum
<1> SUFFICES ASSUME NEW s \in BOOLEAN, NEW p \in DOMAIN levels[s]
             PROVE  levels[s][p].quantity =
                      SumFunction([i \in DOMAIN levels[s][p].orders |->
                                     Remaining(order_map[s][levels[s][p].orders[i]])])
  BY DEF LevelQuantityIsSum
<1>1. SideOK(levels[s], order_map[s])
  BY SidesOK DEF IInv
<1>2. LevelTotal(order_map[s], levels[s][p])
  BY DEF BookTotals, SideTotals
<1> QED
  BY <1>1, <1>2, TotalIsSum DEF LevelTotal

\* The quantity a level caches is what remains of its orders, whatever the
\* order and trade streams carry: no fill, add or remove is counted twice or
\* not at all (level.cpp).
THEOREM QuantitiesAreSums == Spec => []LevelQuantityIsSum
<1>1. Init => IInv /\ BookTotals
  BY InitIInv, InitTotals
<1>2. (IInv /\ BookTotals) /\ [Next]_vars => (IInv /\ BookTotals)'
  BY NextIInv, NextMoves, MovesTotals
<1>3. IInv /\ BookTotals => LevelQuantityIsSum
  BY TotalsAreSums
<1> QED
  BY <1>1, <1>2, <1>3, PTL DEF Spec

\* The same with snapshots: orders guessed, filled and removed by
\* processL2Snapshot are counted too.
THEOREM SnapQuantitiesAreSums == SnapSpec => []LevelQuantityIsSum
<1>1. SnapInit => SnapInv /\ BookTotals
  BY SnapInitInv, InitTotals DEF SnapInit
<1>2. (SnapInv /\ BookTotals) /\ [SnapNext]_svars => (SnapInv /\ BookTotals)'
  BY SnapNextInv, SnapMoves, MovesTotals DEF SnapInv
<1>3. SnapInv /\ BookTotals => LevelQuantityIsSum
  BY TotalsAreSums DEF SnapInv
<1> QED
  BY <1>1, <1>2, <1>3, PTL DEF SnapSpec

-----------------------------------------------------------------------------
(* getL2Book.                                                              *)

\* The L2 levels of the prices D of a side.
L2Map(L, D) == [p \in D |-> [price |-> p, quantity |-> L[p].quantity]]

\* it[D] is the book after the levels at D of side s are added, for every part D
\* of the side, as the fold computes it.
AddsUp(book, s, L, it) ==
  it = [D \in SUBSET DOMAIN L[s] |->
          IF D = {} THEN book
          ELSE addLevel(it[D \ {Some(D)}], s, Some(D), L[s][Some(D)].quantity)]

\* addSide is what the fold computes.
LEMMA AddSideIs ==
  ASSUME NEW book, NEW s, NEW L
  PROVE  addSide(book, s, L) = (CHOOSE it : AddsUp(book, s, L, it))[DOMAIN L[s]]
<1> DEFINE f == [p \in DOMAIN L[s] |-> p]
<1>1. DOMAIN f = DOMAIN L[s]
  OBVIOUS
<1>2. \A D \in SUBSET DOMAIN L[s] : D # {} => Some(D) \in DOMAIN L[s] /\ f[Some(D)] = Some(D)
  BY DEF Some
<1> DEFINE Rec(it) == it = [D \in SUBSET DOMAIN L[s] |->
             IF D = {} THEN book
             ELSE addLevel(it[D \ {Some(D)}], s, f[Some(D)], L[s][f[Some(D)]].quantity)]
<1>3. addSide(book, s, L) = (CHOOSE it : Rec(it))[DOMAIN L[s]]
  BY <1>1 DEF addSide, FoldFunction, FoldFunctionOnSet, MapThenFoldSet, Some
<1>4. \A it : Rec(it) <=> AddsUp(book, s, L, it)
  BY <1>2 DEF AddsUp
<1> HIDE DEF Rec
<1> QED
  BY <1>3, <1>4

\* The loop adds each level of a side that was empty, in whatever order.
LEMMA AddSideAdds ==
  ASSUME NEW book, DOMAIN book = BOOLEAN, NEW s \in BOOLEAN, book[s] = EmptyMap,
         book = [t \in BOOLEAN |-> book[t]], NEW L, IsFiniteSet(DOMAIN L[s])
  PROVE  addSide(book, s, L) = [book EXCEPT ![s] = L2Map(L[s], DOMAIN L[s])]
<1> DEFINE K  == DOMAIN L[s]
           After(D) == IF D = {} THEN book ELSE [book EXCEPT ![s] = L2Map(L[s], D)]
           it0 == [D \in SUBSET K |-> After(D)]
\* One level more.
<1>1. ASSUME NEW D \in SUBSET K, D # {}
      PROVE  addLevel(After(D \ {Some(D)}), s, Some(D), L[s][Some(D)].quantity) = After(D)
  <2> DEFINE p == Some(D)
             R == D \ {p}
             l == [price |-> p, quantity |-> L[s][p].quantity]
  <2>1. p \in D
    BY <1>1 DEF Some
  <2> HIDE DEF p
  <2>2. DOMAIN After(R)[s] = R
    BY DEF L2Map, EmptyMap
  <2>3. addLevel(After(R), s, p, L[s][p].quantity) = [After(R) EXCEPT ![s] = Put(@, p, l)]
    BY <2>2 DEF addLevel
  <2>4. Put(After(R)[s], p, l) = L2Map(L[s], D)
    BY <2>1, <2>2 DEF Put, L2Map
  <2>5. DOMAIN After(R) = BOOLEAN /\ \A t \in BOOLEAN : t # s => After(R)[t] = book[t]
    OBVIOUS
  <2>6. [After(R) EXCEPT ![s] = Put(@, p, l)] = [book EXCEPT ![s] = L2Map(L[s], D)]
    BY <2>4, <2>5
  <2> QED
    BY <2>3, <2>6, <1>1 DEF p
<1>2. AddsUp(book, s, L, it0)
  <2> SUFFICES ASSUME NEW D \in SUBSET K
               PROVE  it0[D] = IF D = {} THEN book
                               ELSE addLevel(it0[D \ {Some(D)}], s, Some(D), L[s][Some(D)].quantity)
    BY DEF AddsUp
  <2>1. D \ {Some(D)} \in SUBSET K
    OBVIOUS
  <2>2. it0[D] = After(D) /\ it0[D \ {Some(D)}] = After(D \ {Some(D)})
    BY <2>1
  <2> HIDE DEF it0
  <2>3. CASE D = {}
    BY <2>2, <2>3
  <2>4. CASE D # {}
    BY <2>2, <2>4, <1>1
  <2> QED
    BY <2>3, <2>4
<1> DEFINE it == CHOOSE i : AddsUp(book, s, L, i)
<1> HIDE DEF it0
<1>3. AddsUp(book, s, L, it)
  BY <1>2
<1> HIDE DEF it, After
<1> DEFINE T == {n \in Nat : \A D \in SUBSET K : Cardinality(D) = n => it[D] = After(D)}
<1>4. 0 \in T
  <2> SUFFICES ASSUME NEW D \in SUBSET K, Cardinality(D) = 0
               PROVE  it[D] = After(D)
    OBVIOUS
  <2>1. D = {}
    BY FS_Subset, FS_EmptySet
  <2> QED
    BY <2>1, <1>3 DEF AddsUp, After
<1>5. ASSUME NEW n \in Nat, n \in T
      PROVE  n + 1 \in T
  <2> SUFFICES ASSUME NEW D \in SUBSET K, Cardinality(D) = n + 1
               PROVE  it[D] = After(D)
    OBVIOUS
  <2>1. IsFiniteSet(D)
    BY FS_Subset
  <2>2. D # {}
    <3>1. Cardinality(D) # 0
      OBVIOUS
    <3> QED
      BY <3>1, FS_EmptySet
  <2>3. Some(D) \in D
    BY <2>2 DEF Some
  <2> DEFINE R == D \ {Some(D)}
  <2>4. Cardinality(R) = n /\ R \in SUBSET K
    <3>1. Cardinality(R) = Cardinality(D) - 1
      BY <2>1, <2>3, FS_RemoveElement
    <3> QED
      BY <3>1
  <2>5. it[R] = After(R)
    <3> HIDE DEF R
    <3> QED
      BY <1>5, <2>4
  <2>6. it[D] = addLevel(it[R], s, Some(D), L[s][Some(D)].quantity)
    BY <1>3, <2>2 DEF AddsUp
  <2> QED
    BY <1>1, <2>2, <2>5, <2>6
<1> HIDE DEF T
<1>6. \A n \in Nat : n \in T
  BY <1>4, <1>5, NatSetInduction
<1>7. it[K] = After(K)
  <2>1. Cardinality(K) \in Nat
    BY FS_CardinalityType
  <2> QED
    BY <2>1, <1>6 DEF T
<1>8. After(K) = [book EXCEPT ![s] = L2Map(L[s], K)]
  <2>1. CASE K # {}
    BY <2>1 DEF After
  <2>2. CASE K = {}
    <3>1. book[s] = L2Map(L[s], K)
      BY <2>2 DEF L2Map, EmptyMap
    <3> QED
      BY <2>2, <3>1 DEF After
  <2> QED
    BY <2>1, <2>2
<1> QED
  BY <1>7, <1>8, AddSideIs DEF it

\* A book has finitely many levels.
BookFinite == \A s \in BOOLEAN : IsFiniteSet(DOMAIN levels[s])

\* An empty book has no levels.
LEMMA InitFinite == Init => BookFinite
BY FS_EmptySet DEF Init, BookFinite, EmptyMap

\* A call adds or removes one level at most.
LEMMA MovesFinite ==
  ASSUME BookFinite, BookMoves
  PROVE  BookFinite'
<1> SUFFICES ASSUME NEW s \in BOOLEAN
             PROVE  IsFiniteSet(DOMAIN levels'[s])
  BY DEF BookFinite
<1> DEFINE L  == levels[s]
           M  == order_map[s]
           L2 == levels'[s]
           M2 == order_map'[s]
<1>1. IsFiniteSet(DOMAIN L) /\ SideMoves(L, M, L2, M2)
  BY DEF BookFinite, BookMoves
<1> HIDE DEF L, M, L2, M2
<1>2. Adds(L, M, L2, M2) => \E p : DOMAIN L2 = DOMAIN L \cup {p}
  BY DEF Adds, LevelsAdd, Put
<1>3. Removes(L, M, L2, M2) => DOMAIN L2 \subseteq DOMAIN L
  BY DEF Removes, LevelsRemove, Erase, Restrict
<1>4. Fills(L, M, L2, M2) => DOMAIN L2 = DOMAIN L
  BY DEF Fills
<1>5. IsFiniteSet(DOMAIN L2)
  BY <1>1, <1>2, <1>3, <1>4, FS_AddElement, FS_Subset DEF SideMoves
<1> QED
  BY <1>5 DEF L2

\* The two loops of getL2Book give every level of both sides.
LEMMA GetL2Book ==
  ASSUME NEW L, IsFiniteSet(DOMAIN L[FALSE]), IsFiniteSet(DOMAIN L[TRUE]), NEW s \in BOOLEAN
  PROVE  getL2Book(L)[s] = L2Map(L[s], DOMAIN L[s])
<1> DEFINE e == EmptyL2Book
           b == addSide(e, FALSE, L)
<1>1. /\ DOMAIN e = BOOLEAN /\ e[FALSE] = EmptyMap /\ e[TRUE] = EmptyMap
      /\ e = [t \in BOOLEAN |-> e[t]]
  BY DEF EmptyL2Book
<1> HIDE DEF e
<1>2. b = [e EXCEPT ![FALSE] = L2Map(L[FALSE], DOMAIN L[FALSE])]
  BY <1>1, AddSideAdds
<1>3. /\ DOMAIN b = BOOLEAN /\ b[TRUE] = EmptyMap
      /\ b[FALSE] = L2Map(L[FALSE], DOMAIN L[FALSE])
      /\ b = [t \in BOOLEAN |-> b[t]]
  <2> HIDE DEF b
  <2> QED
    BY <1>1, <1>2
<1> HIDE DEF b
<1>4. addSide(b, TRUE, L) = [b EXCEPT ![TRUE] = L2Map(L[TRUE], DOMAIN L[TRUE])]
  BY <1>3, AddSideAdds
<1>5. getL2Book(L) = addSide(b, TRUE, L)
  BY DEF getL2Book, b, e
<1> QED
  BY <1>3, <1>4, <1>5

\* The list of a level has every order at its price, once: its total is the sum
\* over the orders at the price.
LEMMA LevelSum ==
  ASSUME NEW L, NEW M, SideOK(L, M), SideTotals(L, M), NEW p \in DOMAIN L
  PROVE  LET at   == {id \in DOMAIN M : M[id].price = p}
             left == [id \in DOMAIN M |-> Remaining(M[id])]
         IN  L[p].quantity = SumFunctionOnSet(left, at)
<1> DEFINE list == L[p].orders
           n    == Len(list)
           at   == {id \in DOMAIN M : M[id].price = p}
           left == [id \in DOMAIN M |-> Remaining(M[id])]
<1>1. /\ n \in Nat /\ list \in Seq(OrderId) /\ DOMAIN list = 1 .. n
      /\ \A i \in 1 .. n : /\ list[i] \in at
                           /\ Left(M, list)[i] \in Int
                           /\ Left(M, list)[i] = Remaining(M[list[i]])
  BY LeftInt
<1>2. /\ \A i, j \in 1 .. n : list[i] = list[j] => i = j
      /\ \A id \in at : \E i \in 1 .. n : list[i] = id
  BY <1>1 DEF SideOK, SideConsistent
<1>3. L[p].quantity = Total(Left(M, list), n)
  BY DEF SideTotals, LevelTotal
<1>4. \A id \in at : left[id] \in Int
  BY DEF SideOK, IsMap, Order, Remaining
<1>5. \A i \in 1 .. n : left[list[i]] = Left(M, list)[i]
  BY <1>1
<1> HIDE DEF n, list, at, left
<1>6. list \in Bijection(1 .. n, at)
  <2>1. list \in [1 .. n -> at]
    BY <1>1
  <2> QED
    BY <1>1, <1>2, <2>1, BijectionOf
<1>7. SumFunctionOnSet(left, at) = Total(Listed(left, list, n), n)
  BY <1>1, <1>4, <1>6, SumOfList
<1>8. \A i \in 1 .. n : Left(M, list)[i] \in Int /\ Listed(left, list, n)[i] = Left(M, list)[i]
  BY <1>1, <1>5 DEF Listed
<1>9. Total(Listed(left, list, n), n) = Total(Left(M, list), n)
  BY <1>1, <1>8, TotalSame
<1> QED
  BY <1>3, <1>7, <1>9 DEF at, left, list, n

\* The view of a consistent book.
LEMMA BookShowsOrders ==
  ASSUME IInv, BookTotals, BookFinite
  PROVE  L2BookShowsOrders
<1> SUFFICES ASSUME NEW s \in BOOLEAN
             PROVE  LET at(p) == {id \in DOMAIN order_map[s] : order_map[s][id].price = p}
                        left  == [id \in DOMAIN order_map[s] |-> Remaining(order_map[s][id])]
                    IN  getL2Book(levels)[s] =
                          [p \in {order_map[s][id].price : id \in DOMAIN order_map[s]} |->
                             [price |-> p, quantity |-> SumFunctionOnSet(left, at(p))]]
  BY DEF L2BookShowsOrders
<1> DEFINE L     == levels[s]
           M     == order_map[s]
           at(p) == {id \in DOMAIN M : M[id].price = p}
           left  == [id \in DOMAIN M |-> Remaining(M[id])]
<1>1. getL2Book(levels)[s] = L2Map(L, DOMAIN L)
  BY GetL2Book DEF BookFinite
<1>2. SideOK(L, M) /\ SideTotals(L, M)
  BY SidesOK DEF IInv, BookTotals
<1> HIDE DEF L, M
<1>3. DOMAIN L = {M[id].price : id \in DOMAIN M}
  <2>1. ASSUME NEW p \in DOMAIN L
        PROVE  \E id \in DOMAIN M : M[id].price = p
    <3>1. L[p].orders \in Seq(OrderId) /\ L[p].orders # << >>
      BY <1>2, LeftInt DEF SideOK, SideConsistent
    <3>2. 1 \in DOMAIN L[p].orders
      BY <3>1
    <3> QED
      BY <1>2, <3>2 DEF SideOK, SideConsistent
  <2>2. \A id \in DOMAIN M : M[id].price \in DOMAIN L
    BY <1>2 DEF SideOK, SideConsistent
  <2> QED
    BY <2>1, <2>2
<1>4. \A p \in DOMAIN L : L[p].quantity = SumFunctionOnSet(left, at(p))
  BY <1>2, LevelSum
<1>5. L2Map(L, DOMAIN L) = [p \in DOMAIN L |->
                              [price |-> p, quantity |-> SumFunctionOnSet(left, at(p))]]
  <2> HIDE DEF left, at
  <2> QED
    BY <1>4 DEF L2Map
<1> QED
  BY <1>1, <1>3, <1>5 DEF L, M

\* What getL2Book returns is right for every feed: one level for each price with
\* an order, none for a price without, and the quantity of each is what is left
\* of its orders, with and without snapshots (getL2Book, L2Book::addLevel).
THEOREM L2BookRight == (Spec \/ SnapSpec) => []L2BookShowsOrders
<1> DEFINE Inv1 == IInv /\ BookTotals /\ BookFinite
           Inv2 == SnapInv /\ BookTotals /\ BookFinite
<1>1. (Init => Inv1) /\ (SnapInit => Inv2)
  BY InitIInv, SnapInitInv, InitTotals, InitFinite DEF SnapInit
<1>2. Inv1 /\ [Next]_vars => Inv1'
  BY NextIInv, NextMoves, MovesTotals, MovesFinite
<1>3. Inv2 /\ [SnapNext]_svars => Inv2'
  BY SnapNextInv, SnapMoves, MovesTotals, MovesFinite DEF SnapInv
<1>4. (Inv1 => L2BookShowsOrders) /\ (Inv2 => L2BookShowsOrders)
  BY BookShowsOrders DEF SnapInv
<1> QED
  BY <1>1, <1>2, <1>3, <1>4, PTL DEF Spec, SnapSpec

=============================================================================
