--------------------------- MODULE BookSideProofs ---------------------------
(***************************************************************************)
(* What the methods of BookSide do to one side of the book: the facts the  *)
(* proofs about SmartOrderBook rest on.                                    *)
(***************************************************************************)
EXTENDS SmartOrderBook, FiniteSetTheorems, TLAPS

\* One side on its own: its two containers are well typed, agree with each
\* other, and no order is filled beyond its quantity.
SideOK(L, M) ==
  /\ IsMap(L, Price, L3PriceLevel)
  /\ IsMap(M, OrderId, Order)
  /\ SideConsistent(L, M)
  /\ \A id \in DOMAIN M : M[id].filled_quantity <= M[id].quantity

-----------------------------------------------------------------------------
(* Maps and lists.                                                         *)

\* Overwriting a value keeps a map a map.
LEMMA ExceptMap ==
  ASSUME NEW K, NEW V, NEW f, IsMap(f, K, V), NEW k, NEW v \in V
  PROVE  /\ IsMap([f EXCEPT ![k] = v], K, V)
         /\ DOMAIN [f EXCEPT ![k] = v] = DOMAIN f
BY DEF IsMap

\* The empty map has no keys.
LEMMA EmptyMapOK ==
  ASSUME NEW K, NEW V
  PROVE  IsMap(EmptyMap, K, V) /\ DOMAIN EmptyMap = {}
BY DEF IsMap, EmptyMap

\* EraseAt drops one element of a list and keeps the others in order.
LEMMA EraseAtList ==
  ASSUME NEW S, NEW list \in Seq(S), NEW i \in DOMAIN list
  PROVE  /\ EraseAt(list, i) \in Seq(S)
         /\ Len(EraseAt(list, i)) = Len(list) - 1
         /\ \A j \in 1 .. Len(list) - 1 :
              EraseAt(list, i)[j] = IF j < i THEN list[j] ELSE list[j + 1]
<1> DEFINE new == [j \in 1 .. Len(list) - 1 |-> IF j < i THEN list[j] ELSE list[j + 1]]
<1>1. Len(list) \in Nat /\ i \in 1 .. Len(list) /\ Len(list) - 1 \in Nat
  OBVIOUS
<1>2. \A j \in 1 .. Len(list) - 1 : new[j] \in S
  BY <1>1
<1>3. new \in Seq(S) /\ Len(new) = Len(list) - 1
  BY <1>1, <1>2
<1> QED
  BY <1>1, <1>3 DEF EraseAt

-----------------------------------------------------------------------------
(* What addOrder, removeOrder and a fill do to one side.                   *)

\* addOrder of an id that is not there keeps the side consistent.
LEMMA AddSideOK ==
  ASSUME NEW L, NEW M, SideOK(L, M), NEW id \in OrderId, id \notin DOMAIN M,
         NEW o \in Order, o.filled_quantity <= o.quantity
  PROVE  SideOK(LevelsAdd(L, id, o), Put(M, id, o))
<1> DEFINE p  == o.price
           l  == IF p \in DOMAIN L THEN L[p] ELSE EmptyLevel
           l2 == LevelAddOrder(l, id, o)
           L2 == LevelsAdd(L, id, o)
           M2 == Put(M, id, o)
<1>1. p \in Price /\ Remaining(o) \in Int
  BY DEF Order, Remaining
<1>2. l \in L3PriceLevel
  BY DEF SideOK, IsMap, L3PriceLevel, EmptyLevel
<1>3. /\ l2 \in L3PriceLevel
      /\ l2.num_orders = l.num_orders + 1
      /\ l2.orders = Append(l.orders, id)
      /\ l.orders \in Seq(OrderId)
  BY <1>1, <1>2 DEF LevelAddOrder, L3PriceLevel
<1>4. L2 = Put(L, p, l2)
  BY DEF LevelsAdd
<1>5. /\ IsMap(L2, Price, L3PriceLevel)
      /\ DOMAIN L2 = DOMAIN L \cup {p}
      /\ L2[p] = l2
      /\ \A q \in DOMAIN L : q # p => L2[q] = L[q]
  <2>1. IsMap(L, Price, L3PriceLevel) /\ l2 \in L3PriceLevel /\ p \in Price
    BY <1>1, <1>3 DEF SideOK
  <2> HIDE DEF L2, l2, p
  <2> QED
    BY <2>1, <1>4 DEF IsMap, Put
<1>6. /\ IsMap(M2, OrderId, Order)
      /\ DOMAIN M2 = DOMAIN M \cup {id}
      /\ M2[id] = o
      /\ \A x \in DOMAIN M : x # id => M2[x] = M[x]
  <2>1. IsMap(M, OrderId, Order)
    BY DEF SideOK
  <2> QED
    BY <2>1 DEF IsMap, Put
<1>61. \A x \in DOMAIN M : M2[x] = M[x]
  BY <1>6
<1>7. /\ l.num_orders = Len(l.orders)
      /\ \A i, j \in DOMAIN l.orders : l.orders[i] = l.orders[j] => i = j
      /\ \A i \in DOMAIN l.orders : l.orders[i] \in DOMAIN M /\ M[l.orders[i]].price = p
  BY DEF SideOK, SideConsistent, EmptyLevel
<1>8. /\ Len(l2.orders) = Len(l.orders) + 1
      /\ DOMAIN l2.orders = 1 .. Len(l.orders) + 1
      /\ DOMAIN l.orders = 1 .. Len(l.orders)
      /\ l2.orders[Len(l.orders) + 1] = id
      /\ \A i \in DOMAIN l.orders : l2.orders[i] = l.orders[i]
      /\ Len(l.orders) \in Nat
      /\ l2.orders # << >>
  <2>1. l2.orders = Append(l.orders, id) /\ l.orders \in Seq(OrderId)
    BY <1>3
  <2> HIDE DEF l, l2
  <2>2. Len(l.orders) \in Nat /\ DOMAIN l.orders = 1 .. Len(l.orders)
    BY <2>1
  <2>3. l2.orders \in Seq(OrderId) /\ Len(l2.orders) = Len(l.orders) + 1
    BY <2>1
  <2>4. /\ l2.orders[Len(l.orders) + 1] = id
        /\ \A i \in 1 .. Len(l.orders) : l2.orders[i] = l.orders[i]
    BY <2>1, <2>2
  <2>5. l2.orders # << >>
    BY <2>2, <2>3
  <2> QED
    BY <2>2, <2>3, <2>4, <2>5
<1>9. ASSUME NEW q \in DOMAIN L2
      PROVE  LET list == L2[q].orders
             IN  /\ list # << >>
                 /\ L2[q].num_orders = Len(list)
                 /\ \A i, j \in DOMAIN list : list[i] = list[j] => i = j
                 /\ \A i \in DOMAIN list : list[i] \in DOMAIN M2 /\ M2[list[i]].price = q
  <2>1. CASE q = p
    <3>1. \A i \in DOMAIN l2.orders : i \in DOMAIN l.orders \/ i = Len(l.orders) + 1
      BY <1>8
    <3>2. \A i, j \in DOMAIN l2.orders : l2.orders[i] = l2.orders[j] => i = j
      BY <3>1, <1>7, <1>8
    <3>3. \A i \in DOMAIN l2.orders : l2.orders[i] \in DOMAIN M2 /\ M2[l2.orders[i]].price = p
      BY <3>1, <1>6, <1>61, <1>7, <1>8
    <3> QED
      BY <2>1, <3>2, <3>3, <1>3, <1>5, <1>7, <1>8
  <2>2. CASE q # p
    BY <2>2, <1>5, <1>6, <1>61 DEF SideOK, SideConsistent
  <2> QED
    BY <2>1, <2>2
<1>10. ASSUME NEW x \in DOMAIN M2
       PROVE  /\ M2[x].price \in DOMAIN L2
              /\ \E i \in DOMAIN L2[M2[x].price].orders : L2[M2[x].price].orders[i] = x
  <2>1. CASE x = id
    BY <2>1, <1>5, <1>6, <1>8
  <2>2. CASE x # id
    <3>1. x \in DOMAIN M /\ M2[x] = M[x]
      BY <2>2, <1>6, <1>61
    <3>2. M[x].price \in DOMAIN L
      BY <3>1 DEF SideOK, SideConsistent
    <3>3. PICK i \in DOMAIN L[M[x].price].orders : L[M[x].price].orders[i] = x
      BY <3>1 DEF SideOK, SideConsistent
    <3>4. CASE M[x].price = p
      BY <3>1, <3>2, <3>3, <3>4, <1>5, <1>8
    <3>5. CASE M[x].price # p
      BY <3>1, <3>2, <3>3, <3>5, <1>5
    <3> QED
      BY <3>4, <3>5
  <2> QED
    BY <2>1, <2>2
<1>11. \A x \in DOMAIN M2 : M2[x].filled_quantity <= M2[x].quantity
  BY <1>6, <1>61 DEF SideOK
<1> QED
  BY <1>5, <1>6, <1>9, <1>10, <1>11 DEF SideOK, SideConsistent

\* removeOrder of an order that is there keeps the side consistent: its level
\* goes when it was the last one, and otherwise loses this order only.
LEMMA RemoveSideOK ==
  ASSUME NEW L, NEW M, SideOK(L, M), NEW id \in DOMAIN M
  PROVE  LET L2 == LevelsRemove(L, id, M[id])
         IN  /\ SideOK(L2, Erase(M, id))
             /\ DOMAIN L2 \subseteq DOMAIN L
             /\ \A q \in DOMAIN L2 : \A i \in DOMAIN L2[q].orders :
                  /\ L2[q].orders[i] # id
                  /\ \E j \in DOMAIN L[q].orders : L[q].orders[j] = L2[q].orders[i]
<1> DEFINE p    == M[id].price
           list == L[p].orders
           k    == CHOOSE i \in DOMAIN list : list[i] = id
           l2   == LevelRemoveOrder(L[p], id, M[id])
           L2   == LevelsRemove(L, id, M[id])
           M2   == Erase(M, id)
<1>1. /\ p \in DOMAIN L
      /\ M[id] \in Order
      /\ L[p] \in L3PriceLevel
      /\ list \in Seq(OrderId)
      /\ L[p].num_orders = Len(list)
      /\ \A i, j \in DOMAIN list : list[i] = list[j] => i = j
      /\ \A i \in DOMAIN list : list[i] \in DOMAIN M /\ M[list[i]].price = p
  BY DEF SideOK, SideConsistent, IsMap, L3PriceLevel
<1>2. k \in DOMAIN list /\ list[k] = id
  BY DEF SideOK, SideConsistent
<1>3. /\ l2.orders = EraseAt(list, k)
      /\ l2.num_orders = Len(list) - 1
      /\ Remaining(M[id]) \in Int
  BY <1>1 DEF LevelRemoveOrder, Remaining, Order
<1>31. l2.quantity \in Int
  BY <1>1, <1>3 DEF LevelRemoveOrder, L3PriceLevel
<1>32. /\ IsMap(M2, OrderId, Order)
      /\ DOMAIN M2 = DOMAIN M \ {id}
      /\ \A x \in DOMAIN M \ {id} : M2[x] = M[x]
  <2>1. IsMap(M, OrderId, Order)
    BY DEF SideOK
  <2> QED
    BY <2>1 DEF IsMap, Erase, Restrict
<1>33. l2 = [quantity |-> l2.quantity, num_orders |-> l2.num_orders, orders |-> l2.orders]
  BY DEF LevelRemoveOrder
<1>34. L2 = IF l2.num_orders = 0 THEN Erase(L, p) ELSE [L EXCEPT ![p] = l2]
  BY DEF LevelsRemove
<1> HIDE DEF k, l2, L2, M2
<1>4. /\ Len(list) \in Nat /\ DOMAIN list = 1 .. Len(list)
      /\ l2.orders \in Seq(OrderId)
      /\ Len(l2.orders) = Len(list) - 1
      /\ DOMAIN l2.orders = 1 .. Len(list) - 1
      /\ \A j \in 1 .. Len(list) - 1 :
           l2.orders[j] = IF j < k THEN list[j] ELSE list[j + 1]
  <2>1. Len(list) \in Nat /\ DOMAIN list = 1 .. Len(list)
    BY <1>1
  <2>2. /\ EraseAt(list, k) \in Seq(OrderId)
        /\ Len(EraseAt(list, k)) = Len(list) - 1
        /\ \A j \in 1 .. Len(list) - 1 :
             EraseAt(list, k)[j] = IF j < k THEN list[j] ELSE list[j + 1]
    <3> HIDE DEF list
    <3> QED
      BY <1>1, <1>2, EraseAtList, Zenon
  <2>3. l2.orders \in Seq(OrderId) /\ Len(l2.orders) = Len(list) - 1
    BY <2>2, <1>3
  <2>4. DOMAIN l2.orders = 1 .. Len(l2.orders)
    BY <2>3
  <2> QED
    BY <2>1, <2>2, <2>3, <2>4, <1>3
<1>5. l2 \in L3PriceLevel
  <2>1. l2.quantity \in Int /\ l2.num_orders \in Int /\ l2.orders \in Seq(OrderId)
    BY <1>31, <1>3, <1>4
  <2> QED
    BY <2>1, <1>33 DEF L3PriceLevel
<1>6. \A j \in DOMAIN l2.orders : \E i \in DOMAIN list : i # k /\ l2.orders[j] = list[i]
  <2> SUFFICES ASSUME NEW j \in 1 .. Len(list) - 1
               PROVE  \E i \in DOMAIN list : i # k /\ l2.orders[j] = list[i]
    BY <1>4
  <2>1. CASE j < k
    <3>1. j \in DOMAIN list /\ j # k /\ l2.orders[j] = list[j]
      BY <2>1, <1>2, <1>4
    <3> QED
      BY <3>1
  <2>2. CASE ~(j < k)
    <3>1. j + 1 \in DOMAIN list /\ j + 1 # k /\ l2.orders[j] = list[j + 1]
      BY <2>2, <1>2, <1>4
    <3> QED
      BY <3>1
  <2> QED
    BY <2>1, <2>2
<1>7. \A i \in DOMAIN list : i # k => \E j \in DOMAIN l2.orders : l2.orders[j] = list[i]
  <2> SUFFICES ASSUME NEW i \in DOMAIN list, i # k
               PROVE  \E j \in DOMAIN l2.orders : l2.orders[j] = list[i]
    OBVIOUS
  <2>1. CASE i < k
    BY <2>1, <1>2, <1>4
  <2>2. CASE i > k
    <3>1. i - 1 \in DOMAIN l2.orders /\ l2.orders[i - 1] = list[i]
      BY <2>2, <1>2, <1>4
    <3> QED
      BY <3>1
  <2> QED
    BY <2>1, <2>2, <1>2, <1>4
<1>8. \A i, j \in DOMAIN l2.orders : l2.orders[i] = l2.orders[j] => i = j
  <2> SUFFICES ASSUME NEW i \in 1 .. Len(list) - 1, NEW j \in 1 .. Len(list) - 1,
                      l2.orders[i] = l2.orders[j]
               PROVE  i = j
    BY <1>4
  <2> DEFINE a == IF i < k THEN i ELSE i + 1
             b == IF j < k THEN j ELSE j + 1
  <2>1. a \in DOMAIN list /\ b \in DOMAIN list /\ k \in 1 .. Len(list)
    BY <1>2, <1>4
  <2>2. list[a] = list[b]
    BY <1>4
  <2>3. a = b
    BY <2>1, <2>2, <1>1
  <2> QED
    BY <2>1, <2>3
<1>10. /\ \A i \in DOMAIN l2.orders : l2.orders[i] \in DOMAIN M2 /\ M2[l2.orders[i]].price = p
       /\ \A i \in DOMAIN l2.orders : l2.orders[i] # id
  BY <1>1, <1>2, <1>6, <1>32
\* The other levels do not list this order.
<1>11. \A q \in DOMAIN L : q # p => \A i \in DOMAIN L[q].orders : L[q].orders[i] # id
  BY DEF SideOK, SideConsistent
<1>12. IsMap(L, Price, L3PriceLevel)
  BY DEF SideOK
<1>13. CASE l2.num_orders = 0
  <2>1. L2 = Erase(L, p)
    BY <1>13, <1>34
  <2>2. /\ IsMap(L2, Price, L3PriceLevel)
        /\ DOMAIN L2 = DOMAIN L \ {p}
        /\ \A q \in DOMAIN L \ {p} : L2[q] = L[q]
    BY <2>1, <1>12 DEF IsMap, Erase, Restrict
  <2>3. \A x \in DOMAIN M2 : M2[x].price # p
    <3> SUFFICES ASSUME NEW x \in DOMAIN M, M[x].price = p
                 PROVE  x = id
      BY <1>32
    <3>1. PICK i \in DOMAIN list : list[i] = x
      BY DEF SideOK, SideConsistent
    <3> QED
      BY <3>1, <1>2, <1>3, <1>4, <1>13
  <2>4. SideConsistent(L2, M2)
    <3>1. \A q \in DOMAIN L2 : LET ll == L2[q].orders
                              IN  /\ ll # << >>
                                  /\ L2[q].num_orders = Len(ll)
                                  /\ \A i, j \in DOMAIN ll : ll[i] = ll[j] => i = j
                                  /\ \A i \in DOMAIN ll : ll[i] \in DOMAIN M2 /\ M2[ll[i]].price = q
      BY <2>2, <1>32, <1>11 DEF SideOK, SideConsistent
    <3>2. \A x \in DOMAIN M2 : /\ M2[x].price \in DOMAIN L2
                              /\ \E i \in DOMAIN L2[M2[x].price].orders : L2[M2[x].price].orders[i] = x
      BY <2>2, <2>3, <1>32 DEF SideOK, SideConsistent
    <3> QED
      BY <3>1, <3>2 DEF SideConsistent
  <2>5. \A x \in DOMAIN M2 : M2[x].filled_quantity <= M2[x].quantity
    BY <1>32 DEF SideOK
  <2>6. \A q \in DOMAIN L2 : \A i \in DOMAIN L2[q].orders :
          /\ L2[q].orders[i] # id
          /\ \E j \in DOMAIN L[q].orders : L[q].orders[j] = L2[q].orders[i]
    BY <2>2, <1>11
  <2>7. SideOK(L2, M2)
    BY <2>2, <2>4, <2>5, <1>32 DEF SideOK
  <2> QED
    BY <2>2, <2>6, <2>7 DEF L2, M2
<1>14. CASE l2.num_orders # 0
  <2>1. L2 = [L EXCEPT ![p] = l2]
    BY <1>14, <1>34
  <2>2. /\ IsMap(L2, Price, L3PriceLevel)
        /\ DOMAIN L2 = DOMAIN L
        /\ L2[p] = l2
        /\ \A q \in DOMAIN L : q # p => L2[q] = L[q]
    BY <2>1, <1>1, <1>5, <1>12, ExceptMap DEF IsMap
  <2>3. ASSUME NEW q \in DOMAIN L2
        PROVE  LET ll == L2[q].orders
               IN  /\ ll # << >>
                   /\ L2[q].num_orders = Len(ll)
                   /\ \A i, j \in DOMAIN ll : ll[i] = ll[j] => i = j
                   /\ \A i \in DOMAIN ll : ll[i] \in DOMAIN M2 /\ M2[ll[i]].price = q
    <3>1. CASE q = p
      <4>1. l2.orders # << >>
        BY <1>3, <1>4, <1>14
      <4> QED
        BY <3>1, <4>1, <2>2, <1>3, <1>4, <1>8, <1>10
    <3>2. CASE q # p
      BY <3>2, <2>2, <1>32, <1>11 DEF SideOK, SideConsistent
    <3> QED
      BY <3>1, <3>2
  <2>4. ASSUME NEW x \in DOMAIN M2
        PROVE  /\ M2[x].price \in DOMAIN L2
               /\ \E i \in DOMAIN L2[M2[x].price].orders : L2[M2[x].price].orders[i] = x
    <3>1. x \in DOMAIN M /\ M2[x] = M[x] /\ M[x].price \in DOMAIN L
      BY <1>32 DEF SideOK, SideConsistent
    <3>2. PICK i \in DOMAIN L[M[x].price].orders : L[M[x].price].orders[i] = x
      BY <3>1 DEF SideOK, SideConsistent
    <3>3. CASE M[x].price = p
      <4>1. i # k
        BY <3>2, <3>3, <1>2, <1>32
      <4> QED
        BY <3>1, <3>2, <3>3, <4>1, <2>2, <1>7
    <3>4. CASE M[x].price # p
      BY <3>1, <3>2, <3>4, <2>2
    <3> QED
      BY <3>3, <3>4
  <2>5. SideConsistent(L2, M2)
    BY <2>3, <2>4 DEF SideConsistent
  <2>6. \A q \in DOMAIN L2 : \A i \in DOMAIN L2[q].orders :
          /\ L2[q].orders[i] # id
          /\ \E j \in DOMAIN L[q].orders : L[q].orders[j] = L2[q].orders[i]
    BY <2>2, <1>6, <1>10, <1>11
  <2>7. \A x \in DOMAIN M2 : M2[x].filled_quantity <= M2[x].quantity
    BY <1>32 DEF SideOK
  <2>8. SideOK(L2, M2)
    BY <2>2, <2>5, <2>7, <1>32 DEF SideOK
  <2> QED
    BY <2>2, <2>6, <2>8 DEF L2, M2
<1> QED
  BY <1>13, <1>14

\* Filling an order at a level changes no list and no key.
LEMMA FillSideOK ==
  ASSUME NEW L, NEW M, SideOK(L, M), NEW p \in DOMAIN L, NEW id \in DOMAIN M,
         NEW qty \in Nat, qty <= Remaining(M[id])
  PROVE  LET L2 == [L EXCEPT ![p] = LevelFillOrder(@, qty)]
             M2 == [M EXCEPT ![id] = OrderFilled(@, qty)]
         IN  /\ SideOK(L2, M2)
             /\ DOMAIN L2 = DOMAIN L
             /\ \A q \in DOMAIN L : L2[q].orders = L[q].orders
             /\ DOMAIN M2 = DOMAIN M
             /\ \A x \in DOMAIN M : x # id => M2[x] = M[x]
             /\ M2[id] = OrderFilled(M[id], qty)
<1> DEFINE L2 == [L EXCEPT ![p] = LevelFillOrder(@, qty)]
           M2 == [M EXCEPT ![id] = OrderFilled(@, qty)]
<1>1. L[p] \in L3PriceLevel /\ M[id] \in Order
  BY DEF SideOK, IsMap
<1>2. /\ LevelFillOrder(L[p], qty) \in L3PriceLevel
      /\ LevelFillOrder(L[p], qty).orders = L[p].orders
      /\ LevelFillOrder(L[p], qty).num_orders = L[p].num_orders
  BY <1>1 DEF LevelFillOrder, L3PriceLevel
<1>3. /\ OrderFilled(M[id], qty) \in Order
      /\ OrderFilled(M[id], qty).price = M[id].price
      /\ OrderFilled(M[id], qty).quantity = M[id].quantity
      /\ OrderFilled(M[id], qty).filled_quantity = M[id].filled_quantity + qty
      /\ OrderFilled(M[id], qty).filled_quantity <= OrderFilled(M[id], qty).quantity
  BY <1>1 DEF OrderFilled, Order, Remaining
<1>4. /\ IsMap(L2, Price, L3PriceLevel)
      /\ DOMAIN L2 = DOMAIN L
      /\ \A q \in DOMAIN L : L2[q].orders = L[q].orders /\ L2[q].num_orders = L[q].num_orders
  BY <1>2, ExceptMap DEF SideOK, IsMap
<1>5. /\ IsMap(M2, OrderId, Order)
      /\ DOMAIN M2 = DOMAIN M
      /\ \A x \in DOMAIN M : x # id => M2[x] = M[x]
      /\ M2[id] = OrderFilled(M[id], qty)
  BY <1>3, ExceptMap DEF SideOK, IsMap
<1>6. \A x \in DOMAIN M : M2[x].price = M[x].price /\ M2[x].filled_quantity <= M2[x].quantity
  BY <1>3, <1>5 DEF SideOK
<1>7. SideConsistent(L2, M2)
  BY <1>4, <1>5, <1>6 DEF SideOK, SideConsistent
<1> QED
  BY <1>4, <1>5, <1>6, <1>7 DEF SideOK

-----------------------------------------------------------------------------
(* Facts used by several steps.                                            *)

\* std::min of two quantities.
LEMMA MinOfNat ==
  ASSUME NEW a \in Nat, NEW b \in Nat
  PROVE  MinOf(a, b) \in Nat /\ MinOf(a, b) <= a /\ MinOf(a, b) <= b
BY DEF MinOf

\* Filling the order or trade being handled changes its filled quantity only.
LEMMA ActFilled ==
  ASSUME NEW a \in Action, NEW qty \in Nat, qty <= Remaining(a)
  PROVE  LET b == OrderFilled(a, qty)
         IN  /\ b \in Action
             /\ b.kind = a.kind /\ b.odid = a.odid /\ b.is_sell = a.is_sell
             /\ b.quantity = a.quantity /\ b.price = a.price
             /\ b.filled_quantity <= b.quantity
             /\ Remaining(b) = Remaining(a) - qty
BY DEF Action, OrderFilled, Remaining

\* The invariant side by side.
LEMMA SidesOK ==
  ASSUME TypeOK, BookConsistent, NoSpentOrders
  PROVE  \A s \in BOOLEAN : SideOK(levels[s], order_map[s])
<1> SUFFICES ASSUME NEW s \in BOOLEAN
             PROVE  SideOK(levels[s], order_map[s])
  OBVIOUS
<1>1. IsMap(levels[s], Price, L3PriceLevel) /\ IsMap(order_map[s], OrderId, Order)
  BY DEF TypeOK
<1>2. \A id \in DOMAIN order_map[s] :
        order_map[s][id].filled_quantity <= order_map[s][id].quantity
  <2> SUFFICES ASSUME NEW id \in DOMAIN order_map[s]
               PROVE  order_map[s][id].filled_quantity <= order_map[s][id].quantity
    OBVIOUS
  <2>1. order_map[s][id] \in Order
    BY <1>1 DEF IsMap
  <2>2. Remaining(order_map[s][id]) >= 0
    BY <2>1 DEF NoSpentOrders, Remaining, Order
  <2> QED
    BY <2>1, <2>2 DEF Remaining, Order
<1> QED
  BY <1>1, <1>2 DEF SideOK, BookConsistent

\* removeOrder on one side: the other side is as it was, this one loses the
\* order and nothing else.
LEMMA RemoveOrderStep ==
  ASSUME TypeOK, BookConsistent, NoSpentOrders, NEW s \in BOOLEAN, NEW id, removeOrder(s, id)
  PROVE  /\ DOMAIN levels' = BOOLEAN /\ DOMAIN order_map' = BOOLEAN
         /\ \A t \in BOOLEAN : SideOK(levels'[t], order_map'[t])
         /\ \A t \in BOOLEAN : t # s => levels'[t] = levels[t] /\ order_map'[t] = order_map[t]
         /\ DOMAIN levels'[s] \subseteq DOMAIN levels[s]
         /\ DOMAIN order_map'[s] = DOMAIN order_map[s] \ {id}
         /\ \A x \in DOMAIN order_map[s] \ {id} : order_map'[s][x] = order_map[s][x]
         /\ \A q \in DOMAIN levels'[s] : \A i \in DOMAIN levels'[s][q].orders :
              \E j \in DOMAIN levels[s][q].orders : levels[s][q].orders[j] = levels'[s][q].orders[i]
<1>1. \A t \in BOOLEAN : SideOK(levels[t], order_map[t])
  BY SidesOK
<1>2. DOMAIN levels = BOOLEAN /\ DOMAIN order_map = BOOLEAN
  BY DEF TypeOK
<1>3. CASE id \in DOMAIN order_map[s]
  <2> DEFINE L2 == LevelsRemove(levels[s], id, order_map[s][id])
             M2 == Erase(order_map[s], id)
  <2>1. levels' = [levels EXCEPT ![s] = L2] /\ order_map' = [order_map EXCEPT ![s] = M2]
    BY <1>3 DEF removeOrder, existOrder
  <2>2. /\ SideOK(L2, M2)
        /\ DOMAIN L2 \subseteq DOMAIN levels[s]
        /\ \A q \in DOMAIN L2 : \A i \in DOMAIN L2[q].orders :
             \E j \in DOMAIN levels[s][q].orders : levels[s][q].orders[j] = L2[q].orders[i]
    BY <1>1, <1>3, RemoveSideOK
  <2>3. /\ DOMAIN M2 = DOMAIN order_map[s] \ {id}
        /\ \A x \in DOMAIN order_map[s] \ {id} : M2[x] = order_map[s][x]
    BY DEF Erase, Restrict
  <2> HIDE DEF L2, M2
  <2>4. /\ levels'[s] = L2 /\ order_map'[s] = M2
        /\ DOMAIN levels' = BOOLEAN /\ DOMAIN order_map' = BOOLEAN
        /\ \A t \in BOOLEAN : t # s => levels'[t] = levels[t] /\ order_map'[t] = order_map[t]
    BY <2>1, <1>2
  <2>5. \A t \in BOOLEAN : SideOK(levels'[t], order_map'[t])
    BY <2>2, <2>4, <1>1
  <2> QED
    BY <2>2, <2>3, <2>4, <2>5
<1>4. CASE id \notin DOMAIN order_map[s]
  <2>1. levels' = levels /\ order_map' = order_map
    BY <1>4 DEF removeOrder, existOrder
  <2> QED
    BY <2>1, <1>1, <1>2, <1>4
<1> QED
  BY <1>3, <1>4

\* addOrder on one side.
LEMMA AddOrderStep ==
  ASSUME TypeOK, BookConsistent, NoSpentOrders, NEW s \in BOOLEAN, NEW id \in OrderId,
         NEW o \in Order, o.filled_quantity <= o.quantity, addOrder(s, id, o)
  PROVE  /\ DOMAIN levels' = BOOLEAN /\ DOMAIN order_map' = BOOLEAN
         /\ \A t \in BOOLEAN : SideOK(levels'[t], order_map'[t])
         /\ \A t \in BOOLEAN : t # s => levels'[t] = levels[t] /\ order_map'[t] = order_map[t]
         /\ DOMAIN levels'[s] \subseteq DOMAIN levels[s] \cup {o.price}
         /\ \A x \in DOMAIN order_map'[s] :
              \/ x \in DOMAIN order_map[s] /\ order_map'[s][x] = order_map[s][x]
              \/ x \notin DOMAIN order_map[s] /\ order_map'[s][x] = o
<1>1. \A t \in BOOLEAN : SideOK(levels[t], order_map[t])
  BY SidesOK
<1>2. DOMAIN levels = BOOLEAN /\ DOMAIN order_map = BOOLEAN
  BY DEF TypeOK
<1>3. CASE id \notin DOMAIN order_map[s]
  <2> DEFINE L2 == LevelsAdd(levels[s], id, o)
             M2 == Put(order_map[s], id, o)
  <2>1. levels' = [levels EXCEPT ![s] = L2] /\ order_map' = [order_map EXCEPT ![s] = M2]
    BY <1>3 DEF addOrder, existOrder
  <2>2. SideOK(L2, M2)
    BY <1>1, <1>3, AddSideOK
  <2>3. /\ DOMAIN L2 = DOMAIN levels[s] \cup {o.price}
        /\ \A x \in DOMAIN M2 : \/ x \in DOMAIN order_map[s] /\ M2[x] = order_map[s][x]
                                \/ x \notin DOMAIN order_map[s] /\ M2[x] = o
    <3>1. DOMAIN L2 = DOMAIN levels[s] \cup {o.price}
      BY DEF LevelsAdd, Put
    <3>2. /\ DOMAIN M2 = DOMAIN order_map[s] \cup {id}
          /\ M2[id] = o
          /\ \A x \in DOMAIN order_map[s] : x # id => M2[x] = order_map[s][x]
      BY DEF Put
    <3> HIDE DEF L2, M2
    <3>3. ASSUME NEW x \in DOMAIN M2
          PROVE  \/ x \in DOMAIN order_map[s] /\ M2[x] = order_map[s][x]
                 \/ x \notin DOMAIN order_map[s] /\ M2[x] = o
      <4>1. CASE x = id
        BY <4>1, <3>2, <1>3
      <4>2. CASE x # id
        BY <4>2, <3>2
      <4> QED
        BY <4>1, <4>2
    <3> QED
      BY <3>1, <3>3
  <2> HIDE DEF L2, M2
  <2>4. /\ levels'[s] = L2 /\ order_map'[s] = M2
        /\ DOMAIN levels' = BOOLEAN /\ DOMAIN order_map' = BOOLEAN
        /\ \A t \in BOOLEAN : t # s => levels'[t] = levels[t] /\ order_map'[t] = order_map[t]
    BY <2>1, <1>2
  <2>5. \A t \in BOOLEAN : SideOK(levels'[t], order_map'[t])
    BY <2>2, <2>4, <1>1
  <2> QED
    BY <2>3, <2>4, <2>5
<1>4. CASE id \in DOMAIN order_map[s]
  <2>1. levels' = levels /\ order_map' = order_map
    BY <1>4 DEF addOrder, existOrder
  <2> QED
    BY <2>1, <1>1, <1>2
<1> QED
  BY <1>3, <1>4

\* matchPendingLiqRemove takes no more than is pending, and no more than asked.
LEMMA MatchRemoveOK ==
  ASSUME NEW f, IsMap(f, Price, Nat), NEW quantity \in Nat, NEW price
  PROVE  /\ MatchedRemove(f, quantity, price) \in Nat
         /\ MatchedRemove(f, quantity, price) <= quantity
         /\ IsMap(AfterMatchRemove(f, quantity, price), Price, Nat)
<1>1. CASE price \notin DOMAIN f
  BY <1>1 DEF MatchedRemove, AfterMatchRemove
<1>2. CASE price \in DOMAIN f
  <2> DEFINE m == MinOf(f[price], quantity)
             left == f[price] - m
  <2>1. f[price] \in Nat
    BY <1>2 DEF IsMap
  <2>2. m \in Nat /\ m <= f[price] /\ m <= quantity
    BY <2>1, MinOfNat
  <2>3. MatchedRemove(f, quantity, price) = m
    BY <1>2 DEF MatchedRemove
  <2>4. AfterMatchRemove(f, quantity, price) =
          IF left = 0 THEN Erase(f, price) ELSE [f EXCEPT ![price] = left]
    BY <1>2, <2>3 DEF AfterMatchRemove
  <2> HIDE DEF m
  <2>5. left \in Nat
    BY <2>1, <2>2
  <2>6. IsMap(Erase(f, price), Price, Nat) /\ IsMap([f EXCEPT ![price] = left], Price, Nat)
    BY <2>5 DEF IsMap, Erase, Restrict
  <2> QED
    BY <2>2, <2>3, <2>4, <2>6
<1> QED
  BY <1>1, <1>2

\* map[k] += q keeps a map of quantities one.
LEMMA IncreaseOK ==
  ASSUME NEW f, IsMap(f, Price, Nat), NEW k \in Price, NEW q \in Nat
  PROVE  IsMap(Increase(f, k, q), Price, Nat)
BY DEF IsMap, Increase, Put

-----------------------------------------------------------------------------
(* What a step that changes the book has to show of it.                    *)

\* Two consistent sides are a consistent book.
LEMMA BookFromSides ==
  ASSUME \A s \in BOOLEAN : SideOK(levels'[s], order_map'[s])
  PROVE  /\ BookConsistent'
         /\ \A s \in BOOLEAN : /\ IsMap(levels'[s], Price, L3PriceLevel)
                               /\ IsMap(order_map'[s], OrderId, Order)
BY DEF SideOK, BookConsistent

\* A view of a well-typed side is a L2SnapshotSide.
LEMMA ViewOK ==
  ASSUME NEW L, IsMap(L, Price, L3PriceLevel)
  PROVE  L2View(L) \in SUBSET L2PriceLevel
<1> SUFFICES ASSUME NEW p \in DOMAIN L
             PROVE  [price |-> p, quantity |-> L[p].quantity] \in L2PriceLevel
  BY DEF L2View
<1>1. p \in Price /\ L[p].quantity \in Int
  BY DEF IsMap, L3PriceLevel
<1> QED
  BY <1>1 DEF L2PriceLevel

\* saveL2SnapshotSide queues a well-typed view.
LEMMA SaveOK ==
  ASSUME TypeOK, NEW s \in BOOLEAN, saveL2SnapshotSide(s),
         IsMap(levels'[s], Price, L3PriceLevel)
  PROVE  /\ DOMAIN l2_snap_queue' = BOOLEAN
         /\ \A t \in BOOLEAN : l2_snap_queue'[t] \in Seq(SUBSET L2PriceLevel)
<1> DEFINE v == L2View(levels'[s])
<1>1. v \in SUBSET L2PriceLevel
  BY ViewOK
<1>2. l2_snap_queue' = [l2_snap_queue EXCEPT ![s] = Append(@, v)]
  BY DEF saveL2SnapshotSide
<1> HIDE DEF v
<1>3. Append(l2_snap_queue[s], v) \in Seq(SUBSET L2PriceLevel)
  BY <1>1 DEF TypeOK
<1> QED
  BY <1>2, <1>3 DEF TypeOK

\* An event of the handler's is added to the ones it returns, or dropped.
LEMMA EmitOK ==
  ASSUME TypeOK, NEW info \in Info, Emit(<<info>>)
  PROVE  events' \in Seq(Info)
BY DEF Emit, mergeEvents, TypeOK

-----------------------------------------------------------------------------
(* Induction over the naturals.  The library states it with an operator    *)
(* for the property; here the property is a set of naturals, and induction *)
(* for sets follows from facts about finite sets.                          *)

\* Induction over the naturals, for a set: were some n missing, the missing
\* numbers up to n would map one to one into themselves by m - 1, and none to n.
LEMMA NatSetInduction ==
  ASSUME NEW T, 0 \in T, \A n \in Nat : n \in T => n + 1 \in T
  PROVE  \A n \in Nat : n \in T
<1> SUFFICES ASSUME NEW n \in Nat, n \notin T
             PROVE  FALSE
  OBVIOUS
<1> DEFINE S == {m \in 0 .. n : m \notin T}
           f == [m \in S |-> m - 1]
<1>1. IsFiniteSet(S)
  <2>1. IsFiniteSet(0 .. n)
    BY FS_Interval
  <2>2. S \in SUBSET (0 .. n)
    OBVIOUS
  <2> QED
    BY <2>1, <2>2, FS_Subset
<1>2. \A m \in S : m - 1 \in S
  <2> SUFFICES ASSUME NEW m \in 0 .. n, m \notin T
               PROVE  m - 1 \in 0 .. n /\ m - 1 \notin T
    OBVIOUS
  <2>1. m # 0
    OBVIOUS
  <2>2. m - 1 \in Nat /\ (m - 1) + 1 = m
    BY <2>1
  <2> QED
    BY <2>2
<1>3. f \in Injection(S, S)
  <2>1. f \in [S -> S]
    BY <1>2
  <2>2. \A a, b \in S : f[a] = f[b] => a = b
    OBVIOUS
  <2> QED
    BY <2>1, <2>2 DEF Injection, IsInjective
<1>4. f \in Surjection(S, S)
  BY <1>1, <1>3, FS_Injection
<1>5. n \in S
  OBVIOUS
<1>6. PICK m \in S : f[m] = n
  BY <1>4, <1>5 DEF Surjection
<1> QED
  BY <1>6

-----------------------------------------------------------------------------
(* Running totals.                                                         *)

\* f[1] + ... + f[n].
Total(f, n) ==
  LET sum[i \in 0 .. n] == IF i = 0 THEN 0 ELSE sum[i - 1] + f[i]
  IN  sum[n]

\* g[i] is the sum of f[1] .. f[i], for every i up to n.
RunsTo(f, n, g) ==
  /\ g \in [0 .. n -> Int]
  /\ g[0] = 0
  /\ \A i \in 1 .. n : g[i] = g[i - 1] + f[i]

\* There are running totals.
LEMMA RunExists ==
  ASSUME NEW n \in Nat, NEW f, \A i \in 1 .. n : f[i] \in Int
  PROVE  \E g : RunsTo(f, n, g)
<1> DEFINE T == {k \in Nat : k <= n => \E g : RunsTo(f, k, g)}
<1>1. 0 \in T
  <2> DEFINE g == [i \in 0 .. 0 |-> 0]
  <2>1. RunsTo(f, 0, g)
    BY DEF RunsTo
  <2> QED
    BY <2>1
<1>2. ASSUME NEW k \in Nat, k \in T
      PROVE  k + 1 \in T
  <2> SUFFICES ASSUME k + 1 <= n
               PROVE  \E g : RunsTo(f, k + 1, g)
    OBVIOUS
  <2>1. PICK g : RunsTo(f, k, g)
    BY <1>2
  <2> DEFINE h == [i \in 0 .. k + 1 |-> IF i = k + 1 THEN g[k] + f[k + 1] ELSE g[i]]
  <2>2. f[k + 1] \in Int /\ g[k] \in Int
    BY <2>1 DEF RunsTo
  <2>3. h \in [0 .. k + 1 -> Int] /\ h[0] = 0
    BY <2>1, <2>2 DEF RunsTo
  <2>4. \A i \in 1 .. k + 1 : h[i] = h[i - 1] + f[i]
    BY <2>1 DEF RunsTo
  <2>5. RunsTo(f, k + 1, h)
    BY <2>3, <2>4 DEF RunsTo
  <2> QED
    BY <2>5
<1> HIDE DEF T
<1>3. n \in T
  BY <1>1, <1>2, NatSetInduction
<1> QED
  BY <1>3 DEF T

\* There is one function of running totals.
LEMMA RunUnique ==
  ASSUME NEW n \in Nat, NEW f, NEW g, NEW h, RunsTo(f, n, g),
         h = [i \in 0 .. n |-> IF i = 0 THEN 0 ELSE h[i - 1] + f[i]]
  PROVE  h = g
<1> DEFINE T == {k \in Nat : k <= n => h[k] = g[k]}
<1>1. 0 \in T
  BY DEF RunsTo
<1>2. ASSUME NEW k \in Nat, k \in T
      PROVE  k + 1 \in T
  <2> SUFFICES ASSUME k + 1 <= n
               PROVE  h[k + 1] = g[k + 1]
    OBVIOUS
  <2>1. h[k] = g[k] /\ k + 1 \in 1 .. n /\ k + 1 \in 0 .. n /\ k + 1 # 0 /\ (k + 1) - 1 = k
    BY <1>2
  <2>2. h[k + 1] = h[(k + 1) - 1] + f[k + 1]
    BY <2>1
  <2>3. g[k + 1] = g[(k + 1) - 1] + f[k + 1]
    BY <2>1 DEF RunsTo
  <2> QED
    BY <2>1, <2>2, <2>3
<1> HIDE DEF T
<1>3. \A k \in Nat : k \in T
  BY <1>1, <1>2, NatSetInduction
<1>4. \A k \in 0 .. n : h[k] = g[k]
  <2> SUFFICES ASSUME NEW k \in 0 .. n
               PROVE  h[k] = g[k]
    OBVIOUS
  <2>1. k \in Nat /\ k <= n
    OBVIOUS
  <2>2. k \in T
    BY <2>1, <1>3
  <2> QED
    BY <2>1, <2>2 DEF T
<1>5. DOMAIN h = 0 .. n /\ DOMAIN g = 0 .. n
  BY DEF RunsTo
<1>6. h = [k \in 0 .. n |-> h[k]] /\ g = [k \in 0 .. n |-> g[k]]
  BY <1>5 DEF RunsTo
<1> QED
  BY <1>4, <1>6

\* The total is where the running totals end.
LEMMA RunTotal ==
  ASSUME NEW n \in Nat, NEW f, NEW g, RunsTo(f, n, g)
  PROVE  Total(f, n) = g[n]
<1> DEFINE Sum(h) == h = [i \in 0 .. n |-> IF i = 0 THEN 0 ELSE h[i - 1] + f[i]]
           sum == CHOOSE h : Sum(h)
<1>1. Sum(g)
  BY DEF RunsTo
<1>2. Sum(sum)
  <2> HIDE DEF Sum
  <2> QED
    BY <1>1
<1>3. sum = g
  <2> HIDE DEF sum
  <2> QED
    BY <1>2, RunUnique
<1> QED
  BY <1>3 DEF Total

\* A total of integers is one.
LEMMA TotalInt ==
  ASSUME NEW n \in Nat, NEW f, \A i \in 1 .. n : f[i] \in Int
  PROVE  Total(f, n) \in Int
<1>1. PICK g : RunsTo(f, n, g)
  BY RunExists
<1> QED
  BY <1>1, RunTotal DEF RunsTo

\* Nothing adds up to 0.
LEMMA TotalZero ==
  ASSUME NEW f
  PROVE  Total(f, 0) = 0
<1> DEFINE g == [i \in 0 .. 0 |-> 0]
<1>1. RunsTo(f, 0, g)
  BY DEF RunsTo
<1> QED
  BY <1>1, RunTotal

\* One more value.
LEMMA TotalNext ==
  ASSUME NEW n \in Nat, NEW f, \A i \in 1 .. n + 1 : f[i] \in Int
  PROVE  Total(f, n + 1) = Total(f, n) + f[n + 1]
<1>1. n + 1 \in Nat
  OBVIOUS
<1>2. PICK g : RunsTo(f, n + 1, g)
  BY <1>1, RunExists
<1> DEFINE h == [i \in 0 .. n |-> g[i]]
<1>3. RunsTo(f, n, h)
  BY <1>2 DEF RunsTo
<1>4. Total(f, n) = h[n]
  BY <1>3, RunTotal
<1>5. Total(f, n + 1) = g[n + 1]
  BY <1>1, <1>2, RunTotal
<1>6. g[n + 1] = g[(n + 1) - 1] + f[n + 1]
  BY <1>2 DEF RunsTo
<1> QED
  BY <1>4, <1>5, <1>6

\* A total depends on the values up to n only.
LEMMA TotalSame ==
  ASSUME NEW n \in Nat, NEW f, NEW g, \A i \in 1 .. n : f[i] \in Int /\ g[i] = f[i]
  PROVE  Total(g, n) = Total(f, n)
<1>1. PICK h : RunsTo(f, n, h)
  BY RunExists
<1>2. RunsTo(g, n, h)
  BY <1>1 DEF RunsTo
<1> QED
  BY <1>1, <1>2, RunTotal

\* Changing one value changes the total by the difference.
LEMMA TotalChange ==
  ASSUME NEW n \in Nat, NEW f, NEW g, NEW k \in 1 .. n,
         \A i \in 1 .. n : f[i] \in Int /\ g[i] \in Int /\ (i # k => g[i] = f[i])
  PROVE  Total(g, n) = Total(f, n) - f[k] + g[k]
<1>1. PICK h : RunsTo(f, n, h)
  BY RunExists
<1> DEFINE d == g[k] - f[k]
           r == [i \in 0 .. n |-> IF i < k THEN h[i] ELSE h[i] + d]
<1>2. f[k] \in Int /\ g[k] \in Int /\ d \in Int
  OBVIOUS
<1>3. r \in [0 .. n -> Int] /\ r[0] = 0 /\ r[n] = h[n] + d /\ h[n] \in Int
  BY <1>1, <1>2 DEF RunsTo
<1>4. ASSUME NEW i \in 1 .. n
      PROVE  r[i] = r[i - 1] + g[i]
  <2>1. h[i] = h[i - 1] + f[i] /\ h[i - 1] \in Int /\ f[i] \in Int /\ g[i] \in Int
    BY <1>1 DEF RunsTo
  <2>2. CASE i < k
    BY <2>1, <2>2
  <2>3. CASE i = k
    BY <2>1, <2>3
  <2>4. CASE i > k
    BY <2>1, <2>4, <1>2
  <2> QED
    BY <2>2, <2>3, <2>4
<1>5. RunsTo(g, n, r)
  BY <1>3, <1>4 DEF RunsTo
<1>6. Total(f, n) = h[n] /\ Total(g, n) = r[n]
  BY <1>1, <1>5, RunTotal
<1> QED
  BY <1>2, <1>3, <1>6

\* Zeros at the end add nothing.
LEMMA TotalExtend ==
  ASSUME NEW n \in Nat, NEW m \in Nat, n <= m, NEW f, NEW g,
         \A i \in 1 .. n : f[i] \in Int /\ g[i] = f[i],
         \A i \in n + 1 .. m : g[i] = 0
  PROVE  Total(g, m) = Total(f, n)
<1>1. PICK h : RunsTo(f, n, h)
  BY RunExists
<1> DEFINE e == [i \in 0 .. m |-> IF i <= n THEN h[i] ELSE h[n]]
<1>2. e \in [0 .. m -> Int] /\ e[0] = 0 /\ e[m] = h[n]
  BY <1>1 DEF RunsTo
<1>3. ASSUME NEW i \in 1 .. m
      PROVE  e[i] = e[i - 1] + g[i]
  <2>1. CASE i <= n
    BY <1>1, <2>1 DEF RunsTo
  <2>2. CASE i > n
    <3>1. e[i] = h[n] /\ e[i - 1] = h[n] /\ h[n] \in Int
      BY <1>1, <2>2 DEF RunsTo
    <3>2. g[i] = 0
      BY <2>2
    <3> HIDE DEF e
    <3> QED
      BY <3>1, <3>2
  <2> QED
    BY <2>1, <2>2
<1> HIDE DEF e
<1>4. RunsTo(g, m, e)
  BY <1>2, <1>3 DEF RunsTo
<1> QED
  BY <1>1, <1>2, <1>4, RunTotal

\* Nothing but zeros.
LEMMA TotalNone ==
  ASSUME NEW n \in Nat, NEW f, \A i \in 1 .. n : f[i] = 0
  PROVE  Total(f, n) = 0
<1>1. Total(f, n) = Total(f, 0)
  BY TotalExtend
<1> QED
  BY <1>1, TotalZero

\* Leaving one value out takes it off the total.
LEMMA TotalErase ==
  ASSUME NEW n \in Nat, NEW f, NEW g, NEW k \in 1 .. n,
         \A i \in 1 .. n : f[i] \in Int,
         \A j \in 1 .. n - 1 : g[j] = IF j < k THEN f[j] ELSE f[j + 1]
  PROVE  Total(g, n - 1) = Total(f, n) - f[k]
<1>1. PICK h : RunsTo(f, n, h)
  BY RunExists
<1> DEFINE r == [i \in 0 .. n - 1 |-> IF i < k THEN h[i] ELSE h[i + 1] - f[k]]
<1>2. f[k] \in Int /\ n - 1 \in Nat /\ h[k] = h[k - 1] + f[k] /\ h[k - 1] \in Int /\ h[n] \in Int
  BY <1>1 DEF RunsTo
<1>3. r \in [0 .. n - 1 -> Int] /\ r[0] = 0
  BY <1>1, <1>2 DEF RunsTo
<1>4. r[n - 1] = h[n] - f[k]
  <2>1. CASE k = n
    BY <2>1, <1>2
  <2>2. CASE k < n
    BY <2>2, <1>2
  <2> QED
    BY <2>1, <2>2
<1>5. ASSUME NEW i \in 1 .. n - 1
      PROVE  r[i] = r[i - 1] + g[i]
  <2>1. /\ h[i] = h[i - 1] + f[i] /\ h[i + 1] = h[(i + 1) - 1] + f[i + 1]
        /\ h[i - 1] \in Int /\ h[i] \in Int /\ f[i] \in Int /\ f[i + 1] \in Int
    BY <1>1 DEF RunsTo
  <2>2. CASE i < k
    BY <2>1, <2>2
  <2>3. CASE i = k
    BY <2>1, <2>3, <1>2
  <2>4. CASE i > k
    BY <2>1, <2>4, <1>2
  <2> QED
    BY <2>2, <2>3, <2>4
<1>6. RunsTo(g, n - 1, r)
  BY <1>3, <1>5 DEF RunsTo
<1>7. Total(f, n) = h[n]
  BY <1>1, RunTotal
<1>8. Total(g, n - 1) = r[n - 1]
  BY <1>2, <1>6, RunTotal
<1> QED
  BY <1>4, <1>7, <1>8
-----------------------------------------------------------------------------
(* Sums over sets.                                                         *)

\* The element a fold over a set takes first.
Some(s) == CHOOSE x \in s : TRUE
\* it[s] is the sum over s, for every part s of S, as the fold computes it.
SumsUp(f, S, it) ==
  it = [s \in SUBSET S |-> IF s = {} THEN 0 ELSE f[Some(s)] + it[s \ {Some(s)}]]
\* SumFunctionOnSet is the sum that the fold computes.
LEMMA SumIs == ASSUME NEW f, NEW S PROVE SumFunctionOnSet(f, S) = (CHOOSE it : SumsUp(f, S, it))[S]
BY DEF SumFunctionOnSet, FoldFunctionOnSet, MapThenFoldSet, SumsUp, Some

\* The values of f at a[1] .. a[n].
Listed(f, a, n) == [i \in 1 .. n |-> f[a[i]]]
\* A list of n + 1 elements without the k-th.
Without(a, n, k) == [j \in 1 .. n |-> IF j < k THEN a[j] ELSE a[j + 1]]

\* A list of the elements of U, each once.
LEMMA BijectionOf ==
  ASSUME NEW n \in Nat, NEW U, NEW a
  PROVE  a \in Bijection(1 .. n, U) <=> /\ a \in [1 .. n -> U]
                                        /\ \A i, j \in 1 .. n : a[i] = a[j] => i = j
                                        /\ \A x \in U : \E i \in 1 .. n : a[i] = x
BY DEF Bijection, Injection, Surjection, IsInjective

\* A list without its k-th element lists the others.
LEMMA BijectionWithout ==
  ASSUME NEW n \in Nat, NEW U, NEW a \in Bijection(1 .. n + 1, U), NEW k \in 1 .. n + 1
  PROVE  Without(a, n, k) \in Bijection(1 .. n, U \ {a[k]})
<1> DEFINE b == Without(a, n, k)
           at(j) == IF j < k THEN j ELSE j + 1
<1>1. /\ a \in [1 .. n + 1 -> U]
      /\ \A i, j \in 1 .. n + 1 : a[i] = a[j] => i = j
      /\ \A x \in U : \E i \in 1 .. n + 1 : a[i] = x
  BY BijectionOf
<1>2. b = [j \in 1 .. n |-> a[at(j)]]
  BY DEF Without
<1>3. \A j \in 1 .. n : at(j) \in 1 .. n + 1 /\ at(j) # k
  OBVIOUS
<1>4. \A i, j \in 1 .. n : at(i) = at(j) => i = j
  OBVIOUS
<1>5. \A i \in 1 .. n + 1 : i # k => \E j \in 1 .. n : at(j) = i
  <2> SUFFICES ASSUME NEW i \in 1 .. n + 1, i # k
               PROVE  \E j \in 1 .. n : at(j) = i
    OBVIOUS
  <2>1. CASE i < k
    BY <2>1
  <2>2. CASE i > k
    <3>1. i - 1 \in 1 .. n /\ at(i - 1) = i
      BY <2>2
    <3> QED
      BY <3>1
  <2> QED
    BY <2>1, <2>2
<1> HIDE DEF b, at
<1>6. b \in [1 .. n -> U \ {a[k]}]
  BY <1>1, <1>2, <1>3
<1>7. \A i, j \in 1 .. n : b[i] = b[j] => i = j
  BY <1>1, <1>2, <1>3, <1>4
<1>8. \A x \in U \ {a[k]} : \E j \in 1 .. n : b[j] = x
  BY <1>1, <1>2, <1>5
<1> QED
  BY <1>6, <1>7, <1>8, BijectionOf DEF b

\* What a total loses with the k-th element of a list.
LEMMA TotalWithout ==
  ASSUME NEW n \in Nat, NEW U, NEW a \in Bijection(1 .. n + 1, U), NEW k \in 1 .. n + 1,
         NEW f, \A x \in U : f[x] \in Int
  PROVE  Total(Listed(f, a, n + 1), n + 1) = Total(Listed(f, Without(a, n, k), n), n) + f[a[k]]
<1> DEFINE F == Listed(f, a, n + 1)
           G == Listed(f, Without(a, n, k), n)
<1>1. a \in [1 .. n + 1 -> U]
  BY BijectionOf
<1>2. \A i \in 1 .. n + 1 : F[i] \in Int
  BY <1>1 DEF Listed
<1>3. \A j \in 1 .. (n + 1) - 1 : G[j] = IF j < k THEN F[j] ELSE F[j + 1]
  BY DEF Listed, Without
<1>4. F[k] = f[a[k]] /\ n + 1 \in Nat /\ (n + 1) - 1 = n
  BY DEF Listed
<1>5. \A i \in 1 .. n : G[i] \in Int
  BY <1>2, <1>3, <1>4
<1> HIDE DEF F, G
<1>6. Total(G, (n + 1) - 1) = Total(F, n + 1) - F[k]
  BY <1>2, <1>3, <1>4, TotalErase
<1>7. Total(F, n + 1) \in Int /\ Total(G, n) \in Int /\ F[k] \in Int
  BY <1>2, <1>4, <1>5, TotalInt
<1> QED
  BY <1>4, <1>6, <1>7 DEF F, G

\* Two lists of the same elements have the same total.
LEMMA TotalAnyOrder ==
  ASSUME NEW S, NEW f, \A x \in S : f[x] \in Int
  PROVE  \A n \in Nat : \A U \in SUBSET S : \A a, b \in Bijection(1 .. n, U) :
           Total(Listed(f, a, n), n) = Total(Listed(f, b, n), n)
<1> DEFINE Same(n) == \A U \in SUBSET S : \A a, b \in Bijection(1 .. n, U) :
                        Total(Listed(f, a, n), n) = Total(Listed(f, b, n), n)
           T == {n \in Nat : Same(n)}
<1>1. 0 \in T
  BY TotalZero
<1>2. ASSUME NEW n \in Nat, n \in T
      PROVE  n + 1 \in T
  <2> SUFFICES ASSUME NEW U \in SUBSET S, NEW a \in Bijection(1 .. n + 1, U),
                      NEW b \in Bijection(1 .. n + 1, U)
               PROVE  Total(Listed(f, a, n + 1), n + 1) = Total(Listed(f, b, n + 1), n + 1)
    OBVIOUS
  <2>1. n + 1 \in 1 .. n + 1 /\ n + 1 \in Nat
    OBVIOUS
  <2>2. a \in [1 .. n + 1 -> U]
    BY <2>1, BijectionOf
  <2>3. \A x \in U : \E i \in 1 .. n + 1 : b[i] = x
    BY <2>1, BijectionOf
  <2>4. PICK k \in 1 .. n + 1 : b[k] = a[n + 1]
    BY <2>1, <2>2, <2>3
  <2> DEFINE c == Without(a, n, n + 1)
             d == Without(b, n, k)
  <2>5. /\ c \in Bijection(1 .. n, U \ {a[n + 1]})
        /\ d \in Bijection(1 .. n, U \ {a[n + 1]})
        /\ U \ {a[n + 1]} \in SUBSET S
    BY <2>1, <2>4, BijectionWithout
  <2>6. Total(Listed(f, c, n), n) = Total(Listed(f, d, n), n)
    <3> HIDE DEF c, d
    <3> QED
      BY <1>2, <2>5
  <2>7. \A x \in U : f[x] \in Int
    OBVIOUS
  <2>8. /\ Total(Listed(f, a, n + 1), n + 1) = Total(Listed(f, c, n), n) + f[a[n + 1]]
        /\ Total(Listed(f, b, n + 1), n + 1) = Total(Listed(f, d, n), n) + f[b[k]]
    BY <2>1, <2>7, TotalWithout
  <2> QED
    BY <2>4, <2>6, <2>8
<1> HIDE DEF T
<1>3. \A n \in Nat : n \in T
  BY <1>1, <1>2, NatSetInduction
<1> QED
  BY <1>3 DEF T

\* The recursion of the fold has a solution: the total of any list.
LEMMA SumsUpExists ==
  ASSUME NEW S, IsFiniteSet(S), NEW f, \A x \in S : f[x] \in Int
  PROVE  \E it : SumsUp(f, S, it)
<1> DEFINE Enum(s) == CHOOSE e : e \in Bijection(1 .. Cardinality(s), s)
           it == [s \in SUBSET S |-> Total(Listed(f, Enum(s), Cardinality(s)), Cardinality(s))]
<1>1. \A s \in SUBSET S : /\ IsFiniteSet(s) /\ Cardinality(s) \in Nat
                          /\ Enum(s) \in Bijection(1 .. Cardinality(s), s)
  <2> SUFFICES ASSUME NEW s \in SUBSET S
               PROVE  /\ IsFiniteSet(s) /\ Cardinality(s) \in Nat
                      /\ Enum(s) \in Bijection(1 .. Cardinality(s), s)
    OBVIOUS
  <2>1. IsFiniteSet(s)
    BY FS_Subset
  <2>2. Cardinality(s) \in Nat /\ ExistsBijection(1 .. Cardinality(s), s)
    BY <2>1, FS_CardinalityType
  <2>3. \E e : e \in Bijection(1 .. Cardinality(s), s)
    BY <2>2 DEF ExistsBijection
  <2> QED
    BY <2>1, <2>2, <2>3
<1> HIDE DEF Enum
<1>2. ASSUME NEW s \in SUBSET S
      PROVE  it[s] = IF s = {} THEN 0 ELSE f[Some(s)] + it[s \ {Some(s)}]
  <2>1. CASE s = {}
    <3>1. Cardinality(s) = 0
      BY <2>1, FS_EmptySet
    <3> QED
      BY <2>1, <3>1, TotalZero
  <2>2. CASE s # {}
    <3> DEFINE x == Some(s)
               r == s \ {x}
               n == Cardinality(r)
    <3>1. x \in s
      BY <2>2 DEF Some
    <3>2. r \in SUBSET S /\ \A y \in s : f[y] \in Int
      OBVIOUS
    <3> HIDE DEF x
    <3>3. n \in Nat /\ Cardinality(s) = n + 1
      BY <1>1, <3>1, FS_RemoveElement
    <3> HIDE DEF n
    <3>4. Enum(s) \in Bijection(1 .. n + 1, s)
      BY <1>1, <3>3
    <3>5. n + 1 \in Nat
      BY <3>3
    <3>6. \A y \in s : \E i \in 1 .. n + 1 : Enum(s)[i] = y
      BY <3>4, <3>5, BijectionOf
    <3>7. PICK k \in 1 .. n + 1 : Enum(s)[k] = x
      BY <3>1, <3>6
    <3> DEFINE w == Without(Enum(s), n, k)
    <3>8. w \in Bijection(1 .. n, r)
      BY <3>3, <3>4, <3>7, BijectionWithout
    <3>9. Enum(r) \in Bijection(1 .. n, r)
      BY <1>1, <3>2 DEF n
    <3>10. Total(Listed(f, w, n), n) = Total(Listed(f, Enum(r), n), n)
      <4> HIDE DEF w, r
      <4> QED
        BY <3>2, <3>3, <3>8, <3>9, TotalAnyOrder
    <3>11. Total(Listed(f, Enum(s), n + 1), n + 1) = Total(Listed(f, w, n), n) + f[x]
      BY <3>2, <3>3, <3>4, <3>7, TotalWithout
    <3>12. it[s] = Total(Listed(f, Enum(s), n + 1), n + 1)
      BY <3>3
    <3>13. it[r] = Total(Listed(f, Enum(r), n), n)
      BY <3>2 DEF n
    <3>14. \A i \in 1 .. n : Listed(f, Enum(r), n)[i] \in Int
      BY <3>2, <3>3, <3>9, BijectionOf DEF Listed
    <3>15. Total(Listed(f, Enum(r), n), n) \in Int /\ f[x] \in Int
      BY <3>1, <3>2, <3>3, <3>14, TotalInt
    <3>16. it[s] = it[r] + f[x] /\ it[r] \in Int
      BY <3>10, <3>11, <3>12, <3>13, <3>15
    <3> HIDE DEF it
    <3> QED
      BY <2>2, <3>15, <3>16 DEF x
  <2> QED
    BY <2>1, <2>2
<1>3. SumsUp(f, S, it)
  <2>1. it = [s \in SUBSET S |-> it[s]]
    OBVIOUS
  <2> HIDE DEF it
  <2> QED
    BY <1>2, <2>1 DEF SumsUp
<1> QED
  BY <1>3

\* Any solution of the recursion gives the total of every list.
LEMMA SumsUpTotal ==
  ASSUME NEW S, NEW f, \A x \in S : f[x] \in Int, NEW it, SumsUp(f, S, it)
  PROVE  \A n \in Nat : \A U \in SUBSET S : \A a \in Bijection(1 .. n, U) :
           it[U] = Total(Listed(f, a, n), n)
<1> DEFINE Sums(n) == \A U \in SUBSET S : \A a \in Bijection(1 .. n, U) :
                        it[U] = Total(Listed(f, a, n), n)
           T == {n \in Nat : Sums(n)}
<1>1. 0 \in T
  <2> SUFFICES ASSUME NEW U \in SUBSET S, NEW a \in Bijection(1 .. 0, U)
               PROVE  it[U] = Total(Listed(f, a, 0), 0)
    OBVIOUS
  <2>1. U = {}
    BY BijectionOf
  <2> QED
    BY <2>1, TotalZero DEF SumsUp
<1>2. ASSUME NEW n \in Nat, n \in T
      PROVE  n + 1 \in T
  <2> SUFFICES ASSUME NEW U \in SUBSET S, NEW a \in Bijection(1 .. n + 1, U)
               PROVE  it[U] = Total(Listed(f, a, n + 1), n + 1)
    OBVIOUS
  <2>1. n + 1 \in 1 .. n + 1 /\ n + 1 \in Nat
    OBVIOUS
  <2>2. a[n + 1] \in U /\ \A x \in U : \E i \in 1 .. n + 1 : a[i] = x
    BY <2>1, BijectionOf
  <2>3. Some(U) \in U
    BY <2>2 DEF Some
  <2>4. PICK k \in 1 .. n + 1 : a[k] = Some(U)
    BY <2>2, <2>3
  <2> DEFINE c == Without(a, n, k)
             R == U \ {Some(U)}
  <2>5. c \in Bijection(1 .. n, R) /\ R \in SUBSET S
    BY <2>4, BijectionWithout
  <2>6. it[R] = Total(Listed(f, c, n), n)
    <3> HIDE DEF c, R
    <3> QED
      BY <1>2, <2>5
  <2>7. it[U] = f[Some(U)] + it[R]
    BY <2>2 DEF SumsUp
  <2>8. Total(Listed(f, a, n + 1), n + 1) = Total(Listed(f, c, n), n) + f[a[k]]
    BY TotalWithout
  <2>9. \A i \in 1 .. n : Listed(f, c, n)[i] \in Int
    <3> HIDE DEF c
    <3> QED
      BY <2>5, BijectionOf DEF Listed
  <2>10. Total(Listed(f, c, n), n) \in Int
    BY <2>9, TotalInt
  <2> HIDE DEF c, R
  <2> QED
    BY <2>3, <2>4, <2>6, <2>7, <2>8, <2>10
<1> HIDE DEF T
<1>3. \A n \in Nat : n \in T
  BY <1>1, <1>2, NatSetInduction
<1> QED
  BY <1>3 DEF T

\* The sum over a set is the total of any list of its elements.
LEMMA SumOfList ==
  ASSUME NEW n \in Nat, NEW S, NEW a \in Bijection(1 .. n, S), NEW f, \A x \in S : f[x] \in Int
  PROVE  SumFunctionOnSet(f, S) = Total(Listed(f, a, n), n)
<1>1. IsFiniteSet(S)
  <2>1. ExistsBijection(1 .. n, S)
    BY DEF ExistsBijection
  <2> QED
    BY <2>1, FS_NatBijection
<1> DEFINE it == CHOOSE i : SumsUp(f, S, i)
<1>2. SumsUp(f, S, it)
  BY <1>1, SumsUpExists
<1>3. SumFunctionOnSet(f, S) = it[S]
  BY SumIs
<1> HIDE DEF it
<1> QED
  BY <1>2, <1>3, SumsUpTotal

\* A sum depends on the values over the set only.
LEMMA SumSame ==
  ASSUME NEW S, IsFiniteSet(S), NEW f, NEW g, \A x \in S : f[x] \in Int /\ g[x] = f[x]
  PROVE  SumFunctionOnSet(g, S) = SumFunctionOnSet(f, S)
<1>1. PICK n \in Nat : ExistsBijection(1 .. n, S)
  BY FS_CardinalityType
<1>2. PICK a : a \in Bijection(1 .. n, S)
  BY <1>1 DEF ExistsBijection
<1>3. SumFunctionOnSet(f, S) = Total(Listed(f, a, n), n)
  BY <1>2, SumOfList
<1>4. SumFunctionOnSet(g, S) = Total(Listed(g, a, n), n)
  BY <1>2, SumOfList
<1>5. Listed(g, a, n) = Listed(f, a, n)
  BY <1>2, BijectionOf DEF Listed
<1> QED
  BY <1>3, <1>4, <1>5

\* One element more.
LEMMA SumInsert ==
  ASSUME NEW S, IsFiniteSet(S), NEW y, y \notin S, NEW f, \A x \in S \cup {y} : f[x] \in Int
  PROVE  SumFunctionOnSet(f, S \cup {y}) = SumFunctionOnSet(f, S) + f[y]
<1>1. PICK n \in Nat : ExistsBijection(1 .. n, S)
  BY FS_CardinalityType
<1>2. PICK a : a \in Bijection(1 .. n, S)
  BY <1>1 DEF ExistsBijection
<1> DEFINE b == [i \in 1 .. n + 1 |-> IF i = n + 1 THEN y ELSE a[i]]
           U == S \cup {y}
<1>3. /\ a \in [1 .. n -> S]
      /\ \A i, j \in 1 .. n : a[i] = a[j] => i = j
      /\ \A x \in S : \E i \in 1 .. n : a[i] = x
  BY <1>2, BijectionOf
<1>4. /\ b[n + 1] = y /\ \A i \in 1 .. n : b[i] = a[i] /\ i \in 1 .. n + 1
      /\ \A i \in 1 .. n + 1 : i = n + 1 \/ i \in 1 .. n
      /\ n + 1 \in 1 .. n + 1
  OBVIOUS
<1>5. b = [i \in 1 .. n + 1 |-> b[i]]
  OBVIOUS
<1> HIDE DEF b
<1>6. b \in [1 .. n + 1 -> U]
  BY <1>3, <1>4, <1>5
<1>7. \A i, j \in 1 .. n + 1 : b[i] = b[j] => i = j
  BY <1>3, <1>4
<1>8. \A x \in U : \E i \in 1 .. n + 1 : b[i] = x
  BY <1>3, <1>4
<1>9. b \in Bijection(1 .. n + 1, U) /\ n + 1 \in Nat
  BY <1>6, <1>7, <1>8, BijectionOf
<1>10. SumFunctionOnSet(f, S) = Total(Listed(f, a, n), n)
  BY <1>2, SumOfList
<1>11. SumFunctionOnSet(f, U) = Total(Listed(f, b, n + 1), n + 1)
  BY <1>9, SumOfList
<1>12. \A i \in 1 .. n + 1 : Listed(f, b, n + 1)[i] \in Int
  BY <1>6 DEF Listed
<1>13. Total(Listed(f, b, n + 1), n + 1) = Total(Listed(f, b, n + 1), n) + f[y]
  <2>1. Listed(f, b, n + 1)[n + 1] = f[y]
    BY <1>4 DEF Listed
  <2> QED
    BY <1>12, <2>1, TotalNext
<1>14. \A i \in 1 .. n : Listed(f, a, n)[i] \in Int /\ Listed(f, b, n + 1)[i] = Listed(f, a, n)[i]
  BY <1>3, <1>4 DEF Listed
<1>15. Total(Listed(f, b, n + 1), n) = Total(Listed(f, a, n), n)
  BY <1>14, TotalSame
<1> QED
  BY <1>10, <1>11, <1>13, <1>15

\* A sum of integers is one, and nothing adds up to 0.
LEMMA SumInt ==
  ASSUME NEW S, IsFiniteSet(S), NEW f, \A x \in S : f[x] \in Int
  PROVE  SumFunctionOnSet(f, S) \in Int /\ (S = {} => SumFunctionOnSet(f, S) = 0)
<1>1. PICK n \in Nat : ExistsBijection(1 .. n, S)
  BY FS_CardinalityType
<1>2. PICK a : a \in Bijection(1 .. n, S)
  BY <1>1 DEF ExistsBijection
<1>3. SumFunctionOnSet(f, S) = Total(Listed(f, a, n), n)
  BY <1>2, SumOfList
<1>4. \A i \in 1 .. n : Listed(f, a, n)[i] \in Int
  BY <1>2, BijectionOf DEF Listed
<1>5. Total(Listed(f, a, n), n) \in Int
  BY <1>4, TotalInt
<1>6. ASSUME S = {} PROVE n = 0
  <2>1. a \in [1 .. n -> S]
    BY <1>2, BijectionOf
  <2>2. n > 0 => 1 \in 1 .. n
    OBVIOUS
  <2> QED
    BY <1>6, <2>1, <2>2
<1> QED
  BY <1>3, <1>5, <1>6, TotalZero

=============================================================================
