-------------------------- MODULE RefinementProofs --------------------------
(***************************************************************************)
(* The order book implements MatchingBook, for any ids, prices and         *)
(* quantities and any feed.                                                *)
(***************************************************************************)
EXTENDS SmartOrderBookProofs, BookRefinement

-----------------------------------------------------------------------------
(* Lists.                                                                  *)

\* Erasing one place keeps the order of the others.
LEMMA EraseAtPrecedes ==
  ASSUME NEW S, NEW list \in Seq(S), NEW k \in DOMAIN list, NEW x, NEW y,
         x # list[k], y # list[k]
  PROVE  Precedes(EraseAt(list, k), x, y) <=> Precedes(list, x, y)
<1> DEFINE n   == Len(list)
           new == EraseAt(list, k)
<1>1. /\ n \in Nat /\ k \in 1 .. n /\ DOMAIN list = 1 .. n
      /\ DOMAIN new = 1 .. n - 1
      /\ \A j \in 1 .. n - 1 : new[j] = IF j < k THEN list[j] ELSE list[j + 1]
  BY DEF EraseAt
<1> HIDE DEF n, new
<1>2. ASSUME Precedes(new, x, y) PROVE Precedes(list, x, y)
  <2>1. PICK i \in 1 .. n - 1, j \in 1 .. n - 1 : i < j /\ new[i] = x /\ new[j] = y
    BY <1>1, <1>2 DEF Precedes
  <2> DEFINE a == IF i < k THEN i ELSE i + 1
             b == IF j < k THEN j ELSE j + 1
  <2>2. a \in 1 .. n /\ b \in 1 .. n /\ a < b
    BY <1>1, <2>1
  <2>3. list[a] = x /\ list[b] = y
    BY <1>1, <2>1
  <2> HIDE DEF a, b
  <2> QED
    BY <1>1, <2>2, <2>3 DEF Precedes
<1>3. ASSUME Precedes(list, x, y) PROVE Precedes(new, x, y)
  <2>1. PICK i \in 1 .. n, j \in 1 .. n : i < j /\ list[i] = x /\ list[j] = y
    BY <1>1, <1>3 DEF Precedes
  <2>2. i # k /\ j # k
    BY <2>1
  <2> DEFINE a == IF i < k THEN i ELSE i - 1
             b == IF j < k THEN j ELSE j - 1
  <2>3. a \in 1 .. n - 1 /\ b \in 1 .. n - 1 /\ a < b
    BY <1>1, <2>1, <2>2
  <2>4. new[a] = x /\ new[b] = y
    <3>1. (IF a < k THEN a ELSE a + 1) = i /\ (IF b < k THEN b ELSE b + 1) = j
      BY <1>1, <2>1, <2>2
    <3> HIDE DEF a, b
    <3>2. new[a] = list[i]
      BY <1>1, <2>3, <3>1
    <3>3. new[b] = list[j]
      BY <1>1, <2>3, <3>1
    <3> QED
      BY <2>1, <3>2, <3>3
  <2> HIDE DEF a, b
  <2> QED
    BY <1>1, <2>3, <2>4 DEF Precedes
<1> QED
  BY <1>2, <1>3 DEF new

\* An order at the back is preceded by all the others and precedes none.
LEMMA AppendPrecedes ==
  ASSUME NEW S, NEW list \in Seq(S), NEW id \in S, NEW x, NEW y
  PROVE  Precedes(Append(list, id), x, y)
           <=> \/ Precedes(list, x, y)
               \/ y = id /\ \E i \in DOMAIN list : list[i] = x
<1> DEFINE n   == Len(list)
           new == Append(list, id)
<1>1. /\ n \in Nat /\ DOMAIN list = 1 .. n /\ DOMAIN new = 1 .. n + 1
      /\ \A i \in 1 .. n : new[i] = list[i]
      /\ new[n + 1] = id
  OBVIOUS
<1> HIDE DEF n, new
<1>2. ASSUME Precedes(new, x, y)
      PROVE  Precedes(list, x, y) \/ (y = id /\ \E i \in DOMAIN list : list[i] = x)
  <2>1. PICK i \in 1 .. n + 1, j \in 1 .. n + 1 : i < j /\ new[i] = x /\ new[j] = y
    BY <1>1, <1>2 DEF Precedes
  <2>2. i \in 1 .. n /\ list[i] = x
    BY <1>1, <2>1
  <2>3. CASE j \in 1 .. n
    BY <1>1, <2>1, <2>2, <2>3 DEF Precedes
  <2>4. CASE j = n + 1
    BY <1>1, <2>1, <2>2, <2>4
  <2> QED
    BY <1>1, <2>1, <2>3, <2>4
<1>3. ASSUME Precedes(list, x, y) PROVE Precedes(new, x, y)
  <2>1. PICK i \in 1 .. n, j \in 1 .. n : i < j /\ list[i] = x /\ list[j] = y
    BY <1>1, <1>3 DEF Precedes
  <2>2. i \in 1 .. n + 1 /\ j \in 1 .. n + 1
    BY <1>1
  <2> QED
    BY <1>1, <2>1, <2>2 DEF Precedes
<1>4. ASSUME y = id, NEW i \in DOMAIN list, list[i] = x PROVE Precedes(new, x, y)
  <2>1. i \in 1 .. n + 1 /\ n + 1 \in 1 .. n + 1 /\ i < n + 1
    BY <1>1, <1>4
  <2> QED
    BY <1>1, <1>4, <2>1 DEF Precedes
<1> QED
  BY <1>2, <1>3, <1>4 DEF new

-----------------------------------------------------------------------------
(* What the changes of a side look like from outside.                      *)

\* The side shows the same orders in the same order.
ShowsSame(s) == LiveOrders(s)' = LiveOrders(s) /\ LiveAhead(s)' = LiveAhead(s)

\* The orders of a side whose containers do not change.
LEMMA SameSide ==
  ASSUME NEW s, levels'[s] = levels[s], order_map'[s] = order_map[s]
  PROVE  ShowsSame(s)
BY DEF ShowsSame, LiveOrders, LiveAhead, Live

\* Both sides show the same: the abstract book does not change.
LEMMA Stutters ==
  ASSUME \A s \in BOOLEAN : ShowsSame(s)
  PROVE  UNCHANGED MB!bookVars
BY DEF ShowsSame, MB!bookVars

\* The containers do not change.
LEMMA StuttersSame ==
  ASSUME UNCHANGED <<levels, order_map>>
  PROVE  UNCHANGED MB!bookVars
BY SameSide, Stutters

-----------------------------------------------------------------------------
(* An order leaves.                                                        *)

\* Removing an order keeps the others, and who is ahead of whom among them.
LEMMA RemovePrecedes ==
  ASSUME NEW L, NEW M, SideOK(L, M), NEW id \in DOMAIN M, NEW x \in DOMAIN M \ {id},
         NEW y, y # id
  PROVE  Precedes(LevelsRemove(L, id, M[id])[M[x].price].orders, x, y)
           <=> Precedes(L[M[x].price].orders, x, y)
<1> DEFINE p    == M[id].price
           q    == M[x].price
           list == L[p].orders
           k    == CHOOSE i \in DOMAIN list : list[i] = id
           l    == LevelRemoveOrder(L[p], id, M[id])
           L2   == LevelsRemove(L, id, M[id])
<1>1. /\ p \in DOMAIN L /\ q \in DOMAIN L /\ list \in Seq(OrderId)
      /\ \E i \in DOMAIN list : list[i] = id
  BY DEF SideOK, SideConsistent, IsMap, L3PriceLevel
<1>2. k \in DOMAIN list /\ list[k] = id
  BY <1>1
<1>3. l.orders = EraseAt(list, k)
  BY DEF LevelRemoveOrder
<1>4. SideOK(L2, Erase(M, id))
  BY RemoveSideOK
<1>5. q \in DOMAIN L2
  <2>1. x \in DOMAIN Erase(M, id) /\ Erase(M, id)[x] = M[x]
    BY DEF Erase, Restrict
  <2> HIDE DEF L2
  <2> QED
    BY <1>4, <2>1 DEF SideOK, SideConsistent
<1> HIDE DEF k, l
<1>6. L2 = IF l.num_orders = 0 THEN Erase(L, p) ELSE [L EXCEPT ![p] = l]
  BY DEF LevelsRemove, l
<1> HIDE DEF L2
<1>7. CASE q # p
  <2>1. L2[q] = L[q]
    BY <1>1, <1>5, <1>6, <1>7 DEF Erase, Restrict
  <2> QED
    BY <2>1 DEF L2
<1>8. CASE q = p
  <2>1. L2[q].orders = EraseAt(list, k)
    <3>1. l.num_orders # 0
      BY <1>5, <1>6, <1>8 DEF Erase, Restrict
    <3> QED
      BY <1>1, <1>3, <1>6, <1>8, <3>1
  <2>2. Precedes(EraseAt(list, k), x, y) <=> Precedes(list, x, y)
    BY <1>1, <1>2, EraseAtPrecedes
  <2> QED
    BY <1>8, <2>1, <2>2 DEF L2
<1> QED
  BY <1>7, <1>8

\* What removeOrder looks like from outside: the order is gone, nothing else
\* has changed.
LEMMA RemoveShows ==
  ASSUME TypeOK, BookConsistent, NoSpentOrders, NEW s \in BOOLEAN,
         NEW id \in DOMAIN order_map[s], removeOrder(s, id)
  PROVE  /\ LiveOrders(s)' = Erase(LiveOrders(s), id)
         /\ LiveAhead(s)' = {w \in LiveAhead(s) : w[1] # id /\ w[2] # id}
         /\ \A t \in BOOLEAN : t # s => ShowsSame(t)
<1> DEFINE L == levels[s]
           M == order_map[s]
<1>1. /\ levels' = [levels EXCEPT ![s] = LevelsRemove(@, id, order_map[s][id])]
      /\ order_map' = [order_map EXCEPT ![s] = Erase(@, id)]
  BY DEF removeOrder, existOrder
<1>2. /\ levels'[s] = LevelsRemove(L, id, M[id]) /\ order_map'[s] = Erase(M, id)
      /\ \A t \in BOOLEAN : t # s => levels'[t] = levels[t] /\ order_map'[t] = order_map[t]
  BY <1>1 DEF TypeOK
<1>3. SideOK(L, M)
  BY SidesOK
<1>4. /\ DOMAIN order_map'[s] = DOMAIN M \ {id}
      /\ \A x \in DOMAIN M \ {id} : order_map'[s][x] = M[x]
  BY <1>2 DEF Erase, Restrict
<1>5. Live(s)' = Live(s) \ {id}
  BY <1>4 DEF Live
<1>6. LiveOrders(s)' = Erase(LiveOrders(s), id)
  <2>1. LiveOrders(s)' = [x \in Live(s) \ {id} |-> [price    |-> M[x].price,
                                                   quantity |-> Remaining(M[x])]]
    BY <1>4, <1>5 DEF LiveOrders, Live
  <2>2. Erase(LiveOrders(s), id) = [x \in Live(s) \ {id} |-> LiveOrders(s)[x]]
    BY DEF Erase, Restrict, LiveOrders
  <2> QED
    BY <2>1, <2>2 DEF LiveOrders
<1>7. LiveAhead(s)' = {w \in LiveAhead(s) : w[1] # id /\ w[2] # id}
  <2>1. ASSUME NEW x \in DOMAIN M \ {id}, NEW y \in DOMAIN M \ {id}
        PROVE  Precedes(levels'[s][M[x].price].orders, x, y)
                 <=> Precedes(L[M[x].price].orders, x, y)
    BY <1>2, <1>3, RemovePrecedes
  <2>2. Live(s) \subseteq DOMAIN M
    BY DEF Live
  <2>3. LiveAhead(s)' =
          {w \in (Live(s) \ {id}) \X (Live(s) \ {id}) :
             /\ order_map'[s][w[1]].price = order_map'[s][w[2]].price
             /\ Precedes(levels'[s][order_map'[s][w[1]].price].orders, w[1], w[2])}
    BY <1>5 DEF LiveAhead
  <2>4. \A w \in (Live(s) \ {id}) \X (Live(s) \ {id}) :
          /\ w[1] \in DOMAIN M \ {id} /\ w[2] \in DOMAIN M \ {id}
          /\ order_map'[s][w[1]] = M[w[1]] /\ order_map'[s][w[2]] = M[w[2]]
    BY <1>4, <2>2
  <2> HIDE DEF M, L
  <2>5. LiveAhead(s)' =
          {w \in (Live(s) \ {id}) \X (Live(s) \ {id}) :
             /\ M[w[1]].price = M[w[2]].price
             /\ Precedes(L[M[w[1]].price].orders, w[1], w[2])}
    BY <2>1, <2>3, <2>4
  <2> QED
    BY <2>5 DEF LiveAhead, M, L
<1>8. \A t \in BOOLEAN : t # s => ShowsSame(t)
  BY <1>2, SameSide
<1> QED
  BY <1>6, <1>7, <1>8

\* removeOrder is a Leaves of the abstract book if the order has something
\* left, and not visible if it is spent.
LEMMA RemoveRefines ==
  ASSUME TypeOK, BookConsistent, NoSpentOrders, NEW s \in BOOLEAN, NEW id, removeOrder(s, id)
  PROVE  [MB!MBNext]_(MB!bookVars)
<1>1. CASE id \notin DOMAIN order_map[s]
  <2>1. UNCHANGED <<levels, order_map>>
    BY <1>1 DEF removeOrder, existOrder
  <2> QED
    BY <2>1, StuttersSame
<1>2. CASE id \in DOMAIN order_map[s]
  <2>1. /\ LiveOrders(s)' = Erase(LiveOrders(s), id)
        /\ LiveAhead(s)' = {w \in LiveAhead(s) : w[1] # id /\ w[2] # id}
        /\ \A t \in BOOLEAN : t # s => ShowsSame(t)
    BY <1>2, RemoveShows
  <2>2. DOMAIN LiveOrders(s) = Live(s)
    BY DEF LiveOrders
  <2>3. CASE id \notin Live(s)
    <3>1. Erase(LiveOrders(s), id) = LiveOrders(s)
      BY <2>2, <2>3 DEF Erase, Restrict, LiveOrders
    <3>2. {w \in LiveAhead(s) : w[1] # id /\ w[2] # id} = LiveAhead(s)
      BY <2>3 DEF LiveAhead
    <3>3. \A t \in BOOLEAN : ShowsSame(t)
      BY <2>1, <3>1, <3>2 DEF ShowsSame
    <3> QED
      BY <3>3, Stutters
  <2>4. CASE id \in Live(s)
    <3>1. MB!Leaves(s, id)
      BY <2>1 DEF MB!Leaves, MB!Without, MB!Erase, MB!Restrict, Erase, Restrict, ShowsSame
    <3>2. id \in DOMAIN ([t \in BOOLEAN |-> LiveOrders(t)][s])
      BY <2>2, <2>4
    <3> QED
      BY <3>1, <3>2 DEF MB!MBNext
  <2> QED
    BY <2>3, <2>4
<1> QED
  BY <1>1, <1>2

-----------------------------------------------------------------------------
(* An order rests.                                                         *)

\* The quantity of the order or trade being handled is that of its message.
QtyInv == act.quantity \in 0 .. MaxQty

\* No step but a message changes the quantity of what is being handled.
LEMMA QtyStep == IInv /\ QtyInv /\ [Next]_vars => QtyInv'
<1> SUFFICES ASSUME IInv, QtyInv, [Next]_vars PROVE QtyInv'
  OBVIOUS
<1>1. act \in Action
  BY DEF IInv, TypeOK
<1>2. \A qty : OrderFilled(act, qty).quantity = act.quantity
  BY <1>1 DEF OrderFilled, Action
<1>3. MaxQty \in Nat
  BY LevelAssumption
<1>4. CASE UNCHANGED act
  BY <1>4 DEF QtyInv
<1>5. CASE Return
  BY <1>3, <1>5 DEF Return, Idle, QtyInv
<1>6. CASE MatchPendingLiqAdd \/ Fill \/ TradeMatch
  BY <1>2, <1>6 DEF MatchPendingLiqAdd, Fill, TradeMatch, QtyInv
<1>7. CASE TradeRest
  BY <1>1, <1>7 DEF TradeRest, Action, QtyInv
<1>8. CASE Receive
  <2>1. ASSUME NEW m \in OrderMessage,
               \/ processOrderAddMessage(m) \/ processOrderCancelMessage(m)
               \/ processOrderModifyMessage(m)
        PROVE  QtyInv'
    <3>1. UNCHANGED act \/ act'.quantity = m.quantity
      <4>1. CASE processOrderAddMessage(m)
        BY <4>1 DEF processOrderAddMessage, Activate
      <4>2. CASE processOrderCancelMessage(m)
        BY <4>2 DEF processOrderCancelMessage
      <4>3. CASE processOrderModifyMessage(m)
        <5>1. UNCHANGED act \/ Activate("MODIFY", m)
          BY <4>3 DEF processOrderModifyMessage
        <5> QED
          BY <5>1 DEF Activate
      <4> QED
        BY <2>1, <4>1, <4>2, <4>3
    <3> QED
      BY <1>3, <1>4, <3>1 DEF QtyInv, OrderMessage
  <2>2. ASSUME NEW m \in TradeMessage, processTradeMessage(m)
        PROVE  QtyInv'
    <3>1. act'.quantity = m.quantity
      BY <2>2 DEF processTradeMessage, Activate
    <3> QED
      BY <1>3, <3>1 DEF QtyInv, TradeMessage
  <2> QED
    BY <1>8, <2>1, <2>2 DEF Receive
<1>9. CASE UNCHANGED vars
  BY <1>4, <1>9 DEF vars
<1> QED
  BY <1>4, <1>5, <1>6, <1>7, <1>8, <1>9 DEF Next, HandlerStep, MatchPendingLiqAddDone, Uncross,
     FillDone, RemoveFilled, RemoveFilledDone, RestOrder, Sweep, SweepDone

\* Adding an order puts it behind those at its price and changes no other.
LEMMA AddPrecedes ==
  ASSUME NEW L, NEW M, SideOK(L, M), NEW id \in OrderId, id \notin DOMAIN M,
         NEW o \in Order, NEW x \in DOMAIN M, NEW y
  PROVE  Precedes(LevelsAdd(L, id, o)[M[x].price].orders, x, y)
           <=> \/ Precedes(L[M[x].price].orders, x, y)
               \/ y = id /\ M[x].price = o.price
<1> DEFINE q    == M[x].price
           list == L[q].orders
           L2   == LevelsAdd(L, id, o)
<1>1. /\ q \in DOMAIN L /\ list \in Seq(OrderId)
      /\ \E i \in DOMAIN list : list[i] = x
  BY DEF SideOK, SideConsistent, IsMap, L3PriceLevel
<1>2. CASE q # o.price
  <2>1. L2[q] = L[q]
    BY <1>1, <1>2 DEF LevelsAdd, Put
  <2> QED
    BY <1>2, <2>1
<1>3. CASE q = o.price
  <2>1. L2[q].orders = Append(list, id)
    BY <1>1, <1>3 DEF LevelsAdd, Put, LevelAddOrder
  <2> HIDE DEF L2
  <2>2. Precedes(Append(list, id), x, y)
          <=> \/ Precedes(list, x, y)
              \/ y = id /\ \E i \in DOMAIN list : list[i] = x
    BY <1>1, AppendPrecedes
  <2> QED
    BY <1>1, <1>3, <2>1, <2>2 DEF L2
<1> QED
  BY <1>2, <1>3

\* The order that was added is ahead of none.
LEMMA AddedLast ==
  ASSUME NEW L, NEW M, SideOK(L, M), NEW id \in OrderId, id \notin DOMAIN M,
         NEW o \in Order, NEW y
  PROVE  ~Precedes(LevelsAdd(L, id, o)[o.price].orders, id, y)
<1> DEFINE l    == IF o.price \in DOMAIN L THEN L[o.price] ELSE EmptyLevel
           list == l.orders
<1>1. LevelsAdd(L, id, o)[o.price].orders = Append(list, id)
  BY DEF LevelsAdd, Put, LevelAddOrder
<1>2. list \in Seq(OrderId) /\ \A i \in DOMAIN list : list[i] # id
  <2>1. CASE o.price \in DOMAIN L
    BY <2>1 DEF SideOK, SideConsistent, IsMap, L3PriceLevel
  <2>2. CASE o.price \notin DOMAIN L
    BY <2>2 DEF EmptyLevel
  <2> QED
    BY <2>1, <2>2
<1> HIDE DEF list
<1>3. ~Precedes(list, id, y)
  BY <1>2 DEF Precedes
<1> QED
  BY <1>1, <1>2, <1>3, AppendPrecedes

\* What addOrder of a new id looks like from outside.
LEMMA AddShows ==
  ASSUME TypeOK, BookConsistent, NoSpentOrders, NEW s \in BOOLEAN,
         NEW id \in OrderId, id \notin DOMAIN order_map[s],
         NEW o \in Order, Remaining(o) > 0, addOrder(s, id, o)
  PROVE  /\ LiveOrders(s)' = Put(LiveOrders(s), id, [price    |-> o.price,
                                                    quantity |-> Remaining(o)])
         /\ LiveAhead(s)' = LiveAhead(s) \cup
              {<<x, id>> : x \in {y \in Live(s) : LiveOrders(s)[y].price = o.price}}
         /\ \A t \in BOOLEAN : t # s => ShowsSame(t)
<1> DEFINE L == levels[s]
           M == order_map[s]
<1>1. /\ levels' = [levels EXCEPT ![s] = LevelsAdd(@, id, o)]
      /\ order_map' = [order_map EXCEPT ![s] = Put(@, id, o)]
  BY DEF addOrder, existOrder
<1>2. /\ levels'[s] = LevelsAdd(L, id, o) /\ order_map'[s] = Put(M, id, o)
      /\ \A t \in BOOLEAN : t # s => levels'[t] = levels[t] /\ order_map'[t] = order_map[t]
  BY <1>1 DEF TypeOK
<1>3. SideOK(L, M)
  BY SidesOK
<1>4. /\ DOMAIN order_map'[s] = DOMAIN M \cup {id} /\ order_map'[s][id] = o
      /\ \A x \in DOMAIN M : order_map'[s][x] = M[x]
  BY <1>2 DEF Put
<1>5. Live(s)' = Live(s) \cup {id}
  BY <1>4 DEF Live
<1>6. LiveOrders(s)' = Put(LiveOrders(s), id, [price    |-> o.price,
                                              quantity |-> Remaining(o)])
  <2>1. LiveOrders(s)' = [x \in Live(s) \cup {id} |->
                            [price    |-> order_map'[s][x].price,
                             quantity |-> Remaining(order_map'[s][x])]]
    BY <1>5 DEF LiveOrders
  <2>2. \A x \in Live(s) : x # id /\ order_map'[s][x] = M[x]
    BY <1>4 DEF Live
  <2>3. DOMAIN LiveOrders(s) = Live(s)
        /\ \A x \in Live(s) : LiveOrders(s)[x] = [price    |-> M[x].price,
                                                  quantity |-> Remaining(M[x])]
    BY DEF LiveOrders
  <2> QED
    BY <1>4, <2>1, <2>2, <2>3 DEF Put
<1>7. LiveAhead(s)' = LiveAhead(s) \cup
        {<<x, id>> : x \in {y \in Live(s) : LiveOrders(s)[y].price = o.price}}
  <2>1. Live(s) \subseteq DOMAIN M /\ id \notin Live(s)
    BY DEF Live
  <2>2. \A x, y \in Live(s) \cup {id} :
          <<x, y>> \in LiveAhead(s)'
            <=> /\ order_map'[s][x].price = order_map'[s][y].price
                /\ Precedes(levels'[s][order_map'[s][x].price].orders, x, y)
    BY <1>5 DEF LiveAhead
  <2>3. \A x, y \in Live(s) :
          <<x, y>> \in LiveAhead(s)
            <=> M[x].price = M[y].price /\ Precedes(L[M[x].price].orders, x, y)
    BY DEF LiveAhead
  <2>4. \A x \in Live(s) : LiveOrders(s)[x].price = M[x].price
    BY DEF LiveOrders
  <2>5. ASSUME NEW x \in Live(s), NEW y \in Live(s)
        PROVE  <<x, y>> \in LiveAhead(s)' <=> <<x, y>> \in LiveAhead(s)
    <3>1. Precedes(levels'[s][M[x].price].orders, x, y)
            <=> Precedes(L[M[x].price].orders, x, y)
      BY <1>2, <1>3, <2>1, AddPrecedes
    <3> QED
      BY <1>4, <2>1, <2>2, <2>3, <3>1
  <2>6. ASSUME NEW x \in Live(s)
        PROVE  <<x, id>> \in LiveAhead(s)' <=> M[x].price = o.price
    <3>1. M[x].price = o.price => Precedes(levels'[s][M[x].price].orders, x, id)
      BY <1>2, <1>3, <2>1, AddPrecedes
    <3> QED
      BY <1>4, <2>1, <2>2, <3>1
  <2>7. ASSUME NEW y \in Live(s) \cup {id}
        PROVE  <<id, y>> \notin LiveAhead(s)'
    <3>1. ~Precedes(levels'[s][o.price].orders, id, y)
      BY <1>2, <1>3, AddedLast
    <3> QED
      BY <1>4, <2>2, <3>1
  <2>8. /\ LiveAhead(s)' \subseteq (Live(s) \cup {id}) \X (Live(s) \cup {id})
        /\ LiveAhead(s) \subseteq Live(s) \X Live(s)
    BY <1>5 DEF LiveAhead
  <2> DEFINE A == LiveAhead(s)'
             B == LiveAhead(s)
             C == {<<x, id>> : x \in {y \in Live(s) : LiveOrders(s)[y].price = o.price}}
  <2>9. ASSUME NEW w \in A PROVE w \in B \cup C
    <3>1. PICK x \in Live(s) \cup {id}, y \in Live(s) \cup {id} : w = <<x, y>>
      BY <2>8
    <3>2. x \in Live(s)
      BY <2>7, <2>9, <3>1
    <3>3. CASE y \in Live(s)
      BY <2>5, <2>9, <3>1, <3>2, <3>3
    <3>4. CASE y = id
      BY <2>4, <2>6, <2>9, <3>1, <3>2, <3>4
    <3> QED
      BY <3>1, <3>3, <3>4
  <2>10. ASSUME NEW w \in B PROVE w \in A
    <3>1. PICK x \in Live(s), y \in Live(s) : w = <<x, y>>
      BY <2>8
    <3> QED
      BY <2>5, <2>10, <3>1
  <2>11. ASSUME NEW w \in C PROVE w \in A
    BY <2>4, <2>6
  <2> QED
    BY <2>9, <2>10, <2>11
<1>8. \A t \in BOOLEAN : t # s => ShowsSame(t)
  BY <1>2, SameSide
<1> QED
  BY <1>6, <1>7, <1>8

\* addOrder of a new id that crosses nothing is a Rests of the abstract book.
LEMMA AddRefines ==
  ASSUME TypeOK, BookConsistent, NoSpentOrders, NEW s \in BOOLEAN,
         NEW id \in OrderId, id \notin DOMAIN order_map[s],
         NEW o \in Order, Remaining(o) \in 1 .. MaxQty, addOrder(s, id, o),
         \A p \in DOMAIN levels[~s] : Before(~s, o.price, p)
  PROVE  [MB!MBNext]_(MB!bookVars)
<1>1. (~s) \in BOOLEAN /\ o.price \in Price /\ Remaining(o) > 0
  BY LevelAssumption DEF Order
<1>2. /\ LiveOrders(s)' = Put(LiveOrders(s), id, [price    |-> o.price,
                                                 quantity |-> Remaining(o)])
      /\ LiveAhead(s)' = LiveAhead(s) \cup
           {<<x, id>> : x \in {y \in Live(s) : LiveOrders(s)[y].price = o.price}}
      /\ \A t \in BOOLEAN : t # s => ShowsSame(t)
  BY <1>1, AddShows
<1>3. \A x \in Live(~s) : Before(~s, o.price, LiveOrders(~s)[x].price)
  BY <1>1 DEF LiveOrders, Live, BookConsistent, SideConsistent
<1>4. /\ DOMAIN LiveOrders(s) = Live(s) /\ DOMAIN LiveOrders(~s) = Live(~s)
      /\ id \notin Live(s)
  BY DEF LiveOrders, Live
<1> DEFINE O == [t \in BOOLEAN |-> LiveOrders(t)]
<1>5. O[s] = LiveOrders(s) /\ O[~s] = LiveOrders(~s)
  BY <1>1
<1>6. MB!Rests(s, id, o.price, Remaining(o))
  <2>1. id \notin DOMAIN O[s]
    BY <1>4, <1>5
  <2>2. \A x \in DOMAIN O[~s] : MB!Before(~s, o.price, O[~s][x].price)
    BY <1>3, <1>4, <1>5 DEF Before, MB!Before
  <2>3. O' = [O EXCEPT ![s] = MB!Put(@, id, [price    |-> o.price,
                                            quantity |-> Remaining(o)])]
    BY <1>2 DEF MB!Put, Put, ShowsSame
  <2>4. [t \in BOOLEAN |-> LiveAhead(t)]' =
          [[t \in BOOLEAN |-> LiveAhead(t)] EXCEPT ![s] = @ \cup
             {<<x, id>> : x \in {y \in DOMAIN O[s] : O[s][y].price = o.price}}]
    BY <1>2, <1>4, <1>5 DEF ShowsSame
  <2> QED
    BY <2>1, <2>2, <2>3, <2>4 DEF MB!Rests
<1> QED
  BY <1>1, <1>6 DEF MB!MBNext

\* What remains of an order rests, and it crosses nothing on the other side.
LEMMA RestRefines == IInv /\ QtyInv /\ RestOrder => [MB!MBNext]_(MB!bookVars)
<1> SUFFICES ASSUME IInv, QtyInv, RestOrder PROVE [MB!MBNext]_(MB!bookVars)
  OBVIOUS
<1> USE DEF IInv
<1>1. CASE Remaining(act) = 0
  BY <1>1, StuttersSame DEF RestOrder
<1>2. CASE Remaining(act) # 0 /\ act.odid \in DOMAIN order_map[act.is_sell]
  BY <1>2, StuttersSame DEF RestOrder, addOrder, existOrder
<1>3. CASE Remaining(act) # 0 /\ act.odid \notin DOMAIN order_map[act.is_sell]
  <2> DEFINE o == [quantity |-> act.quantity, price |-> act.price,
                   filled_quantity |-> act.filled_quantity]
  <2>1. addOrder(act.is_sell, act.odid, o) /\ ~CanUncross /\ pc = "uncross"
    BY <1>3 DEF RestOrder
  <2>2. /\ act \in Action /\ Remaining(act) \in Nat /\ act.odid \in OrderId
        /\ act.price \in Price /\ act.price \in Int
    BY <2>1, ActNat, LevelAssumption DEF Action, ActInv
  <2>3. act.is_sell \in BOOLEAN /\ (~act.is_sell) \in BOOLEAN
    BY <2>2 DEF Action
  <2>4. o \in Order /\ o.price = act.price /\ Remaining(o) = Remaining(act)
    BY <2>2 DEF Order, Action, Remaining
  <2>5. Remaining(act) \in 1 .. MaxQty
    BY <1>3, <2>2, LevelAssumption DEF QtyInv, Remaining, Action
  <2> HIDE DEF o
  <2>6. \A p \in DOMAIN levels[~act.is_sell] : Before(~act.is_sell, act.price, p)
    <3> SUFFICES ASSUME NEW p \in DOMAIN levels[~act.is_sell]
                 PROVE  Before(~act.is_sell, act.price, p)
      OBVIOUS
    <3>1. p \in Int
      BY <2>3, LevelAssumption DEF TypeOK, IsMap
    <3>2. ~(IF ~act.is_sell THEN act.price >= p ELSE p >= act.price)
      BY <2>1, <2>5 DEF CanUncross, bookCrossedWithPrice
    <3> QED
      BY <2>2, <3>1, <3>2 DEF Before
  <2> QED
    BY <1>3, <2>1, <2>2, <2>3, <2>4, <2>5, <2>6, AddRefines
<1> QED
  BY <1>1, <1>2, <1>3

-----------------------------------------------------------------------------
(* An order is executed.                                                   *)

\* A fill of one order that is first, with something left: what it looks like
\* from outside is an Executes of the abstract book.
LEMMA FillRefines == IInv /\ Fill => [MB!MBNext]_(MB!bookVars)
<1> SUFFICES ASSUME IInv, Fill PROVE [MB!MBNext]_(MB!bookVars)
  OBVIOUS
<1> USE DEF IInv
<1>1. PICK s \in BOOLEAN : s = side
  BY DEF TypeOK
<1>2. PICK c : c = cur
  OBVIOUS
<1>3. PICK id : id = levels[side][cur].orders[iter]
  OBVIOUS
<1>4. PICK qty : qty = MinOf(Remaining(act), Remaining(order_map[side][id]))
  OBVIOUS
<1> DEFINE list == levels[s][c].orders
           M    == order_map[s]
<1>5. /\ pc = "fill" /\ iter <= Len(list) /\ Remaining(act) > 0 /\ id = list[iter]
      /\ levels' = [levels EXCEPT ![s][c] = LevelFillOrder(@, qty)]
      /\ order_map' = [order_map EXCEPT ![s][id] = OrderFilled(@, qty)]
  BY <1>1, <1>2, <1>3, <1>4 DEF Fill
<1>6. /\ c \in DOMAIN levels[s] /\ \A q \in DOMAIN levels[s] : ~Before(s, q, c)
      /\ \A i \in 1 .. iter - 1 : Remaining(M[list[i]]) = 0
  BY <1>1, <1>2, <1>5 DEF WalkInv, IsBegin
<1>7. list \in Seq(OrderId) /\ iter \in DOMAIN list /\ iter \in Nat
  BY <1>5, <1>6 DEF TypeOK, IsMap, L3PriceLevel
<1>8. /\ \A i, j \in DOMAIN list : list[i] = list[j] => i = j
      /\ \A i \in DOMAIN list : list[i] \in DOMAIN M /\ M[list[i]].price = c
  BY <1>6 DEF BookConsistent, SideConsistent
<1>9. id \in DOMAIN M /\ M[id].price = c /\ SideOK(levels[s], M)
  BY <1>5, <1>7, <1>8, SidesOK
<1>10. /\ Remaining(act) \in Nat /\ Remaining(M[id]) \in Nat /\ M[id] \in Order
  BY <1>9, ActNat DEF SideOK, IsMap, Order, Remaining
<1>11. /\ qty \in Nat /\ qty <= Remaining(M[id]) /\ (Remaining(M[id]) > 0 => qty > 0)
  BY <1>1, <1>4, <1>5, <1>10 DEF MinOf
<1> HIDE DEF list
<1> DEFINE L  == levels[s]
           L2 == [L EXCEPT ![c] = LevelFillOrder(@, qty)]
           M2 == [M EXCEPT ![id] = OrderFilled(@, qty)]
<1>12. /\ SideOK(L2, M2) /\ DOMAIN L2 = DOMAIN L
       /\ \A q \in DOMAIN L : L2[q].orders = L[q].orders
       /\ DOMAIN M2 = DOMAIN M
       /\ \A x \in DOMAIN M : x # id => M2[x] = M[x]
       /\ M2[id] = OrderFilled(M[id], qty)
  <2>1. SideOK(L, M) /\ c \in DOMAIN L /\ id \in DOMAIN M /\ qty \in Nat /\ qty <= Remaining(M[id])
    BY <1>6, <1>9, <1>11
  <2> QED
    BY <2>1, FillSideOK
<1>13. /\ levels'[s] = L2 /\ order_map'[s] = M2
       /\ \A t \in BOOLEAN : t # s => levels'[t] = levels[t] /\ order_map'[t] = order_map[t]
  BY <1>5 DEF TypeOK
<1> HIDE DEF L2, M2
<1>14. /\ Remaining(M2[id]) = Remaining(M[id]) - qty
       /\ \A x \in DOMAIN M : M2[x].price = M[x].price
  <2>1. /\ M2[id].price = M[id].price /\ M2[id].quantity = M[id].quantity
        /\ M2[id].filled_quantity = M[id].filled_quantity + qty
    BY <1>10, <1>12 DEF OrderFilled, Order
  <2>2. M[id].quantity \in Nat /\ M[id].filled_quantity \in Nat
    BY <1>10 DEF Order
  <2>3. Remaining(M2[id]) = Remaining(M[id]) - qty
    BY <1>11, <2>1, <2>2 DEF Remaining
  <2> QED
    BY <1>12, <2>1, <2>3
<1>15. \A t \in BOOLEAN : t # s => ShowsSame(t)
  BY <1>13, SameSide
<1>16. Live(s)' = IF qty = Remaining(M[id]) THEN Live(s) \ {id} ELSE Live(s)
  <2>1. Live(s)' = {x \in DOMAIN M : Remaining(M2[x]) > 0}
    BY <1>12, <1>13 DEF Live
  <2>2. Remaining(M2[id]) > 0 <=> qty # Remaining(M[id])
    BY <1>10, <1>11, <1>14
  <2>3. qty # Remaining(M[id]) => Remaining(M[id]) > 0
    BY <1>10, <1>11
  <2> QED
    BY <1>9, <1>12, <2>1, <2>2, <2>3 DEF Live
<1>17. \A x \in DOMAIN M : levels'[s][M[x].price].orders = levels[s][M[x].price].orders
  BY <1>9, <1>12, <1>13 DEF SideOK, SideConsistent
\* Who is ahead of whom does not change among those that are left.
<1>18. LiveAhead(s)' = {w \in LiveAhead(s) : w[1] \in Live(s)' /\ w[2] \in Live(s)'}
  <2>1. Live(s)' \subseteq Live(s) /\ Live(s) \subseteq DOMAIN M
    BY <1>16 DEF Live
  <2>2. LiveAhead(s)' =
          {w \in Live(s)' \X Live(s)' :
             /\ M2[w[1]].price = M2[w[2]].price
             /\ Precedes(levels'[s][M2[w[1]].price].orders, w[1], w[2])}
    BY <1>13 DEF LiveAhead
  <2>3. \A w \in Live(s)' \X Live(s)' :
          /\ M2[w[1]].price = M[w[1]].price /\ M2[w[2]].price = M[w[2]].price
          /\ levels'[s][M[w[1]].price].orders = levels[s][M[w[1]].price].orders
    BY <1>14, <1>17, <2>1
  <2>4. LiveAhead(s)' =
          {w \in Live(s)' \X Live(s)' :
             /\ M[w[1]].price = M[w[2]].price
             /\ Precedes(levels[s][M[w[1]].price].orders, w[1], w[2])}
    BY <2>2, <2>3
  <2> QED
    BY <2>1, <2>4 DEF LiveAhead
<1>19. LiveOrders(s)' = [x \in Live(s)' |-> [price |-> M[x].price, quantity |-> Remaining(M2[x])]]
  BY <1>12, <1>13, <1>14, <1>16 DEF LiveOrders, Live
<1>20. CASE Remaining(M[id]) = 0
  <2>1. qty = 0 /\ id \notin Live(s)
    BY <1>10, <1>11, <1>20 DEF Live
  <2>2. Live(s)' = Live(s)
    BY <1>16, <2>1
  <2>3. \A x \in Live(s) : Remaining(M2[x]) = Remaining(M[x])
    BY <1>12, <2>1 DEF Live
  <2>4. LiveOrders(s)' = LiveOrders(s)
    BY <1>19, <2>2, <2>3 DEF LiveOrders
  <2>5. LiveAhead(s)' = LiveAhead(s)
    BY <1>18, <2>2 DEF LiveAhead
  <2> QED
    BY <1>15, <2>4, <2>5, Stutters DEF ShowsSame
<1>21. CASE Remaining(M[id]) # 0
  <2> DEFINE O == [t \in BOOLEAN |-> LiveOrders(t)]
             A == [t \in BOOLEAN |-> LiveAhead(t)]
  <2>1. id \in Live(s) /\ qty \in 1 .. Remaining(M[id])
    BY <1>9, <1>10, <1>11, <1>21 DEF Live
  <2>2. /\ DOMAIN LiveOrders(s) = Live(s)
        /\ \A x \in Live(s) : LiveOrders(s)[x] = [price    |-> M[x].price,
                                                  quantity |-> Remaining(M[x])]
    BY DEF LiveOrders
  <2>3. O[s] = LiveOrders(s) /\ A[s] = LiveAhead(s)
    OBVIOUS
  \* No live order is at a better price or at an earlier place of the list.
  <2>4. MB!First(s, id)
    <3> SUFFICES ASSUME NEW x \in Live(s)
                 PROVE  /\ ~Before(s, M[x].price, M[id].price)
                        /\ <<x, id>> \notin LiveAhead(s)
      BY <2>1, <2>2, <2>3 DEF MB!First, MB!Before, Before
    <3>1. x \in DOMAIN M /\ Remaining(M[x]) > 0
      BY DEF Live
    <3>2. ~Before(s, M[x].price, M[id].price)
      BY <1>6, <1>9, <3>1 DEF SideOK, SideConsistent
    <3>3. ASSUME <<x, id>> \in LiveAhead(s) PROVE FALSE
      <4>1. M[x].price = c /\ Precedes(list, x, id)
        BY <1>9, <3>3 DEF LiveAhead, list
      <4>2. PICK i \in DOMAIN list, j \in DOMAIN list : i < j /\ list[i] = x /\ list[j] = id
        BY <4>1 DEF Precedes
      <4>3. j = iter
        BY <1>5, <1>7, <1>8, <4>2
      <4>4. i \in 1 .. iter - 1
        BY <1>7, <4>2, <4>3
      <4> QED
        BY <1>6, <3>1, <4>2, <4>4
    <3> QED
      BY <3>2, <3>3
  <2>5. CASE qty = Remaining(M[id])
    <3>1. Live(s)' = Live(s) \ {id}
      BY <1>16, <2>5
    <3>2. LiveOrders(s)' = Erase(LiveOrders(s), id)
      BY <1>12, <1>19, <2>2, <3>1 DEF Erase, Restrict, Live
    <3>3. LiveAhead(s)' = {w \in LiveAhead(s) : w[1] # id /\ w[2] # id}
      BY <1>18, <3>1 DEF LiveAhead
    <3>4. MB!Leaves(s, id)
      BY <1>15, <3>2, <3>3 DEF MB!Leaves, MB!Without, MB!Erase, MB!Restrict, Erase, Restrict,
         ShowsSame
    <3>5. qty = O[s][id].quantity
      BY <2>1, <2>2, <2>3, <2>5
    <3>6. MB!Executes(s, id, qty)
      BY <2>4, <3>4, <3>5 DEF MB!Executes
    <3> QED
      BY <2>1, <2>2, <2>3, <3>5, <3>6 DEF MB!MBNext
  <2>6. CASE qty # Remaining(M[id])
    <3>1. Live(s)' = Live(s)
      BY <1>16, <2>6
    <3>2. LiveAhead(s)' = LiveAhead(s)
      BY <1>18, <3>1 DEF LiveAhead
    <3>3. LiveOrders(s)' = [LiveOrders(s) EXCEPT ![id].quantity = @ - qty]
      <4> DEFINE F == [LiveOrders(s) EXCEPT ![id].quantity = @ - qty]
      <4>1. /\ DOMAIN F = Live(s)
            /\ F[id] = [price |-> M[id].price, quantity |-> Remaining(M[id]) - qty]
            /\ \A x \in Live(s) : x # id => F[x] = LiveOrders(s)[x]
        BY <2>1, <2>2
      <4>2. \A x \in Live(s) : F[x] = [price |-> M[x].price, quantity |-> Remaining(M2[x])]
        BY <1>12, <1>14, <2>2, <4>1 DEF Live
      <4>3. F = [x \in Live(s) |-> F[x]]
        BY <4>1
      <4> HIDE DEF F
      <4>4. F = LiveOrders(s)'
        BY <1>19, <3>1, <4>2, <4>3
      <4> QED
        BY <4>4 DEF F
    <3>4. O' = [O EXCEPT ![s][id].quantity = @ - qty]
      BY <1>15, <3>3 DEF ShowsSame
    <3>5. A' = A
      BY <1>15, <3>2 DEF ShowsSame
    <3>6. O[s][id].quantity = Remaining(M[id])
      BY <2>1, <2>2, <2>3
    <3>7. MB!Executes(s, id, qty)
      BY <2>4, <2>6, <3>4, <3>5, <3>6 DEF MB!Executes
    <3> QED
      BY <2>1, <2>2, <2>3, <3>6, <3>7 DEF MB!MBNext
  <2> QED
    BY <2>5, <2>6
<1> QED
  BY <1>20, <1>21

-----------------------------------------------------------------------------
(* The theorem.                                                            *)

\* A cancel and a modify remove one order at most.
LEMMA CancelRefines ==
  ASSUME IInv, NEW m \in OrderMessage,
         processOrderCancelMessage(m) \/ processOrderModifyMessage(m)
  PROVE  [MB!MBNext]_(MB!bookVars)
<1>1. UNCHANGED <<levels, order_map>> \/ removeOrder(m.is_sell, m.odid)
  BY DEF processOrderCancelMessage, processOrderModifyMessage, processOrderCancel, sideVars
<1> QED
  BY <1>1, MessageOK, StuttersSame, RemoveRefines DEF IInv

\* Every step of the book is a step of the abstract book or leaves it alone.
LEMMA StepRefines == IInv /\ QtyInv /\ [Next]_vars => [MB!MBNext]_(MB!bookVars)
<1> SUFFICES ASSUME IInv, QtyInv, [Next]_vars PROVE [MB!MBNext]_(MB!bookVars)
  OBVIOUS
<1>1. CASE UNCHANGED <<levels, order_map>>
  BY <1>1, StuttersSame
<1>2. CASE RemoveFilled
  BY <1>2, RemoveRefines DEF RemoveFilled, IInv, TypeOK
<1>3. CASE Sweep
  BY <1>3, RemoveRefines DEF Sweep, IInv, TypeOK
<1>4. CASE Receive
  BY <1>1, <1>4, CancelRefines DEF Receive, processOrderAddMessage, processTradeMessage,
     sideVars
<1>5. CASE HandlerStep
  BY <1>1, <1>2, <1>3, <1>5, RestRefines, FillRefines DEF HandlerStep, MatchPendingLiqAdd,
     MatchPendingLiqAddDone, Uncross, FillDone, RemoveFilledDone, TradeMatch, SweepDone,
     TradeRest, Return, sideVars
<1>6. CASE UNCHANGED vars
  BY <1>1, <1>6 DEF vars, sideVars
<1> QED
  BY <1>4, <1>5, <1>6 DEF Next

\* The empty book is the empty abstract book.
LEMMA InitRefines == Init => MB!MBInit /\ QtyInv
<1> SUFFICES ASSUME Init PROVE MB!MBInit /\ QtyInv
  OBVIOUS
<1>1. \A s \in BOOLEAN : order_map[s] = EmptyMap
  BY DEF Init
<1>2. \A s \in BOOLEAN : Live(s) = {}
  BY <1>1 DEF Live, EmptyMap
<1>3. \A s \in BOOLEAN : LiveOrders(s) = MB!EmptyMap /\ LiveAhead(s) = {}
  BY <1>2 DEF LiveOrders, LiveAhead, MB!EmptyMap
<1>4. QtyInv
  BY LevelAssumption DEF Init, Idle, QtyInv
<1> QED
  BY <1>3, <1>4 DEF MB!MBInit

\* The detailed book implements the matching book under every feed: no message
\* makes it rest a crossing order, execute one that is not first in price-time
\* priority, or change two orders at once.
THEOREM Implements == Spec => IsMatchingBook
<1>1. Spec => []QtyInv
  BY InitRefines, Invariance, QtyStep, PTL DEF Spec
<1> QED
  BY <1>1, InitRefines, Invariance, StepRefines, PTL DEF Spec, IsMatchingBook, MB!MBSpec

=============================================================================
