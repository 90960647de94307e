--------------------------- MODULE SnapshotProofs ---------------------------
(***************************************************************************)
(* Proofs about Snapshot: the book's invariants survive snapshots, and     *)
(* what processL2Snapshot collects it can apply, for any ids, prices and   *)
(* quantities, any number of messages and snapshots of any size.           *)
(***************************************************************************)
EXTENDS SmartOrderBookProofs, Snapshot, FiniteSetTheorems, SequenceTheorems

-----------------------------------------------------------------------------
(* The inductive invariant.                                                *)

\* What GuessesApplicable says of the collected orders from place n on.
GuessesOK(n) ==
  \A i \in n .. Len(pending_orders) :
    /\ existOrder(side, pending_orders[i].odid)
    /\ pending_orders[i].quantity > 0
    /\ pending_orders[i].quantity <= Remaining(order_map[side][pending_orders[i].odid])
    /\ \A j \in n .. Len(pending_orders) :
         pending_orders[i].odid = pending_orders[j].odid => i = j

\* The price of the i-th order collected.
GuessPrice(i) == order_map[side][pending_orders[i].odid].price

\* A side of the snapshot is finite and has a price once.
ViewsInv ==
  \A s \in BOOLEAN : /\ IsFiniteSet(snapshot[s])
                     /\ Cardinality(snapshot[s]) <= MaxLevels
                     /\ \A k, l \in snapshot[s] : k.price = l.price => k = l

\* The loop over the snapshot: orders are collected at prices it has visited,
\* and each level visited uses one id at most.
CompareInv ==
  spc \in {"compare", "front"} =>
    /\ todo \subseteq snapshot[side]
    /\ fake_order_id >= FirstFakeId
    /\ fake_order_id + Cardinality(todo) <= FirstFakeId + MaxLevels
    /\ GuessesOK(1)
    /\ \A i \in DOMAIN pending_orders : /\ GuessPrice(i) \in PricesOf(snapshot[side])
                                        /\ GuessPrice(i) \notin PricesOf(todo)

\* The walk over a level that has too much: what it collected of this level is
\* at the places it has passed.
FrontInv ==
  spc = "front" =>
    /\ cur \in DOMAIN levels[side]
    /\ cur \in PricesOf(snapshot[side])
    /\ cur \notin PricesOf(todo)
    /\ \A i \in DOMAIN pending_orders :
         GuessPrice(i) = cur =>
           \E j \in DOMAIN levels[side][cur].orders :
             j < iter /\ levels[side][cur].orders[j] = pending_orders[i].odid

\* The loop over the levels the snapshot does not have.
CollectInv ==
  spc = "collect" =>
    /\ todo \subseteq L2View(levels[side])
    /\ GuessesOK(1)
    /\ \A i \in DOMAIN pending_orders : GuessPrice(i) \notin PricesOf(todo)

SnapInv ==
  /\ IInv
  /\ SnapTypeOK
  /\ ViewsInv
  /\ CompareInv
  /\ FrontInv
  /\ CollectInv
  /\ GuessesApplicable

-----------------------------------------------------------------------------
(* The book's invariant across a step of the handler.                      *)

\* Between two messages IInv is about the members alone.
LEMMA IdleIInv ==
  ASSUME IInv, pc = "idle", UNCHANGED <<pc, act>>, TypeOK', BookConsistent',
         \A s \in BOOLEAN : \A id \in DOMAIN order_map'[s] : Remaining(order_map'[s][id]) > 0
  PROVE  IInv'
<1>1. NoSpentOrders'
  BY DEF NoSpentOrders
<1>2. ActInv'
  BY DEF IInv, ActInv
<1>3. WalkInv' /\ TradeInv' /\ GuessOnlyWhenExhausted'
  BY DEF WalkInv, TradeInv, GuessOnlyWhenExhausted
<1> QED
  BY <1>1, <1>2, <1>3 DEF IInv

\* Between two messages no order is spent.
LEMMA IdleUnspent ==
  ASSUME IInv, pc = "idle"
  PROVE  \A s \in BOOLEAN : \A id \in DOMAIN order_map[s] : Remaining(order_map[s][id]) > 0
BY DEF IInv, NoSpentOrders

\* A step of the handler that leaves the orders alone.
LEMMA IdleSame ==
  ASSUME IInv, pc = "idle", UNCHANGED <<pc, act, levels, order_map>>, TypeOK'
  PROVE  IInv'
<1>1. BookConsistent'
  BY SameOrders
<1>2. \A s \in BOOLEAN : \A id \in DOMAIN order_map'[s] : Remaining(order_map'[s][id]) > 0
  BY IdleUnspent
<1> QED
  BY <1>1, <1>2, IdleIInv

\* A step that changes none of the book's state.
LEMMA SameVars ==
  ASSUME IInv, UNCHANGED vars
  PROVE  IInv'
BY NextIInv

\* The levels collected so far do not change when only other state does.
LEMMA SameGuesses ==
  ASSUME UNCHANGED <<side, order_map, pending_orders>>, NEW n
  PROVE  GuessesOK(n) => GuessesOK(n)'
BY DEF GuessesOK, existOrder

-----------------------------------------------------------------------------
(* The call, and what a side makes of the snapshot.                        *)

\* The locals of the handler are empty and the book is.
LEMMA SnapInitInv == SnapInit => SnapInv
<1> SUFFICES ASSUME SnapInit PROVE SnapInv
  OBVIOUS
<1> USE DEF SnapInit
<1>1. IInv
  BY InitIInv
<1>2. SnapTypeOK
  <2>1. TypeOK /\ pc = "idle"
    BY <1>1 DEF IInv, Init
  <2>2. pending_orders \in Seq(Guess)
    OBVIOUS
  <2> QED
    BY <2>1, <2>2 DEF SnapTypeOK, NoSnapshot, FirstFakeId
<1>3. ViewsInv
  BY FS_EmptySet, SnapshotAssumption DEF ViewsInv, NoSnapshot
<1>4. CompareInv /\ FrontInv /\ CollectInv /\ GuessesApplicable
  BY DEF CompareInv, FrontInv, CollectInv, GuessesApplicable
<1> QED
  BY <1>1, <1>2, <1>3, <1>4 DEF SnapInv

\* The message is stored and the bid side is next.
LEMMA processSnapshotMessageStep ==
  ASSUME SnapInv, NEW m \in SnapshotMessage(1 .. MaxQty), processSnapshotMessage(m)
  PROVE  SnapInv'
<1> USE DEF SnapInv
<1>1. /\ pc = "idle" /\ spc' = "side" /\ snapshot' = m /\ side' = FALSE /\ events' = << >>
      /\ UNCHANGED <<sideVars, pc, act, cur, iter, orders_to_remove, todo, qty_to_remove,
                     pending_orders, fake_order_id, ids_before>>
  BY DEF processSnapshotMessage
<1>2. TypeOK'
  <2>1. TypeOK /\ side' \in BOOLEAN
    BY <1>1 DEF SnapTypeOK
  <2>2. events' \in Seq(Info)
    BY <1>1
  <2> QED
    BY <1>1, <2>1, <2>2 DEF TypeOK, sideVars
<1>3. IInv'
  BY <1>1, <1>2, IdleSame DEF sideVars
<1>4. ViewsInv'
  BY <1>1 DEF ViewsInv, SnapshotMessage, L2SnapshotSide
<1>5. /\ DOMAIN snapshot' = BOOLEAN
      /\ \A s \in BOOLEAN : snapshot'[s] \in SUBSET [price : Price, quantity : Nat]
  <2>1. 1 .. MaxQty \subseteq Nat
    BY LevelAssumption
  <2>2. [price : Price, quantity : 1 .. MaxQty] \subseteq [price : Price, quantity : Nat]
    BY <2>1
  <2>3. m \in [BOOLEAN -> L2SnapshotSide(1 .. MaxQty)]
    BY DEF SnapshotMessage
  <2>4. \A s \in BOOLEAN : m[s] \in SUBSET [price : Price, quantity : 1 .. MaxQty]
    BY <2>3 DEF L2SnapshotSide
  <2> QED
    BY <1>1, <2>2, <2>3, <2>4
<1>6. SnapTypeOK'
  BY <1>1, <1>2, <1>5 DEF SnapTypeOK
<1>7. CompareInv' /\ FrontInv' /\ CollectInv' /\ GuessesApplicable'
  BY <1>1 DEF CompareInv, FrontInv, CollectInv, GuessesApplicable
<1> QED
  BY <1>3, <1>4, <1>6, <1>7

\* The view that was expected leaves the queue.
LEMMA SnapQueuedStep == SnapInv /\ SnapQueued => SnapInv'
<1> SUFFICES ASSUME SnapInv, SnapQueued PROVE SnapInv'
  OBVIOUS
<1> USE DEF SnapInv
<1>1. /\ spc = "side" /\ spc' = "next" /\ l2_snap_queue[side] # << >>
      /\ UNCHANGED <<levels, order_map, pending_liq_remove_qty, pending_liq_add_qty, pc, act,
                     loopVars, events, snapLocals>>
  BY DEF SnapQueued
<1>2. pc = "idle" /\ TypeOK /\ side \in BOOLEAN
  BY <1>1 DEF SnapTypeOK, TypeOK
<1>3. /\ DOMAIN l2_snap_queue' = BOOLEAN
      /\ \A s \in BOOLEAN : l2_snap_queue'[s] \in Seq(SUBSET L2PriceLevel)
  <2>1. Tail(l2_snap_queue[side]) \in Seq(SUBSET L2PriceLevel)
    BY <1>1, <1>2 DEF TypeOK
  <2> QED
    BY <1>2, <2>1 DEF SnapQueued, TypeOK
<1>4. TypeOK'
  BY <1>1, <1>2, <1>3 DEF TypeOK, loopVars
<1>5. IInv'
  BY <1>1, <1>2, <1>4, IdleSame
<1>6. SnapTypeOK' /\ ViewsInv'
  BY <1>1, <1>4 DEF SnapTypeOK, ViewsInv, snapLocals
<1>7. CompareInv' /\ FrontInv' /\ CollectInv' /\ GuessesApplicable'
  BY <1>1 DEF CompareInv, FrontInv, CollectInv, GuessesApplicable
<1> QED
  BY <1>5, <1>6, <1>7

\* The side expects no view: all the levels of the snapshot are to be visited.
LEMMA SnapLeadsStep == SnapInv /\ SnapLeads => SnapInv'
<1> SUFFICES ASSUME SnapInv, SnapLeads PROVE SnapInv'
  OBVIOUS
<1> USE DEF SnapInv
<1>1. /\ spc = "side" /\ spc' = "compare" /\ todo' = snapshot[side]
      /\ pending_orders' = << >> /\ fake_order_id' = FirstFakeId
      /\ ids_before' = DOMAIN order_map[side]
      /\ UNCHANGED <<vars, snapshot, qty_to_remove>>
  BY DEF SnapLeads
<1>2. IInv' /\ TypeOK' /\ side \in BOOLEAN
  BY <1>1, SameVars DEF IInv, TypeOK
<1>3. UNCHANGED <<pc, side, order_map>>
  BY <1>1 DEF vars, sideVars, loopVars
<1>4. SnapTypeOK'
  <2>1. snapshot[side] \in SUBSET L2PriceLevel
    BY <1>2 DEF SnapTypeOK, L2PriceLevel
  <2>2. pending_orders' \in Seq(Guess)
    BY <1>1
  <2>3. ids_before' \subseteq OrderId
    BY <1>1, <1>2 DEF IInv, TypeOK, IsMap
  <2> QED
    BY <1>1, <1>2, <1>3, <2>1, <2>2, <2>3 DEF SnapTypeOK, FirstFakeId
<1>5. ViewsInv'
  BY <1>1 DEF ViewsInv
<1>6. CompareInv'
  <2>1. Len(pending_orders') = 0 /\ DOMAIN pending_orders' = {}
    BY <1>1
  <2>2. GuessesOK(1)'
    BY <2>1 DEF GuessesOK
  <2>3. Cardinality(todo') <= MaxLevels /\ Cardinality(todo') \in Nat
    BY <1>1, <1>2, FS_CardinalityType DEF ViewsInv
  <2>4. todo' \subseteq snapshot'[side']
    BY <1>1, <1>3
  <2>5. fake_order_id' + Cardinality(todo') <= FirstFakeId + MaxLevels
        /\ fake_order_id' >= FirstFakeId
    BY <1>1, <2>3, SnapshotAssumption DEF FirstFakeId
  <2> QED
    BY <2>1, <2>2, <2>4, <2>5 DEF CompareInv
<1>7. FrontInv' /\ CollectInv' /\ GuessesApplicable'
  BY <1>1 DEF FrontInv, CollectInv, GuessesApplicable
<1> QED
  BY <1>2, <1>4, <1>5, <1>6, <1>7

-----------------------------------------------------------------------------
(* The levels of the snapshot.                                             *)

\* Taking one level off the levels to visit: it is no longer there, and the
\* others still are.
LEMMA VisitLevel ==
  ASSUME SnapInv, spc = "compare", NEW l \in todo, todo' = todo \ {l}
  PROVE  /\ l.price \in Price /\ l.quantity \in Nat
         /\ l.price \in PricesOf(snapshot[side])
         /\ todo' \subseteq snapshot[side] /\ todo' \in SUBSET L2PriceLevel
         /\ PricesOf(todo') \subseteq PricesOf(todo) /\ l.price \notin PricesOf(todo')
         /\ l.price \in PricesOf(todo)
         /\ Cardinality(todo') + 1 = Cardinality(todo) /\ Cardinality(todo') \in Nat
<1> USE DEF SnapInv
<1>1. side \in BOOLEAN /\ todo \subseteq snapshot[side] /\ todo \in SUBSET L2PriceLevel
  BY DEF CompareInv, SnapTypeOK, TypeOK
<1>2. l \in snapshot[side] /\ l \in [price : Price, quantity : Nat]
  BY <1>1 DEF SnapTypeOK
<1>3. IsFiniteSet(todo)
  BY <1>1, FS_Subset DEF ViewsInv
<1>4. Cardinality(todo') = Cardinality(todo) - 1 /\ Cardinality(todo) \in Nat
      /\ Cardinality(todo') \in Nat
  BY <1>3, FS_RemoveElement, FS_CardinalityType
<1>5. l.price \notin PricesOf(todo')
  BY <1>1, <1>2 DEF ViewsInv, PricesOf
<1>6. /\ PricesOf(todo') \subseteq PricesOf(todo) /\ l.price \in PricesOf(todo)
      /\ l.price \in PricesOf(snapshot[side])
  BY <1>2 DEF PricesOf
<1>7. Cardinality(todo') + 1 = Cardinality(todo)
  BY <1>4
<1>8. l.price \in Price /\ l.quantity \in Nat
  BY <1>2
<1>9. todo' \subseteq snapshot[side] /\ todo' \in SUBSET L2PriceLevel
  BY <1>1
<1> QED
  BY <1>4, <1>5, <1>6, <1>7, <1>8, <1>9

\* QtyAt is an integer: the cached quantity of a level, or 0.
LEMMA QtyAtInt ==
  ASSUME TypeOK, NEW p
  PROVE  QtyAt(p) \in Int
BY DEF TypeOK, QtyAt, IsMap, L3PriceLevel

\* The book has more at a level: its list is walked.
LEMMA CompareLessStep ==
  ASSUME SnapInv, CompareLevel, NEW l \in todo, todo' = todo \ {l}, CompareLess(l)
  PROVE  SnapInv'
<1> USE DEF SnapInv
<1>1. /\ spc = "compare" /\ l.quantity < QtyAt(l.price) /\ spc' = "front" /\ cur' = l.price
      /\ iter' = 1 /\ qty_to_remove' = QtyAt(l.price) - l.quantity
      /\ UNCHANGED <<sideVars, events, fake_order_id>>
      /\ UNCHANGED <<pc, act, side, orders_to_remove, snapshot, pending_orders, ids_before>>
  BY DEF CompareLevel, CompareLess
<1>2. /\ l.price \in Price /\ l.quantity \in Nat
      /\ l.price \in PricesOf(snapshot[side])
      /\ todo' \subseteq snapshot[side] /\ todo' \in SUBSET L2PriceLevel
      /\ PricesOf(todo') \subseteq PricesOf(todo) /\ l.price \notin PricesOf(todo')
      /\ l.price \in PricesOf(todo)
      /\ Cardinality(todo') + 1 = Cardinality(todo) /\ Cardinality(todo') \in Nat
  BY <1>1, VisitLevel
<1>3. TypeOK /\ pc = "idle" /\ QtyAt(l.price) \in Int
  BY <1>1, QtyAtInt DEF SnapTypeOK
<1>4. TypeOK'
  BY <1>1, <1>2, <1>3 DEF TypeOK, sideVars
<1>5. IInv'
  BY <1>1, <1>3, <1>4, IdleSame DEF sideVars
<1>6. SnapTypeOK' /\ ViewsInv'
  <2>1. qty_to_remove' \in Nat
    BY <1>1, <1>2, <1>3
  <2> QED
    BY <1>1, <1>2, <1>4, <2>1 DEF SnapTypeOK, ViewsInv
<1>7. l.price \in DOMAIN levels[side]
  BY <1>1, <1>2 DEF QtyAt
<1>8. CompareInv'
  <2>1. GuessesOK(1)'
    BY <1>1, SameGuesses DEF CompareInv, sideVars
  <2>2. fake_order_id \in Int
    BY DEF SnapTypeOK
  <2>3. fake_order_id' + Cardinality(todo') <= FirstFakeId + MaxLevels
    BY <1>1, <1>2, <2>2, SnapshotAssumption DEF CompareInv, FirstFakeId
  <2>4. \A i \in DOMAIN pending_orders' : /\ GuessPrice(i)' \in PricesOf(snapshot[side])
                                          /\ GuessPrice(i)' \notin PricesOf(todo')
    BY <1>1, <1>2 DEF CompareInv, GuessPrice, sideVars
  <2> QED
    BY <1>1, <1>2, <2>1, <2>3, <2>4 DEF CompareInv
<1>9. FrontInv'
  BY <1>1, <1>2, <1>7 DEF FrontInv, CompareInv, GuessPrice, sideVars
<1>10. CollectInv' /\ GuessesApplicable'
  BY <1>1 DEF CollectInv, GuessesApplicable
<1> QED
  BY <1>5, <1>6, <1>8, <1>9, <1>10

\* There is an id left for the order that is guessed for a level, and for each
\* level after it.
LEMMA FakeIdLeft ==
  ASSUME SnapInv, spc = "compare", NEW l \in todo, todo' = todo \ {l}
  PROVE  /\ fake_order_id \in OrderId /\ fake_order_id \in Int
         /\ fake_order_id + 1 + Cardinality(todo') <= FirstFakeId + MaxLevels
         /\ fake_order_id + 1 >= FirstFakeId
<1>1. fake_order_id \in Int
  BY DEF SnapInv, SnapTypeOK
<1>2. fake_order_id >= FirstFakeId /\ fake_order_id + Cardinality(todo) <= FirstFakeId + MaxLevels
  BY DEF SnapInv, CompareInv
<1>3. Cardinality(todo') + 1 = Cardinality(todo) /\ Cardinality(todo') \in Nat
  BY VisitLevel
<1>4. fake_order_id \in FirstFakeId .. (FirstFakeId + MaxLevels - 1)
  BY <1>1, <1>2, <1>3, SnapshotAssumption DEF FirstFakeId
<1>5. Cardinality(todo') \in Int /\ Cardinality(todo) \in Int /\ MaxLevels \in Int
  BY <1>3, SnapshotAssumption
<1> QED
  BY <1>1, <1>2, <1>3, <1>4, <1>5, SnapshotAssumption DEF FirstFakeId

\* The order guessed for what the book has less is new or dropped: what was
\* collected is still there.
LEMMA CompareMoreStep ==
  ASSUME SnapInv, CompareLevel, NEW l \in todo, todo' = todo \ {l}, CompareMore(l)
  PROVE  SnapInv'
<1> USE DEF SnapInv
<1> DEFINE qty == l.quantity - QtyAt(l.price)
           o   == [quantity |-> qty, price |-> l.price, filled_quantity |-> 0]
<1>1. /\ spc = "compare" /\ l.quantity > QtyAt(l.price) /\ spc' = spc
      /\ events' = Append(events, OrderInfo("ADD", NoId, side, qty, l.price))
      /\ pending_liq_add_qty' = [pending_liq_add_qty EXCEPT
           ![side] = Increase(@, l.price, qty)]
      /\ addOrder(side, fake_order_id, o)
      /\ fake_order_id' = fake_order_id + 1
      /\ UNCHANGED <<pending_liq_remove_qty, l2_snap_queue, cur, iter, qty_to_remove>>
      /\ UNCHANGED <<pc, act, side, orders_to_remove, snapshot, pending_orders, ids_before>>
  BY DEF CompareLevel, CompareMore, NextFakeId
<1>2. /\ l.price \in Price /\ l.quantity \in Nat
      /\ l.price \in PricesOf(snapshot[side])
      /\ todo' \subseteq snapshot[side] /\ todo' \in SUBSET L2PriceLevel
      /\ PricesOf(todo') \subseteq PricesOf(todo) /\ l.price \notin PricesOf(todo')
      /\ l.price \in PricesOf(todo)
      /\ Cardinality(todo') + 1 = Cardinality(todo) /\ Cardinality(todo') \in Nat
  BY <1>1, VisitLevel
<1>3. TypeOK /\ pc = "idle" /\ QtyAt(l.price) \in Int
  BY <1>1, QtyAtInt DEF SnapTypeOK
<1>4. side \in BOOLEAN
  BY <1>3 DEF TypeOK
<1>5. qty \in Nat /\ qty > 0
  BY <1>1, <1>2, <1>3
<1> HIDE DEF qty
<1>6. o \in Order /\ o.filled_quantity <= o.quantity /\ Remaining(o) = qty
  BY <1>2, <1>5 DEF Order, Remaining
<1>7. /\ fake_order_id \in OrderId
      /\ fake_order_id' + Cardinality(todo') <= FirstFakeId + MaxLevels
      /\ fake_order_id' >= FirstFakeId /\ fake_order_id' \in Int
  <2>1. /\ fake_order_id \in OrderId /\ fake_order_id \in Int
        /\ fake_order_id + 1 + Cardinality(todo') <= FirstFakeId + MaxLevels
        /\ fake_order_id + 1 >= FirstFakeId
    BY <1>1, FakeIdLeft
  <2>2. fake_order_id' = fake_order_id + 1
    BY <1>1
  <2> QED
    BY <2>1, <2>2
<1> HIDE DEF o
<1>8. /\ DOMAIN levels' = BOOLEAN /\ DOMAIN order_map' = BOOLEAN
      /\ \A t \in BOOLEAN : SideOK(levels'[t], order_map'[t])
      /\ \A t \in BOOLEAN : t # side => levels'[t] = levels[t] /\ order_map'[t] = order_map[t]
      /\ \A x \in DOMAIN order_map'[side] :
           \/ x \in DOMAIN order_map[side] /\ order_map'[side][x] = order_map[side][x]
           \/ x \notin DOMAIN order_map[side] /\ order_map'[side][x] = o
  BY <1>1, <1>4, <1>6, <1>7, AddOrderStep DEF IInv
<1>9. \A x \in DOMAIN order_map[side] : /\ x \in DOMAIN order_map'[side]
                                       /\ order_map'[side][x] = order_map[side][x]
  <2>1. DOMAIN order_map = BOOLEAN
    BY <1>3 DEF TypeOK
  <2> QED
    BY <1>1, <1>4, <2>1 DEF addOrder, existOrder, Put
<1>10. /\ BookConsistent'
       /\ \A s \in BOOLEAN : /\ IsMap(levels'[s], Price, L3PriceLevel)
                             /\ IsMap(order_map'[s], OrderId, Order)
  BY <1>8, BookFromSides
<1>11. events' \in Seq(Info)
  <2>1. OrderInfo("ADD", NoId, side, qty, l.price) \in Info
    BY <1>2, <1>4, <1>5 DEF OrderInfo, Info
  <2>2. events \in Seq(Info)
    BY <1>3 DEF TypeOK
  <2> QED
    BY <1>1, <2>1, <2>2
<1>12. /\ DOMAIN pending_liq_add_qty' = BOOLEAN
       /\ \A s \in BOOLEAN : IsMap(pending_liq_add_qty'[s], Price, Nat)
  <2>1. IsMap(Increase(pending_liq_add_qty[side], l.price, qty), Price, Nat)
    BY <1>2, <1>3, <1>4, <1>5, IncreaseOK DEF TypeOK
  <2> QED
    BY <1>1, <1>3, <1>4, <2>1 DEF TypeOK
<1>13. TypeOK'
  BY <1>1, <1>3, <1>8, <1>10, <1>11, <1>12 DEF TypeOK
<1>14. IInv'
  <2>1. \A s \in BOOLEAN : \A id \in DOMAIN order_map[s] : Remaining(order_map[s][id]) > 0
    BY <1>3, IdleUnspent
  <2>2. \A s \in BOOLEAN : \A id \in DOMAIN order_map'[s] : Remaining(order_map'[s][id]) > 0
    BY <1>4, <1>5, <1>6, <1>8, <2>1
  <2> QED
    BY <1>1, <1>3, <1>10, <1>13, <2>2, IdleIInv
<1>15. SnapTypeOK' /\ ViewsInv'
  BY <1>1, <1>2, <1>7, <1>13 DEF SnapTypeOK, ViewsInv
<1>16. CompareInv'
  <2>1. GuessesOK(1)
    BY <1>1 DEF CompareInv
  <2>2. \A i \in 1 .. Len(pending_orders) : pending_orders[i].odid \in DOMAIN order_map[side]
    BY <2>1 DEF GuessesOK, existOrder
  <2>3. GuessesOK(1)'
    BY <1>1, <1>9, <2>1, <2>2 DEF GuessesOK, existOrder
  <2>4. \A i \in DOMAIN pending_orders : GuessPrice(i)' = GuessPrice(i)
    <3>1. DOMAIN pending_orders = 1 .. Len(pending_orders)
      BY DEF SnapTypeOK
    <3> QED
      BY <1>1, <1>9, <2>2, <3>1 DEF GuessPrice
  <2>5. \A i \in DOMAIN pending_orders' : /\ GuessPrice(i)' \in PricesOf(snapshot[side])
                                          /\ GuessPrice(i)' \notin PricesOf(todo')
    BY <1>1, <1>2, <2>4 DEF CompareInv
  <2> QED
    BY <1>1, <1>2, <1>7, <2>3, <2>5 DEF CompareInv
<1>17. FrontInv' /\ CollectInv' /\ GuessesApplicable'
  BY <1>1 DEF FrontInv, CollectInv, GuessesApplicable
<1> QED
  BY <1>14, <1>15, <1>16, <1>17

\* The level is as the snapshot has it: the next one is looked at.
LEMMA CompareEqualStep ==
  ASSUME SnapInv, CompareLevel, NEW l \in todo, todo' = todo \ {l}, CompareEqual(l)
  PROVE  SnapInv'
<1> USE DEF SnapInv
<1>1. /\ spc = "compare"
      /\ UNCHANGED <<sideVars, events, spc, cur, iter, qty_to_remove, fake_order_id>>
      /\ UNCHANGED <<pc, act, side, orders_to_remove, snapshot, pending_orders, ids_before>>
  BY DEF CompareLevel, CompareEqual
<1>2. /\ todo' \subseteq snapshot[side] /\ todo' \in SUBSET L2PriceLevel
      /\ PricesOf(todo') \subseteq PricesOf(todo)
      /\ Cardinality(todo') + 1 = Cardinality(todo) /\ Cardinality(todo') \in Nat
  BY <1>1, VisitLevel
<1>3. IInv' /\ TypeOK'
  BY <1>1, SameVars DEF vars, loopVars, IInv
<1>4. SnapTypeOK' /\ ViewsInv'
  BY <1>1, <1>2, <1>3 DEF SnapTypeOK, ViewsInv
<1>5. CompareInv'
  <2>1. GuessesOK(1)'
    BY <1>1, SameGuesses DEF CompareInv, sideVars
  <2>2. fake_order_id \in Int
    BY DEF SnapTypeOK
  <2>3. fake_order_id' + Cardinality(todo') <= FirstFakeId + MaxLevels
    BY <1>1, <1>2, <2>2, SnapshotAssumption DEF CompareInv, FirstFakeId
  <2>4. \A i \in DOMAIN pending_orders' : /\ GuessPrice(i)' \in PricesOf(snapshot[side])
                                          /\ GuessPrice(i)' \notin PricesOf(todo')
    BY <1>1, <1>2 DEF CompareInv, GuessPrice, sideVars
  <2> QED
    BY <1>1, <1>2, <2>1, <2>3, <2>4 DEF CompareInv
<1>6. FrontInv' /\ CollectInv' /\ GuessesApplicable'
  BY <1>1 DEF FrontInv, CollectInv, GuessesApplicable
<1> QED
  BY <1>3, <1>4, <1>5, <1>6

\* A level of the snapshot is visited.
LEMMA CompareLevelStep == SnapInv /\ CompareLevel => SnapInv'
<1> SUFFICES ASSUME SnapInv, CompareLevel PROVE SnapInv'
  OBVIOUS
<1>1. PICK l \in todo : /\ todo' = todo \ {l}
                        /\ CompareLess(l) \/ CompareMore(l) \/ CompareEqual(l)
  BY DEF CompareLevel
<1> QED
  BY <1>1, CompareLessStep, CompareMoreStep, CompareEqualStep

\* What is added to the collected orders is in the book, has the quantity, and
\* was not collected before.
LEMMA CollectOne ==
  ASSUME GuessesOK(1), pending_orders \in Seq(Guess), side' = side, order_map' = order_map,
         NEW id \in OrderId, NEW qty \in Nat, id \in DOMAIN order_map[side],
         qty > 0, qty <= Remaining(order_map[side][id]),
         \A i \in DOMAIN pending_orders : pending_orders[i].odid # id,
         pending_orders' = Append(pending_orders, [odid |-> id, quantity |-> qty])
  PROVE  /\ GuessesOK(1)'
         /\ pending_orders' \in Seq(Guess)
         /\ DOMAIN pending_orders' = DOMAIN pending_orders \cup {Len(pending_orders) + 1}
         /\ \A i \in DOMAIN pending_orders : pending_orders'[i] = pending_orders[i]
         /\ pending_orders'[Len(pending_orders) + 1] = [odid |-> id, quantity |-> qty]
<1> DEFINE g == [odid |-> id, quantity |-> qty]
           n == Len(pending_orders)
<1>1. g \in Guess /\ g.odid = id /\ g.quantity = qty
  BY DEF Guess
<1> HIDE DEF g
<1>2. /\ pending_orders' \in Seq(Guess) /\ Len(pending_orders') = n + 1 /\ n \in Nat
      /\ \A i \in 1 .. n : pending_orders'[i] = pending_orders[i]
      /\ pending_orders'[n + 1] = g
  BY <1>1 DEF g
<1>3. DOMAIN pending_orders = 1 .. n /\ DOMAIN pending_orders' = 1 .. n + 1
  BY <1>2
<1> HIDE DEF n
<1>4. GuessesOK(1)'
  <2> SUFFICES ASSUME NEW i \in 1 .. n + 1
               PROVE  /\ pending_orders'[i].odid \in DOMAIN order_map[side]
                      /\ pending_orders'[i].quantity > 0
                      /\ pending_orders'[i].quantity
                           <= Remaining(order_map[side][pending_orders'[i].odid])
                      /\ \A j \in 1 .. n + 1 :
                           pending_orders'[i].odid = pending_orders'[j].odid => i = j
    BY <1>2 DEF GuessesOK, existOrder, n
  <2>1. \A k \in 1 .. n :
          /\ pending_orders[k].odid \in DOMAIN order_map[side]
          /\ pending_orders[k].quantity > 0
          /\ pending_orders[k].quantity <= Remaining(order_map[side][pending_orders[k].odid])
          /\ pending_orders[k].odid # id
          /\ \A j \in 1 .. n : pending_orders[k].odid = pending_orders[j].odid => k = j
    BY <1>3 DEF GuessesOK, existOrder, n
  <2>2. \A k \in 1 .. n + 1 : k \in 1 .. n \/ k = n + 1
    BY <1>2
  <2> QED
    BY <1>1, <1>2, <2>1, <2>2
<1> QED
  BY <1>2, <1>3, <1>4 DEF g, n

\* An order of a level that has too much is collected, the walk moves on.
LEMMA CollectFrontStep == SnapInv /\ CollectFront => SnapInv'
<1> SUFFICES ASSUME SnapInv, CollectFront PROVE SnapInv'
  OBVIOUS
<1> USE DEF SnapInv
<1> DEFINE list == levels[side][cur].orders
           id  == list[iter]
           qty == TakeFrom(order_map[side][id])
           n   == Len(pending_orders)
<1>1. /\ spc = "front" /\ iter <= Len(list) /\ qty_to_remove > 0
      /\ qty_to_remove' = qty_to_remove - qty
      /\ pending_orders' = Append(pending_orders, [odid |-> id, quantity |-> qty])
      /\ iter' = iter + 1
      /\ UNCHANGED <<sideVars, pc, act, side, cur, orders_to_remove, events, spc, snapshot,
                     todo, fake_order_id, ids_before>>
  BY DEF CollectFront
<1>2. TypeOK /\ pc = "idle" /\ side \in BOOLEAN /\ pending_orders \in Seq(Guess)
  BY <1>1 DEF SnapTypeOK, TypeOK
<1>3. qty_to_remove \in Nat /\ iter \in Nat \ {0}
  BY <1>2 DEF SnapTypeOK, TypeOK
<1>4. cur \in DOMAIN levels[side] /\ list \in Seq(OrderId)
  BY <1>1, <1>2 DEF FrontInv, TypeOK, IsMap, L3PriceLevel
<1>5. /\ \A i, j \in DOMAIN list : list[i] = list[j] => i = j
      /\ \A i \in DOMAIN list : /\ list[i] \in DOMAIN order_map[side]
                               /\ order_map[side][list[i]].price = cur
  BY <1>2, <1>4 DEF IInv, BookConsistent, SideConsistent
<1> HIDE DEF list
<1>6. iter \in DOMAIN list
  BY <1>1, <1>3, <1>4
<1>7. /\ id \in OrderId /\ id \in DOMAIN order_map[side] /\ order_map[side][id].price = cur
      /\ order_map[side][id] \in Order
  BY <1>2, <1>4, <1>5, <1>6 DEF TypeOK, IsMap
<1> HIDE DEF id
<1>8. Remaining(order_map[side][id]) \in Nat /\ Remaining(order_map[side][id]) > 0
  BY <1>2, <1>7, IdleUnspent DEF Remaining, Order
<1>9. /\ qty \in Nat /\ qty > 0 /\ qty <= Remaining(order_map[side][id])
      /\ qty <= qty_to_remove
  BY <1>1, <1>3, <1>8 DEF TakeFrom, MinOf
<1> HIDE DEF qty
<1>10. /\ GuessesOK(1)
       /\ \A i \in DOMAIN pending_orders :
            /\ GuessPrice(i) \in PricesOf(snapshot[side])
            /\ GuessPrice(i) \notin PricesOf(todo)
            /\ GuessPrice(i) = cur =>
                 \E j \in DOMAIN list : j < iter /\ list[j] = pending_orders[i].odid
       /\ cur \in PricesOf(snapshot[side]) /\ cur \notin PricesOf(todo)
  BY <1>1 DEF CompareInv, FrontInv, list
\* An order collected before at this price is at an earlier place.
<1>11. \A i \in DOMAIN pending_orders : pending_orders[i].odid # id
  <2> SUFFICES ASSUME NEW i \in DOMAIN pending_orders, pending_orders[i].odid = id
               PROVE  FALSE
    OBVIOUS
  <2>1. PICK j \in DOMAIN list : j < iter /\ list[j] = id
    BY <1>7, <1>10 DEF GuessPrice
  <2> QED
    BY <1>3, <1>4, <1>5, <1>6, <2>1 DEF id
<1>12. UNCHANGED <<levels, order_map>>
  BY <1>1 DEF sideVars
<1>13. /\ GuessesOK(1)'
       /\ pending_orders' \in Seq(Guess)
       /\ DOMAIN pending_orders' = DOMAIN pending_orders \cup {n + 1}
       /\ \A i \in DOMAIN pending_orders : pending_orders'[i] = pending_orders[i]
       /\ pending_orders'[n + 1] = [odid |-> id, quantity |-> qty]
  BY <1>1, <1>2, <1>7, <1>9, <1>10, <1>11, <1>12, CollectOne
<1> HIDE DEF n
<1>14. TypeOK'
  BY <1>1, <1>2, <1>3 DEF TypeOK, sideVars
<1>15. IInv'
  BY <1>1, <1>2, <1>12, <1>14, IdleSame
<1>16. SnapTypeOK' /\ ViewsInv'
  <2>1. qty_to_remove' \in Nat
    BY <1>1, <1>3, <1>9
  <2> QED
    BY <1>1, <1>13, <1>14, <2>1 DEF SnapTypeOK, ViewsInv
<1>17. \A i \in DOMAIN pending_orders' :
         GuessPrice(i)' = IF i \in DOMAIN pending_orders THEN GuessPrice(i) ELSE cur
  BY <1>1, <1>7, <1>12, <1>13 DEF GuessPrice
<1>18. CompareInv'
  <2>1. \A i \in DOMAIN pending_orders' : /\ GuessPrice(i)' \in PricesOf(snapshot[side])
                                          /\ GuessPrice(i)' \notin PricesOf(todo)
    BY <1>10, <1>13, <1>17
  <2> QED
    BY <1>1, <1>13, <2>1 DEF CompareInv
<1>19. FrontInv'
  <2>1. ASSUME NEW i \in DOMAIN pending_orders', GuessPrice(i)' = cur
        PROVE  \E j \in DOMAIN list : j < iter' /\ list[j] = pending_orders'[i].odid
    <3>1. CASE i \in DOMAIN pending_orders
      <4>1. PICK j \in DOMAIN list : j < iter /\ list[j] = pending_orders[i].odid
        BY <1>10, <1>17, <2>1, <3>1
      <4>2. j < iter'
        BY <1>1, <1>3, <1>4, <4>1
      <4> QED
        BY <1>13, <3>1, <4>1, <4>2
    <3>2. CASE i = n + 1
      <4>1. iter < iter' /\ list[iter] = pending_orders'[i].odid
        BY <1>1, <1>3, <1>13, <3>2 DEF id
      <4> QED
        BY <1>6, <4>1
    <3> QED
      BY <1>13, <2>1, <3>1, <3>2
  <2> QED
    BY <1>1, <1>4, <1>10, <1>12, <2>1 DEF FrontInv, list
<1>20. CollectInv' /\ GuessesApplicable'
  BY <1>1 DEF CollectInv, GuessesApplicable
<1> QED
  BY <1>15, <1>16, <1>18, <1>19, <1>20

\* The walk over the level is over.
LEMMA CollectFrontDoneStep == SnapInv /\ CollectFrontDone => SnapInv'
<1> SUFFICES ASSUME SnapInv, CollectFrontDone PROVE SnapInv'
  OBVIOUS
<1> USE DEF SnapInv
<1>1. spc = "front" /\ spc' = "compare" /\ UNCHANGED <<vars, snapLocals>>
  BY DEF CollectFrontDone
<1>2. IInv' /\ TypeOK' /\ UNCHANGED <<pc, side, order_map>>
  BY <1>1, SameVars DEF IInv, vars, sideVars, loopVars
<1>3. SnapTypeOK' /\ ViewsInv'
  BY <1>1, <1>2 DEF SnapTypeOK, ViewsInv, snapLocals
<1>4. CompareInv'
  <2>1. GuessesOK(1)'
    BY <1>1, <1>2, SameGuesses DEF CompareInv, snapLocals
  <2> QED
    BY <1>1, <1>2, <2>1 DEF CompareInv, GuessPrice, snapLocals
<1>5. FrontInv' /\ CollectInv' /\ GuessesApplicable'
  BY <1>1 DEF FrontInv, CollectInv, GuessesApplicable
<1> QED
  BY <1>2, <1>3, <1>4, <1>5

\* The levels left are those of the book at none of the snapshot's prices, and
\* everything collected is at one of them.
LEMMA CompareDoneStep == SnapInv /\ CompareDone => SnapInv'
<1> SUFFICES ASSUME SnapInv, CompareDone PROVE SnapInv'
  OBVIOUS
<1> USE DEF SnapInv
<1>1. /\ spc = "compare" /\ spc' = "collect" /\ todo' = MissingLevels
      /\ UNCHANGED <<vars, snapshot, qty_to_remove, pending_orders, fake_order_id, ids_before>>
  BY DEF CompareDone
<1>2. IInv' /\ TypeOK' /\ UNCHANGED <<pc, side, levels, order_map>> /\ side \in BOOLEAN
  BY <1>1, SameVars DEF IInv, TypeOK, vars, sideVars, loopVars
<1>3. todo' \subseteq L2View(levels[side])
  BY <1>1 DEF MissingLevels
<1>4. PricesOf(todo') \cap PricesOf(snapshot[side]) = {}
  BY <1>1 DEF MissingLevels, PricesOf
<1>5. SnapTypeOK' /\ ViewsInv'
  <2>1. todo' \in SUBSET L2PriceLevel
    BY <1>2, <1>3, ViewOK DEF IInv, TypeOK
  <2> QED
    BY <1>1, <1>2, <2>1 DEF SnapTypeOK, ViewsInv
<1>6. CollectInv'
  <2>1. GuessesOK(1)'
    BY <1>1, <1>2, SameGuesses DEF CompareInv
  <2> QED
    BY <1>1, <1>2, <1>3, <1>4, <2>1 DEF CompareInv, CollectInv, GuessPrice
<1>7. CompareInv' /\ FrontInv' /\ GuessesApplicable'
  BY <1>1 DEF CompareInv, FrontInv, GuessesApplicable
<1> QED
  BY <1>2, <1>5, <1>6, <1>7

-----------------------------------------------------------------------------
(* The levels the snapshot does not have.                                  *)

\* All the orders of a level are collected; they are at a price at which none
\* was collected before.
LEMMA CollectLevelStep == SnapInv /\ CollectLevel => SnapInv'
<1> SUFFICES ASSUME SnapInv, CollectLevel PROVE SnapInv'
  OBVIOUS
<1> USE DEF SnapInv
<1>1. PICK l \in todo :
        /\ todo' = todo \ {l}
        /\ pending_orders' = pending_orders \o
             [i \in DOMAIN levels[side][l.price].orders |->
                [odid     |-> levels[side][l.price].orders[i],
                 quantity |-> Remaining(order_map[side][levels[side][l.price].orders[i]])]]
  BY DEF CollectLevel
<1>2. spc = "collect" /\ UNCHANGED <<vars, spc, snapshot, qty_to_remove, fake_order_id, ids_before>>
  BY DEF CollectLevel
<1>3. /\ IInv' /\ TypeOK' /\ UNCHANGED <<pc, side, levels, order_map>>
      /\ TypeOK /\ BookConsistent /\ pc = "idle"
  BY <1>2, SameVars DEF IInv, SnapTypeOK, vars, sideVars, loopVars
<1>4. side \in BOOLEAN /\ pending_orders \in Seq(Guess) /\ todo \in SUBSET L2PriceLevel
  BY <1>3 DEF SnapTypeOK, TypeOK
<1> DEFINE p    == l.price
           list == levels[side][p].orders
           new  == [i \in DOMAIN list |-> [odid     |-> list[i],
                                          quantity |-> Remaining(order_map[side][list[i]])]]
           n    == Len(pending_orders)
           k    == Len(list)
<1>5. /\ p \in DOMAIN levels[side] /\ p \in PricesOf(todo) /\ p \notin PricesOf(todo')
      /\ PricesOf(todo') \subseteq PricesOf(todo)
  <2>1. \A v \in todo : \E q \in DOMAIN levels[side] :
          v = [price |-> q, quantity |-> levels[side][q].quantity]
    BY <1>2 DEF CollectInv, L2View
  <2>2. \A v \in todo : /\ v.price \in DOMAIN levels[side]
                        /\ v = [price |-> v.price, quantity |-> levels[side][v.price].quantity]
    BY <2>1
  <2>3. \A v \in todo : v.price = p => v = l
    BY <2>2
  <2> QED
    BY <1>1, <2>2, <2>3 DEF PricesOf
<1> HIDE DEF p
<1>6. list \in Seq(OrderId) /\ DOMAIN list = 1 .. k /\ k \in Nat
  <2>1. list \in Seq(OrderId)
    BY <1>3, <1>4, <1>5 DEF TypeOK, IsMap, L3PriceLevel
  <2> QED
    BY <2>1
<1>7. /\ \A i, j \in DOMAIN list : list[i] = list[j] => i = j
      /\ \A i \in DOMAIN list : /\ list[i] \in DOMAIN order_map[side]
                               /\ order_map[side][list[i]].price = p
  BY <1>3, <1>4, <1>5 DEF BookConsistent, SideConsistent
<1>8. \A i \in DOMAIN list : /\ Remaining(order_map[side][list[i]]) \in Nat
                            /\ Remaining(order_map[side][list[i]]) > 0
  <2> SUFFICES ASSUME NEW i \in DOMAIN list
               PROVE  /\ Remaining(order_map[side][list[i]]) \in Nat
                      /\ Remaining(order_map[side][list[i]]) > 0
    OBVIOUS
  <2>1. order_map[side][list[i]] \in Order
    BY <1>3, <1>4, <1>7 DEF TypeOK, IsMap
  <2>2. Remaining(order_map[side][list[i]]) > 0
    BY <1>3, <1>4, <1>7, IdleUnspent
  <2>3. Remaining(order_map[side][list[i]]) \in Int
    BY <2>1 DEF Order, Remaining
  <2> QED
    BY <2>2, <2>3
<1>9. /\ new \in Seq(Guess) /\ Len(new) = k
      /\ \A i \in 1 .. k : /\ new[i].odid = list[i]
                           /\ new[i].quantity = Remaining(order_map[side][list[i]])
  <2>1. new \in [1 .. k -> Guess]
    BY <1>6, <1>8 DEF Guess
  <2>2. new \in Seq(Guess) /\ Len(new) = k
    BY <1>6, <2>1
  <2> QED
    BY <1>6, <2>2
<1>10. pending_orders' = pending_orders \o new
  BY <1>1 DEF p
<1> HIDE DEF new, list, k
<1>11. /\ pending_orders' \in Seq(Guess) /\ Len(pending_orders') = n + k /\ n \in Nat
       /\ \A i \in 1 .. n : pending_orders'[i] = pending_orders[i]
       /\ \A i \in n + 1 .. n + k : pending_orders'[i] = new[i - n]
  <2>1. n \in Nat /\ pending_orders \in Seq(Guess) /\ new \in Seq(Guess) /\ Len(new) = k
    BY <1>4, <1>9
  <2>2. pending_orders' \in Seq(Guess) /\ Len(pending_orders') = n + k
    BY <1>10, <2>1, ConcatProperties
  <2>3. \A i \in 1 .. n + k :
          pending_orders'[i] = IF i <= n THEN pending_orders[i] ELSE new[i - n]
    BY <1>10, <2>1, ConcatProperties
  <2> HIDE DEF n
  <2> QED
    BY <1>6, <2>1, <2>2, <2>3
<1>12. DOMAIN pending_orders = 1 .. n /\ DOMAIN pending_orders' = 1 .. n + k
  BY <1>4, <1>6, <1>11
<1> HIDE DEF n
\* The orders collected before, and the new ones.
<1>13. \A i \in 1 .. n :
         /\ pending_orders'[i].odid \in DOMAIN order_map[side]
         /\ pending_orders'[i].quantity > 0
         /\ pending_orders'[i].quantity
              <= Remaining(order_map[side][pending_orders'[i].odid])
         /\ order_map[side][pending_orders'[i].odid].price # p
         /\ order_map[side][pending_orders'[i].odid].price \notin PricesOf(todo')
         /\ \A j \in 1 .. n : pending_orders'[i].odid = pending_orders'[j].odid => i = j
  BY <1>2, <1>5, <1>11, <1>12 DEF CollectInv, GuessesOK, GuessPrice, existOrder, n
<1>14. ASSUME NEW i \in n + 1 .. n + k
       PROVE  /\ i - n \in 1 .. k
              /\ pending_orders'[i].odid = list[i - n]
              /\ pending_orders'[i].quantity = Remaining(order_map[side][list[i - n]])
              /\ list[i - n] \in DOMAIN order_map[side]
              /\ order_map[side][list[i - n]].price = p
              /\ Remaining(order_map[side][list[i - n]]) \in Nat
              /\ Remaining(order_map[side][list[i - n]]) > 0
  <2>1. i - n \in 1 .. k
    BY <1>6, <1>11
  <2> QED
    BY <1>6, <1>7, <1>8, <1>9, <1>11, <2>1
<1>15. GuessesOK(1)'
  <2> SUFFICES ASSUME NEW i \in 1 .. n + k
               PROVE  /\ pending_orders'[i].odid \in DOMAIN order_map[side]
                      /\ pending_orders'[i].quantity > 0
                      /\ pending_orders'[i].quantity
                           <= Remaining(order_map[side][pending_orders'[i].odid])
                      /\ \A j \in 1 .. n + k :
                           pending_orders'[i].odid = pending_orders'[j].odid => i = j
    BY <1>3, <1>11 DEF GuessesOK, existOrder
  <2>1. \A j \in 1 .. n + k : j \in 1 .. n \/ j \in n + 1 .. n + k
    BY <1>6, <1>11
  <2>2. CASE i \in 1 .. n
    <3>1. \A j \in n + 1 .. n + k : pending_orders'[i].odid # pending_orders'[j].odid
      BY <1>13, <1>14, <2>2
    <3> QED
      BY <1>13, <2>1, <2>2, <3>1
  <2>3. CASE i \in n + 1 .. n + k
    <3>1. \A j \in 1 .. n : pending_orders'[i].odid # pending_orders'[j].odid
      BY <1>13, <1>14, <2>3
    <3>2. ASSUME NEW j \in n + 1 .. n + k, pending_orders'[i].odid = pending_orders'[j].odid
          PROVE  i = j
      <4>1. i - n = j - n
        BY <1>6, <1>7, <1>14, <2>3, <3>2
      <4> QED
        BY <1>6, <1>11, <2>3, <4>1
    <3>3. /\ pending_orders'[i].odid \in DOMAIN order_map[side]
          /\ pending_orders'[i].quantity > 0
          /\ pending_orders'[i].quantity
               <= Remaining(order_map[side][pending_orders'[i].odid])
      BY <1>14, <2>3
    <3> QED
      BY <2>1, <3>1, <3>2, <3>3
  <2> QED
    BY <2>1, <2>2, <2>3
<1>16. CollectInv'
  <2>1. \A i \in DOMAIN pending_orders' : GuessPrice(i)' \notin PricesOf(todo')
    <3> SUFFICES ASSUME NEW i \in 1 .. n + k
                 PROVE  order_map[side][pending_orders'[i].odid].price \notin PricesOf(todo')
      BY <1>3, <1>12 DEF GuessPrice
    <3>1. i \in 1 .. n \/ i \in n + 1 .. n + k
      BY <1>6, <1>11
    <3> QED
      BY <1>5, <1>13, <1>14, <3>1
  <2> QED
    BY <1>1, <1>2, <1>3, <1>15, <2>1 DEF CollectInv
<1>17. SnapTypeOK' /\ ViewsInv'
  <2>1. todo' \in SUBSET L2PriceLevel
    BY <1>1, <1>4
  <2> QED
    BY <1>2, <1>3, <1>11, <2>1 DEF SnapTypeOK, ViewsInv
<1>18. CompareInv' /\ FrontInv' /\ GuessesApplicable'
  BY <1>2 DEF CompareInv, FrontInv, GuessesApplicable
<1> QED
  BY <1>3, <1>16, <1>17, <1>18

\* Everything is collected: it is applied from the first on.
LEMMA CollectDoneStep == SnapInv /\ CollectDone => SnapInv'
<1> SUFFICES ASSUME SnapInv, CollectDone PROVE SnapInv'
  OBVIOUS
<1> USE DEF SnapInv
<1>1. /\ spc = "collect" /\ spc' = "apply" /\ iter' = 1
      /\ UNCHANGED <<sideVars, pc, act, side, cur, orders_to_remove, events, snapLocals>>
  BY DEF CollectDone
<1>2. TypeOK /\ pc = "idle"
  BY <1>1 DEF SnapTypeOK
<1>3. TypeOK'
  BY <1>1, <1>2 DEF TypeOK, sideVars
<1>4. IInv'
  BY <1>1, <1>2, <1>3, IdleSame DEF sideVars
<1>5. SnapTypeOK' /\ ViewsInv'
  BY <1>1, <1>3 DEF SnapTypeOK, ViewsInv, snapLocals
<1>6. GuessesApplicable'
  BY <1>1 DEF CollectInv, GuessesOK, GuessesApplicable, existOrder, sideVars, snapLocals
<1>7. CompareInv' /\ FrontInv' /\ CollectInv'
  BY <1>1 DEF CompareInv, FrontInv, CollectInv
<1> QED
  BY <1>4, <1>5, <1>6, <1>7

-----------------------------------------------------------------------------
(* The guesses are applied.                                                *)

\* The level of an order that is filled is there, as FillGuess checks.
LEMMA FillGuessFills ==
  ASSUME IInv, NEW id \in DOMAIN order_map[side], NEW qty, FillGuess(id, qty)
  PROVE  /\ levels' = [levels EXCEPT ![side][order_map[side][id].price] = LevelFillOrder(@, qty)]
         /\ order_map' = [order_map EXCEPT ![side][id] = OrderFilled(@, qty)]
<1>1. side \in BOOLEAN
  BY DEF IInv, TypeOK
<1>2. SideOK(levels[side], order_map[side])
  BY <1>1, SidesOK DEF IInv
<1>3. order_map[side][id].price \in DOMAIN levels[side]
  BY <1>2 DEF SideOK, SideConsistent
<1> QED
  BY <1>3 DEF FillGuess

\* A guess removes or fills one order: the book stays consistent, no order is
\* spent, and the other orders are as they were.
LEMMA RemoveGuessOK ==
  ASSUME IInv, pc = "idle", NEW id \in DOMAIN order_map[side], NEW qty \in Nat, qty > 0,
         qty <= Remaining(order_map[side][id]), RemoveGuess(id, qty)
  PROVE  /\ DOMAIN levels' = BOOLEAN /\ DOMAIN order_map' = BOOLEAN
         /\ \A t \in BOOLEAN : SideOK(levels'[t], order_map'[t])
         /\ \A t \in BOOLEAN : \A x \in DOMAIN order_map'[t] : Remaining(order_map'[t][x]) > 0
         /\ \A x \in DOMAIN order_map[side] \ {id} : /\ x \in DOMAIN order_map'[side]
                                                    /\ order_map'[side][x] = order_map[side][x]
<1> USE DEF IInv
<1>1. side \in BOOLEAN /\ DOMAIN levels = BOOLEAN /\ DOMAIN order_map = BOOLEAN
  BY DEF TypeOK
<1>2. \A s \in BOOLEAN : \A x \in DOMAIN order_map[s] : Remaining(order_map[s][x]) > 0
  BY IdleUnspent
<1>3. CASE Remaining(order_map[side][id]) = qty
  <2>1. removeOrder(side, id)
    BY <1>3 DEF RemoveGuess
  <2>2. /\ DOMAIN levels' = BOOLEAN /\ DOMAIN order_map' = BOOLEAN
        /\ \A t \in BOOLEAN : SideOK(levels'[t], order_map'[t])
        /\ \A t \in BOOLEAN : t # side => order_map'[t] = order_map[t]
        /\ DOMAIN order_map'[side] = DOMAIN order_map[side] \ {id}
        /\ \A x \in DOMAIN order_map[side] \ {id} : order_map'[side][x] = order_map[side][x]
    BY <1>1, <2>1, RemoveOrderStep
  <2> QED
    BY <1>1, <1>2, <2>2
<1>4. CASE Remaining(order_map[side][id]) # qty
  <2> DEFINE L  == levels[side]
             M  == order_map[side]
             p  == M[id].price
             L2 == [L EXCEPT ![p] = LevelFillOrder(@, qty)]
             M2 == [M EXCEPT ![id] = OrderFilled(@, qty)]
  <2>1. /\ levels' = [levels EXCEPT ![side][p] = LevelFillOrder(@, qty)]
        /\ order_map' = [order_map EXCEPT ![side][id] = OrderFilled(@, qty)]
    BY <1>4, FillGuessFills DEF RemoveGuess
  <2>2. \A t \in BOOLEAN : SideOK(levels[t], order_map[t])
    BY SidesOK
  <2>3. SideOK(L, M) /\ p \in DOMAIN L /\ M[id] \in Order
    BY <1>1, <2>2 DEF SideOK, SideConsistent, IsMap
  <2>4. /\ SideOK(L2, M2) /\ DOMAIN M2 = DOMAIN M
        /\ \A x \in DOMAIN M : x # id => M2[x] = M[x]
        /\ M2[id] = OrderFilled(M[id], qty)
    BY <2>3, FillSideOK
  <2>5. Remaining(M2[id]) > 0
    BY <1>4, <2>3, <2>4 DEF OrderFilled, Remaining, Order
  <2>6. /\ DOMAIN levels' = BOOLEAN /\ DOMAIN order_map' = BOOLEAN
        /\ levels'[side] = L2 /\ order_map'[side] = M2
        /\ \A t \in BOOLEAN : t # side => levels'[t] = levels[t] /\ order_map'[t] = order_map[t]
    BY <1>1, <2>1
  <2> HIDE DEF L2, M2
  <2> QED
    BY <1>1, <1>2, <2>2, <2>4, <2>5, <2>6
<1> QED
  BY <1>3, <1>4

\* The guess at iter is applied; those after it are about other orders.
LEMMA ApplyGuessStep == SnapInv /\ ApplyGuess => SnapInv'
<1> SUFFICES ASSUME SnapInv, ApplyGuess PROVE SnapInv'
  OBVIOUS
<1> USE DEF SnapInv
<1> DEFINE id  == pending_orders[iter].odid
           qty == pending_orders[iter].quantity
<1>1. /\ spc = "apply" /\ iter <= Len(pending_orders) /\ RemoveGuess(id, qty)
      /\ events' = Append(events, OrderInfo(GuessKind(iter), id, side, qty,
                                            order_map[side][id].price))
      /\ iter' = iter + 1
      /\ UNCHANGED <<pending_liq_remove_qty, pending_liq_add_qty, l2_snap_queue, pc, act,
                     side, cur, orders_to_remove, snapVars>>
  BY DEF ApplyGuess
<1>2. /\ TypeOK /\ pc = "idle" /\ side \in BOOLEAN /\ iter \in Nat \ {0}
      /\ pending_orders \in Seq(Guess) /\ events \in Seq(Info)
  BY <1>1 DEF SnapTypeOK, TypeOK
<1>3. iter \in iter .. Len(pending_orders) /\ pending_orders[iter] \in Guess
  BY <1>1, <1>2
<1>4. /\ id \in DOMAIN order_map[side] /\ qty \in Nat /\ qty > 0
      /\ qty <= Remaining(order_map[side][id])
      /\ \A j \in iter .. Len(pending_orders) : id = pending_orders[j].odid => iter = j
  BY <1>1, <1>3 DEF GuessesApplicable, existOrder, Guess
<1>5. id \in OrderId /\ order_map[side][id].price \in Price
  BY <1>2, <1>4 DEF TypeOK, IsMap, Order
<1> HIDE DEF id, qty
<1>6. /\ DOMAIN levels' = BOOLEAN /\ DOMAIN order_map' = BOOLEAN
      /\ \A t \in BOOLEAN : SideOK(levels'[t], order_map'[t])
      /\ \A t \in BOOLEAN : \A x \in DOMAIN order_map'[t] : Remaining(order_map'[t][x]) > 0
      /\ \A x \in DOMAIN order_map[side] \ {id} : /\ x \in DOMAIN order_map'[side]
                                                 /\ order_map'[side][x] = order_map[side][x]
  BY <1>1, <1>2, <1>4, RemoveGuessOK
<1>7. /\ BookConsistent'
      /\ \A s \in BOOLEAN : /\ IsMap(levels'[s], Price, L3PriceLevel)
                            /\ IsMap(order_map'[s], OrderId, Order)
  BY <1>6, BookFromSides
<1>8. events' \in Seq(Info)
  <2>1. OrderInfo(GuessKind(iter), id, side, qty, order_map[side][id].price) \in Info
    <3>1. GuessKind(iter) \in {"EXEC", "CANCEL"}
      BY DEF GuessKind
    <3> QED
      BY <1>2, <1>4, <1>5, <3>1 DEF OrderInfo, Info
  <2> QED
    BY <1>1, <1>2, <2>1
<1>9. TypeOK'
  BY <1>1, <1>2, <1>6, <1>7, <1>8 DEF TypeOK
<1>10. IInv'
  BY <1>1, <1>2, <1>6, <1>7, <1>9, IdleIInv
<1>11. SnapTypeOK' /\ ViewsInv'
  BY <1>1, <1>9 DEF SnapTypeOK, ViewsInv, snapVars
<1>12. GuessesApplicable'
  <2>1. \A i \in iter + 1 .. Len(pending_orders) :
          /\ i \in iter .. Len(pending_orders) /\ iter # i
    BY <1>2
  <2>2. \A i \in iter + 1 .. Len(pending_orders) :
          /\ pending_orders[i].odid \in DOMAIN order_map[side] \ {id}
          /\ pending_orders[i].quantity > 0
          /\ pending_orders[i].quantity <= Remaining(order_map[side][pending_orders[i].odid])
          /\ \A j \in iter + 1 .. Len(pending_orders) :
               pending_orders[i].odid = pending_orders[j].odid => i = j
    BY <1>1, <1>4, <2>1 DEF GuessesApplicable, existOrder
  <2>3. UNCHANGED <<side, pending_orders>>
    BY <1>1 DEF snapVars
  <2> QED
    BY <1>1, <1>6, <2>2, <2>3 DEF GuessesApplicable, existOrder
<1>13. CompareInv' /\ FrontInv' /\ CollectInv'
  BY <1>1 DEF CompareInv, FrontInv, CollectInv, snapVars
<1> QED
  BY <1>10, <1>11, <1>12, <1>13

\* Nothing is left to apply.
LEMMA ApplyDoneStep == SnapInv /\ ApplyDone => SnapInv'
<1> SUFFICES ASSUME SnapInv, ApplyDone PROVE SnapInv'
  OBVIOUS
<1> USE DEF SnapInv
<1>1. spc = "apply" /\ spc' = "next" /\ UNCHANGED <<vars, snapLocals>>
  BY DEF ApplyDone, Applied
<1>2. IInv' /\ TypeOK' /\ UNCHANGED pc
  BY <1>1, SameVars DEF IInv, vars
<1>3. SnapTypeOK' /\ ViewsInv'
  BY <1>1, <1>2 DEF SnapTypeOK, ViewsInv, snapLocals
<1>4. CompareInv' /\ FrontInv' /\ CollectInv' /\ GuessesApplicable'
  BY <1>1 DEF CompareInv, FrontInv, CollectInv, GuessesApplicable
<1> QED
  BY <1>2, <1>3, <1>4

\* The ask side starts, or the call returns.
LEMMA NextSideStep == SnapInv /\ NextSide => SnapInv'
<1> SUFFICES ASSUME SnapInv, NextSide PROVE SnapInv'
  OBVIOUS
<1> USE DEF SnapInv
<1>1. /\ spc = "next" /\ spc' \in {"idle", "side"} /\ side' = ~side /\ cur' = AnyPrice /\ iter' = 1
      /\ snapshot' = NoSnapshot \/ snapshot' = snapshot
      /\ todo' = {} /\ qty_to_remove' = 0 /\ pending_orders' = << >>
      /\ fake_order_id' = FirstFakeId /\ ids_before' = {}
      /\ UNCHANGED <<sideVars, pc, act, orders_to_remove, events>>
  BY DEF NextSide
<1>2. TypeOK /\ pc = "idle" /\ AnyPrice \in Price
  BY <1>1, FeedAssumption DEF SnapTypeOK, AnyPrice
<1>3. TypeOK'
  <2>1. side' \in BOOLEAN
    BY <1>1, <1>2 DEF TypeOK
  <2>2. cur' \in Price /\ iter' \in Nat \ {0}
    BY <1>1, <1>2
  <2> QED
    BY <1>1, <1>2, <2>1, <2>2 DEF TypeOK, sideVars
<1>4. IInv'
  BY <1>1, <1>2, <1>3, IdleSame DEF sideVars
<1>5. ViewsInv'
  <2>1. CASE snapshot' = snapshot
    BY <2>1 DEF ViewsInv
  <2>2. CASE snapshot' = NoSnapshot
    BY <2>2, FS_EmptySet, SnapshotAssumption DEF ViewsInv, NoSnapshot
  <2> QED
    BY <1>1, <2>1, <2>2
<1>6. SnapTypeOK'
  <2>1. pending_orders' \in Seq(Guess)
    BY <1>1
  <2> QED
    BY <1>1, <1>2, <1>3, <2>1 DEF SnapTypeOK, NoSnapshot, FirstFakeId
<1>7. CompareInv' /\ FrontInv' /\ CollectInv' /\ GuessesApplicable'
  BY <1>1 DEF CompareInv, FrontInv, CollectInv, GuessesApplicable
<1> QED
  BY <1>4, <1>5, <1>6, <1>7

-----------------------------------------------------------------------------
(* The theorems.                                                           *)

\* A handler of the book alone runs while no snapshot is handled.
LEMMA BookStepStep == SnapInv /\ BookStep => SnapInv'
<1> SUFFICES ASSUME SnapInv, BookStep PROVE SnapInv'
  OBVIOUS
<1> USE DEF SnapInv
<1>1. spc = "idle" /\ Next /\ UNCHANGED snapVars
  BY DEF BookStep
<1>2. IInv' /\ TypeOK'
  BY <1>1, NextIInv DEF IInv
<1>3. SnapTypeOK' /\ ViewsInv'
  BY <1>1, <1>2 DEF SnapTypeOK, ViewsInv, snapVars
<1>4. CompareInv' /\ FrontInv' /\ CollectInv' /\ GuessesApplicable'
  BY <1>1 DEF CompareInv, FrontInv, CollectInv, GuessesApplicable, snapVars
<1> QED
  BY <1>2, <1>3, <1>4

\* A stuttering step.
LEMMA SnapStutter == SnapInv /\ UNCHANGED svars => SnapInv'
<1> SUFFICES ASSUME SnapInv, UNCHANGED svars PROVE SnapInv'
  OBVIOUS
<1> USE DEF SnapInv
<1>1. UNCHANGED vars /\ UNCHANGED snapVars
  BY DEF svars
<1>2. /\ IInv' /\ TypeOK'
      /\ UNCHANGED <<pc, side, cur, iter, levels, order_map>>
  BY <1>1, SameVars DEF IInv, vars, sideVars, loopVars
<1>3. SnapTypeOK' /\ ViewsInv'
  BY <1>1, <1>2 DEF SnapTypeOK, ViewsInv, snapVars
<1>4. \A n : GuessesOK(n) => GuessesOK(n)'
  BY <1>1, <1>2, SameGuesses DEF snapVars
<1>5. CompareInv' /\ FrontInv'
  BY <1>1, <1>2, <1>4 DEF CompareInv, FrontInv, GuessPrice, snapVars
<1>6. CollectInv' /\ GuessesApplicable'
  BY <1>1, <1>2, <1>4 DEF CollectInv, GuessesApplicable, GuessPrice, existOrder, snapVars
<1> QED
  BY <1>2, <1>3, <1>5, <1>6

\* Every step keeps the invariant.
LEMMA SnapNextInv == SnapInv /\ [SnapNext]_svars => SnapInv'
<1> SUFFICES ASSUME SnapInv, [SnapNext]_svars PROVE SnapInv'
  OBVIOUS
<1>1. CASE BookStep
  BY <1>1, BookStepStep
<1>2. CASE ReceiveSnapshot
  BY <1>2, processSnapshotMessageStep DEF ReceiveSnapshot
<1>3. CASE SnapStep
  BY <1>3, SnapQueuedStep, SnapLeadsStep, CompareLevelStep, CollectFrontStep,
     CollectFrontDoneStep, CompareDoneStep, CollectLevelStep, CollectDoneStep,
     ApplyGuessStep, ApplyDoneStep, NextSideStep DEF SnapStep
<1>4. CASE UNCHANGED svars
  BY <1>4, SnapStutter
<1> QED
  BY <1>1, <1>2, <1>3, <1>4 DEF SnapNext

\* The invariant holds whatever the three streams carry.
THEOREM SnapInvariance == SnapSpec => []SnapInv
BY SnapInitInv, SnapNextInv, PTL DEF SnapSpec

\* The members and locals keep their types with snapshots in the feed: no
\* quantity collected and no pending quantity goes below zero.
THEOREM SnapTypeCorrect == SnapSpec => []SnapTypeOK
<1>1. SnapInv => SnapTypeOK
  BY DEF SnapInv
<1> QED
  BY <1>1, SnapInvariance, PTL

\* levels_ and order_map_ describe the same orders, with guessed orders added
\* and removed too.
THEOREM SnapConsistent == SnapSpec => []BookConsistent
<1>1. SnapInv => BookConsistent
  BY DEF SnapInv, IInv
<1> QED
  BY <1>1, SnapInvariance, PTL

\* An order that a guess uses up leaves the book with it.
THEOREM SnapSpentOrdersLeave == SnapSpec => []NoSpentOrders
<1>1. SnapInv => NoSpentOrders
  BY DEF SnapInv, IInv
<1> QED
  BY <1>1, SnapInvariance, PTL

\* What processL2Snapshot collects is there when it applies it: the assertion
\* of L3PriceLevel::fillOrder holds and no order is looked up that is gone.
THEOREM GuessesHold == SnapSpec => []GuessesApplicable
<1>1. SnapInv => GuessesApplicable
  BY DEF SnapInv
<1> QED
  BY <1>1, SnapInvariance, PTL

\* The expectation between two messages survives a snapshot.
LEMMA SnapExpectStep == SnapInv /\ ExpectInv /\ [SnapNext]_svars => ExpectInv'
<1> SUFFICES ASSUME SnapInv, ExpectInv, [SnapNext]_svars PROVE ExpectInv'
  OBVIOUS
<1>1. CASE BookStep \/ UNCHANGED svars
  BY <1>1, ExpectStep DEF SnapInv, BookStep, svars
<1>2. CASE ReceiveSnapshot \/ SnapStep
  <2>1. pc = "idle"
    BY <1>2 DEF SnapInv, SnapTypeOK, ReceiveSnapshot, processSnapshotMessage, SnapStep,
       SnapQueued, SnapLeads, CompareLevel, CollectFront, CollectFrontDone, CompareDone,
       CollectLevel, CollectDone, ApplyGuess, Applied, ApplyDone, NextSide
  <2>2. UNCHANGED <<pc, pending_liq_remove_qty>>
    BY <1>2 DEF ReceiveSnapshot, processSnapshotMessage, SnapStep, SnapQueued, SnapLeads,
       CompareLevel, CompareLess, CompareMore, CompareEqual, CollectFront, CollectFrontDone,
       CompareDone, CollectLevel, CollectDone, ApplyGuess, ApplyDone, NextSide, sideVars, vars
  <2> QED
    BY <2>1, <2>2 DEF ExpectInv, HalfMatched
<1> QED
  BY <1>1, <1>2 DEF SnapNext

\* A snapshot guesses orders and never trades: without cancels and modifies both
\* sides still expect the same trades between two messages.
THEOREM SnapSameTrades == SnapSpec => []SidesExpectSameTrades
<1>1. SnapInit => ExpectInv
  BY DEF SnapInit, Init, ExpectInv, HalfMatched
<1>2. ExpectInv => SidesExpectSameTrades
  BY DEF ExpectInv, HalfMatched, SidesExpectSameTrades
<1> QED
  BY <1>1, <1>2, SnapInvariance, SnapExpectStep, PTL DEF SnapSpec

=============================================================================
