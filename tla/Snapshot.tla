------------------------------ MODULE Snapshot ------------------------------
(***************************************************************************)
(* The order book with L2 snapshots in its feed: processSnapshotMessage    *)
(* (order_book.cpp) and processL2Snapshot (book_side.cpp), which handles   *)
(* one side after the other.  A snapshot that is not the one a side        *)
(* expects is taken to lead the other streams if the side expects none:    *)
(* the side is rewritten to match it and the order events behind the       *)
(* change are guessed.                                                     *)
(*                                                                         *)
(* The loops are one action per iteration, sequenced by spc.  The handlers *)
(* of the other messages run while spc = "idle", this one while            *)
(* pc = "idle".                                                            *)
(***************************************************************************)
EXTENDS SmartOrderBook, FiniteSets

CONSTANT MaxLevels   \* the largest number of levels of a side of a snapshot

FirstFakeId == 100

ASSUME SnapshotAssumption ==
  /\ MaxLevels \in Nat
  /\ FirstFakeId .. (FirstFakeId + MaxLevels - 1) \subseteq OrderId

VARIABLES
  spc,              \* where the handler is; "idle" when none runs
  snapshot,         \* the message: the levels of each side
  todo,             \* the levels the loop has still to visit
  qty_to_remove,    \* what the level at cur has more than the snapshot
  pending_orders,   \* the orders to fill or remove, each with a quantity
  fake_order_id,    \* the id of the next guessed order
  ids_before        \* auxiliary, for the properties: the ids the side had when
                    \* the snapshot was taken to lead

snapVars == <<spc, snapshot, todo, qty_to_remove, pending_orders, fake_order_id, ids_before>>
snapLocals == <<snapshot, todo, qty_to_remove, pending_orders, fake_order_id, ids_before>>
svars == <<vars, snapVars>>

PricesOf(view) == {l.price : l \in view}

\* A side of a snapshot: levels are sorted and have something in them.
L2SnapshotSide(Qty) ==
  {view \in SUBSET [price : Price, quantity : Qty] :
     /\ IsFiniteSet(view)
     /\ Cardinality(view) <= MaxLevels
     /\ \A k, l \in view : k.price = l.price => k = l}

SnapshotMessage(Qty) == [BOOLEAN -> L2SnapshotSide(Qty)]

NoSnapshot == [s \in BOOLEAN |-> {}]

SnapInit ==
  /\ Init
  /\ spc = "idle"
  /\ snapshot = NoSnapshot
  /\ todo = {}
  /\ qty_to_remove = 0
  /\ pending_orders = << >>
  /\ fake_order_id = FirstFakeId
  /\ ids_before = {}

-----------------------------------------------------------------------------
(* The call, and what a side makes of the snapshot.                        *)

\* The bid side comes first.
processSnapshotMessage(m) ==
  /\ pc = "idle"
  /\ spc = "idle"
  /\ spc' = "side"
  /\ snapshot' = m
  /\ side' = FALSE
  /\ events' = << >>
  /\ UNCHANGED <<sideVars, pc, act, cur, iter, orders_to_remove, todo, qty_to_remove,
                 pending_orders, fake_order_id, ids_before>>

\* The side expects a view.  If this is the one it leaves the queue, if not it
\* is taken to be polluted.
SnapQueued ==
  /\ spc = "side"
  /\ l2_snap_queue[side] # << >>
  /\ l2_snap_queue' =
       IF Head(l2_snap_queue[side]) = snapshot[side]
       THEN [l2_snap_queue EXCEPT ![side] = Tail(@)]
       ELSE l2_snap_queue
  /\ spc' = "next"
  /\ UNCHANGED <<levels, order_map, pending_liq_remove_qty, pending_liq_add_qty, pc, act,
                 loopVars, events, snapLocals>>

\* The side expects none: the snapshot leads.
SnapLeads ==
  /\ spc = "side"
  /\ l2_snap_queue[side] = << >>
  /\ spc' = "compare"
  /\ todo' = snapshot[side]
  /\ pending_orders' = << >>
  /\ fake_order_id' = FirstFakeId
  /\ ids_before' = DOMAIN order_map[side]
  /\ UNCHANGED <<vars, snapshot, qty_to_remove>>

-----------------------------------------------------------------------------
(* The levels of the snapshot.                                             *)

\* Maps and sorted vectors are walked from their begin.
IsNext(l) == l \in todo /\ IsBegin(side, PricesOf(todo), l.price)

QtyAt(p) == IF p \in DOMAIN levels[side] THEN levels[side][p].quantity ELSE 0

\* The book has more at this level: orders are to go, from the front.
CompareLess(l) ==
  /\ l.quantity < QtyAt(l.price)
  /\ spc' = "front"
  /\ cur' = l.price
  /\ iter' = 1
  /\ qty_to_remove' = QtyAt(l.price) - l.quantity
  /\ UNCHANGED <<sideVars, events, fake_order_id>>

\* Mutant: the guesses of a side share one id.
SameFakeId == fake_order_id

\* The id of the guess after this one.
NextFakeId == fake_order_id + 1

\* The book has less, or no such level: one new order is guessed for the
\* difference.  It is dropped if its id is taken.
CompareMore(l) ==
  LET qty == l.quantity - QtyAt(l.price)
      o   == [quantity |-> qty, price |-> l.price, filled_quantity |-> 0]
  IN  /\ l.quantity > QtyAt(l.price)
      /\ events' = Append(events, OrderInfo("ADD", NoId, side, qty, l.price))
      /\ pending_liq_add_qty' = [pending_liq_add_qty EXCEPT
           ![side] = Increase(@, l.price, qty)]
      /\ addOrder(side, fake_order_id, o)
      /\ fake_order_id' = NextFakeId
      /\ UNCHANGED <<pending_liq_remove_qty, l2_snap_queue, spc, cur, iter, qty_to_remove>>

CompareEqual(l) ==
  /\ l.quantity = QtyAt(l.price)
  /\ UNCHANGED <<sideVars, events, spc, cur, iter, qty_to_remove, fake_order_id>>

CompareLevel ==
  /\ spc = "compare"
  /\ \E l \in todo :
       /\ IsNext(l)
       /\ todo' = todo \ {l}
       /\ CompareLess(l) \/ CompareMore(l) \/ CompareEqual(l)
  /\ UNCHANGED <<pc, act, side, orders_to_remove, snapshot, pending_orders, ids_before>>

\* Mutants: the whole of the order, and no more than the order has forgotten.
TakeWhole(o) == Remaining(o)
TakeRest(o) == qty_to_remove

\* How much of an order is to go.
TakeFrom(o) == MinOf(qty_to_remove, Remaining(o))

\* One order of a level that has too much.
CollectFront ==
  LET id  == levels[side][cur].orders[iter]
      qty == TakeFrom(order_map[side][id])
  IN  /\ spc = "front"
      /\ iter <= Len(levels[side][cur].orders)
      /\ qty_to_remove > 0
      /\ qty_to_remove' = qty_to_remove - qty
      /\ pending_orders' = Append(pending_orders, [odid |-> id, quantity |-> qty])
      /\ iter' = iter + 1
      /\ UNCHANGED <<sideVars, pc, act, side, cur, orders_to_remove, events, spc, snapshot,
                     todo, fake_order_id, ids_before>>

CollectFrontDone ==
  /\ spc = "front"
  /\ iter > Len(levels[side][cur].orders) \/ qty_to_remove = 0
  /\ spc' = "compare"
  /\ UNCHANGED <<vars, snapLocals>>

MissingLevels == {l \in L2View(levels[side]) : l.price \notin PricesOf(snapshot[side])}

\* The levels the snapshot does not have are next.
CompareDone ==
  /\ spc = "compare"
  /\ todo = {}
  /\ spc' = "collect"
  /\ todo' = MissingLevels
  /\ UNCHANGED <<vars, snapshot, qty_to_remove, pending_orders, fake_order_id, ids_before>>

\* All the orders of a level the snapshot does not have.
CollectLevel ==
  /\ spc = "collect"
  /\ \E l \in todo :
       LET list == levels[side][l.price].orders
       IN  /\ IsNext(l)
           /\ todo' = todo \ {l}
           /\ pending_orders' = pending_orders \o
                [i \in DOMAIN list |-> [odid     |-> list[i],
                                        quantity |-> Remaining(order_map[side][list[i]])]]
  /\ UNCHANGED <<vars, spc, snapshot, qty_to_remove, fake_order_id, ids_before>>

CollectDone ==
  /\ spc = "collect"
  /\ todo = {}
  /\ spc' = "apply"
  /\ iter' = 1
  /\ UNCHANGED <<sideVars, pc, act, side, cur, orders_to_remove, events, snapLocals>>

-----------------------------------------------------------------------------
(* The guesses are applied.                                                *)

\* ceil(0.3 * n); the product of doubles never rounds past the integer above.
ExecutedNum(n) == (3 * n + 9) \div 10

GuessKind(i) == IF i <= ExecutedNum(Len(pending_orders)) THEN "EXEC" ELSE "CANCEL"

FillGuess(id, qty) ==
  LET p == order_map[side][id].price
  IN  IF p \in DOMAIN levels[side]
      THEN /\ levels' = [levels EXCEPT ![side][p] = LevelFillOrder(@, qty)]
           /\ order_map' = [order_map EXCEPT ![side][id] = OrderFilled(@, qty)]
      ELSE UNCHANGED <<levels, order_map>>

RemoveGuess(id, qty) ==
  IF Remaining(order_map[side][id]) = qty THEN removeOrder(side, id) ELSE FillGuess(id, qty)

ApplyGuess ==
  LET id  == pending_orders[iter].odid
      qty == pending_orders[iter].quantity
  IN  /\ spc = "apply"
      /\ iter <= Len(pending_orders)
      /\ events' = Append(events, OrderInfo(GuessKind(iter), id, side, qty,
                                            order_map[side][id].price))
      /\ RemoveGuess(id, qty)
      /\ iter' = iter + 1
      /\ UNCHANGED <<pending_liq_remove_qty, pending_liq_add_qty, l2_snap_queue, pc, act, side,
                     cur, orders_to_remove, snapVars>>

\* The side matches the snapshot as far as it is going to.
Applied == spc = "apply" /\ iter > Len(pending_orders)

ApplyDone ==
  /\ Applied
  /\ spc' = "next"
  /\ UNCHANGED <<vars, snapLocals>>

\* The ask side, or the return to the caller, where the locals are gone.
NextSide ==
  /\ spc = "next"
  /\ spc' = IF side THEN "idle" ELSE "side"
  /\ side' = ~side
  /\ cur' = AnyPrice
  /\ iter' = 1
  /\ snapshot' = IF side THEN NoSnapshot ELSE snapshot
  /\ todo' = {}
  /\ qty_to_remove' = 0
  /\ pending_orders' = << >>
  /\ fake_order_id' = FirstFakeId
  /\ ids_before' = {}
  /\ UNCHANGED <<sideVars, pc, act, orders_to_remove, events>>

SnapStep ==
  \/ SnapQueued \/ SnapLeads
  \/ CompareLevel \/ CollectFront \/ CollectFrontDone \/ CompareDone
  \/ CollectLevel \/ CollectDone
  \/ ApplyGuess \/ ApplyDone
  \/ NextSide

ReceiveSnapshot == \E m \in SnapshotMessage(1 .. MaxQty) : processSnapshotMessage(m)

BookStep == spc = "idle" /\ Next /\ UNCHANGED snapVars

SnapNext == BookStep \/ ReceiveSnapshot \/ SnapStep

SnapSpec == SnapInit /\ [][SnapNext]_svars

-----------------------------------------------------------------------------
(* Properties.                                                             *)

Guess == [odid : OrderId, quantity : Nat]

\* The members and locals keep their types with snapshots in the feed, and
\* only one handler runs at a time.
SnapTypeOK ==
  /\ TypeOK
  /\ spc \in {"idle", "side", "compare", "front", "collect", "apply", "next"}
  /\ spc # "idle" => pc = "idle"
  /\ DOMAIN snapshot = BOOLEAN
  /\ \A s \in BOOLEAN : snapshot[s] \in SUBSET [price : Price, quantity : Nat]
  /\ todo \in SUBSET L2PriceLevel
  /\ qty_to_remove \in Nat
  /\ pending_orders \in Seq(Guess)
  /\ fake_order_id \in Int
  /\ ids_before \subseteq OrderId

\* What processL2Snapshot collected while it compared the levels is still there
\* when it applies it: each order is in the book, once in the list, with at
\* least the quantity that is to go (the assertion of L3PriceLevel::fillOrder).
GuessesApplicable ==
  spc = "apply" =>
    \A i \in iter .. Len(pending_orders) :
      /\ existOrder(side, pending_orders[i].odid)
      /\ pending_orders[i].quantity > 0
      /\ pending_orders[i].quantity <= Remaining(order_map[side][pending_orders[i].odid])
      /\ \A j \in iter .. Len(pending_orders) :
           pending_orders[i].odid = pending_orders[j].odid => i = j

\* The guesses of a side are numbered: the id of the one that the k-th event
\* reports.
GuessId(k) ==
  FirstFakeId + Cardinality({j \in 1 .. k - 1 : events[j].event = "ADD" /\ events[j].is_sell = side})

\* A side that a leading snapshot was applied to has the snapshot's levels and
\* quantities.  The one exception is a level for which a guess was reported
\* whose id an order of the side already had when the snapshot came: addOrder
\* drops it.
SnapshotApplied ==
  Applied =>
    /\ DOMAIN levels[side] \subseteq PricesOf(snapshot[side])
    /\ \A l \in snapshot[side] :
         \/ QtyAt(l.price) = l.quantity
         \/ \E k \in DOMAIN events :
              /\ events[k] = OrderInfo("ADD", NoId, side, l.quantity - QtyAt(l.price), l.price)
              /\ GuessId(k) \in ids_before

=============================================================================
