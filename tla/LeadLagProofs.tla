---------------------------- MODULE LeadLagProofs ---------------------------
(***************************************************************************)
(* Proofs about the book fed by an exchange over two streams, for any ids, *)
(* prices, quantities and any number of requests.                          *)
(***************************************************************************)
EXTENDS RefinementProofs, LeadLag

-----------------------------------------------------------------------------
(* The exchange and its streams.                                           *)

ExchangeOrder == [odid : OrderId, is_sell : BOOLEAN, quantity : 1 .. MaxQty, price : Price]
StreamMessage == [type : Requests, odid : OrderId, is_sell : BOOLEAN, quantity : 1 .. MaxQty,
                  price : Price]

\* What the exchange keeps and publishes has the types the book's messages have.
ExchangeTyped ==
  /\ resting \in Seq(ExchangeOrder)
  /\ taker \in ExchangeOrder \cup {NoTaker}
  /\ order_stream \in Seq(StreamMessage)
  /\ trade_stream \in Seq(TradeMessage)

\* The exchange starts with nothing.
LEMMA ExchangeInitTyped == ExchangeInit => ExchangeTyped
BY DEF ExchangeInit, ExchangeTyped

\* An order that is matched keeps its type while it has something left.
LEMMA TakeFromTyped ==
  ASSUME NEW o \in ExchangeOrder, NEW qty \in Nat, qty < o.quantity
  PROVE  [o EXCEPT !.quantity = @ - qty] \in ExchangeOrder
<1>1. MaxQty \in Nat /\ o.quantity \in 1 .. MaxQty
  BY LevelAssumption DEF ExchangeOrder
<1>2. o.quantity - qty \in 1 .. MaxQty
  BY <1>1
<1> QED
  BY <1>2 DEF ExchangeOrder

\* A message about an order has the type of a message.
LEMMA OrderMsgTyped ==
  ASSUME NEW o \in ExchangeOrder, NEW type \in Requests
  PROVE  OrderMsg(type, o) \in StreamMessage
BY DEF OrderMsg, ExchangeOrder, StreamMessage

\* A fill of the order being matched and a resting one.
LEMMA MatchTyped ==
  ASSUME ExchangeTyped, NEW i \in DOMAIN resting, Match(i)
  PROVE  ExchangeTyped'
<1> DEFINE o   == resting[i]
           qty == MinOf(taker.quantity, o.quantity)
<1>1. /\ taker.quantity > 0
      /\ taker' = IF taker.quantity = qty THEN NoTaker ELSE [taker EXCEPT !.quantity = @ - qty]
      /\ resting' = IF o.quantity = qty THEN EraseAt(resting, i)
                    ELSE [resting EXCEPT ![i].quantity = @ - qty]
      /\ trade_stream' = Append(trade_stream, [quantity |-> qty, price |-> o.price])
      /\ UNCHANGED <<order_stream, open>>
  BY DEF Match
<1>2. resting \in Seq(ExchangeOrder) /\ o \in ExchangeOrder
  BY DEF ExchangeTyped
<1>3. taker \in ExchangeOrder
  BY <1>1 DEF ExchangeTyped, NoTaker
<1>4. MaxQty \in Nat /\ taker.quantity \in 1 .. MaxQty /\ o.quantity \in 1 .. MaxQty
      /\ o.price \in Price
  BY <1>2, <1>3, LevelAssumption DEF ExchangeOrder
<1>5. /\ qty \in 1 .. MaxQty /\ qty \in Nat
      /\ qty <= taker.quantity /\ qty <= o.quantity
  BY <1>4 DEF MinOf
<1>6. [quantity |-> qty, price |-> o.price] \in TradeMessage
  BY <1>4, <1>5 DEF TradeMessage
<1> HIDE DEF qty
<1>7. taker' \in ExchangeOrder \cup {NoTaker}
  BY <1>1, <1>3, <1>4, <1>5, TakeFromTyped
<1>8. resting' \in Seq(ExchangeOrder)
  <2>1. CASE o.quantity = qty
    BY <1>1, <1>2, <2>1, EraseAtList
  <2>2. CASE o.quantity # qty
    <3>1. [o EXCEPT !.quantity = @ - qty] \in ExchangeOrder
      BY <1>2, <1>4, <1>5, <2>2, TakeFromTyped
    <3>2. resting' = [resting EXCEPT ![i] = [o EXCEPT !.quantity = @ - qty]]
      BY <1>1, <2>2
    <3> HIDE DEF o
    <3> QED
      BY <1>2, <3>1, <3>2
  <2> QED
    BY <2>1, <2>2
<1>9. trade_stream' \in Seq(TradeMessage)
  BY <1>1, <1>6 DEF ExchangeTyped
<1> QED
  BY <1>1, <1>7, <1>8, <1>9 DEF ExchangeTyped

\* A request, accepted.
LEMMA RequestTyped ==
  ASSUME ExchangeTyped, NEW o \in ExchangeOrder, NEW type \in Requests,
         order_stream' = Append(order_stream, OrderMsg(type, o)),
         taker' = o \/ taker' = taker,
         resting' = resting \/ \E i \in DOMAIN resting : resting' = EraseAt(resting, i),
         UNCHANGED trade_stream
  PROVE  ExchangeTyped'
<1>1. resting' \in Seq(ExchangeOrder)
  BY EraseAtList DEF ExchangeTyped
<1>2. order_stream' \in Seq(StreamMessage)
  BY OrderMsgTyped DEF ExchangeTyped
<1> QED
  BY <1>1, <1>2 DEF ExchangeTyped

\* What the exchange does keeps the types.
LEMMA ExchangeStepTyped == ExchangeTyped /\ ExchangeStep => ExchangeTyped'
<1> SUFFICES ASSUME ExchangeTyped, ExchangeStep PROVE ExchangeTyped'
  OBVIOUS
<1>1. ASSUME NEW o \in ExchangeOrder, NewOrder(o)
      PROVE  ExchangeTyped'
  BY <1>1, RequestTyped DEF NewOrder, CanRequest
<1>2. ASSUME NEW i \in DOMAIN resting, CancelOrder(i)
      PROVE  ExchangeTyped'
  <2>1. resting[i] \in ExchangeOrder
    BY DEF ExchangeTyped
  <2> QED
    BY <1>2, <2>1, RequestTyped DEF CancelOrder, CanRequest
<1>3. ASSUME NEW i \in DOMAIN resting, NEW quantity \in 1 .. MaxQty, NEW price \in Price,
             ModifyOrder(i, quantity, price)
      PROVE  ExchangeTyped'
  <2>1. resting[i] \in ExchangeOrder
    BY DEF ExchangeTyped
  <2>2. [resting[i] EXCEPT !.quantity = quantity, !.price = price] \in ExchangeOrder
    BY <2>1 DEF ExchangeOrder
  <2> QED
    BY <1>3, <2>2, RequestTyped DEF ModifyOrder, CanRequest
<1>4. CASE Rest
  <2>1. taker \in ExchangeOrder
    BY <1>4 DEF Rest, ExchangeTyped, NoTaker
  <2>2. resting' \in Seq(ExchangeOrder)
    BY <1>4, <2>1 DEF Rest, ExchangeTyped
  <2> QED
    BY <1>4, <2>2 DEF Rest, ExchangeTyped
<1>5. CASE Close
  BY <1>5 DEF Close, ExchangeTyped
<1> QED
  BY <1>1, <1>2, <1>3, <1>4, <1>5, MatchTyped DEF ExchangeStep, ExchangeOrder

\* Receiving a message keeps the types of what is still to come.
LEMMA LLNextTyped == ExchangeTyped /\ [LLNext]_llVars => ExchangeTyped'
<1> SUFFICES ASSUME ExchangeTyped, [LLNext]_llVars PROVE ExchangeTyped'
  OBVIOUS
<1>1. CASE ReceiveOrder
  <2>1. order_stream' \in Seq(StreamMessage)
    BY <1>1 DEF ReceiveOrder, ExchangeTyped
  <2> QED
    BY <1>1, <2>1 DEF ReceiveOrder, ExchangeTyped
<1>2. CASE ReceiveTrade
  <2>1. trade_stream' \in Seq(TradeMessage)
    BY <1>2 DEF ReceiveTrade, ExchangeTyped
  <2> QED
    BY <1>2, <2>1 DEF ReceiveTrade, ExchangeTyped
<1>3. CASE UNCHANGED exchangeVars
  BY <1>3 DEF exchangeVars, ExchangeTyped
<1> QED
  BY <1>1, <1>2, <1>3, ExchangeStepTyped DEF LLNext, LLHandlerStep, llVars

\* A message of the stream is one the book takes.
LEMMA MessageTyped ==
  ASSUME NEW m \in StreamMessage
  PROVE  /\ m.type \in Kinds /\ m.type \in Requests
         /\ m.odid \in OrderId /\ m.is_sell \in BOOLEAN
         /\ \E o \in OrderMessage :
              o.odid = m.odid /\ o.is_sell = m.is_sell /\ o.quantity = m.quantity /\ o.price = m.price
<1> DEFINE o == [odid |-> m.odid, is_sell |-> m.is_sell, quantity |-> m.quantity,
                 price |-> m.price]
<1>1. o \in OrderMessage
  BY DEF OrderMessage, StreamMessage
<1>2. o.odid = m.odid /\ o.is_sell = m.is_sell /\ o.quantity = m.quantity /\ o.price = m.price
  OBVIOUS
<1>3. m.type \in Requests /\ m.odid \in OrderId /\ m.is_sell \in BOOLEAN
  BY DEF StreamMessage
<1> QED
  BY <1>1, <1>2, <1>3, StreamsAssumption

\* A handler looks at four fields of its message.
LEMMA SameFields ==
  ASSUME NEW m, NEW o, o.odid = m.odid, o.is_sell = m.is_sell, o.quantity = m.quantity,
         o.price = m.price
  PROVE  /\ processOrderAddMessage(m) => processOrderAddMessage(o)
         /\ processOrderCancelMessage(m) => processOrderCancelMessage(o)
         /\ processOrderModifyMessage(m) => processOrderModifyMessage(o)
BY DEF processOrderAddMessage, processOrderCancelMessage, processOrderModifyMessage, Activate

\* The book fed by the exchange takes the steps of the book fed by anyone.
LEMMA FeedSteps == ExchangeTyped /\ [LLNext]_llVars => [Next]_vars
<1> SUFFICES ASSUME ExchangeTyped, [LLNext]_llVars PROVE [Next]_vars
  OBVIOUS
<1>1. CASE ReceiveOrder
  <2> DEFINE m == Head(order_stream)
  <2>1. m \in StreamMessage
    BY <1>1 DEF ReceiveOrder, ExchangeTyped
  <2>2. \/ m.type = "ADD" /\ processOrderAddMessage(m)
        \/ m.type = "CANCEL" /\ processOrderCancelMessage(m)
        \/ m.type = "MODIFY" /\ processOrderModifyMessage(m)
    BY <1>1 DEF ReceiveOrder
  <2> HIDE DEF m
  <2>3. PICK o \in OrderMessage :
          o.odid = m.odid /\ o.is_sell = m.is_sell /\ o.quantity = m.quantity /\ o.price = m.price
    BY <2>1, MessageTyped
  <2>4. m.type \in Kinds
    BY <2>1, MessageTyped
  <2>5. Receive
    BY <2>2, <2>3, <2>4, SameFields DEF Receive
  <2> QED
    BY <2>5 DEF Next
<1>2. CASE ReceiveTrade
  <2>1. Head(trade_stream) \in TradeMessage
    BY <1>2 DEF ReceiveTrade, ExchangeTyped
  <2>2. "TRADE" \in Kinds
    BY StreamsAssumption
  <2> QED
    BY <1>2, <2>1, <2>2 DEF ReceiveTrade, Next, Receive
<1>3. CASE LLHandlerStep
  BY <1>3 DEF LLHandlerStep, Next
<1>4. CASE UNCHANGED vars
  BY <1>4
<1> QED
  BY <1>1, <1>2, <1>3, <1>4 DEF LLNext, llVars

\* Whatever the exchange's participants do and however the streams interleave,
\* the book sees a feed that the theorems about Spec cover.
THEOREM FeedIsFeed == LLSpec => Spec
<1>1. LLInit => Init /\ ExchangeTyped
  BY ExchangeInitTyped DEF LLInit
<1> QED
  BY <1>1, LLNextTyped, FeedSteps, PTL DEF LLSpec, Spec

-----------------------------------------------------------------------------
(* What every interleaving of the streams keeps.                           *)

\* The book starts when the session is over.
ClosedFirst ==
  open => pc = "idle" /\ act.kind = "NONE" /\ \A s \in BOOLEAN : DOMAIN order_map[s] = {}

\* An id is new when its ADD message arrives, and an order is on one side only.
FreshIds ==
  /\ DOMAIN order_map[FALSE] \cap DOMAIN order_map[TRUE] = {}
  /\ \A k \in DOMAIN order_stream :
       order_stream[k].type = "ADD" =>
         /\ \A s \in BOOLEAN : order_stream[k].odid \notin DOMAIN order_map[s]
         /\ act.kind = "ADD" => order_stream[k].odid # act.odid
         /\ \A j \in 1 .. k - 1 : order_stream[j].odid # order_stream[k].odid
  /\ act.kind = "ADD" /\ pc # "done" =>
       \A s \in BOOLEAN : act.odid \notin DOMAIN order_map[s]
  /\ act.kind # "MODIFY"

\* The orders that are to leave after a walk have nothing left.
SpentInv ==
  pc \in {"fill", "remove"} =>
    \A k \in DOMAIN orders_to_remove :
      orders_to_remove[k] \in DOMAIN order_map[side]
        => Remaining(order_map[side][orders_to_remove[k]]) = 0

-----------------------------------------------------------------------------
(* Ids stay fresh.                                                         *)

\* What a step of a handler does to the ids: none is new but that of an order
\* that comes to rest.
LEMMA HandlerIds ==
  ASSUME IInv, HandlerStep
  PROVE  /\ pc # "idle"
         /\ act'.kind \in {act.kind, "NONE"}
         /\ act'.kind # "NONE" => act'.odid = act.odid /\ pc # "done"
         /\ ~RestOrder => \A s \in BOOLEAN : DOMAIN order_map'[s] \subseteq DOMAIN order_map[s]
<1> USE DEF IInv
<1>1. act \in Action /\ side \in BOOLEAN
  BY DEF TypeOK
<1>2. ASSUME NEW qty
      PROVE  OrderFilled(act, qty).kind = act.kind /\ OrderFilled(act, qty).odid = act.odid
  BY <1>1 DEF OrderFilled, Action
<1>3. ASSUME NEW id, removeOrder(side, id)
      PROVE  \A s \in BOOLEAN : DOMAIN order_map'[s] \subseteq DOMAIN order_map[s]
  BY <1>1, <1>3, RemoveOrderStep
<1>4. CASE MatchPendingLiqAdd
  <2>1. PICK p \in DOMAIN pending_liq_add_qty[act.is_sell] :
          act' = OrderFilled(act, MinOf(pending_liq_add_qty[act.is_sell][p], Remaining(act)))
    BY <1>4 DEF MatchPendingLiqAdd
  <2> QED
    BY <1>2, <1>4, <2>1 DEF MatchPendingLiqAdd
<1>5. CASE MatchPendingLiqAddDone \/ FillDone \/ RemoveFilledDone
  BY <1>5 DEF MatchPendingLiqAddDone, FillDone, RemoveFilledDone, sideVars
<1>6. CASE Uncross \/ SweepDone
  BY <1>6 DEF Uncross, SweepDone, sideVars
<1>7. CASE Fill
  <2> DEFINE id  == levels[side][cur].orders[iter]
             qty == MinOf(Remaining(act), Remaining(order_map[side][id]))
  <2>1. /\ pc = "fill" /\ act' = OrderFilled(act, qty)
        /\ order_map' = [order_map EXCEPT ![side][id] = OrderFilled(@, qty)]
    BY <1>7 DEF Fill
  <2> HIDE DEF id, qty
  <2>2. \A s \in BOOLEAN : DOMAIN order_map'[s] \subseteq DOMAIN order_map[s]
    BY <2>1 DEF TypeOK
  <2> QED
    BY <1>2, <2>1, <2>2
<1>8. CASE RemoveFilled
  BY <1>3, <1>8 DEF RemoveFilled
<1>9. CASE Sweep
  <2>1. PICK p \in DOMAIN levels[side] : removeOrder(side, Head(levels[side][p].orders))
    BY <1>9 DEF Sweep
  <2> QED
    BY <1>3, <1>9, <2>1 DEF Sweep
<1>10. CASE RestOrder
  BY <1>10 DEF RestOrder
<1>11. CASE TradeMatch
  BY <1>2, <1>11 DEF TradeMatch
<1>12. CASE TradeRest
  <2>1. act'.kind = act.kind /\ act'.odid = act.odid
    BY <1>1, <1>12 DEF TradeRest, Action
  <2> QED
    BY <1>12, <2>1 DEF TradeRest
<1>13. CASE Return
  BY <1>13 DEF Return, Idle, sideVars
<1> QED
  BY <1>4, <1>5, <1>6, <1>7, <1>8, <1>9, <1>10, <1>11, <1>12, <1>13 DEF HandlerStep

\* A step that brings no new id.
LEMMA FreshKept ==
  ASSUME FreshIds, UNCHANGED order_stream,
         \A s \in BOOLEAN : DOMAIN order_map'[s] \subseteq DOMAIN order_map[s],
         act'.kind \in {act.kind, "NONE"},
         act'.kind # "NONE" => act'.odid = act.odid /\ pc # "done"
  PROVE  FreshIds'
BY DEF FreshIds

\* An order that comes to rest was new and is not announced again.
LEMMA RestFresh ==
  ASSUME IInv, FreshIds, RestOrder, UNCHANGED order_stream
  PROVE  FreshIds'
<1> USE DEF IInv
<1> DEFINE s == act.is_sell
           o == [quantity |-> act.quantity, price |-> act.price,
                 filled_quantity |-> act.filled_quantity]
<1>1. /\ pc = "uncross" /\ pc' = "done" /\ act' = act
      /\ UNCHANGED order_map \/ addOrder(s, act.odid, o)
  BY DEF RestOrder
<1>2. act.kind = "ADD"
  BY <1>1 DEF ActInv, FreshIds
<1>3. s \in BOOLEAN /\ DOMAIN order_map = BOOLEAN
  BY DEF TypeOK, Action
<1>4. UNCHANGED order_map \/ order_map' = [order_map EXCEPT ![s] = Put(@, act.odid, o)]
  BY <1>1 DEF addOrder
<1>5. \A t \in BOOLEAN : /\ DOMAIN order_map'[t] \subseteq DOMAIN order_map[t] \cup {act.odid}
                         /\ t # s => order_map'[t] = order_map[t]
  BY <1>3, <1>4 DEF Put
<1>6. \A t \in BOOLEAN : act.odid \notin DOMAIN order_map[t]
  BY <1>1, <1>2 DEF FreshIds
<1>7. DOMAIN order_map'[FALSE] \cap DOMAIN order_map'[TRUE] = {}
  <2>1. DOMAIN order_map[FALSE] \cap DOMAIN order_map[TRUE] = {}
    BY DEF FreshIds
  <2>2. CASE s = TRUE
    <3>1. /\ DOMAIN order_map'[TRUE] \subseteq DOMAIN order_map[TRUE] \cup {act.odid}
          /\ order_map'[FALSE] = order_map[FALSE]
      BY <1>5, <2>2
    <3>2. act.odid \notin DOMAIN order_map[FALSE]
      BY <1>6
    <3> QED
      BY <2>1, <3>1, <3>2
  <2>3. CASE s = FALSE
    <3>1. /\ DOMAIN order_map'[FALSE] \subseteq DOMAIN order_map[FALSE] \cup {act.odid}
          /\ order_map'[TRUE] = order_map[TRUE]
      BY <1>5, <2>3
    <3>2. act.odid \notin DOMAIN order_map[TRUE]
      BY <1>6
    <3> QED
      BY <2>1, <3>1, <3>2
  <2> QED
    BY <1>3, <2>2, <2>3
<1>8. ASSUME NEW k \in DOMAIN order_stream, order_stream[k].type = "ADD"
      PROVE  \A t \in BOOLEAN : order_stream[k].odid \notin DOMAIN order_map'[t]
  BY <1>2, <1>5, <1>8 DEF FreshIds
<1> QED
  BY <1>1, <1>7, <1>8 DEF FreshIds

\* The first message is received: an ADD brings an id that is nowhere else.
LEMMA ReceiveFresh ==
  ASSUME IInv, ExchangeTyped, "MODIFY" \notin Requests, FreshIds, ReceiveOrder
  PROVE  FreshIds'
<1> DEFINE m == Head(order_stream)
           n == Len(order_stream)
<1>1. /\ order_stream \in Seq(StreamMessage) /\ order_stream # << >>
      /\ order_stream' = Tail(order_stream)
  BY DEF ReceiveOrder, ExchangeTyped
<1>2. /\ n \in Nat \ {0} /\ m = order_stream[1] /\ m \in StreamMessage
      /\ DOMAIN order_stream = 1 .. n /\ DOMAIN order_stream' = 1 .. n - 1
      /\ \A k \in 1 .. n - 1 : order_stream'[k] = order_stream[k + 1]
  BY <1>1
<1>3. m.type # "MODIFY" /\ m.odid \in OrderId
  BY <1>2, MessageTyped
<1>4. \/ m.type = "ADD" /\ processOrderAddMessage(m)
      \/ processOrderCancelMessage(m)
  BY <1>3 DEF ReceiveOrder
<1> HIDE DEF m, n
<1>5. pc = "idle" /\ act.kind # "MODIFY"
  BY <1>4 DEF processOrderAddMessage, processOrderCancelMessage, FreshIds
<1>6. \A s \in BOOLEAN : DOMAIN order_map'[s] \subseteq DOMAIN order_map[s]
  <2>1. CASE UNCHANGED order_map
    BY <2>1
  <2>2. CASE removeOrder(m.is_sell, m.odid)
    BY <1>2, <2>2, MessageTyped, RemoveOrderStep DEF IInv
  <2> QED
    BY <1>4, <2>1, <2>2 DEF processOrderAddMessage, processOrderCancelMessage,
       processOrderCancel, sideVars
<1>7. ASSUME NEW k \in 1 .. n - 1, order_stream'[k].type = "ADD"
      PROVE  /\ \A s \in BOOLEAN : order_stream'[k].odid \notin DOMAIN order_map[s]
             /\ act.kind = "ADD" => order_stream'[k].odid # act.odid
             /\ order_stream'[k].odid # m.odid
             /\ \A j \in 1 .. k - 1 : order_stream'[j].odid # order_stream'[k].odid
  <2>1. k + 1 \in DOMAIN order_stream /\ order_stream'[k] = order_stream[k + 1]
    BY <1>2
  <2>2. \A j \in 1 .. (k + 1) - 1 : order_stream[j].odid # order_stream[k + 1].odid
    BY <1>7, <2>1 DEF FreshIds
  <2>3. 1 \in 1 .. (k + 1) - 1
    BY <1>2
  <2>4. ASSUME NEW j \in 1 .. k - 1
        PROVE  order_stream'[j].odid # order_stream'[k].odid
    <3>1. j + 1 \in 1 .. (k + 1) - 1 /\ j \in 1 .. n - 1
      BY <1>2
    <3>2. order_stream'[j] = order_stream[j + 1]
      BY <1>2, <3>1
    <3> QED
      BY <2>1, <2>2, <3>1, <3>2
  <2> QED
    BY <1>2, <1>7, <2>1, <2>2, <2>3, <2>4 DEF FreshIds
<1>8. CASE m.type = "ADD" /\ processOrderAddMessage(m)
  <2>1. act'.kind = "ADD" /\ act'.odid = m.odid /\ UNCHANGED order_map
    BY <1>8 DEF processOrderAddMessage, Activate, sideVars
  <2>2. 1 \in DOMAIN order_stream
    BY <1>2
  <2>3. \A s \in BOOLEAN : m.odid \notin DOMAIN order_map[s]
    BY <1>2, <1>8, <2>2 DEF FreshIds
  <2> QED
    BY <1>2, <1>7, <2>1, <2>3 DEF FreshIds
<1>9. CASE processOrderCancelMessage(m)
  <2>1. UNCHANGED act
    BY <1>9 DEF processOrderCancelMessage
  <2>2. act.kind = "ADD" => \A s \in BOOLEAN : act.odid \notin DOMAIN order_map[s]
    BY <1>5 DEF FreshIds
  <2> QED
    BY <1>2, <1>6, <1>7, <2>1, <2>2 DEF FreshIds
<1> QED
  BY <1>4, <1>8, <1>9

\* An order message is published with an id that is new.
LEMMA PublishFresh ==
  ASSUME ExchangeTyped, "MODIFY" \notin Requests, ClosedFirst, FreshIds, ExchangeStep,
         UNCHANGED vars
  PROVE  ClosedFirst' /\ FreshIds'
<1> DEFINE n == Len(order_stream)
<1>1. UNCHANGED <<pc, act, order_map>>
  BY DEF vars, sideVars
<1>2. order_stream \in Seq(StreamMessage) /\ n \in Nat /\ DOMAIN order_stream = 1 .. n
  BY DEF ExchangeTyped
<1>3. CASE UNCHANGED order_stream
  <2>1. open' => open
    BY <1>3 DEF ExchangeStep, NewOrder, CancelOrder, ModifyOrder, Match, Rest, Close
  <2> QED
    BY <1>1, <1>3, <2>1 DEF ClosedFirst, FreshIds
<1>4. ASSUME NEW type \in Requests, NEW o,
             order_stream' = Append(order_stream, OrderMsg(type, o)), open, open' = open,
             type = "ADD" => \A k \in DOMAIN order_stream : order_stream[k].odid # o.odid
      PROVE  ClosedFirst' /\ FreshIds'
  <2> DEFINE m == OrderMsg(type, o)
  <2>1. m.type = type /\ m.odid = o.odid
    BY DEF OrderMsg
  <2> HIDE DEF m
  <2>2. /\ DOMAIN order_stream' = 1 .. n + 1 /\ order_stream'[n + 1] = m
        /\ \A k \in 1 .. n : order_stream'[k] = order_stream[k]
    BY <1>2, <1>4 DEF m
  <2>3. act.kind = "NONE" /\ \A s \in BOOLEAN : DOMAIN order_map[s] = {}
    BY <1>4 DEF ClosedFirst
  <2> HIDE DEF n
  <2>4. ASSUME NEW k \in 1 .. n + 1, order_stream'[k].type = "ADD", NEW j \in 1 .. k - 1
        PROVE  order_stream'[j].odid # order_stream'[k].odid
    <3>1. j \in 1 .. n /\ (k \in 1 .. n \/ k = n + 1)
      BY <1>2
    <3>2. CASE k \in 1 .. n
      BY <1>2, <2>2, <2>4, <3>1, <3>2 DEF FreshIds
    <3>3. CASE k = n + 1
      BY <1>2, <1>4, <2>1, <2>2, <2>4, <3>1, <3>3
    <3> QED
      BY <3>1, <3>2, <3>3
  <2>5. FreshIds'
    BY <1>1, <2>2, <2>3, <2>4 DEF FreshIds
  <2> QED
    BY <1>1, <1>4, <2>5 DEF ClosedFirst
<1>5. ASSUME NEW o, NewOrder(o)
      PROVE  ClosedFirst' /\ FreshIds'
  BY <1>4, <1>5 DEF NewOrder, CanRequest
<1>6. ASSUME NEW i, CancelOrder(i)
      PROVE  ClosedFirst' /\ FreshIds'
  BY <1>4, <1>6 DEF CancelOrder, CanRequest
<1>7. \A i, quantity, price : ~ModifyOrder(i, quantity, price)
  BY DEF ModifyOrder, CanRequest
<1>8. ASSUME NEW i, Match(i)
      PROVE  UNCHANGED order_stream
  BY <1>8 DEF Match
<1>9. Rest \/ Close => UNCHANGED order_stream
  BY DEF Rest, Close
<1> QED
  BY <1>3, <1>5, <1>6, <1>7, <1>8, <1>9 DEF ExchangeStep

\* Every step keeps the ids fresh.
LEMMA FreshStep ==
  ASSUME IInv, ExchangeTyped, "MODIFY" \notin Requests, ClosedFirst, FreshIds, [LLNext]_llVars
  PROVE  ClosedFirst' /\ FreshIds'
<1>1. CASE ExchangeStep /\ UNCHANGED vars
  BY <1>1, PublishFresh
<1>2. CASE ReceiveOrder
  BY <1>2, ReceiveFresh DEF ReceiveOrder, ClosedFirst
<1>3. CASE ReceiveTrade
  <2>1. /\ UNCHANGED <<open, order_stream, order_map>> /\ ~open /\ act'.kind = "TRADE"
    BY <1>3 DEF ReceiveTrade, processTradeMessage, Activate, sideVars
  <2> QED
    BY <2>1 DEF ClosedFirst, FreshIds
<1>4. CASE LLHandlerStep
  <2>1. HandlerStep /\ UNCHANGED <<open, order_stream>>
    BY <1>4 DEF LLHandlerStep, exchangeVars
  <2>2. ~open
    BY <2>1, HandlerIds DEF ClosedFirst
  <2>3. FreshIds'
    BY <2>1, HandlerIds, FreshKept, RestFresh
  <2> QED
    BY <2>1, <2>2, <2>3 DEF ClosedFirst
<1>5. CASE UNCHANGED llVars
  <2>1. UNCHANGED <<open, order_stream, pc, act, order_map>>
    BY <1>5 DEF llVars, vars, sideVars, exchangeVars
  <2> QED
    BY <2>1 DEF ClosedFirst, FreshIds
<1> QED
  BY <1>1, <1>2, <1>3, <1>4, <1>5 DEF LLNext

-----------------------------------------------------------------------------
(* The orders that are to leave are spent.                                 *)

\* The order a fill is about is in the book.
LEMMA FillsKnown ==
  ASSUME IInv, Fill
  PROVE  LET id == levels[side][cur].orders[iter]
         IN  /\ id \in DOMAIN order_map[side] /\ id \in OrderId
             /\ order_map[side][id] \in Order
<1> USE DEF IInv
<1> DEFINE list == levels[side][cur].orders
<1>1. pc = "fill" /\ iter <= Len(list)
  BY DEF Fill
<1>2. side \in BOOLEAN /\ iter \in Nat \ {0}
  BY DEF TypeOK
<1>3. cur \in DOMAIN levels[side] /\ list \in Seq(OrderId)
  BY <1>1, <1>2 DEF WalkInv, IsBegin, TypeOK, IsMap, L3PriceLevel
<1>4. iter \in DOMAIN list
  BY <1>1, <1>2, <1>3
<1> QED
  BY <1>2, <1>3, <1>4 DEF BookConsistent, SideConsistent, TypeOK, IsMap

\* A fill lists the order for removal exactly when it leaves nothing.
LEMMA FillSpent ==
  ASSUME IInv, SpentInv, Fill
  PROVE  SpentInv'
<1> USE DEF IInv
<1> DEFINE list == levels[side][cur].orders
           id   == list[iter]
           o    == order_map[side][id]
           qty  == MinOf(Remaining(act), Remaining(o))
<1>1. /\ pc = "fill" /\ iter <= Len(list) /\ side' = side
      /\ order_map' = [order_map EXCEPT ![side][id] = OrderFilled(@, qty)]
      /\ orders_to_remove' = IF Remaining(o) = qty THEN Append(orders_to_remove, id)
                             ELSE orders_to_remove
  BY DEF Fill
<1>2. side \in BOOLEAN /\ DOMAIN order_map = BOOLEAN /\ orders_to_remove \in Seq(OrderId)
  BY DEF TypeOK
<1>3. id \in DOMAIN order_map[side] /\ o \in Order
  BY <1>1, FillsKnown
<1>4. Remaining(o) \in Nat
  BY <1>2, <1>3, SidesOK DEF SideOK, Remaining, Order
<1>5. qty \in Nat /\ qty <= Remaining(o)
  BY <1>4, ActNat, MinOfNat
<1>6. Remaining(OrderFilled(o, qty)) = Remaining(o) - qty
  BY <1>3, <1>5 DEF Order, Remaining, OrderFilled
<1> HIDE DEF qty, id
<1>7. /\ DOMAIN order_map'[side] = DOMAIN order_map[side]
      /\ order_map'[side][id] = OrderFilled(o, qty)
      /\ \A x \in DOMAIN order_map[side] : x # id => order_map'[side][x] = order_map[side][x]
  BY <1>1, <1>2, <1>3
<1> HIDE DEF o
<1>8. ASSUME NEW x \in DOMAIN order_map[side], Remaining(order_map[side][x]) = 0
      PROVE  Remaining(order_map'[side][x]) = 0
  BY <1>4, <1>5, <1>6, <1>7, <1>8 DEF o
<1>9. ASSUME NEW k \in DOMAIN orders_to_remove',
             orders_to_remove'[k] \in DOMAIN order_map'[side]
      PROVE  Remaining(order_map'[side][orders_to_remove'[k]]) = 0
  <2>1. CASE k \in DOMAIN orders_to_remove /\ orders_to_remove'[k] = orders_to_remove[k]
    BY <1>1, <1>7, <1>8, <1>9, <2>1 DEF SpentInv
  <2>2. CASE Remaining(o) = qty /\ orders_to_remove'[k] = id
    BY <1>4, <1>6, <1>7, <2>2
  <2>3. \/ k \in DOMAIN orders_to_remove /\ orders_to_remove'[k] = orders_to_remove[k]
        \/ Remaining(o) = qty /\ orders_to_remove'[k] = id
    BY <1>1, <1>2, <1>9
  <2> QED
    BY <2>1, <2>2, <2>3
<1> QED
  BY <1>1, <1>9 DEF SpentInv

\* A spent order is removed: the ones still listed are spent as before.
LEMMA RemoveSpent ==
  ASSUME IInv, SpentInv, RemoveFilled
  PROVE  SpentInv'
<1> USE DEF IInv
<1>1. /\ pc = "remove" /\ side' = side /\ orders_to_remove # << >>
      /\ removeOrder(side, Head(orders_to_remove))
      /\ orders_to_remove' = Tail(orders_to_remove)
  BY DEF RemoveFilled
<1>2. side \in BOOLEAN /\ orders_to_remove \in Seq(OrderId)
  BY DEF TypeOK
<1>3. \A k \in DOMAIN orders_to_remove' :
        k + 1 \in DOMAIN orders_to_remove /\ orders_to_remove'[k] = orders_to_remove[k + 1]
  BY <1>1, <1>2
<1>4. \A x \in DOMAIN order_map'[side] :
        x \in DOMAIN order_map[side] /\ order_map'[side][x] = order_map[side][x]
  BY <1>1, <1>2, RemoveOrderStep
<1> QED
  BY <1>1, <1>3, <1>4 DEF SpentInv

\* Every step keeps the listed orders spent.
LEMMA SpentStep == IInv /\ SpentInv /\ [Next]_vars => SpentInv'
<1> SUFFICES ASSUME IInv, SpentInv, [Next]_vars PROVE SpentInv'
  OBVIOUS
<1>1. CASE pc' \notin {"fill", "remove"}
  BY <1>1 DEF SpentInv
<1>2. CASE orders_to_remove' = << >>
  BY <1>2 DEF SpentInv
<1>3. CASE pc \in {"fill", "remove"} /\ UNCHANGED <<side, order_map, orders_to_remove>>
  BY <1>3 DEF SpentInv
<1>4. \/ pc' \notin {"fill", "remove"}
      \/ orders_to_remove' = << >>
      \/ pc \in {"fill", "remove"} /\ UNCHANGED <<side, order_map, orders_to_remove>>
      \/ Fill \/ RemoveFilled
  <2>1. CASE Receive
    BY <2>1 DEF Receive, processOrderAddMessage, processOrderCancelMessage,
       processOrderModifyMessage, processTradeMessage
  <2>2. CASE HandlerStep
    BY <2>2 DEF HandlerStep, MatchPendingLiqAdd, MatchPendingLiqAddDone, Uncross, WalkLevel,
       FillDone, RemoveFilledDone, RestOrder, TradeMatch, Sweep, SweepDone, TradeRest, Return,
       sideVars, loopVars
  <2>3. CASE UNCHANGED vars
    BY <2>3 DEF vars, sideVars, loopVars
  <2> QED
    BY <2>1, <2>2, <2>3 DEF Next
<1> QED
  BY <1>1, <1>2, <1>3, <1>4, FillSpent, RemoveSpent

-----------------------------------------------------------------------------
(* The order stream alone.  The exchange's session is a path: x, y are     *)
(* states of it, each with the trades published and the number of messages *)
(* seen, and M is the list of all messages.                                *)

PathStart == [resting |-> << >>, taker |-> NoTaker, trades |-> << >>, seen |-> 0]

\* The exchange now, after the messages M.
PathEnd(M) ==
  [resting |-> resting, taker |-> taker, trades |-> trade_stream, seen |-> Len(M)]

PathState == [resting : Seq(ExchangeOrder), taker : ExchangeOrder \cup {NoTaker},
              trades : Seq(TradeMessage), seen : Nat]

\* Resting order o crosses with t.
CrossesWith(t, o) == o.is_sell # t.is_sell /\ ~Before(o.is_sell, t.price, o.price)

\* The i-th order of r is the first that t is matched with.
MatchesFirst(r, t, i) ==
  /\ CrossesWith(t, r[i])
  /\ \A j \in DOMAIN r :
       CrossesWith(t, r[j]) => \/ Before(r[i].is_sell, r[i].price, r[j].price)
                               \/ r[i].price = r[j].price /\ i <= j

OrderOf(m) == [odid |-> m.odid, is_sell |-> m.is_sell, quantity |-> m.quantity,
               price |-> m.price]

\* NewOrder, Match and Rest, from x to y.
Sent(M, x, y) ==
  /\ x.taker.quantity = 0
  /\ x.seen + 1 \in DOMAIN M
  /\ y = [resting |-> x.resting, taker |-> OrderOf(M[x.seen + 1]), trades |-> x.trades,
          seen |-> x.seen + 1]

TakerAfter(t, qty) ==
  IF t.quantity = qty THEN NoTaker ELSE [t EXCEPT !.quantity = @ - qty]
RestingAfter(r, i, qty) ==
  IF r[i].quantity = qty THEN EraseAt(r, i) ELSE [r EXCEPT ![i].quantity = @ - qty]

Matched(x, y, i) ==
  LET qty == MinOf(x.taker.quantity, x.resting[i].quantity)
  IN  /\ x.taker.quantity > 0
      /\ i \in DOMAIN x.resting
      /\ MatchesFirst(x.resting, x.taker, i)
      /\ y = [resting |-> RestingAfter(x.resting, i, qty),
              taker   |-> TakerAfter(x.taker, qty),
              trades  |-> Append(x.trades, [quantity |-> qty, price |-> x.resting[i].price]),
              seen    |-> x.seen]

Rested(x, y) ==
  /\ x.taker.quantity > 0
  /\ \A i \in DOMAIN x.resting : ~CrossesWith(x.taker, x.resting[i])
  /\ y = [resting |-> Append(x.resting, x.taker), taker |-> NoTaker, trades |-> x.trades,
          seen |-> x.seen]

PathStep(M, x, y) == Sent(M, x, y) \/ (\E i \in DOMAIN x.resting : Matched(x, y, i)) \/ Rested(x, y)

\* h[0], ..., h[n] is the exchange's path so far.
IsPath(M, h, n) ==
  /\ M \in Seq(StreamMessage)
  /\ n \in Nat
  /\ \A k \in 0 .. n : h[k] \in PathState
  /\ h[0] = PathStart
  /\ \A k \in 0 .. n - 1 : PathStep(M, h[k], h[k + 1])

\* The containers L and M of side s have the orders of r with something left,
\* in the order they have in r.
Agrees(L, M, s, r) ==
  /\ \A k \in DOMAIN r :
       r[k].is_sell = s => /\ r[k].odid \in DOMAIN M
                           /\ r[k].price = M[r[k].odid].price
                           /\ r[k].quantity = Remaining(M[r[k].odid])
  /\ \A id \in DOMAIN M :
       Remaining(M[id]) > 0 => \E k \in DOMAIN r : r[k].is_sell = s /\ r[k].odid = id
  /\ \A k, l \in DOMAIN r :
       /\ r[k].is_sell = s /\ r[l].is_sell = s
       => /\ r[k].odid = r[l].odid => k = l
          /\ k < l /\ r[k].price = r[l].price
               => Precedes(L[r[k].price].orders, r[k].odid, r[l].odid)

\* The trades of a list at a price, and what they add up to.
PlacesAt(trades, p) == {k \in DOMAIN trades : trades[k].price = p}
SumAt(trades, p) ==
  SumFunctionOnSet([k \in DOMAIN trades |-> trades[k].quantity], PlacesAt(trades, p))
Expected(trades) == [p \in {q \in Price : PlacesAt(trades, q) # {}} |-> SumAt(trades, p)]

\* What is left of the order being handled.
Handled ==
  IF act.kind = "ADD" /\ pc # "done" /\ Remaining(act) > 0
  THEN [odid |-> act.odid, is_sell |-> act.is_sell, quantity |-> Remaining(act),
        price |-> act.price]
  ELSE NoTaker

\* The book is where the exchange was at x.
BookAt(x) ==
  /\ x.taker = Handled
  /\ \A s \in BOOLEAN : /\ Agrees(levels[s], order_map[s], s, x.resting)
                        /\ pending_liq_remove_qty[s] = Expected(x.trades)

\* The messages of M after the first a are still to come.
ToCome(M, a) ==
  /\ Len(order_stream) + a = Len(M)
  /\ \A k \in DOMAIN order_stream : order_stream[k] = M[a + k]

\* The book follows the exchange's path and is at its i-th state.
PathInv ==
  \E M, h, n, i :
    /\ IsPath(M, h, n)
    /\ h[n] = PathEnd(M)
    /\ i \in 0 .. n
    /\ open => i = 0
    /\ ~open => taker.quantity = 0
    /\ ToCome(M, h[i].seen)
    /\ BookAt(h[i])

\* Without trades nothing is guessed, and only new orders are handled: the
\* level being walked crosses with the order.
OrdersOnly ==
  /\ act.kind \in {"NONE", "ADD"}
  /\ pc = "idle" => act.kind = "NONE"
  /\ \A s \in BOOLEAN : DOMAIN pending_liq_add_qty[s] = {}
  /\ pc \in {"fill", "remove"} => side = ~act.is_sell
  /\ pc = "fill" => ~Before(side, act.price, cur)

-----------------------------------------------------------------------------
(* The trades that are expected.                                           *)

\* One trade more is expected.
LEMMA ExpectedAppend ==
  ASSUME NEW trades \in Seq(TradeMessage), NEW qty \in 1 .. MaxQty, NEW p \in Price
  PROVE  Expected(Append(trades, [quantity |-> qty, price |-> p]))
           = Increase(Expected(trades), p, qty)
<1> DEFINE t   == [quantity |-> qty, price |-> p]
           n   == Len(trades)
           all == Append(trades, t)
           f   == [k \in DOMAIN trades |-> trades[k].quantity]
           g   == [k \in DOMAIN all |-> all[k].quantity]
<1>1. /\ n \in Nat /\ n + 1 \notin 1 .. n /\ DOMAIN trades = 1 .. n /\ DOMAIN all = 1 .. n + 1
      /\ \A k \in 1 .. n : all[k] = trades[k] /\ k \in 1 .. n + 1
      /\ all[n + 1] = t /\ n + 1 \in 1 .. n + 1
      /\ \A k \in 1 .. n + 1 : k = n + 1 \/ k \in 1 .. n
      /\ t.price = p /\ t.quantity = qty
  OBVIOUS
<1>2. \A k \in 1 .. n : trades[k].quantity \in Int
  <2> SUFFICES ASSUME NEW k \in 1 .. n PROVE trades[k].quantity \in Int
    OBVIOUS
  <2>1. trades[k] \in TradeMessage /\ MaxQty \in Int
    BY <1>1, LevelAssumption
  <2> QED
    BY <2>1 DEF TradeMessage
<1> HIDE DEF all, t, n
<1>3. /\ \A k \in 1 .. n : g[k] = f[k] /\ f[k] \in Int
      /\ g[n + 1] = qty /\ qty \in Int
  BY <1>1, <1>2
<1> HIDE DEF f, g
<1>4. ASSUME NEW q
      PROVE  /\ PlacesAt(trades, q) \subseteq 1 .. n
             /\ IsFiniteSet(PlacesAt(trades, q))
             /\ PlacesAt(all, q) = IF q = p THEN PlacesAt(trades, q) \cup {n + 1}
                                   ELSE PlacesAt(trades, q)
  <2>1. PlacesAt(trades, q) \subseteq 1 .. n
    BY <1>1 DEF PlacesAt
  <2>2. IsFiniteSet(1 .. n)
    BY <1>1, FS_Interval
  <2>3. IsFiniteSet(PlacesAt(trades, q))
    BY <2>1, <2>2, FS_Subset
  <2>4. PlacesAt(all, q) = {k \in 1 .. n + 1 : all[k].price = q}
    BY <1>1 DEF PlacesAt
  <2>5. PlacesAt(trades, q) = {k \in 1 .. n : all[k].price = q}
    BY <1>1 DEF PlacesAt
  <2>6. all[n + 1].price = p /\ 1 .. n + 1 = (1 .. n) \cup {n + 1}
    BY <1>1
  <2> QED
    BY <2>1, <2>3, <2>4, <2>5, <2>6
<1>5. SumAt(all, p) = SumAt(trades, p) + qty
  <2> DEFINE S == PlacesAt(trades, p)
  <2>1. S \subseteq 1 .. n /\ IsFiniteSet(S) /\ PlacesAt(all, p) = S \cup {n + 1}
    BY <1>4
  <2>2. n + 1 \notin S /\ \A x \in S \cup {n + 1} : g[x] \in Int
    BY <1>1, <1>3, <2>1
  <2>3. \A x \in S : f[x] \in Int /\ g[x] = f[x]
    BY <1>3, <2>1
  <2> HIDE DEF S
  <2>4. SumFunctionOnSet(g, S \cup {n + 1}) = SumFunctionOnSet(g, S) + g[n + 1]
    BY <2>1, <2>2, SumInsert
  <2>5. SumFunctionOnSet(g, S) = SumFunctionOnSet(f, S)
    BY <2>1, <2>3, SumSame
  <2> QED
    BY <1>3, <2>1, <2>4, <2>5 DEF SumAt, f, g, S
<1>6. ASSUME NEW q, q # p
      PROVE  SumAt(all, q) = SumAt(trades, q)
  <2> DEFINE S == PlacesAt(trades, q)
  <2>1. S \subseteq 1 .. n /\ IsFiniteSet(S) /\ PlacesAt(all, q) = S
    BY <1>4, <1>6
  <2>2. \A x \in S : f[x] \in Int /\ g[x] = f[x]
    BY <1>3, <2>1
  <2> HIDE DEF S
  <2>3. SumFunctionOnSet(g, S) = SumFunctionOnSet(f, S)
    BY <2>1, <2>2, SumSame
  <2> QED
    BY <2>1, <2>3 DEF SumAt, f, g, S
<1>7. PlacesAt(trades, p) = {} => SumAt(trades, p) = 0
  <2>1. IsFiniteSet(PlacesAt(trades, p)) /\ PlacesAt(trades, p) \subseteq 1 .. n
    BY <1>4
  <2>2. \A x \in PlacesAt(trades, p) : f[x] \in Int
    BY <1>3, <2>1
  <2> QED
    BY <2>1, <2>2, SumInt DEF SumAt, f
<1> DEFINE E == Expected(trades)
           F == Expected(all)
           D == {q \in Price : PlacesAt(trades, q) # {}}
<1>8. DOMAIN E = D /\ \A q \in D : E[q] = SumAt(trades, q)
  BY DEF Expected
<1>9. F = [q \in {x \in Price : PlacesAt(all, x) # {}} |-> SumAt(all, q)]
  BY DEF Expected
<1>10. {x \in Price : PlacesAt(all, x) # {}} = D \cup {p}
  BY <1>4
<1>11. \A q \in D \cup {p} : SumAt(all, q) =
         IF q = p THEN (IF p \in D THEN E[p] ELSE 0) + qty ELSE E[q]
  BY <1>5, <1>6, <1>7, <1>8
<1> HIDE DEF D, E, F
<1>12. Increase(E, p, qty) =
         [q \in D \cup {p} |-> IF q = p THEN (IF p \in D THEN E[p] ELSE 0) + qty ELSE E[q]]
  BY <1>8 DEF Increase, Put
<1>13. F = Increase(E, p, qty)
  BY <1>9, <1>10, <1>11, <1>12
<1> QED
  BY <1>13 DEF E, F, all, t

-----------------------------------------------------------------------------
(* The book and the exchange change together.                              *)

\* r2 is part of r, in the same order: at[k] is the place in r of what r2 has
\* at k.
PartOf(r2, r, at) ==
  /\ at \in [DOMAIN r2 -> DOMAIN r]
  /\ \A k, l \in DOMAIN r2 : k < l => at[k] < at[l]
  /\ \A k, l \in DOMAIN r2 : at[k] = at[l] => k = l
  /\ \A k \in DOMAIN r2 : /\ r2[k].odid = r[at[k]].odid
                          /\ r2[k].is_sell = r[at[k]].is_sell
                          /\ r2[k].price = r[at[k]].price

\* A side L2, M2 whose orders with something left are those at places of r that
\* r2 keeps agrees with r2.
LEMMA AgreesPart ==
  ASSUME NEW L, NEW M, NEW s, NEW r, Agrees(L, M, s, r),
         NEW L2, NEW M2, NEW r2, NEW at, PartOf(r2, r, at),
         \A k \in DOMAIN r2 :
           r2[k].is_sell = s => /\ r2[k].odid \in DOMAIN M2
                                /\ M2[r2[k].odid].price = M[r2[k].odid].price
                                /\ r2[k].quantity = Remaining(M2[r2[k].odid]),
         \A id \in DOMAIN M2 :
           Remaining(M2[id]) > 0 =>
             /\ id \in DOMAIN M /\ Remaining(M[id]) > 0
             /\ \A j \in DOMAIN r :
                  r[j].is_sell = s /\ r[j].odid = id => \E k \in DOMAIN r2 : at[k] = j,
         \A k, l \in DOMAIN r2 :
           /\ r2[k].is_sell = s /\ r2[l].is_sell = s
           /\ Precedes(L[r2[k].price].orders, r2[k].odid, r2[l].odid)
           => Precedes(L2[r2[k].price].orders, r2[k].odid, r2[l].odid)
  PROVE  Agrees(L2, M2, s, r2)
<1>1. ASSUME NEW k \in DOMAIN r2, r2[k].is_sell = s
      PROVE  /\ r2[k].odid \in DOMAIN M2
             /\ r2[k].price = M2[r2[k].odid].price
             /\ r2[k].quantity = Remaining(M2[r2[k].odid])
  <2>1. at[k] \in DOMAIN r /\ r[at[k]].is_sell = s
    BY <1>1 DEF PartOf
  <2>2. r[at[k]].price = M[r[at[k]].odid].price
    BY <2>1 DEF Agrees
  <2> QED
    BY <1>1, <2>2 DEF PartOf
<1>2. ASSUME NEW id \in DOMAIN M2, Remaining(M2[id]) > 0
      PROVE  \E k \in DOMAIN r2 : r2[k].is_sell = s /\ r2[k].odid = id
  <2>1. id \in DOMAIN M /\ Remaining(M[id]) > 0
    BY <1>2
  <2>2. PICK j \in DOMAIN r : r[j].is_sell = s /\ r[j].odid = id
    BY <2>1 DEF Agrees
  <2>3. PICK k \in DOMAIN r2 : at[k] = j
    BY <1>2, <2>2
  <2> QED
    BY <2>2, <2>3 DEF PartOf
<1>3. ASSUME NEW k \in DOMAIN r2, NEW l \in DOMAIN r2, r2[k].is_sell = s, r2[l].is_sell = s
      PROVE  /\ r2[k].odid = r2[l].odid => k = l
             /\ k < l /\ r2[k].price = r2[l].price
                  => Precedes(L2[r2[k].price].orders, r2[k].odid, r2[l].odid)
  <2>1. /\ at[k] \in DOMAIN r /\ at[l] \in DOMAIN r
        /\ r[at[k]].is_sell = s /\ r[at[l]].is_sell = s
    BY <1>3 DEF PartOf
  <2>2. /\ r[at[k]].odid = r[at[l]].odid => at[k] = at[l]
        /\ at[k] < at[l] /\ r[at[k]].price = r[at[l]].price
             => Precedes(L[r[at[k]].price].orders, r[at[k]].odid, r[at[l]].odid)
    BY <2>1 DEF Agrees
  <2>3. r2[k].odid = r2[l].odid => k = l
    BY <2>2 DEF PartOf
  <2>4. ASSUME k < l, r2[k].price = r2[l].price
        PROVE  Precedes(L2[r2[k].price].orders, r2[k].odid, r2[l].odid)
    <3>1. Precedes(L[r2[k].price].orders, r2[k].odid, r2[l].odid)
      BY <2>2, <2>4 DEF PartOf
    <3> QED
      BY <1>3, <3>1
  <2> QED
    BY <2>3, <2>4
<1> QED
  BY <1>1, <1>2, <1>3 DEF Agrees

\* A list is part of itself, also if quantities change.
LEMMA PartSame ==
  ASSUME NEW r, NEW r2, DOMAIN r2 = DOMAIN r,
         \A k \in DOMAIN r : /\ r2[k].odid = r[k].odid
                             /\ r2[k].is_sell = r[k].is_sell
                             /\ r2[k].price = r[k].price
  PROVE  LET at == [k \in DOMAIN r |-> k]
         IN  PartOf(r2, r, at) /\ \A j \in DOMAIN r : at[j] = j
BY DEF PartOf

\* A list without one place is part of the list.
LEMMA PartErase ==
  ASSUME NEW S, NEW r \in Seq(S), NEW i \in DOMAIN r
  PROVE  LET r2 == EraseAt(r, i)
             at == [k \in DOMAIN r2 |-> IF k < i THEN k ELSE k + 1]
         IN  /\ PartOf(r2, r, at)
             /\ \A k \in DOMAIN r2 : r2[k] = r[at[k]] /\ at[k] # i
             /\ \A j \in DOMAIN r : j # i => \E k \in DOMAIN r2 : at[k] = j
<1> DEFINE n  == Len(r)
           r2 == EraseAt(r, i)
           at == [k \in DOMAIN r2 |-> IF k < i THEN k ELSE k + 1]
<1>1. /\ n \in Nat /\ DOMAIN r = 1 .. n /\ DOMAIN r2 = 1 .. n - 1 /\ i \in 1 .. n
      /\ \A k \in 1 .. n - 1 : r2[k] = IF k < i THEN r[k] ELSE r[k + 1]
  BY DEF EraseAt
<1> HIDE DEF n, r2
<1>2. /\ at \in [1 .. n - 1 -> 1 .. n]
      /\ \A k \in 1 .. n - 1 : at[k] # i /\ at[k] = IF k < i THEN k ELSE k + 1
  BY <1>1
<1>3. \A k, l \in 1 .. n - 1 : k < l => at[k] < at[l]
  BY <1>1
<1>4. \A k, l \in 1 .. n - 1 : at[k] = at[l] => k = l
  BY <1>1
<1>5. ASSUME NEW j \in 1 .. n, j # i
      PROVE  \E k \in 1 .. n - 1 : at[k] = j
  <2> DEFINE k == IF j < i THEN j ELSE j - 1
  <2>1. k \in 1 .. n - 1 /\ (IF k < i THEN k ELSE k + 1) = j
    BY <1>1, <1>5
  <2> HIDE DEF k
  <2> QED
    BY <1>2, <2>1
<1> HIDE DEF at
<1>6. \A k \in 1 .. n - 1 : r2[k] = r[at[k]]
  BY <1>1, <1>2
<1>7. PartOf(r2, r, at)
  BY <1>1, <1>2, <1>3, <1>4, <1>6 DEF PartOf
<1> QED
  BY <1>1, <1>2, <1>5, <1>6, <1>7 DEF r2, at

\* r2 is r after the i-th order was matched with qty.
TakenFrom(r2, r, i, qty, at) ==
  /\ PartOf(r2, r, at)
  /\ \A k \in DOMAIN r2 :
       /\ at[k] # i => r2[k] = r[at[k]]
       /\ at[k] = i => r[i].quantity # qty /\ r2[k].quantity = r[i].quantity - qty
  /\ \A j \in DOMAIN r :
       j # i \/ r[i].quantity # qty => \E k \in DOMAIN r2 : at[k] = j

\* What the exchange is left with after a match.
LEMMA MatchTakes ==
  ASSUME NEW r \in Seq(ExchangeOrder), NEW i \in DOMAIN r, NEW qty
  PROVE  \E at : TakenFrom(RestingAfter(r, i, qty), r, i, qty, at)
<1> DEFINE r2 == RestingAfter(r, i, qty)
<1>1. CASE r[i].quantity = qty
  <2> DEFINE at == [k \in DOMAIN EraseAt(r, i) |-> IF k < i THEN k ELSE k + 1]
  <2>1. r2 = EraseAt(r, i)
    BY <1>1 DEF RestingAfter
  <2>2. /\ PartOf(EraseAt(r, i), r, at)
        /\ \A k \in DOMAIN EraseAt(r, i) : EraseAt(r, i)[k] = r[at[k]] /\ at[k] # i
        /\ \A j \in DOMAIN r : j # i => \E k \in DOMAIN EraseAt(r, i) : at[k] = j
    BY PartErase
  <2> HIDE DEF at
  <2>3. TakenFrom(r2, r, i, qty, at)
    BY <1>1, <2>1, <2>2 DEF TakenFrom
  <2> QED
    BY <2>3
<1>2. CASE r[i].quantity # qty
  <2> DEFINE at == [k \in DOMAIN r |-> k]
             o  == [r[i] EXCEPT !.quantity = @ - qty]
  <2>1. r2 = [r EXCEPT ![i] = o]
    BY <1>2 DEF RestingAfter
  <2>2. /\ o.odid = r[i].odid /\ o.is_sell = r[i].is_sell /\ o.price = r[i].price
        /\ o.quantity = r[i].quantity - qty
    <3>1. r[i] \in ExchangeOrder
      OBVIOUS
    <3> QED
      BY <3>1 DEF ExchangeOrder
  <2> HIDE DEF o, r2
  <2>3. /\ DOMAIN r2 = DOMAIN r /\ r2[i] = o /\ \A k \in DOMAIN r : k # i => r2[k] = r[k]
    BY <2>1
  <2>4. PartOf(r2, r, at) /\ \A j \in DOMAIN r : at[j] = j
    BY <2>2, <2>3, PartSame
  <2> HIDE DEF at
  <2>5. TakenFrom(r2, r, i, qty, at)
    BY <1>2, <2>2, <2>3, <2>4 DEF TakenFrom
  <2> QED
    BY <2>5 DEF r2
<1> QED
  BY <1>1, <1>2

\* A match with an order of the other side.
LEMMA AgreesOther ==
  ASSUME NEW L, NEW M, NEW s, NEW r \in Seq(ExchangeOrder), Agrees(L, M, s, r),
         NEW i \in DOMAIN r, r[i].is_sell # s, NEW qty
  PROVE  Agrees(L, M, s, RestingAfter(r, i, qty))
<1> DEFINE r2 == RestingAfter(r, i, qty)
<1>1. PICK at : TakenFrom(r2, r, i, qty, at)
  BY MatchTakes
<1> HIDE DEF r2
<1>2. ASSUME NEW k \in DOMAIN r2, r2[k].is_sell = s
      PROVE  /\ r2[k].odid \in DOMAIN M
             /\ r2[k].quantity = Remaining(M[r2[k].odid])
  <2>1. at[k] \in DOMAIN r /\ r[at[k]].is_sell = s
    BY <1>1, <1>2 DEF TakenFrom, PartOf
  <2>2. r2[k] = r[at[k]]
    BY <1>1, <2>1 DEF TakenFrom
  <2> QED
    BY <2>1, <2>2 DEF Agrees
<1>3. \A j \in DOMAIN r : r[j].is_sell = s => \E k \in DOMAIN r2 : at[k] = j
  BY <1>1 DEF TakenFrom
<1>4. PartOf(r2, r, at)
  BY <1>1 DEF TakenFrom
<1> QED
  BY <1>2, <1>3, <1>4, AgreesPart DEF r2

\* A match with an order that the book fills.
LEMMA AgreesTaken ==
  ASSUME NEW L, NEW M, NEW s, NEW r, Agrees(L, M, s, r), SideOK(L, M),
         NEW i \in DOMAIN r, r[i].is_sell = s, r[i].quantity \in Nat,
         NEW qty \in Nat, qty <= r[i].quantity,
         NEW r2, NEW at, TakenFrom(r2, r, i, qty, at),
         NEW L2, NEW M2, \A p \in DOMAIN L : L2[p].orders = L[p].orders,
         DOMAIN M2 = DOMAIN M,
         \A x \in DOMAIN M : x # r[i].odid => M2[x] = M[x],
         M2[r[i].odid].price = M[r[i].odid].price,
         Remaining(M2[r[i].odid]) = Remaining(M[r[i].odid]) - qty
  PROVE  Agrees(L2, M2, s, r2)
<1>1. TakenFrom(r2, r, i, qty, at)
  OBVIOUS
<1>2. PartOf(r2, r, at)
  BY <1>1 DEF TakenFrom
<1>3. ASSUME NEW k \in DOMAIN r
      PROVE  r[k].is_sell = s =>
               /\ r[k].odid \in DOMAIN M /\ r[k].price = M[r[k].odid].price
               /\ r[k].quantity = Remaining(M[r[k].odid])
               /\ r[k].odid = r[i].odid => k = i
  BY DEF Agrees
<1>4. ASSUME NEW k \in DOMAIN r2, r2[k].is_sell = s
      PROVE  /\ r2[k].odid \in DOMAIN M2
             /\ M2[r2[k].odid].price = M[r2[k].odid].price
             /\ r2[k].quantity = Remaining(M2[r2[k].odid])
  <2>1. at[k] \in DOMAIN r /\ r[at[k]].is_sell = s /\ r2[k].odid = r[at[k]].odid
    BY <1>2, <1>4 DEF PartOf
  <2>2. CASE at[k] = i
    <3>1. r2[k].quantity = r[i].quantity - qty
      BY <1>1, <2>2 DEF TakenFrom
    <3> QED
      BY <1>3, <2>1, <2>2, <3>1
  <2>3. CASE at[k] # i
    <3>1. r2[k] = r[at[k]]
      BY <1>1, <2>3 DEF TakenFrom
    <3> QED
      BY <1>3, <2>1, <2>3, <3>1
  <2> QED
    BY <2>2, <2>3
<1>5. ASSUME NEW id \in DOMAIN M2, Remaining(M2[id]) > 0
      PROVE  /\ id \in DOMAIN M /\ Remaining(M[id]) > 0
             /\ \A j \in DOMAIN r :
                  r[j].is_sell = s /\ r[j].odid = id => \E k \in DOMAIN r2 : at[k] = j
  <2>1. CASE id # r[i].odid
    <3>1. M2[id] = M[id]
      BY <1>5, <2>1
    <3>2. \A j \in DOMAIN r : r[j].odid = id => \E k \in DOMAIN r2 : at[k] = j
      BY <1>1, <2>1 DEF TakenFrom
    <3> QED
      BY <1>5, <3>1, <3>2
  <2>2. CASE id = r[i].odid
    <3>1. r[i].quantity = Remaining(M[id])
      BY <1>3, <2>2
    <3>2. r[i].quantity # qty /\ Remaining(M[id]) > 0
      BY <1>5, <2>2, <3>1
    <3>3. \A j \in DOMAIN r : \E k \in DOMAIN r2 : at[k] = j
      BY <1>1, <3>2 DEF TakenFrom
    <3> QED
      BY <1>5, <3>2, <3>3
  <2> QED
    BY <2>1, <2>2
<1>6. ASSUME NEW k \in DOMAIN r2, r2[k].is_sell = s
      PROVE  L2[r2[k].price].orders = L[r2[k].price].orders
  <2>1. at[k] \in DOMAIN r /\ r[at[k]].is_sell = s /\ r2[k].price = r[at[k]].price
    BY <1>2, <1>6 DEF PartOf
  <2>2. r2[k].price \in DOMAIN L
    BY <1>3, <2>1 DEF SideOK, SideConsistent
  <2> QED
    BY <2>2
<1> QED
  BY <1>2, <1>4, <1>5, <1>6, AgreesPart

\* The same for the exchange's list.
LEMMA AgreesFill ==
  ASSUME NEW L, NEW M, NEW s, NEW r \in Seq(ExchangeOrder), Agrees(L, M, s, r), SideOK(L, M),
         NEW i \in DOMAIN r, r[i].is_sell = s, NEW qty \in Nat, qty <= r[i].quantity,
         NEW L2, NEW M2, \A p \in DOMAIN L : L2[p].orders = L[p].orders,
         DOMAIN M2 = DOMAIN M,
         \A x \in DOMAIN M : x # r[i].odid => M2[x] = M[x],
         M2[r[i].odid].price = M[r[i].odid].price,
         Remaining(M2[r[i].odid]) = Remaining(M[r[i].odid]) - qty
  PROVE  Agrees(L2, M2, s, RestingAfter(r, i, qty))
<1> DEFINE r2 == RestingAfter(r, i, qty)
<1>1. PICK at : TakenFrom(r2, r, i, qty, at)
  BY MatchTakes
<1>2. r[i].quantity \in Nat
  <2>1. r[i] \in ExchangeOrder /\ MaxQty \in Nat
    BY LevelAssumption
  <2> QED
    BY <2>1 DEF ExchangeOrder
<1> HIDE DEF r2
<1> QED
  BY <1>1, <1>2, AgreesTaken DEF r2

\* A spent order leaves the book; the exchange has no such order.
LEMMA AgreesRemove ==
  ASSUME NEW L, NEW M, NEW s, NEW r, Agrees(L, M, s, r), SideOK(L, M),
         \A k \in DOMAIN r : r[k].quantity > 0, NEW id \in DOMAIN M, Remaining(M[id]) = 0
  PROVE  Agrees(LevelsRemove(L, id, M[id]), Erase(M, id), s, r)
<1> DEFINE L2 == LevelsRemove(L, id, M[id])
           M2 == Erase(M, id)
           at == [k \in DOMAIN r |-> k]
<1>1. DOMAIN M2 = DOMAIN M \ {id} /\ \A x \in DOMAIN M \ {id} : M2[x] = M[x]
  BY DEF Erase, Restrict
<1>2. PartOf(r, r, at) /\ \A j \in DOMAIN r : at[j] = j
  BY PartSame
<1>3. ASSUME NEW k \in DOMAIN r, r[k].is_sell = s
      PROVE  /\ r[k].odid \in DOMAIN M \ {id}
             /\ r[k].price = M[r[k].odid].price
             /\ r[k].quantity = Remaining(M[r[k].odid])
  BY <1>3 DEF Agrees
<1>4. ASSUME NEW k \in DOMAIN r, NEW l \in DOMAIN r, r[k].is_sell = s, r[l].is_sell = s,
             Precedes(L[r[k].price].orders, r[k].odid, r[l].odid)
      PROVE  Precedes(L2[r[k].price].orders, r[k].odid, r[l].odid)
  <2>1. /\ r[k].odid \in DOMAIN M \ {id} /\ r[l].odid # id
        /\ r[k].price = M[r[k].odid].price
    BY <1>3, <1>4
  <2>2. Precedes(L2[M[r[k].odid].price].orders, r[k].odid, r[l].odid)
          <=> Precedes(L[M[r[k].odid].price].orders, r[k].odid, r[l].odid)
    BY <2>1, RemovePrecedes
  <2> QED
    BY <1>4, <2>1, <2>2
<1> HIDE DEF L2, M2, at
<1>5. \A k \in DOMAIN r :
        r[k].is_sell = s => /\ r[k].odid \in DOMAIN M2
                            /\ M2[r[k].odid].price = M[r[k].odid].price
                            /\ r[k].quantity = Remaining(M2[r[k].odid])
  BY <1>1, <1>3
<1>6. \A x \in DOMAIN M2 :
        Remaining(M2[x]) > 0 =>
          /\ x \in DOMAIN M /\ Remaining(M[x]) > 0
          /\ \A j \in DOMAIN r :
               r[j].is_sell = s /\ r[j].odid = x => \E k \in DOMAIN r : at[k] = j
  BY <1>1, <1>2
<1> QED
  BY <1>2, <1>4, <1>5, <1>6, AgreesPart DEF L2, M2

\* A new order rests, on this side or on the other one.
LEMMA AgreesNew ==
  ASSUME NEW L, NEW M, NEW s, NEW r, Agrees(L, M, s, r), SideOK(L, M),
         NEW t \in ExchangeOrder, NEW r2, NEW n \in Int, DOMAIN r \subseteq Int,
         DOMAIN r2 = DOMAIN r \cup {n}, r2[n] = t,
         \A k \in DOMAIN r : r2[k] = r[k] /\ k < n
  PROVE  /\ t.is_sell # s => Agrees(L, M, s, r2)
         /\ \A o \in Order :
              /\ t.is_sell = s /\ t.odid \notin DOMAIN M
              /\ o.price = t.price /\ Remaining(o) = t.quantity
              => Agrees(LevelsAdd(L, t.odid, o), Put(M, t.odid, o), s, r2)
<1>1. /\ DOMAIN r \subseteq Int /\ n \in Int /\ DOMAIN r2 = DOMAIN r \cup {n}
      /\ \A k \in DOMAIN r : r2[k] = r[k] /\ k < n
      /\ r2[n] = t
  OBVIOUS
<1>2. ASSUME t.is_sell # s PROVE Agrees(L, M, s, r2)
  BY <1>1, <1>2 DEF Agrees
<1>3. ASSUME t.is_sell = s, t.odid \notin DOMAIN M, NEW o \in Order, o.price = t.price,
             Remaining(o) = t.quantity
      PROVE  Agrees(LevelsAdd(L, t.odid, o), Put(M, t.odid, o), s, r2)
  <2> DEFINE id == t.odid
             L2 == LevelsAdd(L, id, o)
             M2 == Put(M, id, o)
  <2>1. /\ DOMAIN M2 = DOMAIN M \cup {id} /\ M2[id] = o
        /\ \A x \in DOMAIN M : M2[x] = M[x] /\ x # id
    BY <1>3 DEF Put
  <2>2. id \in OrderId
    BY DEF ExchangeOrder
  <2>3. \A k \in DOMAIN r : r[k].is_sell = s =>
          /\ r[k].odid \in DOMAIN M /\ r[k].price = M[r[k].odid].price
          /\ r[k].quantity = Remaining(M[r[k].odid])
    BY <1>1 DEF Agrees
  <2>4. ASSUME NEW k \in DOMAIN r, r[k].is_sell = s, NEW y
        PROVE  Precedes(L2[r[k].price].orders, r[k].odid, y)
                 <=> \/ Precedes(L[r[k].price].orders, r[k].odid, y)
                     \/ y = id /\ r[k].price = o.price
    <3> DEFINE x == r[k].odid
    <3>1. x \in DOMAIN M /\ r[k].price = M[x].price
      BY <2>3, <2>4
    <3>2. SideOK(L, M) /\ id \in OrderId /\ id \notin DOMAIN M /\ o \in Order
      BY <1>3, <2>2
    <3> HIDE DEF x, id
    <3>3. Precedes(LevelsAdd(L, id, o)[M[x].price].orders, x, y)
            <=> \/ Precedes(L[M[x].price].orders, x, y)
                \/ y = id /\ M[x].price = o.price
      BY <3>1, <3>2, AddPrecedes
    <3> QED
      BY <3>1, <3>3 DEF x
  <2> HIDE DEF L2, M2
  <2>5. \A k \in DOMAIN r2 :
          r2[k].is_sell = s => /\ r2[k].odid \in DOMAIN M2
                               /\ r2[k].price = M2[r2[k].odid].price
                               /\ r2[k].quantity = Remaining(M2[r2[k].odid])
    BY <1>1, <1>3, <2>1, <2>3
  <2>6. ASSUME NEW x \in DOMAIN M2, Remaining(M2[x]) > 0
        PROVE  \E k \in DOMAIN r2 : r2[k].is_sell = s /\ r2[k].odid = x
    <3>1. CASE x = id
      BY <1>1, <1>3, <3>1
    <3>2. CASE x \in DOMAIN M
      <4>1. PICK k \in DOMAIN r : r[k].is_sell = s /\ r[k].odid = x
        BY <2>1, <2>6, <3>2 DEF Agrees
      <4> QED
        BY <1>1, <4>1
    <3> QED
      BY <2>1, <2>6, <3>1, <3>2
  <2>7. ASSUME NEW k \in DOMAIN r2, NEW l \in DOMAIN r2, r2[k].is_sell = s, r2[l].is_sell = s
        PROVE  /\ r2[k].odid = r2[l].odid => k = l
               /\ k < l /\ r2[k].price = r2[l].price
                    => Precedes(L2[r2[k].price].orders, r2[k].odid, r2[l].odid)
    <3>1. CASE k \in DOMAIN r /\ l \in DOMAIN r
      <4>1. r2[k] = r[k] /\ r2[l] = r[l] /\ k \in DOMAIN r /\ l \in DOMAIN r
        BY <1>1, <3>1
      <4>2. /\ r[k].odid = r[l].odid => k = l
            /\ k < l /\ r[k].price = r[l].price
                 => Precedes(L[r[k].price].orders, r[k].odid, r[l].odid)
        BY <2>7, <4>1 DEF Agrees
      <4> QED
        BY <2>4, <2>7, <3>1, <4>1, <4>2
    <3>2. CASE k \in DOMAIN r /\ l = n
      <4>1. r2[k] = r[k] /\ r2[l] = t /\ r[k].odid \in DOMAIN M /\ r[k].odid # id
        BY <1>1, <1>3, <2>3, <2>7, <3>2
      <4> QED
        BY <1>3, <2>4, <2>7, <3>2, <4>1
    <3>3. CASE k = n /\ l \in DOMAIN r
      <4>1. r2[l] = r[l] /\ r2[k] = t /\ r[l].odid \in DOMAIN M /\ r[l].odid # id /\ ~(k < l)
        BY <1>1, <1>3, <2>3, <2>7, <3>3
      <4> QED
        BY <4>1
    <3>4. CASE k = n /\ l = n
      BY <1>1, <3>4
    <3> QED
      BY <1>1, <2>7, <3>1, <3>2, <3>3, <3>4
  <2> QED
    BY <2>5, <2>6, <2>7 DEF Agrees, L2, M2
<1> QED
  BY <1>2, <1>3

\* The same for the exchange's list.
LEMMA AgreesRest ==
  ASSUME NEW L, NEW M, NEW s, NEW r \in Seq(ExchangeOrder), Agrees(L, M, s, r), SideOK(L, M),
         NEW t \in ExchangeOrder
  PROVE  /\ t.is_sell # s => Agrees(L, M, s, Append(r, t))
         /\ \A o \in Order :
              /\ t.is_sell = s /\ t.odid \notin DOMAIN M
              /\ o.price = t.price /\ Remaining(o) = t.quantity
              => Agrees(LevelsAdd(L, t.odid, o), Put(M, t.odid, o), s, Append(r, t))
<1> DEFINE n  == Len(r) + 1
           r2 == Append(r, t)
<1>1. /\ n \in Int /\ DOMAIN r \subseteq Int /\ DOMAIN r2 = DOMAIN r \cup {n}
      /\ \A k \in DOMAIN r : r2[k] = r[k] /\ k < n
      /\ r2[n] = t
  OBVIOUS
<1> HIDE DEF n, r2
<1> QED
  BY <1>1, AgreesNew DEF r2

-----------------------------------------------------------------------------
(* One fill.                                                               *)

\* The order that is filled, and how much of it.
FillId == levels[side][cur].orders[iter]
FillQty == MinOf(Remaining(act), Remaining(order_map[side][FillId]))

\* The orders that are to leave after a walk were passed by it.
PassedInv ==
  pc = "fill" =>
    \A k \in DOMAIN orders_to_remove :
      \E j \in 1 .. iter - 1 : levels[side][cur].orders[j] = orders_to_remove[k]

\* What a fill takes from the book: the order has something left, it is the
\* first of the best level with something left, and no list changes.
LEMMA FillTakes ==
  ASSUME IInv, PassedInv, Fill
  PROVE  /\ side \in BOOLEAN /\ cur \in DOMAIN levels[side]
         /\ \A q \in DOMAIN levels[side] : ~Before(side, q, cur)
         /\ FillId \in DOMAIN order_map[side] /\ order_map[side][FillId].price = cur
         /\ Remaining(act) \in Nat /\ Remaining(order_map[side][FillId]) \in Nat
         /\ Remaining(order_map[side][FillId]) > 0
         /\ FillQty \in Nat /\ FillQty > 0 /\ FillQty <= Remaining(act)
         /\ FillQty <= Remaining(order_map[side][FillId])
         /\ \A x : Precedes(levels[side][cur].orders, x, FillId)
                     => x \in DOMAIN order_map[side] /\ Remaining(order_map[side][x]) = 0
         /\ \A p \in DOMAIN levels[side] : levels'[side][p].orders = levels[side][p].orders
         /\ DOMAIN order_map'[side] = DOMAIN order_map[side]
         /\ \A x \in DOMAIN order_map[side] :
              x # FillId => order_map'[side][x] = order_map[side][x]
         /\ order_map'[side][FillId].price = order_map[side][FillId].price
         /\ Remaining(order_map'[side][FillId]) = Remaining(order_map[side][FillId]) - FillQty
         /\ \A t \in BOOLEAN : t # side => levels'[t] = levels[t] /\ order_map'[t] = order_map[t]
         /\ Remaining(act') = Remaining(act) - FillQty
         /\ act'.kind = act.kind /\ act'.odid = act.odid /\ act'.is_sell = act.is_sell
         /\ act'.price = act.price
<1> USE DEF IInv
<1>1. PICK s \in BOOLEAN : s = side
  BY DEF TypeOK
<1>2. PICK c : c = cur
  OBVIOUS
<1>3. PICK id : id = FillId
  OBVIOUS
<1>4. PICK qty : qty = FillQty
  OBVIOUS
<1> DEFINE list == levels[s][c].orders
           M    == order_map[s]
<1>5. /\ pc = "fill" /\ iter <= Len(list) /\ Remaining(act) > 0 /\ id = list[iter]
      /\ qty = MinOf(Remaining(act), Remaining(M[id]))
      /\ levels' = [levels EXCEPT ![s][c] = LevelFillOrder(@, qty)]
      /\ order_map' = [order_map EXCEPT ![s][id] = OrderFilled(@, qty)]
      /\ act' = OrderFilled(act, qty)
  BY <1>1, <1>2, <1>3, <1>4 DEF Fill, FillId, FillQty
<1>6. /\ c \in DOMAIN levels[s] /\ \A q \in DOMAIN levels[s] : ~Before(s, q, c)
      /\ \A i \in 1 .. iter - 1 : Remaining(M[list[i]]) = 0
  BY <1>1, <1>2, <1>5 DEF WalkInv, IsBegin
<1>7. list \in Seq(OrderId) /\ iter \in DOMAIN list /\ iter \in Nat
  BY <1>5, <1>6 DEF TypeOK, IsMap, L3PriceLevel
<1>8. /\ \A i, j \in DOMAIN list : list[i] = list[j] => i = j
      /\ \A i \in DOMAIN list : list[i] \in DOMAIN M /\ M[list[i]].price = c
  BY <1>6 DEF BookConsistent, SideConsistent
<1>9. id \in DOMAIN M /\ M[id].price = c /\ SideOK(levels[s], M)
  BY <1>5, <1>7, <1>8, SidesOK
<1>10. /\ Remaining(act) \in Nat /\ Remaining(M[id]) \in Nat /\ M[id] \in Order
  BY <1>9, ActNat DEF SideOK, IsMap, Order, Remaining
<1>11. Remaining(M[id]) > 0
  <2>1. SUFFICES ASSUME ~(Remaining(M[id]) > 0) PROVE FALSE
    OBVIOUS
  <2>2. PICK k \in DOMAIN orders_to_remove : orders_to_remove[k] = id
    BY <1>9, <2>1 DEF NoSpentOrders
  <2>3. PICK j \in 1 .. iter - 1 : list[j] = id
    BY <1>1, <1>2, <1>5, <2>2 DEF PassedInv
  <2>4. j \in DOMAIN list /\ j # iter
    BY <1>7
  <2> QED
    BY <1>5, <1>7, <1>8, <2>3, <2>4
<1>12. qty \in Nat /\ qty > 0 /\ qty <= Remaining(act) /\ qty <= Remaining(M[id])
  <2>1. PICK a \in Nat : a = Remaining(act)
    BY <1>10
  <2>2. PICK b \in Nat : b = Remaining(M[id])
    BY <1>10
  <2>3. qty = MinOf(a, b) /\ a > 0 /\ b > 0
    BY <1>5, <1>11, <2>1, <2>2
  <2>4. qty \in Nat /\ qty > 0 /\ qty <= a /\ qty <= b
    BY <2>3 DEF MinOf
  <2> QED
    BY <2>1, <2>2, <2>4
<1>13. ASSUME NEW x, Precedes(list, x, id)
       PROVE  x \in DOMAIN M /\ Remaining(M[x]) = 0
  <2>1. PICK i \in DOMAIN list, j \in DOMAIN list : i < j /\ list[i] = x /\ list[j] = id
    BY <1>13 DEF Precedes
  <2>2. j = iter
    BY <1>5, <1>7, <1>8, <2>1
  <2>3. i \in 1 .. iter - 1
    BY <1>7, <2>1, <2>2
  <2> QED
    BY <1>6, <1>8, <2>1, <2>3
<1> HIDE DEF list
<1> DEFINE L  == levels[s]
           L2 == [L EXCEPT ![c] = LevelFillOrder(@, qty)]
           M2 == [M EXCEPT ![id] = OrderFilled(@, qty)]
<1>14. /\ \A q \in DOMAIN L : L2[q].orders = L[q].orders
       /\ DOMAIN M2 = DOMAIN M
       /\ \A x \in DOMAIN M : x # id => M2[x] = M[x]
       /\ M2[id] = OrderFilled(M[id], qty)
  <2>1. SideOK(L, M) /\ c \in DOMAIN L /\ id \in DOMAIN M /\ qty \in Nat /\ qty <= Remaining(M[id])
    BY <1>6, <1>9, <1>12
  <2>2. /\ SideOK(L2, M2) /\ DOMAIN L2 = DOMAIN L
        /\ \A q \in DOMAIN L : L2[q].orders = L[q].orders
        /\ DOMAIN M2 = DOMAIN M
        /\ \A x \in DOMAIN M : x # id => M2[x] = M[x]
        /\ M2[id] = OrderFilled(M[id], qty)
    BY <2>1, FillSideOK
  <2> QED
    BY <2>2
<1>15. /\ levels'[s] = L2 /\ order_map'[s] = M2
       /\ \A t \in BOOLEAN : t # s => levels'[t] = levels[t] /\ order_map'[t] = order_map[t]
  BY <1>5 DEF TypeOK
<1> HIDE DEF L2, M2
<1>16. /\ Remaining(M2[id]) = Remaining(M[id]) - qty
       /\ M2[id].price = M[id].price
  <2>1. /\ M2[id].price = M[id].price /\ M2[id].quantity = M[id].quantity
        /\ M2[id].filled_quantity = M[id].filled_quantity + qty
    BY <1>10, <1>14 DEF OrderFilled, Order
  <2>2. M[id].quantity \in Nat /\ M[id].filled_quantity \in Nat
    BY <1>10 DEF Order
  <2> QED
    BY <1>12, <2>1, <2>2 DEF Remaining
<1>17. /\ Remaining(act') = Remaining(act) - qty
       /\ act'.kind = act.kind /\ act'.odid = act.odid /\ act'.is_sell = act.is_sell
       /\ act'.price = act.price
  <2>1. act \in Action
    BY DEF TypeOK
  <2>2. /\ act'.quantity = act.quantity /\ act'.filled_quantity = act.filled_quantity + qty
        /\ act'.kind = act.kind /\ act'.odid = act.odid /\ act'.is_sell = act.is_sell
        /\ act'.price = act.price /\ act.quantity \in Nat /\ act.filled_quantity \in Nat
    BY <1>5, <2>1 DEF OrderFilled, Action
  <2> QED
    BY <1>12, <2>2 DEF Remaining
<1> HIDE DEF M, L
<1>18. side = s /\ cur = c /\ FillId = id /\ FillQty = qty /\ order_map[s] = M /\ levels[s] = L
  BY <1>1, <1>2, <1>3, <1>4 DEF M, L
<1> QED
  BY <1>6, <1>9, <1>10, <1>11, <1>12, <1>13, <1>14, <1>15, <1>16, <1>17, <1>18 DEF list, L

\* A walk lists for removal only orders it has passed.
LEMMA PassedStep == IInv /\ PassedInv /\ [Next]_vars => PassedInv'
<1> SUFFICES ASSUME IInv, PassedInv, [Next]_vars, pc' = "fill"
             PROVE  \A k \in DOMAIN orders_to_remove' :
                      \E j \in 1 .. iter' - 1 :
                        levels'[side'][cur'].orders[j] = orders_to_remove'[k]
  BY DEF PassedInv
<1>1. CASE orders_to_remove' = << >>
  BY <1>1
<1>2. CASE pc = "fill" /\ UNCHANGED <<levels, side, cur, iter, orders_to_remove>>
  BY <1>2 DEF PassedInv
<1>3. CASE Fill
  <2> DEFINE list == levels[side][cur].orders
  <2>1. /\ cur \in DOMAIN levels[side]
        /\ \A p \in DOMAIN levels[side] : levels'[side][p].orders = levels[side][p].orders
    BY <1>3, FillTakes
  <2>2. /\ side' = side /\ cur' = cur /\ iter' = iter + 1 /\ pc = "fill"
        /\ orders_to_remove' \in {orders_to_remove, Append(orders_to_remove, list[iter])}
    BY <1>3 DEF Fill
  <2>3. levels'[side'][cur'].orders = list
    BY <2>1, <2>2
  <2>4. iter \in Nat \ {0} /\ orders_to_remove \in Seq(OrderId)
    BY DEF IInv, TypeOK
  <2>5. \A j \in 1 .. iter - 1 : j \in 1 .. iter' - 1
    BY <2>2, <2>4
  <2>6. iter \in 1 .. iter' - 1
    BY <2>2, <2>4
  <2>7. \A k \in DOMAIN orders_to_remove : \E j \in 1 .. iter - 1 : list[j] = orders_to_remove[k]
    BY <2>2 DEF PassedInv
  <2> HIDE DEF list
  <2>8. \A k \in DOMAIN orders_to_remove' :
          \/ k \in DOMAIN orders_to_remove /\ orders_to_remove'[k] = orders_to_remove[k]
          \/ orders_to_remove'[k] = list[iter]
    <3>1. CASE orders_to_remove' = orders_to_remove
      BY <3>1
    <3>2. CASE orders_to_remove' = Append(orders_to_remove, list[iter])
      BY <2>4, <3>2
    <3> QED
      BY <2>2, <3>1, <3>2
  <2> QED
    BY <2>3, <2>5, <2>6, <2>7, <2>8
<1>4. \/ orders_to_remove' = << >>
      \/ pc = "fill" /\ UNCHANGED <<levels, side, cur, iter, orders_to_remove>>
      \/ Fill
  <2>1. CASE Receive
    BY <2>1 DEF Receive, processOrderAddMessage, processOrderCancelMessage,
       processOrderModifyMessage, processTradeMessage
  <2>2. CASE HandlerStep
    BY <2>2 DEF HandlerStep, MatchPendingLiqAdd, MatchPendingLiqAddDone, Uncross, WalkLevel,
       FillDone, RemoveFilled, RemoveFilledDone, RestOrder, TradeMatch, Sweep, SweepDone,
       TradeRest, Return, sideVars, loopVars
  <2>3. CASE UNCHANGED vars
    BY <2>3 DEF vars, sideVars, loopVars
  <2> QED
    BY <2>1, <2>2, <2>3 DEF Next
<1> QED
  BY <1>1, <1>2, <1>3, <1>4

-----------------------------------------------------------------------------
(* Only new orders.                                                        *)

\* Without trade messages the handlers of trades never run, and a walk is over
\* a level that the new order crosses with.
LEMMA OrdersOnlyStep ==
  ASSUME IInv, ExchangeTyped, Requests \subseteq {"ADD"}, OrdersOnly, [OrdersNext]_llVars
  PROVE  OrdersOnly'
<1> USE DEF IInv
<1>1. CASE UNCHANGED vars
  <2>1. UNCHANGED <<act, pc, pending_liq_add_qty, side, cur>>
    BY <1>1 DEF vars, sideVars, loopVars
  <2> QED
    BY <2>1 DEF OrdersOnly
<1>2. CASE ReceiveOrder
  <2> DEFINE m == Head(order_stream)
  <2>1. m \in StreamMessage
    BY <1>2 DEF ReceiveOrder, ExchangeTyped
  <2>2. m.type = "ADD"
    BY <2>1, MessageTyped
  <2>3. processOrderAddMessage(m)
    BY <1>2, <2>2 DEF ReceiveOrder
  <2> HIDE DEF m
  <2>4. act'.kind = "ADD" /\ pc' = "matchAdd" /\ UNCHANGED pending_liq_add_qty
    BY <2>3 DEF processOrderAddMessage, Activate, sideVars
  <2> QED
    BY <2>4 DEF OrdersOnly
<1>3. CASE HandlerStep
  <2>1. act \in Action
    BY DEF TypeOK
  <2>2. pc \notin {"trade", "sweep", "tradeRest"}
    BY DEF ActInv, OrdersOnly
  <2>3. CASE MatchPendingLiqAdd
    <3>1. PICK p : p \in DOMAIN pending_liq_add_qty[act.is_sell]
      BY <2>3 DEF MatchPendingLiqAdd
    <3> QED
      BY <2>1, <3>1 DEF OrdersOnly, Action
  <2>4. CASE MatchPendingLiqAddDone \/ RestOrder
    <3>1. UNCHANGED <<act, pending_liq_add_qty>> /\ pc' \in {"uncross", "done"}
      BY <2>4 DEF MatchPendingLiqAddDone, RestOrder, sideVars
    <3> QED
      BY <3>1 DEF OrdersOnly
  <2>5. CASE Uncross
    <3> DEFINE s == ~act.is_sell
    <3>1. UNCHANGED <<act, pending_liq_add_qty, levels>> /\ CanUncross
      BY <2>5 DEF Uncross, sideVars
    <3>2. PICK p \in DOMAIN levels[s] : IsBegin(s, DOMAIN levels[s], p) /\ WalkLevel(s, p)
      BY <2>5 DEF Uncross
    <3>3. pc' = "fill" /\ side' = s /\ cur' = p
      BY <3>2 DEF WalkLevel
    <3>4. PICK q \in DOMAIN levels[s] : IF s THEN act.price >= q ELSE q >= act.price
      BY <3>1 DEF CanUncross, bookCrossedWithPrice
    <3>5. s \in BOOLEAN /\ act.price \in Int
      BY <2>1, LevelAssumption DEF Action
    <3>6. p \in Int /\ q \in Int
      BY <3>5, LevelAssumption DEF TypeOK, IsMap
    <3>7. ~Before(s, q, p)
      BY <3>2 DEF IsBegin
    <3> HIDE DEF s
    <3>8. ~Before(s, act.price, p)
      BY <3>4, <3>5, <3>6, <3>7 DEF Before
    <3> QED
      BY <3>1, <3>3, <3>8 DEF OrdersOnly, s
  <2>6. CASE Fill
    <3>1. UNCHANGED <<pending_liq_add_qty, pc, side, cur>> /\ pc = "fill"
      BY <2>6 DEF Fill
    <3>2. act'.kind = act.kind /\ act'.is_sell = act.is_sell /\ act'.price = act.price
      <4>1. act' = OrderFilled(act, FillQty)
        BY <2>6 DEF Fill, FillQty, FillId
      <4> QED
        BY <2>1, <4>1 DEF OrderFilled, Action
    <3> QED
      BY <3>1, <3>2 DEF OrdersOnly
  <2>7. CASE FillDone \/ RemoveFilled \/ RemoveFilledDone
    <3>1. /\ UNCHANGED <<act, pending_liq_add_qty, side, cur>> /\ pc \in {"fill", "remove"}
          /\ pc' \in {"remove", "uncross", "tradeRest"}
      BY <2>7 DEF FillDone, RemoveFilled, RemoveFilledDone, sideVars, loopVars
    <3> QED
      BY <3>1 DEF OrdersOnly
  <2>8. CASE Return
    <3>1. act'.kind = "NONE" /\ pc' = "idle" /\ UNCHANGED pending_liq_add_qty
      BY <2>8 DEF Return, Idle, sideVars
    <3> QED
      BY <3>1 DEF OrdersOnly
  <2> QED
    BY <1>3, <2>2, <2>3, <2>4, <2>5, <2>6, <2>7, <2>8
       DEF HandlerStep, TradeMatch, Sweep, SweepDone, TradeRest
<1> QED
  BY <1>1, <1>2, <1>3 DEF OrdersNext, LLHandlerStep, llVars

\* While an order is handled, the exchange's taker is what is left of it.
LEMMA HandledIs ==
  ASSUME IInv, OrdersOnly, pc \in {"matchAdd", "uncross", "fill", "remove"}, Remaining(act) > 0
  PROVE  /\ act.kind = "ADD" /\ act.is_sell \in BOOLEAN /\ act.price \in Price
         /\ Handled = [odid |-> act.odid, is_sell |-> act.is_sell,
                       quantity |-> Remaining(act), price |-> act.price]
<1>1. act \in Action
  BY DEF IInv, TypeOK
<1>2. act.kind = "ADD"
  BY DEF OrdersOnly, IInv, ActInv
<1> QED
  BY <1>1, <1>2 DEF Handled, Action

\* The fields of a state of the exchange.
LEMMA PathStateFields ==
  ASSUME NEW x \in PathState
  PROVE  /\ x.resting \in Seq(ExchangeOrder) /\ x.taker \in ExchangeOrder \cup {NoTaker}
         /\ x.trades \in Seq(TradeMessage) /\ x.seen \in Nat
         /\ \A k \in DOMAIN x.resting :
              /\ x.resting[k] \in ExchangeOrder /\ x.resting[k].is_sell \in BOOLEAN
              /\ x.resting[k].price \in Price /\ x.resting[k].quantity \in 1 .. MaxQty
              /\ x.resting[k].quantity \in Nat /\ x.resting[k].quantity > 0
<1>1. /\ x.resting \in Seq(ExchangeOrder) /\ x.taker \in ExchangeOrder \cup {NoTaker}
      /\ x.trades \in Seq(TradeMessage) /\ x.seen \in Nat
  BY DEF PathState
<1>2. \A k \in DOMAIN x.resting : x.resting[k] \in ExchangeOrder
  BY <1>1
<1> QED
  BY <1>1, <1>2, LevelAssumption DEF ExchangeOrder

\* The exchange matches its taker next with the order that the book fills.
LEMMA FillPlace ==
  ASSUME IInv, PassedInv, OrdersOnly, Fill, NEW M, NEW x \in PathState, NEW y, BookAt(x),
         PathStep(M, x, y)
  PROVE  \E j \in DOMAIN x.resting : /\ Matched(x, y, j)
                                     /\ x.resting[j].odid = FillId
                                     /\ x.resting[j].is_sell = side
                                     /\ x.resting[j].price = cur
                                     /\ x.resting[j].quantity = Remaining(order_map[side][FillId])
<1> DEFINE r == x.resting
           N == order_map[side]
<1>1. /\ pc = "fill" /\ Remaining(act) > 0
  BY DEF Fill
<1>2. /\ act.kind = "ADD" /\ act.is_sell \in BOOLEAN /\ act.price \in Price
      /\ x.taker = [odid |-> act.odid, is_sell |-> act.is_sell, quantity |-> Remaining(act),
                    price |-> act.price]
  BY <1>1, HandledIs DEF BookAt
<1>3. /\ side \in BOOLEAN /\ cur \in DOMAIN levels[side] /\ FillId \in DOMAIN N
      /\ N[FillId].price = cur /\ Remaining(N[FillId]) > 0 /\ Remaining(act) \in Nat
      /\ \A q \in DOMAIN levels[side] : ~Before(side, q, cur)
      /\ \A id : Precedes(levels[side][cur].orders, id, FillId)
                   => id \in DOMAIN N /\ Remaining(N[id]) = 0
  BY FillTakes
<1>4. side = ~act.is_sell /\ ~Before(side, act.price, cur)
  BY <1>1 DEF OrdersOnly
<1>5. Agrees(levels[side], N, side, r)
  BY <1>3 DEF BookAt
<1>6. PICK k \in DOMAIN r : r[k].is_sell = side /\ r[k].odid = FillId
  BY <1>3, <1>5 DEF Agrees
<1>7. r[k].price = cur /\ r[k].quantity = Remaining(N[FillId])
  BY <1>3, <1>5, <1>6 DEF Agrees
<1>8. x.taker.quantity > 0 /\ x.taker.is_sell = act.is_sell /\ x.taker.price = act.price
  BY <1>1, <1>2
<1>9. CrossesWith(x.taker, r[k])
  BY <1>2, <1>4, <1>6, <1>7, <1>8 DEF CrossesWith
<1>10. ~Rested(x, y) /\ ~Sent(M, x, y)
  BY <1>3, <1>8, <1>9, <1>2 DEF Rested, Sent
<1>11. PICK j \in DOMAIN r : Matched(x, y, j)
  BY <1>10 DEF PathStep
<1>12. /\ CrossesWith(x.taker, r[j])
       /\ \/ Before(r[j].is_sell, r[j].price, r[k].price)
          \/ r[j].price = r[k].price /\ j <= k
  BY <1>9, <1>11 DEF Matched, MatchesFirst
<1>13. r[j].is_sell = side
  <2>1. r[j].is_sell \in BOOLEAN
    BY PathStateFields
  <2> QED
    BY <1>2, <1>4, <1>8, <1>12, <2>1 DEF CrossesWith
<1>14. /\ r[j].odid \in DOMAIN N /\ r[j].price = N[r[j].odid].price
       /\ r[j].quantity = Remaining(N[r[j].odid])
  BY <1>5, <1>13 DEF Agrees
<1>15. r[j].price \in DOMAIN levels[side]
  <2>1. SideOK(levels[side], N)
    BY <1>3, SidesOK DEF IInv
  <2> QED
    BY <1>14, <2>1 DEF SideOK, SideConsistent
<1>16. r[j].price = cur /\ j <= k
  BY <1>3, <1>7, <1>12, <1>13, <1>15
<1>17. j = k
  <2>1. SUFFICES ASSUME j < k PROVE FALSE
    <3>1. j \in Int /\ k \in Int
      BY PathStateFields
    <3> QED
      BY <1>16, <3>1
  <2>2. Precedes(levels[side][r[j].price].orders, r[j].odid, r[k].odid)
    BY <1>5, <1>6, <1>7, <1>13, <1>16, <2>1 DEF Agrees
  <2>3. Remaining(N[r[j].odid]) = 0
    BY <1>3, <1>6, <1>16, <2>2
  <2>4. r[j].quantity > 0
    BY PathStateFields
  <2> QED
    BY <1>14, <2>3, <2>4
<1> QED
  BY <1>6, <1>7, <1>11, <1>17

\* A fill takes the book where the exchange's match took the exchange.
LEMMA FillMoves ==
  ASSUME IInv, PassedInv, OrdersOnly, Fill, NEW M, NEW x \in PathState, NEW y, BookAt(x),
         PathStep(M, x, y)
  PROVE  BookAt(y)'
<1> DEFINE r   == x.resting
           t   == x.taker
           qty == FillQty
<1>1. PICK j \in DOMAIN r : /\ Matched(x, y, j) /\ r[j].odid = FillId /\ r[j].is_sell = side
                            /\ r[j].price = cur
                            /\ r[j].quantity = Remaining(order_map[side][FillId])
  BY FillPlace
<1>2. /\ pc = "fill" /\ Remaining(act) > 0 /\ pc' = pc
      /\ IF act.kind = "TRADE" THEN UNCHANGED pending_liq_remove_qty ELSE ExpectTrade(cur, qty)
  BY DEF Fill, FillQty, FillId
<1>3. /\ act.kind = "ADD" /\ act.is_sell \in BOOLEAN
      /\ t = [odid |-> act.odid, is_sell |-> act.is_sell, quantity |-> Remaining(act),
              price |-> act.price]
  BY <1>2, HandledIs DEF BookAt
<1>4. /\ side \in BOOLEAN /\ qty \in Nat /\ qty > 0 /\ qty <= r[j].quantity
      /\ Remaining(act) \in Nat /\ qty <= Remaining(act)
  BY <1>1, FillTakes
<1>5. qty = MinOf(t.quantity, r[j].quantity)
  <2>1. t.quantity = Remaining(act)
    BY <1>3
  <2> QED
    BY <1>1, <2>1 DEF FillQty
<1>6. /\ r \in Seq(ExchangeOrder) /\ x.trades \in Seq(TradeMessage)
      /\ r[j].quantity \in 1 .. MaxQty /\ r[j].price \in Price
  BY PathStateFields
<1>7. qty \in 1 .. MaxQty
  BY <1>4, <1>6, LevelAssumption
<1> HIDE DEF qty
<1>8. y = [resting |-> RestingAfter(r, j, qty), taker |-> TakerAfter(t, qty),
           trades |-> Append(x.trades, [quantity |-> qty, price |-> cur]), seen |-> x.seen]
  BY <1>1, <1>5 DEF Matched
<1>9. y.taker = Handled'
  <2>1. /\ Remaining(act') = Remaining(act) - qty
        /\ act'.kind = act.kind /\ act'.odid = act.odid /\ act'.is_sell = act.is_sell
        /\ act'.price = act.price
    BY FillTakes DEF qty
  <2>2. CASE Remaining(act) = qty
    <3>1. y.taker = NoTaker
      BY <1>3, <1>8, <2>2 DEF TakerAfter
    <3>2. Remaining(act') = 0
      BY <1>4, <2>1, <2>2
    <3> QED
      BY <3>1, <3>2 DEF Handled
  <2>3. CASE Remaining(act) # qty
    <3>1. y.taker = [t EXCEPT !.quantity = @ - qty]
      BY <1>3, <1>8, <2>3 DEF TakerAfter
    <3>2. y.taker = [odid |-> act.odid, is_sell |-> act.is_sell,
                     quantity |-> Remaining(act) - qty, price |-> act.price]
      BY <1>3, <3>1
    <3>3. Remaining(act') > 0
      BY <1>4, <2>1, <2>3
    <3> QED
      BY <1>2, <1>3, <2>1, <3>2, <3>3 DEF Handled
  <2> QED
    BY <2>2, <2>3
<1>10. ASSUME NEW s \in BOOLEAN
       PROVE  Agrees(levels'[s], order_map'[s], s, y.resting)
  <2>1. Agrees(levels[s], order_map[s], s, r) /\ y.resting = RestingAfter(r, j, qty)
    BY <1>8 DEF BookAt
  <2>2. CASE s # side
    <3>1. levels'[s] = levels[s] /\ order_map'[s] = order_map[s]
      BY <2>2, FillTakes
    <3> QED
      BY <1>1, <1>6, <2>1, <2>2, <3>1, AgreesOther
  <2>3. CASE s = side
    <3>1. SideOK(levels[s], order_map[s])
      BY SidesOK DEF IInv
    <3>2. /\ \A p \in DOMAIN levels[s] : levels'[s][p].orders = levels[s][p].orders
          /\ DOMAIN order_map'[s] = DOMAIN order_map[s]
          /\ \A id \in DOMAIN order_map[s] :
               id # r[j].odid => order_map'[s][id] = order_map[s][id]
          /\ order_map'[s][r[j].odid].price = order_map[s][r[j].odid].price
          /\ Remaining(order_map'[s][r[j].odid]) = Remaining(order_map[s][r[j].odid]) - qty
      BY <1>1, <2>3, FillTakes DEF qty
    <3>3. r[j].is_sell = s
      BY <1>1, <2>3
    <3> QED
      BY <1>4, <1>6, <2>1, <3>1, <3>2, <3>3, AgreesFill
  <2> QED
    BY <2>2, <2>3
<1>11. ASSUME NEW s \in BOOLEAN
       PROVE  pending_liq_remove_qty'[s] = Expected(y.trades)
  <2>1. pending_liq_remove_qty'[s] = Increase(pending_liq_remove_qty[s], cur, qty)
    BY <1>2, <1>3 DEF ExpectTrade
  <2>2. pending_liq_remove_qty[s] = Expected(x.trades)
    BY DEF BookAt
  <2>3. cur \in Price
    BY <1>1, <1>6
  <2> QED
    BY <1>6, <1>7, <1>8, <2>1, <2>2, <2>3, ExpectedAppend
<1> QED
  BY <1>9, <1>10, <1>11 DEF BookAt

\* What is left of an order comes to rest in the book as it does at the exchange.
LEMMA RestMoves ==
  ASSUME IInv, FreshIds, OrdersOnly, RestOrder, Remaining(act) > 0,
         NEW M, NEW x \in PathState, NEW y, BookAt(x), PathStep(M, x, y)
  PROVE  BookAt(y)'
<1> USE DEF IInv
<1> DEFINE r == x.resting
           t == x.taker
           d == act.is_sell
           o == [quantity |-> act.quantity, price |-> act.price,
                 filled_quantity |-> act.filled_quantity]
<1>1. /\ pc = "uncross" /\ pc' = "done" /\ ~CanUncross /\ act' = act
      /\ addOrder(d, act.odid, o) /\ UNCHANGED pending_liq_remove_qty
  BY DEF RestOrder
<1>2. /\ act.kind = "ADD" /\ d \in BOOLEAN /\ act.price \in Price
      /\ t = [odid |-> act.odid, is_sell |-> d, quantity |-> Remaining(act),
              price |-> act.price]
  BY <1>1, HandledIs DEF BookAt
<1>3. act \in Action /\ Remaining(act) \in Nat
  BY ActNat
<1>4. /\ t.quantity > 0 /\ t.quantity = Remaining(act) /\ t.is_sell = d
      /\ t.price = act.price /\ t.odid = act.odid /\ t \in ExchangeOrder
  <2>1. t.quantity > 0 /\ t.quantity = Remaining(act) /\ t.is_sell = d
        /\ t.price = act.price /\ t.odid = act.odid
    BY <1>2
  <2>2. t # NoTaker
    BY <1>3, <2>1 DEF NoTaker
  <2> QED
    BY <2>1, <2>2, PathStateFields
<1>5. o \in Order /\ o.price = t.price /\ Remaining(o) = t.quantity
  BY <1>2, <1>3, <1>4 DEF Order, Action, Remaining
<1>6. act.odid \notin DOMAIN order_map[d]
  BY <1>1, <1>2 DEF FreshIds
<1> HIDE DEF o
<1>7. ASSUME NEW j \in DOMAIN r, CrossesWith(t, r[j])
      PROVE  FALSE
  <2> DEFINE s == r[j].is_sell
             p == r[j].price
  <2>1. s \in BOOLEAN /\ p \in Int /\ act.price \in Int
    BY <1>2, PathStateFields, LevelAssumption
  <2>2. s = ~d /\ ~Before(s, act.price, p)
    BY <1>2, <1>4, <1>7, <2>1 DEF CrossesWith
  <2>3. Agrees(levels[s], order_map[s], s, r)
    BY <2>1 DEF BookAt
  <2>4. r[j].odid \in DOMAIN order_map[s] /\ p = order_map[s][r[j].odid].price
    BY <2>3 DEF Agrees
  <2>5. p \in DOMAIN levels[s]
    <3>1. SideOK(levels[s], order_map[s])
      BY <2>1, SidesOK
    <3> QED
      BY <2>4, <3>1 DEF SideOK, SideConsistent
  <2>6. ~(IF s THEN act.price >= p ELSE p >= act.price)
    BY <1>1, <2>2, <2>5 DEF CanUncross, bookCrossedWithPrice
  <2> QED
    BY <2>1, <2>2, <2>6 DEF Before
<1>8. y = [resting |-> Append(r, t), taker |-> NoTaker, trades |-> x.trades, seen |-> x.seen]
  <2>1. ~Sent(M, x, y)
    BY <1>3, <1>4 DEF Sent
  <2>2. ASSUME NEW j \in DOMAIN r PROVE ~Matched(x, y, j)
    BY <1>7 DEF Matched, MatchesFirst
  <2> QED
    BY <2>1, <2>2 DEF PathStep, Rested
<1>9. y.taker = Handled'
  BY <1>1, <1>8 DEF Handled
<1>10. /\ levels' = [levels EXCEPT ![d] = LevelsAdd(@, act.odid, o)]
       /\ order_map' = [order_map EXCEPT ![d] = Put(@, act.odid, o)]
  BY <1>1, <1>6 DEF addOrder, existOrder
<1>11. ASSUME NEW s \in BOOLEAN
       PROVE  Agrees(levels'[s], order_map'[s], s, y.resting)
  <2>1. /\ Agrees(levels[s], order_map[s], s, r) /\ y.resting = Append(r, t)
        /\ SideOK(levels[s], order_map[s]) /\ r \in Seq(ExchangeOrder)
    BY <1>8, SidesOK, PathStateFields DEF BookAt
  <2>2. CASE s # d
    <3>1. levels'[s] = levels[s] /\ order_map'[s] = order_map[s]
      BY <1>10, <2>2 DEF TypeOK
    <3> QED
      BY <1>4, <2>1, <2>2, <3>1, AgreesRest
  <2>3. CASE s = d
    <3>1. /\ levels'[s] = LevelsAdd(levels[s], t.odid, o)
          /\ order_map'[s] = Put(order_map[s], t.odid, o)
      BY <1>4, <1>10, <2>3 DEF TypeOK
    <3>2. t.is_sell = s /\ t.odid \notin DOMAIN order_map[s]
      BY <1>4, <1>6, <2>3
    <3> QED
      BY <1>4, <1>5, <2>1, <3>1, <3>2, AgreesRest
  <2> QED
    BY <2>2, <2>3
<1>12. ASSUME NEW s \in BOOLEAN
       PROVE  pending_liq_remove_qty'[s] = Expected(y.trades)
  BY <1>1, <1>8 DEF BookAt
<1> QED
  BY <1>9, <1>11, <1>12 DEF BookAt

\* A message is received: the book starts on the order the exchange started on.
LEMMA SentMoves ==
  ASSUME IInv, OrdersOnly, NEW M \in Seq(StreamMessage), NEW x \in PathState, NEW y, BookAt(x),
         PathStep(M, x, y), NEW m, x.seen + 1 \in DOMAIN M, m = M[x.seen + 1],
         processOrderAddMessage(m)
  PROVE  BookAt(y)' /\ y.seen = x.seen + 1
<1>1. /\ pc = "idle" /\ pc' = "matchAdd" /\ UNCHANGED <<levels, order_map, pending_liq_remove_qty>>
      /\ act' = [kind |-> "ADD", odid |-> m.odid, is_sell |-> m.is_sell,
                 quantity |-> m.quantity, price |-> m.price, filled_quantity |-> 0]
  BY DEF processOrderAddMessage, Activate, sideVars
<1>2. x.taker = NoTaker
  BY <1>1 DEF BookAt, Handled, OrdersOnly
<1>3. x.taker.quantity = 0
  BY <1>2 DEF NoTaker
<1>4. Sent(M, x, y)
  BY <1>3 DEF PathStep, Matched, Rested
<1>5. y = [resting |-> x.resting, taker |-> OrderOf(m), trades |-> x.trades, seen |-> x.seen + 1]
  BY <1>4 DEF Sent
<1>6. m \in StreamMessage
  OBVIOUS
<1>7. m.quantity \in Nat /\ m.quantity > 0
  BY <1>6, LevelAssumption DEF StreamMessage
<1>8. Remaining(act') = m.quantity
  BY <1>1, <1>7 DEF Remaining
<1>9. y.taker = Handled'
  BY <1>1, <1>5, <1>7, <1>8 DEF Handled, OrderOf
<1> QED
  BY <1>1, <1>5, <1>9 DEF BookAt

\* A spent order is removed: a side agrees with what it agreed with.
LEMMA RemoveKeeps ==
  ASSUME IInv, SpentInv, RemoveFilled, NEW s \in BOOLEAN, NEW r,
         Agrees(levels[s], order_map[s], s, r), \A k \in DOMAIN r : r[k].quantity > 0
  PROVE  Agrees(levels'[s], order_map'[s], s, r)
<1> USE DEF IInv
<1> DEFINE id == Head(orders_to_remove)
<1>1. /\ pc = "remove" /\ removeOrder(side, id) /\ orders_to_remove # << >>
  BY DEF RemoveFilled
<1>2. side \in BOOLEAN /\ orders_to_remove \in Seq(OrderId)
  BY DEF TypeOK
<1>3. id = orders_to_remove[1] /\ 1 \in DOMAIN orders_to_remove
  BY <1>1, <1>2
<1> HIDE DEF id
<1>4. SideOK(levels[s], order_map[s])
  BY SidesOK
<1>5. CASE id \notin DOMAIN order_map[side] \/ s # side
  <2>1. levels'[s] = levels[s] /\ order_map'[s] = order_map[s]
    BY <1>1, <1>2, <1>5 DEF removeOrder, existOrder, TypeOK
  <2> QED
    BY <2>1
<1>6. CASE id \in DOMAIN order_map[side] /\ s = side
  <2>1. Remaining(order_map[s][id]) = 0
    BY <1>1, <1>3, <1>6 DEF SpentInv
  <2>2. /\ levels'[s] = LevelsRemove(levels[s], id, order_map[s][id])
        /\ order_map'[s] = Erase(order_map[s], id)
    BY <1>1, <1>6 DEF removeOrder, existOrder, TypeOK
  <2> QED
    BY <1>4, <1>6, <2>1, <2>2, AgreesRemove
<1> QED
  BY <1>5, <1>6

\* So the book is where it was.
LEMMA RemoveStays ==
  ASSUME IInv, SpentInv, OrdersOnly, RemoveFilled, NEW x \in PathState, BookAt(x)
  PROVE  BookAt(x)'
<1>1. UNCHANGED <<pc, act, pending_liq_remove_qty>>
  BY DEF RemoveFilled
<1>2. Handled' = Handled
  BY <1>1 DEF Handled
<1>3. \A k \in DOMAIN x.resting : x.resting[k].quantity > 0
  <2>1. MaxQty \in Nat /\ \A k \in DOMAIN x.resting : x.resting[k].quantity \in 1 .. MaxQty
    BY PathStateFields, LevelAssumption
  <2> QED
    BY <2>1
<1>4. \A s \in BOOLEAN : Agrees(levels'[s], order_map'[s], s, x.resting)
  BY <1>3, RemoveKeeps DEF BookAt
<1> QED
  BY <1>1, <1>2, <1>4 DEF BookAt

\* The containers and what is left of the order stay: so does the book.
LEMMA Stays ==
  ASSUME NEW x, BookAt(x), UNCHANGED <<levels, order_map, pending_liq_remove_qty>>,
         Handled' = Handled
  PROVE  BookAt(x)'
BY DEF BookAt

-----------------------------------------------------------------------------
(* The path.                                                               *)

\* The exchange takes a step more.
LEMMA PathExtends ==
  ASSUME NEW M, NEW h, NEW n, IsPath(M, h, n), NEW M2 \in Seq(StreamMessage),
         \A k \in DOMAIN M : k \in DOMAIN M2 /\ M2[k] = M[k],
         NEW y \in PathState, PathStep(M2, h[n], y)
  PROVE  \E g : IsPath(M2, g, n + 1) /\ g[n + 1] = y
<1> DEFINE g == [k \in 0 .. n + 1 |-> IF k = n + 1 THEN y ELSE h[k]]
<1>1. /\ n \in Nat /\ n + 1 \in Nat /\ g[n + 1] = y /\ \A k \in 0 .. n : g[k] = h[k]
      /\ \A k \in 0 .. n + 1 : k = n + 1 \/ k \in 0 .. n
      /\ 0 \in 0 .. n /\ n \in 0 .. n
  BY DEF IsPath
<1> HIDE DEF g
<1>2. \A k \in 0 .. n + 1 : g[k] \in PathState
  BY <1>1 DEF IsPath
<1>3. g[0] = PathStart
  BY <1>1 DEF IsPath
<1>4. ASSUME NEW k \in 0 .. (n + 1) - 1
      PROVE  PathStep(M2, g[k], g[k + 1])
  <2>1. CASE k = n
    BY <1>1, <2>1
  <2>2. CASE k # n
    <3>1. k \in 0 .. n - 1 /\ k \in 0 .. n /\ k + 1 \in 0 .. n
      BY <1>1, <2>2
    <3>2. g[k] = h[k] /\ g[k + 1] = h[k + 1] /\ PathStep(M, h[k], h[k + 1])
      BY <1>1, <3>1 DEF IsPath
    <3>3. Sent(M, h[k], h[k + 1]) => Sent(M2, h[k], h[k + 1])
      BY DEF Sent
    <3> QED
      BY <3>2, <3>3 DEF PathStep
  <2> QED
    BY <2>1, <2>2
<1>5. IsPath(M2, g, n + 1)
  BY <1>1, <1>2, <1>3, <1>4 DEF IsPath
<1> QED
  BY <1>1, <1>5

\* What the book has not received is all that the exchange has published.
LEMMA NothingReceived ==
  ASSUME ExchangeTyped, NEW M \in Seq(StreamMessage), ToCome(M, 0)
  PROVE  order_stream = M
<1>1. order_stream \in Seq(StreamMessage)
  BY DEF ExchangeTyped
<1>2. Len(order_stream) = Len(M) /\ \A k \in 1 .. Len(M) : order_stream[k] = M[k]
  BY <1>1 DEF ToCome
<1> QED
  BY <1>1, <1>2

\* The exchange takes a step, with its session still open: its path grows.
LEMMA ExchangeMoves ==
  ASSUME ExchangeTyped, Requests \subseteq {"ADD"}, PathInv, ExchangeStep, UNCHANGED vars
  PROVE  PathInv'
<1>1. PICK M, h, n, i :
        /\ IsPath(M, h, n) /\ h[n] = PathEnd(M) /\ i \in 0 .. n
        /\ open => i = 0
        /\ ~open => taker.quantity = 0
        /\ ToCome(M, h[i].seen) /\ BookAt(h[i])
  BY DEF PathInv
<1>2. BookAt(h[i])'
  <2>1. UNCHANGED <<levels, order_map, pending_liq_remove_qty, act, pc>>
    BY DEF vars, sideVars
  <2>2. Handled' = Handled
    BY <2>1 DEF Handled
  <2> QED
    BY <1>1, <2>1, <2>2, Stays
<1>3. open
  <2>1. taker.quantity > 0 => taker.quantity # 0
    BY LevelAssumption DEF ExchangeTyped, ExchangeOrder, NoTaker
  <2> QED
    BY <1>1, <2>1 DEF ExchangeStep, NewOrder, CancelOrder, ModifyOrder, CanRequest, Match, Rest,
       Close
<1>4. i = 0 /\ h[i] = PathStart /\ h[i].seen = 0 /\ M \in Seq(StreamMessage) /\ n \in Nat
  BY <1>1, <1>3 DEF IsPath, PathStart
<1>5. order_stream = M
  BY <1>1, <1>4, NothingReceived
<1>6. /\ h[n].resting = resting /\ h[n].taker = taker /\ h[n].trades = trade_stream
      /\ h[n].seen = Len(M)
  BY <1>1 DEF PathEnd
<1>7. ExchangeTyped'
  BY ExchangeStepTyped
<1>8. ASSUME open', NEW N \in Seq(StreamMessage), N = order_stream',
             \A k \in DOMAIN M : k \in DOMAIN N /\ N[k] = M[k],
             PathStep(N, h[n], PathEnd(N)')
      PROVE  PathInv'
  <2>1. PathEnd(N)' \in PathState
    BY <1>7, <1>8 DEF PathEnd, PathState, ExchangeTyped
  <2>2. PICK g : IsPath(N, g, n + 1) /\ g[n + 1] = PathEnd(N)'
    BY <1>1, <1>8, <2>1, PathExtends
  <2>3. g[0] = h[i] /\ 0 \in 0 .. n + 1
    BY <1>4, <2>2 DEF IsPath
  <2>4. BookAt(g[0])'
    BY <1>2, <2>3
  <2>5. ToCome(N, g[0].seen)'
    BY <1>4, <1>8, <2>3 DEF ToCome
  <2> QED
    BY <1>8, <2>2, <2>3, <2>4, <2>5 DEF PathInv
<1>9. ASSUME NEW o \in ExchangeOrder, NewOrder(o)
      PROVE  PathInv'
  <2> DEFINE m == OrderMsg("ADD", o)
             N == Append(M, m)
  <2>1. /\ open' = open /\ taker.quantity = 0 /\ "ADD" \in Requests /\ taker' = o
        /\ order_stream' = N /\ UNCHANGED <<resting, trade_stream>>
    BY <1>5, <1>9 DEF NewOrder, CanRequest
  <2>2. m \in StreamMessage /\ OrderOf(m) = o
    <3>1. o = [odid |-> o.odid, is_sell |-> o.is_sell, quantity |-> o.quantity, price |-> o.price]
      BY DEF ExchangeOrder
    <3> QED
      BY <2>1, <3>1, OrderMsgTyped DEF OrderMsg, OrderOf
  <2> HIDE DEF m
  <2>3. /\ N \in Seq(StreamMessage) /\ Len(M) + 1 \in DOMAIN N /\ N[Len(M) + 1] = m
        /\ Len(N) = Len(M) + 1 /\ \A k \in DOMAIN M : k \in DOMAIN N /\ N[k] = M[k]
    BY <1>4, <2>2
  <2> HIDE DEF N
  <2>4. PathEnd(N)' = [resting |-> resting, taker |-> o, trades |-> trade_stream,
                       seen |-> Len(M) + 1]
    BY <2>1, <2>3 DEF PathEnd
  <2>5. Sent(N, h[n], PathEnd(N)')
    BY <1>6, <2>1, <2>2, <2>3, <2>4 DEF Sent
  <2> QED
    BY <1>3, <1>8, <2>1, <2>3, <2>5 DEF PathStep
<1>10. ASSUME NEW j \in DOMAIN resting, Match(j)
       PROVE  PathInv'
  <2>1. Matched(h[n], PathEnd(M)', j)
    BY <1>6, <1>10 DEF Match, IsNextMatch, Crosses, Matched, MatchesFirst, CrossesWith, PathEnd,
       RestingAfter, TakerAfter
  <2>2. PathStep(M, h[n], PathEnd(M)')
    BY <1>6, <2>1 DEF PathStep
  <2>3. open' /\ order_stream' = M
    BY <1>3, <1>5, <1>10 DEF Match
  <2> QED
    BY <1>4, <1>8, <2>2, <2>3
<1>11. CASE Rest
  <2>1. Rested(h[n], PathEnd(M)')
    BY <1>6, <1>11 DEF Rest, Crosses, Rested, CrossesWith, PathEnd
  <2>2. open' /\ order_stream' = M
    BY <1>3, <1>5, <1>11 DEF Rest
  <2> QED
    BY <1>4, <1>8, <2>1, <2>2 DEF PathStep
<1>12. CASE Close
  <2>1. /\ ~open' /\ taker.quantity = 0 /\ UNCHANGED <<resting, taker, order_stream, trade_stream>>
    BY <1>12 DEF Close
  <2>2. h[n] = PathEnd(M)' /\ taker'.quantity = 0
    BY <1>1, <2>1 DEF PathEnd
  <2>3. ToCome(M, h[i].seen)'
    BY <1>1, <2>1 DEF ToCome
  <2> QED
    BY <1>1, <1>2, <2>1, <2>2, <2>3 DEF PathInv
<1>13. "CANCEL" \notin Requests /\ "MODIFY" \notin Requests
  OBVIOUS
<1> QED
  BY <1>9, <1>10, <1>11, <1>12, <1>13 DEF ExchangeStep, ExchangeOrder, CancelOrder, ModifyOrder,
     CanRequest

\* The book is not at the end of the path while it has something to do.
LEMMA PathGoesOn ==
  ASSUME NEW M, NEW h, NEW n, NEW i \in 0 .. n, IsPath(M, h, n), h[n] = PathEnd(M),
         taker.quantity = 0, h[i].taker.quantity > 0 \/ h[i].seen # Len(M)
  PROVE  /\ h[i] \in PathState /\ i + 1 \in 0 .. n /\ PathStep(M, h[i], h[i + 1])
<1>1. n \in Nat /\ h[i] \in PathState
  BY DEF IsPath
<1>2. h[n].taker.quantity = 0 /\ h[n].seen = Len(M)
  BY DEF PathEnd
<1>3. i # n
  BY <1>1, <1>2
<1>4. i \in 0 .. n - 1 /\ i + 1 \in 0 .. n
  BY <1>1, <1>3
<1> QED
  BY <1>1, <1>4 DEF IsPath

\* The book takes a message and starts on its order.
LEMMA ReceiveMoves ==
  ASSUME IInv, ExchangeTyped, Requests \subseteq {"ADD"}, OrdersOnly, PathInv, ReceiveOrder
  PROVE  PathInv'
<1>1. PICK M, h, n, i :
        /\ IsPath(M, h, n) /\ h[n] = PathEnd(M) /\ i \in 0 .. n
        /\ open => i = 0
        /\ ~open => taker.quantity = 0
        /\ ToCome(M, h[i].seen) /\ BookAt(h[i])
  BY DEF PathInv
<1> DEFINE m == Head(order_stream)
           a == h[i].seen
<1>2. /\ ~open /\ order_stream # << >> /\ order_stream' = Tail(order_stream)
      /\ UNCHANGED <<resting, taker, trade_stream, open>>
  BY DEF ReceiveOrder
<1>3. order_stream \in Seq(StreamMessage) /\ m \in StreamMessage
  BY <1>2 DEF ExchangeTyped
<1>4. m.type = "ADD"
  BY <1>3, MessageTyped
<1>5. processOrderAddMessage(m)
  BY <1>4 DEF ReceiveOrder
<1>6. M \in Seq(StreamMessage) /\ h[i] \in PathState /\ a \in Nat
  BY <1>1, PathStateFields DEF IsPath
<1>7. /\ Len(order_stream) + a = Len(M) /\ Len(order_stream) \in Nat /\ Len(order_stream) > 0
      /\ \A k \in 1 .. Len(order_stream) : order_stream[k] = M[a + k]
  BY <1>1, <1>2, <1>3 DEF ToCome
<1>8. a + 1 \in DOMAIN M /\ m = M[a + 1] /\ a # Len(M)
  BY <1>3, <1>6, <1>7
<1> HIDE DEF m
<1>9. i + 1 \in 0 .. n /\ PathStep(M, h[i], h[i + 1])
  BY <1>1, <1>2, <1>8, PathGoesOn
<1>10. BookAt(h[i + 1])' /\ h[i + 1].seen = a + 1
  BY <1>1, <1>5, <1>6, <1>8, <1>9, SentMoves
<1>11. ToCome(M, h[i + 1].seen)'
  <2>1. /\ Len(order_stream') = Len(order_stream) - 1
        /\ DOMAIN order_stream' = 1 .. Len(order_stream) - 1
        /\ \A k \in 1 .. Len(order_stream) - 1 : order_stream'[k] = order_stream[k + 1]
    BY <1>2, <1>3
  <2>2. Len(order_stream') + (a + 1) = Len(M)
    BY <1>6, <1>7, <2>1
  <2>3. ASSUME NEW k \in DOMAIN order_stream'
        PROVE  order_stream'[k] = M[(a + 1) + k]
    <3>1. k + 1 \in 1 .. Len(order_stream) /\ order_stream'[k] = order_stream[k + 1]
      BY <1>7, <2>1
    <3>2. a + (k + 1) = (a + 1) + k
      <4>1. k \in Int
        BY <1>7, <2>1
      <4>2. \A b \in Nat : b + (k + 1) = (b + 1) + k
        BY ONLY <4>1
      <4> QED
        BY <1>6, <4>2
    <3> QED
      BY <1>7, <3>1, <3>2
  <2> QED
    BY <1>10, <2>2, <2>3 DEF ToCome
<1>12. h[n] = PathEnd(M)'
  BY <1>1, <1>2 DEF PathEnd
<1>13. ~open' /\ taker'.quantity = 0
  BY <1>1, <1>2
<1> QED
  BY <1>1, <1>9, <1>10, <1>11, <1>12, <1>13 DEF PathInv

\* Every other step of the book: it fills, it rests, or it stays where it is.
LEMMA HandlerMoves ==
  ASSUME IInv, ExchangeTyped, ClosedFirst, FreshIds, SpentInv, PassedInv, OrdersOnly, PathInv,
         LLHandlerStep
  PROVE  PathInv'
<1>1. PICK M, h, n, i :
        /\ IsPath(M, h, n) /\ h[n] = PathEnd(M) /\ i \in 0 .. n
        /\ open => i = 0
        /\ ~open => taker.quantity = 0
        /\ ToCome(M, h[i].seen) /\ BookAt(h[i])
  BY DEF PathInv
<1>2. HandlerStep /\ UNCHANGED <<resting, taker, order_stream, trade_stream, open>>
  BY DEF LLHandlerStep, exchangeVars
<1>3. ~open /\ taker.quantity = 0 /\ pc # "idle"
  BY <1>1, <1>2, HandlerIds DEF ClosedFirst
<1>4. h[i] \in PathState
  BY <1>1 DEF IsPath
<1>5. h[n] = PathEnd(M)' /\ ~open' /\ taker'.quantity = 0
  BY <1>1, <1>2, <1>3 DEF PathEnd
<1>6. \A a : ToCome(M, a)' <=> ToCome(M, a)
  BY <1>2 DEF ToCome
<1>7. ASSUME BookAt(h[i])' PROVE PathInv'
  BY <1>1, <1>5, <1>6, <1>7 DEF PathInv
<1>8. ASSUME pc \in {"fill", "uncross"}, Remaining(act) > 0
      PROVE  i + 1 \in 0 .. n /\ PathStep(M, h[i], h[i + 1])
  <2>1. h[i].taker = [odid |-> act.odid, is_sell |-> act.is_sell,
                      quantity |-> Remaining(act), price |-> act.price]
    BY <1>1, <1>8, HandledIs DEF BookAt
  <2>2. h[i].taker.quantity > 0
    BY <1>8, <2>1
  <2> QED
    BY <1>1, <1>3, <2>2, PathGoesOn
<1>9. ASSUME i + 1 \in 0 .. n, BookAt(h[i + 1])', h[i + 1].seen = h[i].seen
      PROVE  PathInv'
  BY <1>1, <1>5, <1>6, <1>9 DEF PathInv
<1>10. CASE Fill
  <2>1. pc = "fill" /\ Remaining(act) > 0
    BY <1>10 DEF Fill
  <2>2. i + 1 \in 0 .. n /\ PathStep(M, h[i], h[i + 1])
    BY <1>8, <2>1
  <2>3. BookAt(h[i + 1])'
    BY <1>1, <1>4, <1>10, <2>2, FillMoves
  <2>4. PICK j \in DOMAIN h[i].resting : Matched(h[i], h[i + 1], j)
    BY <1>1, <1>4, <1>10, <2>2, FillPlace
  <2>5. h[i + 1].seen = h[i].seen
    BY <2>4 DEF Matched
  <2> QED
    BY <1>9, <2>2, <2>3, <2>5
<1>11. CASE RestOrder /\ Remaining(act) > 0
  <2>1. pc = "uncross" /\ pc' = "done"
    BY <1>11 DEF RestOrder
  <2>2. i + 1 \in 0 .. n /\ PathStep(M, h[i], h[i + 1])
    BY <1>8, <1>11, <2>1
  <2>3. BookAt(h[i + 1])'
    BY <1>1, <1>4, <1>11, <2>2, RestMoves
  <2>4. h[i + 1].seen = h[i].seen
    <3>1. h[i].taker.quantity > 0 /\ h[i].taker.quantity # 0
      <4>1. h[i].taker = [odid |-> act.odid, is_sell |-> act.is_sell,
                          quantity |-> Remaining(act), price |-> act.price]
        BY <1>1, <1>11, <2>1, HandledIs DEF BookAt
      <4>2. Remaining(act) \in Nat
        BY ActNat DEF IInv
      <4> QED
        BY <1>11, <4>1, <4>2
    <3>2. ~Sent(M, h[i], h[i + 1])
      BY ONLY <3>1 DEF Sent
    <3>3. ASSUME NEW j, Matched(h[i], h[i + 1], j)
          PROVE  h[i + 1].seen = h[i].seen
      BY ONLY <3>3 DEF Matched
    <3>4. ASSUME Rested(h[i], h[i + 1])
          PROVE  h[i + 1].seen = h[i].seen
      BY ONLY <3>4 DEF Rested
    <3> QED
      BY <2>2, <3>2, <3>3, <3>4 DEF PathStep
  <2> QED
    BY <1>9, <2>2, <2>3, <2>4
<1>12. CASE RestOrder /\ ~(Remaining(act) > 0)
  <2>1. Remaining(act) = 0
    <3>1. Remaining(act) \in Nat
      BY ActNat DEF IInv
    <3> QED
      BY <1>12, <3>1
  <2>2. UNCHANGED <<levels, order_map, pending_liq_remove_qty, act>>
    BY <1>12, <2>1 DEF RestOrder
  <2>3. Handled' = Handled
    BY <2>1, <2>2 DEF Handled
  <2> QED
    BY <1>1, <1>7, <2>2, <2>3, Stays
<1>13. CASE RemoveFilled
  BY <1>1, <1>4, <1>7, <1>13, RemoveStays
<1>14. CASE MatchPendingLiqAdd
  <2>1. PICK p : p \in DOMAIN pending_liq_add_qty[act.is_sell]
    BY <1>14 DEF MatchPendingLiqAdd
  <2>2. act.is_sell \in BOOLEAN
    BY DEF IInv, TypeOK, Action
  <2> QED
    BY <2>1, <2>2 DEF OrdersOnly
<1>15. CASE MatchPendingLiqAddDone \/ Uncross \/ FillDone \/ RemoveFilledDone
  <2>1. /\ UNCHANGED <<levels, order_map, pending_liq_remove_qty, act>>
        /\ pc # "done" /\ pc' # "done"
    BY <1>15 DEF MatchPendingLiqAddDone, Uncross, WalkLevel, FillDone, RemoveFilledDone, sideVars
  <2>2. Handled' = Handled
    BY <2>1 DEF Handled
  <2> QED
    BY <1>1, <1>7, <2>1, <2>2, Stays
<1>16. CASE Return
  <2>1. /\ UNCHANGED <<levels, order_map, pending_liq_remove_qty>> /\ pc = "done"
        /\ act'.kind = "NONE"
    BY <1>16 DEF Return, sideVars, Idle
  <2>2. Handled' = Handled
    BY <2>1 DEF Handled
  <2> QED
    BY <1>1, <1>7, <2>1, <2>2, Stays
<1>17. pc \notin {"trade", "sweep", "tradeRest"}
  BY DEF IInv, ActInv, OrdersOnly
<1> QED
  BY <1>2, <1>10, <1>11, <1>12, <1>13, <1>14, <1>15, <1>16, <1>17
     DEF HandlerStep, TradeMatch, Sweep, SweepDone, TradeRest

-----------------------------------------------------------------------------
(* The order stream builds the book.                                       *)

\* A list that agrees with the exchange's has its orders in time order.
LEMMA AgreesLists ==
  ASSUME ExchangeTyped, NEW L, NEW M, NEW s \in BOOLEAN, SideOK(L, M), Agrees(L, M, s, resting),
         \A id \in DOMAIN M : Remaining(M[id]) > 0, NEW p \in DOMAIN L
  PROVE  ListsExchange(L[p].orders, s, p)
<1> DEFINE list  == L[p].orders
           K     == {k \in DOMAIN resting : resting[k].is_sell = s /\ resting[k].price = p}
           At(i, k) == resting[k].is_sell = s /\ resting[k].odid = list[i]
           place == [i \in DOMAIN list |-> CHOOSE k \in DOMAIN resting : At(i, k)]
<1>1. /\ list \in Seq(OrderId) /\ resting \in Seq(ExchangeOrder)
      /\ DOMAIN list \subseteq Int /\ DOMAIN resting \subseteq Int
  BY DEF SideOK, IsMap, L3PriceLevel, ExchangeTyped
<1>2. /\ \A i, j \in DOMAIN list : list[i] = list[j] => i = j
      /\ \A i \in DOMAIN list : list[i] \in DOMAIN M /\ M[list[i]].price = p
  BY DEF SideOK, SideConsistent
<1>3. /\ \A k \in DOMAIN resting :
           resting[k].is_sell = s => /\ resting[k].odid \in DOMAIN M
                                     /\ resting[k].price = M[resting[k].odid].price
      /\ \A id \in DOMAIN M : \E k \in DOMAIN resting : resting[k].is_sell = s /\ resting[k].odid = id
      /\ \A k, l \in DOMAIN resting :
           resting[k].is_sell = s /\ resting[l].is_sell = s =>
             /\ resting[k].odid = resting[l].odid => k = l
             /\ k < l /\ resting[k].price = resting[l].price
                  => Precedes(L[resting[k].price].orders, resting[k].odid, resting[l].odid)
  BY DEF Agrees
<1> HIDE DEF list
<1>4. \A i \in DOMAIN list : place[i] \in DOMAIN resting /\ At(i, place[i])
  <2> SUFFICES ASSUME NEW i \in DOMAIN list
               PROVE  place[i] \in DOMAIN resting /\ At(i, place[i])
    OBVIOUS
  <2>1. \E k \in DOMAIN resting : At(i, k)
    BY <1>2, <1>3
  <2> QED
    BY <2>1
<1>5. place = [i \in DOMAIN list |-> place[i]]
  OBVIOUS
<1> HIDE DEF place
<1>6. place \in [DOMAIN list -> DOMAIN resting]
  BY <1>4, <1>5
<1>7. \A i \in DOMAIN list : list[i] = resting[place[i]].odid /\ place[i] \in K
  BY <1>2, <1>3, <1>4
<1>8. ASSUME NEW i \in DOMAIN list, NEW j \in DOMAIN list, i < j
      PROVE  place[i] < place[j]
  <2>1. /\ place[i] \in DOMAIN resting /\ place[j] \in DOMAIN resting
        /\ place[i] \in Int /\ place[j] \in Int
        /\ resting[place[i]].price = p /\ resting[place[j]].price = p
        /\ resting[place[i]].is_sell = s /\ resting[place[j]].is_sell = s
        /\ resting[place[i]].odid = list[i] /\ resting[place[j]].odid = list[j]
    BY <1>1, <1>4, <1>7
  <2>2. place[i] # place[j]
    BY <1>1, <1>2, <1>8, <2>1
  <2>3. ASSUME place[j] < place[i] PROVE FALSE
    <3>1. Precedes(list, list[j], list[i])
      BY <1>3, <2>1, <2>3 DEF list
    <3>2. PICK a \in DOMAIN list, b \in DOMAIN list : a < b /\ list[a] = list[j] /\ list[b] = list[i]
      BY <3>1 DEF Precedes
    <3>3. a = j /\ b = i
      BY <1>2, <3>2
    <3> QED
      BY <1>1, <1>8, <3>2, <3>3
  <2> QED
    BY <2>1, <2>2, <2>3
<1>9. \A k \in K : \E i \in DOMAIN list : place[i] = k
  <2> SUFFICES ASSUME NEW k \in K PROVE \E i \in DOMAIN list : place[i] = k
    OBVIOUS
  <2>1. resting[k].odid \in DOMAIN M /\ M[resting[k].odid].price = p
    BY <1>3
  <2>2. PICK i \in DOMAIN list : list[i] = resting[k].odid
    BY <2>1 DEF SideOK, SideConsistent, list
  <2>3. place[i] = k
    BY <1>3, <1>4, <2>2
  <2> QED
    BY <2>3
<1>10. {place[i] : i \in DOMAIN list} = K
  BY <1>7, <1>9
<1>11. ListsExchange(list, s, p)
  BY <1>6, <1>7, <1>8, <1>10 DEF ListsExchange
<1> QED
  BY <1>11 DEF list

\* What the invariant says of the book once all orders are received.
LEMMA PathEnds ==
  ASSUME IInv, ExchangeTyped, OrdersOnly, PathInv
  PROVE  OrdersBuildBook
<1> SUFFICES ASSUME ~open, order_stream = << >>, pc = "idle", NEW s \in BOOLEAN
             PROVE  /\ BookOrders(s) = ExchangeOrders(s)
                    /\ \A p \in DOMAIN levels[s] : ListsExchange(levels[s][p].orders, s, p)
                    /\ pending_liq_remove_qty[s] =
                         [p \in {q \in Price : TradesAt(q) # {}} |-> TradedAt(p)]
                    /\ DOMAIN pending_liq_add_qty[s] = {}
  BY DEF OrdersBuildBook
<1>1. PICK M, h, n, i :
        /\ IsPath(M, h, n) /\ h[n] = PathEnd(M) /\ i \in 0 .. n
        /\ open => i = 0
        /\ ~open => taker.quantity = 0
        /\ ToCome(M, h[i].seen) /\ BookAt(h[i])
  BY DEF PathInv
<1>2. h[i] \in PathState /\ n \in Nat /\ M \in Seq(StreamMessage)
  BY <1>1 DEF IsPath
<1>3. h[i].seen = Len(M)
  <2>1. h[i].seen \in Nat /\ Len(order_stream) = 0
    BY <1>2, PathStateFields
  <2> QED
    BY <1>1, <2>1 DEF ToCome
<1>4. h[i].taker = NoTaker
  BY <1>1 DEF BookAt, Handled, OrdersOnly
\* Nothing happened at the exchange that the book has not followed.
<1>5. i = n
  <2>1. SUFFICES ASSUME i # n PROVE FALSE
    OBVIOUS
  <2>2. i \in 0 .. n - 1
    BY <1>1, <1>2, <2>1
  <2>3. PathStep(M, h[i], h[i + 1])
    BY <1>1, <2>2 DEF IsPath
  <2>4. Len(M) + 1 \notin DOMAIN M
    BY <1>2
  <2>5. h[i].taker.quantity = 0
    BY <1>4 DEF NoTaker
  <2> QED
    BY <1>3, <2>3, <2>4, <2>5 DEF PathStep, Sent, Matched, Rested
<1>6. h[i].resting = resting /\ h[i].trades = trade_stream
  BY <1>1, <1>5 DEF PathEnd
<1>7. /\ Agrees(levels[s], order_map[s], s, resting)
      /\ pending_liq_remove_qty[s] = Expected(trade_stream)
  BY <1>1, <1>6 DEF BookAt
<1>8. SideOK(levels[s], order_map[s]) /\ \A id \in DOMAIN order_map[s] : Remaining(order_map[s][id]) > 0
  BY SidesOK DEF IInv, NoSpentOrders
<1>9. BookOrders(s) = ExchangeOrders(s)
  <2> DEFINE N == order_map[s]
             B(id) == [odid |-> id, is_sell |-> s, quantity |-> Remaining(N[id]),
                       price |-> N[id].price]
  <2>1. ASSUME NEW k \in DOMAIN resting, resting[k].is_sell = s
        PROVE  resting[k].odid \in DOMAIN N /\ resting[k] = B(resting[k].odid)
    <3>1. resting[k] \in ExchangeOrder
      BY DEF ExchangeTyped
    <3>2. resting[k] = [odid |-> resting[k].odid, is_sell |-> resting[k].is_sell,
                        quantity |-> resting[k].quantity, price |-> resting[k].price]
      BY <3>1 DEF ExchangeOrder
    <3>3. /\ resting[k].odid \in DOMAIN N /\ resting[k].price = N[resting[k].odid].price
          /\ resting[k].quantity = Remaining(N[resting[k].odid])
      BY <1>7, <2>1 DEF Agrees
    <3> QED
      BY <2>1, <3>2, <3>3
  <2>2. \A id \in DOMAIN N : \E k \in DOMAIN resting : resting[k].is_sell = s /\ resting[k].odid = id
    BY <1>7, <1>8 DEF Agrees
  <2> HIDE DEF B
  <2>3. {B(id) : id \in DOMAIN N} =
          {resting[k] : k \in {j \in DOMAIN resting : resting[j].is_sell = s}}
    BY <2>1, <2>2
  <2> QED
    BY <2>3 DEF BookOrders, ExchangeOrders, B
<1>10. \A p \in DOMAIN levels[s] : ListsExchange(levels[s][p].orders, s, p)
  BY <1>7, <1>8, AgreesLists
<1>11. pending_liq_remove_qty[s] = [p \in {q \in Price : TradesAt(q) # {}} |-> TradedAt(p)]
  BY <1>7 DEF Expected, SumAt, PlacesAt, TradesAt, TradedAt
<1> QED
  BY <1>9, <1>10, <1>11 DEF OrdersOnly

\* The inductive invariant.
BuildInv ==
  /\ IInv
  /\ ExchangeTyped
  /\ ClosedFirst
  /\ FreshIds
  /\ SpentInv
  /\ PassedInv
  /\ OrdersOnly
  /\ PathInv

\* An empty book at the start of the path.
LEMMA InitBuild == LLInit => BuildInv
<1> SUFFICES ASSUME LLInit PROVE BuildInv
  OBVIOUS
<1>1. IInv /\ ExchangeTyped
  BY InitIInv, ExchangeInitTyped DEF LLInit
<1>2. /\ pc = "idle" /\ act.kind = "NONE" /\ orders_to_remove = << >>
      /\ \A s \in BOOLEAN : /\ order_map[s] = EmptyMap /\ levels[s] = EmptyMap
                            /\ pending_liq_remove_qty[s] = EmptyMap
                            /\ pending_liq_add_qty[s] = EmptyMap
      /\ order_stream = << >> /\ trade_stream = << >> /\ resting = << >> /\ taker = NoTaker
      /\ open
  BY DEF LLInit, Init, ExchangeInit, Idle
<1>3. DOMAIN EmptyMap = {}
  BY DEF EmptyMap
<1>4. ClosedFirst /\ FreshIds /\ SpentInv /\ PassedInv /\ OrdersOnly
  <2>1. DOMAIN order_stream = {} /\ \A s \in BOOLEAN : DOMAIN order_map[s] = {}
    BY <1>2, <1>3
  <2> QED
    BY <1>2, <1>3, <2>1 DEF ClosedFirst, FreshIds, SpentInv, PassedInv, OrdersOnly
<1>5. PathInv
  <2> DEFINE M == << >>
             h == [k \in 0 .. 0 |-> PathStart]
  <2>1. h[0] = PathStart /\ 0 \in 0 .. 0 /\ 0 \in Nat
    OBVIOUS
  <2>2. PathStart \in PathState /\ PathStart.seen = 0 /\ PathStart.resting = << >>
        /\ PathStart.trades = << >> /\ PathStart.taker = NoTaker
    BY DEF PathStart, PathState
  <2>3. M \in Seq(StreamMessage) /\ Len(M) = 0
    OBVIOUS
  <2>4. PathStart = PathEnd(M)
    BY <1>2, <2>3 DEF PathStart, PathEnd
  <2> HIDE DEF h, M
  <2>5. IsPath(M, h, 0)
    BY <2>1, <2>2, <2>3 DEF IsPath
  <2>6. ToCome(M, 0)
    BY <1>2, <2>3 DEF ToCome
  <2>7. Expected(<< >>) = EmptyMap
    <3>1. \A q : PlacesAt(<< >>, q) = {}
      BY DEF PlacesAt
    <3> QED
      BY <3>1 DEF Expected, EmptyMap
  <2>8. \A s \in BOOLEAN : Agrees(levels[s], order_map[s], s, << >>)
    BY <1>2, <1>3 DEF Agrees
  <2>9. Handled = NoTaker
    BY <1>2 DEF Handled
  <2>10. BookAt(PathStart)
    BY <1>2, <2>2, <2>7, <2>8, <2>9 DEF BookAt
  <2> QED
    BY <1>2, <2>1, <2>2, <2>4, <2>5, <2>6, <2>10 DEF PathInv
<1> QED
  BY <1>1, <1>4, <1>5 DEF BuildInv

\* Every step keeps the invariant.
LEMMA BuildStep ==
  ASSUME Requests \subseteq {"ADD"}, BuildInv, [OrdersNext]_llVars
  PROVE  BuildInv'
<1> USE DEF BuildInv
<1>1. [LLNext]_llVars
  BY DEF OrdersNext, LLNext
<1>2. [Next]_vars
  BY <1>1, FeedSteps
<1>3. IInv' /\ ExchangeTyped'
  BY <1>1, <1>2, NextIInv, LLNextTyped
<1>4. ClosedFirst' /\ FreshIds'
  <2>1. "MODIFY" \notin Requests
    OBVIOUS
  <2> QED
    BY <1>1, <2>1, FreshStep
<1>5. SpentInv' /\ PassedInv'
  BY <1>2, SpentStep, PassedStep
<1>6. OrdersOnly'
  BY OrdersOnlyStep
<1>7. PathInv'
  <2>1. CASE UNCHANGED llVars
    <3>1. UNCHANGED <<levels, order_map, pending_liq_remove_qty, act, pc, resting, taker,
                      order_stream, trade_stream, open>>
      BY <2>1 DEF llVars, vars, sideVars, exchangeVars
    <3>2. PICK M, h, n, i :
            /\ IsPath(M, h, n) /\ h[n] = PathEnd(M) /\ i \in 0 .. n
            /\ open => i = 0
            /\ ~open => taker.quantity = 0
            /\ ToCome(M, h[i].seen) /\ BookAt(h[i])
      BY DEF PathInv
    <3>3. Handled' = Handled
      BY <3>1 DEF Handled
    <3>4. BookAt(h[i])'
      BY <3>1, <3>2, <3>3, Stays
    <3>5. ToCome(M, h[i].seen)' /\ h[n] = PathEnd(M)'
      BY <3>1, <3>2 DEF ToCome, PathEnd
    <3>6. (open' => i = 0) /\ (~open' => taker'.quantity = 0)
      BY <3>1, <3>2
    <3> QED
      BY <3>2, <3>4, <3>5, <3>6 DEF PathInv
  <2> QED
    BY <2>1, ExchangeMoves, ReceiveMoves, HandlerMoves DEF OrdersNext
<1> QED
  BY <1>3, <1>4, <1>5, <1>6, <1>7

\* New orders build the exchange's book by themselves, whatever their number,
\* prices and quantities: when all are received, and no trade is, each level
\* lists the exchange's orders in time order with what is left of each, and
\* both sides expect exactly the trades to come, price by price
\* (processCrossedOrder, addOrder).
THEOREM OrdersBuild == Requests \subseteq {"ADD"} /\ OrdersSpec => []OrdersBuildBook
<1>1. BuildInv => OrdersBuildBook
  BY PathEnds DEF BuildInv
<1>2. ASSUME Requests \subseteq {"ADD"}
      PROVE  BuildInv /\ [OrdersNext]_llVars => BuildInv'
  BY <1>2, BuildStep
<1>3. ASSUME Requests \subseteq {"ADD"}
      PROVE  OrdersSpec => []OrdersBuildBook
  BY <1>1, <1>2, <1>3, InitBuild, PTL DEF OrdersSpec
<1> QED
  BY <1>3

-----------------------------------------------------------------------------
(* Both streams, at one price.  M is the list of all order messages, and V *)
(* the quantity traded.  At one price an order can only wait for the       *)
(* orders of its side sent before it: what is left of it follows from the  *)
(* quantity that its side has given away.                                  *)

\* What was ordered on side s with the first k messages.
Ordered(M, s, k) ==
  Total([j \in DOMAIN M |-> IF M[j].is_sell = s THEN M[j].quantity ELSE 0], k)

\* What is left of the k-th order when its side has given c away.
Left(M, k, c) ==
  LET all == Ordered(M, M[k].is_sell, k)
  IN  IF all > c THEN MinOf(M[k].quantity, all - c) ELSE 0

OrderLeft(M, k, c) == [odid |-> M[k].odid, is_sell |-> M[k].is_sell,
                       quantity |-> Left(M, k, c), price |-> M[k].price]

\* The orders of side s with something left, among the first b.
Queue(M, s, b, c) ==
  [k \in {j \in 1 .. b : M[j].is_sell = s /\ Left(M, j, c) > 0} |-> OrderLeft(M, k, c)]

\* r has the orders of both sides with something left, in the order of M.
Lists(r, M, b, c) ==
  \E at : /\ at \in [DOMAIN r -> 1 .. b]
          /\ \A i, j \in DOMAIN r : i < j => at[i] < at[j]
          /\ \A i \in DOMAIN r : Left(M, at[i], c) > 0 /\ r[i] = OrderLeft(M, at[i], c)
          /\ \A k \in 1 .. b : Left(M, k, c) > 0 => \E i \in DOMAIN r : at[i] = k

\* The exchange after the messages M and trades of V.
ExchangeAt(M, V) ==
  /\ M \in Seq(StreamMessage)
  /\ V \in Nat
  /\ \A j, k \in DOMAIN M : M[j].odid = M[k].odid => j = k
  /\ \A s \in BOOLEAN : V <= Ordered(M, s, Len(M))
  /\ \A i, j \in DOMAIN resting : resting[i].is_sell = resting[j].is_sell
  /\ \/ taker.quantity = 0 /\ Lists(resting, M, Len(M), V)
     \/ /\ taker.quantity > 0 /\ Len(M) > 0
        /\ taker = OrderLeft(M, Len(M), V)
        /\ Lists(resting, M, Len(M) - 1, V)

Traded(trades) == Total([k \in DOMAIN trades |-> trades[k].quantity], Len(trades))

\* The pending quantity at the price.
PendingQty(f) == IF AnyPrice \in DOMAIN f THEN f[AnyPrice] ELSE 0
Removes(s) == PendingQty(pending_liq_remove_qty[s])
Adds(s) == PendingQty(pending_liq_add_qty[s])

\* What side s has not yet taken of the trade being handled.
ToTake(s) ==
  IF act.kind # "TRADE" \/ pc = "done" THEN 0
  ELSE IF s = side THEN Remaining(act)
  ELSE IF side THEN 0 ELSE act.quantity

Minus(x, y) == IF x > y THEN x - y ELSE 0

\* An order is being handled, and is not in the book.
Adding == act.kind = "ADD" /\ pc # "done"
InBook(a) == IF Adding THEN a - 1 ELSE a

\* What the handlers keep.
HandlerInv ==
  /\ act.kind \in {"NONE", "ADD", "TRADE"}
  /\ pc = "idle" => act.kind = "NONE"
  /\ pc = "matchAdd" => Remaining(act) > 0
  /\ pc \in {"fill", "remove"} /\ act.kind = "ADD" => side = ~act.is_sell
  /\ pc \in {"sweep", "fill", "remove", "tradeRest"} /\ act.kind = "TRADE" /\ Remaining(act) > 0
       => Removes(side) = 0

\* The pending quantities: none is 0, and both sides expect the same once the
\* trade is handled.
PendingInv ==
  /\ \A s \in BOOLEAN : AnyPrice \in DOMAIN pending_liq_remove_qty[s] => Removes(s) > 0
  /\ \A s \in BOOLEAN : AnyPrice \in DOMAIN pending_liq_add_qty[s] => Adds(s) > 0
  /\ Minus(Removes(FALSE), ToTake(FALSE)) = Minus(Removes(TRUE), ToTake(TRUE))

\* The book after the first a messages, when side s has given c[s] away.
GivenAway(M, a, c, s) ==
  /\ c[s] \in Nat
  /\ Agrees(levels[s], order_map[s], s, Queue(M, s, InBook(a), c[s]))
  /\ IF pc = "matchAdd" /\ s = act.is_sell
     THEN /\ Adds(s) + act.filled_quantity = Minus(c[s], Ordered(M, s, InBook(a)))
          /\ act.filled_quantity > 0 => Adds(s) = 0
     ELSE Adds(s) = Minus(c[s], Ordered(M, s, a))
  /\ Removes(s) > 0 => \A t \in BOOLEAN : c[s] <= Ordered(M, t, a)
  /\ Adding /\ pc # "matchAdd" /\ s = act.is_sell => Remaining(act) = Left(M, a, c[s])

HandlesLast(M, a) ==
  Adding => /\ a > 0
            /\ act.odid = M[a].odid
            /\ act.is_sell = M[a].is_sell
            /\ act.quantity = M[a].quantity

\* The account of the book: what a side has given away is what it took of the
\* trades received and what it still expects.
BookAccount(M, V, a, c) ==
  /\ a \in 0 .. Len(M)
  /\ ToCome(M, a)
  /\ HandlesLast(M, a)
  /\ \A s \in BOOLEAN : /\ GivenAway(M, a, c, s)
                        /\ c[s] + ToTake(s) + Traded(trade_stream) = V + Removes(s)

\* Nothing is pending before the book starts.
NothingPending ==
  open => \A s \in BOOLEAN : /\ DOMAIN pending_liq_remove_qty[s] = {}
                             /\ DOMAIN pending_liq_add_qty[s] = {}

\* Exchange and book: the book starts once the session is closed.
AccountInv ==
  \E M, V :
    /\ ExchangeAt(M, V)
    /\ open => M = order_stream /\ V = Traded(trade_stream)
    /\ ~open => taker.quantity = 0 /\ \E a, c : BookAccount(M, V, a, c)

-----------------------------------------------------------------------------
(* What is left of an order.                                               *)

\* Message by message.
LEMMA OrderedIs ==
  ASSUME NEW M \in Seq(StreamMessage), NEW s \in BOOLEAN
  PROVE  /\ Ordered(M, s, 0) = 0
         /\ \A k \in 0 .. Len(M) : Ordered(M, s, k) \in Nat
         /\ \A k \in 1 .. Len(M) :
              /\ M[k].quantity \in Nat /\ M[k].quantity > 0 /\ M[k].is_sell \in BOOLEAN
              /\ Ordered(M, s, k) =
                   Ordered(M, s, k - 1) + (IF M[k].is_sell = s THEN M[k].quantity ELSE 0)
<1> DEFINE f == [j \in DOMAIN M |-> IF M[j].is_sell = s THEN M[j].quantity ELSE 0]
           n == Len(M)
<1>1. n \in Nat /\ DOMAIN M = 1 .. n
  OBVIOUS
<1>2. \A k \in 1 .. n : M[k].quantity \in Nat /\ M[k].quantity > 0 /\ M[k].is_sell \in BOOLEAN
  <2> SUFFICES ASSUME NEW k \in 1 .. n
               PROVE  M[k].quantity \in Nat /\ M[k].quantity > 0 /\ M[k].is_sell \in BOOLEAN
    OBVIOUS
  <2>1. M[k] \in StreamMessage /\ MaxQty \in Nat
    BY LevelAssumption
  <2>2. M[k].quantity \in 1 .. MaxQty /\ M[k].is_sell \in BOOLEAN
    BY <2>1 DEF StreamMessage
  <2> QED
    BY <2>1, <2>2
<1>3. \A k \in 1 .. n : f[k] \in Nat /\ f[k] = IF M[k].is_sell = s THEN M[k].quantity ELSE 0
  BY <1>1, <1>2
<1>4. \A k : Ordered(M, s, k) = Total(f, k)
  BY DEF Ordered
<1> HIDE DEF f, n
<1>5. ASSUME NEW k \in 1 .. n
      PROVE  Ordered(M, s, k) = Ordered(M, s, k - 1) + f[k]
  <2>1. k - 1 \in Nat /\ (k - 1) + 1 = k /\ \A i \in 1 .. (k - 1) + 1 : f[i] \in Int
    BY <1>1, <1>3
  <2>2. Total(f, (k - 1) + 1) = Total(f, k - 1) + f[(k - 1) + 1]
    BY <2>1, TotalNext
  <2> QED
    BY <1>4, <2>1, <2>2
<1>6. Ordered(M, s, 0) = 0
  BY <1>4, TotalZero
<1>7. \A k \in 0 .. n : Ordered(M, s, k) \in Nat
  <2> DEFINE T == {k \in Nat : k <= n => Ordered(M, s, k) \in Nat}
  <2>1. 0 \in T
    BY <1>6
  <2>2. ASSUME NEW k \in Nat, k \in T PROVE k + 1 \in T
    <3> SUFFICES ASSUME k + 1 <= n PROVE Ordered(M, s, k + 1) \in Nat
      BY <2>2
    <3>1. k + 1 \in 1 .. n /\ (k + 1) - 1 = k /\ k <= n
      BY <1>1
    <3>2. Ordered(M, s, k) \in Nat
      BY <2>2, <3>1
    <3> QED
      BY <1>3, <1>5, <3>1, <3>2
  <2> HIDE DEF T
  <2>3. \A k \in Nat : k \in T
    BY <2>1, <2>2, NatSetInduction
  <2> QED
    BY <1>1, <2>3 DEF T
<1> QED
  BY <1>2, <1>3, <1>5, <1>6, <1>7 DEF n

\* It never shrinks.
LEMMA OrderedGrows ==
  ASSUME NEW M \in Seq(StreamMessage), NEW s \in BOOLEAN, NEW j \in 0 .. Len(M),
         NEW k \in 0 .. Len(M), j <= k
  PROVE  Ordered(M, s, j) <= Ordered(M, s, k)
<1> DEFINE n == Len(M)
           T == {i \in Nat : j + i <= n => Ordered(M, s, j) <= Ordered(M, s, j + i)}
<1>1. n \in Nat /\ j \in Nat /\ Ordered(M, s, j) \in Nat /\ j + 0 = j
  BY OrderedIs
<1>2. 0 \in T
  BY <1>1
<1>3. ASSUME NEW i \in Nat, i \in T PROVE i + 1 \in T
  <2> SUFFICES ASSUME j + (i + 1) <= n
               PROVE  Ordered(M, s, j) <= Ordered(M, s, j + (i + 1))
    BY <1>3
  <2>1. /\ j + (i + 1) \in 1 .. n /\ (j + (i + 1)) - 1 = j + i /\ j + i <= n
        /\ j + i \in 0 .. n
    BY <1>1
  <2>2. Ordered(M, s, j) <= Ordered(M, s, j + i) /\ Ordered(M, s, j + i) \in Nat
    BY <1>3, <2>1, OrderedIs
  <2> DEFINE m == j + (i + 1)
  <2>3. m \in 1 .. n /\ m - 1 = j + i
    BY <2>1
  <2> HIDE DEF m
  <2>4. /\ M[m].quantity \in Nat
        /\ Ordered(M, s, m) =
             Ordered(M, s, m - 1) + (IF M[m].is_sell = s THEN M[m].quantity ELSE 0)
    BY <2>3, OrderedIs
  <2>5. Ordered(M, s, j) <= Ordered(M, s, m)
    BY <1>1, <2>2, <2>3, <2>4
  <2> QED
    BY <2>5 DEF m
<1> HIDE DEF T
<1>4. \A i \in Nat : i \in T
  BY <1>2, <1>3, NatSetInduction
<1>5. k - j \in Nat /\ j + (k - j) = k /\ k <= n
  BY <1>1
<1> QED
  BY <1>4, <1>5 DEF T

\* It only depends on the messages so far.
LEMMA OrderedSame ==
  ASSUME NEW M \in Seq(StreamMessage), NEW N \in Seq(StreamMessage), NEW k \in Nat,
         k <= Len(M), k <= Len(N), \A i \in 1 .. k : N[i] = M[i]
  PROVE  /\ \A s \in BOOLEAN : Ordered(N, s, k) = Ordered(M, s, k)
         /\ \A c : k > 0 => Left(N, k, c) = Left(M, k, c) /\ OrderLeft(N, k, c) = OrderLeft(M, k, c)
<1>1. ASSUME NEW s \in BOOLEAN
      PROVE  Ordered(N, s, k) = Ordered(M, s, k)
  <2> DEFINE f == [j \in DOMAIN M |-> IF M[j].is_sell = s THEN M[j].quantity ELSE 0]
             g == [j \in DOMAIN N |-> IF N[j].is_sell = s THEN N[j].quantity ELSE 0]
  <2>1. \A i \in 1 .. k : i \in DOMAIN M /\ i \in DOMAIN N
    OBVIOUS
  <2>2. \A i \in 1 .. k : M[i].quantity \in Nat
    <3>1. \A i \in 1 .. k : i \in 1 .. Len(M)
      OBVIOUS
    <3> QED
      BY <3>1, OrderedIs
  <2>3. \A i \in 1 .. k : f[i] \in Int /\ g[i] = f[i]
    BY <2>1, <2>2
  <2> HIDE DEF f, g
  <2>4. Total(g, k) = Total(f, k)
    BY <2>3, TotalSame
  <2> QED
    BY <2>4 DEF Ordered, f, g
<1>2. ASSUME k > 0 PROVE N[k] = M[k] /\ M[k].is_sell \in BOOLEAN
  <2>1. k \in 1 .. k /\ k \in 1 .. Len(M)
    BY <1>2
  <2> QED
    BY <2>1, OrderedIs
<1>3. ASSUME k > 0, NEW c PROVE Left(N, k, c) = Left(M, k, c)
  BY <1>1, <1>2, <1>3 DEF Left
<1> QED
  BY <1>1, <1>2, <1>3 DEF OrderLeft

\* Something is left exactly of the orders that reach beyond c.
LEMMA LeftIs ==
  ASSUME NEW M \in Seq(StreamMessage), NEW k \in 1 .. Len(M), NEW c \in Nat
  PROVE  /\ M[k].is_sell \in BOOLEAN /\ M[k].quantity \in Nat /\ M[k].quantity > 0
         /\ Ordered(M, M[k].is_sell, k) \in Nat /\ Ordered(M, M[k].is_sell, k - 1) \in Nat
         /\ Ordered(M, M[k].is_sell, k) = Ordered(M, M[k].is_sell, k - 1) + M[k].quantity
         /\ Left(M, k, c) \in Nat /\ Left(M, k, c) <= M[k].quantity
         /\ Left(M, k, c) > 0 <=> Ordered(M, M[k].is_sell, k) > c
         /\ c <= Ordered(M, M[k].is_sell, k - 1) => Left(M, k, c) = M[k].quantity
         /\ c >= Ordered(M, M[k].is_sell, k - 1) =>
              Left(M, k, c) = Minus(Ordered(M, M[k].is_sell, k), c)
<1>1. M[k].is_sell \in BOOLEAN /\ M[k].quantity \in Nat /\ M[k].quantity > 0
  BY OrderedIs
<1>2. k \in 0 .. Len(M) /\ k - 1 \in 0 .. Len(M)
  OBVIOUS
<1>3. PICK s \in BOOLEAN : s = M[k].is_sell
  BY <1>1
<1>4. Ordered(M, s, k) \in Nat /\ Ordered(M, s, k - 1) \in Nat
  BY <1>2, OrderedIs
<1>5. Ordered(M, s, k) = Ordered(M, s, k - 1) + M[k].quantity
  BY <1>3, OrderedIs
<1>6. PICK x \in Nat, y \in Nat, q \in Nat :
        /\ x = Ordered(M, s, k) /\ y = Ordered(M, s, k - 1) /\ q = M[k].quantity
  BY <1>1, <1>4
<1>7. Left(M, k, c) = IF x > c THEN (IF q <= x - c THEN q ELSE x - c) ELSE 0
  BY <1>3, <1>6 DEF Left, MinOf
<1>8. x = y + q /\ q > 0
  BY <1>1, <1>5, <1>6
<1>9. PICK l : l = Left(M, k, c)
  OBVIOUS
<1>10. /\ l \in Nat /\ l <= q
       /\ l > 0 <=> x > c
       /\ c <= y => l = q
       /\ c >= y => l = Minus(x, c)
  BY ONLY <1>7, <1>8, <1>9, c \in Nat, x \in Nat, y \in Nat, q \in Nat DEF Minus
<1> QED
  BY <1>1, <1>3, <1>4, <1>5, <1>6, <1>9, <1>10

\* A side that has not given away all has an order with something left.
LEMMA LeftExists ==
  ASSUME NEW M \in Seq(StreamMessage), NEW s \in BOOLEAN, NEW b \in 0 .. Len(M), NEW c \in Nat,
         Ordered(M, s, b) > c
  PROVE  \E k \in 1 .. b : M[k].is_sell = s /\ Left(M, k, c) > 0
<1> DEFINE n == Len(M)
           Has(i) == \E k \in 1 .. i : M[k].is_sell = s /\ Left(M, k, c) > 0
           T == {i \in Nat : i <= n /\ Ordered(M, s, i) > c => Has(i)}
<1>1. n \in Nat /\ b \in Nat /\ b <= n
  OBVIOUS
<1>2. 0 \in T
  <2>1. Ordered(M, s, 0) = 0
    BY OrderedIs
  <2> QED
    BY <2>1
<1>3. ASSUME NEW i \in Nat, i \in T PROVE i + 1 \in T
  <2> SUFFICES ASSUME i + 1 <= n, Ordered(M, s, i + 1) > c PROVE Has(i + 1)
    BY <1>3
  <2> DEFINE m == i + 1
  <2>1. m \in 1 .. n /\ m - 1 = i /\ i <= n /\ i \in 0 .. n
    BY <1>1
  <2> HIDE DEF m
  <2>2. CASE M[m].is_sell = s
    <3>1. Left(M, m, c) > 0
      BY <2>1, <2>2, LeftIs DEF m
    <3> QED
      BY <2>1, <2>2, <3>1 DEF m
  <2>3. CASE M[m].is_sell # s
    <3>1. Ordered(M, s, m) = Ordered(M, s, m - 1) + 0 /\ Ordered(M, s, i) \in Nat
      BY <2>1, <2>3, OrderedIs
    <3>2. Ordered(M, s, i) > c
      BY <2>1, <3>1 DEF m
    <3>3. PICK k \in 1 .. i : M[k].is_sell = s /\ Left(M, k, c) > 0
      BY <1>3, <2>1, <3>2
    <3> QED
      BY <3>3
  <2> QED
    BY <2>2, <2>3
<1> HIDE DEF T
<1>4. \A i \in Nat : i \in T
  BY <1>2, <1>3, NatSetInduction
<1> QED
  BY <1>1, <1>4 DEF T

\* The first order with something left gives away some of it.
LEMMA GiveAway ==
  ASSUME NEW M \in Seq(StreamMessage), NEW f \in 1 .. Len(M), NEW c \in Nat, NEW qty \in Nat,
         qty <= Left(M, f, c), Left(M, f, c) > 0,
         \A k \in 1 .. f - 1 : M[k].is_sell = M[f].is_sell => Left(M, k, c) = 0
  PROVE  /\ Left(M, f, c + qty) = Left(M, f, c) - qty
         /\ \A k \in 1 .. Len(M) :
              k # f /\ M[k].is_sell = M[f].is_sell => Left(M, k, c + qty) = Left(M, k, c)
         /\ c + qty <= Ordered(M, M[f].is_sell, f)
         /\ c >= Ordered(M, M[f].is_sell, f - 1)
<1>1. PICK s \in BOOLEAN : s = M[f].is_sell
  BY LeftIs
<1>2. f - 1 \in 0 .. Len(M) /\ f \in 0 .. Len(M)
  OBVIOUS
<1>3. Ordered(M, s, f - 1) <= c
  <2>1. Ordered(M, s, f - 1) \in Nat
    BY <1>2, OrderedIs
  <2>2. ASSUME Ordered(M, s, f - 1) > c PROVE FALSE
    <3>1. PICK k \in 1 .. f - 1 : M[k].is_sell = s /\ Left(M, k, c) > 0
      BY <1>2, <2>2, LeftExists
    <3> QED
      BY <1>1, <3>1
  <2> QED
    BY <2>1, <2>2
<1>4. c + qty \in Nat
  OBVIOUS
<1>5. PICK x \in Nat, y \in Nat : x = Ordered(M, s, f) /\ y = Ordered(M, s, f - 1)
  BY <1>2, OrderedIs
<1>6. /\ Left(M, f, c) = Minus(x, c) /\ x > c
      /\ Left(M, f, c + qty) = Minus(x, c + qty)
  <2>1. c >= Ordered(M, M[f].is_sell, f - 1) /\ c + qty >= Ordered(M, M[f].is_sell, f - 1)
    BY <1>1, <1>3, <1>5
  <2> QED
    BY <1>1, <1>4, <1>5, <2>1, LeftIs
<1>7. Left(M, f, c + qty) = Left(M, f, c) - qty /\ c + qty <= x
  BY <1>6 DEF Minus
<1>8. ASSUME NEW k \in 1 .. Len(M), k # f, M[k].is_sell = s
      PROVE  Left(M, k, c + qty) = Left(M, k, c)
  <2>1. CASE k < f
    <3>1. k \in 1 .. f - 1 /\ k \in 0 .. Len(M)
      BY <2>1
    <3>2. Left(M, k, c) = 0
      BY <1>1, <1>8, <3>1
    <3>3. Ordered(M, s, k) \in Nat /\ ~(Ordered(M, s, k) > c)
      <4>1. Left(M, k, c) > 0 <=> Ordered(M, M[k].is_sell, k) > c
        BY LeftIs
      <4> QED
        BY <1>8, <3>1, <3>2, <4>1, OrderedIs
    <3>4. ~(Ordered(M, s, k) > c + qty)
      BY <3>3
    <3>5. Left(M, k, c + qty) \in Nat /\ ~(Left(M, k, c + qty) > 0)
      BY <1>4, <1>8, <3>4, LeftIs
    <3> QED
      BY <3>2, <3>5
  <2>2. CASE k > f
    <3>1. k - 1 \in 0 .. Len(M) /\ f <= k - 1
      BY <2>2
    <3>2. x <= Ordered(M, s, k - 1) /\ Ordered(M, s, k - 1) \in Nat
      BY <1>2, <1>5, <3>1, OrderedGrows, OrderedIs
    <3>3. c + qty <= Ordered(M, s, k - 1) /\ c <= Ordered(M, s, k - 1)
      BY <1>7, <3>2
    <3>4. Left(M, k, c) = M[k].quantity
      BY <1>8, <3>3, LeftIs
    <3>5. Left(M, k, c + qty) = M[k].quantity
      BY <1>4, <1>8, <3>3, LeftIs
    <3> QED
      BY <3>4, <3>5
  <2> QED
    BY <1>8, <2>1, <2>2
<1> QED
  BY <1>1, <1>3, <1>5, <1>7, <1>8

-----------------------------------------------------------------------------
(* Queues of orders with something left.                                   *)

\* The orders of a queue.
LEMMA QueueIs ==
  ASSUME NEW M \in Seq(StreamMessage), NEW s \in BOOLEAN, NEW b \in 0 .. Len(M), NEW c \in Nat
  PROVE  LET Q == Queue(M, s, b, c)
         IN  /\ DOMAIN Q \subseteq 1 .. b /\ DOMAIN Q \subseteq Int
             /\ \A k \in 1 .. b : k \in DOMAIN Q <=> M[k].is_sell = s /\ Left(M, k, c) > 0
             /\ \A k \in DOMAIN Q :
                  /\ k \in 1 .. Len(M) /\ Q[k] = OrderLeft(M, k, c) /\ Q[k].odid = M[k].odid
                  /\ Q[k].is_sell = s /\ Q[k].price = M[k].price
                  /\ Q[k].quantity = Left(M, k, c) /\ Q[k].quantity > 0 /\ Q[k].quantity \in Nat
             /\ DOMAIN Q = {} => Ordered(M, s, b) <= c
<1> DEFINE Q == Queue(M, s, b, c)
<1>1. /\ DOMAIN Q = {j \in 1 .. b : M[j].is_sell = s /\ Left(M, j, c) > 0}
      /\ \A k \in DOMAIN Q : Q[k] = OrderLeft(M, k, c)
  BY DEF Queue
<1> HIDE DEF Q
<1>2. \A k \in DOMAIN Q : k \in 1 .. Len(M)
  BY <1>1
<1>3. ASSUME NEW k \in DOMAIN Q
      PROVE  /\ Q[k].odid = M[k].odid /\ Q[k].is_sell = s /\ Q[k].price = M[k].price
             /\ Q[k].quantity = Left(M, k, c) /\ Q[k].quantity > 0 /\ Q[k].quantity \in Nat
  <2>1. /\ k \in 1 .. Len(M) /\ Q[k] = OrderLeft(M, k, c) /\ M[k].is_sell = s
        /\ Left(M, k, c) > 0
    BY <1>1, <1>2
  <2>2. Left(M, k, c) \in Nat
    BY <2>1, LeftIs
  <2> QED
    BY <2>1, <2>2 DEF OrderLeft
<1>4. ASSUME DOMAIN Q = {} PROVE Ordered(M, s, b) <= c
  <2>1. Ordered(M, s, b) \in Nat
    BY OrderedIs
  <2>2. ~(Ordered(M, s, b) > c)
    BY <1>1, <1>4, LeftExists
  <2> QED
    BY <2>1, <2>2
<1> QED
  BY <1>1, <1>2, <1>3, <1>4 DEF Q

\* The first order of a queue gives qty away.
LEMMA QueueGives ==
  ASSUME NEW M \in Seq(StreamMessage), NEW s \in BOOLEAN, NEW b \in 0 .. Len(M), NEW c \in Nat,
         NEW f \in DOMAIN Queue(M, s, b, c), NEW qty \in Nat, qty <= Left(M, f, c),
         \A k \in DOMAIN Queue(M, s, b, c) : f <= k
  PROVE  /\ \E at : TakenFrom(Queue(M, s, b, c + qty), Queue(M, s, b, c), f, qty, at)
         /\ c + qty <= Ordered(M, s, f)
<1> DEFINE Q == Queue(M, s, b, c)
           R == Queue(M, s, b, c + qty)
<1>0. c + qty \in Nat /\ b \in 0 .. Len(M)
  OBVIOUS
<1>1. /\ DOMAIN Q \subseteq 1 .. b /\ DOMAIN Q \subseteq Int
      /\ \A k \in 1 .. b : k \in DOMAIN Q <=> M[k].is_sell = s /\ Left(M, k, c) > 0
      /\ \A k \in DOMAIN Q :
           /\ k \in 1 .. Len(M) /\ Q[k] = OrderLeft(M, k, c)
           /\ Q[k].is_sell = s /\ Q[k].quantity = Left(M, k, c)
  BY QueueIs
<1>2. /\ DOMAIN R \subseteq 1 .. b /\ DOMAIN R \subseteq Int
      /\ \A k \in 1 .. b : k \in DOMAIN R <=> M[k].is_sell = s /\ Left(M, k, c + qty) > 0
      /\ \A k \in DOMAIN R :
           /\ k \in 1 .. Len(M) /\ R[k] = OrderLeft(M, k, c + qty)
           /\ R[k].is_sell = s /\ R[k].quantity = Left(M, k, c + qty)
  BY <1>0, QueueIs
<1> HIDE DEF Q, R
<1>3. /\ f \in DOMAIN Q /\ f \in 1 .. Len(M) /\ f \in 1 .. b /\ M[f].is_sell = s
      /\ Left(M, f, c) > 0 /\ \A k \in DOMAIN Q : f <= k
  BY <1>1 DEF Q
<1>4. \A k \in 1 .. f - 1 : M[k].is_sell = M[f].is_sell => Left(M, k, c) = 0
  <2> SUFFICES ASSUME NEW k \in 1 .. f - 1, M[k].is_sell = M[f].is_sell
               PROVE  Left(M, k, c) = 0
    OBVIOUS
  <2>1. k \in 1 .. b /\ k \in 1 .. Len(M) /\ ~(f <= k)
    BY <1>3
  <2>2. Left(M, k, c) \in Nat /\ ~(Left(M, k, c) > 0)
    BY <1>1, <1>3, <2>1, LeftIs
  <2> QED
    BY <2>2
<1>5. /\ Left(M, f, c + qty) = Left(M, f, c) - qty
      /\ \A k \in 1 .. Len(M) :
           k # f /\ M[k].is_sell = M[f].is_sell => Left(M, k, c + qty) = Left(M, k, c)
      /\ c + qty <= Ordered(M, M[f].is_sell, f)
  <2>1. qty <= Left(M, f, c)
    OBVIOUS
  <2> QED
    BY ONLY <1>3, <1>4, <2>1, GiveAway, M \in Seq(StreamMessage), c \in Nat, qty \in Nat
<1> DEFINE at == [k \in DOMAIN R |-> k]
<1>6. ASSUME NEW k \in DOMAIN R
      PROVE  /\ k \in DOMAIN Q /\ at[k] = k /\ R[k].is_sell = Q[k].is_sell
             /\ R[k].odid = Q[k].odid /\ R[k].price = Q[k].price
             /\ k # f => R[k] = Q[k]
             /\ k = f => Q[f].quantity # qty /\ R[k].quantity = Q[f].quantity - qty
  <2>1. k \in 1 .. b /\ k \in 1 .. Len(M) /\ M[k].is_sell = s /\ Left(M, k, c + qty) > 0
    BY <1>2
  <2>2. k \in DOMAIN Q
    BY <1>1, <1>3, <1>5, <2>1
  <2>3. R[k] = OrderLeft(M, k, c + qty) /\ Q[k] = OrderLeft(M, k, c)
    BY <1>1, <1>2, <2>2
  <2>4. k # f => R[k] = Q[k]
    BY <1>3, <1>5, <2>1, <2>3 DEF OrderLeft
  <2>5. Left(M, f, c) \in Nat
    BY <1>3, LeftIs
  <2>6. ASSUME k = f PROVE Q[f].quantity # qty /\ R[k].quantity = Q[f].quantity - qty
    BY <1>1, <1>2, <1>3, <1>5, <2>1, <2>5, <2>6
  <2>7. R[k].is_sell = Q[k].is_sell /\ R[k].odid = Q[k].odid /\ R[k].price = Q[k].price
    BY <2>3 DEF OrderLeft
  <2> QED
    BY <2>2, <2>4, <2>6, <2>7
<1>7. ASSUME NEW j \in DOMAIN Q, j # f \/ Q[f].quantity # qty
      PROVE  j \in DOMAIN R /\ at[j] = j
  <2>1. j \in 1 .. b /\ j \in 1 .. Len(M) /\ M[j].is_sell = s /\ Left(M, j, c) > 0
    BY <1>1
  <2>2. CASE j # f
    BY <1>2, <1>3, <1>5, <2>1, <2>2
  <2>3. CASE j = f
    <3>1. Left(M, f, c) \in Nat /\ Left(M, f, c) # qty
      BY <1>1, <1>3, <1>7, <2>3, LeftIs
    <3>2. Left(M, f, c + qty) > 0
      BY <1>5, <3>1
    <3> QED
      BY <1>2, <2>1, <2>3, <3>2
  <2> QED
    BY <2>2, <2>3
<1>8. PartOf(R, Q, at)
  BY <1>6 DEF PartOf
<1> HIDE DEF at
<1>9. TakenFrom(R, Q, f, qty, at)
  BY <1>6, <1>7, <1>8 DEF TakenFrom
<1> QED
  BY <1>3, <1>5, <1>9 DEF Q, R

\* One more message.
LEMMA QueueNext ==
  ASSUME NEW M \in Seq(StreamMessage), NEW s \in BOOLEAN, NEW a \in 1 .. Len(M), NEW c \in Nat
  PROVE  LET Q == Queue(M, s, a - 1, c)
             R == Queue(M, s, a, c)
         IN  /\ M[a].is_sell # s \/ Left(M, a, c) = 0 => R = Q
             /\ M[a].is_sell = s /\ Left(M, a, c) > 0 =>
                  /\ DOMAIN R = DOMAIN Q \cup {a} /\ R[a] = OrderLeft(M, a, c)
                  /\ \A k \in DOMAIN Q : R[k] = Q[k] /\ k < a
<1> DEFINE Q == Queue(M, s, a - 1, c)
           R == Queue(M, s, a, c)
           In(k) == M[k].is_sell = s /\ Left(M, k, c) > 0
<1>1. 1 .. a = (1 .. a - 1) \cup {a} /\ \A k \in 1 .. a - 1 : k < a
  OBVIOUS
<1>2. /\ Q = [k \in {j \in 1 .. a - 1 : In(j)} |-> OrderLeft(M, k, c)]
      /\ R = [k \in {j \in 1 .. a : In(j)} |-> OrderLeft(M, k, c)]
  BY DEF Queue
<1>3. ASSUME M[a].is_sell # s \/ Left(M, a, c) = 0
      PROVE  R = Q
  <2>1. {j \in 1 .. a : In(j)} = {j \in 1 .. a - 1 : In(j)}
    BY <1>1, <1>3
  <2> QED
    BY <1>2, <2>1
<1>4. ASSUME In(a)
      PROVE  /\ DOMAIN R = DOMAIN Q \cup {a} /\ R[a] = OrderLeft(M, a, c)
             /\ \A k \in DOMAIN Q : R[k] = Q[k] /\ k < a
  <2>1. {j \in 1 .. a : In(j)} = {j \in 1 .. a - 1 : In(j)} \cup {a}
    BY <1>1, <1>4
  <2> HIDE DEF Q, R, In
  <2>2. DOMAIN R = DOMAIN Q \cup {a} /\ DOMAIN Q \subseteq 1 .. a - 1
    BY <1>2, <2>1
  <2> QED
    BY <1>1, <1>2, <2>1, <2>2
<1> QED
  BY <1>3, <1>4

-----------------------------------------------------------------------------
(* The exchange.                                                           *)

\* All orders have the same price.
OnePrice == \A p, q \in Price : p = q

\* The exchange's list after one more message.
LEMMA ListsNext ==
  ASSUME NEW M \in Seq(StreamMessage), NEW a \in 1 .. Len(M), NEW c \in Nat, NEW r,
         Lists(r, M, a - 1, c), Left(M, a, c) = 0
  PROVE  Lists(r, M, a, c)
<1>1. PICK at : /\ at \in [DOMAIN r -> 1 .. a - 1]
                /\ \A i, j \in DOMAIN r : i < j => at[i] < at[j]
                /\ \A i \in DOMAIN r : Left(M, at[i], c) > 0 /\ r[i] = OrderLeft(M, at[i], c)
                /\ \A k \in 1 .. a - 1 : Left(M, k, c) > 0 => \E i \in DOMAIN r : at[i] = k
  BY DEF Lists
<1>2. 1 .. a = (1 .. a - 1) \cup {a}
  OBVIOUS
<1>3. at \in [DOMAIN r -> 1 .. a] /\ ~(Left(M, a, c) > 0)
  BY <1>1, <1>2
<1>4. \A k \in 1 .. a : Left(M, k, c) > 0 => \E i \in DOMAIN r : at[i] = k
  BY <1>1, <1>2, <1>3
<1> QED
  BY <1>1, <1>3, <1>4 DEF Lists

\* A request is sent.
LEMMA NewOrderAt ==
  ASSUME ExchangeTyped, NEW V, ExchangeAt(order_stream, V), NEW o \in ExchangeOrder, NewOrder(o)
  PROVE  ExchangeAt(order_stream, V)'
<1> DEFINE M == order_stream
           N == order_stream'
           n == Len(M)
           m == OrderMsg("ADD", o)
<1>1. /\ "ADD" \in Requests /\ taker.quantity = 0
      /\ \A k \in DOMAIN M : M[k].odid # o.odid
      /\ taker' = o /\ N = Append(M, m) /\ UNCHANGED <<resting, trade_stream, open>>
  BY DEF NewOrder, CanRequest
<1>2. m \in StreamMessage /\ M \in Seq(StreamMessage)
  BY <1>1, OrderMsgTyped DEF ExchangeTyped
<1>3. /\ m.odid = o.odid /\ m.is_sell = o.is_sell /\ m.quantity = o.quantity /\ m.price = o.price
      /\ o = [odid |-> o.odid, is_sell |-> o.is_sell, quantity |-> o.quantity, price |-> o.price]
      /\ o.is_sell \in BOOLEAN /\ o.quantity \in Nat /\ o.quantity > 0
  <2>1. MaxQty \in Nat /\ o.quantity \in 1 .. MaxQty
    BY LevelAssumption DEF ExchangeOrder
  <2> QED
    BY <2>1 DEF OrderMsg, ExchangeOrder
<1> HIDE DEF m
<1>4. /\ n \in Nat /\ DOMAIN M = 1 .. n /\ N \in Seq(StreamMessage) /\ Len(N) = n + 1
      /\ DOMAIN N = 1 .. n + 1 /\ N[n + 1] = m /\ \A k \in 1 .. n : N[k] = M[k]
  BY <1>1, <1>2
<1>5. /\ V \in Nat /\ \A s \in BOOLEAN : V <= Ordered(M, s, n)
      /\ \A j, k \in 1 .. n : M[j].odid = M[k].odid => j = k
      /\ \A i, j \in DOMAIN resting : resting[i].is_sell = resting[j].is_sell
      /\ Lists(resting, M, n, V)
  BY <1>1, <1>4 DEF ExchangeAt
<1> HIDE DEF M, N, n
<1>6. \A j, k \in 1 .. n + 1 : N[j].odid = N[k].odid => j = k
  <2>1. \A k \in 1 .. n : N[k].odid # N[n + 1].odid
    BY <1>1, <1>3, <1>4
  <2>2. \A k \in 1 .. n + 1 : k \in 1 .. n \/ k = n + 1
    BY <1>4
  <2> QED
    BY <1>4, <1>5, <2>1, <2>2
<1>7. \A s \in BOOLEAN : Ordered(N, s, n) = Ordered(M, s, n)
  BY <1>2, <1>4, OrderedSame
<1>8. ASSUME NEW s \in BOOLEAN
      PROVE  V <= Ordered(N, s, n) /\ V <= Ordered(N, s, n + 1)
  <2>1. n \in 0 .. Len(N) /\ n + 1 \in 0 .. Len(N) /\ n <= n + 1
    BY <1>4
  <2>2. /\ Ordered(N, s, n) <= Ordered(N, s, n + 1)
        /\ Ordered(N, s, n) \in Nat /\ Ordered(N, s, n + 1) \in Nat
    BY <1>4, <2>1, OrderedGrows, OrderedIs
  <2> QED
    BY <1>5, <1>7, <2>2
<1>9. o = OrderLeft(N, n + 1, V)
  <2>1. n + 1 \in 1 .. Len(N) /\ (n + 1) - 1 = n
    BY <1>4
  <2>2. V <= Ordered(N, N[n + 1].is_sell, (n + 1) - 1)
    BY <1>3, <1>4, <1>8, <2>1
  <2>3. Left(N, n + 1, V) = N[n + 1].quantity
    BY <1>4, <1>5, <2>1, <2>2, LeftIs
  <2> QED
    BY <1>3, <1>4, <2>3 DEF OrderLeft
<1>10. Lists(resting, N, (n + 1) - 1, V)
  <2>1. PICK at : /\ at \in [DOMAIN resting -> 1 .. n]
                  /\ \A i, j \in DOMAIN resting : i < j => at[i] < at[j]
                  /\ \A i \in DOMAIN resting :
                       Left(M, at[i], V) > 0 /\ resting[i] = OrderLeft(M, at[i], V)
                  /\ \A k \in 1 .. n : Left(M, k, V) > 0 => \E i \in DOMAIN resting : at[i] = k
    BY <1>5 DEF Lists
  <2>2. ASSUME NEW k \in 1 .. n
        PROVE  Left(N, k, V) = Left(M, k, V) /\ OrderLeft(N, k, V) = OrderLeft(M, k, V)
    <3>1. /\ k \in Nat /\ k > 0 /\ k <= Len(M) /\ k <= Len(N)
          /\ \A i \in 1 .. k : N[i] = M[i]
      BY <1>4 DEF n
    <3> QED
      BY <1>2, <1>4, <3>1, OrderedSame
  <2>3. (n + 1) - 1 = n
    BY <1>4
  <2>4. Lists(resting, N, n, V)
    BY <2>1, <2>2 DEF Lists
  <2> QED
    BY <2>3, <2>4
<1>11. /\ taker'.quantity > 0 /\ Len(N) > 0 /\ taker' = OrderLeft(N, Len(N), V)
       /\ Lists(resting, N, Len(N) - 1, V)
  BY <1>1, <1>3, <1>4, <1>9, <1>10
<1> QED
  BY <1>1, <1>4, <1>5, <1>6, <1>8, <1>11 DEF ExchangeAt, N

\* At one price a request is matched with the orders of the other side in the
\* order they were sent.
LEMMA MatchAt ==
  ASSUME OnePrice, ExchangeTyped, NEW M, NEW V, ExchangeAt(M, V), NEW i \in DOMAIN resting, Match(i)
  PROVE  LET qty == MinOf(taker.quantity, resting[i].quantity)
         IN  qty \in Nat /\ \E W \in Nat : W = V + qty /\ ExchangeAt(M, W)'
<1> DEFINE qty == MinOf(taker.quantity, resting[i].quantity)
           n == Len(M)
<1>0. PICK W : W = V + qty
  OBVIOUS
<1>1. /\ taker.quantity > 0 /\ IsNextMatch(i)
      /\ taker' = TakerAfter(taker, qty) /\ resting' = RestingAfter(resting, i, qty)
  BY DEF Match, TakerAfter, RestingAfter
<1>2. /\ M \in Seq(StreamMessage) /\ V \in Nat
      /\ \A j, k \in DOMAIN M : M[j].odid = M[k].odid => j = k
      /\ \A s \in BOOLEAN : V <= Ordered(M, s, n)
      /\ \A k, j \in DOMAIN resting : resting[k].is_sell = resting[j].is_sell
  BY DEF ExchangeAt
<1>3. n > 0 /\ taker = OrderLeft(M, n, V) /\ Lists(resting, M, n - 1, V)
  BY <1>1 DEF ExchangeAt
<1>4. /\ n = Len(M) /\ n \in Nat /\ n \in 1 .. n /\ n \in 1 .. Len(M) /\ DOMAIN M = 1 .. n
      /\ n \in 0 .. Len(M)
      /\ \A k \in 1 .. n - 1 : k \in 1 .. Len(M) /\ k < n /\ k # n /\ k \in 0 .. Len(M)
  BY <1>2, <1>3
<1>5. PICK at : /\ at \in [DOMAIN resting -> 1 .. n - 1]
                /\ \A k, j \in DOMAIN resting : k < j => at[k] < at[j]
                /\ \A k \in DOMAIN resting :
                     Left(M, at[k], V) > 0 /\ resting[k] = OrderLeft(M, at[k], V)
                /\ \A k \in 1 .. n - 1 :
                     Left(M, k, V) > 0 => \E j \in DOMAIN resting : at[j] = k
  BY <1>3 DEF Lists
<1>6. resting \in Seq(ExchangeOrder) /\ taker \in ExchangeOrder \cup {NoTaker}
  BY DEF ExchangeTyped
<1> DEFINE f == at[i]
<1>7. /\ f \in 1 .. n - 1 /\ f \in 1 .. Len(M) /\ f # n
      /\ Left(M, f, V) > 0 /\ resting[i] = OrderLeft(M, f, V)
  BY <1>4, <1>5
<1>8. /\ resting[i].quantity = Left(M, f, V) /\ taker.quantity = Left(M, n, V)
      /\ resting[i].is_sell = M[f].is_sell /\ taker.is_sell = M[n].is_sell
      /\ Left(M, f, V) \in Nat /\ Left(M, n, V) \in Nat
      /\ M[f].is_sell \in BOOLEAN /\ M[n].is_sell \in BOOLEAN
  <2>1. /\ resting[i].quantity = Left(M, f, V) /\ taker.quantity = Left(M, n, V)
        /\ resting[i].is_sell = M[f].is_sell /\ taker.is_sell = M[n].is_sell
    BY <1>3, <1>7 DEF OrderLeft
  <2>2. Left(M, f, V) \in Nat /\ M[f].is_sell \in BOOLEAN
    BY <1>2, <1>7, LeftIs
  <2>3. Left(M, n, V) \in Nat /\ M[n].is_sell \in BOOLEAN
    BY <1>2, <1>4, LeftIs
  <2> QED
    BY <2>1, <2>2, <2>3
<1>9. /\ qty \in Nat /\ qty <= Left(M, f, V) /\ qty <= Left(M, n, V) /\ Left(M, n, V) > 0
      /\ W \in Nat
  <2>1. qty \in Nat /\ qty <= taker.quantity /\ qty <= resting[i].quantity
    BY <1>8, MinOfNat
  <2> HIDE DEF qty
  <2> QED
    BY <1>0, <1>1, <1>2, <1>8, <2>1
<1>10. M[f].is_sell # M[n].is_sell
  BY <1>1, <1>8 DEF IsNextMatch, Crosses
<1> HIDE DEF qty, n, f
\* The order matched is the first of its side.
<1>11. \A j \in DOMAIN resting : ~(j < i)
  <2> SUFFICES ASSUME NEW j \in DOMAIN resting, j < i PROVE FALSE
    OBVIOUS
  <2>1. resting[j].price \in Price /\ resting[i].price \in Price /\ taker.price \in Price
    <3>1. resting[i] \in ExchangeOrder /\ resting[j] \in ExchangeOrder
      BY <1>6
    <3>2. taker \in ExchangeOrder
      BY <1>1, <1>6 DEF NoTaker
    <3> QED
      BY <3>1, <3>2 DEF ExchangeOrder
  <2>2. /\ resting[j].price = resting[i].price /\ taker.price = resting[i].price
        /\ resting[i].price \in Int
    BY <2>1, LevelAssumption DEF OnePrice
  <2>3. resting[j].is_sell = resting[i].is_sell
    BY <1>2
  <2>4. Crosses(resting[j]) /\ ~Before(resting[i].is_sell, resting[i].price, resting[j].price)
    BY <1>1, <2>2, <2>3 DEF IsNextMatch, Crosses, Before
  <2>5. i <= j
    BY <1>1, <2>4 DEF IsNextMatch
  <2>6. i \in Int /\ j \in Int
    BY <1>6
  <2> QED
    BY <2>5, <2>6
<1>12. \A k \in 1 .. f - 1 : M[k].is_sell = M[f].is_sell => Left(M, k, V) = 0
  <2> SUFFICES ASSUME NEW k \in 1 .. f - 1 PROVE Left(M, k, V) = 0
    OBVIOUS
  <2>1. k \in 1 .. n - 1 /\ k \in 1 .. Len(M) /\ k < f
    <3>1. k \in 1 .. n - 1 /\ k < f
      BY <1>4, <1>7
    <3> QED
      BY <1>4, <3>1
  <2>2. Left(M, k, V) \in Nat
    BY <1>2, <2>1, LeftIs
  <2>3. ASSUME Left(M, k, V) > 0 PROVE FALSE
    <3>1. PICK j \in DOMAIN resting : at[j] = k
      BY <1>5, <2>1, <2>3
    <3>2. i \in Int /\ j \in Int /\ f \in Int /\ k \in Int
      BY <1>6, <1>7
    <3>3. i < j \/ i = j
      BY <1>11, <3>1, <3>2
    <3>4. f < k \/ f = k
      BY <1>5, <3>1, <3>3 DEF f
    <3> QED
      BY <2>1, <3>2, <3>4
  <2> QED
    BY <2>2, <2>3
\* The request is the first of its side.
<1>13. \A k \in 1 .. n - 1 : M[k].is_sell = M[n].is_sell => Left(M, k, V) = 0
  <2> SUFFICES ASSUME NEW k \in 1 .. n - 1, M[k].is_sell = M[n].is_sell
               PROVE  Left(M, k, V) = 0
    OBVIOUS
  <2>1. k \in 1 .. Len(M)
    BY <1>4
  <2>2. Left(M, k, V) \in Nat
    BY <1>2, <2>1, LeftIs
  <2>3. ASSUME Left(M, k, V) > 0 PROVE FALSE
    <3>1. PICK j \in DOMAIN resting : at[j] = k
      BY <1>5, <2>3
    <3>2. resting[j].is_sell = M[k].is_sell
      BY <1>5, <3>1 DEF OrderLeft
    <3> QED
      BY <1>2, <1>8, <1>10, <3>2
  <2> QED
    BY <2>2, <2>3
<1>14. /\ Left(M, f, W) = Left(M, f, V) - qty
       /\ \A k \in 1 .. Len(M) :
            k # f /\ M[k].is_sell = M[f].is_sell => Left(M, k, W) = Left(M, k, V)
       /\ W <= Ordered(M, M[f].is_sell, f)
  <2>1. f \in 1 .. Len(M) /\ Left(M, f, V) > 0
    BY <1>7
  <2> QED
    BY ONLY <1>0, <1>2, <1>9, <1>12, <2>1, GiveAway
<1>15. /\ Left(M, n, W) = Left(M, n, V) - qty
       /\ \A k \in 1 .. Len(M) :
            k # n /\ M[k].is_sell = M[n].is_sell => Left(M, k, W) = Left(M, k, V)
       /\ W <= Ordered(M, M[n].is_sell, n)
  <2>1. n \in 1 .. Len(M)
    BY <1>4
  <2> QED
    BY ONLY <1>0, <1>2, <1>9, <1>13, <2>1, GiveAway
<1>16. ASSUME NEW k \in 1 .. n - 1, k # f
       PROVE  Left(M, k, W) = Left(M, k, V) /\ OrderLeft(M, k, W) = OrderLeft(M, k, V)
  <2>1. k \in 1 .. Len(M) /\ k # n
    BY <1>4
  <2>2. M[k].is_sell \in BOOLEAN
    BY <1>2, <2>1, OrderedIs
  <2>3. M[k].is_sell = M[f].is_sell \/ M[k].is_sell = M[n].is_sell
    BY <1>8, <1>10, <2>2
  <2>4. Left(M, k, W) = Left(M, k, V)
    BY <1>14, <1>15, <1>16, <2>1, <2>3
  <2> QED
    BY <2>4 DEF OrderLeft
<1>17. ASSUME NEW s \in BOOLEAN PROVE W <= Ordered(M, s, Len(M))
  <2>1. /\ f \in 0 .. Len(M) /\ f <= n /\ Len(M) \in 0 .. Len(M) /\ n = Len(M)
        /\ n \in 0 .. Len(M)
    BY <1>4, <1>7
  <2>2. s = M[f].is_sell \/ s = M[n].is_sell
    BY <1>8, <1>10
  <2>3. /\ Ordered(M, M[f].is_sell, f) <= Ordered(M, M[f].is_sell, Len(M))
        /\ Ordered(M, M[f].is_sell, f) \in Nat /\ Ordered(M, M[f].is_sell, Len(M)) \in Nat
    BY <1>2, <1>8, <2>1, OrderedGrows, OrderedIs
  <2> QED
    BY <1>9, <1>14, <1>15, <2>1, <2>2, <2>3
<1>18. PICK from : TakenFrom(resting', resting, i, qty, from)
  BY <1>1, <1>6, MatchTakes
<1>19. /\ PartOf(resting', resting, from)
       /\ \A k \in DOMAIN resting' :
            /\ from[k] # i => resting'[k] = resting[from[k]]
            /\ from[k] = i => /\ resting[i].quantity # qty
                              /\ resting'[k].quantity = resting[i].quantity - qty
       /\ \A j \in DOMAIN resting :
            j # i \/ resting[i].quantity # qty => \E k \in DOMAIN resting' : from[k] = j
  BY <1>18 DEF TakenFrom
<1>20. /\ from \in [DOMAIN resting' -> DOMAIN resting]
       /\ \A k, l \in DOMAIN resting' : k < l => from[k] < from[l]
       /\ \A k \in DOMAIN resting' : /\ resting'[k].odid = resting[from[k]].odid
                                     /\ resting'[k].is_sell = resting[from[k]].is_sell
                                     /\ resting'[k].price = resting[from[k]].price
  BY <1>19 DEF PartOf
<1>21. resting' \in Seq(ExchangeOrder)
  BY MatchTyped DEF ExchangeTyped
<1>22. Lists(resting', M, n - 1, W)
  <2> DEFINE to == [k \in DOMAIN resting' |-> at[from[k]]]
  <2>1. to \in [DOMAIN resting' -> 1 .. n - 1] /\ \A k, l \in DOMAIN resting' : k < l => to[k] < to[l]
    BY <1>5, <1>20
  <2>2. ASSUME NEW k \in DOMAIN resting'
        PROVE  Left(M, to[k], W) > 0 /\ resting'[k] = OrderLeft(M, to[k], W)
    <3>1. from[k] \in DOMAIN resting /\ to[k] = at[from[k]] /\ to[k] \in 1 .. n - 1
      BY <1>20, <2>1
    <3>2. CASE from[k] # i
      <4>1. resting[from[k]] = OrderLeft(M, to[k], V) /\ Left(M, to[k], V) > 0
        BY <1>5, <3>1
      <4>2. to[k] # f
        <5>1. from[k] < i \/ i < from[k]
          BY <1>6, <3>1, <3>2
        <5>2. to[k] < f \/ f < to[k]
          BY <1>5, <3>1, <5>1 DEF f
        <5> QED
          BY <1>7, <3>1, <5>2
      <4> QED
        BY <1>16, <1>19, <3>1, <3>2, <4>1, <4>2
    <3>3. CASE from[k] = i
      <4>1. /\ resting[i].quantity # qty /\ resting'[k].quantity = resting[i].quantity - qty
            /\ to[k] = f
        BY <1>19, <3>1, <3>3 DEF f
      <4>2. Left(M, f, W) > 0 /\ resting'[k].quantity = Left(M, f, W)
        BY <1>8, <1>9, <1>14, <4>1
      <4>3. /\ resting'[k].odid = M[f].odid /\ resting'[k].is_sell = M[f].is_sell
            /\ resting'[k].price = M[f].price
        BY <1>7, <1>20, <3>3 DEF OrderLeft
      <4>4. resting'[k] \in ExchangeOrder
        BY <1>21
      <4>5. resting'[k] = [odid |-> resting'[k].odid, is_sell |-> resting'[k].is_sell,
                           quantity |-> resting'[k].quantity, price |-> resting'[k].price]
        BY <4>4 DEF ExchangeOrder
      <4> QED
        BY <4>1, <4>2, <4>3, <4>5 DEF OrderLeft
    <3> QED
      BY <3>2, <3>3
  <2>3. ASSUME NEW k \in 1 .. n - 1, Left(M, k, W) > 0
        PROVE  \E j \in DOMAIN resting' : to[j] = k
    <3>1. CASE k # f
      <4>1. Left(M, k, V) > 0
        BY <1>16, <2>3, <3>1
      <4>2. PICK j \in DOMAIN resting : at[j] = k
        BY <1>5, <4>1
      <4>3. j # i
        BY <3>1, <4>2 DEF f
      <4>4. PICK l \in DOMAIN resting' : from[l] = j
        BY <1>19, <4>3
      <4> QED
        BY <4>2, <4>4
    <3>2. CASE k = f
      <4>1. resting[i].quantity # qty
        BY <1>8, <1>14, <2>3, <3>2
      <4>2. PICK l \in DOMAIN resting' : from[l] = i
        BY <1>19, <4>1
      <4> QED
        BY <3>2, <4>2 DEF f
    <3> QED
      BY <3>1, <3>2
  <2> HIDE DEF to
  <2> QED
    BY <2>1, <2>2, <2>3 DEF Lists
<1>23. \A k, j \in DOMAIN resting' : resting'[k].is_sell = resting'[j].is_sell
  BY <1>2, <1>20
<1>24. CASE taker.quantity = qty
  <2>1. taker'.quantity = 0
    BY <1>1, <1>24 DEF TakerAfter, NoTaker
  <2>2. Left(M, n, W) = 0
    BY <1>8, <1>15, <1>24
  <2>3. Lists(resting', M, n, W)
    BY <1>2, <1>4, <1>9, <1>22, <2>2, ListsNext
  <2>4. ExchangeAt(M, W)'
    BY <1>2, <1>9, <1>17, <1>23, <2>1, <2>3 DEF ExchangeAt, n
  <2> QED
    BY <1>0, <1>9, <2>4 DEF qty
<1>25. CASE taker.quantity # qty
  <2>1. taker' = [taker EXCEPT !.quantity = @ - qty]
    BY <1>1, <1>25 DEF TakerAfter
  <2>2. taker' = OrderLeft(M, n, W)
    BY <1>3, <1>15, <2>1 DEF OrderLeft
  <2>3. taker'.quantity > 0
    BY <1>8, <1>9, <1>15, <1>25, <2>2 DEF OrderLeft
  <2>4. ExchangeAt(M, W)'
    BY <1>2, <1>3, <1>9, <1>17, <1>22, <1>23, <2>2, <2>3 DEF ExchangeAt, n
  <2> QED
    BY <1>0, <1>9, <2>4 DEF qty
<1> QED
  BY <1>24, <1>25

\* What is left of a request comes to rest: there are orders of its side only.
LEMMA RestAt ==
  ASSUME OnePrice, ExchangeTyped, NEW M, NEW V, ExchangeAt(M, V), Rest
  PROVE  ExchangeAt(M, V)'
<1> DEFINE n == Len(M)
           r2 == Append(resting, taker)
           l == Len(resting)
<1>1. /\ taker.quantity > 0 /\ resting' = r2 /\ taker' = NoTaker
      /\ \A i \in DOMAIN resting : ~Crosses(resting[i])
  BY DEF Rest
<1>2. /\ M \in Seq(StreamMessage) /\ V \in Nat
      /\ n > 0 /\ taker = OrderLeft(M, n, V) /\ Lists(resting, M, n - 1, V)
  BY <1>1 DEF ExchangeAt
<1>3. n \in Nat /\ n \in 1 .. n /\ 1 .. n = (1 .. n - 1) \cup {n} /\ \A k \in 1 .. n - 1 : k < n
  BY <1>2
<1>4. PICK at : /\ at \in [DOMAIN resting -> 1 .. n - 1]
                /\ \A k, j \in DOMAIN resting : k < j => at[k] < at[j]
                /\ \A k \in DOMAIN resting :
                     Left(M, at[k], V) > 0 /\ resting[k] = OrderLeft(M, at[k], V)
                /\ \A k \in 1 .. n - 1 :
                     Left(M, k, V) > 0 => \E j \in DOMAIN resting : at[j] = k
  BY <1>2 DEF Lists
<1>5. resting \in Seq(ExchangeOrder) /\ taker \in ExchangeOrder
  BY <1>1 DEF ExchangeTyped, NoTaker
<1>6. /\ l \in Nat /\ DOMAIN resting = 1 .. l /\ DOMAIN r2 = (1 .. l) \cup {l + 1}
      /\ r2[l + 1] = taker /\ \A k \in 1 .. l : r2[k] = resting[k] /\ k < l + 1 /\ k # l + 1
  BY <1>5
<1> HIDE DEF n, r2, l
<1>7. \A i \in 1 .. l : resting[i].is_sell = taker.is_sell
  <2> SUFFICES ASSUME NEW i \in 1 .. l PROVE resting[i].is_sell = taker.is_sell
    OBVIOUS
  <2>1. resting[i] \in ExchangeOrder /\ ~Crosses(resting[i])
    BY <1>1, <1>5, <1>6
  <2>2. resting[i].price = taker.price /\ taker.price \in Int
    BY <1>5, <2>1, LevelAssumption DEF OnePrice, ExchangeOrder
  <2> QED
    BY <2>1, <2>2 DEF Crosses, Before
<1>8. \A i, j \in DOMAIN r2 : r2[i].is_sell = r2[j].is_sell
  BY <1>6, <1>7
<1>9. Lists(r2, M, n, V)
  <2> DEFINE to == [k \in DOMAIN r2 |-> IF k = l + 1 THEN n ELSE at[k]]
  <2>1. to[l + 1] = n /\ \A k \in 1 .. l : to[k] = at[k] /\ at[k] \in 1 .. n - 1 /\ at[k] < n
    BY <1>3, <1>4, <1>6
  <2>2. to \in [DOMAIN r2 -> 1 .. n]
    BY <1>3, <1>6, <2>1
  <2> HIDE DEF to
  <2>3. ASSUME NEW k \in DOMAIN r2, NEW j \in DOMAIN r2, k < j PROVE to[k] < to[j]
    <3>1. k \in 1 .. l
      BY <1>6, <2>3
    <3> QED
      BY <1>4, <1>6, <2>1, <2>3, <3>1
  <2>4. \A k \in DOMAIN r2 : Left(M, to[k], V) > 0 /\ r2[k] = OrderLeft(M, to[k], V)
    <3>1. Left(M, n, V) > 0
      BY <1>1, <1>2 DEF OrderLeft
    <3> QED
      BY <1>2, <1>4, <1>6, <2>1, <3>1
  <2>5. ASSUME NEW k \in 1 .. n, Left(M, k, V) > 0
        PROVE  \E j \in DOMAIN r2 : to[j] = k
    <3>1. CASE k = n
      BY <1>6, <2>1, <3>1
    <3>2. CASE k \in 1 .. n - 1
      <4>1. PICK j \in DOMAIN resting : at[j] = k
        BY <1>4, <2>5, <3>2
      <4> QED
        BY <1>6, <2>1, <4>1
    <3> QED
      BY <1>3, <2>5, <3>1, <3>2
  <2> QED
    BY <2>2, <2>3, <2>4, <2>5 DEF Lists
<1>10. taker'.quantity = 0 /\ Lists(resting', M, n, V)
  BY <1>1, <1>9 DEF NoTaker
<1> QED
  BY <1>1, <1>8, <1>10 DEF ExchangeAt, n

-----------------------------------------------------------------------------
(* The pending quantities at one price.                                    *)

\* There is one price.
LEMMA ThePrice == ASSUME OnePrice PROVE AnyPrice \in Price /\ \A p \in Price : p = AnyPrice
BY FeedAssumption DEF AnyPrice, OnePrice

\* The entry of a map.
LEMMA EntryNat ==
  ASSUME OnePrice, NEW f, IsMap(f, Price, Nat)
  PROVE  PendingQty(f) \in Nat /\ (AnyPrice \notin DOMAIN f => PendingQty(f) = 0 /\ DOMAIN f = {})
BY ThePrice DEF PendingQty, IsMap

\* Increase.
LEMMA EntryIncrease ==
  ASSUME OnePrice, NEW f, IsMap(f, Price, Nat), NEW k \in Price, NEW q \in Nat
  PROVE  PendingQty(Increase(f, k, q)) = PendingQty(f) + q /\ AnyPrice \in DOMAIN Increase(f, k, q)
<1>1. k = AnyPrice
  BY ThePrice
<1> QED
  BY <1>1 DEF PendingQty, Increase, Put

\* matchPendingLiqRemove: either all of the quantity is matched or nothing is
\* left of the entry, and no entry is left at 0.
LEMMA EntryMatchRemove ==
  ASSUME OnePrice, NEW f, IsMap(f, Price, Nat), NEW q \in Nat, NEW p \in Price,
         AnyPrice \in DOMAIN f => PendingQty(f) > 0
  PROVE  LET m == MatchedRemove(f, q, p)
             g == AfterMatchRemove(f, q, p)
         IN  /\ m \in Nat /\ m <= q /\ m <= PendingQty(f) /\ (m = q \/ m = PendingQty(f))
             /\ PendingQty(g) = PendingQty(f) - m
             /\ AnyPrice \in DOMAIN g => PendingQty(g) > 0
<1>1. PICK x : x = AnyPrice
  OBVIOUS
<1>2. p = x
  BY <1>1, ThePrice
<1>3. CASE x \notin DOMAIN f
  BY <1>1, <1>2, <1>3 DEF MatchedRemove, AfterMatchRemove, PendingQty
<1>4. CASE x \in DOMAIN f
  <2>1. PICK e \in Nat : e = f[x] /\ e = PendingQty(f)
    BY <1>1, <1>4 DEF IsMap, PendingQty
  <2>2. PICK m : m = MatchedRemove(f, q, p)
    OBVIOUS
  <2>3. m = MinOf(e, q)
    BY <1>2, <1>4, <2>1, <2>2 DEF MatchedRemove
  <2>4. m \in Nat /\ m <= q /\ m <= e /\ (m = q \/ m = e)
    BY <2>1, <2>3 DEF MinOf
  <2>5. AfterMatchRemove(f, q, p) = IF e - m = 0 THEN Erase(f, x) ELSE [f EXCEPT ![x] = e - m]
    BY <1>2, <1>4, <2>1, <2>2 DEF AfterMatchRemove
  <2>6. CASE e - m = 0
    <3>1. AfterMatchRemove(f, q, p) = Erase(f, x) /\ x \notin DOMAIN Erase(f, x)
      BY <2>5, <2>6 DEF Erase, Restrict
    <3> QED
      BY <1>1, <2>1, <2>2, <2>4, <2>6, <3>1 DEF PendingQty
  <2>7. CASE e - m # 0
    <3> DEFINE g == [f EXCEPT ![x] = e - m]
    <3>1. AfterMatchRemove(f, q, p) = g /\ x \in DOMAIN g /\ g[x] = e - m
      BY <1>4, <2>5, <2>7
    <3>2. e - m > 0
      BY <2>1, <2>4, <2>7
    <3> HIDE DEF g
    <3> QED
      BY <1>1, <2>1, <2>2, <2>4, <3>1, <3>2 DEF PendingQty
  <2> QED
    BY <2>6, <2>7
<1> QED
  BY <1>3, <1>4

\* matchPendingLiqAdd erases the entry that it matches: it has the order's price.
LEMMA EntryMatchAdd ==
  ASSUME OnePrice, NEW f, IsMap(f, Price, Nat), NEW p \in DOMAIN f, NEW price \in Price,
         NEW qty \in Nat, qty <= f[p]
  PROVE  LET g == AfterMatchAdd(f, p, qty, price)
         IN  /\ PendingQty(f) = f[p] /\ PendingQty(g) = PendingQty(f) - qty
             /\ AnyPrice \in DOMAIN g => PendingQty(g) > 0
<1>1. PICK x : x = AnyPrice
  OBVIOUS
<1>2. p = x /\ price = x
  BY <1>1, ThePrice DEF IsMap
<1>3. PICK e \in Nat : e = f[x] /\ e = PendingQty(f)
  BY <1>1, <1>2 DEF IsMap, PendingQty
<1> DEFINE l == [f EXCEPT ![x] = e - qty]
<1>4. DOMAIN l = DOMAIN f /\ l[x] = e - qty /\ x \in DOMAIN l
  BY <1>2
<1>5. AfterMatchAdd(f, p, qty, price) = IF l[x] = 0 THEN Erase(l, x) ELSE l
  BY <1>2, <1>3 DEF AfterMatchAdd
<1> HIDE DEF l
<1>6. CASE e - qty = 0
  <2>1. AfterMatchAdd(f, p, qty, price) = Erase(l, x) /\ x \notin DOMAIN Erase(l, x)
    BY <1>4, <1>5, <1>6 DEF Erase, Restrict
  <2> QED
    BY <1>1, <1>2, <1>3, <1>6, <2>1 DEF PendingQty
<1>7. CASE e - qty # 0
  <2>1. AfterMatchAdd(f, p, qty, price) = l /\ e - qty > 0
    BY <1>2, <1>3, <1>4, <1>5, <1>7
  <2> QED
    BY <1>1, <1>2, <1>3, <1>4, <2>1 DEF PendingQty
<1> QED
  BY <1>6, <1>7

\* The quantity of the trades to come.
LEMMA TradedIs ==
  ASSUME NEW trades \in Seq(TradeMessage)
  PROVE  /\ Traded(trades) \in Int
         /\ trades = << >> => Traded(trades) = 0
         /\ \A t \in TradeMessage : Traded(Append(trades, t)) = Traded(trades) + t.quantity
         /\ trades # << >> => Traded(Tail(trades)) = Traded(trades) - Head(trades).quantity
<1> DEFINE f == [k \in DOMAIN trades |-> trades[k].quantity]
           n == Len(trades)
<1>1. n \in Nat /\ DOMAIN trades = 1 .. n
  OBVIOUS
<1>2. \A t \in TradeMessage : t.quantity \in Int
  BY LevelAssumption DEF TradeMessage
<1>3. \A k \in 1 .. n : f[k] \in Int
  BY <1>1, <1>2
<1>4. Traded(trades) = Total(f, n)
  BY DEF Traded
<1>5. Traded(trades) \in Int
  BY <1>1, <1>3, <1>4, TotalInt
<1>6. ASSUME trades = << >> PROVE Traded(trades) = 0
  <2>1. n = 0
    BY <1>6
  <2> QED
    BY <1>4, <2>1, TotalZero
<1>7. ASSUME NEW t \in TradeMessage
      PROVE  Traded(Append(trades, t)) = Traded(trades) + t.quantity
  <2> DEFINE all == Append(trades, t)
             g == [k \in DOMAIN all |-> all[k].quantity]
  <2>1. /\ Len(all) = n + 1 /\ DOMAIN all = 1 .. n + 1 /\ all[n + 1] = t
        /\ \A k \in 1 .. n : all[k] = trades[k]
    OBVIOUS
  <2> HIDE DEF all
  <2>2. g[n + 1] = t.quantity /\ \A k \in 1 .. n : g[k] = f[k]
    BY <1>1, <2>1
  <2>3. Traded(all) = Total(g, n + 1)
    BY <2>1 DEF Traded
  <2> HIDE DEF f, g, n
  <2>4. \A k \in 1 .. n + 1 : g[k] \in Int
    <3>1. \A k \in 1 .. n + 1 : k \in 1 .. n \/ k = n + 1
      BY <1>1
    <3>2. g[n + 1] \in Int /\ \A k \in 1 .. n : g[k] \in Int
      BY <1>2, <1>3, <2>2
    <3> QED
      BY <3>1, <3>2
  <2>5. Total(g, n + 1) = Total(g, n) + g[n + 1]
    BY <1>1, <2>4, TotalNext
  <2>6. Total(g, n) = Total(f, n)
    BY <1>1, <1>3, <2>2, TotalSame
  <2> QED
    BY <1>4, <2>2, <2>3, <2>5, <2>6 DEF all
<1>8. ASSUME trades # << >>
      PROVE  Traded(Tail(trades)) = Traded(trades) - Head(trades).quantity
  <2> DEFINE rest == Tail(trades)
             g == [k \in DOMAIN rest |-> rest[k].quantity]
  <2>1. /\ n > 0 /\ Len(rest) = n - 1 /\ DOMAIN rest = 1 .. n - 1 /\ Head(trades) = trades[1]
        /\ \A k \in 1 .. n - 1 : rest[k] = trades[k + 1]
    BY <1>8
  <2> HIDE DEF rest
  <2>2. f[1] = Head(trades).quantity
    BY <1>1, <2>1
  <2>3. \A k \in 1 .. n - 1 : g[k] = IF k < 1 THEN f[k] ELSE f[k + 1]
    BY <1>1, <2>1
  <2>4. Traded(rest) = Total(g, n - 1)
    BY <2>1 DEF Traded
  <2> HIDE DEF f, g, n
  <2>5. PICK j \in 1 .. n : j = 1
    BY <1>1, <2>1
  <2>6. \A k \in 1 .. n - 1 : g[k] = IF k < j THEN f[k] ELSE f[k + 1]
    BY <2>3, <2>5
  <2>7. Total(g, n - 1) = Total(f, n) - f[j]
    BY ONLY <1>1, <1>3, <2>6, j \in 1 .. n, TotalErase
  <2> QED
    BY <1>4, <2>2, <2>4, <2>5, <2>7 DEF rest
<1> QED
  BY <1>5, <1>6, <1>7, <1>8

-----------------------------------------------------------------------------
(* What the steps do to the pending quantities and to the trade.           *)

\* Types.
LEMMA PendingNat ==
  ASSUME OnePrice, IInv
  PROVE  /\ act \in Action /\ Remaining(act) \in Nat /\ act.quantity \in Nat
         /\ act.price \in Price /\ act.is_sell \in BOOLEAN /\ side \in BOOLEAN /\ cur \in Price
         /\ DOMAIN pending_liq_remove_qty = BOOLEAN /\ DOMAIN pending_liq_add_qty = BOOLEAN
         /\ \A s \in BOOLEAN :
              /\ IsMap(pending_liq_remove_qty[s], Price, Nat)
              /\ IsMap(pending_liq_add_qty[s], Price, Nat)
              /\ Removes(s) \in Nat /\ Adds(s) \in Nat /\ ToTake(s) \in Nat
<1>1. /\ act \in Action /\ side \in BOOLEAN /\ cur \in Price
      /\ DOMAIN pending_liq_remove_qty = BOOLEAN /\ DOMAIN pending_liq_add_qty = BOOLEAN
      /\ \A s \in BOOLEAN : /\ IsMap(pending_liq_remove_qty[s], Price, Nat)
                            /\ IsMap(pending_liq_add_qty[s], Price, Nat)
  BY DEF IInv, TypeOK
<1>2. Remaining(act) \in Nat
  BY ActNat DEF IInv
<1>3. act.quantity \in Nat /\ act.price \in Price /\ act.is_sell \in BOOLEAN
  BY <1>1 DEF Action
<1>4. \A s \in BOOLEAN : Removes(s) \in Nat /\ Adds(s) \in Nat
  BY <1>1, EntryNat DEF Removes, Adds
<1>5. \A s \in BOOLEAN : ToTake(s) \in Nat
  BY <1>2, <1>3 DEF ToTake
<1> QED
  BY <1>1, <1>2, <1>3, <1>4, <1>5

\* At one price nothing is ahead of a trade.
LEMMA NoSweep == ASSUME OnePrice, IInv PROVE ~Sweep
<1> SUFFICES ASSUME Sweep PROVE FALSE
  OBVIOUS
<1>1. PICK p \in DOMAIN levels[side] : Before(side, p, act.price)
  BY DEF Sweep
<1>2. act.price \in Price /\ side \in BOOLEAN
  BY PendingNat
<1>3. p \in Price
  BY <1>2 DEF IInv, TypeOK, IsMap
<1>4. p = act.price /\ p \in Int
  BY <1>2, <1>3, LevelAssumption DEF OnePrice
<1> QED
  BY <1>1, <1>4 DEF Before

\* A side matches a trade with what it expects.
LEMMA TradeMatchTakes ==
  ASSUME OnePrice, IInv, PendingInv, TradeMatch
  PROVE  \E m \in Nat :
           /\ m <= Removes(side) /\ m <= ToTake(side)
           /\ m = Removes(side) \/ m = ToTake(side)
           /\ Removes(side)' = Removes(side) - m /\ ToTake(side)' = ToTake(side) - m
           /\ Remaining(act') = ToTake(side)'
           /\ \A s \in BOOLEAN : s # side => Removes(s)' = Removes(s) /\ ToTake(s)' = ToTake(s)
           /\ \A s \in BOOLEAN : AnyPrice \in DOMAIN pending_liq_remove_qty'[s] => Removes(s)' > 0
           /\ side' = side /\ pc' = "sweep" /\ act.kind = "TRADE" /\ act'.kind = "TRADE"
<1>1. /\ pc = "trade" /\ pc' = "sweep" /\ side' = side
      /\ act' = OrderFilled(act, MatchedRemove(pending_liq_remove_qty[side], act.quantity, act.price))
      /\ pending_liq_remove_qty' =
           [pending_liq_remove_qty EXCEPT
              ![side] = AfterMatchRemove(@, act.quantity, act.price)]
  BY DEF TradeMatch, matchPendingLiqRemove, loopVars
<1>2. /\ act \in Action /\ side \in BOOLEAN /\ act.quantity \in Nat /\ act.price \in Price
      /\ DOMAIN pending_liq_remove_qty = BOOLEAN
      /\ IsMap(pending_liq_remove_qty[side], Price, Nat)
  BY PendingNat
<1>3. act.kind = "TRADE" /\ act.filled_quantity = 0
  BY <1>1 DEF IInv, ActInv
<1>4. PICK f : f = pending_liq_remove_qty[side]
  OBVIOUS
<1>5. PICK m : m = MatchedRemove(f, act.quantity, act.price)
  OBVIOUS
<1>6. PICK g : g = AfterMatchRemove(f, act.quantity, act.price)
  OBVIOUS
<1>7. /\ m \in Nat /\ m <= act.quantity /\ m <= PendingQty(f) /\ (m = act.quantity \/ m = PendingQty(f))
      /\ PendingQty(g) = PendingQty(f) - m
      /\ AnyPrice \in DOMAIN g => PendingQty(g) > 0
  <2>1. AnyPrice \in DOMAIN f => PendingQty(f) > 0
    BY <1>2, <1>4 DEF PendingInv, Removes
  <2> QED
    BY <1>2, <1>4, <1>5, <1>6, <2>1, EntryMatchRemove
<1>8. Remaining(act) = act.quantity
  BY <1>2, <1>3 DEF Remaining
<1>9. /\ act'.kind = "TRADE" /\ act'.quantity = act.quantity
      /\ Remaining(act') = act.quantity - m
  <2>1. act' = OrderFilled(act, m) /\ m <= Remaining(act)
    BY <1>1, <1>4, <1>5, <1>7, <1>8
  <2> QED
    BY <1>2, <1>3, <1>7, <1>8, <2>1, ActFilled
<1>10. /\ pending_liq_remove_qty'[side] = g
       /\ \A s \in BOOLEAN : s # side => pending_liq_remove_qty'[s] = pending_liq_remove_qty[s]
  BY <1>1, <1>2, <1>4, <1>6
<1>11. Removes(side) = PendingQty(f) /\ Removes(side)' = PendingQty(g)
  BY <1>1, <1>4, <1>10 DEF Removes
<1>12. \A s \in BOOLEAN : s # side => Removes(s)' = Removes(s)
  BY <1>10 DEF Removes
<1>13. ToTake(side) = act.quantity /\ ToTake(side)' = act.quantity - m
  BY <1>1, <1>3, <1>8, <1>9 DEF ToTake
<1>14. \A s \in BOOLEAN : s # side => ToTake(s)' = ToTake(s)
  BY <1>1, <1>3, <1>9 DEF ToTake
<1>15. \A s \in BOOLEAN : AnyPrice \in DOMAIN pending_liq_remove_qty'[s] => Removes(s)' > 0
  <2>1. AnyPrice \in DOMAIN pending_liq_remove_qty'[side] => Removes(side)' > 0
    BY <1>7, <1>10, <1>11
  <2>2. \A s \in BOOLEAN : s # side /\ AnyPrice \in DOMAIN pending_liq_remove_qty'[s]
                             => Removes(s)' > 0
    BY <1>10, <1>12 DEF PendingInv
  <2> QED
    BY <1>1, <2>1, <2>2
<1> QED
  BY <1>1, <1>3, <1>7, <1>9, <1>11, <1>12, <1>13, <1>14, <1>15

\* What the handlers keep.
LEMMA HandlerKept ==
  ASSUME OnePrice, IInv, ExchangeTyped, Requests \subseteq {"ADD"}, HandlerInv, PendingInv,
         [LLNext]_llVars
  PROVE  HandlerInv'
<1> USE DEF HandlerInv
<1>0. Remaining(act) \in Nat /\ act \in Action
  BY PendingNat
<1>1. CASE UNCHANGED vars
  <2>1. UNCHANGED <<act, pc, side, pending_liq_remove_qty>>
    BY <1>1 DEF vars, sideVars, loopVars
  <2> QED
    BY <2>1 DEF Removes, PendingQty
<1>2. CASE ReceiveOrder
  <2> DEFINE m == Head(order_stream)
  <2>1. order_stream \in Seq(StreamMessage) /\ m \in StreamMessage
    BY <1>2 DEF ReceiveOrder, ExchangeTyped
  <2>2. m.type = "ADD" /\ m.quantity \in Nat /\ m.quantity > 0
    <3>1. MaxQty \in Nat /\ m.quantity \in 1 .. MaxQty
      BY <2>1, LevelAssumption DEF StreamMessage
    <3>2. m.type = "ADD"
      BY <2>1, MessageTyped
    <3> HIDE DEF m
    <3>3. m.quantity \in Nat /\ m.quantity > 0
      BY ONLY <3>1
    <3> QED
      BY <3>2, <3>3
  <2>3. processOrderAddMessage(m)
    BY <1>2, <2>2 DEF ReceiveOrder
  <2> HIDE DEF m
  <2>4. pc' = "matchAdd" /\ act'.kind = "ADD" /\ Remaining(act') = m.quantity
    BY <2>2, <2>3 DEF processOrderAddMessage, Activate, Remaining
  <2> QED
    BY <2>2, <2>4
<1>3. CASE ReceiveTrade
  <2>1. pc' = "trade" /\ act'.kind = "TRADE"
    BY <1>3 DEF ReceiveTrade, processTradeMessage, Activate
  <2> QED
    BY <2>1
<1>4. CASE MatchPendingLiqAdd
  <2>1. pc = "matchAdd" /\ act.kind = "ADD"
    BY <1>4 DEF MatchPendingLiqAdd, IInv, ActInv
  <2>2. PICK p \in DOMAIN pending_liq_add_qty[act.is_sell] :
          LET qty == MinOf(pending_liq_add_qty[act.is_sell][p], Remaining(act))
          IN  act' = OrderFilled(act, qty) /\ pc' = IF Remaining(act) = qty THEN "uncross" ELSE pc
    BY <1>4 DEF MatchPendingLiqAdd
  <2>3. PICK qty : qty = MinOf(pending_liq_add_qty[act.is_sell][p], Remaining(act))
    OBVIOUS
  <2>4. qty \in Nat /\ qty <= Remaining(act)
    <3>1. pending_liq_add_qty[act.is_sell][p] \in Nat
      BY PendingNat DEF IsMap
    <3> QED
      BY <1>0, <2>3, <3>1, MinOfNat
  <2>5. act'.kind = "ADD" /\ Remaining(act') = Remaining(act) - qty
    BY <1>0, <2>1, <2>2, <2>3, <2>4, ActFilled
  <2>6. pc' = "uncross" \/ (pc' = "matchAdd" /\ Remaining(act') > 0)
    BY <1>0, <2>1, <2>2, <2>3, <2>4, <2>5
  <2> QED
    BY <2>5, <2>6
<1>5. CASE MatchPendingLiqAddDone
  <2>1. pc' = "uncross" /\ act' = act
    BY <1>5 DEF MatchPendingLiqAddDone
  <2> QED
    BY <2>1
<1>6. CASE Uncross
  <2>1. pc = "uncross" /\ pc' = "fill" /\ act' = act /\ side' = ~act.is_sell
    BY <1>6 DEF Uncross, WalkLevel
  <2>2. act.kind \in {"ADD", "MODIFY"}
    BY <2>1 DEF IInv, ActInv
  <2> QED
    BY <2>1, <2>2
<1>7. CASE Fill
  <2>1. /\ pc = "fill" /\ pc' = "fill" /\ side' = side
        /\ act.kind = "TRADE" => pending_liq_remove_qty' = pending_liq_remove_qty
        /\ Remaining(act) > 0 /\ act' = OrderFilled(act, FillQty)
    BY <1>7 DEF Fill, FillQty, FillId
  <2>2. act'.kind = act.kind /\ act'.is_sell = act.is_sell
    BY <1>0, <2>1 DEF OrderFilled, Action
  <2>3. act.kind = "TRADE" => Removes(side)' = Removes(side)
    BY <2>1 DEF Removes
  <2> QED
    BY <2>1, <2>2, <2>3
<1>8. CASE FillDone \/ RemoveFilled
  <2>1. /\ UNCHANGED <<act, side, pending_liq_remove_qty>>
        /\ pc \in {"fill", "remove"} /\ pc' = "remove"
    BY <1>8 DEF FillDone, RemoveFilled, sideVars, loopVars
  <2> QED
    BY <2>1 DEF Removes
<1>9. CASE RemoveFilledDone
  <2>1. /\ UNCHANGED <<act, side, pending_liq_remove_qty>>
        /\ pc = "remove" /\ pc' \in {"tradeRest", "uncross"}
    BY <1>9 DEF RemoveFilledDone, sideVars, loopVars
  <2> QED
    BY <2>1 DEF Removes
<1>10. CASE RestOrder
  <2>1. pc' = "done" /\ act' = act
    BY <1>10 DEF RestOrder
  <2> QED
    BY <2>1
<1>11. CASE TradeMatch
  <2>1. PICK m \in Nat :
           /\ m <= Removes(side) /\ m <= ToTake(side)
           /\ m = Removes(side) \/ m = ToTake(side)
           /\ Removes(side)' = Removes(side) - m /\ ToTake(side)' = ToTake(side) - m
           /\ Remaining(act') = ToTake(side)'
           /\ side' = side /\ pc' = "sweep" /\ act'.kind = "TRADE"
    BY <1>11, TradeMatchTakes
  <2>2. Removes(side) \in Nat /\ ToTake(side) \in Nat
    BY PendingNat
  <2>3. Remaining(act') > 0 => Removes(side)' = 0
    BY <2>1, <2>2
  <2> QED
    BY <2>1, <2>3
<1>12. CASE SweepDone
  <2>1. /\ UNCHANGED <<act, side, pending_liq_remove_qty>>
        /\ pc = "sweep" /\ pc' \in {"fill", "tradeRest"}
    BY <1>12 DEF SweepDone, WalkLevel, sideVars, loopVars
  <2>2. act.kind = "TRADE"
    BY <2>1 DEF IInv, ActInv
  <2> QED
    BY <2>1, <2>2 DEF Removes
<1>13. CASE TradeRest
  <2>1. pc = "tradeRest" /\ pc' \in {"done", "trade"} /\ act' = [act EXCEPT !.filled_quantity = 0]
    BY <1>13 DEF TradeRest
  <2>2. act'.kind = act.kind
    BY <1>0, <2>1 DEF Action
  <2> QED
    BY <2>1, <2>2
<1>14. CASE Return
  <2>1. pc' = "idle" /\ act'.kind = "NONE"
    BY <1>14 DEF Return, Idle
  <2> QED
    BY <2>1
<1> QED
  BY <1>1, <1>2, <1>3, <1>4, <1>5, <1>6, <1>7, <1>8, <1>9, <1>10, <1>11, <1>12, <1>13, <1>14,
     NoSweep DEF LLNext, LLHandlerStep, HandlerStep, llVars

\* A fill of an order being handled is expected as a trade on both sides; one
\* by a trade was not expected.
LEMMA FillPends ==
  ASSUME OnePrice, IInv, HandlerInv, PassedInv, Fill
  PROVE  /\ act.kind # "TRADE" =>
              \A s \in BOOLEAN : /\ Removes(s)' = Removes(s) + FillQty
                                 /\ ToTake(s) = 0 /\ ToTake(s)' = 0
         /\ act.kind = "TRADE" =>
              /\ pending_liq_remove_qty' = pending_liq_remove_qty
              /\ \A s \in BOOLEAN : Removes(s)' = Removes(s)
              /\ \A s \in BOOLEAN : s # side => ToTake(s)' = ToTake(s)
              /\ ToTake(side)' = ToTake(side) - FillQty /\ FillQty <= ToTake(side)
              /\ Removes(side) = 0
         /\ FillQty \in Nat /\ FillQty > 0
         /\ \A s \in BOOLEAN : Adds(s)' = Adds(s)
         /\ UNCHANGED <<pending_liq_add_qty, pc, side>> /\ pc = "fill"
         /\ act'.kind = act.kind /\ act'.odid = act.odid /\ act'.is_sell = act.is_sell
         /\ act'.quantity = act.quantity
<1>1. /\ pc = "fill" /\ UNCHANGED <<pending_liq_add_qty, pc, side>> /\ Remaining(act) > 0
      /\ act' = OrderFilled(act, FillQty)
      /\ IF act.kind = "TRADE" THEN UNCHANGED pending_liq_remove_qty ELSE ExpectTrade(cur, FillQty)
  BY DEF Fill, FillQty, FillId
<1>2. FillQty \in Nat /\ FillQty > 0 /\ FillQty <= Remaining(act)
  BY FillTakes
<1>3. /\ act'.kind = act.kind /\ act'.odid = act.odid /\ act'.is_sell = act.is_sell
      /\ act'.quantity = act.quantity /\ Remaining(act') = Remaining(act) - FillQty
  <2>1. act \in Action
    BY PendingNat
  <2> QED
    BY <1>1, <1>2, <2>1, ActFilled
<1>4. \A s \in BOOLEAN : Adds(s)' = Adds(s)
  BY <1>1 DEF Adds
<1>5. ASSUME act.kind # "TRADE", NEW s \in BOOLEAN
      PROVE  Removes(s)' = Removes(s) + FillQty /\ ToTake(s) = 0 /\ ToTake(s)' = 0
  <2>1. pending_liq_remove_qty'[s] = Increase(pending_liq_remove_qty[s], cur, FillQty)
    BY <1>1, <1>5 DEF ExpectTrade
  <2>2. IsMap(pending_liq_remove_qty[s], Price, Nat) /\ cur \in Price
    BY PendingNat
  <2>3. PendingQty(Increase(pending_liq_remove_qty[s], cur, FillQty))
          = PendingQty(pending_liq_remove_qty[s]) + FillQty
    BY <1>2, <2>2, EntryIncrease
  <2>4. Removes(s)' = Removes(s) + FillQty
    BY <2>1, <2>3 DEF Removes
  <2> QED
    BY <1>3, <1>5, <2>4 DEF ToTake
<1>6. ASSUME act.kind = "TRADE"
      PROVE  /\ pending_liq_remove_qty' = pending_liq_remove_qty
             /\ \A s \in BOOLEAN : Removes(s)' = Removes(s)
             /\ \A s \in BOOLEAN : s # side => ToTake(s)' = ToTake(s)
             /\ ToTake(side)' = ToTake(side) - FillQty /\ FillQty <= ToTake(side)
             /\ Removes(side) = 0
  <2>1. pending_liq_remove_qty' = pending_liq_remove_qty
    BY <1>1, <1>6
  <2>2. \A s \in BOOLEAN : Removes(s)' = Removes(s)
    BY <2>1 DEF Removes
  <2>3. \A s \in BOOLEAN : s # side => ToTake(s)' = ToTake(s)
    BY <1>1, <1>3, <1>6 DEF ToTake
  <2>4. ToTake(side) = Remaining(act) /\ ToTake(side)' = Remaining(act')
    BY <1>1, <1>3, <1>6 DEF ToTake
  <2>5. Removes(side) = 0
    BY <1>1, <1>6 DEF HandlerInv
  <2> QED
    BY <1>2, <1>3, <2>1, <2>2, <2>3, <2>4, <2>5
<1> QED
  BY <1>1, <1>2, <1>3, <1>4, <1>5, <1>6

\* What is left of a trade is guessed.
LEMMA TradeRestGuesses ==
  ASSUME OnePrice, IInv, HandlerInv, PendingInv, TradeRest
  PROVE  /\ ToTake(side) = Remaining(act)
         /\ Remaining(act) > 0 => Removes(side) = 0
         /\ \A s \in BOOLEAN :
              /\ Removes(s)' = Removes(s)
              /\ Adds(s)' = IF s = side THEN Adds(s) + ToTake(s) ELSE Adds(s)
              /\ ToTake(s)' = IF s = side THEN 0 ELSE ToTake(s)
              /\ AnyPrice \in DOMAIN pending_liq_add_qty'[s] => Adds(s)' > 0
         /\ act.kind = "TRADE" /\ act'.kind = "TRADE" /\ pc = "tradeRest"
         /\ pc' \in {"done", "trade"}
         /\ UNCHANGED <<levels, order_map, pending_liq_remove_qty>>
<1>1. /\ pc = "tradeRest" /\ pc' = IF side THEN "done" ELSE "trade"
      /\ side' = TRUE /\ act' = [act EXCEPT !.filled_quantity = 0]
      /\ UNCHANGED <<levels, order_map, pending_liq_remove_qty>>
      /\ IF Remaining(act) > 0
         THEN pending_liq_add_qty' = [pending_liq_add_qty EXCEPT
                ![side] = Increase(@, act.price, Remaining(act))]
         ELSE UNCHANGED pending_liq_add_qty
  BY DEF TradeRest
<1>2. act.kind = "TRADE"
  BY <1>1 DEF IInv, ActInv
<1>3. /\ act \in Action /\ Remaining(act) \in Nat /\ act.price \in Price /\ side \in BOOLEAN
      /\ DOMAIN pending_liq_add_qty = BOOLEAN /\ act.quantity \in Nat
      /\ IsMap(pending_liq_add_qty[side], Price, Nat)
      /\ \A s \in BOOLEAN : Adds(s) \in Nat
  BY PendingNat
<1>4. act'.kind = "TRADE" /\ Remaining(act') = act.quantity /\ act'.quantity = act.quantity
  BY <1>1, <1>2, <1>3 DEF Action, Remaining
<1>5. ToTake(side) = Remaining(act) /\ (Remaining(act) > 0 => Removes(side) = 0)
  BY <1>1, <1>2 DEF ToTake, HandlerInv
<1>6. \A s \in BOOLEAN : ToTake(s)' = IF s = side THEN 0 ELSE ToTake(s)
  <2>1. CASE side
    BY <1>1, <1>2, <1>3, <1>4, <2>1 DEF ToTake
  <2>2. CASE ~side
    BY <1>1, <1>2, <1>3, <1>4, <2>2 DEF ToTake
  <2> QED
    BY <2>1, <2>2
<1>7. \A s \in BOOLEAN : Removes(s)' = Removes(s)
  BY <1>1 DEF Removes
<1>8. ASSUME NEW s \in BOOLEAN
      PROVE  /\ Adds(s)' = IF s = side THEN Adds(s) + ToTake(s) ELSE Adds(s)
             /\ AnyPrice \in DOMAIN pending_liq_add_qty'[s] => Adds(s)' > 0
  <2>1. CASE s # side \/ Remaining(act) = 0
    <3>1. pending_liq_add_qty'[s] = pending_liq_add_qty[s]
      BY <1>1, <1>3, <2>1
    <3>2. Adds(s)' = Adds(s)
      BY <3>1 DEF Adds
    <3>3. AnyPrice \in DOMAIN pending_liq_add_qty'[s] => Adds(s)' > 0
      BY <3>1, <3>2 DEF PendingInv
    <3> QED
      BY <1>3, <1>5, <2>1, <3>2, <3>3
  <2>2. CASE s = side /\ Remaining(act) > 0
    <3>1. pending_liq_add_qty'[s] = Increase(pending_liq_add_qty[s], act.price, Remaining(act))
      BY <1>1, <1>3, <2>2
    <3>2. PendingQty(Increase(pending_liq_add_qty[s], act.price, Remaining(act)))
            = PendingQty(pending_liq_add_qty[s]) + Remaining(act)
      BY <1>3, <2>2, EntryIncrease
    <3>3. Adds(s)' = Adds(s) + Remaining(act)
      BY <3>1, <3>2 DEF Adds
    <3>4. Adds(s) \in Nat
      BY <1>3
    <3> QED
      BY <1>3, <1>5, <2>2, <3>3, <3>4
  <2> QED
    BY <1>3, <2>1, <2>2
<1> QED
  BY <1>1, <1>2, <1>4, <1>5, <1>6, <1>7, <1>8

\* With no trade to take, both sides expect the same.
LEMMA SidesSame ==
  ASSUME OnePrice, IInv, PendingInv, ToTake(FALSE) = 0, ToTake(TRUE) = 0
  PROVE  Removes(FALSE) = Removes(TRUE)
<1>1. PICK x \in Nat, y \in Nat : x = Removes(FALSE) /\ y = Removes(TRUE)
  BY PendingNat
<1>2. Minus(x, 0) = Minus(y, 0)
  BY <1>1 DEF PendingInv
<1>3. x = y
  BY ONLY <1>2, x \in Nat, y \in Nat DEF Minus
<1> QED
  BY <1>1, <1>3

\* The pending quantities.
LEMMA PendingKept ==
  ASSUME OnePrice, IInv, ExchangeTyped, Requests \subseteq {"ADD"}, HandlerInv, PendingInv,
         PassedInv, [LLNext]_llVars
  PROVE  PendingInv'
<1>0. /\ \A s \in BOOLEAN : Removes(s) \in Nat /\ Adds(s) \in Nat /\ ToTake(s) \in Nat
      /\ \A s \in BOOLEAN : AnyPrice \in DOMAIN pending_liq_remove_qty[s] => Removes(s) > 0
      /\ \A s \in BOOLEAN : AnyPrice \in DOMAIN pending_liq_add_qty[s] => Adds(s) > 0
      /\ Minus(Removes(FALSE), ToTake(FALSE)) = Minus(Removes(TRUE), ToTake(TRUE))
      /\ act \in Action /\ side \in BOOLEAN
  BY PendingNat DEF PendingInv
\* A step that leaves the maps and what is to be taken alone.
<1>1. ASSUME UNCHANGED <<pending_liq_remove_qty, pending_liq_add_qty>>,
             \A s \in BOOLEAN : ToTake(s)' = ToTake(s)
      PROVE  PendingInv'
  <2>1. \A s \in BOOLEAN : Removes(s)' = Removes(s) /\ Adds(s)' = Adds(s)
    BY <1>1 DEF Removes, Adds
  <2> QED
    BY <1>0, <1>1, <2>1 DEF PendingInv
<1>2. CASE UNCHANGED vars
  <2>1. UNCHANGED <<act, pc, side, pending_liq_remove_qty, pending_liq_add_qty>>
    BY <1>2 DEF vars, sideVars, loopVars
  <2>2. \A s \in BOOLEAN : ToTake(s)' = ToTake(s)
    BY <2>1 DEF ToTake
  <2> QED
    BY <1>1, <2>1, <2>2
<1>3. CASE ReceiveOrder
  <2> DEFINE m == Head(order_stream)
  <2>1. m \in StreamMessage
    BY <1>3 DEF ReceiveOrder, ExchangeTyped
  <2>2. m.type = "ADD"
    BY <2>1, MessageTyped
  <2>3. processOrderAddMessage(m)
    BY <1>3, <2>2 DEF ReceiveOrder
  <2> HIDE DEF m
  <2>4. /\ pc = "idle" /\ act'.kind = "ADD"
        /\ UNCHANGED <<pending_liq_remove_qty, pending_liq_add_qty>>
    BY <2>3 DEF processOrderAddMessage, Activate, sideVars
  <2>5. act.kind = "NONE"
    BY <2>4 DEF HandlerInv
  <2>6. \A s \in BOOLEAN : ToTake(s)' = ToTake(s)
    BY <2>4, <2>5 DEF ToTake
  <2> QED
    BY <1>1, <2>4, <2>6
<1>4. CASE ReceiveTrade
  <2> DEFINE t == Head(trade_stream)
  <2>1. /\ pc = "idle" /\ pc' = "trade" /\ act'.kind = "TRADE" /\ side' = FALSE
        /\ act'.quantity = t.quantity /\ Remaining(act') = t.quantity - 0
        /\ UNCHANGED <<pending_liq_remove_qty, pending_liq_add_qty>>
    BY <1>4 DEF ReceiveTrade, processTradeMessage, Activate, sideVars, Remaining
  <2>2. t.quantity \in Nat
    <3>1. t \in TradeMessage /\ MaxQty \in Nat
      BY <1>4, LevelAssumption DEF ReceiveTrade, ExchangeTyped
    <3> HIDE DEF t
    <3> QED
      BY <3>1 DEF TradeMessage
  <2>3. PICK q \in Nat : q = t.quantity
    BY <2>2
  <2> HIDE DEF t
  <2>4. act.kind = "NONE"
    BY <2>1 DEF HandlerInv
  <2>5. ToTake(FALSE) = 0 /\ ToTake(TRUE) = 0
    BY <2>4 DEF ToTake
  <2>6. ToTake(FALSE)' = q /\ ToTake(TRUE)' = q
    BY <2>1, <2>3 DEF ToTake
  <2>7. \A s \in BOOLEAN : Removes(s)' = Removes(s) /\ Adds(s)' = Adds(s)
    BY <2>1 DEF Removes, Adds
  <2>8. Removes(FALSE) = Removes(TRUE)
    BY <2>5, SidesSame
  <2>9. Minus(Removes(FALSE)', ToTake(FALSE)') = Minus(Removes(TRUE)', ToTake(TRUE)')
    BY <2>6, <2>7, <2>8
  <2> QED
    BY <1>0, <2>1, <2>7, <2>9 DEF PendingInv
<1>5. CASE MatchPendingLiqAdd
  <2>1. pc = "matchAdd" /\ act.kind = "ADD" /\ pending_liq_remove_qty' = pending_liq_remove_qty
    BY <1>5 DEF MatchPendingLiqAdd, IInv, ActInv, HandlerInv
  <2>2. PICK p \in DOMAIN pending_liq_add_qty[act.is_sell] :
          LET s   == act.is_sell
              qty == MinOf(pending_liq_add_qty[s][p], Remaining(act))
          IN  /\ pending_liq_add_qty' = [pending_liq_add_qty EXCEPT
                   ![s] = AfterMatchAdd(@, p, qty, act.price)]
              /\ act' = OrderFilled(act, qty)
    BY <1>5 DEF MatchPendingLiqAdd
  <2>3. PICK u \in BOOLEAN : u = act.is_sell
    BY PendingNat
  <2>4. PICK f : f = pending_liq_add_qty[u]
    OBVIOUS
  <2>5. PICK qty : qty = MinOf(f[p], Remaining(act))
    OBVIOUS
  <2>6. /\ IsMap(f, Price, Nat) /\ p \in DOMAIN f /\ act.price \in Price
        /\ DOMAIN pending_liq_add_qty = BOOLEAN /\ Remaining(act) \in Nat
    BY <2>2, <2>3, <2>4, PendingNat
  <2>7. qty \in Nat /\ qty <= f[p] /\ qty <= Remaining(act)
    <3>1. f[p] \in Nat
      BY <2>6 DEF IsMap
    <3> QED
      BY <2>5, <2>6, <3>1, MinOfNat
  <2>8. PICK g : g = AfterMatchAdd(f, p, qty, act.price)
    OBVIOUS
  <2>9. AnyPrice \in DOMAIN g => PendingQty(g) > 0
    BY <2>6, <2>7, <2>8, EntryMatchAdd
  <2>10. /\ pending_liq_add_qty'[u] = g
         /\ \A s \in BOOLEAN : s # u => pending_liq_add_qty'[s] = pending_liq_add_qty[s]
    BY <2>2, <2>3, <2>4, <2>5, <2>6, <2>8
  <2>11. ASSUME NEW s \in BOOLEAN, AnyPrice \in DOMAIN pending_liq_add_qty'[s]
         PROVE  Adds(s)' > 0
    <3>1. CASE s = u
      BY <2>9, <2>10, <2>11, <3>1 DEF Adds
    <3>2. CASE s # u
      <4>1. Adds(s)' = Adds(s) /\ AnyPrice \in DOMAIN pending_liq_add_qty[s]
        BY <2>10, <2>11, <3>2 DEF Adds
      <4> QED
        BY <1>0, <4>1
    <3> QED
      BY <3>1, <3>2
  <2>12. act'.kind = "ADD"
    BY <1>0, <2>1, <2>2 DEF OrderFilled, Action
  <2>13. \A s \in BOOLEAN : Removes(s)' = Removes(s) /\ ToTake(s) = 0 /\ ToTake(s)' = 0
    BY <2>1, <2>12 DEF Removes, ToTake
  <2> QED
    BY <1>0, <2>1, <2>11, <2>13 DEF PendingInv
<1>6. CASE MatchPendingLiqAddDone \/ FillDone \/ RemoveFilled \/ RemoveFilledDone \/ SweepDone
  <2>1. /\ UNCHANGED <<act, side, pending_liq_remove_qty, pending_liq_add_qty>>
        /\ pc # "done" /\ pc' # "done"
    BY <1>6 DEF MatchPendingLiqAddDone, FillDone, RemoveFilled, RemoveFilledDone, SweepDone,
                WalkLevel, sideVars, loopVars
  <2>2. \A s \in BOOLEAN : ToTake(s)' = ToTake(s)
    BY <2>1 DEF ToTake
  <2> QED
    BY <1>1, <2>1, <2>2
<1>7. CASE Uncross \/ RestOrder
  <2>1. /\ UNCHANGED <<act, pending_liq_remove_qty, pending_liq_add_qty>> /\ pc = "uncross"
    BY <1>7 DEF Uncross, RestOrder, sideVars
  <2>2. act.kind # "TRADE"
    BY <2>1 DEF IInv, ActInv
  <2>3. \A s \in BOOLEAN : ToTake(s)' = ToTake(s)
    BY <2>1, <2>2 DEF ToTake
  <2> QED
    BY <1>1, <2>1, <2>3
<1>8. CASE Return
  <2>1. /\ UNCHANGED <<pending_liq_remove_qty, pending_liq_add_qty>> /\ pc = "done"
        /\ act'.kind = "NONE"
    BY <1>8 DEF Return, sideVars, Idle
  <2>2. \A s \in BOOLEAN : ToTake(s)' = ToTake(s)
    BY <2>1 DEF ToTake
  <2> QED
    BY <1>1, <2>1, <2>2
<1>9. CASE Fill /\ act.kind # "TRADE"
  <2>1. /\ FillQty \in Nat /\ FillQty > 0 /\ UNCHANGED pending_liq_add_qty
        /\ \A s \in BOOLEAN : /\ Removes(s)' = Removes(s) + FillQty /\ Adds(s)' = Adds(s)
                              /\ ToTake(s) = 0 /\ ToTake(s)' = 0
    BY <1>9, FillPends
  <2>2. Removes(FALSE) = Removes(TRUE)
    BY <2>1, SidesSame
  <2>3. \A s \in BOOLEAN : Removes(s)' > 0
    BY <1>0, <2>1
  <2>4. Minus(Removes(FALSE)', ToTake(FALSE)') = Minus(Removes(TRUE)', ToTake(TRUE)')
    BY <2>1, <2>2
  <2> QED
    BY <1>0, <2>1, <2>3, <2>4 DEF PendingInv
<1>10. CASE Fill /\ act.kind = "TRADE"
  <2>1. /\ UNCHANGED <<pending_liq_remove_qty, pending_liq_add_qty>>
        /\ \A s \in BOOLEAN : Removes(s)' = Removes(s) /\ Adds(s)' = Adds(s)
        /\ \A s \in BOOLEAN : s # side => ToTake(s)' = ToTake(s)
        /\ FillQty \in Nat /\ ToTake(side)' = ToTake(side) - FillQty /\ FillQty <= ToTake(side)
        /\ Removes(side) = 0 /\ side' = side
    BY <1>10, FillPends
  <2>2. Minus(Removes(side)', ToTake(side)') = Minus(Removes(side), ToTake(side))
    BY <1>0, <2>1 DEF Minus
  <2>3. Minus(Removes(FALSE)', ToTake(FALSE)') = Minus(Removes(TRUE)', ToTake(TRUE)')
    <3>1. CASE side = TRUE
      BY <1>0, <2>1, <2>2, <3>1
    <3>2. CASE side = FALSE
      BY <1>0, <2>1, <2>2, <3>2
    <3> QED
      BY <1>0, <3>1, <3>2
  <2> QED
    BY <1>0, <2>1, <2>3 DEF PendingInv
<1>11. CASE TradeMatch
  <2>1. PICK m \in Nat :
           /\ m <= Removes(side) /\ m <= ToTake(side)
           /\ m = Removes(side) \/ m = ToTake(side)
           /\ Removes(side)' = Removes(side) - m /\ ToTake(side)' = ToTake(side) - m
           /\ \A s \in BOOLEAN : s # side => Removes(s)' = Removes(s) /\ ToTake(s)' = ToTake(s)
           /\ \A s \in BOOLEAN : AnyPrice \in DOMAIN pending_liq_remove_qty'[s] => Removes(s)' > 0
           /\ side' = side
    BY <1>11, TradeMatchTakes
  <2>2. pending_liq_add_qty' = pending_liq_add_qty
    BY <1>11 DEF TradeMatch
  <2>3. \A s \in BOOLEAN : Adds(s)' = Adds(s)
    BY <2>2 DEF Adds
  <2>4. Minus(Removes(side)', ToTake(side)') = Minus(Removes(side), ToTake(side))
    BY <1>0, <2>1 DEF Minus
  <2>5. Minus(Removes(FALSE)', ToTake(FALSE)') = Minus(Removes(TRUE)', ToTake(TRUE)')
    <3>1. CASE side = TRUE
      BY <1>0, <2>1, <2>4, <3>1
    <3>2. CASE side = FALSE
      BY <1>0, <2>1, <2>4, <3>2
    <3> QED
      BY <1>0, <3>1, <3>2
  <2> QED
    BY <1>0, <2>1, <2>2, <2>3, <2>5 DEF PendingInv
<1>12. CASE TradeRest
  <2>1. /\ ToTake(side) = Remaining(act)
        /\ Remaining(act) > 0 => Removes(side) = 0
        /\ \A s \in BOOLEAN :
             /\ Removes(s)' = Removes(s)
             /\ ToTake(s)' = IF s = side THEN 0 ELSE ToTake(s)
             /\ AnyPrice \in DOMAIN pending_liq_add_qty'[s] => Adds(s)' > 0
        /\ UNCHANGED pending_liq_remove_qty
    BY <1>12, TradeRestGuesses
  <2>2. \A s \in BOOLEAN : Minus(Removes(s)', ToTake(s)') = Minus(Removes(s), ToTake(s))
    BY <1>0, <2>1 DEF Minus
  <2> QED
    BY <1>0, <2>1, <2>2 DEF PendingInv
<1> QED
  BY <1>2, <1>3, <1>4, <1>5, <1>6, <1>7, <1>8, <1>9, <1>10, <1>11, <1>12, NoSweep
     DEF LLNext, LLHandlerStep, HandlerStep, llVars

-----------------------------------------------------------------------------
(* The account of the book, step by step.                                  *)

\* What the account says of a side.
LEMMA AccountIs ==
  ASSUME OnePrice, IInv, NEW M \in Seq(StreamMessage), NEW V, NEW a, NEW c,
         BookAccount(M, V, a, c), NEW s \in BOOLEAN
  PROVE  /\ a \in Nat /\ a \in 0 .. Len(M) /\ InBook(a) \in 0 .. Len(M) /\ InBook(a) <= a
         /\ c[s] \in Nat /\ Ordered(M, s, a) \in Nat /\ Ordered(M, s, InBook(a)) \in Nat
         /\ Removes(s) \in Nat /\ Adds(s) \in Nat /\ ToTake(s) \in Nat
         /\ Agrees(levels[s], order_map[s], s, Queue(M, s, InBook(a), c[s]))
         /\ SideOK(levels[s], order_map[s])
         /\ ToCome(M, a) /\ HandlesLast(M, a)
         /\ c[s] + ToTake(s) + Traded(trade_stream) = V + Removes(s)
<1>1. /\ a \in 0 .. Len(M) /\ ToCome(M, a) /\ HandlesLast(M, a) /\ GivenAway(M, a, c, s)
      /\ c[s] + ToTake(s) + Traded(trade_stream) = V + Removes(s)
  BY DEF BookAccount
<1>2. a \in Nat /\ InBook(a) \in 0 .. Len(M) /\ InBook(a) <= a
  <2>1. a \in Nat
    BY <1>1
  <2>2. CASE Adding
    BY <1>1, <2>1, <2>2 DEF InBook, HandlesLast
  <2>3. CASE ~Adding
    BY <1>1, <2>1, <2>3 DEF InBook
  <2> QED
    BY <2>1, <2>2, <2>3
<1>3. Ordered(M, s, a) \in Nat /\ Ordered(M, s, InBook(a)) \in Nat
  BY <1>1, <1>2, OrderedIs
<1>4. Removes(s) \in Nat /\ Adds(s) \in Nat /\ ToTake(s) \in Nat
  BY PendingNat
<1>5. SideOK(levels[s], order_map[s])
  BY SidesOK DEF IInv
<1> QED
  BY <1>1, <1>2, <1>3, <1>4, <1>5 DEF GivenAway

\* A step that only moves the handler on.
LEMMA BookQuiet ==
  ASSUME NEW M, NEW V, NEW a, NEW c, BookAccount(M, V, a, c),
         UNCHANGED <<pending_liq_remove_qty, pending_liq_add_qty, order_stream, trade_stream>>,
         \A s \in BOOLEAN : ToTake(s)' = ToTake(s),
         \A s \in BOOLEAN : Agrees(levels'[s], order_map'[s], s, Queue(M, s, InBook(a), c[s])),
         Adding' <=> Adding, Adding => act' = act,
         (pc' = pc /\ act' = act) \/ (pc' # "matchAdd" /\ pc # "matchAdd")
  PROVE  BookAccount(M, V, a, c)'
<1>1. \A s \in BOOLEAN : Removes(s)' = Removes(s) /\ Adds(s)' = Adds(s)
  BY DEF Removes, Adds
<1>2. InBook(a)' = InBook(a)
  BY DEF InBook
<1>3. ToCome(M, a)'
  BY DEF BookAccount, ToCome
<1>4. HandlesLast(M, a)'
  BY DEF BookAccount, HandlesLast
<1>5. ASSUME NEW s \in BOOLEAN
      PROVE  GivenAway(M, a, c, s)'
  <2>1. /\ c[s] \in Nat
        /\ IF pc = "matchAdd" /\ s = act.is_sell
           THEN /\ Adds(s) + act.filled_quantity = Minus(c[s], Ordered(M, s, InBook(a)))
                /\ act.filled_quantity > 0 => Adds(s) = 0
           ELSE Adds(s) = Minus(c[s], Ordered(M, s, a))
        /\ Removes(s) > 0 => \A t \in BOOLEAN : c[s] <= Ordered(M, t, a)
        /\ Adding /\ pc # "matchAdd" /\ s = act.is_sell => Remaining(act) = Left(M, a, c[s])
    BY DEF BookAccount, GivenAway
  <2>2. Agrees(levels'[s], order_map'[s], s, Queue(M, s, InBook(a)', c[s]))
    BY <1>2
  <2>3. IF pc' = "matchAdd" /\ s = act'.is_sell
        THEN /\ Adds(s)' + act'.filled_quantity = Minus(c[s], Ordered(M, s, InBook(a)'))
             /\ act'.filled_quantity > 0 => Adds(s)' = 0
        ELSE Adds(s)' = Minus(c[s], Ordered(M, s, a))
    BY <1>1, <1>2, <2>1
  <2>4. Removes(s)' > 0 => \A t \in BOOLEAN : c[s] <= Ordered(M, t, a)
    BY <1>1, <2>1
  <2>5. Adding' /\ pc' # "matchAdd" /\ s = act'.is_sell => Remaining(act') = Left(M, a, c[s])
    BY <2>1
  <2> QED
    BY <2>1, <2>2, <2>3, <2>4, <2>5 DEF GivenAway
<1>6. ASSUME NEW s \in BOOLEAN
      PROVE  c[s] + ToTake(s)' + Traded(trade_stream') = V + Removes(s)'
  BY <1>1 DEF BookAccount
<1> QED
  BY <1>3, <1>4, <1>5, <1>6 DEF BookAccount

\* The next order message is received: it is the next of M.
LEMMA ReceiveOrderAccount ==
  ASSUME OnePrice, IInv, ExchangeTyped, HandlerInv, Requests \subseteq {"ADD"},
         NEW M \in Seq(StreamMessage), NEW V, NEW a, NEW c, BookAccount(M, V, a, c), ReceiveOrder
  PROVE  BookAccount(M, V, a + 1, c)'
<1> DEFINE n == Len(order_stream)
<1>1. /\ order_stream \in Seq(StreamMessage) /\ order_stream # << >>
      /\ order_stream' = Tail(order_stream) /\ trade_stream' = trade_stream
  BY DEF ReceiveOrder, ExchangeTyped
<1>2. /\ a \in Nat /\ a \in 0 .. Len(M) /\ n + a = Len(M)
      /\ \A k \in DOMAIN order_stream : order_stream[k] = M[a + k]
  <2>1. a \in 0 .. Len(M) /\ ToCome(M, a) /\ Len(M) \in Nat
    BY DEF BookAccount
  <2> QED
    BY <2>1 DEF ToCome
<1>3. PICK m \in StreamMessage : m = Head(order_stream)
  BY <1>1
<1>4. PICK b : b = a + 1
  OBVIOUS
<1>5. /\ n \in Nat /\ n > 0 /\ 1 \in DOMAIN order_stream /\ m = order_stream[1]
      /\ Len(order_stream') = n - 1 /\ DOMAIN order_stream' = 1 .. n - 1
      /\ \A k \in 1 .. n - 1 : order_stream'[k] = order_stream[k + 1] /\ k + 1 \in DOMAIN order_stream
  BY <1>1, <1>3
<1> HIDE DEF n
<1>6. b \in 1 .. Len(M) /\ b \in 0 .. Len(M) /\ b - 1 = a /\ b > 0 /\ m = M[b]
  BY <1>2, <1>4, <1>5
<1>7. ToCome(M, b)'
  <2>1. Len(order_stream') + b = Len(M)
    BY <1>2, <1>4, <1>5
  <2>2. ASSUME NEW k \in DOMAIN order_stream'
        PROVE  order_stream'[k] = M[b + k]
    <3>1. k \in 1 .. n - 1 /\ k + 1 \in DOMAIN order_stream /\ k \in Int
      BY <1>5
    <3>2. b + k = a + (k + 1)
      BY ONLY <1>2, <1>4, <3>1
    <3> QED
      BY <1>2, <1>5, <3>1, <3>2
  <2> QED
    BY <2>1, <2>2 DEF ToCome
<1>8. m.type = "ADD"
  BY MessageTyped
<1>9. processOrderAddMessage(m)
  BY <1>3, <1>8 DEF ReceiveOrder
<1>10. /\ pc = "idle" /\ pc' = "matchAdd"
       /\ act' = [kind |-> "ADD", odid |-> m.odid, is_sell |-> m.is_sell,
                  quantity |-> m.quantity, price |-> m.price, filled_quantity |-> 0]
       /\ UNCHANGED <<levels, order_map, pending_liq_remove_qty, pending_liq_add_qty>>
  BY <1>9 DEF processOrderAddMessage, Activate, sideVars
<1>11. act.kind = "NONE"
  BY <1>10 DEF HandlerInv
<1>12. ~Adding /\ InBook(a) = a /\ Adding' /\ InBook(b)' = a
  BY <1>6, <1>10, <1>11 DEF Adding, InBook
<1>13. HandlesLast(M, b)'
  BY <1>6, <1>10 DEF HandlesLast
<1>14. \A s \in BOOLEAN : Removes(s)' = Removes(s) /\ Adds(s)' = Adds(s)
  BY <1>10 DEF Removes, Adds
<1>15. \A s \in BOOLEAN : ToTake(s)' = ToTake(s)
  BY <1>10, <1>11 DEF ToTake
<1>16. ASSUME NEW s \in BOOLEAN
       PROVE  /\ Ordered(M, s, a) \in Nat /\ Ordered(M, s, b) \in Nat
              /\ Ordered(M, s, a) <= Ordered(M, s, b)
              /\ m.is_sell # s => Ordered(M, s, b) = Ordered(M, s, a)
  <2>1. Ordered(M, s, a) \in Nat /\ Ordered(M, s, b) \in Nat
    BY <1>2, <1>6, OrderedIs
  <2>2. a <= b
    BY <1>2, <1>4
  <2>3. Ordered(M, s, a) <= Ordered(M, s, b)
    BY <1>2, <1>6, <2>2, OrderedGrows
  <2>4. Ordered(M, s, b) = Ordered(M, s, b - 1) + (IF M[b].is_sell = s THEN M[b].quantity ELSE 0)
    BY <1>6, OrderedIs
  <2> QED
    BY <1>6, <2>1, <2>3, <2>4
<1>17. ASSUME NEW s \in BOOLEAN
       PROVE  GivenAway(M, b, c, s)'
  <2>1. /\ c[s] \in Nat
        /\ Agrees(levels[s], order_map[s], s, Queue(M, s, a, c[s]))
        /\ Adds(s) = Minus(c[s], Ordered(M, s, a)) /\ Adds(s) \in Nat
        /\ Removes(s) > 0 => \A t \in BOOLEAN : c[s] <= Ordered(M, t, a)
    BY <1>10, <1>12, PendingNat DEF BookAccount, GivenAway
  <2>2. Agrees(levels'[s], order_map'[s], s, Queue(M, s, InBook(b)', c[s]))
    BY <1>10, <1>12, <2>1
  <2>3. IF pc' = "matchAdd" /\ s = act'.is_sell
        THEN /\ Adds(s)' + act'.filled_quantity = Minus(c[s], Ordered(M, s, InBook(b)'))
             /\ act'.filled_quantity > 0 => Adds(s)' = 0
        ELSE Adds(s)' = Minus(c[s], Ordered(M, s, b))
    <3>1. act'.filled_quantity = 0 /\ act'.is_sell = m.is_sell
      BY <1>10
    <3>2. Adds(s) + 0 = Adds(s)
      BY <2>1
    <3>3. CASE s = m.is_sell
      BY <1>10, <1>12, <1>14, <2>1, <3>1, <3>2, <3>3
    <3>4. CASE s # m.is_sell
      BY <1>14, <1>16, <2>1, <3>1, <3>4
    <3> QED
      BY <3>3, <3>4
  <2>4. Removes(s)' > 0 => \A t \in BOOLEAN : c[s] <= Ordered(M, t, b)
    <3> SUFFICES ASSUME Removes(s)' > 0, NEW t \in BOOLEAN PROVE c[s] <= Ordered(M, t, b)
      OBVIOUS
    <3>1. c[s] <= Ordered(M, t, a)
      BY <1>14, <2>1
    <3> QED
      BY <1>16, <2>1, <3>1
  <2> QED
    BY <1>10, <2>1, <2>2, <2>3, <2>4 DEF GivenAway
<1>18. ASSUME NEW s \in BOOLEAN
       PROVE  c[s] + ToTake(s)' + Traded(trade_stream') = V + Removes(s)'
  BY <1>1, <1>14, <1>15 DEF BookAccount
<1>19. BookAccount(M, V, b, c)'
  BY <1>6, <1>7, <1>13, <1>17, <1>18 DEF BookAccount
<1> QED
  BY <1>4, <1>19

\* A trade is received: both sides have to take it.
LEMMA ReceiveTradeAccount ==
  ASSUME OnePrice, IInv, ExchangeTyped, HandlerInv,
         NEW M \in Seq(StreamMessage), NEW V \in Nat, NEW a, NEW c, BookAccount(M, V, a, c),
         ReceiveTrade
  PROVE  BookAccount(M, V, a, c)'
<1>1. /\ trade_stream \in Seq(TradeMessage) /\ trade_stream # << >>
      /\ trade_stream' = Tail(trade_stream) /\ order_stream' = order_stream
  BY DEF ReceiveTrade, ExchangeTyped
<1>2. PICK t \in TradeMessage : t = Head(trade_stream)
  BY <1>1
<1>3. t.quantity \in Nat
  BY LevelAssumption DEF TradeMessage
<1>4. PICK q \in Nat : q = t.quantity
  BY <1>3
<1>5. /\ pc = "idle" /\ pc' = "trade" /\ act'.kind = "TRADE" /\ side' = FALSE
      /\ act'.quantity = q /\ Remaining(act') = q - 0
      /\ UNCHANGED <<levels, order_map, pending_liq_remove_qty, pending_liq_add_qty>>
  BY <1>2, <1>4 DEF ReceiveTrade, processTradeMessage, Activate, sideVars, Remaining
<1>6. act.kind = "NONE"
  BY <1>5 DEF HandlerInv
<1>7. ~Adding /\ ~Adding' /\ InBook(a) = a /\ InBook(a)' = a
  BY <1>5, <1>6 DEF Adding, InBook
<1>8. \A s \in BOOLEAN : Removes(s)' = Removes(s) /\ Adds(s)' = Adds(s)
  BY <1>5 DEF Removes, Adds
<1>9. \A s \in BOOLEAN : ToTake(s) = 0 /\ ToTake(s)' = q
  BY <1>5, <1>6 DEF ToTake
<1>10. Traded(trade_stream') = Traded(trade_stream) - q /\ Traded(trade_stream) \in Int
  BY <1>1, <1>2, <1>4, TradedIs
<1>11. ASSUME NEW s \in BOOLEAN
       PROVE  c[s] + ToTake(s)' + Traded(trade_stream') = V + Removes(s)'
  <2>1. c[s] \in Nat /\ Removes(s) \in Nat /\ c[s] + 0 + Traded(trade_stream) = V + Removes(s)
    BY <1>9, AccountIs
  <2>2. PICK x \in Int : x = Traded(trade_stream)
    BY <1>10
  <2>3. c[s] + q + (x - q) = V + Removes(s)
    BY <2>1, <2>2
  <2> QED
    BY <1>8, <1>9, <1>10, <2>2, <2>3
<1>12. ASSUME NEW s \in BOOLEAN
       PROVE  GivenAway(M, a, c, s)'
  BY <1>5, <1>7, <1>8 DEF BookAccount, GivenAway
<1>13. ToCome(M, a)' /\ HandlesLast(M, a)'
  BY <1>1, <1>7 DEF BookAccount, ToCome, HandlesLast
<1> QED
  BY <1>11, <1>12, <1>13 DEF BookAccount

\* An order takes what was guessed of it.
LEMMA MatchAddAccount ==
  ASSUME OnePrice, IInv, HandlerInv, PendingInv, NEW M \in Seq(StreamMessage), NEW V, NEW a, NEW c,
         BookAccount(M, V, a, c), MatchPendingLiqAdd, UNCHANGED <<order_stream, trade_stream>>
  PROVE  BookAccount(M, V, a, c)'
<1>1. /\ pc = "matchAdd" /\ UNCHANGED <<levels, order_map, pending_liq_remove_qty>>
      /\ act.kind = "ADD"
  BY DEF MatchPendingLiqAdd, IInv, ActInv, HandlerInv
<1>2. PICK p \in DOMAIN pending_liq_add_qty[act.is_sell] :
        LET s   == act.is_sell
            qty == MinOf(pending_liq_add_qty[s][p], Remaining(act))
        IN  /\ pending_liq_add_qty' = [pending_liq_add_qty EXCEPT
                 ![s] = AfterMatchAdd(@, p, qty, act.price)]
            /\ act' = OrderFilled(act, qty)
            /\ pc' = IF Remaining(act) = qty THEN "uncross" ELSE pc
  BY DEF MatchPendingLiqAdd
<1>3. PICK u \in BOOLEAN : u = act.is_sell
  BY PendingNat
<1>4. PICK f : f = pending_liq_add_qty[u]
  OBVIOUS
<1>5. PICK qty : qty = MinOf(f[p], Remaining(act))
  OBVIOUS
<1>6. /\ IsMap(f, Price, Nat) /\ p \in DOMAIN f /\ act.price \in Price /\ f[p] \in Nat
      /\ DOMAIN pending_liq_add_qty = BOOLEAN /\ Remaining(act) \in Nat /\ act \in Action
  <2>1. IsMap(f, Price, Nat) /\ p \in DOMAIN f
    BY <1>2, <1>3, <1>4, PendingNat
  <2> QED
    BY <2>1, PendingNat DEF IsMap
<1>7. /\ qty \in Nat /\ qty <= f[p] /\ qty <= Remaining(act)
      /\ (qty = f[p] \/ qty = Remaining(act))
  BY <1>5, <1>6 DEF MinOf
<1>8. PICK g : g = AfterMatchAdd(f, p, qty, act.price)
  OBVIOUS
<1>9. PendingQty(f) = f[p] /\ PendingQty(g) = f[p] - qty
  BY <1>6, <1>7, <1>8, EntryMatchAdd
<1>10. /\ pending_liq_add_qty'[u] = g
       /\ \A s \in BOOLEAN : s # u => pending_liq_add_qty'[s] = pending_liq_add_qty[s]
  BY <1>2, <1>3, <1>4, <1>5, <1>6, <1>8
<1>11. PICK x \in Nat : x = f[p]
  BY <1>6
<1>12. /\ Adds(u) = x /\ Adds(u)' = x - qty /\ \A s \in BOOLEAN : s # u => Adds(s)' = Adds(s)
       /\ x > 0
  <2>1. Adds(u) = x /\ Adds(u)' = x - qty
    BY <1>4, <1>9, <1>10, <1>11 DEF Adds
  <2>2. \A s \in BOOLEAN : s # u => Adds(s)' = Adds(s)
    BY <1>10 DEF Adds
  <2>3. AnyPrice \in DOMAIN f
    BY <1>6, EntryNat
  <2>4. Adds(u) > 0
    BY <1>4, <2>3 DEF PendingInv
  <2> QED
    BY <2>1, <2>2, <2>4
<1>13. \A s \in BOOLEAN : Removes(s)' = Removes(s)
  BY <1>1 DEF Removes
<1>14. /\ act'.kind = "ADD" /\ act'.odid = act.odid /\ act'.is_sell = u
       /\ act'.quantity = act.quantity /\ act'.filled_quantity = act.filled_quantity + qty
       /\ Remaining(act') = Remaining(act) - qty
       /\ pc' = IF Remaining(act) = qty THEN "uncross" ELSE "matchAdd"
  <2>1. act' = OrderFilled(act, qty) /\ pc' = IF Remaining(act) = qty THEN "uncross" ELSE "matchAdd"
    BY <1>1, <1>2, <1>3, <1>4, <1>5
  <2> QED
    BY <1>1, <1>3, <1>6, <1>7, <2>1, ActFilled DEF OrderFilled, Action
<1>15. \A s \in BOOLEAN : ToTake(s)' = ToTake(s)
  BY <1>1, <1>14 DEF ToTake
<1>16. Adding /\ Adding' /\ InBook(a)' = InBook(a) /\ InBook(a) = a - 1
  BY <1>1, <1>14 DEF Adding, InBook
<1>17. ToCome(M, a)' /\ HandlesLast(M, a)' /\ a > 0 /\ M[a].is_sell = u
       /\ act.quantity = M[a].quantity
  BY <1>3, <1>14, <1>16 DEF BookAccount, ToCome, HandlesLast
\* Nothing of the order was filled yet.
<1>18. act.filled_quantity = 0 /\ Remaining(act) = M[a].quantity /\ x = Minus(c[u], Ordered(M, u, a - 1))
  <2>1. /\ Adds(u) + act.filled_quantity = Minus(c[u], Ordered(M, u, a - 1))
        /\ act.filled_quantity > 0 => Adds(u) = 0
    BY <1>1, <1>3, <1>16 DEF BookAccount, GivenAway
  <2>2. act.filled_quantity \in Nat /\ act.quantity \in Nat
    BY <1>6 DEF Action
  <2>3. act.filled_quantity = 0
    BY <1>12, <2>1, <2>2
  <2> QED
    BY <1>12, <1>17, <2>1, <2>2, <2>3 DEF Remaining
<1>19. /\ a \in 1 .. Len(M) /\ c[u] \in Nat /\ Ordered(M, u, a) \in Nat /\ Ordered(M, u, a - 1) \in Nat
       /\ Ordered(M, u, a) = Ordered(M, u, a - 1) + M[a].quantity
       /\ c[u] >= Ordered(M, u, a - 1) => Left(M, a, c[u]) = Minus(Ordered(M, u, a), c[u])
  <2>1. a \in 1 .. Len(M)
    BY <1>3, <1>17, AccountIs
  <2>2. c[u] \in Nat
    BY AccountIs
  <2> QED
    BY <1>17, <2>1, <2>2, LeftIs
<1>20. PICK k \in Nat, y \in Nat, z \in Nat, q \in Nat :
         /\ k = c[u] /\ y = Ordered(M, u, a - 1) /\ z = Ordered(M, u, a) /\ q = Remaining(act)
  BY <1>6, <1>19
<1>21. /\ x = Minus(k, y) /\ z = y + q /\ x > 0 /\ qty <= x /\ qty <= q /\ (qty = x \/ qty = q)
       /\ k >= y => Left(M, a, k) = Minus(z, k)
  BY <1>7, <1>11, <1>12, <1>18, <1>19, <1>20
<1>22. k > y /\ x = k - y
  BY ONLY <1>21, k \in Nat, y \in Nat, x \in Nat DEF Minus
<1>23. GivenAway(M, a, c, u)'
  <2>1. /\ c[u] \in Nat
        /\ Agrees(levels[u], order_map[u], u, Queue(M, u, InBook(a), c[u]))
        /\ Removes(u) > 0 => \A t \in BOOLEAN : c[u] <= Ordered(M, t, a)
    BY DEF BookAccount, GivenAway
  <2>2. Agrees(levels'[u], order_map'[u], u, Queue(M, u, InBook(a)', c[u]))
    BY <1>1, <1>16, <2>1
  <2>3. CASE q = qty
    <3>1. x - qty = Minus(k, z)
      BY ONLY <1>21, <1>22, <2>3, k \in Nat, y \in Nat, x \in Nat, z \in Nat, q \in Nat DEF Minus
    <3>2. Left(M, a, k) = 0 /\ q - qty = 0
      BY ONLY <1>21, <1>22, <2>3, k \in Nat, y \in Nat, x \in Nat, z \in Nat, q \in Nat DEF Minus
    <3>3. pc' = "uncross" /\ Remaining(act') = Left(M, a, c[u])
      BY <1>14, <1>20, <2>3, <3>2
    <3>4. Adds(u)' = Minus(c[u], Ordered(M, u, a))
      BY <1>12, <1>20, <3>1
    <3> QED
      BY <1>13, <2>1, <2>2, <3>3, <3>4 DEF GivenAway
  <2>4. CASE q # qty
    <3>1. qty = x /\ x - qty = 0 /\ x - qty + (0 + qty) = Minus(k, y)
      BY ONLY <1>21, <1>22, <2>4, k \in Nat, y \in Nat, x \in Nat, q \in Nat, qty \in Nat, <1>7
         DEF Minus
    <3>2. pc' = "matchAdd"
      BY <1>14, <1>20, <2>4
    <3>3. /\ Adds(u)' + act'.filled_quantity = Minus(c[u], Ordered(M, u, InBook(a)'))
          /\ Adds(u)' = 0
      BY <1>12, <1>14, <1>16, <1>18, <1>20, <3>1
    <3> QED
      BY <1>13, <1>14, <2>1, <2>2, <3>2, <3>3 DEF GivenAway
  <2> QED
    BY <2>3, <2>4
<1>24. ASSUME NEW s \in BOOLEAN, s # u
       PROVE  GivenAway(M, a, c, s)'
  <2>1. /\ c[s] \in Nat
        /\ Agrees(levels[s], order_map[s], s, Queue(M, s, InBook(a), c[s]))
        /\ Adds(s) = Minus(c[s], Ordered(M, s, a))
        /\ Removes(s) > 0 => \A t \in BOOLEAN : c[s] <= Ordered(M, t, a)
    BY <1>3, <1>24 DEF BookAccount, GivenAway
  <2>2. Agrees(levels'[s], order_map'[s], s, Queue(M, s, InBook(a)', c[s]))
    BY <1>1, <1>16, <2>1
  <2> QED
    BY <1>12, <1>13, <1>14, <1>24, <2>1, <2>2 DEF GivenAway
<1>25. ASSUME NEW s \in BOOLEAN
       PROVE  /\ GivenAway(M, a, c, s)'
              /\ c[s] + ToTake(s)' + Traded(trade_stream') = V + Removes(s)'
  BY <1>13, <1>15, <1>23, <1>24 DEF BookAccount
<1> QED
  BY <1>17, <1>25 DEF BookAccount

\* The rest of the order was not guessed.
LEMMA MatchAddDoneAccount ==
  ASSUME OnePrice, IInv, HandlerInv, NEW M \in Seq(StreamMessage), NEW V, NEW a, NEW c,
         BookAccount(M, V, a, c), MatchPendingLiqAddDone, UNCHANGED <<order_stream, trade_stream>>
  PROVE  BookAccount(M, V, a, c)'
<1>1. /\ pc = "matchAdd" /\ pc' = "uncross" /\ act.kind = "ADD"
      /\ UNCHANGED <<levels, order_map, pending_liq_remove_qty, pending_liq_add_qty, act>>
      /\ \A p \in DOMAIN pending_liq_add_qty[act.is_sell] : ~Matchable(act.is_sell, p)
  BY DEF MatchPendingLiqAddDone, IInv, ActInv, HandlerInv, sideVars
<1>2. PICK u \in BOOLEAN : u = act.is_sell
  BY PendingNat
<1>3. \A s \in BOOLEAN : Removes(s)' = Removes(s) /\ Adds(s)' = Adds(s) /\ ToTake(s)' = ToTake(s)
  BY <1>1 DEF Removes, Adds, ToTake
<1>4. Adding /\ Adding' /\ InBook(a)' = InBook(a) /\ InBook(a) = a - 1
  BY <1>1 DEF Adding, InBook
<1>5. ToCome(M, a)' /\ HandlesLast(M, a)' /\ a > 0 /\ M[a].is_sell = u
      /\ act.quantity = M[a].quantity
  BY <1>1, <1>2, <1>4 DEF BookAccount, ToCome, HandlesLast
\* The entry at the one price could be matched.
<1>6. Adds(u) = 0
  <2>1. IsMap(pending_liq_add_qty[u], Price, Nat) /\ act.price \in Price
    BY PendingNat
  <2>2. ASSUME AnyPrice \in DOMAIN pending_liq_add_qty[u] PROVE FALSE
    <3>1. \A p \in DOMAIN pending_liq_add_qty[u] : p \in Price /\ p \in Int
      BY <2>1, LevelAssumption DEF IsMap
    <3>2. Matchable(u, AnyPrice)
      BY <2>1, <2>2, <3>1, ThePrice DEF Matchable, IsBegin, Before
    <3> QED
      BY <1>1, <1>2, <2>2, <3>2
  <2> QED
    BY <2>1, <2>2 DEF Adds, PendingQty
<1>7. /\ a \in 1 .. Len(M) /\ c[u] \in Nat /\ Ordered(M, u, a) \in Nat /\ Ordered(M, u, a - 1) \in Nat
      /\ Ordered(M, u, a) = Ordered(M, u, a - 1) + M[a].quantity
      /\ c[u] >= Ordered(M, u, a - 1) => Left(M, a, c[u]) = Minus(Ordered(M, u, a), c[u])
      /\ c[u] <= Ordered(M, u, a - 1) => Left(M, a, c[u]) = M[a].quantity
  <2>1. a \in 1 .. Len(M)
    BY <1>2, <1>5, AccountIs
  <2>2. c[u] \in Nat
    BY AccountIs
  <2> QED
    BY <1>5, <2>1, <2>2, LeftIs
<1>8. PICK k \in Nat, y \in Nat, z \in Nat, q \in Nat, e \in Nat :
        /\ k = c[u] /\ y = Ordered(M, u, a - 1) /\ z = Ordered(M, u, a)
        /\ q = act.quantity /\ e = act.filled_quantity
  <2>1. act \in Action
    BY PendingNat
  <2> QED
    BY <1>7, <2>1 DEF Action
<1>9. /\ z = y + q /\ q - e > 0 /\ 0 + e = Minus(k, y)
      /\ k >= y => Left(M, a, k) = Minus(z, k)
      /\ k <= y => Left(M, a, k) = q
  <2>1. Adds(u) + act.filled_quantity = Minus(c[u], Ordered(M, u, a - 1))
    BY <1>1, <1>2, <1>4 DEF BookAccount, GivenAway
  <2>2. act.quantity - act.filled_quantity > 0
    BY <1>1 DEF HandlerInv, Remaining
  <2> QED
    BY <1>5, <1>6, <1>7, <1>8, <2>1, <2>2
<1>10. 0 = Minus(k, z) /\ q - e = Left(M, a, k)
  BY ONLY <1>9, k \in Nat, y \in Nat, z \in Nat, q \in Nat, e \in Nat DEF Minus
<1>11. GivenAway(M, a, c, u)'
  <2>1. /\ c[u] \in Nat
        /\ Agrees(levels[u], order_map[u], u, Queue(M, u, InBook(a), c[u]))
        /\ Removes(u) > 0 => \A t \in BOOLEAN : c[u] <= Ordered(M, t, a)
    BY DEF BookAccount, GivenAway
  <2>2. Agrees(levels'[u], order_map'[u], u, Queue(M, u, InBook(a)', c[u]))
    BY <1>1, <1>4, <2>1
  <2>3. Adds(u)' = Minus(c[u], Ordered(M, u, a)) /\ Remaining(act') = Left(M, a, c[u])
    BY <1>1, <1>3, <1>6, <1>8, <1>10 DEF Remaining
  <2> QED
    BY <1>1, <1>3, <2>1, <2>2, <2>3 DEF GivenAway
<1>12. ASSUME NEW s \in BOOLEAN, s # u
       PROVE  GivenAway(M, a, c, s)'
  <2>1. /\ c[s] \in Nat
        /\ Agrees(levels[s], order_map[s], s, Queue(M, s, InBook(a), c[s]))
        /\ Adds(s) = Minus(c[s], Ordered(M, s, a))
        /\ Removes(s) > 0 => \A t \in BOOLEAN : c[s] <= Ordered(M, t, a)
    BY <1>2, <1>12 DEF BookAccount, GivenAway
  <2>2. Agrees(levels'[s], order_map'[s], s, Queue(M, s, InBook(a)', c[s]))
    BY <1>1, <1>4, <2>1
  <2> QED
    BY <1>1, <1>2, <1>3, <1>12, <2>1, <2>2 DEF GivenAway
<1>13. ASSUME NEW s \in BOOLEAN
       PROVE  /\ GivenAway(M, a, c, s)'
              /\ c[s] + ToTake(s)' + Traded(trade_stream') = V + Removes(s)'
  BY <1>3, <1>11, <1>12 DEF BookAccount
<1> QED
  BY <1>5, <1>13 DEF BookAccount

\* The order a walk fills is the first of its queue.
LEMMA FillFirst ==
  ASSUME OnePrice, IInv, PassedInv, Fill, NEW M \in Seq(StreamMessage), NEW b \in 0 .. Len(M),
         NEW k \in Nat, Agrees(levels[side], order_map[side], side, Queue(M, side, b, k))
  PROVE  /\ Agrees(levels'[side], order_map'[side], side, Queue(M, side, b, k + FillQty))
         /\ k + FillQty <= Ordered(M, side, b)
<1> DEFINE Q == Queue(M, side, b, k)
<1>1. /\ side \in BOOLEAN /\ cur \in DOMAIN levels[side]
      /\ FillId \in DOMAIN order_map[side] /\ order_map[side][FillId].price = cur
      /\ Remaining(order_map[side][FillId]) > 0
      /\ FillQty \in Nat /\ FillQty <= Remaining(order_map[side][FillId])
      /\ \A x : Precedes(levels[side][cur].orders, x, FillId)
                  => x \in DOMAIN order_map[side] /\ Remaining(order_map[side][x]) = 0
      /\ \A p \in DOMAIN levels[side] : levels'[side][p].orders = levels[side][p].orders
      /\ DOMAIN order_map'[side] = DOMAIN order_map[side]
      /\ \A x \in DOMAIN order_map[side] :
           x # FillId => order_map'[side][x] = order_map[side][x]
      /\ order_map'[side][FillId].price = order_map[side][FillId].price
      /\ Remaining(order_map'[side][FillId]) = Remaining(order_map[side][FillId]) - FillQty
  BY FillTakes
<1>2. PICK qty \in Nat : qty = FillQty
  BY <1>1
<1>3. /\ DOMAIN Q \subseteq 1 .. b /\ DOMAIN Q \subseteq Int
      /\ \A j \in DOMAIN Q :
           /\ j \in 1 .. Len(M) /\ Q[j].is_sell = side /\ Q[j].price = M[j].price
           /\ Q[j].quantity = Left(M, j, k) /\ Q[j].quantity > 0 /\ Q[j].quantity \in Nat
  BY <1>1, QueueIs
<1>4. Agrees(levels[side], order_map[side], side, Q)
  OBVIOUS
<1>5. PICK f \in DOMAIN Q : Q[f].is_sell = side /\ Q[f].odid = FillId
  BY <1>1, <1>4 DEF Agrees
<1>6. Q[f].price = cur /\ Q[f].quantity = Remaining(order_map[side][FillId])
  BY <1>1, <1>4, <1>5 DEF Agrees
<1>7. \A j \in DOMAIN Q : f <= j
  <2> SUFFICES ASSUME NEW j \in DOMAIN Q, j < f PROVE FALSE
    BY <1>3
  <2>1. /\ Q[j].is_sell = side /\ Q[j].quantity > 0 /\ Q[j].price \in Price /\ Q[f].price \in Price
    <3>1. M[j] \in StreamMessage /\ M[f] \in StreamMessage
      BY <1>3
    <3> QED
      BY <1>3, <3>1 DEF StreamMessage
  <2>2. Q[j].price = Q[f].price
    BY <2>1 DEF OnePrice
  <2>3. Precedes(levels[side][Q[j].price].orders, Q[j].odid, Q[f].odid)
    BY <1>4, <1>5, <2>1, <2>2 DEF Agrees
  <2>4. Remaining(order_map[side][Q[j].odid]) = 0
    BY <1>1, <1>5, <1>6, <2>2, <2>3
  <2>5. Q[j].quantity = Remaining(order_map[side][Q[j].odid])
    BY <1>4, <2>1 DEF Agrees
  <2> QED
    BY <2>1, <2>4, <2>5
<1>8. qty <= Left(M, f, k)
  BY <1>1, <1>2, <1>3, <1>6
<1>9. /\ \E at : TakenFrom(Queue(M, side, b, k + qty), Queue(M, side, b, k), f, qty, at)
      /\ k + qty <= Ordered(M, side, f)
  BY <1>1, <1>7, <1>8, QueueGives
<1>10. PICK at : TakenFrom(Queue(M, side, b, k + qty), Q, f, qty, at)
  BY <1>9
<1>11. SideOK(levels[side], order_map[side])
  BY <1>1, SidesOK DEF IInv
<1> HIDE DEF Q
<1>12. PICK R : R = Queue(M, side, b, k + qty)
  OBVIOUS
<1>13. Agrees(levels'[side], order_map'[side], side, R)
  <2>1. /\ TakenFrom(R, Q, f, qty, at) /\ Q[f].quantity \in Nat /\ qty <= Q[f].quantity
    BY <1>1, <1>2, <1>3, <1>6, <1>10, <1>12
  <2>2. /\ \A x \in DOMAIN order_map[side] : x # Q[f].odid => order_map'[side][x] = order_map[side][x]
        /\ order_map'[side][Q[f].odid].price = order_map[side][Q[f].odid].price
        /\ Remaining(order_map'[side][Q[f].odid]) = Remaining(order_map[side][Q[f].odid]) - qty
    BY <1>1, <1>2, <1>5
  <2> QED
    BY <1>1, <1>4, <1>5, <1>11, <2>1, <2>2, AgreesTaken
<1>14. k + qty <= Ordered(M, side, b)
  <2>1. f \in 0 .. Len(M) /\ f <= b
    BY <1>3
  <2>2. Ordered(M, side, f) <= Ordered(M, side, b)
    BY <1>1, <2>1, OrderedGrows
  <2>3. Ordered(M, side, f) \in Nat /\ Ordered(M, side, b) \in Nat
    BY <1>1, <2>1, OrderedIs
  <2> QED
    BY <1>9, <2>2, <2>3
<1> QED
  BY <1>2, <1>12, <1>13, <1>14

\* An empty side has given away all that was ordered, and may give away more.
LEMMA EmptySide ==
  ASSUME NEW M \in Seq(StreamMessage), NEW s \in BOOLEAN, NEW b \in 0 .. Len(M), NEW k \in Nat,
         NEW L, NEW N, SideOK(L, N), DOMAIN L = {}, Agrees(L, N, s, Queue(M, s, b, k))
  PROVE  /\ DOMAIN Queue(M, s, b, k) = {} /\ Ordered(M, s, b) <= k
         /\ \A m \in Nat : m >= k => Agrees(L, N, s, Queue(M, s, b, m))
<1>1. DOMAIN N = {}
  BY DEF SideOK, SideConsistent
<1>2. DOMAIN Queue(M, s, b, k) = {}
  <2>1. \A j \in DOMAIN Queue(M, s, b, k) : Queue(M, s, b, k)[j].is_sell = s
    BY QueueIs
  <2> QED
    BY <1>1, <2>1 DEF Agrees
<1>3. Ordered(M, s, b) <= k
  BY <1>2, QueueIs
<1>4. ASSUME NEW m \in Nat, m >= k PROVE Agrees(L, N, s, Queue(M, s, b, m))
  <2>1. ASSUME NEW j \in DOMAIN Queue(M, s, b, m) PROVE FALSE
    <3>1. j \in 1 .. b /\ j \in 1 .. Len(M) /\ M[j].is_sell = s /\ Left(M, j, m) > 0
      BY QueueIs
    <3>2. Ordered(M, s, j) > m
      BY <3>1, LeftIs
    <3>3. j \in 0 .. Len(M) /\ j <= b
      BY <3>1
    <3>4. Ordered(M, s, j) <= Ordered(M, s, b) /\ Ordered(M, s, j) \in Nat /\ Ordered(M, s, b) \in Nat
      BY <3>3, OrderedGrows, OrderedIs
    <3> QED
      BY <1>3, <1>4, <3>2, <3>4
  <2> QED
    BY <1>1, <2>1 DEF Agrees
<1> QED
  BY <1>2, <1>3, <1>4

\* A trade fills an order of the side that handles it.
LEMMA FillTradeAccount ==
  ASSUME OnePrice, IInv, HandlerInv, PassedInv, NEW M \in Seq(StreamMessage), NEW V, NEW a, NEW c,
         BookAccount(M, V, a, c), Fill, act.kind = "TRADE", UNCHANGED <<order_stream, trade_stream>>,
         V \in Nat, Traded(trade_stream) \in Int
  PROVE  \E c2 : BookAccount(M, V, a, c2)'
<1>1. /\ \A s \in BOOLEAN : Removes(s)' = Removes(s) /\ Adds(s)' = Adds(s)
      /\ \A s \in BOOLEAN : s # side => ToTake(s)' = ToTake(s)
      /\ FillQty \in Nat /\ ToTake(side)' = ToTake(side) - FillQty /\ FillQty <= ToTake(side)
      /\ Removes(side) = 0 /\ pc = "fill" /\ pc' = "fill" /\ act'.kind = "TRADE" /\ side' = side
  BY FillPends
<1>2. PICK u \in BOOLEAN : u = side
  BY PendingNat
<1>3. PICK qty \in Nat : qty = FillQty
  BY <1>1
<1>4. ~Adding /\ ~Adding' /\ InBook(a) = a /\ InBook(a)' = a
  BY <1>1 DEF Adding, InBook
<1>5. ToCome(M, a)' /\ HandlesLast(M, a)'
  BY <1>4 DEF BookAccount, ToCome, HandlesLast
<1>6. ASSUME NEW s \in BOOLEAN
      PROVE  /\ c[s] \in Nat /\ Agrees(levels[s], order_map[s], s, Queue(M, s, a, c[s]))
             /\ Adds(s) = Minus(c[s], Ordered(M, s, a))
             /\ Removes(s) > 0 => \A t \in BOOLEAN : c[s] <= Ordered(M, t, a)
             /\ c[s] + ToTake(s) + Traded(trade_stream) = V + Removes(s)
             /\ ToTake(s) \in Nat /\ Ordered(M, s, a) \in Nat /\ a \in 0 .. Len(M)
  <2>1. ToTake(s) \in Nat /\ Ordered(M, s, a) \in Nat /\ a \in 0 .. Len(M)
    BY AccountIs
  <2> QED
    BY <1>1, <1>4, <2>1 DEF BookAccount, GivenAway
<1>7. PICK k \in Nat : k = c[u]
  BY <1>6
<1> DEFINE c2 == [s \in BOOLEAN |-> IF s = u THEN k + qty ELSE c[s]]
<1>8. c2[u] = k + qty /\ \A s \in BOOLEAN : s # u => c2[s] = c[s]
  OBVIOUS
<1> HIDE DEF c2
<1>9. /\ Agrees(levels'[u], order_map'[u], u, Queue(M, u, a, k + qty))
      /\ k + qty <= Ordered(M, u, a)
  <2>1. Agrees(levels[side], order_map[side], side, Queue(M, side, a, k)) /\ a \in 0 .. Len(M)
    BY <1>2, <1>6, <1>7
  <2>2. /\ Agrees(levels'[side], order_map'[side], side, Queue(M, side, a, k + FillQty))
        /\ k + FillQty <= Ordered(M, side, a)
    BY <2>1, FillFirst
  <2> QED
    BY <1>2, <1>3, <2>2
<1>10. GivenAway(M, a, c2, u)' /\ c2[u] + ToTake(u)' + Traded(trade_stream') = V + Removes(u)'
  <2>1. PICK o \in Nat, x \in Nat, y \in Int :
          o = Ordered(M, u, a) /\ x = ToTake(u) /\ y = Traded(trade_stream)
    BY <1>6
  <2>2. k + qty <= o /\ qty <= x /\ k + x + y = V + 0
    BY <1>1, <1>2, <1>3, <1>6, <1>7, <1>9, <2>1
  <2>3. Minus(k, o) = Minus(k + qty, o) /\ (k + qty) + (x - qty) + y = V + 0 /\ k + qty \in Nat
    BY ONLY <2>2, k \in Nat, qty \in Nat, o \in Nat, x \in Nat, y \in Int, V \in Nat DEF Minus
  <2>4. Adds(u)' = Minus(c2[u], Ordered(M, u, a))
    BY <1>1, <1>6, <1>7, <1>8, <2>1, <2>3
  <2>5. c2[u] + ToTake(u)' + Traded(trade_stream') = V + Removes(u)'
    <3>1. ToTake(u)' = x - qty
      BY <1>1, <1>2, <1>3, <2>1 DEF ToTake
    <3>2. Removes(u)' = 0 /\ Traded(trade_stream') = y
      BY <1>1, <1>2, <2>1
    <3> QED
      BY <1>8, <2>3, <3>1, <3>2
  <2>6. Agrees(levels'[u], order_map'[u], u, Queue(M, u, InBook(a)', c2[u]))
    BY <1>4, <1>8, <1>9
  <2>7. ~(Removes(u)' > 0)
    BY <1>1, <1>2
  <2> QED
    BY <1>1, <1>4, <1>8, <2>3, <2>4, <2>5, <2>6, <2>7 DEF GivenAway
<1>11. ASSUME NEW s \in BOOLEAN, s # u
       PROVE  GivenAway(M, a, c2, s)' /\ c2[s] + ToTake(s)' + Traded(trade_stream') = V + Removes(s)'
  <2>1. levels'[s] = levels[s] /\ order_map'[s] = order_map[s]
    BY <1>2, <1>11, FillTakes
  <2>2. Agrees(levels'[s], order_map'[s], s, Queue(M, s, InBook(a)', c2[s]))
    BY <1>4, <1>6, <1>8, <1>11, <2>1
  <2>3. Adds(s)' = Minus(c2[s], Ordered(M, s, a)) /\ c2[s] \in Nat
    BY <1>1, <1>6, <1>8, <1>11
  <2>4. Removes(s)' > 0 => \A t \in BOOLEAN : c2[s] <= Ordered(M, t, a)
    BY <1>1, <1>6, <1>8, <1>11
  <2>5. c2[s] + ToTake(s)' + Traded(trade_stream') = V + Removes(s)'
    BY <1>1, <1>2, <1>6, <1>8, <1>11
  <2> QED
    BY <1>1, <1>4, <2>2, <2>3, <2>4, <2>5 DEF GivenAway
<1>12. a \in 0 .. Len(M)
  BY DEF BookAccount
<1>13. BookAccount(M, V, a, c2)'
  BY <1>5, <1>10, <1>11, <1>12 DEF BookAccount
<1> QED
  BY <1>13

\* An order fills one of the other side: both sides give away what it takes.
LEMMA FillOrderAccount ==
  ASSUME OnePrice, IInv, Uncrossed, HandlerInv, PendingInv, PassedInv,
         NEW M \in Seq(StreamMessage), NEW V, NEW a, NEW c,
         BookAccount(M, V, a, c), Fill, act.kind # "TRADE", UNCHANGED <<order_stream, trade_stream>>,
         V \in Nat, Traded(trade_stream) \in Int
  PROVE  \E c2 : BookAccount(M, V, a, c2)'
<1>1. /\ \A s \in BOOLEAN : /\ Removes(s)' = Removes(s) + FillQty /\ Adds(s)' = Adds(s)
                            /\ ToTake(s) = 0 /\ ToTake(s)' = 0
      /\ FillQty \in Nat /\ pc = "fill" /\ pc' = "fill"
      /\ act'.kind = act.kind /\ act'.odid = act.odid /\ act'.is_sell = act.is_sell
      /\ act'.quantity = act.quantity
  BY FillPends
<1>2. act.kind = "ADD" /\ side = ~act.is_sell /\ Remaining(act) > 0
  BY <1>1 DEF HandlerInv, IInv, ActInv, Fill
<1>3. PICK qty \in Nat : qty = FillQty
  BY <1>1
<1>4. PICK u \in BOOLEAN : u = act.is_sell
  BY PendingNat
<1>5. PICK e \in BOOLEAN : e = side
  BY PendingNat
<1>6. e # u /\ \A s \in BOOLEAN : s = e \/ s = u
  BY <1>2, <1>4, <1>5
<1>7. PICK b : b = a - 1
  OBVIOUS
<1>8. Adding /\ Adding' /\ InBook(a) = b /\ InBook(a)' = b
  BY <1>1, <1>2, <1>7 DEF Adding, InBook
<1>9. ToCome(M, a)' /\ HandlesLast(M, a)' /\ M[a].is_sell = u /\ a > 0
  BY <1>1, <1>4, <1>8 DEF BookAccount, ToCome, HandlesLast
<1>10. ASSUME NEW s \in BOOLEAN
       PROVE  /\ c[s] \in Nat /\ Agrees(levels[s], order_map[s], s, Queue(M, s, b, c[s]))
              /\ SideOK(levels[s], order_map[s])
              /\ Adds(s) = Minus(c[s], Ordered(M, s, a))
              /\ s = u => Remaining(act) = Left(M, a, c[s])
              /\ c[s] + 0 + Traded(trade_stream) = V + Removes(s)
              /\ Removes(s) \in Nat /\ Ordered(M, s, a) \in Nat /\ Ordered(M, s, b) \in Nat
              /\ Ordered(M, s, b) <= Ordered(M, s, a)
  <2>1. /\ Removes(s) \in Nat /\ Ordered(M, s, a) \in Nat /\ Ordered(M, s, b) \in Nat
        /\ SideOK(levels[s], order_map[s])
        /\ a \in 0 .. Len(M) /\ b \in 0 .. Len(M) /\ b <= a
    BY <1>8, AccountIs
  <2>2. Ordered(M, s, b) <= Ordered(M, s, a)
    BY <2>1, OrderedGrows
  <2> QED
    BY <1>1, <1>4, <1>8, <2>1, <2>2 DEF BookAccount, GivenAway
<1>11. a \in 1 .. Len(M) /\ b \in 0 .. Len(M)
  BY <1>4, <1>7, <1>8, <1>9, AccountIs
\* Both sides have given away the same.
<1>12. PICK k \in Nat : k = c[u]
  BY <1>10
<1>13. c[e] = k
  <2>1. Removes(FALSE) = Removes(TRUE)
    BY <1>1, SidesSame
  <2>2. Removes(e) = Removes(u)
    BY <2>1
  <2>3. PICK x \in Nat, y \in Int, r \in Nat : x = c[e] /\ y = Traded(trade_stream) /\ r = Removes(u)
    BY <1>10
  <2>4. x + 0 + y = V + r /\ k + 0 + y = V + r
    BY <1>10, <1>12, <2>2, <2>3
  <2>5. x = k
    BY ONLY <2>4, x \in Nat, y \in Int, r \in Nat, k \in Nat, V \in Nat
  <2> QED
    BY <2>3, <2>5
\* The side of the order is empty.
<1>14. DOMAIN levels[u] = {}
  <2>1. cur \in DOMAIN levels[e] /\ \A s \in BOOLEAN : DOMAIN levels[s] \subseteq Price
    BY <1>5, FillTakes DEF IInv, TypeOK, IsMap
  <2>2. ASSUME NEW p \in DOMAIN levels[u] PROVE FALSE
    <3>1. p = cur /\ p \in Int
      BY <2>1, LevelAssumption DEF OnePrice
    <3>2. CASE u = TRUE
      <4>1. e = FALSE
        BY <1>6, <3>2
      <4>2. cur < p
        BY <2>1, <3>2, <4>1 DEF Uncrossed
      <4> QED
        BY <3>1, <4>2
    <3>3. CASE u = FALSE
      <4>1. e = TRUE
        BY <1>6, <3>3
      <4>2. p < cur
        BY <2>1, <3>3, <4>1 DEF Uncrossed
      <4> QED
        BY <3>1, <4>2
    <3> QED
      BY <3>2, <3>3
  <2> QED
    BY <2>2
<1>15. /\ Ordered(M, u, b) <= k
       /\ \A m \in Nat : m >= k => Agrees(levels[u], order_map[u], u, Queue(M, u, b, m))
  BY <1>10, <1>11, <1>12, <1>14, EmptySide
<1>16. Left(M, a, k) = Remaining(act) /\ Left(M, a, k) > 0 /\ qty <= Left(M, a, k)
  BY <1>2, <1>3, <1>10, <1>12, FillTakes
<1>17. /\ Left(M, a, k + qty) = Left(M, a, k) - qty
       /\ k + qty <= Ordered(M, u, a)
  <2>1. ASSUME NEW j \in 1 .. a - 1, M[j].is_sell = M[a].is_sell
        PROVE  Left(M, j, k) = 0
    <3>1. j \in 1 .. Len(M) /\ j \in 0 .. Len(M) /\ j <= b
      BY <1>7, <1>11
    <3>2. Ordered(M, u, j) <= Ordered(M, u, b) /\ Ordered(M, u, j) \in Nat
      BY <1>11, <3>1, OrderedGrows, OrderedIs
    <3>3. ~(Ordered(M, u, j) > k)
      BY <1>10, <1>15, <3>2
    <3>4. Left(M, j, k) \in Nat /\ (Left(M, j, k) > 0 <=> Ordered(M, M[j].is_sell, j) > k)
      BY <3>1, LeftIs
    <3> QED
      BY <1>9, <2>1, <3>3, <3>4
  <2>2. /\ Left(M, a, k + qty) = Left(M, a, k) - qty
        /\ k + qty <= Ordered(M, M[a].is_sell, a)
    BY <1>11, <1>16, <2>1, GiveAway
  <2> QED
    BY <1>9, <2>2
<1>18. /\ Agrees(levels'[e], order_map'[e], e, Queue(M, e, b, k + qty))
       /\ k + qty <= Ordered(M, e, b)
  <2>1. Agrees(levels[side], order_map[side], side, Queue(M, side, b, k))
    BY <1>5, <1>10, <1>13
  <2>2. /\ Agrees(levels'[side], order_map'[side], side, Queue(M, side, b, k + FillQty))
        /\ k + FillQty <= Ordered(M, side, b)
    BY <1>11, <2>1, FillFirst
  <2> QED
    BY <1>3, <1>5, <2>2
<1>19. Agrees(levels'[u], order_map'[u], u, Queue(M, u, b, k + qty))
  <2>1. levels'[u] = levels[u] /\ order_map'[u] = order_map[u]
    BY <1>5, <1>6, FillTakes
  <2>2. k + qty \in Nat /\ k + qty >= k
    OBVIOUS
  <2> QED
    BY <1>15, <2>1, <2>2
<1>20. ASSUME NEW s \in BOOLEAN
       PROVE  c[s] = k /\ k + qty <= Ordered(M, s, a)
  <2>1. CASE s = u
    BY <1>12, <1>17, <2>1
  <2>2. CASE s = e
    <3>1. PICK x \in Nat, y \in Nat : x = Ordered(M, e, b) /\ y = Ordered(M, e, a)
      BY <1>10
    <3>2. k + qty <= x /\ x <= y
      BY <1>10, <1>18, <3>1
    <3> QED
      BY <1>13, <2>2, <3>1, <3>2
  <2> QED
    BY <1>6, <2>1, <2>2
<1>21. PICK w \in Nat : w = k + qty
  OBVIOUS
<1> DEFINE c2 == [s \in BOOLEAN |-> w]
<1>22. \A s \in BOOLEAN : c2[s] = w
  OBVIOUS
<1> HIDE DEF c2
<1>23. ASSUME NEW s \in BOOLEAN
       PROVE  GivenAway(M, a, c2, s)' /\ c2[s] + ToTake(s)' + Traded(trade_stream') = V + Removes(s)'
  <2>1. Agrees(levels'[s], order_map'[s], s, Queue(M, s, InBook(a)', c2[s]))
    BY <1>6, <1>8, <1>18, <1>19, <1>21, <1>22
  <2>2. \A t \in BOOLEAN : c2[s] <= Ordered(M, t, a)
    BY <1>20, <1>21, <1>22
  <2>3. Adds(s)' = Minus(c2[s], Ordered(M, s, a))
    <3>1. PICK o \in Nat : o = Ordered(M, s, a)
      BY <1>10
    <3>2. w <= o
      BY <1>20, <1>21, <3>1
    <3>3. Minus(k, o) = Minus(w, o)
      BY ONLY <1>21, <3>2, k \in Nat, o \in Nat, w \in Nat, qty \in Nat DEF Minus
    <3> QED
      BY <1>1, <1>10, <1>20, <1>22, <3>1, <3>3
  <2>4. c2[s] + ToTake(s)' + Traded(trade_stream') = V + Removes(s)'
    <3>1. PICK y \in Int, r \in Nat : y = Traded(trade_stream) /\ r = Removes(s)
      BY <1>10
    <3>2. k + 0 + y = V + r
      BY <1>10, <1>20, <3>1
    <3>3. w + 0 + y = V + (r + qty)
      BY ONLY <1>21, <3>2, k \in Nat, y \in Int, r \in Nat, qty \in Nat, V \in Nat
    <3>4. Removes(s)' = r + qty /\ ToTake(s)' = 0 /\ Traded(trade_stream') = y
      BY <1>1, <1>3, <3>1
    <3> QED
      BY <1>22, <3>3, <3>4
  <2>5. s = act'.is_sell => Remaining(act') = Left(M, a, c2[s])
    <3>1. Remaining(act') = Remaining(act) - qty
      BY <1>3, FillTakes
    <3> QED
      BY <1>16, <1>17, <1>21, <1>22, <3>1
  <2>6. c2[s] \in Nat
    BY <1>22
  <2> QED
    BY <1>1, <2>1, <2>2, <2>3, <2>4, <2>5, <2>6 DEF GivenAway
<1>24. a \in 0 .. Len(M)
  BY DEF BookAccount
<1>25. BookAccount(M, V, a, c2)'
  BY <1>9, <1>23, <1>24 DEF BookAccount
<1> QED
  BY <1>25

\* What is left of the order comes to rest, behind the orders of its side.
LEMMA RestAccount ==
  ASSUME OnePrice, IInv, FreshIds, HandlerInv, NEW M \in Seq(StreamMessage), NEW V, NEW a, NEW c,
         BookAccount(M, V, a, c), RestOrder, UNCHANGED <<order_stream, trade_stream>>
  PROVE  BookAccount(M, V, a, c)'
<1> DEFINE o == [quantity |-> act.quantity, price |-> act.price,
                 filled_quantity |-> act.filled_quantity]
<1>1. /\ pc = "uncross" /\ pc' = "done" /\ act' = act
      /\ UNCHANGED <<pending_liq_remove_qty, pending_liq_add_qty>>
      /\ IF Remaining(act) = 0 THEN UNCHANGED <<levels, order_map>>
         ELSE addOrder(act.is_sell, act.odid, o)
  BY DEF RestOrder
<1>2. act.kind = "ADD" /\ act \in Action /\ Remaining(act) \in Nat
  <2>1. act.kind = "ADD"
    BY <1>1 DEF IInv, ActInv, HandlerInv
  <2> QED
    BY <2>1, PendingNat
<1>3. PICK u \in BOOLEAN : u = act.is_sell
  BY PendingNat
<1>4. Adding /\ ~Adding' /\ InBook(a) = a - 1 /\ InBook(a)' = a
  BY <1>1, <1>2 DEF Adding, InBook
<1>5. /\ a > 0 /\ act.odid = M[a].odid /\ M[a].is_sell = u /\ act.quantity = M[a].quantity
      /\ ToCome(M, a)' /\ HandlesLast(M, a)'
  BY <1>3, <1>4 DEF BookAccount, ToCome, HandlesLast
<1>6. a \in 1 .. Len(M)
  BY <1>3, <1>5, AccountIs
<1>7. \A s \in BOOLEAN : Removes(s)' = Removes(s) /\ Adds(s)' = Adds(s) /\ ToTake(s)' = ToTake(s)
  BY <1>1, <1>2 DEF Removes, Adds, ToTake
<1>8. ASSUME NEW s \in BOOLEAN
      PROVE  /\ c[s] \in Nat /\ Agrees(levels[s], order_map[s], s, Queue(M, s, a - 1, c[s]))
             /\ SideOK(levels[s], order_map[s])
             /\ Adds(s) = Minus(c[s], Ordered(M, s, a))
             /\ Removes(s) > 0 => \A t \in BOOLEAN : c[s] <= Ordered(M, t, a)
             /\ s = u => Remaining(act) = Left(M, a, c[s])
             /\ c[s] + ToTake(s) + Traded(trade_stream) = V + Removes(s)
  <2>1. SideOK(levels[s], order_map[s])
    BY AccountIs
  <2> QED
    BY <1>1, <1>3, <1>4, <2>1 DEF BookAccount, GivenAway
<1>9. ASSUME NEW s \in BOOLEAN, s # u \/ Remaining(act) = 0
      PROVE  Agrees(levels'[s], order_map'[s], s, Queue(M, s, a, c[s]))
  <2>1. M[a].is_sell # s \/ Left(M, a, c[s]) = 0
    BY <1>5, <1>8, <1>9
  <2>2. Queue(M, s, a, c[s]) = Queue(M, s, a - 1, c[s])
    BY <1>6, <1>8, <2>1, QueueNext
  <2>3. levels'[s] = levels[s] /\ order_map'[s] = order_map[s]
    BY <1>1, <1>3, <1>9 DEF addOrder, IInv, TypeOK
  <2> QED
    BY <1>8, <2>2, <2>3
<1>10. ASSUME Remaining(act) # 0
       PROVE  Agrees(levels'[u], order_map'[u], u, Queue(M, u, a, c[u]))
  <2> DEFINE t == OrderLeft(M, a, c[u])
             Q == Queue(M, u, a - 1, c[u])
             R == Queue(M, u, a, c[u])
  <2>1. /\ DOMAIN order_map = BOOLEAN /\ DOMAIN levels = BOOLEAN
        /\ act.odid \notin DOMAIN order_map[u]
    BY <1>1, <1>2 DEF FreshIds, IInv, TypeOK
  <2>2. /\ levels'[u] = LevelsAdd(levels[u], act.odid, o)
        /\ order_map'[u] = Put(order_map[u], act.odid, o)
    BY <1>1, <1>3, <1>10, <2>1 DEF addOrder, existOrder
  <2>3. Left(M, a, c[u]) = Remaining(act) /\ Left(M, a, c[u]) > 0
    BY <1>2, <1>8, <1>10
  <2>4. /\ DOMAIN R = DOMAIN Q \cup {a} /\ R[a] = t
        /\ \A k \in DOMAIN Q : R[k] = Q[k] /\ k < a
    <3>1. PICK k \in Nat : k = c[u]
      BY <1>8
    <3>2. LET X == Queue(M, u, a - 1, k)
              Y == Queue(M, u, a, k)
          IN  /\ M[a].is_sell # u \/ Left(M, a, k) = 0 => Y = X
              /\ M[a].is_sell = u /\ Left(M, a, k) > 0 =>
                   /\ DOMAIN Y = DOMAIN X \cup {a} /\ Y[a] = OrderLeft(M, a, k)
                   /\ \A j \in DOMAIN X : Y[j] = X[j] /\ j < a
      BY <1>6, QueueNext
    <3> QED
      BY <1>5, <2>3, <3>1, <3>2
  <2>5. DOMAIN Q \subseteq Int /\ a \in Int
    <3>1. a - 1 \in 0 .. Len(M) /\ c[u] \in Nat
      BY <1>6, <1>8
    <3> QED
      BY <1>6, <3>1, QueueIs
  <2>6. M[a] \in StreamMessage /\ MaxQty \in Nat
    BY <1>6, LevelAssumption
  <2>7. /\ t \in ExchangeOrder /\ t.is_sell = u /\ t.odid = act.odid /\ t.price \in Price
        /\ t.quantity = Remaining(act)
    <3>1. M[a].odid \in OrderId /\ M[a].is_sell \in BOOLEAN /\ M[a].price \in Price
          /\ M[a].quantity \in 1 .. MaxQty
      BY <2>6 DEF StreamMessage
    <3>2. Left(M, a, c[u]) <= M[a].quantity /\ Left(M, a, c[u]) \in Nat
      BY <1>6, <1>8, LeftIs
    <3>3. Left(M, a, c[u]) \in 1 .. MaxQty
      BY <2>3, <2>6, <3>1, <3>2
    <3> QED
      BY <1>5, <2>3, <3>1, <3>3 DEF OrderLeft, ExchangeOrder
  <2>8. o \in Order /\ o.price = act.price /\ Remaining(o) = Remaining(act)
    BY <1>2 DEF Order, Action, Remaining
  <2>9. o.price = t.price
    BY <2>7, <2>8, PendingNat DEF OnePrice
  <2>10. Agrees(levels[u], order_map[u], u, Q) /\ SideOK(levels[u], order_map[u])
    BY <1>8
  <2> HIDE DEF o, t, Q, R
  <2>11. Agrees(LevelsAdd(levels[u], t.odid, o), Put(order_map[u], t.odid, o), u, R)
    BY <2>1, <2>4, <2>5, <2>7, <2>8, <2>9, <2>10, AgreesNew
  <2> QED
    BY <2>2, <2>7, <2>11 DEF R
<1>11. ASSUME NEW s \in BOOLEAN
       PROVE  GivenAway(M, a, c, s)' /\ c[s] + ToTake(s)' + Traded(trade_stream') = V + Removes(s)'
  <2>1. Agrees(levels'[s], order_map'[s], s, Queue(M, s, InBook(a)', c[s]))
    BY <1>4, <1>9, <1>10
  <2>2. Adds(s)' = Minus(c[s], Ordered(M, s, a))
    BY <1>7, <1>8
  <2>3. Removes(s)' > 0 => \A t \in BOOLEAN : c[s] <= Ordered(M, t, a)
    BY <1>7, <1>8
  <2> QED
    BY <1>1, <1>4, <1>7, <1>8, <2>1, <2>2, <2>3 DEF GivenAway
<1>12. a \in 0 .. Len(M)
  BY DEF BookAccount
<1> QED
  BY <1>5, <1>11, <1>12 DEF BookAccount

\* A side takes what it expected of the trade.
LEMMA TradeMatchAccount ==
  ASSUME OnePrice, IInv, HandlerInv, PendingInv, NEW M \in Seq(StreamMessage), NEW V \in Nat,
         NEW a, NEW c, BookAccount(M, V, a, c), TradeMatch, UNCHANGED <<order_stream, trade_stream>>,
         Traded(trade_stream) \in Int
  PROVE  BookAccount(M, V, a, c)'
<1>1. PICK m \in Nat :
        /\ m <= Removes(side) /\ m <= ToTake(side)
        /\ Removes(side)' = Removes(side) - m /\ ToTake(side)' = ToTake(side) - m
        /\ \A s \in BOOLEAN : s # side => Removes(s)' = Removes(s) /\ ToTake(s)' = ToTake(s)
        /\ side' = side /\ pc' = "sweep" /\ act.kind = "TRADE" /\ act'.kind = "TRADE"
  BY TradeMatchTakes
<1>2. pc = "trade" /\ UNCHANGED <<levels, order_map, pending_liq_add_qty>>
  BY DEF TradeMatch
<1>3. PICK u \in BOOLEAN : u = side
  BY PendingNat
<1>4. ~Adding /\ ~Adding' /\ InBook(a) = a /\ InBook(a)' = a
  BY <1>1 DEF Adding, InBook
<1>5. ToCome(M, a)' /\ HandlesLast(M, a)'
  BY <1>4 DEF BookAccount, ToCome, HandlesLast
<1>6. \A s \in BOOLEAN : Adds(s)' = Adds(s)
  BY <1>2 DEF Adds
<1>7. /\ Removes(u)' = Removes(u) - m /\ ToTake(u)' = ToTake(u) - m
  BY <1>1, <1>3 DEF Removes, ToTake
<1>8. ASSUME NEW s \in BOOLEAN
      PROVE  GivenAway(M, a, c, s)' /\ c[s] + ToTake(s)' + Traded(trade_stream') = V + Removes(s)'
  <2>1. PICK r \in Nat, x \in Nat, y \in Int, k \in Nat :
          r = Removes(s) /\ x = ToTake(s) /\ y = Traded(trade_stream) /\ k = c[s]
    BY AccountIs
  <2>2. /\ Agrees(levels[s], order_map[s], s, Queue(M, s, a, c[s]))
        /\ Adds(s) = Minus(c[s], Ordered(M, s, a))
        /\ r > 0 => \A t \in BOOLEAN : c[s] <= Ordered(M, t, a)
        /\ k + x + y = V + r
    BY <1>2, <1>4, <2>1 DEF BookAccount, GivenAway
  <2>3. PICK d \in Nat : d = (IF s = u THEN m ELSE 0)
    OBVIOUS
  <2>4. Removes(s)' = r - d /\ ToTake(s)' = x - d
    <3>1. CASE s = u
      BY <1>7, <2>1, <2>3, <3>1
    <3>2. CASE s # u
      <4>1. Removes(s)' = r /\ ToTake(s)' = x /\ d = 0
        BY <1>1, <1>3, <2>1, <2>3, <3>2
      <4> QED
        BY <4>1
    <3> QED
      BY <3>1, <3>2
  <2>5. k + (x - d) + y = V + (r - d) /\ (r - d > 0 => r > 0)
    BY ONLY <2>2, k \in Nat, x \in Nat, y \in Int, V \in Nat, r \in Nat, d \in Nat
  <2>6. c[s] + ToTake(s)' + Traded(trade_stream') = V + Removes(s)'
    BY <2>1, <2>4, <2>5
  <2>7. Removes(s)' > 0 => \A t \in BOOLEAN : c[s] <= Ordered(M, t, a)
    BY <2>2, <2>4, <2>5
  <2>8. Agrees(levels'[s], order_map'[s], s, Queue(M, s, InBook(a)', c[s]))
    BY <1>2, <1>4, <2>2
  <2>9. Adds(s)' = Minus(c[s], Ordered(M, s, a)) /\ c[s] \in Nat
    BY <1>6, <2>1, <2>2
  <2> QED
    BY <1>1, <1>4, <2>6, <2>7, <2>8, <2>9 DEF GivenAway
<1>9. a \in 0 .. Len(M)
  BY DEF BookAccount
<1> QED
  BY <1>5, <1>8, <1>9 DEF BookAccount

\* What the book cannot supply of a trade was given away by orders to come.
LEMMA TradeRestAccount ==
  ASSUME OnePrice, IInv, HandlerInv, PendingInv, NEW M \in Seq(StreamMessage), NEW V \in Nat,
         NEW a, NEW c, BookAccount(M, V, a, c), TradeRest, UNCHANGED <<order_stream, trade_stream>>,
         Traded(trade_stream) \in Int
  PROVE  \E c2 : BookAccount(M, V, a, c2)'
<1>1. /\ ToTake(side) = Remaining(act)
      /\ Remaining(act) > 0 => Removes(side) = 0
      /\ \A s \in BOOLEAN :
           /\ Removes(s)' = Removes(s)
           /\ Adds(s)' = IF s = side THEN Adds(s) + ToTake(s) ELSE Adds(s)
           /\ ToTake(s)' = IF s = side THEN 0 ELSE ToTake(s)
      /\ act.kind = "TRADE" /\ act'.kind = "TRADE" /\ pc = "tradeRest"
      /\ pc' \in {"done", "trade"}
      /\ UNCHANGED <<levels, order_map>>
  BY TradeRestGuesses
<1>2. PICK u \in BOOLEAN : u = side
  BY PendingNat
<1>3. ~Adding /\ ~Adding' /\ InBook(a) = a /\ InBook(a)' = a
  BY <1>1 DEF Adding, InBook
<1>4. ToCome(M, a)' /\ HandlesLast(M, a)' /\ a \in 0 .. Len(M)
  BY <1>3 DEF BookAccount, ToCome, HandlesLast
<1>5. ASSUME NEW s \in BOOLEAN
      PROVE  /\ c[s] \in Nat /\ Agrees(levels[s], order_map[s], s, Queue(M, s, a, c[s]))
             /\ SideOK(levels[s], order_map[s])
             /\ Adds(s) = Minus(c[s], Ordered(M, s, a))
             /\ Removes(s) > 0 => \A t \in BOOLEAN : c[s] <= Ordered(M, t, a)
             /\ c[s] + ToTake(s) + Traded(trade_stream) = V + Removes(s)
             /\ ToTake(s) \in Nat /\ Ordered(M, s, a) \in Nat /\ Removes(s) \in Nat
  <2>1. /\ ToTake(s) \in Nat /\ Ordered(M, s, a) \in Nat /\ Removes(s) \in Nat
        /\ SideOK(levels[s], order_map[s])
    BY AccountIs
  <2> QED
    BY <1>1, <1>3, <2>1 DEF BookAccount, GivenAway
<1>6. PICK k \in Nat, x \in Nat, o \in Nat : k = c[u] /\ x = ToTake(u) /\ o = Ordered(M, u, a)
  BY <1>5
<1>7. PICK w \in Nat : w = k + x
  OBVIOUS
<1> DEFINE c2 == [s \in BOOLEAN |-> IF s = u THEN w ELSE c[s]]
<1>8. c2[u] = w /\ \A s \in BOOLEAN : s # u => c2[s] = c[s]
  OBVIOUS
<1> HIDE DEF c2
\* If anything is left of the trade, the side is empty.
<1>9. x > 0 => DOMAIN levels[u] = {}
  <2> SUFFICES ASSUME x > 0, NEW p \in DOMAIN levels[u] PROVE FALSE
    OBVIOUS
  <2>1. Before(side, act.price, p)
    BY <1>1, <1>2, <1>6 DEF IInv, GuessOnlyWhenExhausted
  <2>2. p \in Price /\ act.price \in Price
    BY PendingNat DEF IInv, TypeOK, IsMap
  <2>3. p = act.price /\ p \in Int
    BY <2>2, LevelAssumption DEF OnePrice
  <2> QED
    BY <2>1, <2>3 DEF Before
<1>10. /\ Agrees(levels[u], order_map[u], u, Queue(M, u, a, w))
       /\ x > 0 => o <= k
  <2>1. CASE x = 0
    <3>1. w = k /\ ~(x > 0)
      BY <1>7, <2>1
    <3> QED
      BY <1>5, <1>6, <3>1
  <2>2. CASE x > 0
    <3>1. w >= k
      BY <1>7
    <3>2. Agrees(levels[u], order_map[u], u, Queue(M, u, a, k)) /\ SideOK(levels[u], order_map[u])
      BY <1>5, <1>6
    <3>3. /\ Ordered(M, u, a) <= k
          /\ \A m \in Nat : m >= k => Agrees(levels[u], order_map[u], u, Queue(M, u, a, m))
      BY <1>4, <1>9, <2>2, <3>2, EmptySide
    <3> QED
      BY <1>6, <3>1, <3>3
  <2> QED
    BY <2>1, <2>2
<1>11. GivenAway(M, a, c2, u)' /\ c2[u] + ToTake(u)' + Traded(trade_stream') = V + Removes(u)'
  <2>1. PICK y \in Int, r \in Nat : y = Traded(trade_stream) /\ r = Removes(u)
    BY <1>5
  <2>2. k + x + y = V + r /\ (x > 0 => r = 0)
    BY <1>1, <1>2, <1>5, <1>6, <2>1
  <2>3. Minus(k, o) + x = Minus(w, o) /\ w + 0 + y = V + r
    BY ONLY <1>7, <1>10, <2>2, k \in Nat, x \in Nat, o \in Nat, w \in Nat, y \in Int, r \in Nat, V \in Nat
       DEF Minus
  <2>4. Adds(u)' = Minus(c2[u], Ordered(M, u, a))
    <3>1. Adds(u)' = Adds(u) + ToTake(u)
      BY <1>1, <1>2
    <3>2. Adds(u) = Minus(k, o)
      BY <1>5, <1>6
    <3> QED
      BY <1>6, <1>8, <2>3, <3>1, <3>2
  <2>5. c2[u] + ToTake(u)' + Traded(trade_stream') = V + Removes(u)'
    BY <1>1, <1>2, <1>8, <2>1, <2>3
  <2>6. Removes(u)' > 0 => \A t \in BOOLEAN : c2[u] <= Ordered(M, t, a)
    <3> SUFFICES ASSUME Removes(u)' > 0 PROVE \A t \in BOOLEAN : c2[u] <= Ordered(M, t, a)
      OBVIOUS
    <3>1. r > 0
      BY <1>1, <2>1
    <3>2. w = k
      BY ONLY <1>7, <2>2, <3>1, x \in Nat, k \in Nat, r \in Nat
    <3>3. Removes(u) > 0
      BY <2>1, <3>1
    <3> QED
      BY <1>5, <1>6, <1>8, <3>2, <3>3
  <2>7. Agrees(levels'[u], order_map'[u], u, Queue(M, u, InBook(a)', c2[u]))
    BY <1>1, <1>3, <1>8, <1>10
  <2>8. c2[u] \in Nat
    BY <1>8
  <2> QED
    BY <1>1, <1>3, <2>4, <2>5, <2>6, <2>7, <2>8 DEF GivenAway
<1>12. ASSUME NEW s \in BOOLEAN, s # u
       PROVE  GivenAway(M, a, c2, s)' /\ c2[s] + ToTake(s)' + Traded(trade_stream') = V + Removes(s)'
  <2>1. Agrees(levels'[s], order_map'[s], s, Queue(M, s, InBook(a)', c2[s]))
    BY <1>1, <1>3, <1>5, <1>8, <1>12
  <2>2. Adds(s)' = Minus(c2[s], Ordered(M, s, a)) /\ c2[s] \in Nat
    BY <1>1, <1>2, <1>5, <1>8, <1>12
  <2>3. Removes(s)' > 0 => \A t \in BOOLEAN : c2[s] <= Ordered(M, t, a)
    BY <1>1, <1>5, <1>8, <1>12
  <2>4. c2[s] + ToTake(s)' + Traded(trade_stream') = V + Removes(s)'
    BY <1>1, <1>2, <1>5, <1>8, <1>12
  <2> QED
    BY <1>1, <1>3, <2>1, <2>2, <2>3, <2>4 DEF GivenAway
<1>13. BookAccount(M, V, a, c2)'
  BY <1>4, <1>11, <1>12 DEF BookAccount
<1> QED
  BY <1>13

\* Every step of a handler keeps the account.
LEMMA HandlerAccount ==
  ASSUME OnePrice, IInv, Uncrossed, FreshIds, SpentInv, PassedInv, HandlerInv, PendingInv,
         NEW M \in Seq(StreamMessage), NEW V \in Nat, NEW a, NEW c, BookAccount(M, V, a, c),
         HandlerStep, UNCHANGED <<order_stream, trade_stream>>, Traded(trade_stream) \in Int
  PROVE  \E c2 : BookAccount(M, V, a, c2)'
<1>1. ASSUME NEW s \in BOOLEAN
      PROVE  /\ Agrees(levels[s], order_map[s], s, Queue(M, s, InBook(a), c[s]))
             /\ InBook(a) \in 0 .. Len(M) /\ c[s] \in Nat
  BY AccountIs
<1>2. CASE MatchPendingLiqAdd
  BY <1>2, MatchAddAccount
<1>3. CASE MatchPendingLiqAddDone
  BY <1>3, MatchAddDoneAccount
<1>4. CASE Fill
  BY <1>4, FillOrderAccount, FillTradeAccount
<1>5. CASE RestOrder
  BY <1>5, RestAccount
<1>6. CASE TradeMatch
  BY <1>6, TradeMatchAccount
<1>7. CASE TradeRest
  BY <1>7, TradeRestAccount
<1>8. CASE Uncross
  <2>1. /\ UNCHANGED <<levels, order_map, pending_liq_remove_qty, pending_liq_add_qty, act>>
        /\ pc = "uncross" /\ pc' = "fill"
    BY <1>8 DEF Uncross, WalkLevel, sideVars
  <2>2. act.kind # "TRADE"
    BY <2>1 DEF IInv, ActInv
  <2>3. \A s \in BOOLEAN : ToTake(s)' = ToTake(s)
    BY <2>1, <2>2 DEF ToTake
  <2>4. Adding' <=> Adding
    BY <2>1 DEF Adding
  <2>5. \A s \in BOOLEAN : Agrees(levels'[s], order_map'[s], s, Queue(M, s, InBook(a), c[s]))
    BY <1>1, <2>1
  <2> QED
    BY <2>1, <2>3, <2>4, <2>5, BookQuiet
<1>9. CASE FillDone \/ RemoveFilledDone \/ SweepDone
  <2>1. /\ UNCHANGED <<levels, order_map, pending_liq_remove_qty, pending_liq_add_qty, act, side>>
        /\ pc \notin {"matchAdd", "done"} /\ pc' \notin {"matchAdd", "done"}
    BY <1>9 DEF FillDone, RemoveFilledDone, SweepDone, WalkLevel, sideVars, loopVars
  <2>2. \A s \in BOOLEAN : ToTake(s)' = ToTake(s)
    BY <2>1 DEF ToTake
  <2>3. Adding' <=> Adding
    BY <2>1 DEF Adding
  <2>4. \A s \in BOOLEAN : Agrees(levels'[s], order_map'[s], s, Queue(M, s, InBook(a), c[s]))
    BY <1>1, <2>1
  <2> QED
    BY <2>1, <2>2, <2>3, <2>4, BookQuiet
<1>10. CASE RemoveFilled
  <2>1. UNCHANGED <<pending_liq_remove_qty, pending_liq_add_qty, act, side, pc>> /\ pc = "remove"
    BY <1>10 DEF RemoveFilled
  <2>2. \A s \in BOOLEAN : ToTake(s)' = ToTake(s)
    BY <2>1 DEF ToTake
  <2>3. Adding' <=> Adding
    BY <2>1 DEF Adding
  <2>4. ASSUME NEW s \in BOOLEAN
        PROVE  Agrees(levels'[s], order_map'[s], s, Queue(M, s, InBook(a), c[s]))
    <3>1. \A k \in DOMAIN Queue(M, s, InBook(a), c[s]) : Queue(M, s, InBook(a), c[s])[k].quantity > 0
      BY <1>1, QueueIs
    <3> QED
      BY <1>1, <1>10, <3>1, RemoveKeeps
  <2> QED
    BY <2>1, <2>2, <2>3, <2>4, BookQuiet
<1>11. CASE Return
  <2>1. /\ UNCHANGED <<levels, order_map, pending_liq_remove_qty, pending_liq_add_qty>>
        /\ pc = "done" /\ pc' = "idle" /\ act'.kind = "NONE"
    BY <1>11 DEF Return, Idle, sideVars
  <2>2. \A s \in BOOLEAN : ToTake(s)' = ToTake(s)
    BY <2>1 DEF ToTake
  <2>3. ~Adding' /\ ~Adding
    BY <2>1 DEF Adding
  <2>4. \A s \in BOOLEAN : Agrees(levels'[s], order_map'[s], s, Queue(M, s, InBook(a), c[s]))
    BY <1>1, <2>1
  <2> QED
    BY <2>1, <2>2, <2>3, <2>4, BookQuiet
<1> QED
  BY <1>2, <1>3, <1>4, <1>5, <1>6, <1>7, <1>8, <1>9, <1>10, <1>11, NoSweep DEF HandlerStep

-----------------------------------------------------------------------------
(* Exchange and book.                                                      *)

\* The book starts empty, with all messages and trades to come.
LEMMA StartAccount ==
  ASSUME OnePrice, ExchangeTyped, ClosedFirst, NothingPending, open
  PROVE  \E c : BookAccount(order_stream, Traded(trade_stream), 0, c)
<1> DEFINE M == order_stream
           c == [s \in BOOLEAN |-> 0]
<1>1. /\ M \in Seq(StreamMessage) /\ pc = "idle" /\ act.kind = "NONE"
      /\ \A s \in BOOLEAN : DOMAIN order_map[s] = {}
      /\ \A s \in BOOLEAN : DOMAIN pending_liq_remove_qty[s] = {} /\ DOMAIN pending_liq_add_qty[s] = {}
  BY DEF ClosedFirst, NothingPending, ExchangeTyped
<1>2. Traded(trade_stream) \in Int
  BY TradedIs DEF ExchangeTyped
<1>3. ~Adding /\ InBook(0) = 0 /\ 0 \in 0 .. Len(M)
  BY <1>1 DEF Adding, InBook
<1>4. \A s \in BOOLEAN : Removes(s) = 0 /\ Adds(s) = 0 /\ ToTake(s) = 0
  BY <1>1 DEF Removes, Adds, PendingQty, ToTake
<1>5. \A s \in BOOLEAN : c[s] = 0
  OBVIOUS
<1>6. ToCome(M, 0)
  BY <1>1 DEF ToCome
<1> HIDE DEF c
<1>7. ASSUME NEW s \in BOOLEAN
      PROVE  GivenAway(M, 0, c, s)
  <2>1. Agrees(levels[s], order_map[s], s, Queue(M, s, 0, 0))
    <3>1. PICK b : b = 0
      OBVIOUS
    <3>2. DOMAIN Queue(M, s, b, b) \subseteq 1 .. b
      BY DEF Queue
    <3>3. \A j \in 1 .. b : FALSE
      BY <3>1
    <3>4. DOMAIN Queue(M, s, b, b) = {}
      BY <3>2, <3>3
    <3> QED
      BY <1>1, <3>1, <3>4 DEF Agrees
  <2>2. Ordered(M, s, 0) = 0
    BY <1>1, OrderedIs
  <2>3. Minus(0, 0) = 0
    BY DEF Minus
  <2> QED
    BY <1>1, <1>3, <1>4, <1>5, <2>1, <2>2, <2>3 DEF GivenAway
<1>8. HandlesLast(M, 0)
  BY <1>3 DEF HandlesLast
<1>9. \A s \in BOOLEAN : c[s] + ToTake(s) + Traded(trade_stream) = Traded(trade_stream) + Removes(s)
  BY <1>2, <1>4, <1>5
<1> QED
  BY <1>3, <1>6, <1>7, <1>8, <1>9 DEF BookAccount

\* The exchange takes a step: its session is open, and the book has not started.
LEMMA ExchangeAccount ==
  ASSUME OnePrice, ExchangeTyped, Requests \subseteq {"ADD"}, ClosedFirst, NothingPending,
         AccountInv, ExchangeStep, UNCHANGED vars
  PROVE  AccountInv'
<1>1. PICK M, V : /\ ExchangeAt(M, V)
                  /\ open => M = order_stream /\ V = Traded(trade_stream)
                  /\ ~open => taker.quantity = 0 /\ \E a, c : BookAccount(M, V, a, c)
  BY DEF AccountInv
<1>2. open
  <2> SUFFICES ASSUME ~open PROVE FALSE
    OBVIOUS
  <2>1. ~(taker.quantity > 0)
    BY <1>1
  <2> QED
    BY <2>1 DEF ExchangeStep, NewOrder, CancelOrder, ModifyOrder, CanRequest, Match, Rest, Close
<1>3. M = order_stream /\ V = Traded(trade_stream)
  BY <1>1, <1>2
<1>4. ExchangeTyped' /\ trade_stream \in Seq(TradeMessage)
  BY ExchangeStepTyped DEF ExchangeTyped
<1>5. CASE \E o \in ExchangeOrder : NewOrder(o)
  <2>1. PICK o \in ExchangeOrder : NewOrder(o)
    BY <1>5
  <2>2. ExchangeAt(order_stream, V)
    BY <1>1, <1>3
  <2>3. ExchangeAt(order_stream, V)'
    BY <2>1, <2>2, NewOrderAt
  <2>4. PICK N : N = order_stream'
    OBVIOUS
  <2>5. ExchangeAt(N, V)'
    BY <2>3, <2>4 DEF ExchangeAt
  <2>6. open' = open /\ trade_stream' = trade_stream
    BY <2>1 DEF NewOrder
  <2> QED
    BY <1>2, <1>3, <2>4, <2>5, <2>6 DEF AccountInv
<1>6. CASE \E i \in DOMAIN resting : Match(i)
  <2>1. PICK i \in DOMAIN resting : Match(i)
    BY <1>6
  <2> DEFINE qty == MinOf(taker.quantity, resting[i].quantity)
             t   == [quantity |-> qty, price |-> resting[i].price]
  <2>2. qty \in Nat /\ \E W \in Nat : W = V + qty /\ ExchangeAt(M, W)'
    BY <1>1, <2>1, MatchAt
  <2>3. PICK W \in Nat : W = V + qty /\ ExchangeAt(M, W)'
    BY <2>2
  <2>4. /\ trade_stream' = Append(trade_stream, t) /\ open' = open /\ order_stream' = order_stream
    BY <2>1 DEF Match
  <2>5. t \in TradeMessage
    <3>1. trade_stream' \in Seq(TradeMessage)
      BY <1>4 DEF ExchangeTyped
    <3>2. Len(trade_stream) + 1 \in DOMAIN trade_stream' /\ trade_stream'[Len(trade_stream) + 1] = t
      <4> HIDE DEF t
      <4> QED
        BY <1>4, <2>4
    <3> HIDE DEF t
    <3> QED
      BY <3>1, <3>2
  <2>6. Traded(trade_stream') = Traded(trade_stream) + t.quantity
    <3> HIDE DEF t
    <3> QED
      BY <1>4, <2>4, <2>5, TradedIs
  <2>7. W = Traded(trade_stream')
    BY <1>3, <2>3, <2>6
  <2> QED
    BY <1>2, <1>3, <2>3, <2>4, <2>7 DEF AccountInv
<1>7. CASE Rest
  <2>1. ExchangeAt(M, V)' /\ UNCHANGED <<order_stream, trade_stream, open>>
    BY <1>1, <1>7, RestAt DEF Rest
  <2> QED
    BY <1>2, <1>3, <2>1 DEF AccountInv
<1>8. CASE Close
  <2>1. /\ taker.quantity = 0 /\ open' = FALSE
        /\ UNCHANGED <<resting, taker, order_stream, trade_stream>>
    BY <1>8 DEF Close
  <2>2. ExchangeAt(M, V)'
    BY <1>1, <2>1 DEF ExchangeAt
  <2>3. PICK c : BookAccount(order_stream, Traded(trade_stream), 0, c)
    BY <1>2, StartAccount
  <2>4. BookAccount(M, V, 0, c)
    BY <1>3, <2>3
  <2>5. UNCHANGED <<levels, order_map, pending_liq_remove_qty, pending_liq_add_qty, act, side, pc>>
    BY DEF vars, sideVars, loopVars
  <2>6. BookAccount(M, V, 0, c)'
    <3>1. \A s \in BOOLEAN : ToTake(s)' = ToTake(s)
      BY <2>5 DEF ToTake
    <3>2. Adding' <=> Adding
      BY <2>5 DEF Adding
    <3>3. \A s \in BOOLEAN : Agrees(levels'[s], order_map'[s], s, Queue(M, s, InBook(0), c[s]))
      BY <2>4, <2>5 DEF BookAccount, GivenAway
    <3> QED
      BY <2>1, <2>4, <2>5, <3>1, <3>2, <3>3, BookQuiet
  <2> QED
    BY <2>1, <2>2, <2>6 DEF AccountInv
<1> QED
  BY <1>5, <1>6, <1>7, <1>8
     DEF ExchangeStep, ExchangeOrder, CancelOrder, ModifyOrder, CanRequest

\* The book takes a step: the session is closed.
LEMMA AccountStep ==
  ASSUME OnePrice, Requests \subseteq {"ADD"}, IInv, Uncrossed, ExchangeTyped, ClosedFirst, FreshIds,
         SpentInv, PassedInv, HandlerInv, PendingInv, NothingPending, AccountInv, [LLNext]_llVars
  PROVE  AccountInv' /\ NothingPending'
<1>1. PICK M, V : /\ ExchangeAt(M, V)
                  /\ open => M = order_stream /\ V = Traded(trade_stream)
                  /\ ~open => taker.quantity = 0 /\ \E a, c : BookAccount(M, V, a, c)
  BY DEF AccountInv
<1>2. M \in Seq(StreamMessage) /\ V \in Nat /\ Traded(trade_stream) \in Int
  BY <1>1, TradedIs DEF ExchangeAt, ExchangeTyped
\* A step of the closed exchange's book that keeps the account.
<1>3. ASSUME ~open, UNCHANGED <<resting, taker, open>>, \E a, c : BookAccount(M, V, a, c)'
      PROVE  AccountInv' /\ NothingPending'
  <2>1. ExchangeAt(M, V)'
    BY <1>1, <1>3 DEF ExchangeAt
  <2> QED
    BY <1>1, <1>3, <2>1 DEF AccountInv, NothingPending
<1>4. CASE UNCHANGED llVars
  <2>1. UNCHANGED <<levels, order_map, pending_liq_remove_qty, pending_liq_add_qty, act, side, pc,
                    resting, taker, order_stream, trade_stream, open>>
    BY <1>4 DEF llVars, vars, sideVars, loopVars, exchangeVars
  <2>2. NothingPending'
    BY <2>1 DEF NothingPending
  <2>3. CASE open
    <3>1. ExchangeAt(M, V)'
      BY <1>1, <2>1 DEF ExchangeAt
    <3> QED
      BY <1>1, <2>1, <2>2, <2>3, <3>1 DEF AccountInv
  <2>4. CASE ~open
    <3>1. PICK a, c : BookAccount(M, V, a, c)
      BY <1>1, <2>4
    <3>2. \A s \in BOOLEAN : ToTake(s)' = ToTake(s)
      BY <2>1 DEF ToTake
    <3>3. Adding' <=> Adding
      BY <2>1 DEF Adding
    <3>4. \A s \in BOOLEAN : Agrees(levels'[s], order_map'[s], s, Queue(M, s, InBook(a), c[s]))
      BY <2>1, <3>1 DEF BookAccount, GivenAway
    <3>5. BookAccount(M, V, a, c)'
      BY <2>1, <3>1, <3>2, <3>3, <3>4, BookQuiet
    <3> QED
      BY <1>3, <2>1, <2>4, <3>5
  <2> QED
    BY <2>3, <2>4
<1>5. CASE ExchangeStep /\ UNCHANGED vars
  <2>1. AccountInv'
    BY <1>5, ExchangeAccount
  <2>2. open' => open
    BY <1>5 DEF ExchangeStep, NewOrder, CancelOrder, ModifyOrder, Match, Rest, Close
  <2>3. UNCHANGED <<pending_liq_remove_qty, pending_liq_add_qty>>
    BY <1>5 DEF vars, sideVars
  <2> QED
    BY <2>1, <2>2, <2>3 DEF NothingPending
<1>6. CASE ReceiveOrder
  <2>1. ~open /\ UNCHANGED <<resting, taker, open>>
    BY <1>6 DEF ReceiveOrder
  <2>2. PICK a, c : BookAccount(M, V, a, c)
    BY <1>1, <2>1
  <2>3. PICK b : b = a + 1
    OBVIOUS
  <2>4. BookAccount(M, V, b, c)'
    BY <1>2, <1>6, <2>2, <2>3, ReceiveOrderAccount
  <2> QED
    BY <1>3, <2>1, <2>4
<1>7. CASE ReceiveTrade
  <2>1. ~open /\ UNCHANGED <<resting, taker, open>>
    BY <1>7 DEF ReceiveTrade
  <2>2. PICK a, c : BookAccount(M, V, a, c)
    BY <1>1, <2>1
  <2>3. BookAccount(M, V, a, c)'
    BY <1>2, <1>7, <2>2, ReceiveTradeAccount
  <2> QED
    BY <1>3, <2>1, <2>3
<1>8. CASE LLHandlerStep
  <2>1. HandlerStep /\ UNCHANGED <<resting, taker, order_stream, trade_stream, open>>
    BY <1>8 DEF LLHandlerStep, exchangeVars
  <2>2. pc # "idle"
    BY <2>1 DEF HandlerStep, MatchPendingLiqAdd, MatchPendingLiqAddDone, Uncross, Fill, FillDone,
                RemoveFilled, RemoveFilledDone, RestOrder, TradeMatch, Sweep, SweepDone, TradeRest,
                Return
  <2>3. ~open
    BY <2>2 DEF ClosedFirst
  <2>4. PICK a, c : BookAccount(M, V, a, c)
    BY <1>1, <2>3
  <2>5. PICK c2 : BookAccount(M, V, a, c2)'
    BY <1>2, <2>1, <2>4, HandlerAccount
  <2> QED
    BY <1>3, <2>1, <2>3, <2>5
<1> QED
  BY <1>4, <1>5, <1>6, <1>7, <1>8 DEF LLNext

\* What the account says once both streams are received.  The exchange has
\* orders of one side only, so the other side has no more to give away than
\* was traded: nothing is expected any more.
LEMMA AccountEnds ==
  ASSUME OnePrice, IInv, ExchangeTyped, HandlerInv, PendingInv, AccountInv
  PROVE  Reconciled
<1> SUFFICES ASSUME Drained, NEW s \in BOOLEAN
             PROVE  /\ BookOrders(s) = ExchangeOrders(s)
                    /\ DOMAIN pending_liq_remove_qty[s] = {}
                    /\ DOMAIN pending_liq_add_qty[s] = {}
  BY DEF Reconciled
<1>1. ~open /\ order_stream = << >> /\ trade_stream = << >> /\ pc = "idle"
  BY DEF Drained
<1>2. PICK M, V : /\ ExchangeAt(M, V)
                  /\ open => M = order_stream /\ V = Traded(trade_stream)
                  /\ ~open => taker.quantity = 0 /\ \E a, c : BookAccount(M, V, a, c)
  BY DEF AccountInv
<1>3. PICK a, c : BookAccount(M, V, a, c)
  BY <1>1, <1>2
<1>4. PICK n : n = Len(M)
  OBVIOUS
<1>5. /\ M \in Seq(StreamMessage) /\ V \in Nat /\ n \in Nat /\ n \in 0 .. Len(M)
      /\ \A t \in BOOLEAN : V <= Ordered(M, t, n)
      /\ \A i, j \in DOMAIN resting : resting[i].is_sell = resting[j].is_sell
      /\ Lists(resting, M, n, V)
  BY <1>1, <1>2, <1>4 DEF ExchangeAt
<1>6. a = n
  <2>1. a \in 0 .. Len(M) /\ ToCome(M, a) /\ Len(order_stream) = 0
    BY <1>1, <1>3 DEF BookAccount
  <2> QED
    BY <1>4, <2>1 DEF ToCome
<1>7. Traded(trade_stream) = 0
  BY <1>1, TradedIs DEF ExchangeTyped
<1>8. act.kind = "NONE" /\ ~Adding /\ InBook(a) = a /\ \A t \in BOOLEAN : ToTake(t) = 0
  <2>1. act.kind = "NONE"
    BY <1>1 DEF HandlerInv
  <2> QED
    BY <2>1 DEF Adding, InBook, ToTake
<1>9. ASSUME NEW t \in BOOLEAN
      PROVE  /\ c[t] \in Nat /\ Removes(t) \in Nat /\ Adds(t) \in Nat /\ Ordered(M, t, n) \in Nat
             /\ c[t] = V + Removes(t)
             /\ Agrees(levels[t], order_map[t], t, Queue(M, t, n, c[t]))
             /\ Adds(t) = Minus(c[t], Ordered(M, t, n))
             /\ Removes(t) > 0 => \A u \in BOOLEAN : c[t] <= Ordered(M, u, n)
  <2>1. /\ c[t] \in Nat /\ Removes(t) \in Nat /\ Adds(t) \in Nat /\ Ordered(M, t, a) \in Nat
        /\ Agrees(levels[t], order_map[t], t, Queue(M, t, a, c[t]))
        /\ c[t] + 0 + 0 = V + Removes(t)
    BY <1>3, <1>5, <1>7, <1>8, AccountIs
  <2>2. /\ Adds(t) = Minus(c[t], Ordered(M, t, a))
        /\ Removes(t) > 0 => \A u \in BOOLEAN : c[t] <= Ordered(M, u, a)
    BY <1>1, <1>3 DEF BookAccount, GivenAway
  <2> QED
    BY <1>5, <1>6, <2>1, <2>2
<1>10. PICK at : /\ at \in [DOMAIN resting -> 1 .. n]
                 /\ \A i \in DOMAIN resting :
                      Left(M, at[i], V) > 0 /\ resting[i] = OrderLeft(M, at[i], V)
                 /\ \A k \in 1 .. n : Left(M, k, V) > 0 => \E i \in DOMAIN resting : at[i] = k
  BY <1>5 DEF Lists
<1>11. Removes(s) = 0
  <2> SUFFICES ASSUME Removes(s) > 0 PROVE FALSE
    BY <1>9
  <2>1. ASSUME NEW t \in BOOLEAN
        PROVE  \E i \in DOMAIN resting : resting[i].is_sell = t
    <3>1. Ordered(M, t, n) > V
      <4>1. PICK x \in Nat, r \in Nat, o \in Nat : x = c[s] /\ r = Removes(s) /\ o = Ordered(M, t, n)
        BY <1>9
      <4>2. x = V + r /\ r > 0 /\ x <= o
        BY <1>9, <4>1
      <4>3. o > V
        BY ONLY <1>5, <4>2, x \in Nat, r \in Nat, o \in Nat
      <4> QED
        BY <4>1, <4>3
    <3>2. PICK k \in 1 .. n : M[k].is_sell = t /\ Left(M, k, V) > 0
      BY <1>5, <3>1, LeftExists
    <3>3. PICK i \in DOMAIN resting : at[i] = k
      BY <1>10, <3>2
    <3>4. resting[i] = OrderLeft(M, k, V)
      BY <1>10, <3>3
    <3>5. resting[i].is_sell = t
      BY <3>2, <3>4 DEF OrderLeft
    <3> QED
      BY <3>5
  <2>2. PICK i \in DOMAIN resting : resting[i].is_sell = TRUE
    BY <2>1
  <2>3. PICK j \in DOMAIN resting : resting[j].is_sell = FALSE
    BY <2>1
  <2> QED
    BY <1>5, <2>2, <2>3
<1>12. c[s] = V /\ Adds(s) = 0
  <2>1. PICK x \in Nat, o \in Nat : x = c[s] /\ o = Ordered(M, s, n)
    BY <1>9
  <2>2. x = V + 0 /\ V <= o /\ Adds(s) = Minus(x, o)
    BY <1>5, <1>9, <1>11, <2>1
  <2>3. x = V /\ Minus(x, o) = 0
    BY ONLY <1>5, <2>2, x \in Nat, o \in Nat DEF Minus
  <2> QED
    BY <2>1, <2>2, <2>3
<1>13. DOMAIN pending_liq_remove_qty[s] = {} /\ DOMAIN pending_liq_add_qty[s] = {}
  <2>1. /\ IsMap(pending_liq_remove_qty[s], Price, Nat) /\ IsMap(pending_liq_add_qty[s], Price, Nat)
    BY PendingNat
  <2>2. AnyPrice \notin DOMAIN pending_liq_remove_qty[s] /\ AnyPrice \notin DOMAIN pending_liq_add_qty[s]
    BY <1>11, <1>12 DEF PendingInv
  <2> QED
    BY <2>1, <2>2, EntryNat
<1>14. BookOrders(s) = ExchangeOrders(s)
  <2> DEFINE N == order_map[s]
             Q == Queue(M, s, n, V)
             B(id) == [odid |-> id, is_sell |-> s, quantity |-> Remaining(N[id]),
                       price |-> N[id].price]
  <2>1. /\ Agrees(levels[s], N, s, Q)
        /\ \A k \in 1 .. n : k \in DOMAIN Q <=> M[k].is_sell = s /\ Left(M, k, V) > 0
        /\ \A k \in DOMAIN Q : k \in 1 .. n /\ Q[k] = OrderLeft(M, k, V) /\ Q[k].is_sell = s
        /\ \A k \in DOMAIN Q : Left(M, k, V) > 0
    <3>1. Agrees(levels[s], N, s, Q)
      BY <1>9, <1>12
    <3>2. /\ \A k \in 1 .. n : k \in DOMAIN Q <=> M[k].is_sell = s /\ Left(M, k, V) > 0
          /\ DOMAIN Q \subseteq 1 .. n
          /\ \A k \in DOMAIN Q : Q[k] = OrderLeft(M, k, V) /\ Q[k].is_sell = s
      BY <1>5, QueueIs
    <3> QED
      BY <3>1, <3>2
  <2>2. \A id \in DOMAIN N : Remaining(N[id]) > 0
    BY <1>1 DEF IInv, NoSpentOrders
  <2> HIDE DEF Q
  <2>3. ASSUME NEW i \in DOMAIN resting, resting[i].is_sell = s
        PROVE  resting[i].odid \in DOMAIN N /\ resting[i] = B(resting[i].odid)
    <3>1. at[i] \in 1 .. n /\ Left(M, at[i], V) > 0 /\ resting[i] = OrderLeft(M, at[i], V)
      BY <1>10
    <3>2. M[at[i]].is_sell = s
      BY <2>3, <3>1 DEF OrderLeft
    <3>3. at[i] \in DOMAIN Q /\ Q[at[i]] = resting[i]
      BY <2>1, <3>1, <3>2
    <3>4. /\ resting[i].odid \in DOMAIN N /\ resting[i].price = N[resting[i].odid].price
          /\ resting[i].quantity = Remaining(N[resting[i].odid])
      BY <2>1, <2>3, <3>3 DEF Agrees
    <3>5. resting[i] = [odid |-> resting[i].odid, is_sell |-> resting[i].is_sell,
                        quantity |-> resting[i].quantity, price |-> resting[i].price]
      BY <3>1 DEF OrderLeft
    <3> QED
      BY <2>3, <3>4, <3>5
  <2>4. ASSUME NEW id \in DOMAIN N
        PROVE  \E i \in DOMAIN resting : resting[i].is_sell = s /\ resting[i].odid = id
    <3>1. PICK k \in DOMAIN Q : Q[k].is_sell = s /\ Q[k].odid = id
      BY <2>1, <2>2 DEF Agrees
    <3>2. PICK i \in DOMAIN resting : at[i] = k
      BY <1>10, <2>1, <3>1
    <3>3. resting[i] = Q[k]
      BY <1>10, <2>1, <3>2
    <3> QED
      BY <3>1, <3>3
  <2> HIDE DEF B
  <2>5. {B(id) : id \in DOMAIN N} =
          {resting[k] : k \in {j \in DOMAIN resting : resting[j].is_sell = s}}
    BY <2>3, <2>4
  <2> QED
    BY <2>5 DEF BookOrders, ExchangeOrders, B
<1> QED
  BY <1>13, <1>14

\* The inductive invariant.
ReconcileInv ==
  /\ IInv
  /\ Uncrossed
  /\ ExchangeTyped
  /\ ClosedFirst
  /\ FreshIds
  /\ SpentInv
  /\ PassedInv
  /\ HandlerInv
  /\ PendingInv
  /\ NothingPending
  /\ AccountInv

\* Nothing was ordered, traded or expected.
LEMMA InitReconcile == LLInit => ReconcileInv
<1> SUFFICES ASSUME LLInit PROVE ReconcileInv
  OBVIOUS
<1>1. IInv /\ ExchangeTyped /\ ClosedFirst /\ FreshIds /\ SpentInv /\ PassedInv
  BY InitIInv, InitBuild DEF LLInit, BuildInv
<1>2. /\ pc = "idle" /\ act.kind = "NONE" /\ open
      /\ \A s \in BOOLEAN : /\ levels[s] = EmptyMap
                            /\ pending_liq_remove_qty[s] = EmptyMap
                            /\ pending_liq_add_qty[s] = EmptyMap
      /\ order_stream = << >> /\ trade_stream = << >> /\ resting = << >> /\ taker = NoTaker
  BY DEF LLInit, Init, ExchangeInit, Idle
<1>3. DOMAIN EmptyMap = {}
  BY DEF EmptyMap
<1>4. Uncrossed /\ HandlerInv /\ NothingPending
  BY <1>2, <1>3 DEF Uncrossed, HandlerInv, NothingPending
<1>5. PendingInv
  <2>1. \A s \in BOOLEAN : Removes(s) = 0 /\ ToTake(s) = 0
    BY <1>2, <1>3 DEF Removes, PendingQty, ToTake
  <2> QED
    BY <1>2, <1>3, <2>1 DEF PendingInv
<1>6. AccountInv
  <2>1. PICK M : M = order_stream
    OBVIOUS
  <2>2. M \in Seq(StreamMessage) /\ Len(M) = 0 /\ DOMAIN M = {} /\ DOMAIN resting = {}
    BY <1>2, <2>1
  <2>3. Traded(trade_stream) = 0
    BY <1>1, <1>2, TradedIs DEF ExchangeTyped
  <2>4. PICK n \in Nat : n = 0
    OBVIOUS
  <2>5. \A s \in BOOLEAN : Ordered(M, s, n) = n
    BY <2>2, <2>4, OrderedIs
  <2>6. Lists(resting, M, n, n)
    <3>1. \A k \in 1 .. n : FALSE
      BY <2>4
    <3> DEFINE at == [k \in {} |-> k]
    <3>2. at \in [DOMAIN resting -> 1 .. n]
      BY <2>2
    <3> HIDE DEF at
    <3> QED
      BY <2>2, <3>1, <3>2 DEF Lists
  <2>7. taker.quantity = 0
    BY <1>2 DEF NoTaker
  <2>8. ExchangeAt(M, n)
    BY <2>2, <2>4, <2>5, <2>6, <2>7 DEF ExchangeAt
  <2> QED
    BY <1>2, <2>1, <2>3, <2>4, <2>8 DEF AccountInv
<1> QED
  BY <1>1, <1>4, <1>5, <1>6 DEF ReconcileInv

\* Every step keeps the invariant.
LEMMA ReconcileStep ==
  ASSUME OnePrice, Requests \subseteq {"ADD"}, ReconcileInv, [LLNext]_llVars
  PROVE  ReconcileInv'
<1> USE DEF ReconcileInv
<1>1. [Next]_vars
  BY FeedSteps
<1>2. IInv' /\ ExchangeTyped' /\ Uncrossed'
  BY <1>1, NextIInv, LLNextTyped, UncrossedStep
<1>3. ClosedFirst' /\ FreshIds'
  <2>1. "MODIFY" \notin Requests
    OBVIOUS
  <2> QED
    BY <2>1, FreshStep
<1>4. SpentInv' /\ PassedInv'
  BY <1>1, SpentStep, PassedStep
<1>5. HandlerInv' /\ PendingInv'
  BY HandlerKept, PendingKept
<1>6. AccountInv' /\ NothingPending'
  BY AccountStep
<1> QED
  BY <1>2, <1>3, <1>4, <1>5, <1>6

\* At one price, new orders and their trades reconcile, in whatever interleaving
\* the two streams are received, however many orders there are and whatever
\* their quantities: when both are received the book is the exchange's, no trade
\* is expected any more and every guess of processTrade has come true
\* (processTrade, matchPendingLiqAdd, matchPendingLiqRemove).
THEOREM OnePriceReconciles == OnePrice /\ Requests \subseteq {"ADD"} /\ LLSpec => []Reconciled
<1>1. ASSUME OnePrice
      PROVE  ReconcileInv => Reconciled
  BY <1>1, AccountEnds DEF ReconcileInv
<1>2. ASSUME OnePrice, Requests \subseteq {"ADD"}
      PROVE  ReconcileInv /\ [LLNext]_llVars => ReconcileInv'
  BY <1>2, ReconcileStep
<1>3. ASSUME OnePrice, Requests \subseteq {"ADD"}
      PROVE  LLSpec => []Reconciled
  BY <1>1, <1>2, <1>3, InitReconcile, PTL DEF LLSpec
<1> QED
  BY <1>3

=============================================================================
