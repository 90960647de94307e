------------------------------- MODULE LeadLag ------------------------------
(***************************************************************************)
(* The order book fed by an exchange over two unsynchronized streams: each *)
(* is received in order, and either may lead the other by any amount       *)
(* (README.md, "When trade stream leads order stream" and "When order      *)
(* stream leads trade stream").                                            *)
(*                                                                         *)
(* The exchange never hears from the book, so the book may as well start   *)
(* once the session is closed: every interleaving of the two streams that  *)
(* it can receive during the session it can receive after it.              *)
(***************************************************************************)
EXTENDS SmartOrderBook, Exchange

\* The feed carries what the exchange publishes.
ASSUME StreamsAssumption == Requests \cup {"TRADE"} \subseteq Kinds

llVars == <<vars, exchangeVars>>

LLInit == Init /\ ExchangeInit

ReceiveOrder ==
  /\ ~open
  /\ order_stream # << >>
  /\ LET m == Head(order_stream)
     IN  \/ m.type = "ADD" /\ processOrderAddMessage(m)
         \/ m.type = "CANCEL" /\ processOrderCancelMessage(m)
         \/ m.type = "MODIFY" /\ processOrderModifyMessage(m)
  /\ order_stream' = Tail(order_stream)
  /\ UNCHANGED <<resting, taker, trade_stream, open>>

ReceiveTrade ==
  /\ ~open
  /\ trade_stream # << >>
  /\ processTradeMessage(Head(trade_stream))
  /\ trade_stream' = Tail(trade_stream)
  /\ UNCHANGED <<resting, taker, order_stream, open>>

LLHandlerStep == HandlerStep /\ UNCHANGED exchangeVars

LLNext ==
  \/ ExchangeStep /\ UNCHANGED vars
  \/ ReceiveOrder
  \/ ReceiveTrade
  \/ LLHandlerStep

LLSpec == LLInit /\ [][LLNext]_llVars

\* The order stream leads by all of the session: no trade is received before
\* its last message; and the trade stream may be silent.
OrdersNext == (ExchangeStep /\ UNCHANGED vars) \/ ReceiveOrder \/ LLHandlerStep
OrdersLeadNext == OrdersNext \/ (order_stream = << >> /\ ReceiveTrade)

OrdersSpec == LLInit /\ [][OrdersNext]_llVars
OrdersLeadSpec == LLInit /\ [][OrdersLeadNext]_llVars

\* A call runs until it returns.
LLFairSpec == LLSpec /\ WF_llVars(LLHandlerStep)

-----------------------------------------------------------------------------
(* Properties.                                                             *)

Drained == ~open /\ order_stream = << >> /\ trade_stream = << >> /\ pc = "idle"

\* The orders of a side with what remains of each, and the same of the exchange.
BookOrders(s) ==
  {[odid |-> id, is_sell |-> s, quantity |-> Remaining(order_map[s][id]),
    price |-> order_map[s][id].price] : id \in DOMAIN order_map[s]}
ExchangeOrders(s) ==
  {resting[i] : i \in {j \in DOMAIN resting : resting[j].is_sell = s}}

\* Once both streams are received, in whatever interleaving, the book is the
\* exchange's and nothing is expected any more: the guesses of processTrade,
\* matchPendingLiqAdd and matchPendingLiqRemove have all come true.  Meant for
\* new orders at one price; with cancels, or with several prices, a guess may
\* pick the wrong order for good.
Reconciled ==
  Drained =>
    \A s \in BOOLEAN : /\ BookOrders(s) = ExchangeOrders(s)
                       /\ DOMAIN pending_liq_remove_qty[s] = {}
                       /\ DOMAIN pending_liq_add_qty[s] = {}

\* The trades at a price that are still to come.
TradesAt(p) == {k \in DOMAIN trade_stream : trade_stream[k].price = p}
TradedAt(p) ==
  SumFunctionOnSet([k \in DOMAIN trade_stream |-> trade_stream[k].quantity], TradesAt(p))

\* A list has the ids of the exchange's orders at a price, in time order: place
\* is where each of them is in the exchange's book.
ListsExchange(list, s, p) ==
  \E place \in [DOMAIN list -> DOMAIN resting] :
    /\ \A i, j \in DOMAIN list : i < j => place[i] < place[j]
    /\ \A i \in DOMAIN list : list[i] = resting[place[i]].odid
    /\ {place[i] : i \in DOMAIN list} =
         {k \in DOMAIN resting : resting[k].is_sell = s /\ resting[k].price = p}

\* New orders at any prices build the exchange's book by themselves: when all
\* are received and no trade is, each level lists the exchange's orders in time
\* order with what is left of each, and on both sides exactly the trades to
\* come are expected, price by price (processCrossedOrder, addOrder).
OrdersBuildBook ==
  ~open /\ order_stream = << >> /\ pc = "idle" =>
    \A s \in BOOLEAN :
      /\ BookOrders(s) = ExchangeOrders(s)
      /\ \A p \in DOMAIN levels[s] : ListsExchange(levels[s][p].orders, s, p)
      /\ pending_liq_remove_qty[s] = [p \in {q \in Price : TradesAt(q) # {}} |-> TradedAt(p)]
      /\ DOMAIN pending_liq_add_qty[s] = {}

\* A trade whose orders were all received before it leaves nothing to guess: the
\* pending quantity accounts for it ("When trade 60@100 arrives, the
\* corresponding pending quantity will be matched").
LateTradesKnown == order_stream = << >> /\ pc = "tradeRest" => Remaining(act) = 0

\* Every call returns, that of matchPendingLiqAdd included ("Matched with the
\* pending liq adding qty and return the matched quantity").
HandlersReturn == pc # "idle" ~> pc = "idle"

\* A trade that matchPendingLiqRemove matches completely leaves the levels
\* alone ("Receive the expected trades. Won't change order book").
ExpectedTradeKeepsBook ==
  [][pc = "sweep" /\ Remaining(act) = 0 => levels' = levels]_llVars

\* A modification is a cancel and a new order: when it returns, the order, if
\* it rests, rests at the new price.
ModifyMovesOrder ==
  pc = "done" /\ act.kind = "MODIFY" /\ existOrder(act.is_sell, act.odid)
    => order_map[act.is_sell][act.odid].price = act.price

=============================================================================
