---------------------------- MODULE SnapshotFeed ----------------------------
(***************************************************************************)
(* The order book fed by an exchange over three unsynchronized streams:    *)
(* orders, trades and L2 snapshots (README.md, "When L2 snapshot stream    *)
(* leads order and trade streams").  The exchange publishes a snapshot     *)
(* with every change of its L2 book (assumption 6).                        *)
(***************************************************************************)
EXTENDS Snapshot, LeadLag

VARIABLES snapshot_stream,   \* snapshots published and not yet received
          received,          \* how many orders and trades were received
          leads              \* the snapshot being handled leads both other streams

feedVars == <<svars, exchangeVars, snapshot_stream, received, leads>>

FeedInit ==
  /\ SnapInit
  /\ ExchangeInit
  /\ snapshot_stream = << >>
  /\ received = [orders |-> 0, trades |-> 0]
  /\ leads = FALSE

ExchangeView(book) ==
  [s \in BOOLEAN |->
     LET at(p) == {i \in DOMAIN book : book[i].is_sell = s /\ book[i].price = p}
         qty   == [i \in DOMAIN book |-> book[i].quantity]
     IN  {[price |-> p, quantity |-> SumFunctionOnSet(qty, at(p))] :
            p \in {q \in Price : at(q) # {}}}]

\* A snapshot is published with an order message; with it goes how many
\* messages of each stream were published before.
Publish ==
  snapshot_stream' =
    IF ExchangeView(resting') = ExchangeView(resting)
    THEN snapshot_stream
    ELSE Append(snapshot_stream, [levels |-> ExchangeView(resting'),
                                  orders |-> Len(order_stream') - 1,
                                  trades |-> Len(trade_stream)])

FeedExchange == ExchangeStep /\ Publish /\ UNCHANGED <<svars, received, leads>>

FeedOrder ==
  /\ spc = "idle"
  /\ ReceiveOrder
  /\ received' = [received EXCEPT !.orders = @ + 1]
  /\ UNCHANGED <<snapVars, snapshot_stream, leads>>

FeedTrade ==
  /\ spc = "idle"
  /\ ReceiveTrade
  /\ received' = [received EXCEPT !.trades = @ + 1]
  /\ UNCHANGED <<snapVars, snapshot_stream, leads>>

\* Nothing of the snapshot's event was received on the other streams.
Leads(m) == received.orders <= m.orders /\ received.trades <= m.trades

FeedSnapshot ==
  /\ ~open
  /\ snapshot_stream # << >>
  /\ processSnapshotMessage(Head(snapshot_stream).levels)
  /\ snapshot_stream' = Tail(snapshot_stream)
  /\ leads' = Leads(Head(snapshot_stream))
  /\ UNCHANGED <<exchangeVars, received>>

FeedStep ==
  /\ (LLHandlerStep /\ UNCHANGED snapVars) \/ (SnapStep /\ UNCHANGED exchangeVars)
  /\ UNCHANGED <<snapshot_stream, received, leads>>

FeedNext == FeedExchange \/ FeedOrder \/ FeedTrade \/ FeedSnapshot \/ FeedStep

FeedSpec == FeedInit /\ [][FeedNext]_feedVars

-----------------------------------------------------------------------------
(* Properties.                                                             *)

\* A snapshot that leads both other streams finds no view expected ("L2 lead the
\* order and trade steam, then the l2_snap_queue_ should be empty").
LeadingFindsEmptyQueue ==
  spc = "side" /\ leads => l2_snap_queue[side] = << >>

\* Between two messages the book is not crossed ("The uncrossed L3 book"), also
\* when the sides made different things of a snapshot.
UncrossedBetween == pc = "idle" /\ spc = "idle" => Uncrossed

\* A side that takes a snapshot to lead matches it in the end ("The implementation
\* will guess order events to make the order book matches with l2 snapshot
\* received").
MatchesSnapshot == Applied => L2View(levels[side]) = snapshot[side]

=============================================================================
