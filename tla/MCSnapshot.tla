----------------------------- MODULE MCSnapshot -----------------------------
(***************************************************************************)
(* Bounded instances of Snapshot: the feed carries at most MaxMessages     *)
(* messages and at most a load of MaxLoad, and then stops.  A snapshot     *)
(* weighs two messages.                                                    *)
(***************************************************************************)
EXTENDS Snapshot

CONSTANTS MaxMessages,   \* the number of messages of the feed
          MaxLoad        \* the same with snapshots counted twice
VARIABLES msgs,          \* messages taken so far
          snaps          \* snapshots taken so far

mcsVars == <<svars, msgs, snaps>>

MCSReceive ==
  /\ msgs < MaxMessages
  /\ msgs' = msgs + 1
  /\ \/ msgs + snaps + 1 <= MaxLoad /\ spc = "idle" /\ Receive /\ UNCHANGED <<snapVars, snaps>>
     \/ msgs + snaps + 2 <= MaxLoad /\ ReceiveSnapshot /\ snaps' = snaps + 1

MCSStep ==
  /\ (HandlerStep /\ UNCHANGED snapVars) \/ SnapStep
  /\ UNCHANGED <<msgs, snaps>>

MCSInit == SnapInit /\ msgs = 0 /\ snaps = 0
MCSNext == MCSReceive \/ MCSStep
MCSSpec == MCSInit /\ [][MCSNext]_mcsVars

\* A call runs until it returns; the feed may stop.
MCSFairSpec == MCSSpec /\ WF_mcsVars(MCSStep)

-----------------------------------------------------------------------------
\* matchPendingLiqAdd is at an entry that it has emptied and not erased.
AtEmptiedEntry ==
  pc = "matchAdd" /\ \E p \in DOMAIN pending_liq_add_qty[act.is_sell] :
                       Matchable(act.is_sell, p) /\ pending_liq_add_qty[act.is_sell][p] = 0

\* Every call returns, whatever the book holds, unless it comes across an
\* emptied entry: the loops of matchPendingLiqAdd, processCrossedOrder and
\* processTrade all use something up.
LoopsEnd == pc # "idle" ~> (pc = "idle" \/ AtEmptiedEntry)

=============================================================================
