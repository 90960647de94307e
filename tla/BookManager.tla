---------------------------- MODULE BookManager -----------------------------
(***************************************************************************)
(* The BookManager of book_manager.h and book_manager.cpp on top of the    *)
(* book and the two streams: it dispatches each message to the book, keeps *)
(* the events the book returns and hands them to the callbacks in one      *)
(* flush.  The callbacks (onOrderAdd, ...) are declared and not defined in *)
(* the repository; the consumer behind them is taken to keep its own copy  *)
(* of the orders from what it is told.                                     *)
(***************************************************************************)
EXTENDS LeadLag, SequencesExt

VARIABLES events_,    \* the events not yet handed out
          replica     \* the consumer's copy: id -> side, quantity, price

bmVars == <<llVars, events_, replica>>

BMInit == LLInit /\ events_ = << >> /\ replica = EmptyMap

\* onOrderAdd, onOrderCancel, onOrderExecution and onOrderModify of a consumer
\* that keeps its own book.  A guessed order has no id, so nothing is kept of it.
Observe(r, info) ==
  LET known == info.odid \in DOMAIN r
      left  == r[info.odid].quantity - info.quantity
  IN  CASE info.event \in {"ADD", "MODIF"} /\ info.odid # NoId ->
             Put(r, info.odid, [is_sell |-> info.is_sell, quantity |-> info.quantity,
                                price |-> info.price])
        [] info.event = "CANCEL" -> Erase(r, info.odid)
        [] info.event = "EXEC" /\ known ->
             IF left = 0 THEN Erase(r, info.odid)
             ELSE [r EXCEPT ![info.odid].quantity = left]
        [] OTHER -> r

\* processOrderMessage and processTradeMessage: what the book returns is
\* merged into events_.
BMReturn ==
  /\ Return
  /\ events_' = mergeEvents(events_, events)
  /\ UNCHANGED <<exchangeVars, replica>>

flushEvents ==
  /\ pc = "idle"
  /\ events_ # << >>
  /\ replica' = FoldLeft(Observe, replica, events_)
  /\ events_' = << >>
  /\ UNCHANGED llVars

BMNext ==
  \/ pc # "done" /\ LLNext /\ UNCHANGED <<events_, replica>>
  \/ BMReturn
  \/ flushEvents

BMSpec == BMInit /\ [][BMNext]_bmVars

-----------------------------------------------------------------------------
(* Properties.                                                             *)

\* Without modifications, whose fills are never reported, the events tell the
\* whole story: when all are handed out, the consumer's copy has exactly the
\* orders of the book, with what remains of each.  Sweeps, guesses and fills
\* from either stream are reported once each, in an order that can be replayed.
ReplicaTracksBook ==
  "MODIFY" \notin Requests /\ pc = "idle" /\ events_ = << >> =>
    /\ DOMAIN replica = DOMAIN order_map[FALSE] \cup DOMAIN order_map[TRUE]
    /\ \A s \in BOOLEAN : \A id \in DOMAIN order_map[s] :
         replica[id] = [is_sell |-> s, quantity |-> Remaining(order_map[s][id]),
                        price |-> order_map[s][id].price]

=============================================================================
