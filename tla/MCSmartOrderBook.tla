-------------------------- MODULE MCSmartOrderBook --------------------------
(***************************************************************************)
(* Bounded instances of SmartOrderBook: the feed carries MaxMessages       *)
(* messages and then stops.                                                *)
(***************************************************************************)
EXTENDS L2Book, TLC

CONSTANT MaxMessages   \* the number of messages of the feed
VARIABLE msgs          \* messages taken so far

mcVars == <<vars, msgs>>

MCReceive == msgs < MaxMessages /\ Receive /\ msgs' = msgs + 1
MCHandlerStep == HandlerStep /\ UNCHANGED msgs

MCInit == Init /\ msgs = 0
MCNext == MCReceive \/ MCHandlerStep
MCSpec == MCInit /\ [][MCNext]_mcVars

Symmetry == Permutations(OrderId)

=============================================================================
