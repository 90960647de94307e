---------------------------- MODULE MatchingBook ----------------------------
(***************************************************************************)
(* What an order book promises whoever watches it: the orders that rest    *)
(* with something left, and who is ahead of whom.  An order rests only if  *)
(* it crosses nothing, at the back of its price; only the order first in   *)
(* price-time priority is executed; any order may be cancelled.  Each      *)
(* changes one order, in one step.                                         *)
(***************************************************************************)
EXTENDS Level

VARIABLES orders,   \* side -> id -> price and quantity left
          ahead     \* side -> pairs of ids at one price, the earlier first

bookVars == <<orders, ahead>>

MBInit ==
  /\ orders = [s \in BOOLEAN |-> EmptyMap]
  /\ ahead = [s \in BOOLEAN |-> {}]

\* The ids of side s but id: those ahead relates when id is gone.
Without(pairs, id) == {w \in pairs : w[1] # id /\ w[2] # id}

Rests(s, id, price, quantity) ==
  /\ id \notin DOMAIN orders[s]
  /\ \A x \in DOMAIN orders[~s] : Before(~s, price, orders[~s][x].price)
  /\ orders' = [orders EXCEPT ![s] = Put(@, id, [price |-> price, quantity |-> quantity])]
  /\ ahead' = [ahead EXCEPT
       ![s] = @ \cup {<<x, id>> : x \in {y \in DOMAIN orders[s] : orders[s][y].price = price}}]

Leaves(s, id) ==
  /\ orders' = [orders EXCEPT ![s] = Erase(@, id)]
  /\ ahead' = [ahead EXCEPT ![s] = Without(@, id)]

First(s, id) ==
  \A x \in DOMAIN orders[s] : /\ ~Before(s, orders[s][x].price, orders[s][id].price)
                              /\ <<x, id>> \notin ahead[s]

Executes(s, id, quantity) ==
  /\ First(s, id)
  /\ IF quantity = orders[s][id].quantity
     THEN Leaves(s, id)
     ELSE /\ orders' = [orders EXCEPT ![s][id].quantity = @ - quantity]
          /\ UNCHANGED ahead

MBNext ==
  \E s \in BOOLEAN :
    \/ \E id \in OrderId, price \in Price, quantity \in 1 .. MaxQty :
         Rests(s, id, price, quantity)
    \/ \E id \in DOMAIN orders[s] :
         \/ Leaves(s, id)
         \/ \E quantity \in 1 .. orders[s][id].quantity : Executes(s, id, quantity)

MBSpec == MBInit /\ [][MBNext]_bookVars

=============================================================================
