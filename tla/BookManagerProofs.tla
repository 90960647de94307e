-------------------------- MODULE BookManagerProofs --------------------------
(***************************************************************************)
(* Proofs about the events the BookManager hands out, for any ids, prices, *)
(* quantities, any number of requests and any interleaving of the two      *)
(* streams.                                                                *)
(***************************************************************************)
EXTENDS LeadLagProofs, BookManager

-----------------------------------------------------------------------------
(* The book behind the BookManager.                                        *)

\* Handing out events is not a step of the book.
LEMMA ManagerSteps == [BMNext]_bmVars => [LLNext]_llVars
BY DEF BMNext, bmVars, BMReturn, flushEvents, LLNext, LLHandlerStep, HandlerStep

\* The book behind a BookManager that an exchange feeds is a matching book.
THEOREM ManagerImplements == BMSpec => IsMatchingBook
<1>1. BMInit => LLInit
  BY DEF BMInit
<1>2. BMSpec => LLSpec
  BY <1>1, ManagerSteps, PTL DEF BMSpec, LLSpec
<1> QED
  BY <1>2, FeedIsFeed, Implements, PTL

-----------------------------------------------------------------------------
(* What the consumer was told.                                             *)

\* The events reported and not yet handed out.
Told == IF pc = "idle" THEN events_ ELSE events_ \o events

\* What a consumer should know of an order.
Entry(s, o) == [is_sell |-> s, quantity |-> Remaining(o), price |-> o.price]

\* The orders of a map with something left.
LiveIn(f) == {id \in DOMAIN f : Remaining(f[id]) > 0}

\* r has every order of the two maps M with something left, and nothing else.
Mirrors(r, M) ==
  /\ DOMAIN r = LiveIn(M[FALSE]) \cup LiveIn(M[TRUE])
  /\ \A s \in BOOLEAN : \A id \in LiveIn(M[s]) : r[id] = Entry(s, M[s][id])

\* The consumer's copy once it is told.
Heard == FoldLeft(Observe, replica, Told)

ToldInv == events_ \in Seq(Info) /\ Mirrors(Heard, order_map)

BMInv ==
  /\ IInv
  /\ ExchangeTyped
  /\ "MODIFY" \notin Requests => ClosedFirst /\ FreshIds /\ SpentInv /\ ToldInv

-----------------------------------------------------------------------------
(* Handing out events one after the other.                                 *)

\* it[D] is the consumer's copy after the events at the places D, as the fold
\* computes it.
Replays(r, infos, n, it) ==
  it = [D \in SUBSET (1 .. n) |->
          IF D = {} THEN r ELSE Observe(it[D \ {Max(D)}], infos[Max(D)])]

\* FoldLeft is what the fold computes.
LEMMA FoldIs ==
  ASSUME NEW r, NEW infos \in Seq(Info)
  PROVE  FoldLeft(Observe, r, infos) =
           (CHOOSE it : Replays(r, infos, Len(infos), it))[1 .. Len(infos)]
<1>1. DOMAIN infos = 1 .. Len(infos)
  OBVIOUS
<1> QED
  BY <1>1 DEF FoldLeft, MapThenFoldSet, Replays

\* The greatest of the places up to n.
LEMMA MaxOf ==
  ASSUME NEW n \in Nat, NEW D \in SUBSET (1 .. n + 1), n + 1 \in D
  PROVE  Max(D) = n + 1
<1>1. \A x \in D : n + 1 >= x
  OBVIOUS
<1>2. Max(D) \in D /\ \A x \in D : Max(D) >= x
  BY <1>1 DEF Max
<1>3. Max(D) \in 1 .. n + 1 /\ Max(D) >= n + 1
  BY <1>2
<1> QED
  BY <1>3

\* The copy can be computed for any list of events.
LEMMA ReplaysExists ==
  ASSUME NEW r, NEW infos
  PROVE  \A n \in Nat : \E it : Replays(r, infos, n, it)
<1> DEFINE T == {n \in Nat : \E it : Replays(r, infos, n, it)}
<1>1. 0 \in T
  <2> DEFINE it == [D \in SUBSET (1 .. 0) |-> r]
  <2>1. SUBSET (1 .. 0) = {{}}
    OBVIOUS
  <2>2. Replays(r, infos, 0, it)
    BY <2>1 DEF Replays
  <2> QED
    BY <2>2
<1>2. ASSUME NEW n \in Nat, n \in T
      PROVE  n + 1 \in T
  <2>1. PICK it : Replays(r, infos, n, it)
    BY <1>2
  <2> DEFINE new == [D \in SUBSET (1 .. n + 1) |->
                       IF n + 1 \in D THEN Observe(it[D \ {n + 1}], infos[n + 1]) ELSE it[D]]
  <2>2. ASSUME NEW D \in SUBSET (1 .. n + 1)
        PROVE  new[D] = IF D = {} THEN r ELSE Observe(new[D \ {Max(D)}], infos[Max(D)])
    <3>1. CASE n + 1 \in D
      <4>1. Max(D) = n + 1 /\ D # {}
        BY <3>1, MaxOf
      <4>2. n + 1 \notin D \ {n + 1} /\ D \ {n + 1} \in SUBSET (1 .. n + 1)
        OBVIOUS
      <4>3. new[D \ {n + 1}] = it[D \ {n + 1}]
        BY <4>2
      <4>4. new[D] = Observe(it[D \ {n + 1}], infos[n + 1])
        BY <3>1
      <4> HIDE DEF new
      <4> QED
        BY <4>1, <4>3, <4>4
    <3>2. CASE n + 1 \notin D
      <4>1. D \in SUBSET (1 .. n)
        <5> SUFFICES ASSUME NEW x \in D PROVE x \in 1 .. n
          OBVIOUS
        <5>1. x \in 1 .. n + 1 /\ x # n + 1
          BY <3>2
        <5> QED
          BY <5>1
      <4>2. new[D] = it[D]
        BY <3>2
      <4>3. D \ {Max(D)} \in SUBSET (1 .. n + 1) /\ n + 1 \notin D \ {Max(D)}
        BY <3>2
      <4>4. new[D \ {Max(D)}] = it[D \ {Max(D)}]
        BY <4>3
      <4>5. it[D] = IF D = {} THEN r ELSE Observe(it[D \ {Max(D)}], infos[Max(D)])
        BY <2>1, <4>1 DEF Replays
      <4> HIDE DEF new
      <4> QED
        BY <4>2, <4>4, <4>5
    <3> QED
      BY <3>1, <3>2
  <2>3. new = [D \in SUBSET (1 .. n + 1) |-> new[D]]
    OBVIOUS
  <2> HIDE DEF new
  <2>4. Replays(r, infos, n + 1, new)
    BY <2>2, <2>3 DEF Replays
  <2> QED
    BY <2>4
<1> HIDE DEF T
<1>3. \A n \in Nat : n \in T
  BY <1>1, <1>2, NatSetInduction
<1> QED
  BY <1>3 DEF T

\* One event more: the copy before it and the event decide.
LEMMA ReplayNext ==
  ASSUME NEW r, NEW infos, NEW n \in Nat, NEW it, Replays(r, infos, n, it),
         NEW k \in Nat, k + 1 <= n
  PROVE  it[1 .. k + 1] = Observe(it[1 .. k], infos[k + 1])
<1> DEFINE D == 1 .. k + 1
<1>1. D \in SUBSET (1 .. n) /\ k + 1 \in D /\ D # {}
  OBVIOUS
<1>2. Max(D) = k + 1
  BY <1>1, MaxOf
<1>3. D \ {k + 1} = 1 .. k
  OBVIOUS
<1>4. it[D] = Observe(it[D \ {Max(D)}], infos[Max(D)])
  <2> HIDE DEF D
  <2> QED
    BY <1>1 DEF Replays
<1> HIDE DEF D
<1> QED
  BY <1>2, <1>3, <1>4 DEF D

\* Lists that agree up to n give the same copy.
LEMMA ReplaySame ==
  ASSUME NEW r, NEW a, NEW b, NEW n \in Nat, NEW m \in Nat, n <= m, NEW f, NEW g,
         Replays(r, a, n, f), Replays(r, b, m, g), \A i \in 1 .. n : a[i] = b[i]
  PROVE  f[1 .. n] = g[1 .. n]
<1> DEFINE T == {k \in Nat : k <= n => f[1 .. k] = g[1 .. k]}
<1>1. 0 \in T
  <2>1. 1 .. 0 = {} /\ {} \in SUBSET (1 .. n) /\ {} \in SUBSET (1 .. m)
    OBVIOUS
  <2>2. f[{}] = r /\ g[{}] = r
    BY <2>1 DEF Replays
  <2> QED
    BY <2>1, <2>2
<1>2. ASSUME NEW k \in Nat, k \in T
      PROVE  k + 1 \in T
  <2> SUFFICES ASSUME k + 1 <= n
               PROVE  f[1 .. k + 1] = g[1 .. k + 1]
    OBVIOUS
  <2>1. f[1 .. k] = g[1 .. k] /\ k + 1 \in 1 .. n /\ k + 1 <= m
    BY <1>2
  <2>2. f[1 .. k + 1] = Observe(f[1 .. k], a[k + 1])
    BY ReplayNext
  <2>3. g[1 .. k + 1] = Observe(g[1 .. k], b[k + 1])
    BY <2>1, ReplayNext
  <2> QED
    BY <2>1, <2>2, <2>3
<1> HIDE DEF T
<1>3. \A k \in Nat : k \in T
  BY <1>1, <1>2, NatSetInduction
<1> QED
  BY <1>3 DEF T

\* With no events the copy stays, and an event more is observed last.
LEMMA FoldEvents ==
  ASSUME NEW r, NEW infos \in Seq(Info), NEW e \in Info
  PROVE  /\ FoldLeft(Observe, r, << >>) = r
         /\ FoldLeft(Observe, r, Append(infos, e)) = Observe(FoldLeft(Observe, r, infos), e)
<1> DEFINE n == Len(infos)
           b == Append(infos, e)
           z == CHOOSE it : Replays(r, << >>, 0, it)
           f == CHOOSE it : Replays(r, infos, n, it)
           g == CHOOSE it : Replays(r, b, n + 1, it)
<1>1. n \in Nat /\ b \in Seq(Info) /\ Len(b) = n + 1 /\ b[n + 1] = e
      /\ \A i \in 1 .. n : infos[i] = b[i]
  OBVIOUS
<1> HIDE DEF n, b
<1>2. Replays(r, << >>, 0, z) /\ Replays(r, infos, n, f) /\ Replays(r, b, n + 1, g)
  <2>1. 0 \in Nat /\ n + 1 \in Nat
    BY <1>1
  <2>2. \E it : Replays(r, << >>, 0, it)
    BY <2>1, ReplaysExists
  <2>3. \E it : Replays(r, infos, n, it)
    BY <1>1, ReplaysExists
  <2>4. \E it : Replays(r, b, n + 1, it)
    BY <2>1, ReplaysExists
  <2> QED
    BY <2>2, <2>3, <2>4
<1>3. FoldLeft(Observe, r, << >>) = z[1 .. 0]
  <2>1. << >> \in Seq(Info) /\ Len(<< >>) = 0
    OBVIOUS
  <2> QED
    BY <2>1, FoldIs
<1>4. FoldLeft(Observe, r, infos) = f[1 .. n] /\ FoldLeft(Observe, r, b) = g[1 .. n + 1]
  BY <1>1, FoldIs DEF n
<1> HIDE DEF z, f, g
<1>5. z[1 .. 0] = r
  <2>1. 1 .. 0 = {}
    OBVIOUS
  <2> QED
    BY <1>2, <2>1 DEF Replays
<1>6. g[1 .. n + 1] = Observe(g[1 .. n], b[n + 1])
  BY <1>1, <1>2, ReplayNext
<1>7. f[1 .. n] = g[1 .. n]
  BY <1>1, <1>2, ReplaySame
<1> QED
  BY <1>1, <1>3, <1>4, <1>5, <1>6, <1>7 DEF b

\* Nothing handed out changes nothing.
LEMMA FoldNone ==
  ASSUME NEW r
  PROVE  FoldLeft(Observe, r, << >>) = r
<1>1. OrderInfo("ADD", NoId, FALSE, 0, AnyPrice) \in Info
  BY FeedAssumption DEF OrderInfo, Info, AnyPrice
<1>2. << >> \in Seq(Info)
  OBVIOUS
<1> QED
  BY <1>1, <1>2, FoldEvents

-----------------------------------------------------------------------------
(* Every event tells the consumer what happened to one order.              *)

\* Two maps agree but for one key.
SameBut(f, g, k) ==
  DOMAIN g \ {k} = DOMAIN f \ {k} /\ \A x \in DOMAIN f \ {k} : g[x] = f[x]

\* One order of the book changes, and its entry in the copy: the rest agrees.
LEMMA MirrorChange ==
  ASSUME NEW r, NEW M, NEW q, NEW N, NEW s \in BOOLEAN, NEW id, Mirrors(r, M),
         id \notin DOMAIN M[~s], N[~s] = M[~s],
         SameBut(M[s], N[s], id), SameBut(r, q, id),
         id \in DOMAIN q <=> id \in LiveIn(N[s]),
         id \in LiveIn(N[s]) => q[id] = Entry(s, N[s][id])
  PROVE  Mirrors(q, N)
<1>1. LiveIn(N[~s]) = LiveIn(M[~s]) /\ id \notin LiveIn(M[~s])
  BY DEF LiveIn
<1>2. LiveIn(N[s]) \ {id} = LiveIn(M[s]) \ {id}
  BY DEF LiveIn, SameBut
<1>3. DOMAIN r = LiveIn(M[~s]) \cup LiveIn(M[s])
  BY DEF Mirrors
<1>4. DOMAIN q = LiveIn(N[~s]) \cup LiveIn(N[s])
  BY <1>1, <1>2, <1>3 DEF SameBut
<1>5. DOMAIN q = LiveIn(N[FALSE]) \cup LiveIn(N[TRUE])
  BY <1>4
<1>6. ASSUME NEW x \in LiveIn(N[s])
      PROVE  q[x] = Entry(s, N[s][x])
  <2>1. CASE x = id
    BY <1>6, <2>1
  <2>2. CASE x # id
    <3>1. x \in LiveIn(M[s]) /\ x \in DOMAIN M[s] \ {id} /\ x \in DOMAIN r \ {id}
      BY <1>2, <1>3, <1>6, <2>2 DEF LiveIn
    <3>2. r[x] = Entry(s, M[s][x])
      BY <3>1 DEF Mirrors
    <3> QED
      BY <3>1, <3>2 DEF SameBut
  <2> QED
    BY <2>1, <2>2
<1>7. ASSUME NEW x \in LiveIn(N[~s])
      PROVE  q[x] = Entry(~s, N[~s][x])
  <2>1. x \in LiveIn(M[~s]) /\ x \in DOMAIN r \ {id}
    BY <1>1, <1>3, <1>7
  <2>2. r[x] = Entry(~s, M[~s][x])
    BY <2>1 DEF Mirrors
  <2> QED
    BY <2>1, <2>2 DEF SameBut
<1>8. \A t \in BOOLEAN : t = s \/ t = ~s
  OBVIOUS
<1> QED
  BY <1>5, <1>6, <1>7, <1>8 DEF Mirrors

\* An order leaves the book: the consumer hears of a cancel, unless it has
\* heard before that nothing is left.
LEMMA MirrorRemove ==
  ASSUME NEW r, NEW M, NEW N, NEW s \in BOOLEAN, NEW id, Mirrors(r, M),
         id \notin DOMAIN M[~s], N[~s] = M[~s],
         DOMAIN N[s] = DOMAIN M[s] \ {id},
         \A x \in DOMAIN M[s] \ {id} : N[s][x] = M[s][x]
  PROVE  /\ Mirrors(Erase(r, id), N)
         /\ id \notin LiveIn(M[s]) => Mirrors(r, N)
<1>1. id \notin LiveIn(N[s]) /\ id \notin LiveIn(M[~s])
  BY DEF LiveIn
<1>2. SameBut(M[s], N[s], id) /\ SameBut(r, r, id)
  BY DEF SameBut
<1>3. Mirrors(Erase(r, id), N)
  <2>1. SameBut(r, Erase(r, id), id) /\ id \notin DOMAIN Erase(r, id)
    BY DEF SameBut, Erase, Restrict
  <2> QED
    BY <1>1, <1>2, <2>1, MirrorChange
<1>4. ASSUME id \notin LiveIn(M[s])
      PROVE  Mirrors(r, N)
  <2>1. id \notin DOMAIN r
    BY <1>1, <1>4 DEF Mirrors
  <2> QED
    BY <1>1, <1>2, <2>1, MirrorChange
<1> QED
  BY <1>3, <1>4

\* An order comes to rest and is reported.
LEMMA MirrorAdd ==
  ASSUME NEW r, NEW M, NEW N, NEW s \in BOOLEAN, NEW id, NEW o, Mirrors(r, M),
         \A t \in BOOLEAN : id \notin DOMAIN M[t], DOMAIN M = BOOLEAN,
         Remaining(o) > 0, N = [M EXCEPT ![s] = Put(@, id, o)], NEW e, e = Entry(s, o)
  PROVE  Mirrors(Put(r, id, e), N)
<1>1. N[~s] = M[~s] /\ N[s] = Put(M[s], id, o)
  OBVIOUS
<1>2. SameBut(M[s], N[s], id) /\ id \in DOMAIN N[s] /\ N[s][id] = o
  BY <1>1 DEF Put, SameBut
<1>3. SameBut(r, Put(r, id, e), id) /\ id \in DOMAIN Put(r, id, e) /\ Put(r, id, e)[id] = e
  BY DEF Put, SameBut
<1>4. id \in LiveIn(N[s]) /\ id \notin DOMAIN M[~s]
  BY <1>2 DEF LiveIn
<1> QED
  BY <1>1, <1>2, <1>3, <1>4, MirrorChange

\* An order is filled and the execution is reported.
LEMMA MirrorFill ==
  ASSUME NEW r, NEW M, NEW N, NEW s \in BOOLEAN, NEW id, NEW qty \in Nat, NEW p,
         Mirrors(r, M), DOMAIN M = BOOLEAN,
         id \in DOMAIN M[s], id \notin DOMAIN M[~s], M[s][id] \in Order,
         qty <= Remaining(M[s][id]), N = [M EXCEPT ![s][id] = OrderFilled(@, qty)]
  PROVE  Mirrors(Observe(r, OrderInfo("EXEC", id, s, qty, p)), N)
<1> DEFINE o == M[s][id]
           e == OrderInfo("EXEC", id, s, qty, p)
<1> SUFFICES ASSUME NEW q, q = Observe(r, e)
             PROVE  Mirrors(q, N)
  OBVIOUS
<1>1. N[~s] = M[~s] /\ DOMAIN N[s] = DOMAIN M[s] /\ N[s][id] = OrderFilled(o, qty)
      /\ \A x \in DOMAIN M[s] \ {id} : N[s][x] = M[s][x]
  OBVIOUS
<1>2. /\ Remaining(OrderFilled(o, qty)) = Remaining(o) - qty
      /\ OrderFilled(o, qty).price = o.price
      /\ Remaining(o) \in Int
  BY DEF Order, OrderFilled, Remaining
<1>3. id \in DOMAIN r <=> id \in LiveIn(M[s])
  BY DEF Mirrors, LiveIn
<1>4. id \in DOMAIN r => r[id] = Entry(s, o)
  BY <1>3 DEF Mirrors
<1>5. e.event = "EXEC" /\ e.odid = id /\ e.quantity = qty
  BY DEF OrderInfo
<1> HIDE DEF e
<1>6. q = IF id \in DOMAIN r
          THEN IF r[id].quantity - qty = 0 THEN Erase(r, id)
               ELSE [r EXCEPT ![id].quantity = r[id].quantity - qty]
          ELSE r
  BY <1>5 DEF Observe
<1>7. /\ SameBut(r, q, id)
      /\ id \in DOMAIN q <=> id \in LiveIn(N[s])
      /\ id \in LiveIn(N[s]) => q[id] = Entry(s, N[s][id])
  <2>1. CASE id \notin DOMAIN r
    <3>1. id \notin LiveIn(N[s])
      BY <1>1, <1>2, <1>3, <2>1 DEF LiveIn
    <3> QED
      BY <1>6, <2>1, <3>1 DEF SameBut
  <2>2. CASE id \in DOMAIN r
    <3>1. r[id].quantity = Remaining(o) /\ r[id] = [is_sell |-> s, quantity |-> Remaining(o),
                                                    price |-> o.price]
      BY <1>4, <2>2 DEF Entry
    <3>2. CASE Remaining(o) = qty
      <4>1. q = Erase(r, id)
        BY <1>2, <1>6, <2>2, <3>1, <3>2
      <4>2. DOMAIN q = DOMAIN r \ {id} /\ \A x \in DOMAIN r \ {id} : q[x] = r[x]
        BY <4>1 DEF Erase, Restrict
      <4>3. id \notin LiveIn(N[s])
        BY <1>1, <1>2, <3>2 DEF LiveIn
      <4> QED
        BY <4>2, <4>3 DEF SameBut
    <3>3. CASE Remaining(o) # qty
      <4>1. q = [r EXCEPT ![id].quantity = Remaining(o) - qty]
        BY <1>2, <1>6, <2>2, <3>1, <3>3
      <4>2. /\ DOMAIN q = DOMAIN r /\ \A x \in DOMAIN r \ {id} : q[x] = r[x]
            /\ q[id] = [is_sell |-> s, quantity |-> Remaining(o) - qty, price |-> o.price]
        BY <2>2, <3>1, <4>1
      <4>3. id \in LiveIn(N[s])
        BY <1>1, <1>2, <3>3 DEF LiveIn
      <4>4. q[id] = Entry(s, N[s][id])
        BY <1>1, <1>2, <4>2 DEF Entry
      <4> QED
        BY <2>2, <4>2, <4>3, <4>4 DEF SameBut
    <3> QED
      BY <3>2, <3>3
  <2> QED
    BY <2>1, <2>2
<1>8. SameBut(M[s], N[s], id) /\ N[~s] = M[~s]
  BY <1>1 DEF SameBut
<1> QED
  BY <1>7, <1>8, MirrorChange

-----------------------------------------------------------------------------
(* Every step tells the consumer what it needs to know.                    *)

\* A handler reports nothing.
LEMMA ReportNone ==
  ASSUME IInv, ToldInv, pc # "idle", pc' # "idle", UNCHANGED <<events, events_, replica>>
  PROVE  Heard' = Heard /\ events_' \in Seq(Info)
BY DEF ToldInv, Heard, Told

\* A handler reports one event.
LEMMA ReportOne ==
  ASSUME IInv, FreshIds, ToldInv, pc # "idle", pc' # "idle", UNCHANGED <<events_, replica>>,
         NEW e \in Info, Emit(<<e>>)
  PROVE  Heard' = Observe(Heard, e) /\ events_' \in Seq(Info)
<1>1. events \in Seq(Info) /\ events_ \in Seq(Info)
  BY DEF IInv, TypeOK, ToldInv
<1>2. events' = events \o <<e>>
  BY DEF Emit, mergeEvents, FreshIds
<1>3. events_ \o events \in Seq(Info) /\ events_ \o (events \o <<e>>) = Append(events_ \o events, e)
  BY <1>1
<1>4. Told = events_ \o events /\ Told' = Append(Told, e) /\ Told \in Seq(Info)
  BY <1>2, <1>3 DEF Told
<1> HIDE DEF Told
<1> QED
  BY <1>1, <1>4, FoldEvents DEF Heard

\* A fill is reported as an execution.
LEMMA FillTold ==
  ASSUME IInv, FreshIds, ToldInv, Fill, UNCHANGED <<events_, replica>>
  PROVE  ToldInv'
<1> USE DEF IInv
<1> DEFINE id  == levels[side][cur].orders[iter]
           o   == order_map[side][id]
           qty == MinOf(Remaining(act), Remaining(o))
           e   == OrderInfo("EXEC", id, side, qty, cur)
<1>1. /\ pc = "fill" /\ pc' = pc /\ Emit(<<e>>)
      /\ order_map' = [order_map EXCEPT ![side][id] = OrderFilled(@, qty)]
  BY DEF Fill
<1>2. side \in BOOLEAN /\ DOMAIN order_map = BOOLEAN /\ cur \in Price
  BY DEF TypeOK
<1>3. id \in DOMAIN order_map[side] /\ o \in Order /\ id \in OrderId
  BY FillsKnown
<1>4. Remaining(o) \in Nat
  BY <1>2, <1>3, SidesOK DEF SideOK, Remaining, Order
<1>5. qty \in Nat /\ qty <= Remaining(o)
  BY <1>4, ActNat, MinOfNat
<1> HIDE DEF id, qty
<1>6. e \in Info
  BY <1>2, <1>3, <1>5 DEF Info, OrderInfo
<1>7. Heard' = Observe(Heard, e) /\ events_' \in Seq(Info)
  <2> HIDE DEF e
  <2> QED
    BY <1>1, <1>6, ReportOne
<1>8. id \notin DOMAIN order_map[~side]
  BY <1>2, <1>3 DEF FreshIds
<1>9. Mirrors(Heard, order_map)
  BY DEF ToldInv
<1>10. \A r : Mirrors(r, order_map) => Mirrors(Observe(r, e), order_map')
  BY <1>1, <1>2, <1>3, <1>5, <1>8, MirrorFill
<1> QED
  BY <1>7, <1>9, <1>10 DEF ToldInv

\* An order leaves the book with a cancel event.
LEMMA CancelTold ==
  ASSUME IInv, FreshIds, NEW r, Mirrors(r, order_map), NEW s \in BOOLEAN,
         NEW id \in DOMAIN order_map[s], NEW quantity, NEW price, removeOrder(s, id)
  PROVE  Mirrors(Observe(r, OrderInfo("CANCEL", id, s, quantity, price)), order_map')
<1>1. Observe(r, OrderInfo("CANCEL", id, s, quantity, price)) = Erase(r, id)
  BY DEF Observe, OrderInfo
<1>2. id \notin DOMAIN order_map[~s]
  BY DEF FreshIds
<1>3. /\ order_map'[~s] = order_map[~s]
      /\ DOMAIN order_map'[s] = DOMAIN order_map[s] \ {id}
      /\ \A x \in DOMAIN order_map[s] \ {id} : order_map'[s][x] = order_map[s][x]
  BY RemoveOrderStep DEF IInv
<1> QED
  BY <1>1, <1>2, <1>3, MirrorRemove

\* An order ahead of a trade is swept and reported as cancelled.
LEMMA SweepTold ==
  ASSUME IInv, FreshIds, ToldInv, Sweep, UNCHANGED <<events_, replica>>
  PROVE  ToldInv'
<1> USE DEF IInv
<1>1. PICK p \in DOMAIN levels[side] :
        /\ removeOrder(side, Head(levels[side][p].orders))
        /\ Emit(<<OrderInfo("CANCEL", Head(levels[side][p].orders), side,
                            order_map[side][Head(levels[side][p].orders)].quantity, p)>>)
  BY DEF Sweep
<1>2. pc = "sweep" /\ pc' = pc
  BY DEF Sweep
<1> DEFINE id == Head(levels[side][p].orders)
           e  == OrderInfo("CANCEL", id, side, order_map[side][id].quantity, p)
<1>3. side \in BOOLEAN /\ p \in Price
  BY DEF TypeOK, IsMap
<1>4. id \in DOMAIN order_map[side]
  <2>1. levels[side][p].orders \in Seq(OrderId) /\ levels[side][p].orders # << >>
    BY <1>3 DEF TypeOK, IsMap, L3PriceLevel, BookConsistent, SideConsistent
  <2>2. id = levels[side][p].orders[1] /\ 1 \in DOMAIN levels[side][p].orders
    BY <2>1
  <2> QED
    BY <2>2, <1>3 DEF BookConsistent, SideConsistent
<1> HIDE DEF id
<1>5. id \in OrderId /\ order_map[side][id].quantity \in Int
  BY <1>3, <1>4 DEF TypeOK, IsMap, Order
<1>6. e \in Info
  BY <1>3, <1>5 DEF Info, OrderInfo
<1>7. removeOrder(side, id) /\ Emit(<<e>>)
  BY <1>1 DEF id
<1>8. Mirrors(Heard, order_map)
  BY DEF ToldInv
<1>9. \A r : Mirrors(r, order_map) => Mirrors(Observe(r, e), order_map')
  BY <1>3, <1>4, <1>7, CancelTold
<1> HIDE DEF e
<1>10. Heard' = Observe(Heard, e) /\ events_' \in Seq(Info)
  BY <1>2, <1>6, <1>7, ReportOne
<1> QED
  BY <1>8, <1>9, <1>10 DEF ToldInv

\* What is left of a new order rests and is reported.
LEMMA RestTold ==
  ASSUME IInv, FreshIds, ToldInv, RestOrder, UNCHANGED <<events_, replica>>
  PROVE  ToldInv'
<1> USE DEF IInv
<1> DEFINE s  == act.is_sell
           id == act.odid
           o  == [quantity |-> act.quantity, price |-> act.price,
                  filled_quantity |-> act.filled_quantity]
           e  == OrderInfo("ADD", id, s, Remaining(act), act.price)
<1>1. /\ pc = "uncross" /\ pc' = "done"
      /\ IF Remaining(act) = 0 THEN UNCHANGED <<levels, order_map, events>>
         ELSE addOrder(s, id, o) /\ Emit(<<e>>)
  BY DEF RestOrder
<1>2. CASE Remaining(act) = 0
  <2>1. UNCHANGED <<order_map, events>>
    BY <1>1, <1>2
  <2> QED
    BY <1>1, <2>1, ReportNone DEF ToldInv
<1>3. CASE Remaining(act) # 0
  <2>1. act \in Action /\ Remaining(act) \in Nat /\ DOMAIN order_map = BOOLEAN
    BY ActNat DEF TypeOK
  <2>2. Remaining(o) = Remaining(act) /\ Remaining(act) > 0 /\ o.price = act.price
    BY <1>3, <2>1 DEF Remaining
  <2>3. act.kind = "ADD" /\ id \in OrderId
    BY <1>1 DEF ActInv, FreshIds
  <2>4. \A t \in BOOLEAN : id \notin DOMAIN order_map[t]
    BY <1>1, <2>3 DEF FreshIds
  <2>5. s \in BOOLEAN /\ e \in Info
    BY <2>1, <2>3 DEF Action, Info, OrderInfo
  <2>6. addOrder(s, id, o) /\ Emit(<<e>>)
    BY <1>1, <1>3
  <2>7. order_map' = [order_map EXCEPT ![s] = Put(@, id, o)]
    BY <2>4, <2>5, <2>6 DEF addOrder, existOrder
  <2>8. \A r : Observe(r, e) = Put(r, id, Entry(s, o))
    <3>1. e.event = "ADD" /\ e.odid = id /\ id # NoId
          /\ [is_sell |-> e.is_sell, quantity |-> e.quantity, price |-> e.price] = Entry(s, o)
      BY <2>2, <2>3, LevelAssumption DEF OrderInfo, Entry
    <3> HIDE DEF e
    <3> QED
      BY <3>1 DEF Observe
  <2> HIDE DEF e, o
  <2>9. Heard' = Observe(Heard, e) /\ events_' \in Seq(Info)
    BY <1>1, <2>5, <2>6, ReportOne
  <2>10. \A r : Mirrors(r, order_map) => Mirrors(Put(r, id, Entry(s, o)), order_map')
    BY <2>1, <2>2, <2>4, <2>5, <2>7, MirrorAdd
  <2> QED
    BY <2>8, <2>9, <2>10 DEF ToldInv
<1> QED
  BY <1>2, <1>3

\* A guess is reported without an id, and the consumer keeps nothing of it.
LEMMA GuessTold ==
  ASSUME IInv, FreshIds, ToldInv, TradeRest, UNCHANGED <<events_, replica>>
  PROVE  ToldInv'
<1> USE DEF IInv
<1> DEFINE a == OrderInfo("ADD", NoId, side, Remaining(act), act.price)
           e == OrderInfo("EXEC", NoId, side, Remaining(act), act.price)
<1>1. /\ pc = "tradeRest" /\ pc' # "idle" /\ UNCHANGED order_map
      /\ Emit(<<a, e>>) \/ UNCHANGED events
  BY DEF TradeRest
<1>2. Heard' = Heard /\ events_' \in Seq(Info)
  <2>1. CASE UNCHANGED events
    BY <1>1, <2>1, ReportNone
  <2>2. CASE Emit(<<a, e>>)
    <3>1. act \in Action /\ Remaining(act) \in Nat /\ side \in BOOLEAN
      BY ActNat DEF TypeOK
    <3>2. a \in Info /\ e \in Info
      BY <3>1 DEF Action, Info, OrderInfo
    <3>3. events \in Seq(Info) /\ events_ \in Seq(Info)
      BY DEF TypeOK, ToldInv
    <3>4. NoId \notin DOMAIN Heard
      <4>1. DOMAIN Heard = LiveIn(order_map[FALSE]) \cup LiveIn(order_map[TRUE])
        BY DEF ToldInv, Mirrors
      <4>2. \A s \in BOOLEAN : LiveIn(order_map[s]) \subseteq OrderId
        BY DEF LiveIn, TypeOK, IsMap
      <4> QED
        BY <4>1, <4>2, LevelAssumption
    <3>5. Observe(Heard, a) = Heard /\ Observe(Heard, e) = Heard
      BY <3>4 DEF Observe, OrderInfo
    <3> HIDE DEF a, e
    <3>6. events' = events \o <<a, e>>
      BY <2>2 DEF Emit, mergeEvents, FreshIds
    <3>7. /\ events_ \o events \in Seq(Info)
          /\ events_ \o (events \o <<a, e>>) = Append(Append(events_ \o events, a), e)
      BY <3>2, <3>3
    <3>8. /\ Told \in Seq(Info) /\ Append(Told, a) \in Seq(Info)
          /\ Told' = Append(Append(Told, a), e)
      <4>1. Told = events_ \o events /\ Told' = events_ \o (events \o <<a, e>>)
        BY <1>1, <3>6 DEF Told
      <4>2. Told \in Seq(Info) /\ Told' = Append(Append(Told, a), e)
        BY <3>7, <4>1
      <4> QED
        BY <3>2, <4>2
    <3> HIDE DEF Told
    <3>9. /\ FoldLeft(Observe, replica, Append(Told, a)) = Observe(Heard, a)
          /\ FoldLeft(Observe, replica, Append(Append(Told, a), e))
               = Observe(FoldLeft(Observe, replica, Append(Told, a)), e)
      BY <3>2, <3>8, FoldEvents DEF Heard
    <3> QED
      BY <3>3, <3>5, <3>8, <3>9 DEF Heard
  <2> QED
    BY <1>1, <2>1, <2>2
<1> QED
  BY <1>1, <1>2 DEF ToldInv

\* A spent order leaves without an event: its last fill has told all.
LEMMA RemoveTold ==
  ASSUME IInv, FreshIds, SpentInv, ToldInv, RemoveFilled, UNCHANGED <<events_, replica>>
  PROVE  ToldInv'
<1> USE DEF IInv
<1> DEFINE id == Head(orders_to_remove)
<1>1. /\ pc = "remove" /\ pc' = pc /\ UNCHANGED events /\ orders_to_remove # << >>
      /\ removeOrder(side, id)
  BY DEF RemoveFilled
<1>2. side \in BOOLEAN /\ orders_to_remove \in Seq(OrderId)
  BY DEF TypeOK
<1>3. 1 \in DOMAIN orders_to_remove /\ id = orders_to_remove[1]
  BY <1>1, <1>2
<1> HIDE DEF id
<1>4. Heard' = Heard /\ events_' \in Seq(Info) /\ Mirrors(Heard, order_map)
  BY <1>1, ReportNone DEF ToldInv
<1>5. CASE id \notin DOMAIN order_map[side]
  BY <1>1, <1>4, <1>5 DEF removeOrder, existOrder, ToldInv
<1>6. CASE id \in DOMAIN order_map[side]
  <2>1. id \notin LiveIn(order_map[side])
    BY <1>1, <1>3, <1>6 DEF SpentInv, LiveIn
  <2>2. id \notin DOMAIN order_map[~side]
    BY <1>2, <1>6 DEF FreshIds
  <2>3. /\ order_map'[~side] = order_map[~side]
        /\ DOMAIN order_map'[side] = DOMAIN order_map[side] \ {id}
        /\ \A x \in DOMAIN order_map[side] \ {id} : order_map'[side][x] = order_map[side][x]
    BY <1>1, <1>2, RemoveOrderStep
  <2>4. Mirrors(Heard, order_map')
    BY <1>2, <1>4, <2>1, <2>2, <2>3, MirrorRemove
  <2> QED
    BY <1>4, <2>4 DEF ToldInv
<1> QED
  BY <1>5, <1>6

\* The steps of a handler.
LEMMA HandlerTold ==
  ASSUME IInv, FreshIds, SpentInv, ToldInv, HandlerStep, pc # "done",
         UNCHANGED <<events_, replica>>
  PROVE  ToldInv'
<1>1. CASE Fill \/ Sweep \/ RestOrder \/ TradeRest \/ RemoveFilled
  BY <1>1, FillTold, SweepTold, RestTold, GuessTold, RemoveTold
<1>2. CASE \/ MatchPendingLiqAdd \/ MatchPendingLiqAddDone \/ Uncross \/ FillDone
           \/ RemoveFilledDone \/ TradeMatch \/ SweepDone
  <2>1. pc # "idle" /\ pc' # "idle" /\ UNCHANGED <<order_map, events>>
    BY <1>2 DEF MatchPendingLiqAdd, MatchPendingLiqAddDone, Uncross, WalkLevel, FillDone,
       RemoveFilledDone, TradeMatch, SweepDone, sideVars
  <2> QED
    BY <2>1, ReportNone DEF ToldInv
<1> QED
  BY <1>1, <1>2 DEF HandlerStep, Return

\* A new order or a trade arrives: nothing is reported yet.
LEMMA ArriveTold ==
  ASSUME ToldInv, pc = "idle", pc' # "idle", events' = << >>,
         UNCHANGED <<order_map, events_, replica>>
  PROVE  ToldInv'
<1>1. events_ \in Seq(Info) /\ events_ \o << >> = events_
  BY DEF ToldInv
<1>2. Told' = Told
  BY <1>1 DEF Told
<1> QED
  BY <1>1, <1>2 DEF ToldInv, Heard

\* A cancel message, and its one event when it removes the order.
LEMMA CancelMessageTold ==
  ASSUME IInv, FreshIds, ToldInv, NEW m \in StreamMessage, processOrderCancelMessage(m),
         UNCHANGED <<events_, replica>>
  PROVE  ToldInv'
<1> DEFINE left == m.quantity - MatchedRemove(pending_liq_remove_qty[m.is_sell],
                                              m.quantity, m.price)
           e == OrderInfo("CANCEL", m.odid, m.is_sell, left, m.price)
<1>1. pc = "idle" /\ pc' = "done"
  BY DEF processOrderCancelMessage
<1>2. CASE ~CancelRemoves(m.is_sell, m.odid, m.quantity, m.price)
  <2>1. events' = << >> /\ UNCHANGED order_map
    BY <1>2 DEF processOrderCancelMessage, processOrderCancel
  <2> QED
    BY <1>1, <2>1, ArriveTold
<1>3. CASE CancelRemoves(m.is_sell, m.odid, m.quantity, m.price)
  <2>1. events' = <<e>> /\ removeOrder(m.is_sell, m.odid)
    BY <1>3 DEF processOrderCancelMessage, processOrderCancel
  <2>2. m.odid \in DOMAIN order_map[m.is_sell] /\ m.is_sell \in BOOLEAN /\ m.odid \in OrderId
        /\ m.price \in Price /\ m.quantity \in Nat
    BY <1>3, LevelAssumption DEF CancelRemoves, existOrder, StreamMessage
  <2>3. left \in Int
    BY <2>2 DEF MatchedRemove, MinOf, IInv, TypeOK, IsMap
  <2> HIDE DEF left
  <2>4. e \in Info
    BY <2>2, <2>3 DEF Info, OrderInfo
  <2>5. \A r : Mirrors(r, order_map) => Mirrors(Observe(r, e), order_map')
    BY <2>1, <2>2, CancelTold
  <2> HIDE DEF e
  <2>6. events_ \in Seq(Info) /\ events_ \o <<e>> = Append(events_, e)
    BY <2>4 DEF ToldInv
  <2>7. Told = events_ /\ Told' = Append(events_, e)
    BY <1>1, <2>1, <2>6 DEF Told
  <2>8. Heard' = Observe(Heard, e)
    BY <2>4, <2>6, <2>7, FoldEvents DEF Heard
  <2> QED
    BY <2>5, <2>6, <2>8 DEF ToldInv
<1> QED
  BY <1>2, <1>3

\* The book starts empty and so does the copy.
LEMMA InitTold == BMInit => ClosedFirst /\ FreshIds /\ SpentInv /\ ToldInv
<1> SUFFICES ASSUME BMInit PROVE ClosedFirst /\ FreshIds /\ SpentInv /\ ToldInv
  OBVIOUS
<1>1. /\ pc = "idle" /\ act.kind = "NONE" /\ \A s \in BOOLEAN : order_map[s] = EmptyMap
      /\ order_stream = << >> /\ events_ = << >> /\ replica = EmptyMap
  BY DEF BMInit, LLInit, Init, ExchangeInit, Idle
<1>2. DOMAIN EmptyMap = {} /\ LiveIn(EmptyMap) = {}
  BY DEF EmptyMap, LiveIn
<1>3. ClosedFirst /\ FreshIds /\ SpentInv
  <2>1. DOMAIN order_stream = {} /\ \A s \in BOOLEAN : DOMAIN order_map[s] = {}
    BY <1>1, <1>2
  <2> QED
    BY <1>1, <2>1 DEF ClosedFirst, FreshIds, SpentInv
<1>4. Heard = EmptyMap
  <2>1. Told = << >>
    BY <1>1 DEF Told
  <2> QED
    BY <1>1, <2>1, FoldNone DEF Heard
<1>5. Mirrors(Heard, order_map)
  BY <1>1, <1>2, <1>4 DEF Mirrors
<1> QED
  BY <1>1, <1>3, <1>5 DEF ToldInv

\* Every step of the BookManager keeps the consumer informed.
LEMMA ToldStep ==
  ASSUME IInv, ExchangeTyped, "MODIFY" \notin Requests, FreshIds, SpentInv, ToldInv,
         [BMNext]_bmVars
  PROVE  ToldInv'
<1>1. CASE UNCHANGED <<pc, events, order_map, events_, replica>>
  BY <1>1 DEF ToldInv, Heard, Told
<1>2. CASE pc # "done" /\ LLNext /\ UNCHANGED <<events_, replica>>
  <2>1. CASE ExchangeStep /\ UNCHANGED vars
    BY <1>1, <1>2, <2>1 DEF vars, sideVars
  <2>2. CASE ReceiveOrder
    <3> DEFINE m == Head(order_stream)
    <3>1. m \in StreamMessage
      BY <2>2 DEF ReceiveOrder, ExchangeTyped
    <3>2. m.type # "MODIFY"
      BY <3>1, MessageTyped
    <3>3. processOrderAddMessage(m) \/ processOrderCancelMessage(m)
      BY <2>2, <3>2 DEF ReceiveOrder
    <3> HIDE DEF m
    <3>4. CASE processOrderAddMessage(m)
      <4>1. pc = "idle" /\ pc' # "idle" /\ events' = << >> /\ UNCHANGED order_map
        BY <3>4 DEF processOrderAddMessage, sideVars
      <4> QED
        BY <1>2, <4>1, ArriveTold
    <3> QED
      BY <1>2, <3>1, <3>3, <3>4, CancelMessageTold
  <2>3. CASE ReceiveTrade
    <3>1. pc = "idle" /\ pc' # "idle" /\ events' = << >> /\ UNCHANGED order_map
      BY <2>3 DEF ReceiveTrade, processTradeMessage, sideVars
    <3> QED
      BY <1>2, <3>1, ArriveTold
  <2>4. CASE LLHandlerStep
    BY <1>2, <2>4, HandlerTold DEF LLHandlerStep
  <2> QED
    BY <1>2, <2>1, <2>2, <2>3, <2>4 DEF LLNext
<1>3. CASE BMReturn
  <2>1. /\ pc = "done" /\ pc' = "idle" /\ UNCHANGED <<order_map, replica>>
        /\ events_' = events_ \o events
    BY <1>3 DEF BMReturn, Return, sideVars, mergeEvents
  <2>2. events_ \o events \in Seq(Info)
    BY DEF ToldInv, IInv, TypeOK
  <2>3. Told' = Told
    BY <2>1 DEF Told
  <2> QED
    BY <2>1, <2>2, <2>3 DEF ToldInv, Heard
<1>4. CASE flushEvents
  <2>1. /\ pc = "idle" /\ UNCHANGED <<pc, order_map>>
        /\ replica' = FoldLeft(Observe, replica, events_) /\ events_' = << >>
    BY <1>4 DEF flushEvents, llVars, vars, sideVars
  <2>2. Told = events_ /\ Told' = << >> /\ events_ # << >> /\ events_ \in Seq(Info)
    BY <1>4, <2>1 DEF Told, flushEvents, ToldInv
  <2>3. Heard' = replica' /\ replica' = Heard
    BY <2>1, <2>2, FoldNone DEF Heard
  <2> QED
    BY <2>1, <2>3 DEF ToldInv
<1>5. CASE UNCHANGED bmVars
  BY <1>1, <1>5 DEF bmVars, llVars, vars, sideVars
<1> QED
  BY <1>2, <1>3, <1>4, <1>5 DEF BMNext

-----------------------------------------------------------------------------
(* The consumer's copy is the book.                                        *)

\* Without modifications, and however the two streams interleave, a consumer
\* that replays the events flushEvents hands out has exactly the orders of the
\* book, with what is left of each, whenever no call is running and all events
\* are handed out.
THEOREM ReplicaTracks == BMSpec => []ReplicaTracksBook
<1>1. BMInit => BMInv
  BY InitIInv, ExchangeInitTyped, InitTold DEF BMInit, LLInit, BMInv
<1>2. BMInv /\ [BMNext]_bmVars => BMInv'
  <2> SUFFICES ASSUME BMInv, [BMNext]_bmVars PROVE BMInv'
    OBVIOUS
  <2> USE DEF BMInv
  <2>1. [LLNext]_llVars
    BY ManagerSteps
  <2>2. [Next]_vars
    BY <2>1, FeedSteps
  <2>3. IInv' /\ ExchangeTyped'
    BY <2>1, <2>2, NextIInv, LLNextTyped
  <2>4. ASSUME "MODIFY" \notin Requests
        PROVE  ClosedFirst' /\ FreshIds' /\ SpentInv' /\ ToldInv'
    BY <2>1, <2>2, <2>4, FreshStep, SpentStep, ToldStep
  <2> QED
    BY <2>3, <2>4
<1>3. BMInv => ReplicaTracksBook
  <2> SUFFICES ASSUME BMInv, "MODIFY" \notin Requests, pc = "idle", events_ = << >>
               PROVE  /\ DOMAIN replica = DOMAIN order_map[FALSE] \cup DOMAIN order_map[TRUE]
                      /\ \A s \in BOOLEAN : \A id \in DOMAIN order_map[s] :
                           replica[id] = Entry(s, order_map[s][id])
    BY DEF ReplicaTracksBook, Entry
  <2>1. \A s \in BOOLEAN : LiveIn(order_map[s]) = DOMAIN order_map[s]
    BY DEF BMInv, IInv, NoSpentOrders, LiveIn
  <2>2. Heard = replica
    BY FoldNone DEF Heard, Told
  <2> QED
    BY <2>1, <2>2 DEF BMInv, ToldInv, Mirrors
<1> QED
  BY <1>1, <1>2, <1>3, PTL DEF BMSpec

=============================================================================
