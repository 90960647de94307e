# TLA+ verification of the unsynchronized-feed order book

The program (`src/src`, C++) rebuilds an L3 order book from an exchange's order
stream, trade stream and L2 snapshots. The streams are not synchronized: the
same fill is reported by the aggressor's order message, by a trade message and
in a snapshot, and any of them may come first. The book applies the first
report, writes down what it now *expects* of the other streams, and uses the
later reports to settle those expectations. This directory models that logic, checks it with TLC
and proves its safety properties with TLAPS.

## Inventory

| Part | State | Operations | What makes it correct |
|---|---|---|---|
| `Order`, `L3PriceLevel` (`order.h`, `level.*`) | quantity and filled quantity; a level's list, count and cached quantity | `addOrder`, `removeOrder`, `fillOrder`, `modifyOrder` | the cached quantity is the sum of what remains |
| `BookSide` (`book_side.*`), one per side | `levels_`, `order_map_`, `pending_liq_remove_qty_`, `pending_liq_add_qty_`, `l2_snap_queue_` | `addOrder`, `removeOrder`, `processCrossedOrder`, `processOrderCancel`, `processTrade`, `matchPendingLiqAdd/Remove`, `addPendingLiqRemoveQty`, `saveL2SnapshoSide`, `processL2Snapshot`, `modifyOrder` | both containers describe the same orders; fills follow price-time priority; spent orders leave; a guess is a last resort; what a snapshot collects still holds when it is applied; the loops end |
| `SmartOrderBook` (`order_book.*`) | the two sides | a handler for ADD, CANCEL, MODIFY, TRADE and snapshot messages; `getL2Book` | the book is never crossed; both sides expect the same trades; whoever watches sees a matching book |
| `BookManager` (`book_manager.*`) | the book, `events_` | dispatch of messages, `flushEvents` to four callbacks | the events can be replayed to the book |
| `L2Book` (`l2_book.*`) | two price maps | `addLevel`, `updateLevel`, `removeLevel` | agrees with `levels_` |
| `SnapshotMessage` handling (`order_book.cpp`, `book_side.cpp`) | what a side has collected so far, the next guessed id | per side: accept the expected view, reject, or rewrite the side and guess the events behind it | only a snapshot that leads changes the book, and then the side matches it |
| exchange and streams (not in the repository) | its book, the messages in flight | matching, publishing | README "Assumptions": valid messages, price-time priority, each stream in order, a snapshot with each change of its L2 book |

The parts interact by plain calls, `BookManager` → `SmartOrderBook` →
`BookSide` → `L3PriceLevel`, in one thread. What is hard is not threads but the
*interleaving of the streams*: which message comes first decides what is
guessed, and a wrong guess stays in the pending maps until it meets a later
message. The hazards are listed in `PROJECT.json`, each at its line.

## Modules

| Module | Models |
|---|---|
| `Level` | orders, levels, the two price orders, event records |
| `BookSide` | the members of both sides and their methods |
| `SmartOrderBook` | the message handlers over both sides, fed with any messages in any order; the safety properties |
| `MatchingBook` | abstract: what an order book promises whoever watches its orders |
| `BookRefinement` | the mapping under which `SmartOrderBook` implements it |
| `L2Book` | the copy `getL2Book` makes, and what it should show |
| `MCSmartOrderBook` | a bound on the number of messages |
| `Snapshot` | `processSnapshotMessage` and `processL2Snapshot` over `SmartOrderBook`, fed with any snapshots |
| `MCSnapshot` | a bound on the number of messages and snapshots |
| `Exchange` | external: a price-time matching engine that publishes an order and a trade stream |
| `LeadLag` | the book reading the two streams of one exchange in every interleaving |
| `MCLeadLag` | instances of it |
| `SnapshotFeed` | `Snapshot` and `LeadLag` composed: the book reading three streams of one exchange |
| `BookManager` | dispatch, `events_`, `flushEvents`, and a consumer that replays the events |
| `MCBookManager` | instances of it |
| `BookSideProofs` | induction over the naturals, sums over lists and sets, and lemmas on what the methods of a side do |
| `SmartOrderBookProofs` | the inductive invariant and the theorems |
| `RefinementProofs` | `SmartOrderBook` implements `MatchingBook` |
| `SnapshotProofs` | the invariant and the theorems with snapshots in the feed |
| `QuantityProofs` | the cached quantities and the L2 copy are right, with and without snapshots |
| `AppliedProofs` | a leading snapshot is applied |
| `LeadLagProofs` | the book fed by an exchange ends up as the exchange's |
| `BookManagerProofs` | the events a consumer replays |

Every member of `BookSide` is a variable, a function of the side's `is_sell`
flag. `std::map` and `unordered_map` are functions on the set of their keys;
`begin()` is `IsBegin`. A method without a loop is an operator used inside one
action. A method with a loop is one action per iteration and one for leaving
the loop, sequenced by `pc`; the local variables it keeps across iterations are
`act` (the order or trade and how much of it is filled), `side`, `cur` (the
level), `iter` (the place in its list), `orders_to_remove` and `events`. So the
invariants also cover the states inside a call:

    ADD     idle -> matchAdd* -> uncross (-> fill* -> remove* -> uncross)* -> done -> idle
    CANCEL  idle -> done -> idle
    MODIFY  idle (the cancel) -> as ADD, with its events dropped
    TRADE   idle -> (trade -> sweep* -> [fill* -> remove*] -> tradeRest) bid, then ask -> done -> idle

The snapshot handler has a counter of its own, `spc`, and runs while `pc` is
idle; the other handlers run while `spc` is:

    idle -> (side -> [compare (-> front*)* -> collect* -> apply*] -> next) bid, then ask -> idle

Its locals are `todo` (the levels the running loop has still to visit),
`qty_to_remove`, `pending_orders` and `fake_order_id`. `ids_before` is auxiliary:
the code has no such variable and no action reads it. It records which ids the
side had when the snapshot was taken to lead, so that `SnapshotApplied` can say
which guesses `addOrder` may drop.

The walk over a list (`Fill`, `FillDone`, `RemoveFilled`, `RemoveFilledDone`) is
shared by `processCrossedOrder` (book_side.cpp:71-88) and step 2 of
`processTrade` (144-158); the loops differ in what `act.kind` selects.

Choices a reader should know:

- **`ExpectTrade`.** An aggressor's fill is added to the pending quantity of the
  resting side in the loop and of the aggressor's own side after it, from the
  returned events. Nothing reads the second map in between, so both are added
  in the fill.
- **`AfterMatchAdd`** erases the entry at the *order's* price, as
  book_side.cpp:261 does, not the entry that was matched.
- **A loop that never ends** leaves the state unchanged in every further
  iteration, so TLC shows it as stuttering with a handler that has not returned.
- **Prices** are compared and never computed with: integers stand for the
  doubles. **Quantities** are integers of any size; the overflow of an `int`
  needs an imbalance of 2^31 between the streams and is not modelled.
- **The exchange** of `LeadLag` finishes before the book starts reading. It
  never hears from the book and each stream is a queue, so every interleaving
  the book can see during the session it can see after it.
- **The consumer** of `BookManager` stands for callbacks the repository only
  declares: it keeps a copy of the orders from the events it is told.
- A `L2SnapshotSide` is the set of its entries, as the vector is in key order;
  a loop over it takes the entry at the begin of what is left.
- **Guessed orders** are numbered from 100 for each snapshot and side, as in the
  code, so `OrderId` contains 100 and up; ids of exchange orders may be there,
  too. `ceil(0.3 * n)` is `(3n + 9) \div 10`: 0.3 is stored a little low, so the
  product never rounds past the integer above.
- **Snapshots** carry levels with at least quantity 1: an exchange shows no empty
  level. In `Snapshot` they are otherwise arbitrary; in `SnapshotFeed` the
  exchange publishes one with each change of its L2 book, together with how many
  orders and trades it had published before, so that it is known whether it
  reaches the book ahead of them.

## Runs

The passing runs use two or three prices unless one is the point, and quantities
up to 2 or 3, so that orders are filled partly, exactly and beyond. Order ids are
symmetric where the run checks no liveness and no snapshot numbers its guesses. Deadlock is not checked: the feeds
are finite and the program stops when they end.

| Run | Shows | Bounds |
|---|---|---|
| `book_safety` | the safety properties below, under any messages | 3 ids, 3 prices, 4 messages of any kind |
| `reconcile` | `Reconciled`: the book ends up equal to the exchange's; `SidesExpectSameTrades`: until then both sides expect the same trades after every message | 4 new orders at one price, quantities to 3 |
| `events_replay` | `ReplicaTracksBook`: replaying the flushed events gives the book; `IsMatchingBook`: the book implements `MatchingBook` | 4 requests, ADD and CANCEL, 2 prices |
| `orders_build` | `OrdersBuildBook`: the order stream alone builds the exchange's book, in time order, and expects exactly the trades to come | 4 new orders, 3 prices |
| `snapshot_safety` | the properties below with any snapshots in the feed | ids 1, 100, 101; 2 prices; 3 messages of any kind, one of them a snapshot, or 2 snapshots |

The properties of `book_safety`: `TypeOK`; `BookConsistent` (a level lists
exactly the orders of `order_map_` with its price and goes with the last);
`LevelQuantityIsSum`; `Uncrossed`; `NoSpentOrders`; `GuessOnlyWhenExhausted`;
`PriceTimePriority`; `L2BookShowsOrders` (the L2 copy has a level for each price
some order has, with the sum of what is left). Four messages build two levels or
a level of two orders, hit them with an aggressor or a trade and follow up with
another message. Two prices are enough for a wrong level; three let an order
cross two levels, and let a level be ahead of, at and behind a trade at once.

The properties of `snapshot_safety`: `SnapTypeOK`, `BookConsistent`,
`LevelQuantityIsSum` and `NoSpentOrders` again, where guesses add, fill and
remove orders as well; `GuessesApplicable` (what was collected is still there
when it is applied, so `fillOrder`'s assertion holds); `SnapshotApplied` (the
side then has the snapshot's levels, except where a guess was reported whose id
an order of the side had when the snapshot came: the guess of an event is found
by counting the side's ADD events before it, and it must be in `ids_before`);
`LoopsEnd` (every call on a book, also one rewritten by snapshots, returns, unless
`matchPendingLiqAdd` comes across an entry it has emptied and not erased).
`Uncrossed` is not among them: it does not hold, see `snapshot_crossed`. Two
levels and two guessed ids let one snapshot shrink a level, grow or add another,
or remove one. The other messages come before, between or after it, with ids that
the guesses want, too; a second snapshot meets what the first has left. A snapshot
counts as two messages in the bound (`MaxLoad`), which keeps the run within
minutes.

`SidesExpectSameTrades` is stated for feeds without cancels and modifies, which
break it, so it is checked in `reconcile`; that snapshots do not break it is
proved (`SnapSameTrades`).

`Reconciled` holds for new orders at a single price. It is stated for no more
because no more holds: with several prices a trade that leads makes step 1 of
`processTrade` remove orders that are only about to be filled, and a cancel that
is partly matched with pending trades removes the whole order (`late_trades`).
When the order stream leads by everything, several prices do no harm:
`OrdersBuildBook`.

### Disagreements with the documentation

Each is a run in which TLC finds the documented behaviour violated, on streams
of a well-behaved exchange; `PROJECT.json` quotes the lines.

| Run | The code |
|---|---|
| `handlers_return` | `matchPendingLiqAdd` loops for ever when the entry it empties is not at the order's price |
| `expected_trade` | an expected trade still sweeps the orders ahead of its price |
| `modify_moves` | a modification whose cancel is matched with pending trades leaves the order at the old price |
| `late_trades` | a cancel uses up the quantity pending for a trade, and the late trade is guessed to be a new order |
| `snapshot_leads` | a view saved in the middle of a fill, with a level of quantity 0, blocks the queue for ever |
| `snapshot_crossed` | one side follows a late snapshot, the other rejects it, and the book is crossed |
| `snapshot_ids` | a second leading snapshot is not matched: its guess gets the id of the first one's and is dropped |

Smaller ones need no run to be seen. `addOrder`, and the removal by a cancel,
save no L2 view (`book_side.h:119` says every change does); this is what lets
`snapshot_crossed` take a late snapshot for a leading one. Neither the orders a
trade sweeps nor those a leading snapshot removes become expected
(`src/README.md:88`, `:140`). The orders a snapshot guesses as executed are not
those at the best prices when a level shrinks and a better one is gone
(`src/README.md:142`).

`snapshot_ids` is the exception of `SnapshotApplied`. The run shows that
`src/README.md:140` does not hold as it stands, the property that nothing else
keeps a side from matching the snapshot it follows.

### Fairness

`LoopsEnd` (in `snapshot_safety`) and `handlers_return` assume weak fairness of the handler's steps:
the program is sequential, so a call in progress keeps executing. Nothing is assumed of the feed, which may stop at any time.

## Proofs

`SmartOrderBookProofs` proves, for every set of ids, every set of integer
prices, every largest quantity, every set of message kinds and any number of
messages:

| Theorem | Statement |
|---|---|
| `TypeCorrect` | `Spec => []TypeOK` |
| `Consistent` | `Spec => []BookConsistent` |
| `SpentOrdersLeave` | `Spec => []NoSpentOrders` |
| `GuessesAreLast` | `Spec => []GuessOnlyWhenExhausted` |
| `NeverCrossed` | `Spec => []Uncrossed` |
| `FillPriority` | `Spec => PriceTimePriority` |
| `SameTrades` | `Spec => []SidesExpectSameTrades` |

Assumptions on the constants: prices are integers and there is one, the id of a
guessed order is no exchange's id, messages have at least quantity 1
(`LevelAssumption`, `FeedAssumption`).

The inductive invariant is `IInv`. The properties alone are not inductive:

- that a fill keeps `BookConsistent` needs `cur` to be a level and `iter` a place
  in it, and that it respects priority needs everything before `iter` to be spent
  while the aggressor has something left: `WalkInv`;
- that a guess is a last resort needs the history of the trade: nothing ahead of
  it after step 1, and only spent orders at its price after step 2 (`TradeInv`),
  which together with `NoSpentOrders` empty its level by the time of step 3;
- `ActInv` ties `pc` to the kind of message and bounds its filled quantity.

The argument: `BookSideProofs` shows what adding, removing and filling do to a
side that is consistent by itself (`SideOK`); there is one lemma per action;
`NextIInv` puts them together. `NeverCrossed` adds that only `RestOrder` puts a
level into the book (`LevelsShrink`), and that it does so when nothing is
crossed. `FillPriority` adds that only `Fill` changes an order that stays
(`OrdersKept`). `SameTrades` has an invariant of its own, `ExpectInv`: while a
trade is between the two sides, the bid side is exactly one
`matchPendingLiqRemove` ahead.

### The refinement

`RefinementProofs` proves `Implements`: `Spec => IsMatchingBook`, for the same
constants. `MatchingBook` knows the orders with something left and which of two
orders at a price is ahead; an order rests, leaves or is executed, in one step.
The mapping (`BookRefinement`) hides the spent orders a walk has not removed yet,
and reads `ahead` off the lists. The argument, one lemma per kind of step:

- `RestOrder` is `Rests`: nothing is crossed (as for `NeverCrossed`), and
  `push_back` puts the new order behind all others at its price;
- `Fill` is `Executes`: `WalkInv` says everything before `iter` is spent, so the
  order filled is first among those shown; filled completely, it leaves the
  picture in this step and not when it is removed;
- `RemoveFilled` therefore shows nothing, and `Sweep` and a cancel are `Leaves`:
  removing from a list keeps the others in order (`EraseAtPrecedes`);
- every other step leaves the containers alone.

It needs `IInv` and, for the quantity with which an order rests, that the
order at hand is not larger than `MaxQty` (`QtyInv`).

### Snapshots

`SnapshotProofs` proves, for every `MaxLevels` and any number of snapshots among
any number of messages:

| Theorem | Statement |
|---|---|
| `SnapTypeCorrect` | `SnapSpec => []SnapTypeOK` |
| `SnapConsistent` | `SnapSpec => []BookConsistent` |
| `SnapSpentOrdersLeave` | `SnapSpec => []NoSpentOrders` |
| `GuessesHold` | `SnapSpec => []GuessesApplicable` |
| `SnapSameTrades` | `SnapSpec => []SidesExpectSameTrades` |

It assumes in addition that the guessed ids are order ids
(`SnapshotAssumption`). The invariant is `SnapInv`. It takes `IInv` over: the
other handlers run only while no snapshot is handled, so `NextIInv` covers them.
The new parts:

- `ViewsInv`: a side of the snapshot is finite with at most `MaxLevels` levels,
  one per price;
- `CompareInv`: while levels are compared, each compared level has used one
  guessed id at most, so the next id is one that exists; and everything collected
  belongs to a level already compared and has at least that much left. A guessed
  order is added at the level being compared, so it disturbs none of it;
- `FrontInv`: in the level being walked, what is collected lies before `iter`, so
  nothing is collected twice;
- `CollectInv`: the same for the levels the snapshot lacks, which are walked
  whole;
- `GuessesApplicable` itself: applying a guess changes one order, and the rest of
  the list names others.

`SnapSameTrades` needs `ExpectInv` again: a snapshot never touches the quantities
a trade is expected to remove.

### Sums: the cached quantities and the L2 book

| Theorem | Statement |
|---|---|
| `QuantitiesAreSums` | `Spec => []LevelQuantityIsSum` |
| `SnapQuantitiesAreSums` | `SnapSpec => []LevelQuantityIsSum` |
| `L2BookRight` | `(Spec \/ SnapSpec) => []L2BookShowsOrders` |

The library's induction theorems take the property as an operator, which the
provers cannot instantiate. `BookSideProofs` states induction for a *set* of naturals
instead (`NatSetInduction`) and derives it from the facts about finite sets: if
some n were missing from a set that has 0 and successors, the missing numbers up
to n would map one to one, by m - 1, onto fewer than they are. On it rest
`Total(f, n)`, the sum of the first n values, what happens to it when one value
changes, is added or is taken out, and that `SumFunctionOnSet`, whose fold takes
the elements in an order the library leaves open, is the same sum.

The quantities themselves are then one invariant, `BookTotals`, that `IInv` or
`SnapInv` carries: every step does to a side one of four things, nothing, or one
call of `addOrder`, `removeOrder` or `fillOrder` (`NextMoves`, `SnapMoves`), and
each keeps the totals (`AddTotals`, `RemoveTotals`, `FillTotals`). `L2BookRight`
adds that the book is finite (`BookFinite`: it starts empty and grows by one
order at a time), that `getL2Book` copies each level once whatever order it
visits them in (`GetL2Book`), and that the sum over a level's list is the sum over
the orders with its price (`LevelSum`).

### A leading snapshot is applied

`AppliedProofs` proves `SnapshotsApply`: `SnapSpec => []SnapshotApplied`. When the
comparison starts the book is anything; when the guesses are applied it is the
snapshot. The invariant in between, `AppliedInv`, predicts: `ToGo(p)` is the sum of
what was collected at p and is not applied yet, and `WillBe(p)` the level's cached
quantity less that.

- `VisitedInv`: for every level of the snapshot that was visited, `WillBe` is its
  quantity, or the guess for the difference was reported and its id is in
  `ids_before`;
- `WalkedInv`: while a level that has too much is walked, `WillBe` is too much by
  exactly `qty_to_remove`, and as long as that is positive all of each order
  passed is to go. This is why the walk cannot run off the end of the list with
  something left to collect;
- `MissingInv`: an order at a price the snapshot lacks is collected whole, or its
  level is still to be visited.

That a dropped guess has an id of `ids_before` needs two more parts.
`NumberedInv`: `fake_order_id` is 100 plus the number of ADD events the side has
reported, and every order of the side was there before or has one of the numbers
already given. So an order that has the next number was there before. It starts
to hold because no event of the side is there yet (`EventsInv`: the bid side's
events come first).

Applying a guess takes the same amount off the level and off `ToGo`, so `WillBe`
stays (`ApplyGuessApplied`). That needs `BookTotals`: a level's quantity falls by
what remains of the order removed.

### The exchange and its streams

`LeadLagProofs` is about the book that receives what an exchange publishes:

| Theorem | Statement |
|---|---|
| `FeedIsFeed` | `LLSpec => Spec` |
| `OrdersBuild` | `Requests \subseteq {"ADD"} /\ OrdersSpec => []OrdersBuildBook` |
| `OnePriceReconciles` | `OnePrice /\ Requests \subseteq {"ADD"} /\ LLSpec => []Reconciled` |

They hold for any `MaxRequests` and assume that the feed may carry what the exchange publishes (`StreamsAssumption`, on top of
`ExchangeAssumption`). `FeedIsFeed` rests on the types of what the exchange keeps
and publishes (`ExchangeTyped`): a partial fill leaves at least 1, so every
message is one of `OrderMessage` or `TradeMessage`. Through it every theorem about
`Spec` is one about the book behind an exchange.

The other two theorems compare the book with what the exchange did *before* the
book started, from streams that the book uses up. So their invariants have to
reconstruct the exchange's session from what is still to come. Their hypotheses are those of the runs `orders_build` and `reconcile`: new orders only,
at one price when trades are received; with cancels or several prices
`Reconciled` does not hold.

**`OrdersBuild`: the book follows the exchange.** The session of the exchange is a
path of states (`IsPath`), from nothing to the exchange as it is, in steps
`PathStep`: an order is sent, is matched with the first order it crosses, or rests.
The invariant `PathInv` says that there is such a path and that the book is at one
of its states (`BookAt`): the same orders with the same quantities, in the same
order at each price (`Agrees`), the same order at hand, and as pending quantities
the trades the exchange had published by then (`Expected`); the messages sent later
are those still in the stream. The exchange extends the path at its end. The book
takes the path's next step with `ReceiveOrder`, `Fill` and `RestOrder`, and stays
where it is with every other step. That `Fill` is the next step is price-time
priority, twice: the order `processCrossedOrder` fills and the one the exchange
matched are both the first the order at hand crosses, so they are one. When the
stream is used up and no call is in progress, the path has no step left, and the
book is the exchange. `OrdersOnly` adds that without trades nothing is guessed, and
`PassedInv` that the orders to be removed after a walk are orders it has passed.

**`OnePriceReconciles`: the account.** With trades in the feed the book may be ahead
of the exchange's past on one side and behind it on the other, so it is at no state
of any path. At one price there is a shorter description: an order waits for the
orders of its side sent before it and for nothing else, so what is left of each
follows from one number, the quantity `c[s]` that side `s` has given away (`Left`,
`Queue`). For the exchange both numbers are the quantity it traded, `V`
(`ExchangeAt`, kept by `NewOrderAt`, `MatchAt` and `RestAt`). For the book, `BookAccount` says of each side:

- its containers are the queue of the messages received for `c[s]`
  (`GivenAway`), and if more was given away than was ordered so far, the excess is
  the quantity pending to be *added*: orders the trade stream has reported and the
  order stream has not;
- `c[s]` is what it took of the trades received plus what is pending to be
  *removed*: trades the order stream has made certain and the trade stream has not
  reported. With the trades to come, that is `c[s] + ToTake(s) +
  Traded(trade_stream) = V + Removes(s)`.

The steps move quantities between these places and lose none: a trade is taken from
what is pending (`TradeMatchAccount`), from the queue (`FillTradeAccount`) or from
orders to come (`TradeRestAccount`); an order is taken by what was guessed of it
(`MatchAddAccount`), by the queue of the other side, and then both sides give away
and both expect a trade (`FillOrderAccount`), or comes to rest (`RestAccount`).
`PendingInv` says that both sides expect the same trades once a trade is handled by
both, `NoSweep` that at one price no order is ahead of a trade. At the end
(`AccountEnds`) both streams are used up, so both sides have given away `V` plus
the same pending quantity. The exchange is not crossed, so one side of it is
empty, and `V` is all that was ordered there. A side that still expects a trade has
given away no more than was ordered on either side, which is `V` at most. So nothing
is pending, `c[s] = V` on both sides, and both books are the same queues.

`AccountInv`, which was checked with TLC on the instance of `reconcile` before it
was proved, needs `open` as a case: until the session is closed the streams
themselves are the messages and trades, and the book has not started.

### The BookManager

| Theorem | Statement |
|---|---|
| `ManagerImplements` | `BMSpec => IsMatchingBook` |
| `ReplicaTracks` | `BMSpec => []ReplicaTracksBook` |

They hold for any `MaxRequests` and any set of request kinds.

`ReplicaTracksBook` speaks of the moments when everything is handed out. The
invariant (`BMInv`) has to speak of all others, inside a call included:

- `ToldInv`: the copy the consumer *will* have (`Heard`: what it has, and the
  events reported and not handed out, folded in) mirrors the orders with something
  left. A spent order counts as gone from its last fill on, since that is when the
  consumer drops it; its removal later in the call is not reported;
- `SpentInv`: what a walk removes without an event has indeed nothing left;
- `FreshIds`: an ADD in the stream has an id that is in the book on neither side
  and in no message before it, so `addOrder` never drops an order that it reports,
  and no order is on both sides, where one CANCEL event would stand for two;
- `ClosedFirst`: the book is empty until the stream is complete, which makes the
  ids of `FreshIds` fresh when they are published.

`FoldLeft` is handled as the sums are: the fold over one event more is that event
observed last (`FoldEvents`), by `NatSetInduction`. One lemma per step then says
what it reports and which order it changes (`MirrorChange` and its instances for
adding, filling and removing). The hypothesis that no request is a modification
is needed: a modification drops the events of the add it makes.

### Only model-checked

- The liveness property `LoopsEnd`: liveness is beyond this prover.
- The statements of the runs that expect a violation, which are false.

## Not modelled

- `BookSide::modifyOrder` and `L3PriceLevel::modifyOrder`: called by the tests
  alone; the book modifies by a cancel and an add.
- `L2Book::updateLevel`, `removeLevel` and `getL2Level`: nothing in the program
  calls them.
- The consumer of `BookManager` with snapshots in the feed: the order a snapshot
  guesses is announced with id -1 and kept under another, so there is no
  replaying it.
- What becomes of a guessed order when its real one arrives: the code swallows
  the real order and keeps the guess under its own id, and nothing says what was
  meant.
- The default branch of `BookManager::processOrderMessage`
  (book_manager.cpp:22-24): it prints that the type is invalid and changes
  nothing.
- The overflow of quantities.
- Printing, the tests, and googletest, a vendored third-party framework under
  `src/submodules` that holds nearly all the lines of the repository.

## Plan

Done, in this order: `Level`, `BookSide`, `SmartOrderBook` with its runs;
`Exchange`, `LeadLag`; `BookManager`; the invariant and the theorems over
`SmartOrderBook`; `L2Book`; `MatchingBook` and the refinement;
`Snapshot`, `SnapshotFeed` and the theorems with snapshots; the sums, the L2 copy
and the applied snapshot; the exchange's feed and the consumer of the events; the
book that ends up as the exchange's.

To do:

1. `SnapshotFeed`: the feeds with snapshots for which the book converges (those
   without fills, where no view is ever queued), stated and checked.
2. `LeadLag`: cancels for which the book converges (those that arrive when
   nothing is pending at their price), stated and checked.
