# A TLA+ development of binance-th

binance-th is an asyncio client for the Binance Thailand REST and WebSocket API. What is hard in it
is not a formula but an order of events: a snapshot that arrives after the deltas it covers, a
subscription made while a socket is being opened, a report from before a reconnect applied after it,
an order whose answer never came, a rate limit that is charged by many callers. This directory
models those parts in TLA+, checks them with TLC on small instances, and proves the central ones
with TLAPS for every value of the constants.

Everything runs on one event loop. In the modules an action is what the code does between two
awaits, so that interleavings are those of the coroutines. The exchange, the network and the
application are external: they do whatever their own rules allow.

## 1. Inventory

| part of the system | its state | operations | talks to | hard because |
|---|---|---|---|---|
| order book (`orderbook.py`) | book, `last_applied_u`, `first`, sync task, `synced` | seed, apply, gap, re-snapshot, aclose | depth stream, REST depth | snapshot and deltas arrive in any order; either may be lost or fail |
| subscription (`stream.py` `_Subscription`) | bounded queue, `lagged` | offer, fault, close, next | reader task, one consumer | drops the oldest item, also a sentinel |
| market stream connection (`stream.py` `_Connection`, `StreamClient`) | `desired`, `_subs`, `_ws`, `_supervisor`, `_closing`, `_planned` | subscribe (also cancelled), unsubscribe, supervise, aclose | socket, subscriptions | flags shared by a task and its callers over several awaits |
| user-data stream (`userstream.py`) | `_conns` with a supervisor each, `_started`, `_subs` | start on first use, watch and leave, broadcast reconnect, fault, session and key expiry, aclose | listen keys, sockets, order tracker | callers race to start it; two connections share keys and subscribers |
| listen keys (`listenkey.py`) | `_keys`, `_inflight`, keepalive task, `_closing` | create (single flight), keepalive, close | REST | one shared task, several owners, each of whom may be cancelled |
| order tracker (`ordertracker.py`) | open orders, sync task, `synced` | seed, apply, re-seed, aclose | user-data stream, REST openOrders | late reports against newer seeds |
| order placement (`orders.py`, `idempotency.py`) | none but the call's own | create, cancel, query, reconcile | request pipeline | an unanswered POST may have been placed, or may still be |
| request pipeline (`transport.py`, `retry.py`, `errors.py`, `envelope.py`) | `attempt`, closed | sign, send, resync after -1021, retry, map errors | limiter, clock, HTTP | two nested retry loops around a call that must not be repeated |
| time synchronisation (`timesync.py`) | offset, `synced` | update | request pipeline | read before an await, used after it |
| rate limiter (`ratelimit.py`) | windows with `used` and start, lock | acquire, headers, reseed | every request | callers sleep outside the lock; headers and reseeds come meanwhile; the server counts in windows of its own |
| pre-trade validation (`validation.py`, with `orders.py`, `models/orders.py`, `models/base.py`) | none but the call's own | resolve, look the symbol up, refresh once, snap, check | exchangeInfo cache | stale filters, snapping before bounds |
| pagination (`pagination.py`, with `market.py`, `account.py`, `wallet.py`) | window start, boundary key and ids | fetch, yield, next page | REST, the consumer | pages overlap by design, rows arrive meanwhile |
| client (`client.py`) | exchangeInfo cache and lock | exchange_info, aclose | all | concurrent first calls, reseed under way, order of teardown |

The other endpoint wrappers (`market.py`, `account.py`, `wallet.py`), data models, configuration,
signing, redaction, scripts and documentation complete the repository; section 8 says why they are
left out.

What makes each part correct:

* order book: what can be read is the exchange's book at `last_applied_u`; it never goes back; with
  an empty queue nothing that was heard is missing; after a gap it catches up.
* connection: `desired` is what its consumers want; the socket delivers it; a planned reconnect is
  not an error; nobody waits for a task that is gone; closing ends everything.
* order tracker: with nothing on its way the view is the exchange's open orders.
* order placement: one order for each client id; an answer is true; a resubmission is safe.
* request pipeline: what changes something is sent again only after a -1021; what does not, only
  after that or an error that may pass, and it is not given up early.
* limiter: it admits no more than the limit in force; the server sees at most two of its windows.
* exchangeInfo cache: never replaced by something older.
* validation: what is sent fits the filters, is within a step of what was asked for and no larger,
  and an order is refused only for a reason in the filters.
* pagination: each row once, in order, and none skipped.
* user-data stream and listen keys: started once; keys in use are kept alive; no supervisor
  waits for ever for keys, or ends without a word; closing ends everything.

`PROJECT.json` lists every component with its status and every hazard at its line, with the
properties that would notice it.

## 2. Plan

Modelled, in the order of importance: the order book with its abstract specification, the market
stream connection, the order tracker, order placement with its abstract specification, the user-data
stream on top of the listen keys, and what surrounds a REST call (limits and the exchangeInfo cache,
errors and retries, orders before they are sent, histories in pages). Each of these has its
theorems.

Left for later:

1. `cancel_order` and `open_orders` as calls of `OrderPlacement`, and the cancellation of a
   `create_order()` by its caller between the POST and the reconciliation.
2. The age of a signed timestamp, which joins the limiter's wait (`Pacing`) with the -1021
   (`RequestErrors`); the offset arithmetic of `timesync.py`; a closed transport.
3. What the PUT of a keepalive and the DELETE of a close are answered with.

## 3. Modules

| module | models | notes |
|---|---|---|
| `Subscription` | `_Subscription.offer` | operators on a queue, used by `DepthBook` and `OrderTracker` |
| `DepthBook` | `orderbook.py`, depth stream of `stream.py` | constants: prices, quantities, depth limit, queue bound, how many updates and drops |
| `BookPromise` | what readers of a book may rely on | abstract; `DepthBook` implements it |
| `StreamConnection` | `_Connection`, `StreamClient` | one action per stretch between awaits |
| `OrderTracker` | `ordertracker.py`, `userstream.py` as the tracker sees it | |
| `OrderPlacement` | `orders.py`, `transport.py`, `retry.py`, `errors.py`, `timesync.py` | as an order goes through them |
| `PlacementPromise` | what a caller of `create_order` may rely on | abstract; `OrderPlacement` implements it |
| `ListenKeys` | `listenkey.py` | operations, and no behaviour of its own: extended by the next |
| `UserDataStream` | `userstream.py` | the callers, the two supervisors, and aclose, over the listen keys |
| `Pacing` | `ratelimit.py`, `client.py`, and the way of a call through `transport.py` and `retry.py` | with the exchange's own windows |
| `RequestErrors` | `exceptions.py`, `errors.py`, `envelope.py`, `retry.py`, `Transport.request` | one request, any answers |
| `OrderRules` | `validation.py`, `orders.py` up to the POST, filters and requests of `models/` | one order, any filters |
| `Pagination` | `pagination.py` as its three users call it | one iteration, a growing history |
| `DepthBookProofs`, `StreamConnectionProofs`, `OrderTrackerProofs`, `OrderPlacementProofs`, `UserDataStreamProofs`, `PacingProofs`, `PaginationProofs` | theorems about the module they are named for | section 6 |
| `RestCallProofs` | theorems about `RequestErrors` and `OrderRules` | section 6 |
| `MC...` | instances for TLC | values of the constants; `MCRestCalls` puts the four parts around a REST call side by side |

### DepthBook

`hist` is every book the exchange has had, `sent` what its stream has published. `queue` is the
subscription's queue, `book` is `ManagedOrderBook._book` with `last_applied_u` and the levels.
`SnapshotArrives`, `SnapshotFails`, `DropStale`, `Resnapshot`, `ApplyDelta` and `StreamStops` are
the branches of `OrderBookSynchronizer.run`; `Publish` is the reader's dispatch, `Disconnect`,
`Connect` and `EndStream` what the connection does to the stream, `Aclose` and `AcloseFinishes` the
two halves of `aclose()`. A delta carries the first and the last id it stands for and the new
quantity of each level that changed between them. `Lag` says how old the state a snapshot was read
from may be, in updates, when it is requested (0: the REST answer is at least as new as the
request). The code does not compare a new snapshot with the book it replaces (`orderbook.py:108`),
so with a lagging REST cache `last_applied_u` can go back; the properties say by how much.

### StreamConnection

`pc` says at which await the supervisor is suspended. The variables have the names of the attributes
(`desired`, `_subs` is `reg`, `_ws` is `ws`, `_planned`, `_closing`, `_supervisor`), `open` and
`served` are the socket's two sides. Whether the server supports live SUBSCRIBE frames, whether
`ws_auto_reconnect` is on, and whether the application subscribes while the client closes, is chosen
in `Init`. `SubscribeNew`, `SubscribeClosing`, `Subscribe` and `SubscribeCancelled` are the four
ways `subscribe()` can go; the last is a caller that is cancelled while its SUBSCRIBE frame is being
sent, which leaves a registered subscription without a consumer (`status` "orphan"). `AcloseBegins`,
`AcloseConnection` and `AcloseEnds` are the three stretches of closing. `missed` and `cut` are
history: which streams were first asked for during a connect or by a cancelled `subscribe()`, and
whether the network ended the socket.

### OrderTracker

An order goes through versions (new, partly filled, finished), each with an update time from a
coarse clock, so that two changes can share one. A connection is `starting` until its first connect,
then `up` or `down`, or `dead` once its supervisor has given up. `TakeReport`, `TakeReconnected` and
`StreamStops` are the branches of the synchronizer's loop; `ServeOpenOrders` is the moment the
exchange reads its orders, `SeedArrives` when the task gets them. `blind` (history) are the orders
that changed, after the last snapshot, on a connection that was not up yet.

### OrderPlacement

`op` and `at` say which request a call is in and where it is suspended; `again` and `tries` are the
two retry loops. `Raise` is what an exception does on its way up: second execution after -1021,
retry, reconciliation, or an error to the application. `wire` and `orders` count, for each client
order id, the POSTs on their way and the orders placed. `PostLands` is a POST that arrives after its
caller was given a timeout. `coded` and `late` are history: ids answered by a 5xx with a JSON code,
and ids of which a query was told "does not exist" while their POST was on its way. They are what
`PlacementPromise` calls `excused`; it has the calls, what each was told and the orders, and no
request, clock, retry or query.

### ListenKeys and UserDataStream

`post` are the POST tasks of `create()`: how each went and which tasks await it; `inflight` is
`_inflight`. A task that awaits a POST and is cancelled cancels the POST, for everyone
(`CancelCreate`): that is what asyncio does to an awaited task, and the reason for `CallersApart`.
Until the POST's own task has run (`PostDies`) it is `dying` and not done, so a `create()` meanwhile
joins it and is cancelled with it (`listenkey.py:88`).
`Release` is the rest of `create()`: the `finally` of the owner clears `_inflight` whichever POST it
names by then. Those who awaited one POST are woken in one action, because nothing else runs between
them that could tell.

`caller` are application tasks in `watch_*()`, `conn` the two connections, with `pc` the await at
which the supervisor is suspended. `Watch` is `_ensure_started` up to its await, `WakeCallers` the
rest, with the second look at `_started`. `LoopHead`, `WakeSupervisors`, `ConnectSucceeds`,
`ConnectFails`, `SocketEnds`, `ExpiredFrame`, `SessionExpires`, `ReaderReaped` and `SocketDropped`
are the supervisor's loop. `AcloseConnection` cancels a supervisor where it is suspended: in
`create()` that cancels the POST, in `await reader` the cancellation is swallowed. `mine` and
`valid` say of the key in a connection's URL whether it is the stored one and whether the exchange
still honours it. The marker of a reconnect (`_broadcast_reconnect`) goes to consumers of order
reports only, and matters only through the re-seed it causes: it is in `OrderTracker`.

### Pacing

Time is an integer. `bucket` are the limiter's windows, anchored at their first use; `used` the
exchange's own counts, in windows that start elsewhere, to which other users of the address add
(`OthersCall`). `Send` and `Pace` are the two ways a turn of `acquire()` ends; `Answered`, `Limited`
and `Fails` an answer with its headers, a 429, and an error or no answer; `AsksInfo` and `GetsLock`
are `exchange_info` with its lock and its second look at the cache, and `Answered` also its reseed.
`RulesChange` is the exchange's. `sum` and `burst` are history: what a window of the limiter, and
one of the exchange, has admitted.

### RequestErrors, OrderRules, Pagination

`RequestErrors` takes the tables of codes and statuses as sets of classes, and follows one request
through `Errs`, `Resynced`, `ResyncFails` and `TriesAgain`; `reasons` is history: what errors it was
sent again after, told by status and code rather than by the class that the code gives them. The
properties say of a masked error (a 5xx, 418 or 429 whose body has a code) that it is never retried.
`OrderRules` has `_resolve_request`, the lookup with its one refresh, and `validate_order` as three
steps, with a short way past them for `validate=False`, while `ListingChanges` is the exchange's;
numbers are multiples of a smallest unit. `Pagination` has a step for each fetch, each
row and each page, since the consumer and the server act in between.

These three and `Pacing` share no variable: a request asks the limiter, an order asks the cache, but
what passes between them is the value that a step of each chooses. `MCRestCalls` therefore follows
one of them at a time (`session`): interleaving them would multiply states and show nothing.

## 4. Runs

Passing runs (distinct states; each takes at most a few minutes):

| run | instance | shows |
|---|---|---|
| `book` | fair; two prices, 4 updates, 2 drops, queue of 2, `Lag = 1` (904k) | the book is the exchange's book at its id, and its best quote the exchange's, although snapshots may be older than their request; an empty queue means current; catches up; implements `BookPromise`, in which only a lagging snapshot takes the reader back, by no more than its lag |
| `connection` | fair; 2 streams, 2 subscriptions, every combination of the two settings, subscribing while closing or not (183k) | bookkeeping, socket and planned mark agree; planned is no error; served or told; aclose ends and leaves nothing |
| `tracker` | fair; 1 order, 2 connections, queue of 3, 2 drops (156k) | true when quiet; never older; converges |
| `placement` | fair; 2 intents, 2 calls each, 2 retries (191k) | one order per id; true answers; placed once; every call ends; implements `PlacementPromise` |
| `user_stream` | fair; 2 connections, 2 callers, 2 POSTs (232k) | made once; callers apart; keys in use kept; a supervisor comes back to reading; ends with a word; aclose ends and leaves nothing |
| `rest_calls` | 2 callers, 2 windows, in and out of phase with the exchange's, 2 versions of the rules; histories of 5 rows; 10 statuses and 4 codes; orders of both sides, validated or not, against 3 sets of filters (1.0M) | nothing over-admitted; at most two windows' worth at the exchange; the cache never goes back; each row once, none skipped; repeated for a reason, so many times; valid, as it was, or rejected |

Runs that show a disagreement between the code and what is said of it (`findings` quotes the lines):

| run | what happens |
|---|---|
| `book_silent` | a depth call that fails while re-synchronising ends the task; the old book stays readable |
| `conn_stale_url` | a stream subscribed during a connect is neither on the URL nor in a frame |
| `tracker_first_connect` | a change between the seed and the first connect is lost |
| `placement_coded_5xx` | a 5xx with a JSON code is not reconciled, although its order may exist |
| `snapping` | a SELL between two ticks is sent at the lower price, which is more aggressive than asked |
| `paced_through_429` | only the call that got a 429 sleeps through its Retry-After; others of its class are sent |

Met while modelling, in the models' behaviours, and without a run of their own:

* `aclose()` of a book or tracker whose task died raises before it unsubscribes (a second call
  finishes).
* Without automatic reconnect, a consumer that subscribes after the connection gave up waits for
  ever, since `_supervisor` stays set (`stream.py:220`); likewise `_started` (`userstream.py:234`).
* A subscription made during or after `aclose()` may be told nothing, and a stream that is being
  started then leaves keys that nobody deletes (`config.late`, the exception in both
  `ClosedIsQuiet`).
* A queue that overflows can leave the order tracker wrong (`lagged`, the exception in
  `TrueWhenQuiet`); a report older than the seed puts a finished order back until its last report is
  read.
* -2013 can overtake a POST (`late`, the exception in `PlacedOnce`); a reconciling query that ends
  in a timeout escapes as one (`outcome` "escaped"); a 200 to a POST whose body does not parse is
  not reconciled (`orders.py:133`).
* A signed request is synchronised for once in each attempt, so several times if it is retried, where
  ADR-0004 says once; `OthersSentWisely` bounds it by what the code does.
* An error whose code hides a 5xx, 418 or 429 is not retried (`errors.py:96`, `errors.py:121`): the
  exception in `NotGivenUpEarly`.
* With an exchange that gives out a new key while the old one is valid (`config.same` is FALSE, the
  exception in `KeysInUseAreKept`), a reconnect of one connection leaves the other with a key that
  is no longer renewed.
* A page size above what the server serves makes every full page look like the last
  (`pagination.py:48`); a full page of one timestamp ends the iteration (`Crowded`, the exception in
  `NothingIsSkipped`).
* A request is signed before it waits for the limiter (`transport.py:271`), so that its timestamp
  may be too old when it is sent.

### Bounds

`MaxUpdates`, `MaxDrops`, `MaxTime`, `MaxCalls`, `MaxRows`, `MaxClock`, `Slot` bound what the
exchange, the network and the application do; they are in guards, and named in each module. They are
enough for the cases that matter:

* `DepthBook`: two snapshots with deltas before, across and after each, and a queue that overflows.
  A queue bound of 1 to 3 stands for 1024: what counts is that it can overflow, and that two items
  fit when it does not.
* `StreamConnection`: a stream with two consumers and one with none, over any number of reconnects,
  since there is no counter at all.
* `OrderTracker`: an order with all its versions, whose connection or the other one reconnects while
  a seed is in flight; orders do not influence each other but through the shared queue.
* `OrderPlacement`: a resubmission after a reconciliation that itself was retried.
* `UserDataStream`: any number of reconnects; two POSTs (`Slot`): one in flight, and another that
  has ended without its tasks having run, or that `_inflight` no longer names. `Modes` has two of
  the eight combinations, one in which the client recovers and keys are kept, one in which it gives
  up, is started while it closes, and keys change.
* `MCRestCalls`: windows of 2 ticks, in phase and out of phase with the exchange's, and a clock of
  3, so that a window of the limiter turns within one of the exchange's and the other way round; a
  limit that is lowered, one that appears; a charge above the limit; one retry. Histories of 5 rows
  with pages of 2 and 3 need three pages. 3 attempts have a retry after a retry. The two tasks are
  interchangeable (symmetry on `Task`; the run has no liveness property).

`CHECK_DEADLOCK FALSE` is said everywhere: each of these systems may stop for good. A closed client
has no steps, an exchange that has reached its bound publishes nothing more, and a call that has
returned is over.

### Fairness

Weak fairness is assumed of what the event loop runs by itself: reader, sync task and supervisor
steps, and timers (the session timer, backoff, `config.timeout` of an HTTP request, so that every
request is answered or fails). `StreamConnection` also assumes that a connect that is attempted for
ever succeeds in the end (strong fairness of `ConnectSucceeds`), without which no client could
promise delivery. In `UserDataStream` it is weak fairness of `aclose()`, of each supervisor but for
the end of its session, and of each POST with the tasks it wakes. Nothing is assumed of the
exchange, of the network staying up or of the application: `Converges`, `CatchesUp` and `ComesBack`
have what they need of those as hypotheses instead.

## 5. Mutants

Every property of every passing run has a mutant: a definition with a plausible bug (a guard
dropped, an off-by-one, a mark that is not reset, an error class that is not caught), next to the
definition it replaces. TLC finds the property violated with it.

## 6. What is proved

Everything here holds for every value of the constants that the modules' named ASSUMEs allow; TLC
evaluates those in each run. Each proof module states an inductive invariant, shows action by action
that it is kept, and derives its theorems from it.

`DepthBookProofs`, for every set of prices, quantities, limit, queue bound, number of updates and
drops:

* `TypeCorrect`: `Spec => []TypeOK`.
* `BookMirrorsExchange`: `Spec => []MirrorsExchange`, for any `Lag`. The invariant alone is not
  inductive: whether a delta leads from the book to the exchange's next book depends on what the
  delta in the queue carries. The strengthening says that every delta sent, queued or being read
  carries exactly the changes between its two ids, and that ids in the history are within bounds.
* `BestIsBest`: `Spec => []BestQuoteIsReal`, if the set of prices is finite (a hypothesis of the
  theorem, used for the existence of a best price). It adds to the above that what a snapshot
  vouches for reaches down from the top of each side (`Vouched`).
* `DrainedBookIsCurrent` (`DrainedMeansCurrent`), `BookKeepsPromise` (`KeepsPromise`) and what it
  says of going back in a formula of its own, `BookGoesOn` (`OnlyLagGoesBack`), for any `Lag` too.
  They rest on `FreshInv`, which relates the newest id heard to what is queued and to the book, up
  to the lag of a snapshot that no delta has followed yet, and says that a task that asked for a
  snapshot did so at or after the id its reader last saw. `BookKeepsPromise` is the refinement:
  initial states map to initial states of `BookPromise`, and every step to one of its steps or to a
  stutter. `PromiseIsWorthIt` is about `BookPromise` alone: whatever implements it shows the
  exchange's book as of one update.

`StreamConnectionProofs`: `Types`, `RefCounted` (`DesiredIsWatched`), `DeliversDesired`
(`ServedExceptMissed`), `MarksAreSpent` (`PlannedIsSpent`), `ClosesEverything` (`ClosedIsQuiet`) and
`PlannedNeverFaults` (`PlannedIsNoError`), from `ConnectionInv`: the types, what `desired` and `reg`
have to do with consumers, and, for each await of the supervisor, what the socket and the planned
mark can be there.

`OrderTrackerProofs`: `Types`, `TrueAtRest` (`TrueWhenQuiet`) and `NeverGoesBack` (`NeverOlder`),
from `TrackerInv`. What is true when nothing is on its way follows from what is true while something
is: for each order, the last report on the wire or in the queue, the seed in flight, or a marker
that will cause a seed, carries the order's present state, unless its connection is down (then a
marker is to come) or was never up (then the order is `blind`).

`OrderPlacementProofs`: `Types`, `OneForEachId` (`OneOrderPerId`), `TrueAnswers` (`AnswersAreTrue`)
and `AtMostOnce` (`PlacedOnce`), from `OrderInv`: at most one POST or order for each id in all, and,
for each point at which a call is suspended, how many of its POST may be on the wire or placed.
`PlacementKeepsPromise` (`KeepsPromise`) is the refinement, from the same invariant: what is on the
wire decides which answers a step may give, and `PlacementPromise` cannot see it.
`PromiseIsWorthIt` is about `PlacementPromise` alone: whatever implements it has told the truth of
every order, one for each id.

`UserDataStreamProofs`: `Types`, `MadeOnce`, `NeverShared`, `KeysAreKept`,
`TellsAtItsEnd` (`EndsWithAWord`) and `LeavesNothing` (`ClosedIsQuiet`), from `UserInv`: exactly the
tasks in `create()` await a POST, and each only one; a POST is the callers' or the supervisors' but
not both; supervisors run only once the stream is started, and the POST in flight is then theirs;
the keepalive runs from the first key to close; while the client is open only callers are cancelled.

`PacingProofs`, without a bound on time:

* `PacingTypes`, and `NoOverAdmission` (`PacedWithinLimit`), which needs only that a window counts
  at least what it has admitted.
* `CacheNeverOlder` (`InfoNeverGoesBack`): a request for exchange info that was sent will be
  answered with rules not older than those cached, because one task at a time may send one.
* `NoTripleBurst` (`BurstBounded`), if new rules have every window that older ones have
  (`WindowsStay`, a hypothesis of the theorem: a window that goes and comes back is a new one to the
  limiter, anchored anew). The invariant `Spread` says that of what the exchange's present window
  got, all but the charges of the limiter's present window went to one earlier window of the
  limiter, and that nothing went to earlier ones once the limiter's present window is older than the
  exchange's.

`PaginationProofs`, for any history, any growth of it, any `start_time`, `end_time` and `limit`:

* `EachOnce` (`EachRowOnce`), from `OnceInv`. That yielded rows increase is not inductive: it needs
  that what is left of the page is a stretch of the history ending at the page's last row
  (`PageInv`), and that of those rows, the ones not beyond what was yielded have their identity in
  the boundary set. That set was collected from the page before, so the invariant also says of a
  page that its `again.ids` has every row of the page's last time, and between pages that a full
  page reached further than the rows the next one repeats (`FetchingInv`).
* `NothingSkipped` (`NothingIsSkipped`), which adds `SkipInv`: every row before those still to be
  gone through has been yielded, and every identity in the boundary set belongs to a row that has.
  It is kept while the history is `Sane`: no time is crowded, no two rows look the same, and no
  deposit has got its transaction id meanwhile; once it is not, it never is again.

`RestCallProofs`:

* `SafeRepeats` (`RepeatedForAReason`), for any statuses, codes, delays and number of attempts: what
  a mutating request, and any other, may be sent again after, how often, and when it may be given
  up. The invariant says where a request can be after how many sendings, and what the last error was
  there.
* `OrdersEndRight` (`ValidatedOrRejected`), for any order of either side and any filters: the
  arithmetic of snapping is a lemma (the remainder of a division), the rest is one case per step.

## 7. What is only model-checked

Liveness (`CatchesUp`, `Served`, `AcloseCompletes` of both streams, `ComesBack`, `Converges`,
`CallsReturn`): liveness under fairness is outside what the prover does. Every invariant and every
other action property of the passing runs, and the refinement, is proved.

## 8. What is not modelled, and why

* Planned: section 2.
* Details inside modelled parts: the latency of a SUBSCRIBE frame (it takes effect when it is sent);
  several hosts (connections share nothing but the client's dictionary); frames that do not decode
  (they end the sync task like a failed request); concurrent calls of one object's `aclose()`; order
  statuses unknown to the enumeration; the PRICE_RANGE hook of `validation.py`, which is dormant;
  the contents of user-data events other than order reports and listenKeyExpired.
* The stream router: host names and stream names, an unbounded dictionary of connections. Pure
  formatting.
* Signing, configuration, redaction, parsing of models and envelopes, wrappers of one request,
  scripts: no state and no order of events to get wrong.
