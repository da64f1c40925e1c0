------------------------------ MODULE DepthBook ------------------------------
(***************************************************************************)
(* The self-syncing local order book: orderbook.py (LocalOrderBook,        *)
(* OrderBookSynchronizer.run, ManagedOrderBook) fed by the depth stream of *)
(* stream.py through a drop-oldest _Subscription, and by REST snapshots.   *)
(*                                                                         *)
(* The exchange is external.  It has applied one book change per update    *)
(* id; hist[i] is its book after update i.  It publishes diff-depth deltas *)
(* that cover consecutive ranges of ids; a delta U..u carries every level  *)
(* that changed in that range with its quantity after u, so a delta is     *)
(* represented by the range alone.                                         *)
(*                                                                         *)
(* The consumer loses deltas in the two ways the code has: while the       *)
(* socket is down, and when the bounded queue overflows.                   *)
(***************************************************************************)
EXTENDS Integers, Sequences, FiniteSets, Subscription

CONSTANTS
  Price,      \* the prices levels can have
  MaxQty,     \* the largest quantity of a level
  Limit,      \* OrderBookSynchronizer._limit: levels per side in a snapshot
  MaxSize,    \* _QUEUE_MAXSIZE
  MaxUpdates, \* bound: book changes the exchange makes
  MaxDrops,   \* bound: times the socket goes down
  Lag         \* update ids a snapshot may be older than its request

ASSUME PriceAssumption   == Price \subseteq Nat
ASSUME LimitAssumption   == Limit \in Nat \ {0} /\ MaxQty \in Nat \ {0}
ASSUME MaxSizeAssumption == MaxSize \in Nat \ {0}
ASSUME BoundAssumption   == MaxUpdates \in Nat /\ MaxDrops \in Nat /\ Lag \in Nat

VARIABLES
  hist,       \* hist[i]: the exchange's book after update id i
  sent,       \* last update id the exchange has published on the stream
  socket,     \* "up", "down" (reconnecting) or "over" (faulted or closed)
  drops,      \* times the socket went down
  queue,      \* _Subscription._queue
  heard,      \* final id of the newest delta offered to the queue (0: none)
  task,       \* the _run task; "none" once aclose() has taken it
  asked,      \* newest update id when the snapshot was requested
  book,       \* ManagedOrderBook._book
  first,      \* the local `first` of run()
  owner,      \* the book's owner: "open", then aclose() "closing", "closed"
  subscribed  \* the _Subscription is still registered on its connection

exchangeVars == <<hist, sent>>
socketVars   == <<socket, drops>>
syncVars     == <<task, asked, book, first>>
ownerVars    == <<owner, subscribed>>
vars == <<exchangeVars, socketVars, queue, heard, syncVars, ownerVars>>

-----------------------------------------------------------------------------
(* Books.                                                                  *)

Side  == {"bid", "ask"}
Level == Side \X Price
Book  == [Level -> 0..MaxQty]      \* quantity 0: no such level

Better(l, m) ==                    \* l is closer to the top of its side
  /\ l[1] = m[1]
  /\ IF l[1] = "bid" THEN l[2] > m[2] ELSE l[2] < m[2]

Present(b) == {l \in Level : b[l] # 0}

(* Top levels of one side: best_bid() and best_ask(), as a set of at most  *)
(* one level.                                                              *)
Best(b, side) ==
  {l \in Present(b) : l[1] = side /\ \A m \in Present(b) : ~ Better(m, l)}

(* What a snapshot of Limit levels per side tells the truth about: a level *)
(* with fewer than Limit better ones is in it, or is known to be empty.    *)
Covered(b) ==
  {l \in Level : Cardinality({m \in Present(b) : Better(m, l)}) < Limit}

Uncrossed(b) ==
  \A l, m \in Present(b) : l[1] = "bid" /\ m[1] = "ask" => l[2] < m[2]

-----------------------------------------------------------------------------
(* LocalOrderBook: the levels, last_applied_u, and which levels the seed   *)
(* vouched for (kept for the properties, not in the code).                 *)

Delta == [U : Nat, u : Nat]
NoBook == [view |-> [l \in Level |-> 0], last |-> -1, covered |-> {}]

Seed(i) ==
  [view    |-> [l \in Level |-> IF l \in Covered(hist[i]) THEN hist[i][l] ELSE 0],
   last    |-> i,
   covered |-> Covered(hist[i])]

(* The levels a delta carries: whatever was, anywhere in its range,        *)
(* different from what it is at the end of it.                             *)
Carries(d) ==
  {l \in Level : \E i \in (d.U - 1)..d.u : hist[i][l] # hist[d.u][l]}

(* Mutant: a level whose quantity became 0 is not removed.                 *)
ApplyKeepsEmptied(b, d) ==
  [view    |-> [l \in Level |->
                 IF l \in Carries(d) /\ hist[d.u][l] # 0 THEN hist[d.u][l] ELSE b.view[l]],
   last    |-> d.u,
   covered |-> b.covered]

Apply(b, d) ==
  [view    |-> [l \in Level |-> IF l \in Carries(d) THEN hist[d.u][l] ELSE b.view[l]],
   last    |-> d.u,
   covered |-> b.covered]

(* Mutant: a gap check that trusts a snapshot it does not bracket.         *)
GapUnlessFirst(d) == ~ first /\ d.U > book.last + 1

(* The three outcomes of the loop body for a delta.                        *)
Stale(d) == d.u <= book.last
Gap(d)   == IF first
            THEN ~ (d.U <= book.last + 1 /\ book.last + 1 <= d.u)
            ELSE d.U > book.last + 1

(* Items of the queue that are not deltas: _CLOSED and a _StreamError.     *)
CLOSED == [U |-> 0, u |-> 0]
ERROR  == [U |-> 0, u |-> 1]
Signal == {CLOSED, ERROR}

-----------------------------------------------------------------------------
(* The exchange and the socket.                                            *)

newest == Len(hist)

(* One level changes: the next update id.                                  *)
Change ==
  /\ newest < MaxUpdates
  /\ \E l \in Level, q \in 0..MaxQty :
       LET b == [hist[newest] EXCEPT ![l] = q]
       IN /\ q # hist[newest][l]
          /\ Uncrossed(b)
          /\ hist' = Append(hist, b)
  /\ UNCHANGED <<sent, socketVars, queue, heard, syncVars, ownerVars>>

(* The exchange publishes a delta of everything since the last one.  The   *)
(* reader dispatches it to the queue, unless the socket is down or the     *)
(* subscription is gone: then it is lost.                                  *)
Publish ==
  LET d == [U |-> sent + 1, u |-> newest]
  IN /\ sent < newest
     /\ sent' = newest
     /\ IF socket = "up" /\ subscribed
        THEN queue' = Offer(queue, MaxSize, d) /\ heard' = d.u
        ELSE UNCHANGED <<queue, heard>>
     /\ UNCHANGED <<hist, socketVars, syncVars, ownerVars>>

(* The socket fails, or a planned reconnect closes it.                     *)
Disconnect ==
  /\ socket = "up"
  /\ drops < MaxDrops
  /\ socket' = "down"
  /\ drops' = drops + 1
  /\ UNCHANGED <<exchangeVars, queue, heard, syncVars, ownerVars>>

Connect ==
  /\ socket = "down"
  /\ socket' = "up"
  /\ UNCHANGED <<exchangeVars, drops, queue, heard, syncVars, ownerVars>>

(* The connection gives up (_fault_all) or the client is closed: the       *)
(* subscription gets its sentinel, and no delta after it.                  *)
EndStream ==
  /\ socket # "over"
  /\ subscribed
  /\ socket' = "over"
  /\ \E s \in Signal : queue' = Offer(queue, MaxSize, s)
  /\ UNCHANGED <<exchangeVars, drops, heard, syncVars, ownerVars>>

-----------------------------------------------------------------------------
(* The sync task: OrderBookSynchronizer.run driven by ManagedOrderBook._run. *)

synced  == book # NoBook
Running == task \in {"fetching", "reading"}

(* Mutant: the levels of a new snapshot are merged into the old book.      *)
SnapshotMerged ==
  /\ task = "fetching"
  /\ \E i \in (asked - Lag)..newest :
       /\ i >= 1
       /\ book' = [Seed(i) EXCEPT !.view = [l \in Level |-> IF @[l] # 0 THEN @[l] ELSE book.view[l]]]
  /\ first' = TRUE
  /\ task' = "reading"
  /\ UNCHANGED <<exchangeVars, socketVars, queue, heard, asked, ownerVars>>

(* `await self._depth(...)` returns the exchange's book at some update id  *)
(* between the request and the answer (or Lag older): the book is seeded   *)
(* with it and published to the readers by the first yield.                *)
SnapshotArrives ==
  /\ task = "fetching"
  /\ \E i \in (asked - Lag)..newest :
       /\ i >= 1
       /\ book' = Seed(i)
  /\ first' = TRUE
  /\ task' = "reading"
  /\ UNCHANGED <<exchangeVars, socketVars, queue, heard, asked, ownerVars>>

(* The depth call raises: nothing catches it, and the task is over.        *)
SnapshotFails ==
  /\ task = "fetching"
  /\ task' = "dead"
  /\ UNCHANGED <<exchangeVars, socketVars, queue, heard, asked, book, first, ownerVars>>

(* One turn of `async for delta in deltas`: the item is taken first.       *)
Take ==
  /\ task = "reading"
  /\ queue # <<>>
  /\ queue' = Tail(queue)
  /\ UNCHANGED <<exchangeVars, socketVars, heard, ownerVars>>

DropStale ==
  /\ Take
  /\ Head(queue) \notin Signal
  /\ Stale(Head(queue))
  /\ UNCHANGED syncVars

(* Mutant: the delta that shows the gap is used up, and nothing asked for. *)
ResnapshotForgotten ==
  /\ Take
  /\ Head(queue) \notin Signal
  /\ ~ Stale(Head(queue))
  /\ Gap(Head(queue))
  /\ UNCHANGED <<task, asked, book, first>>

(* The delta that shows the gap is used up; the readers keep the old book  *)
(* until the new snapshot arrives.                                         *)
Resnapshot ==
  /\ Take
  /\ Head(queue) \notin Signal
  /\ ~ Stale(Head(queue))
  /\ Gap(Head(queue))
  /\ task' = "fetching"
  /\ asked' = newest
  /\ UNCHANGED <<book, first>>

ApplyDelta ==
  /\ Take
  /\ Head(queue) \notin Signal
  /\ ~ Stale(Head(queue))
  /\ ~ Gap(Head(queue))
  /\ book' = Apply(book, Head(queue))
  /\ first' = FALSE
  /\ UNCHANGED <<task, asked>>

(* _CLOSED exhausts the iterator and run() returns; a _StreamError, or a   *)
(* payload that does not decode, escapes from it.                          *)
StreamStops ==
  /\ Take
  /\ Head(queue) \in Signal
  /\ task' = IF Head(queue) = CLOSED THEN "ended" ELSE "dead"
  /\ UNCHANGED <<asked, book, first>>

-----------------------------------------------------------------------------
(* ManagedOrderBook.aclose.  It takes the task and awaits it: a running    *)
(* task is cancelled, but one that died has its exception raised here,     *)
(* before the stream is closed and on_close called.                        *)
Aclose ==
  /\ owner \in {"open", "raised"}
  /\ IF task = "dead"
     THEN owner' = "raised"
     ELSE owner' = "closing"
  /\ task' = "none"
  /\ UNCHANGED <<exchangeVars, socketVars, queue, heard, asked, book, first, subscribed>>

(* The rest of aclose(): on_close is `conn.unsubscribe(sub)`.              *)
AcloseFinishes ==
  /\ owner = "closing"
  /\ owner' = "closed"
  /\ subscribed' = FALSE
  /\ queue' = Offer(queue, MaxSize, CLOSED)
  /\ UNCHANGED <<exchangeVars, socketVars, heard, syncVars>>

-----------------------------------------------------------------------------

(* order_book() has subscribed, and start() has launched the task: the     *)
(* first snapshot is requested; the socket need not be up yet.             *)
Init ==
  /\ hist \in {<<b>> : b \in {c \in Book : Uncrossed(c)}}
  /\ sent = 1
  /\ socket = "down"
  /\ drops = 0
  /\ queue = <<>>
  /\ heard = 0
  /\ task = "fetching"
  /\ asked = 1
  /\ book = NoBook
  /\ first = TRUE
  /\ owner = "open"
  /\ subscribed = TRUE

Sync == SnapshotArrives \/ SnapshotFails
        \/ DropStale \/ Resnapshot \/ ApplyDelta \/ StreamStops

Environment == Change \/ Publish \/ Disconnect \/ Connect \/ EndStream

Next == Environment \/ Sync \/ Aclose \/ AcloseFinishes

Spec == Init /\ [][Next]_vars

(* The event loop runs a task that can go on, and the transport bounds     *)
(* every REST call by its timeout: the sync task never stops half-way.     *)
FairSpec == Spec /\ WF_vars(Sync)

-----------------------------------------------------------------------------
(* Properties.                                                             *)

(* Shape of the state: owner and task go together, the exchange's ids are  *)
(* dense, and the queue never outgrows _QUEUE_MAXSIZE.                     *)
TypeOK ==
  /\ hist \in Seq(Book) /\ newest >= 1
  /\ sent \in 1..newest
  /\ socket \in {"up", "down", "over"}
  /\ drops \in 0..MaxDrops
  /\ queue \in Seq(Delta) /\ Len(queue) <= MaxSize
  /\ \A k \in 1..Len(queue) :
        queue[k] \in Signal \/ (2 <= queue[k].U /\ queue[k].U <= queue[k].u /\ queue[k].u <= sent)
  /\ heard \in 0..sent
  /\ task \in {"fetching", "reading", "dead", "ended", "none"}
  /\ asked \in 1..newest
  /\ book \in [view : Book, last : Int, covered : SUBSET Level]
  /\ book = NoBook \/ book.last \in 1..newest
  /\ task = "reading" => synced
  /\ first \in BOOLEAN
  /\ owner \in {"open", "raised", "closing", "closed"}
  /\ subscribed \in BOOLEAN

(* ADR-0007's promise.  Whatever was lost, reordered against the REST      *)
(* snapshot or resynchronised, the book a reader sees is never a mixture:  *)
(* it is the exchange's book as of the update last_applied_u.  A level the *)
(* limited snapshot did not vouch for may be missing, never wrong.         *)
MirrorsExchange ==
  synced =>
    \A l \in Level :
      \/ book.view[l] = hist[book.last][l]
      \/ l \notin book.covered /\ book.view[l] = 0

(* best_bid()/best_ask(): while a level the snapshot vouched for remains   *)
(* on a side, the best quote is the exchange's best quote at that update.  *)
BestQuoteIsReal ==
  synced =>
    \A side \in Side :
      (\E l \in book.covered \cap Present(book.view) : l[1] = side)
        => Best(book.view, side) = Best(hist[book.last], side)

(* Losing deltas to a full queue or a reconnect never leaves the reader    *)
(* behind what reached it: once the queue is drained, the book includes    *)
(* the newest delta that was ever offered.  Until a first delta has        *)
(* followed the snapshot, it is behind by what the snapshot was, at most.  *)
DrainedMeansCurrent ==
  task = "reading" /\ queue = <<>> => book.last >= IF first THEN heard - Lag ELSE heard

(* Across deltas, gaps and new snapshots a reader's book moves on to later *)
(* updates; only a new snapshot can take it back, and then by no more than *)
(* the snapshot was behind its request.                                    *)
OnlyLagGoesBack ==
  [][book' # book => \/ book'.last > book.last
                     \/ task = "fetching" /\ book'.last >= book.last - Lag]_vars

(* The book implements what BookPromise says of it.                        *)
Promise == INSTANCE BookPromise WITH
             Known <- Covered,
             at    <- book.last,
             known <- book.covered,
             view  <- book.view

KeepsPromise == Promise!Spec

(* A reader that has heard of a newer book gets to it, or to one that a    *)
(* snapshot may still be behind it, or the task stops.                     *)
CatchesUp ==
  (Running /\ heard > book.last + Lag) ~> (book.last + Lag >= heard \/ ~ Running)

(* docs/guides/local-order-book.md: "so you never read a                   *)
(* silently-diverged book": a book that is behind what the stream has      *)
(* delivered has a task that will mend it.                                 *)
NoSilentDivergence ==
  synced /\ owner = "open" /\ book.last < heard => Running

=============================================================================
