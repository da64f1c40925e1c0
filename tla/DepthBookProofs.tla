--------------------------- MODULE DepthBookProofs ---------------------------
(***************************************************************************)
(* Proofs about DepthBook, for every set of prices, snapshot limit, queue  *)
(* bound, number of updates and of disconnections.                         *)
(***************************************************************************)
EXTENDS DepthBook, FiniteSetTheorems, TLAPS

-----------------------------------------------------------------------------
(* The queue.                                                              *)

(* offer() keeps the bound, and what it leaves was in the queue or is the  *)
(* new item, which is last.                                                *)
LEMMA OfferFacts ==
  ASSUME NEW q \in Seq(Delta), Len(q) <= MaxSize, NEW x \in Delta
  PROVE  /\ Offer(q, MaxSize, x) \in Seq(Delta)
         /\ Len(Offer(q, MaxSize, x)) \in 1..MaxSize
         /\ \A k \in 1..Len(Offer(q, MaxSize, x)) :
               Offer(q, MaxSize, x)[k] = x \/ \E j \in 1..Len(q) : Offer(q, MaxSize, x)[k] = q[j]
         /\ Offer(q, MaxSize, x)[Len(Offer(q, MaxSize, x))] = x
<1>0. MaxSize \in Nat /\ MaxSize >= 1
  BY MaxSizeAssumption
<1>1. CASE Len(q) < MaxSize
  BY <1>0, <1>1 DEF Offer
<1>2. CASE ~ (Len(q) < MaxSize)
  <2>1. q # <<>> /\ Len(q) = MaxSize
    BY <1>0, <1>2
  <2>2. Tail(q) \in Seq(Delta) /\ Len(Tail(q)) = MaxSize - 1
    BY <1>0, <2>1
  <2>3. \A k \in 1..(MaxSize - 1) : Tail(q)[k] = q[k + 1]
    BY <1>0, <2>1
  <2> QED
    BY <1>0, <1>2, <2>1, <2>2, <2>3 DEF Offer
<1> QED
  BY <1>1, <1>2

(* Taking the head shifts the rest.                                        *)
LEMMA TailFacts ==
  ASSUME NEW q \in Seq(Delta), q # <<>>
  PROVE  /\ Head(q) = q[1] /\ 1 \in 1..Len(q) /\ Head(q) \in Delta
         /\ Tail(q) \in Seq(Delta)
         /\ Len(Tail(q)) = Len(q) - 1
         /\ \A k \in 1..Len(Tail(q)) : Tail(q)[k] = q[k + 1] /\ k + 1 \in 1..Len(q)
OBVIOUS

-----------------------------------------------------------------------------
(* Books.                                                                  *)

(* What a delta carries is enough: if update i is in the range d.U-1..d.u, *)
(* a level the delta does not carry is the same after i and after d.u.     *)
LEMMA NotCarried ==
  ASSUME NEW d \in Delta, NEW i \in (d.U - 1)..d.u, NEW l \in Level, l \notin Carries(d)
  PROVE  hist[i][l] = hist[d.u][l]
BY DEF Carries

LEMMA SeedType ==
  ASSUME TypeOK, NEW i \in 1..newest
  PROVE  /\ Seed(i) \in [view : Book, last : Int, covered : SUBSET Level]
         /\ Seed(i).last = i
         /\ Seed(i) # NoBook
<1>1. hist[i] \in Book
  BY DEF TypeOK, newest
<1>2. Covered(hist[i]) \subseteq Level
  BY DEF Covered
<1> QED
  BY <1>1, <1>2, LimitAssumption DEF Seed, Book, NoBook, TypeOK, newest

LEMMA ApplyType ==
  ASSUME TypeOK, NEW d, d.u \in 1..newest
  PROVE  /\ Apply(book, d) \in [view : Book, last : Int, covered : SUBSET Level]
         /\ Apply(book, d).last = d.u
         /\ Apply(book, d).covered = book.covered
         /\ Apply(book, d) # NoBook
<1>1. hist[d.u] \in Book
  BY DEF TypeOK, newest
<1> QED
  BY <1>1 DEF Apply, Book, NoBook, TypeOK, newest

-----------------------------------------------------------------------------
(* Type correctness.                                                       *)

LEMMA InitType == Init => TypeOK
<1> SUFFICES ASSUME Init PROVE TypeOK
  OBVIOUS
<1>1. PICK b \in Book : hist = <<b>>
  BY DEF Init
<1>2. hist \in Seq(Book) /\ newest = 1
  BY <1>1 DEF newest
<1>3. NoBook \in [view : Book, last : Int, covered : SUBSET Level]
  BY LimitAssumption DEF NoBook, Book
<1>4. queue \in Seq(Delta) /\ Len(queue) = 0
  BY DEF Init
<1> QED
  BY <1>2, <1>3, <1>4, BoundAssumption, MaxSizeAssumption DEF Init, TypeOK, synced

(* The part of TypeOK about the queue: it is what most actions disturb.    *)
QueueOK ==
  /\ queue \in Seq(Delta) /\ Len(queue) <= MaxSize
  /\ \A k \in 1..Len(queue) :
        queue[k] \in Signal \/ (2 <= queue[k].U /\ queue[k].U <= queue[k].u /\ queue[k].u <= sent)

LEMMA SignalType == Signal \subseteq Delta
BY DEF Signal, CLOSED, ERROR, Delta

(* Offering a signal keeps the queue's type.                               *)
LEMMA OfferSignalOK ==
  ASSUME QueueOK, NEW s \in Signal, sent \in Nat, sent' = sent,
         queue' = Offer(queue, MaxSize, s)
  PROVE  QueueOK'
<1>1. s \in Delta
  BY SignalType
<1> HIDE DEF Signal
<1>q. queue \in Seq(Delta) /\ Len(queue) <= MaxSize
  BY DEF QueueOK
<1>2. /\ queue' \in Seq(Delta) /\ Len(queue') \in 1..MaxSize
      /\ \A k \in 1..Len(queue') : queue'[k] = s \/ \E j \in 1..Len(queue) : queue'[k] = queue[j]
  BY <1>1, <1>q, OfferFacts
<1>3. Signal' = Signal
  BY DEF Signal, CLOSED, ERROR
<1> QED
  BY <1>2, <1>3, MaxSizeAssumption DEF QueueOK

LEMMA TakeOK ==
  ASSUME QueueOK, Take
  PROVE  QueueOK'
<1>1. queue' = Tail(queue) /\ sent' = sent
  BY DEF Take, exchangeVars
<1>2. /\ queue' \in Seq(Delta) /\ Len(queue') = Len(queue) - 1
      /\ \A k \in 1..Len(queue') : queue'[k] = queue[k + 1] /\ k + 1 \in 1..Len(queue)
  BY <1>1, TailFacts DEF QueueOK, Take
<1>3. Signal' = Signal
  BY DEF Signal, CLOSED, ERROR
<1> QED
  BY <1>1, <1>2, <1>3, MaxSizeAssumption DEF QueueOK

(* A delta taken from the queue covers updates the exchange has made.      *)
LEMMA HeadFacts ==
  ASSUME TypeOK, Take, Head(queue) \notin Signal
  PROVE  /\ Head(queue).U \in Nat /\ Head(queue).u \in 1..newest
         /\ 2 <= Head(queue).U /\ Head(queue).U <= Head(queue).u
<1>1. Head(queue) = queue[1] /\ 1 \in 1..Len(queue) /\ Head(queue) \in Delta
  BY TailFacts DEF TypeOK, Take
<1>2. 2 <= Head(queue).U /\ Head(queue).U <= Head(queue).u /\ Head(queue).u <= sent
  BY <1>1 DEF TypeOK
<1>3. sent <= newest /\ sent \in Int /\ newest \in Int
  BY DEF TypeOK, newest
<1> QED
  BY <1>1, <1>2, <1>3 DEF Delta

LEMMA NextType == TypeOK /\ [Next]_vars => TypeOK'
<1> SUFFICES ASSUME TypeOK, [Next]_vars PROVE TypeOK'
  OBVIOUS
<1> USE DEF exchangeVars, socketVars, syncVars, ownerVars
<1>q. QueueOK
  BY DEF TypeOK, QueueOK
<1>s. sent \in Nat /\ newest \in Nat /\ newest = Len(hist) /\ 1 <= sent
  BY DEF TypeOK, newest
<1>c. Level' = Level /\ Book' = Book /\ NoBook' = NoBook
  BY DEF Level, Book, NoBook, Side
<1>1. CASE Change
  <2>1. PICK b \in Book : hist' = Append(hist, b)
    <3>1. PICK l \in Level, x \in 0..MaxQty : hist' = Append(hist, [hist[newest] EXCEPT ![l] = x])
      BY <1>1 DEF Change
    <3>2. hist[newest] \in Book
      BY DEF TypeOK, newest
    <3> QED
      BY <3>1, <3>2 DEF Book
  <2>2. hist' \in Seq(Book) /\ newest' = newest + 1
    BY <2>1 DEF TypeOK, newest
  <2> QED
    BY <1>1, <1>c, <2>2, <1>s DEF Change, TypeOK, synced, Signal, CLOSED, ERROR
<1>2. CASE Publish
  <2>1. sent' = newest /\ newest' = newest /\ sent < newest
    BY <1>2 DEF Publish, newest
  <2>2. QueueOK' /\ heard' \in 0..sent'
    <3> DEFINE d == [U |-> sent + 1, u |-> newest]
    <3>1. CASE socket = "up" /\ subscribed
      <4>1. queue' = Offer(queue, MaxSize, d) /\ heard' = newest
        BY <1>2, <3>1 DEF Publish
      <4>2. d \in Delta
        BY <1>s DEF Delta
      <4>3. d.U = sent + 1 /\ d.u = newest
        OBVIOUS
      <4> HIDE DEF d
      <4>4. /\ queue' \in Seq(Delta) /\ Len(queue') \in 1..MaxSize
            /\ \A k \in 1..Len(queue') : queue'[k] = d \/ \E j \in 1..Len(queue) : queue'[k] = queue[j]
        <5>1. queue \in Seq(Delta) /\ Len(queue) <= MaxSize
          BY <1>q DEF QueueOK
        <5> QED
          BY <4>1, <4>2, <5>1, OfferFacts
      <4>5. Signal' = Signal
        BY DEF Signal, CLOSED, ERROR
      <4>6. ASSUME NEW k \in 1..Len(queue')
            PROVE  queue'[k] \in Signal \/ (2 <= queue'[k].U /\ queue'[k].U <= queue'[k].u /\ queue'[k].u <= sent')
        <5>1. CASE queue'[k] = d
          BY <5>1, <4>3, <2>1, <1>s
        <5>2. CASE \E j \in 1..Len(queue) : queue'[k] = queue[j]
          <6>1. PICK j \in 1..Len(queue) : queue'[k] = queue[j]
            BY <5>2
          <6>2. queue[j] \in Delta
            BY <1>q DEF QueueOK
          <6>3. queue[j].u \in Nat
            BY <6>2 DEF Delta
          <6> QED
            BY <6>1, <6>3, <1>q, <2>1, <1>s DEF QueueOK
        <5> QED
          BY <5>1, <5>2, <4>4
      <4>7. heard' \in 0..sent'
        BY <4>1, <2>1, <1>s
      <4> QED
        BY <4>4, <4>5, <4>6, <4>7, MaxSizeAssumption DEF QueueOK
    <3>2. CASE ~ (socket = "up" /\ subscribed)
      <4>1. queue' = queue /\ heard' = heard
        BY <1>2, <3>2 DEF Publish
      <4>2. \A k \in 1..Len(queue) : queue[k] \in Delta
        BY <1>q DEF QueueOK
      <4>3. \A k \in 1..Len(queue) : queue[k].u \in Nat
        BY <4>2 DEF Delta
      <4>4. heard \in 0..sent
        BY DEF TypeOK
      <4> QED
        BY <4>1, <4>3, <4>4, <1>q, <2>1, <1>s DEF QueueOK, Signal, CLOSED, ERROR
    <3> QED
      BY <3>1, <3>2
  <2> QED
    BY <1>2, <2>1, <2>2, <1>c, <1>s DEF Publish, TypeOK, QueueOK, synced, Signal, CLOSED, ERROR, newest
<1>3. CASE Disconnect
  BY <1>3, <1>c, BoundAssumption DEF Disconnect, TypeOK, synced, newest, Signal, CLOSED, ERROR
<1>4. CASE Connect
  BY <1>4, <1>c DEF Connect, TypeOK, synced, newest, Signal, CLOSED, ERROR
<1>5. CASE EndStream
  <2>1. QueueOK'
    BY <1>5, <1>q, <1>s, OfferSignalOK DEF EndStream
  <2> QED
    BY <1>5, <2>1, <1>c DEF EndStream, TypeOK, QueueOK, synced, newest, Signal, CLOSED, ERROR
<1>6. CASE SnapshotArrives
  <2>1. PICK i \in 1..newest : book' = Seed(i)
    BY <1>6, BoundAssumption DEF SnapshotArrives, TypeOK
  <2>2. /\ book' \in [view : Book, last : Int, covered : SUBSET Level]
        /\ book'.last \in 1..newest
        /\ book' # NoBook
    BY <2>1, SeedType
  <2> QED
    BY <1>6, <2>2, <1>c DEF SnapshotArrives, TypeOK, synced, newest, Signal, CLOSED, ERROR
<1>7. CASE SnapshotFails
  BY <1>7, <1>c DEF SnapshotFails, TypeOK, synced, newest, Signal, CLOSED, ERROR
<1>8. CASE DropStale
  <2>1. QueueOK'
    BY <1>8, <1>q, TakeOK DEF DropStale
  <2> QED
    BY <1>8, <2>1, <1>c DEF DropStale, Take, TypeOK, QueueOK, synced, newest, Signal, CLOSED, ERROR
<1>9. CASE Resnapshot
  <2>1. QueueOK'
    BY <1>9, <1>q, TakeOK DEF Resnapshot
  <2> QED
    BY <1>9, <2>1, <1>c DEF Resnapshot, Take, TypeOK, QueueOK, synced, newest, Signal, CLOSED, ERROR
<1>10. CASE ApplyDelta
  <2>1. QueueOK'
    BY <1>10, <1>q, TakeOK DEF ApplyDelta
  <2>2. Head(queue).u \in 1..newest
    BY <1>10, HeadFacts DEF ApplyDelta
  <2>3. /\ book' \in [view : Book, last : Int, covered : SUBSET Level]
        /\ book'.last \in 1..newest
        /\ book' # NoBook
    BY <1>10, <2>2, ApplyType DEF ApplyDelta
  <2> QED
    BY <1>10, <2>1, <2>3, <1>c DEF ApplyDelta, Take, TypeOK, QueueOK, synced, newest, Signal, CLOSED, ERROR
<1>11. CASE StreamStops
  <2>1. QueueOK'
    BY <1>11, <1>q, TakeOK DEF StreamStops
  <2> QED
    BY <1>11, <2>1, <1>c DEF StreamStops, Take, TypeOK, QueueOK, synced, newest, Signal, CLOSED, ERROR
<1>12. CASE Aclose
  BY <1>12, <1>c DEF Aclose, TypeOK, synced, newest, Signal, CLOSED, ERROR
<1>13. CASE AcloseFinishes
  <2>1. CLOSED \in Signal
    BY DEF Signal
  <2>2. QueueOK'
    BY <1>13, <2>1, <1>q, <1>s, OfferSignalOK DEF AcloseFinishes
  <2> QED
    BY <1>13, <2>2, <1>c DEF AcloseFinishes, TypeOK, QueueOK, synced, newest, Signal, CLOSED, ERROR
<1>14. CASE UNCHANGED vars
  BY <1>14, <1>c DEF vars, TypeOK, synced, newest, Signal, CLOSED, ERROR
<1> QED
  BY <1>1, <1>2, <1>3, <1>4, <1>5, <1>6, <1>7, <1>8, <1>9, <1>10, <1>11, <1>12, <1>13, <1>14
     DEF Next, Environment, Sync

(* The state keeps its shape, and the queue stays within _QUEUE_MAXSIZE.   *)
THEOREM TypeCorrect == Spec => []TypeOK
BY InitType, NextType, PTL DEF Spec

-----------------------------------------------------------------------------
(* MirrorsExchange: applying a delta to a book it follows on from gives    *)
(* the exchange's book at the end of the delta.                            *)

(* d overlaps or follows b.last, so b.last is in d's range: a level d does *)
(* not carry has not changed since b, and one it carries gets its value.   *)
LEMMA ApplyMirrors ==
  ASSUME TypeOK, MirrorsExchange, synced,
         NEW d \in Delta, d.u \in 1..newest,
         d.U <= book.last + 1, book.last < d.u,
         NEW l \in Level
  PROVE  \/ Apply(book, d).view[l] = hist[d.u][l]
         \/ l \notin book.covered /\ Apply(book, d).view[l] = 0
<1>1. CASE l \in Carries(d)
  BY <1>1 DEF Apply
<1>2. CASE l \notin Carries(d)
  <2>1. book.last \in (d.U - 1)..d.u
    BY DEF TypeOK, Delta, synced
  <2>2. hist[book.last][l] = hist[d.u][l]
    BY <1>2, <2>1, NotCarried
  <2>3. Apply(book, d).view[l] = book.view[l]
    BY <1>2 DEF Apply
  <2> QED
    BY <2>2, <2>3 DEF MirrorsExchange
<1> QED
  BY <1>1, <1>2

LEMMA InitMirrors == Init => MirrorsExchange
BY DEF Init, MirrorsExchange, synced

LEMMA NextMirrors == TypeOK /\ MirrorsExchange /\ [Next]_vars => MirrorsExchange'
<1> SUFFICES ASSUME TypeOK, MirrorsExchange, [Next]_vars PROVE MirrorsExchange'
  OBVIOUS
<1>c. Level' = Level /\ NoBook' = NoBook
  BY DEF Level, NoBook, Side
<1>1. CASE Change
  <2>1. book' = book
    BY <1>1 DEF Change, syncVars
  <2>2. \A i \in 1..newest : hist'[i] = hist[i]
    <3>1. PICK b : hist' = Append(hist, b)
      BY <1>1 DEF Change
    <3> QED
      BY <3>1 DEF TypeOK, newest
  <2> QED
    BY <1>c, <2>1, <2>2 DEF MirrorsExchange, TypeOK, synced
<1>2. CASE SnapshotArrives
  <2>1. PICK i \in 1..newest : book' = Seed(i)
    BY <1>2, BoundAssumption DEF SnapshotArrives, TypeOK
  <2>2. hist' = hist
    BY <1>2 DEF SnapshotArrives, exchangeVars
  <2> QED
    BY <1>c, <2>1, <2>2 DEF MirrorsExchange, Seed
<1>3. CASE ApplyDelta
  <2> DEFINE d == Head(queue)
  <2>1. d \in Delta /\ d.u \in 1..newest
    BY <1>3, HeadFacts, TailFacts DEF ApplyDelta, Take, TypeOK
  <2>2. synced
    BY <1>3 DEF ApplyDelta, Take, TypeOK
  <2>3. d.U <= book.last + 1 /\ book.last < d.u
    BY <1>3, <2>1, <2>2 DEF ApplyDelta, Stale, Gap, TypeOK, synced, Delta
  <2>4. hist' = hist /\ book' = Apply(book, d)
    BY <1>3 DEF ApplyDelta, Take, exchangeVars
  <2>5. book'.covered = book.covered /\ book'.last = d.u
    BY <2>4 DEF Apply
  <2> HIDE DEF d
  <2>6. \A l \in Level : \/ book'.view[l] = hist[d.u][l]
                         \/ l \notin book.covered /\ book'.view[l] = 0
    BY <2>1, <2>2, <2>3, <2>4, ApplyMirrors
  <2> QED
    BY <1>c, <2>4, <2>5, <2>6 DEF MirrorsExchange
<1>4. CASE UNCHANGED <<hist, book>>
  BY <1>4, <1>c DEF MirrorsExchange, synced
<1>5. Publish \/ Disconnect \/ Connect \/ EndStream \/ SnapshotFails \/ DropStale
      \/ Resnapshot \/ StreamStops \/ Aclose \/ AcloseFinishes \/ UNCHANGED vars
        => UNCHANGED <<hist, book>>
  BY DEF Publish, Disconnect, Connect, EndStream, SnapshotFails, DropStale, Resnapshot,
         StreamStops, Aclose, AcloseFinishes, Take, vars, exchangeVars, syncVars
<1> QED
  BY <1>1, <1>2, <1>3, <1>4, <1>5 DEF Next, Environment, Sync

(* ADR-0007: the book a reader sees is the exchange's book as of           *)
(* last_applied_u, whatever deltas were lost, whenever the snapshots were  *)
(* taken (even Lag updates before their request) and however often the     *)
(* book was resynchronised.                                                *)
THEOREM BookMirrorsExchange == Spec => []MirrorsExchange
BY TypeCorrect, InitMirrors, NextMirrors, PTL DEF Spec

-----------------------------------------------------------------------------
(* Freshness.  The two promises about it are not inductive: they need to   *)
(* know what a snapshot in flight can bring, and that the newest delta is  *)
(* the last in the queue (a signal stops the task before it can be missed). *)
FreshInv ==
  /\ task = "fetching" => book.last <= asked
  /\ task = "fetching" /\ queue = <<>> => heard <= asked
  /\ task = "reading" /\ queue = <<>> => heard <= book.last \/ (first /\ heard <= book.last + Lag)
  /\ Running /\ queue # <<>> =>
       queue[Len(queue)] \in Signal \/ queue[Len(queue)].u = heard

LEMMA InitFresh == Init => FreshInv
BY DEF Init, FreshInv, NoBook

(* Offering leaves the offered item last.                                  *)
LEMMA OfferedLast ==
  ASSUME TypeOK, NEW x \in Delta, queue' = Offer(queue, MaxSize, x)
  PROVE  queue' # <<>> /\ queue'[Len(queue')] = x
<1>1. queue \in Seq(Delta) /\ Len(queue) <= MaxSize
  BY DEF TypeOK
<1>2. Len(queue') \in 1..MaxSize /\ queue'[Len(queue')] = x
  BY <1>1, OfferFacts
<1> QED
  BY <1>2

(* Taking the head leaves the last item last, unless the head was it.      *)
LEMMA TakenLast ==
  ASSUME TypeOK, Take
  PROVE  /\ queue' = <<>> => Head(queue) = queue[Len(queue)]
         /\ queue' # <<>> => queue'[Len(queue')] = queue[Len(queue)]
<1>1. queue \in Seq(Delta) /\ queue # <<>> /\ queue' = Tail(queue)
  BY DEF TypeOK, Take
<1>2. /\ queue' \in Seq(Delta) /\ Len(queue') = Len(queue) - 1 /\ Head(queue) = queue[1]
      /\ \A k \in 1..Len(queue') : queue'[k] = queue[k + 1]
  BY <1>1, TailFacts
<1>3. queue' = <<>> => Len(queue) = 1
  <2>1. queue' = <<>> => Len(queue') = 0
    OBVIOUS
  <2>2. Len(queue) \in Nat
    BY <1>1
  <2> QED
    BY <1>2, <2>1, <2>2
<1>4. queue' # <<>> => Len(queue') \in 1..Len(queue') /\ Len(queue') + 1 = Len(queue)
  BY <1>1, <1>2
<1> QED
  BY <1>2, <1>3, <1>4

(* How far a step may take the reader.                                     *)
Onward == \/ book'.last > book.last
          \/ task = "fetching" /\ book'.last >= book.last - Lag

LEMMA NextFresh == TypeOK /\ FreshInv /\ [Next]_vars => FreshInv' /\ (book' # book => Onward)
<1> SUFFICES ASSUME TypeOK, FreshInv, [Next]_vars PROVE FreshInv' /\ (book' # book => Onward)
  OBVIOUS
<1> USE DEF Onward
<1>c. Signal' = Signal /\ book.last \in Int
  BY DEF Signal, CLOSED, ERROR, TypeOK
<1>t. /\ newest \in Nat /\ sent \in 1..newest /\ heard \in 0..sent /\ asked \in 1..newest
      /\ book.last <= newest /\ Lag \in Nat /\ first \in BOOLEAN
  BY BoundAssumption DEF TypeOK, newest, NoBook
<1>1. CASE Publish
  <2> DEFINE d == [U |-> sent + 1, u |-> newest]
  <2>1. book' = book /\ task' = task /\ asked' = asked /\ first' = first
    BY <1>1 DEF Publish, syncVars
  <2>2. CASE socket = "up" /\ subscribed
    <3>1. d \in Delta /\ d.u = newest
      BY <1>t DEF Delta
    <3>2. queue' = Offer(queue, MaxSize, d) /\ heard' = newest
      BY <1>1, <2>2 DEF Publish
    <3> HIDE DEF d
    <3>3. queue' # <<>> /\ queue'[Len(queue')] = d
      BY <3>1, <3>2, OfferedLast
    <3> QED
      BY <2>1, <3>1, <3>2, <3>3, <1>c DEF FreshInv, Running
  <2>3. CASE ~ (socket = "up" /\ subscribed)
    <3>1. queue' = queue /\ heard' = heard
      BY <1>1, <2>3 DEF Publish
    <3> QED
      BY <2>1, <3>1, <1>c DEF FreshInv, Running
  <2> QED
    BY <2>2, <2>3
<1>2. CASE EndStream
  <2>1. PICK s \in Signal : queue' = Offer(queue, MaxSize, s)
    BY <1>2 DEF EndStream
  <2>2. queue' # <<>> /\ queue'[Len(queue')] = s
    BY <2>1, SignalType, OfferedLast
  <2> QED
    BY <1>2, <2>1, <2>2, <1>c DEF EndStream, FreshInv, Running, syncVars
<1>3. CASE SnapshotArrives
  <2>1. PICK i \in (asked - Lag)..newest : book' = Seed(i)
    BY <1>3, <1>t DEF SnapshotArrives, TypeOK
  <2>2. book'.last = i /\ asked - Lag <= i /\ i \in Int
    BY <1>t, <2>1 DEF Seed
  <2>3. /\ task = "fetching" /\ task' = "reading" /\ queue' = queue /\ heard' = heard
        /\ asked' = asked /\ first'
    BY <1>3 DEF SnapshotArrives
  <2> QED
    BY <2>1, <2>2, <2>3, <1>c, <1>t DEF FreshInv, Running
<1>4. CASE DropStale
  <2>1. Head(queue).u <= book.last /\ Head(queue) \notin Signal
    BY <1>4 DEF DropStale, Stale
  <2>2. /\ task = "reading" /\ task' = "reading" /\ book' = book /\ heard' = heard /\ queue # <<>>
        /\ asked' = asked
    BY <1>4 DEF DropStale, Take, syncVars
  <2>3. /\ queue' = <<>> => Head(queue) = queue[Len(queue)]
        /\ queue' # <<>> => queue'[Len(queue')] = queue[Len(queue)]
    BY <1>4, TakenLast DEF DropStale
  <2> QED
    BY <2>1, <2>2, <2>3, <1>c, <1>t DEF FreshInv, Running
<1>5. CASE Resnapshot
  <2>1. /\ task = "reading" /\ task' = "fetching" /\ book' = book /\ heard' = heard
        /\ queue # <<>> /\ asked' = newest
    BY <1>5 DEF Resnapshot, Take
  <2>2. queue' # <<>> => queue'[Len(queue')] = queue[Len(queue)]
    BY <1>5, TakenLast DEF Resnapshot
  <2> QED
    BY <2>1, <2>2, <1>c, <1>t DEF FreshInv, Running
<1>6. CASE ApplyDelta
  <2>1. book'.last = Head(queue).u /\ ~ (Head(queue).u <= book.last) /\ Head(queue) \notin Signal
    BY <1>6 DEF ApplyDelta, Stale, Apply
  <2>2. Head(queue).u \in Nat
    BY <1>6, HeadFacts, <1>t DEF ApplyDelta
  <2>3. /\ task = "reading" /\ task' = "reading" /\ heard' = heard /\ queue # <<>>
    BY <1>6 DEF ApplyDelta, Take
  <2>4. /\ queue' = <<>> => Head(queue) = queue[Len(queue)]
        /\ queue' # <<>> => queue'[Len(queue')] = queue[Len(queue)]
    BY <1>6, TakenLast DEF ApplyDelta
  <2> QED
    BY <2>1, <2>2, <2>3, <2>4, <1>c, <1>t DEF FreshInv, Running
<1>7. CASE Change \/ Disconnect \/ Connect \/ UNCHANGED vars
  BY <1>7, <1>c DEF Change, Disconnect, Connect, vars, syncVars, FreshInv, Running
<1>8. CASE SnapshotFails \/ StreamStops \/ Aclose
  BY <1>8, <1>c DEF SnapshotFails, StreamStops, Aclose, Take, FreshInv, Running
<1>9. CASE AcloseFinishes
  <2>1. CLOSED \in Signal
    BY DEF Signal
  <2>2. queue' # <<>> /\ queue'[Len(queue')] = CLOSED
    BY <1>9, <2>1, SignalType, OfferedLast DEF AcloseFinishes
  <2> QED
    BY <1>9, <2>1, <2>2, <1>c DEF AcloseFinishes, FreshInv, Running, syncVars
<1> QED
  BY <1>1, <1>2, <1>3, <1>4, <1>5, <1>6, <1>7, <1>8, <1>9 DEF Next, Environment, Sync

(* Once the queue is drained the book includes the newest delta that ever  *)
(* reached it, but for what a snapshot that no delta has followed yet was  *)
(* behind its request.                                                     *)
THEOREM DrainedBookIsCurrent == Spec => []DrainedMeansCurrent
<1>1. TypeOK /\ FreshInv => DrainedMeansCurrent
  BY BoundAssumption DEF FreshInv, DrainedMeansCurrent, TypeOK
<1>2. TypeOK /\ FreshInv /\ [Next]_vars => FreshInv'
  BY NextFresh
<1> QED
  BY <1>1, <1>2, TypeCorrect, InitFresh, PTL DEF Spec

(* A delta never takes the reader's book back, nor does anything but a new *)
(* snapshot, and that by no more than it was behind its request: however   *)
(* late an answer is, what the task asked for is not older than its book.  *)
THEOREM BookGoesOn == Spec => OnlyLagGoesBack
<1>1. TypeOK /\ FreshInv /\ [Next]_vars => FreshInv'
  BY NextFresh
<1>2. TypeOK /\ FreshInv /\ [Next]_vars =>
        [book' # book => \/ book'.last > book.last
                         \/ task = "fetching" /\ book'.last >= book.last - Lag]_vars
  BY NextFresh DEF Onward
<1> QED
  BY <1>1, <1>2, TypeCorrect, InitFresh, PTL DEF Spec, OnlyLagGoesBack

-----------------------------------------------------------------------------
(* DepthBook implements BookPromise.                                       *)

LEMMA InitPromise == Init => Promise!Init
<1> SUFFICES ASSUME Init PROVE Promise!Init
  OBVIOUS
<1>1. PICK b \in Book : hist = <<b>>
  BY DEF Init
<1> QED
  BY <1>1 DEF Init, NoBook, Book, Promise!Init, Promise!Book

LEMMA NextPromise ==
  TypeOK /\ MirrorsExchange /\ FreshInv /\ [Next]_vars => [Promise!Next]_(Promise!vars)
<1> SUFFICES ASSUME TypeOK, MirrorsExchange, FreshInv, [Next]_vars
             PROVE  Promise!Next \/ UNCHANGED <<hist, book>>
  BY DEF Promise!vars
<1>0. TypeOK' /\ MirrorsExchange'
  BY NextType, NextMirrors
<1>1. CASE Change
  <2>1. UNCHANGED book
    BY <1>1 DEF Change, syncVars
  <2>2. PICK l \in Level, x \in 0..MaxQty : hist' = Append(hist, [hist[newest] EXCEPT ![l] = x])
    BY <1>1 DEF Change
  <2>3. PICK b \in [Level -> 0..MaxQty] : b = [hist[newest] EXCEPT ![l] = x]
    <3>1. hist \in Seq(Book) /\ newest \in 1..Len(hist)
      BY DEF TypeOK, newest
    <3>2. hist[newest] \in [Level -> 0..MaxQty]
      BY <3>1 DEF Book
    <3> QED
      BY <2>2, <3>2
  <2>4. Promise!Publish
    BY <2>1, <2>2, <2>3 DEF Promise!Publish, Promise!Book
  <2> QED
    BY <2>4 DEF Promise!Next
<1>2. CASE SnapshotArrives
  <2>1. PICK i \in 1..newest : book' = Seed(i) /\ asked - Lag <= i
    BY <1>2, BoundAssumption DEF SnapshotArrives, TypeOK
  <2>2. UNCHANGED hist /\ book.last <= asked
    BY <1>2 DEF SnapshotArrives, exchangeVars, FreshInv
  <2>3. book.last - Lag <= i
    <3>1. book.last \in Int /\ asked \in Int /\ Lag \in Int /\ i \in Int
      BY <2>1, BoundAssumption DEF TypeOK, Book
    <3> QED
      BY <2>1, <2>2, <3>1
  <2> QED
    BY <2>1, <2>2, <2>3 DEF Seed, Promise!Next, Promise!StartOver, newest
<1>3. CASE ApplyDelta
  <2>1. UNCHANGED hist /\ book' = Apply(book, Head(queue)) /\ synced
    BY <1>3 DEF ApplyDelta, Take, exchangeVars, TypeOK
  <2>2. book.last < book'.last /\ book.last # -1 /\ book'.covered = book.covered
    BY <1>3, <2>1, HeadFacts DEF ApplyDelta, Stale, Apply, TypeOK, synced
  <2>3. book'.last \in 1..Len(hist) /\ book'.view \in Book /\ synced'
    <3>1. synced' /\ newest' = Len(hist)
      <4>1. task' = "reading"
        BY <1>3 DEF ApplyDelta, Take
      <4> QED
        BY <1>0, <2>1, <4>1 DEF TypeOK, newest
    <3> QED
      BY <1>0, <3>1 DEF TypeOK, synced
  <2>4. Promise!Shows(book'.view, hist[book'.last], book.covered)
    BY <1>0, <2>1, <2>2, <2>3 DEF MirrorsExchange, Promise!Shows, TypeOK, Level, Side
  <2> QED
    BY <2>1, <2>2, <2>3, <2>4 DEF Promise!Next, Promise!MoveOn, Promise!Book, Book
<1>4. Publish \/ Disconnect \/ Connect \/ EndStream \/ SnapshotFails \/ DropStale
      \/ Resnapshot \/ StreamStops \/ Aclose \/ AcloseFinishes \/ UNCHANGED vars
        => UNCHANGED <<hist, book>>
  BY DEF Publish, Disconnect, Connect, EndStream, SnapshotFails, DropStale, Resnapshot,
         StreamStops, Aclose, AcloseFinishes, Take, vars, exchangeVars, syncVars
<1> QED
  BY <1>1, <1>2, <1>3, <1>4 DEF Next, Environment, Sync

(* The whole machinery of deltas, gaps, reconnects and resynchronisation   *)
(* shows the reader nothing but a sequence of truthful views of the        *)
(* exchange's book, each later than the one before, but for the lag of a   *)
(* fresh start.                                                            *)
THEOREM BookKeepsPromise == Spec => KeepsPromise
<1>1. TypeOK /\ FreshInv /\ [Next]_vars => FreshInv'
  BY NextFresh
<1>2. TypeOK /\ MirrorsExchange /\ FreshInv /\ [Next]_vars => [Promise!Next]_(Promise!vars)
  BY NextPromise
<1> QED
  BY <1>1, <1>2, TypeCorrect, BookMirrorsExchange, InitFresh, InitPromise, PTL
     DEF Spec, KeepsPromise, Promise!Spec

(* What the promise is worth: a book that keeps it, however it does, shows *)
(* the exchange's book as of one update, its own.                          *)
ShowsOneBook ==
  book.last # -1 => Promise!Shows(book.view, hist[book.last], book.covered)

PromiseInv ==
  /\ hist \in Seq(Book)
  /\ book.last # -1 => book.last \in 1..Len(hist) /\ book.covered \subseteq Level
  /\ ShowsOneBook

LEMMA PromiseStep == PromiseInv /\ [Promise!Next]_(Promise!vars) => PromiseInv'
<1> SUFFICES ASSUME PromiseInv, [Promise!Next]_(Promise!vars) PROVE PromiseInv'
  OBVIOUS
<1> USE DEF PromiseInv, ShowsOneBook
<1>0. CASE UNCHANGED Promise!vars
  BY <1>0 DEF Promise!vars
<1>1. CASE Promise!Publish
  <2>1. PICK b \in Book : hist' = Append(hist, b)
    BY <1>1 DEF Promise!Publish, Promise!Book, Book
  <2>2. book.last' = book.last /\ book.covered' = book.covered /\ book.view' = book.view
    BY <1>1 DEF Promise!Publish
  <2>3. /\ hist' \in Seq(Book) /\ Len(hist') = Len(hist) + 1
        /\ \A k \in 1..Len(hist) : hist'[k] = hist[k]
    BY <2>1
  <2>4. book.last # -1 => book.last \in 1..Len(hist') /\ hist'[book.last] = hist[book.last]
    BY <2>3
  <2> QED
    BY <2>2, <2>3, <2>4
<1>2. CASE Promise!StartOver
  <2>1. PICK i \in 1..Len(hist) :
          /\ book.last' = i /\ book.covered' = Covered(hist[i]) /\ UNCHANGED hist
          /\ book.view' = [l \in Level |-> IF l \in Covered(hist[i]) THEN hist[i][l] ELSE 0]
    BY <1>2 DEF Promise!StartOver
  <2>2. Covered(hist[i]) \subseteq Level
    BY DEF Covered
  <2>3. Promise!Shows(book.view', hist[i], Covered(hist[i]))
    BY <2>1, <2>2 DEF Promise!Shows
  <2> QED
    BY <2>1, <2>2, <2>3
<1>3. CASE Promise!MoveOn
  <2>1. PICK i \in 1..Len(hist) :
          /\ book.last' = i /\ Promise!Shows(book.view', hist[i], book.covered)
          /\ UNCHANGED <<hist, book.covered>> /\ book.last # -1
    BY <1>3 DEF Promise!MoveOn
  <2> QED
    BY <2>1
<1> QED
  BY <1>0, <1>1, <1>2, <1>3 DEF Promise!Next

THEOREM PromiseIsWorthIt == Promise!Spec => []ShowsOneBook
<1>1. Promise!Init => PromiseInv
  <2> SUFFICES ASSUME Promise!Init PROVE PromiseInv
    OBVIOUS
  <2>1. PICK b \in Book : hist = <<b>>
    BY DEF Promise!Init, Promise!Book, Book
  <2>2. hist \in Seq(Book) /\ book.last = -1
    BY <2>1 DEF Promise!Init
  <2> QED
    BY <2>2 DEF PromiseInv, ShowsOneBook
<1>2. PromiseInv => ShowsOneBook
  BY DEF PromiseInv
<1> QED
  BY <1>1, <1>2, PromiseStep, PTL DEF Promise!Spec

-----------------------------------------------------------------------------
(* The best quote.  What a limited snapshot vouches for reaches, on each   *)
(* side, from the top to some level.                                       *)
FromTheTop(levels) ==
  \A l \in levels : \A m \in Level : Better(m, l) => m \in levels

LEMMA BetterIsOrder ==
  /\ \A l, m, n \in Level : Better(n, m) /\ Better(m, l) => Better(n, l)
  /\ \A l, m \in Level : l[1] = m[1] => l = m \/ Better(l, m) \/ Better(m, l)
<1>1. ASSUME NEW l \in Level
      PROVE  l[1] \in Side /\ l[2] \in Nat /\ l = <<l[1], l[2]>>
  <2>1. PICK s \in Side, p \in Price : l = <<s, p>>
    BY DEF Level
  <2> QED
    BY <2>1, PriceAssumption
<1>2. ASSUME NEW l \in Level, NEW m \in Level, NEW n \in Level, Better(n, m), Better(m, l)
      PROVE  Better(n, l)
  <2>1. l[2] \in Nat /\ m[2] \in Nat /\ n[2] \in Nat /\ n[1] = l[1]
    BY <1>1, <1>2 DEF Better
  <2> QED
    BY <1>2, <2>1 DEF Better
<1>3. ASSUME NEW l \in Level, NEW m \in Level, l[1] = m[1]
      PROVE  l = m \/ Better(l, m) \/ Better(m, l)
  <2>1. l[2] = m[2] => l = m
    BY <1>1, <1>3
  <2>2. l[2] < m[2] \/ l[2] = m[2] \/ m[2] < l[2]
    BY <1>1
  <2> QED
    BY <1>1, <1>3, <2>1, <2>2 DEF Better, Side
<1> QED
  BY <1>2, <1>3

LEMMA CoveredFromTheTop ==
  ASSUME IsFiniteSet(Price), NEW b
  PROVE  FromTheTop(Covered(b))
<1> SUFFICES ASSUME NEW l \in Covered(b), NEW m \in Level, Better(m, l)
             PROVE  m \in Covered(b)
  BY DEF FromTheTop
<1> DEFINE Above(x) == {n \in Present(b) : Better(n, x)}
<1>1. l \in Level /\ Cardinality(Above(l)) < Limit
  BY DEF Covered
<1>2. IsFiniteSet(Above(l))
  <2>1. IsFiniteSet(Side)
    <3>1. IsFiniteSet({} \cup {"bid"})
      BY FS_EmptySet, FS_AddElement
    <3>2. IsFiniteSet(({} \cup {"bid"}) \cup {"ask"})
      BY <3>1, FS_AddElement
    <3>3. Side = ({} \cup {"bid"}) \cup {"ask"}
      BY DEF Side
    <3> QED
      BY <3>2, <3>3
  <2>2. IsFiniteSet(Level)
    BY <2>1, FS_Product DEF Level
  <2>3. Above(l) \subseteq Level
    BY DEF Present
  <2> QED
    BY <2>2, <2>3, FS_Subset
<1>3. Above(m) \subseteq Above(l)
  BY <1>1, BetterIsOrder DEF Present
<1>4. IsFiniteSet(Above(m)) /\ Cardinality(Above(m)) <= Cardinality(Above(l))
  BY <1>2, <1>3, FS_Subset
<1>5. Cardinality(Above(m)) \in Nat /\ Cardinality(Above(l)) \in Nat
  BY <1>2, <1>4, FS_CardinalityType
<1>6. Cardinality(Above(m)) < Limit
  BY <1>1, <1>4, <1>5, LimitAssumption
<1> QED
  BY <1>6 DEF Covered

(* Two books that agree on levels from the top have the same best level on *)
(* a side where one of these levels is present.                            *)
LEMMA SameBest ==
  ASSUME NEW v \in Book, NEW h \in Book, NEW levels \in SUBSET Level, FromTheTop(levels),
         \A l \in Level : v[l] = h[l] \/ (l \notin levels /\ v[l] = 0),
         NEW side \in Side, NEW top \in levels, top \in Present(v), top[1] = side
  PROVE  Best(v, side) = Best(h, side)
<1>1. \A l \in levels : l \in Present(v) <=> l \in Present(h)
  BY DEF Present
<1>2. Present(v) \subseteq Present(h)
  BY DEF Present
<1>3. top \in Level /\ top \in Present(h)
  BY <1>2
<1>4. ASSUME NEW x \in Level, x[1] = side, ~ Better(top, x) PROVE x \in levels
  BY <1>3, <1>4, BetterIsOrder DEF FromTheTop
<1>5. ASSUME NEW x \in Best(v, side) PROVE x \in Best(h, side)
  <2>1. x \in Present(v) /\ x[1] = side /\ \A m \in Present(v) : ~ Better(m, x)
    BY DEF Best
  <2>2. x \in levels /\ x \in Present(h)
    BY <1>2, <1>4, <2>1 DEF Present
  <2>3. \A m \in Present(h) : ~ Better(m, x)
    BY <1>1, <2>1, <2>2 DEF Present, FromTheTop
  <2> QED
    BY <2>1, <2>2, <2>3 DEF Best
<1>6. ASSUME NEW x \in Best(h, side) PROVE x \in Best(v, side)
  <2>1. x \in Present(h) /\ x[1] = side /\ \A m \in Present(h) : ~ Better(m, x)
    BY DEF Best
  <2>2. x \in levels /\ x \in Present(v)
    BY <1>1, <1>3, <1>4, <2>1 DEF Present
  <2> QED
    BY <1>2, <2>1, <2>2 DEF Best
<1> QED
  BY <1>5, <1>6

Vouched == FromTheTop(book.covered)

LEMMA StepVouched ==
  ASSUME IsFiniteSet(Price), Vouched, [Next]_vars
  PROVE  Vouched'
<1>1. CASE SnapshotArrives
  <2>1. PICK i \in (asked - Lag)..newest : book' = Seed(i)
    BY <1>1 DEF SnapshotArrives
  <2> QED
    BY <2>1, CoveredFromTheTop DEF Seed, Vouched
<1>2. CASE ApplyDelta
  BY <1>2 DEF ApplyDelta, Apply, Vouched
<1>3. CASE UNCHANGED book
  BY <1>3 DEF Vouched
<1>4. Change \/ Publish \/ Disconnect \/ Connect \/ EndStream \/ SnapshotFails \/ DropStale
      \/ Resnapshot \/ StreamStops \/ Aclose \/ AcloseFinishes \/ UNCHANGED vars
        => UNCHANGED book
  BY DEF Change, Publish, Disconnect, Connect, EndStream, SnapshotFails, DropStale, Resnapshot,
         StreamStops, Aclose, AcloseFinishes, Take, vars, syncVars
<1> QED
  BY <1>1, <1>2, <1>3, <1>4 DEF Next, Environment, Sync

(* best_bid() and best_ask() are the exchange's as of last_applied_u, on   *)
(* each side on which a level that the snapshot vouched for is left, if an *)
(* exchange has finitely many prices.                                      *)
THEOREM BestIsBest ==
  ASSUME IsFiniteSet(Price)
  PROVE  Spec => []BestQuoteIsReal
<1>1. Init => Vouched
  BY DEF Init, NoBook, Vouched, FromTheTop
<1>2. Vouched /\ [Next]_vars => Vouched'
  BY StepVouched
<1>3. TypeOK /\ MirrorsExchange /\ Vouched => BestQuoteIsReal
  <2> SUFFICES ASSUME TypeOK, MirrorsExchange, Vouched, synced, NEW side \in Side,
                      NEW l \in book.covered \cap Present(book.view), l[1] = side
               PROVE  Best(book.view, side) = Best(hist[book.last], side)
    BY DEF BestQuoteIsReal
  <2>1. book.view \in Book /\ book.covered \in SUBSET Level /\ hist[book.last] \in Book
    BY DEF TypeOK, synced, newest
  <2>2. \A m \in Level : book.view[m] = hist[book.last][m] \/ (m \notin book.covered /\ book.view[m] = 0)
    BY DEF MirrorsExchange
  <2> QED
    BY <2>1, <2>2, SameBest DEF Vouched
<1> QED
  BY <1>1, <1>2, <1>3, TypeCorrect, BookMirrorsExchange, PTL DEF Spec

=============================================================================
