----------------------------- MODULE PacingProofs -----------------------------
(***************************************************************************)
(* Proofs about Pacing, for any number of tasks, windows, limits and rules *)
(* and without a bound on time.                                            *)
(***************************************************************************)
EXTENDS Pacing, TLAPS

WindowState == [on : BOOLEAN, limit : Nat, used : Nat, start : Nat \cup {NoStart}, sum : Nat]

Jobs == [weight : Nat, mutating : BOOLEAN, info : BOOLEAN, force : BOOLEAN]

(* A window of the limiter is sound: it counts all that it admitted.       *)
Sound(b) == b \in WindowState /\ b.used >= b.sum

-----------------------------------------------------------------------------
(* Windows.                                                                *)

(* A window that is over moves on by one duration at least.                *)
LEMMA Turns ==
  ASSUME NEW d \in Nat \ {0}, NEW x \in Nat, ~ (x < d)
  PROVE  d * (x \div d) \in Nat \ {0}
<1>1. x \div d \in Nat
  OBVIOUS
<1>2. x \div d # 0
  OBVIOUS
<1>3. \A a \in Nat \ {0}, b \in Nat \ {0} : a * b \in Nat \ {0}
  OBVIOUS
<1> QED
  BY <1>1, <1>2, <1>3

(* Rolling a window keeps it sound; it either leaves it as it is, or       *)
(* starts it anew with nothing used.                                       *)
LEMMA RollSound ==
  ASSUME now \in Nat, NEW w \in Window, NEW b, Sound(b)
  PROVE  /\ Sound(Roll(w, b))
         /\ Roll(w, b).start \in Nat
         /\ Roll(w, b).sum <= b.sum
         /\ Roll(w, b).limit = b.limit
         /\ Roll(w, b).start = b.start => Roll(w, b) = b
<1> USE DEF Sound, WindowState
<1>1. Duration[w] \in Nat \ {0}
  BY PacingAssumption
<1>2. CASE b.start = NoStart
  BY <1>2 DEF Roll, NoStart
<1>3. CASE b.start # NoStart /\ now - b.start < Duration[w]
  BY <1>1, <1>3 DEF Roll, NoStart
<1>4. CASE b.start # NoStart /\ ~ (now - b.start < Duration[w])
  <2> DEFINE turn == Duration[w] * ((now - b.start) \div Duration[w])
  <2>1. b.start \in Nat /\ now - b.start \in Nat
    BY <1>1, <1>4 DEF NoStart
  <2>2. turn \in Nat \ {0}
    BY <1>1, <1>4, <2>1, Turns
  <2>3. Roll(w, b) = [b EXCEPT !.start = @ + turn, !.used = 0, !.sum = 0]
    BY <1>4 DEF Roll
  <2> HIDE DEF turn
  <2>4. /\ Roll(w, b).start = b.start + turn /\ Roll(w, b).used = 0 /\ Roll(w, b).sum = 0
        /\ Roll(w, b).limit = b.limit /\ Roll(w, b).on = b.on
        /\ Roll(w, b) = [on |-> b.on, limit |-> b.limit, used |-> 0, start |-> b.start + turn, sum |-> 0]
    BY <2>3
  <2>5. b.start + turn \in Nat /\ b.start + turn # b.start
    BY <2>1, <2>2
  <2> QED
    BY <2>4, <2>5
<1> QED
  BY <1>2, <1>3, <1>4

-----------------------------------------------------------------------------
(* The limiter's windows all together.                                     *)

Buckets == bucket \in [Window -> WindowState] /\ \A w \in Window : Sound(bucket[w])

(* What the calls keep: their types, and one task at most with the lock.   *)
Calls ==
  /\ pc \in [Task -> {"idle", "locked", "ready", "paced", "sent", "backoff"}]
  /\ until \in [Task -> Nat] /\ tries \in [Task -> Nat] /\ job \in [Task -> Jobs]
  /\ reply \in [Task -> [count : [Window -> Nat], rules : Version]]
  /\ holding \in SUBSET Task /\ \A c, d \in holding : c = d

Counts ==
  /\ now \in Nat /\ defied \in BOOLEAN /\ rules \in Version /\ info \in Version \cup {NoInfo}
  /\ used \in [Window -> Nat] /\ burst \in [Window -> Nat] /\ halt \in [Window -> Nat]

LEMMA TypeParts ==
  /\ PacingTypeOK <=> Buckets /\ Calls /\ Counts
  /\ PacingTypeOK' <=> Buckets' /\ Calls' /\ Counts'
  BY DEF PacingTypeOK, Buckets, Calls, Counts, WindowState, Jobs, Sound

(* Of two states of the limiter, the second has admitted no more.          *)
NoMore(b, c) == \A w \in Window : c[w].sum <= b[w].sum

LEMMA AdoptedSound ==
  ASSUME Buckets, now \in Nat, NEW count \in [Window -> Nat], NEW w \in Window
  PROVE  Sound(Adopted(count)[w]) /\ Adopted(count)[w].sum <= bucket[w].sum
<1> DEFINE r == Rolled(w)
           up == IF count[w] > r.used THEN count[w] ELSE r.used
<1>1. Sound(r) /\ r.sum <= bucket[w].sum
  BY RollSound DEF Rolled, Buckets
<1>2. Sound(bucket[w]) /\ bucket[w].sum <= bucket[w].sum
  BY DEF Buckets, Sound, WindowState
<1>3. Adopted(count)[w] = IF ~ bucket[w].on \/ Kind[w] = "RAW_REQUESTS" THEN bucket[w]
                          ELSE [r EXCEPT !.used = up]
  BY DEF Adopted
<1> HIDE DEF r
<1>4. [r EXCEPT !.used = up] \in WindowState /\ [r EXCEPT !.used = up].used = up
      /\ [r EXCEPT !.used = up].sum = r.sum
  BY <1>1 DEF Sound, WindowState
<1>5. up \in Nat /\ up >= r.used /\ r.used \in Nat /\ r.sum \in Nat /\ r.used >= r.sum
  BY <1>1 DEF Sound, WindowState
<1>6. Sound([r EXCEPT !.used = up])
  BY <1>4, <1>5 DEF Sound
<1> QED
  BY <1>1, <1>2, <1>3, <1>4, <1>6

LEMMA ReseededSound ==
  ASSUME NEW b, \A w \in Window : Sound(b[w]), NEW v \in Version, NEW w \in Window
  PROVE  Sound(Reseeded(b, v)[w]) /\ Reseeded(b, v)[w].sum <= b[w].sum
<1>1. Limit[v][w] \in Nat
  BY PacingAssumption
<1>2. Sound(NewWindow(Limit[v][w])) /\ NewWindow(Limit[v][w]).sum = 0
  BY <1>1 DEF NewWindow, Sound, WindowState
<1>3. Sound([b[w] EXCEPT !.limit = Limit[v][w]]) /\ [b[w] EXCEPT !.limit = Limit[v][w]].sum = b[w].sum
  BY <1>1 DEF Sound, WindowState
<1>4. b[w].sum \in Nat
  BY DEF Sound, WindowState
<1> QED
  BY <1>2, <1>3, <1>4 DEF Reseeded

(* The lemmas about whole limiters.                                        *)
LEMMA AdoptedBuckets ==
  ASSUME Buckets, now \in Nat, NEW count \in [Window -> Nat], bucket' = Adopted(count)
  PROVE  Buckets' /\ NoMore(bucket, bucket')
<1>1. \A w \in Window : Sound(bucket'[w]) /\ bucket'[w].sum <= bucket[w].sum
  BY AdoptedSound
<1>2. \A w \in Window : bucket'[w] \in WindowState
  BY <1>1 DEF Sound
<1>3. bucket' = [w \in Window |-> bucket'[w]]
  BY DEF Adopted
<1> QED
  BY <1>1, <1>2, <1>3 DEF Buckets, NoMore

LEMMA ReseededBuckets ==
  ASSUME Buckets, now \in Nat, NEW count \in [Window -> Nat], NEW v \in Version,
         bucket' = Reseeded(Adopted(count), v)
  PROVE  Buckets' /\ NoMore(bucket, bucket')
<1> DEFINE a == Adopted(count)
<1>1. \A w \in Window : Sound(a[w]) /\ a[w].sum <= bucket[w].sum
  BY AdoptedSound
<1> HIDE DEF a
<1>2. \A w \in Window : Sound(bucket'[w]) /\ bucket'[w].sum <= a[w].sum
  BY <1>1, ReseededSound DEF a
<1>3. \A w \in Window : bucket'[w].sum \in Nat /\ a[w].sum \in Nat /\ bucket[w].sum \in Nat
  BY <1>1, <1>2 DEF Sound, WindowState, Buckets
<1>4. \A w \in Window : bucket'[w].sum <= bucket[w].sum
  BY <1>1, <1>2, <1>3
<1>5. \A w \in Window : bucket'[w] \in WindowState
  BY <1>2 DEF Sound
<1>6. bucket' = [w \in Window |-> bucket'[w]]
  BY DEF Reseeded
<1> QED
  BY <1>2, <1>4, <1>5, <1>6 DEF Buckets, NoMore

-----------------------------------------------------------------------------
(* Calls.                                                                  *)

LEMMA FinishCalls ==
  ASSUME Calls, NEW c \in Task, Finish(c)
  PROVE  Calls'
<1>1. NoJob \in Jobs
  BY DEF NoJob, Jobs
<1>2. NoReply \in [count : [Window -> Nat], rules : Version]
  BY PacingAssumption DEF NoReply
<1> QED
  BY <1>1, <1>2 DEF Calls, Finish

LEMMA AgainCalls ==
  ASSUME Calls, now \in Nat, NEW c \in Task, NEW retryable, NEW delays \in SUBSET Nat,
         Again(c, retryable, delays)
  PROVE  Calls'
<1>1. CASE retryable /\ ~ job[c].mutating /\ tries[c] < MaxRetries
  <2>1. NoReply \in [count : [Window -> Nat], rules : Version]
    BY PacingAssumption DEF NoReply
  <2>2. PICK d \in delays : until' = [until EXCEPT ![c] = now + d]
    BY <1>1 DEF Again
  <2>3. now + d \in Nat
    BY <2>2
  <2>4. /\ tries' = [tries EXCEPT ![c] = @ + 1]
        /\ reply' = [reply EXCEPT ![c] = NoReply]
        /\ pc' = [pc EXCEPT ![c] = "backoff"]
        /\ UNCHANGED <<job, holding>>
    BY <1>1 DEF Again
  <2> QED
    BY <2>1, <2>2, <2>3, <2>4 DEF Calls
<1>2. CASE ~ (retryable /\ ~ job[c].mutating /\ tries[c] < MaxRetries)
  BY <1>2, FinishCalls DEF Again
<1> QED
  BY <1>1, <1>2

LEMMA ChargeNat ==
  ASSUME NEW w \in Window, NEW j \in Jobs
  PROVE  Charge(w, j) \in Nat
  BY DEF Charge, Jobs

LEMMA CountedTyped ==
  ASSUME Counts, NEW j \in Jobs
  PROVE  Counted(j) \in [Window -> Nat]
  BY ChargeNat DEF Counted, Counts

-----------------------------------------------------------------------------
(* Steps that leave the limiter as it is, or only roll it, or only adopt.  *)

LEMMA SameBuckets ==
  ASSUME Buckets, UNCHANGED bucket
  PROVE  Buckets' /\ NoMore(bucket, bucket')
<1>1. \A w \in Window : bucket[w].sum <= bucket[w].sum
  BY DEF Buckets, Sound, WindowState
<1> QED
  BY <1>1 DEF Buckets, NoMore

LEMMA InitOK == PacingInit => PacingTypeOK
<1> SUFFICES ASSUME PacingInit PROVE Buckets /\ Calls /\ Counts
  BY TypeParts
<1>1. \A w \in Window : Limit[0][w] \in Nat
  BY PacingAssumption
<1>2. \A w \in Window : Sound(NewWindow(Limit[0][w]))
  BY <1>1 DEF NewWindow, Sound, WindowState, NoStart
<1>3. Buckets
  BY <1>2 DEF PacingInit, Buckets, Sound
<1>4. Calls
  BY PacingAssumption DEF PacingInit, Calls, NoJob, NoReply, Jobs
<1>5. Counts
  BY PacingAssumption DEF PacingInit, Counts
<1> QED
  BY <1>3, <1>4, <1>5

(* Send is the one step that admits something: it charges the windows that *)
(* have room.                                                              *)
LEMMA SendStep ==
  ASSUME PacingTypeOK, NEW c \in Task, Send(c)
  PROVE  /\ PacingTypeOK'
         /\ \A w \in Window : bucket'[w].sum > bucket[w].sum /\ bucket'[w].start = bucket[w].start
              => bucket[w].sum = 0 \/ bucket'[w].sum <= bucket[w].limit
<1> DEFINE j == job[c]
<1> USE TypeParts
<1>1. j \in Jobs
  BY DEF Calls
<1>2. ASSUME NEW w \in Window
      PROVE  /\ Sound(bucket'[w])
             /\ bucket'[w].sum > bucket[w].sum /\ bucket'[w].start = bucket[w].start
                  => bucket[w].sum = 0 \/ bucket'[w].sum <= bucket[w].limit
  <2>1. CASE w \notin Charged(j)
    <3>1. bucket'[w] = bucket[w]
      BY <2>1 DEF Send
    <3> QED
      BY <3>1 DEF Buckets, Sound, WindowState
  <2>2. CASE w \in Charged(j)
    <3> DEFINE r == Rolled(w)
               k == Charge(w, j)
    <3>1. /\ Sound(r) /\ r.sum <= bucket[w].sum /\ r.limit = bucket[w].limit
          /\ r.start = bucket[w].start => r = bucket[w]
      BY RollSound DEF Rolled, Buckets, Counts
    <3>2. k \in Nat
      BY <1>1, ChargeNat
    <3>3. bucket'[w] = [r EXCEPT !.used = @ + k, !.sum = @ + k]
      BY <2>2 DEF Send
    <3>4. HasRoom(r, k)
      BY <2>2 DEF Send, Blocking
    <3> HIDE DEF r, k
    <3>5. bucket'[w] = [on |-> r.on, limit |-> r.limit, used |-> r.used + k, start |-> r.start, sum |-> r.sum + k]
      BY <3>1, <3>3 DEF Sound, WindowState
    <3>6. r.used \in Nat /\ r.sum \in Nat /\ r.used >= r.sum /\ r.limit \in Nat
      BY <3>1 DEF Sound, WindowState
    <3>7. Sound(bucket'[w])
      BY <3>1, <3>2, <3>5, <3>6 DEF Sound, WindowState
    <3>8. bucket[w].sum \in Nat
      BY DEF Buckets, Sound, WindowState
    <3>9. bucket'[w].start = bucket[w].start => r = bucket[w]
      BY <3>1, <3>5
    <3>10. r = bucket[w] => bucket[w].sum = 0 \/ bucket'[w].sum <= bucket[w].limit
      BY <3>2, <3>4, <3>5, <3>6 DEF HasRoom
    <3> QED
      BY <3>7, <3>9, <3>10
  <2> QED
    BY <2>1, <2>2
<1>3. Buckets'
  <2>1. bucket' = [w \in Window |-> bucket'[w]]
    BY DEF Send
  <2> QED
    BY <1>2, <2>1 DEF Buckets, Sound
<1>4. Counted(j) \in [Window -> Nat]
  BY <1>1, CountedTyped
<1>5. Calls'
  <2>1. /\ reply' = [reply EXCEPT ![c] = [count |-> Counted(j), rules |-> rules]]
        /\ pc' = [pc EXCEPT ![c] = "sent"] /\ until' = [until EXCEPT ![c] = 0]
        /\ UNCHANGED <<job, tries, holding>>
    BY DEF Send, infoVars
  <2>2. rules \in Version
    BY DEF Counts
  <2> HIDE DEF j
  <2>3. [count |-> Counted(j), rules |-> rules] \in [count : [Window -> Nat], rules : Version]
    BY <1>4, <2>2
  <2> QED
    BY <2>1, <2>3 DEF Calls
<1>6. Counts'
  <2>1. \A w \in Window : burst[w] + Charge(w, j) \in Nat
    BY <1>1, ChargeNat DEF Counts
  <2>2. defied' \in BOOLEAN
    BY DEF Send
  <2>3. /\ used' = Counted(j) /\ UNCHANGED <<now, rules, halt, info>>
        /\ burst' = [w \in Window |-> IF w \in Charged(j) THEN burst[w] + Charge(w, j) ELSE burst[w]]
    BY DEF Send, infoVars
  <2> HIDE DEF j
  <2> QED
    BY <1>4, <2>1, <2>2, <2>3 DEF Counts
<1> QED
  BY <1>2, <1>3, <1>5, <1>6

(* Every other step of a call keeps the types and admits nothing.          *)
LEMMA CallStep ==
  ASSUME PacingTypeOK, NEW c \in Task,
         \/ \E j \in Job : Call(c, j)
         \/ \E force \in BOOLEAN : AsksInfo(c, force)
         \/ GetsLock(c) \/ Cancelled(c)
  PROVE  PacingTypeOK' /\ NoMore(bucket, bucket')
<1> USE TypeParts
<1>1. CASE \E j \in Job : Call(c, j)
  <2>1. PICK j \in Job : Call(c, j)
    BY <1>1
  <2>2. [weight |-> j.weight, mutating |-> j.mutating, info |-> FALSE, force |-> FALSE] \in Jobs
    BY PacingAssumption DEF Jobs
  <2>3. Calls'
    BY <2>1, <2>2 DEF Call, Begin, Calls, infoVars
  <2>4. UNCHANGED <<now, bucket, info, exchangeVars, histVars>>
    BY <2>1 DEF Call, limiterVars, infoVars
  <2> QED
    BY <2>3, <2>4, SameBuckets DEF Counts, exchangeVars, histVars
<1>2. CASE \E force \in BOOLEAN : AsksInfo(c, force)
  <2>1. PICK force \in BOOLEAN : AsksInfo(c, force)
    BY <1>2
  <2>2. [weight |-> InfoWeight, mutating |-> FALSE, info |-> TRUE, force |-> force] \in Jobs
    BY PacingAssumption DEF Jobs
  <2>3. Calls'
    BY <2>1, <2>2 DEF AsksInfo, Begin, TakesLock, Calls
  <2>4. UNCHANGED <<now, bucket, info, exchangeVars, histVars>>
    BY <2>1 DEF AsksInfo, limiterVars
  <2> QED
    BY <2>3, <2>4, SameBuckets DEF Counts, exchangeVars, histVars
<1>3. CASE GetsLock(c)
  <2>1. NoJob \in Jobs
    BY DEF NoJob, Jobs
  <2>2. Calls'
    BY <1>3, <2>1 DEF GetsLock, Begin, Calls
  <2>3. UNCHANGED <<now, bucket, info, exchangeVars, histVars>>
    BY <1>3 DEF GetsLock, limiterVars
  <2> QED
    BY <2>2, <2>3, SameBuckets DEF Counts, exchangeVars, histVars
<1>4. CASE Cancelled(c)
  <2>1. Calls'
    BY <1>4, FinishCalls DEF Cancelled
  <2>2. UNCHANGED <<now, bucket, info, exchangeVars, histVars>>
    BY <1>4 DEF Cancelled, limiterVars
  <2> QED
    BY <2>1, <2>2, SameBuckets DEF Counts, exchangeVars, histVars
<1> QED
  BY <1>1, <1>2, <1>3, <1>4

LEMMA PaceStep ==
  ASSUME PacingTypeOK, NEW c \in Task, Pace(c)
  PROVE  PacingTypeOK' /\ NoMore(bucket, bucket')
<1> USE TypeParts
<1>1. \A w \in Window : /\ Sound(Rolled(w)) /\ Rolled(w).start \in Nat
                        /\ Rolled(w).sum <= bucket[w].sum
  BY RollSound DEF Rolled, Buckets, Counts
<1>2. Calls'
  <2>1. PICK w \in Blocking(job[c]) : until' = [until EXCEPT ![c] = Ends(w)]
    BY DEF Pace
  <2>2. Ends(w) \in Nat
    BY <1>1, <2>1, PacingAssumption DEF Ends, Blocking, Charged
  <2>3. pc' = [pc EXCEPT ![c] = "paced"] /\ UNCHANGED <<job, tries, reply, holding>>
    BY DEF Pace, infoVars
  <2> QED
    BY <2>1, <2>2, <2>3 DEF Calls
<1>3. /\ bucket' = [w \in Window |-> bucket'[w]]
      /\ \A w \in Window : bucket'[w] = Rolled(w) \/ bucket'[w] = bucket[w]
  BY DEF Pace
<1>4. \A w \in Window : Sound(bucket[w]) /\ bucket[w].sum <= bucket[w].sum
  BY DEF Buckets, Sound, WindowState
<1>5. \A w \in Window : Sound(bucket'[w]) /\ bucket'[w].sum <= bucket[w].sum
  BY <1>1, <1>3, <1>4
<1>6. Buckets' /\ NoMore(bucket, bucket')
  BY <1>3, <1>5 DEF Buckets, NoMore, Sound
<1>7. Counts'
  BY DEF Pace, Counts, infoVars, exchangeVars, histVars
<1> QED
  BY <1>2, <1>6, <1>7

LEMMA AnswerStep ==
  ASSUME PacingTypeOK, NEW c \in Task,
         \/ Answered(c)
         \/ \E coded \in BOOLEAN : Limited(c, coded)
         \/ \E answered \in BOOLEAN : Fails(c, answered)
  PROVE  PacingTypeOK' /\ NoMore(bucket, bucket')
<1> USE TypeParts
<1>1. reply[c].count \in [Window -> Nat] /\ reply[c].rules \in Version
  BY DEF Calls
<1>2. now \in Nat
  BY DEF Counts
<1>3. CASE Answered(c)
  <2>1. Calls'
    BY <1>3, FinishCalls DEF Answered
  <2>2. Buckets' /\ NoMore(bucket, bucket')
    <3>1. CASE job[c].info
      BY <1>1, <1>2, <1>3, <3>1, ReseededBuckets DEF Answered
    <3>2. CASE ~ job[c].info
      BY <1>1, <1>2, <1>3, <3>2, AdoptedBuckets DEF Answered
    <3> QED
      BY <3>1, <3>2
  <2>3. info' \in Version \cup {NoInfo} /\ UNCHANGED <<now, exchangeVars, histVars>>
    BY <1>1, <1>3 DEF Answered, Counts
  <2>4. Counts'
    BY <2>3 DEF Counts, exchangeVars, histVars
  <2> QED
    BY <2>1, <2>2, <2>4
<1>4. CASE \E coded \in BOOLEAN : Limited(c, coded)
  <2>1. PICK coded \in BOOLEAN : Limited(c, coded)
    BY <1>4
  <2>2. {RetryAfter} \in SUBSET Nat /\ now + RetryAfter \in Nat
    BY <1>2, PacingAssumption
  <2>3. Calls'
    BY <1>2, <2>1, <2>2, AgainCalls DEF Limited
  <2>4. Buckets' /\ NoMore(bucket, bucket')
    BY <1>1, <1>2, <2>1, AdoptedBuckets DEF Limited
  <2>5. Counts'
    BY <2>1, <2>2 DEF Limited, Counts, exchangeVars
  <2> QED
    BY <2>3, <2>4, <2>5
<1>5. CASE \E answered \in BOOLEAN : Fails(c, answered)
  <2>1. PICK answered \in BOOLEAN : Fails(c, answered)
    BY <1>5
  <2>2. 0 .. MaxBackoff \in SUBSET Nat
    OBVIOUS
  <2>3. Calls'
    BY <1>2, <2>1, <2>2, AgainCalls DEF Fails
  <2>4. Buckets' /\ NoMore(bucket, bucket')
    <3>1. CASE answered
      BY <1>1, <1>2, <2>1, <3>1, AdoptedBuckets DEF Fails
    <3>2. CASE ~ answered
      BY <2>1, <3>2, SameBuckets DEF Fails
    <3> QED
      BY <3>1, <3>2
  <2>5. Counts'
    BY <2>1 DEF Fails, Counts, exchangeVars, histVars
  <2> QED
    BY <2>3, <2>4, <2>5
<1> QED
  BY <1>3, <1>4, <1>5

LEMMA ExchangeStep ==
  ASSUME PacingTypeOK, Tick \/ RulesChange \/ \E w \in Window : OthersCall(w)
  PROVE  PacingTypeOK' /\ NoMore(bucket, bucket')
<1> USE TypeParts
<1>1. CASE Tick
  <2>1. Calls'
    BY <1>1 DEF Tick, Calls, callVars, infoVars
  <2>2. Counts'
    BY <1>1 DEF Tick, Counts, infoVars
  <2>3. UNCHANGED bucket
    BY <1>1 DEF Tick
  <2> QED
    BY <2>1, <2>2, <2>3, SameBuckets
<1>2. CASE RulesChange
  <2>1. Calls'
    BY <1>2 DEF RulesChange, Calls, callVars, infoVars
  <2>2. Counts'
    BY <1>2 DEF RulesChange, Counts, infoVars, limiterVars, histVars
  <2>3. UNCHANGED bucket
    BY <1>2 DEF RulesChange, limiterVars
  <2> QED
    BY <2>1, <2>2, <2>3, SameBuckets
<1>3. CASE \E w \in Window : OthersCall(w)
  <2>1. PICK w \in Window : OthersCall(w)
    BY <1>3
  <2>2. Calls'
    BY <2>1 DEF OthersCall, Calls, callVars, infoVars
  <2>3. Counts'
    BY <2>1 DEF OthersCall, Counts, infoVars, limiterVars, histVars
  <2>4. UNCHANGED bucket
    BY <2>1 DEF OthersCall, limiterVars
  <2> QED
    BY <2>2, <2>3, <2>4, SameBuckets
<1> QED
  BY <1>1, <1>2, <1>3

(* A step keeps the types, and what it admits is within the limit.         *)
LEMMA StepOK ==
  ASSUME PacingTypeOK, [PacingNext]_pacingVars
  PROVE  /\ PacingTypeOK'
         /\ \A w \in Window : bucket'[w].sum > bucket[w].sum /\ bucket'[w].start = bucket[w].start
              => bucket[w].sum = 0 \/ bucket'[w].sum <= bucket[w].limit
<1>1. ASSUME PacingTypeOK', NoMore(bucket, bucket'), NEW w \in Window
      PROVE  ~ (bucket'[w].sum > bucket[w].sum)
  BY <1>1, TypeParts DEF NoMore, Buckets, Sound, WindowState
<1>2. CASE UNCHANGED pacingVars
  <2>1. UNCHANGED bucket /\ PacingTypeOK'
    BY <1>2 DEF pacingVars, limiterVars, callVars, infoVars, exchangeVars, histVars, PacingTypeOK
  <2>2. NoMore(bucket, bucket')
    BY <2>1, TypeParts, SameBuckets
  <2> QED
    BY <1>1, <2>1, <2>2
<1>3. CASE Tick \/ RulesChange \/ \E w \in Window : OthersCall(w)
  BY <1>1, <1>3, ExchangeStep
<1>4. CASE \E c \in Task : Send(c)
  BY <1>4, SendStep
<1>5. CASE \E c \in Task : Pace(c)
  BY <1>1, <1>5, PaceStep
<1>6. CASE \E c \in Task : \/ Answered(c)
                           \/ \E coded \in BOOLEAN : Limited(c, coded)
                           \/ \E answered \in BOOLEAN : Fails(c, answered)
  BY <1>1, <1>6, AnswerStep
<1>7. CASE \E c \in Task : \/ \E j \in Job : Call(c, j)
                           \/ \E force \in BOOLEAN : AsksInfo(c, force)
                           \/ GetsLock(c) \/ Cancelled(c)
  BY <1>1, <1>7, CallStep
<1> QED
  BY <1>2, <1>3, <1>4, <1>5, <1>6, <1>7 DEF PacingNext

(* The variables keep their types, no window counts less than it has       *)
(* admitted (ratelimit.py), and one task at most holds the exchange-info   *)
(* lock (client.py).                                                       *)
THEOREM PacingTypes == PacingSpec => []PacingTypeOK
<1>1. PacingTypeOK /\ [PacingNext]_pacingVars => PacingTypeOK'
  BY StepOK
<1> QED
  BY InitOK, <1>1, PTL DEF PacingSpec

(* What the limiter admits between two turns of a window stays within the  *)
(* limit in force, for any number of callers, headers, retries and reseeds *)
(* (ratelimit.py:6); only a window's first charge may exceed it.           *)
THEOREM NoOverAdmission == PacingSpec => PacedWithinLimit
<1>1. PacingTypeOK /\ [PacingNext]_pacingVars =>
        [\A w \in Window : bucket'[w].sum > bucket[w].sum /\ bucket'[w].start = bucket[w].start
           => bucket[w].sum = 0 \/ bucket'[w].sum <= bucket[w].limit]_pacingVars
  BY StepOK
<1> QED
  BY PacingTypes, <1>1, PTL DEF PacingSpec, PacedWithinLimit

-----------------------------------------------------------------------------
(* The exchange info.  A task whose call fetches it holds the lock, so     *)
(* nothing is cached between its request and its answer, which is of rules *)
(* at least as new as those cached.                                        *)
Underway == {"ready", "paced", "sent", "backoff"}

InfoKnown ==
  /\ info <= rules
  /\ \A c \in Task : pc[c] \in Underway /\ job[c].info => c \in holding
  /\ \A c \in Task : pc[c] = "sent" /\ job[c].info => info <= reply[c].rules /\ reply[c].rules <= rules

LEMMA Numbers == PacingTypeOK => /\ rules \in Nat /\ info \in Int
                                 /\ \A c \in Task : reply[c].rules \in Nat
<1> SUFFICES ASSUME PacingTypeOK
             PROVE  rules \in Nat /\ info \in Int /\ \A c \in Task : reply[c].rules \in Nat
  OBVIOUS
<1>1. Version \subseteq Nat
  BY PacingAssumption
<1>2. rules \in Version /\ info \in Version \cup {-1}
  BY DEF PacingTypeOK, NoInfo
<1>3. \A c \in Task : reply[c].rules \in Version
  BY DEF PacingTypeOK
<1>4. rules \in Nat
  BY <1>1, <1>2
<1>5. info \in Int
  BY <1>1, <1>2
<1>6. \A c \in Task : reply[c].rules \in Nat
  BY <1>1, <1>3
<1> QED
  BY <1>4, <1>5, <1>6

(* A call that ends, or that waits to be tried again, holds up no other.   *)
LEMMA FinishKnown ==
  ASSUME PacingTypeOK, InfoKnown, NEW c \in Task, Finish(c), UNCHANGED <<info, rules>>
  PROVE  InfoKnown'
  BY DEF InfoKnown, Finish, Underway, PacingTypeOK

LEMMA AgainKnown ==
  ASSUME PacingTypeOK, InfoKnown, NEW c \in Task, NEW r, NEW ds, Again(c, r, ds),
         pc[c] \in Underway, UNCHANGED <<info, rules>>
  PROVE  InfoKnown'
<1>1. CASE r /\ ~ job[c].mutating /\ tries[c] < MaxRetries
  <2>1. /\ pc' = [pc EXCEPT ![c] = "backoff"] /\ UNCHANGED <<job, holding>>
        /\ reply' = [reply EXCEPT ![c] = NoReply]
    BY <1>1 DEF Again
  <2> QED
    BY <2>1 DEF InfoKnown, Underway, PacingTypeOK
<1>2. CASE ~ (r /\ ~ job[c].mutating /\ tries[c] < MaxRetries)
  BY <1>2, FinishKnown DEF Again
<1> QED
  BY <1>1, <1>2

LEMMA InfoStep ==
  ASSUME PacingTypeOK, InfoKnown, [PacingNext]_pacingVars
  PROVE  InfoKnown' /\ info' >= info
<1> USE Numbers
<1>1. CASE UNCHANGED pacingVars
  BY <1>1 DEF InfoKnown, pacingVars, callVars, infoVars, exchangeVars
<1>2. CASE Tick \/ \E w \in Window : OthersCall(w)
  <2>1. UNCHANGED <<callVars, infoVars, rules>>
    BY <1>2 DEF Tick, OthersCall
  <2> QED
    BY <2>1 DEF InfoKnown, callVars, infoVars
<1>3. CASE RulesChange
  BY <1>3 DEF RulesChange, InfoKnown, callVars, infoVars
<1>4. ASSUME NEW c \in Task, NEW j \in Job, Call(c, j) PROVE InfoKnown' /\ info' >= info
  BY <1>4 DEF Call, Begin, InfoKnown, infoVars, exchangeVars, Underway, PacingTypeOK
<1>5. ASSUME NEW c \in Task, NEW force \in BOOLEAN, AsksInfo(c, force) PROVE InfoKnown' /\ info' >= info
  <2> DEFINE j == [weight |-> InfoWeight, mutating |-> FALSE, info |-> TRUE, force |-> force]
  <2>1. UNCHANGED <<info, rules, reply>> /\ pc[c] = "idle"
    BY <1>5 DEF AsksInfo, exchangeVars
  <2>2. CASE TakesLock(c)
    <3>1. holding = {} /\ holding' = {c} /\ pc' = [pc EXCEPT ![c] = "ready"] /\ job' = [job EXCEPT ![c] = j]
      BY <1>5, <2>2 DEF AsksInfo, Begin, TakesLock
    <3> HIDE DEF j
    <3> QED
      BY <2>1, <3>1 DEF InfoKnown, Underway, PacingTypeOK
  <2>3. CASE ~ TakesLock(c)
    <3>1. UNCHANGED holding /\ pc' = [pc EXCEPT ![c] = "locked"] /\ job' = [job EXCEPT ![c] = j]
      BY <1>5, <2>3 DEF AsksInfo
    <3> HIDE DEF j
    <3> QED
      BY <2>1, <3>1 DEF InfoKnown, Underway, PacingTypeOK
  <2> QED
    BY <2>2, <2>3
<1>6. ASSUME NEW c \in Task, GetsLock(c) PROVE InfoKnown' /\ info' >= info
  <2>1. UNCHANGED <<info, rules, reply>> /\ pc[c] = "locked" /\ holding = {}
    BY <1>6 DEF GetsLock, exchangeVars
  <2>2. CASE info # NoInfo /\ ~ job[c].force
    <3>1. UNCHANGED holding /\ pc' = [pc EXCEPT ![c] = "idle"] /\ job' = [job EXCEPT ![c] = NoJob]
      BY <1>6, <2>2 DEF GetsLock
    <3> QED
      BY <2>1, <3>1 DEF InfoKnown, Underway, PacingTypeOK
  <2>3. CASE ~ (info # NoInfo /\ ~ job[c].force)
    <3>1. holding' = {c} /\ pc' = [pc EXCEPT ![c] = "ready"] /\ job' = [job EXCEPT ![c] = job[c]]
      BY <1>6, <2>3 DEF GetsLock, Begin
    <3> QED
      BY <2>1, <3>1 DEF InfoKnown, Underway, PacingTypeOK
  <2> QED
    BY <2>2, <2>3
<1>7. ASSUME NEW c \in Task, Send(c) PROVE InfoKnown' /\ info' >= info
  <2>1. /\ reply' = [reply EXCEPT ![c] = [count |-> Counted(job[c]), rules |-> rules]]
        /\ pc' = [pc EXCEPT ![c] = "sent"] /\ UNCHANGED <<job, info, holding, rules>>
        /\ pc[c] \in Underway
    BY <1>7 DEF Send, Attempts, infoVars, Underway
  <2> QED
    BY <2>1 DEF InfoKnown, Underway, PacingTypeOK
<1>8. ASSUME NEW c \in Task, Pace(c) PROVE InfoKnown' /\ info' >= info
  <2>1. /\ pc' = [pc EXCEPT ![c] = "paced"] /\ UNCHANGED <<job, reply, info, holding, rules>>
        /\ pc[c] \in Underway
    BY <1>8 DEF Pace, Attempts, infoVars, exchangeVars, Underway
  <2> QED
    BY <2>1 DEF InfoKnown, Underway, PacingTypeOK
<1>9. ASSUME NEW c \in Task, Answered(c) PROVE InfoKnown' /\ info' >= info
  <2>1. Finish(c) /\ pc[c] = "sent" /\ UNCHANGED rules
    BY <1>9 DEF Answered, exchangeVars
  <2>2. CASE job[c].info
    <3>1. info' = reply[c].rules
      BY <1>9, <2>2 DEF Answered
    <3>2. \A d \in Task : pc[d] = "sent" /\ job[d].info => d = c
      BY <2>1, <2>2 DEF InfoKnown, PacingTypeOK, Underway
    <3>3. info <= reply[c].rules /\ reply[c].rules <= rules
      BY <2>1, <2>2 DEF InfoKnown
    <3>4. \A d \in Task : pc'[d] = "sent" => d # c /\ pc[d] = "sent" /\ job'[d] = job[d]
      BY <2>1 DEF Finish, PacingTypeOK
    <3>5. \A d \in Task : pc'[d] \in Underway /\ job'[d].info => d \in holding'
      BY <2>1 DEF Finish, PacingTypeOK, InfoKnown, Underway
    <3> QED
      BY <2>1, <3>1, <3>2, <3>3, <3>4, <3>5 DEF InfoKnown
  <2>3. CASE ~ job[c].info
    <3>1. UNCHANGED info
      BY <1>9, <2>3 DEF Answered
    <3> QED
      BY <2>1, <3>1, FinishKnown
  <2> QED
    BY <2>2, <2>3
<1>10. ASSUME NEW c \in Task,
              (\E coded \in BOOLEAN : Limited(c, coded)) \/ (\E answered \in BOOLEAN : Fails(c, answered))
       PROVE  InfoKnown' /\ info' >= info
  <2>1. (\E r, ds : Again(c, r, ds)) /\ UNCHANGED <<info, rules>> /\ pc[c] = "sent"
    BY <1>10 DEF Limited, Fails, exchangeVars
  <2> QED
    BY <2>1, AgainKnown DEF Underway
<1>11. ASSUME NEW c \in Task, Cancelled(c) PROVE InfoKnown' /\ info' >= info
  BY <1>11, FinishKnown DEF Cancelled, exchangeVars
<1> QED
  BY <1>1, <1>2, <1>3, <1>4, <1>5, <1>6, <1>7, <1>8, <1>9, <1>10, <1>11 DEF PacingNext

(* However many tasks ask for the exchange info, forced or not, and        *)
(* however often their requests are retried, what is cached (client.py) is *)
(* never replaced by older rules.                                          *)
THEOREM CacheNeverOlder == PacingSpec => InfoNeverGoesBack
<1>1. PacingInit => InfoKnown
  BY PacingAssumption DEF PacingInit, InfoKnown, NoInfo, Underway
<1>2. PacingTypeOK /\ InfoKnown /\ [PacingNext]_pacingVars => InfoKnown'
  BY InfoStep
<1>3. PacingTypeOK /\ InfoKnown /\ [PacingNext]_pacingVars => [info' >= info]_pacingVars
  BY InfoStep
<1> QED
  BY PacingTypes, <1>1, <1>2, <1>3, PTL DEF PacingSpec, InfoNeverGoesBack

-----------------------------------------------------------------------------
(* The exchange's windows.  While one of them lasts, at most two of the    *)
(* limiter's can admit something into it.                                  *)

(* When the exchange's present window opened.                              *)
Opened(w) == now - ((now + Phase[w]) % Duration[w])

(* Of what n requests charged since then, all but the charges of the       *)
(* limiter's present window b were charged to one earlier window.          *)
Spread(w, b, n) ==
  /\ b.start <= now
  /\ AdmittedAtMost(b.sum, w)
  /\ n > 0 => b.on /\ b.start # NoStart /\ b.start + Duration[w] > Opened(w)
  /\ b.start <= Opened(w) => n <= b.sum
  /\ \E m \in Nat : AdmittedAtMost(m, w) /\ n <= m + b.sum

(* A call charges what it was asked to; and the limits are those of the    *)
(* rules that were adopted last.                                           *)
Weighed ==
  \A c \in Task :
    pc[c] # "idle" => (\E j \in Job : job[c].weight = j.weight) \/ job[c].weight = InfoWeight

InForce == IF info = NoInfo THEN 0 ELSE info

Adopting ==
  \A w \in Window : bucket[w].limit = Limit[InForce][w] /\ (bucket[w].on <=> Limit[InForce][w] > 0)

BurstInv == Weighed /\ Adopting /\ \A w \in Window : Spread(w, bucket[w], burst[w])

(* New rules have every window that older ones have.                       *)
WindowsStay ==
  \A v, u \in Version : v <= u => \A w \in Window : Limit[v][w] > 0 => Limit[u][w] > 0

LEMMA Quotients ==
  ASSUME NEW x \in Nat, NEW d \in Nat \ {0}
  PROVE  /\ x \div d \in Nat /\ x % d \in 0 .. d - 1
         /\ x = d * (x \div d) + (x % d)
  OBVIOUS

LEMMA TurnsBy ==
  ASSUME NEW d \in Nat \ {0}, NEW x \in Nat, ~ (x < d)
  PROVE  d * (x \div d) \in Nat /\ d * (x \div d) >= d /\ d * (x \div d) <= x /\ x < d * (x \div d) + d
<1> DEFINE t == d * (x \div d)
<1>1. t \in Nat \ {0}
  BY Turns
<1>2. x % d \in 0 .. d - 1 /\ x = t + (x % d)
  BY Quotients
<1> HIDE DEF t
<1>3. t <= x /\ x < t + d
  BY <1>1, <1>2
<1>4. x \div d \in Nat /\ x \div d # 0
  OBVIOUS
<1>5. \A q \in Nat \ {0} : d * q >= d
  OBVIOUS
<1>6. t >= d
  BY <1>4, <1>5 DEF t
<1> QED
  BY <1>1, <1>3, <1>6 DEF t

(* Unless a window turns, its remainder grows by one.                      *)
LEMMA NextRemainder ==
  ASSUME NEW x \in Nat, NEW d \in Nat \ {0}, (x + 1) % d # 0
  PROVE  (x + 1) % d = (x % d) + 1
<1> DEFINE q == x \div d  r == x % d  p == (x + 1) \div d  s == (x + 1) % d
<1>0. x + 1 \in Nat
  OBVIOUS
<1>1. /\ q \in Nat /\ r \in 0 .. d - 1 /\ x = d * q + r
      /\ p \in Nat /\ s \in 0 .. d - 1 /\ x + 1 = d * p + s
  BY <1>0, Quotients
<1>2. s # 0
  OBVIOUS
<1> HIDE DEF q, r, p, s
<1>3. d * (p - q) = r + 1 - s /\ p - q \in Int
  BY <1>1
<1>4. \A k \in Int : (k >= 1 => d * k >= d) /\ (k <= -1 => d * k <= -d) /\ (k = 0 => d * k = 0)
  OBVIOUS
<1>5. p - q = 0
  BY <1>1, <1>2, <1>3, <1>4
<1>6. r + 1 - s = 0
  BY <1>3, <1>4, <1>5
<1> QED
  BY <1>1, <1>6 DEF r, s

LEMMA OpenedFacts ==
  ASSUME now \in Nat, NEW w \in Window
  PROVE  Opened(w) \in Int /\ Opened(w) <= now /\ now < Opened(w) + Duration[w]
<1>1. now + Phase[w] \in Nat /\ Duration[w] \in Nat \ {0}
  BY PacingAssumption
<1>2. (now + Phase[w]) % Duration[w] \in 0 .. Duration[w] - 1
  BY <1>1, Quotients
<1> QED
  BY <1>1, <1>2 DEF Opened

LEMMA FewerAdmitted ==
  ASSUME NEW w \in Window, NEW n \in Nat, NEW m \in Nat, m <= n, AdmittedAtMost(n, w)
  PROVE  AdmittedAtMost(m, w)
<1>1. \A v \in Version : Limit[v][w] \in Nat
  BY PacingAssumption
<1>2. \A j \in Job : Charge(w, j) \in Nat
  BY PacingAssumption DEF Charge
<1>3. InfoWeight \in Nat
  BY PacingAssumption
<1> QED
  <2>1. CASE \E v \in Version : n <= Limit[v][w]
    BY <1>1, <2>1 DEF AdmittedAtMost
  <2>2. CASE \E j \in Job : n <= Charge(w, j)
    BY <1>2, <2>2 DEF AdmittedAtMost
  <2>3. CASE n <= InfoWeight
    BY <1>3, <2>3 DEF AdmittedAtMost
  <2> QED
    BY <2>1, <2>2, <2>3 DEF AdmittedAtMost

LEMMA NothingAdmitted ==
  ASSUME NEW w \in Window
  PROVE  AdmittedAtMost(0, w)
  BY PacingAssumption DEF AdmittedAtMost

(* Rolling a window leaves what it says true: a window that is over opened *)
(* before the exchange's present one.                                      *)
LEMMA RollSpread ==
  ASSUME now \in Nat, NEW w \in Window, NEW b, Sound(b), NEW n \in Nat, Spread(w, b, n)
  PROVE  /\ Spread(w, Roll(w, b), n) /\ Roll(w, b).on = b.on
         /\ Roll(w, b).start \in Nat /\ now < Roll(w, b).start + Duration[w]
<1> USE DEF Sound, WindowState
<1>0. Duration[w] \in Nat \ {0}
  BY PacingAssumption
<1>1. Opened(w) \in Int /\ Opened(w) <= now /\ now < Opened(w) + Duration[w]
  BY OpenedFacts
<1>2. CASE b.start = NoStart
  <2>1. Roll(w, b).start = now /\ Roll(w, b).sum = b.sum /\ Roll(w, b).on = b.on
    BY <1>2 DEF Roll
  <2>2. n = 0
    BY <1>2 DEF Spread
  <2>3. \E m \in Nat : AdmittedAtMost(m, w) /\ n <= m + Roll(w, b).sum
    BY <2>1 DEF Spread
  <2>4. Spread(w, Roll(w, b), n)
    BY <2>1, <2>2, <2>3 DEF Spread
  <2> QED
    BY <1>0, <2>1, <2>4
<1>3. CASE b.start # NoStart /\ now - b.start < Duration[w]
  <2>1. Roll(w, b) = b
    BY <1>3 DEF Roll
  <2> QED
    BY <1>0, <1>3, <2>1 DEF NoStart
<1>4. CASE b.start # NoStart /\ ~ (now - b.start < Duration[w])
  <2> DEFINE turn == Duration[w] * ((now - b.start) \div Duration[w])
  <2>1. b.start \in Nat /\ now - b.start \in Nat
    BY <1>0, <1>4 DEF NoStart
  <2>2. turn \in Nat /\ turn >= Duration[w] /\ turn <= now - b.start /\ now - b.start < turn + Duration[w]
    BY <1>0, <1>4, <2>1, TurnsBy
  <2>3. Roll(w, b) = [b EXCEPT !.start = @ + turn, !.used = 0, !.sum = 0]
    BY <1>4 DEF Roll
  <2> HIDE DEF turn
  <2>4. Roll(w, b).start = b.start + turn /\ Roll(w, b).sum = 0 /\ Roll(w, b).on = b.on
    BY <2>3
  <2>5. n <= b.sum /\ AdmittedAtMost(b.sum, w) /\ b.sum \in Nat
    BY <1>0, <1>1, <1>4, <2>1 DEF Spread
  <2>6. n > 0 => b.on /\ b.start + turn > Opened(w)
    BY <1>0, <1>1, <2>1, <2>2 DEF Spread
  <2>7. b.start + turn \in Nat /\ b.start + turn <= now /\ now < b.start + turn + Duration[w]
    BY <1>0, <2>1, <2>2
  <2>8. Spread(w, Roll(w, b), n)
    <3>1. AdmittedAtMost(Roll(w, b).sum, w)
      BY <2>4, NothingAdmitted
    <3>2. \E m \in Nat : AdmittedAtMost(m, w) /\ n <= m + Roll(w, b).sum
      BY <2>4, <2>5
    <3>3. Roll(w, b).start <= Opened(w) => n <= Roll(w, b).sum
      BY <1>1, <2>4, <2>6, <2>7
    <3>4. n > 0 => Roll(w, b).on /\ Roll(w, b).start # NoStart /\ Roll(w, b).start + Duration[w] > Opened(w)
      BY <1>0, <1>1, <2>4, <2>6, <2>7 DEF NoStart
    <3> QED
      BY <2>4, <2>7, <3>1, <3>2, <3>3, <3>4 DEF Spread
  <2> QED
    BY <2>4, <2>7, <2>8
<1> QED
  BY <1>2, <1>3, <1>4

(* What passes between limiter and exchange, window by window.             *)
LEMMA AdoptedSpread ==
  ASSUME PacingTypeOK, BurstInv, NEW count \in [Window -> Nat], NEW w \in Window
  PROVE  /\ Spread(w, Adopted(count)[w], burst[w]) /\ Adopted(count)[w].on = bucket[w].on
         /\ Adopted(count)[w].limit = bucket[w].limit
<1> DEFINE r == Rolled(w)
           up == IF count[w] > r.used THEN count[w] ELSE r.used
<1>1. Sound(bucket[w]) /\ now \in Nat /\ burst[w] \in Nat /\ Spread(w, bucket[w], burst[w])
  BY TypeParts DEF Buckets, Counts, BurstInv
<1>2. /\ Sound(r) /\ r.limit = bucket[w].limit /\ r.on = bucket[w].on
      /\ Spread(w, r, burst[w])
  BY <1>1, RollSound, RollSpread DEF Rolled
<1>3. Adopted(count)[w] = IF ~ bucket[w].on \/ Kind[w] = "RAW_REQUESTS" THEN bucket[w]
                          ELSE [r EXCEPT !.used = up]
  BY DEF Adopted
<1> HIDE DEF r
<1>4. /\ [r EXCEPT !.used = up].start = r.start /\ [r EXCEPT !.used = up].sum = r.sum
      /\ [r EXCEPT !.used = up].on = r.on /\ [r EXCEPT !.used = up].limit = r.limit
  BY <1>2 DEF Sound, WindowState
<1>5. Spread(w, [r EXCEPT !.used = up], burst[w])
  BY <1>2, <1>4 DEF Spread
<1> QED
  BY <1>1, <1>2, <1>3, <1>4, <1>5

LEMMA ReseededSpread ==
  ASSUME WindowsStay, NEW w \in Window, NEW b, Sound(b[w]), NEW v \in Version, NEW u \in Version, u <= v,
         b[w].on <=> Limit[u][w] > 0, now \in Nat, NEW n \in Nat, Spread(w, b[w], n)
  PROVE  /\ Spread(w, Reseeded(b, v)[w], n) /\ Reseeded(b, v)[w].limit = Limit[v][w]
         /\ Reseeded(b, v)[w].on <=> Limit[v][w] > 0
<1>1. Limit[v][w] \in Nat
  BY PacingAssumption
<1>2. CASE b[w].on /\ Limit[v][w] > 0
  <2>1. Reseeded(b, v)[w] = [b[w] EXCEPT !.limit = Limit[v][w]]
    BY <1>2 DEF Reseeded
  <2>2. /\ Reseeded(b, v)[w].start = b[w].start /\ Reseeded(b, v)[w].sum = b[w].sum
        /\ Reseeded(b, v)[w].on = b[w].on /\ Reseeded(b, v)[w].limit = Limit[v][w]
    BY <2>1 DEF Sound, WindowState
  <2> QED
    BY <1>2, <2>2 DEF Spread
<1>3. CASE ~ (b[w].on /\ Limit[v][w] > 0)
  <2>1. ~ b[w].on
    BY <1>3 DEF WindowsStay
  <2>2. n = 0
    BY <2>1 DEF Spread
  <2>3. Reseeded(b, v)[w] = NewWindow(Limit[v][w])
    BY <1>3 DEF Reseeded
  <2>4. /\ Reseeded(b, v)[w].start = NoStart /\ Reseeded(b, v)[w].sum = 0
        /\ Reseeded(b, v)[w].limit = Limit[v][w] /\ Reseeded(b, v)[w].on = (Limit[v][w] > 0)
    BY <2>3 DEF NewWindow
  <2>5. Spread(w, Reseeded(b, v)[w], n)
    BY <2>2, <2>4, NothingAdmitted DEF Spread, NoStart
  <2> QED
    BY <2>4, <2>5
<1> QED
  BY <1>2, <1>3

(* What one call charges is admissible by itself.                          *)
LEMMA ChargeAdmitted ==
  ASSUME PacingTypeOK, Weighed, NEW c \in Task, pc[c] # "idle", NEW w \in Window
  PROVE  AdmittedAtMost(Charge(w, job[c]), w)
<1>1. \A j \in Job : j.weight \in Nat
  BY PacingAssumption
<1>2. InfoWeight \in Nat /\ 1 <= InfoWeight
  BY PacingAssumption
<1>3. CASE Kind[w] # "REQUEST_WEIGHT"
  BY <1>2, <1>3 DEF Charge, AdmittedAtMost
<1>4. CASE Kind[w] = "REQUEST_WEIGHT"
  BY <1>1, <1>2, <1>4 DEF Charge, AdmittedAtMost, Weighed
<1> QED
  BY <1>3, <1>4

LEMMA SendSpread ==
  ASSUME PacingTypeOK, BurstInv, NEW c \in Task, Send(c), NEW w \in Window
  PROVE  /\ Spread(w, bucket'[w], burst'[w]) /\ bucket'[w].limit = bucket[w].limit
         /\ bucket'[w].on = bucket[w].on
<1> DEFINE j == job[c]
<1>1. /\ Sound(bucket[w]) /\ now \in Nat /\ burst[w] \in Nat /\ Spread(w, bucket[w], burst[w])
      /\ j \in Jobs
  BY TypeParts DEF Buckets, Counts, Calls, BurstInv
<1>2. CASE w \notin Charged(j)
  <2>1. bucket'[w] = bucket[w] /\ burst'[w] = burst[w]
    BY <1>2 DEF Send
  <2> QED
    BY <1>1, <2>1
<1>3. CASE w \in Charged(j)
  <2> DEFINE r == Rolled(w)
             k == Charge(w, j)
             n == burst[w]
  <2>1. /\ Sound(r) /\ r.limit = bucket[w].limit /\ r.on = bucket[w].on /\ r.on
        /\ Spread(w, r, n) /\ r.start \in Nat /\ now < r.start + Duration[w]
    BY <1>1, <1>3, RollSound, RollSpread DEF Rolled, Charged
  <2>2. bucket'[w] = [r EXCEPT !.used = @ + k, !.sum = @ + k] /\ burst'[w] = n + k
    BY <1>3 DEF Send
  <2>3. HasRoom(r, k)
    BY <1>3 DEF Send, Blocking
  <2>4. k \in Nat /\ AdmittedAtMost(k, w)
    BY <1>1, ChargeNat, ChargeAdmitted DEF BurstInv, Send, Attempts
  <2>5. \E v \in Version : r.limit = Limit[v][w]
    <3>1. InForce \in Version
      BY PacingAssumption DEF InForce, PacingTypeOK
    <3> QED
      BY <2>1, <3>1 DEF BurstInv, Adopting
  <2>6. /\ Opened(w) \in Int /\ Opened(w) <= now /\ now < Opened(w) + Duration[w]
        /\ Duration[w] \in Nat \ {0}
    BY <1>1, OpenedFacts, PacingAssumption
  <2> HIDE DEF r, k, n, j
  <2>7. r.used \in Nat /\ r.sum \in Nat /\ r.used >= r.sum /\ r.limit \in Nat
    BY <2>1 DEF Sound, WindowState
  <2>8. /\ bucket'[w].start = r.start /\ bucket'[w].sum = r.sum + k
        /\ bucket'[w].on = r.on /\ bucket'[w].limit = r.limit
    BY <2>1, <2>2 DEF Sound, WindowState
  <2>9. AdmittedAtMost(r.sum + k, w)
    <3>1. CASE r.used = 0
      <4>1. r.sum + k = k
        BY <2>4, <2>7, <3>1
      <4> QED
        BY <2>4, <4>1
    <3>2. CASE r.used + k <= r.limit
      BY <2>4, <2>5, <2>7, <3>2 DEF AdmittedAtMost
    <3> QED
      BY <2>3, <3>1, <3>2 DEF HasRoom
  <2>10. PICK m \in Nat : AdmittedAtMost(m, w) /\ n <= m + r.sum
    BY <2>1 DEF Spread
  <2>11. n \in Nat
    BY <1>1 DEF n
  <2>12. AdmittedAtMost(m, w) /\ n + k <= m + bucket'[w].sum
    BY <2>4, <2>7, <2>8, <2>10, <2>11
  <2>13. r.start <= Opened(w) => n + k <= r.sum + k
    BY <2>1, <2>4, <2>7, <2>11 DEF Spread
  <2>14. r.start + Duration[w] > Opened(w)
    BY <1>1, <2>1, <2>6
  <2>15. Spread(w, bucket'[w], n + k)
    <3>1. bucket'[w].start <= now
      BY <2>1, <2>8 DEF Spread
    <3>2. bucket'[w].on /\ bucket'[w].start # NoStart
      BY <2>1, <2>8 DEF NoStart
    <3> QED
      BY <2>8, <2>9, <2>12, <2>13, <2>14, <3>1, <3>2 DEF Spread
  <2> QED
    BY <2>1, <2>2, <2>8, <2>15
<1> QED
  BY <1>2, <1>3

(* A tick: the exchange's window either turns, or goes on.                 *)
LEMMA TickSpread ==
  ASSUME PacingTypeOK, BurstInv, Tick
  PROVE  \A w \in Window : Spread(w, bucket[w], burst[w])'
<1> SUFFICES ASSUME NEW w \in Window PROVE Spread(w, bucket[w], burst[w])'
  OBVIOUS
<1> DEFINE x == now + Phase[w]
           d == Duration[w]
<1>1. /\ Sound(bucket[w]) /\ now \in Nat /\ burst[w] \in Nat /\ Spread(w, bucket[w], burst[w])
      /\ x \in Nat /\ d \in Nat \ {0} /\ now + 1 \in Nat
  BY PacingAssumption, TypeParts DEF Buckets, Counts, BurstInv
<1>2. /\ now' = now + 1 /\ UNCHANGED bucket
      /\ burst'[w] = IF (now + 1 + Phase[w]) % Duration[w] = 0 THEN 0 ELSE burst[w]
  BY DEF Tick
<1>3. now + 1 + Phase[w] = x + 1
  BY <1>1, PacingAssumption
<1>4. Opened(w)' = now' - ((x + 1) % d)
  <2>1. now' + Phase[w] = x + 1
    BY <1>2, <1>3
  <2>2. Opened(w)' = now' - ((now' + Phase[w]) % Duration[w])
    BY DEF Opened
  <2> QED
    BY <2>1, <2>2, Zenon
<1>5. /\ bucket[w].start <= now /\ AdmittedAtMost(bucket[w].sum, w)
      /\ burst[w] > 0 => bucket[w].on /\ bucket[w].start # NoStart /\ bucket[w].start + d > Opened(w)
      /\ bucket[w].start <= Opened(w) => burst[w] <= bucket[w].sum
      /\ \E m \in Nat : AdmittedAtMost(m, w) /\ burst[w] <= m + bucket[w].sum
  BY <1>1 DEF Spread
<1>6. bucket[w].start \in Int /\ bucket[w].sum \in Nat
  BY <1>1 DEF Sound, WindowState, NoStart
<1>7. AdmittedAtMost(bucket[w].sum, w)' <=> AdmittedAtMost(bucket[w].sum, w)
  BY <1>2 DEF AdmittedAtMost
<1>8. CASE (x + 1) % d = 0
  <2>1. burst'[w] = 0
    BY <1>2, <1>3, <1>8
  <2>2. \E m \in Nat : AdmittedAtMost(m, w) /\ 0 <= m + bucket[w].sum
    BY <1>6, NothingAdmitted
  <2> QED
    BY <1>1, <1>2, <1>5, <1>6, <1>7, <2>1, <2>2 DEF Spread, AdmittedAtMost
<1>9. CASE (x + 1) % d # 0
  <2>1. burst'[w] = burst[w]
    BY <1>2, <1>3, <1>9
  <2>2. (x + 1) % d = (x % d) + 1
    BY <1>1, <1>9, NextRemainder
  <2>3. x % d \in Int
    BY <1>1, Quotients
  <2> HIDE DEF x, d
  <2>4. Opened(w) = now - (x % d)
    BY DEF Opened, x, d
  <2>5. Opened(w)' = Opened(w)
    BY <1>1, <1>2, <1>4, <2>2, <2>3, <2>4
  <2> QED
    BY <1>1, <1>2, <1>5, <1>6, <1>7, <2>1, <2>5 DEF Spread, AdmittedAtMost, d
<1> QED
  BY <1>8, <1>9

(* Steps that neither charge nor tick.                                     *)
LEMMA QuietSpread ==
  ASSUME BurstInv, UNCHANGED <<now, bucket, burst>>
  PROVE  \A w \in Window : Spread(w, bucket[w], burst[w])'
  BY DEF BurstInv, Spread, Opened, AdmittedAtMost

LEMMA FinishWeighed ==
  ASSUME PacingTypeOK, Weighed, NEW c \in Task, Finish(c)
  PROVE  Weighed'
  BY DEF Weighed, Finish, PacingTypeOK

LEMMA AgainWeighed ==
  ASSUME PacingTypeOK, Weighed, NEW c \in Task, pc[c] # "idle", NEW r, NEW ds, Again(c, r, ds)
  PROVE  Weighed'
<1>1. CASE r /\ ~ job[c].mutating /\ tries[c] < MaxRetries
  BY <1>1 DEF Again, Weighed, PacingTypeOK
<1>2. CASE ~ (r /\ ~ job[c].mutating /\ tries[c] < MaxRetries)
  BY <1>2, FinishWeighed DEF Again
<1> QED
  BY <1>1, <1>2

(* An answer's headers, and the limits that came with it.                  *)
LEMMA AnswerBurst ==
  ASSUME PacingTypeOK, InfoKnown, BurstInv, WindowsStay, NEW c \in Task,
         \/ Answered(c)
         \/ \E coded \in BOOLEAN : Limited(c, coded)
         \/ \E answered \in BOOLEAN : Fails(c, answered)
  PROVE  BurstInv'
<1> DEFINE a == Adopted(reply[c].count)
<1>1. /\ reply[c].count \in [Window -> Nat] /\ reply[c].rules \in Version /\ now \in Nat
      /\ burst \in [Window -> Nat] /\ Buckets
  BY TypeParts DEF Calls, Counts
<1>2. \A w \in Window : /\ Sound(a[w]) /\ Spread(w, a[w], burst[w])
                        /\ a[w].limit = Limit[InForce][w] /\ (a[w].on <=> Limit[InForce][w] > 0)
  BY <1>1, AdoptedSound, AdoptedSpread DEF BurstInv, Adopting
<1>3. pc[c] = "sent" /\ UNCHANGED <<now, burst>>
  BY DEF Answered, Limited, Fails, histVars
<1>4. Weighed'
  <2>1. Finish(c) \/ \E r, ds : Again(c, r, ds)
    BY DEF Answered, Limited, Fails
  <2> QED
    BY <1>3, <2>1, FinishWeighed, AgainWeighed DEF BurstInv
<1> HIDE DEF a
<1>5. ASSUME UNCHANGED info, bucket' = a PROVE BurstInv'
  <2>1. Adopting'
    BY <1>2, <1>5 DEF Adopting, InForce
  <2>2. \A w \in Window : Spread(w, bucket[w], burst[w])'
    BY <1>2, <1>3, <1>5 DEF Spread, Opened, AdmittedAtMost
  <2> QED
    BY <1>4, <2>1, <2>2 DEF BurstInv
<1>6. CASE Answered(c) /\ job[c].info
  <2> DEFINE v == reply[c].rules
  <2>1. info' = v /\ bucket' = Reseeded(a, v)
    BY <1>6 DEF Answered, a
  <2>2. InForce \in Version /\ InForce <= v /\ v # NoInfo
    <3>1. info <= v /\ v \in Nat
      BY <1>1, <1>3, <1>6, PacingAssumption DEF InfoKnown
    <3> QED
      BY <3>1, PacingAssumption DEF InForce, PacingTypeOK, NoInfo
  <2>3. \A w \in Window : /\ Spread(w, Reseeded(a, v)[w], burst[w])
                          /\ Reseeded(a, v)[w].limit = Limit[v][w]
                          /\ (Reseeded(a, v)[w].on <=> Limit[v][w] > 0)
    BY <1>1, <1>2, <2>2, ReseededSpread
  <2> HIDE DEF v
  <2>4. Adopting'
    BY <2>1, <2>2, <2>3 DEF Adopting, InForce
  <2>5. \A w \in Window : Spread(w, bucket[w], burst[w])'
    BY <1>3, <2>1, <2>3 DEF Spread, Opened, AdmittedAtMost
  <2> QED
    BY <1>4, <2>4, <2>5 DEF BurstInv
<1>7. CASE UNCHANGED <<info, bucket>>
  <2>1. Adopting'
    BY <1>7 DEF BurstInv, Adopting, InForce
  <2> QED
    BY <1>3, <1>4, <1>7, <2>1, QuietSpread DEF BurstInv
<1> QED
  BY <1>5, <1>6, <1>7 DEF Answered, Limited, Fails, a

LEMMA BurstStep ==
  ASSUME PacingTypeOK, InfoKnown, BurstInv, WindowsStay, [PacingNext]_pacingVars
  PROVE  BurstInv'
<1>1. ASSUME UNCHANGED <<now, bucket, burst, info>>, Weighed' PROVE BurstInv'
  BY <1>1, QuietSpread DEF BurstInv, Adopting, InForce
<1>2. CASE UNCHANGED pacingVars
  BY <1>1, <1>2 DEF pacingVars, limiterVars, callVars, infoVars, histVars, BurstInv, Weighed
<1>3. CASE Tick
  <2>1. Adopting' /\ Weighed'
    BY <1>3 DEF Tick, BurstInv, Adopting, Weighed, InForce, callVars, infoVars
  <2> QED
    BY <1>3, <2>1, TickSpread DEF BurstInv
<1>4. CASE RulesChange \/ \E w \in Window : OthersCall(w)
  BY <1>1, <1>4 DEF RulesChange, OthersCall, limiterVars, callVars, infoVars, histVars, BurstInv, Weighed
<1>5. ASSUME NEW c \in Task, NEW j \in Job, Call(c, j) PROVE BurstInv'
  <2>1. UNCHANGED <<now, bucket, burst, info>>
    BY <1>5 DEF Call, limiterVars, infoVars, histVars
  <2>2. Weighed'
    <3> DEFINE k == [weight |-> j.weight, mutating |-> j.mutating, info |-> FALSE, force |-> FALSE]
    <3>1. job' = [job EXCEPT ![c] = k] /\ pc' = [pc EXCEPT ![c] = "ready"] /\ k.weight = j.weight
      BY <1>5 DEF Call, Begin
    <3> HIDE DEF k
    <3> QED
      BY <3>1 DEF BurstInv, Weighed, PacingTypeOK
  <2> QED
    BY <1>1, <2>1, <2>2
<1>6. ASSUME NEW c \in Task, NEW force \in BOOLEAN, AsksInfo(c, force) PROVE BurstInv'
  <2>1. UNCHANGED <<now, bucket, burst, info>>
    BY <1>6 DEF AsksInfo, limiterVars, histVars
  <2>2. Weighed'
    <3> DEFINE k == [weight |-> InfoWeight, mutating |-> FALSE, info |-> TRUE, force |-> force]
    <3>1. /\ job' = [job EXCEPT ![c] = k] /\ k.weight = InfoWeight
          /\ \A t \in Task \ {c} : pc'[t] = pc[t]
      BY <1>6 DEF AsksInfo, Begin, PacingTypeOK
    <3> HIDE DEF k
    <3> QED
      BY <3>1 DEF BurstInv, Weighed, PacingTypeOK
  <2> QED
    BY <1>1, <2>1, <2>2
<1>7. ASSUME NEW c \in Task, GetsLock(c) PROVE BurstInv'
  <2>1. UNCHANGED <<now, bucket, burst, info>>
    BY <1>7 DEF GetsLock, limiterVars, histVars
  <2>2. CASE info # NoInfo /\ ~ job[c].force
    <3>1. pc' = [pc EXCEPT ![c] = "idle"] /\ job' = [job EXCEPT ![c] = NoJob]
      BY <1>7, <2>2 DEF GetsLock
    <3> QED
      BY <1>1, <2>1, <3>1 DEF BurstInv, Weighed, PacingTypeOK
  <2>3. CASE ~ (info # NoInfo /\ ~ job[c].force)
    <3>1. pc' = [pc EXCEPT ![c] = "ready"] /\ job' = [job EXCEPT ![c] = job[c]] /\ pc[c] = "locked"
      BY <1>7, <2>3 DEF GetsLock, Begin
    <3> QED
      BY <1>1, <2>1, <3>1 DEF BurstInv, Weighed, PacingTypeOK
  <2> QED
    BY <2>2, <2>3
<1>8. ASSUME NEW c \in Task, Send(c) PROVE BurstInv'
  <2>1. UNCHANGED <<now, info, job>> /\ pc' = [pc EXCEPT ![c] = "sent"] /\ pc[c] # "idle"
    BY <1>8 DEF Send, Attempts, infoVars
  <2>2. \A w \in Window : /\ Spread(w, bucket'[w], burst'[w]) /\ bucket'[w].limit = bucket[w].limit
                          /\ bucket'[w].on = bucket[w].on
    BY <1>8, SendSpread
  <2>3. \A w \in Window : Spread(w, bucket[w], burst[w])'
    BY <2>1, <2>2 DEF Spread, Opened, AdmittedAtMost
  <2>4. Adopting' /\ Weighed'
    BY <2>1, <2>2 DEF BurstInv, Adopting, Weighed, InForce, PacingTypeOK
  <2> QED
    BY <2>3, <2>4 DEF BurstInv
<1>9. ASSUME NEW c \in Task, Pace(c) PROVE BurstInv'
  <2>1. /\ UNCHANGED <<now, info, job, burst>> /\ pc' = [pc EXCEPT ![c] = "paced"] /\ pc[c] # "idle"
        /\ bucket' = [w \in Window |-> IF w \in Charged(job[c]) THEN Rolled(w) ELSE bucket[w]]
    BY <1>9 DEF Pace, Attempts, infoVars, histVars
  <2>2. ASSUME NEW w \in Window
        PROVE  /\ Spread(w, bucket'[w], burst[w]) /\ bucket'[w].limit = bucket[w].limit
               /\ bucket'[w].on = bucket[w].on
    <3>1. Sound(bucket[w]) /\ now \in Nat /\ burst[w] \in Nat /\ Spread(w, bucket[w], burst[w])
      BY TypeParts DEF Buckets, Counts, BurstInv
    <3>2. bucket'[w] = bucket[w] \/ bucket'[w] = Roll(w, bucket[w])
      BY <2>1 DEF Rolled
    <3> QED
      BY <3>1, <3>2, RollSound, RollSpread
  <2>3. \A w \in Window : Spread(w, bucket[w], burst[w])'
    BY <2>1, <2>2 DEF Spread, Opened, AdmittedAtMost
  <2>4. Adopting' /\ Weighed'
    BY <2>1, <2>2 DEF BurstInv, Adopting, Weighed, InForce, PacingTypeOK
  <2> QED
    BY <2>3, <2>4 DEF BurstInv
<1>10. ASSUME NEW c \in Task, Cancelled(c) PROVE BurstInv'
  <2>1. UNCHANGED <<now, bucket, burst, info>> /\ Finish(c)
    BY <1>10 DEF Cancelled, limiterVars, histVars
  <2> QED
    BY <1>1, <2>1, FinishWeighed DEF BurstInv
<1> QED
  BY <1>2, <1>3, <1>4, <1>5, <1>6, <1>7, <1>8, <1>9, <1>10, AnswerBurst DEF PacingNext

(* Although the limiter's windows do not start where the exchange's do, no *)
(* window of the exchange gets more than two of the limiter's, whatever    *)
(* callers, headers, retries and new limits do (ratelimit.py:98), as long  *)
(* as the exchange does not take a window away and bring it back.          *)
THEOREM NoTripleBurst ==
  ASSUME WindowsStay
  PROVE  PacingSpec => []BurstBounded
<1>1. PacingInit => BurstInv
  <2> SUFFICES ASSUME PacingInit PROVE BurstInv
    OBVIOUS
  <2>1. \A w \in Window :
          /\ bucket[w].limit = Limit[0][w] /\ bucket[w].on = (Limit[0][w] > 0)
          /\ bucket[w].start = NoStart /\ bucket[w].sum = 0 /\ burst[w] = 0
    BY DEF PacingInit, NewWindow
  <2>2. now = 0 /\ info = NoInfo /\ \A c \in Task : pc[c] = "idle"
    BY DEF PacingInit
  <2>3. ASSUME NEW w \in Window PROVE Spread(w, bucket[w], burst[w])
    <3>1. \E m \in Nat : AdmittedAtMost(m, w) /\ 0 <= m + 0
      BY NothingAdmitted
    <3> QED
      BY <2>1, <2>2, <3>1, NothingAdmitted DEF Spread, NoStart
  <2>4. Adopting /\ Weighed
    BY <2>1, <2>2 DEF Adopting, Weighed, InForce
  <2> QED
    BY <2>3, <2>4 DEF BurstInv
<1>2. PacingTypeOK /\ InfoKnown /\ BurstInv /\ [PacingNext]_pacingVars => BurstInv'
  BY BurstStep
<1>3. PacingTypeOK /\ BurstInv => BurstBounded
  <2> SUFFICES ASSUME PacingTypeOK, BurstInv, NEW w \in Window
               PROVE  AdmittedAtMost((burst[w] + 1) \div 2, w)
    BY DEF BurstBounded
  <2> DEFINE n == burst[w]
             s == bucket[w].sum
  <2>1. n \in Nat /\ s \in Nat /\ AdmittedAtMost(s, w)
    BY DEF PacingTypeOK, BurstInv, Spread
  <2>2. PICK m \in Nat : AdmittedAtMost(m, w) /\ n <= m + s
    BY DEF BurstInv, Spread
  <2> HIDE DEF n, s
  <2>3. (n + 1) \div 2 \in Nat /\ ((n + 1) \div 2 <= m \/ (n + 1) \div 2 <= s)
    BY <2>1, <2>2
  <2> QED
    BY <2>1, <2>2, <2>3, FewerAdmitted DEF n
<1>4. PacingInit => InfoKnown
  BY PacingAssumption DEF PacingInit, InfoKnown, NoInfo, Underway
<1>5. PacingTypeOK /\ InfoKnown /\ [PacingNext]_pacingVars => InfoKnown'
  BY InfoStep
<1> QED
  BY PacingTypes, <1>1, <1>2, <1>3, <1>4, <1>5, PTL DEF PacingSpec

=============================================================================
