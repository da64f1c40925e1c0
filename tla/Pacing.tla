-------------------------------- MODULE Pacing --------------------------------
(***************************************************************************)
(* How the client's calls share the exchange's rate limits: the limiter    *)
(* (ratelimit.py), the part of the transport and the retryer a call passes *)
(* through (transport.py, retry.py), and BinanceThClient.exchange_info     *)
(* (client.py), which adopts new limits in the middle of it all.           *)
(*                                                                         *)
(* Time is an integer.  The limiter's windows are anchored where they were *)
(* first used; the exchange's windows start at multiples of their duration *)
(* (plus Phase), and other users of the same address use them up as well.  *)
(* A request reaches the exchange when it is sent; its answer comes later, *)
(* or never.  A calling task is suspended at                               *)
(*                                                                         *)
(*   ready     about to run acquire() (the start of an attempt)            *)
(*   paced     in acquire()'s sleep, outside the lock                      *)
(*   sent      awaiting the response                                       *)
(*   backoff   in the retryer's sleep                                      *)
(*   locked    waiting for the exchange-info lock                          *)
(*   idle      in no call                                                  *)
(***************************************************************************)
EXTENDS Integers

CONSTANTS
  Task,        \* calling tasks
  Window,      \* rate-limit windows
  Kind,        \* their types: "REQUEST_WEIGHT", "RAW_REQUESTS", "ORDERS"
  Duration,    \* their lengths
  Phase,       \* where the exchange's own windows start
  Version,     \* the rules the exchange has had: 0 is DEFAULT_RATE_LIMITS
  Limit,       \* Limit[v][w], 0 if the rules of version v have no such window
  Job,         \* what a task can ask for: its weight and whether it is mutating
  InfoWeight,  \* EXCHANGE_INFO_WEIGHT
  MaxRetries,  \* config.max_retries
  MaxBackoff,  \* the top of the retryer's jitter
  RetryAfter,  \* the delay a 429 asks for
  MaxTime      \* bound: the clock stops here

ASSUME PacingAssumption ==
  /\ Kind \in [Window -> {"REQUEST_WEIGHT", "RAW_REQUESTS", "ORDERS"}]
  /\ Duration \in [Window -> Nat \ {0}]
  /\ Phase \in [Window -> Nat]
  /\ Version \subseteq Nat /\ 0 \in Version
  /\ Limit \in [Version -> [Window -> Nat]]
  /\ Job \subseteq [weight : Nat \ {0}, mutating : BOOLEAN]
  /\ InfoWeight \in Nat \ {0}
  /\ {MaxRetries, MaxBackoff, RetryAfter, MaxTime} \subseteq Nat

VARIABLES
  now,      \* the clock
  bucket,   \* the limiter's windows; `on`: in force; `sum`: (history) admitted since `start`
  pc,       \* where each task is
  until,    \* when its sleep ends
  job,      \* what it asked for
  tries,    \* its retries so far
  reply,    \* what the exchange counted, under which rules, when its request arrived
  info,     \* _exchange_info: the version it is of, or NoInfo
  holding,  \* the task that holds _exchange_info_lock
  rules,    \* the exchange's rules
  used,     \* its own count per window
  burst,    \* (history) what this client sent in the exchange's current window
  halt,     \* (history) until when a 429 asked for a stop, per window
  defied    \* (history) a request charged a window that was to be stopped

limiterVars  == <<now, bucket>>
callVars     == <<pc, until, job, tries, reply>>
infoVars     == <<info, holding>>
exchangeVars == <<rules, used>>
histVars     == <<burst, halt, defied>>
pacingVars   == <<limiterVars, callVars, infoVars, exchangeVars, histVars>>

NoStart == -1
NoInfo  == -1
NoJob   == [weight |-> 0, mutating |-> FALSE, info |-> FALSE, force |-> FALSE]
NoReply == [count |-> [w \in Window |-> 0], rules |-> 0]

-----------------------------------------------------------------------------
(* Window and DualWindowRateLimiter.                                       *)

NewWindow(limit) ==
  [on |-> limit > 0, limit |-> limit, used |-> 0, start |-> NoStart, sum |-> 0]

(* Window.roll: anchor on first use; a window that is over starts again,   *)
(* later by a whole number of durations.                                   *)
Roll(w, b) ==
  IF b.start = NoStart THEN [b EXCEPT !.start = now]
  ELSE IF now - b.start < Duration[w] THEN b
  ELSE [b EXCEPT !.start = @ + Duration[w] * ((now - @) \div Duration[w]),
                 !.used = 0, !.sum = 0]

Rolled(w) == Roll(w, bucket[w])

(* Mutant: a window that is not full has room.                             *)
HasRoomForAny(b, charge) == b.used < b.limit

(* Window.wait_time is 0.                                                  *)
HasRoom(b, charge) == b.used = 0 \/ b.used + charge <= b.limit

(* _charges: by how much a call charges a window, and which it charges.    *)
Charge(w, j) == IF Kind[w] = "REQUEST_WEIGHT" THEN j.weight ELSE 1

Concerns(w, j) == Kind[w] = "ORDERS" => j.mutating

Charged(j) == {w \in Window : bucket[w].on /\ Concerns(w, j)}

(* The windows that make acquire() wait, and when the wait for one ends.   *)
Blocking(j) == {w \in Charged(j) : ~ HasRoom(Rolled(w), Charge(w, j))}

Ends(w) == Rolled(w).start + Duration[w]

(* Mutant: usage follows the header down as well.                          *)
AdoptedDown(count) ==
  [w \in Window |->
     IF ~ bucket[w].on \/ Kind[w] = "RAW_REQUESTS" THEN bucket[w]
     ELSE [Rolled(w) EXCEPT !.used = count[w]]]

(* update_from_headers: usage only ever goes up.                           *)
Adopted(count) ==
  [w \in Window |->
     IF ~ bucket[w].on \/ Kind[w] = "RAW_REQUESTS" THEN bucket[w]
     ELSE [Rolled(w) EXCEPT !.used = IF count[w] > @ THEN count[w] ELSE @]]

(* Mutant: a reseed starts every window afresh.                            *)
ReseededAfresh(b, v) == [w \in Window |-> NewWindow(Limit[v][w])]

(* reseed: a kept window keeps what was used; a dropped one is forgotten.  *)
Reseeded(b, v) ==
  [w \in Window |->
     IF b[w].on /\ Limit[v][w] > 0 THEN [b[w] EXCEPT !.limit = Limit[v][w]]
     ELSE NewWindow(Limit[v][w])]

-----------------------------------------------------------------------------
(* The exchange: it counts what arrives, for this client and for others    *)
(* behind the same address.                                                *)

InUse(w) == Limit[rules][w] > 0

Counted(j) ==
  [w \in Window |-> IF InUse(w) /\ Concerns(w, j) THEN used[w] + Charge(w, j) ELSE used[w]]

(* The windows for which a reply is a 429.                                 *)
Over(r) == {w \in Window : Limit[r.rules][w] > 0 /\ r.count[w] > Limit[r.rules][w]}

Tick ==
  /\ now < MaxTime
  /\ now' = now + 1
  /\ LET Turns(w) == (now + 1 + Phase[w]) % Duration[w] = 0 IN
     /\ used' = [w \in Window |-> IF Turns(w) THEN 0 ELSE used[w]]
     /\ burst' = [w \in Window |-> IF Turns(w) THEN 0 ELSE burst[w]]
  /\ UNCHANGED <<bucket, callVars, infoVars, rules, halt, defied>>

OthersCall(w) ==
  /\ InUse(w) /\ used[w] < Limit[rules][w]
  /\ used' = [used EXCEPT ![w] = @ + 1]
  /\ UNCHANGED <<limiterVars, callVars, infoVars, rules, histVars>>

RulesChange ==
  /\ rules + 1 \in Version
  /\ rules' = rules + 1
  /\ UNCHANGED <<limiterVars, callVars, infoVars, used, histVars>>

-----------------------------------------------------------------------------
(* Calls: Retryer.run around Transport._execute.  A call of exchange_info  *)
(* that finds the cache filled, and is not forced, returns at once.        *)

Begin(c, j) ==
  /\ pc' = [pc EXCEPT ![c] = "ready"]
  /\ job' = [job EXCEPT ![c] = j]

Call(c, j) ==
  /\ pc[c] = "idle"
  /\ Begin(c, [weight |-> j.weight, mutating |-> j.mutating, info |-> FALSE, force |-> FALSE])
  /\ UNCHANGED <<limiterVars, until, tries, reply, infoVars, exchangeVars, histVars>>

(* Mutant: the lock is not taken.                                          *)
TakesLockUnasked(c) == TRUE

TakesLock(c) == holding = {} /\ \A d \in Task \ {c} : pc[d] # "locked"

AsksInfo(c, force) ==
  /\ pc[c] = "idle" /\ (info = NoInfo \/ force)
  /\ LET j == [weight |-> InfoWeight, mutating |-> FALSE, info |-> TRUE, force |-> force] IN
     IF TakesLock(c)
     THEN Begin(c, j) /\ holding' = {c}
     ELSE /\ pc' = [pc EXCEPT ![c] = "locked"]
          /\ job' = [job EXCEPT ![c] = j]
          /\ UNCHANGED holding
  /\ UNCHANGED <<limiterVars, until, tries, reply, info, exchangeVars, histVars>>

(* The lock is released: the cache is looked at again.                     *)
GetsLock(c) ==
  /\ pc[c] = "locked" /\ holding = {}
  /\ IF info # NoInfo /\ ~ job[c].force
     THEN /\ pc' = [pc EXCEPT ![c] = "idle"]
          /\ job' = [job EXCEPT ![c] = NoJob]
          /\ UNCHANGED holding
     ELSE Begin(c, job[c]) /\ holding' = {c}
  /\ UNCHANGED <<limiterVars, until, tries, reply, info, exchangeVars, histVars>>

Attempts(c) == pc[c] = "ready" \/ (pc[c] \in {"paced", "backoff"} /\ now >= until[c])

(* acquire(): all have room; charge them and send.                         *)
Send(c) ==
  LET j == job[c] IN
  /\ Attempts(c) /\ Blocking(j) = {}
  /\ bucket' = [w \in Window |->
       IF w \in Charged(j)
       THEN [Rolled(w) EXCEPT !.used = @ + Charge(w, j), !.sum = @ + Charge(w, j)]
       ELSE bucket[w]]
  /\ used' = Counted(j)
  /\ burst' = [w \in Window |-> IF w \in Charged(j) THEN burst[w] + Charge(w, j) ELSE burst[w]]
  /\ defied' = (defied \/ \E w \in Window : Concerns(w, j) /\ now < halt[w])
  /\ reply' = [reply EXCEPT ![c] = [count |-> Counted(j), rules |-> rules]]
  /\ pc' = [pc EXCEPT ![c] = "sent"]
  /\ until' = [until EXCEPT ![c] = 0]
  /\ UNCHANGED <<now, job, tries, infoVars, rules, halt>>

(* acquire(): sleep, outside the lock, until the last of the full ones is  *)
(* over.                                                                   *)
Pace(c) ==
  /\ Attempts(c)
  /\ \E w \in Blocking(job[c]) :
       /\ \A v \in Blocking(job[c]) : Ends(v) <= Ends(w)
       /\ until' = [until EXCEPT ![c] = Ends(w)]
  /\ bucket' = [w \in Window |-> IF w \in Charged(job[c]) THEN Rolled(w) ELSE bucket[w]]
  /\ pc' = [pc EXCEPT ![c] = "paced"]
  /\ UNCHANGED <<now, job, tries, reply, infoVars, exchangeVars, histVars>>

(* The call is over; `async with` releases the lock.                       *)
Finish(c) ==
  /\ pc' = [pc EXCEPT ![c] = "idle"]
  /\ job' = [job EXCEPT ![c] = NoJob]
  /\ tries' = [tries EXCEPT ![c] = 0]
  /\ until' = [until EXCEPT ![c] = 0]
  /\ reply' = [reply EXCEPT ![c] = NoReply]
  /\ holding' = holding \ {c}

(* The retryer's verdict on an error, and its sleep.                       *)
Again(c, retryable, delays) ==
  IF retryable /\ ~ job[c].mutating /\ tries[c] < MaxRetries
  THEN /\ \E d \in delays : until' = [until EXCEPT ![c] = now + d]
       /\ tries' = [tries EXCEPT ![c] = @ + 1]
       /\ reply' = [reply EXCEPT ![c] = NoReply]
       /\ pc' = [pc EXCEPT ![c] = "backoff"]
       /\ UNCHANGED <<job, holding>>
  ELSE Finish(c)

(* The answer; exchange_info caches it and adopts its limits.              *)
Answered(c) ==
  LET r == reply[c] IN
  /\ pc[c] = "sent" /\ Over(r) = {}
  /\ IF job[c].info
     THEN info' = r.rules /\ bucket' = Reseeded(Adopted(r.count), r.rules)
     ELSE bucket' = Adopted(r.count) /\ UNCHANGED info
  /\ Finish(c)
  /\ UNCHANGED <<now, exchangeVars, histVars>>

(* A 429: its error is retried unless its body carries a code of its own.  *)
Limited(c, coded) ==
  LET r == reply[c] IN
  /\ pc[c] = "sent" /\ Over(r) # {}
  /\ bucket' = Adopted(r.count)
  /\ halt' = [w \in Window |-> IF w \in Over(r) THEN now + RetryAfter ELSE halt[w]]
  /\ Again(c, ~ coded, {RetryAfter})
  /\ UNCHANGED <<now, info, exchangeVars, burst, defied>>

(* A 5xx, or no answer: it or the request was lost.                        *)
Fails(c, answered) ==
  /\ pc[c] = "sent"
  /\ bucket' = IF answered THEN Adopted(reply[c].count) ELSE bucket
  /\ Again(c, TRUE, 0 .. MaxBackoff)
  /\ UNCHANGED <<now, info, exchangeVars, histVars>>

(* The caller's task is cancelled, wherever it waits.                      *)
Cancelled(c) ==
  /\ pc[c] # "idle"
  /\ Finish(c)
  /\ UNCHANGED <<limiterVars, info, exchangeVars, histVars>>

-----------------------------------------------------------------------------
PacingInit ==
  /\ now = 0
  /\ bucket = [w \in Window |-> NewWindow(Limit[0][w])]
  /\ pc = [c \in Task |-> "idle"]
  /\ until = [c \in Task |-> 0]
  /\ job = [c \in Task |-> NoJob]
  /\ tries = [c \in Task |-> 0]
  /\ reply = [c \in Task |-> NoReply]
  /\ info = NoInfo /\ holding = {}
  /\ rules = 0
  /\ used = [w \in Window |-> 0]
  /\ burst = [w \in Window |-> 0]
  /\ halt = [w \in Window |-> 0]
  /\ defied = FALSE

PacingNext ==
  \/ Tick \/ RulesChange \/ \E w \in Window : OthersCall(w)
  \/ \E c \in Task :
       \/ \E j \in Job : Call(c, j)
       \/ \E force \in BOOLEAN : AsksInfo(c, force)
       \/ GetsLock(c) \/ Send(c) \/ Pace(c) \/ Answered(c)
       \/ \E coded \in BOOLEAN : Limited(c, coded)
       \/ \E answered \in BOOLEAN : Fails(c, answered)
       \/ Cancelled(c)

PacingSpec == PacingInit /\ [][PacingNext]_pacingVars

-----------------------------------------------------------------------------
(* Properties.                                                             *)

(* Every variable keeps its type; no window counts less than was admitted  *)
(* since it started, whatever headers and reseeds came in between; and one *)
(* task at most is fetching the exchange info.                             *)
PacingTypeOK ==
  /\ now \in Nat /\ defied \in BOOLEAN /\ rules \in Version
  /\ info \in Version \cup {NoInfo} /\ holding \in SUBSET Task
  /\ bucket \in [Window -> [on : BOOLEAN, limit : Nat, used : Nat, start : Nat \cup {NoStart}, sum : Nat]]
  /\ pc \in [Task -> {"idle", "locked", "ready", "paced", "sent", "backoff"}]
  /\ until \in [Task -> Nat] /\ tries \in [Task -> Nat]
  /\ job \in [Task -> [weight : Nat, mutating : BOOLEAN, info : BOOLEAN, force : BOOLEAN]]
  /\ reply \in [Task -> [count : [Window -> Nat], rules : Version]]
  /\ used \in [Window -> Nat] /\ burst \in [Window -> Nat] /\ halt \in [Window -> Nat]
  /\ \A w \in Window : bucket[w].used >= bucket[w].sum
  /\ \A c, d \in holding : c = d

(* "It cannot over-admit within a window" (ratelimit.py:6): between two    *)
(* turns of the limiter's window, what it admits stays within the limit in *)
(* force, however the callers that were asleep wake up, whatever the       *)
(* headers of late answers say and whichever limits were adopted since;    *)
(* only the first charge of a window may exceed it.                        *)
PacedWithinLimit ==
  [][\A w \in Window :
       bucket'[w].sum > bucket[w].sum /\ bucket'[w].start = bucket[w].start
       => bucket[w].sum = 0 \/ bucket'[w].sum <= bucket[w].limit]_pacingVars

(* The limiter's windows do not start where the exchange's do, so a window *)
(* of the exchange meets two of the limiter's, and never three: it gets    *)
(* at most twice what one of them admits, which is a limit or one          *)
(* oversized charge.  (A reseed forgets a window that the rules no longer  *)
(* have; the exchange is taken not to bring one back.)                     *)
AdmittedAtMost(n, w) ==
  (\E v \in Version : n <= Limit[v][w]) \/ (\E j \in Job : n <= Charge(w, j)) \/ n <= InfoWeight

BurstBounded == \A w \in Window : AdmittedAtMost((burst[w] + 1) \div 2, w)

(* exchange_info() may be called by many tasks, forced or not, and its     *)
(* request retried; yet what is cached, and with it the limits in force,   *)
(* is never replaced by rules that are older.                              *)
InfoNeverGoesBack == [][info' >= info]_pacingVars

(* ADR-0005: "On 429/418 we hard-stop the affected class and sleep for     *)
(* Retry-After": nothing that charges a window is sent before the time a   *)
(* 429 for that window has asked for.                                      *)
HaltsTheClass == ~ defied

=============================================================================
