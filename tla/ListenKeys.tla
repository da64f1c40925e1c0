------------------------------ MODULE ListenKeys ------------------------------
(***************************************************************************)
(* RestListenKeyManager (listenkey.py): one POST for the keys of every     *)
(* symbol type, shared by the tasks that ask while it is in flight, a      *)
(* keepalive task, and close().                                            *)
(*                                                                         *)
(* A POST is a task of its own.  When it is done the tasks that await it   *)
(* are woken in one stretch of the event loop, the owner first; before     *)
(* they are, other tasks may run and find `_inflight` done.  Cancelling a  *)
(* task that awaits a POST has the POST cancelled, and with it everyone    *)
(* else who awaits it, or joins it before it has ended ("dying").          *)
(*                                                                         *)
(* A key is abstracted to what can be told about it: the manager stores    *)
(* one for the type or not, and a connection's URL holds the stored key or *)
(* an older one (UserDataStream).                                          *)
(***************************************************************************)
EXTENDS Naturals, FiniteSets

CONSTANTS
  Type,     \* symbol types; also the names of their connections' supervisors
  Caller,   \* application tasks
  Slot      \* bound: the POSTs that can be in flight or not yet taken note of

ASSUME KeyAssumption == Type \cap Caller = {} /\ Slot # {}

Task == Type \cup Caller

VARIABLES
  stored,    \* the types _keys has a key for
  post,      \* the POST tasks: how each went, and who awaits it
  inflight,  \* _inflight: a set of at most one slot
  dropped,   \* tasks that were cancelled while they await a POST
  keep,      \* the keepalive task runs
  kclosing   \* _closing

keyVars  == <<stored, keep, kclosing>>
postVars == <<post, inflight, dropped>>

Idle == [state |-> "free", tasks |-> {}]

KeysInit ==
  /\ stored = {} /\ keep = FALSE /\ kclosing = FALSE
  /\ post = [s \in Slot |-> Idle] /\ inflight = {} /\ dropped = {}

Asking == UNION {post[s].tasks : s \in Slot}

-----------------------------------------------------------------------------

(* The POST task is not done, though it may be about to be cancelled.      *)
Pending(s) == post[s].state \in {"running", "dying"}

(* create(), up to its await: join the POST in flight, or start one.       *)
Create(k) ==
  /\ \/ \E s \in inflight :
          /\ Pending(s)
          /\ post' = [post EXCEPT ![s].tasks = @ \cup {k}]
          /\ UNCHANGED inflight
     \/ /\ \A s \in inflight : ~ Pending(s)
        /\ \E s \in Slot : post[s] = Idle
        /\ LET s == CHOOSE s \in Slot : post[s] = Idle IN
             /\ post' = [post EXCEPT ![s] = [state |-> "running", tasks |-> {k}]]
             /\ inflight' = {s}
  /\ UNCHANGED dropped

(* Mutant: the test of `_closing` is the wrong way round.                  *)
PostAnsweredUnkept(s, types) ==
  /\ post[s].state = "running"
  /\ post' = [post EXCEPT ![s].state = "ok"]
  /\ stored' = types
  /\ keep' = (keep \/ kclosing)
  /\ UNCHANGED <<kclosing, inflight, dropped>>

(* _do_create: the answer replaces every stored key, and the first one     *)
(* starts the keepalive task.                                              *)
PostAnswered(s, types) ==
  /\ post[s].state = "running"
  /\ post' = [post EXCEPT ![s].state = "ok"]
  /\ stored' = types
  /\ keep' = (keep \/ ~ kclosing)
  /\ UNCHANGED <<kclosing, inflight, dropped>>

(* _do_create raises: no API key or a refusal ("auth"), or anything else.  *)
PostFails(s, how) ==
  /\ post[s].state = "running"
  /\ post' = [post EXCEPT ![s].state = how]
  /\ UNCHANGED <<keyVars, inflight, dropped>>

(* A task is cancelled in create(), and its POST is asked to end, unless   *)
(* it is done.                                                             *)
CancelCreate(k) ==
  /\ dropped' = dropped \cup {k}
  /\ post' = [s \in Slot |->
       IF k \in post[s].tasks /\ post[s].state = "running"
       THEN [post[s] EXCEPT !.state = "dying"] ELSE post[s]]
  /\ UNCHANGED inflight

(* The cancelled POST task has run, and is done.                           *)
PostDies(s) ==
  /\ post[s].state = "dying"
  /\ post' = [post EXCEPT ![s].state = "cancelled"]
  /\ UNCHANGED <<keyVars, inflight, dropped>>

(* Mutant: create() clears `_inflight` only if it is its own POST.         *)
ReleaseOnlyOwn(s) ==
  /\ post' = [post EXCEPT ![s] = Idle]
  /\ inflight' = inflight \ {s}
  /\ dropped' = dropped \ post[s].tasks

(* The rest of create(), for everyone who awaited the POST: the owner's    *)
(* finally clears `_inflight`, whichever POST it names by then.            *)
Release(s) ==
  /\ post' = [post EXCEPT ![s] = Idle]
  /\ inflight' = {}
  /\ dropped' = dropped \ post[s].tasks

(* The exception k's create() ends with, or "ok".                          *)
Outcome(s, k) == IF k \in dropped THEN "cancelled" ELSE post[s].state

(* close(), until the keepalive task has been cancelled and awaited.       *)
CloseBegins ==
  /\ kclosing' = TRUE /\ keep' = FALSE
  /\ UNCHANGED stored

(* close(), the rest.  The DELETE of each key is best effort.              *)
CloseTakesKeys ==
  /\ stored' = {}
  /\ UNCHANGED <<keep, kclosing>>

=============================================================================
