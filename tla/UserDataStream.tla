---------------------------- MODULE UserDataStream ----------------------------
(***************************************************************************)
(* The user-data stream (userstream.py): UserDataStream, which starts on   *)
(* first use, its one connection per symbol type with a supervisor task    *)
(* each, and the listen keys they share (ListenKeys).                      *)
(*                                                                         *)
(* One event loop: an action is what happens between two awaits.  What the *)
(* frames carry is OrderTracker's subject; here a frame matters only if it *)
(* is listenKeyExpired.  A connection's supervisor is suspended at         *)
(*                                                                         *)
(*   start       created, has not run yet                                  *)
(*   creating    in `await self._keys.create()`                            *)
(*   connecting  in `await self._connect(...)`                             *)
(*   reading     in asyncio.wait for the reader, at most session_ttl       *)
(*   reaping     in `await reader` after cancelling it                     *)
(*   dropping    in `await ws.close()`                                     *)
(*   sleeping    in the backoff                                            *)
(*   none        no task, or the task has returned                         *)
(***************************************************************************)
EXTENDS ListenKeys

(* The settings: ws_auto_reconnect (auto).  Not the code's: the            *)
(* application may call watch_*() while or after it closes (late); the     *)
(* exchange answers every POST with a key for each type, and with the old  *)
(* one while that is valid (same).                                         *)
CONSTANT Mode

ASSUME ModeAssumption == Mode \subseteq [auto : BOOLEAN, late : BOOLEAN, same : BOOLEAN]

VARIABLES
  config,   \* a Mode, fixed
  client,   \* UserDataStream: "open", or how far aclose() is
  started,  \* _started
  conns,    \* the types in _conns
  caller,   \* a task and watch_*(): "idle" (not in it), "creating", or "live"
  conn,     \* the _UserDataConnection of each type
  starts    \* (history) how often the connections were made

callVars == <<config, client, started, conns, caller>>
vars == <<keyVars, postVars, callVars, conn, starts>>

(* _UserDataConnection.__init__.  `again` stands for timed_out or _planned *)
(* once the reader has ended; `ws` tells that _ws is a socket; `mine` that  *)
(* the URL has the stored key, `valid` that the exchange honours it.       *)
NewConn ==
  [pc |-> "none", again |-> FALSE, ws |-> FALSE, closing |-> FALSE,
   mine |-> FALSE, valid |-> FALSE]

Live == {c \in Caller : caller[c] = "live"}
Done(s)  == post[s].state # "free" /\ ~ Pending(s)
Reads(t) == conn[t].pc = "reading"

Set(t, c) == conn' = [conn EXCEPT ![t] = c]

(* What is left of a connection in state c whose supervisor returns.       *)
Over(c) == [NewConn EXCEPT !.ws = c.ws, !.closing = c.closing]

-----------------------------------------------------------------------------
(* Consumers.                                                              *)

(* _ensure_started, up to its await, and what follows if there is none.    *)
Watch(c) ==
  /\ caller[c] = "idle"
  /\ client = "open" \/ config.late
  /\ IF started \/ client # "open"
     THEN caller' = [caller EXCEPT ![c] = "live"] /\ UNCHANGED postVars
     ELSE caller' = [caller EXCEPT ![c] = "creating"] /\ Create(c)
  /\ UNCHANGED <<keyVars, config, client, started, conns, conn, starts>>

(* The application cancels the call, e.g. by a timeout around it.          *)
CancelWatch(c) ==
  /\ caller[c] = "creating" /\ c \notin dropped
  /\ CancelCreate(c)
  /\ UNCHANGED <<keyVars, callVars, conn, starts>>

(* _unsubscribe.                                                           *)
Leave(c) ==
  /\ caller[c] = "live"
  /\ caller' = [caller EXCEPT ![c] = "idle"]
  /\ UNCHANGED <<keyVars, postVars, config, client, started, conns, conn, starts>>

(* _fault_all, and the end of the consumers in aclose(): the iterators end *)
(* or raise, and with them watch_*().                                      *)
Told(f) == [c \in Caller |-> IF f[c] = "live" THEN "idle" ELSE f[c]]

-----------------------------------------------------------------------------
(* create() returns to those who awaited it.                               *)

(* Mutant: _ensure_started does not look at `_started` a second time.      *)
StartsHereUnchecked(s) == client = "open" /\ \E c \in Caller \cap post[s].tasks : Outcome(s, c) = "ok"

(* Someone who was starting the stream finds it still to be started.       *)
StartsHere(s) ==
  /\ client = "open" /\ ~ started
  /\ \E c \in Caller \cap post[s].tasks : Outcome(s, c) = "ok"

WakeCallers(s) ==
  /\ Done(s)
  /\ post[s].tasks \subseteq Caller
  /\ caller' = [c \in Caller |->
       IF c \notin post[s].tasks THEN caller[c]
       ELSE IF Outcome(s, c) = "ok" THEN "live" ELSE "idle"]
  /\ Release(s)
  /\ \/ /\ StartsHere(s)
        /\ started' = TRUE /\ conns' = stored /\ starts' = starts + 1
        /\ conn' = [t \in Type |-> IF t \in stored THEN [NewConn EXCEPT !.pc = "start"] ELSE conn[t]]
     \/ ~ StartsHere(s) /\ UNCHANGED <<started, conns, starts, conn>>
  /\ UNCHANGED <<keyVars, config, client>>

(* How a supervisor goes on after its create().                            *)
GivesUp(s, t) ==
  \/ Outcome(s, t) = "auth"
  \/ Outcome(s, t) = "error" /\ (~ config.auto \/ conn[t].closing)
  \/ Outcome(s, t) = "ok" /\ t \notin stored

Faults(s) == \E t \in Type \cap post[s].tasks : GivesUp(s, t)

AfterCreate(s, t) ==
  IF GivesUp(s, t) \/ Outcome(s, t) = "cancelled"
  THEN Over(conn[t])
  ELSE IF Outcome(s, t) = "error"
  THEN [conn[t] EXCEPT !.pc = "sleeping"]
  ELSE [conn[t] EXCEPT !.pc = "connecting", !.mine = TRUE, !.valid = TRUE]

WakeSupervisors(s) ==
  /\ Done(s)
  /\ post[s].tasks \cap Type # {}
  /\ conn' = [t \in Type |-> IF t \in post[s].tasks THEN AfterCreate(s, t) ELSE conn[t]]
  /\ caller' = IF Faults(s) THEN Told(caller) ELSE caller
  /\ Release(s)
  /\ UNCHANGED <<keyVars, config, client, started, conns, starts>>

-----------------------------------------------------------------------------
(* The POST itself.                                                        *)

(* The keys replace the stored ones: a connection whose key was not given  *)
(* out again keeps one that nobody keeps alive.                            *)
Answered(s) ==
  \E types \in IF config.same THEN {Type} ELSE SUBSET Type :
    /\ PostAnswered(s, types)
    /\ conn' = [t \in Type |->
         [conn[t] EXCEPT !.mine = @ /\ config.same /\ conn[t].valid]]
    /\ UNCHANGED <<callVars, starts>>

Fails(s) ==
  \E how \in {"auth", "error"} : PostFails(s, how) /\ UNCHANGED <<callVars, conn, starts>>

Dies(s) == PostDies(s) /\ UNCHANGED <<callVars, conn, starts>>

-----------------------------------------------------------------------------
(* A connection's supervisor.                                              *)

(* Mutant: a supervisor that finds a POST in flight goes on without it.    *)
LoopHeadImpatient(t, c) ==
  IF c.closing
  THEN Set(t, Over(c)) /\ UNCHANGED postVars
  ELSE /\ IF inflight # {} THEN UNCHANGED postVars ELSE Create(t)
       /\ Set(t, [c EXCEPT !.pc = "creating"])

(* The while loop's head, for a connection in state c.                     *)
LoopHead(t, c) ==
  IF c.closing
  THEN Set(t, Over(c)) /\ UNCHANGED postVars
  ELSE Set(t, [c EXCEPT !.pc = "creating"]) /\ Create(t)

Start(t) ==
  /\ conn[t].pc \in {"start", "sleeping"}
  /\ LoopHead(t, conn[t])
  /\ UNCHANGED <<keyVars, callVars, starts>>

(* The socket is read from now on.  (The marker that every connect but the *)
(* first puts into the queues of the order streams, before the first read, *)
(* is in OrderTracker, with what it makes its reader do.)                  *)
ConnectSucceeds(t) ==
  /\ conn[t].pc = "connecting"
  /\ Set(t, [conn[t] EXCEPT !.pc = "reading", !.ws = TRUE])
  /\ UNCHANGED <<keyVars, postVars, callVars, starts>>

ConnectFails(t) ==
  /\ conn[t].pc = "connecting"
  /\ IF ~ config.auto \/ conn[t].closing
     THEN /\ Set(t, Over(conn[t]))
          /\ caller' = Told(caller)
     ELSE /\ Set(t, [conn[t] EXCEPT !.pc = "sleeping"])
          /\ UNCHANGED caller
  /\ UNCHANGED <<keyVars, postVars, config, client, started, conns, starts>>

(* The reader is done, or cancelled.                                       *)
StopsReading(t, pc, again) ==
  /\ Reads(t)
  /\ Set(t, [conn[t] EXCEPT !.pc = pc, !.again = again, !.mine = FALSE, !.valid = FALSE])
  /\ UNCHANGED <<keyVars, postVars, callVars, starts>>

(* The network or the exchange ends the socket.                            *)
SocketEnds(t) == StopsReading(t, "dropping", FALSE)

(* listenKeyExpired: the reader marks a planned reconnect and returns.     *)
ExpiredFrame(t) == ~ conn[t].valid /\ StopsReading(t, "dropping", TRUE)

SessionExpires(t) == StopsReading(t, "reaping", TRUE)

ReaderReaped(t) ==
  /\ conn[t].pc = "reaping"
  /\ Set(t, [conn[t] EXCEPT !.pc = "dropping"])
  /\ UNCHANGED <<keyVars, postVars, callVars, starts>>

(* Mutant: the cancellation of a reaped task is not noticed.               *)
SocketDroppedOnAndOn(t) ==
  LET c == [conn[t] EXCEPT !.ws = FALSE, !.again = FALSE]
      again == conn[t].again
  IN
  /\ c.pc = "dropping"
  /\ \/ /\ again
        /\ LoopHead(t, [c EXCEPT !.closing = FALSE])
        /\ UNCHANGED caller
     \/ /\ ~ again
        /\ IF config.auto THEN Set(t, [c EXCEPT !.pc = "sleeping"]) /\ UNCHANGED caller
           ELSE /\ Set(t, Over(c))
                /\ caller' = Told(caller)
        /\ UNCHANGED postVars
  /\ UNCHANGED <<keyVars, config, client, started, conns, starts>>

(* Mutant: a stream that ends without auto-reconnect is not an error.      *)
SocketDroppedUntold(t) ==
  LET c == [conn[t] EXCEPT !.ws = FALSE, !.again = FALSE]
      again == conn[t].again
  IN
  /\ c.pc = "dropping"
  /\ IF c.closing \/ ~ again
     THEN /\ Set(t, [c EXCEPT !.pc = IF config.auto /\ ~ c.closing THEN "sleeping" ELSE "none"])
          /\ UNCHANGED postVars
     ELSE LoopHead(t, c)
  /\ UNCHANGED <<keyVars, callVars, starts>>

(* `await ws.close()` is over: planned reconnect, give up, or back off.    *)
SocketDropped(t) ==
  LET c == [conn[t] EXCEPT !.ws = FALSE, !.again = FALSE]
      again == conn[t].again
  IN
  /\ c.pc = "dropping"
  /\ \/ /\ c.closing
        /\ Set(t, Over(c))
        /\ UNCHANGED <<postVars, caller>>
     \/ /\ ~ c.closing /\ again
        /\ LoopHead(t, c)
        /\ UNCHANGED caller
     \/ /\ ~ c.closing /\ ~ again /\ ~ config.auto
        /\ Set(t, Over(c))
        /\ caller' = Told(caller)
        /\ UNCHANGED postVars
     \/ /\ ~ c.closing /\ ~ again /\ config.auto
        /\ Set(t, [c EXCEPT !.pc = "sleeping"])
        /\ UNCHANGED <<postVars, caller>>
  /\ UNCHANGED <<keyVars, config, client, started, conns, starts>>

-----------------------------------------------------------------------------
(* The exchange.                                                           *)

(* A key that no PUT keeps alive expires; so may one whose PUTs are        *)
(* refused, which keepalive() passes over.                                 *)
KeyExpires(t) ==
  /\ Reads(t) /\ conn[t].valid
  /\ Set(t, [conn[t] EXCEPT !.valid = FALSE])
  /\ UNCHANGED <<keyVars, postVars, callVars, starts>>

-----------------------------------------------------------------------------
(* UserDataStream.aclose and _UserDataConnection.aclose.                   *)

AcloseBegins ==
  /\ client = "open"
  /\ config.late \/ \A c \in Caller : caller[c] # "creating"
  /\ client' = "closing"
  /\ UNCHANGED <<keyVars, postVars, config, started, conns, caller, conn, starts>>

(* Each connection's supervisor is cancelled where it is suspended.  In    *)
(* create() that cancels the POST; in `await reader` the cancellation is   *)
(* swallowed with the reader's own, and only `_closing` ends the loop.     *)
AcloseConnection(t) ==
  /\ client = "closing" /\ t \in conns /\ ~ conn[t].closing
  /\ Set(t, IF conn[t].pc \in {"creating", "reaping"}
            THEN [conn[t] EXCEPT !.closing = TRUE]
            ELSE [Over(conn[t]) EXCEPT !.closing = TRUE])
  /\ IF conn[t].pc = "creating" THEN CancelCreate(t) ELSE UNCHANGED postVars
  /\ UNCHANGED <<keyVars, callVars, starts>>

(* Mutant: the consumers are left waiting.                                 *)
AcloseEndsNobody ==
  /\ client = "closing"
  /\ \A t \in conns : conn[t].closing /\ conn[t].pc = "none"
  /\ client' = "ending"
  /\ conns' = {}
  /\ conn' = [t \in Type |-> [conn[t] EXCEPT !.ws = FALSE]]
  /\ CloseBegins
  /\ UNCHANGED <<postVars, config, started, caller, starts>>

(* Every supervisor has been awaited and its socket closed: the consumers  *)
(* end, and the key manager starts to close.                               *)
AcloseEndsConsumers ==
  /\ client = "closing"
  /\ \A t \in conns : conn[t].closing /\ conn[t].pc = "none"
  /\ client' = "ending"
  /\ conns' = {}
  /\ conn' = [t \in Type |-> [conn[t] EXCEPT !.ws = FALSE]]
  /\ caller' = Told(caller)
  /\ CloseBegins
  /\ UNCHANGED <<postVars, config, started, starts>>

AcloseReturns ==
  /\ client = "ending"
  /\ client' = "closed"
  /\ CloseTakesKeys
  /\ UNCHANGED <<postVars, config, started, conns, caller, conn, starts>>

-----------------------------------------------------------------------------

Init ==
  /\ KeysInit
  /\ config \in Mode
  /\ client = "open" /\ started = FALSE /\ conns = {}
  /\ caller = [c \in Caller |-> "idle"]
  /\ conn = [t \in Type |-> NewConn]
  /\ starts = 0

Consumers == \E c \in Caller : Watch(c) \/ CancelWatch(c) \/ Leave(c)

(* A POST gets an answer or times out, and the tasks that await it go on.  *)
PostGoesOn(s) == Answered(s) \/ Fails(s) \/ Dies(s) \/ WakeCallers(s) \/ WakeSupervisors(s)

Posts == \E s \in Slot : PostGoesOn(s)

Supervisors ==
  \E t \in Type :
    \/ Start(t) \/ ConnectSucceeds(t) \/ ConnectFails(t) \/ SessionExpires(t)
    \/ ReaderReaped(t) \/ SocketDropped(t)

Outside == \E t \in Type : SocketEnds(t) \/ KeyExpires(t) \/ ExpiredFrame(t)

AcloseGoesOn ==
  (\E t \in Type : AcloseConnection(t)) \/ AcloseEndsConsumers \/ AcloseReturns

Next == Consumers \/ Posts \/ Supervisors \/ Outside \/ AcloseBegins \/ AcloseGoesOn

Spec == Init /\ [][Next]_vars

(* The event loop runs each task that can go on: aclose(), the supervisors, *)
(* and the POSTs with those who await them.  A backoff ends, and a connect *)
(* or a request ends too, in success or not.  Nothing is assumed of the    *)
(* application or the network.                                             *)
SupervisorGoesOn(t) ==
  Start(t) \/ ConnectSucceeds(t) \/ ConnectFails(t) \/ ReaderReaped(t) \/ SocketDropped(t)

Fairness ==
  /\ WF_vars(AcloseGoesOn)
  /\ \A t \in Type : WF_vars(SupervisorGoesOn(t))
  /\ \A s \in Slot : WF_vars(PostGoesOn(s))

FairSpec == Spec /\ Fairness

-----------------------------------------------------------------------------
(* Properties.                                                             *)

Pc == {"none", "start", "creating", "connecting", "reading", "reaping", "dropping", "sleeping"}

(* Shape of the state, and where the tasks that await a POST are.          *)
TypeOK ==
  /\ stored \subseteq Type /\ keep \in BOOLEAN /\ kclosing \in BOOLEAN
  /\ post \in [Slot -> [state : {"free", "running", "dying", "ok", "auth", "error", "cancelled"},
                        tasks : SUBSET Task]]
  /\ inflight \subseteq Slot /\ dropped \subseteq Asking
  /\ config \in Mode
  /\ client \in {"open", "closing", "ending", "closed"} /\ started \in BOOLEAN
  /\ conns \subseteq Type
  /\ caller \in [Caller -> {"idle", "creating", "live"}]
  /\ conn \in [Type -> [pc : Pc, again : BOOLEAN, ws : BOOLEAN, closing : BOOLEAN,
                        mine : BOOLEAN, valid : BOOLEAN]]
  /\ starts \in Nat
  /\ Asking = {c \in Caller : caller[c] = "creating"} \cup {t \in Type : conn[t].pc = "creating"}

(* userstream.py:237, "another caller won the race": however the callers   *)
(* of a stream that is not started overlap, its connections are made once. *)
ConnectionsMadeOnce == starts <= 1

(* A POST is never awaited by a caller that is starting the stream and by  *)
(* a supervisor.  If it were, cancelling the caller (a timeout around      *)
(* watch_orders()) would cancel the supervisor's create(), which ends it   *)
(* without a word to any consumer.                                         *)
CallersApart == \A s \in Slot : post[s].tasks \subseteq Caller \/ post[s].tasks \subseteq Type

(* ADR-0008: the keepalive renews the key of every open connection, that   *)
(* is, the key in its URL is the one stored and the keepalive task runs,   *)
(* provided that the exchange hands out a valid key again when it is asked *)
(* for one: every reconnect of one connection replaces the keys of both.   *)
KeysInUseAreKept ==
  \A t \in Type : config.same /\ Reads(t) /\ conn[t].valid => keep /\ conn[t].mine

(* A supervisor that ends, other than by aclose(), has told every consumer *)
(* so.                                                                     *)
EndsWithAWord ==
  [][(\E t \in Type : ~ conn[t].closing /\ conn[t].pc # "none" /\ conn'[t].pc = "none")
        => client # "open" \/ \A c \in Caller : caller'[c] # "live"]_vars

(* userstream.py:345, "Tear down every connection, end subscribers, and    *)
(* DELETE the listenKey": so it is, unless the application starts or is    *)
(* still starting the stream when it closes it.                            *)
ClosedIsQuiet ==
  client = "closed" /\ ~ config.late
    => /\ stored = {} /\ ~ keep /\ Live = {} /\ Asking = {}
       /\ \A t \in Type : conn[t].pc = "none" /\ ~ conn[t].ws

(* aclose() comes to an end, although the cancellations it sends may be    *)
(* swallowed.                                                              *)
AcloseCompletes == client = "closing" ~> client = "closed"

(* A supervisor that has not given up always comes back to reading its     *)
(* socket, once connects and POSTs stop failing: it is never left waiting  *)
(* for a POST that another task made, replaced or had cancelled            *)
(* (listenkey.py:87-95), however often sockets, sessions and keys end.     *)
ComesBack ==
  <>[][\A t \in Type, s \in Slot : ~ ConnectFails(t) /\ ~ Fails(s)]_vars
    => \A t \in Type : []<>(client # "open" \/ conn[t].pc \in {"none", "reading"})

=============================================================================
