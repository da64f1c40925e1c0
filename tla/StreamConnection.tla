--------------------------- MODULE StreamConnection ---------------------------
(***************************************************************************)
(* One multiplexed WebSocket of the market-stream client: _Connection in   *)
(* stream.py with its supervisor task, and the part of StreamClient that   *)
(* creates it, hands out subscriptions and closes it.                      *)
(*                                                                         *)
(* Everything runs on one event loop: an action is what happens between    *)
(* two awaits.  The supervisor task can be overtaken by subscribe(),       *)
(* unsubscribe() and aclose() whenever it is suspended, which is at each   *)
(* value of pc:                                                            *)
(*                                                                         *)
(*   start       created, has not run yet                                  *)
(*   connecting  in `await self._connect(url, ...)`                        *)
(*   reading     in asyncio.wait for the reader, at most session_ttl       *)
(*   reaping     in `await reader` after cancelling it                     *)
(*   dropping    in `await ws.close()`                                     *)
(*   sleeping    in the backoff `await self._sleep(...)`                   *)
(*   none        no task, or the task has returned                         *)
(*                                                                         *)
(* What the streams carry is left out (DepthBook models a stream's data):  *)
(* the state is which streams the server delivers on the open socket.  A   *)
(* SUBSCRIBE frame takes effect when it is sent on an open socket.         *)
(***************************************************************************)
EXTENDS FiniteSets

CONSTANTS
  Stream,   \* stream names of one host
  Sub       \* subscriptions (a closed one may be used again)

VARIABLES
  config,     \* fixed: ws_supports_live_subscribe, ws_auto_reconnect, and (not the
              \* code's) whether the application subscribes while or after closing
  known,      \* StreamClient._conns has the connection
  client,     \* StreamClient: "open", "closing" (in aclose), "closed"
  wants,      \* the stream of each subscription
  status,     \* its consumer: "idle", "live", told "faulted" or "ended"; "orphan": it has none
  reg,        \* the subscriptions in _Connection._subs
  desired,    \* _Connection.desired
  supervisor, \* _supervisor is not None
  closing,    \* _closing
  planned,    \* _planned
  pc,         \* where the supervisor task is suspended
  url,        \* the streams in the URL being connected to
  timedOut,   \* the local `timed_out`
  ws,         \* _ws is not None
  open,       \* the socket is open
  served,     \* the streams the server delivers on it
  missed,     \* (history) streams first asked for during this connect, or by a frame not sent
  cut         \* (history) the network, not the client, ended the socket

subVars    == <<wants, status, reg, desired>>
taskVars   == <<pc, url, timedOut>>
socketVars == <<ws, open, served, cut>>
flagVars   == <<supervisor, closing, planned>>
clientVars == <<config, known, client>>
vars == <<clientVars, subVars, flagVars, taskVars, socketVars, missed>>

Alive == pc # "none"

-----------------------------------------------------------------------------
(* Registration.                                                           *)

Watchers(s) == {x \in reg : wants[x] = s}

(* Mutant: the URL is built once, before the loop.                         *)
LoopHeadOldUrl ==
  /\ IF closing
     THEN pc' = "none" /\ UNCHANGED url
     ELSE pc' = "connecting" /\ url' = IF url = {} THEN desired ELSE url
  /\ missed' = {}

(* The while loop's head: give up if the connection is closing, else read  *)
(* `desired` into the URL and start to connect.                            *)
LoopHead ==
  /\ IF closing
     THEN pc' = "none" /\ UNCHANGED url
     ELSE pc' = "connecting" /\ url' = desired
  /\ missed' = {}

(* _fault_all: every registered consumer gets the error.                   *)
FaultAll ==
  status' = [x \in Sub |-> IF x \in reg /\ status[x] = "live" THEN "faulted" ELSE status[x]]

(* aclose() ends every registered consumer.                                *)
EndAll ==
  status' = [x \in Sub |-> IF x \in reg /\ status[x] # "orphan" THEN "ended" ELSE status[x]]

(* _apply_stream: what a SUBSCRIBE or UNSUBSCRIBE frame makes the server   *)
(* deliver, with the `desired` of after the change.                        *)
ApplyStream(delivered, wanted) ==
  \/ /\ ~ ws
     /\ UNCHANGED <<open, served, planned>>
  \/ /\ ws /\ config.live
     /\ served' = IF open THEN delivered ELSE served
     /\ UNCHANGED <<open, planned>>
  \/ /\ ws /\ ~ config.live /\ wanted # {}
     /\ planned' = TRUE
     /\ open' = FALSE
     /\ served' = {}
  \/ /\ ws /\ ~ config.live /\ wanted = {}
     /\ UNCHANGED <<open, served, planned>>

-----------------------------------------------------------------------------
(* StreamClient._subscribe, after the symbol's host is known.              *)

RegisterAs(x, s, consumer) ==
  /\ status[x] = "idle"
  /\ client = "open" \/ config.late
  /\ wants' = [wants EXCEPT ![x] = s]
  /\ status' = [status EXCEPT ![x] = consumer]

Register(x, s) == RegisterAs(x, s, "live")

(* No connection for the host: a new one, whose task is started.  Nothing  *)
(* looks at StreamClient._closing.  (Bound: one connection at a time.  A   *)
(* second one may exist only next to one that was made while aclose() was  *)
(* clearing the dictionary.)                                               *)
SubscribeNew(x, s) ==
  /\ Register(x, s)
  /\ ~ known /\ ~ Alive /\ reg = {}
  /\ known' = TRUE
  /\ reg' = {x} /\ desired' = {s}
  /\ supervisor' = TRUE /\ closing' = FALSE /\ planned' = FALSE
  /\ pc' = "start"
  /\ ws' = FALSE /\ open' = FALSE /\ served' = {} /\ cut' = FALSE
  /\ UNCHANGED <<config, client, url, timedOut, missed>>

(* A connection whose task was taken by aclose(): the new task finds       *)
(* `_closing` set and returns at once.                                     *)
SubscribeClosing(x, s) ==
  /\ Register(x, s)
  /\ known /\ ~ supervisor
  /\ reg' = reg \cup {x} /\ desired' = desired \cup {s}
  /\ supervisor' = TRUE
  /\ UNCHANGED <<clientVars, closing, planned, taskVars, socketVars, missed>>

Subscribe(x, s) ==
  /\ Register(x, s)
  /\ known /\ supervisor
  /\ reg' = reg \cup {x} /\ desired' = desired \cup {s}
  /\ IF Watchers(s) = {}
     THEN /\ ApplyStream(served \cup {s}, desired')
          /\ missed' = IF pc = "connecting" /\ s \notin url THEN missed \cup {s} ELSE missed
     ELSE UNCHANGED <<open, served, planned, missed>>
  /\ UNCHANGED <<clientVars, supervisor, closing, taskVars, ws, cut>>

(* subscribe() is cancelled in `await ws.send(frame)` or, without live     *)
(* subscriptions, in `await ws.close()`, before either has happened: what  *)
(* it has registered stays, and no consumer will ever take it away.        *)
SubscribeCancelled(x, s) ==
  /\ RegisterAs(x, s, "orphan")
  /\ known /\ supervisor /\ ws /\ Watchers(s) = {}
  /\ reg' = reg \cup {x} /\ desired' = desired \cup {s}
  /\ planned' = (planned \/ ~ config.live)
  /\ missed' = missed \cup {s}
  /\ UNCHANGED <<clientVars, supervisor, closing, taskVars, socketVars>>

(* Mutant: a consumer that leaves takes its stream with it.                *)
UnsubscribeUncounted(x) ==
  /\ status[x] \notin {"idle", "orphan"}
  /\ status' = [status EXCEPT ![x] = "idle"]
  /\ reg' = reg \ {x}
  /\ desired' = desired \ {wants[x]}
  /\ ApplyStream(served \ {wants[x]}, desired')
  /\ missed' = missed \ {wants[x]}
  /\ UNCHANGED <<clientVars, wants, supervisor, closing, taskVars, ws, cut>>

(* _Connection.unsubscribe, from the consumer's finally block; the last    *)
(* watcher of a stream takes it off the socket.                            *)
Unsubscribe(x) ==
  /\ status[x] \notin {"idle", "orphan"}
  /\ status' = [status EXCEPT ![x] = "idle"]
  /\ reg' = reg \ {x}
  /\ IF Watchers(wants[x]) = {x}
     THEN /\ desired' = desired \ {wants[x]}
          /\ ApplyStream(served \ {wants[x]}, desired')
          /\ missed' = missed \ {wants[x]}
     ELSE UNCHANGED <<desired, open, served, planned, missed>>
  /\ UNCHANGED <<clientVars, wants, supervisor, closing, taskVars, ws, cut>>

-----------------------------------------------------------------------------
(* The supervisor task.                                                    *)

Start ==
  /\ pc = "start"
  /\ LoopHead
  /\ UNCHANGED <<clientVars, subVars, flagVars, timedOut, socketVars>>

ConnectSucceeds ==
  /\ pc = "connecting"
  /\ pc' = "reading"
  /\ ws' = TRUE /\ open' = TRUE /\ served' = url /\ cut' = FALSE
  /\ UNCHANGED <<clientVars, subVars, flagVars, url, timedOut, missed>>

ConnectFails ==
  /\ pc = "connecting"
  /\ IF ~ config.auto \/ closing
     THEN pc' = "none" /\ FaultAll
     ELSE pc' = "sleeping" /\ UNCHANGED status
  /\ UNCHANGED <<clientVars, wants, reg, desired, flagVars, url, timedOut, socketVars, missed>>

WakeUp ==
  /\ pc = "sleeping"
  /\ LoopHead
  /\ UNCHANGED <<clientVars, subVars, flagVars, timedOut, socketVars>>

(* The reader task ends with its socket; then the supervisor closes it.    *)
ReaderEnds ==
  /\ pc = "reading"
  /\ ~ open
  /\ timedOut' = FALSE
  /\ pc' = "dropping"
  /\ UNCHANGED <<clientVars, subVars, flagVars, url, socketVars, missed>>

(* session_ttl is over: the reader is cancelled and awaited.               *)
SessionExpires ==
  /\ pc = "reading"
  /\ timedOut' = TRUE
  /\ pc' = "reaping"
  /\ UNCHANGED <<clientVars, subVars, flagVars, url, socketVars, missed>>

ReaderReaped ==
  /\ pc = "reaping"
  /\ pc' = "dropping"
  /\ open' = FALSE /\ served' = {}
  /\ UNCHANGED <<clientVars, subVars, flagVars, url, timedOut, ws, cut, missed>>

(* Mutants: the planned mark is kept; it is not looked at; a planned       *)
(* reconnect returns from the loop.                                        *)
SocketDroppedStaysPlanned ==
  /\ pc = "dropping"
  /\ ws' = FALSE /\ open' = FALSE /\ served' = {}
  /\ \/ /\ closing
        /\ pc' = "none"
        /\ UNCHANGED <<status, planned, url, missed>>
     \/ /\ ~ closing /\ (timedOut \/ planned)
        /\ LoopHead
        /\ UNCHANGED <<status, planned>>
     \/ /\ ~ closing /\ ~ timedOut /\ ~ planned /\ ~ config.auto
        /\ FaultAll
        /\ pc' = "none"
        /\ UNCHANGED <<planned, url, missed>>
     \/ /\ ~ closing /\ ~ timedOut /\ ~ planned /\ config.auto
        /\ pc' = "sleeping"
        /\ UNCHANGED <<status, planned, url, missed>>
  /\ UNCHANGED <<clientVars, wants, reg, desired, supervisor, closing, timedOut, cut>>

SocketDroppedUnplanned ==
  /\ pc = "dropping"
  /\ ws' = FALSE /\ open' = FALSE /\ served' = {}
  /\ \/ /\ closing
        /\ pc' = "none"
        /\ UNCHANGED <<status, planned, url, missed>>
     \/ /\ ~ closing /\ timedOut
        /\ planned' = FALSE
        /\ LoopHead
        /\ UNCHANGED status
     \/ /\ ~ closing /\ ~ timedOut /\ ~ config.auto
        /\ FaultAll
        /\ pc' = "none"
        /\ UNCHANGED <<planned, url, missed>>
     \/ /\ ~ closing /\ ~ timedOut /\ config.auto
        /\ pc' = "sleeping"
        /\ UNCHANGED <<status, planned, url, missed>>
  /\ UNCHANGED <<clientVars, wants, reg, desired, supervisor, closing, timedOut, cut>>

SocketDroppedStops ==
  /\ pc = "dropping"
  /\ ws' = FALSE /\ open' = FALSE /\ served' = {}
  /\ \/ /\ closing
        /\ pc' = "none"
        /\ UNCHANGED <<status, planned, url, missed>>
     \/ /\ ~ closing /\ (timedOut \/ planned)
        /\ planned' = FALSE
        /\ pc' = "none"
        /\ UNCHANGED <<status, url, missed>>
     \/ /\ ~ closing /\ ~ timedOut /\ ~ planned /\ ~ config.auto
        /\ FaultAll
        /\ pc' = "none"
        /\ UNCHANGED <<planned, url, missed>>
     \/ /\ ~ closing /\ ~ timedOut /\ ~ planned /\ config.auto
        /\ pc' = "sleeping"
        /\ UNCHANGED <<status, planned, url, missed>>
  /\ UNCHANGED <<clientVars, wants, reg, desired, supervisor, closing, timedOut, cut>>

(* `await ws.close()` is over: planned reconnect, give up, or back off.    *)
SocketDropped ==
  /\ pc = "dropping"
  /\ ws' = FALSE /\ open' = FALSE /\ served' = {}
  /\ \/ /\ closing
        /\ pc' = "none"
        /\ UNCHANGED <<status, planned, url, missed>>
     \/ /\ ~ closing /\ (timedOut \/ planned)
        /\ planned' = FALSE
        /\ LoopHead
        /\ UNCHANGED status
     \/ /\ ~ closing /\ ~ timedOut /\ ~ planned /\ ~ config.auto
        /\ FaultAll
        /\ pc' = "none"
        /\ UNCHANGED <<planned, url, missed>>
     \/ /\ ~ closing /\ ~ timedOut /\ ~ planned /\ config.auto
        /\ pc' = "sleeping"
        /\ UNCHANGED <<status, planned, url, missed>>
  /\ UNCHANGED <<clientVars, wants, reg, desired, supervisor, closing, timedOut, cut>>

(* The network or the exchange ends the socket.                            *)
NetworkCuts ==
  /\ open
  /\ open' = FALSE /\ served' = {} /\ cut' = TRUE
  /\ UNCHANGED <<clientVars, subVars, flagVars, taskVars, ws, missed>>

-----------------------------------------------------------------------------
(* StreamClient.aclose and _Connection.aclose.                             *)

(* Mutant: `_closing` is not set before the task is awaited.               *)
AcloseBeginsUnmarked ==
  /\ client = "open"
  /\ client' = IF known THEN "closing" ELSE "forgetting"
  /\ closing' = FALSE
  /\ supervisor' = FALSE
  /\ pc' = IF pc = "reaping" THEN pc ELSE "none"
  /\ UNCHANGED <<config, known, subVars, planned, url, timedOut, socketVars, missed>>

(* The supervisor is cancelled where it is suspended.  In `await reader`   *)
(* the CancelledError is swallowed with the reader's own, and the task     *)
(* goes on: only `_closing` ends it.                                       *)
AcloseBegins ==
  /\ client = "open"
  /\ client' = IF known THEN "closing" ELSE "forgetting"
  /\ closing' = known
  /\ supervisor' = FALSE
  /\ pc' = IF pc = "reaping" THEN pc ELSE "none"
  /\ UNCHANGED <<config, known, subVars, planned, url, timedOut, socketVars, missed>>

(* Mutants: the socket is dropped without being closed; the consumers are  *)
(* not told.                                                               *)
AcloseConnectionLeaksSocket ==
  /\ client = "closing" /\ ~ Alive
  /\ client' = "forgetting"
  /\ ws' = FALSE /\ UNCHANGED <<open, served>>
  /\ EndAll
  /\ reg' = {} /\ desired' = {}
  /\ UNCHANGED <<config, known, wants, flagVars, taskVars, cut, missed>>

AcloseConnectionTellsNobody ==
  /\ client = "closing" /\ ~ Alive
  /\ client' = "forgetting"
  /\ ws' = FALSE /\ open' = FALSE /\ served' = {}
  /\ reg' = {} /\ desired' = {}
  /\ UNCHANGED <<config, known, wants, status, flagVars, taskVars, cut, missed>>

(* The connection's task has been awaited: its socket is closed, and its   *)
(* registered consumers ended.                                             *)
AcloseConnection ==
  /\ client = "closing" /\ ~ Alive
  /\ client' = "forgetting"
  /\ ws' = FALSE /\ open' = FALSE /\ served' = {}
  /\ EndAll
  /\ reg' = {} /\ desired' = {}
  /\ UNCHANGED <<config, known, wants, flagVars, taskVars, cut, missed>>

(* gather() returns and _conns is cleared.                                 *)
AcloseEnds ==
  /\ client = "forgetting"
  /\ client' = "closed"
  /\ known' = FALSE
  /\ UNCHANGED <<config, subVars, flagVars, taskVars, socketVars, missed>>

-----------------------------------------------------------------------------

Init ==
  /\ config \in [live : BOOLEAN, auto : BOOLEAN, late : BOOLEAN]
  /\ known = FALSE /\ client = "open"
  /\ wants \in [Sub -> Stream]
  /\ status = [x \in Sub |-> "idle"]
  /\ reg = {} /\ desired = {}
  /\ supervisor = FALSE /\ closing = FALSE /\ planned = FALSE
  /\ pc = "none" /\ url = {} /\ timedOut = FALSE
  /\ ws = FALSE /\ open = FALSE /\ served = {} /\ cut = FALSE
  /\ missed = {}

Application ==
  \E x \in Sub :
    \/ \E s \in Stream :
         SubscribeNew(x, s) \/ SubscribeClosing(x, s) \/ Subscribe(x, s) \/ SubscribeCancelled(x, s)
    \/ Unsubscribe(x)

Closing == AcloseBegins \/ AcloseConnection \/ AcloseEnds

Next ==
  \/ Application \/ Closing \/ NetworkCuts
  \/ Start \/ ConnectSucceeds \/ ConnectFails \/ WakeUp \/ ReaderEnds
  \/ SessionExpires \/ ReaderReaped \/ SocketDropped

Spec == Init /\ [][Next]_vars

(* The event loop runs what can run, and timers fire: that includes the    *)
(* session timer.  A connection that is attempted again and again succeeds *)
(* in the end.  Nothing is assumed of the application or the network.      *)
Fairness ==
  /\ WF_vars(Start) /\ WF_vars(WakeUp)
  /\ WF_vars(ReaderEnds) /\ WF_vars(SessionExpires)
  /\ WF_vars(ReaderReaped) /\ WF_vars(SocketDropped)
  /\ WF_vars(AcloseConnection) /\ WF_vars(AcloseEnds)
  /\ SF_vars(ConnectSucceeds)

FairSpec == Spec /\ Fairness

-----------------------------------------------------------------------------
(* Properties.                                                             *)

(* Shape of the state.  A socket is only open while _ws is set.            *)
TypeOK ==
  /\ config \in [live : BOOLEAN, auto : BOOLEAN, late : BOOLEAN]
  /\ known \in BOOLEAN /\ client \in {"open", "closing", "forgetting", "closed"}
  /\ wants \in [Sub -> Stream]
  /\ status \in [Sub -> {"idle", "live", "faulted", "ended", "orphan"}]
  /\ reg \subseteq Sub /\ desired \subseteq Stream
  /\ supervisor \in BOOLEAN /\ closing \in BOOLEAN /\ planned \in BOOLEAN
  /\ pc \in {"none", "start", "connecting", "reading", "reaping", "dropping", "sleeping"}
  /\ url \subseteq Stream /\ timedOut \in BOOLEAN
  /\ ws \in BOOLEAN /\ open \in BOOLEAN /\ served \subseteq Stream /\ cut \in BOOLEAN
  /\ missed \subseteq Stream
  /\ open => ws
  /\ ~ open => served = {}

(* Subscriptions are ref-counted (stream.py:20): the set every reconnect   *)
(* URL is built from names exactly the streams that have a consumer, over  *)
(* any order of subscribing, faulting, unsubscribing and closing.          *)
DesiredIsWatched == desired = {wants[x] : x \in reg}

(* Every stream asked for is delivered by the open socket, through any     *)
(* number of reconnects, except the ones first asked for while a connect   *)
(* was in flight, or by a subscribe() that was cancelled.                  *)
ServedExceptMissed == pc = "reading" /\ open => desired \ served \subseteq missed

(* A planned mark never outlives the socket it was made for: it would turn *)
(* the next failure into a "planned" reconnect.                            *)
PlannedIsSpent == planned /\ ~ closing => ws

(* ADR-0015: a planned reconnect is not an error.  Consumers are faulted   *)
(* only by a connect that failed or a socket that the network cut.         *)
PlannedIsNoError ==
  [][(\E x \in Sub : status[x] # "faulted" /\ status'[x] = "faulted")
       => pc = "connecting" \/ cut]_vars

(* websockets.md, "Clean shutdown": once the client is closed its task and *)
(* its socket are gone and every consumer has been told.  An application   *)
(* that subscribes while the client closes, or later, is not given that:   *)
(* _subscribe never looks at `_closing`.                                   *)
ClosedIsQuiet ==
  client = "closed" /\ ~ config.late
    => ~ open /\ ~ Alive /\ \A x \in Sub : status[x] # "live"

(* A consumer of a connection whose task is running gets its stream in the *)
(* end, or is told why not: what a connect in flight missed, the session   *)
(* timer mends.                                                            *)
Served ==
  \A x \in Sub :
    (status[x] = "live" /\ Alive) ~> (wants[x] \in served \/ status[x] # "live")

(* aclose() comes to an end, although the cancellation it sends may be     *)
(* swallowed.                                                              *)
AcloseCompletes == client = "closing" ~> client = "closed"

(* stream.py:242: "not connected yet; the (re)connect URL already encodes  *)
(* `desired`": the open socket then delivers every stream asked for.       *)
UrlEncodesDesired == pc = "reading" /\ open => desired \subseteq served

=============================================================================
