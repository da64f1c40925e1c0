------------------------ MODULE StreamConnectionProofs ------------------------
(***************************************************************************)
(* Proofs about StreamConnection, for any streams and subscriptions.       *)
(***************************************************************************)
EXTENDS StreamConnection, TLAPS

SubscribeStep(x, s) ==
  SubscribeNew(x, s) \/ SubscribeClosing(x, s) \/ Subscribe(x, s) \/ SubscribeCancelled(x, s)

SupervisorStep ==
  Start \/ ConnectSucceeds \/ ConnectFails \/ WakeUp \/ ReaderEnds
  \/ SessionExpires \/ ReaderReaped \/ SocketDropped

LEMMA NextParts ==
  Next <=> \/ \E x \in Sub : (\E s \in Stream : SubscribeStep(x, s)) \/ Unsubscribe(x)
           \/ SupervisorStep \/ NetworkCuts \/ Closing
  BY DEF Next, Application, SubscribeStep, SupervisorStep

-----------------------------------------------------------------------------
(* Types.                                                                  *)

SubsOK ==
  /\ wants \in [Sub -> Stream]
  /\ status \in [Sub -> {"idle", "live", "faulted", "ended", "orphan"}]
  /\ reg \subseteq Sub /\ desired \subseteq Stream

TaskOK ==
  /\ client \in {"open", "closing", "forgetting", "closed"}
  /\ pc \in {"none", "start", "connecting", "reading", "reaping", "dropping", "sleeping"}
  /\ url \subseteq Stream /\ missed \subseteq Stream

SocketOK ==
  /\ ws \in BOOLEAN /\ open \in BOOLEAN /\ served \subseteq Stream /\ cut \in BOOLEAN
  /\ open => ws
  /\ ~ open => served = {}

FlagsOK ==
  /\ config \in [live : BOOLEAN, auto : BOOLEAN, late : BOOLEAN]
  /\ known \in BOOLEAN /\ supervisor \in BOOLEAN /\ closing \in BOOLEAN /\ planned \in BOOLEAN
  /\ timedOut \in BOOLEAN

LEMMA TypeParts ==
  /\ TypeOK <=> SubsOK /\ TaskOK /\ SocketOK /\ FlagsOK
  /\ TypeOK' <=> SubsOK' /\ TaskOK' /\ SocketOK' /\ FlagsOK'
  BY DEF TypeOK, SubsOK, TaskOK, SocketOK, FlagsOK

LEMMA Applied ==
  ASSUME TypeOK, NEW delivered \in SUBSET Stream, NEW wanted, ApplyStream(delivered, wanted), UNCHANGED ws
  PROVE  /\ open' \in BOOLEAN /\ planned' \in BOOLEAN /\ served' \in SUBSET Stream
         /\ (open' => open /\ ws') /\ (~ open' => served' = {})
         /\ planned' => planned \/ ws
         /\ open /\ ~ open' => planned'
         /\ planned => planned'
         /\ open' => served' = delivered \/ wanted = {}
<1>1. CASE ~ ws
  BY <1>1 DEF ApplyStream, TypeOK
<1>2. CASE ws /\ config.live
  BY <1>2 DEF ApplyStream, TypeOK
<1>3. CASE ws /\ ~ config.live /\ wanted # {}
  BY <1>3 DEF ApplyStream, TypeOK
<1>4. CASE ws /\ ~ config.live /\ wanted = {}
  BY <1>4 DEF ApplyStream, TypeOK
<1> QED
  BY <1>1, <1>2, <1>3, <1>4 DEF TypeOK

LEMMA SubscribeTypes ==
  ASSUME TypeOK, NEW x \in Sub, NEW s \in Stream, SubscribeStep(x, s)
  PROVE  TypeOK'
<1> USE DEF clientVars, taskVars, socketVars, RegisterAs, Register
<1>1. CASE SubscribeNew(x, s)
  <2>1. SubsOK'
    BY <1>1, TypeParts DEF SubscribeNew, SubsOK
  <2>2. TaskOK'
    BY <1>1, TypeParts DEF SubscribeNew, TaskOK
  <2>3. SocketOK'
    BY <1>1, TypeParts DEF SubscribeNew, SocketOK
  <2>4. FlagsOK'
    BY <1>1, TypeParts DEF SubscribeNew, FlagsOK
  <2> QED
    BY <2>1, <2>2, <2>3, <2>4, TypeParts
<1>2. CASE SubscribeClosing(x, s)
  <2>1. SubsOK'
    BY <1>2, TypeParts DEF SubscribeClosing, SubsOK
  <2>2. TaskOK'
    BY <1>2, TypeParts DEF SubscribeClosing, TaskOK
  <2>3. SocketOK'
    BY <1>2, TypeParts DEF SubscribeClosing, SocketOK
  <2>4. FlagsOK'
    BY <1>2, TypeParts DEF SubscribeClosing, FlagsOK
  <2> QED
    BY <2>1, <2>2, <2>3, <2>4, TypeParts
<1>3. CASE Subscribe(x, s)
  <2> USE TypeParts
  <2>1. SocketOK' /\ planned' \in BOOLEAN
    <3>1. CASE Watchers(s) = {}
      <4>1. ApplyStream(served \cup {s}, desired') /\ UNCHANGED <<ws, cut>>
        BY <1>3, <3>1 DEF Subscribe
      <4>2. served \cup {s} \in SUBSET Stream
        BY DEF SocketOK
      <4> QED
        BY <4>1, <4>2, Applied DEF SocketOK
    <3>2. CASE Watchers(s) # {}
      BY <1>3, <3>2 DEF Subscribe, SocketOK, FlagsOK
    <3> QED
      BY <3>1, <3>2
  <2>2. SubsOK'
    BY <1>3 DEF Subscribe, SubsOK
  <2>3. TaskOK'
    BY <1>3 DEF Subscribe, TaskOK
  <2>4. FlagsOK'
    BY <1>3, <2>1 DEF Subscribe, FlagsOK
  <2> QED
    BY <2>1, <2>2, <2>3, <2>4
<1>4. CASE SubscribeCancelled(x, s)
  <2>1. SubsOK'
    BY <1>4, TypeParts DEF SubscribeCancelled, SubsOK
  <2>2. TaskOK'
    BY <1>4, TypeParts DEF SubscribeCancelled, TaskOK
  <2>3. SocketOK'
    BY <1>4, TypeParts DEF SubscribeCancelled, SocketOK
  <2>4. FlagsOK'
    BY <1>4, TypeParts DEF SubscribeCancelled, FlagsOK
  <2> QED
    BY <2>1, <2>2, <2>3, <2>4, TypeParts
<1> QED
  BY <1>1, <1>2, <1>3, <1>4 DEF SubscribeStep

LEMMA UnsubscribeTypes ==
  ASSUME TypeOK, NEW x \in Sub, Unsubscribe(x)
  PROVE  TypeOK'
<1> USE TypeParts DEF clientVars, taskVars
<1>1. SocketOK' /\ planned' \in BOOLEAN
  <2>1. CASE Watchers(wants[x]) = {x}
    <3>1. ApplyStream(served \ {wants[x]}, desired') /\ UNCHANGED <<ws, cut>>
      BY <2>1 DEF Unsubscribe
    <3>2. served \ {wants[x]} \in SUBSET Stream
      BY DEF SocketOK
    <3> QED
      BY <3>1, <3>2, Applied DEF SocketOK
  <2>2. CASE Watchers(wants[x]) # {x}
    BY <2>2 DEF Unsubscribe, SocketOK, FlagsOK
  <2> QED
    BY <2>1, <2>2
<1>2. SubsOK'
  BY DEF Unsubscribe, SubsOK
<1>3. TaskOK'
  BY DEF Unsubscribe, TaskOK
<1>4. FlagsOK'
  BY <1>1 DEF Unsubscribe, FlagsOK
<1> QED
  BY <1>1, <1>2, <1>3, <1>4

LEMMA LoopHeadTask ==
  ASSUME SubsOK, TaskOK, LoopHead, UNCHANGED client
  PROVE  TaskOK'
<1>1. CASE closing
  BY <1>1 DEF LoopHead, TaskOK
<1>2. CASE ~ closing
  BY <1>2 DEF LoopHead, TaskOK, SubsOK
<1> QED
  BY <1>1, <1>2

LEMMA SupervisorTypes ==
  ASSUME TypeOK, SupervisorStep
  PROVE  TypeOK'
<1> USE DEF clientVars, subVars, flagVars, taskVars, socketVars
<1>1. CASE Start
  <2>1. SubsOK'
    BY <1>1, TypeParts DEF Start, SubsOK
  <2>2. TaskOK'
    BY <1>1, TypeParts, LoopHeadTask DEF Start
  <2>3. SocketOK'
    BY <1>1, TypeParts DEF Start, SocketOK
  <2>4. FlagsOK'
    BY <1>1, TypeParts DEF Start, FlagsOK
  <2> QED
    BY <2>1, <2>2, <2>3, <2>4, TypeParts
<1>2. CASE ConnectSucceeds
  <2>1. SubsOK'
    BY <1>2, TypeParts DEF ConnectSucceeds, SubsOK
  <2>2. TaskOK'
    BY <1>2, TypeParts DEF ConnectSucceeds, TaskOK
  <2>3. SocketOK'
    BY <1>2, TypeParts DEF ConnectSucceeds, SocketOK, TaskOK
  <2>4. FlagsOK'
    BY <1>2, TypeParts DEF ConnectSucceeds, FlagsOK
  <2> QED
    BY <2>1, <2>2, <2>3, <2>4, TypeParts
<1>3. CASE ConnectFails
  <2>1. SubsOK'
    BY <1>3, TypeParts DEF ConnectFails, FaultAll, SubsOK
  <2>2. TaskOK'
    BY <1>3, TypeParts DEF ConnectFails, FaultAll, TaskOK
  <2>3. SocketOK'
    BY <1>3, TypeParts DEF ConnectFails, FaultAll, SocketOK
  <2>4. FlagsOK'
    BY <1>3, TypeParts DEF ConnectFails, FaultAll, FlagsOK
  <2> QED
    BY <2>1, <2>2, <2>3, <2>4, TypeParts
<1>4. CASE WakeUp
  <2>1. SubsOK'
    BY <1>4, TypeParts DEF WakeUp, SubsOK
  <2>2. TaskOK'
    BY <1>4, TypeParts, LoopHeadTask DEF WakeUp
  <2>3. SocketOK'
    BY <1>4, TypeParts DEF WakeUp, SocketOK
  <2>4. FlagsOK'
    BY <1>4, TypeParts DEF WakeUp, FlagsOK
  <2> QED
    BY <2>1, <2>2, <2>3, <2>4, TypeParts
<1>5. CASE ReaderEnds
  <2>1. SubsOK'
    BY <1>5, TypeParts DEF ReaderEnds, SubsOK
  <2>2. TaskOK'
    BY <1>5, TypeParts DEF ReaderEnds, TaskOK
  <2>3. SocketOK'
    BY <1>5, TypeParts DEF ReaderEnds, SocketOK
  <2>4. FlagsOK'
    BY <1>5, TypeParts DEF ReaderEnds, FlagsOK
  <2> QED
    BY <2>1, <2>2, <2>3, <2>4, TypeParts
<1>6. CASE SessionExpires
  <2>1. SubsOK'
    BY <1>6, TypeParts DEF SessionExpires, SubsOK
  <2>2. TaskOK'
    BY <1>6, TypeParts DEF SessionExpires, TaskOK
  <2>3. SocketOK'
    BY <1>6, TypeParts DEF SessionExpires, SocketOK
  <2>4. FlagsOK'
    BY <1>6, TypeParts DEF SessionExpires, FlagsOK
  <2> QED
    BY <2>1, <2>2, <2>3, <2>4, TypeParts
<1>7. CASE ReaderReaped
  <2>1. SubsOK'
    BY <1>7, TypeParts DEF ReaderReaped, SubsOK
  <2>2. TaskOK'
    BY <1>7, TypeParts DEF ReaderReaped, TaskOK
  <2>3. SocketOK'
    BY <1>7, TypeParts DEF ReaderReaped, SocketOK
  <2>4. FlagsOK'
    BY <1>7, TypeParts DEF ReaderReaped, FlagsOK
  <2> QED
    BY <2>1, <2>2, <2>3, <2>4, TypeParts
<1>8. CASE SocketDropped
  <2>1. SubsOK'
    BY <1>8, TypeParts DEF SocketDropped, FaultAll, SubsOK
  <2>2. TaskOK'
    <3>1. CASE LoopHead
      BY <1>8, <3>1, TypeParts, LoopHeadTask DEF SocketDropped
    <3>2. CASE ~ LoopHead
      <4>1. pc' \in {"none", "sleeping"} /\ UNCHANGED <<client, url, missed>>
        BY <1>8, <3>2 DEF SocketDropped
      <4> QED
        BY <4>1, TypeParts DEF TaskOK
    <3> QED
      BY <3>1, <3>2
  <2>3. SocketOK'
    BY <1>8, TypeParts DEF SocketDropped, FaultAll, SocketOK
  <2>4. FlagsOK'
    BY <1>8, TypeParts DEF SocketDropped, FaultAll, FlagsOK
  <2> QED
    BY <2>1, <2>2, <2>3, <2>4, TypeParts
<1> QED
  BY <1>1, <1>2, <1>3, <1>4, <1>5, <1>6, <1>7, <1>8 DEF SupervisorStep

LEMMA ClosingTypes ==
  ASSUME TypeOK, NetworkCuts \/ Closing
  PROVE  TypeOK'
<1> USE DEF clientVars, subVars, flagVars, taskVars, socketVars
<1>1. CASE NetworkCuts
  <2>1. SubsOK'
    BY <1>1, TypeParts DEF NetworkCuts, SubsOK
  <2>2. TaskOK'
    BY <1>1, TypeParts DEF NetworkCuts, TaskOK
  <2>3. SocketOK'
    BY <1>1, TypeParts DEF NetworkCuts, SocketOK
  <2>4. FlagsOK'
    BY <1>1, TypeParts DEF NetworkCuts, FlagsOK
  <2> QED
    BY <2>1, <2>2, <2>3, <2>4, TypeParts
<1>2. CASE AcloseBegins
  <2>1. SubsOK'
    BY <1>2, TypeParts DEF AcloseBegins, SubsOK
  <2>2. TaskOK'
    BY <1>2, TypeParts DEF AcloseBegins, TaskOK
  <2>3. SocketOK'
    BY <1>2, TypeParts DEF AcloseBegins, SocketOK
  <2>4. FlagsOK'
    BY <1>2, TypeParts DEF AcloseBegins, FlagsOK
  <2> QED
    BY <2>1, <2>2, <2>3, <2>4, TypeParts
<1>3. CASE AcloseConnection
  <2>1. SubsOK'
    BY <1>3, TypeParts DEF AcloseConnection, EndAll, SubsOK
  <2>2. TaskOK'
    BY <1>3, TypeParts DEF AcloseConnection, EndAll, TaskOK
  <2>3. SocketOK'
    BY <1>3, TypeParts DEF AcloseConnection, EndAll, SocketOK
  <2>4. FlagsOK'
    BY <1>3, TypeParts DEF AcloseConnection, EndAll, FlagsOK
  <2> QED
    BY <2>1, <2>2, <2>3, <2>4, TypeParts
<1>4. CASE AcloseEnds
  <2>1. SubsOK'
    BY <1>4, TypeParts DEF AcloseEnds, SubsOK
  <2>2. TaskOK'
    BY <1>4, TypeParts DEF AcloseEnds, TaskOK
  <2>3. SocketOK'
    BY <1>4, TypeParts DEF AcloseEnds, SocketOK
  <2>4. FlagsOK'
    BY <1>4, TypeParts DEF AcloseEnds, FlagsOK
  <2> QED
    BY <2>1, <2>2, <2>3, <2>4, TypeParts
<1> QED
  BY <1>1, <1>2, <1>3, <1>4 DEF Closing

LEMMA TypeStep ==
  ASSUME TypeOK, [Next]_vars
  PROVE  TypeOK'
<1>1. CASE UNCHANGED vars
  BY <1>1 DEF vars, clientVars, subVars, flagVars, taskVars, socketVars, TypeOK
<1>2. CASE Next
  BY <1>2, NextParts, SubscribeTypes, UnsubscribeTypes, SupervisorTypes, ClosingTypes
<1> QED
  BY <1>1, <1>2

(* The variables keep their types, and a socket that is open is `_ws`      *)
(* (stream.py).                                                            *)
THEOREM Types == Spec => []TypeOK
<1>1. Init => TypeOK
  BY DEF Init, TypeOK
<1>2. TypeOK /\ [Next]_vars => TypeOK'
  BY TypeStep
<1> QED
  BY <1>1, <1>2, PTL DEF Spec

-----------------------------------------------------------------------------
(* Consumers.  A subscription is registered while it has a consumer that   *)
(* has been told nothing, and `desired` is counted from the registered.    *)
Consumers ==
  /\ \A x \in Sub : status[x] = "live" => x \in reg
  /\ \A x \in reg : status[x] # "idle"
  /\ \A s : s \in desired <=> \E x \in reg : wants[x] = s

LEMMA RegisterConsumers ==
  ASSUME SubsOK, Consumers, NEW x \in Sub, NEW s \in Stream, NEW consumer \in {"live", "orphan"},
         RegisterAs(x, s, consumer), reg' = reg \cup {x}, desired' = desired \cup {s}
  PROVE  Consumers'
<1> USE DEF SubsOK
<1>1. /\ status[x] = "idle" /\ x \notin reg
      /\ wants' = [wants EXCEPT ![x] = s] /\ status' = [status EXCEPT ![x] = consumer]
  BY DEF RegisterAs, Consumers
<1>2. \A y \in Sub : y # x => status'[y] = status[y] /\ wants'[y] = wants[y]
  BY <1>1
<1>3. status'[x] = consumer /\ wants'[x] = s
  BY <1>1
<1>4. \A y \in Sub : status'[y] = "live" => y \in reg'
  BY <1>2 DEF Consumers
<1>5. \A y \in reg' : status'[y] # "idle"
  BY <1>2, <1>3 DEF Consumers
<1>6. ASSUME NEW t PROVE t \in desired' <=> \E y \in reg' : wants'[y] = t
  <2>1. t \in desired <=> \E y \in reg : wants[y] = t
    BY DEF Consumers
  <2>2. (\E y \in reg' : wants'[y] = t) <=> t = s \/ \E y \in reg : wants[y] = t
    BY <1>1, <1>2, <1>3
  <2> QED
    BY <2>1, <2>2
<1> QED
  BY <1>4, <1>5, <1>6 DEF Consumers

LEMMA SubscribeConsumers ==
  ASSUME TypeOK, Consumers, NEW x \in Sub, NEW s \in Stream, SubscribeStep(x, s)
  PROVE  Consumers'
<1> USE TypeParts DEF Register
<1>1. CASE SubscribeNew(x, s)
  <2>1. /\ reg = {} /\ reg' = {x} /\ desired' = {s}
        /\ wants' = [wants EXCEPT ![x] = s] /\ status' = [status EXCEPT ![x] = "live"]
    BY <1>1 DEF SubscribeNew, RegisterAs
  <2> QED
    BY <2>1 DEF Consumers, SubsOK
<1>2. CASE SubscribeClosing(x, s)
  BY <1>2, RegisterConsumers DEF SubscribeClosing
<1>3. CASE Subscribe(x, s)
  BY <1>3, RegisterConsumers DEF Subscribe
<1>4. CASE SubscribeCancelled(x, s)
  BY <1>4, RegisterConsumers DEF SubscribeCancelled
<1> QED
  BY <1>1, <1>2, <1>3, <1>4 DEF SubscribeStep

LEMMA UnsubscribeConsumers ==
  ASSUME TypeOK, Consumers, NEW x \in Sub, Unsubscribe(x)
  PROVE  Consumers'
<1> USE TypeParts DEF SubsOK
<1>1. /\ status' = [status EXCEPT ![x] = "idle"] /\ reg' = reg \ {x} /\ wants' = wants
  BY DEF Unsubscribe
<1>2. \A y \in Sub : status'[y] = "live" => y \in reg'
  BY <1>1 DEF Consumers
<1>3. \A y \in reg' : status'[y] # "idle"
  BY <1>1 DEF Consumers
<1>4. ASSUME NEW t PROVE t \in desired' <=> \E y \in reg' : wants'[y] = t
  <2>1. t \in desired <=> \E y \in reg : wants[y] = t
    BY DEF Consumers
  <2>2. CASE Watchers(wants[x]) = {x}
    <3>1. desired' = desired \ {wants[x]}
      BY <2>2 DEF Unsubscribe
    <3>2. \A y \in reg : wants[y] = wants[x] <=> y = x
      BY <2>2 DEF Watchers
    <3> QED
      BY <1>1, <2>1, <3>1, <3>2
  <2>3. CASE Watchers(wants[x]) # {x}
    <3>1. desired' = desired
      BY <2>3 DEF Unsubscribe
    <3>2. x \in reg => \E y \in reg : y # x /\ wants[y] = wants[x]
      BY <2>3 DEF Watchers
    <3> QED
      BY <1>1, <2>1, <3>1, <3>2
  <2> QED
    BY <2>2, <2>3
<1> QED
  BY <1>2, <1>3, <1>4 DEF Consumers

LEMMA OtherConsumers ==
  ASSUME TypeOK, Consumers, SupervisorStep \/ NetworkCuts \/ Closing
  PROVE  Consumers'
<1> USE TypeParts
<1>1. CASE UNCHANGED subVars
  BY <1>1 DEF subVars, Consumers
<1>2. CASE FaultAll /\ UNCHANGED <<wants, reg, desired>>
  BY <1>2 DEF FaultAll, Consumers, SubsOK
<1>3. CASE AcloseConnection
  BY <1>3 DEF AcloseConnection, EndAll, Consumers, SubsOK
<1>4. CASE SupervisorStep
  BY <1>1, <1>2, <1>4 DEF SupervisorStep, Start, ConnectSucceeds, ConnectFails, WakeUp, ReaderEnds,
                          SessionExpires, ReaderReaped, SocketDropped, subVars
<1>5. CASE NetworkCuts \/ AcloseBegins \/ AcloseEnds
  BY <1>1, <1>5 DEF NetworkCuts, AcloseBegins, AcloseEnds
<1> QED
  BY <1>3, <1>4, <1>5 DEF Closing

LEMMA ConsumersStep ==
  ASSUME TypeOK, Consumers, [Next]_vars
  PROVE  Consumers'
<1>1. CASE UNCHANGED vars
  BY <1>1 DEF vars, subVars, Consumers
<1>2. CASE Next
  BY <1>2, NextParts, SubscribeConsumers, UnsubscribeConsumers, OtherConsumers
<1> QED
  BY <1>1, <1>2

LEMMA InitConsumers == Init => Consumers
  BY DEF Init, Consumers

(* Subscriptions are ref-counted (stream.py:20): what a reconnect asks for *)
(* is what the registered subscriptions want, in every order of            *)
(* subscribing, cancelling, leaving, faulting and closing.                 *)
THEOREM RefCounted == Spec => []DesiredIsWatched
<1>1. TypeOK /\ Consumers /\ [Next]_vars => Consumers'
  BY ConsumersStep
<1>2. TypeOK /\ Consumers => DesiredIsWatched
  BY DEF Consumers, DesiredIsWatched
<1> QED
  BY InitConsumers, Types, <1>1, <1>2, PTL DEF Spec

-----------------------------------------------------------------------------
(* The task and its socket: what it connects to or reads lacks only what   *)
(* was missed; a mark has a socket; a socket that is over was cut or is    *)
(* replaced as planned; and a task that nobody holds is about to return.   *)
Lacking == IF pc = "connecting" THEN desired \ url ELSE desired \ served

Delivering == pc = "connecting" \/ (pc = "reading" /\ open)

Attended == Delivering => Lacking \subseteq missed

Marked ==
  /\ planned /\ ~ closing => ws
  /\ client = "open" => ~ closing
  /\ client = "closing" => closing /\ known

Explained ==
  /\ pc = "reaping" => timedOut
  /\ (pc = "reading" /\ ~ open) \/ (pc = "dropping" /\ ~ timedOut) => cut \/ planned

Still == pc = "none" /\ ~ open /\ reg = {}

Settled ==
  /\ ~ known /\ client = "open" => Still
  /\ ~ config.late /\ client \in {"forgetting", "closed"} => Still
  /\ ~ supervisor => pc \in {"none", "reaping", "dropping"} /\ (pc # "none" => closing)

Socket == Attended /\ Marked /\ Explained /\ Settled

LEMMA SubscribeSocket ==
  ASSUME TypeOK, Consumers, Socket, NEW x \in Sub, NEW s \in Stream, SubscribeStep(x, s)
  PROVE  Socket'
<1> USE TypeParts DEF clientVars, taskVars, socketVars, RegisterAs, Register
<1>1. CASE SubscribeNew(x, s)
  <2>1. /\ pc' = "start" /\ ~ planned' /\ ~ closing' /\ supervisor' /\ known' /\ ~ known
        /\ client = "open" \/ config.late
        /\ UNCHANGED <<config, client>>
    BY <1>1 DEF SubscribeNew
  <2>2. Attended' /\ Explained'
    BY <2>1 DEF Attended, Delivering, Explained
  <2>3. Marked'
    BY <2>1 DEF Socket, Marked
  <2>4. Settled'
    BY <2>1 DEF Settled
  <2> QED
    BY <2>2, <2>3, <2>4 DEF Socket
<1>2. CASE SubscribeClosing(x, s)
  <2>1. Attended'
    BY <1>2 DEF SubscribeClosing, Socket, Settled, Attended, Delivering
  <2>2. Marked' /\ Explained'
    BY <1>2 DEF SubscribeClosing, Socket, Marked, Explained
  <2>3. Settled'
    BY <1>2 DEF SubscribeClosing, Socket, Settled, Still
  <2> QED
    BY <2>1, <2>2, <2>3 DEF Socket
<1>3. CASE Subscribe(x, s)
  <2>1. /\ desired' = desired \cup {s} /\ UNCHANGED <<clientVars, supervisor, closing, taskVars, ws, cut>>
        /\ known /\ supervisor /\ (client = "open" \/ config.late)
    BY <1>3 DEF Subscribe
  <2>2. Settled'
    BY <2>1 DEF Socket, Settled
  <2>3. CASE Watchers(s) = {}
    <3>1. ApplyStream(served \cup {s}, desired')
          /\ missed' = IF pc = "connecting" /\ s \notin url THEN missed \cup {s} ELSE missed
      BY <1>3, <2>3 DEF Subscribe
    <3>2. /\ open' => open /\ served' = served \cup {s}
          /\ planned' => planned \/ ws
          /\ open /\ ~ open' => planned'
          /\ planned => planned'
      <4>1. served \cup {s} \in SUBSET Stream /\ desired' # {}
        BY <2>1 DEF SocketOK
      <4> QED
        BY <2>1, <3>1, <4>1, Applied
    <3>3. Attended'
      BY <2>1, <3>1, <3>2 DEF Socket, Attended, Delivering, Lacking
    <3>4. Marked' /\ Explained'
      BY <2>1, <3>2 DEF Socket, Marked, Explained
    <3> QED
      BY <2>2, <3>3, <3>4 DEF Socket
  <2>4. CASE Watchers(s) # {}
    <3>1. UNCHANGED <<open, served, planned, missed>>
      BY <1>3, <2>4 DEF Subscribe
    <3>2. desired' = desired
      BY <2>1, <2>4 DEF Watchers, Consumers
    <3>3. Attended'
      BY <2>1, <3>1, <3>2 DEF Socket, Attended, Delivering, Lacking
    <3>4. Marked' /\ Explained'
      BY <2>1, <3>1 DEF Socket, Marked, Explained
    <3> QED
      BY <2>2, <3>3, <3>4 DEF Socket
  <2> QED
    BY <2>3, <2>4
<1>4. CASE SubscribeCancelled(x, s)
  <2>1. Attended'
    BY <1>4 DEF SubscribeCancelled, Socket, Attended, Delivering, Lacking
  <2>2. Marked' /\ Explained'
    BY <1>4 DEF SubscribeCancelled, Socket, Marked, Explained
  <2>3. Settled'
    BY <1>4 DEF SubscribeCancelled, Socket, Settled, Still
  <2> QED
    BY <2>1, <2>2, <2>3 DEF Socket
<1> QED
  BY <1>1, <1>2, <1>3, <1>4 DEF SubscribeStep

LEMMA UnsubscribeSocket ==
  ASSUME TypeOK, Socket, NEW x \in Sub, Unsubscribe(x)
  PROVE  Socket'
<1> USE TypeParts DEF clientVars, taskVars
<1>1. reg' = reg \ {x} /\ UNCHANGED <<clientVars, supervisor, closing, taskVars, ws, cut>>
  BY DEF Unsubscribe
<1>2. CASE Watchers(wants[x]) = {x}
  <2>1. /\ desired' = desired \ {wants[x]} /\ missed' = missed \ {wants[x]}
        /\ ApplyStream(served \ {wants[x]}, desired')
    BY <1>2 DEF Unsubscribe
  <2>2. /\ open' => open /\ (served' = served \ {wants[x]} \/ desired' = {})
        /\ planned' => planned \/ ws
        /\ open /\ ~ open' => planned'
        /\ planned => planned'
    <3>1. served \ {wants[x]} \in SUBSET Stream
      BY DEF SocketOK
    <3> QED
      BY <1>1, <2>1, <3>1, Applied
  <2>3. Attended'
    BY <1>1, <2>1, <2>2 DEF Socket, Attended, Delivering, Lacking
  <2>4. Marked' /\ Explained'
    BY <1>1, <2>2 DEF Socket, Marked, Explained
  <2>5. Settled'
    BY <1>1, <2>2 DEF Socket, Settled, Still
  <2> QED
    BY <2>3, <2>4, <2>5 DEF Socket
<1>3. CASE Watchers(wants[x]) # {x}
  <2>1. UNCHANGED <<desired, open, served, planned, missed>>
    BY <1>3 DEF Unsubscribe
  <2> QED
    BY <1>1, <2>1 DEF Socket, Attended, Delivering, Lacking, Marked, Explained, Settled, Still
<1> QED
  BY <1>2, <1>3

LEMMA SupervisorSocket ==
  ASSUME TypeOK, Socket, SupervisorStep
  PROVE  Socket'
<1> USE TypeParts DEF clientVars, subVars, flagVars, taskVars, socketVars
<1>1. CASE Start \/ WakeUp
  <2>1. /\ pc \in {"start", "sleeping"} /\ LoopHead
        /\ UNCHANGED <<clientVars, subVars, flagVars, socketVars>>
    BY <1>1 DEF Start, WakeUp
  <2>2. pc' \in {"none", "connecting"} /\ (pc' = "connecting" => url' = desired)
    BY <2>1 DEF LoopHead
  <2>3. Attended' /\ Explained'
    BY <2>1, <2>2 DEF Attended, Delivering, Lacking, Explained
  <2>4. Marked' /\ Settled'
    BY <2>1, <2>2 DEF Socket, Marked, Settled, Still
  <2> QED
    BY <2>3, <2>4 DEF Socket
<1>2. CASE ConnectSucceeds
  <2>1. Attended'
    BY <1>2 DEF ConnectSucceeds, Socket, Attended, Delivering, Lacking
  <2>2. Marked' /\ Explained'
    BY <1>2 DEF ConnectSucceeds, Socket, Marked, Explained
  <2>3. Settled'
    BY <1>2 DEF ConnectSucceeds, Socket, Settled, Still
  <2> QED
    BY <2>1, <2>2, <2>3 DEF Socket
<1>3. CASE ConnectFails
  <2>1. /\ pc = "connecting" /\ pc' \in {"none", "sleeping"}
        /\ UNCHANGED <<clientVars, reg, flagVars, socketVars>>
    BY <1>3 DEF ConnectFails
  <2>2. Attended' /\ Explained' /\ Marked'
    BY <2>1 DEF Socket, Attended, Delivering, Explained, Marked
  <2>3. Settled'
    BY <2>1 DEF Socket, Settled, Still
  <2> QED
    BY <2>2, <2>3 DEF Socket
<1>4. CASE ReaderEnds \/ SessionExpires \/ ReaderReaped
  <2>1. /\ UNCHANGED <<clientVars, subVars, flagVars, ws, cut>>
        /\ pc' \in {"dropping", "reaping"} /\ pc \in {"reading", "reaping"}
        /\ open' => open
    BY <1>4 DEF ReaderEnds, SessionExpires, ReaderReaped
  <2>2. Attended'
    BY <2>1 DEF Attended, Delivering
  <2>3. Explained'
    <3>1. CASE ReaderEnds
      BY <3>1 DEF ReaderEnds, Socket, Explained
    <3>2. CASE SessionExpires
      BY <3>2 DEF SessionExpires, Explained
    <3>3. CASE ReaderReaped
      BY <2>1, <3>3 DEF ReaderReaped, Explained, Socket
    <3> QED
      BY <1>4, <3>1, <3>2, <3>3
  <2>4. Marked' /\ Settled'
    BY <2>1 DEF Socket, Marked, Settled, Still
  <2> QED
    BY <2>2, <2>3, <2>4 DEF Socket
<1>5. CASE SocketDropped
  <2>1. /\ pc = "dropping" /\ ~ ws' /\ ~ open'
        /\ UNCHANGED <<clientVars, wants, reg, desired, supervisor, closing>>
        /\ \/ closing /\ pc' = "none"
           \/ ~ closing /\ ~ planned' /\ pc' \in {"none", "sleeping"}
           \/ ~ closing /\ ~ planned' /\ LoopHead
    BY <1>5 DEF SocketDropped
  <2>2. pc' \in {"none", "sleeping", "connecting"} /\ (closing => pc' = "none")
        /\ (pc' = "connecting" => url' = desired)
    BY <2>1 DEF LoopHead
  <2>3. Attended' /\ Explained'
    BY <2>1, <2>2 DEF Attended, Delivering, Lacking, Explained
  <2>4. Marked'
    BY <2>1 DEF Socket, Marked
  <2>5. Settled'
    BY <2>1, <2>2 DEF Socket, Settled, Still
  <2> QED
    BY <2>3, <2>4, <2>5 DEF Socket
<1> QED
  BY <1>1, <1>2, <1>3, <1>4, <1>5 DEF SupervisorStep

LEMMA ClosingSocket ==
  ASSUME TypeOK, Consumers, Socket, NetworkCuts \/ Closing
  PROVE  Socket'
<1> USE TypeParts DEF clientVars, subVars, flagVars, taskVars, socketVars
<1>1. CASE NetworkCuts
  <2>1. ~ open' /\ cut' /\ UNCHANGED <<clientVars, subVars, flagVars, taskVars, ws, missed>>
    BY <1>1 DEF NetworkCuts
  <2>2. Attended'
    BY <2>1 DEF Socket, Attended, Delivering, Lacking
  <2>3. Explained'
    BY <2>1 DEF Socket, Explained
  <2>4. Marked'
    BY <2>1 DEF Socket, Marked
  <2>5. Settled'
    BY <2>1 DEF Socket, Settled, Still
  <2> QED
    BY <2>2, <2>3, <2>4, <2>5 DEF Socket
<1>2. CASE AcloseBegins
  <2>1. /\ pc' \in {"none", "reaping"} /\ (pc' = "reaping" => pc = "reaping") /\ ~ supervisor'
        /\ client = "open" /\ client' = (IF known THEN "closing" ELSE "forgetting") /\ closing' = known
        /\ UNCHANGED <<config, known, reg, planned, timedOut, ws, open>>
    BY <1>2 DEF AcloseBegins
  <2>2. Attended' /\ Explained'
    BY <2>1 DEF Socket, Attended, Delivering, Explained
  <2>3. Marked'
    BY <2>1 DEF Socket, Marked
  <2>4. Settled'
    BY <2>1 DEF Socket, Settled, Still
  <2> QED
    BY <2>2, <2>3, <2>4 DEF Socket
<1>3. CASE AcloseConnection
  <2>1. /\ pc' = "none" /\ pc = "none" /\ client = "closing" /\ client' = "forgetting"
        /\ ~ open' /\ reg' = {} /\ UNCHANGED <<config, known, flagVars>>
    BY <1>3 DEF AcloseConnection, Alive
  <2>2. Attended' /\ Explained'
    BY <2>1 DEF Attended, Delivering, Explained
  <2>3. Marked'
    BY <2>1 DEF Socket, Marked
  <2>4. Settled'
    BY <2>1 DEF Socket, Settled, Still
  <2> QED
    BY <2>2, <2>3, <2>4 DEF Socket
<1>4. CASE AcloseEnds
  BY <1>4 DEF AcloseEnds, Socket, Attended, Delivering, Lacking, Marked, Explained, Settled, Still
<1> QED
  BY <1>1, <1>2, <1>3, <1>4 DEF Closing

LEMMA SocketStep ==
  ASSUME TypeOK, Consumers, Socket, [Next]_vars
  PROVE  Socket'
<1>1. CASE UNCHANGED vars
  BY <1>1 DEF vars, clientVars, subVars, flagVars, taskVars, socketVars,
              Socket, Attended, Delivering, Lacking, Marked, Explained, Settled, Still
<1>2. CASE Next
  BY <1>2, NextParts, SubscribeSocket, UnsubscribeSocket, SupervisorSocket, ClosingSocket
<1> QED
  BY <1>1, <1>2

(* The inductive invariant.                                                *)
ConnectionInv == TypeOK /\ Consumers /\ Socket

LEMMA Inductive == Spec => []ConnectionInv
<1>1. Init => ConnectionInv
  BY DEF Init, ConnectionInv, TypeOK, Consumers, Socket, Attended, Delivering, Marked, Explained,
         Settled, Still
<1>2. ConnectionInv /\ [Next]_vars => ConnectionInv'
  BY TypeStep, ConsumersStep, SocketStep DEF ConnectionInv
<1> QED
  BY <1>1, <1>2, PTL DEF Spec

(* Through any number of reconnects, the open socket delivers what is      *)
(* asked for, except what was first asked for during a connect or by a     *)
(* subscribe() that was cancelled (stream.py:238).                         *)
THEOREM DeliversDesired == Spec => []ServedExceptMissed
<1>1. ConnectionInv => ServedExceptMissed
  BY DEF ConnectionInv, Socket, Attended, Delivering, Lacking, ServedExceptMissed
<1> QED
  BY <1>1, Inductive, PTL

(* A planned mark does not outlive its socket (stream.py:249).             *)
THEOREM MarksAreSpent == Spec => []PlannedIsSpent
<1>1. ConnectionInv => PlannedIsSpent
  BY DEF ConnectionInv, Socket, Marked, PlannedIsSpent
<1> QED
  BY <1>1, Inductive, PTL

(* A client that is closed, and was not subscribed to while it closed, has *)
(* no task, no socket and no consumer that waits (stream.py:464).          *)
THEOREM ClosesEverything == Spec => []ClosedIsQuiet
<1>1. ConnectionInv => ClosedIsQuiet
  BY TypeParts DEF ConnectionInv, Socket, Settled, Still, Consumers, ClosedIsQuiet, Alive
<1> QED
  BY <1>1, Inductive, PTL

(* Only a connect that failed or a socket that the network cut faults a    *)
(* consumer (ADR-0015): a planned reconnect does not.                      *)
THEOREM PlannedNeverFaults == Spec => PlannedIsNoError
<1>1. ASSUME ConnectionInv, [Next]_vars, NEW x \in Sub, status[x] # "faulted", status'[x] = "faulted"
      PROVE  pc = "connecting" \/ cut
  <2> USE TypeParts DEF ConnectionInv, SubsOK
  <2>1. CASE UNCHANGED status
    BY <1>1, <2>1
  <2>2. CASE \E y \in Sub : (\E s \in Stream : SubscribeStep(y, s)) \/ Unsubscribe(y)
    <3>1. PICK y \in Sub, c \in {"live", "orphan", "idle"} : status' = [status EXCEPT ![y] = c]
      BY <2>2, ZenonT(30) DEF SubscribeStep, SubscribeNew, SubscribeClosing, Subscribe, SubscribeCancelled,
                  Register, RegisterAs, Unsubscribe
    <3> QED
      BY <1>1, <3>1
  <2>3. CASE SupervisorStep
    <3>1. UNCHANGED status \/ pc = "connecting" \/ (SocketDropped /\ ~ timedOut /\ ~ planned)
      BY <2>3 DEF SupervisorStep, Start, ConnectSucceeds, ConnectFails, WakeUp, ReaderEnds,
                  SessionExpires, ReaderReaped, SocketDropped, subVars
    <3>2. CASE SocketDropped /\ ~ timedOut /\ ~ planned
      <4>1. pc = "dropping" /\ ~ timedOut /\ ~ planned
        BY <3>2 DEF SocketDropped
      <4> QED
        BY <1>1, <4>1 DEF Socket, Explained
    <3> QED
      BY <2>1, <3>1, <3>2
  <2>4. CASE NetworkCuts \/ Closing
    <3>1. UNCHANGED status \/ EndAll
      BY <2>4 DEF NetworkCuts, Closing, AcloseBegins, AcloseConnection, AcloseEnds, subVars
    <3>2. CASE EndAll
      BY <1>1, <3>2 DEF EndAll
    <3> QED
      BY <2>1, <3>1, <3>2
  <2>5. CASE UNCHANGED vars
    BY <2>1, <2>5 DEF vars, subVars
  <2> QED
    BY <1>1, <2>2, <2>3, <2>4, <2>5, NextParts
<1>2. ConnectionInv /\ [Next]_vars =>
        [(\E x \in Sub : status[x] # "faulted" /\ status'[x] = "faulted") => pc = "connecting" \/ cut]_vars
  BY <1>1
<1> QED
  BY <1>2, Inductive, PTL DEF Spec, PlannedIsNoError

=============================================================================
