--------------------------- MODULE OrderTrackerProofs ---------------------------
(***************************************************************************)
(* Proofs about OrderTracker, for any orders and symbol types, queue       *)
(* bound, number of update times and of disconnections.                    *)
(***************************************************************************)
EXTENDS OrderTracker, TLAPS

-----------------------------------------------------------------------------
(* Sequences of items and of reports.                                      *)

(* offer() keeps the bound; what it leaves was in the queue or is the new  *)
(* item; and if it drops nothing, the new item comes after all others.     *)
LEMMA OfferFacts ==
  ASSUME NEW q \in Seq(Items), Len(q) <= MaxSize, NEW x \in Items
  PROVE  /\ Offer(q, MaxSize, x) \in Seq(Items) /\ Len(Offer(q, MaxSize, x)) <= MaxSize
         /\ \A k \in 1..Len(Offer(q, MaxSize, x)) :
               Offer(q, MaxSize, x)[k] = x \/ \E j \in 1..Len(q) : Offer(q, MaxSize, x)[k] = q[j]
         /\ Dropped(q, MaxSize) = {} =>
               /\ Len(Offer(q, MaxSize, x)) = Len(q) + 1
               /\ Offer(q, MaxSize, x)[Len(q) + 1] = x
               /\ \A k \in 1..Len(q) : Offer(q, MaxSize, x)[k] = q[k]
<1>0. MaxSize \in Nat /\ MaxSize >= 1
  BY MaxSizeAssumption
<1>1. CASE Len(q) < MaxSize
  BY <1>0, <1>1 DEF Offer, Dropped
<1>2. CASE ~ (Len(q) < MaxSize)
  <2>1. q # <<>> /\ Len(q) = MaxSize
    BY <1>0, <1>2
  <2>2. Tail(q) \in Seq(Items) /\ Len(Tail(q)) = MaxSize - 1
    BY <1>0, <2>1
  <2>3. \A k \in 1..(MaxSize - 1) : Tail(q)[k] = q[k + 1]
    BY <1>0, <2>1
  <2> QED
    BY <1>0, <1>2, <2>1, <2>2, <2>3 DEF Offer, Dropped
<1> QED
  BY <1>1, <1>2

LEMMA TailOfItems ==
  ASSUME NEW q \in Seq(Items), q # <<>>
  PROVE  /\ Head(q) = q[1] /\ Len(q) >= 1 /\ Head(q) \in Items
         /\ Tail(q) \in Seq(Items) /\ Len(Tail(q)) = Len(q) - 1
         /\ \A k \in 1..Len(Tail(q)) : Tail(q)[k] = q[k + 1] /\ k + 1 \in 1..Len(q)
OBVIOUS

LEMMA TailOfReports ==
  ASSUME NEW q \in Seq(Reports), q # <<>>
  PROVE  /\ Head(q) = q[1] /\ Len(q) >= 1 /\ Head(q) \in Reports
         /\ Tail(q) \in Seq(Reports) /\ Len(Tail(q)) = Len(q) - 1
         /\ \A k \in 1..Len(Tail(q)) : Tail(q)[k] = q[k + 1] /\ k + 1 \in 1..Len(q)
OBVIOUS

LEMMA AppendReport ==
  ASSUME NEW q \in Seq(Reports), NEW x \in Reports
  PROVE  /\ Append(q, x) \in Seq(Reports) /\ Len(Append(q, x)) = Len(q) + 1
         /\ Append(q, x)[Len(q) + 1] = x
         /\ \A k \in 1..Len(q) : Append(q, x)[k] = q[k]
OBVIOUS

(* Which items there are.                                                  *)
LEMMA ItemKinds ==
  /\ RECONNECTED \in Items /\ CLOSED \in Items /\ ERROR \in Items /\ Reports \subseteq Items
  /\ RECONNECTED.kind = "reconnected" /\ CLOSED.kind = "closed" /\ ERROR.kind = "error"
  /\ \A x \in Reports : x.kind = "report" /\ x.order \in Order /\ x.state \in State
  /\ \A x \in Items : x.kind = "report" => x \in Reports
  /\ \A x \in Items : x.kind \in {"report", "reconnected", "closed", "error"}
BY DEF Items, Reports, RECONNECTED, CLOSED, ERROR

LEMMA ReportIsReport ==
  ASSUME NEW o \in Order, NEW s \in State
  PROVE  Report(o, s) \in Reports /\ Report(o, s).order = o /\ Report(o, s).state = s
BY DEF Report, Reports

LEMMA States ==
  /\ Absent \in State
  /\ \A f \in [Order -> State] : Open(f) \in [Order -> State]
  /\ \A v \in [Order -> State], o \in Order, s \in State : ApplyReport(v, o, s) \in [Order -> State]
BY BoundAssumption DEF State, Absent, Open, ApplyReport

-----------------------------------------------------------------------------
(* Types.                                                                  *)

NetOK ==
  /\ truth \in [Order -> State] /\ wire \in [Type -> Seq(Reports)]
  /\ conn \in [Type -> {"starting", "up", "down", "dead"}]
  /\ \A c \in Type : wire[c] # <<>> => conn[c] = "up"
  /\ drops \in 0..MaxDrops

QueueOK == queue \in Seq(Items) /\ Len(queue) <= MaxSize /\ lagged \in BOOLEAN

SyncOK ==
  /\ task \in {"seeding", "reading", "dead", "ended", "none"}
  /\ reply \subseteq [Order -> State] /\ (reply # {} => task = "seeding")
  /\ synced \in BOOLEAN /\ (task = "reading" => synced)
  /\ view \in [Order -> State] /\ blind \subseteq Order

OwnerOK == owner \in {"open", "raised", "closing", "closed"} /\ subscribed \in BOOLEAN

LEMMA TypeParts == TypeOK <=> NetOK /\ QueueOK /\ SyncOK /\ OwnerOK
BY DEF TypeOK, NetOK, QueueOK, SyncOK, OwnerOK

(* What Enqueue does to the queue.                                         *)
LEMMA EnqueueFacts ==
  ASSUME QueueOK, NEW x \in Items, Enqueue(x)
  PROVE  /\ QueueOK'
         /\ \A k \in 1..Len(queue') : queue'[k] = x \/ \E j \in 1..Len(queue) : queue'[k] = queue[j]
         /\ lagged => lagged'
         /\ subscribed /\ ~ lagged' =>
               /\ Len(queue') = Len(queue) + 1 /\ queue'[Len(queue) + 1] = x
               /\ \A k \in 1..Len(queue) : queue'[k] = queue[k]
         /\ ~ subscribed => UNCHANGED queue
<1>1. CASE subscribed
  <2>1. queue' = Offer(queue, MaxSize, x) /\ lagged' = (lagged \/ Dropped(queue, MaxSize) # {})
    BY <1>1 DEF Enqueue
  <2>2. queue \in Seq(Items) /\ Len(queue) <= MaxSize /\ lagged \in BOOLEAN
    BY DEF QueueOK
  <2>3. lagged' \in BOOLEAN /\ (lagged => lagged') /\ (~ lagged' => Dropped(queue, MaxSize) = {})
    BY <2>1, <2>2, Zenon
  <2>4. /\ queue' \in Seq(Items) /\ Len(queue') <= MaxSize
        /\ \A k \in 1..Len(queue') : queue'[k] = x \/ \E j \in 1..Len(queue) : queue'[k] = queue[j]
    BY <2>1, <2>2, OfferFacts
  <2>5. Dropped(queue, MaxSize) = {} =>
          /\ Len(queue') = Len(queue) + 1 /\ queue'[Len(queue) + 1] = x
          /\ \A k \in 1..Len(queue) : queue'[k] = queue[k]
    BY <2>1, <2>2, OfferFacts
  <2>6. QueueOK'
    BY <2>3, <2>4 DEF QueueOK
  <2> QED
    BY <1>1, <2>3, <2>4, <2>5, <2>6
<1>2. CASE ~ subscribed
  <2>1. UNCHANGED <<queue, lagged>>
    BY <1>2 DEF Enqueue, queueVars
  <2> QED
    BY <1>2, <2>1 DEF QueueOK
<1> QED
  BY <1>1, <1>2

LEMMA TakeFacts ==
  ASSUME QueueOK, NEW kind, Take(kind)
  PROVE  /\ QueueOK' /\ task = "reading" /\ Head(queue) = queue[1] /\ Head(queue).kind = kind
         /\ queue[1] \in Items /\ Len(queue) >= 1 /\ Len(queue') = Len(queue) - 1
         /\ \A k \in 1..Len(queue') : queue'[k] = queue[k + 1] /\ k + 1 \in 1..Len(queue)
         /\ UNCHANGED <<truth, wire, conn, drops, lagged, owner, subscribed>>
<1>1. queue \in Seq(Items) /\ queue # <<>> /\ queue' = Tail(queue) /\ Len(queue) <= MaxSize
  BY DEF QueueOK, Take
<1>2. /\ Head(queue) = queue[1] /\ queue[1] \in Items /\ Len(queue) >= 1 /\ Len(queue') = Len(queue) - 1
      /\ queue' \in Seq(Items)
      /\ \A k \in 1..Len(queue') : queue'[k] = queue[k + 1] /\ k + 1 \in 1..Len(queue)
  BY <1>1, TailOfItems
<1>3. UNCHANGED <<truth, wire, conn, drops, lagged, owner, subscribed>>
  BY DEF Take, exchangeVars, connVars, ownerVars
<1>4. QueueOK'
  BY <1>1, <1>2, <1>3, MaxSizeAssumption DEF QueueOK
<1> QED
  BY <1>2, <1>3, <1>4 DEF Take

(* What delivering a report takes from its connection.                     *)
LEMMA DeliverFacts ==
  ASSUME NetOK, NEW c \in Type, Deliver(c)
  PROVE  /\ NetOK' /\ Len(wire[c]) >= 1 /\ wire[c][1] \in Reports /\ Enqueue(wire[c][1])
         /\ Len(wire'[c]) = Len(wire[c]) - 1
         /\ \A k \in 1..Len(wire'[c]) : wire'[c][k] = wire[c][k + 1] /\ k + 1 \in 1..Len(wire[c])
         /\ \A d \in Type \ {c} : wire'[d] = wire[d]
         /\ UNCHANGED <<truth, conn, drops, task, reply, view, synced, blind, owner, subscribed>>
<1>1. wire[c] \in Seq(Reports) /\ wire[c] # <<>> /\ wire' = [wire EXCEPT ![c] = Tail(@)]
      /\ Enqueue(Head(wire[c])) /\ wire \in [Type -> Seq(Reports)]
  BY DEF NetOK, Deliver
<1>2. wire'[c] = Tail(wire[c]) /\ \A d \in Type \ {c} : wire'[d] = wire[d]
  BY <1>1
<1>3. /\ Head(wire[c]) = wire[c][1] /\ wire[c][1] \in Reports /\ Len(wire[c]) >= 1
      /\ wire'[c] \in Seq(Reports) /\ Len(wire'[c]) = Len(wire[c]) - 1
      /\ \A k \in 1..Len(wire'[c]) : wire'[c][k] = wire[c][k + 1] /\ k + 1 \in 1..Len(wire[c])
  BY <1>1, <1>2, TailOfReports
<1>4. UNCHANGED <<truth, conn, drops, task, reply, view, synced, blind, owner, subscribed>>
  BY DEF Deliver, exchangeVars, syncVars, ownerVars
<1>5. NetOK'
  <2>1. wire' \in [Type -> Seq(Reports)]
    BY <1>1, <1>3
  <2>2. \A d \in Type : wire'[d] # <<>> => conn[d] = "up"
    BY <1>1, <1>2 DEF NetOK
  <2> QED
    BY <1>4, <2>1, <2>2 DEF NetOK
<1> QED
  BY <1>1, <1>2, <1>3, <1>4, <1>5

(* What a change does.                                                     *)
LEMMA ChangeFacts ==
  ASSUME NetOK, Change
  PROVE  \E o \in Order, s \in State :
           /\ NetOK' /\ s.ver >= 1 /\ s.time >= truth[o].time /\ truth' = [truth EXCEPT ![o] = s]
           /\ conn[TypeOf[o]] = "up" =>
                /\ Len(wire'[TypeOf[o]]) = Len(wire[TypeOf[o]]) + 1
                /\ wire'[TypeOf[o]][Len(wire[TypeOf[o]]) + 1] = Report(o, s)
                /\ \A k \in 1..Len(wire[TypeOf[o]]) : wire'[TypeOf[o]][k] = wire[TypeOf[o]][k]
           /\ conn[TypeOf[o]] # "up" => wire' = wire
           /\ \A d \in Type \ {TypeOf[o]} : wire'[d] = wire[d]
           /\ blind' = (IF conn[TypeOf[o]] = "starting" THEN blind \cup {o} ELSE blind)
           /\ UNCHANGED <<conn, drops, queue, lagged, task, reply, view, synced, owner, subscribed>>
<1>1. PICK o \in Order, v \in 1..3, t \in 0..MaxTime :
        LET s == [ver |-> v, time |-> t] IN
        /\ \A u \in {truth[p].time : p \in Order} : u <= t
        /\ truth' = [truth EXCEPT ![o] = s]
        /\ wire' = IF conn[TypeOf[o]] = "up"
                   THEN [wire EXCEPT ![TypeOf[o]] = Append(@, Report(o, s))]
                   ELSE wire
        /\ blind' = IF conn[TypeOf[o]] = "starting" THEN blind \cup {o} ELSE blind
        /\ UNCHANGED <<conn, drops, queueVars, task, reply, view, synced, ownerVars>>
  BY DEF Change
<1> DEFINE s == [ver |-> v, time |-> t]
           c == TypeOf[o]
<1>2. s \in State /\ s.ver >= 1 /\ s.time = t
  BY BoundAssumption DEF State
<1>3. s.time >= truth[o].time
  <2>1. truth[o].time <= t
    BY <1>1
  <2>2. truth[o].time \in Nat /\ t \in Nat
    BY BoundAssumption DEF NetOK, State
  <2> QED
    BY <1>2, <2>1, <2>2
<1>4. c \in Type
  BY TypeOfAssumption
<1>5. truth' = [truth EXCEPT ![o] = s]
      /\ blind' = (IF conn[c] = "starting" THEN blind \cup {o} ELSE blind)
  BY <1>1
<1>6. UNCHANGED <<conn, drops, queue, lagged, task, reply, view, synced, owner, subscribed>>
  BY <1>1 DEF queueVars, ownerVars
<1>7. wire' = IF conn[c] = "up" THEN [wire EXCEPT ![c] = Append(@, Report(o, s))] ELSE wire
  BY <1>1
<1>8. Report(o, s) \in Reports
  BY <1>2, ReportIsReport
<1> HIDE DEF s, c
<1>9. truth' \in [Order -> State]
  BY <1>2, <1>5 DEF NetOK
<1>10. CASE conn[c] = "up"
  <2>1. wire[c] \in Seq(Reports)
    BY <1>4 DEF NetOK
  <2>2. wire' = [wire EXCEPT ![c] = Append(@, Report(o, s))]
    BY <1>7, <1>10
  <2>3. wire'[c] = Append(wire[c], Report(o, s)) /\ \A d \in Type \ {c} : wire'[d] = wire[d]
    BY <1>4, <2>2 DEF NetOK
  <2>4. /\ wire'[c] \in Seq(Reports) /\ Len(wire'[c]) = Len(wire[c]) + 1
        /\ wire'[c][Len(wire[c]) + 1] = Report(o, s)
        /\ \A k \in 1..Len(wire[c]) : wire'[c][k] = wire[c][k]
    BY <1>8, <2>1, <2>3, AppendReport
  <2>5. wire' \in [Type -> Seq(Reports)]
    BY <2>2, <2>3, <2>4 DEF NetOK
  <2>6. NetOK'
    BY <1>6, <1>9, <1>10, <2>3, <2>5 DEF NetOK
  <2> QED
    BY <1>2, <1>3, <1>5, <1>6, <1>10, <2>3, <2>4, <2>6 DEF c
<1>11. CASE conn[c] # "up"
  <2>1. wire' = wire
    BY <1>7, <1>11
  <2>2. NetOK'
    BY <1>6, <1>9, <2>1 DEF NetOK
  <2> QED
    BY <1>2, <1>3, <1>5, <1>6, <1>11, <2>1, <2>2 DEF c
<1> QED
  BY <1>10, <1>11

(* The steps that leave the connections and the queue alone.               *)
SyncOnly == UNCHANGED <<truth, wire, conn, drops, queue, lagged>>

LEMMA SyncTypes ==
  ASSUME TypeOK, SyncOnly, SyncOK', OwnerOK'
  PROVE  TypeOK'
BY TypeParts DEF SyncOnly, NetOK, QueueOK, SyncOK, OwnerOK, TypeOK

LEMMA InitTypes == Init => TypeOK
<1> SUFFICES ASSUME Init PROVE TypeOK
  OBVIOUS
<1>1. Absent \in State /\ [ver |-> 1, time |-> 0] \in State
  BY BoundAssumption DEF State, Absent
<1>2. NetOK
  BY <1>1, BoundAssumption DEF Init, NetOK
<1>3. QueueOK
  <2>1. queue \in Seq(Items) /\ Len(queue) <= MaxSize
    BY MaxSizeAssumption DEF Init
  <2>2. lagged \in BOOLEAN
    BY DEF Init
  <2> QED
    BY <2>1, <2>2 DEF QueueOK
<1>4. SyncOK /\ OwnerOK
  BY <1>1 DEF Init, SyncOK, OwnerOK
<1> QED
  BY <1>2, <1>3, <1>4, TypeParts

LEMMA StepTypes == TypeOK /\ [Next]_vars => TypeOK'
<1> SUFFICES ASSUME TypeOK, [Next]_vars PROVE TypeOK'
  OBVIOUS
<1>t. NetOK /\ QueueOK /\ SyncOK /\ OwnerOK
  BY TypeParts
<1>p. NetOK' /\ QueueOK' /\ SyncOK' /\ OwnerOK' => TypeOK'
  BY DEF TypeOK, NetOK, QueueOK, SyncOK, OwnerOK
<1>0. CASE UNCHANGED vars
  BY <1>0, <1>t, <1>p DEF vars, exchangeVars, connVars, queueVars, syncVars, ownerVars,
                          NetOK, QueueOK, SyncOK, OwnerOK
<1>1. CASE Change
  <2>1. PICK o \in Order, st \in State :
          /\ NetOK' /\ blind' = (IF conn[TypeOf[o]] = "starting" THEN blind \cup {o} ELSE blind)
          /\ UNCHANGED <<queue, lagged, task, reply, view, synced, owner, subscribed>>
    BY <1>1, <1>t, ChangeFacts
  <2> QED
    BY <1>t, <1>p, <2>1 DEF QueueOK, SyncOK, OwnerOK
<1>2. ASSUME NEW c \in Type, Deliver(c) PROVE TypeOK'
  <2>1. /\ NetOK' /\ wire[c][1] \in Items /\ Enqueue(wire[c][1])
        /\ UNCHANGED <<task, reply, view, synced, blind, owner, subscribed>>
    BY <1>2, <1>t, DeliverFacts, ItemKinds
  <2>2. QueueOK'
    BY <1>t, <2>1, EnqueueFacts
  <2> QED
    BY <1>t, <1>p, <2>1, <2>2 DEF SyncOK, OwnerOK
<1>3. ASSUME NEW c \in Type, Disconnect(c) PROVE TypeOK'
  <2>1. NetOK'
    <3>1. /\ conn' = [conn EXCEPT ![c] = "down"] /\ wire' = [wire EXCEPT ![c] = <<>>]
          /\ drops < MaxDrops /\ drops' = drops + 1 /\ truth' = truth
      BY <1>3 DEF Disconnect, exchangeVars
    <3>2. wire' \in [Type -> Seq(Reports)]
      BY <1>t, <3>1 DEF NetOK
    <3> QED
      BY <1>t, <3>1, <3>2, BoundAssumption DEF NetOK
  <2> QED
    BY <1>3, <1>t, <1>p, <2>1 DEF Disconnect, queueVars, syncVars, ownerVars, QueueOK, SyncOK, OwnerOK
<1>4. ASSUME NEW c \in Type, ConnectFirst(c) \/ ConnectAgain(c) \/ GiveUp(c) PROVE TypeOK'
  <2>1. /\ conn[c] # "up" /\ (conn' = [conn EXCEPT ![c] = "up"] \/ conn' = [conn EXCEPT ![c] = "dead"])
        /\ UNCHANGED <<truth, wire, drops, task, reply, view, synced, blind, owner, subscribed>>
    BY <1>4 DEF ConnectFirst, ConnectAgain, GiveUp, exchangeVars, syncVars, ownerVars
  <2>2. NetOK'
    BY <1>t, <2>1 DEF NetOK
  <2>3. QueueOK'
    BY <1>4, <1>t, EnqueueFacts, ItemKinds
       DEF ConnectFirst, ConnectAgain, GiveUp, queueVars, QueueOK
  <2> QED
    BY <1>t, <1>p, <2>1, <2>2, <2>3 DEF SyncOK, OwnerOK
<1>5. CASE CloseClient
  <2>1. NetOK'
    BY <1>5, <1>t DEF CloseClient, NetOK, exchangeVars
  <2>2. QueueOK'
    BY <1>5, <1>t, EnqueueFacts, ItemKinds DEF CloseClient
  <2> QED
    BY <1>5, <1>t, <1>p, <2>1, <2>2 DEF CloseClient, syncVars, SyncOK, OwnerOK
<1>6. CASE ServeOpenOrders
  <2>1. SyncOnly /\ SyncOK' /\ OwnerOK'
    BY <1>6, <1>t DEF ServeOpenOrders, SyncOnly, exchangeVars, connVars, queueVars, ownerVars,
                     NetOK, SyncOK, OwnerOK
  <2> QED
    BY <2>1, SyncTypes
<1>7. CASE SeedArrives
  <2>1. view' \in [Order -> State]
    BY <1>7, <1>t, States DEF SeedArrives, SyncOK
  <2>2. SyncOnly /\ SyncOK' /\ OwnerOK'
    BY <1>7, <1>t, <2>1 DEF SeedArrives, SyncOnly, exchangeVars, connVars, queueVars, ownerVars,
                            SyncOK, OwnerOK
  <2> QED
    BY <2>2, SyncTypes
<1>8. CASE SeedFails
  <2>1. SyncOnly /\ SyncOK' /\ OwnerOK'
    BY <1>8, <1>t DEF SeedFails, SyncOnly, exchangeVars, connVars, queueVars, ownerVars, SyncOK, OwnerOK
  <2> QED
    BY <2>1, SyncTypes
<1>9. ASSUME NEW kind, Take(kind), SyncOK' PROVE TypeOK'
  <2>1. QueueOK' /\ UNCHANGED <<truth, wire, conn, drops, owner, subscribed>>
    BY <1>9, <1>t, TakeFacts
  <2> QED
    BY <1>9, <1>t, <1>p, <2>1 DEF NetOK, OwnerOK
<1>10. CASE TakeReport
  <2>1. Take("report") /\ view' = ApplyReport(view, Head(queue).order, Head(queue).state)
        /\ UNCHANGED <<task, reply, synced, blind>>
    BY <1>10 DEF TakeReport
  <2>2. Head(queue).order \in Order /\ Head(queue).state \in State
    BY <1>t, <2>1, TakeFacts, ItemKinds
  <2>3. view' \in [Order -> State]
    BY <1>t, <2>1, <2>2, States DEF SyncOK
  <2> QED
    BY <1>9, <1>t, <2>1, <2>3 DEF SyncOK
<1>11. CASE TakeReconnected
  <2>1. Take("reconnected") /\ SyncOK'
    BY <1>11, <1>t DEF TakeReconnected, SyncOK
  <2> QED
    BY <1>9, <2>1
<1>12. CASE StreamStops
  <2>1. reply = {}
    BY <1>12, <1>t DEF StreamStops, Take, SyncOK
  <2>2. PICK kind \in {"closed", "error"} : Take(kind) /\ task' \in {"ended", "dead"}
    BY <1>12 DEF StreamStops
  <2>3. SyncOK'
    BY <1>12, <1>t, <2>1, <2>2 DEF StreamStops, SyncOK
  <2> QED
    BY <1>9, <2>2, <2>3
<1>13. CASE Aclose
  <2>1. SyncOnly /\ SyncOK' /\ OwnerOK'
    BY <1>13, <1>t DEF Aclose, SyncOnly, exchangeVars, connVars, queueVars, SyncOK, OwnerOK
  <2> QED
    BY <2>1, SyncTypes
<1>14. CASE AcloseFinishes
  <2>1. QueueOK'
    BY <1>14, <1>t, OfferFacts, ItemKinds DEF AcloseFinishes, QueueOK
  <2> QED
    BY <1>14, <1>t, <1>p, <2>1 DEF AcloseFinishes, exchangeVars, connVars, syncVars, NetOK, SyncOK, OwnerOK
<1> QED
  BY <1>0, <1>1, <1>2, <1>3, <1>4, <1>5, <1>6, <1>7, <1>8, <1>10, <1>11, <1>12, <1>13, <1>14
     DEF Next, Connections, Sync

(* The state keeps its shape and the queue its bound.                      *)
THEOREM Types == Spec => []TypeOK
  BY InitTypes, StepTypes, PTL DEF Spec

-----------------------------------------------------------------------------
(* The view and the truth.  What is still to come for an order is in the   *)
(* queue, and after that on its connection's socket.  Its last report      *)
(* there carries the exchange's present state, unless the connection is    *)
(* down, a reconnect is announced after it or the queue has overflowed;    *)
(* and with nothing to come, the view, or the seed on its way, has that    *)
(* state.                                                                  *)

Mentions(x, o) == x.kind = "report" /\ x.order = o

Coming(o) == \E k \in 1..Len(wire[TypeOf[o]]) : wire[TypeOf[o]][k].order = o
Queued(o) == \E k \in 1..Len(queue) : Mentions(queue[k], o)

(* Nothing is newer than the exchange, and a seed not older than the view. *)
Timed(o) ==
  /\ view[o].time <= truth[o].time
  /\ \A r \in reply : view[o].time <= r[o].time /\ r[o].time <= truth[o].time
  /\ \A k \in 1..Len(queue) : Mentions(queue[k], o) =>
       queue[k].state.ver >= 1 /\ queue[k].state.time <= truth[o].time
  /\ \A k \in 1..Len(wire[TypeOf[o]]) : wire[TypeOf[o]][k].order = o =>
       wire[TypeOf[o]][k].state.ver >= 1 /\ wire[TypeOf[o]][k].state.time <= truth[o].time

Early(o) == conn[TypeOf[o]] = "starting" => ~ Queued(o)

LastComing(o) ==
  \A k \in 1..Len(wire[TypeOf[o]]) :
    /\ wire[TypeOf[o]][k].order = o
    /\ \A j \in (k + 1)..Len(wire[TypeOf[o]]) : wire[TypeOf[o]][j].order # o
    => wire[TypeOf[o]][k].state = truth[o]

Final(o) ==
  \A k \in 1..Len(queue) :
    /\ Mentions(queue[k], o)
    /\ \A j \in (k + 1)..Len(queue) : ~ Mentions(queue[j], o) /\ queue[j].kind # "reconnected"
    => queue[k].state = truth[o]

LastQueued(o) == conn[TypeOf[o]] = "up" /\ ~ lagged /\ subscribed /\ ~ Coming(o) => Final(o)

Caught(o) ==
  /\ conn[TypeOf[o]] \in {"up", "starting"} /\ ~ lagged /\ subscribed /\ o \notin blind
  /\ ~ Coming(o) /\ ~ Queued(o)
  /\ \A k \in 1..Len(queue) : queue[k].kind = "report"

Sound(o) ==
  Caught(o) => (task = "reading" => view[o] = Open(truth)[o]) /\ \A r \in reply : r[o] = truth[o]

Ends ==
  /\ subscribed \/ task = "none" \/ \A c \in Type : conn[c] = "dead"
  /\ owner = "closing" => task = "none"

Own == \A c \in Type : \A k \in 1..Len(wire[c]) : TypeOf[wire[c][k].order] = c

About(o) == Timed(o) /\ Early(o) /\ LastComing(o) /\ LastQueued(o) /\ Sound(o)

TrackerInv == TypeOK /\ Ends /\ Own /\ \A o \in Order : About(o)

LEMMA ChangeKeeps ==
  ASSUME TrackerInv, TypeOK', Change
  PROVE  TrackerInv'
<1>t. NetOK /\ QueueOK /\ SyncOK /\ OwnerOK
  BY TypeParts DEF TrackerInv
<1>1. PICK p \in Order, s \in State :
        /\ NetOK' /\ s.ver >= 1 /\ s.time >= truth[p].time /\ truth' = [truth EXCEPT ![p] = s]
        /\ conn[TypeOf[p]] = "up" =>
             /\ Len(wire'[TypeOf[p]]) = Len(wire[TypeOf[p]]) + 1
             /\ wire'[TypeOf[p]][Len(wire[TypeOf[p]]) + 1] = Report(p, s)
             /\ \A k \in 1..Len(wire[TypeOf[p]]) : wire'[TypeOf[p]][k] = wire[TypeOf[p]][k]
        /\ conn[TypeOf[p]] # "up" => wire' = wire
        /\ \A d \in Type \ {TypeOf[p]} : wire'[d] = wire[d]
        /\ blind' = (IF conn[TypeOf[p]] = "starting" THEN blind \cup {p} ELSE blind)
        /\ UNCHANGED <<conn, drops, queue, lagged, task, reply, view, synced, owner, subscribed>>
  BY <1>t, ChangeFacts
<1>2. Report(p, s).order = p /\ Report(p, s).state = s
  BY ReportIsReport
<1>3. Ends'
  BY <1>1 DEF TrackerInv, Ends
<1>4. \A c \in Type : Len(wire[c]) \in Nat
  BY <1>t DEF NetOK
<1>5. Own'
  BY <1>1, <1>2, <1>4, SMTT(20) DEF TrackerInv, Own
<1>6. ASSUME NEW o \in Order, o # p PROVE About(o)'
  <2>1. truth'[o] = truth[o] /\ TypeOf[o] \in Type /\ blind \subseteq blind'
    BY <1>1, <1>6, <1>t, TypeOfAssumption DEF NetOK
  <2>2. CASE wire'[TypeOf[o]] = wire[TypeOf[o]]
    <3>1. Open(truth)[o] = Open(truth')[o]
      BY <2>1 DEF Open
    <3>2. Coming(o)' <=> Coming(o)
      BY <2>2 DEF Coming
    <3>3. Timed(o)' /\ Early(o)' /\ LastComing(o)'
      BY <1>1, <2>1, <2>2 DEF TrackerInv, About, Timed, Early, LastComing, Queued
    <3>4. LastQueued(o)'
      BY <1>1, <2>1, <3>2 DEF TrackerInv, About, LastQueued, Final
    <3>5. Caught(o)' => Caught(o)
      BY <1>1, <2>1, <3>2 DEF Caught, Queued
    <3>6. Sound(o)'
      BY <1>1, <2>1, <3>1, <3>5 DEF TrackerInv, About, Sound, Open
    <3> QED
      BY <3>3, <3>4, <3>6 DEF About
  <2>3. CASE wire'[TypeOf[o]] # wire[TypeOf[o]]
    <3>0. TypeOf[o] = TypeOf[p] /\ conn[TypeOf[o]] = "up"
      BY <1>1, <2>1, <2>3
    <3>1. /\ Len(wire'[TypeOf[o]]) = Len(wire[TypeOf[o]]) + 1 /\ Len(wire[TypeOf[o]]) \in Nat
          /\ wire'[TypeOf[o]][Len(wire[TypeOf[o]]) + 1].order = p
          /\ \A k \in 1..Len(wire[TypeOf[o]]) : wire'[TypeOf[o]][k] = wire[TypeOf[o]][k]
      BY <1>1, <1>2, <1>4, <2>1, <3>0
    <3>a. \A k \in 1..Len(wire'[TypeOf[o]]) :
            k \in 1..Len(wire[TypeOf[o]]) \/ wire'[TypeOf[o]][k].order = p
      BY <3>1
    <3>b. \A k \in 1..Len(wire[TypeOf[o]]) :
            k \in 1..Len(wire'[TypeOf[o]]) /\ wire'[TypeOf[o]][k] = wire[TypeOf[o]][k]
      BY <3>1
    <3>2. Coming(o)' <=> Coming(o)
      BY <1>6, <3>a, <3>b DEF Coming
    <3>3. Timed(o)'
      <4>1. \A k \in 1..Len(wire'[TypeOf[o]]) : wire'[TypeOf[o]][k].order = o =>
              wire'[TypeOf[o]][k].state.ver >= 1 /\ wire'[TypeOf[o]][k].state.time <= truth'[o].time
        BY <1>6, <2>1, <3>a, <3>b DEF TrackerInv, About, Timed
      <4>2. \A k \in 1..Len(queue') : Mentions(queue'[k], o) =>
              queue'[k].state.ver >= 1 /\ queue'[k].state.time <= truth'[o].time
        BY <1>1, <2>1 DEF TrackerInv, About, Timed
      <4>3. /\ view'[o].time <= truth'[o].time
            /\ \A r \in reply' : view'[o].time <= r[o].time /\ r[o].time <= truth'[o].time
        BY <1>1, <2>1 DEF TrackerInv, About, Timed
      <4> QED
        BY <4>1, <4>2, <4>3 DEF Timed
    <3>4. Early(o)'
      BY <1>1 DEF TrackerInv, About, Early, Queued
    <3>5. LastComing(o)'
      <4> SUFFICES ASSUME NEW k \in 1..Len(wire'[TypeOf[o]]), wire'[TypeOf[o]][k].order = o,
                          \A j \in (k + 1)..Len(wire'[TypeOf[o]]) : wire'[TypeOf[o]][j].order # o
                   PROVE  wire'[TypeOf[o]][k].state = truth'[o]
        BY DEF LastComing
      <4>1. k \in 1..Len(wire[TypeOf[o]]) /\ wire[TypeOf[o]][k].order = o
        BY <1>6, <3>a, <3>b
      <4>2. \A j \in (k + 1)..Len(wire[TypeOf[o]]) : wire[TypeOf[o]][j].order # o
        <5> TAKE j \in (k + 1)..Len(wire[TypeOf[o]])
        <5>1. j \in 1..Len(wire[TypeOf[o]]) /\ j \in (k + 1)..Len(wire'[TypeOf[o]])
          BY <3>1, <4>1
        <5> QED
          BY <3>b, <5>1
      <4>3. wire[TypeOf[o]][k].state = truth[o]
        BY <4>1, <4>2 DEF TrackerInv, About, LastComing
      <4> QED
        BY <2>1, <3>1, <4>1, <4>3
    <3>6. LastQueued(o)'
      BY <1>1, <2>1, <3>2 DEF TrackerInv, About, LastQueued, Final
    <3>7. Caught(o)' => Caught(o)
      BY <1>1, <2>1, <3>2 DEF Caught, Queued
    <3>8. Sound(o)'
      BY <1>1, <2>1, <3>7 DEF TrackerInv, About, Sound, Open
    <3> QED
      BY <3>3, <3>4, <3>5, <3>6, <3>8 DEF About
  <2> QED
    BY <2>2, <2>3
<1>7. About(p)'
  <2>1. truth'[p] = s /\ TypeOf[p] \in Type /\ s.time \in Nat /\ truth[p].time \in Nat
    BY <1>1, <1>t, TypeOfAssumption DEF NetOK, State
  <2>2. conn[TypeOf[p]] # "up" => wire[TypeOf[p]] = <<>> /\ wire'[TypeOf[p]] = <<>>
    BY <1>1, <1>t, <2>1 DEF NetOK
  <2>3. Timed(p)'
    <3>1. view[p].time \in Nat /\ \A r \in reply : r[p].time \in Nat
      BY <1>t DEF SyncOK, State
    <3>2. \A k \in 1..Len(queue) : Mentions(queue[k], p) => queue[k].state.time \in Nat
      BY <1>t, ItemKinds DEF QueueOK, Mentions, State
    <3>3. \A k \in 1..Len(wire[TypeOf[p]]) : wire[TypeOf[p]][k].state.time \in Nat
      BY <1>t, <2>1, ItemKinds DEF NetOK, State
    <3>4. /\ view'[p].time <= truth'[p].time
          /\ \A r \in reply' : view'[p].time <= r[p].time /\ r[p].time <= truth'[p].time
      BY <1>1, <2>1, <3>1 DEF TrackerInv, About, Timed
    <3>5. \A k \in 1..Len(queue') : Mentions(queue'[k], p) =>
             queue'[k].state.ver >= 1 /\ queue'[k].state.time <= truth'[p].time
      BY <1>1, <2>1, <3>2 DEF TrackerInv, About, Timed
    <3>6. \A k \in 1..Len(wire'[TypeOf[p]]) : wire'[TypeOf[p]][k].order = p =>
             wire'[TypeOf[p]][k].state.ver >= 1 /\ wire'[TypeOf[p]][k].state.time <= truth'[p].time
      <4> TAKE k \in 1..Len(wire'[TypeOf[p]])
      <4>1. CASE k \in 1..Len(wire[TypeOf[p]]) /\ wire'[TypeOf[p]][k] = wire[TypeOf[p]][k]
        BY <1>1, <2>1, <3>3, <4>1 DEF TrackerInv, About, Timed
      <4>2. CASE wire'[TypeOf[p]][k] = Report(p, s)
        BY <1>1, <1>2, <2>1, <4>2
      <4>3. conn[TypeOf[p]] = "up" /\ Len(wire[TypeOf[p]]) \in Nat
        BY <1>4, <2>1, <2>2
      <4> QED
        BY <1>1, <4>1, <4>2, <4>3
    <3> QED
      BY <3>4, <3>5, <3>6 DEF Timed
  <2>4. Early(p)'
    BY <1>1 DEF TrackerInv, About, Early, Queued
  <2>5. LastComing(p)'
    BY <1>1, <1>2, <1>4, <2>1, <2>2, SMTT(20) DEF LastComing
  <2>6. conn[TypeOf[p]] = "up" => Coming(p)'
    BY <1>1, <1>2, <1>4, <2>1 DEF Coming
  <2>7. LastQueued(p)'
    BY <1>1, <2>6 DEF LastQueued
  <2>8. Sound(p)'
    BY <1>1, <2>6 DEF Sound, Caught
  <2> QED
    BY <2>3, <2>4, <2>5, <2>7, <2>8 DEF About
<1> QED
  BY <1>3, <1>5, <1>6, <1>7 DEF TrackerInv

(* A queue whose items were there or are new: nothing in it is newer than  *)
(* the exchange, and it mentions no other order.                           *)
LEMMA OldOrNew ==
  ASSUME NEW o \in Order, Timed(o), truth' = truth, NEW x,
         Mentions(x, o) => x.state.ver >= 1 /\ x.state.time <= truth[o].time,
         \A k \in 1..Len(queue') : queue'[k] = x \/ \E j \in 1..Len(queue) : queue'[k] = queue[j]
  PROVE  /\ \A k \in 1..Len(queue') : Mentions(queue'[k], o) =>
              queue'[k].state.ver >= 1 /\ queue'[k].state.time <= truth'[o].time
         /\ ~ Mentions(x, o) /\ ~ Queued(o) => ~ Queued(o)'
<1>1. \A j \in 1..Len(queue) : Mentions(queue[j], o) =>
         queue[j].state.ver >= 1 /\ queue[j].state.time <= truth[o].time
  BY DEF Timed
<1> QED
  BY <1>1 DEF Queued

(* A queue that has got a new last item.                                   *)
LEMMA Grown ==
  ASSUME NEW o \in Order, NEW x, QueueOK, truth' = truth, Len(queue') = Len(queue) + 1,
         queue'[Len(queue) + 1] = x, \A k \in 1..Len(queue) : queue'[k] = queue[k]
  PROVE  /\ Queued(o)' <=> Queued(o) \/ Mentions(x, o)
         /\ (\A k \in 1..Len(queue') : queue'[k].kind = "report") =>
              x.kind = "report" /\ \A k \in 1..Len(queue) : queue[k].kind = "report"
         /\ Mentions(x, o) /\ x.state = truth[o] => Final(o)'
         /\ x.kind = "reconnected" => Final(o)'
         /\ ~ Mentions(x, o) /\ Final(o) => Final(o)'
<1>0. Len(queue) \in Nat
  BY DEF QueueOK
<1>1. \A k \in 1..Len(queue') : k \in 1..Len(queue) \/ k = Len(queue) + 1
  BY <1>0
<1>2. Len(queue) + 1 \in 1..Len(queue') /\ \A k \in 1..Len(queue) : k \in 1..Len(queue')
  BY <1>0
<1>3. Queued(o)' <=> Queued(o) \/ Mentions(x, o)
  BY <1>1, <1>2 DEF Queued
<1>4. (\A k \in 1..Len(queue') : queue'[k].kind = "report") =>
        x.kind = "report" /\ \A k \in 1..Len(queue) : queue[k].kind = "report"
  BY <1>2
<1>5. \A k \in 1..Len(queue) : Len(queue) + 1 \in (k + 1)..Len(queue')
  BY <1>0
<1>6. (Mentions(x, o) /\ x.state = truth[o]) \/ x.kind = "reconnected" \/ (~ Mentions(x, o) /\ Final(o))
        => Final(o)'
  <2> SUFFICES ASSUME (Mentions(x, o) /\ x.state = truth[o]) \/ x.kind = "reconnected"
                        \/ (~ Mentions(x, o) /\ Final(o)),
                      NEW k \in 1..Len(queue'), Mentions(queue'[k], o),
                      \A j \in (k + 1)..Len(queue') : ~ Mentions(queue'[j], o) /\ queue'[j].kind # "reconnected"
               PROVE  queue'[k].state = truth'[o]
    BY DEF Final
  <2>1. CASE k = Len(queue) + 1
    BY <2>1 DEF Mentions
  <2>2. CASE k \in 1..Len(queue)
    <3>1. ~ Mentions(x, o) /\ Final(o) /\ Mentions(queue[k], o)
      BY <1>5, <2>2
    <3>2. \A j \in (k + 1)..Len(queue) : ~ Mentions(queue[j], o) /\ queue[j].kind # "reconnected"
      <4> TAKE j \in (k + 1)..Len(queue)
      <4>1. j \in 1..Len(queue) /\ j \in (k + 1)..Len(queue')
        BY <1>0, <2>2
      <4> QED
        BY <4>1
    <3> QED
      BY <2>2, <3>1, <3>2 DEF Final
  <2> QED
    BY <1>1, <2>1, <2>2
<1> QED
  BY <1>3, <1>4, <1>6, Zenon

(* A queue whose head has been taken.                                      *)
LEMMA Shifted ==
  ASSUME NEW o \in Order, Timed(o), truth' = truth, Len(queue) \in Nat, Len(queue') = Len(queue) - 1,
         \A k \in 1..Len(queue') : queue'[k] = queue[k + 1] /\ k + 1 \in 1..Len(queue)
  PROVE  /\ \A k \in 1..Len(queue') : Mentions(queue'[k], o) =>
              queue'[k].state.ver >= 1 /\ queue'[k].state.time <= truth'[o].time
         /\ Queued(o)' => Queued(o)
         /\ \A k \in 2..Len(queue) : queue[k] = queue'[k - 1] /\ k - 1 \in 1..Len(queue')
         /\ Final(o) => Final(o)'
<1>1. \A k \in 2..Len(queue) : queue[k] = queue'[k - 1] /\ k - 1 \in 1..Len(queue')
  <2> TAKE k \in 2..Len(queue)
  <2>1. k - 1 \in 1..Len(queue') /\ (k - 1) + 1 = k
    OBVIOUS
  <2> QED
    BY <2>1
<1>2. ASSUME Final(o) PROVE Final(o)'
  <2> SUFFICES ASSUME NEW k \in 1..Len(queue'), Mentions(queue'[k], o),
                      \A j \in (k + 1)..Len(queue') : ~ Mentions(queue'[j], o) /\ queue'[j].kind # "reconnected"
               PROVE  queue'[k].state = truth'[o]
    BY DEF Final
  <2>1. k + 1 \in 1..Len(queue) /\ Mentions(queue[k + 1], o)
    OBVIOUS
  <2>2. \A j \in ((k + 1) + 1)..Len(queue) : ~ Mentions(queue[j], o) /\ queue[j].kind # "reconnected"
    <3> TAKE j \in ((k + 1) + 1)..Len(queue)
    <3>1. j \in 2..Len(queue) /\ j - 1 \in (k + 1)..Len(queue')
      OBVIOUS
    <3> QED
      BY <1>1, <3>1
  <2> QED
    BY <1>2, <2>1, <2>2 DEF Final
<1>3. \A j \in 1..Len(queue) : Mentions(queue[j], o) =>
         queue[j].state.ver >= 1 /\ queue[j].state.time <= truth[o].time
  BY DEF Timed
<1> QED
  BY <1>1, <1>2, <1>3 DEF Queued

(* A report is dispatched.                                                 *)
LEMMA DeliverKeeps ==
  ASSUME TrackerInv, TypeOK', NEW c \in Type, Deliver(c)
  PROVE  TrackerInv'
<1>t. NetOK /\ QueueOK /\ SyncOK /\ OwnerOK
  BY TypeParts DEF TrackerInv
<1> DEFINE x == wire[c][1]
<1>1. /\ Len(wire[c]) >= 1 /\ x \in Reports /\ Enqueue(x) /\ Len(wire'[c]) = Len(wire[c]) - 1
      /\ \A k \in 1..Len(wire'[c]) : wire'[c][k] = wire[c][k + 1] /\ k + 1 \in 1..Len(wire[c])
      /\ \A d \in Type \ {c} : wire'[d] = wire[d]
      /\ UNCHANGED <<truth, conn, drops, task, reply, view, synced, blind, owner, subscribed>>
  BY <1>t, DeliverFacts
<1>2. Len(wire[c]) \in Nat /\ conn[c] = "up"
  BY <1>1, <1>t DEF NetOK
<1>3. 1 \in 1..Len(wire[c]) /\ TypeOf[x.order] = c
  BY <1>1, <1>2 DEF TrackerInv, Own
<1>4. /\ \A k \in 1..Len(queue') : queue'[k] = x \/ \E j \in 1..Len(queue) : queue'[k] = queue[j]
      /\ lagged => lagged'
      /\ subscribed /\ ~ lagged' =>
           /\ Len(queue') = Len(queue) + 1 /\ queue'[Len(queue) + 1] = x
           /\ \A k \in 1..Len(queue) : queue'[k] = queue[k]
  BY <1>1, <1>t, EnqueueFacts, ItemKinds
<1>5. x.kind = "report" /\ \A o \in Order : Mentions(x, o) <=> x.order = o
  BY <1>1, ItemKinds DEF Mentions
<1>6. \A k \in 2..Len(wire[c]) : wire[c][k] = wire'[c][k - 1] /\ k - 1 \in 1..Len(wire'[c])
  <2> TAKE k \in 2..Len(wire[c])
  <2>1. k - 1 \in 1..Len(wire'[c]) /\ (k - 1) + 1 = k
    BY <1>1, <1>2
  <2> QED
    BY <1>1, <2>1
<1> HIDE DEF x
<1>7. Own'
  <2>1. ASSUME NEW d \in Type, NEW k \in 1..Len(wire'[d])
        PROVE  \E j \in 1..Len(wire[d]) : wire'[d][k] = wire[d][j]
    BY <1>1
  <2> QED
    BY <2>1, SMTT(20) DEF TrackerInv, Own
<1>8. Ends'
  BY <1>1 DEF TrackerInv, Ends
<1>9. ASSUME NEW o \in Order PROVE About(o)'
  <2>0. About(o) /\ TypeOf[o] \in Type
    BY TypeOfAssumption DEF TrackerInv
  <2>1. Mentions(x, o) => TypeOf[o] = c /\ x.state.ver >= 1 /\ x.state.time <= truth[o].time
    BY <1>3, <1>5, <2>0 DEF About, Timed, x
  <2>2. /\ \A k \in 1..Len(queue') : Mentions(queue'[k], o) =>
             queue'[k].state.ver >= 1 /\ queue'[k].state.time <= truth'[o].time
        /\ ~ Mentions(x, o) /\ ~ Queued(o) => ~ Queued(o)'
    BY <1>1, <1>4, <2>0, <2>1, OldOrNew, SMTT(20) DEF About
  <2>3. \A k \in 1..Len(wire'[TypeOf[o]]) :
           \E j \in 1..Len(wire[TypeOf[o]]) : wire'[TypeOf[o]][k] = wire[TypeOf[o]][j]
    BY <1>1, <2>0
  <2>4. Timed(o)'
    <3>1. Timed(o) /\ truth' = truth /\ view' = view /\ reply' = reply
      BY <1>1, <2>0 DEF About
    <3>2. \A k \in 1..Len(wire'[TypeOf[o]]) : wire'[TypeOf[o]][k].order = o =>
             wire'[TypeOf[o]][k].state.ver >= 1 /\ wire'[TypeOf[o]][k].state.time <= truth[o].time
      BY <2>3, <3>1 DEF Timed
    <3>3. /\ view[o].time <= truth[o].time
          /\ \A r \in reply : view[o].time <= r[o].time /\ r[o].time <= truth[o].time
      BY <3>1 DEF Timed
    <3> QED
      BY <2>2, <3>1, <3>2, <3>3 DEF Timed
  <2>5. Early(o)'
    BY <1>1, <1>2, <2>0, <2>1, <2>2 DEF About, Early
  <2>6. LastComing(o)'
    <3>1. CASE TypeOf[o] # c
      BY <1>1, <2>0, <3>1 DEF About, LastComing
    <3>2. CASE TypeOf[o] = c
      <4> SUFFICES ASSUME NEW k \in 1..Len(wire'[c]), wire'[c][k].order = o,
                          \A j \in (k + 1)..Len(wire'[c]) : wire'[c][j].order # o
                   PROVE  wire'[c][k].state = truth[o]
        BY <1>1, <3>2 DEF LastComing
      <4>1. k + 1 \in 1..Len(wire[c]) /\ wire[c][k + 1].order = o
        BY <1>1
      <4>2. \A j \in ((k + 1) + 1)..Len(wire[c]) : wire[c][j].order # o
        <5> TAKE j \in ((k + 1) + 1)..Len(wire[c])
        <5>1. j \in 2..Len(wire[c]) /\ j - 1 \in (k + 1)..Len(wire'[c])
          BY <1>1, <1>2
        <5> QED
          BY <1>6, <5>1
      <4> QED
        BY <1>1, <2>0, <3>2, <4>1, <4>2 DEF About, LastComing
    <3> QED
      BY <3>1, <3>2
  <2>7. ~ Coming(o)' /\ Coming(o) => Mentions(x, o)
    <3>1. CASE TypeOf[o] # c
      BY <1>1, <2>0, <3>1 DEF Coming
    <3>2. CASE TypeOf[o] = c
      <4> SUFFICES ASSUME NEW k \in 1..Len(wire[c]), wire[c][k].order = o,
                          \A j \in 1..Len(wire'[c]) : wire'[c][j].order # o
                   PROVE  x.order = o
        BY <1>1, <1>5, <3>2 DEF Coming
      <4>1. k = 1 \/ k \in 2..Len(wire[c])
        OBVIOUS
      <4> QED
        BY <1>6, <4>1 DEF x
    <3> QED
      BY <3>1, <3>2
  <2>8. ~ Coming(o)' /\ Mentions(x, o) => x.state = truth[o]
    <3> SUFFICES ASSUME Mentions(x, o), ~ Coming(o)' PROVE x.state = truth[o]
      OBVIOUS
    <3>1. TypeOf[o] = c /\ wire[c][1].order = o
      BY <1>5, <2>1 DEF x
    <3>2. \A j \in (1 + 1)..Len(wire[c]) : wire[c][j].order # o
      BY <1>6, <3>1 DEF Coming
    <3> QED
      BY <1>3, <2>0, <3>1, <3>2 DEF About, LastComing, x
  <2>9. subscribed /\ ~ lagged' =>
          /\ Queued(o)' <=> Queued(o) \/ Mentions(x, o)
          /\ (\A k \in 1..Len(queue') : queue'[k].kind = "report") =>
               \A k \in 1..Len(queue) : queue[k].kind = "report"
          /\ Mentions(x, o) /\ x.state = truth[o] => Final(o)'
          /\ ~ Mentions(x, o) /\ Final(o) => Final(o)'
    BY <1>1, <1>4, <1>t, Grown
  <2>10. LastQueued(o)'
    <3> SUFFICES ASSUME conn[TypeOf[o]] = "up", ~ lagged', subscribed, ~ Coming(o)' PROVE Final(o)'
      BY <1>1 DEF LastQueued
    <3>1. CASE Mentions(x, o)
      BY <2>8, <2>9, <3>1
    <3>2. CASE ~ Mentions(x, o)
      BY <1>4, <2>0, <2>7, <2>9, <3>2 DEF About, LastQueued
    <3> QED
      BY <3>1, <3>2
  <2>11. Caught(o)' => Caught(o)
    BY <1>1, <1>4, <2>7, <2>9 DEF Caught
  <2>12. Sound(o)'
    BY <1>1, <2>0, <2>11 DEF About, Sound, Open
  <2> QED
    BY <2>4, <2>5, <2>6, <2>10, <2>12 DEF About
<1> QED
  BY <1>7, <1>8, <1>9 DEF TrackerInv

(* An item that is about no order is queued.                               *)
LEMMA Announced ==
  ASSUME QueueOK, NEW o \in Order, Timed(o), NEW x \in Items, x.kind # "report", Enqueue(x), truth' = truth
  PROVE  /\ QueueOK'
         /\ \A k \in 1..Len(queue') : Mentions(queue'[k], o) =>
              queue'[k].state.ver >= 1 /\ queue'[k].state.time <= truth'[o].time
         /\ ~ Queued(o) => ~ Queued(o)'
         /\ subscribed /\ ~ lagged' =>
              /\ ~ lagged
              /\ ~ \A k \in 1..Len(queue') : queue'[k].kind = "report"
              /\ Final(o) \/ x.kind = "reconnected" => Final(o)'
<1>1. /\ QueueOK' /\ (lagged => lagged')
      /\ \A k \in 1..Len(queue') : queue'[k] = x \/ \E j \in 1..Len(queue) : queue'[k] = queue[j]
      /\ subscribed /\ ~ lagged' =>
           /\ Len(queue') = Len(queue) + 1 /\ queue'[Len(queue) + 1] = x
           /\ \A k \in 1..Len(queue) : queue'[k] = queue[k]
  BY EnqueueFacts
<1>2. ~ Mentions(x, o)
  BY DEF Mentions
<1>3. /\ \A k \in 1..Len(queue') : Mentions(queue'[k], o) =>
           queue'[k].state.ver >= 1 /\ queue'[k].state.time <= truth'[o].time
      /\ ~ Queued(o) => ~ Queued(o)'
  BY <1>1, <1>2, OldOrNew
<1>4. subscribed /\ ~ lagged' =>
        /\ (\A k \in 1..Len(queue') : queue'[k].kind = "report") => x.kind = "report"
        /\ x.kind = "reconnected" => Final(o)'
        /\ ~ Mentions(x, o) /\ Final(o) => Final(o)'
  BY <1>1, Grown
<1> QED
  BY <1>1, <1>2, <1>3, <1>4

(* A connection goes down.                                                 *)
LEMMA DisconnectKeeps ==
  ASSUME TrackerInv, TypeOK', NEW c \in Type, Disconnect(c)
  PROVE  TrackerInv'
<1>t. NetOK /\ QueueOK /\ SyncOK /\ OwnerOK
  BY TypeParts DEF TrackerInv
<1>1. /\ conn[c] = "up" /\ conn' = [conn EXCEPT ![c] = "down"] /\ wire' = [wire EXCEPT ![c] = <<>>]
      /\ UNCHANGED <<truth, queue, lagged, task, reply, view, synced, blind, owner, subscribed>>
  BY DEF Disconnect, exchangeVars, queueVars, syncVars, ownerVars
<1>2. conn'[c] = "down" /\ wire'[c] = <<>>
      /\ \A d \in Type \ {c} : conn'[d] = conn[d] /\ wire'[d] = wire[d]
  BY <1>1, <1>t DEF NetOK
<1>3. Own'
  BY <1>2 DEF TrackerInv, Own
<1>4. Ends'
  BY <1>1, <1>2 DEF TrackerInv, Ends
<1>5. ASSUME NEW o \in Order PROVE About(o)'
  <2>0. About(o) /\ TypeOf[o] \in Type
    BY TypeOfAssumption DEF TrackerInv
  <2>1. CASE TypeOf[o] = c
    <3>1. Timed(o)'
      BY <1>1, <1>2, <2>0, <2>1 DEF About, Timed
    <3>2. Early(o)' /\ LastQueued(o)' /\ Sound(o)'
      BY <1>2, <2>1 DEF Early, LastQueued, Sound, Caught
    <3>3. LastComing(o)'
      BY <1>2, <2>1 DEF LastComing
    <3> QED
      BY <3>1, <3>2, <3>3 DEF About
  <2>2. CASE TypeOf[o] # c
    <3>0. conn'[TypeOf[o]] = conn[TypeOf[o]] /\ wire'[TypeOf[o]] = wire[TypeOf[o]]
      BY <1>2, <2>0, <2>2
    <3>1. Timed(o)' /\ Early(o)' /\ LastComing(o)'
      BY <1>1, <2>0, <3>0 DEF About, Timed, Early, LastComing, Queued
    <3>2. LastQueued(o)' /\ (Caught(o)' => Caught(o))
      BY <1>1, <2>0, <3>0 DEF About, LastQueued, Final, Coming, Caught, Queued
    <3>3. Sound(o)'
      BY <1>1, <2>0, <3>2 DEF About, Sound, Open
    <3> QED
      BY <3>1, <3>2, <3>3 DEF About
  <2> QED
    BY <2>1, <2>2
<1> QED
  BY <1>3, <1>4, <1>5 DEF TrackerInv

(* A connection comes up for the first time, or again, or is given up.     *)
LEMMA ConnKeeps ==
  ASSUME TrackerInv, TypeOK', NEW c \in Type, ConnectFirst(c) \/ ConnectAgain(c) \/ GiveUp(c)
  PROVE  TrackerInv'
<1>t. NetOK /\ QueueOK /\ SyncOK /\ OwnerOK
  BY TypeParts DEF TrackerInv
<1>1. /\ conn[c] \in {"starting", "down"}
      /\ conn' = [conn EXCEPT ![c] = "up"] \/ conn' = [conn EXCEPT ![c] = "dead"]
      /\ UNCHANGED <<truth, wire, task, reply, view, synced, blind, owner, subscribed>>
  BY DEF ConnectFirst, ConnectAgain, GiveUp, exchangeVars, syncVars, ownerVars
<1>2. \A d \in Type \ {c} : conn'[d] = conn[d]
  BY <1>1, <1>t DEF NetOK
<1>3. Own'
  BY <1>1 DEF TrackerInv, Own
<1>4. Ends'
  <2>1. conn[c] # "dead"
    BY <1>1
  <2> QED
    BY <1>1, <2>1 DEF TrackerInv, Ends
<1>5. ASSUME NEW o \in Order PROVE About(o)'
  <2>0. About(o) /\ TypeOf[o] \in Type
    BY TypeOfAssumption DEF TrackerInv
  <2>1. LastComing(o)' /\ (Coming(o)' <=> Coming(o))
    BY <1>1, <2>0 DEF About, LastComing, Coming
  <2>2. CASE ConnectFirst(c)
    <3>1. conn[c] = "starting" /\ conn' = [conn EXCEPT ![c] = "up"] /\ UNCHANGED <<queue, lagged>>
      BY <2>2 DEF ConnectFirst, queueVars
    <3>2. Timed(o)'
      BY <1>1, <2>0, <3>1 DEF About, Timed
    <3>3. Early(o)'
      BY <1>t, <2>0, <3>1 DEF About, Early, Queued, NetOK
    <3>4. LastQueued(o)'
      <4>1. CASE TypeOf[o] = c
        BY <2>0, <3>1, <4>1 DEF About, Early, Queued, LastQueued, Final
      <4>2. CASE TypeOf[o] # c
        BY <1>1, <1>2, <2>0, <2>1, <3>1, <4>2 DEF About, LastQueued, Final
      <4> QED
        BY <4>1, <4>2
    <3>5. Caught(o)' => Caught(o)
      BY <1>1, <1>2, <2>0, <2>1, <3>1 DEF Caught, Queued
    <3>6. Sound(o)'
      BY <1>1, <2>0, <3>5 DEF About, Sound, Open
    <3> QED
      BY <2>1, <3>2, <3>3, <3>4, <3>6 DEF About
  <2>3. ASSUME NEW x \in {RECONNECTED, ERROR}, Enqueue(x), conn'[c] \in {"up", "dead"},
               conn'[c] = "up" => x.kind = "reconnected"
        PROVE  About(o)'
    <3>1. x \in Items /\ x.kind # "report"
      BY ItemKinds
    <3>2. /\ \A k \in 1..Len(queue') : Mentions(queue'[k], o) =>
               queue'[k].state.ver >= 1 /\ queue'[k].state.time <= truth'[o].time
          /\ ~ Queued(o) => ~ Queued(o)'
          /\ subscribed /\ ~ lagged' =>
               /\ ~ lagged
               /\ ~ \A k \in 1..Len(queue') : queue'[k].kind = "report"
               /\ Final(o) \/ x.kind = "reconnected" => Final(o)'
      BY <1>1, <1>t, <2>0, <2>3, <3>1, Announced DEF About
    <3>3. Timed(o)'
      BY <1>1, <2>0, <3>2 DEF About, Timed
    <3>4. Early(o)'
      BY <1>2, <2>0, <2>3, <3>2 DEF About, Early
    <3>5. LastQueued(o)'
      BY <1>1, <1>2, <2>0, <2>1, <2>3, <3>2 DEF About, LastQueued
    <3>6. Sound(o)'
      BY <1>1, <3>2 DEF Sound, Caught
    <3> QED
      BY <2>1, <3>3, <3>4, <3>5, <3>6 DEF About
  <2>4. CASE ConnectAgain(c)
    <3>1. Enqueue(RECONNECTED) /\ conn'[c] = "up"
      BY <1>t, <2>4 DEF ConnectAgain, NetOK
    <3> QED
      BY <2>3, <3>1, ItemKinds
  <2>5. CASE GiveUp(c)
    <3>1. Enqueue(ERROR) /\ conn'[c] = "dead"
      BY <1>t, <2>5 DEF GiveUp, NetOK
    <3> QED
      BY <2>3, <3>1
  <2> QED
    BY <2>2, <2>4, <2>5
<1> QED
  BY <1>3, <1>4, <1>5 DEF TrackerInv

(* The subscription ends: with the client or with the tracker.             *)
LEMMA EndKeeps ==
  ASSUME TrackerInv, TypeOK', CloseClient \/ AcloseFinishes
  PROVE  TrackerInv'
<1>t. NetOK /\ QueueOK /\ SyncOK /\ OwnerOK
  BY TypeParts DEF TrackerInv
<1>1. /\ ~ subscribed' /\ UNCHANGED <<truth, task, reply, view, synced, blind>>
      /\ \A k \in 1..Len(queue') : queue'[k] = CLOSED \/ \E j \in 1..Len(queue) : queue'[k] = queue[j]
      /\ \A c \in Type : wire'[c] = <<>> \/ wire'[c] = wire[c]
      /\ conn' = conn \/ \A c \in Type : conn'[c] = "dead"
  <2>1. CASE CloseClient
    <3>1. /\ Enqueue(CLOSED) /\ subscribed' = FALSE /\ UNCHANGED <<truth, task, reply, view, synced, blind>>
          /\ conn' = [d \in Type |-> "dead"] /\ wire' = [d \in Type |-> <<>>]
      BY <2>1 DEF CloseClient, exchangeVars, syncVars
    <3>2. \A k \in 1..Len(queue') : queue'[k] = CLOSED \/ \E j \in 1..Len(queue) : queue'[k] = queue[j]
      BY <1>t, <3>1, EnqueueFacts, ItemKinds
    <3> QED
      BY <3>1, <3>2
  <2>2. CASE AcloseFinishes
    <3>1. /\ queue' = Offer(queue, MaxSize, CLOSED) /\ subscribed' = FALSE
          /\ UNCHANGED <<truth, wire, conn, task, reply, view, synced, blind>>
      BY <2>2 DEF AcloseFinishes, exchangeVars, connVars, syncVars
    <3>2. queue \in Seq(Items) /\ Len(queue) <= MaxSize /\ CLOSED \in Items
      BY <1>t, ItemKinds DEF QueueOK
    <3>3. \A k \in 1..Len(queue') : queue'[k] = CLOSED \/ \E j \in 1..Len(queue) : queue'[k] = queue[j]
      BY <3>1, <3>2, OfferFacts
    <3> QED
      BY <3>1, <3>3
  <2> QED
    BY <2>1, <2>2
<1>2. Own'
  BY <1>1 DEF TrackerInv, Own
<1>3. Ends'
  BY <1>1 DEF TrackerInv, Ends, CloseClient, AcloseFinishes, exchangeVars, connVars, syncVars
<1>4. ASSUME NEW o \in Order PROVE About(o)'
  <2>0. About(o) /\ TypeOf[o] \in Type /\ ~ Mentions(CLOSED, o)
    BY TypeOfAssumption, ItemKinds DEF TrackerInv, Mentions
  <2>1. /\ \A k \in 1..Len(queue') : Mentions(queue'[k], o) =>
             queue'[k].state.ver >= 1 /\ queue'[k].state.time <= truth'[o].time
        /\ ~ Queued(o) => ~ Queued(o)'
    BY <1>1, <2>0, OldOrNew DEF About
  <2>2. Timed(o)'
    BY <1>1, <2>0, <2>1 DEF About, Timed
  <2>3. Early(o)'
    BY <1>1, <2>0, <2>1 DEF About, Early
  <2>4. LastComing(o)'
    BY <1>1, <2>0 DEF About, LastComing
  <2>5. LastQueued(o)' /\ Sound(o)'
    BY <1>1 DEF LastQueued, Sound, Caught
  <2> QED
    BY <2>2, <2>3, <2>4, <2>5 DEF About
<1> QED
  BY <1>2, <1>3, <1>4 DEF TrackerInv

(* The steps of the sync task that leave the queue alone, and aclose().    *)
LEMMA SeedKeeps ==
  ASSUME TrackerInv, TypeOK', ServeOpenOrders \/ SeedArrives \/ SeedFails \/ Aclose
  PROVE  TrackerInv'
<1>t. NetOK /\ QueueOK /\ SyncOK /\ OwnerOK
  BY TypeParts DEF TrackerInv
<1>1. /\ UNCHANGED <<wire, conn, subscribed>>
      /\ task' = "none" \/ (task = "seeding" /\ owner' = owner)
  BY DEF ServeOpenOrders, SeedArrives, SeedFails, Aclose, exchangeVars, connVars, queueVars, ownerVars
<1>2. Own'
  BY <1>1 DEF TrackerInv, Own
<1>3. Ends'
  BY <1>1 DEF TrackerInv, Ends
<1>4. ASSUME NEW o \in Order PROVE About(o)'
  <2>0. About(o)
    BY DEF TrackerInv
  <2>1. Early(o)' /\ LastComing(o)' /\ LastQueued(o)'
    <3>1. UNCHANGED <<truth, wire, conn, queue, lagged, subscribed>>
      BY DEF ServeOpenOrders, SeedArrives, SeedFails, Aclose, exchangeVars, connVars, queueVars, ownerVars
    <3> QED
      BY <2>0, <3>1 DEF About, Early, LastComing, LastQueued, Queued, Coming, Final
  <2>2. view[o].time \in Nat /\ truth[o].time \in Nat /\ \A r \in reply : r[o].time \in Nat
    BY <1>t DEF SyncOK, NetOK, State
  <2>3. CASE ServeOpenOrders
    <3>1. task = "seeding" /\ reply' = {truth} /\ UNCHANGED <<truth, wire, queue, task, view>>
      BY <2>3 DEF ServeOpenOrders, exchangeVars, connVars, queueVars
    <3>2. Timed(o)'
      BY <2>0, <2>2, <3>1 DEF About, Timed
    <3>3. Sound(o)'
      BY <3>1 DEF Sound
    <3> QED
      BY <2>1, <3>2, <3>3 DEF About
  <2>4. CASE SeedArrives
    <3>1. /\ reply' = {} /\ UNCHANGED <<truth, wire, conn, queue, lagged, blind, subscribed>>
          /\ \E r \in reply : view' = Open(r)
      BY <2>4 DEF SeedArrives, exchangeVars, connVars, queueVars, ownerVars
    <3>2. PICK r \in reply : view' = Open(r)
      BY <3>1
    <3>3. view'[o] = IF r[o].ver \in Active THEN r[o] ELSE Absent
      BY <3>2 DEF Open
    <3>4. Timed(o)'
      BY <2>0, <2>2, <3>1, <3>3 DEF About, Timed, Absent
    <3>5. Caught(o)' => Caught(o)
      BY <3>1 DEF Caught, Coming, Queued
    <3>6. Sound(o)'
      BY <2>0, <3>1, <3>3, <3>5 DEF About, Sound, Open
    <3> QED
      BY <2>1, <3>4, <3>6 DEF About
  <2>5. CASE SeedFails \/ Aclose
    <3>1. /\ reply' = {} /\ task' # "reading" /\ UNCHANGED <<truth, wire, queue, view>>
      BY <2>5 DEF SeedFails, Aclose, exchangeVars, connVars, queueVars
    <3>2. Timed(o)'
      BY <2>0, <3>1 DEF About, Timed
    <3>3. Sound(o)'
      BY <3>1 DEF Sound
    <3> QED
      BY <2>1, <3>2, <3>3 DEF About
  <2> QED
    BY <2>3, <2>4, <2>5
<1> QED
  BY <1>2, <1>3, <1>4 DEF TrackerInv

(* What taking an item leaves of the facts about an order.                 *)
LEMMA TakeKeeps ==
  ASSUME TrackerInv, NEW kind, Take(kind), NEW o \in Order
  PROVE  /\ Early(o)' /\ LastComing(o)' /\ LastQueued(o)'
         /\ \A k \in 1..Len(queue') : Mentions(queue'[k], o) =>
              queue'[k].state.ver >= 1 /\ queue'[k].state.time <= truth'[o].time
         /\ \A k \in 2..Len(queue) : queue[k] = queue'[k - 1] /\ k - 1 \in 1..Len(queue')
<1>t. NetOK /\ QueueOK
  BY TypeParts DEF TrackerInv
<1>1. /\ UNCHANGED <<truth, wire, conn, lagged, subscribed>>
      /\ Len(queue') = Len(queue) - 1
      /\ \A k \in 1..Len(queue') : queue'[k] = queue[k + 1] /\ k + 1 \in 1..Len(queue)
  BY <1>t, TakeFacts
<1>2. About(o) /\ Len(queue) \in Nat
  BY <1>t DEF TrackerInv, QueueOK
<1>3. /\ \A k \in 1..Len(queue') : Mentions(queue'[k], o) =>
           queue'[k].state.ver >= 1 /\ queue'[k].state.time <= truth'[o].time
      /\ Queued(o)' => Queued(o)
      /\ \A k \in 2..Len(queue) : queue[k] = queue'[k - 1] /\ k - 1 \in 1..Len(queue')
      /\ Final(o) => Final(o)'
  BY <1>1, <1>2, Shifted DEF About
<1>4. LastComing(o)' /\ (Coming(o)' <=> Coming(o))
  BY <1>1, <1>2 DEF About, LastComing, Coming
<1> QED
  BY <1>1, <1>2, <1>3, <1>4 DEF About, Early, LastQueued

(* The sync task takes a reconnect, or the end of its subscription.        *)
LEMMA StopKeeps ==
  ASSUME TrackerInv, TypeOK', TakeReconnected \/ StreamStops
  PROVE  TrackerInv'
<1>t. NetOK /\ QueueOK /\ SyncOK /\ OwnerOK
  BY TypeParts DEF TrackerInv
<1>1. PICK kind \in {"reconnected", "closed", "error"} : Take(kind)
  BY DEF TakeReconnected, StreamStops
<1>2. task = "reading" /\ task' # "reading" /\ UNCHANGED <<reply, view>>
  BY DEF TakeReconnected, StreamStops, Take
<1>3. UNCHANGED <<truth, wire, conn, owner, subscribed>>
  BY <1>1, <1>t, TakeFacts
<1>4. Own' /\ Ends'
  BY <1>2, <1>3 DEF TrackerInv, Own, Ends
<1>5. ASSUME NEW o \in Order PROVE About(o)'
  <2>1. /\ Early(o)' /\ LastComing(o)' /\ LastQueued(o)'
        /\ \A k \in 1..Len(queue') : Mentions(queue'[k], o) =>
             queue'[k].state.ver >= 1 /\ queue'[k].state.time <= truth'[o].time
    BY <1>1, TakeKeeps
  <2>2. Timed(o)'
    BY <1>2, <1>3, <2>1 DEF TrackerInv, About, Timed
  <2>3. Sound(o)'
    BY <1>2, <1>t DEF Sound, SyncOK
  <2> QED
    BY <2>1, <2>2, <2>3 DEF About
<1> QED
  BY <1>4, <1>5 DEF TrackerInv

(* The sync task applies a report.                                         *)
LEMMA ApplyKeeps ==
  ASSUME TrackerInv, TypeOK', TakeReport
  PROVE  TrackerInv'
<1>t. NetOK /\ QueueOK /\ SyncOK /\ OwnerOK
  BY TypeParts DEF TrackerInv
<1> DEFINE p == queue[1].order
           s == queue[1].state
<1>1. /\ Take("report") /\ view' = ApplyReport(view, Head(queue).order, Head(queue).state)
      /\ UNCHANGED <<task, reply, blind>>
  BY DEF TakeReport
<1>2. /\ UNCHANGED <<truth, wire, conn, lagged, owner, subscribed>>
      /\ task = "reading" /\ reply = {} /\ Head(queue) = queue[1] /\ Len(queue) >= 1
      /\ queue[1] \in Items /\ queue[1].kind = "report"
  BY <1>1, <1>t, TakeFacts DEF SyncOK
<1>3. /\ p \in Order /\ s \in State /\ queue[1] \in Reports
      /\ view' = ApplyReport(view, p, s) /\ 1 \in 1..Len(queue) /\ Len(queue) \in Nat
  BY <1>1, <1>2, <1>t, ItemKinds DEF QueueOK
<1>4. \A o \in Order : Mentions(queue[1], o) <=> o = p
  BY <1>2 DEF Mentions
<1> HIDE DEF p
<1>5. Own' /\ Ends'
  BY <1>1, <1>2 DEF TrackerInv, Own, Ends
<1>6. ASSUME NEW o \in Order PROVE About(o)'
  <2>0. About(o)
    BY DEF TrackerInv
  <2>1. /\ Early(o)' /\ LastComing(o)' /\ LastQueued(o)'
        /\ \A k \in 1..Len(queue') : Mentions(queue'[k], o) =>
             queue'[k].state.ver >= 1 /\ queue'[k].state.time <= truth'[o].time
        /\ \A k \in 2..Len(queue) : queue[k] = queue'[k - 1] /\ k - 1 \in 1..Len(queue')
    BY <1>1, TakeKeeps
  <2>2. \A k \in 1..Len(queue) : k = 1 \/ k \in 2..Len(queue)
    BY <1>3
  <2>3. o # p => view'[o] = view[o]
    BY <1>3, <1>t DEF ApplyReport, SyncOK
  <2>4. o = p => /\ s.ver >= 1 /\ s.time <= truth[o].time /\ s.ver \in 0..3
                 /\ s.time \in Nat /\ truth[o].time \in Nat /\ view[o].time \in Nat
                 /\ view'[o] = (IF view[o] # Absent /\ s.time < view[o].time THEN view[o]
                                ELSE IF s.ver \in Terminal THEN Absent ELSE s)
    <3> SUFFICES ASSUME o = p PROVE /\ s.ver >= 1 /\ s.time <= truth[o].time /\ s.ver \in 0..3
                 /\ s.time \in Nat /\ truth[o].time \in Nat /\ view[o].time \in Nat
                 /\ view'[o] = (IF view[o] # Absent /\ s.time < view[o].time THEN view[o]
                                ELSE IF s.ver \in Terminal THEN Absent ELSE s)
      OBVIOUS
    <3>1. s.ver >= 1 /\ s.time <= truth[o].time
      BY <1>3, <1>4, <2>0 DEF About, Timed
    <3>2. s.ver \in 0..3 /\ s.time \in Nat /\ truth[o].time \in Nat /\ view[o].time \in Nat
      BY <1>3, <1>t DEF NetOK, SyncOK, State
    <3>3. view'[o] = (IF view[o] # Absent /\ s.time < view[o].time THEN view[o]
                      ELSE IF s.ver \in Terminal THEN Absent ELSE s)
      BY <1>3, <1>t DEF ApplyReport, SyncOK
    <3> QED
      BY <3>1, <3>2, <3>3
  <2>5. Timed(o)'
    <3>1. view'[o].time <= truth'[o].time
      BY <1>2, <2>0, <2>3, <2>4 DEF About, Timed, Absent
    <3> QED
      BY <1>1, <1>2, <2>0, <2>1, <3>1 DEF About, Timed
  <2>6. Caught(o)' => \A k \in 1..Len(queue) : queue[k].kind = "report"
    BY <1>2, <2>1, <2>2 DEF Caught
  <2>7. Caught(o)' => \A k \in 2..Len(queue) : ~ Mentions(queue[k], o)
    BY <2>1 DEF Caught, Queued
  <2>8. CASE o # p
    <3>1. Caught(o)' => Caught(o)
      BY <1>1, <1>2, <1>4, <2>2, <2>6, <2>7, <2>8 DEF Caught, Queued, Coming
    <3> QED
      BY <1>1, <1>2, <2>0, <2>1, <2>3, <2>5, <2>8, <3>1 DEF About, Sound, Open
  <2>9. CASE o = p
    <3>1. Caught(o)' => Final(o)
      <4>1. Queued(o)
        BY <1>3, <1>4, <2>9 DEF Queued
      <4> QED
        BY <1>2, <2>0, <4>1 DEF About, Early, LastQueued, Caught, Coming
    <3>2. Caught(o)' => s = truth[o]
      <4> SUFFICES ASSUME Caught(o)' PROVE s = truth[o]
        OBVIOUS
      <4>1. \A j \in (1 + 1)..Len(queue) : ~ Mentions(queue[j], o) /\ queue[j].kind # "reconnected"
        BY <2>2, <2>6, <2>7
      <4> QED
        BY <1>3, <1>4, <2>9, <3>1, <4>1 DEF Final
    <3>3. Caught(o)' => view'[o] = Open(truth)[o]
      <4> SUFFICES ASSUME Caught(o)' PROVE view'[o] = Open(truth)[o]
        OBVIOUS
      <4>1. view[o].time <= s.time
        BY <2>0, <3>2 DEF About, Timed
      <4>2. view'[o] = IF s.ver \in Terminal THEN Absent ELSE s
        BY <2>4, <2>9, <4>1
      <4>3. s.ver \in {1, 2, 3}
        BY <2>4, <2>9
      <4> QED
        BY <3>2, <4>2, <4>3 DEF Open, Active, Terminal
    <3>4. Sound(o)'
      BY <1>1, <1>2, <3>3 DEF Sound, Open
    <3> QED
      BY <2>1, <2>5, <3>4 DEF About
  <2> QED
    BY <2>8, <2>9
<1> QED
  BY <1>5, <1>6 DEF TrackerInv

LEMMA InitTracker == Init => TrackerInv
<1> SUFFICES ASSUME Init PROVE TrackerInv
  OBVIOUS
<1>1. TypeOK
  BY InitTypes
<1>2. Ends /\ Own
  BY DEF Init, Ends, Own
<1>3. ASSUME NEW o \in Order PROVE About(o)
  <2>1. /\ truth[o].time >= 0 /\ view[o].time = 0 /\ reply = {} /\ queue = <<>>
        /\ wire[TypeOf[o]] = <<>> /\ task = "seeding"
    BY TypeOfAssumption, BoundAssumption DEF Init, Absent
  <2>2. Timed(o) /\ Early(o)
    BY <2>1, <1>1 DEF Timed, Early, Queued
  <2>3. LastComing(o) /\ LastQueued(o) /\ Sound(o)
    BY <2>1 DEF LastComing, LastQueued, Final, Sound
  <2> QED
    BY <2>2, <2>3 DEF About
<1> QED
  BY <1>1, <1>2, <1>3 DEF TrackerInv

LEMMA StepTracker == TrackerInv /\ [Next]_vars => TrackerInv'
<1> SUFFICES ASSUME TrackerInv, [Next]_vars PROVE TrackerInv'
  OBVIOUS
<1>1. TypeOK'
  BY StepTypes DEF TrackerInv
<1>2. CASE UNCHANGED vars
  BY <1>1, <1>2 DEF vars, exchangeVars, connVars, queueVars, syncVars, ownerVars, TrackerInv, Ends, Own,
                    About, Timed, Early, LastComing, LastQueued, Sound, Caught, Coming, Queued, Final, Open
<1>3. CASE Next
  BY <1>1, <1>3, ChangeKeeps, DeliverKeeps, DisconnectKeeps, ConnKeeps, EndKeeps, SeedKeeps, StopKeeps, ApplyKeeps
     DEF Next, Connections, Sync
<1> QED
  BY <1>2, <1>3

LEMMA TrackerAlways == Spec => []TrackerInv
  BY InitTracker, StepTracker, PTL DEF Spec

(* When nothing is on its way and the queue has not overflowed, the view   *)
(* is the exchange's open orders, but for orders that changed before their *)
(* connection first came up.                                               *)
THEOREM TrueAtRest == Spec => []TrueWhenQuiet
<1>1. TrackerInv => TrueWhenQuiet
  <2> SUFFICES ASSUME TrackerInv, Quiet, ~ lagged, NEW o \in Order \ blind
               PROVE  view[o] = Open(truth)[o]
    BY DEF TrueWhenQuiet
  <2>1. TypeOf[o] \in Type /\ task = "reading" /\ queue = <<>> /\ \A c \in Type : conn[c] = "up" /\ wire[c] = <<>>
    BY TypeOfAssumption DEF Quiet
  <2>2. subscribed
    BY <2>1 DEF TrackerInv, Ends
  <2>3. Caught(o)
    BY <2>1, <2>2 DEF Caught, Coming, Queued
  <2> QED
    BY <2>1, <2>3 DEF TrackerInv, About, Sound
<1> QED
  BY <1>1, TrackerAlways, PTL

(* An order that stays in the view never goes back to an older update.     *)
THEOREM NeverGoesBack == Spec => NeverOlder
<1> DEFINE Forward == \A o \in Order : view[o] # Absent /\ view'[o] # Absent => view'[o].time >= view[o].time
<1>1. TrackerInv /\ [Next]_vars => [Forward]_vars
  <2> SUFFICES ASSUME TrackerInv, Next, NEW o \in Order, view[o] # Absent, view'[o] # Absent
               PROVE  view'[o].time >= view[o].time
    OBVIOUS
  <2>t. NetOK /\ QueueOK /\ SyncOK
    BY TypeParts DEF TrackerInv
  <2>0. view[o].time \in Nat /\ \A r \in reply : r[o].time \in Nat
    BY <2>t DEF SyncOK, State
  <2>1. CASE SeedArrives
    <3>1. PICK r \in reply : view' = Open(r)
      BY <2>1 DEF SeedArrives
    <3>2. view'[o] = r[o] /\ view[o].time <= r[o].time
      BY <3>1 DEF TrackerInv, About, Timed, Open
    <3> QED
      BY <2>0, <3>2
  <2>2. CASE TakeReport
    <3>1. Head(queue).order \in Order /\ Head(queue).state \in State
      BY <2>2, <2>t, TakeFacts, ItemKinds DEF TakeReport
    <3>2. view'[o] = view[o] \/ (~ Head(queue).state.time < view[o].time /\ view'[o] = Head(queue).state)
      BY <2>2, <2>t, <3>1 DEF TakeReport, ApplyReport, SyncOK
    <3> QED
      BY <2>0, <3>1, <3>2 DEF State
  <2>3. ASSUME view' = view PROVE view'[o].time >= view[o].time
    BY <2>0, <2>3
  <2>4. CASE Change \/ Connections \/ Aclose \/ AcloseFinishes \/ ServeOpenOrders \/ SeedFails
              \/ TakeReconnected \/ StreamStops
    <3>1. view' = view
      BY <2>4 DEF Change, Connections, Deliver, Disconnect, ConnectFirst, ConnectAgain, GiveUp, CloseClient, Aclose,
                  AcloseFinishes, ServeOpenOrders, SeedFails, TakeReconnected, StreamStops, syncVars
    <3> QED
      BY <2>3, <3>1
  <2> QED
    BY <2>1, <2>2, <2>4 DEF Next, Sync
<1> QED
  BY <1>1, TrackerAlways, PTL DEF Spec, NeverOlder

=============================================================================
