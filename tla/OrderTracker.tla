----------------------------- MODULE OrderTracker -----------------------------
(***************************************************************************)
(* The local view of open orders: ordertracker.py (LocalOrderView,         *)
(* OrderTrackerSynchronizer.run, OrderTracker), fed by the user-data       *)
(* connections of userstream.py through one drop-oldest _Subscription, and *)
(* by REST openOrders.                                                     *)
(*                                                                         *)
(* The exchange is external: an order goes through versions 1 NEW,         *)
(* 2 PARTIALLY_FILLED, 3 terminal (FILLED, CANCELED, REJECTED or EXPIRED), *)
(* some of which may be skipped, and each change is reported once, on the  *)
(* connection of the order's symbol type, with the update time.  Update    *)
(* times have a coarse clock: changes may share one.                       *)
(***************************************************************************)
EXTENDS Naturals, Sequences, Subscription

CONSTANTS
  Order,
  Type,      \* symbol types: one listenKey and one connection each
  TypeOf,    \* the symbol type of each order
  MaxSize,   \* _QUEUE_MAXSIZE
  MaxTime,   \* bound: update times
  MaxDrops   \* bound: times a connection goes down

ASSUME TypeOfAssumption  == TypeOf \in [Order -> Type]
ASSUME MaxSizeAssumption == MaxSize \in Nat \ {0}
ASSUME BoundAssumption   == MaxTime \in Nat /\ MaxDrops \in Nat

VARIABLES
  truth,      \* the exchange's version and update time of each order
  wire,       \* reports on their way on each connection
  conn,       \* each connection: "starting", "up", "down" or "dead"
  drops,      \* times a connection went down
  queue,      \* _Subscription._queue
  lagged,     \* _Subscription.lagged > 0
  task,       \* the _run task; "none" once aclose() has taken it
  reply,      \* what openOrders saw, on its way back: {} or a singleton
  view,       \* LocalOrderView._orders
  synced,     \* there is a view to read (_view is not None)
  blind,      \* (history) orders that changed, since the last snapshot, on a
              \* connection that had not been up yet
  owner,      \* the tracker's owner: "open", then aclose() "closing", "closed"
  subscribed  \* the _Subscription is still registered

exchangeVars == <<truth>>
connVars     == <<wire, conn, drops>>
queueVars    == <<queue, lagged>>
syncVars     == <<task, reply, view, synced, blind>>
ownerVars    == <<owner, subscribed>>
vars == <<exchangeVars, connVars, queueVars, syncVars, ownerVars>>

-----------------------------------------------------------------------------
(* Orders and their reports.                                               *)

State   == [ver : 0..3, time : 0..MaxTime]
Absent  == [ver |-> 0, time |-> 0]     \* not in a view
Active  == {1, 2}                      \* Order.is_active
Terminal == {3}                        \* _TERMINAL

Report(o, s) == [kind |-> "report", order |-> o, state |-> s]
RECONNECTED  == [kind |-> "reconnected"]
CLOSED       == [kind |-> "closed"]
ERROR        == [kind |-> "error"]

Reports == [kind : {"report"}, order : Order, state : State]
Items   == Reports \cup {RECONNECTED, CLOSED, ERROR}

Open(states) == [o \in Order |-> IF states[o].ver \in Active THEN states[o] ELSE Absent]

(* Mutant: a report is applied whatever its update time.                   *)
ApplyUnguarded(v, o, s) ==
  [v EXCEPT ![o] = IF s.ver \in Terminal THEN Absent ELSE s]

(* LocalOrderView.apply: drop a report that is older than what the view    *)
(* has, take a finished order out, put any other state in.                 *)
ApplyReport(v, o, s) ==
  CASE v[o] # Absent /\ s.time < v[o].time -> v
    [] OTHER -> [v EXCEPT ![o] = IF s.ver \in Terminal THEN Absent ELSE s]

-----------------------------------------------------------------------------
(* Offering to the tracker's subscription, while it is registered.         *)

Enqueue(item) ==
  IF subscribed
  THEN /\ queue' = Offer(queue, MaxSize, item)
       /\ lagged' = (lagged \/ Dropped(queue, MaxSize) # {})
  ELSE UNCHANGED queueVars

(* An order changes, and the exchange reports it if the connection is up.  *)
Change ==
  \E o \in Order, v \in 1..3, t \in 0..MaxTime :
    LET latest == {truth[p].time : p \in Order}
        s == [ver |-> v, time |-> t]
    IN /\ truth[o].ver < v
       /\ \A u \in latest : u <= t /\ \E w \in latest : t <= w + 1
       /\ truth' = [truth EXCEPT ![o] = s]
       /\ wire' = IF conn[TypeOf[o]] = "up"
                  THEN [wire EXCEPT ![TypeOf[o]] = Append(@, Report(o, s))]
                  ELSE wire
       /\ blind' = IF conn[TypeOf[o]] = "starting" THEN blind \cup {o} ELSE blind
       /\ UNCHANGED <<conn, drops, queueVars, task, reply, view, synced, ownerVars>>

(* The reader of a connection dispatches the next report.                  *)
Deliver(c) ==
  /\ wire[c] # <<>>
  /\ wire' = [wire EXCEPT ![c] = Tail(@)]
  /\ Enqueue(Head(wire[c]))
  /\ UNCHANGED <<exchangeVars, conn, drops, syncVars, ownerVars>>

(* The socket ends, or its listenKey expires, or the session timer closes  *)
(* it: what was on its way is lost.                                        *)
Disconnect(c) ==
  /\ conn[c] = "up"
  /\ drops < MaxDrops
  /\ conn' = [conn EXCEPT ![c] = "down"]
  /\ wire' = [wire EXCEPT ![c] = <<>>]
  /\ drops' = drops + 1
  /\ UNCHANGED <<exchangeVars, queueVars, syncVars, ownerVars>>

(* Connected: every connection after a connection's first broadcasts the   *)
(* sentinel before it reads anything.                                      *)
ConnectFirst(c) ==
  /\ conn[c] = "starting"
  /\ conn' = [conn EXCEPT ![c] = "up"]
  /\ UNCHANGED <<exchangeVars, wire, drops, queueVars, syncVars, ownerVars>>

(* Mutant: the reconnect is not broadcast.                                 *)
ConnectQuietly(c) ==
  /\ conn[c] = "down"
  /\ conn' = [conn EXCEPT ![c] = "up"]
  /\ UNCHANGED <<exchangeVars, wire, drops, queueVars, syncVars, ownerVars>>

ConnectAgain(c) ==
  /\ conn[c] = "down"
  /\ conn' = [conn EXCEPT ![c] = "up"]
  /\ Enqueue(RECONNECTED)
  /\ UNCHANGED <<exchangeVars, wire, drops, syncVars, ownerVars>>

(* A supervisor gives up (no key, no auth, no automatic reconnect): all    *)
(* subscriptions are faulted, while the other connection goes on.          *)
GiveUp(c) ==
  /\ conn[c] \in {"starting", "down"}
  /\ conn' = [conn EXCEPT ![c] = "dead"]
  /\ Enqueue(ERROR)
  /\ UNCHANGED <<exchangeVars, wire, drops, syncVars, ownerVars>>

(* UserDataStream.aclose: the connections stop, the subscription ends.     *)
CloseClient ==
  /\ \E c \in Type : conn[c] # "dead"
  /\ conn' = [c \in Type |-> "dead"]
  /\ wire' = [c \in Type |-> <<>>]
  /\ Enqueue(CLOSED)
  /\ subscribed' = FALSE
  /\ UNCHANGED <<exchangeVars, drops, syncVars, owner>>

-----------------------------------------------------------------------------
(* The sync task: OrderTrackerSynchronizer.run driven by OrderTracker._run. *)

Running == task \in {"seeding", "reading"}

(* openOrders reads the exchange at one moment between request and answer. *)
ServeOpenOrders ==
  /\ task = "seeding" /\ reply = {}
  /\ reply' = {truth}
  /\ blind' = {}
  /\ UNCHANGED <<exchangeVars, connVars, queueVars, task, view, synced, ownerVars>>

SeedArrives ==
  /\ task = "seeding"
  /\ \E states \in reply : view' = Open(states)
  /\ reply' = {}
  /\ synced' = TRUE
  /\ task' = "reading"
  /\ UNCHANGED <<exchangeVars, connVars, queueVars, blind, ownerVars>>

(* open_orders() raises: nothing catches it, and the task is over.         *)
SeedFails ==
  /\ task = "seeding"
  /\ task' = "dead"
  /\ reply' = {}
  /\ UNCHANGED <<exchangeVars, connVars, queueVars, view, synced, blind, ownerVars>>

Take(kind) ==
  /\ task = "reading"
  /\ queue # <<>> /\ Head(queue).kind = kind
  /\ queue' = Tail(queue)
  /\ UNCHANGED <<exchangeVars, connVars, lagged, ownerVars>>

TakeReport ==
  /\ Take("report")
  /\ view' = ApplyReport(view, Head(queue).order, Head(queue).state)
  /\ UNCHANGED <<task, reply, synced, blind>>

(* Mutant: the sentinel is skipped like any event that is no report.       *)
SkipReconnected ==
  /\ Take("reconnected")
  /\ UNCHANGED syncVars

(* The readers keep the old view until the new seed arrives.               *)
TakeReconnected ==
  /\ Take("reconnected")
  /\ task' = "seeding"
  /\ UNCHANGED <<reply, view, synced, blind>>

(* The iterator is exhausted, or raises.                                   *)
StreamStops ==
  /\ \/ Take("closed") /\ task' = "ended"
     \/ Take("error")  /\ task' = "dead"
  /\ UNCHANGED <<reply, view, synced, blind>>

-----------------------------------------------------------------------------
(* OrderTracker.aclose, as ManagedOrderBook.aclose: a task that died has   *)
(* its exception raised here, before the rest.                             *)
Aclose ==
  /\ owner \in {"open", "raised"}
  /\ owner' = IF task = "dead" THEN "raised" ELSE "closing"
  /\ task' = "none"
  /\ reply' = {}
  /\ UNCHANGED <<exchangeVars, connVars, queueVars, view, synced, blind, subscribed>>

(* The rest of aclose(): on_close unsubscribes.                            *)
AcloseFinishes ==
  /\ owner = "closing"
  /\ owner' = "closed"
  /\ subscribed' = FALSE
  /\ queue' = Offer(queue, MaxSize, CLOSED)
  /\ UNCHANGED <<exchangeVars, connVars, lagged, syncVars>>

-----------------------------------------------------------------------------

(* order_tracker() has subscribed and launched the task; orders may exist, *)
(* and the stream may have been started before.                            *)
Init ==
  /\ truth \in [Order -> {Absent, [ver |-> 1, time |-> 0]}]
  /\ wire = [c \in Type |-> <<>>]
  /\ conn \in [Type -> {"starting", "up"}]
  /\ drops = 0
  /\ queue = <<>> /\ lagged = FALSE
  /\ task = "seeding" /\ reply = {} /\ synced = FALSE
  /\ view = [o \in Order |-> Absent]
  /\ blind = {}
  /\ owner = "open" /\ subscribed = TRUE

Connections ==
  \/ \E c \in Type : Deliver(c) \/ Disconnect(c) \/ ConnectFirst(c) \/ ConnectAgain(c) \/ GiveUp(c)
  \/ CloseClient

Sync == ServeOpenOrders \/ SeedArrives \/ SeedFails \/ TakeReport \/ TakeReconnected \/ StreamStops

Next == Change \/ Connections \/ Sync \/ Aclose \/ AcloseFinishes

Spec == Init /\ [][Next]_vars

(* The event loop runs the readers and the sync task, and every REST call  *)
(* is answered or times out.  Nothing is assumed of the network or the     *)
(* exchange.                                                               *)
FairSpec ==
  /\ Spec
  /\ WF_vars(Sync)
  /\ \A c \in Type : WF_vars(Deliver(c))

-----------------------------------------------------------------------------
(* Properties.                                                             *)

(* Shape of the state; the queue never outgrows _QUEUE_MAXSIZE, and only a *)
(* connection that is up has reports on its way.                           *)
TypeOK ==
  /\ truth \in [Order -> State]
  /\ wire \in [Type -> Seq(Reports)]
  /\ conn \in [Type -> {"starting", "up", "down", "dead"}]
  /\ \A c \in Type : wire[c] # <<>> => conn[c] = "up"
  /\ drops \in 0..MaxDrops
  /\ queue \in Seq(Items) /\ Len(queue) <= MaxSize
  /\ lagged \in BOOLEAN
  /\ task \in {"seeding", "reading", "dead", "ended", "none"}
  /\ reply \subseteq [Order -> State]
  /\ reply # {} => task = "seeding"
  /\ synced \in BOOLEAN /\ (task = "reading" => synced)
  /\ view \in [Order -> State]
  /\ blind \subseteq Order
  /\ owner \in {"open", "raised", "closing", "closed"}
  /\ subscribed \in BOOLEAN

Quiet ==
  /\ task = "reading" /\ queue = <<>>
  /\ \A c \in Type : conn[c] = "up" /\ wire[c] = <<>>

(* ADR-0008's promise, as far as the code keeps it: when nothing is on its *)
(* way, the view is the exchange's open orders, through reconnects of      *)
(* either connection, seeds in flight and late reports.  Excepted are a    *)
(* queue that overflowed and changes before a connection's first connect.  *)
TrueWhenQuiet ==
  Quiet /\ ~ lagged => \A o \in Order \ blind : view[o] = Open(truth)[o]

(* An order that stays in the view never goes back to an older update, by  *)
(* a late report or by a new seed.                                         *)
NeverOlder ==
  [][\A o \in Order : view[o] # Absent /\ view'[o] # Absent
                        => view'[o].time >= view[o].time]_vars

(* If the connections stay up and the task alive, the view comes to agree  *)
(* with the exchange and stays so (with the same two exceptions).          *)
Converges ==
  <>[](Running /\ ~ lagged /\ \A c \in Type : conn[c] = "up")
    => <>[](\A o \in Order \ blind : view[o] = Open(truth)[o])

(* ADR-0008:38: "Drop reconciliation makes the stream self-healing; local  *)
(* state converges to exchange truth": no exception for what was lost      *)
(* before a connection first came up.                                      *)
TrueFromTheStart ==
  Quiet /\ ~ lagged => view = Open(truth)

=============================================================================
