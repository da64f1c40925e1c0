------------------------ MODULE UserDataStreamProofs ------------------------
(***************************************************************************)
(* Proofs about UserDataStream, for any symbol types, application tasks    *)
(* and number of POSTs under way.                                          *)
(***************************************************************************)
EXTENDS UserDataStream, TLAPS

-----------------------------------------------------------------------------
(* The POSTs: who awaits them.                                             *)

PostStates == {"free", "running", "dying", "ok", "auth", "error", "cancelled"}

Awaits(k) == \E s \in Slot : k \in post[s].tasks

PostOK ==
  /\ post \in [Slot -> [state : PostStates, tasks : SUBSET Task]]
  /\ inflight \subseteq Slot

(* A POST is there as long as someone awaits it, a task awaits one of them *)
(* at most, and callers and supervisors do not share one.                  *)
PostInv ==
  /\ PostOK
  /\ \A k \in dropped : k \in Task /\ Awaits(k)
  /\ \A s \in Slot : post[s].state = "free" <=> post[s].tasks = {}
  /\ \A r, s \in Slot : r # s => post[r].tasks \cap post[s].tasks = {}
  /\ CallersApart

(* A task asks for keys: it joins those it may, or is alone.               *)
LEMMA CreateFacts ==
  ASSUME PostInv, NEW k \in Task, ~ Awaits(k), Create(k),
         \A s \in inflight : post[s].tasks \cup {k} \subseteq Caller \/ post[s].tasks \cup {k} \subseteq Type
  PROVE  /\ PostInv' /\ dropped' = dropped
         /\ \A j \in Task : Awaits(j)' <=> Awaits(j) \/ j = k
         /\ \A s \in Slot : post'[s].state \in {"ok", "cancelled"} => post'[s] = post[s]
         /\ \A s \in Slot : post'[s].state = "dying" => post[s].state = "dying" /\ (post'[s] = post[s] \/ s \in inflight)
         /\ \A s \in Slot : post'[s].tasks \subseteq post[s].tasks \cup {k}
         /\ \A s \in inflight' : \/ s \in inflight /\ post'[s].tasks \subseteq post[s].tasks \cup {k}
                               \/ post'[s].tasks = {k}
<1>0. post \in [Slot -> [state : PostStates, tasks : SUBSET Task]] /\ inflight \subseteq Slot
  BY DEF PostInv, PostOK
<1>1. PICK s \in Slot :
        /\ \/ s \in inflight /\ Pending(s) /\ inflight' = inflight /\ post'[s].state = post[s].state
           \/ post[s] = Idle /\ inflight' = {s} /\ post'[s].state = "running"
        /\ \A r \in Slot \ {s} : post'[r] = post[r]
        /\ post'[s].tasks = post[s].tasks \cup {k}
        /\ post' \in [Slot -> [state : PostStates, tasks : SUBSET Task]]
        /\ dropped' = dropped
  <2>1. CASE \E s \in inflight :
               /\ Pending(s) /\ inflight' = inflight
               /\ post' = [post EXCEPT ![s].tasks = @ \cup {k}]
    <3>1. PICK s \in inflight :
               /\ Pending(s) /\ inflight' = inflight
               /\ post' = [post EXCEPT ![s].tasks = @ \cup {k}]
      BY <2>1
    <3>2. post'[s].tasks = post[s].tasks \cup {k} /\ post'[s].state = post[s].state
      BY <1>0, <3>1
    <3>3. post'[s] \in [state : PostStates, tasks : SUBSET Task]
      BY <1>0, <3>1
    <3> QED
      BY <1>0, <3>1, <3>2, <3>3 DEF Create
  <2>2. CASE /\ \E s \in Slot : post[s] = Idle
             /\ LET s == CHOOSE s \in Slot : post[s] = Idle IN
                  /\ post' = [post EXCEPT ![s] = [state |-> "running", tasks |-> {k}]]
                  /\ inflight' = {s}
    <3> DEFINE s == CHOOSE s \in Slot : post[s] = Idle
    <3>1. s \in Slot /\ post[s] = Idle
      BY <2>2
    <3>2. post' = [post EXCEPT ![s] = [state |-> "running", tasks |-> {k}]] /\ inflight' = {s}
      BY <2>2
    <3>3. post[s].tasks \cup {k} = {k}
      BY <3>1 DEF Idle
    <3>4. [state |-> "running", tasks |-> {k}] \in [state : PostStates, tasks : SUBSET Task]
      BY DEF PostStates
    <3> HIDE DEF s
    <3> QED
      BY <1>0, <3>1, <3>2, <3>3, <3>4 DEF Create
  <2> QED
    BY <2>1, <2>2 DEF Create
<1>2. PostOK'
  BY <1>0, <1>1 DEF PostOK
<1>3. \A j \in Task : Awaits(j)' <=> Awaits(j) \/ j = k
  BY <1>1 DEF Awaits
<1>4. \A r \in Slot : k \notin post[r].tasks
  BY DEF Awaits
<1>5. \A r \in Slot : post'[r].state = "free" <=> post'[r].tasks = {}
  BY <1>1 DEF PostInv, Pending
<1>6. \A r, q \in Slot : r # q => post'[r].tasks \cap post'[q].tasks = {}
  BY <1>1, <1>4 DEF PostInv
<1>7. post'[s].tasks \subseteq Caller \/ post'[s].tasks \subseteq Type
  BY <1>1 DEF Idle, Task
<1>8. CallersApart'
  BY <1>1, <1>7 DEF PostInv, CallersApart
<1>9. \A j \in dropped' : j \in Task /\ Awaits(j)'
  BY <1>1, <1>3 DEF PostInv
<1>10. \A r \in inflight' : \/ r \in inflight /\ post'[r].tasks \subseteq post[r].tasks \cup {k}
                            \/ post'[r].tasks = {k}
  BY <1>0, <1>1 DEF Idle
<1>11. \A r \in Slot : post'[r].state \in {"ok", "cancelled"} => post'[r] = post[r]
  BY <1>1 DEF Pending
<1>12. \A r \in Slot : post'[r].state = "dying" => post[r].state = "dying" /\ (post'[r] = post[r] \/ r \in inflight)
  BY <1>1
<1>13. \A r \in Slot : post'[r].tasks \subseteq post[r].tasks \cup {k}
  BY <1>1
<1> QED
  BY <1>1, <1>2, <1>3, <1>5, <1>6, <1>8, <1>9, <1>10, <1>11, <1>12, <1>13 DEF PostInv

(* A POST ends in one way or another, or a task that awaits it is          *)
(* cancelled: nobody is woken by that.                                     *)
LEMMA SettleFacts ==
  ASSUME PostInv, NEW s \in Slot, NEW how \in {"ok", "auth", "error", "cancelled"}, Pending(s),
         post' = [post EXCEPT ![s].state = how], inflight' = inflight, dropped' = dropped
  PROVE  /\ PostInv' /\ \A k \in Task : Awaits(k)' <=> Awaits(k)
         /\ \A r \in Slot : post'[r].tasks = post[r].tasks
         /\ \A r \in Slot : post'[r].state \in {"dying", "cancelled"}
                            => post[r].state \in {"dying", "cancelled"} \/ (how = "cancelled" /\ r = s)
         /\ how # "ok" => \A r \in Slot : post'[r].state = "ok" => post[r].state = "ok"
<1>0. post \in [Slot -> [state : PostStates, tasks : SUBSET Task]] /\ inflight \subseteq Slot
  BY DEF PostInv, PostOK
<1>1. /\ post'[s] = [state |-> how, tasks |-> post[s].tasks] /\ \A r \in Slot \ {s} : post'[r] = post[r]
      /\ post' \in [Slot -> [state : PostStates, tasks : SUBSET Task]]
  BY <1>0 DEF PostStates
<1>2. \A r \in Slot : post'[r].tasks = post[r].tasks
  BY <1>1
<1>3. \A k \in Task : Awaits(k)' <=> Awaits(k)
  BY <1>2 DEF Awaits
<1>4. CallersApart'
  BY <1>2 DEF PostInv, CallersApart
<1>5. PostInv'
  BY <1>0, <1>1, <1>2, <1>3, <1>4 DEF PostInv, PostOK, Pending
<1> QED
  BY <1>1, <1>2, <1>3, <1>5

LEMMA CancelFacts ==
  ASSUME PostInv, NEW k \in Task, Awaits(k), CancelCreate(k)
  PROVE  /\ PostInv' /\ \A j \in Task : Awaits(j)' <=> Awaits(j)
         /\ inflight' = inflight /\ dropped' = dropped \cup {k}
         /\ \A r \in Slot : post'[r].tasks = post[r].tasks
         /\ \A r \in Slot : post'[r].state \in {"dying", "cancelled"}
                            => post[r].state \in {"dying", "cancelled"} \/ k \in post[r].tasks
         /\ \A r \in Slot : post'[r].state = "ok" => post[r].state = "ok"
<1>0. post \in [Slot -> [state : PostStates, tasks : SUBSET Task]] /\ inflight \subseteq Slot
  BY DEF PostInv, PostOK
<1> DEFINE Hit(r) == k \in post[r].tasks /\ post[r].state = "running"
<1>1. /\ \A r \in Slot : Hit(r) => /\ post'[r].state = "dying" /\ post'[r].tasks = post[r].tasks
                                   /\ post'[r] \in [state : PostStates, tasks : SUBSET Task]
      /\ \A r \in Slot : ~ Hit(r) => post'[r] = post[r]
  BY <1>0 DEF CancelCreate, PostStates
<1>2. \A r \in Slot : post'[r].tasks = post[r].tasks
  BY <1>1
<1>3. post' \in [Slot -> [state : PostStates, tasks : SUBSET Task]]
  <2>1. ASSUME NEW r \in Slot PROVE post'[r] \in [state : PostStates, tasks : SUBSET Task]
    BY <1>0, <1>1 DEF PostStates
  <2> QED
    BY <2>1 DEF CancelCreate
<1>4. inflight' = inflight /\ dropped' = dropped \cup {k}
  BY DEF CancelCreate
<1>5. \A j \in Task : Awaits(j)' <=> Awaits(j)
  BY <1>2 DEF Awaits
<1>6. CallersApart'
  BY <1>2 DEF PostInv, CallersApart
<1>7. PostInv'
  <2>1. \A r \in Slot : post'[r].state = "free" <=> post'[r].tasks = {}
    BY <1>1 DEF PostInv
  <2> QED
    BY <1>0, <1>2, <1>3, <1>4, <1>5, <1>6, <2>1 DEF PostInv, PostOK
<1> QED
  BY <1>1, <1>2, <1>4, <1>5, <1>7

(* A POST is over: those who awaited it await nothing now.                 *)
LEMMA ReleaseFacts ==
  ASSUME PostInv, NEW s \in Slot, Release(s)
  PROVE  /\ PostInv' /\ inflight' = {} /\ dropped' \subseteq dropped
         /\ \A j \in Task : Awaits(j)' <=> Awaits(j) /\ j \notin post[s].tasks
         /\ \A r \in Slot : post'[r].state # "free" => post'[r] = post[r]
<1>0. post \in [Slot -> [state : PostStates, tasks : SUBSET Task]] /\ inflight \subseteq Slot
  BY DEF PostInv, PostOK
<1>1. /\ post'[s] = [state |-> "free", tasks |-> {}] /\ \A r \in Slot \ {s} : post'[r] = post[r]
      /\ post' \in [Slot -> [state : PostStates, tasks : SUBSET Task]]
      /\ inflight' = {} /\ dropped' = dropped \ post[s].tasks
  BY <1>0 DEF Release, Idle, PostStates
<1>2. \A j \in Task : Awaits(j)' <=> Awaits(j) /\ j \notin post[s].tasks
  BY <1>1 DEF PostInv, Awaits
<1>3. CallersApart'
  BY <1>1 DEF PostInv, CallersApart
<1>4. PostInv'
  <2>1. \A r \in Slot : post'[r].state = "free" <=> post'[r].tasks = {}
    BY <1>1 DEF PostInv
  <2>2. \A r, q \in Slot : r # q => post'[r].tasks \cap post'[q].tasks = {}
    BY <1>1 DEF PostInv
  <2>3. \A j \in dropped' : j \in Task /\ Awaits(j)'
    BY <1>1, <1>2 DEF PostInv
  <2> QED
    BY <1>1, <1>3, <2>1, <2>2, <2>3 DEF PostInv, PostOK
<1> QED
  BY <1>1, <1>2, <1>4

-----------------------------------------------------------------------------
(* The invariant.                                                          *)

ConnStates == [pc : Pc, again : BOOLEAN, ws : BOOLEAN, closing : BOOLEAN, mine : BOOLEAN, valid : BOOLEAN]

Shape ==
  /\ stored \subseteq Type /\ keep \in BOOLEAN /\ kclosing \in BOOLEAN
  /\ config \in Mode /\ client \in {"open", "closing", "ending", "closed"}
  /\ started \in BOOLEAN /\ conns \subseteq Type
  /\ caller \in [Caller -> {"idle", "creating", "live"}]
  /\ conn \in [Type -> ConnStates]
  /\ starts \in Nat

(* Who awaits a POST is in create().                                       *)
Matched ==
  /\ \A c \in Caller : Awaits(c) <=> caller[c] = "creating"
  /\ \A t \in Type : Awaits(t) <=> conn[t].pc = "creating"

(* No supervisor runs before the stream is started, and the POST that a    *)
(* supervisor may then find in flight is none of the callers'.             *)
Begun ==
  /\ starts = IF started THEN 1 ELSE 0
  /\ \A t \in Type : conn[t].pc # "none" => started /\ t \in conns
  /\ started => \A s \in inflight : post[s].tasks \subseteq Type

(* The keepalive task runs from the first key to close(), and a connection *)
(* whose key has expired is the only one with another key than the stored. *)
Renewed ==
  /\ kclosing <=> client \in {"ending", "closed"}
  /\ kclosing => ~ keep
  /\ ~ kclosing /\ (started \/ \E s \in Slot : post[s].state = "ok") => keep
  /\ config.same => \A t \in Type : conn[t].valid => conn[t].mine

(* While the client is open nobody but the application cancels a create(). *)
Blameless ==
  client = "open" =>
    /\ dropped \subseteq Caller
    /\ \A s \in Slot : post[s].state \in {"dying", "cancelled"} => post[s].tasks \subseteq Caller

Ended ==
  /\ client \in {"ending", "closed"} => conns = {} /\ \A t \in Type : ~ conn[t].ws
  /\ client # "open" /\ ~ config.late => \A c \in Caller : caller[c] # "creating"
  /\ client \in {"ending", "closed"} /\ ~ config.late => \A c \in Caller : caller[c] = "idle"
  /\ client = "closed" /\ ~ config.late => stored = {}

UserInv ==
  Shape /\ PostInv /\ Matched /\ Begun /\ Renewed /\ Blameless /\ Ended

(* The states of a connection.                                             *)
LEMMA OverFacts ==
  ASSUME NEW c \in ConnStates
  PROVE  /\ Over(c) \in ConnStates /\ Over(c).pc = "none" /\ Over(c).ws = c.ws
         /\ Over(c).closing = c.closing /\ ~ Over(c).valid
         /\ [Over(c) EXCEPT !.closing = TRUE] \in ConnStates
         /\ [Over(c) EXCEPT !.closing = TRUE].pc = "none" /\ [Over(c) EXCEPT !.closing = TRUE].ws = c.ws
         /\ ~ [Over(c) EXCEPT !.closing = TRUE].valid
BY DEF Over, NewConn, ConnStates, Pc

LEMMA MovedFacts ==
  ASSUME NEW c \in ConnStates, NEW p \in Pc
  PROVE  /\ [c EXCEPT !.pc = p] \in ConnStates /\ [c EXCEPT !.pc = p].pc = p
         /\ [c EXCEPT !.pc = p].ws = c.ws /\ [c EXCEPT !.pc = p].closing = c.closing
         /\ [c EXCEPT !.pc = p].mine = c.mine /\ [c EXCEPT !.pc = p].valid = c.valid
BY DEF ConnStates

LEMMA ToldFacts ==
  ASSUME Shape
  PROVE  /\ Told(caller) \in [Caller -> {"idle", "creating", "live"}]
         /\ \A c \in Caller : /\ Told(caller)[c] # "live"
                              /\ Told(caller)[c] = "creating" <=> caller[c] = "creating"
                              /\ caller[c] = "idle" => Told(caller)[c] = "idle"
BY DEF Told, Shape

LEMMA InitUser == Init => UserInv
<1> SUFFICES ASSUME Init PROVE UserInv
  OBVIOUS
<1>1. /\ post \in [Slot -> [state : PostStates, tasks : SUBSET Task]]
      /\ \A s \in Slot : post[s].state = "free" /\ post[s].tasks = {}
  BY DEF Init, KeysInit, Idle, PostStates
<1>2. PostInv
  BY <1>1 DEF Init, KeysInit, PostInv, PostOK, CallersApart
<1>3. Shape
  BY DEF Init, KeysInit, Shape, NewConn, ConnStates, Pc
<1>4. Matched /\ Begun
  BY <1>1 DEF Init, KeysInit, Matched, Begun, Awaits, NewConn
<1>5. Renewed /\ Blameless /\ Ended
  BY <1>1 DEF Init, KeysInit, Renewed, Blameless, Ended, NewConn
<1> QED
  BY <1>2, <1>3, <1>4, <1>5 DEF UserInv

(* A running supervisor goes from one await to another, or returns.        *)
LEMMA SupervisorKeeps ==
  ASSUME UserInv, NEW t \in Type, NEW c \in ConnStates, conn[t].pc # "none", conn[t].pc # "creating",
         conn' = [conn EXCEPT ![t] = c],
         UNCHANGED <<stored, keep, kclosing, config, client, started, conns, starts>>,
         \/ UNCHANGED <<post, inflight, dropped>> /\ c.pc # "creating"
         \/ Create(t) /\ c.pc = "creating",
         caller' = caller \/ caller' = Told(caller),
         c.valid => conn[t].valid /\ c.mine = conn[t].mine
  PROVE  UserInv'
<1>1. /\ Shape /\ PostInv /\ started /\ t \in conns /\ ~ Awaits(t) /\ conn \in [Type -> ConnStates]
      /\ client \notin {"ending", "closed"}
  BY DEF UserInv, Matched, Begun, Ended, Shape
<1>2. conn' \in [Type -> ConnStates] /\ conn'[t] = c /\ \A u \in Type \ {t} : conn'[u] = conn[u]
  BY <1>1
<1>3. /\ caller' \in [Caller -> {"idle", "creating", "live"}]
      /\ \A k \in Caller : caller'[k] = "creating" <=> caller[k] = "creating"
  BY <1>1, ToldFacts DEF Shape
<1>4. Shape'
  BY <1>1, <1>2, <1>3 DEF Shape
<1>5. /\ PostInv' /\ dropped' = dropped
      /\ \A j \in Task : Awaits(j)' <=> Awaits(j) \/ (j = t /\ c.pc = "creating")
      /\ \A s \in Slot : post'[s].state \in {"ok", "cancelled"} => post'[s] = post[s]
      /\ \A s \in inflight' : post'[s].tasks \subseteq Type
      /\ \A s \in Slot : post'[s].state = "dying" => post[s].state = "dying" /\ (post'[s] = post[s] \/ s \in inflight)
  <2>0. \A s \in inflight : post[s].tasks \subseteq Type
    BY <1>1 DEF UserInv, Begun
  <2>1. CASE UNCHANGED <<post, inflight, dropped>> /\ c.pc # "creating"
    BY <1>1, <2>0, <2>1 DEF PostInv, PostOK, Awaits, CallersApart
  <2>2. CASE Create(t) /\ c.pc = "creating"
    <3>1. \A s \in inflight : post[s].tasks \cup {t} \subseteq Type
      BY <2>0
    <3>2. t \in Task
      BY DEF Task
    <3>3. /\ PostInv' /\ dropped' = dropped
          /\ \A j \in Task : Awaits(j)' <=> Awaits(j) \/ j = t
          /\ \A s \in Slot : post'[s].state \in {"ok", "cancelled"} => post'[s] = post[s]
          /\ \A s \in inflight' : \/ s \in inflight /\ post'[s].tasks \subseteq post[s].tasks \cup {t}
                                  \/ post'[s].tasks = {t}
          /\ \A s \in Slot : post'[s].state = "dying" => post[s].state = "dying" /\ (post'[s] = post[s] \/ s \in inflight)
      BY <1>1, <2>2, <3>1, <3>2, CreateFacts
    <3> QED
      BY <2>2, <3>1, <3>3
  <2> QED
    BY <2>1, <2>2
<1>6. Matched'
  <2>1. \A k \in Caller : Awaits(k)' <=> caller'[k] = "creating"
    BY <1>3, <1>5, KeyAssumption DEF UserInv, Matched, Task
  <2>2. \A u \in Type : Awaits(u)' <=> conn'[u].pc = "creating"
    BY <1>1, <1>2, <1>5 DEF UserInv, Matched, Task
  <2> QED
    BY <2>1, <2>2 DEF Matched
<1>7. Begun'
  BY <1>1, <1>2, <1>5 DEF UserInv, Begun
<1>8. Renewed'
  <2>1. \A u \in Type : config'.same /\ conn'[u].valid => conn'[u].mine
    BY <1>1, <1>2 DEF UserInv, Renewed
  <2> QED
    BY <1>1, <1>5, <2>1 DEF UserInv, Renewed
<1>9. Blameless'
  <2> SUFFICES ASSUME client = "open" PROVE Blameless'
    BY DEF Blameless
  <2>1. ASSUME NEW s \in inflight, post[s].state = "dying"
        PROVE  FALSE
    <3>1. s \in Slot /\ post[s].tasks # {}
      BY <1>1, <2>1 DEF PostInv, PostOK
    <3>2. post[s].tasks \subseteq Caller /\ post[s].tasks \subseteq Type
      BY <1>1, <2>1, <3>1 DEF UserInv, Blameless, Begun
    <3> QED
      BY <3>1, <3>2, KeyAssumption
  <2>2. \A s \in Slot : post'[s].state \in {"dying", "cancelled"} => post'[s] = post[s]
    BY <1>5, <2>1
  <2> QED
    BY <1>5, <2>2 DEF UserInv, Blameless
<1>10. Ended'
  BY <1>1, <1>3 DEF UserInv, Ended
<1> QED
  BY <1>4, <1>5, <1>6, <1>7, <1>8, <1>9, <1>10 DEF UserInv

(* The loop's head.                                                        *)
LEMMA LoopHeadKeeps ==
  ASSUME UserInv, NEW t \in Type, NEW c \in ConnStates, conn[t].pc \notin {"none", "creating"}, LoopHead(t, c),
         UNCHANGED <<stored, keep, kclosing, config, client, started, conns, starts, caller>>,
         c.valid = conn[t].valid, c.mine = conn[t].mine
  PROVE  UserInv'
<1>1. conn \in [Type -> ConnStates]
  BY DEF UserInv, Shape
<1>2. "creating" \in Pc
  BY DEF Pc
<1>3. CASE c.closing
  <2>1. conn' = [conn EXCEPT ![t] = Over(c)] /\ UNCHANGED <<post, inflight, dropped>>
    BY <1>3 DEF LoopHead, Set, postVars
  <2>2. Over(c) \in ConnStates /\ Over(c).pc = "none" /\ ~ Over(c).valid
    BY OverFacts
  <2> QED
    BY <1>1, <2>1, <2>2, SupervisorKeeps
<1>4. CASE ~ c.closing
  <2> DEFINE d == [c EXCEPT !.pc = "creating"]
  <2>1. conn' = [conn EXCEPT ![t] = d] /\ Create(t)
    BY <1>4 DEF LoopHead, Set
  <2>2. d \in ConnStates /\ d.pc = "creating" /\ d.valid = c.valid /\ d.mine = c.mine
    BY <1>2, MovedFacts
  <2> HIDE DEF d
  <2> QED
    BY <1>1, <2>1, <2>2, SupervisorKeeps
<1> QED
  BY <1>3, <1>4

(* Every step of a supervisor.                                             *)
LEMMA SupervisorsKeep ==
  ASSUME UserInv, NEW t \in Type,
         \/ Start(t) \/ ConnectSucceeds(t) \/ ConnectFails(t) \/ SessionExpires(t) \/ ReaderReaped(t)
         \/ SocketDropped(t) \/ SocketEnds(t) \/ KeyExpires(t) \/ ExpiredFrame(t)
  PROVE  UserInv'
<1>1. conn \in [Type -> ConnStates] /\ conn[t] \in ConnStates
  BY DEF UserInv, Shape
<1>2. CASE Start(t)
  <2>1. LoopHead(t, conn[t]) /\ conn[t].pc \notin {"none", "creating"}
        /\ UNCHANGED <<stored, keep, kclosing, config, client, started, conns, starts, caller>>
    BY <1>2 DEF Start, keyVars, callVars
  <2> QED
    BY <1>1, <2>1, LoopHeadKeeps
<1>3. ASSUME NEW c \in ConnStates, conn[t].pc \notin {"none", "creating"}, conn' = [conn EXCEPT ![t] = c],
             UNCHANGED <<stored, keep, kclosing, config, client, started, conns, starts, post, inflight, dropped>>,
             c.pc # "creating", caller' = caller \/ caller' = Told(caller),
             c.valid => conn[t].valid /\ c.mine = conn[t].mine
      PROVE  UserInv'
  BY <1>1, <1>3, SupervisorKeeps
<1>4. CASE ConnectSucceeds(t)
  <2> DEFINE c == [conn[t] EXCEPT !.pc = "reading", !.ws = TRUE]
  <2>1. /\ conn[t].pc = "connecting" /\ conn' = [conn EXCEPT ![t] = c]
        /\ UNCHANGED <<stored, keep, kclosing, config, client, started, conns, starts, post, inflight, dropped, caller>>
    BY <1>4 DEF ConnectSucceeds, Set, keyVars, postVars, callVars
  <2>2. c \in ConnStates /\ c.pc = "reading" /\ c.valid = conn[t].valid /\ c.mine = conn[t].mine
    BY <1>1 DEF ConnStates, Pc
  <2> HIDE DEF c
  <2> QED
    BY <1>3, <2>1, <2>2
<1>5. CASE ConnectFails(t)
  <2>1. /\ conn[t].pc = "connecting"
        /\ UNCHANGED <<stored, keep, kclosing, config, client, started, conns, starts, post, inflight, dropped>>
    BY <1>5 DEF ConnectFails, keyVars, postVars
  <2>2. CASE conn' = [conn EXCEPT ![t] = Over(conn[t])] /\ caller' = Told(caller)
    <3>1. Over(conn[t]) \in ConnStates /\ Over(conn[t]).pc = "none" /\ ~ Over(conn[t]).valid
      BY <1>1, OverFacts
    <3> QED
      BY <1>3, <2>1, <2>2, <3>1
  <2>3. CASE conn' = [conn EXCEPT ![t] = [conn[t] EXCEPT !.pc = "sleeping"]] /\ UNCHANGED caller
    <3> DEFINE c == [conn[t] EXCEPT !.pc = "sleeping"]
    <3>1. c \in ConnStates /\ c.pc = "sleeping" /\ c.valid = conn[t].valid /\ c.mine = conn[t].mine
      BY <1>1 DEF ConnStates, Pc
    <3> HIDE DEF c
    <3>2. conn' = [conn EXCEPT ![t] = c]
      BY <2>3 DEF c
    <3> QED
      BY <1>3, <2>1, <2>3, <3>1, <3>2
  <2> QED
    BY <1>5, <2>2, <2>3 DEF ConnectFails, Set
<1>6. ASSUME NEW pc \in {"dropping", "reaping"}, NEW again \in BOOLEAN, StopsReading(t, pc, again)
      PROVE  UserInv'
  <2> DEFINE c == [conn[t] EXCEPT !.pc = pc, !.again = again, !.mine = FALSE, !.valid = FALSE]
  <2>1. /\ conn[t].pc = "reading" /\ conn' = [conn EXCEPT ![t] = c]
        /\ UNCHANGED <<stored, keep, kclosing, config, client, started, conns, starts, post, inflight, dropped, caller>>
    BY <1>6 DEF StopsReading, Reads, Set, keyVars, postVars, callVars
  <2>2. c \in ConnStates /\ c.pc = pc /\ ~ c.valid
    BY <1>1 DEF ConnStates, Pc
  <2> HIDE DEF c
  <2> QED
    BY <1>3, <2>1, <2>2
<1>7. CASE SessionExpires(t) \/ SocketEnds(t) \/ ExpiredFrame(t)
  BY <1>6, <1>7 DEF SessionExpires, SocketEnds, ExpiredFrame
<1>8. CASE ReaderReaped(t)
  <2> DEFINE c == [conn[t] EXCEPT !.pc = "dropping"]
  <2>1. /\ conn[t].pc = "reaping" /\ conn' = [conn EXCEPT ![t] = c]
        /\ UNCHANGED <<stored, keep, kclosing, config, client, started, conns, starts, post, inflight, dropped, caller>>
    BY <1>8 DEF ReaderReaped, Set, keyVars, postVars, callVars
  <2>2. c \in ConnStates /\ c.pc = "dropping" /\ c.valid = conn[t].valid /\ c.mine = conn[t].mine
    BY <1>1 DEF ConnStates, Pc
  <2> HIDE DEF c
  <2> QED
    BY <1>3, <2>1, <2>2
<1>9. CASE KeyExpires(t)
  <2> DEFINE c == [conn[t] EXCEPT !.valid = FALSE]
  <2>1. /\ conn[t].pc = "reading" /\ conn' = [conn EXCEPT ![t] = c]
        /\ UNCHANGED <<stored, keep, kclosing, config, client, started, conns, starts, post, inflight, dropped, caller>>
    BY <1>9 DEF KeyExpires, Reads, Set, keyVars, postVars, callVars
  <2>2. c \in ConnStates /\ c.pc = "reading" /\ ~ c.valid
    BY <1>1, <2>1 DEF ConnStates, Pc
  <2> HIDE DEF c
  <2> QED
    BY <1>1, <1>3, <2>1, <2>2
<1>10. CASE SocketDropped(t)
  <2> DEFINE c == [conn[t] EXCEPT !.ws = FALSE, !.again = FALSE]
  <2>1. /\ c \in ConnStates /\ c.pc = conn[t].pc /\ c.valid = conn[t].valid /\ c.mine = conn[t].mine
    BY <1>1 DEF ConnStates
  <2>2. /\ c.pc = "dropping"
        /\ UNCHANGED <<stored, keep, kclosing, config, client, started, conns, starts>>
        /\ \/ Set(t, Over(c)) /\ UNCHANGED <<postVars, caller>>
           \/ LoopHead(t, c) /\ UNCHANGED caller
           \/ Set(t, Over(c)) /\ caller' = Told(caller) /\ UNCHANGED postVars
           \/ Set(t, [c EXCEPT !.pc = "sleeping"]) /\ UNCHANGED <<postVars, caller>>
    BY <1>10 DEF SocketDropped, keyVars
  <2> HIDE DEF c
  <2>3. CASE LoopHead(t, c) /\ UNCHANGED caller
    BY <2>1, <2>2, <2>3, LoopHeadKeeps
  <2>4. ASSUME NEW d \in ConnStates, Set(t, d), d.pc \in {"none", "sleeping"}, UNCHANGED postVars,
               caller' = caller \/ caller' = Told(caller), d.valid => c.valid /\ d.mine = c.mine
        PROVE  UserInv'
    <3>1. conn' = [conn EXCEPT ![t] = d] /\ UNCHANGED <<post, inflight, dropped>>
      BY <2>4 DEF Set, postVars
    <3> QED
      BY <1>3, <2>1, <2>2, <2>4, <3>1
  <2>5. Over(c) \in ConnStates /\ Over(c).pc = "none" /\ ~ Over(c).valid
    BY <2>1, OverFacts
  <2>6. "sleeping" \in Pc
    BY DEF Pc
  <2>7. /\ [c EXCEPT !.pc = "sleeping"] \in ConnStates /\ [c EXCEPT !.pc = "sleeping"].pc = "sleeping"
        /\ [c EXCEPT !.pc = "sleeping"].valid = c.valid /\ [c EXCEPT !.pc = "sleeping"].mine = c.mine
    BY <2>1, <2>6, MovedFacts
  <2>8. CASE Set(t, Over(c)) /\ UNCHANGED postVars /\ (caller' = caller \/ caller' = Told(caller))
    BY <2>4, <2>5, <2>8
  <2>9. CASE Set(t, [c EXCEPT !.pc = "sleeping"]) /\ UNCHANGED <<postVars, caller>>
    <3> DEFINE d == [c EXCEPT !.pc = "sleeping"]
    <3>1. d \in ConnStates /\ d.pc = "sleeping" /\ d.valid = c.valid /\ d.mine = c.mine /\ Set(t, d)
      BY <2>7, <2>9
    <3> HIDE DEF d
    <3> QED
      BY <2>4, <2>9, <3>1
  <2> QED
    BY <2>2, <2>3, <2>8, <2>9
<1> QED
  BY <1>2, <1>4, <1>5, <1>7, <1>8, <1>9, <1>10

(* A consumer comes, is cancelled, or leaves.                              *)
LEMMA WatchKeeps ==
  ASSUME UserInv, NEW c \in Caller, Watch(c)
  PROVE  UserInv'
<1>1. /\ Shape /\ PostInv /\ caller[c] = "idle" /\ ~ Awaits(c) /\ (client = "open" \/ config.late)
      /\ UNCHANGED <<stored, keep, kclosing, config, client, started, conns, conn, starts>>
      /\ c \in Task /\ caller \in [Caller -> {"idle", "creating", "live"}]
  BY DEF UserInv, Matched, Watch, keyVars, Shape, Task
<1>2. /\ PostInv' /\ dropped' = dropped
      /\ \A j \in Task : Awaits(j)' <=> Awaits(j) \/ (j = c /\ caller'[c] = "creating")
      /\ \A s \in Slot : post'[s].state \in {"ok", "cancelled"} => post'[s] = post[s]
      /\ started => UNCHANGED <<post, inflight>>
      /\ \A s \in Slot : post'[s].state = "dying" => post'[s] = post[s] \/ post'[s].tasks \subseteq Caller
      /\ caller' = [caller EXCEPT ![c] = caller'[c]] /\ caller'[c] \in {"creating", "live"}
  <2>1. CASE started \/ client # "open"
    <3>1. caller' = [caller EXCEPT ![c] = "live"] /\ UNCHANGED <<post, inflight, dropped>>
      BY <2>1 DEF Watch, postVars
    <3>2. PostInv' /\ \A j \in Task : Awaits(j)' <=> Awaits(j)
      BY <1>1, <3>1 DEF PostInv, PostOK, Awaits, CallersApart
    <3>3. caller'[c] = "live"
      BY <1>1, <3>1
    <3> QED
      BY <3>1, <3>2, <3>3
  <2>2. CASE ~ (started \/ client # "open")
    <3>1. caller' = [caller EXCEPT ![c] = "creating"] /\ Create(c)
      BY <2>2 DEF Watch
    <3>2. \A t \in Type : ~ Awaits(t)
      BY <2>2 DEF UserInv, Begun, Matched
    <3>3. \A s \in Slot : post[s].tasks \subseteq Caller
      BY <1>1, <3>2 DEF PostInv, PostOK, Awaits, Task
    <3>4. \A s \in inflight : post[s].tasks \cup {c} \subseteq Caller
      BY <1>1, <3>3 DEF PostInv, PostOK
    <3>5. /\ PostInv' /\ dropped' = dropped
          /\ \A j \in Task : Awaits(j)' <=> Awaits(j) \/ j = c
          /\ \A s \in Slot : post'[s].state \in {"ok", "cancelled"} => post'[s] = post[s]
          /\ \A s \in Slot : post'[s].tasks \subseteq post[s].tasks \cup {c}
      BY <1>1, <3>1, <3>4, CreateFacts
    <3>7. \A s \in Slot : post'[s].tasks \subseteq Caller
      BY <3>3, <3>5
    <3>6. caller'[c] = "creating"
      BY <1>1, <3>1
    <3> QED
      BY <2>2, <3>1, <3>5, <3>6, <3>7
  <2> QED
    BY <2>1, <2>2
<1>3. Shape'
  BY <1>1, <1>2 DEF Shape
<1>4. Matched'
  <2>1. \A k \in Caller : Awaits(k)' <=> caller'[k] = "creating"
    BY <1>1, <1>2 DEF UserInv, Matched, Task
  <2>2. \A t \in Type : Awaits(t)' <=> conn'[t].pc = "creating"
    BY <1>1, <1>2, KeyAssumption DEF UserInv, Matched, Task
  <2> QED
    BY <2>1, <2>2 DEF Matched
<1>5. Begun' /\ Renewed' /\ Blameless'
  BY <1>1, <1>2 DEF UserInv, Begun, Renewed, Blameless
<1>6. Ended'
  <2>1. client # "open" => config.late
    BY <1>1
  <2> QED
    BY <1>1, <2>1 DEF UserInv, Ended
<1> QED
  BY <1>2, <1>3, <1>4, <1>5, <1>6 DEF UserInv

LEMMA CancelWatchKeeps ==
  ASSUME UserInv, NEW c \in Caller, CancelWatch(c)
  PROVE  UserInv'
<1>1. /\ Shape /\ PostInv /\ Awaits(c) /\ CancelCreate(c) /\ c \in Task
      /\ UNCHANGED <<stored, keep, kclosing, config, client, started, conns, caller, conn, starts>>
  BY DEF UserInv, Matched, CancelWatch, keyVars, callVars, Task
<1>2. /\ PostInv' /\ \A j \in Task : Awaits(j)' <=> Awaits(j)
      /\ inflight' = inflight /\ dropped' = dropped \cup {c}
      /\ \A r \in Slot : post'[r].tasks = post[r].tasks
      /\ \A r \in Slot : post'[r].state \in {"dying", "cancelled"}
                            => post[r].state \in {"dying", "cancelled"} \/ c \in post[r].tasks
      /\ \A r \in Slot : post'[r].state = "ok" => post[r].state = "ok"
  BY <1>1, CancelFacts
<1>3. \A r \in Slot : c \in post[r].tasks => post[r].tasks \subseteq Caller
  BY <1>1, KeyAssumption DEF PostInv, CallersApart
<1>4. Shape'
  BY <1>1 DEF Shape
<1>5. Matched'
  BY <1>1, <1>2 DEF UserInv, Matched, Task
<1>6. Begun' /\ Renewed'
  BY <1>1, <1>2 DEF UserInv, Begun, Renewed, PostInv, PostOK
<1>7. Blameless'
  BY <1>1, <1>2, <1>3 DEF UserInv, Blameless
<1>8. Ended'
  BY <1>1 DEF UserInv, Ended
<1> QED
  BY <1>2, <1>4, <1>5, <1>6, <1>7, <1>8 DEF UserInv

LEMMA LeaveKeeps ==
  ASSUME UserInv, NEW c \in Caller, Leave(c)
  PROVE  UserInv'
<1>1. /\ Shape /\ PostInv /\ caller[c] = "live" /\ caller' = [caller EXCEPT ![c] = "idle"]
      /\ UNCHANGED <<stored, keep, kclosing, post, inflight, dropped, config, client, started, conns, conn, starts>>
  BY DEF UserInv, Leave, keyVars, postVars
<1>2. Shape'
  BY <1>1 DEF Shape
<1>3. PostInv' /\ \A k \in Task : Awaits(k)' <=> Awaits(k)
  BY <1>1 DEF PostInv, PostOK, Awaits, CallersApart
<1>4. Matched'
  BY <1>1, <1>3 DEF UserInv, Matched, Shape, Task
<1>5. Begun' /\ Renewed' /\ Blameless'
  BY <1>1 DEF UserInv, Begun, Renewed, Blameless
<1>6. Ended'
  BY <1>1 DEF UserInv, Ended, Shape
<1> QED
  BY <1>2, <1>3, <1>4, <1>5, <1>6 DEF UserInv

(* A POST is answered, or fails.                                           *)
LEMMA PostKeeps ==
  ASSUME UserInv, NEW s \in Slot, Answered(s) \/ Fails(s) \/ Dies(s)
  PROVE  UserInv'
<1>1. PICK how \in {"ok", "auth", "error", "cancelled"} :
        /\ Pending(s) /\ post' = [post EXCEPT ![s].state = how]
        /\ how = "ok" => Answered(s)
        /\ how # "ok" => UNCHANGED <<stored, keep, kclosing, conn>>
        /\ how = "cancelled" => post[s].state = "dying"
  <2>1. CASE Answered(s)
    BY <2>1 DEF Answered, PostAnswered, Pending
  <2>2. CASE Fails(s)
    BY <2>2 DEF Fails, PostFails, keyVars, Pending
  <2>3. CASE Dies(s)
    BY <2>3 DEF Dies, PostDies, keyVars, Pending
  <2> QED
    BY <2>1, <2>2, <2>3
<1>2. UNCHANGED <<inflight, dropped, config, client, started, conns, caller, starts>>
  BY DEF Answered, PostAnswered, Fails, PostFails, Dies, PostDies, callVars
<1>3. /\ PostInv' /\ \A k \in Task : Awaits(k)' <=> Awaits(k)
      /\ \A r \in Slot : post'[r].tasks = post[r].tasks
      /\ \A r \in Slot : post'[r].state \in {"dying", "cancelled"} => post[r].state \in {"dying", "cancelled"}
      /\ how # "ok" => \A r \in Slot : post'[r].state = "ok" => post[r].state = "ok"
  BY <1>1, <1>2, SettleFacts DEF UserInv
<1>4. conn \in [Type -> ConnStates] /\ kclosing \in BOOLEAN /\ keep \in BOOLEAN
  BY DEF UserInv, Shape
<1>5. /\ conn' \in [Type -> ConnStates] /\ stored' \subseteq Type /\ keep' \in BOOLEAN /\ kclosing' = kclosing
      /\ \A t \in Type : conn'[t].pc = conn[t].pc /\ conn'[t].ws = conn[t].ws /\ conn'[t].valid = conn[t].valid
      /\ \A t \in Type : config.same /\ conn[t].valid /\ conn[t].mine => conn'[t].mine
      /\ kclosing /\ ~ keep => ~ keep'
      /\ ~ kclosing /\ (keep \/ how = "ok") => keep'
  <2>1. CASE how = "ok"
    <3>1. PICK types \in SUBSET Type :
            /\ stored' = types /\ keep' = (keep \/ ~ kclosing) /\ kclosing' = kclosing
            /\ conn' = [t \in Type |-> [conn[t] EXCEPT !.mine = @ /\ config.same /\ conn[t].valid]]
      BY <1>1, <2>1 DEF Answered, PostAnswered
    <3>2. conn' \in [Type -> ConnStates]
      BY <1>4, <3>1 DEF ConnStates
    <3>3. /\ \A t \in Type : conn'[t].pc = conn[t].pc /\ conn'[t].ws = conn[t].ws /\ conn'[t].valid = conn[t].valid
          /\ \A t \in Type : config.same /\ conn[t].valid /\ conn[t].mine => conn'[t].mine
      BY <1>4, <3>1 DEF ConnStates
    <3>4. /\ keep' \in BOOLEAN /\ (kclosing /\ ~ keep => ~ keep') /\ (~ kclosing => keep')
      BY <1>4, <3>1
    <3> QED
      BY <3>1, <3>2, <3>3, <3>4
  <2>2. CASE how # "ok"
    BY <1>1, <1>4, <2>2 DEF UserInv, Shape
  <2> QED
    BY <2>1, <2>2
<1>6. Shape'
  BY <1>2, <1>5 DEF UserInv, Shape
<1>7. Matched'
  BY <1>2, <1>3, <1>5 DEF UserInv, Matched, Task
<1>8. Begun'
  BY <1>2, <1>3, <1>5 DEF UserInv, Begun, PostInv, PostOK
<1>9. Renewed'
  <2>1. config'.same => \A t \in Type : conn'[t].valid => conn'[t].mine
    BY <1>2, <1>5 DEF UserInv, Renewed
  <2>2. ~ kclosing' /\ (started' \/ \E r \in Slot : post'[r].state = "ok") => keep'
    BY <1>2, <1>3, <1>5 DEF UserInv, Renewed
  <2>3. (kclosing' <=> client' \in {"ending", "closed"}) /\ (kclosing' => ~ keep')
    BY <1>2, <1>5 DEF UserInv, Renewed
  <2> QED
    BY <2>1, <2>2, <2>3 DEF Renewed
<1>10. Blameless'
  BY <1>2, <1>3, <1>5 DEF UserInv, Blameless
<1>11. Ended'
  <2>1. client = "closed" /\ ~ config.late => stored' = {}
    <3> SUFFICES ASSUME client = "closed", ~ config.late PROVE FALSE
      OBVIOUS
    <3>1. \A k \in Task : ~ Awaits(k)
      BY DEF UserInv, Ended, Begun, Matched, Task
    <3>2. post[s].tasks # {} /\ post[s].tasks \subseteq Task
      BY <1>1 DEF UserInv, PostInv, PostOK, Pending
    <3> QED
      BY <3>1, <3>2 DEF Awaits
  <2> QED
    BY <1>2, <1>5, <2>1 DEF UserInv, Ended
<1> QED
  BY <1>3, <1>6, <1>7, <1>8, <1>9, <1>10, <1>11 DEF UserInv

(* The callers that awaited a POST go on, and may start the stream.        *)
LEMMA WakeCallersKeeps ==
  ASSUME UserInv, NEW s \in Slot, WakeCallers(s)
  PROVE  UserInv'
<1>1. /\ Shape /\ PostInv /\ Done(s) /\ post[s].tasks \subseteq Caller /\ Release(s)
      /\ UNCHANGED <<stored, keep, kclosing, config, client>>
      /\ caller' = [c \in Caller |-> IF c \notin post[s].tasks THEN caller[c]
                                     ELSE IF Outcome(s, c) = "ok" THEN "live" ELSE "idle"]
  BY DEF UserInv, WakeCallers, keyVars
<1>2. /\ PostInv' /\ inflight' = {} /\ dropped' \subseteq dropped
      /\ \A j \in Task : Awaits(j)' <=> Awaits(j) /\ j \notin post[s].tasks
      /\ \A r \in Slot : post'[r].state # "free" => post'[r] = post[r]
  BY <1>1, ReleaseFacts
<1>3. PICK c \in Caller : c \in post[s].tasks /\ caller[c] = "creating"
  <2>1. post[s].tasks # {}
    BY <1>1 DEF PostInv, Done
  <2>2. PICK c \in Caller : c \in post[s].tasks
    BY <1>1, <2>1
  <2>3. caller[c] = "creating"
    BY <2>2 DEF UserInv, Matched, Awaits
  <2> QED
    BY <2>2, <2>3
<1>4. client # "open" => config.late
  BY <1>3 DEF UserInv, Ended
<1>5. \/ /\ StartsHere(s) /\ started' = TRUE /\ conns' = stored /\ starts' = starts + 1
         /\ conn' = [t \in Type |-> IF t \in stored THEN [NewConn EXCEPT !.pc = "start"] ELSE conn[t]]
      \/ UNCHANGED <<started, conns, starts, conn>>
  BY DEF WakeCallers
<1>6. \A t \in Type : t \notin post[s].tasks
  BY <1>1, KeyAssumption
<1>7. \A c2 \in Caller : /\ caller'[c2] \in {"idle", "creating", "live"}
                         /\ caller'[c2] = "creating" <=> caller[c2] = "creating" /\ c2 \notin post[s].tasks
  BY <1>1 DEF Shape
<1>8. \A c2 \in Caller : Awaits(c2)' <=> caller'[c2] = "creating"
  BY <1>2, <1>7 DEF UserInv, Matched, Task
<1>9. \A t \in Type : Awaits(t)' <=> Awaits(t)
  BY <1>2, <1>6 DEF Task
<1>10. CASE StartsHere(s) /\ started' = TRUE /\ conns' = stored /\ starts' = starts + 1
            /\ conn' = [t \in Type |-> IF t \in stored THEN [NewConn EXCEPT !.pc = "start"] ELSE conn[t]]
  <2>1. client = "open" /\ ~ started /\ post[s].state = "ok"
    BY <1>10 DEF StartsHere, Outcome
  <2>2. \A t \in Type : conn[t].pc = "none"
    BY <2>1 DEF UserInv, Begun
  <2>3. /\ [NewConn EXCEPT !.pc = "start"] \in ConnStates /\ [NewConn EXCEPT !.pc = "start"].pc = "start"
        /\ ~ [NewConn EXCEPT !.pc = "start"].valid
    BY DEF NewConn, ConnStates, Pc
  <2> DEFINE fresh == [NewConn EXCEPT !.pc = "start"]
  <2> HIDE DEF fresh
  <2>4. /\ fresh \in ConnStates /\ fresh.pc = "start" /\ ~ fresh.valid
        /\ conn' = [t \in Type |-> IF t \in stored THEN fresh ELSE conn[t]]
    BY <1>10, <2>3 DEF fresh
  <2>5. /\ conn' \in [Type -> ConnStates]
        /\ \A t \in Type : /\ conn'[t].pc \in {"none", "start"} /\ (conn'[t].pc # "none" => t \in stored)
                           /\ conn'[t] = fresh \/ conn'[t] = conn[t]
    BY <1>1, <2>2, <2>4 DEF Shape
  <2>6. Shape'
    BY <1>1, <1>7, <1>10, <2>5 DEF Shape
  <2>7. Matched'
    BY <1>8, <1>9, <2>2, <2>5 DEF UserInv, Matched
  <2>8. Begun'
    BY <1>2, <1>10, <2>1, <2>5 DEF UserInv, Begun
  <2>9. Renewed'
    <3>1. config'.same => \A t \in Type : conn'[t].valid => conn'[t].mine
      BY <1>1, <2>4, <2>5 DEF UserInv, Renewed
    <3>2. ~ kclosing => keep
      BY <2>1 DEF UserInv, Renewed
    <3> QED
      BY <1>1, <3>1, <3>2 DEF UserInv, Renewed
  <2>10. Blameless' /\ Ended'
    BY <1>1, <1>2, <2>1, <2>5 DEF UserInv, Blameless, Ended
  <2> QED
    BY <1>2, <2>6, <2>7, <2>8, <2>9, <2>10 DEF UserInv
<1>11. CASE UNCHANGED <<started, conns, starts, conn>>
  <2>1. Shape'
    BY <1>1, <1>7, <1>11 DEF Shape
  <2>2. Matched'
    BY <1>8, <1>9, <1>11 DEF UserInv, Matched
  <2>3. Begun' /\ Renewed' /\ Blameless'
    BY <1>1, <1>2, <1>11 DEF UserInv, Begun, Renewed, Blameless
  <2>4. Ended'
    BY <1>1, <1>4, <1>11 DEF UserInv, Ended
  <2> QED
    BY <1>2, <2>1, <2>2, <2>3, <2>4 DEF UserInv
<1> QED
  BY <1>5, <1>10, <1>11

(* The supervisors that awaited a POST go on.                              *)
LEMMA AfterCreateFacts ==
  ASSUME UserInv, NEW s \in Slot, NEW t \in Type, t \in post[s].tasks
  PROVE  /\ AfterCreate(s, t) \in ConnStates /\ AfterCreate(s, t).pc \in {"none", "sleeping", "connecting"}
         /\ AfterCreate(s, t).ws = conn[t].ws
         /\ (conn[t].valid => conn[t].mine) => (AfterCreate(s, t).valid => AfterCreate(s, t).mine)
         /\ AfterCreate(s, t).pc = "none" => GivesUp(s, t) \/ Outcome(s, t) = "cancelled"
<1>1. conn[t] \in ConnStates
  BY DEF UserInv, Shape
<1>2. CASE GivesUp(s, t) \/ Outcome(s, t) = "cancelled"
  <2>1. AfterCreate(s, t) = Over(conn[t])
    BY <1>2 DEF AfterCreate
  <2> QED
    BY <1>1, <1>2, <2>1, OverFacts
<1>3. CASE ~ (GivesUp(s, t) \/ Outcome(s, t) = "cancelled") /\ Outcome(s, t) = "error"
  <2>1. AfterCreate(s, t) = [conn[t] EXCEPT !.pc = "sleeping"]
    BY <1>3 DEF AfterCreate
  <2> QED
    BY <1>1, <2>1 DEF ConnStates, Pc
<1>4. CASE ~ (GivesUp(s, t) \/ Outcome(s, t) = "cancelled") /\ Outcome(s, t) # "error"
  <2>1. AfterCreate(s, t) = [conn[t] EXCEPT !.pc = "connecting", !.mine = TRUE, !.valid = TRUE]
    BY <1>4 DEF AfterCreate
  <2> QED
    BY <1>1, <2>1 DEF ConnStates, Pc
<1> QED
  BY <1>2, <1>3, <1>4

LEMMA WakeSupervisorsKeeps ==
  ASSUME UserInv, NEW s \in Slot, WakeSupervisors(s)
  PROVE  UserInv'
<1>1. /\ Shape /\ PostInv /\ post[s].tasks \cap Type # {} /\ Release(s)
      /\ conn' = [t \in Type |-> IF t \in post[s].tasks THEN AfterCreate(s, t) ELSE conn[t]]
      /\ caller' = caller \/ caller' = Told(caller)
      /\ UNCHANGED <<stored, keep, kclosing, config, client, started, conns, starts>>
  BY DEF UserInv, WakeSupervisors, keyVars
<1>2. /\ PostInv' /\ inflight' = {} /\ dropped' \subseteq dropped
      /\ \A j \in Task : Awaits(j)' <=> Awaits(j) /\ j \notin post[s].tasks
      /\ \A r \in Slot : post'[r].state # "free" => post'[r] = post[r]
  BY <1>1, ReleaseFacts
<1>3. post[s].tasks \subseteq Type
  BY <1>1, KeyAssumption DEF PostInv, CallersApart
<1>4. \A t \in Type : t \in post[s].tasks => Awaits(t) /\ conn[t].pc = "creating" /\ started /\ t \in conns
  BY DEF UserInv, Awaits, Matched, Begun
<1>5. client \notin {"ending", "closed"}
  BY <1>1, <1>4 DEF UserInv, Ended
<1>6. /\ conn' \in [Type -> ConnStates]
      /\ \A t \in Type : conn'[t].pc # "none" => conn[t].pc # "none"
      /\ \A t \in Type : conn'[t].pc = "creating" <=> conn[t].pc = "creating" /\ t \notin post[s].tasks
      /\ \A t \in Type : conn'[t].pc = "reading" => conn[t].pc = "reading"
      /\ \A t \in Type : (conn[t].valid => conn[t].mine) => (conn'[t].valid => conn'[t].mine)
  <2>1. ASSUME NEW t \in Type
        PROVE  /\ conn'[t] \in ConnStates
               /\ conn'[t].pc # "none" => conn[t].pc # "none"
               /\ conn'[t].pc = "creating" <=> conn[t].pc = "creating" /\ t \notin post[s].tasks
               /\ conn'[t].pc = "reading" => conn[t].pc = "reading"
               /\ (conn[t].valid => conn[t].mine) => (conn'[t].valid => conn'[t].mine)
    <3>1. CASE t \in post[s].tasks
      <4>1. conn'[t] = AfterCreate(s, t)
        BY <1>1, <3>1
      <4> QED
        BY <1>4, <3>1, <4>1, AfterCreateFacts
    <3>2. CASE t \notin post[s].tasks
      BY <1>1, <3>2 DEF Shape
    <3> QED
      BY <3>1, <3>2
  <2> QED
    BY <1>1, <2>1
<1>7. /\ caller' \in [Caller -> {"idle", "creating", "live"}]
      /\ \A c \in Caller : caller'[c] = "creating" <=> caller[c] = "creating"
  BY <1>1, ToldFacts DEF Shape
<1>8. Shape'
  BY <1>1, <1>6, <1>7 DEF Shape
<1>9. Matched'
  <2>1. \A c \in Caller : Awaits(c)' <=> caller'[c] = "creating"
    BY <1>2, <1>3, <1>7, KeyAssumption DEF UserInv, Matched, Task
  <2>2. \A t \in Type : Awaits(t)' <=> conn'[t].pc = "creating"
    BY <1>2, <1>6 DEF UserInv, Matched, Task
  <2> QED
    BY <2>1, <2>2 DEF Matched
<1>10. Begun'
  BY <1>1, <1>2, <1>6 DEF UserInv, Begun
<1>11. Renewed' /\ Blameless'
  BY <1>1, <1>2, <1>6 DEF UserInv, Renewed, Blameless
<1>12. Ended'
  BY <1>1, <1>5, <1>7 DEF UserInv, Ended
<1> QED
  BY <1>2, <1>8, <1>9, <1>10, <1>11, <1>12 DEF UserInv

(* aclose().                                                               *)
LEMMA AcloseConnectionKeeps ==
  ASSUME UserInv, NEW t \in Type, AcloseConnection(t)
  PROVE  UserInv'
<1>1. /\ Shape /\ PostInv /\ client = "closing" /\ t \in conns /\ conn[t] \in ConnStates
      /\ UNCHANGED <<stored, keep, kclosing, config, client, started, conns, caller, starts>>
  BY DEF UserInv, AcloseConnection, keyVars, callVars, Shape
<1>2. PICK c \in ConnStates :
        /\ conn' = [conn EXCEPT ![t] = c] /\ c.pc \in {conn[t].pc, "none"} /\ c.pc # "reading"
        /\ c.pc = "creating" <=> conn[t].pc = "creating"
        /\ (conn[t].valid => conn[t].mine) => (c.valid => c.mine)
  <2>1. CASE conn[t].pc \in {"creating", "reaping"}
    <3> DEFINE c == [conn[t] EXCEPT !.closing = TRUE]
    <3>1. /\ c \in ConnStates /\ c.pc = conn[t].pc /\ c.valid = conn[t].valid /\ c.mine = conn[t].mine
          /\ conn' = [conn EXCEPT ![t] = c]
      BY <1>1, <2>1 DEF AcloseConnection, Set, ConnStates
    <3> HIDE DEF c
    <3> QED
      BY <2>1, <3>1
  <2>2. CASE conn[t].pc \notin {"creating", "reaping"}
    <3> DEFINE c == [Over(conn[t]) EXCEPT !.closing = TRUE]
    <3>1. conn' = [conn EXCEPT ![t] = c]
      BY <2>2 DEF AcloseConnection, Set
    <3>2. c \in ConnStates /\ c.pc = "none" /\ ~ c.valid
      BY <1>1, OverFacts
    <3> HIDE DEF c
    <3> QED
      BY <2>2, <3>1, <3>2
  <2> QED
    BY <2>1, <2>2
<1>3. conn' \in [Type -> ConnStates] /\ conn'[t] = c /\ \A u \in Type \ {t} : conn'[u] = conn[u]
  BY <1>1, <1>2 DEF Shape
<1>4. /\ PostInv' /\ \A j \in Task : Awaits(j)' <=> Awaits(j)
      /\ inflight' = inflight
      /\ \A r \in Slot : post'[r].tasks = post[r].tasks
      /\ \A r \in Slot : post'[r].state = "ok" => post[r].state = "ok"
  <2>1. CASE conn[t].pc = "creating"
    <3>1. CancelCreate(t) /\ Awaits(t) /\ t \in Task
      BY <2>1 DEF AcloseConnection, UserInv, Matched, Task
    <3> QED
      BY <1>1, <3>1, CancelFacts
  <2>2. CASE conn[t].pc # "creating"
    <3>1. UNCHANGED <<post, inflight, dropped>>
      BY <2>2 DEF AcloseConnection, postVars
    <3> QED
      BY <1>1, <3>1 DEF PostInv, PostOK, Awaits, CallersApart
  <2> QED
    BY <2>1, <2>2
<1>5. Shape'
  BY <1>1, <1>3 DEF Shape
<1>6. Matched'
  <2>1. \A u \in Type : conn'[u].pc = "creating" <=> conn[u].pc = "creating"
    BY <1>2, <1>3
  <2> QED
    BY <1>1, <1>4, <2>1 DEF UserInv, Matched, Task
<1>7. Begun'
  <2>1. \A u \in Type : conn'[u].pc # "none" => conn[u].pc # "none"
    BY <1>2, <1>3
  <2> QED
    BY <1>1, <1>4, <2>1 DEF UserInv, Begun, PostInv, PostOK
<1>8. Renewed'
  <2>1. config.same => \A u \in Type : conn'[u].valid => conn'[u].mine
    BY <1>2, <1>3 DEF UserInv, Renewed
  <2> QED
    BY <1>1, <1>4, <2>1 DEF UserInv, Renewed
<1>9. Blameless' /\ Ended'
  BY <1>1 DEF UserInv, Blameless, Ended
<1> QED
  BY <1>4, <1>5, <1>6, <1>7, <1>8, <1>9 DEF UserInv

LEMMA AcloseKeeps ==
  ASSUME UserInv, AcloseBegins \/ AcloseEndsConsumers \/ AcloseReturns
  PROVE  UserInv'
<1>1. UNCHANGED <<post, inflight, dropped, config, started, starts>>
  BY DEF AcloseBegins, AcloseEndsConsumers, AcloseReturns, postVars
<1>2. PostInv' /\ (\A j \in Task : Awaits(j)' <=> Awaits(j)) /\ Shape
  BY <1>1 DEF UserInv, PostInv, PostOK, Awaits, CallersApart
<1>3. CASE AcloseBegins
  <2>1. /\ client = "open" /\ client' = "closing" /\ (config.late \/ \A c \in Caller : caller[c] # "creating")
        /\ UNCHANGED <<stored, keep, kclosing, conns, caller, conn>>
    BY <1>3 DEF AcloseBegins, keyVars
  <2>2. Shape' /\ Matched'
    BY <1>1, <1>2, <2>1 DEF UserInv, Shape, Matched, Task
  <2>3. Begun' /\ Renewed' /\ Blameless' /\ Ended'
    BY <1>1, <2>1 DEF UserInv, Begun, Renewed, Blameless, Ended
  <2> QED
    BY <1>2, <2>2, <2>3 DEF UserInv
<1>4. CASE AcloseEndsConsumers
  <2>1. /\ client = "closing" /\ client' = "ending" /\ conns' = {} /\ kclosing' = TRUE /\ keep' = FALSE
        /\ \A t \in conns : conn[t].pc = "none"
        /\ conn' = [t \in Type |-> [conn[t] EXCEPT !.ws = FALSE]]
        /\ caller' = Told(caller) /\ UNCHANGED stored
    BY <1>4 DEF AcloseEndsConsumers, CloseBegins
  <2>2. /\ conn' \in [Type -> ConnStates]
        /\ \A t \in Type : conn'[t].pc = conn[t].pc /\ ~ conn'[t].ws
                           /\ conn'[t].valid = conn[t].valid /\ conn'[t].mine = conn[t].mine
    BY <1>2, <2>1 DEF Shape, ConnStates
  <2>3. \A t \in Type : conn'[t].pc = "none"
    BY <2>1, <2>2 DEF UserInv, Begun
  <2>4. /\ caller' \in [Caller -> {"idle", "creating", "live"}]
        /\ \A c \in Caller : caller'[c] # "live" /\ (caller'[c] = "creating" <=> caller[c] = "creating")
    BY <1>2, <2>1, ToldFacts
  <2>5. Shape'
    BY <1>1, <1>2, <2>1, <2>2, <2>4 DEF Shape
  <2>6. Matched'
    BY <1>1, <1>2, <2>2, <2>4 DEF UserInv, Matched, Task
  <2>7. Begun'
    BY <1>1, <2>3 DEF UserInv, Begun
  <2>8. Renewed'
    BY <1>1, <2>1, <2>2 DEF UserInv, Renewed
  <2>9. Ended'
    <3>1. ~ config.late => \A c \in Caller : caller'[c] = "idle"
      BY <2>1, <2>4 DEF UserInv, Ended
    <3> QED
      BY <1>1, <2>1, <2>2, <3>1 DEF Ended
  <2>10. Blameless'
    BY <2>1 DEF Blameless
  <2> QED
    BY <1>2, <2>5, <2>6, <2>7, <2>8, <2>9, <2>10 DEF UserInv
<1>5. CASE AcloseReturns
  <2>1. /\ client = "ending" /\ client' = "closed" /\ stored' = {}
        /\ UNCHANGED <<keep, kclosing, conns, caller, conn>>
    BY <1>5 DEF AcloseReturns, CloseTakesKeys
  <2>2. Shape' /\ Matched'
    BY <1>1, <1>2, <2>1 DEF UserInv, Shape, Matched, Task
  <2>3. Begun' /\ Renewed' /\ Blameless' /\ Ended'
    BY <1>1, <2>1 DEF UserInv, Begun, Renewed, Blameless, Ended
  <2> QED
    BY <1>2, <2>2, <2>3 DEF UserInv
<1> QED
  BY <1>3, <1>4, <1>5

LEMMA StepUser == UserInv /\ [Next]_vars => UserInv'
<1> SUFFICES ASSUME UserInv, [Next]_vars PROVE UserInv'
  OBVIOUS
<1>1. CASE UNCHANGED vars
  BY <1>1 DEF vars, keyVars, postVars, callVars, UserInv, Shape, PostInv, PostOK, Awaits, CallersApart,
              Matched, Begun, Renewed, Blameless, Ended
<1>2. CASE Consumers
  BY <1>2, WatchKeeps, CancelWatchKeeps, LeaveKeeps DEF Consumers
<1>3. CASE Posts
  BY <1>3, PostKeeps, WakeCallersKeeps, WakeSupervisorsKeeps DEF Posts, PostGoesOn
<1>4. CASE Supervisors \/ Outside
  BY <1>4, SupervisorsKeep DEF Supervisors, Outside
<1>5. CASE AcloseBegins \/ AcloseGoesOn
  BY <1>5, AcloseKeeps, AcloseConnectionKeeps DEF AcloseGoesOn
<1> QED
  BY <1>1, <1>2, <1>3, <1>4, <1>5 DEF Next

LEMMA UserAlways == Spec => []UserInv
  BY InitUser, StepUser, PTL DEF Spec

-----------------------------------------------------------------------------
(* What it gives.                                                          *)

(* The state keeps its shape, and exactly the tasks in create() await a    *)
(* POST.                                                                   *)
THEOREM Types == Spec => []TypeOK
<1>1. UserInv => TypeOK
  <2> SUFFICES ASSUME UserInv PROVE TypeOK
    OBVIOUS
  <2>1. \A k : k \in Asking <=> Awaits(k)
    BY DEF Asking, Awaits
  <2>2. \A k \in Asking : k \in Task
    BY DEF UserInv, PostInv, PostOK, Asking
  <2>3. Asking = {c \in Caller : caller[c] = "creating"} \cup {t \in Type : conn[t].pc = "creating"}
    BY <2>1, <2>2 DEF UserInv, Matched, Task
  <2>4. dropped \subseteq Asking
    BY <2>1 DEF UserInv, PostInv
  <2> QED
    BY <2>3, <2>4 DEF UserInv, Shape, PostInv, PostOK, PostStates, ConnStates, TypeOK
<1> QED
  BY <1>1, UserAlways, PTL

(* However the callers of a stream that is not started overlap, are        *)
(* cancelled or fail, its connections are made once (userstream.py:237).   *)
THEOREM MadeOnce == Spec => []ConnectionsMadeOnce
<1>1. UserInv => ConnectionsMadeOnce
  BY DEF UserInv, Begun, ConnectionsMadeOnce
<1> QED
  BY <1>1, UserAlways, PTL

(* A caller that starts the stream never shares a POST with a supervisor,  *)
(* so that cancelling the caller cannot end the supervisor.                *)
THEOREM NeverShared == Spec => []CallersApart
<1>1. UserInv => CallersApart
  BY DEF UserInv, PostInv
<1> QED
  BY <1>1, UserAlways, PTL

(* The key of a connection that reads is the stored one, and is kept       *)
(* alive, if the exchange gives out a valid key again.                     *)
THEOREM KeysAreKept == Spec => []KeysInUseAreKept
<1>1. UserInv => KeysInUseAreKept
  <2> SUFFICES ASSUME UserInv, NEW t \in Type, config.same, conn[t].pc = "reading", conn[t].valid
               PROVE  keep /\ conn[t].mine
    BY DEF KeysInUseAreKept, Reads
  <2>1. started /\ t \in conns
    BY DEF UserInv, Begun
  <2>2. ~ kclosing
    BY <2>1 DEF UserInv, Renewed, Ended
  <2> QED
    BY <2>1, <2>2 DEF UserInv, Renewed
<1> QED
  BY <1>1, UserAlways, PTL

(* After aclose() no key, task, socket or consumer is left, unless the     *)
(* application was starting the stream while it closed it.                 *)
THEOREM LeavesNothing == Spec => []ClosedIsQuiet
<1>1. UserInv => ClosedIsQuiet
  <2> SUFFICES ASSUME UserInv, client = "closed", ~ config.late
               PROVE  /\ stored = {} /\ ~ keep /\ Live = {} /\ Asking = {}
                      /\ \A t \in Type : conn[t].pc = "none" /\ ~ conn[t].ws
    BY DEF ClosedIsQuiet
  <2>1. \A t \in Type : conn[t].pc = "none" /\ ~ conn[t].ws
    BY DEF UserInv, Ended, Begun
  <2>2. stored = {} /\ ~ keep /\ \A c \in Caller : caller[c] = "idle"
    BY DEF UserInv, Ended, Renewed
  <2>3. Asking = {}
    <3>1. \A k \in Task : ~ Awaits(k)
      BY <2>1, <2>2 DEF UserInv, Matched, Task
    <3> QED
      BY <3>1 DEF UserInv, PostInv, PostOK, Awaits, Asking
  <2> QED
    BY <2>1, <2>2, <2>3 DEF Live
<1> QED
  BY <1>1, UserAlways, PTL

(* A supervisor that ends while the client is open, by itself, has told    *)
(* every consumer so: in particular it is never cancelled in create().     *)
THEOREM TellsAtItsEnd == Spec => EndsWithAWord
<1> DEFINE Ends(t) == ~ conn[t].closing /\ conn[t].pc # "none" /\ conn'[t].pc = "none"
           Silent == (\E t \in Type : Ends(t)) => client # "open" \/ \A c \in Caller : caller'[c] # "live"
<1>1. ASSUME UserInv, [Next]_vars PROVE Silent
  <2> SUFFICES ASSUME NEW t \in Type, Ends(t), client = "open"
               PROVE  \A c \in Caller : caller'[c] # "live"
    OBVIOUS
  <2>0. conn \in [Type -> ConnStates] /\ \A c \in Caller : Told(caller)[c] # "live"
    BY <1>1, ToldFacts DEF UserInv, Shape
  <2>1. CASE UNCHANGED conn
    BY <2>1
  <2>2. ASSUME NEW u \in Type, NEW c \in ConnStates, Set(u, c), c.pc # "none"
        PROVE  FALSE
    BY <2>0, <2>2 DEF Set
  <2>3. CASE \E s \in Slot : Answered(s)
    <3>1. conn'[t].pc = conn[t].pc
      BY <2>0, <2>3 DEF Answered, ConnStates
    <3> QED
      BY <3>1
  <2>4. CASE \E s \in Slot : WakeCallers(s)
    <3>1. PICK s \in Slot : WakeCallers(s)
      BY <2>4
    <3>2. conn'[t] = conn[t] \/ conn'[t] = [NewConn EXCEPT !.pc = "start"]
      BY <2>0, <3>1 DEF WakeCallers
    <3> QED
      BY <3>2 DEF NewConn
  <2>5. CASE \E s \in Slot : WakeSupervisors(s)
    <3>1. PICK s \in Slot : WakeSupervisors(s)
      BY <2>5
    <3>2. /\ post[s].tasks \cap Type # {}
          /\ conn'[t] = IF t \in post[s].tasks THEN AfterCreate(s, t) ELSE conn[t]
          /\ Faults(s) => caller' = Told(caller)
      BY <3>1 DEF WakeSupervisors
    <3>3. t \in post[s].tasks /\ AfterCreate(s, t).pc = "none"
      BY <3>2
    <3>4. Outcome(s, t) # "cancelled"
      <4>1. post[s].tasks \subseteq Type
        BY <1>1, <3>2, KeyAssumption DEF UserInv, PostInv, CallersApart
      <4>2. t \notin dropped /\ post[s].state # "cancelled"
        BY <1>1, <3>3, <4>1, KeyAssumption DEF UserInv, Blameless
      <4> QED
        BY <4>2 DEF Outcome
    <3>5. Faults(s)
      BY <1>1, <3>3, <3>4, AfterCreateFacts DEF Faults
    <3> QED
      BY <2>0, <3>2, <3>5
  <2>6. CASE \E u \in Type : Start(u)
    <3>1. PICK u \in Type : conn[u].pc \in {"start", "sleeping"} /\ LoopHead(u, conn[u])
      BY <2>6 DEF Start
    <3>2. u = t
      BY <2>0, <3>1 DEF LoopHead, Set
    <3>3. Set(u, [conn[u] EXCEPT !.pc = "creating"])
      BY <3>1, <3>2 DEF LoopHead
    <3> QED
      BY <2>0, <2>2, <3>3, MovedFacts DEF Pc
  <2>7. CASE \E u \in Type : ConnectSucceeds(u) \/ SocketEnds(u) \/ ExpiredFrame(u) \/ SessionExpires(u)
                              \/ ReaderReaped(u) \/ KeyExpires(u)
    <3>1. PICK u \in Type :
            ConnectSucceeds(u) \/ SocketEnds(u) \/ ExpiredFrame(u) \/ SessionExpires(u) \/ ReaderReaped(u)
              \/ KeyExpires(u)
      BY <2>7
    <3>2. conn'[u].pc # "none" /\ \A v \in Type \ {u} : conn'[v] = conn[v]
      <4>1. CASE ConnectSucceeds(u)
        BY <2>0, <4>1 DEF ConnectSucceeds, Set, ConnStates
      <4>2. CASE SocketEnds(u) \/ ExpiredFrame(u) \/ SessionExpires(u)
        BY <2>0, <4>2 DEF SocketEnds, ExpiredFrame, SessionExpires, StopsReading, Set, ConnStates
      <4>3. CASE ReaderReaped(u)
        BY <2>0, <4>3 DEF ReaderReaped, Set, ConnStates
      <4>4. CASE KeyExpires(u)
        BY <2>0, <4>4 DEF KeyExpires, Reads, Set, ConnStates
      <4> QED
        BY <3>1, <4>1, <4>2, <4>3, <4>4
    <3> QED
      BY <3>2
  <2>8. CASE \E u \in Type : ConnectFails(u)
    <3>1. PICK u \in Type : ConnectFails(u)
      BY <2>8
    <3>2. CASE ~ config.auto \/ conn[u].closing
      BY <2>0, <3>1, <3>2 DEF ConnectFails
    <3>3. CASE ~ (~ config.auto \/ conn[u].closing)
      <4>1. Set(u, [conn[u] EXCEPT !.pc = "sleeping"])
        BY <3>1, <3>3 DEF ConnectFails
      <4> QED
        BY <2>0, <2>2, <4>1, MovedFacts DEF Pc
    <3> QED
      BY <3>2, <3>3
  <2>9. CASE \E u \in Type : SocketDropped(u)
    <3>1. PICK u \in Type : SocketDropped(u)
      BY <2>9
    <3> DEFINE c == [conn[u] EXCEPT !.ws = FALSE, !.again = FALSE]
    <3>2. /\ c \in ConnStates /\ c.closing = conn[u].closing
          /\ \/ c.closing /\ Set(u, Over(c))
             \/ ~ c.closing /\ LoopHead(u, c)
             \/ caller' = Told(caller)
             \/ Set(u, [c EXCEPT !.pc = "sleeping"])
      BY <2>0, <3>1 DEF SocketDropped, ConnStates
    <3> HIDE DEF c
    <3>3. CASE c.closing /\ Set(u, Over(c))
      BY <2>0, <3>2, <3>3 DEF Set
    <3>4. CASE ~ c.closing /\ LoopHead(u, c)
      <4>1. Set(u, [c EXCEPT !.pc = "creating"])
        BY <3>4 DEF LoopHead
      <4> QED
        BY <2>2, <3>2, <4>1, MovedFacts DEF Pc
    <3>5. CASE caller' = Told(caller)
      BY <2>0, <3>5
    <3>6. CASE Set(u, [c EXCEPT !.pc = "sleeping"])
      BY <2>2, <3>2, <3>6, MovedFacts DEF Pc
    <3> QED
      BY <3>2, <3>3, <3>4, <3>5, <3>6
  <2>10. CASE (\E u \in Type : AcloseConnection(u)) \/ AcloseEndsConsumers
    BY <2>10 DEF AcloseConnection, AcloseEndsConsumers
  <2>11. CASE Consumers \/ (\E s \in Slot : Fails(s) \/ Dies(s)) \/ AcloseBegins \/ AcloseReturns \/ UNCHANGED vars
    BY <2>1, <2>11 DEF Consumers, Watch, CancelWatch, Leave, Fails, Dies, AcloseBegins, AcloseReturns, vars
  <2> QED
    BY <1>1, <2>3, <2>4, <2>5, <2>6, <2>7, <2>8, <2>9, <2>10, <2>11
       DEF Next, Posts, PostGoesOn, Supervisors, Outside, AcloseGoesOn
<1> QED
  BY <1>1, UserAlways, PTL DEF Spec, EndsWithAWord

=============================================================================
