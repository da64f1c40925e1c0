------------------------- MODULE OrderPlacementProofs -------------------------
(***************************************************************************)
(* Proofs about OrderPlacement, for any number of intents, calls and       *)
(* retries.                                                                *)
(***************************************************************************)
EXTENDS OrderPlacement, FiniteSetTheorems, TLAPS

-----------------------------------------------------------------------------
(* Types.  A call that backs off has retries left, and is a query.         *)

Outcomes == {"none", "placed", "rejected", "resubmittable", "unknown", "escaped"}
Places   == {"idle", "ready", "syncing", "waiting", "resyncing", "backoff"}

CallOK ==
  /\ calls \in [Intent -> 0..MaxCalls] /\ outcome \in [Intent -> Outcomes]
  /\ op \in [Intent -> {"none", "create", "query"}] /\ at \in [Intent -> Places]
  /\ tries \in [Intent -> 0..MaxRetries]

FlagsOK == again \in [Intent -> BOOLEAN] /\ synced \in BOOLEAN

NetOK ==
  /\ wire \in [Id -> Nat] /\ orders \in [Id -> Nat]
  /\ coded \subseteq Id /\ late \subseteq Id

Under(i) ==
  /\ op[i] = "none" <=> at[i] = "idle"
  /\ at[i] = "backoff" => op[i] = "query" /\ tries[i] < MaxRetries
  /\ op[i] # "none" => calls[i] >= 1 /\ outcome[i] = "none"
  /\ outcome[i] # "none" => calls[i] >= 1

Typed == CallOK /\ FlagsOK /\ NetOK /\ \A i \in Intent : Under(i)

LEMMA TypedIsTypeOK == Typed => TypeOK
  BY DEF Typed, CallOK, FlagsOK, NetOK, Under, TypeOK, Outcomes, Places

(* What raising an error does to the call: it synchronises or backs off,   *)
(* or begins its query, or returns.                                        *)
Pauses(i, e) ==
  /\ \/ at' = [at EXCEPT ![i] = "resyncing"] /\ e = "stale"
     \/ at' = [at EXCEPT ![i] = "backoff"] /\ op[i] = "query" /\ tries[i] < MaxRetries
  /\ UNCHANGED <<calls, outcome, op, again, tries>>

Asks(i, e) == op[i] = "create" /\ Unknown(e) /\ Request(i, "query") /\ UNCHANGED <<calls, outcome>>

Ends(i, e, o) ==
  /\ Return(i, o)
  /\ \/ op[i] = "create" /\ ~ Unknown(e) /\ o = "rejected"
     \/ op[i] = "query" /\ o = Verdict(e) /\ o \in {"resubmittable", "unknown", "escaped"}

LEMMA RaiseCases ==
  ASSUME Typed, NEW i \in Intent, NEW e \in Lost \cup ApiErrors, Raise(i, e)
  PROVE  Pauses(i, e) \/ Asks(i, e) \/ \E o \in Outcomes : Ends(i, e, o)
<1>1. Verdict(e) \in {"resubmittable", "unknown", "escaped"}
  BY DEF Verdict, Lost, ApiErrors
<1>2. CASE Resync(i, e)
  BY <1>2 DEF Raise, Resync, Pauses, callVars
<1>3. CASE ~ Resync(i, e) /\ Retry(i, e)
  BY <1>3 DEF Raise, Retry, Retryable, Pauses, callVars
<1>4. CASE ~ Resync(i, e) /\ ~ Retry(i, e)
  BY <1>1, <1>4 DEF Raise, Asks, Ends, Outcomes, callVars
<1> QED
  BY <1>2, <1>3, <1>4

LEMMA RaiseTyped ==
  ASSUME Typed, NEW i \in Intent, op[i] # "none", NEW e \in Lost \cup ApiErrors, Raise(i, e)
  PROVE  CallOK' /\ again' \in [Intent -> BOOLEAN] /\ \A j \in Intent : Under(j)'
<1> USE DEF Typed, CallOK, FlagsOK
<1>1. CASE Pauses(i, e)
  BY <1>1 DEF Pauses, Under, Places
<1>2. CASE Asks(i, e)
  <2>1. /\ op' = [op EXCEPT ![i] = "query"] /\ at' = [at EXCEPT ![i] = "ready"]
        /\ again' = [again EXCEPT ![i] = FALSE] /\ tries' = [tries EXCEPT ![i] = 0]
        /\ UNCHANGED <<calls, outcome>>
    BY <1>2 DEF Asks, Request
  <2> QED
    BY <2>1, BoundAssumption DEF Under, Places
<1>3. CASE \E o \in Outcomes : Ends(i, e, o)
  <2>1. PICK o \in Outcomes : /\ outcome' = [outcome EXCEPT ![i] = o]
                              /\ op' = [op EXCEPT ![i] = "none"] /\ at' = [at EXCEPT ![i] = "idle"]
                              /\ UNCHANGED <<calls, again, tries>>
    BY <1>3 DEF Ends, Return
  <2> QED
    BY <2>1 DEF Under, Places
<1> QED
  BY <1>1, <1>2, <1>3, RaiseCases

LEMMA SendTyped ==
  ASSUME Typed, NEW i \in Intent, op[i] # "none", Send(i)
  PROVE  CallOK' /\ NetOK' /\ \A j \in Intent : Under(j)'
<1>1. id(i) \in Id
  BY DEF Typed, CallOK, Under, id, Id
<1>2. CallOK' /\ \A j \in Intent : Under(j)'
  BY DEF Send, Typed, CallOK, Under, Places, callVars
<1>3. NetOK'
  BY <1>1 DEF Send, Typed, NetOK, historyVars
<1> QED
  BY <1>2, <1>3

LEMMA TypedInit == Init => Typed
<1> SUFFICES ASSUME Init PROVE Typed
  OBVIOUS
<1>1. CallOK /\ FlagsOK /\ NetOK
  BY BoundAssumption DEF Init, CallOK, FlagsOK, NetOK, Outcomes, Places
<1>2. \A i \in Intent : Under(i)
  BY DEF Init, Under
<1> QED
  BY <1>1, <1>2 DEF Typed

LEMMA TypedStep == Typed /\ [Next]_vars => Typed'
<1> SUFFICES ASSUME Typed, [Next]_vars PROVE Typed'
  OBVIOUS
<1> USE DEF Typed
<1>0. CASE UNCHANGED vars
  BY <1>0 DEF vars, callVars, requestVars, exchangeVars, historyVars, CallOK, FlagsOK, NetOK, Under
<1>1. ASSUME NEW i \in Intent, CreateOrder(i) PROVE Typed'
  <2>1. /\ calls' = [calls EXCEPT ![i] = @ + 1] /\ outcome' = [outcome EXCEPT ![i] = "none"]
        /\ op' = [op EXCEPT ![i] = "create"] /\ at' = [at EXCEPT ![i] = "ready"]
        /\ tries' = [tries EXCEPT ![i] = 0] /\ calls[i] < MaxCalls
    BY <1>1 DEF CreateOrder, Request
  <2>2. again' = [again EXCEPT ![i] = FALSE] /\ UNCHANGED <<synced, wire, orders, coded, late>>
    BY <1>1 DEF CreateOrder, Request, exchangeVars, historyVars
  <2>3. CallOK'
    BY <2>1, BoundAssumption DEF CallOK, Outcomes, Places
  <2>4. \A j \in Intent : Under(j)'
    BY <2>1 DEF CallOK, Under
  <2>5. FlagsOK' /\ NetOK'
    BY <2>2 DEF FlagsOK, NetOK
  <2> QED
    BY <2>3, <2>4, <2>5
<1>2. ASSUME NEW i \in Intent, Execute(i) PROVE Typed'
  <2>1. op[i] # "none" /\ UNCHANGED <<again, synced>>
    BY <1>2 DEF Execute, Under
  <2>2. CASE Send(i)
    BY <2>1, <2>2, SendTyped DEF FlagsOK
  <2>3. CASE ~ Send(i)
    <3>1. at' = [at EXCEPT ![i] = "syncing"]
          /\ UNCHANGED <<calls, outcome, op, tries, wire, orders, coded, late>>
      BY <1>2, <2>3 DEF Execute, callVars, exchangeVars, historyVars
    <3>2. CallOK' /\ \A j \in Intent : Under(j)'
      BY <2>1, <3>1 DEF CallOK, Under, Places
    <3> QED
      BY <2>1, <3>1, <3>2 DEF FlagsOK, NetOK
  <2> QED
    BY <2>2, <2>3
<1>3. ASSUME NEW i \in Intent, WakeUp(i) PROVE Typed'
  <2>1. /\ at[i] = "backoff" /\ at' = [at EXCEPT ![i] = "ready"]
        /\ tries' = [tries EXCEPT ![i] = @ + 1] /\ UNCHANGED <<calls, outcome, op>>
    BY <1>3 DEF WakeUp, callVars
  <2>2. again' = [again EXCEPT ![i] = FALSE] /\ UNCHANGED <<synced, wire, orders, coded, late>>
    BY <1>3 DEF WakeUp, exchangeVars, historyVars
  <2>3. CallOK' /\ \A j \in Intent : Under(j)'
    BY <2>1, BoundAssumption DEF CallOK, Under, Places
  <2> QED
    BY <2>2, <2>3 DEF FlagsOK, NetOK
<1>4. ASSUME NEW i \in Intent, SyncSucceeds(i) PROVE Typed'
  <2>1. op[i] # "none" /\ Send(i)
    BY <1>4 DEF SyncSucceeds, Under
  <2>2. FlagsOK'
    BY <1>4 DEF SyncSucceeds, FlagsOK
  <2> QED
    BY <2>1, <2>2, SendTyped
<1>5. ASSUME NEW i \in Intent, NEW e \in Lost \cup ApiErrors, op[i] # "none", Raise(i, e),
             NetOK', UNCHANGED synced
      PROVE  Typed'
  BY <1>5, RaiseTyped DEF FlagsOK
<1>6. ASSUME NEW i \in Intent, SyncFails(i) PROVE Typed'
  BY <1>5, <1>6 DEF SyncFails, Under, exchangeVars, historyVars, NetOK, Lost, ApiErrors
<1>7. ASSUME NEW i \in Intent, NEW o \in Outcomes \ {"none"}, op[i] # "none", Return(i, o),
             NetOK', UNCHANGED synced
      PROVE  Typed'
  <2>1. /\ outcome' = [outcome EXCEPT ![i] = o] /\ op' = [op EXCEPT ![i] = "none"]
        /\ at' = [at EXCEPT ![i] = "idle"] /\ UNCHANGED <<calls, again, tries>>
    BY <1>7 DEF Return
  <2>2. CallOK' /\ \A j \in Intent : Under(j)'
    BY <1>7, <2>1 DEF CallOK, Under, Places
  <2> QED
    BY <1>7, <2>1, <2>2 DEF FlagsOK
<1>8. ASSUME NEW i \in Intent, Posting(i) \/ Querying(i) PROVE op[i] # "none" /\ id(i) \in Id
  BY <1>8 DEF Posting, Querying, CallOK, Under, id, Id
<1>9. ASSUME NEW c \in Id, Arrives(c) PROVE wire' \in [Id -> Nat]
  BY <1>9 DEF Arrives, NetOK
<1>10. ASSUME NEW c \in Id, Place(c) PROVE orders' \in [Id -> Nat]
  BY <1>10 DEF Place, NetOK
<1>11. ASSUME NEW i \in Intent, PostAccepted(i) PROVE Typed'
  <2>1. NetOK'
    BY <1>8, <1>9, <1>10, <1>11 DEF PostAccepted, NetOK, historyVars
  <2> QED
    BY <1>7, <1>8, <1>11, <2>1 DEF PostAccepted, Outcomes
<1>12. ASSUME NEW i \in Intent, PostRefused(i) PROVE Typed'
  <2>1. NetOK'
    BY <1>8, <1>9, <1>12 DEF PostRefused, NetOK, historyVars
  <2> QED
    BY <1>5, <1>8, <1>12, <2>1 DEF PostRefused, ApiErrors
<1>13. ASSUME NEW i \in Intent, PostServerErrorCoded(i) PROVE Typed'
  <2>1. wire' \in [Id -> Nat] /\ orders' \in [Id -> Nat]
    BY <1>8, <1>9, <1>10, <1>13 DEF PostServerErrorCoded, NetOK
  <2>2. NetOK'
    BY <1>8, <1>13, <2>1 DEF PostServerErrorCoded, NetOK
  <2> QED
    BY <1>5, <1>8, <1>13, <2>2 DEF PostServerErrorCoded, ApiErrors
<1>14. ASSUME NEW i \in Intent, PostUnanswered(i) PROVE Typed'
  BY <1>5, <1>8, <1>14 DEF PostUnanswered, exchangeVars, historyVars, NetOK, Lost, ApiErrors
<1>15. ASSUME NEW i \in Intent, QueryFound(i) PROVE Typed'
  BY <1>7, <1>8, <1>15 DEF QueryFound, exchangeVars, historyVars, NetOK, Outcomes
<1>16. ASSUME NEW i \in Intent, QueryAbsent(i) PROVE Typed'
  BY <1>5, <1>8, <1>16 DEF QueryAbsent, exchangeVars, NetOK, ApiErrors
<1>17. ASSUME NEW i \in Intent, QueryFails(i) PROVE Typed'
  BY <1>5, <1>8, <1>17 DEF QueryFails, exchangeVars, historyVars, NetOK, Lost, ApiErrors
<1>18. ASSUME NEW c \in Id, PostLands(c) PROVE Typed'
  <2>1. NetOK'
    BY <1>9, <1>10, <1>18 DEF PostLands, NetOK, historyVars
  <2>2. CallOK' /\ FlagsOK' /\ \A j \in Intent : Under(j)'
    BY <1>18 DEF PostLands, callVars, requestVars, CallOK, FlagsOK, Under
  <2> QED
    BY <2>1, <2>2
<1> QED
  BY <1>0, <1>1, <1>2, <1>3, <1>4, <1>6, <1>11, <1>12, <1>13, <1>14, <1>15, <1>16, <1>17, <1>18
     DEF Next, Client, Answer

(* The state keeps its shape, for any number of intents, calls and retries. *)
THEOREM Types == Spec => []TypeOK
<1>1. Spec => []Typed
  BY TypedInit, TypedStep, PTL DEF Spec
<1> QED
  BY <1>1, TypedIsTypeOK, PTL

-----------------------------------------------------------------------------
(* Orders.  Under an id there is at most one order, placed or on its way;  *)
(* none yet while its POST is still to be sent, none under an id that is   *)
(* to be used by a later call, and none under those of earlier calls,      *)
(* unless a query was answered before the POST arrived.                    *)

Total(c) == wire[c] + orders[c]

Single == \A c \in Id : Total(c) <= 1

Settled(i) ==
  /\ op[i] = "create" /\ at[i] \in {"ready", "syncing", "resyncing"} => Total(id(i)) = 0
  /\ \A n \in 1..MaxCalls : n > calls[i] => Total(<<i, n>>) = 0
  /\ \A n \in 1..MaxCalls : n < calls[i] /\ <<i, n>> \notin late => Total(<<i, n>>) = 0
  /\ outcome[i] = "placed" => orders[id(i)] = 1
  /\ outcome[i] = "rejected" /\ id(i) \notin coded => Total(id(i)) = 0
  /\ outcome[i] = "resubmittable" /\ id(i) \notin late => Total(id(i)) = 0
  /\ at[i] = "idle" /\ outcome[i] = "none" => calls[i] = 0

OrderInv == Typed /\ Single /\ \A i \in Intent : Settled(i)

LEMMA IdOfCall ==
  ASSUME Typed, NEW i \in Intent, op[i] # "none" \/ outcome[i] # "none"
  PROVE  id(i) \in Id /\ calls[i] \in 1..MaxCalls /\ id(i) = <<i, calls[i]>>
  BY DEF Typed, CallOK, Under, id, Id

(* A step that leaves an intent and what is placed for it alone.           *)
LEMMA Apart ==
  ASSUME Typed, NEW j \in Intent, Settled(j),
         calls'[j] = calls[j], outcome'[j] = outcome[j], op'[j] = op[j], at'[j] = at[j],
         \A n \in 1..MaxCalls : wire'[<<j, n>>] = wire[<<j, n>>] /\ orders'[<<j, n>>] = orders[<<j, n>>],
         coded \subseteq coded', late \subseteq late'
  PROVE  Settled(j)'
<1>1. op[j] # "none" \/ outcome[j] # "none" =>
        /\ calls[j] \in 1..MaxCalls
        /\ wire'[id(j)] = wire[id(j)] /\ orders'[id(j)] = orders[id(j)]
  BY IdOfCall
<1>2. id(j)' = id(j)
  BY DEF id
<1> QED
  BY <1>1, <1>2 DEF Settled, Total

(* What a step may do to the intent it is about: the numbers under its     *)
(* current id change, those under its other ids do not.                    *)
Current(i) ==
  /\ \A c \in Id : c # id(i) => wire'[c] = wire[c] /\ orders'[c] = orders[c]
  /\ \A j \in Intent \ {i} :
       calls'[j] = calls[j] /\ outcome'[j] = outcome[j] /\ op'[j] = op[j] /\ at'[j] = at[j]
  /\ calls' = calls
  /\ coded \subseteq coded' /\ late \subseteq late'

LEMMA StepOfOne ==
  ASSUME OrderInv, Typed', NEW i \in Intent, op[i] # "none", Current(i), Total(id(i))' <= 1,
         op'[i] = "create" /\ at'[i] \in {"ready", "syncing", "resyncing"} => Total(id(i))' = 0,
         outcome'[i] = "placed" => orders'[id(i)] = 1,
         outcome'[i] = "rejected" /\ id(i) \notin coded' => Total(id(i))' = 0,
         outcome'[i] = "resubmittable" /\ id(i) \notin late' => Total(id(i))' = 0,
         at'[i] = "idle" => outcome'[i] # "none"
  PROVE  OrderInv'
<1>0. id(i) \in Id /\ calls[i] \in 1..MaxCalls /\ id(i) = <<i, calls[i]>> /\ id(i)' = id(i)
  BY IdOfCall DEF OrderInv, Current, id
<1>1. Single'
  BY <1>0 DEF OrderInv, Single, Total, Current
<1>2. ASSUME NEW j \in Intent \ {i} PROVE Settled(j)'
  <2>1. \A n \in 1..MaxCalls : <<j, n>> \in Id /\ <<j, n>> # id(i)
    BY <1>0 DEF Id
  <2> QED
    BY <2>1, Apart DEF OrderInv, Current
<1>3. Settled(i)'
  <2>1. \A n \in 1..MaxCalls : n # calls[i] => <<i, n>> \in Id /\ <<i, n>> # id(i)
    BY <1>0 DEF Id
  <2>2. \A n \in 1..MaxCalls : n # calls[i] => Total(<<i, n>>)' = Total(<<i, n>>)
    BY <2>1 DEF Current, Total
  <2>3. calls'[i] = calls[i] /\ late \subseteq late'
    BY DEF Current
  <2>4. \A n \in 1..MaxCalls : n > calls'[i] => Total(<<i, n>>)' = 0
    BY <1>0, <2>2, <2>3 DEF OrderInv, Settled
  <2>5. \A n \in 1..MaxCalls : n < calls'[i] /\ <<i, n>> \notin late' => Total(<<i, n>>)' = 0
    BY <1>0, <2>2, <2>3 DEF OrderInv, Settled
  <2> QED
    BY <1>0, <2>4, <2>5 DEF Settled
<1> QED
  BY <1>1, <1>2, <1>3 DEF OrderInv

(* What raising an error may lead to.                                      *)
LEMMA RaiseEffect ==
  ASSUME Typed, NEW i \in Intent, op[i] # "none", NEW e \in Lost \cup ApiErrors, Raise(i, e)
  PROVE  /\ calls' = calls
         /\ \A j \in Intent \ {i} : outcome'[j] = outcome[j] /\ op'[j] = op[j] /\ at'[j] = at[j]
         /\ at'[i] = "idle" => outcome'[i] # "none"
         /\ outcome'[i] # "placed"
         /\ outcome'[i] = "rejected" => op[i] = "create" /\ ~ Unknown(e)
         /\ outcome'[i] = "resubmittable" => op[i] = "query" /\ e = "absent"
         /\ op'[i] = "create" /\ at'[i] \in {"ready", "syncing", "resyncing"} => op[i] = "create" /\ e = "stale"
<1> USE DEF Typed, CallOK
<1>0. outcome[i] = "none"
  BY DEF Under
<1>1. CASE Pauses(i, e)
  BY <1>0, <1>1 DEF Pauses
<1>2. CASE Asks(i, e)
  BY <1>0, <1>2 DEF Asks, Request
<1>3. CASE \E o \in Outcomes : Ends(i, e, o)
  <2>1. PICK o \in Outcomes : Ends(i, e, o)
    BY <1>3
  <2>2. /\ outcome' = [outcome EXCEPT ![i] = o] /\ op' = [op EXCEPT ![i] = "none"]
        /\ at' = [at EXCEPT ![i] = "idle"] /\ calls' = calls
    BY <2>1 DEF Ends, Return
  <2>3. o = "rejected" => op[i] = "create" /\ ~ Unknown(e)
    BY <2>1 DEF Ends
  <2>4. o = "resubmittable" => op[i] = "query" /\ e = "absent"
    BY <2>1 DEF Ends, Verdict, Lost, ApiErrors
  <2>5. o \notin {"none", "placed"}
    BY <2>1 DEF Ends
  <2> QED
    BY <2>2, <2>3, <2>4, <2>5
<1> QED
  BY <1>1, <1>2, <1>3, RaiseCases

(* A POST of this call arrives: it is the only order under its id.         *)
LEMMA PostArrives ==
  ASSUME OrderInv, NEW c \in Id, Arrives(c)
  PROVE  /\ wire[c] = 1 /\ orders[c] = 0 /\ wire'[c] = 0
         /\ \A d \in Id : d # c => wire'[d] = wire[d]
  BY DEF OrderInv, Typed, NetOK, Single, Total, Arrives

LEMMA OrderPlaced ==
  ASSUME Typed, NEW c \in Id, Place(c)
  PROVE  orders'[c] = orders[c] + 1 /\ \A d \in Id : d # c => orders'[d] = orders[d]
  BY DEF Typed, NetOK, Place

LEMMA SendKeeps ==
  ASSUME OrderInv, Typed', NEW i \in Intent, at[i] \in {"ready", "syncing", "resyncing"}, Send(i)
  PROVE  OrderInv'
<1>1. op[i] # "none" /\ outcome[i] = "none" /\ at'[i] = "waiting" /\ outcome'[i] = "none"
  BY DEF OrderInv, Typed, CallOK, Under, Send, callVars
<1>2. id(i) \in Id /\ id(i)' = id(i)
  BY <1>1, IdOfCall DEF OrderInv, Send, callVars, id
<1>3. wire'[id(i)] + orders[id(i)] <= 1 /\ \A c \in Id : c # id(i) => wire'[c] = wire[c]
  <2>1. CASE op[i] = "create"
    <3>1. Total(id(i)) = 0 /\ wire' = [wire EXCEPT ![id(i)] = @ + 1]
      BY <2>1 DEF OrderInv, Settled, Send
    <3> QED
      BY <1>2, <3>1 DEF Total, OrderInv, Typed, NetOK
  <2>2. CASE op[i] # "create"
    BY <1>2, <2>2 DEF Send, OrderInv, Single, Total
  <2> QED
    BY <2>1, <2>2
<1>4. UNCHANGED <<calls, outcome, op, tries, orders, coded, late>> /\ at' = [at EXCEPT ![i] = "waiting"]
  BY DEF Send, callVars, historyVars
<1>5. Current(i)
  BY <1>2, <1>3, <1>4 DEF Current, OrderInv, Typed, CallOK
<1>6. Total(id(i))' <= 1
  BY <1>2, <1>3, <1>4 DEF Total
<1> QED
  BY <1>1, <1>5, <1>6, StepOfOne

LEMMA OrderInit == Init => OrderInv
<1> SUFFICES ASSUME Init PROVE OrderInv
  OBVIOUS
<1>1. Typed
  BY TypedInit
<1>2. Single
  BY DEF Init, Single, Total
<1>3. ASSUME NEW i \in Intent PROVE Settled(i)
  <2>1. \A n \in 1..MaxCalls : Total(<<i, n>>) = 0
    BY DEF Init, Total, Id
  <2> QED
    BY <2>1 DEF Init, Settled
<1> QED
  BY <1>1, <1>2, <1>3 DEF OrderInv

LEMMA OrderStep == OrderInv /\ [Next]_vars => OrderInv'
<1> SUFFICES ASSUME OrderInv, [Next]_vars PROVE OrderInv'
  OBVIOUS
<1>t. Typed /\ Typed'
  BY TypedStep DEF OrderInv
<1>0. CASE UNCHANGED vars
  BY <1>0, <1>t DEF vars, callVars, requestVars, exchangeVars, historyVars, OrderInv, Single, Settled, Total, id
<1>1. ASSUME NEW i \in Intent, CreateOrder(i) PROVE OrderInv'
  <2>1. /\ calls' = [calls EXCEPT ![i] = @ + 1] /\ outcome' = [outcome EXCEPT ![i] = "none"]
        /\ op' = [op EXCEPT ![i] = "create"] /\ at' = [at EXCEPT ![i] = "ready"]
        /\ at[i] = "idle" /\ calls[i] < MaxCalls /\ outcome[i] \in {"none", "resubmittable"}
        /\ UNCHANGED <<wire, orders, coded, late>>
    BY <1>1 DEF CreateOrder, Request, exchangeVars, historyVars
  <2>2. calls'[i] = calls[i] + 1 /\ calls[i] \in Nat /\ calls'[i] \in 1..MaxCalls
        /\ id(i)' = <<i, calls'[i]>> /\ outcome'[i] = "none"
    BY <1>t, <2>1 DEF Typed, CallOK, id
  <2>3. Single'
    BY <2>1 DEF OrderInv, Single, Total
  <2>4. ASSUME NEW j \in Intent \ {i} PROVE Settled(j)'
    BY <1>t, <2>1, Apart DEF OrderInv, Typed, CallOK
  <2>5. \A n \in 1..MaxCalls : Total(<<i, n>>)' = Total(<<i, n>>)
    BY <2>1 DEF Total
  <2>6. \A n \in 1..MaxCalls : n > calls[i] => Total(<<i, n>>) = 0
    BY DEF OrderInv, Settled
  <2>7. \A n \in 1..MaxCalls : n <= calls[i] /\ <<i, n>> \notin late => Total(<<i, n>>) = 0
    <3>1. calls[i] >= 1 /\ <<i, calls[i]>> \notin late => Total(<<i, calls[i]>>) = 0
      BY <2>1 DEF OrderInv, Settled, id
    <3> QED
      BY <2>2, <3>1 DEF OrderInv, Settled
  <2>8. Settled(i)'
    <3>1. \A n \in 1..MaxCalls : n = calls'[i] => Total(<<i, n>>)' = 0
      BY <2>2, <2>5, <2>6
    <3>2. \A n \in 1..MaxCalls : n > calls'[i] => Total(<<i, n>>)' = 0
      BY <2>2, <2>5, <2>6
    <3>3. \A n \in 1..MaxCalls : n < calls'[i] /\ <<i, n>> \notin late' => Total(<<i, n>>)' = 0
      BY <2>1, <2>2, <2>5, <2>7
    <3>4. Total(id(i))' = 0
      BY <2>2, <3>1 DEF Total
    <3>5. at'[i] = "ready"
      BY <1>t, <2>1 DEF Typed, CallOK
    <3> QED
      BY <2>2, <3>2, <3>3, <3>4, <3>5 DEF Settled
  <2> QED
    BY <1>t, <2>3, <2>4, <2>8 DEF OrderInv
<1>2. ASSUME NEW i \in Intent, Execute(i) PROVE OrderInv'
  <2>1. CASE Send(i)
    BY <1>2, <1>t, <2>1, SendKeeps DEF Execute
  <2>2. CASE ~ Send(i)
    <3>1. at[i] = "ready" /\ at' = [at EXCEPT ![i] = "syncing"]
          /\ UNCHANGED <<calls, outcome, op, wire, orders, coded, late>>
      BY <1>2, <2>2 DEF Execute, callVars, exchangeVars, historyVars
    <3>2. op[i] # "none" /\ outcome[i] = "none" /\ at'[i] = "syncing"
      BY <1>t, <3>1 DEF Typed, CallOK, Under
    <3>3. id(i) \in Id /\ Total(id(i))' = Total(id(i)) /\ Total(id(i)) <= 1
      BY <1>t, <3>1, <3>2, IdOfCall DEF OrderInv, Single, Total, id
    <3>4. op[i] = "create" => Total(id(i)) = 0
      BY <3>1 DEF OrderInv, Settled
    <3>5. Current(i)
      BY <1>t, <3>1 DEF Current, Typed, CallOK
    <3> QED
      BY <1>t, <3>1, <3>2, <3>3, <3>4, <3>5, StepOfOne
  <2> QED
    BY <2>1, <2>2
<1>3. ASSUME NEW i \in Intent, WakeUp(i) PROVE OrderInv'
  <2>1. at[i] = "backoff" /\ at' = [at EXCEPT ![i] = "ready"]
        /\ UNCHANGED <<calls, outcome, op, wire, orders, coded, late>>
    BY <1>3 DEF WakeUp, callVars, exchangeVars, historyVars
  <2>2. op[i] = "query" /\ outcome[i] = "none" /\ at'[i] = "ready"
    BY <1>t, <2>1 DEF Typed, CallOK, Under
  <2>3. id(i) \in Id /\ Total(id(i))' = Total(id(i)) /\ Total(id(i)) <= 1
    BY <1>t, <2>1, <2>2, IdOfCall DEF OrderInv, Single, Total, id
  <2>4. Current(i)
    BY <1>t, <2>1 DEF Current, Typed, CallOK
  <2> QED
    BY <1>t, <2>1, <2>2, <2>3, <2>4, StepOfOne
<1>4. ASSUME NEW i \in Intent, SyncSucceeds(i) PROVE OrderInv'
  BY <1>4, <1>t, SendKeeps DEF SyncSucceeds

(* Errors: the exchange's numbers are as e says.                           *)
<1>5. ASSUME NEW i \in Intent, NEW e \in Lost \cup ApiErrors, op[i] # "none", Raise(i, e),
             \A c \in Id : c # id(i) => wire'[c] = wire[c] /\ orders'[c] = orders[c],
             coded \subseteq coded', late \subseteq late', wire'[id(i)] + orders'[id(i)] <= 1,
             op[i] = "create" /\ ~ Unknown(e) /\ (e = "stale" \/ id(i) \notin coded')
               => wire'[id(i)] + orders'[id(i)] = 0,
             e = "absent" /\ id(i) \notin late' => wire'[id(i)] + orders'[id(i)] = 0
      PROVE  OrderInv'
  <2>1. calls' = calls /\ id(i)' = id(i)
    BY <1>5, <1>t, RaiseEffect DEF id
  <2>2. Current(i)
    BY <1>5, <1>t, <2>1, RaiseEffect DEF Current
  <2>3. ~ Unknown("stale")
    BY DEF Unknown
  <2>4. Total(id(i))' = wire'[id(i)] + orders'[id(i)]
    BY <2>1 DEF Total
  <2>5. op'[i] = "create" /\ at'[i] \in {"ready", "syncing", "resyncing"} => Total(id(i))' = 0
    BY <1>5, <1>t, <2>3, <2>4, RaiseEffect
  <2>6. outcome'[i] = "rejected" /\ id(i) \notin coded' => Total(id(i))' = 0
    BY <1>5, <1>t, <2>4, RaiseEffect
  <2>7. outcome'[i] = "resubmittable" /\ id(i) \notin late' => Total(id(i))' = 0
    BY <1>5, <1>t, <2>4, RaiseEffect
  <2>8. outcome'[i] # "placed" /\ (at'[i] = "idle" => outcome'[i] # "none")
    BY <1>5, <1>t, RaiseEffect
  <2> QED
    BY <1>5, <1>t, <2>2, <2>4, <2>5, <2>6, <2>7, <2>8, StepOfOne
<1>6. ASSUME NEW i \in Intent, SyncFails(i) PROVE OrderInv'
  <2>1. PICK e \in {"timeout", "network", "server", "limited", "refused"} : Raise(i, e)
    BY <1>6 DEF SyncFails
  <2>2. op[i] # "none" /\ id(i) \in Id /\ UNCHANGED <<wire, orders, coded, late>>
    BY <1>6, <1>t, IdOfCall DEF SyncFails, Typed, Under, exchangeVars, historyVars
  <2>3. op[i] = "create" => wire[id(i)] + orders[id(i)] = 0
    BY <1>6 DEF SyncFails, OrderInv, Settled, Total
  <2>4. wire[id(i)] + orders[id(i)] <= 1
    BY <2>2 DEF OrderInv, Single, Total
  <2> QED
    BY <1>5, <2>1, <2>2, <2>3, <2>4 DEF Lost, ApiErrors
<1>7. ASSUME NEW i \in Intent, Posting(i) \/ Querying(i) PROVE op[i] # "none" /\ id(i) \in Id
  BY <1>7, <1>t, IdOfCall DEF Posting, Querying
<1>8. ASSUME NEW i \in Intent, op[i] # "none", Return(i, "placed"),
             \A c \in Id : c # id(i) => wire'[c] = wire[c] /\ orders'[c] = orders[c],
             UNCHANGED <<coded, late>>, wire'[id(i)] + orders'[id(i)] <= 1, orders'[id(i)] = 1
      PROVE  OrderInv'
  <2>1. /\ outcome' = [outcome EXCEPT ![i] = "placed"] /\ op' = [op EXCEPT ![i] = "none"]
        /\ at' = [at EXCEPT ![i] = "idle"] /\ calls' = calls
    BY <1>8 DEF Return
  <2>2. outcome'[i] = "placed" /\ op'[i] = "none" /\ id(i)' = id(i)
    BY <1>t, <2>1 DEF Typed, CallOK, id
  <2>3. Current(i)
    BY <1>8, <1>t, <2>1 DEF Current, Typed, CallOK
  <2>4. Total(id(i))' <= 1
    BY <1>8, <2>2 DEF Total
  <2> QED
    BY <1>8, <1>t, <2>2, <2>3, <2>4, StepOfOne
<1>9. ASSUME NEW i \in Intent, PostAccepted(i) PROVE OrderInv'
  <2>1. id(i) \in Id /\ op[i] # "none" /\ Arrives(id(i)) /\ Place(id(i)) /\ Return(i, "placed")
        /\ UNCHANGED <<coded, late>>
    BY <1>7, <1>9 DEF PostAccepted, historyVars
  <2> QED
    BY <1>8, <1>t, <2>1, PostArrives, OrderPlaced
<1>10. ASSUME NEW i \in Intent, PostRefused(i) PROVE OrderInv'
  <2>1. PICK e \in {"refused", "limited", "stale"} : Raise(i, e)
    BY <1>10 DEF PostRefused
  <2>2. id(i) \in Id /\ op[i] # "none" /\ Arrives(id(i)) /\ UNCHANGED <<orders, coded, late>>
    BY <1>7, <1>10 DEF PostRefused, historyVars
  <2>3. wire'[id(i)] = 0 /\ orders[id(i)] = 0 /\ \A c \in Id : c # id(i) => wire'[c] = wire[c]
    BY <2>2, PostArrives
  <2> QED
    BY <1>5, <2>1, <2>2, <2>3 DEF ApiErrors
<1>11. ASSUME NEW i \in Intent, PostServerErrorCoded(i) PROVE OrderInv'
  <2>1. id(i) \in Id /\ op[i] # "none" /\ Arrives(id(i)) /\ Raise(i, "refused")
        /\ coded' = coded \cup {id(i)} /\ late' = late
    BY <1>7, <1>11 DEF PostServerErrorCoded
  <2>2. wire'[id(i)] = 0 /\ orders[id(i)] = 0 /\ \A c \in Id : c # id(i) => wire'[c] = wire[c]
    BY <2>1, PostArrives
  <2>3. orders'[id(i)] <= 1 /\ orders'[id(i)] \in Nat /\ \A c \in Id : c # id(i) => orders'[c] = orders[c]
    BY <1>11, <1>t, <2>1, <2>2, OrderPlaced DEF PostServerErrorCoded
  <2>4. id(i) \in coded' /\ coded \subseteq coded' /\ late \subseteq late'
    BY <2>1
  <2> QED
    BY <1>5, <2>1, <2>2, <2>3, <2>4 DEF ApiErrors
<1>12. ASSUME NEW i \in Intent, PostUnanswered(i) PROVE OrderInv'
  <2>1. PICK e \in {"timeout", "network", "server"} : Raise(i, e)
    BY <1>12 DEF PostUnanswered
  <2>2. id(i) \in Id /\ op[i] # "none" /\ UNCHANGED <<wire, orders, coded, late>>
    BY <1>7, <1>12 DEF PostUnanswered, exchangeVars, historyVars
  <2>3. wire[id(i)] + orders[id(i)] <= 1
    BY <2>2 DEF OrderInv, Single, Total
  <2> QED
    BY <1>5, <2>1, <2>2, <2>3 DEF Lost, ApiErrors, Unknown
<1>13. ASSUME NEW i \in Intent, QueryFound(i) PROVE OrderInv'
  <2>1. id(i) \in Id /\ op[i] # "none" /\ UNCHANGED <<wire, orders, coded, late>>
        /\ orders[id(i)] > 0 /\ Return(i, "placed")
    BY <1>7, <1>13 DEF QueryFound, exchangeVars, historyVars
  <2>2. wire[id(i)] + orders[id(i)] <= 1 /\ orders[id(i)] = 1
    BY <1>t, <2>1 DEF OrderInv, Single, Total, Typed, NetOK
  <2> QED
    BY <1>8, <2>1, <2>2
<1>14. ASSUME NEW i \in Intent, QueryAbsent(i) PROVE OrderInv'
  <2>1. id(i) \in Id /\ op[i] = "query" /\ UNCHANGED <<wire, orders, coded>>
        /\ orders[id(i)] = 0 /\ Raise(i, "absent")
    BY <1>7, <1>14 DEF QueryAbsent, Querying, exchangeVars
  <2>2. late \subseteq late' /\ (id(i) \notin late' => wire[id(i)] = 0)
    BY <1>14, <1>t, <2>1 DEF QueryAbsent, Typed, NetOK
  <2>3. wire[id(i)] + orders[id(i)] <= 1
    BY <2>1 DEF OrderInv, Single, Total
  <2> QED
    BY <1>5, <2>1, <2>2, <2>3 DEF ApiErrors
<1>15. ASSUME NEW i \in Intent, QueryFails(i) PROVE OrderInv'
  <2>1. PICK e \in {"timeout", "network", "server", "limited", "refused", "stale"} : Raise(i, e)
    BY <1>15 DEF QueryFails
  <2>2. id(i) \in Id /\ op[i] = "query" /\ UNCHANGED <<wire, orders, coded, late>>
    BY <1>7, <1>15 DEF QueryFails, Querying, exchangeVars, historyVars
  <2>3. wire[id(i)] + orders[id(i)] <= 1
    BY <2>2 DEF OrderInv, Single, Total
  <2> QED
    BY <1>5, <2>1, <2>2, <2>3 DEF Lost, ApiErrors
<1>16. ASSUME NEW c \in Id, PostLands(c) PROVE OrderInv'
  <2>1. /\ wire[c] = 1 /\ orders[c] = 0 /\ wire'[c] = 0 /\ orders'[c] = 1
        /\ \A d \in Id : d # c => wire'[d] = wire[d] /\ orders'[d] = orders[d]
    BY <1>16, <1>t, PostArrives, OrderPlaced DEF PostLands
  <2>2. UNCHANGED <<calls, outcome, op, at, coded, late>>
    BY <1>16 DEF PostLands, callVars, requestVars, historyVars
  <2>3. \A d \in Id : Total(d)' = Total(d) /\ (orders[d] = 1 => orders'[d] = 1)
    BY <2>1 DEF Total
  <2>4. ASSUME NEW j \in Intent PROVE Settled(j)'
    <3>1. \A n \in 1..MaxCalls : <<j, n>> \in Id
      BY DEF Id
    <3>2. outcome[j] # "none" \/ op[j] # "none" => id(j) \in Id
      BY <1>t, IdOfCall
    <3>3. Settled(j) /\ id(j)' = id(j)
      BY <2>2 DEF OrderInv, id
    <3>4. \A n \in 1..MaxCalls : Total(<<j, n>>)' = Total(<<j, n>>)
      BY <2>3, <3>1
    <3>5. outcome[j] # "none" \/ op[j] # "none" =>
            Total(id(j))' = Total(id(j)) /\ (orders[id(j)] = 1 => orders'[id(j)] = 1)
      BY <2>3, <3>2, <3>3 DEF Total
    <3> QED
      BY <2>2, <3>3, <3>4, <3>5 DEF Settled
  <2> QED
    BY <1>t, <2>3, <2>4 DEF OrderInv, Single
<1> QED
  BY <1>0, <1>1, <1>2, <1>3, <1>4, <1>6, <1>9, <1>10, <1>11, <1>12, <1>13, <1>14, <1>15, <1>16
     DEF Next, Client, Answer

LEMMA OrderAlways == Spec => []OrderInv
  BY OrderInit, OrderStep, PTL DEF Spec

(* ADR-0006, "no second create": one order for each client order id,       *)
(* however often a request is repeated and whenever a POST arrives.        *)
THEOREM OneForEachId == Spec => []OneOrderPerId
<1>1. OrderInv => OneOrderPerId
  BY DEF OrderInv, Single, Total, OneOrderPerId
<1> QED
  BY <1>1, OrderAlways, PTL

(* What create_order tells of an order is true for good.                   *)
THEOREM TrueAnswers == Spec => []AnswersAreTrue
<1>1. OrderInv => AnswersAreTrue
  <2> SUFFICES ASSUME OrderInv, NEW i \in Intent
               PROVE  /\ outcome[i] = "placed" => orders[id(i)] = 1
                      /\ outcome[i] = "rejected" /\ id(i) \notin coded => orders[id(i)] + wire[id(i)] = 0
    BY DEF AnswersAreTrue
  <2>1. outcome[i] = "rejected" => wire[id(i)] \in Nat /\ orders[id(i)] \in Nat
    BY IdOfCall DEF OrderInv, Typed, NetOK
  <2> QED
    BY <2>1 DEF OrderInv, Settled, Total
<1> QED
  BY <1>1, OrderAlways, PTL

(* The documented loop of resubmissions places an intent at most once, but *)
(* for POSTs that -2013 overtook: any other order has the last call's id.  *)
THEOREM AtMostOnce == Spec => []PlacedOnce
<1>1. OrderInv => PlacedOnce
  <2> SUFFICES ASSUME OrderInv, NEW i \in Intent
               PROVE  Cardinality({n \in 1..MaxCalls : orders[<<i, n>>] > 0 /\ <<i, n>> \notin late}) <= 1
    BY DEF PlacedOnce
  <2> DEFINE placed == {n \in 1..MaxCalls : orders[<<i, n>>] > 0 /\ <<i, n>> \notin late}
  <2>1. \A n \in 1..MaxCalls : n # calls[i] /\ <<i, n>> \notin late => Total(<<i, n>>) = 0
    BY DEF OrderInv, Settled, Typed, CallOK
  <2>2. \A n \in 1..MaxCalls : wire[<<i, n>>] \in Nat /\ orders[<<i, n>>] \in Nat
    BY DEF OrderInv, Typed, NetOK, Id
  <2>3. \A n \in 1..MaxCalls : Total(<<i, n>>) = 0 => ~ orders[<<i, n>>] > 0
    BY <2>2 DEF Total
  <2>4. placed \in SUBSET {calls[i]}
    BY <2>1, <2>3
  <2>5. IsFiniteSet({calls[i]}) /\ Cardinality({calls[i]}) = 1
    BY FS_Singleton
  <2> HIDE DEF placed
  <2>6. Cardinality(placed) <= 1
    BY <2>4, <2>5, FS_Subset
  <2> QED
    BY <2>6 DEF placed
<1> QED
  BY <1>1, OrderAlways, PTL

-----------------------------------------------------------------------------
(* OrderPlacement implements PlacementPromise.                             *)

excused == coded \cup late

LEMMA PromiseOpen ==
  ASSUME OrderInv, NEW i \in Intent, op[i] # "none"
  PROVE  Promise!Open(i) /\ id(i) \in Id /\ Promise!id(i) = id(i)
<1>1. outcome[i] = "none" /\ calls[i] > 0
  BY DEF OrderInv, Typed, CallOK, Under
<1> QED
  BY <1>1, IdOfCall DEF OrderInv, Promise!Open, Promise!id, id

(* How an error leaves create_order, if it does.                           *)
LEMMA RaiseTells ==
  ASSUME OrderInv, NEW i \in Intent, op[i] # "none", NEW e \in Lost \cup ApiErrors, Raise(i, e)
  PROVE  /\ calls' = calls
         /\ \/ outcome' = outcome
            \/ \E o \in {"rejected", "resubmittable", "unknown", "escaped"} :
                 /\ outcome' = [outcome EXCEPT ![i] = o]
                 /\ o = "rejected" => op[i] = "create" /\ ~ Unknown(e)
                 /\ o = "resubmittable" => e = "absent"
<1>1. Typed
  BY DEF OrderInv
<1>2. CASE Pauses(i, e) \/ Asks(i, e)
  BY <1>2 DEF Pauses, Asks
<1>3. CASE \E o \in Outcomes : Ends(i, e, o)
  <2>1. PICK o \in Outcomes : Ends(i, e, o)
    BY <1>3
  <2>2. outcome' = [outcome EXCEPT ![i] = o] /\ calls' = calls
    BY <2>1 DEF Ends, Return
  <2>3. o = "rejected" => op[i] = "create" /\ ~ Unknown(e)
    BY <2>1 DEF Ends
  <2>4. o = "resubmittable" => e = "absent"
    BY <2>1 DEF Ends, Verdict, Lost, ApiErrors
  <2>5. o \in {"rejected", "resubmittable", "unknown", "escaped"}
    BY <2>1 DEF Ends
  <2> QED
    BY <2>2, <2>3, <2>4, <2>5
<1> QED
  BY <1>1, <1>2, <1>3, RaiseCases

(* Nothing is placed, and what is denied does not exist.                   *)
LEMMA RaiseKeepsPromise ==
  ASSUME OrderInv, NEW i \in Intent, op[i] # "none", NEW e \in Lost \cup ApiErrors, Raise(i, e),
         UNCHANGED <<orders, excused>>,
         e = "absent" \/ (op[i] = "create" /\ ~ Unknown(e)) => orders[id(i)] = 0
  PROVE  Promise!Next \/ UNCHANGED Promise!vars
<1>1. Promise!Open(i) /\ Promise!id(i) = id(i)
  BY PromiseOpen
<1>2. calls' = calls /\ orders' = orders /\ excused' = excused
  BY RaiseTells
<1>3. CASE outcome' = outcome
  BY <1>2, <1>3 DEF Promise!vars, excused
<1>4. CASE outcome' # outcome
  <2>1. PICK o \in {"rejected", "resubmittable", "unknown", "escaped"} :
          /\ outcome' = [outcome EXCEPT ![i] = o]
          /\ o = "rejected" => op[i] = "create" /\ ~ Unknown(e)
          /\ o = "resubmittable" => e = "absent"
    BY <1>4, RaiseTells
  <2>2. Promise!Tell(i, o)
    BY <1>1, <1>2, <2>1 DEF Promise!Tell
  <2>3. CASE o \in {"rejected", "resubmittable"}
    <3>1. orders[id(i)] = 0
      BY <2>1, <2>3
    <3>2. Promise!Deny(i)
      BY <1>1, <1>2, <2>2, <2>3, <3>1 DEF Promise!Deny, Promise!Denial, excused
    <3> QED
      BY <3>2 DEF Promise!Next
  <2>4. CASE o \in {"unknown", "escaped"}
    <3>1. Promise!LeaveOpen(i)
      BY <1>2, <2>2, <2>4 DEF Promise!LeaveOpen, excused
    <3> QED
      BY <3>1 DEF Promise!Next
  <2> QED
    BY <2>3, <2>4
<1> QED
  BY <1>3, <1>4

(* A 5xx that carries a code, or a query that overtook its POST.           *)
LEMMA MisledKeepsPromise ==
  ASSUME OrderInv, NEW i \in Intent, op[i] # "none", NEW answer \in {"rejected", "resubmittable"},
         Return(i, answer), excused' = excused \cup {id(i)},
         UNCHANGED orders \/ Promise!Appears(id(i))
  PROVE  Promise!Next
<1>1. Promise!Open(i) /\ Promise!id(i) = id(i)
  BY PromiseOpen
<1>2. Promise!Tell(i, answer)
  BY <1>1 DEF Return, Promise!Tell
<1>3. Promise!DenyMisled(i)
  BY <1>1, <1>2 DEF Promise!DenyMisled, Promise!Denial, excused
<1> QED
  BY <1>3 DEF Promise!Next

LEMMA ArrivalAppears ==
  ASSUME OrderInv, NEW c \in Id, Arrives(c), Place(c)
  PROVE  Promise!Appears(c)
<1>1. orders[c] = 0
  BY PostArrives
<1> QED
  BY <1>1 DEF Place, Promise!Appears

LEMMA ConfirmKeepsPromise ==
  ASSUME OrderInv, NEW i \in Intent, op[i] # "none", Return(i, "placed"), UNCHANGED excused,
         Promise!Appears(id(i)) \/ (orders[id(i)] = 1 /\ UNCHANGED orders)
  PROVE  Promise!Next
<1>1. Promise!Open(i) /\ Promise!id(i) = id(i)
  BY PromiseOpen
<1>2. Promise!Tell(i, "placed")
  BY <1>1 DEF Return, Promise!Tell
<1>3. Promise!Confirm(i)
  BY <1>1, <1>2 DEF Promise!Confirm, excused
<1> QED
  BY <1>3 DEF Promise!Next

LEMMA InitPromise == Init => Promise!Init
  BY DEF Init, Promise!Init, Id, Promise!Id

LEMMA NextPromise == OrderInv /\ [Next]_vars => [Promise!Next]_(Promise!vars)
<1> SUFFICES ASSUME OrderInv, [Next]_vars
             PROVE  Promise!Next \/ UNCHANGED Promise!vars
  OBVIOUS
<1>t. Typed
  BY DEF OrderInv
<1>0. CASE UNCHANGED vars
  BY <1>0 DEF vars, callVars, exchangeVars, historyVars, Promise!vars
<1>1. ASSUME NEW i \in Intent, CreateOrder(i) PROVE Promise!Next
  <2>1. /\ calls' = [calls EXCEPT ![i] = @ + 1] /\ outcome' = [outcome EXCEPT ![i] = "none"]
        /\ at[i] = "idle" /\ calls[i] < MaxCalls /\ outcome[i] \in {"none", "resubmittable"}
        /\ UNCHANGED <<orders, coded, late>>
    BY <1>1 DEF CreateOrder, exchangeVars, historyVars
  <2>2. outcome[i] = "none" => calls[i] = 0
    BY <2>1 DEF OrderInv, Settled
  <2>3. Promise!Call(i)
    BY <2>1, <2>2 DEF Promise!Call
  <2> QED
    BY <2>3 DEF Promise!Next
<1>2. ASSUME NEW i \in Intent, Execute(i) \/ WakeUp(i) \/ SyncSucceeds(i) PROVE UNCHANGED Promise!vars
  BY <1>2 DEF Execute, WakeUp, SyncSucceeds, Send, callVars, exchangeVars, historyVars, Promise!vars
<1>3. ASSUME NEW i \in Intent, Posting(i) \/ Querying(i) PROVE op[i] # "none" /\ id(i) \in Id
  BY <1>3, <1>t, IdOfCall DEF Posting, Querying
<1>4. ASSUME NEW i \in Intent, SyncFails(i) PROVE Promise!Next \/ UNCHANGED Promise!vars
  <2>1. PICK e \in {"timeout", "network", "server", "limited", "refused"} : Raise(i, e)
    BY <1>4 DEF SyncFails
  <2>2. op[i] # "none" /\ id(i) \in Id /\ UNCHANGED <<orders, excused>> /\ e # "absent"
    BY <1>4, <1>t, IdOfCall DEF SyncFails, Typed, Under, exchangeVars, historyVars, excused
  <2>3. op[i] = "create" => Total(id(i)) = 0
    BY <1>4 DEF SyncFails, OrderInv, Settled
  <2>4. wire[id(i)] \in Nat /\ orders[id(i)] \in Nat
    BY <1>t, <2>2 DEF Typed, NetOK
  <2>5. op[i] = "create" => orders[id(i)] = 0
    BY <2>3, <2>4 DEF Total
  <2> QED
    BY <2>1, <2>2, <2>5, RaiseKeepsPromise DEF Lost, ApiErrors
<1>5. ASSUME NEW i \in Intent, PostAccepted(i) PROVE Promise!Next
  <2>1. op[i] # "none" /\ id(i) \in Id /\ Arrives(id(i)) /\ Place(id(i)) /\ Return(i, "placed")
        /\ UNCHANGED excused
    BY <1>3, <1>5 DEF PostAccepted, historyVars, excused
  <2> QED
    BY <2>1, ArrivalAppears, ConfirmKeepsPromise
<1>6. ASSUME NEW i \in Intent, PostRefused(i) PROVE Promise!Next \/ UNCHANGED Promise!vars
  <2>1. PICK e \in {"refused", "limited", "stale"} : Raise(i, e)
    BY <1>6 DEF PostRefused
  <2>2. op[i] # "none" /\ id(i) \in Id /\ Arrives(id(i)) /\ UNCHANGED <<orders, excused>>
    BY <1>3, <1>6 DEF PostRefused, historyVars, excused
  <2>3. orders[id(i)] = 0
    BY <2>2, PostArrives
  <2> QED
    BY <2>1, <2>2, <2>3, RaiseKeepsPromise DEF ApiErrors
<1>7. ASSUME NEW i \in Intent, PostServerErrorCoded(i) PROVE Promise!Next
  <2>1. op[i] = "create" /\ id(i) \in Id /\ Arrives(id(i)) /\ Raise(i, "refused")
        /\ excused' = excused \cup {id(i)}
    BY <1>3, <1>7 DEF PostServerErrorCoded, Posting, excused
  <2>2. UNCHANGED orders \/ Promise!Appears(id(i))
    BY <1>7, <2>1, ArrivalAppears DEF PostServerErrorCoded
  <2>3. Return(i, "rejected")
    BY <2>1 DEF Raise, Resync, Retry, Retryable, Unknown
  <2> QED
    BY <2>1, <2>2, <2>3, MisledKeepsPromise
<1>8. ASSUME NEW i \in Intent, PostUnanswered(i) PROVE Promise!Next \/ UNCHANGED Promise!vars
  <2>1. PICK e \in {"timeout", "network", "server"} : Raise(i, e)
    BY <1>8 DEF PostUnanswered
  <2>2. op[i] # "none" /\ UNCHANGED <<orders, excused>>
    BY <1>3, <1>8 DEF PostUnanswered, exchangeVars, historyVars, excused
  <2> QED
    BY <2>1, <2>2, RaiseKeepsPromise DEF Lost, ApiErrors, Unknown
<1>9. ASSUME NEW i \in Intent, QueryFound(i) PROVE Promise!Next
  <2>1. op[i] # "none" /\ id(i) \in Id /\ orders[id(i)] > 0 /\ Return(i, "placed")
        /\ UNCHANGED <<orders, excused>>
    BY <1>3, <1>9 DEF QueryFound, exchangeVars, historyVars, excused
  <2>2. orders[id(i)] = 1
    BY <1>t, <2>1 DEF OrderInv, Single, Total, Typed, NetOK
  <2> QED
    BY <2>1, <2>2, ConfirmKeepsPromise
<1>10. ASSUME NEW i \in Intent, QueryAbsent(i) PROVE Promise!Next \/ UNCHANGED Promise!vars
  <2>1. op[i] = "query" /\ orders[id(i)] = 0 /\ Raise(i, "absent") /\ UNCHANGED <<orders, coded>>
        /\ (late' = late \/ late' = late \cup {id(i)})
    BY <1>10 DEF QueryAbsent, Querying, exchangeVars
  <2>2. CASE late' = late
    BY <2>1, <2>2, RaiseKeepsPromise DEF ApiErrors, excused
  <2>3. CASE late' = late \cup {id(i)}
    <3>1. Return(i, "resubmittable")
      <4>1. Verdict("absent") = "resubmittable"
        BY DEF Verdict, Lost, ApiErrors
      <4>2. Return(i, Verdict("absent"))
        BY <2>1 DEF Raise, Resync, Retry, Retryable
      <4> QED
        BY <4>1, <4>2 DEF Return
    <3>2. excused' = excused \cup {id(i)}
      BY <2>1, <2>3 DEF excused
    <3> QED
      BY <2>1, <3>1, <3>2, MisledKeepsPromise
  <2> QED
    BY <2>1, <2>2, <2>3
<1>11. ASSUME NEW i \in Intent, QueryFails(i) PROVE Promise!Next \/ UNCHANGED Promise!vars
  <2>1. PICK e \in {"timeout", "network", "server", "limited", "refused", "stale"} : Raise(i, e)
    BY <1>11 DEF QueryFails
  <2>2. op[i] = "query" /\ UNCHANGED <<orders, excused>>
    BY <1>11 DEF QueryFails, Querying, exchangeVars, historyVars, excused
  <2> QED
    BY <2>1, <2>2, RaiseKeepsPromise DEF Lost, ApiErrors
<1>12. ASSUME NEW c \in Id, PostLands(c) PROVE Promise!Next
  <2>1. PICK i \in Intent, n \in 1..MaxCalls : c = <<i, n>>
    BY DEF Id
  <2>2. Promise!Appears(<<i, n>>) /\ UNCHANGED <<calls, outcome, coded, late>>
    BY <1>12, <2>1, ArrivalAppears DEF PostLands, callVars, historyVars
  <2>3. Total(<<i, n>>) # 0
    BY <1>12, <2>1, PostArrives DEF PostLands, Total
  <2>4. n <= calls[i] /\ calls[i] \in Nat
    BY <1>t, <2>3 DEF OrderInv, Settled, Typed, CallOK
  <2>5. Promise!Denied(i, n) => <<i, n>> \in coded \cup late
    <3>1. n < calls[i] => <<i, n>> \in late
      BY <2>3 DEF OrderInv, Settled
    <3>2. /\ outcome[i] = "rejected" /\ <<i, calls[i]>> \notin coded => Total(<<i, calls[i]>>) = 0
          /\ outcome[i] = "resubmittable" /\ <<i, calls[i]>> \notin late => Total(<<i, calls[i]>>) = 0
      BY DEF OrderInv, Settled, id
    <3>3. ASSUME n = calls[i], outcome[i] \in {"rejected", "resubmittable"}
          PROVE  <<i, n>> \in coded \cup late
      BY <2>3, <3>2, <3>3
    <3>4. Promise!Denied(i, n) => n < calls[i] \/ (n = calls[i] /\ outcome[i] \in {"rejected", "resubmittable"})
      BY DEF Promise!Denied, Promise!Denial
    <3> QED
      BY <3>1, <3>3, <3>4
  <2>6. Promise!ShowsUp(i, n)
    BY <2>2, <2>4, <2>5 DEF Promise!ShowsUp
  <2> QED
    BY <2>6 DEF Promise!Next
<1> QED
  BY <1>0, <1>1, <1>2, <1>4, <1>5, <1>6, <1>7, <1>8, <1>9, <1>10, <1>11, <1>12 DEF Next, Client, Answer

(* What a caller of create_order may rely on is what PlacementPromise      *)
(* says: answers that are true and stay true, and one order for each id.   *)
THEOREM PlacementKeepsPromise == Spec => KeepsPromise
  BY OrderAlways, InitPromise, NextPromise, PTL DEF Spec, KeepsPromise, Promise!Spec

(* What the promise is worth: whoever keeps it, however it does, has told  *)
(* the truth of every order so far, one for each id.                       *)
TruthTold ==
  /\ \A c \in Id : orders[c] \in {0, 1}
  /\ \A i \in Intent : outcome[i] = "placed" => orders[id(i)] = 1
  /\ \A i \in Intent, n \in 1..MaxCalls :
       Promise!Denied(i, n) /\ <<i, n>> \notin excused => orders[<<i, n>>] = 0

PromiseInv ==
  /\ calls \in [Intent -> 0..MaxCalls] /\ outcome \in [Intent -> Outcomes] /\ orders \in [Id -> {0, 1}]
  /\ \A i \in Intent : outcome[i] # "none" => calls[i] >= 1
  /\ TruthTold

(* A step that tells something, of one intent, and may place its order.    *)
LEMMA TellKeepsTruth ==
  ASSUME PromiseInv, NEW i \in Intent, NEW answer \in Outcomes \ {"none"}, Promise!Tell(i, answer),
         UNCHANGED orders \/ Promise!Appears(id(i)), excused \subseteq excused',
         answer = "placed" => orders'[id(i)] = 1,
         answer \in {"rejected", "resubmittable"} /\ id(i) \notin excused' => orders'[id(i)] = 0
  PROVE  PromiseInv'
<1>1. /\ outcome[i] = "none" /\ calls[i] >= 1 /\ calls[i] \in 1..MaxCalls /\ calls' = calls
      /\ outcome' = [outcome EXCEPT ![i] = answer]
  BY BoundAssumption DEF PromiseInv, Promise!Tell, Promise!Open
<1>2. id(i) = <<i, calls[i]>> /\ id(i) \in Id /\ \A j \in Intent : id(j)' = id(j)
  BY <1>1 DEF id, Id
<1>3. orders' \in [Id -> {0, 1}] /\ \A c \in Id : c # id(i) => orders'[c] = orders[c]
  BY <1>2 DEF PromiseInv, Promise!Appears
<1>4. /\ outcome' \in [Intent -> Outcomes] /\ outcome'[i] = answer
      /\ \A j \in Intent : j # i => outcome'[j] = outcome[j]
  BY <1>1 DEF PromiseInv
<1>5. \A j \in Intent : outcome'[j] # "none" => calls'[j] >= 1
  BY <1>1, <1>4 DEF PromiseInv
<1>6. ASSUME NEW j \in Intent, outcome'[j] = "placed" PROVE orders'[id(j)'] = 1
  <2>1. CASE j = i
    BY <1>2, <1>4, <1>6, <2>1
  <2>2. CASE j # i
    <3>1. outcome[j] = "placed" /\ orders[id(j)] = 1 /\ calls[j] \in 1..MaxCalls
      BY <1>4, <1>6, <2>2, BoundAssumption DEF PromiseInv, TruthTold
    <3>2. id(j) \in Id /\ id(j) # id(i)
      BY <2>2, <3>1 DEF id, Id
    <3> QED
      BY <1>2, <1>3, <3>1, <3>2
  <2> QED
    BY <2>1, <2>2
<1>7. ASSUME NEW j \in Intent, NEW n \in 1..MaxCalls, Promise!Denied(j, n)', <<j, n>> \notin excused'
      PROVE  orders'[<<j, n>>] = 0
  <2>1. <<j, n>> \in Id
    BY DEF Id
  <2>2. n < calls[j] \/ (n = calls[j] /\ outcome'[j] \in {"rejected", "resubmittable"})
    BY <1>1, <1>7 DEF Promise!Denied, Promise!Denial
  <2>3. CASE <<j, n>> = id(i)
    BY <1>1, <1>2, <1>4, <1>7, <2>2, <2>3
  <2>4. CASE <<j, n>> # id(i)
    <3>1. n < calls[j] \/ (n = calls[j] /\ outcome[j] \in {"rejected", "resubmittable"})
      BY <1>2, <1>4, <2>2, <2>4
    <3>2. orders[<<j, n>>] = 0
      BY <1>7, <3>1 DEF PromiseInv, TruthTold, Promise!Denied, Promise!Denial
    <3> QED
      BY <1>3, <2>1, <2>4, <3>2
  <2> QED
    BY <2>3, <2>4
<1>8. TruthTold'
  BY <1>3, <1>6, <1>7 DEF TruthTold
<1> QED
  BY <1>1, <1>3, <1>4, <1>5, <1>8 DEF PromiseInv

LEMMA PromiseStep == PromiseInv /\ [Promise!Next]_(Promise!vars) => PromiseInv'
<1> SUFFICES ASSUME PromiseInv, [Promise!Next]_(Promise!vars) PROVE PromiseInv'
  OBVIOUS
<1>0. CASE UNCHANGED Promise!vars
  <2>1. UNCHANGED <<calls, outcome, orders>> /\ excused' = excused
    BY <1>0 DEF Promise!vars, excused
  <2> QED
    BY <2>1 DEF PromiseInv, TruthTold, Promise!Denied, id
<1>1. ASSUME NEW i \in Intent PROVE Promise!id(i) = id(i)
  BY DEF Promise!id, id
<1>2. ASSUME NEW i \in Intent, Promise!Call(i) PROVE PromiseInv'
  <2>1. /\ calls' = [calls EXCEPT ![i] = @ + 1] /\ outcome' = [outcome EXCEPT ![i] = "none"]
        /\ calls[i] < MaxCalls /\ (calls[i] = 0 \/ outcome[i] = "resubmittable")
        /\ orders' = orders /\ excused' = excused
    BY <1>2 DEF Promise!Call, excused
  <2>2. calls' \in [Intent -> 0..MaxCalls] /\ outcome' \in [Intent -> Outcomes] /\ calls'[i] = calls[i] + 1
    BY <2>1, BoundAssumption DEF PromiseInv, Outcomes
  <2>3. \A j \in Intent : j # i => calls'[j] = calls[j] /\ outcome'[j] = outcome[j] /\ id(j)' = id(j)
    BY <2>1 DEF PromiseInv, id
  <2>4. outcome'[i] = "none"
    BY <2>1 DEF PromiseInv
  <2>5. \A j \in Intent : outcome'[j] = "placed" => orders'[id(j)'] = 1
    BY <2>1, <2>3, <2>4 DEF PromiseInv, TruthTold
  <2>6. ASSUME NEW j \in Intent, NEW n \in 1..MaxCalls, Promise!Denied(j, n)' PROVE Promise!Denied(j, n)
    <3>1. n < calls'[j] \/ (n = calls'[j] /\ outcome'[j] \in {"rejected", "resubmittable"})
      BY <2>6 DEF Promise!Denied, Promise!Denial
    <3>2. calls[j] \in Nat
      BY BoundAssumption DEF PromiseInv
    <3> QED
      BY <2>1, <2>2, <2>3, <2>4, <3>1, <3>2 DEF Promise!Denied, Promise!Denial
  <2>7. TruthTold'
    BY <2>1, <2>5, <2>6 DEF PromiseInv, TruthTold
  <2>8. \A j \in Intent : outcome'[j] # "none" => calls'[j] >= 1
    BY <2>3, <2>4 DEF PromiseInv
  <2> QED
    BY <2>1, <2>2, <2>7, <2>8 DEF PromiseInv
<1>3. ASSUME NEW i \in Intent, Promise!Confirm(i) PROVE PromiseInv'
  <2>1. /\ Promise!Tell(i, "placed") /\ excused' = excused
        /\ Promise!Appears(id(i)) \/ (orders[id(i)] = 1 /\ UNCHANGED orders)
    BY <1>1, <1>3 DEF Promise!Confirm, excused
  <2>2. id(i) \in Id
    BY <2>1 DEF Promise!Tell, Promise!Open, PromiseInv, id, Id
  <2>3. orders'[id(i)] = 1
    BY <2>1, <2>2 DEF Promise!Appears, PromiseInv
  <2> QED
    BY <2>1, <2>3, TellKeepsTruth DEF Outcomes
<1>4. ASSUME NEW i \in Intent, Promise!Deny(i) PROVE PromiseInv'
  <2>1. PICK answer \in {"rejected", "resubmittable"} : Promise!Tell(i, answer)
    BY <1>4 DEF Promise!Deny, Promise!Denial
  <2>2. orders[id(i)] = 0 /\ UNCHANGED orders /\ excused' = excused
    BY <1>1, <1>4 DEF Promise!Deny, excused
  <2> QED
    BY <2>1, <2>2, TellKeepsTruth DEF Outcomes
<1>5. ASSUME NEW i \in Intent, Promise!DenyMisled(i) PROVE PromiseInv'
  <2>1. PICK answer \in {"rejected", "resubmittable"} : Promise!Tell(i, answer)
    BY <1>5 DEF Promise!DenyMisled, Promise!Denial
  <2>2. (UNCHANGED orders \/ Promise!Appears(id(i))) /\ excused' = excused \cup {id(i)}
    BY <1>1, <1>5 DEF Promise!DenyMisled, excused
  <2> QED
    BY <2>1, <2>2, TellKeepsTruth DEF Outcomes
<1>6. ASSUME NEW i \in Intent, Promise!LeaveOpen(i) PROVE PromiseInv'
  <2>1. PICK answer \in {"unknown", "escaped"} : Promise!Tell(i, answer)
    BY <1>6 DEF Promise!LeaveOpen
  <2>2. UNCHANGED orders /\ excused' = excused
    BY <1>6 DEF Promise!LeaveOpen, excused
  <2> QED
    BY <2>1, <2>2, TellKeepsTruth DEF Outcomes
<1>7. ASSUME NEW i \in Intent, NEW n \in 1..MaxCalls, Promise!ShowsUp(i, n) PROVE PromiseInv'
  <2>1. /\ Promise!Appears(<<i, n>>) /\ UNCHANGED <<calls, outcome>> /\ excused' = excused
        /\ Promise!Denied(i, n) => <<i, n>> \in excused
    BY <1>7 DEF Promise!ShowsUp, excused
  <2>2. <<i, n>> \in Id
    BY DEF Id
  <2>3. orders' \in [Id -> {0, 1}] /\ \A c \in Id : orders'[c] = (IF c = <<i, n>> THEN 1 ELSE orders[c])
    BY <2>1, <2>2 DEF PromiseInv, Promise!Appears
  <2>4. ASSUME NEW j \in Intent, outcome[j] = "placed" PROVE orders'[id(j)] = 1
    <3>1. id(j) \in Id /\ orders[id(j)] = 1
      BY <2>4 DEF PromiseInv, TruthTold, id, Id
    <3> QED
      BY <2>3, <3>1
  <2>5. ASSUME NEW j \in Intent, NEW m \in 1..MaxCalls, Promise!Denied(j, m), <<j, m>> \notin excused
        PROVE  orders'[<<j, m>>] = 0
    <3>1. orders[<<j, m>>] = 0 /\ <<j, m>> \in Id
      BY <2>5 DEF PromiseInv, TruthTold, Id
    <3>2. <<j, m>> # <<i, n>>
      BY <2>1, <2>5
    <3> QED
      BY <2>3, <3>1, <3>2
  <2>6. \A j \in Intent, m \in 1..MaxCalls :
          id(j)' = id(j) /\ (Promise!Denied(j, m)' <=> Promise!Denied(j, m))
    BY <2>1 DEF Promise!Denied, id
  <2>7. TruthTold'
    BY <2>1, <2>3, <2>4, <2>5, <2>6 DEF TruthTold
  <2> QED
    BY <2>1, <2>3, <2>7 DEF PromiseInv
<1> QED
  BY <1>0, <1>2, <1>3, <1>4, <1>5, <1>6, <1>7 DEF Promise!Next

THEOREM PromiseIsWorthIt == Promise!Spec => []TruthTold
<1>1. Promise!Init => PromiseInv
  <2> SUFFICES ASSUME Promise!Init PROVE PromiseInv
    OBVIOUS
  <2>1. /\ calls = [i \in Intent |-> 0] /\ outcome = [i \in Intent |-> "none"]
        /\ orders = [c \in Id |-> 0]
    BY DEF Promise!Init, Promise!Id, Id
  <2>2. TruthTold
    BY <2>1 DEF TruthTold, Id
  <2> QED
    BY <2>1, <2>2, BoundAssumption DEF PromiseInv, Outcomes
<1>2. PromiseInv => TruthTold
  BY DEF PromiseInv
<1> QED
  BY <1>1, <1>2, PromiseStep, PTL DEF Promise!Spec

=============================================================================
