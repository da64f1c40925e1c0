---------------------------- MODULE OrderPlacement ----------------------------
(***************************************************************************)
(* Placing an order: OrdersClient.create_order and _reconcile (orders.py)  *)
(* over Transport.request (transport.py) with its retries (retry.py), its  *)
(* clock synchronisation (timesync.py) and its error mapping (errors.py).  *)
(*                                                                         *)
(* A call mints a client order id, sends one POST under it and, if that    *)
(* ends without a definite answer, asks the exchange for the order by that *)
(* id.  The application calls again, with a new id, when it has been told  *)
(* that the order is resubmittable (the loop the documentation shows).     *)
(*                                                                         *)
(* The exchange and the network are external: a POST whose caller has      *)
(* already been given up on may still arrive and place its order.          *)
(***************************************************************************)
EXTENDS Naturals, FiniteSets

CONSTANTS
  Intent,      \* what the application wants placed, once
  MaxCalls,    \* bound: create_order() calls for one intent
  MaxRetries   \* config.max_retries

ASSUME BoundAssumption == MaxCalls \in Nat \ {0} /\ MaxRetries \in Nat

Id == Intent \X (1..MaxCalls)   \* client order ids: one for each call

VARIABLES
  calls,    \* calls made for each intent
  outcome,  \* how the last one ended
  op,       \* its request in progress: the "create" or the "query"
  at,       \* where that request is suspended
  again,    \* execute() runs for the second time, after a -1021
  tries,    \* the retryer's `attempt`
  synced,   \* TimeSync.synced
  wire,     \* POSTs on their way to the exchange, under each id
  orders,   \* orders the exchange has placed, under each id
  coded,    \* (history) ids whose POST was answered by a 5xx with a JSON code
  late      \* (history) ids that were "absent" to a query with their POST on its way

callVars     == <<calls, outcome>>
requestVars  == <<op, at, again, tries>>
exchangeVars == <<wire, orders>>
historyVars  == <<coded, late>>
vars == <<callVars, requestVars, synced, exchangeVars, historyVars>>

id(i) == <<i, calls[i]>>

-----------------------------------------------------------------------------
(* Errors, as errors.py and httpx raise them.  "stale" is -1021, "absent"  *)
(* -2013, "limited" 429 or 418, "refused" any other status or code.        *)

Lost      == {"timeout", "network"}
ApiErrors == {"server", "limited", "refused", "stale", "absent"}

(* Mutant: a timeout is not among the errors that create_order catches.    *)
UnknownButTimeout(e) == e \in {"server", "network"}

(* What create_order reconciles.                                           *)
Unknown(e) == e \in {"server", "timeout", "network"}

(* Mutant: transient errors are retried for mutating calls too.            *)
RetryableAlways(o, e) == e \in {"timeout", "network", "server", "limited"}

(* Transport._is_retryable.                                                *)
Retryable(o, e) == o = "query" /\ e \in {"timeout", "network", "server", "limited"}

(* Mutant: an order that cannot be queried is an order that does not exist. *)
VerdictHasty(e) == IF e \in ApiErrors THEN "resubmittable" ELSE "escaped"

(* _reconcile, by the error of its query: only a BinanceThAPIError is      *)
(* caught.                                                                 *)
Verdict(e) ==
  CASE e = "absent"             -> "resubmittable"
    [] e \in ApiErrors \ {"absent"} -> "unknown"
    [] e \in Lost               -> "escaped"

-----------------------------------------------------------------------------
(* Transport.request.                                                      *)

Return(i, o) ==
  /\ outcome' = [outcome EXCEPT ![i] = o]
  /\ op' = [op EXCEPT ![i] = "none"]
  /\ at' = [at EXCEPT ![i] = "idle"]
  /\ UNCHANGED <<calls, again, tries>>

Request(i, o) ==
  /\ op' = [op EXCEPT ![i] = o]
  /\ at' = [at EXCEPT ![i] = "ready"]
  /\ again' = [again EXCEPT ![i] = FALSE]
  /\ tries' = [tries EXCEPT ![i] = 0]

Send(i) ==
  /\ at' = [at EXCEPT ![i] = "waiting"]
  /\ wire' = IF op[i] = "create" THEN [wire EXCEPT ![id(i)] = @ + 1] ELSE wire
  /\ UNCHANGED <<callVars, op, tries, orders, historyVars>>

(* An attempt raised e: resynchronise the clock and execute once more, or  *)
(* back off and retry, or raise e to create_order.  (RetryOffByOne is a    *)
(* mutant.)                                                                *)
RetryOffByOne(i, e) == Retryable(op[i], e) /\ tries[i] <= MaxRetries

Resync(i, e) == e = "stale" /\ ~ again[i]
Retry(i, e)  == Retryable(op[i], e) /\ tries[i] < MaxRetries

Raise(i, e) ==
  \/ /\ Resync(i, e)
     /\ at' = [at EXCEPT ![i] = "resyncing"]
     /\ UNCHANGED <<callVars, op, again, tries>>
  \/ /\ ~ Resync(i, e) /\ Retry(i, e)
     /\ at' = [at EXCEPT ![i] = "backoff"]
     /\ UNCHANGED <<callVars, op, again, tries>>
  \/ /\ ~ Resync(i, e) /\ ~ Retry(i, e)
     /\ \/ op[i] = "create" /\ Unknown(e)   /\ Request(i, "query") /\ UNCHANGED callVars
        \/ op[i] = "create" /\ ~ Unknown(e) /\ Return(i, "rejected")
        \/ op[i] = "query" /\ Return(i, Verdict(e))

-----------------------------------------------------------------------------
(* The steps of a call.                                                    *)

(* create_order(), first or again after resubmittable=True; validation,    *)
(* which sends nothing, has passed.                                        *)
CreateOrder(i) ==
  /\ at[i] = "idle" /\ calls[i] < MaxCalls
  /\ outcome[i] \in {"none", "resubmittable"}
  /\ calls' = [calls EXCEPT ![i] = @ + 1]
  /\ outcome' = [outcome EXCEPT ![i] = "none"]
  /\ Request(i, "create")
  /\ UNCHANGED <<synced, exchangeVars, historyVars>>

(* _execute: a signed request of a client that has never synchronised its  *)
(* clock does so first.                                                    *)
Execute(i) ==
  /\ at[i] = "ready"
  /\ \/ synced /\ Send(i)
     \/ /\ ~ synced
        /\ at' = [at EXCEPT ![i] = "syncing"]
        /\ UNCHANGED <<callVars, op, tries, exchangeVars, historyVars>>
  /\ UNCHANGED <<again, synced>>

SyncSucceeds(i) ==
  /\ at[i] \in {"syncing", "resyncing"}
  /\ synced' = TRUE
  /\ again' = [again EXCEPT ![i] = @ \/ at[i] = "resyncing"]
  /\ Send(i)

SyncFails(i) ==
  /\ at[i] \in {"syncing", "resyncing"}
  /\ \E e \in {"timeout", "network", "server", "limited", "refused"} : Raise(i, e)
  /\ UNCHANGED <<synced, exchangeVars, historyVars>>

(* Mutant: the retryer forgets to count.                                   *)
WakeUpUncounted(i) ==
  /\ at[i] = "backoff"
  /\ at' = [at EXCEPT ![i] = "ready"]
  /\ again' = [again EXCEPT ![i] = FALSE]
  /\ UNCHANGED <<callVars, op, tries, synced, exchangeVars, historyVars>>

WakeUp(i) ==
  /\ at[i] = "backoff"
  /\ at' = [at EXCEPT ![i] = "ready"]
  /\ again' = [again EXCEPT ![i] = FALSE]
  /\ tries' = [tries EXCEPT ![i] = @ + 1]
  /\ UNCHANGED <<callVars, op, synced, exchangeVars, historyVars>>

-----------------------------------------------------------------------------
(* What becomes of a POST.                                                 *)

Posting(i) == at[i] = "waiting" /\ op[i] = "create"
Arrives(c) == wire[c] > 0 /\ wire' = [wire EXCEPT ![c] = @ - 1]
Place(c)   == orders' = [orders EXCEPT ![c] = @ + 1]

PostAccepted(i) ==
  /\ Posting(i) /\ Arrives(id(i)) /\ Place(id(i))
  /\ Return(i, "placed")
  /\ UNCHANGED <<synced, historyVars>>

PostRefused(i) ==
  /\ Posting(i) /\ Arrives(id(i))
  /\ \E e \in {"refused", "limited", "stale"} : Raise(i, e)
  /\ UNCHANGED <<synced, orders, historyVars>>

(* A 5xx whose body has a JSON code: map_exception goes by the code, so it *)
(* is raised like a refusal, whether the order was placed or not.          *)
PostServerErrorCoded(i) ==
  /\ Posting(i) /\ Arrives(id(i))
  /\ Place(id(i)) \/ UNCHANGED orders
  /\ Raise(i, "refused")
  /\ coded' = coded \cup {id(i)}
  /\ UNCHANGED <<synced, late>>

(* No answer, or the 5xx of a gateway: nothing is known of the POST.       *)
PostUnanswered(i) ==
  /\ Posting(i)
  /\ \E e \in {"timeout", "network", "server"} : Raise(i, e)
  /\ UNCHANGED <<synced, exchangeVars, historyVars>>

(* A POST arrives and nobody hears of it.                                  *)
PostLands(c) ==
  /\ Arrives(c) /\ Place(c)
  /\ UNCHANGED <<callVars, requestVars, synced, historyVars>>

-----------------------------------------------------------------------------
(* The reconciling query.                                                  *)

Querying(i) == at[i] = "waiting" /\ op[i] = "query"

QueryFound(i) ==
  /\ Querying(i) /\ orders[id(i)] > 0
  /\ Return(i, "placed")
  /\ UNCHANGED <<synced, exchangeVars, historyVars>>

QueryAbsent(i) ==
  /\ Querying(i) /\ orders[id(i)] = 0
  /\ Raise(i, "absent")
  /\ late' = IF wire[id(i)] > 0 THEN late \cup {id(i)} ELSE late
  /\ UNCHANGED <<synced, exchangeVars, coded>>

QueryFails(i) ==
  /\ Querying(i)
  /\ \E e \in {"timeout", "network", "server", "limited", "refused", "stale"} : Raise(i, e)
  /\ UNCHANGED <<synced, exchangeVars, historyVars>>

-----------------------------------------------------------------------------

Init ==
  /\ calls = [i \in Intent |-> 0] /\ outcome = [i \in Intent |-> "none"]
  /\ op = [i \in Intent |-> "none"] /\ at = [i \in Intent |-> "idle"]
  /\ again = [i \in Intent |-> FALSE] /\ tries = [i \in Intent |-> 0]
  /\ synced \in BOOLEAN
  /\ wire = [c \in Id |-> 0] /\ orders = [c \in Id |-> 0]
  /\ coded = {} /\ late = {}

Client(i) == Execute(i) \/ WakeUp(i)

Answer(i) ==
  \/ SyncSucceeds(i) \/ SyncFails(i)
  \/ PostAccepted(i) \/ PostRefused(i) \/ PostServerErrorCoded(i) \/ PostUnanswered(i)
  \/ QueryFound(i) \/ QueryAbsent(i) \/ QueryFails(i)

Next ==
  \/ \E i \in Intent : CreateOrder(i) \/ Client(i) \/ Answer(i)
  \/ \E c \in Id : PostLands(c)

Spec == Init /\ [][Next]_vars

(* The event loop runs what can run, and every HTTP request is answered or *)
(* times out (config.timeout).                                             *)
FairSpec == Spec /\ \A i \in Intent : WF_vars(Client(i)) /\ WF_vars(Answer(i))

-----------------------------------------------------------------------------
(* Properties.                                                             *)

(* Shape of the state; a call that is not suspended has no request.        *)
TypeOK ==
  /\ calls \in [Intent -> 0..MaxCalls]
  /\ outcome \in [Intent -> {"none", "placed", "rejected", "resubmittable", "unknown", "escaped"}]
  /\ op \in [Intent -> {"none", "create", "query"}]
  /\ at \in [Intent -> {"idle", "ready", "syncing", "waiting", "resyncing", "backoff"}]
  /\ again \in [Intent -> BOOLEAN] /\ tries \in [Intent -> 0..MaxRetries]
  /\ synced \in BOOLEAN
  /\ wire \in [Id -> Nat] /\ orders \in [Id -> Nat]
  /\ coded \subseteq Id /\ late \subseteq Id
  /\ \A i \in Intent : op[i] = "none" <=> at[i] = "idle"

(* ADR-0006: "no second create".  Under one client order id the exchange   *)
(* never holds or is about to hold two orders, whatever is retried.        *)
OneOrderPerId == \A c \in Id : wire[c] + orders[c] <= 1

(* An Order returned by create_order is on the exchange, and an error that *)
(* is no timeout, network error or 5xx means that it is not and will not   *)
(* be; a 5xx that carries a code is excepted.                              *)
AnswersAreTrue ==
  \A i \in Intent :
    /\ outcome[i] = "placed" => orders[id(i)] = 1
    /\ outcome[i] = "rejected" /\ id(i) \notin coded => orders[id(i)] + wire[id(i)] = 0

(* The documented application loop places an intent at most once, not      *)
(* counting orders of which the exchange said "does not exist" while they  *)
(* were still on their way.                                                *)
PlacedOnce ==
  \A i \in Intent :
    Cardinality({n \in 1..MaxCalls : orders[<<i, n>>] > 0 /\ <<i, n>> \notin late}) <= 1

(* create_order keeps what PlacementPromise says: whatever is lost, late,  *)
(* repeated or reconciled, its caller is told the truth about the order,   *)
(* and it stays true.                                                      *)
Promise == INSTANCE PlacementPromise WITH
             told    <- outcome,
             excused <- coded \cup late

KeepsPromise == Promise!Spec

(* Every call ends: retries, resynchronisation and reconciliation are      *)
(* finite.                                                                 *)
CallsReturn == \A i \in Intent : at[i] # "idle" ~> at[i] = "idle"

(* errors-and-reconciliation.md:46-47: a create that hits a 5xx is queried *)
(* by its id, so that no other error is raised of an order that exists.    *)
ServerErrorIsReconciled ==
  \A i \in Intent : outcome[i] = "rejected" => orders[id(i)] = 0

=============================================================================
