--------------------------- MODULE PlacementPromise ---------------------------
(***************************************************************************)
(* What create_order promises its caller, with nothing said of requests,   *)
(* retries, clocks or queries: under the id of each call one order at most *)
(* comes to exist; an order that was returned exists; one that was denied  *)
(* does not and never will.  The ids of which the exchange misled the      *)
(* client are `excused` from the last part, and from nothing else.         *)
(* OrderPlacement implements it.                                           *)
(***************************************************************************)
EXTENDS Naturals

CONSTANTS
  Intent,    \* what the application wants placed
  MaxCalls   \* bound: calls for one intent

VARIABLES
  calls,     \* calls made for each intent
  told,      \* what the last one was told; "none" while it goes on
  orders,    \* how many orders there are, under each id
  excused    \* ids whose order may exist although it was denied

vars == <<calls, told, orders, excused>>

Id == Intent \X (1..MaxCalls)

id(i) == <<i, calls[i]>>

Denial == {"rejected", "resubmittable"}

(* The n-th call for i has been told that there is no order.  One that was *)
(* followed by another has been told so too.                               *)
Denied(i, n) == n < calls[i] \/ (n = calls[i] /\ told[i] \in Denial)

Open(i) == calls[i] > 0 /\ told[i] = "none"

(* An order comes to exist, the first under its id.                        *)
Appears(c) == orders[c] = 0 /\ orders' = [orders EXCEPT ![c] = 1]

Tell(i, answer) ==
  /\ Open(i)
  /\ told' = [told EXCEPT ![i] = answer]
  /\ UNCHANGED calls

-----------------------------------------------------------------------------
Init ==
  /\ calls = [i \in Intent |-> 0] /\ told = [i \in Intent |-> "none"]
  /\ orders = [c \in Id |-> 0] /\ excused = {}

Call(i) ==
  /\ calls[i] < MaxCalls
  /\ calls[i] = 0 \/ told[i] = "resubmittable"
  /\ calls' = [calls EXCEPT ![i] = @ + 1]
  /\ told' = [told EXCEPT ![i] = "none"]
  /\ UNCHANGED <<orders, excused>>

(* The order exists, since this answer or from before it.                  *)
Confirm(i) ==
  /\ Tell(i, "placed")
  /\ Appears(id(i)) \/ (orders[id(i)] = 1 /\ UNCHANGED orders)
  /\ UNCHANGED excused

Deny(i) ==
  /\ \E answer \in Denial : Tell(i, answer)
  /\ orders[id(i)] = 0
  /\ UNCHANGED <<orders, excused>>

(* The exchange has misled the client.                                     *)
DenyMisled(i) ==
  /\ \E answer \in Denial : Tell(i, answer)
  /\ Appears(id(i)) \/ UNCHANGED orders
  /\ excused' = excused \cup {id(i)}

(* Nothing is said of the order.                                           *)
LeaveOpen(i) ==
  /\ \E answer \in {"unknown", "escaped"} : Tell(i, answer)
  /\ UNCHANGED <<orders, excused>>

(* An order appears while its call goes on, or after it.                   *)
ShowsUp(i, n) ==
  /\ n <= calls[i]
  /\ Denied(i, n) => <<i, n>> \in excused
  /\ Appears(<<i, n>>)
  /\ UNCHANGED <<calls, told, excused>>

Next ==
  \E i \in Intent :
    \/ Call(i) \/ Confirm(i) \/ Deny(i) \/ DenyMisled(i) \/ LeaveOpen(i)
    \/ \E n \in 1..MaxCalls : ShowsUp(i, n)

Spec == Init /\ [][Next]_vars

=============================================================================
