----------------------------- MODULE BookPromise -----------------------------
(***************************************************************************)
(* What a local order book promises its reader, with nothing said of       *)
(* streams, queues, snapshots in flight or reconnects: at every moment the *)
(* reader sees the exchange's book as of ONE past update, and moves on to  *)
(* later ones.  Only a fresh start may take it back, by Lag updates at     *)
(* most.  DepthBook implements it.                                         *)
(*                                                                         *)
(* A book that starts from a snapshot of a limited number of levels knows  *)
(* some levels (`known`) exactly and for good; any other level it may      *)
(* miss, but never shows wrongly.                                          *)
(***************************************************************************)
EXTENDS Integers, Sequences

CONSTANTS Level, MaxQty, Known(_), Lag

VARIABLES
  hist,   \* the exchange's book after each update
  at,     \* the update the reader's book is as of; -1: no book yet
  known,  \* the levels the reader's book is sure of
  view    \* the quantities the reader sees

vars == <<hist, at, known, view>>

Book == [Level -> 0..MaxQty]

(* v shows b: exactly on the levels K, with omissions elsewhere.           *)
Shows(v, b, K) ==
  /\ \A l \in K : v[l] = b[l]
  /\ \A l \in Level \ K : v[l] \in {0, b[l]}

Init ==
  /\ \E b \in Book : hist = <<b>>
  /\ at = -1
  /\ known = {}
  /\ view = [l \in Level |-> 0]

Publish ==
  /\ \E b \in Book : hist' = Append(hist, b)
  /\ UNCHANGED <<at, known, view>>

(* A fresh start from the exchange's book: exactly the known levels.       *)
StartOver ==
  \E i \in 1..Len(hist) :
    /\ at - Lag <= i
    /\ at' = i
    /\ known' = Known(hist[i])
    /\ view' = [l \in Level |-> IF l \in known' THEN hist[i][l] ELSE 0]
    /\ UNCHANGED hist

(* Moving on from one update to a later one.                               *)
MoveOn ==
  /\ at # -1
  /\ \E i \in 1..Len(hist) :
       /\ at < i
       /\ at' = i
       /\ view' \in Book
       /\ Shows(view', hist[i], known)
  /\ UNCHANGED <<hist, known>>

Next == Publish \/ StartOver \/ MoveOn

Spec == Init /\ [][Next]_vars

=============================================================================
