------------------------------ MODULE MCRestCalls ------------------------------
(***************************************************************************)
(* What surrounds the client's REST calls.  Four parts that share no state *)
(* but call one another, each followed on its own: a behaviour is a        *)
(* session of one of them, and the other three are at rest.                *)
(***************************************************************************)
EXTENDS Pacing, Pagination, RequestErrors, OrderRules, TLC

VARIABLE session

restVars == <<session, pacingVars, paginationVars, errorVars, rulesVars>>

-----------------------------------------------------------------------------
(* Limits: a weight limit that is lowered and an order limit that is new.  *)

TwoWindows == {"weight", "orders"}
TwoKinds   == [weight |-> "REQUEST_WEIGHT", orders |-> "ORDERS"]
TwoTicks   == [weight |-> 2, orders |-> 2]
TwoPhases  == [weight |-> 1, orders |-> 0]
TwoRules   == 0 :> [weight |-> 2, orders |-> 0] @@ 1 :> [weight |-> 1, orders |-> 1]
HeavyOrder == {[weight |-> 2, mutating |-> TRUE]}

(* Answers: a code for each row of the map, and one it does not have.      *)
SomeCodes  == {0, -1003, -1021, -2013}
SomeDelays == {Jitter, 0, 2}

(* Orders: with and without filters, bounds, steps and a notional.         *)
TwoSymbols == {"old", "new"}
Bounded(min, max, unit) == [on |-> TRUE, min |-> min, max |-> max, step |-> unit]
Strict == [on |-> TRUE, price |-> Bounded(2, 6, 2), lot |-> Bounded(2, 0, 2),
           marketLot |-> NoFilter, notional |-> 12]
Coarse == [on |-> TRUE, price |-> Bounded(0, 0, 3), lot |-> Bounded(0, 4, 3),
           marketLot |-> Bounded(0, 4, 0), notional |-> 0]
Loose  == [on |-> TRUE, price |-> NoFilter, lot |-> NoFilter, marketLot |-> NoFilter, notional |-> 5]
SomeListings == [old : {Strict}, new : {NoSymbol, Coarse, Loose}]

Fields == [symbol : TwoSymbols, side : {"BUY", "SELL"}, price : {Absent, 0, 3, 4, 7}, qty : {Absent, 1, 3, 4, 5},
           both : {FALSE}, validate : {TRUE}]
With(o, type, quote, stop, tif) ==
  [symbol |-> o.symbol, side |-> o.side, price |-> o.price, qty |-> o.qty, both |-> o.both, validate |-> o.validate,
   type |-> type, quote |-> quote, stop |-> stop, tif |-> tif]
Checked ==
       {With(o, type, quote, Absent, tif) :
          o \in Fields, type \in {"LIMIT", "MARKET", "LIMIT_MAKER"}, quote \in {Absent, 5}, tif \in {Absent, 1}}
  \cup {With(o, type, Absent, stop, 1) :
          o \in Fields, type \in {"STOP_LOSS", "TAKE_PROFIT_LIMIT"}, stop \in {Absent, 1, 3}}
SomeOrders ==
  Checked
  \cup {[With(o, "MARKET", 5, Absent, Absent) EXCEPT !.both = TRUE] : o \in Fields}
  \cup {[With(o, "LIMIT", Absent, Absent, 1) EXCEPT !.validate = FALSE] : o \in Fields}

(* Plain ones, for a short counterexample.                                 *)
LimitOrders == {o \in Checked : o.type = "LIMIT" /\ Resolves(o)}

(* Histories: all of one in pages of two and of three, and its middle.     *)
SomeAsks == {[start |-> 0, end |-> 4, limit |-> 2], [start |-> 0, end |-> 4, limit |-> 3],
             [start |-> 1, end |-> 3, limit |-> 2]}

-----------------------------------------------------------------------------
NoCalls == PacingInit

NoIteration ==
  /\ source = "klines" /\ ask = [start |-> 0, end |-> 0, limit |-> 1]
  /\ rows = <<>> /\ first = 0 /\ stage = "done" /\ window = 0
  /\ boundary = NothingSeen /\ page = <<>> /\ again = NothingLeft
  /\ yielded = <<>> /\ renamed = FALSE

NoRequest ==
  /\ call = [mutating |-> FALSE, signed |-> FALSE, enveloped |-> FALSE]
  /\ at = "returned" /\ attempt = 1 /\ wait = 0 /\ last = NoError /\ resends = 0 /\ reasons = {}

NoOrder ==
  /\ asked = CHOOSE o \in Orders : TRUE
  /\ listing = Nothing /\ cached = Nothing /\ step = "unresolved"
  /\ known = NoSymbol /\ order = asked /\ listed = FALSE

Init ==
  \/ session = "limits" /\ PacingInit /\ NoIteration /\ NoRequest /\ NoOrder
  \/ session = "history" /\ NoCalls /\ PaginationInit /\ NoRequest /\ NoOrder
  \/ session = "answers" /\ NoCalls /\ NoIteration /\ ErrorInit /\ NoOrder
  \/ session = "order" /\ NoCalls /\ NoIteration /\ NoRequest /\ RulesInit

Next ==
  /\ UNCHANGED session
  /\ \/ session = "limits" /\ PacingNext /\ UNCHANGED <<paginationVars, errorVars, rulesVars>>
     \/ session = "history" /\ PaginationNext /\ UNCHANGED <<pacingVars, errorVars, rulesVars>>
     \/ session = "answers" /\ ErrorNext /\ UNCHANGED <<pacingVars, paginationVars, rulesVars>>
     \/ session = "order" /\ RulesNext /\ UNCHANGED <<pacingVars, paginationVars, errorVars>>

Spec == Init /\ [][Next]_restVars

(* Tasks are interchangeable.                                              *)
Interchangeable == Permutations(Task)

=============================================================================
