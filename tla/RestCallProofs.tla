--------------------------- MODULE RestCallProofs ---------------------------
(***************************************************************************)
(* Proofs about the parts of a REST call that are sequential: a request    *)
(* and its errors (RequestErrors), for any statuses, codes, delays and     *)
(* number of attempts; and an order before its POST (OrderRules), for any  *)
(* order, symbol and filters, with snapping for every number and step.     *)
(***************************************************************************)
EXTENDS RequestErrors, OrderRules, TLAPS

-----------------------------------------------------------------------------
(* RequestErrors.                                                          *)

(* What the class of an error tells of it: those that are retried are the  *)
(* errors that may pass, and an "Auth" with the code -1021 is a refused    *)
(* timestamp.                                                              *)
Known(e) ==
  /\ e.class \in Uncertain \cup Patient <=> Reason(e) = "passing"
  /\ e.class = "Auth" /\ e.code = -1021 => Reason(e) = "skew"

(* So it is, whatever status and code an answer has.                       *)
LEMMA ErrorsKnown ==
  ASSUME NEW enveloped \in BOOLEAN, NEW e \in Errors(enveloped)
  PROVE  Known(e)
<1> USE DEF Known, Reason, MayPass, Uncertain, Patient
<1>1. CASE e \in OtherErrors
  BY <1>1 DEF OtherErrors
<1>2. CASE e \notin OtherErrors
  <2>1. PICK s \in Status, c \in Code, d \in Delay \cup {Jitter} :
          IsError(s, c, enveloped) /\ e = ErrorOf(s, c, d)
    BY <1>2 DEF Errors
  <2>2. s \in Nat /\ c \in Int
    BY ErrorsAssumption
  <2>3. e.class = ClassOf(s, c) /\ e.status = s /\ e.code = c
    BY <2>1 DEF ErrorOf
  <2>4. CASE c # 0
    <3>1. e.class \in {"Auth", "BadRequest", "API"} /\ (c = -1021 => e.class = "Auth")
      BY <2>2, <2>3, <2>4 DEF ClassOf, CodeClass
    <3> QED
      BY <2>2, <2>3, <2>4, <3>1
  <2>5. CASE c = 0
    <3>1. s >= 400
      BY <2>1, <2>5 DEF IsError
    <3>2. CASE s >= 500
      BY <2>2, <2>3, <2>5, <3>2 DEF ClassOf, StatusClass
    <3>3. CASE s < 500
      BY <2>2, <2>3, <2>5, <3>1, <3>3 DEF ClassOf, StatusClass
    <3> QED
      BY <2>2, <3>2, <3>3
  <2> QED
    BY <2>4, <2>5
<1> QED
  BY <1>1, <1>2

-----------------------------------------------------------------------------
(* A mutating request is in its first attempt for as long as it lives, and *)
(* only a -1021 makes it go out again.                                     *)
Once ==
  call.mutating =>
    /\ at # "waiting" /\ reasons \subseteq {"skew"}
    /\ at \in {"sent", "resync"} => resends = 0
    /\ resends = 0 \/ (resends = 1 /\ call.signed)

(* Each attempt but the first is a sending, and may have had one before.   *)
Counted ==
  /\ attempt \in 1 .. MaxAttempts /\ resends \in Nat
  /\ at \in {"sent", "resync"} => resends <= 2 * (attempt - 1)
  /\ resends <= 2 * attempt - 1
  /\ at = "waiting" => attempt < MaxAttempts

ErrorInv ==
  /\ call.mutating \in BOOLEAN /\ call.signed \in BOOLEAN /\ call.enveloped \in BOOLEAN
  /\ at \in {"sent", "resync", "resent", "waiting", "returned", "raised"}
  /\ at = "resync" => Reason(last) = "skew" /\ call.signed
  /\ at = "waiting" => wait = last.after /\ Reason(last) = "passing"
  /\ at = "raised" /\ ~ call.mutating /\ attempt < MaxAttempts => Reason(last) # "passing"
  /\ reasons \subseteq {"skew", "passing"}
  /\ ~ call.signed => "skew" \notin reasons
  /\ Counted /\ Once

(* The retryer's verdict on an error.                                      *)
LEMMA RetryStep ==
  ASSUME ErrorInv, NEW e, Known(e), Retry(e), last' = e, UNCHANGED <<call, attempt, resendVars>>
  PROVE  ErrorInv'
<1> USE DEF ErrorInv
<1>1. CASE attempt < MaxAttempts /\ Retryable(e)
  <2>1. at' = "waiting" /\ wait' = e.after /\ Reason(e) = "passing" /\ ~ call.mutating
    BY <1>1 DEF Retry, Retryable, DelayAfter, Known
  <2> QED
    BY <1>1, <2>1 DEF Once, Counted, resendVars
<1>2. CASE ~ (attempt < MaxAttempts /\ Retryable(e))
  <2>1. at' = "raised"
    BY <1>2 DEF Retry
  <2>2. ~ call.mutating /\ attempt < MaxAttempts => Reason(e) # "passing"
    BY <1>2 DEF Retryable, Known
  <2> QED
    BY <2>1, <2>2 DEF Once, Counted, resendVars
<1> QED
  BY <1>1, <1>2

LEMMA ErrorStep == ErrorInv /\ [ErrorNext]_errorVars => ErrorInv'
<1> SUFFICES ASSUME ErrorInv, [ErrorNext]_errorVars
             PROVE  ErrorInv'
  OBVIOUS
<1> USE DEF ErrorInv
<1>1. CASE UNCHANGED errorVars
  BY <1>1 DEF errorVars, resendVars, Once, Counted
<1>2. CASE Returns
  BY <1>2 DEF Returns, resendVars, Once, Counted
<1>3. CASE Resynced
  <2>1. /\ at = "resync" /\ at' = "resent" /\ Reason(last) = "skew" /\ call.signed
        /\ resends' = resends + 1 /\ reasons' = reasons \cup {"skew"} /\ UNCHANGED <<call, attempt, wait, last>>
    BY <1>3 DEF Resynced, SentAgain
  <2>2. Counted'
    BY <2>1 DEF Counted
  <2>3. Once'
    BY <2>1 DEF Once
  <2> QED
    BY <2>1, <2>2, <2>3
<1>4. CASE TriesAgain
  <2>1. /\ at = "waiting" /\ at' = "sent" /\ attempt' = attempt + 1 /\ Reason(last) = "passing" /\ ~ call.mutating
        /\ resends' = resends + 1 /\ reasons' = reasons \cup {"passing"} /\ UNCHANGED <<call, last>>
    BY <1>4 DEF TriesAgain, SentAgain, Once
  <2>2. Counted'
    BY ErrorsAssumption, <2>1 DEF Counted
  <2>3. Once'
    BY <2>1 DEF Once
  <2> QED
    BY <2>1, <2>2, <2>3
<1>5. ASSUME NEW e \in Errors(call.enveloped), Errs(e) PROVE ErrorInv'
  <2>1. Known(e)
    BY ErrorsKnown
  <2>2. CASE at = "sent" /\ call.signed /\ e.class = "Auth" /\ e.code = -1021
    BY <1>5, <2>1, <2>2 DEF Errs, resendVars, Once, Counted, Known
  <2>3. CASE ~ (at = "sent" /\ call.signed /\ e.class = "Auth" /\ e.code = -1021)
    BY <1>5, <2>1, <2>3, RetryStep DEF Errs
  <2> QED
    BY <2>2, <2>3
<1> HIDE DEF ErrorInv
<1>6. ASSUME NEW e \in Errors(FALSE), ResyncFails(e) PROVE ErrorInv'
  <2>1. Known(e)
    BY ErrorsKnown
  <2>2. Retry(e) /\ last' = e /\ UNCHANGED <<call, attempt, resendVars>>
    BY <1>6 DEF ResyncFails
  <2> QED
    BY <2>1, <2>2, RetryStep
<1>7. (\E e \in Errors(call.enveloped) : Errs(e)) => ErrorInv'
  BY <1>5
<1>8. (\E e \in Errors(FALSE) : ResyncFails(e)) => ErrorInv'
  BY <1>6
<1> QED
  BY <1>1, <1>2, <1>3, <1>4, <1>7, <1>8 DEF ErrorNext

(* Whatever the exchange and the network answer, in whatever order: a      *)
(* mutating request goes out a second time only after a -1021, and never a *)
(* third time; any other is repeated only after a -1021, if it is signed,  *)
(* or an error that may pass, at most twice in an attempt; and an error    *)
(* that may pass, and says so by its class, ends it after its last attempt *)
(* only (transport.py, retry.py, errors.py).                               *)
THEOREM SafeRepeats == ErrorSpec => []RepeatedForAReason
<1>1. ErrorInit => ErrorInv
  BY ErrorsAssumption DEF ErrorInit, ErrorInv, Once, Counted
<1>2. ErrorInv => RepeatedForAReason
  <2> SUFFICES ASSUME ErrorInv PROVE RepeatedForAReason
    OBVIOUS
  <2>1. MutatingSentOnce
    BY DEF ErrorInv, Once, Counted, MutatingSentOnce
  <2>2. OthersSentWisely
    BY ErrorsAssumption DEF ErrorInv, Counted, OthersSentWisely
  <2>3. NotGivenUpEarly
    BY DEF ErrorInv, NotGivenUpEarly
  <2> QED
    BY <2>1, <2>2, <2>3 DEF RepeatedForAReason
<1> QED
  BY <1>1, <1>2, ErrorStep, PTL DEF ErrorSpec

-----------------------------------------------------------------------------
(* Snapping (validation.py).                                               *)

LEMMA Dividing ==
  ASSUME NEW x \in Nat, NEW u \in Nat \ {0}
  PROVE  /\ x \div u \in Nat /\ x % u \in 0 .. u - 1
         /\ x = u * (x \div u) + (x % u)
  OBVIOUS

(* A multiple of the step is on the grid.                                  *)
LEMMA MultiplesOnGrid ==
  ASSUME NEW q \in Nat, NEW u \in Nat \ {0}
  PROVE  (q * u) % u = 0
<1> DEFINE k == (q * u) \div u
           r == (q * u) % u
<1>1. q * u \in Nat
  OBVIOUS
<1>2. k \in Nat /\ r \in 0 .. u - 1 /\ q * u = u * k + r
  BY <1>1, Dividing
<1> HIDE DEF k, r
<1>3. r = u * (q - k)
  BY <1>2
<1>4. q - k \in Int
  BY <1>2
<1>5. \A d \in Int : d >= 1 => u * d >= u
  OBVIOUS
<1>6. \A d \in Int : d <= -1 => u * d < 0
  OBVIOUS
<1>7. q - k = 0
  BY <1>2, <1>3, <1>4, <1>5, <1>6
<1>8. r = 0
  BY <1>3, <1>7
<1> QED
  BY <1>8 DEF r

(* A snapped number is on the grid, and the next one at or below what it   *)
(* was; a number that is on the grid already stays.                        *)
LEMMA Snaps ==
  ASSUME NEW x \in Nat, NEW u \in Nat
  PROVE  /\ Snap(x, u) \in Nat
         /\ Snap(x, u) <= x
         /\ x - Snap(x, u) < u \/ Snap(x, u) = x
         /\ u = 0 \/ Snap(x, u) % u = 0
         /\ u = 0 \/ x % u = 0 => Snap(x, u) = x
<1>1. CASE u = 0
  BY <1>1 DEF Snap
<1>2. CASE u # 0
  <2> DEFINE q == x \div u
  <2>1. q \in Nat /\ x % u \in 0 .. u - 1 /\ x = u * q + (x % u)
    BY <1>2, Dividing
  <2>2. Snap(x, u) = q * u
    BY <1>2 DEF Snap
  <2>3. (q * u) % u = 0
    BY <1>2, <2>1, MultiplesOnGrid
  <2> HIDE DEF q
  <2>4. q * u = u * q /\ q * u \in Nat
    BY <2>1
  <2> QED
    BY <1>2, <2>1, <2>2, <2>3, <2>4
<1> QED
  BY <1>1, <1>2

-----------------------------------------------------------------------------
(* Orders.                                                                 *)

LEMMA LotFilterTyped ==
  ASSUME NEW o, NEW rules \in SymbolInfo
  PROVE  LotFilter(o, rules) \in Filter /\ rules.price \in Filter /\ rules.notional \in Nat
  BY DEF LotFilter, SymbolInfo

(* What snapping does to a field that may be None.                         *)
LEMMA SnapsField ==
  ASSUME NEW old \in Optional, NEW filter \in Filter, NEW new,
         new = IF old = Absent THEN old ELSE Snap(old, filter.step)
  PROVE  /\ new \in Optional
         /\ (new = Absent) <=> (old = Absent)
         /\ Near(new, old, filter) /\ new <= old
         /\ new # Absent => OnGrid(new, filter)
         /\ (old # Absent => OnGrid(old, filter)) => new = old
<1>1. filter.step \in Nat
  BY DEF Filter
<1>2. CASE old = Absent
  BY <1>2 DEF Near, Optional, Absent
<1>3. CASE old # Absent
  <2>1. old \in Nat /\ new = Snap(old, filter.step)
    BY <1>3 DEF Optional
  <2> DEFINE u == filter.step
             y == Snap(old, u)
  <2>2. /\ y \in Nat /\ y <= old
        /\ old - y < u \/ y = old
        /\ u = 0 \/ y % u = 0
        /\ u = 0 \/ old % u = 0 => y = old
    BY <1>1, <2>1, Snaps
  <2> HIDE DEF y
  <2>3. new = y /\ new # Absent
    BY <2>1, <2>2 DEF Absent, y
  <2> QED
    BY <1>1, <1>3, <2>1, <2>2, <2>3 DEF Near, OnGrid, Optional
<1> QED
  BY <1>2, <1>3

(* Orders with the same fields are the same.                               *)
LEMMA SameOrder ==
  ASSUME NEW o \in OrderRequest, NEW s \in OrderRequest,
         s.symbol = o.symbol, s.type = o.type, s.price = o.price, s.qty = o.qty,
         s.quote = o.quote, s.stop = o.stop, s.tif = o.tif, s.both = o.both,
         s.side = o.side, s.validate = o.validate
  PROVE  s = o
  BY DEF OrderRequest

(* The order that is checked, and sent if it passes (validation.py).       *)
LEMMA SnappedOrder ==
  ASSUME NEW o \in OrderRequest, NEW rules \in SymbolInfo
  PROVE  LET s == Snapped(o, rules) IN
         /\ Passes(s, rules) => RightlySnapped(s, o, rules)
         /\ Fits(o, rules) => Passes(s, rules)
<1> DEFINE s == Snapped(o, rules)
           lot == LotFilter(o, rules)
<1>1. lot \in Filter /\ rules.price \in Filter
  BY LotFilterTyped
<1>2. o.price \in Optional /\ o.qty \in Optional /\ o.stop \in Optional
  BY DEF OrderRequest
<1>3. /\ s.price = IF o.price = Absent THEN o.price ELSE Snap(o.price, rules.price.step)
      /\ s.stop = IF o.stop = Absent THEN o.stop ELSE Snap(o.stop, rules.price.step)
      /\ s.qty = IF o.qty = Absent THEN o.qty ELSE Snap(o.qty, lot.step)
      /\ s.type = o.type /\ s.quote = o.quote
  BY DEF Snapped, OrderRequest
<1>4. s \in OrderRequest /\ s.symbol = o.symbol /\ s.tif = o.tif /\ s.both = o.both
      /\ s.side = o.side /\ s.validate = o.validate
  <2>1. /\ (IF o.price = Absent THEN o.price ELSE Snap(o.price, rules.price.step)) \in Optional
        /\ (IF o.stop = Absent THEN o.stop ELSE Snap(o.stop, rules.price.step)) \in Optional
        /\ (IF o.qty = Absent THEN o.qty ELSE Snap(o.qty, lot.step)) \in Optional
    BY <1>1, <1>2, SnapsField
  <2> QED
    BY <2>1 DEF Snapped, OrderRequest
<1>6. LotFilter(s, rules) = lot
  BY <1>3 DEF LotFilter
<1> HIDE DEF s, lot
<1>7. /\ Near(s.price, o.price, rules.price) /\ s.price <= o.price
      /\ s.price # Absent => OnGrid(s.price, rules.price)
      /\ (o.price # Absent => OnGrid(o.price, rules.price)) => s.price = o.price
  BY <1>1, <1>2, <1>3, SnapsField
<1>8. /\ Near(s.qty, o.qty, lot) /\ s.qty <= o.qty
      /\ s.qty # Absent => OnGrid(s.qty, lot)
      /\ (o.qty # Absent => OnGrid(o.qty, lot)) => s.qty = o.qty
  BY <1>1, <1>2, <1>3, SnapsField
<1>9. /\ Near(s.stop, o.stop, rules.price)
      /\ o.stop = Absent => s.stop = o.stop
  BY <1>1, <1>2, <1>3, SnapsField
<1>10. Passes(s, rules) => Fits(s, rules)
  BY <1>6, <1>7, <1>8 DEF Passes, Fits
<1>11. Fits(o, rules) => s.price = o.price /\ s.qty = o.qty
  BY <1>7, <1>8 DEF Fits, lot
<1>12. Fits(o, rules) => Passes(s, rules)
  BY <1>3, <1>6, <1>11 DEF Fits, Passes, WorthEnough, lot
<1>13. Fits(o, rules) /\ o.stop = Absent => s = o
  BY <1>3, <1>4, <1>9, <1>11, SameOrder
<1>14. Passes(s, rules) => RightlySnapped(s, o, rules)
  BY <1>7, <1>8, <1>9, <1>10, <1>13 DEF RightlySnapped, lot
<1> QED
  BY <1>12, <1>14 DEF s

-----------------------------------------------------------------------------
(* create_order, up to its POST (orders.py).  An order is only checked     *)
(* against a symbol that is there; a symbol that has been listed since the *)
(* call began is listed now.                                               *)
RulesInv ==
  /\ asked \in Orders /\ listing \in Listings /\ cached \in Listings \cup {Nothing}
  /\ step \in {"asking", "checking", "refreshing", "found", "sent", "unresolved", "unknown", "rejected"}
  /\ step = "found" => known \in SymbolInfo
  /\ step \in {"checking", "refreshing", "found"} => asked.validate
  /\ listed => Lists(listing, asked.symbol)
  /\ ValidatedOrRejected

LEMMA KnownSymbol ==
  ASSUME NEW inf \in Listings, NEW sym \in Symbol, Lists(inf, sym)
  PROVE  inf[sym] \in SymbolInfo
  BY RulesAssumption DEF Lists, NoSymbol

LEMMA RulesStep == RulesInv /\ [RulesNext]_rulesVars => RulesInv'
<1> SUFFICES ASSUME RulesInv, [RulesNext]_rulesVars
             PROVE  RulesInv'
  OBVIOUS
<1> USE DEF RulesInv
<1>1. asked \in OrderRequest /\ asked.symbol \in Symbol
  BY RulesAssumption DEF OrderRequest
<1>2. CASE UNCHANGED rulesVars
  BY <1>2 DEF rulesVars, ValidatedOrRejected, Lists
<1>3. CASE Resolve
  BY <1>3 DEF Resolve, ValidatedOrRejected, Lists
<1>4. CASE Lookup
  <2> DEFINE inf == IF cached = Nothing THEN listing ELSE cached
  <2>1. step = "checking" /\ inf \in Listings /\ cached' = inf /\ known' = inf[asked.symbol]
        /\ step' = (IF Lists(inf, asked.symbol) THEN "found" ELSE "refreshing")
        /\ UNCHANGED <<asked, listing, order, listed>>
    BY <1>4 DEF Lookup
  <2> HIDE DEF inf
  <2>2. step' = "found" => known' \in SymbolInfo
    BY <1>1, <2>1, KnownSymbol
  <2> QED
    BY <2>1, <2>2 DEF ValidatedOrRejected, Lists
<1>5. CASE Refresh
  <2>1. step' = "found" => known' \in SymbolInfo
    BY <1>1, <1>5, KnownSymbol DEF Refresh
  <2>2. step' = "unknown" => ~ listed'
    BY <1>5 DEF Refresh
  <2> QED
    BY <1>5, <2>1, <2>2 DEF Refresh, ValidatedOrRejected, Lists
<1>6. CASE Validate
  <2>1. asked.validate /\ known \in SymbolInfo /\ UNCHANGED <<asked, listing, cached, known, listed>>
    BY <1>6 DEF Validate
  <2>2. /\ Passes(Snapped(asked, known), known) => RightlySnapped(Snapped(asked, known), asked, known)
        /\ Fits(asked, known) => Passes(Snapped(asked, known), known)
    BY <1>1, <2>1, SnappedOrder
  <2>3. CASE Passes(Snapped(asked, known), known)
    <3>1. step' = "sent" /\ order' = Snapped(asked, known)
      BY <1>6, <2>3 DEF Validate
    <3> QED
      BY <2>1, <2>2, <2>3, <3>1 DEF ValidatedOrRejected, Lists
  <2>4. CASE ~ Passes(Snapped(asked, known), known)
    <3>1. step' = "rejected"
      BY <1>6, <2>4 DEF Validate
    <3> QED
      BY <2>1, <2>2, <2>4, <3>1 DEF ValidatedOrRejected, Lists
  <2> QED
    BY <2>3, <2>4
<1>7. CASE \E new \in Listings : ListingChanges(new)
  BY <1>7 DEF ListingChanges, ValidatedOrRejected, Lists
<1> QED
  BY <1>2, <1>3, <1>4, <1>5, <1>6, <1>7 DEF RulesNext

(* Whatever is asked for and however stale the cached filters are, an      *)
(* order that is checked and sent fits the filters it was checked against, *)
(* is within a step of what was asked for, and is no larger, nor a BUY at  *)
(* a higher price; one that fits is not rejected; and a symbol that is     *)
(* listed is not unknown (validation.py, orders.py).                       *)
THEOREM OrdersEndRight == RulesSpec => []ValidatedOrRejected
<1>1. RulesInit => RulesInv
  BY DEF RulesInit, RulesInv, ValidatedOrRejected
<1>2. RulesInv => ValidatedOrRejected
  BY DEF RulesInv
<1> QED
  BY <1>1, <1>2, RulesStep, PTL DEF RulesSpec

=============================================================================
