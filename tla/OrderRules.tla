------------------------------ MODULE OrderRules ------------------------------
(***************************************************************************)
(* What happens to an order before it is sent: _resolve_request and        *)
(* _validate (orders.py), OrderRequest's own checks (models/orders.py),    *)
(* the symbols and filters of exchangeInfo (models/base.py), their cache   *)
(* (client.py), and snapping and checking against the filters              *)
(* (validation.py).                                                        *)
(*                                                                         *)
(* Prices and quantities are multiples of a smallest unit; 0 stands for a  *)
(* bound or a step that is "0" or missing, Absent for a field that is      *)
(* None.  The exchange lists symbols and changes filters meanwhile.        *)
(***************************************************************************)
EXTENDS Integers

CONSTANTS
  Orders,     \* the orders a caller may ask for
  Listings,   \* the exchange infos there are: a SymbolInfo for each symbol listed
  Symbol      \* symbols

Absent == -1

(* OrderRequest, whether request= and keywords were given, and validate=.  *)
(* (The client's id and recvWindow decide nothing here.)                   *)
OrderType ==
  {"LIMIT", "LIMIT_MAKER", "MARKET", "STOP_LOSS", "STOP_LOSS_LIMIT", "TAKE_PROFIT", "TAKE_PROFIT_LIMIT"}

Optional == Nat \cup {Absent}

OrderRequest ==
  [symbol : Symbol, side : {"BUY", "SELL"}, type : OrderType, price : Optional, qty : Optional,
   quote : Optional, stop : Optional, tif : Optional, both : BOOLEAN, validate : BOOLEAN]

(* SymbolFilter: what PRICE_FILTER, LOT_SIZE and MARKET_LOT_SIZE have.     *)
Filter == [on : BOOLEAN, min : Nat, max : Nat, step : Nat]

(* SymbolInfo, and a symbol that is not in the exchange info.              *)
SymbolInfo == [on : {TRUE}, price : Filter, lot : Filter, marketLot : Filter, notional : Nat]

NoSymbol == [on |-> FALSE]

(* Where a filter is not among a symbol's (get_filter).                    *)
NoFilter == [on |-> FALSE, min |-> 0, max |-> 0, step |-> 0]

ASSUME RulesAssumption ==
  /\ Orders \subseteq OrderRequest
  /\ \A info \in Listings : \A s \in Symbol : info[s] \in SymbolInfo \cup {NoSymbol}

VARIABLES
  asked,     \* the order the caller asks for
  listing,   \* what the exchange lists now
  cached,    \* _exchange_info, or Nothing
  step,      \* "asking", "checking", "refreshing", "found", or how it ended: "sent",
             \*   "unresolved", "unknown", "rejected"
  known,     \* the SymbolInfo the order is checked against
  order,     \* the order sent
  listed     \* (history) the symbol has been listed since the call began

rulesVars == <<asked, listing, cached, step, known, order, listed>>

Nothing == [s \in Symbol |-> NoSymbol]

-----------------------------------------------------------------------------
(* ExchangeInfo.get_symbol.                                                *)
Lists(info, symbol) == info[symbol].on

(* MARKET orders have a lot filter of their own, if the symbol has it.     *)
LotFilter(o, rules) ==
  IF o.type = "MARKET" /\ rules.marketLot.on THEN rules.marketLot ELSE rules.lot

-----------------------------------------------------------------------------
(* OrderRequest.validate_order_params.                                     *)

StopTypes == {"STOP_LOSS", "STOP_LOSS_LIMIT", "TAKE_PROFIT", "TAKE_PROFIT_LIMIT"}

Needs(o) ==
  CASE o.type = "LIMIT"       -> {"price", "tif", "qty"}
    [] o.type = "LIMIT_MAKER" -> {}
    [] o.type = "MARKET"      -> IF o.quote = Absent THEN {"qty"} ELSE {}
    [] o.type \in {"STOP_LOSS", "TAKE_PROFIT"} -> {"stop"}
    [] o.type \in {"STOP_LOSS_LIMIT", "TAKE_PROFIT_LIMIT"} -> {"stop", "price", "tif"}

(* _resolve_request: request= or keyword parameters, and not both.         *)
Resolves(o) == ~ o.both /\ \A field \in Needs(o) : o[field] # Absent

-----------------------------------------------------------------------------
(* validate_order.                                                         *)

(* Mutant: to the nearest multiple.                                        *)
SnapNearest(x, unit) == IF unit = 0 THEN x ELSE ((x + unit \div 2) \div unit) * unit

(* snap_price, snap_qty.                                                   *)
Snap(x, unit) == IF unit = 0 THEN x ELSE (x \div unit) * unit

Snapped(o, rules) ==
  [o EXCEPT !.price = IF @ = Absent THEN @ ELSE Snap(@, rules.price.step),
            !.stop  = IF @ = Absent THEN @ ELSE Snap(@, rules.price.step),
            !.qty   = IF @ = Absent THEN @ ELSE Snap(@, LotFilter(o, rules).step)]

Within(x, filter) ==
  x > 0 /\ (filter.min # 0 => x >= filter.min) /\ (filter.max # 0 => x <= filter.max)

(* MIN_NOTIONAL: of the quote quantity, if there is one, or of price times *)
(* quantity, if both are there.                                            *)
WorthEnough(o, rules) ==
  \/ rules.notional = 0
  \/ o.quote # Absent /\ o.quote >= rules.notional
  \/ o.quote = Absent /\ (Absent \in {o.price, o.qty} \/ o.price * o.qty >= rules.notional)

Passes(o, rules) ==
  /\ o.price # Absent => Within(o.price, rules.price)
  /\ o.qty # Absent => Within(o.qty, LotFilter(o, rules))
  /\ WorthEnough(o, rules)

-----------------------------------------------------------------------------
(* create_order, up to its POST, with credentials to sign it.              *)

Resolve ==
  /\ step = "asking"
  /\ \/ /\ ~ Resolves(asked)
        /\ step' = "unresolved"
        /\ UNCHANGED <<listed, order>>
     \/ /\ Resolves(asked) /\ asked.validate
        /\ step' = "checking"
        /\ listed' = Lists(listing, asked.symbol)
        /\ UNCHANGED order
     \/ /\ Resolves(asked) /\ ~ asked.validate
        /\ step' = "sent" /\ order' = asked
        /\ UNCHANGED listed
  /\ UNCHANGED <<asked, listing, cached, known>>

(* exchange_info() returns what is cached, or fetches it.                  *)
Lookup ==
  LET info == IF cached = Nothing THEN listing ELSE cached IN
  /\ step = "checking"
  /\ cached' = info
  /\ known' = info[asked.symbol]
  /\ step' = IF Lists(info, asked.symbol) THEN "found" ELSE "refreshing"
  /\ UNCHANGED <<asked, listing, order, listed>>

(* A symbol that is not there: the cache may be stale, fetch it once more. *)
Refresh ==
  /\ step = "refreshing"
  /\ cached' = listing
  /\ known' = listing[asked.symbol]
  /\ step' = IF Lists(listing, asked.symbol) THEN "found" ELSE "unknown"
  /\ UNCHANGED <<asked, listing, order, listed>>

Validate ==
  /\ step = "found"
  /\ IF Passes(Snapped(asked, known), known)
     THEN step' = "sent" /\ order' = Snapped(asked, known)
     ELSE step' = "rejected" /\ UNCHANGED order
  /\ UNCHANGED <<asked, listing, cached, known, listed>>

(* The exchange, meanwhile.                                                *)
ListingChanges(new) ==
  /\ step \in {"asking", "checking", "refreshing"}
  /\ listing' = new
  /\ listed' = (listed /\ Lists(new, asked.symbol))
  /\ UNCHANGED <<asked, cached, step, known, order>>

RulesInit ==
  /\ asked \in Orders
  /\ listing \in Listings /\ cached \in Listings \cup {Nothing}
  /\ step = "asking" /\ known = NoSymbol /\ order = asked /\ listed = FALSE

RulesNext ==
  \/ Resolve \/ Lookup \/ Refresh \/ Validate
  \/ \E new \in Listings : ListingChanges(new)

RulesSpec == RulesInit /\ [][RulesNext]_rulesVars

-----------------------------------------------------------------------------
(* Properties.                                                             *)

(* What the filters of a symbol ask of a number, said without snapping.    *)
OnGrid(x, filter) == filter.step = 0 \/ x % filter.step = 0

Fits(o, rules) ==
  /\ o.price # Absent => OnGrid(o.price, rules.price) /\ Within(o.price, rules.price)
  /\ o.qty # Absent => OnGrid(o.qty, LotFilter(o, rules)) /\ Within(o.qty, LotFilter(o, rules))
  /\ WorthEnough(o, rules)

(* A field that is None stays so, another moves by less than a step.       *)
Near(new, old, filter) ==
  IF old = Absent THEN new = Absent
  ELSE new = old \/ (new - old < filter.step /\ old - new < filter.step)

RightlySnapped(new, old, rules) ==
  /\ Fits(new, rules)
  /\ Near(new.price, old.price, rules.price)
  /\ Near(new.qty, old.qty, LotFilter(old, rules))
  /\ Near(new.stop, old.stop, rules.price)
  /\ new.qty <= old.qty
  /\ old.side = "BUY" => new.price <= old.price
  /\ Fits(old, rules) /\ old.stop = Absent => new = old

(* How a call ends is right.  An order that is sent fits the filters it    *)
(* was checked against and is within a step of what was asked for, never   *)
(* larger, and a BUY never at a higher price; one that fits as it is asked *)
(* for is not rejected and not changed.  (A stop price is put on the grid  *)
(* and not checked.)  With validate=False what is asked for is sent.  And  *)
(* a symbol that the exchange has listed ever since the call began is not  *)
(* unknown, however old the cache is.                                      *)
ValidatedOrRejected ==
  /\ step = "sent" /\ asked.validate => RightlySnapped(order, asked, known)
  /\ step = "sent" /\ ~ asked.validate => order = asked
  /\ step = "rejected" => asked.validate /\ ~ Fits(asked, known)
  /\ step = "unknown" => asked.validate /\ ~ listed

(* ADR-0009:38, "snapping never makes an order larger or more aggressive   *)
(* than asked", which validation.py:4 repeats.                             *)
SnappedIsNotMoreAggressive ==
  step = "sent" =>
    /\ order.qty <= asked.qty
    /\ asked.side = "BUY" => order.price <= asked.price
    /\ asked.side = "SELL" => order.price >= asked.price

=============================================================================
