------------------------------ MODULE Pagination ------------------------------
(***************************************************************************)
(* Iterating a history: iter_time_windows (pagination.py) as iter_klines,  *)
(* iter_user_trades and iter_deposit_history use it (market.py,            *)
(* account.py, wallet.py).                                                 *)
(*                                                                         *)
(* The generator fetches a page, yields its rows one at a time, and goes   *)
(* on from the last row's time, which the server returns again.  While it  *)
(* waits for a page, or for its consumer, rows are added to the history,   *)
(* and a deposit that had no transaction id may get one.                   *)
(*                                                                         *)
(* The server is external: it returns the oldest rows from startTime to    *)
(* endTime, both included, at most `limit` of them.                        *)
(***************************************************************************)
EXTENDS Integers, Sequences, FiniteSets

CONSTANTS
  MaxRows,    \* bound: rows in a history
  MaxClock,   \* bound: their times are 0 .. MaxClock
  FirstSizes, \* how many rows a history may have when the iteration begins
  Asks        \* what a caller may ask for: start_time, end_time and limit

ASSUME PaginationAssumption ==
  /\ {MaxRows, MaxClock} \subseteq Nat /\ FirstSizes \subseteq 0 .. MaxRows
  /\ Asks \subseteq [start : Nat, end : Nat, limit : Nat \ {0}]

Source == {"klines", "trades", "deposits"}

VARIABLES
  source,    \* which history
  ask,       \* start_time, end_time and limit
  rows,      \* the history, oldest first
  stage,     \* the generator: "fetching", "yielding", "done" or "failed"
  window,    \* window_start
  boundary,  \* boundary_key and boundary_ids
  page,      \* what is left of the page
  again,     \* for when nothing is left: is it a full page, page[-1], and boundary_ids
  yielded,   \* (history) the rows yielded, by their place in the history
  first,     \* (history) how many rows there were when the iteration began
  renamed    \* (history) the identity of a row has changed

storeVars      == <<rows, renamed>>
generatorVars  == <<stage, window, boundary, page, again, yielded>>
paginationVars == <<source, ask, storeVars, generatorVars, first>>

-----------------------------------------------------------------------------
(* Rows: `no` is what a row is, `time` its window_key, `tx` the tx_id of a *)
(* deposit, 0 if it has none.  A trade's id is its own.                    *)

Row == [no : 1 .. MaxRows, time : 0 .. MaxClock, tx : 0 .. MaxRows]

(* dedup_key, or window_key if there is none.                              *)
Identity(r) ==
  CASE source = "klines"   -> <<"time", r.time>>
    [] source = "trades"   -> <<"id", r.no>>
    [] source = "deposits" -> IF r.tx # 0 THEN <<"tx", r.tx>> ELSE <<"time", r.time>>

(* The history grows at its end.  There is one candle for each open time.  *)
MayFollow(time) ==
  \/ rows = <<>>
  \/ LET last == rows[Len(rows)].time IN time > last \/ (time = last /\ source # "klines")

RowAdded(time, tx) ==
  /\ Len(rows) < MaxRows /\ MayFollow(time)
  /\ tx # 0 => source = "deposits"
  /\ rows' = Append(rows, [no |-> Len(rows) + 1, time |-> time, tx |-> tx])

-----------------------------------------------------------------------------
(* The server's side.                                                      *)

RowArrives(time, tx) ==
  /\ stage \in {"fetching", "yielding"}
  /\ RowAdded(time, tx)
  /\ UNCHANGED <<source, ask, generatorVars, first, renamed>>

DepositConfirmed(k) ==
  /\ source = "deposits" /\ stage \in {"fetching", "yielding"}
  /\ rows[k].tx = 0
  /\ rows' = [rows EXCEPT ![k].tx = k]
  /\ renamed' = TRUE
  /\ UNCHANGED <<source, ask, generatorVars, first>>

(* How many rows there are before a time.                                  *)
Before(t) == CHOOSE n \in 0 .. Len(rows) : \A k \in DOMAIN rows : rows[k].time < t <=> k <= n

(* klines, user_trades, deposit_history, with the window's parameters.     *)
Served ==
  LET from == Before(window) + 1
      upto == Before(ask.end + 1)
  IN  SubSeq(rows, from, IF upto - from < ask.limit THEN upto ELSE from + ask.limit - 1)

-----------------------------------------------------------------------------
(* The generator.                                                          *)

Fetch ==
  /\ stage = "fetching"
  /\ IF Served = <<>>
     THEN stage' = "done" /\ UNCHANGED <<page, again>>
     ELSE /\ stage' = "yielding"
          /\ page' = Served
          /\ LET last == Served[Len(Served)] IN
             again' = [full |-> Len(Served) >= ask.limit, last |-> last,
                       ids |-> {Identity(Served[k]) :
                                  k \in {m \in 1 .. Len(Served) : Served[m].time = last.time}}]
  /\ UNCHANGED <<source, ask, storeVars, window, boundary, yielded, first>>

(* The request fails: the error leaves the generator, which is then over.  *)
FetchFails ==
  /\ stage = "fetching" /\ stage' = "failed"
  /\ UNCHANGED <<source, ask, storeVars, window, boundary, page, again, yielded, first>>

(* Mutant: nothing is de-duplicated.                                       *)
SeenNever(r) == FALSE

(* A row that the previous page ended with.                                *)
Seen(r) == r.time = boundary.key /\ Identity(r) \in boundary.ids

(* The consumer asks for the next row: `continue` or `yield`.              *)
Yield ==
  /\ stage = "yielding" /\ page # <<>>
  /\ IF Head(page).time >= ask.end
     THEN /\ stage' = "done"
          /\ UNCHANGED <<page, yielded>>
     ELSE /\ page' = Tail(page)
          /\ yielded' = IF Seen(Head(page)) THEN yielded ELSE Append(yielded, Head(page).no)
          /\ UNCHANGED stage
  /\ UNCHANGED <<source, ask, storeVars, window, boundary, again, first>>

(* Mutant: go on after the last row's time.                                *)
NextWindowAfter == again.last.time + 1

NextWindow == again.last.time

(* The page is used up: a short one is the last, and one that does not get *)
(* beyond its own start is given up.                                       *)
NextPage ==
  /\ stage = "yielding" /\ page = <<>>
  /\ IF again.full /\ again.last.time > window
     THEN /\ boundary' = [key |-> again.last.time, ids |-> again.ids]
          /\ window' = NextWindow
          /\ stage' = IF NextWindow < ask.end THEN "fetching" ELSE "done"
     ELSE /\ stage' = "done"
          /\ UNCHANGED <<boundary, window>>
  /\ UNCHANGED <<source, ask, storeVars, page, again, yielded, first>>

-----------------------------------------------------------------------------
NothingSeen == [key |-> -1, ids |-> {}]
NothingLeft == [full |-> FALSE, last |-> [no |-> 0, time |-> -1, tx |-> 0], ids |-> {}]

(* The history of rows with these times, of which some have a tx_id.       *)
History(times, named) ==
  [k \in DOMAIN times |-> [no |-> k, time |-> times[k], tx |-> IF k \in named THEN k ELSE 0]]

Ordered(h) ==
  \A k, m \in DOMAIN h :
    k < m => h[k].time < h[m].time \/ (h[k].time = h[m].time /\ source # "klines")

PaginationInit ==
  /\ source \in Source
  /\ ask \in Asks
  /\ \E n \in FirstSizes : \E times \in [1 .. n -> 0 .. MaxClock], named \in SUBSET (1 .. n) :
       rows = History(times, named)
  /\ Ordered(rows)
  /\ source # "deposits" => \A k \in DOMAIN rows : rows[k].tx = 0
  /\ first = Len(rows)
  /\ stage = IF ask.start < ask.end THEN "fetching" ELSE "done"
  /\ window = ask.start
  /\ boundary = NothingSeen /\ page = <<>> /\ again = NothingLeft
  /\ yielded = <<>> /\ renamed = FALSE

PaginationNext ==
  \/ \E time \in 0 .. MaxClock, tx \in {0, Len(rows) + 1} : RowArrives(time, tx)
  \/ \E k \in DOMAIN rows : DepositConfirmed(k)
  \/ Fetch \/ FetchFails \/ Yield \/ NextPage

PaginationSpec == PaginationInit /\ [][PaginationNext]_paginationVars

-----------------------------------------------------------------------------
(* Properties.                                                             *)

(* Two rows look the same although they are not: deposits of one time that *)
(* have no transaction id.                                                 *)
Confusable ==
  \E k, m \in DOMAIN rows : k # m /\ rows[k].time = rows[m].time /\ Identity(rows[k]) = Identity(rows[m])

(* A time so crowded that a page cannot get beyond it.                     *)
Crowded ==
  \E t \in 0 .. MaxClock : Cardinality({k \in DOMAIN rows : rows[k].time = t}) >= ask.limit

(* Rows are yielded oldest first, each at most once, and only those of     *)
(* [start_time, end_time), although every page begins with rows of the     *)
(* page before and rows arrive in between; except that a deposit whose     *)
(* transaction id appears meanwhile may come twice.                        *)
EachRowOnce ==
  ~ renamed =>
    /\ \A m, n \in DOMAIN yielded : m < n => yielded[m] < yielded[n]
    /\ \A m \in DOMAIN yielded : rows[yielded[m]].time \in ask.start .. ask.end - 1

(* An iteration that ends by itself has yielded every row of               *)
(* [start_time, end_time) that was there when it began, unless a time is   *)
(* crowded, or rows cannot be told apart or have changed their identity.   *)
NothingIsSkipped ==
  stage = "done" /\ ~ Crowded /\ ~ Confusable /\ ~ renamed =>
    \A k \in 1 .. first :
      rows[k].time \in ask.start .. ask.end - 1 => \E m \in DOMAIN yielded : yielded[m] = k

=============================================================================
