--------------------------- MODULE PaginationProofs ---------------------------
(***************************************************************************)
(* Proofs about Pagination, for any history, any growth of it and whatever *)
(* was asked for.                                                          *)
(***************************************************************************)
EXTENDS Pagination, FiniteSetTheorems, SequenceTheorems, TLAPS

-----------------------------------------------------------------------------
(* The invariant.                                                          *)

(* Rows are what they say they are, and in order.                          *)
StoreInv ==
  /\ rows \in Seq(Row) /\ Len(rows) <= MaxRows
  /\ \A k \in DOMAIN rows : rows[k].no = k
  /\ Ordered(rows)
  /\ renamed \in BOOLEAN
  /\ first \in 0 .. Len(rows)

(* The last row of the last page.                                          *)
q == again.last.no

InRange(k) == rows[k].time \in ask.start .. ask.end - 1

Yielded(k) == \E m \in DOMAIN yielded : yielded[m] = k

(* Every row up to the k-th that was asked for has been yielded.           *)
DoneUpTo(k) == \A j \in 1 .. k : InRange(j) => Yielded(j)

GeneratorInv ==
  /\ ask \in Asks
  /\ stage \in {"fetching", "yielding", "done", "failed"}
  /\ window \in Nat /\ window >= ask.start
  /\ again.full \in BOOLEAN
  /\ q \in 0 .. Len(rows)
  /\ q > 0 => again.last.time = rows[q].time /\ rows[q].time <= ask.end
  /\ boundary.key \in Int
  /\ yielded \in Seq(Nat)
  /\ \A m \in DOMAIN yielded : yielded[m] \in 1 .. q /\ InRange(yielded[m])
  /\ q = 0 => window = ask.start

(* Rows that the last page had and the next one will have again are those  *)
(* of the boundary, and the next page reaches at least as far.             *)
FetchingInv ==
  q > 0 => /\ window = rows[q].time
           /\ boundary.key = window
           /\ \A k \in 1 .. q : k <= q - ask.limit => rows[k].time < window
           /\ ~ renamed => \A k \in 1 .. q : rows[k].time >= window => Identity(rows[k]) \in boundary.ids

(* A page is a stretch of the history, of which the rows before `page`     *)
(* have been gone through.                                                 *)
PageInv ==
  /\ q > 0
  /\ page \in Seq(Row) /\ Len(page) <= q
  /\ \A i \in DOMAIN page : LET k == q - Len(page) + i IN
       /\ page[i].no = k /\ page[i].time = rows[k].time
       /\ rows[k].time >= window
       /\ ~ renamed => page[i] = rows[k]
  /\ ~ again.full => \A k \in 1 .. first : rows[k].time <= ask.end => k <= q
  /\ again.full => /\ ask.limit <= q
                   /\ \A k \in 1 .. q : rows[k].time < window <=> k <= q - ask.limit
  /\ ~ renamed =>
       /\ \A k \in 1 .. q : rows[k].time = rows[q].time /\ rows[k].time >= window => Identity(rows[k]) \in again.ids
       /\ \A i \in DOMAIN page, m \in DOMAIN yielded : page[i].no <= yielded[m] => Seen(page[i])

(* What an identity stands for was in a page.                              *)
KnownBy(ids, time, k) == \A x \in ids : \E j \in 1 .. k : rows[j].time = time /\ Identity(rows[j]) = x

Increasing == \A m, n \in DOMAIN yielded : m < n => yielded[m] < yielded[n]

OnceInv ==
  /\ StoreInv /\ GeneratorInv
  /\ stage = "fetching" => FetchingInv
  /\ stage = "yielding" => PageInv
  /\ ~ renamed => Increasing

Sane == ~ Crowded /\ ~ Confusable /\ ~ renamed

(* Nothing before the rows still to be gone through is missing.            *)
SkipInv ==
  Sane =>
    /\ stage = "fetching" => DoneUpTo(q)
    /\ stage = "yielding" =>
         /\ DoneUpTo(q - Len(page))
         /\ KnownBy(again.ids, again.last.time, q)
    /\ stage \in {"fetching", "yielding"} =>
         \A x \in boundary.ids : \E j \in DOMAIN rows :
           rows[j].time = boundary.key /\ Identity(rows[j]) = x /\ (InRange(j) => Yielded(j))
    /\ stage = "done" => DoneUpTo(first)

PaginationInv == OnceInv /\ SkipInv
-----------------------------------------------------------------------------
(* What the server returns: a stretch of the history.                      *)

LEMMA StoreTypes ==
  ASSUME StoreInv
  PROVE  /\ Len(rows) \in Nat /\ DOMAIN rows = 1 .. Len(rows)
         /\ \A k \in 1 .. Len(rows) : rows[k] \in Row /\ rows[k].time \in 0 .. MaxClock /\ rows[k].no = k
         /\ \A k, m \in 1 .. Len(rows) : k <= m => rows[k].time <= rows[m].time
         /\ 0 .. MaxClock \subseteq Nat
<1>1. rows \in Seq(Row) /\ Len(rows) \in Nat /\ DOMAIN rows = 1 .. Len(rows)
  BY DEF StoreInv
<1>2. 0 .. MaxClock \subseteq Nat
  OBVIOUS
<1>3. ASSUME NEW k \in 1 .. Len(rows)
      PROVE  rows[k] \in Row /\ rows[k].time \in 0 .. MaxClock /\ rows[k].no = k
  <2>1. rows[k] \in Row
    BY <1>1, <1>3
  <2> QED
    BY <1>1, <1>3, <2>1 DEF Row, StoreInv
<1>4. ASSUME NEW k \in 1 .. Len(rows), NEW m \in 1 .. Len(rows), k <= m
      PROVE  rows[k].time <= rows[m].time
  <2>1. rows[k].time \in Nat /\ rows[m].time \in Nat
    BY <1>2, <1>3, <1>4
  <2>2. k = m \/ k < m
    BY <1>4
  <2> QED
    BY <1>1, <1>4, <2>1, <2>2 DEF StoreInv, Ordered
<1> QED
  BY <1>1, <1>2, <1>3, <1>4

LEMMA BeforeIs ==
  ASSUME StoreInv, NEW t \in Int
  PROVE  /\ Before(t) \in 0 .. Len(rows)
         /\ \A k \in DOMAIN rows : rows[k].time < t <=> k <= Before(t)
<1> DEFINE Earlier == {k \in 1 .. Len(rows) : rows[k].time < t}
           n == Cardinality(Earlier)
<1>1. Len(rows) \in Nat /\ DOMAIN rows = 1 .. Len(rows) /\ \A k \in 1 .. Len(rows) : rows[k].time \in Nat
  BY StoreTypes
<1>2. \A k, m \in 1 .. Len(rows) : k < m => rows[k].time <= rows[m].time
  BY StoreTypes
<1>3. IsFiniteSet(Earlier) /\ n \in Nat /\ n <= Len(rows)
  <2>1. IsFiniteSet(1 .. Len(rows)) /\ Cardinality(1 .. Len(rows)) = Len(rows)
    BY <1>1, FS_Interval
  <2>2. Earlier \in SUBSET (1 .. Len(rows))
    OBVIOUS
  <2> QED
    BY <2>1, <2>2, FS_Subset, FS_CardinalityType
<1>4. ASSUME NEW k \in 1 .. Len(rows), rows[k].time < t PROVE k <= n
  <2>1. 1 .. k \in SUBSET Earlier
    BY <1>1, <1>2, <1>4
  <2>2. Cardinality(1 .. k) <= n
    BY <1>3, <2>1, FS_Subset
  <2>3. Cardinality(1 .. k) = k
    BY <1>1, FS_Interval
  <2> QED
    BY <2>2, <2>3
<1>5. ASSUME NEW k \in 1 .. Len(rows), ~ rows[k].time < t PROVE k > n
  <2>1. Earlier \in SUBSET (1 .. k - 1)
    BY <1>1, <1>2, <1>5
  <2>2. IsFiniteSet(1 .. k - 1) /\ Cardinality(1 .. k - 1) = k - 1
    <3>1. k \in Nat \ {0} /\ k - 1 \in Int /\ 1 \in Int
      BY <1>1
    <3>2. IsFiniteSet(1 .. k - 1) /\ Cardinality(1 .. k - 1) = IF 1 > k - 1 THEN 0 ELSE k - 1 - 1 + 1
      BY <3>1, FS_Interval
    <3> QED
      BY <3>1, <3>2
  <2>3. n <= k - 1
    BY <2>1, <2>2, FS_Subset
  <2> QED
    BY <1>1, <1>3, <2>3
<1> HIDE DEF n
<1>6. n \in 0 .. Len(rows) /\ \A k \in DOMAIN rows : rows[k].time < t <=> k <= n
  BY <1>1, <1>3, <1>4, <1>5
<1> QED
  BY <1>6 DEF Before

LEMMA ServedIs ==
  ASSUME StoreInv, ask \in Asks, window \in Nat
  PROVE  \E from \in 1 .. Len(rows) + 1, upto \in 0 .. Len(rows) :
           /\ Served \in Seq(Row)
           /\ \A k \in DOMAIN rows : rows[k].time < window <=> k < from
           /\ Served = <<>> => \A k \in DOMAIN rows : k >= from => rows[k].time > ask.end
           /\ Served # <<>> =>
                /\ from <= upto /\ Len(Served) = upto - from + 1 /\ Len(Served) <= ask.limit
                /\ \A i \in 1 .. Len(Served) : Served[i] = rows[from + i - 1]
                /\ \A k \in 1 .. upto : rows[k].time <= ask.end
                /\ Len(Served) < ask.limit => \A k \in DOMAIN rows : rows[k].time <= ask.end => k <= upto
<1> DEFINE from == Before(window) + 1
           most == Before(ask.end + 1)
           upto == IF most - from < ask.limit THEN most ELSE from + ask.limit - 1
<1>1. rows \in Seq(Row) /\ Len(rows) \in Nat /\ DOMAIN rows = 1 .. Len(rows)
  BY DEF StoreInv
<1>2. \A k \in 1 .. Len(rows) : rows[k] \in Row /\ rows[k].time \in Nat
  BY StoreTypes
<1>3. ask.end \in Nat /\ ask.limit \in Nat \ {0}
  BY PaginationAssumption
<1>4. Before(window) \in 0 .. Len(rows) /\ \A k \in DOMAIN rows : rows[k].time < window <=> k <= Before(window)
  BY BeforeIs
<1>5. most \in 0 .. Len(rows) /\ \A k \in DOMAIN rows : rows[k].time < ask.end + 1 <=> k <= most
  <2>1. ask.end + 1 \in Int
    BY <1>3
  <2> QED
    BY <2>1, BeforeIs
<1>6. Served = SubSeq(rows, from, upto)
  BY DEF Served
<1>7. from \in 1 .. Len(rows) + 1 /\ \A k \in DOMAIN rows : rows[k].time < window <=> k < from
  BY <1>1, <1>4
<1>8. \A k \in DOMAIN rows : rows[k].time <= ask.end <=> k <= most
  BY <1>1, <1>2, <1>3, <1>5
<1> HIDE DEF from, most
<1>9. upto \in 0 .. Len(rows) /\ upto <= most
  BY <1>1, <1>3, <1>5, <1>7
<1>10. /\ Served \in Seq(Row)
       /\ Len(Served) = IF from <= upto THEN upto - from + 1 ELSE 0
       /\ \A i \in 1 .. upto - from + 1 : Served[i] = rows[from + i - 1]
  <2>1. \A i \in from .. upto : rows[i] \in Row
    BY <1>1, <1>2, <1>7, <1>9
  <2>2. from \in Int /\ upto \in Int
    BY <1>1, <1>7, <1>9
  <2> HIDE DEF upto
  <2> QED
    BY <1>6, <2>1, <2>2, SubSeqProperties
<1>11. Served = <<>> => most < from
  BY <1>1, <1>3, <1>5, <1>7, <1>10
<1>12. Served # <<>> => from <= upto
  BY <1>1, <1>7, <1>9, <1>10
<1>13. from <= upto => upto - from + 1 <= ask.limit /\ (upto - from + 1 < ask.limit => upto = most)
  BY <1>1, <1>3, <1>5, <1>7
<1> HIDE DEF upto
<1>14. Served = <<>> => \A k \in DOMAIN rows : k >= from => rows[k].time > ask.end
  BY <1>1, <1>2, <1>3, <1>5, <1>7, <1>8, <1>11
<1>15. \A k \in 1 .. upto : rows[k].time <= ask.end
  BY <1>1, <1>5, <1>8, <1>9
<1>16. Served # <<>> /\ Len(Served) < ask.limit => \A k \in DOMAIN rows : rows[k].time <= ask.end => k <= upto
  BY <1>8, <1>10, <1>12, <1>13
<1>17. Served # <<>> => /\ Len(Served) = upto - from + 1 /\ Len(Served) <= ask.limit
                       /\ \A i \in 1 .. Len(Served) : Served[i] = rows[from + i - 1]
  BY <1>10, <1>12, <1>13
<1> QED
  BY <1>7, <1>9, <1>10, <1>12, <1>14, <1>15, <1>16, <1>17

-----------------------------------------------------------------------------
(* The history grows, or a deposit gets its transaction id.                *)

LEMMA RowsGrow ==
  ASSUME OnceInv, StoreInv', UNCHANGED <<source, ask, generatorVars, first>>,
         Len(rows) <= Len(rows'), ~ renamed' => ~ renamed,
         \A k \in 1 .. Len(rows) : rows'[k].time = rows[k].time /\ (~ renamed' => rows'[k] = rows[k])
  PROVE  OnceInv'
<1>1. Len(rows) \in Nat /\ Len(rows') \in Nat /\ q \in 0 .. Len(rows) /\ first \in 0 .. Len(rows)
  BY StoreTypes DEF OnceInv, GeneratorInv, StoreInv
<1>2. /\ ask' = ask /\ stage' = stage /\ window' = window /\ boundary' = boundary /\ page' = page
      /\ again' = again /\ yielded' = yielded /\ first' = first /\ source' = source /\ q' = q
  BY DEF generatorVars, q
<1>3. \A k \in 1 .. q : rows'[k].time = rows[k].time /\ (~ renamed' => rows'[k] = rows[k])
  BY <1>1
<1>4. \A k \in 1 .. first : rows'[k].time = rows[k].time
  BY <1>1
<1>5. \A k \in 1 .. q : (~ renamed' => Identity(rows[k])' = Identity(rows[k]))
  BY <1>2, <1>3 DEF Identity
<1>6. GeneratorInv'
  <2>1. GeneratorInv /\ q' \in 0 .. Len(rows')
    BY <1>1, <1>2 DEF OnceInv
  <2>2. q > 0 => again.last.time = rows'[q].time /\ rows'[q].time <= ask.end
    BY <1>1, <1>3, <2>1 DEF GeneratorInv
  <2>3. \A m \in DOMAIN yielded : yielded[m] \in 1 .. q /\ rows'[yielded[m]].time \in ask.start .. ask.end - 1
    BY <1>3, <2>1 DEF GeneratorInv, InRange
  <2> QED
    BY <1>2, <2>1, <2>2, <2>3 DEF GeneratorInv, InRange
<1>7. (stage = "fetching" => FetchingInv)'
  BY <1>1, <1>2, <1>3, <1>5 DEF OnceInv, FetchingInv
<1>8. (stage = "yielding" => PageInv)'
  <2> SUFFICES ASSUME stage = "yielding" PROVE PageInv'
    BY <1>2
  <2>1. PageInv
    BY DEF OnceInv
  <2>2. ASSUME NEW i \in DOMAIN page
        PROVE  q - Len(page) + i \in 1 .. q
    BY <1>1, <2>1, <2>2 DEF PageInv
  <2>3. \A i \in DOMAIN page, m \in DOMAIN yielded : ~ renamed' /\ page[i].no <= yielded[m] => Seen(page[i])'
    BY <1>2, <2>1 DEF PageInv, Seen, Identity
  <2>4. \A i \in DOMAIN page : LET k == q - Len(page) + i IN
          /\ page[i].no = k /\ page[i].time = rows'[k].time /\ rows'[k].time >= window
          /\ ~ renamed' => page[i] = rows'[k]
    BY <1>3, <2>1, <2>2 DEF PageInv
  <2>5. ~ again.full => \A k \in 1 .. first : rows'[k].time <= ask.end => k <= q
    BY <1>4, <2>1 DEF PageInv
  <2>6. again.full => ask.limit <= q /\ \A k \in 1 .. q : rows'[k].time < window <=> k <= q - ask.limit
    BY <1>3, <2>1 DEF PageInv
  <2>7. ASSUME ~ renamed', NEW k \in 1 .. q, rows'[k].time = rows'[q].time, rows'[k].time >= window
        PROVE  Identity(rows[k])' \in again.ids
    <3>1. rows'[k] = rows[k] /\ rows'[q] = rows[q]
      BY <1>1, <1>3, <2>7
    <3>2. Identity(rows[k]) \in again.ids
      BY <2>1, <2>7, <3>1 DEF PageInv
    <3> QED
      BY <1>2, <3>1, <3>2 DEF Identity
  <2>8. q > 0 /\ page \in Seq(Row) /\ Len(page) <= q
    BY <2>1 DEF PageInv
  <2> QED
    BY <1>2, <2>3, <2>4, <2>5, <2>6, <2>7, <2>8 DEF PageInv
<1>9. (~ renamed => Increasing)'
  BY <1>2 DEF OnceInv, Increasing
<1> QED
  BY <1>6, <1>7, <1>8, <1>9 DEF OnceInv

(* A history that is sane was so before: what is crowded or cannot be told *)
(* apart stays so.                                                         *)
LEMMA SaneBefore ==
  ASSUME StoreInv, StoreInv', ask \in Asks, UNCHANGED <<source, ask>>, Len(rows) <= Len(rows'), ~ renamed' => ~ renamed,
         \A k \in 1 .. Len(rows) : rows'[k].time = rows[k].time /\ (~ renamed' => rows'[k] = rows[k]),
         Sane'
  PROVE  Sane
<1>1. Len(rows) \in Nat /\ DOMAIN rows = 1 .. Len(rows) /\ Len(rows') \in Nat /\ DOMAIN rows' = 1 .. Len(rows')
  BY DEF StoreInv
<1>2. ~ renamed' /\ ~ renamed
  BY DEF Sane
<1>3. \A k \in 1 .. Len(rows) : k \in 1 .. Len(rows') /\ rows'[k] = rows[k]
  BY <1>1, <1>2
<1>6. \A k \in 1 .. Len(rows) : Identity(rows[k])' = Identity(rows[k])
  BY <1>3 DEF Identity
<1>4. Confusable => Confusable'
  BY <1>1, <1>3, <1>6 DEF Confusable
<1>5. Crowded => Crowded'
  <2> SUFFICES ASSUME NEW t \in 0 .. MaxClock, Cardinality({k \in DOMAIN rows : rows[k].time = t}) >= ask.limit
               PROVE  Cardinality({k \in DOMAIN rows' : rows'[k].time = t}) >= ask.limit
    BY DEF Crowded
  <2> DEFINE old == {k \in 1 .. Len(rows) : rows[k].time = t}
             new == {k \in 1 .. Len(rows') : rows'[k].time = t}
  <2>1. IsFiniteSet(1 .. Len(rows'))
    BY <1>1, FS_Interval
  <2>2. new \in SUBSET (1 .. Len(rows')) /\ old \in SUBSET new
    BY <1>3
  <2>3. IsFiniteSet(new) /\ Cardinality(old) <= Cardinality(new) /\ IsFiniteSet(old)
    BY <2>1, <2>2, FS_Subset
  <2>4. Cardinality(old) \in Nat /\ Cardinality(new) \in Nat
    BY <2>3, FS_CardinalityType
  <2>5. Cardinality(old) >= ask.limit /\ ask.limit \in Nat
    BY <1>1, PaginationAssumption
  <2>6. Cardinality(new) >= ask.limit
    <3> HIDE DEF old, new
    <3> QED
      BY <2>3, <2>4, <2>5
  <2> QED
    BY <1>1, <2>6
<1> QED
  BY <1>2, <1>4, <1>5 DEF Sane

-----------------------------------------------------------------------------
(* EachRowOnce: one step of the generator.                                 *)

LEMMA GeneratorTypes ==
  ASSUME OnceInv
  PROVE  /\ ask.start \in Nat /\ ask.end \in Nat /\ ask.limit \in Nat /\ ask.limit > 0
         /\ q \in Nat /\ q <= Len(rows) /\ window \in Nat
         /\ q > 0 => again.last.time \in Nat
<1>1. /\ ask \in Asks /\ window \in Nat /\ q \in 0 .. Len(rows)
      /\ q > 0 => again.last.time = rows[q].time
  BY DEF OnceInv, GeneratorInv
<1>2. ask.start \in Nat /\ ask.end \in Nat /\ ask.limit \in Nat \ {0}
  BY <1>1, PaginationAssumption
<1>3. Len(rows) \in Nat /\ \A k \in 1 .. Len(rows) : rows[k].time \in Nat
  BY StoreTypes DEF OnceInv
<1>4. q \in Nat /\ q <= Len(rows) /\ (q > 0 => q \in 1 .. Len(rows))
  BY <1>1, <1>3
<1> QED
  BY <1>1, <1>2, <1>3, <1>4

(* A full page reaches what the page before it reached.                    *)
LEMMA FullPageReaches ==
  ASSUME NEW reached \in Nat, NEW limit \in Nat, NEW from \in Nat, reached - limit < from
  PROVE  reached <= from + limit - 1
OBVIOUS

LEMMA NotBefore ==
  ASSUME NEW a \in Nat, NEW b \in Nat, ~ a < b
  PROVE  a >= b
OBVIOUS

LEMMA FetchOnce ==
  ASSUME OnceInv, Fetch
  PROVE  OnceInv'
<1>1. /\ stage = "fetching" /\ StoreInv /\ GeneratorInv /\ FetchingInv
      /\ ask \in Asks /\ window \in Nat
  BY DEF Fetch, OnceInv, GeneratorInv
<1>0. /\ ask.end \in Nat /\ ask.limit \in Nat /\ ask.limit > 0
      /\ q \in Nat /\ q <= Len(rows) /\ window \in Nat
  BY GeneratorTypes
<1>2. /\ source' = source /\ ask' = ask /\ rows' = rows /\ renamed' = renamed /\ window' = window
      /\ boundary' = boundary /\ yielded' = yielded /\ first' = first
  BY DEF Fetch, storeVars
<1>3. StoreInv'
  BY <1>1, <1>2 DEF StoreInv, Ordered
<1>4. (~ renamed => Increasing)'
  BY <1>2 DEF OnceInv, Increasing
<1>5. CASE Served = <<>>
  <2>1. stage' = "done" /\ page' = page /\ again' = again
    BY <1>1, <1>5 DEF Fetch
  <2>2. GeneratorInv'
    BY <1>1, <1>2, <2>1 DEF GeneratorInv, InRange, q
  <2> QED
    BY <1>3, <1>4, <2>1, <2>2 DEF OnceInv
<1>6. CASE Served # <<>>
  <2> DEFINE n == Len(Served)
  <2>1. PICK from \in 1 .. Len(rows) + 1, upto \in 0 .. Len(rows) :
          /\ Served \in Seq(Row)
          /\ \A k \in DOMAIN rows : rows[k].time < window <=> k < from
          /\ from <= upto /\ n = upto - from + 1 /\ n <= ask.limit
          /\ \A i \in 1 .. n : Served[i] = rows[from + i - 1]
          /\ \A k \in 1 .. upto : rows[k].time <= ask.end
          /\ n < ask.limit => \A k \in DOMAIN rows : rows[k].time <= ask.end => k <= upto
    BY <1>1, <1>6, ServedIs
  <2>2. /\ Len(rows) \in Nat /\ DOMAIN rows = 1 .. Len(rows) /\ n \in Nat /\ n > 0
        /\ \A k \in 1 .. Len(rows) : rows[k] \in Row /\ rows[k].time \in Nat /\ rows[k].no = k
        /\ \A k, m \in 1 .. Len(rows) : k <= m => rows[k].time <= rows[m].time
    BY <1>1, <2>1, StoreTypes
  <2>3. /\ stage' = "yielding" /\ page' = Served
        /\ again'.full \in BOOLEAN /\ (again'.full <=> n >= ask.limit) /\ again'.last = Served[n]
        /\ again'.ids = {Identity(Served[k]) : k \in {m \in 1 .. n : Served[m].time = Served[n].time}}
    <3> DEFINE full == n >= ask.limit
    <3>1. /\ stage' = "yielding" /\ page' = Served
          /\ again' = [full |-> full, last |-> Served[n],
                       ids |-> {Identity(Served[k]) : k \in {m \in 1 .. n : Served[m].time = Served[n].time}}]
      BY <1>6 DEF Fetch
    <3>2. full \in BOOLEAN
      OBVIOUS
    <3> HIDE DEF full
    <3>3. again'.full = full
      BY <3>1
    <3>4. again'.full \in BOOLEAN /\ (again'.full <=> full)
      BY <3>2, <3>3
    <3> QED
      BY <3>1, <3>4 DEF full
  <2>4. Served[n] = rows[upto] /\ q' = upto /\ upto \in 1 .. Len(rows)
    BY <2>1, <2>2, <2>3 DEF q
  <2>9. /\ upto <= Len(rows) /\ Len(rows) \in Nat
        /\ from \in Nat /\ upto \in Nat /\ from >= 1 /\ n \in Nat /\ n >= 1 /\ n = upto - from + 1
        /\ n <= ask.limit /\ ask.limit \in Nat /\ q \in Nat /\ ask.limit > 0
    BY <1>0, <2>1, <2>2
  <2>5. q > 0 => q \in 1 .. Len(rows) /\ from <= q /\ rows[q].time = window
    <3> SUFFICES ASSUME q > 0 PROVE q \in 1 .. Len(rows) /\ from <= q /\ rows[q].time = window
      OBVIOUS
    <3>1. q \in 1 .. Len(rows) /\ rows[q].time = window
      BY <1>0, <1>1, <2>2 DEF FetchingInv
    <3>2. ~ q < from
      BY <1>0, <2>1, <2>2, <3>1
    <3> QED
      BY <1>0, <2>1, <3>1, <3>2
  <2>6. q <= upto
    <3> SUFFICES ASSUME q > 0 PROVE q <= upto
      BY <2>9
    <3>1. CASE n < ask.limit
      <4>1. rows[q].time <= ask.end
        BY <1>1 DEF GeneratorInv
      <4> QED
        BY <2>1, <2>2, <2>5, <3>1, <4>1
    <3>2. CASE ~ n < ask.limit
      <4> HIDE DEF n
      <4>1. upto = from + ask.limit - 1 /\ from \in Nat
        BY <2>9, <3>2
      <4>2. PICK before \in Int : before = q - ask.limit
        BY <2>9
      <4>3. before < from
        <5> SUFFICES ASSUME before >= 1 PROVE before < from
          BY <2>9, <4>2
        <5>1. before \in 1 .. q /\ before <= q - ask.limit
          BY <2>9, <4>2
        <5>2. \A k \in 1 .. q : k <= q - ask.limit => rows[k].time < window
          BY <1>1 DEF FetchingInv
        <5>3. rows[before].time < window /\ before \in DOMAIN rows
          BY <1>0, <2>2, <5>1, <5>2
        <5> QED
          BY <2>1, <5>3
      <4> QED
        BY <1>0, <4>1, <4>2, <4>3, FullPageReaches
    <3> QED
      BY <3>1, <3>2
  <2>7. GeneratorInv'
    <3>1. again'.full \in BOOLEAN /\ q' > 0 /\ again'.last.time = rows[upto].time /\ rows[upto].time <= ask.end
      BY <2>1, <2>3, <2>4
    <3>2. \A m \in DOMAIN yielded : yielded[m] \in 1 .. upto
      BY <1>1, <2>1, <2>6 DEF GeneratorInv
    <3> QED
      BY <1>1, <1>2, <2>1, <2>3, <2>4, <3>1, <3>2 DEF GeneratorInv, InRange
  <2>8. PageInv'
    <3>1. page' \in Seq(Row) /\ Len(page') = n /\ DOMAIN page' = 1 .. n /\ n <= upto
      BY <2>1, <2>2, <2>3
    <3>2. ASSUME NEW i \in 1 .. n
          PROVE  /\ upto - n + i = from + i - 1 /\ from + i - 1 \in 1 .. upto
                 /\ page'[i] = rows[from + i - 1] /\ page'[i].no = from + i - 1
                 /\ ~ rows[from + i - 1].time < window
      <4>1. from + i - 1 \in 1 .. upto /\ upto - n + i = from + i - 1
        BY <2>1, <2>2
      <4>2. page'[i] = rows[from + i - 1]
        BY <2>1, <2>3
      <4>3. from + i - 1 \in DOMAIN rows /\ ~ from + i - 1 < from
        BY <2>1, <2>2, <4>1
      <4> QED
        BY <2>1, <2>2, <4>1, <4>2, <4>3
    <3>3. \A i \in 1 .. n : LET k == upto - n + i IN
            page'[i].no = k /\ page'[i].time = rows[k].time /\ page'[i] = rows[k] /\ rows[k].time >= window
      <4> SUFFICES ASSUME NEW i \in 1 .. n
                   PROVE  LET k == upto - n + i IN
                            page'[i].no = k /\ page'[i].time = rows[k].time /\ page'[i] = rows[k] /\ rows[k].time >= window
        OBVIOUS
      <4> DEFINE k == from + i - 1
      <4>1. upto - n + i = k /\ k \in 1 .. Len(rows) /\ page'[i] = rows[k] /\ page'[i].no = k /\ ~ rows[k].time < window
        <5>1. upto - n + i = k /\ k \in 1 .. upto /\ page'[i] = rows[k] /\ page'[i].no = k /\ ~ rows[k].time < window
          BY <3>2
        <5> HIDE DEF k
        <5> QED
          BY <2>9, <5>1
      <4> HIDE DEF k
      <4>2. rows[k].time \in Nat
        BY <2>2, <4>1
      <4>3. rows[k].time >= window
        BY <1>0, <4>1, <4>2, NotBefore
      <4> QED
        BY <4>1, <4>3
    <3>4. ~ again'.full => \A k \in 1 .. first : rows[k].time <= ask.end => k <= upto
      <4>1. ~ again'.full => n < ask.limit
        BY <2>3, <2>9
      <4>2. 1 .. first \subseteq DOMAIN rows
        BY <1>1, <2>2 DEF StoreInv
      <4> QED
        BY <2>1, <4>1, <4>2
    <3>5. again'.full => ask.limit <= upto /\ \A k \in 1 .. upto : rows[k].time < window <=> k <= upto - ask.limit
      <4>1. again'.full => n = ask.limit
        BY <2>3, <2>9
      <4>2. again'.full => ask.limit <= upto /\ \A k \in 1 .. upto : k < from <=> k <= upto - ask.limit
        BY <2>9, <4>1
      <4>3. \A k \in 1 .. upto : k \in DOMAIN rows
        BY <2>2, <2>9
      <4> QED
        BY <2>1, <4>2, <4>3
    <3>6. ASSUME NEW k \in 1 .. upto, rows[k].time = rows[upto].time, rows[k].time >= window
          PROVE  Identity(rows[k]) \in again'.ids
      <4>1. ~ rows[k].time < window
        BY <1>1, <2>1, <2>2, <3>6
      <4>2. k >= from
        BY <2>1, <2>2, <3>6, <4>1
      <4>3. k - from + 1 \in 1 .. n /\ Served[k - from + 1] = rows[k]
        BY <2>1, <2>2, <3>6, <4>2
      <4> QED
        BY <2>3, <2>4, <3>6, <4>3
    <3>7. ASSUME ~ renamed, NEW i \in 1 .. n, NEW m \in DOMAIN yielded, page'[i].no <= yielded[m]
          PROVE  Seen(page'[i])
      <4> DEFINE k == from + i - 1
      <4>1. yielded[m] \in 1 .. q /\ k \in 1 .. q /\ q > 0
        <5>1. yielded[m] \in 1 .. q
          BY <1>1 DEF GeneratorInv
        <5>2. k <= yielded[m] /\ k \in 1 .. upto
          BY <3>2, <3>7
        <5> QED
          BY <1>0, <2>1, <5>1, <5>2
      <4>2. rows[k].time >= window /\ rows[k].time <= rows[q].time
        <5>1. k \in 1 .. Len(rows) /\ q \in 1 .. Len(rows) /\ k <= q /\ ~ rows[k].time < window
          <6>1. k \in 1 .. q /\ ~ rows[k].time < window
            BY <3>2, <4>1
          <6> HIDE DEF k
          <6> QED
            BY <1>0, <2>9, <6>1
        <5> HIDE DEF k
        <5>2. rows[k].time \in Nat /\ rows[k].time <= rows[q].time
          BY <2>2, <5>1
        <5> QED
          BY <1>0, <5>1, <5>2
      <4>3. Identity(rows[k]) \in boundary.ids /\ boundary.key = window
        BY <1>1, <3>7, <4>1, <4>2 DEF FetchingInv
      <4>4. rows[k].time = boundary.key
        <5>1. rows[q].time = window /\ k \in 1 .. Len(rows)
          BY <1>0, <2>2, <2>5, <4>1
        <5> HIDE DEF k
        <5>2. rows[k].time \in Nat
          BY <2>2, <5>1
        <5> QED
          BY <1>0, <4>2, <4>3, <5>1, <5>2
      <4> QED
        BY <3>2, <4>3, <4>4 DEF Seen
    <3>8. ~ renamed => \A k \in 1 .. upto : rows'[k].time = rows'[upto].time /\ rows'[k].time >= window
                                         => Identity(rows[k])' \in again'.ids
      BY <1>2, <3>6 DEF Identity
    <3>9. ~ renamed => \A i \in 1 .. n, m \in DOMAIN yielded : page'[i].no <= yielded[m] => Seen(page[i])'
      BY <1>2, <3>7 DEF Seen, Identity
    <3>10. upto > 0 /\ Len(page') = n /\ DOMAIN page' = 1 .. n
      BY <2>9, <3>1
    <3> HIDE DEF n
    <3>11. \A i \in DOMAIN page' : LET k == upto - Len(page') + i IN
             /\ page'[i].no = k /\ page'[i].time = rows'[k].time /\ rows'[k].time >= window'
             /\ ~ renamed' => page'[i] = rows'[k]
      BY <1>2, <3>3, <3>10
    <3>12. ~ again'.full => \A k \in 1 .. first' : rows'[k].time <= ask'.end => k <= upto
      BY <1>2, <3>4
    <3>13. again'.full => /\ ask'.limit <= upto
                          /\ \A k \in 1 .. upto : rows'[k].time < window' <=> k <= upto - ask'.limit
      BY <1>2, <3>5
    <3>14. ~ renamed' => /\ \A k \in 1 .. upto : rows'[k].time = rows'[upto].time /\ rows'[k].time >= window'
                                                 => Identity(rows[k])' \in again'.ids
                         /\ \A i \in DOMAIN page', m \in DOMAIN yielded' : page'[i].no <= yielded'[m] => Seen(page[i])'
      BY <1>2, <3>8, <3>9, <3>10
    <3>15. page' \in Seq(Row) /\ Len(page') <= upto
      BY <2>9, <3>1, <3>10
    <3> QED
      BY <2>4, <3>10, <3>11, <3>12, <3>13, <3>14, <3>15 DEF PageInv
  <2> QED
    BY <1>3, <1>4, <2>3, <2>7, <2>8 DEF OnceInv
<1> QED
  BY <1>5, <1>6

LEMMA YieldOnce ==
  ASSUME OnceInv, Yield
  PROVE  OnceInv'
<1>1. /\ stage = "yielding" /\ page # <<>> /\ StoreInv /\ GeneratorInv /\ PageInv /\ ask \in Asks
  BY DEF Yield, OnceInv, GeneratorInv
<1>2. /\ source' = source /\ ask' = ask /\ rows' = rows /\ renamed' = renamed /\ window' = window
      /\ boundary' = boundary /\ again' = again /\ first' = first /\ q' = q
  BY DEF Yield, storeVars, q
<1>3. StoreInv'
  BY <1>1, <1>2 DEF StoreInv, Ordered
<1>4. CASE Head(page).time >= ask.end
  <2>1. stage' = "done" /\ page' = page /\ yielded' = yielded
    BY <1>1, <1>4 DEF Yield
  <2>2. GeneratorInv' /\ (~ renamed => Increasing)'
    BY <1>1, <1>2, <2>1 DEF OnceInv, GeneratorInv, InRange, Increasing
  <2> QED
    BY <1>3, <2>1, <2>2 DEF OnceInv
<1>5. CASE ~ Head(page).time >= ask.end
  <2> DEFINE h == Head(page)
             n == Len(page)
             k == q - n + 1
  <2>1. /\ stage' = stage /\ page' = Tail(page)
        /\ yielded' = IF Seen(h) THEN yielded ELSE Append(yielded, h.no)
    BY <1>1, <1>5 DEF Yield
  <2>2. /\ page \in Seq(Row) /\ n \in Nat /\ n > 0 /\ n <= q /\ h = page[1] /\ DOMAIN page = 1 .. n
        /\ page' \in Seq(Row) /\ Len(page') = n - 1 /\ DOMAIN page' = 1 .. n - 1
        /\ \A i \in 1 .. n - 1 : page'[i] = page[i + 1]
    BY <1>1, <2>1 DEF PageInv
  <2>3. k \in 1 .. q /\ h.no = k /\ h.time = rows[k].time /\ rows[k].time >= window
    <3>1. k \in 1 .. q /\ 1 \in DOMAIN page
      BY <2>2, GeneratorTypes
    <3> QED
      BY <1>1, <2>2, <3>1 DEF PageInv
  <2>4. \A i \in 1 .. n : page[i].no = q - n + i
    BY <1>1, <2>2 DEF PageInv
  <2>5. InRange(k)
    <3>1. k \in 1 .. Len(rows)
      BY <2>3, GeneratorTypes
    <3> HIDE DEF k
    <3>2. rows[k].time \in Nat /\ ask.start \in Nat /\ ask.end \in Nat /\ window \in Nat /\ window >= ask.start
      BY <1>1, <3>1, StoreTypes, GeneratorTypes DEF GeneratorInv
    <3>3. ~ rows[k].time >= ask.end
      BY <1>5, <2>3
    <3> QED
      BY <2>3, <3>2, <3>3 DEF InRange
  <2>8. ASSUME \A i \in 1 .. n - 1, m \in DOMAIN yielded' : ~ renamed /\ page'[i].no <= yielded'[m] => Seen(page'[i])
        PROVE  PageInv'
    <3>1. \A i \in 1 .. n - 1 : LET j == q - (n - 1) + i IN
            /\ page'[i].no = j /\ page'[i].time = rows[j].time /\ rows[j].time >= window
            /\ ~ renamed => page'[i] = rows[j]
      <4> SUFFICES ASSUME NEW i \in 1 .. n - 1
                   PROVE  LET j == q - (n - 1) + i IN
                            /\ page'[i].no = j /\ page'[i].time = rows[j].time /\ rows[j].time >= window
                            /\ ~ renamed => page'[i] = rows[j]
        OBVIOUS
      <4>1. i + 1 \in 1 .. n /\ q - (n - 1) + i = q - n + (i + 1) /\ page'[i] = page[i + 1]
        <5>1. q \in Nat
          BY GeneratorTypes
        <5> QED
          BY <2>2, <5>1
      <4> QED
        BY <1>1, <2>2, <4>1 DEF PageInv
    <3>2. ~ renamed => \A i \in 1 .. n - 1, m \in DOMAIN yielded' : page'[i].no <= yielded'[m] => Seen(page[i])'
      BY <1>2, <2>8 DEF Seen, Identity
    <3>3. ~ renamed => \A j \in 1 .. q : rows'[j].time = rows'[q].time /\ rows'[j].time >= window
                                      => Identity(rows[j])' \in again.ids
      BY <1>1, <1>2 DEF PageInv, Identity
    <3>4. n - 1 <= q
      BY <2>2, GeneratorTypes
    <3> HIDE DEF n
    <3> QED
      BY <1>1, <1>2, <2>2, <3>1, <3>2, <3>3, <3>4 DEF PageInv
  <2>6. CASE Seen(h)
    <3>1. yielded' = yielded
      BY <2>1, <2>6
    <3>2. GeneratorInv' /\ (~ renamed => Increasing)'
      BY <1>1, <1>2, <2>1, <3>1 DEF OnceInv, GeneratorInv, InRange, Increasing
    <3>3. \A i \in 1 .. n - 1, m \in DOMAIN yielded' : ~ renamed /\ page'[i].no <= yielded'[m] => Seen(page'[i])
      BY <1>1, <2>2, <3>1 DEF PageInv
    <3> QED
      BY <1>3, <2>1, <2>8, <3>2, <3>3, <1>1 DEF OnceInv
  <2>7. CASE ~ Seen(h)
    <3>1. yielded' = Append(yielded, k) /\ yielded \in Seq(Nat) /\ k \in Nat
      BY <1>1, <2>1, <2>3, <2>7, GeneratorTypes DEF GeneratorInv
    <3> DEFINE l == Len(yielded)
    <3>2. /\ yielded' \in Seq(Nat) /\ l \in Nat /\ DOMAIN yielded = 1 .. l /\ DOMAIN yielded' = 1 .. l + 1
          /\ yielded'[l + 1] = k /\ \A m \in 1 .. l : yielded'[m] = yielded[m]
      BY <3>1
    <3>3. \A m \in 1 .. l : yielded[m] \in 1 .. q /\ InRange(yielded[m])
      BY <1>1, <3>2 DEF GeneratorInv
    <3>4. \A m \in 1 .. l + 1 : yielded'[m] \in 1 .. q /\ InRange(yielded'[m])
      BY <2>3, <2>5, <3>2, <3>3
    <3>5. GeneratorInv'
      BY <1>1, <1>2, <2>1, <3>2, <3>4 DEF GeneratorInv, InRange
    <3>6. ~ renamed => \A m \in 1 .. l : yielded[m] < k
      <4> SUFFICES ASSUME ~ renamed, NEW m \in 1 .. l, ~ yielded[m] < k PROVE FALSE
        OBVIOUS
      <4>1. 1 \in DOMAIN page /\ page[1].no <= yielded[m]
        BY <2>2, <2>3, <3>1, <3>3
      <4>2. Seen(h)
        BY <1>1, <2>2, <3>2, <4>1 DEF PageInv
      <4> QED
        BY <2>7, <4>2
    <3>7. (~ renamed => Increasing)'
      <4> SUFFICES ASSUME ~ renamed, NEW i \in 1 .. l + 1, NEW m \in 1 .. l + 1, i < m
                   PROVE  yielded'[i] < yielded'[m]
        BY <1>2, <3>2 DEF Increasing
      <4>1. i \in 1 .. l /\ yielded'[i] = yielded[i]
        BY <3>2
      <4>2. CASE m = l + 1
        BY <3>2, <3>6, <4>1, <4>2
      <4>3. CASE m # l + 1
        <5>1. m \in 1 .. l
          BY <3>2, <4>3
        <5> QED
          BY <3>2, <4>1, <5>1 DEF OnceInv, Increasing
      <4> QED
        BY <4>2, <4>3
    <3>8. \A i \in 1 .. n - 1, m \in DOMAIN yielded' : ~ renamed /\ page'[i].no <= yielded'[m] => Seen(page'[i])
      <4> SUFFICES ASSUME NEW i \in 1 .. n - 1, NEW m \in 1 .. l + 1, ~ renamed, page'[i].no <= yielded'[m]
                   PROVE  Seen(page'[i])
        BY <3>2
      <4>1. page'[i] = page[i + 1] /\ i + 1 \in 1 .. n /\ page[i + 1].no = k + i
        <5>1. q \in Nat
          BY GeneratorTypes
        <5>2. page'[i] = page[i + 1] /\ i + 1 \in 1 .. n
          BY <2>2
        <5>3. page[i + 1].no = q - n + (i + 1)
          BY <2>4, <5>2
        <5> QED
          BY <2>2, <5>1, <5>2, <5>3
      <4>2. m # l + 1
        BY <3>1, <3>2, <4>1
      <4>3. m \in 1 .. l /\ yielded'[m] = yielded[m]
        BY <3>2, <4>2
      <4> QED
        BY <1>1, <2>2, <3>2, <4>1, <4>3 DEF PageInv
    <3> QED
      BY <1>3, <2>1, <2>8, <3>5, <3>7, <3>8, <1>1 DEF OnceInv
  <2> QED
    BY <2>6, <2>7
<1> QED
  BY <1>4, <1>5

LEMMA NextPageOnce ==
  ASSUME OnceInv, NextPage
  PROVE  OnceInv'
<1>0. /\ ask.start \in Nat /\ ask.limit \in Nat /\ ask.limit > 0
      /\ q \in Nat /\ q <= Len(rows) /\ window \in Nat /\ (q > 0 => again.last.time \in Nat)
  BY GeneratorTypes
<1>1. /\ stage = "yielding" /\ page = <<>> /\ StoreInv /\ GeneratorInv /\ PageInv /\ ask \in Asks
  BY DEF NextPage, OnceInv, GeneratorInv
<1>2. /\ source' = source /\ ask' = ask /\ rows' = rows /\ renamed' = renamed /\ page' = page
      /\ again' = again /\ yielded' = yielded /\ first' = first /\ q' = q
  BY DEF NextPage, storeVars, q
<1>3. StoreInv'
  BY <1>1, <1>2 DEF StoreInv, Ordered
<1>4. (~ renamed => Increasing)'
  BY <1>2 DEF OnceInv, Increasing
<1>5. q > 0 /\ again.last.time = rows[q].time
  BY <1>1 DEF GeneratorInv, PageInv
<1>6. CASE again.full /\ again.last.time > window
  <2>1. /\ boundary' = [key |-> again.last.time, ids |-> again.ids] /\ window' = again.last.time
        /\ stage' \in {"fetching", "done"}
    BY <1>6 DEF NextPage, NextWindow
  <2>2. GeneratorInv'
    BY <1>0, <1>1, <1>2, <1>5, <1>6, <2>1 DEF GeneratorInv, InRange
  <2>3. FetchingInv'
    <3>1. \A k \in 1 .. q : k <= q - ask.limit => rows[k].time < again.last.time
      <4> SUFFICES ASSUME NEW k \in 1 .. q, k <= q - ask.limit PROVE rows[k].time < again.last.time
        OBVIOUS
      <4>1. rows[k].time < window /\ k \in 1 .. Len(rows)
        BY <1>0, <1>1, <1>6 DEF PageInv
      <4>2. rows[k].time \in Nat
        BY <1>1, <4>1, StoreTypes
      <4> QED
        BY <1>0, <1>5, <1>6, <4>1, <4>2
    <3>2. ~ renamed => \A k \in 1 .. q : rows[k].time >= again.last.time => Identity(rows[k]) \in again.ids
      <4> SUFFICES ASSUME ~ renamed, NEW k \in 1 .. q, rows[k].time >= again.last.time
                   PROVE  Identity(rows[k]) \in again.ids
        OBVIOUS
      <4>1. k \in 1 .. Len(rows) /\ q \in 1 .. Len(rows) /\ k <= q
        BY <1>0, <1>5
      <4>2. rows[k].time <= rows[q].time /\ rows[k].time \in Nat
        BY <1>1, <4>1, StoreTypes
      <4>3. rows[k].time = rows[q].time /\ rows[k].time >= window
        BY <1>0, <1>5, <1>6, <4>2
      <4> QED
        BY <1>1, <4>3 DEF PageInv
    <3>3. ~ renamed => \A k \in 1 .. q : rows'[k].time >= again.last.time => Identity(rows[k])' \in again.ids
      BY <1>2, <3>2 DEF Identity
    <3> QED
      BY <1>2, <1>5, <2>1, <3>1, <3>3 DEF FetchingInv
  <2> QED
    BY <1>3, <1>4, <2>1, <2>2, <2>3 DEF OnceInv
<1>7. CASE ~ (again.full /\ again.last.time > window)
  <2>1. stage' = "done" /\ boundary' = boundary /\ window' = window
    BY <1>7 DEF NextPage
  <2>2. GeneratorInv'
    BY <1>1, <1>2, <2>1 DEF GeneratorInv, InRange
  <2> QED
    BY <1>3, <1>4, <2>1, <2>2 DEF OnceInv
<1> QED
  BY <1>6, <1>7

(* Both ways the history changes leave the rows there were in their place. *)
LEMMA HistoryGrows ==
  ASSUME StoreInv,
         \/ \E time \in 0 .. MaxClock, tx \in {0, Len(rows) + 1} : RowArrives(time, tx)
         \/ \E k \in DOMAIN rows : DepositConfirmed(k)
  PROVE  /\ StoreInv' /\ UNCHANGED <<source, ask, generatorVars, first>>
         /\ Len(rows) <= Len(rows') /\ (~ renamed' => ~ renamed)
         /\ \A k \in 1 .. Len(rows) : rows'[k].time = rows[k].time /\ (~ renamed' => rows'[k] = rows[k])
<1> DEFINE l == Len(rows)
<1>0. /\ rows \in Seq(Row) /\ l \in Nat /\ l <= MaxRows /\ DOMAIN rows = 1 .. l /\ first \in 0 .. l
      /\ renamed \in BOOLEAN /\ MaxRows \in Nat /\ MaxClock \in Nat
  BY PaginationAssumption DEF StoreInv
<1>1. \A k \in 1 .. l : rows[k] \in Row /\ rows[k].time \in Nat /\ rows[k].no = k
  BY StoreTypes
<1>2. ASSUME NEW time \in 0 .. MaxClock, NEW tx \in {0, l + 1}, RowArrives(time, tx)
      PROVE  StoreInv' /\ l <= Len(rows') /\ \A k \in 1 .. l : rows'[k] = rows[k]
  <2> DEFINE new == [no |-> l + 1, time |-> time, tx |-> tx]
  <2>1. /\ l < MaxRows /\ MayFollow(time) /\ rows' = Append(rows, new)
        /\ renamed' = renamed /\ first' = first /\ source' = source
    BY <1>2 DEF RowArrives, RowAdded
  <2>2. l + 1 \in 1 .. MaxRows /\ tx \in 0 .. MaxRows
    BY <1>0, <2>1
  <2>3. new \in Row
    BY <2>2 DEF Row
  <2>4. /\ rows' \in Seq(Row) /\ Len(rows') = l + 1 /\ DOMAIN rows' = 1 .. l + 1
        /\ rows'[l + 1] = new /\ \A k \in 1 .. l : rows'[k] = rows[k]
    <3> HIDE DEF new
    <3> QED
      BY <1>0, <2>1, <2>3
  <2>5. \A k \in 1 .. l : rows[k].time < time \/ (rows[k].time = time /\ source # "klines")
    <3> SUFFICES ASSUME NEW k \in 1 .. l
                 PROVE  rows[k].time < time \/ (rows[k].time = time /\ source # "klines")
      OBVIOUS
    <3>1. rows # <<>> /\ l \in 1 .. l
      BY <1>0
    <3>2. time > rows[l].time \/ (time = rows[l].time /\ source # "klines")
      BY <2>1, <3>1 DEF MayFollow
    <3>3. k = l \/ rows[k].time < rows[l].time \/ (rows[k].time = rows[l].time /\ source # "klines")
      BY <1>0, <3>1 DEF StoreInv, Ordered
    <3>4. rows[k].time \in Nat /\ rows[l].time \in Nat /\ time \in Nat
      BY <1>0, <1>1, <3>1
    <3> QED
      BY <3>2, <3>3, <3>4
  <2>6. Ordered(rows)'
    <3> SUFFICES ASSUME NEW k \in 1 .. l + 1, NEW m \in 1 .. l + 1, k < m
                 PROVE  rows'[k].time < rows'[m].time \/ (rows'[k].time = rows'[m].time /\ source # "klines")
      BY <2>1, <2>4 DEF Ordered
    <3>1. k \in 1 .. l /\ rows'[k] = rows[k]
      BY <1>0, <2>4
    <3>2. CASE m = l + 1
      BY <2>4, <2>5, <3>1, <3>2
    <3>3. CASE m # l + 1
      <4>1. m \in 1 .. l /\ rows'[m] = rows[m]
        BY <1>0, <2>4, <3>3
      <4> QED
        BY <1>0, <3>1, <4>1 DEF StoreInv, Ordered
    <3> QED
      BY <3>2, <3>3
  <2>7. \A k \in 1 .. l + 1 : rows'[k].no = k
    <3>1. rows'[l + 1].no = l + 1
      BY <2>4
    <3> QED
      BY <1>0, <1>1, <2>4, <3>1
  <2> HIDE DEF l, new
  <2> QED
    BY <1>0, <2>1, <2>4, <2>6, <2>7 DEF StoreInv
<1>3. ASSUME NEW k \in DOMAIN rows, DepositConfirmed(k)
      PROVE  StoreInv' /\ l <= Len(rows') /\ renamed' /\ \A m \in 1 .. l : rows'[m].time = rows[m].time
  <2>1. /\ rows' = [rows EXCEPT ![k].tx = k] /\ renamed' = TRUE /\ first' = first /\ source' = source
    BY <1>3 DEF DepositConfirmed
  <2>2. [rows[k] EXCEPT !.tx = k] \in Row
    <3>1. k \in 0 .. MaxRows /\ rows[k] \in Row
      BY <1>0, <1>1, <1>3
    <3> QED
      BY <3>1 DEF Row
  <2>3. rows' \in Seq(Row) /\ Len(rows') = l /\ DOMAIN rows' = 1 .. l
    BY <1>0, <2>1, <2>2, ExceptSeq
  <2>4. \A m \in 1 .. l : rows'[m].time = rows[m].time /\ rows'[m].no = rows[m].no
    BY <1>0, <1>1, <2>1 DEF Row
  <2>5. Ordered(rows)'
    BY <1>0, <2>1, <2>3, <2>4 DEF StoreInv, Ordered
  <2> QED
    BY <1>0, <1>1, <2>1, <2>3, <2>4, <2>5 DEF StoreInv
<1>4. CASE \E time \in 0 .. MaxClock, tx \in {0, l + 1} : RowArrives(time, tx)
  <2>1. UNCHANGED <<source, ask, generatorVars, first>> /\ renamed' = renamed
    BY <1>4 DEF RowArrives
  <2> QED
    BY <1>2, <1>4, <2>1
<1>5. CASE \E k \in DOMAIN rows : DepositConfirmed(k)
  <2>1. UNCHANGED <<source, ask, generatorVars, first>>
    BY <1>5 DEF DepositConfirmed
  <2> QED
    BY <1>3, <1>5, <2>1
<1> QED
  BY <1>4, <1>5

LEMMA OnceStep == OnceInv /\ [PaginationNext]_paginationVars => OnceInv'
<1> SUFFICES ASSUME OnceInv, [PaginationNext]_paginationVars PROVE OnceInv'
  OBVIOUS
<1>1. CASE UNCHANGED paginationVars
  <2>1. StoreInv'
    BY <1>1 DEF paginationVars, storeVars, OnceInv, StoreInv, Ordered
  <2> QED
    BY <1>1, <2>1, RowsGrow, StoreTypes DEF paginationVars, storeVars, OnceInv
<1>2. CASE \/ \E time \in 0 .. MaxClock, tx \in {0, Len(rows) + 1} : RowArrives(time, tx)
           \/ \E k \in DOMAIN rows : DepositConfirmed(k)
  <2>1. StoreInv
    BY DEF OnceInv
  <2> QED
    BY <1>2, <2>1, HistoryGrows, RowsGrow
<1>3. CASE FetchFails
  <2>1. /\ stage' = "failed" /\ StoreInv' /\ (~ renamed => Increasing)'
    BY <1>3 DEF FetchFails, storeVars, OnceInv, StoreInv, Ordered, Increasing
  <2>2. GeneratorInv'
    BY <1>3 DEF FetchFails, storeVars, OnceInv, GeneratorInv, InRange, q
  <2> QED
    BY <2>1, <2>2 DEF OnceInv
<1> QED
  BY <1>1, <1>2, <1>3, FetchOnce, YieldOnce, NextPageOnce DEF PaginationNext

LEMMA OnceAtFirst == PaginationInit => OnceInv
<1> SUFFICES ASSUME PaginationInit PROVE OnceInv
  OBVIOUS
<1>1. PICK n \in FirstSizes : \E times \in [1 .. n -> 0 .. MaxClock], named \in SUBSET (1 .. n) :
        rows = History(times, named)
  BY DEF PaginationInit
<1>2. PICK times \in [1 .. n -> 0 .. MaxClock], named \in SUBSET (1 .. n) :
        rows = [k \in 1 .. n |-> [no |-> k, time |-> times[k], tx |-> IF k \in named THEN k ELSE 0]]
  BY <1>1 DEF History
<1>3. n \in Nat /\ n <= MaxRows /\ MaxRows \in Nat
  BY PaginationAssumption
<1>4. \A k \in 1 .. n : rows[k] \in Row /\ rows[k].no = k
  BY <1>2, <1>3 DEF Row
<1>5. rows \in Seq(Row) /\ Len(rows) = n /\ DOMAIN rows = 1 .. n
  BY <1>2, <1>3, <1>4
<1>6. /\ Ordered(rows) /\ renamed \in BOOLEAN /\ first = n /\ ask \in Asks /\ window = ask.start
      /\ stage \in {"fetching", "done"} /\ again = NothingLeft /\ boundary = NothingSeen /\ yielded = <<>>
  BY <1>5 DEF PaginationInit
<1>7. StoreInv
  BY <1>3, <1>4, <1>5, <1>6 DEF StoreInv
<1>8. ask.start \in Nat
  BY <1>6, PaginationAssumption
<1>9. q = 0 /\ again.full \in BOOLEAN /\ boundary.key \in Int
  BY <1>6 DEF q, NothingLeft, NothingSeen
<1>10. GeneratorInv
  BY <1>3, <1>5, <1>6, <1>8, <1>9 DEF GeneratorInv
<1>11. FetchingInv /\ Increasing
  BY <1>6, <1>9 DEF FetchingInv, Increasing
<1> QED
  BY <1>6, <1>7, <1>10, <1>11 DEF OnceInv

-----------------------------------------------------------------------------
(* NothingIsSkipped.                                                       *)

(* A longer history has the same rows up to q and up to first.             *)
LEMMA RowsGrowSkip ==
  ASSUME OnceInv, OnceInv', SkipInv, UNCHANGED <<source, ask, generatorVars, first>>,
         Len(rows) <= Len(rows'), ~ renamed' => ~ renamed,
         \A k \in 1 .. Len(rows) : rows'[k].time = rows[k].time /\ (~ renamed' => rows'[k] = rows[k])
  PROVE  SkipInv'
<1> SUFFICES ASSUME Sane'
             PROVE  /\ (stage = "fetching" => DoneUpTo(q))'
                    /\ (stage = "yielding" => DoneUpTo(q - Len(page)) /\ KnownBy(again.ids, again.last.time, q))'
                    /\ (stage \in {"fetching", "yielding"} =>
                          \A x \in boundary.ids : \E j \in DOMAIN rows :
                            rows[j].time = boundary.key /\ Identity(rows[j]) = x /\ (InRange(j) => Yielded(j)))'
                    /\ (stage = "done" => DoneUpTo(first))'
  BY DEF SkipInv
<1>1. Sane
  BY SaneBefore DEF OnceInv, GeneratorInv
<1>2. /\ ask' = ask /\ stage' = stage /\ window' = window /\ boundary' = boundary /\ page' = page
      /\ again' = again /\ yielded' = yielded /\ first' = first /\ source' = source /\ q' = q
  BY DEF generatorVars, q
<1>3. /\ Len(rows) \in Nat /\ Len(rows') \in Nat /\ q \in Nat /\ q <= Len(rows) /\ first \in 0 .. Len(rows)
      /\ DOMAIN rows = 1 .. Len(rows) /\ DOMAIN rows' = 1 .. Len(rows')
  BY GeneratorTypes DEF OnceInv, StoreInv
<1>4. ~ renamed'
  BY DEF Sane
<1>5. \A k \in 1 .. Len(rows) : rows'[k] = rows[k] /\ k \in DOMAIN rows'
  BY <1>3, <1>4
<1>6. \A k \in 1 .. Len(rows) : Identity(rows[k])' = Identity(rows[k]) /\ (InRange(k)' <=> InRange(k))
  BY <1>2, <1>5 DEF Identity, InRange
<1>7. \A k : Yielded(k)' <=> Yielded(k)
  BY <1>2 DEF Yielded
<1>8. ASSUME NEW n \in Int, n <= Len(rows), DoneUpTo(n)
      PROVE  \A j \in 1 .. n : InRange(j)' => Yielded(j)'
  BY <1>3, <1>6, <1>7, <1>8 DEF DoneUpTo
<1>9. stage = "fetching" => DoneUpTo(q)'
  BY <1>1, <1>2, <1>3, <1>8 DEF SkipInv, DoneUpTo
<1>10. stage = "yielding" => DoneUpTo(q - Len(page))'
  <2> SUFFICES ASSUME stage = "yielding" PROVE DoneUpTo(q - Len(page))'
    OBVIOUS
  <2>1. Len(page) \in Nat /\ Len(page) <= q
    BY DEF OnceInv, PageInv
  <2>2. q - Len(page) \in Int /\ q - Len(page) <= Len(rows)
    BY <1>3, <2>1
  <2>3. DoneUpTo(q - Len(page))
    BY <1>1 DEF SkipInv
  <2> QED
    BY <1>2, <1>8, <2>2, <2>3 DEF DoneUpTo
<1>11. stage = "yielding" => KnownBy(again.ids, again.last.time, q)'
  <2> SUFFICES ASSUME stage = "yielding", NEW x \in again.ids
               PROVE  \E j \in 1 .. q : rows'[j].time = again.last.time /\ Identity(rows[j])' = x
    BY <1>2 DEF KnownBy
  <2>1. PICK j \in 1 .. q : rows[j].time = again.last.time /\ Identity(rows[j]) = x
    BY <1>1 DEF SkipInv, KnownBy
  <2>2. j \in 1 .. Len(rows)
    BY <1>3
  <2> QED
    BY <1>5, <1>6, <2>1, <2>2
<1>12. stage \in {"fetching", "yielding"} =>
         \A x \in boundary.ids : \E j \in DOMAIN rows' :
           rows'[j].time = boundary.key /\ Identity(rows[j])' = x /\ (InRange(j)' => Yielded(j)')
  <2> SUFFICES ASSUME stage \in {"fetching", "yielding"}, NEW x \in boundary.ids
               PROVE  \E j \in DOMAIN rows' :
                        rows'[j].time = boundary.key /\ Identity(rows[j])' = x /\ (InRange(j)' => Yielded(j)')
    OBVIOUS
  <2>1. PICK j \in DOMAIN rows : rows[j].time = boundary.key /\ Identity(rows[j]) = x /\ (InRange(j) => Yielded(j))
    BY <1>1 DEF SkipInv
  <2> QED
    BY <1>3, <1>5, <1>6, <1>7, <2>1
<1>13. stage = "done" => DoneUpTo(first)'
  BY <1>1, <1>2, <1>3, <1>8 DEF SkipInv, DoneUpTo
<1> QED
  BY <1>2, <1>9, <1>10, <1>11, <1>12, <1>13

(* While no row changes, a sane history stays sane and so do identities.   *)
LEMMA SameRows ==
  ASSUME UNCHANGED <<source, ask, storeVars>>
  PROVE  /\ Sane' <=> Sane
         /\ \A k : Identity(rows[k])' = Identity(rows[k])
         /\ \A k : InRange(k)' <=> InRange(k)
<1>1. rows' = rows /\ renamed' = renamed /\ source' = source /\ ask' = ask
  BY DEF storeVars
<1>2. \A k : Identity(rows[k])' = Identity(rows[k])
  BY <1>1 DEF Identity
<1>3. Confusable' <=> Confusable
  BY <1>1, <1>2 DEF Confusable
<1>4. Crowded' <=> Crowded
  BY <1>1 DEF Crowded
<1> QED
  BY <1>1, <1>2, <1>3, <1>4 DEF Sane, InRange

LEMMA FetchSkips ==
  ASSUME OnceInv, SkipInv, Fetch
  PROVE  SkipInv'
<1>0. /\ ask.start \in Nat /\ ask.end \in Nat /\ ask.limit \in Nat /\ ask.limit > 0
      /\ q \in Nat /\ q <= Len(rows) /\ window \in Nat
  BY GeneratorTypes
<1>1. /\ stage = "fetching" /\ StoreInv /\ GeneratorInv /\ FetchingInv /\ ask \in Asks
  BY DEF Fetch, OnceInv, GeneratorInv
<1>2. /\ UNCHANGED <<source, ask, storeVars>> /\ rows' = rows /\ boundary' = boundary
      /\ yielded' = yielded /\ first' = first
  BY DEF Fetch, storeVars
<1>3. \A k : Yielded(k)' <=> Yielded(k)
  BY <1>2 DEF Yielded
<1>4. /\ Len(rows) \in Nat /\ DOMAIN rows = 1 .. Len(rows) /\ first \in 0 .. Len(rows)
      /\ \A k \in 1 .. Len(rows) : rows[k].time \in Nat
      /\ \A k, m \in 1 .. Len(rows) : k <= m => rows[k].time <= rows[m].time
  BY <1>1, StoreTypes DEF StoreInv
<1>5. SUFFICES ASSUME Sane
               PROVE  /\ (stage = "yielding" => DoneUpTo(q - Len(page)) /\ KnownBy(again.ids, again.last.time, q))'
                      /\ (\A x \in boundary.ids : \E j \in DOMAIN rows :
                            rows[j].time = boundary.key /\ Identity(rows[j]) = x /\ (InRange(j) => Yielded(j)))'
                      /\ (stage = "done" => DoneUpTo(first))'
                      /\ stage' # "fetching"
  BY <1>2, SameRows DEF SkipInv
<1>6. DoneUpTo(q)
  BY <1>1, <1>5 DEF SkipInv
<1>7. (\A x \in boundary.ids : \E j \in DOMAIN rows :
         rows[j].time = boundary.key /\ Identity(rows[j]) = x /\ (InRange(j) => Yielded(j)))'
  <2> SUFFICES ASSUME NEW x \in boundary.ids
               PROVE  \E j \in DOMAIN rows :
                        rows[j].time = boundary.key /\ Identity(rows[j])' = x /\ (InRange(j)' => Yielded(j)')
    BY <1>2
  <2>1. PICK j \in DOMAIN rows : rows[j].time = boundary.key /\ Identity(rows[j]) = x /\ (InRange(j) => Yielded(j))
    BY <1>1, <1>5 DEF SkipInv
  <2> QED
    BY <1>2, <1>3, <2>1, SameRows
(* A row of an earlier time was in an earlier page, or is not asked for.   *)
<1>8. ASSUME NEW k \in 1 .. Len(rows), rows[k].time < window, InRange(k) PROVE Yielded(k)
  <2>1. CASE q = 0
    BY <1>0, <1>1, <1>4, <1>8, <2>1 DEF GeneratorInv, InRange
  <2>2. CASE q > 0
    <3>1. rows[q].time = window /\ q \in 1 .. Len(rows)
      BY <1>0, <1>1, <2>2 DEF FetchingInv
    <3>2. k < q
      BY <1>0, <1>4, <1>8, <3>1
    <3> QED
      BY <1>0, <1>6, <1>8, <3>2 DEF DoneUpTo
  <2> QED
    BY <1>0, <2>1, <2>2
<1>9. CASE Served = <<>>
  <2>1. stage' = "done"
    BY <1>9 DEF Fetch
  <2>2. PICK from \in 1 .. Len(rows) + 1 :
          /\ \A k \in DOMAIN rows : rows[k].time < window <=> k < from
          /\ \A k \in DOMAIN rows : k >= from => rows[k].time > ask.end
    BY <1>0, <1>1, <1>9, ServedIs
  <2>3. ASSUME NEW k \in 1 .. first, InRange(k) PROVE Yielded(k)
    <3>1. k \in 1 .. Len(rows) /\ rows[k].time < ask.end
      BY <1>0, <1>4, <2>3 DEF InRange
    <3>2. ~ k >= from
      <4> SUFFICES ASSUME k >= from PROVE FALSE
        OBVIOUS
      <4>1. k \in DOMAIN rows /\ rows[k].time \in Nat
        BY <1>4, <3>1
      <4>2. rows[k].time > ask.end
        BY <2>2, <4>1
      <4> QED
        BY <1>0, <3>1, <4>1, <4>2
    <3>3. rows[k].time < window
      BY <1>4, <2>2, <3>1, <3>2
    <3> QED
      BY <1>8, <2>3, <3>1, <3>3
  <2>4. DoneUpTo(first)'
    BY <1>2, <1>3, <2>3, SameRows DEF DoneUpTo
  <2> QED
    BY <1>7, <2>1, <2>4
<1>10. CASE Served # <<>>
  <2> DEFINE n == Len(Served)
  <2>1. PICK from \in 1 .. Len(rows) + 1, upto \in 0 .. Len(rows) :
          /\ Served \in Seq(Row)
          /\ \A k \in DOMAIN rows : rows[k].time < window <=> k < from
          /\ from <= upto /\ n = upto - from + 1
          /\ \A i \in 1 .. n : Served[i] = rows[from + i - 1]
    BY <1>0, <1>1, <1>10, ServedIs
  <2>2. /\ stage' = "yielding" /\ page' = Served /\ again'.last = Served[n]
        /\ again'.ids = {Identity(Served[k]) : k \in {m \in 1 .. n : Served[m].time = Served[n].time}}
    BY <1>10 DEF Fetch
  <2>3. n \in Nat /\ n >= 1 /\ from \in Nat /\ upto \in 1 .. Len(rows) /\ from >= 1
    BY <1>4, <2>1
  <2>4. \A k \in 1 .. Len(rows) : rows[k].no = k
    BY <1>1, StoreTypes
  <2>5. Served[n] = rows[upto] /\ q' = upto
    BY <2>1, <2>2, <2>3, <2>4 DEF q
  <2>6. DoneUpTo(q - Len(page))'
    <3>1. upto - n = from - 1
      BY <2>1, <2>3
    <3>2. ASSUME NEW k \in 1 .. from - 1, InRange(k) PROVE Yielded(k)
      <4>1. k \in 1 .. Len(rows) /\ k < from
        BY <2>1, <2>3, <1>4
      <4> QED
        BY <1>4, <1>8, <2>1, <3>2, <4>1
    <3>3. \A k \in 1 .. upto - n : InRange(k)' => Yielded(k)'
      BY <1>2, <1>3, <3>1, <3>2, SameRows
    <3> QED
      BY <2>2, <2>5, <3>3 DEF DoneUpTo
  <2>7. KnownBy(again.ids, again.last.time, q)'
    <3> SUFFICES ASSUME NEW x \in again'.ids
                 PROVE  \E j \in 1 .. upto : rows[j].time = rows[upto].time /\ Identity(rows[j])' = x
      BY <1>2, <2>2, <2>5 DEF KnownBy
    <3>1. PICK i \in 1 .. n : Served[i].time = Served[n].time /\ x = Identity(Served[i])
      BY <2>2
    <3>2. from + i - 1 \in 1 .. upto /\ Served[i] = rows[from + i - 1]
      BY <2>1, <2>3
    <3> QED
      BY <1>2, <2>5, <3>1, <3>2, SameRows
  <2> QED
    BY <1>7, <2>2, <2>6, <2>7
<1> QED
  BY <1>9, <1>10

LEMMA YieldSkips ==
  ASSUME OnceInv, SkipInv, Yield
  PROVE  SkipInv'
<1>0. /\ ask.start \in Nat /\ ask.end \in Nat /\ q \in Nat /\ q <= Len(rows)
  BY GeneratorTypes
<1>1. /\ stage = "yielding" /\ page # <<>> /\ StoreInv /\ GeneratorInv /\ PageInv
  BY DEF Yield, OnceInv
<1>2. /\ UNCHANGED <<source, ask, storeVars>> /\ rows' = rows /\ boundary' = boundary
      /\ again' = again /\ first' = first /\ q' = q
  BY DEF Yield, storeVars, q
<1>3. /\ Len(rows) \in Nat /\ DOMAIN rows = 1 .. Len(rows) /\ first \in 0 .. Len(rows)
      /\ \A k \in 1 .. Len(rows) : rows[k].time \in Nat
      /\ \A k, m \in 1 .. Len(rows) : k <= m => rows[k].time <= rows[m].time
  BY <1>1, StoreTypes DEF StoreInv
<1> DEFINE h == Head(page)
           n == Len(page)
<1>k. PICK k \in Int : k = q - n + 1
  <2>1. n \in Nat
    BY <1>1 DEF PageInv
  <2>2. q - n + 1 \in Int
    BY <1>0, <2>1
  <2> QED
    BY <2>2
<1>4. /\ n \in Nat /\ n > 0 /\ n <= q /\ k \in 1 .. Len(rows) /\ h.no = k /\ h.time = rows[k].time
      /\ rows[k].time >= window /\ (~ renamed => h = rows[k])
  <2>1. n \in Nat /\ n > 0 /\ n <= q /\ h = page[1] /\ 1 \in DOMAIN page
    BY <1>1 DEF PageInv
  <2>2. k \in 1 .. Len(rows) /\ q - n + 1 = k
    BY <1>0, <1>3, <1>k, <2>1
  <2> QED
    BY <1>1, <2>1, <2>2 DEF PageInv
<1>n. h = Head(page) /\ n = Len(page) /\ k = q - n + 1
  BY <1>k
<1> HIDE DEF h, n
<1>5. SUFFICES ASSUME Sane
               PROVE  /\ (stage = "yielding" => DoneUpTo(q - Len(page)) /\ KnownBy(again.ids, again.last.time, q))'
                      /\ (\A x \in boundary.ids : \E j \in DOMAIN rows :
                            rows[j].time = boundary.key /\ Identity(rows[j]) = x /\ (InRange(j) => Yielded(j)))'
                      /\ (stage = "done" => DoneUpTo(first))'
                      /\ stage' # "fetching"
  BY <1>2, SameRows DEF SkipInv
<1>6. /\ DoneUpTo(q - n) /\ KnownBy(again.ids, again.last.time, q) /\ ~ renamed /\ ~ Confusable
      /\ \A x \in boundary.ids : \E j \in DOMAIN rows :
           rows[j].time = boundary.key /\ Identity(rows[j]) = x /\ (InRange(j) => Yielded(j))
  BY <1>1, <1>n, <1>5 DEF SkipInv, Sane
<1>7. \A j : Yielded(j) => Yielded(j)'
  <2>1. yielded \in Seq(Nat) /\ h.no \in Nat
    BY <1>1, <1>3, <1>4 DEF GeneratorInv
  <2>2. yielded' = yielded \/ yielded' = Append(yielded, h.no)
    BY <1>1, <1>n DEF Yield
  <2>3. CASE yielded' = Append(yielded, h.no)
    <3>1. \A m \in 1 .. Len(yielded) : m \in 1 .. Len(yielded') /\ yielded'[m] = yielded[m]
      BY <2>1, <2>3, AppendProperties
    <3>2. DOMAIN yielded = 1 .. Len(yielded) /\ DOMAIN yielded' = 1 .. Len(yielded')
      BY <2>1, <2>3, AppendProperties
    <3> QED
      BY <3>1, <3>2 DEF Yielded
  <2> QED
    BY <2>2, <2>3 DEF Yielded
<1>8. (\A x \in boundary.ids : \E j \in DOMAIN rows :
         rows[j].time = boundary.key /\ Identity(rows[j]) = x /\ (InRange(j) => Yielded(j)))'
  <2> SUFFICES ASSUME NEW x \in boundary.ids
               PROVE  \E j \in DOMAIN rows :
                        rows[j].time = boundary.key /\ Identity(rows[j])' = x /\ (InRange(j)' => Yielded(j)')
    BY <1>2
  <2>1. PICK j \in DOMAIN rows : rows[j].time = boundary.key /\ Identity(rows[j]) = x /\ (InRange(j) => Yielded(j))
    BY <1>6
  <2> QED
    BY <1>2, <1>7, <2>1, SameRows
<1>9. KnownBy(again.ids, again.last.time, q)'
  BY <1>2, <1>6, SameRows DEF KnownBy
<1>10. CASE h.time >= ask.end
  <2>1. stage' = "done"
    BY <1>1, <1>n, <1>10 DEF Yield
  <2>2. ASSUME NEW j \in 1 .. first, InRange(j) PROVE Yielded(j)
    <3>1. j \in 1 .. Len(rows) /\ rows[j].time < ask.end
      BY <1>0, <1>3, <2>2 DEF InRange
    <3>2. ~ k <= j
      <4> SUFFICES ASSUME k <= j PROVE FALSE
        OBVIOUS
      <4>1. rows[k].time <= rows[j].time
        BY <1>3, <1>4, <3>1
      <4>2. rows[k].time \in Nat /\ rows[j].time \in Nat /\ rows[k].time >= ask.end
        BY <1>3, <1>4, <1>10, <3>1
      <4> QED
        BY <1>0, <3>1, <4>1, <4>2
    <3>3. j \in 1 .. q - n
      BY <1>0, <1>4, <1>n, <3>1, <3>2
    <3> QED
      BY <1>6, <2>2, <3>3 DEF DoneUpTo
  <2>3. DoneUpTo(first)'
    BY <1>2, <1>7, <2>2, SameRows DEF DoneUpTo
  <2> QED
    BY <1>8, <2>1, <2>3
<1>11. CASE ~ h.time >= ask.end
  <2>1. /\ stage' = "yielding" /\ page' = Tail(page)
        /\ yielded' = IF Seen(h) THEN yielded ELSE Append(yielded, h.no)
    BY <1>1, <1>n, <1>11 DEF Yield
  <2>2. Len(page') = n - 1
    BY <1>1, <1>n, <2>1 DEF PageInv
  <2>3. InRange(k) => Yielded(k)'
    <3>1. CASE Seen(h)
      <4>1. rows[k].time = boundary.key /\ Identity(rows[k]) \in boundary.ids
        BY <1>4, <1>6, <3>1 DEF Seen
      <4>2. PICK j \in DOMAIN rows : /\ rows[j].time = boundary.key /\ Identity(rows[j]) = Identity(rows[k])
                                     /\ InRange(j) => Yielded(j)
        BY <1>6, <4>1
      <4>3. j = k
        BY <1>3, <1>4, <1>6, <4>1, <4>2 DEF Confusable
      <4> QED
        BY <1>7, <4>2, <4>3
    <3>2. CASE ~ Seen(h)
      <4>1. yielded \in Seq(Nat) /\ yielded' = Append(yielded, k) /\ k \in Nat
        BY <1>1, <1>3, <1>4, <2>1, <3>2 DEF GeneratorInv
      <4>2. Len(yielded) + 1 \in DOMAIN yielded' /\ yielded'[Len(yielded) + 1] = k
        BY <4>1
      <4> QED
        BY <4>2 DEF Yielded
    <3> QED
      BY <3>1, <3>2
  <2>4. DoneUpTo(q - Len(page))'
    <3> SUFFICES ASSUME NEW j \in 1 .. q - (n - 1), InRange(j) PROVE Yielded(j)'
      BY <1>2, <2>2, SameRows DEF DoneUpTo
    <3>1. CASE j = k
      BY <2>3, <3>1
    <3>2. CASE j # k
      <4>1. j \in 1 .. q - n
        BY <1>0, <1>4, <1>n, <3>2
      <4> QED
        BY <1>6, <1>7, <4>1 DEF DoneUpTo
    <3> QED
      BY <3>1, <3>2
  <2> QED
    BY <1>8, <1>9, <2>1, <2>4
<1> QED
  BY <1>10, <1>11

(* A full page of one time makes that time crowded.                        *)
LEMMA PageOfOneTime ==
  ASSUME OnceInv, stage = "yielding", again.full, ~ again.last.time > window
  PROVE  Crowded
<1>1. /\ ask.limit \in Nat /\ ask.limit > 0 /\ q \in Nat /\ q <= Len(rows) /\ window \in Nat
      /\ StoreInv /\ GeneratorInv /\ PageInv
  BY GeneratorTypes DEF OnceInv
<1>2. /\ Len(rows) \in Nat /\ DOMAIN rows = 1 .. Len(rows) /\ 0 .. MaxClock \subseteq Nat
      /\ \A k \in 1 .. Len(rows) : rows[k].time \in 0 .. MaxClock
      /\ \A k, m \in 1 .. Len(rows) : k <= m => rows[k].time <= rows[m].time
  BY <1>1, StoreTypes
<1>3. /\ q > 0 /\ ask.limit <= q /\ again.last.time = rows[q].time /\ rows[q].time \in Nat
      /\ \A k \in 1 .. q : rows[k].time < window <=> k <= q - ask.limit
  BY <1>1, <1>2 DEF GeneratorInv, PageInv
<1> DEFINE t == rows[q].time
           Page == (q - ask.limit + 1) .. q
           Same == {k \in DOMAIN rows : rows[k].time = t}
<1>4. Page \subseteq Same
  <2> SUFFICES ASSUME NEW k \in Page PROVE k \in 1 .. Len(rows) /\ rows[k].time = t
    BY <1>2
  <2>1. k \in 1 .. q /\ ~ k <= q - ask.limit /\ k \in 1 .. Len(rows) /\ q \in 1 .. Len(rows) /\ k <= q
    BY <1>1, <1>3
  <2>2. rows[k].time \in Nat /\ ~ rows[k].time < window /\ rows[k].time <= rows[q].time
    BY <1>2, <1>3, <2>1
  <2> QED
    BY <1>1, <1>3, <2>1, <2>2
<1>5. IsFiniteSet(Page) /\ Cardinality(Page) = ask.limit
  <2>1. q - ask.limit + 1 \in Int /\ q \in Int /\ ~ q - ask.limit + 1 > q
    BY <1>1
  <2>2. Cardinality(Page) = q - (q - ask.limit + 1) + 1
    BY <2>1, FS_Interval
  <2> QED
    BY <1>1, <2>1, <2>2, FS_Interval
<1>6. IsFiniteSet(Same)
  <2>1. IsFiniteSet(1 .. Len(rows))
    BY <1>2, FS_Interval
  <2> QED
    BY <1>2, <2>1, FS_Subset
<1>7. Cardinality(Same) \in Nat /\ ask.limit <= Cardinality(Same)
  <2>1. Page \in SUBSET Same
    BY <1>4
  <2>2. Cardinality(Page) <= Cardinality(Same)
    BY <1>6, <2>1, FS_Subset
  <2>3. Cardinality(Same) \in Nat
    BY <1>6, FS_CardinalityType
  <2> QED
    BY <1>5, <2>2, <2>3
<1>8. t \in 0 .. MaxClock
  BY <1>1, <1>2, <1>3
<1> QED
  BY <1>1, <1>7, <1>8 DEF Crowded

LEMMA NextPageSkips ==
  ASSUME OnceInv, SkipInv, NextPage
  PROVE  SkipInv'
<1>0. /\ ask.start \in Nat /\ ask.end \in Nat /\ q \in Nat /\ q <= Len(rows) /\ window \in Nat
  BY GeneratorTypes
<1>1. /\ stage = "yielding" /\ page = <<>> /\ StoreInv /\ GeneratorInv /\ PageInv
  BY DEF NextPage, OnceInv
<1>2. /\ UNCHANGED <<source, ask, storeVars>> /\ rows' = rows /\ page' = page
      /\ again' = again /\ first' = first /\ yielded' = yielded /\ q' = q
  BY DEF NextPage, storeVars, q
<1>3. /\ Len(rows) \in Nat /\ DOMAIN rows = 1 .. Len(rows) /\ first \in 0 .. Len(rows)
      /\ \A k \in 1 .. Len(rows) : rows[k].time \in Nat
      /\ \A k, m \in 1 .. Len(rows) : k <= m => rows[k].time <= rows[m].time
  BY <1>1, StoreTypes DEF StoreInv
<1>4. q > 0 /\ q \in 1 .. Len(rows) /\ again.last.time = rows[q].time
  BY <1>0, <1>1 DEF GeneratorInv, PageInv
<1>5. SUFFICES ASSUME Sane
               PROVE  /\ (stage = "fetching" => DoneUpTo(q))'
                      /\ (stage = "fetching" => \A x \in boundary.ids : \E j \in DOMAIN rows :
                            rows[j].time = boundary.key /\ Identity(rows[j]) = x /\ (InRange(j) => Yielded(j)))'
                      /\ (stage = "done" => DoneUpTo(first))'
                      /\ stage' # "yielding"
  BY <1>2, SameRows DEF SkipInv
<1>6. DoneUpTo(q) /\ KnownBy(again.ids, again.last.time, q)
  <2>1. Len(page) = 0 /\ q - Len(page) = q
    BY <1>0, <1>1
  <2> QED
    BY <1>1, <1>5, <2>1 DEF SkipInv
<1>7. \A k : Yielded(k)' <=> Yielded(k)
  BY <1>2 DEF Yielded
<1>8. DoneUpTo(q)'
  BY <1>2, <1>6, <1>7, SameRows DEF DoneUpTo
<1>9. ASSUME \A k \in 1 .. first : rows[k].time < ask.end => k <= q
      PROVE  DoneUpTo(first)'
  <2>1. ASSUME NEW k \in 1 .. first, InRange(k) PROVE Yielded(k)
    <3>1. k \in 1 .. Len(rows) /\ rows[k].time < ask.end
      BY <1>0, <1>3, <2>1 DEF InRange
    <3>2. k \in 1 .. q
      BY <1>0, <1>3, <1>9, <2>1, <3>1
    <3> QED
      BY <1>6, <2>1, <3>2 DEF DoneUpTo
  <2> QED
    BY <1>2, <1>7, <2>1, SameRows DEF DoneUpTo
<1>10. CASE again.full /\ again.last.time > window
  <2>1. /\ boundary' = [key |-> again.last.time, ids |-> again.ids]
        /\ stage' = IF again.last.time < ask.end THEN "fetching" ELSE "done"
    BY <1>10 DEF NextPage, NextWindow
  <2>2. (\A x \in boundary.ids : \E j \in DOMAIN rows :
           rows[j].time = boundary.key /\ Identity(rows[j]) = x /\ (InRange(j) => Yielded(j)))'
    <3> SUFFICES ASSUME NEW x \in again.ids
                 PROVE  \E j \in DOMAIN rows :
                          rows[j].time = again.last.time /\ Identity(rows[j])' = x /\ (InRange(j)' => Yielded(j)')
      BY <1>2, <2>1
    <3>1. PICK j \in 1 .. q : rows[j].time = again.last.time /\ Identity(rows[j]) = x
      BY <1>6 DEF KnownBy
    <3>2. j \in DOMAIN rows /\ (InRange(j) => Yielded(j))
      BY <1>0, <1>3, <1>6 DEF DoneUpTo
    <3> QED
      BY <1>2, <1>7, <3>1, <3>2, SameRows
  <2>3. CASE again.last.time < ask.end
    BY <1>8, <2>1, <2>2, <2>3
  <2>4. CASE ~ again.last.time < ask.end
    <3>1. ASSUME NEW k \in 1 .. first, rows[k].time < ask.end, ~ k <= q PROVE FALSE
      <4>1. k \in 1 .. Len(rows) /\ q <= k
        BY <1>0, <1>3, <3>1
      <4>2. rows[q].time <= rows[k].time /\ rows[k].time \in Nat /\ rows[q].time \in Nat
        BY <1>3, <1>4, <4>1
      <4> QED
        BY <1>0, <1>4, <2>4, <3>1, <4>2
    <3>2. DoneUpTo(first)'
      BY <1>9, <3>1
    <3> QED
      BY <2>1, <2>4, <3>2
  <2> QED
    BY <2>3, <2>4
<1>11. CASE ~ (again.full /\ again.last.time > window)
  <2>1. stage' = "done"
    BY <1>11 DEF NextPage
  <2>2. ~ again.full
    BY <1>1, <1>5, <1>11, PageOfOneTime DEF Sane
  <2>3. ASSUME NEW k \in 1 .. first, rows[k].time < ask.end PROVE k <= q
    <3>1. rows[k].time <= ask.end
      BY <1>0, <1>3, <2>3
    <3> QED
      BY <1>1, <2>2, <3>1 DEF PageInv
  <2>4. DoneUpTo(first)'
    BY <1>9, <2>3
  <2> QED
    BY <2>1, <2>4
<1> QED
  BY <1>10, <1>11

LEMMA SkipStep == PaginationInv /\ [PaginationNext]_paginationVars => SkipInv'
<1> SUFFICES ASSUME OnceInv, SkipInv, [PaginationNext]_paginationVars PROVE SkipInv'
  BY DEF PaginationInv
<1>0. OnceInv' /\ StoreInv
  BY OnceStep DEF OnceInv
<1>1. CASE UNCHANGED paginationVars
  <2>1. /\ UNCHANGED <<source, ask, generatorVars, first>> /\ rows' = rows /\ renamed' = renamed
    BY <1>1 DEF paginationVars, storeVars
  <2>2. Len(rows) \in Nat
    BY <1>0, StoreTypes
  <2> QED
    BY <1>0, <2>1, <2>2, RowsGrowSkip
<1>2. CASE \/ \E time \in 0 .. MaxClock, tx \in {0, Len(rows) + 1} : RowArrives(time, tx)
           \/ \E k \in DOMAIN rows : DepositConfirmed(k)
  BY <1>0, <1>2, HistoryGrows, RowsGrowSkip
<1>3. CASE FetchFails
  <2>1. stage' = "failed"
    BY <1>3 DEF FetchFails
  <2> QED
    BY <2>1 DEF SkipInv
<1> QED
  BY <1>1, <1>2, <1>3, FetchSkips, YieldSkips, NextPageSkips DEF PaginationNext

LEMMA SkipAtFirst == PaginationInit => SkipInv
<1> SUFFICES ASSUME PaginationInit PROVE SkipInv
  OBVIOUS
<1>1. OnceInv
  BY OnceAtFirst
<1>2. /\ stage = (IF ask.start < ask.end THEN "fetching" ELSE "done")
      /\ boundary = NothingSeen /\ again = NothingLeft
  BY DEF PaginationInit
<1>3. ask.start \in Nat /\ ask.end \in Nat /\ q = 0 /\ boundary.ids = {}
  BY <1>1, <1>2, GeneratorTypes DEF q, NothingLeft, NothingSeen
<1>4. CASE stage = "fetching"
  <2>1. DoneUpTo(q)
    BY <1>3 DEF DoneUpTo
  <2> QED
    BY <1>3, <1>4, <2>1 DEF SkipInv
<1>5. CASE stage = "done"
  <2>1. first \in Nat /\ first <= Len(rows) /\ Len(rows) \in Nat /\ \A k \in 1 .. Len(rows) : rows[k].time \in Nat
    BY <1>1, StoreTypes DEF OnceInv, StoreInv
  <2>2. ask.end <= ask.start
    BY <1>2, <1>3, <1>5
  <2>3. \A k \in 1 .. first : ~ InRange(k)
    BY <1>3, <2>1, <2>2 DEF InRange
  <2> QED
    BY <1>5, <2>3 DEF SkipInv, DoneUpTo
<1> QED
  BY <1>2, <1>4, <1>5

-----------------------------------------------------------------------------
(* The theorems.                                                           *)

THEOREM PaginationInvariant == PaginationSpec => []PaginationInv
<1>1. PaginationInit => PaginationInv
  BY OnceAtFirst, SkipAtFirst DEF PaginationInv
<1>2. PaginationInv /\ [PaginationNext]_paginationVars => PaginationInv'
  BY OnceStep, SkipStep DEF PaginationInv
<1> QED
  BY <1>1, <1>2, PTL DEF PaginationSpec

(* However the history grows meanwhile, and whatever is asked for, a row   *)
(* comes out of the generator once, in order, and only if it is in the     *)
(* range, unless a deposit has got its transaction id.                     *)
THEOREM EachOnce == PaginationSpec => []EachRowOnce
<1>1. PaginationInv => EachRowOnce
  BY DEF PaginationInv, OnceInv, GeneratorInv, Increasing, InRange, EachRowOnce
<1> QED
  BY <1>1, PaginationInvariant, PTL

(* What an iteration that ends by itself has not yielded was not asked for *)
(* or came too late, if no time fills a page and rows can be told apart.   *)
THEOREM NothingSkipped == PaginationSpec => []NothingIsSkipped
<1>1. PaginationInv => NothingIsSkipped
  BY DEF PaginationInv, SkipInv, Sane, DoneUpTo, InRange, Yielded, NothingIsSkipped
<1> QED
  BY <1>1, PaginationInvariant, PTL

=============================================================================
