---------------------------- MODULE ContentProofs ----------------------------
(***************************************************************************)
(* Proofs about Content, for any tables, limits, page sizes and workflows. *)
(*                                                                         *)
(* Answers: a table is a sequence of rows with ids of their own, none from *)
(* the future (TablesInv).  Whatever the table, the first rows in the      *)
(* order of a query exist, are as many as were asked for, and leave out    *)
(* none that comes before one of them (TopsComplete); each search is built *)
(* of such a choice and of filters.                                        *)
(*                                                                         *)
(* Sweeps: while a client reads page after page, what stands before an     *)
(* entry nobody touched only grows (Embedded): new rows come before, and a *)
(* replaced one moves there.  So an entry that the pages read reach is one *)
(* they have shown (SweepInv), and those beyond the last page are as many  *)
(* as joined the list after it was counted (PageKeeps).                    *)
(*                                                                         *)
(* Workflows: the row of the catalog holds, in whatever form it was sent,  *)
(* the entry file and the type asked for (WorkflowInv).                    *)
(*                                                                         *)
(* Schemas: what a field stores of a value it stores as it is (Settles),   *)
(* unless it is an element that is a choice by its name only; so a field   *)
(* holds values it takes, or such an element (SchemaInv), and what was     *)
(* validated is not refused when it is assigned in a field without such    *)
(* choices.  What was written is read, or raises (ReadAsWritten).  The     *)
(* stored form of a field keeps all that its type validates with           *)
(* (LoadedKeeps).                                                          *)
(*                                                                         *)
(* Keys: requests hold values that JSON writes (RequestsInv), each of one  *)
(* kind (PlainForms).  Rounding keeps the kind and moves no float by the   *)
(* width of the grid (CanonicalClose); a squid id of inputs without line   *)
(* breaks has one line for each, by induction over the order of the names  *)
(* (SquidLines).                                                           *)
(***************************************************************************)
EXTENDS Content, FiniteSetTheorems, SequenceTheorems, TLAPS

-----------------------------------------------------------------------------
(* Finite sets.                                                              *)

\* The least and the greatest of two numbers.
LEMMA MinOfTwo ==
  ASSUME NEW a \in Int, NEW b \in Int
  PROVE  /\ Min({a, b}) = IF a <= b THEN a ELSE b
         /\ Max({a, b}) = IF a <= b THEN b ELSE a
<1>1. Min({a, b}) = IF a <= b THEN a ELSE b
  <2> DEFINE m == IF a <= b THEN a ELSE b
  <2>1. m \in {a, b} /\ \A y \in {a, b}: m <= y OBVIOUS
  <2>2. \A x \in {a, b}: (\A y \in {a, b}: x <= y) => x = m OBVIOUS
  <2> QED BY <2>1, <2>2 DEF Min
<1>2. Max({a, b}) = IF a <= b THEN b ELSE a
  <2> DEFINE m == IF a <= b THEN b ELSE a
  <2>1. m \in {a, b} /\ \A y \in {a, b}: m >= y OBVIOUS
  <2>2. \A x \in {a, b}: (\A y \in {a, b}: x >= y) => x = m OBVIOUS
  <2> QED BY <2>1, <2>2 DEF Max
<1> QED BY <1>1, <1>2

\* In a finite set a strict order, given by what comes before each element, has
\* a first element in every set of elements.
LEMMA FirstElement ==
  ASSUME NEW S, IsFiniteSet(S), NEW before \in [S -> SUBSET S],
         \A a \in S: a \notin before[a],
         \A a, b \in S: b \in before[a] => before[b] \subseteq before[a],
         NEW T \in SUBSET S, T # {}
  PROVE  \E r \in T: before[r] \cap T = {}
<1> DEFINE below == {before[r]: r \in T}
<1>1. IsWellFoundedOn(StrictSubsetOrdering(S), SUBSET S)
  <2>1. IsWellFoundedOn(StrictSubsetOrdering(S), FiniteSubsetsOf(S))
    BY FS_StrictSubsetOrderingWellFounded
  <2>2. FiniteSubsetsOf(S) = SUBSET S
    BY FS_FiniteSubsetsOfFinite
  <2> QED BY <2>1, <2>2
<1>2. below \subseteq SUBSET S /\ below # {}
  OBVIOUS
<1>3. \E x \in below: \A y \in below: ~(<<y, x>> \in StrictSubsetOrdering(S))
  <2> HIDE DEF below
  <2> QED BY <1>1, <1>2, WFMin
<1> PICK r \in T: \A q \in T: ~(<<before[q], before[r]>> \in StrictSubsetOrdering(S))
  BY <1>3
<1>4. ASSUME NEW q \in before[r] \cap T PROVE FALSE
  <2>1. before[q] \subseteq before[r] /\ before[q] # before[r]
    BY <1>4
  <2> QED BY <1>4, <2>1 DEF StrictSubsetOrdering
<1> QED BY <1>4

\* At least m elements have fewer than m before them, or all have.
LEMMA FirstFew ==
  ASSUME NEW S, IsFiniteSet(S), NEW before \in [S -> SUBSET S],
         \A a \in S: a \notin before[a],
         \A a, b \in S: b \in before[a] => before[b] \subseteq before[a],
         NEW m \in Nat
  PROVE  \/ {r \in S: Cardinality(before[r]) < m} = S
         \/ Cardinality({r \in S: Cardinality(before[r]) < m}) >= m
<1> DEFINE A == {r \in S: Cardinality(before[r]) < m}
<1> SUFFICES ASSUME A # S PROVE Cardinality(A) >= m
  OBVIOUS
<1> DEFINE rest == S \ A
<1>1. rest # {} /\ rest \in SUBSET S
  OBVIOUS
<1>2. \E r \in rest: before[r] \cap rest = {}
  <2> HIDE DEF rest
  <2> QED BY <1>1, FirstElement
<1> PICK r \in rest: before[r] \cap rest = {}
  BY <1>2
<1>3. before[r] \subseteq A
  OBVIOUS
<1>4. IsFiniteSet(A) /\ Cardinality(A) \in Nat
  BY FS_Subset, FS_CardinalityType
<1>5. Cardinality(before[r]) <= Cardinality(A) /\ Cardinality(before[r]) \in Nat
  BY <1>3, <1>4, FS_Subset, FS_CardinalityType
<1>6. ~(Cardinality(before[r]) < m)
  OBVIOUS
<1> QED BY <1>4, <1>5, <1>6

-----------------------------------------------------------------------------
(* Tables.                                                                   *)

Rows == [id: Ids, name: Owners \cup {None}, status: {"completed", "active", "deprecated", "valid", "invalidated"},
         value: Values, words: SUBSET Words, tags: SUBSET Words, time: Nat]

TablesInv == /\ now \in Nat
             /\ rows \in Seq(Rows)
             /\ \A k \in DOMAIN rows: rows[k].time <= now
             /\ \A j, k \in DOMAIN rows: rows[j].id = rows[k].id => j = k

\* A row has one position, and its id is its own.
LEMMA TableFacts ==
  ASSUME TablesInv
  PROVE  /\ Len(rows) \in Nat /\ DOMAIN rows = 1..Len(rows)
         /\ \A k \in DOMAIN rows: rows[k] \in Rows /\ Pos(rows[k]) = k
         /\ \A r \in Stored: r \in Rows /\ Pos(r) \in DOMAIN rows /\ rows[Pos(r)] = r
         /\ \A a, b \in Stored: a.id = b.id \/ Pos(a) = Pos(b) => a = b
<1>1. Len(rows) \in Nat /\ DOMAIN rows = 1..Len(rows)
  BY DEF TablesInv
<1>2. \A k \in DOMAIN rows: rows[k] \in Rows
  BY DEF TablesInv
<1>3. \A k \in DOMAIN rows: Pos(rows[k]) = k
  BY DEF TablesInv, Pos
<1>4. \A r \in Stored: r \in Rows /\ Pos(r) \in DOMAIN rows /\ rows[Pos(r)] = r
  BY <1>2, <1>3 DEF Stored, ToSet
<1>5. \A a, b \in Stored: a.id = b.id \/ Pos(a) = Pos(b) => a = b
  <2> SUFFICES ASSUME NEW a \in Stored, NEW b \in Stored, a.id = b.id \/ Pos(a) = Pos(b) PROVE a = b
    OBVIOUS
  <2>1. rows[Pos(a)] = a /\ rows[Pos(b)] = b /\ Pos(a) \in DOMAIN rows /\ Pos(b) \in DOMAIN rows
    BY <1>4
  <2> QED BY <2>1 DEF TablesInv
<1> QED BY <1>1, <1>2, <1>3, <1>4, <1>5

\* A table has finitely many rows.
LEMMA StoredFinite ==
  ASSUME TablesInv
  PROVE  IsFiniteSet(Stored) /\ Cardinality(Stored) \in Nat /\ Cardinality(Stored) <= Len(rows)
<1> DEFINE f == [k \in 1..Len(rows) |-> rows[k]]
<1>1. Len(rows) \in Nat /\ DOMAIN rows = 1..Len(rows)
  BY TableFacts
<1>2. f \in Surjection(1..Len(rows), Stored)
  BY <1>1 DEF Surjection, Stored, ToSet
<1>3. IsFiniteSet(1..Len(rows)) /\ Cardinality(1..Len(rows)) = Len(rows)
  <2>1. 1 \in Int /\ Len(rows) \in Int BY <1>1
  <2>2. /\ IsFiniteSet(1..Len(rows))
        /\ Cardinality(1..Len(rows)) = IF 1 > Len(rows) THEN 0 ELSE Len(rows) - 1 + 1
    BY <2>1, FS_Interval
  <2> QED BY <1>1, <2>2
<1> HIDE DEF f
<1>4. IsFiniteSet(Stored) /\ Cardinality(Stored) <= Len(rows)
  BY <1>2, <1>3, FS_Surjection
<1> QED BY <1>4, FS_CardinalityType

\* And so has any choice of them.
LEMMA SomeFinite ==
  ASSUME TablesInv, NEW some \in SUBSET Stored
  PROVE  /\ IsFiniteSet(some) /\ Cardinality(some) \in Nat
         /\ Cardinality(some) <= Cardinality(Stored) /\ Cardinality(some) <= Len(rows)
<1>1. IsFiniteSet(some) /\ Cardinality(some) <= Cardinality(Stored)
  BY StoredFinite, FS_Subset
<1>2. Cardinality(some) \in Nat
  BY <1>1, FS_CardinalityType
<1>3. Len(rows) \in Nat BY TableFacts
<1> QED BY <1>1, <1>2, <1>3, StoredFinite

\* What LIMIT gives.
LEMMA TopsSize ==
  ASSUME NEW some, IsFiniteSet(some), NEW n \in Nat, NEW tokens, NEW ties,
         NEW top \in Tops(tokens, some, n, ties)
  PROVE  /\ top \subseteq some /\ IsFiniteSet(top) /\ Cardinality(some) \in Nat
         /\ Cardinality(top) = IF n <= Cardinality(some) THEN n ELSE Cardinality(some)
         /\ Cardinality(some) <= n => top = some
         /\ \A o \in some \ top, a \in top: ~Precedes(tokens, o, a, ties)
<1>1. /\ top \in SUBSET some /\ Cardinality(top) = Min({n, Cardinality(some)})
      /\ \A a \in top, o \in some \ top: ~Precedes(tokens, o, a, ties)
  BY DEF Tops, kSubset
<1>2. Cardinality(some) \in Nat /\ IsFiniteSet(top)
  BY <1>1, FS_CardinalityType, FS_Subset
<1>3. Min({n, Cardinality(some)}) = IF n <= Cardinality(some) THEN n ELSE Cardinality(some)
  BY <1>2, MinOfTwo
<1>4. Cardinality(top) = Cardinality(some) => top = some
  BY <1>1, FS_Subset
<1> QED BY <1>1, <1>2, <1>3, <1>4

\* The first rows of an order leave out no row that comes before one of them.
LEMMA TopsComplete ==
  ASSUME NEW some, IsFiniteSet(some), NEW n \in Nat, NEW tokens, NEW ties,
         NEW top \in Tops(tokens, some, n, ties)
  PROVE  Complete(top, some, tokens, n)
<1>1. some \ top # {} => Cardinality(top) >= n
  BY TopsSize
<1>2. \A o \in some \ top, a \in top: ~Newer(tokens, o, a)
  BY TopsSize DEF Precedes, Before
<1> QED BY <1>1, <1>2, TopsSize DEF Complete

-----------------------------------------------------------------------------
(* Searches of results.                                                      *)

\* Without words of a query rows are ordered by their times.
LEMMA NewerByTime ==
  ASSUME NEW a, NEW b
  PROVE  Newer({}, a, b) <=> a.time > b.time
<1>1. Cardinality({} \cap a.words) = 0 /\ Cardinality({} \cap b.words) = 0
  BY FS_EmptySet
<1> QED BY <1>1 DEF Newer

\* The order of the rows of a results search.
LEMMA OldestOrder ==
  ASSUME TablesInv, NEW some \in SUBSET Stored
  PROVE  /\ \A a \in some: ~Precedes({}, a, a, "oldest")
         /\ \A a, b, c \in some: Precedes({}, a, b, "oldest") /\ Precedes({}, b, c, "oldest")
              => Precedes({}, a, c, "oldest")
         /\ \A a, b \in some: Newer({}, a, b) => Precedes({}, a, b, "oldest")
<1>1. \A a \in some: a.time \in Nat /\ Pos(a) \in Nat
  <2> SUFFICES ASSUME NEW a \in some PROVE a.time \in Nat /\ Pos(a) \in Nat OBVIOUS
  <2>1. a \in Rows /\ Pos(a) \in DOMAIN rows
    BY TableFacts
  <2> QED BY <2>1, TableFacts DEF Rows
<1>2. \A a, b \in some: Precedes({}, a, b, "oldest")
        <=> a.time > b.time \/ (backend = "sqlite" /\ ~(b.time > a.time) /\ Pos(a) < Pos(b))
  BY NewerByTime DEF Precedes, Before
<1> QED BY <1>1, <1>2, NewerByTime

\* _matches_filter admits what the filter says.
LEMMA SatisfiesMatches ==
  ASSUME NEW v, NEW f \in {g \in Filters: g # None => g.op # "other"}
  PROVE  /\ Satisfies(v, f) <=> MatchesFilter(v, f)
         /\ Satisfies(v, f) <=> MatchesJsonbFilter(v, f)
<1>1. CASE f = None
  BY <1>1 DEF Satisfies, MatchesFilter, MatchesJsonbFilter
<1>2. CASE f # None
  <2>1. f.op \in {"$gt", "$lte", "$eq"} /\ f.target \in Numbers
    BY <1>2 DEF Filters, Comparisons
  <2>2. None \notin Numbers BY QueriesAssumption
  <2>3. f.op = "$gt" => (Satisfies(v, f) <=> v \in Numbers /\ v > f.target)
    BY <1>2 DEF Satisfies
  <2>4. f.op = "$lte" => (Satisfies(v, f) <=> v \in Numbers /\ v <= f.target)
    BY <1>2 DEF Satisfies
  <2>5. f.op = "$eq" => (Satisfies(v, f) <=> v = f.target)
    BY <1>2 DEF Satisfies
  <2> QED BY <1>2, <2>1, <2>2, <2>3, <2>4, <2>5 DEF MatchesFilter, MatchesJsonbFilter
<1> QED BY <1>1, <1>2

\* The loop over the cursor.
LEMMA ScanComplete ==
  ASSUME TablesInv, NEW named \in SUBSET Stored, NEW f, NEW limit \in Nat,
         Scan(named, f, limit) # Failed
  PROVE  Complete(Scan(named, f, limit), {r \in named: MatchesFilter(r.value, f)}, {},
                  IF Cardinality(named) > MaxScan THEN 0 ELSE limit)
<1> DEFINE hits == {r \in named: MatchesFilter(r.value, f)}
           m == Max({limit, 1})
           all == [r \in named |-> {o \in named: Precedes({}, o, r, "oldest")}]
           ahead == [r \in hits |-> {o \in hits: Precedes({}, o, r, "oldest")}]
           answer == {r \in hits: Cardinality(all[r]) < MaxScan /\ Cardinality(ahead[r]) < m}
<1>1. Scan(named, f, limit) = answer
  <2>1. Scan(named, f, limit) = hits \cap {r \in named: /\ Cardinality({o \in named: Precedes({}, o, r, "oldest")}) < MaxScan
                                                       /\ Cardinality({o \in hits: Precedes({}, o, r, "oldest")}) < m}
    BY DEF Scan
  <2> QED BY <2>1
<1>2. m \in Nat /\ m >= limit
  <2>1. 1 \in Nat OBVIOUS
  <2>2. Max({limit, 1}) \in {limit, 1} /\ Max({limit, 1}) >= limit
    BY <2>1, MinOfTwo
  <2> HIDE DEF hits, all, ahead, answer
  <2> QED BY <2>1, <2>2
<1>3. hits \in SUBSET Stored OBVIOUS
<1>4. /\ IsFiniteSet(named) /\ Cardinality(named) \in Nat
      /\ IsFiniteSet(hits) /\ IsFiniteSet(answer) /\ Cardinality(answer) \in Nat
  <2> answer \in SUBSET Stored OBVIOUS
  <2> HIDE DEF hits, answer
  <2> QED BY <1>3, SomeFinite
<1>5. \A r \in named: /\ IsFiniteSet(all[r]) /\ Cardinality(all[r]) \in Nat
                      /\ Cardinality(all[r]) < Cardinality(named)
  <2> SUFFICES ASSUME NEW r \in named
               PROVE  /\ IsFiniteSet(all[r]) /\ Cardinality(all[r]) \in Nat
                      /\ Cardinality(all[r]) < Cardinality(named)
    OBVIOUS
  <2>1. all[r] \in SUBSET named /\ r \notin all[r]
    BY OldestOrder
  <2>2. all[r] # named BY <2>1
  <2> HIDE DEF all
  <2> QED BY <2>1, <2>2, <1>4, FS_Subset, FS_CardinalityType
<1>6. \A r \in hits: IsFiniteSet(ahead[r]) /\ Cardinality(ahead[r]) \in Nat
  <2> SUFFICES ASSUME NEW r \in hits PROVE IsFiniteSet(ahead[r]) /\ Cardinality(ahead[r]) \in Nat
    OBVIOUS
  <2>1. ahead[r] \in SUBSET hits OBVIOUS
  <2> HIDE DEF ahead, hits
  <2> QED BY <2>1, <1>4, FS_Subset, FS_CardinalityType
<1>7. /\ ahead \in [hits -> SUBSET hits]
      /\ \A a \in hits: a \notin ahead[a]
      /\ \A a, b \in hits: b \in ahead[a] => ahead[b] \subseteq ahead[a]
  BY OldestOrder
<1>8. \A a, b \in hits: Newer({}, a, b) =>
        /\ all[a] \subseteq all[b] /\ ahead[a] \subseteq ahead[b]
  BY OldestOrder
<1>9. ASSUME NEW o \in hits \ answer, NEW a \in answer, Newer({}, o, a) PROVE FALSE
  <2>1. all[o] \subseteq all[a] /\ ahead[o] \subseteq ahead[a]
    BY <1>8, <1>9
  <2>2. Cardinality(all[o]) <= Cardinality(all[a]) /\ Cardinality(ahead[o]) <= Cardinality(ahead[a])
    <3> HIDE DEF all, ahead
    <3> QED BY <2>1, <1>5, <1>6, FS_Subset
  <2>3. Cardinality(all[o]) < MaxScan /\ Cardinality(ahead[o]) < m
    <3> HIDE DEF all, ahead, m
    <3> QED BY <2>2, <1>2, <1>5, <1>6, QueriesAssumption
  <2> QED BY <2>3
<1>10. ASSUME Cardinality(named) <= MaxScan, hits \ answer # {}
       PROVE  Cardinality(answer) >= limit
  <2>1. answer = {r \in hits: Cardinality(ahead[r]) < m}
    <3> HIDE DEF ahead, m, all
    <3> QED BY <1>5, <1>10, <1>4, QueriesAssumption
  <2>2. \/ {r \in hits: Cardinality(ahead[r]) < m} = hits
        \/ Cardinality({r \in hits: Cardinality(ahead[r]) < m}) >= m
    <3> HIDE DEF ahead, m, hits
    <3> QED BY <1>2, <1>4, <1>7, FirstFew
  <2> HIDE DEF answer, m, hits, ahead
  <2> QED BY <1>2, <1>4, <1>10, <2>1, <2>2
<1>11. answer \subseteq hits OBVIOUS
<1> HIDE DEF answer, hits, all, ahead, m
<1>12. Complete(answer, hits, {}, IF Cardinality(named) > MaxScan THEN 0 ELSE limit)
  <2>1. MaxScan \in Nat BY QueriesAssumption
  <2> QED BY <1>4, <1>9, <1>10, <1>11, <2>1 DEF Complete
<1> QED BY <1>1, <1>12 DEF hits

\* search_results, as each database answers it.
LEMMA SearchesAreComplete ==
  ASSUME TablesInv, NEW name \in Owners \cup {None}, NEW limit \in Limits,
         NEW f \in {g \in Filters: g # None => g.op # "other"}
  PROVE  LET named == Named(name)
             wanted == {r \in named: Satisfies(r.value, f)}
         IN  /\ IsFiniteSet(wanted) /\ Cardinality(named) \in Nat
             /\ \A answer \in SearchSQLite(name, f, limit) \ {Failed}:
                  Complete(answer, wanted, {}, IF Cardinality(named) > MaxScan THEN 0 ELSE limit)
             /\ \A answer \in SearchPostgreSQL(name, f, limit) \ {Failed}:
                  Complete(answer, wanted, {}, limit)
<1> DEFINE named == Named(name)
           wanted == {r \in named: Satisfies(r.value, f)}
           most == IF Cardinality(named) > MaxScan THEN 0 ELSE limit
<1>1. /\ named \in SUBSET Stored /\ wanted \in SUBSET Stored
      /\ limit \in Nat /\ MaxScan \in Nat
  BY QueriesAssumption DEF Named
<1>2. /\ IsFiniteSet(named) /\ Cardinality(named) \in Nat
      /\ IsFiniteSet(wanted) /\ Cardinality(wanted) \in Nat
      /\ Cardinality(wanted) <= Cardinality(named)
  <2>1. wanted \in SUBSET named OBVIOUS
  <2> HIDE DEF named, wanted
  <2> QED BY <1>1, <2>1, SomeFinite, FS_Subset
<1>3. ASSUME f = None, NEW answer \in SearchSQLite(name, f, limit)
      PROVE  Complete(answer, wanted, {}, most)
  <2>1. wanted = named
    BY <1>3 DEF Satisfies
  <2> DEFINE n == Min({limit, MaxScan})
  <2>2. answer \in Tops({}, named, n, "oldest")
    BY <1>3 DEF SearchSQLite
  <2>3. n = IF limit <= MaxScan THEN limit ELSE MaxScan
    BY <1>1, MinOfTwo
  <2>4. n \in Nat
    BY <1>1, <2>3
  <2> HIDE DEF n, named, wanted
  <2>5. Complete(answer, named, {}, n)
    BY <1>2, <2>2, <2>4, TopsComplete
  <2>6. Cardinality(answer) = IF n <= Cardinality(named) THEN n ELSE Cardinality(named)
    BY <1>2, <2>2, <2>4, TopsSize
  <2>7. Cardinality(named) <= n => answer = named
    BY <1>2, <2>2, <2>4, TopsSize
  <2>8. named \ answer # {} => Cardinality(answer) >= most
    BY <1>1, <1>2, <2>3, <2>4, <2>6, <2>7
  <2> QED BY <2>1, <2>5, <2>8 DEF Complete
<1>4. ASSUME f # None, NEW answer \in SearchSQLite(name, f, limit) \ {Failed}
      PROVE  Complete(answer, wanted, {}, most)
  <2>1. answer = Scan(named, f, limit) /\ answer # Failed
    BY <1>4 DEF SearchSQLite
  <2>2. wanted = {r \in named: MatchesFilter(r.value, f)}
    BY SatisfiesMatches
  <2> HIDE DEF named, wanted
  <2> QED BY <1>1, <1>4, <2>1, <2>2, ScanComplete
<1>5. ASSUME NEW answer \in SearchPostgreSQL(name, f, limit) \ {Failed}
      PROVE  Complete(answer, wanted, {}, limit)
  <2>1. answer \in Tops({}, {r \in named: MatchesJsonbFilter(r.value, f)}, limit, None)
    BY <1>5 DEF SearchPostgreSQL
  <2>2. wanted = {r \in named: MatchesJsonbFilter(r.value, f)}
    BY SatisfiesMatches
  <2>3. answer \in Tops({}, wanted, limit, None)
    BY <2>1, <2>2
  <2> HIDE DEF named, wanted
  <2> QED BY <1>1, <1>2, <2>3, TopsComplete
<1> HIDE DEF named, wanted
<1>6. \A answer \in SearchSQLite(name, f, limit) \ {Failed}: Complete(answer, wanted, {}, most)
  BY <1>3, <1>4
<1> QED BY <1>2, <1>5, <1>6 DEF named, wanted

LEMMA ResultsAreComplete ==
  ASSUME TablesInv
  PROVE  ResultsComplete
<1> SUFFICES ASSUME NEW name \in Owners \cup {None}, NEW limit \in Limits,
                    NEW f \in {g \in Filters: g # None => g.op # "other"},
                    NEW answer \in SearchResults(name, f, limit) \ {Failed}
             PROVE  Complete(answer, {r \in Named(name): Satisfies(r.value, f)}, {},
                             IF Cardinality(Named(name)) > MaxScan THEN 0 ELSE limit)
  BY DEF ResultsComplete, Named
<1> DEFINE wanted == {r \in Named(name): Satisfies(r.value, f)}
<1>1. limit \in Nat /\ IsFiniteSet(wanted)
  BY QueriesAssumption, SearchesAreComplete
<1>2. CASE backend = "sqlite"
  BY <1>2, SearchesAreComplete DEF SearchResults
<1>3. CASE backend # "sqlite"
  <2>1. Complete(answer, wanted, {}, limit)
    BY <1>3, SearchesAreComplete DEF SearchResults
  <2> HIDE DEF wanted
  <2>2. Cardinality(answer) \in Nat
    BY <1>1, <2>1, FS_Subset, FS_CardinalityType DEF Complete
  <2>3. Complete(answer, wanted, {}, IF Cardinality(Named(name)) > MaxScan THEN 0 ELSE limit)
    BY <1>1, <2>1, <2>2 DEF Complete
  <2> QED BY <2>3 DEF wanted
<1> QED BY <1>2, <1>3

\* Two complete answers are the same if one is short of the limit.
LEMMA ShortAnswersAgree ==
  ASSUME NEW wanted, IsFiniteSet(wanted), NEW limit \in Nat, NEW a, NEW b,
         Complete(a, wanted, {}, limit), Complete(b, wanted, {}, limit),
         Cardinality(a) < limit
  PROVE  a = b
<1>1. \A top: Complete(top, wanted, {}, limit) =>
        top \subseteq wanted /\ (wanted \ top # {} => Cardinality(top) >= limit)
  BY DEF Complete
<1>2. a \subseteq wanted /\ b \subseteq wanted
  BY <1>1
<1>3. Cardinality(a) \in Nat /\ Cardinality(b) \in Nat
  BY <1>2, FS_Subset, FS_CardinalityType
<1>4. ~ (Cardinality(a) >= limit)
  BY <1>3
<1>5. a = wanted
  BY <1>1, <1>2, <1>4
<1>6. Cardinality(b) <= Cardinality(a)
  BY <1>2, <1>5, FS_Subset
<1>7. ~ (Cardinality(b) >= limit)
  BY <1>3, <1>6
<1>8. b = wanted
  BY <1>1, <1>2, <1>7
<1> QED BY <1>5, <1>8

\* search compares the tags with the first rows that qualify.
LEMMA TaggedComplete ==
  ASSUME NEW found, IsFiniteSet(found), NEW tokens, NEW tags, NEW ties, NEW limit \in Nat,
         NEW top \in Tops(tokens, found, limit, ties)
  PROVE  /\ Complete(Tagged(top, tags), Tagged(found, tags), tokens, IF tags = {} THEN limit ELSE 0)
         /\ \A o \in Tagged(found, tags) \ Tagged(top, tags):
              Cardinality({r \in found \ {o}: ~Newer(tokens, o, r)}) >= limit
<1> DEFINE answer == Tagged(top, tags)
           wanted == Tagged(found, tags)
<1>1. /\ Complete(top, found, tokens, limit) /\ top \subseteq found
      /\ IsFiniteSet(top) /\ Cardinality(top) \in Nat
  <2>1. Complete(top, found, tokens, limit) BY TopsComplete
  <2>2. top \subseteq found BY <2>1 DEF Complete
  <2> QED BY <2>1, <2>2, FS_Subset, FS_CardinalityType
<1>2. answer \subseteq wanted /\ answer \subseteq top /\ \A o \in wanted \ answer: o \in found \ top
  BY <1>1 DEF Tagged
<1>3. \A o \in wanted \ answer, a \in answer: ~Newer(tokens, o, a)
  BY <1>1, <1>2 DEF Complete
<1>4. Complete(answer, wanted, tokens, IF tags = {} THEN limit ELSE 0)
  <2>1. CASE tags = {}
    <3>1. answer = top /\ wanted = found BY <2>1 DEF Tagged
    <3> QED BY <1>1, <2>1, <3>1
  <2>2. CASE tags # {}
    <3>1. Cardinality(answer) \in Nat
      BY <1>1, <1>2, FS_Subset, FS_CardinalityType
    <3> HIDE DEF answer, wanted
    <3> QED BY <1>2, <1>3, <2>2, <3>1 DEF Complete
  <2> QED BY <2>1, <2>2
<1>5. ASSUME NEW o \in wanted \ answer
      PROVE  Cardinality({r \in found \ {o}: ~Newer(tokens, o, r)}) >= limit
  <2> DEFINE ahead == {r \in found \ {o}: ~Newer(tokens, o, r)}
  <2>1. o \in found \ top BY <1>2, <1>5
  <2>2. Cardinality(top) >= limit BY <1>1, <2>1 DEF Complete
  <2>3. top \subseteq ahead BY <1>1, <2>1 DEF Complete
  <2>4. ahead \in SUBSET found OBVIOUS
  <2> HIDE DEF ahead
  <2>5. IsFiniteSet(ahead) /\ Cardinality(ahead) \in Nat
    BY <2>4, FS_Subset, FS_CardinalityType
  <2>6. Cardinality(top) <= Cardinality(ahead)
    BY <2>3, <2>5, FS_Subset
  <2> QED BY <1>1, <2>2, <2>5, <2>6 DEF ahead
<1> QED BY <1>4, <1>5

\* search, CatalogClient.search and get_simulation.
LEMMA CatalogIsComplete ==
  ASSUME TablesInv
  PROVE  CatalogComplete
<1>1. ASSUME NEW text, NEW tags, NEW status, NEW limit \in Limits,
             NEW answer \in SearchSimulations(text, tags, status, limit)
      PROVE  CompleteButTags(answer, text, tags, status, limit)
  <2> DEFINE words == {text[k]: k \in DOMAIN text} \ {Short}
             qualify == {r \in Stored: /\ status \in {"all", r.status}
                                       /\ words # {} => \E w \in words: w \in r.words}
             wanted == {r \in qualify: tags # {} => \E w \in tags: w \in r.tags}
             ties == IF words = {} /\ status = "all" THEN "newest" ELSE "oldest"
  <2>1. words = SearchTokens(text)
    BY DEF SearchTokens, ToSet
  <2>2. PICK top \in Tops(words, Found(words, status), limit, ties): answer = Tagged(top, tags)
    BY <2>1 DEF SearchSimulations
  <2> HIDE DEF words
  <2>3. qualify = Found(words, status)
    BY DEF Found, Recalled
  <2> HIDE DEF ties
  <2>4. qualify \in SUBSET Stored /\ limit \in Nat
    BY QueriesAssumption
  <2> HIDE DEF qualify
  <2>5. IsFiniteSet(qualify)
    BY <2>4, SomeFinite
  <2>6. wanted = Tagged(qualify, tags)
    BY DEF Tagged
  <2> HIDE DEF wanted
  <2>7. /\ Complete(answer, wanted, words, IF tags = {} THEN limit ELSE 0)
        /\ \A o \in wanted \ answer: Cardinality({r \in qualify \ {o}: ~Newer(words, o, r)}) >= limit
    BY <2>2, <2>3, <2>4, <2>5, <2>6, TaggedComplete
  <2> QED BY <2>7 DEF words, qualify, wanted, CompleteButTags
<1>2. \A text, tags, status, limit:
        status # "all" => ClientSearch(text, tags, status, limit) = SearchSimulations(text, tags, status, limit)
  BY DEF ClientSearch
<1>3. \A text, tags, status, limit:
        \A answer \in SearchSimulations(text, tags, status, limit)
                     \cup IF status = "all" THEN {} ELSE ClientSearch(text, tags, status, limit):
          answer \in SearchSimulations(text, tags, status, limit)
  BY <1>2
<1>4. \A answer \in Latest: Complete(answer, Stored, {}, 1)
  BY StoredFinite, TopsComplete DEF Latest
<1> QED BY <1>1, <1>3, <1>4 DEF CatalogComplete

\* get_provenance.
LEMMA ProvenanceIsComplete ==
  ASSUME TablesInv
  PROVE  ProvenanceComplete
<1> SUFFICES ASSUME NEW session \in Owners, NEW limit \in Limits
             PROVE  LET answer == GetProvenance(session, limit)
                        omitted == {r \in Stored: r.name = session} \ answer
                    IN  /\ omitted # {} => Cardinality(answer) >= Min({limit, MaxAnswer})
                        /\ \A o \in omitted, a \in answer: Pos(a) < Pos(o)
  BY DEF ProvenanceComplete
<1> DEFINE log == {r \in Stored: r.name = session}
           least == Min({limit, MaxAnswer})
           m == Max({1, least})
           before == [r \in log |-> {o \in log: Pos(o) < Pos(r)}]
           answer == {r \in log: Cardinality(before[r]) < m}
<1>1. GetProvenance(session, limit) = answer
  BY DEF GetProvenance
<1>2. m \in Nat /\ m >= least /\ least \in Nat
  <2>1. limit \in Nat /\ MaxAnswer \in Nat BY QueriesAssumption
  <2>2. least \in Nat BY <2>1, MinOfTwo
  <2> HIDE DEF least
  <2>3. m = IF 1 <= least THEN least ELSE 1
    BY <2>2, MinOfTwo
  <2> HIDE DEF m
  <2> QED BY <2>2, <2>3
<1>3. IsFiniteSet(log)
  BY SomeFinite
<1>4. \A r \in log: Pos(r) \in Nat
  BY TableFacts
<1>5. /\ before \in [log -> SUBSET log]
      /\ \A a \in log: a \notin before[a]
      /\ \A a, b \in log: b \in before[a] => before[b] \subseteq before[a]
  BY <1>4
<1>6. answer = log \/ Cardinality(answer) >= m
  <2> HIDE DEF log, before, m
  <2> QED BY <1>2, <1>3, <1>5, FirstFew
<1>7. Cardinality(answer) \in Nat
  BY SomeFinite
<1>8. ASSUME NEW o \in log \ answer, NEW a \in answer PROVE Pos(a) < Pos(o)
  <2> SUFFICES ASSUME Pos(o) <= Pos(a) PROVE FALSE BY <1>4
  <2>1. before[o] \subseteq before[a]
    BY <1>4
  <2>2. IsFiniteSet(before[a]) /\ before[o] \in SUBSET before[a]
    BY <2>1, SomeFinite
  <2>3. /\ Cardinality(before[o]) <= Cardinality(before[a])
        /\ Cardinality(before[o]) \in Nat /\ Cardinality(before[a]) \in Nat
    <3> HIDE DEF before
    <3> QED BY <2>2, FS_Subset, FS_CardinalityType
  <2>4. Cardinality(before[a]) < m /\ ~(Cardinality(before[o]) < m)
    OBVIOUS
  <2> HIDE DEF before, m
  <2> QED BY <1>2, <2>3, <2>4
<1>9. log \ answer # {} => Cardinality(answer) >= least
  <2> HIDE DEF answer, log, m, least
  <2> QED BY <1>2, <1>6, <1>7
<1> HIDE DEF answer, least
<1> QED BY <1>1, <1>8, <1>9 DEF least

-----------------------------------------------------------------------------
(* The statistics.                                                           *)

\* max(...) is one of the values, and none exceeds it.
LEMMA Greatest ==
  ASSUME NEW S, IsFiniteSet(S), S # {}, \A r \in S: r.value \in Int
  PROVE  /\ Max({r.value: r \in S}) \in {r.value: r \in S}
         /\ \A r \in S: r.value <= Max({o.value: o \in S})
<1> DEFINE before == [r \in S |-> {o \in S: o.value > r.value}]
<1>1. /\ before \in [S -> SUBSET S]
      /\ \A a \in S: a \notin before[a]
      /\ \A a, b \in S: b \in before[a] => before[b] \subseteq before[a]
  OBVIOUS
<1>2. S \in SUBSET S OBVIOUS
<1>3. \E r \in S: before[r] \cap S = {}
  <2> HIDE DEF before
  <2> QED BY <1>1, <1>2, FirstElement
<1> PICK r \in S: before[r] \cap S = {}
  BY <1>3
<1>4. \A o \in S: o.value <= r.value
  OBVIOUS
<1> DEFINE all == {o.value: o \in S}
<1>5. r.value \in all /\ \A y \in all: r.value >= y
  BY <1>4
<1>6. Max(all) \in all /\ \A y \in all: Max(all) >= y
  <2> HIDE DEF all
  <2> QED BY <1>5 DEF Max
<1> QED BY <1>6

\* get_parameter_stats counts what a search up to its maximum finds.
LEMMA StatsOfParameter ==
  ASSUME TablesInv, NEW name \in Owners, ParameterStats(name).count > 0, Len(rows) <= MaxScan,
         NEW answer \in SearchResults(name, [op |-> "$lte", target |-> ParameterStats(name).max], Len(rows)),
         answer # Failed
  PROVE  Cardinality(answer) = ParameterStats(name).count
<1> DEFINE counted == {r \in Stored: r.name = name /\ r.value \in Numbers}
           max == Max({r.value: r \in counted})
           f == [op |-> "$lte", target |-> max]
           all == Len(rows)
           named == Named(name)
<1>1. /\ IsFiniteSet(counted) /\ Cardinality(counted) \in Nat /\ Cardinality(counted) <= all
      /\ IsFiniteSet(named) /\ Cardinality(named) \in Nat /\ Cardinality(named) <= all
  <2>1. counted \in SUBSET Stored /\ named \in SUBSET Stored
    BY DEF Named
  <2> HIDE DEF counted, named
  <2> QED BY <2>1, SomeFinite
<1>2. ParameterStats(name).count = Cardinality(counted) /\ counted # {}
  <2>1. ParameterStats(name).count = Cardinality(counted)
    BY DEF ParameterStats
  <2>2. counted # {}
    BY <2>1, FS_EmptySet
  <2> QED BY <2>1, <2>2
<1>3. ParameterStats(name).max = max
  BY <1>2 DEF ParameterStats
<1>4. \A r \in counted: r.value \in Int
  BY QueriesAssumption
<1>5. max \in Int /\ \A r \in counted: r.value <= max
  <2> HIDE DEF counted
  <2> QED BY <1>1, <1>2, <1>4, Greatest
<1>6. f # None /\ f.op = "$lte" /\ f.target = max
  <2>1. max \in Numbers
    <3>1. max \in {r.value: r \in counted}
      <4> HIDE DEF counted
      <4> QED BY <1>1, <1>2, <1>4, Greatest
    <3> HIDE DEF max
    <3> QED BY <3>1
  <2> HIDE DEF max
  <2>2. f \in Comparisons BY <2>1 DEF Comparisons
  <2> QED BY <2>2, QueriesAssumption
<1>7. counted = {r \in named: MatchesFilter(r.value, f)} /\ counted = {r \in named: MatchesJsonbFilter(r.value, f)}
  <2>1. \A r \in named: MatchesFilter(r.value, f) <=> r.value \in Numbers
    <3> SUFFICES ASSUME NEW r \in named PROVE MatchesFilter(r.value, f) <=> r.value \in Numbers
      OBVIOUS
    <3>1. MatchesFilter(r.value, f) <=> r.value \in Numbers /\ r.value <= max
      BY <1>6 DEF MatchesFilter
    <3>2. named \subseteq Stored /\ None # name /\ r.name = name
      BY QueriesAssumption DEF Named
    <3> QED BY <3>1, <3>2, <1>5
  <2>2. None \notin Numbers BY QueriesAssumption
  <2>3. \A r \in named: MatchesJsonbFilter(r.value, f) <=> r.value \in Numbers
    BY <1>6, <2>1, <2>2 DEF MatchesJsonbFilter
  <2>4. counted = {r \in named: r.value \in Numbers}
    BY QueriesAssumption DEF Named
  <2> QED BY <2>1, <2>3, <2>4
<1>8. all \in Nat /\ MaxScan \in Nat
  BY TableFacts, QueriesAssumption
<1> HIDE DEF max, f, all
<1>9. answer \in SearchResults(name, f, all)
  BY <1>3 DEF f, all
<1>10. CASE backend = "sqlite"
  <2>1. answer = Scan(named, f, all)
    BY <1>6, <1>9, <1>10 DEF SearchResults, SearchSQLite
  <2> DEFINE ahead(some, r) == {o \in some: Precedes({}, o, r, "oldest")}
             m == Max({all, 1})
  <2>2. answer = counted \cap {r \in named: Cardinality(ahead(named, r)) < MaxScan /\ Cardinality(ahead(counted, r)) < m}
    BY <1>7, <2>1 DEF Scan
  <2>3. m \in Nat /\ m >= all
    <3>0. all \in Int /\ 1 \in Int BY <1>8
    <3>1. m = IF all <= 1 THEN 1 ELSE all
      BY <3>0, MinOfTwo
    <3> QED BY <1>8, <3>1
  <2>4. ASSUME NEW r \in counted
        PROVE  r \in named /\ Cardinality(ahead(named, r)) < MaxScan /\ Cardinality(ahead(counted, r)) < m
    <3>1. r \in named /\ named \in SUBSET Stored
      BY <1>7 DEF Named
    <3>2. r \notin ahead(named, r) /\ r \notin ahead(counted, r)
      BY <3>1, <1>10, OldestOrder
    <3>3. ahead(named, r) \in SUBSET named /\ ahead(counted, r) \in SUBSET counted
      OBVIOUS
    <3>4. ahead(named, r) # named /\ ahead(counted, r) # counted
      BY <3>1, <3>2
    <3> HIDE DEF ahead, m, named, counted
    <3>5. /\ Cardinality(ahead(named, r)) < Cardinality(named)
          /\ Cardinality(ahead(counted, r)) < Cardinality(counted)
          /\ Cardinality(ahead(named, r)) \in Nat /\ Cardinality(ahead(counted, r)) \in Nat
      BY <1>1, <3>3, <3>4, FS_Subset, FS_CardinalityType
    <3> QED BY <1>1, <1>8, <2>3, <3>1, <3>5 DEF all
  <2>5. answer = counted
    <3> HIDE DEF ahead, m, named, counted
    <3> QED BY <2>2, <2>4
  <2> QED BY <1>2, <2>5
<1>11. CASE backend # "sqlite"
  <2>1. answer \in Tops({}, counted, all, None)
    BY <1>7, <1>9, <1>11 DEF SearchResults, SearchPostgreSQL
  <2> HIDE DEF counted, named
  <2>2. answer = counted
    BY <1>1, <1>8, <2>1, TopsSize
  <2> QED BY <1>2, <2>2 DEF counted
<1> QED BY <1>10, <1>11

\* The statistics count what the searches find.
LEMMA StatisticsAgree ==
  ASSUME TablesInv
  PROVE  StatsAgree
<1> DEFINE all == Len(rows)
<1>1. all \in Nat /\ MaxPageSize \in Nat
  BY TableFacts, QueriesAssumption
<1>2. ASSUME NEW answer \in SearchSimulations(<<>>, {}, "active", all)
      PROVE  Cardinality(answer) = OverviewStats.active_simulations
  <2> DEFINE active == {r \in Stored: r.status = "active"}
  <2>1. SearchTokens(<<>>) = {}
    BY DEF SearchTokens, ToSet
  <2>2. Found({}, "active") = active
    BY DEF Found, Recalled
  <2>3. \A top: Tagged(top, {}) = top
    BY DEF Tagged
  <2>4. answer \in Tops({}, active, all, "oldest")
    BY <2>1, <2>2, <2>3 DEF SearchSimulations
  <2>5. IsFiniteSet(active) /\ Cardinality(active) <= all
    BY SomeFinite
  <2> HIDE DEF active
  <2>6. answer = active
    BY <1>1, <2>4, <2>5, TopsSize
  <2> QED BY <2>6 DEF active, OverviewStats
<1>3. ASSUME all <= MaxPageSize, NEW answer \in ListEntries(all, 0, "valid")
      PROVE  Cardinality(answer) = CacheStats.total_entries
  <2> DEFINE valid == Listed("valid")
             ties == IF "valid" = None THEN "newest" ELSE "oldest"
  <2>1. Min({all, MaxPageSize}) = all
    BY <1>1, <1>3, MinOfTwo
  <2>2. answer \in Pages(valid, all, 0, ties)
    BY <2>1 DEF ListEntries
  <2>3. IsFiniteSet(valid) /\ Cardinality(valid) <= all
    BY SomeFinite DEF Listed
  <2> HIDE DEF valid, ties, all
  <2>4. PICK page \in Tops({}, valid, 0 + all, ties), skipped \in Tops({}, valid, 0, ties): answer = page \ skipped
    BY <2>2 DEF Pages
  <2>5. page = valid
    BY <1>1, <2>3, <2>4, TopsSize
  <2>6. skipped = {}
    <3>1. IsFiniteSet(skipped) /\ Cardinality(skipped) = 0
      BY <2>3, <2>4, TopsSize
    <3> QED BY <3>1, FS_EmptySet
  <2> QED BY <2>4, <2>5, <2>6 DEF CacheStats, valid
<1>4. ASSUME NEW name \in Owners, ParameterStats(name).count > 0, all <= MaxScan,
             NEW answer \in SearchResults(name, [op |-> "$lte", target |-> ParameterStats(name).max], all) \ {Failed}
      PROVE  Cardinality(answer) = ParameterStats(name).count
  BY <1>4, StatsOfParameter
<1> QED BY <1>2, <1>3, <1>4 DEF StatsAgree

\* Whatever the table, the answers read out of it are complete.
LEMMA TablesImply == TablesInv => AnswersComplete
BY ResultsAreComplete, CatalogIsComplete, ProvenanceIsComplete, StatisticsAgree DEF AnswersComplete

-----------------------------------------------------------------------------
(* The table changes.                                                        *)

Table(rs, n) == /\ n \in Nat
                /\ rs \in Seq(Rows)
                /\ \A k \in DOMAIN rs: rs[k].time <= n
                /\ \A j, k \in DOMAIN rs: rs[j].id = rs[k].id => j = k

\* TablesInv, said of any sequence of rows.
LEMMA TableOfInv == TablesInv <=> Table(rows, now)
BY DEF TablesInv, Table

\* What RemoveAt does to a sequence.
LEMMA Removed ==
  ASSUME NEW S, NEW s \in Seq(S), NEW k \in 1..Len(s)
  PROVE  /\ RemoveAt(s, k) \in Seq(S)
         /\ Len(RemoveAt(s, k)) = Len(s) - 1
         /\ \A i \in 1..(Len(s) - 1): RemoveAt(s, k)[i] = IF i < k THEN s[i] ELSE s[i + 1]
<1> DEFINE a == SubSeq(s, 1, k - 1)
           b == SubSeq(s, k + 1, Len(s))
<1>1. Len(s) \in Nat /\ k \in Nat BY LenProperties
<1>2. \A i \in 1..Len(s): s[i] \in S BY ElementOfSeq
<1>3. a \in Seq(S) /\ Len(a) = k - 1 /\ \A i \in 1..(k - 1): a[i] = s[i]
  <2>1. \A i \in 1..(k - 1): s[i] \in S BY <1>1, <1>2
  <2>2. /\ SubSeq(s, 1, k - 1) \in Seq(S)
        /\ Len(SubSeq(s, 1, k - 1)) = IF 1 <= k - 1 THEN k - 1 - 1 + 1 ELSE 0
        /\ \A i \in 1..(k - 1 - 1 + 1): SubSeq(s, 1, k - 1)[i] = s[1 + i - 1]
    BY <1>1, <2>1, SubSeqProperties
  <2> QED BY <1>1, <2>2
<1>4. b \in Seq(S) /\ Len(b) = Len(s) - k /\ \A i \in 1..(Len(s) - k): b[i] = s[i + k]
  <2>1. \A i \in (k + 1)..Len(s): s[i] \in S BY <1>1, <1>2
  <2>2. /\ SubSeq(s, k + 1, Len(s)) \in Seq(S)
        /\ Len(SubSeq(s, k + 1, Len(s))) = IF k + 1 <= Len(s) THEN Len(s) - (k + 1) + 1 ELSE 0
        /\ \A i \in 1..(Len(s) - (k + 1) + 1): SubSeq(s, k + 1, Len(s))[i] = s[k + 1 + i - 1]
    BY <1>1, <2>1, SubSeqProperties
  <2> QED BY <1>1, <2>2
<1>5. RemoveAt(s, k) = a \o b
  BY DEF RemoveAt
<1> HIDE DEF a, b
<1>6. /\ a \o b \in Seq(S) /\ Len(a \o b) = Len(a) + Len(b)
      /\ \A i \in 1..(Len(a) + Len(b)): (a \o b)[i] = IF i <= Len(a) THEN a[i] ELSE b[i - Len(a)]
  BY <1>3, <1>4, ConcatProperties
<1> QED BY <1>1, <1>3, <1>4, <1>5, <1>6

\* A row with a new id goes to the end.
LEMMA AppendRow ==
  ASSUME NEW rs, NEW n, Table(rs, n), NEW row \in Rows, row.time <= n,
         \A k \in DOMAIN rs: rs[k].id # row.id
  PROVE  /\ Table(Append(rs, row), n)
         /\ DOMAIN Append(rs, row) = 1..(Len(rs) + 1)
         /\ \A k \in DOMAIN rs: Append(rs, row)[k] = rs[k]
         /\ Append(rs, row)[Len(rs) + 1] = row
<1>1. Append(rs, row) \in Seq(Rows) /\ Len(rs) \in Nat /\ DOMAIN rs = 1..Len(rs)
  BY DEF Table
<1>2. /\ DOMAIN Append(rs, row) = 1..(Len(rs) + 1)
      /\ \A k \in DOMAIN rs: Append(rs, row)[k] = rs[k]
      /\ Append(rs, row)[Len(rs) + 1] = row
  BY DEF Table
<1> QED BY <1>1, <1>2 DEF Table

\* A row goes, and those after it move up.
LEMMA RemoveRow ==
  ASSUME NEW rs, NEW n, Table(rs, n), NEW k \in DOMAIN rs
  PROVE  /\ Table(RemoveAt(rs, k), n)
         /\ Len(rs) \in Nat /\ DOMAIN rs = 1..Len(rs)
         /\ Len(RemoveAt(rs, k)) = Len(rs) - 1
         /\ DOMAIN RemoveAt(rs, k) = 1..(Len(rs) - 1)
         /\ \A i \in 1..(Len(rs) - 1): RemoveAt(rs, k)[i] = IF i < k THEN rs[i] ELSE rs[i + 1]
         /\ \A i \in DOMAIN RemoveAt(rs, k): RemoveAt(rs, k)[i].id # rs[k].id
<1> DEFINE s == RemoveAt(rs, k)
<1>1. Len(rs) \in Nat /\ DOMAIN rs = 1..Len(rs)
  BY DEF Table
<1>2. /\ s \in Seq(Rows) /\ Len(s) = Len(rs) - 1
      /\ \A i \in 1..(Len(rs) - 1): s[i] = IF i < k THEN rs[i] ELSE rs[i + 1]
  <2>1. rs \in Seq(Rows) /\ k \in 1..Len(rs)
    BY <1>1 DEF Table
  <2> QED BY <2>1, Removed
<1> HIDE DEF s
<1>3. DOMAIN s = 1..(Len(rs) - 1)
  BY <1>1, <1>2
<1> DEFINE at(i) == IF i < k THEN i ELSE i + 1
<1>a. \A i \in DOMAIN s: s[i] = rs[at(i)] /\ at(i) \in DOMAIN rs /\ at(i) # k
  BY <1>1, <1>2, <1>3
<1>b. \A i, j \in DOMAIN s: at(i) = at(j) => i = j
  BY <1>1, <1>3
<1> HIDE DEF at
<1>4. \A i \in DOMAIN s: s[i].time <= n /\ s[i].id # rs[k].id
  BY <1>a DEF Table
<1>5. ASSUME NEW i \in DOMAIN s, NEW j \in DOMAIN s, s[i].id = s[j].id PROVE i = j
  BY <1>a, <1>b, <1>5 DEF Table
<1> QED BY <1>1, <1>2, <1>3, <1>4, <1>5 DEF Table, s

\* A row changes in its place.
LEMMA ReplaceRow ==
  ASSUME NEW rs, NEW n, Table(rs, n), NEW k \in DOMAIN rs, NEW row \in Rows,
         row.time <= n, row.id = rs[k].id
  PROVE  /\ Table([rs EXCEPT ![k] = row], n)
         /\ DOMAIN [rs EXCEPT ![k] = row] = DOMAIN rs
         /\ \A i \in DOMAIN rs: [rs EXCEPT ![k] = row][i] = IF i = k THEN row ELSE rs[i]
<1> DEFINE s == [rs EXCEPT ![k] = row]
<1>1. Len(rs) \in Nat /\ DOMAIN rs = 1..Len(rs)
  BY DEF Table
<1>2. s \in Seq(Rows)
  BY <1>1, ExceptSeq DEF Table
<1>3. DOMAIN s = DOMAIN rs /\ \A i \in DOMAIN rs: s[i] = IF i = k THEN row ELSE rs[i]
  OBVIOUS
<1> HIDE DEF s
<1> QED BY <1>2, <1>3 DEF Table, s

\* The row written for new columns.
LEMMA RowTyped ==
  ASSUME NEW id \in Ids, NEW c \in Columns(kind), NEW t \in Nat
  PROVE  /\ Row(id, c, t) \in Rows
         /\ Row(id, c, t).id = id /\ Row(id, c, t).time = t
         /\ kind = "entries" => Row(id, c, t).status = "valid"
<1>1. /\ c.name \in Owners \cup {None} /\ c.status \in {"completed", "active", "deprecated", "valid"}
      /\ c.value \in Values /\ c.words \in SUBSET Words /\ c.tags \in SUBSET Words
      /\ kind = "entries" => c.status = "valid"
  <2>1. CASE kind = "results"
    <3>1. c \in [name: Owners, status: {"completed"}, value: Values, words: {{}}, tags: {{}}]
      BY <2>1 DEF Columns
    <3> QED BY <2>1, <3>1
  <2>2. CASE kind = "simulations"
    <3>1. /\ c \in [name: {None}, status: {"active", "deprecated"}, value: {None}, words: SUBSET Words, tags: Tags]
          /\ c.tags \subseteq c.words
      BY <2>2 DEF Columns
    <3> QED BY <2>2, <3>1 DEF Values
  <2>3. CASE kind \notin {"results", "simulations"}
    <3>1. c \in [name: {None}, status: {"valid"}, value: {None}, words: {{}}, tags: {{}}]
      BY <2>3 DEF Columns
    <3> QED BY <2>3, <3>1 DEF Values
  <2> QED BY <2>1, <2>2, <2>3
<1> QED BY <1>1 DEF Row, Rows

\* Every change of a table leaves a table.
LEMMA TablesStep ==
  ASSUME TablesInv, QNext \/ UNCHANGED qvars
  PROVE  TablesInv'
<1>0. Table(rows, now)
  BY TableOfInv
<1> SUFFICES Table(rows', now')
  BY DEF Table, TablesInv
<1>r. \A k \in DOMAIN rows: rows[k] \in Rows /\ rows[k].id \in Ids /\ rows[k].time \in Nat /\ rows[k].time <= now
  <2> SUFFICES ASSUME NEW k \in DOMAIN rows
               PROVE  rows[k] \in Rows /\ rows[k].id \in Ids /\ rows[k].time \in Nat /\ rows[k].time <= now
    OBVIOUS
  <2>1. rows[k] \in Rows BY TableFacts
  <2> QED BY <2>1 DEF Rows, TablesInv
<1>1. CASE UNCHANGED qvars
  BY <1>0, <1>1 DEF qvars
<1>2. ASSUME NEW id \in Ids, NEW t \in 1..MaxTime, NEW c \in Columns(kind), Insert(id, c, t)
      PROVE  Table(rows', now')
  <2>1. t \in InsertTimes /\ rows' = Append(rows, Row(id, c, t)) /\ now' = now
    BY <1>2 DEF Insert
  <2>2. \A k \in DOMAIN rows: rows[k].id # id
    BY <1>2 DEF Insert, Stored, ToSet
  <2>3. t \in Nat /\ t <= now
    BY <2>1 DEF InsertTimes, TablesInv
  <2> QED BY <1>0, <2>1, <2>2, <2>3, RowTyped, AppendRow
<1>3. ASSUME NEW k \in DOMAIN rows, NEW c \in Columns(kind), Rewrite(k, c)
      PROVE  Table(rows', now')
  <2>1. now' = now /\ now \in Nat BY <1>3 DEF Rewrite, TablesInv
  <2>2. CASE kind = "entries" /\ backend = "sqlite"
    <3>1. rows' = Append(RemoveAt(rows, k), Row(rows[k].id, c, now))
      BY <1>3, <2>2 DEF Rewrite
    <3>2. Row(rows[k].id, c, now) \in Rows /\ Row(rows[k].id, c, now).id = rows[k].id /\ Row(rows[k].id, c, now).time = now
      BY <1>r, <2>1, RowTyped
    <3>3. Table(RemoveAt(rows, k), now) /\ \A i \in DOMAIN RemoveAt(rows, k): RemoveAt(rows, k)[i].id # rows[k].id
      BY <1>0, RemoveRow
    <3> QED BY <2>1, <3>1, <3>2, <3>3, AppendRow
  <2>3. CASE ~(kind = "entries" /\ backend = "sqlite")
    <3>1. rows' = [rows EXCEPT ![k] = Row(rows[k].id, c, rows[k].time)]
      BY <1>3, <2>3 DEF Rewrite
    <3> DEFINE row == Row(rows[k].id, c, rows[k].time)
    <3>2. row \in Rows /\ row.id = rows[k].id /\ row.time = rows[k].time
      BY <1>r, RowTyped
    <3> HIDE DEF row
    <3>3. Table([rows EXCEPT ![k] = row], now)
      BY <1>0, <1>r, <3>2, ReplaceRow
    <3> QED BY <2>1, <3>1, <3>3 DEF row
  <2> QED BY <2>2, <2>3
<1>4. ASSUME NEW k \in DOMAIN rows, Invalidate(k) PROVE Table(rows', now')
  <2> DEFINE row == [rows[k] EXCEPT !.status = "invalidated"]
  <2>1. rows' = [rows EXCEPT ![k] = row] /\ now' = now
    BY <1>4 DEF Invalidate
  <2>2. row \in Rows /\ row.id = rows[k].id /\ row.time = rows[k].time
    BY <1>r DEF Rows
  <2> HIDE DEF row
  <2> QED BY <1>0, <1>r, <2>1, <2>2, ReplaceRow
<1>5. ASSUME NEW k \in DOMAIN rows, Delete(k) PROVE Table(rows', now')
  BY <1>0, <1>5, RemoveRow DEF Delete
<1>6. ASSUME NEW session \in Owners, NEW n \in 0..MaxEntries, NEW ids \in [1..n -> Ids],
             IsInjective(ids), RecordProvenance(session, ids)
      PROVE  Table(rows', now')
  <2> DEFINE entry(id) == [id |-> id, name |-> session, status |-> "valid", value |-> None,
                           words |-> {}, tags |-> {}, time |-> now]
             new == [k \in 1..Len(ids) |-> entry(ids[k])]
  <2>1. rows' = rows \o new /\ now' = now
    BY <1>6 DEF RecordProvenance
  <2>2. n \in Nat /\ Len(ids) = n /\ ids \in Seq(Ids)
    <3>1. n \in Nat BY QueriesAssumption
    <3> QED BY <3>1
  <2>3. \A r \in Stored: r.id \notin ToSet(ids)
    BY <1>6 DEF RecordProvenance
  <2>4. \A j \in DOMAIN rows, k \in 1..n: rows[j].id # ids[k]
    BY <2>2, <2>3 DEF Stored, ToSet
  <2>5. new \in Seq(Rows) /\ Len(new) = n
    <3>1. \A k \in 1..n: entry(ids[k]) \in Rows
      BY DEF Rows, Values, TablesInv
    <3> HIDE DEF entry
    <3> QED BY <2>2, <3>1
  <2>6. \A k \in 1..n: new[k].id = ids[k] /\ new[k].time = now
    BY <2>2
  <2>7. Len(rows) \in Nat /\ DOMAIN rows = 1..Len(rows) /\ rows \in Seq(Rows)
    BY <1>0 DEF Table
  <2> HIDE DEF new
  <2>8. /\ rows \o new \in Seq(Rows) /\ Len(rows \o new) = Len(rows) + n
        /\ \A i \in 1..(Len(rows) + n): (rows \o new)[i] = IF i <= Len(rows) THEN rows[i] ELSE new[i - Len(rows)]
    BY <2>5, <2>7, ConcatProperties
  <2> DEFINE all == rows \o new
  <2>9. DOMAIN all = 1..(Len(rows) + n)
    BY <2>2, <2>5, <2>7, <2>8
  <2>10. \A i \in DOMAIN all: all[i].time <= now
    <3> SUFFICES ASSUME NEW i \in DOMAIN all PROVE all[i].time <= now OBVIOUS
    <3>1. i <= Len(rows) => all[i] = rows[i] /\ i \in DOMAIN rows
      BY <2>2, <2>7, <2>8, <2>9
    <3>2. i > Len(rows) => all[i] = new[i - Len(rows)] /\ i - Len(rows) \in 1..n
      BY <2>2, <2>7, <2>8, <2>9
    <3> QED BY <1>r, <2>6, <2>7, <2>9, <3>1, <3>2 DEF TablesInv
  <2>11. ASSUME NEW i \in DOMAIN all, NEW j \in DOMAIN all, all[i].id = all[j].id PROVE i = j
    <3>1. \A m \in DOMAIN all: m <= Len(rows) => all[m] = rows[m] /\ m \in DOMAIN rows
      BY <2>2, <2>7, <2>8, <2>9
    <3>2. \A m \in DOMAIN all: m > Len(rows) => all[m] = new[m - Len(rows)] /\ m - Len(rows) \in 1..n
      BY <2>2, <2>7, <2>8, <2>9
    <3>3. CASE i <= Len(rows) /\ j <= Len(rows)
      BY <1>0, <2>11, <3>1, <3>3 DEF Table
    <3>4. CASE i > Len(rows) /\ j > Len(rows)
      <4>1. ids[i - Len(rows)] = ids[j - Len(rows)] /\ i - Len(rows) \in DOMAIN ids /\ j - Len(rows) \in DOMAIN ids
        BY <2>6, <2>11, <3>2, <3>4
      <4>2. i - Len(rows) = j - Len(rows)
        BY <1>6, <4>1 DEF IsInjective
      <4> QED BY <2>2, <2>7, <2>9, <4>2
    <3>5. CASE i <= Len(rows) /\ j > Len(rows)
      BY <2>4, <2>6, <2>11, <3>1, <3>2, <3>5
    <3>6. CASE i > Len(rows) /\ j <= Len(rows)
      BY <2>4, <2>6, <2>11, <3>1, <3>2, <3>6
    <3> QED BY <2>2, <2>7, <2>9, <3>3, <3>4, <3>5, <3>6
  <2> HIDE DEF all
  <2> QED BY <1>0, <2>1, <2>8, <2>10, <2>11 DEF Table, all
<1>7. CASE Tick
  <2>1. now' = now + 1 /\ rows' = rows BY <1>7 DEF Tick
  <2>2. now' \in Nat /\ \A k \in DOMAIN rows': rows'[k].time <= now'
    BY <1>r, <2>1 DEF TablesInv
  <2> QED BY <2>1, <2>2 DEF TablesInv, Table
<1>8. ASSUME NEW size, NEW status, StartSweep(size, status) PROVE Table(rows', now')
  BY <1>0, <1>8 DEF StartSweep
<1>9. CASE CountEntries \/ ReadPage
  BY <1>0, <1>9 DEF CountEntries, ReadPage
<1> QED BY <1>1, <1>2, <1>3, <1>4, <1>5, <1>6, <1>7, <1>8, <1>9 DEF QNext

-----------------------------------------------------------------------------
(* A client reading the list page by page.                                  *)

\* A client without a status reads an SQLite index: rows of one time have an order.
Exact == backend = "sqlite" /\ sweep.status = None

\* The ids of the entries listed before that of x; of one time, all others.
AheadIds(rs, status, exact, x) ==
  {rs[j].id: j \in {i \in DOMAIN rs:
     /\ status \in {None, rs[i].status}
     /\ \E k \in DOMAIN rs: /\ rs[k].id = x /\ i # k
                            /\ \/ rs[i].time > rs[k].time
                               \/ rs[i].time = rs[k].time /\ (exact => i > k)}}

Sweeps == [size: Nat, status: {None, "valid"}, page: Nat, counted: BOOLEAN, total: Nat,
           joined: Nat, found: SUBSET Ids, untouched: SUBSET Ids, deleted: BOOLEAN,
           tied: BOOLEAN, done: BOOLEAN]

\* The untouched entries not shown are no more than joined before the last page.
Reached == Cardinality(sweep.untouched \ sweep.found) <= sweep.joined

SweepInv ==
  /\ sweep \in Sweeps
  /\ sweep.size = 0 => ~sweep.done /\ ~sweep.counted
  /\ sweep.size > 0 => kind = "entries" /\ sweep.size \in PageSizes
  /\ sweep.size > 0 /\ ~sweep.deleted =>
       sweep.untouched \subseteq {r.id: r \in Listed(sweep.status)}
  /\ sweep.size > 0 /\ ~sweep.deleted /\ (Exact \/ ~sweep.tied) =>
       /\ sweep.done => Reached
       /\ \A x \in sweep.untouched:
            Cardinality(AheadIds(rows, sweep.status, Exact, x)) < sweep.page * sweep.size
              => x \in sweep.found

\* Finitely many entries are listed before another.
LEMMA AheadFinite ==
  ASSUME NEW rs, NEW n, Table(rs, n), NEW status, NEW exact, NEW x
  PROVE  IsFiniteSet(AheadIds(rs, status, exact, x)) /\ Cardinality(AheadIds(rs, status, exact, x)) \in Nat
<1> DEFINE J == {i \in DOMAIN rs:
                   /\ status \in {None, rs[i].status}
                   /\ \E k \in DOMAIN rs: /\ rs[k].id = x /\ i # k
                                          /\ \/ rs[i].time > rs[k].time
                                             \/ rs[i].time = rs[k].time /\ (exact => i > k)}
           f == [j \in J |-> rs[j].id]
<1>1. Len(rs) \in Nat /\ DOMAIN rs = 1..Len(rs)
  BY DEF Table
<1>2. AheadIds(rs, status, exact, x) = {rs[j].id: j \in J}
  BY DEF AheadIds
<1>3. IsFiniteSet(J)
  <2>1. J \in SUBSET (1..Len(rs)) BY <1>1
  <2>2. IsFiniteSet(1..Len(rs))
    <3>1. 1 \in Int /\ Len(rs) \in Int BY <1>1
    <3> QED BY <3>1, FS_Interval
  <2> HIDE DEF J
  <2> QED BY <2>1, <2>2, FS_Subset
<1> HIDE DEF J
<1>4. f \in Surjection(J, {rs[j].id: j \in J})
  BY DEF Surjection
<1> HIDE DEF f
<1>5. IsFiniteSet({rs[j].id: j \in J})
  BY <1>3, <1>4, FS_Surjection
<1> QED BY <1>2, <1>5, FS_CardinalityType

\* Rows keep what was before them when what is done to the table keeps it.
LEMMA Embedded ==
  ASSUME NEW rs, NEW rs2, NEW status, NEW exact, NEW n, Table(rs, n),
         NEW g \in [DOMAIN rs -> DOMAIN rs2], NEW i \in DOMAIN rs,
         \A j \in DOMAIN rs: rs2[g[j]].id = rs[j].id,
         \A j \in DOMAIN rs:
           j # i /\ status \in {None, rs[j].status}
             /\ (rs[j].time > rs[i].time \/ (rs[j].time = rs[i].time /\ (exact => j > i)))
           => /\ g[j] # g[i] /\ status \in {None, rs2[g[j]].status}
              /\ \/ rs2[g[j]].time > rs2[g[i]].time
                 \/ rs2[g[j]].time = rs2[g[i]].time /\ (exact => g[j] > g[i])
  PROVE  AheadIds(rs, status, exact, rs[i].id) \subseteq AheadIds(rs2, status, exact, rs[i].id)
<1> SUFFICES ASSUME NEW y \in AheadIds(rs, status, exact, rs[i].id)
             PROVE  y \in AheadIds(rs2, status, exact, rs[i].id)
  OBVIOUS
<1>1. PICK j \in DOMAIN rs:
        /\ y = rs[j].id /\ status \in {None, rs[j].status}
        /\ \E k \in DOMAIN rs: /\ rs[k].id = rs[i].id /\ j # k
                               /\ \/ rs[j].time > rs[k].time
                                  \/ rs[j].time = rs[k].time /\ (exact => j > k)
  BY DEF AheadIds
<1>2. j # i /\ (rs[j].time > rs[i].time \/ (rs[j].time = rs[i].time /\ (exact => j > i)))
  BY <1>1 DEF Table
<1>3. /\ g[j] \in DOMAIN rs2 /\ g[i] \in DOMAIN rs2 /\ g[j] # g[i] /\ status \in {None, rs2[g[j]].status}
      /\ \/ rs2[g[j]].time > rs2[g[i]].time
         \/ rs2[g[j]].time = rs2[g[i]].time /\ (exact => g[j] > g[i])
      /\ rs2[g[j]].id = y /\ rs2[g[i]].id = rs[i].id
  BY <1>1, <1>2
<1> QED BY <1>3 DEF AheadIds

\* Ids of listed entries are finitely many.
LEMMA ListedIds ==
  ASSUME TablesInv, NEW status, NEW ids, ids \subseteq {r.id: r \in Listed(status)}
  PROVE  IsFiniteSet(ids)
<1> DEFINE some == Listed(status)
           f == [o \in some |-> o.id]
<1>1. IsFiniteSet(some)
  <2>1. some \in SUBSET Stored BY DEF Listed
  <2> QED BY <2>1, SomeFinite
<1>2. f \in Surjection(some, {o.id: o \in some})
  BY DEF Surjection
<1> HIDE DEF f, some
<1>3. IsFiniteSet({o.id: o \in some})
  BY <1>1, <1>2, FS_Surjection
<1> QED BY <1>3, FS_Subset DEF some

\* A step that keeps what was before each untouched row keeps the invariant.
LEMMA SweepKept ==
  ASSUME TablesInv, TablesInv', SweepInv,
         kind' = kind, backend' = backend,
         NEW touched, NEW deleted \in BOOLEAN,
         sweep' = [sweep EXCEPT !.untouched = @ \ touched, !.deleted = deleted],
         sweep.size > 0 /\ ~deleted =>
           /\ ~sweep.deleted
           /\ \A r \in Listed(sweep.status): r.id \notin touched =>
                \E q \in Stored': q.id = r.id /\ sweep.status \in {None, q.status}
           /\ \A i \in DOMAIN rows: rows[i].id \notin touched =>
                AheadIds(rows, sweep.status, Exact, rows[i].id)
                  \subseteq AheadIds(rows', sweep.status, Exact, rows[i].id)
  PROVE  SweepInv'
<1>1. sweep \in Sweeps
  BY DEF SweepInv
<1>2. /\ sweep' \in Sweeps
      /\ sweep'.size = sweep.size /\ sweep'.status = sweep.status /\ sweep'.page = sweep.page
      /\ sweep'.found = sweep.found /\ sweep'.tied = sweep.tied /\ sweep'.done = sweep.done
      /\ sweep'.counted = sweep.counted /\ sweep'.joined = sweep.joined
      /\ sweep'.untouched = sweep.untouched \ touched /\ sweep'.deleted = deleted
  BY <1>1 DEF Sweeps
<1>3. Exact' = Exact
  BY <1>2 DEF Exact
<1>4. ASSUME sweep.size > 0, ~deleted, NEW x \in sweep'.untouched
      PROVE  /\ x \in sweep.untouched /\ x \notin touched
             /\ \E r \in Listed(sweep.status): r.id = x
             /\ \E q \in Listed(sweep.status)': q.id = x
  <2>1. x \in sweep.untouched /\ x \notin touched
    BY <1>2
  <2>2. PICK r \in Listed(sweep.status): r.id = x
    BY <1>4, <2>1 DEF SweepInv
  <2>3. \E q \in Stored': q.id = x /\ sweep.status \in {None, q.status}
    BY <1>4, <2>1, <2>2
  <2> QED BY <1>2, <2>1, <2>2, <2>3 DEF Listed
<1>5. ASSUME sweep.size > 0, ~deleted, Exact \/ ~sweep.tied, NEW x \in sweep'.untouched,
             Cardinality(AheadIds(rows', sweep.status, Exact, x)) < sweep.page * sweep.size
      PROVE  x \in sweep.found
  <2>1. PICK r \in Listed(sweep.status): r.id = x
    BY <1>4, <1>5
  <2>2. PICK i \in DOMAIN rows: rows[i] = r
    BY DEF Listed, Stored, ToSet
  <2> DEFINE A == AheadIds(rows, sweep.status, Exact, x)
             B == AheadIds(rows', sweep.status, Exact, x)
  <2>3. A \subseteq B
    BY <1>4, <1>5, <2>1, <2>2
  <2>4. IsFiniteSet(B) /\ Cardinality(A) \in Nat /\ Cardinality(B) \in Nat
    <3>1. Table(rows, now) /\ Table(rows', now')
      BY DEF TablesInv, Table
    <3> QED BY <3>1, AheadFinite
  <2>5. Cardinality(A) <= Cardinality(B)
    <3> HIDE DEF A, B
    <3> QED BY <2>3, <2>4, FS_Subset
  <2>6. sweep.page * sweep.size \in Nat
    BY <1>1 DEF Sweeps
  <2>7. Cardinality(A) < sweep.page * sweep.size
    <3> HIDE DEF A
    <3> QED BY <1>5, <2>4, <2>5, <2>6 DEF B
  <2>8. x \in sweep.untouched
    BY <1>4, <1>5
  <2> QED BY <1>5, <2>7, <2>8 DEF SweepInv
<1>6. sweep'.size = 0 => ~sweep'.done /\ ~sweep'.counted
  BY <1>2 DEF SweepInv
<1>7. sweep'.size > 0 => kind' = "entries" /\ sweep'.size \in PageSizes
  BY <1>2 DEF SweepInv
<1>8. sweep'.size > 0 /\ ~sweep'.deleted => sweep'.untouched \subseteq {r.id: r \in Listed(sweep.status)'}
  BY <1>2, <1>4
<1>9. sweep'.size > 0 /\ ~sweep'.deleted /\ (Exact' \/ ~sweep'.tied) =>
       /\ sweep'.done => Reached'
       /\ \A x \in sweep'.untouched:
            Cardinality(AheadIds(rows', sweep'.status, Exact', x)) < sweep'.page * sweep'.size
              => x \in sweep'.found
  <2>1. ASSUME sweep.size > 0, ~deleted, Exact \/ ~sweep.tied, sweep.done PROVE Reached'
    <3>1. /\ Reached /\ sweep.joined \in Nat /\ sweep.untouched \in SUBSET Ids
      BY <1>1, <2>1 DEF SweepInv, Sweeps
    <3>2. IsFiniteSet(sweep.untouched)
      BY <2>1, ListedIds DEF SweepInv
    <3> DEFINE now1 == sweep.untouched \ sweep.found
               later == sweep'.untouched \ sweep'.found
    <3>3. later \subseteq now1
      BY <1>2
    <3>4. IsFiniteSet(now1) /\ Cardinality(now1) \in Nat
      BY <3>2, FS_Subset, FS_CardinalityType
    <3> HIDE DEF now1, later
    <3>5. Cardinality(later) \in Nat /\ Cardinality(later) <= Cardinality(now1)
      BY <3>3, <3>4, FS_Subset, FS_CardinalityType
    <3>6. Cardinality(later) <= sweep.joined
      BY <3>1, <3>4, <3>5 DEF Reached, now1
    <3> QED BY <1>2, <3>6 DEF Reached, later
  <2> QED BY <1>2, <1>3, <1>5, <2>1 DEF SweepInv
<1> QED BY <1>2, <1>6, <1>7, <1>8, <1>9 DEF SweepInv

\* The rows by their positions.
LEMMA RowsOfTable ==
  ASSUME TablesInv
  PROVE  /\ Table(rows, now) /\ Len(rows) \in Nat /\ DOMAIN rows = 1..Len(rows)
         /\ \A k \in DOMAIN rows: /\ rows[k] \in Rows /\ rows[k].id \in Ids
                                  /\ rows[k].time \in Nat /\ rows[k].time <= now
<1>1. Table(rows, now) /\ Len(rows) \in Nat /\ DOMAIN rows = 1..Len(rows)
  BY TableFacts, TableOfInv
<1>2. ASSUME NEW k \in DOMAIN rows
      PROVE  rows[k] \in Rows /\ rows[k].id \in Ids /\ rows[k].time \in Nat /\ rows[k].time <= now
  <2>1. rows[k] \in Rows BY TableFacts
  <2> QED BY <2>1 DEF Rows, TablesInv
<1> QED BY <1>1, <1>2

\* A step that keeps every row in place: its id and its time, and the place of
\* an untouched row in the list.
LEMMA RowsInPlace ==
  ASSUME TablesInv, TablesInv', SweepInv, kind' = kind, backend' = backend,
         NEW touched, NEW deleted \in BOOLEAN,
         sweep' = [sweep EXCEPT !.untouched = @ \ touched, !.deleted = deleted],
         sweep.size > 0 /\ ~deleted =>
           /\ ~sweep.deleted
           /\ \A i \in DOMAIN rows:
                /\ i \in DOMAIN rows' /\ rows'[i].id = rows[i].id /\ rows'[i].time = rows[i].time
                /\ sweep.status \in {None, rows[i].status} => sweep.status \in {None, rows'[i].status}
  PROVE  SweepInv'
<1> SUFFICES ASSUME sweep.size > 0, ~deleted
             PROVE  /\ \A r \in Listed(sweep.status): r.id \notin touched =>
                         \E q \in Stored': q.id = r.id /\ sweep.status \in {None, q.status}
                    /\ \A i \in DOMAIN rows: rows[i].id \notin touched =>
                         AheadIds(rows, sweep.status, Exact, rows[i].id)
                           \subseteq AheadIds(rows', sweep.status, Exact, rows[i].id)
  BY SweepKept
<1>1. \A i \in DOMAIN rows:
        /\ i \in DOMAIN rows' /\ rows'[i].id = rows[i].id /\ rows'[i].time = rows[i].time
        /\ sweep.status \in {None, rows[i].status} => sweep.status \in {None, rows'[i].status}
  OBVIOUS
<1>2. ASSUME NEW r \in Listed(sweep.status)
      PROVE  \E q \in Stored': q.id = r.id /\ sweep.status \in {None, q.status}
  <2>1. PICK i \in DOMAIN rows: rows[i] = r
    BY DEF Listed, Stored, ToSet
  <2>2. rows'[i] \in Stored' /\ rows'[i].id = r.id /\ sweep.status \in {None, rows'[i].status}
    BY <1>1, <2>1 DEF Listed, Stored, ToSet
  <2> QED BY <2>2
<1>3. ASSUME NEW i \in DOMAIN rows
      PROVE  AheadIds(rows, sweep.status, Exact, rows[i].id)
               \subseteq AheadIds(rows', sweep.status, Exact, rows[i].id)
  <2> DEFINE g == [j \in DOMAIN rows |-> j]
  <2>1. g \in [DOMAIN rows -> DOMAIN rows'] /\ \A j \in DOMAIN rows: g[j] = j
    BY <1>1
  <2> HIDE DEF g
  <2>2. Table(rows, now)
    BY RowsOfTable
  <2>3. \A j \in DOMAIN rows:
           j # i /\ sweep.status \in {None, rows[j].status}
             /\ (rows[j].time > rows[i].time \/ (rows[j].time = rows[i].time /\ (Exact => j > i)))
           => /\ g[j] # g[i] /\ sweep.status \in {None, rows'[g[j]].status}
              /\ \/ rows'[g[j]].time > rows'[g[i]].time
                 \/ rows'[g[j]].time = rows'[g[i]].time /\ (Exact => g[j] > g[i])
    BY <1>1, <2>1
  <2>4. \A j \in DOMAIN rows: rows'[g[j]].id = rows[j].id
    BY <1>1, <2>1
  <2> QED BY <2>1, <2>2, <2>3, <2>4, Embedded
<1> QED BY <1>2, <1>3

\* SQLite replaces an entry: its row goes to the end, with the time of now.
LEMMA RowReplaced ==
  ASSUME TablesInv, TablesInv', SweepInv, kind' = kind, backend' = backend,
         NEW k \in DOMAIN rows, NEW row \in Rows, row.id = rows[k].id, row.time = now, row.status = "valid",
         rows' = Append(RemoveAt(rows, k), row),
         sweep' = [sweep EXCEPT !.untouched = @ \ {rows[k].id}, !.deleted = sweep.deleted]
  PROVE  SweepInv'
<1>0. sweep.deleted \in BOOLEAN /\ sweep.status \in {None, "valid"}
  BY DEF SweepInv, Sweeps
<1> DEFINE n == Len(rows)
           g == [j \in DOMAIN rows |-> IF j < k THEN j ELSE IF j = k THEN n ELSE j - 1]
<1>1. n \in Nat /\ DOMAIN rows = 1..n /\ Table(rows, now)
      /\ \A j \in DOMAIN rows: rows[j].time \in Nat /\ rows[j].time <= now
  BY RowsOfTable
<1>2. /\ Table(RemoveAt(rows, k), now)
      /\ Len(RemoveAt(rows, k)) = n - 1 /\ DOMAIN RemoveAt(rows, k) = 1..(n - 1)
      /\ \A i \in 1..(n - 1): RemoveAt(rows, k)[i] = IF i < k THEN rows[i] ELSE rows[i + 1]
      /\ \A i \in DOMAIN RemoveAt(rows, k): RemoveAt(rows, k)[i].id # rows[k].id
  BY <1>1, RemoveRow
<1>3. /\ DOMAIN rows' = 1..n /\ rows'[n] = row
      /\ \A i \in 1..(n - 1): rows'[i] = IF i < k THEN rows[i] ELSE rows[i + 1]
  <2> DEFINE s == RemoveAt(rows, k)
  <2>1. /\ DOMAIN Append(s, row) = 1..(Len(s) + 1)
        /\ \A i \in DOMAIN s: Append(s, row)[i] = s[i]
        /\ Append(s, row)[Len(s) + 1] = row
    <3>1. row.time <= now BY DEF TablesInv
    <3>2. \A i \in DOMAIN s: s[i].id # row.id BY <1>2
    <3>3. Table(s, now) BY <1>2
    <3> HIDE DEF s
    <3> QED BY <3>1, <3>2, <3>3, AppendRow
  <2>2. /\ rows' = Append(s, row) /\ Len(s) = n - 1 /\ DOMAIN s = 1..(n - 1)
        /\ \A i \in 1..(n - 1): s[i] = IF i < k THEN rows[i] ELSE rows[i + 1]
    BY <1>2
  <2> HIDE DEF s, n
  <2> QED BY <1>1, <2>1, <2>2
<1>4. /\ g \in [DOMAIN rows -> DOMAIN rows']
      /\ \A j \in DOMAIN rows: j # k => rows'[g[j]] = rows[j]
      /\ g[k] = n
      /\ \A i, j \in DOMAIN rows: i # j => g[i] # g[j]
      /\ \A i, j \in DOMAIN rows: j > i /\ i # k => g[j] > g[i]
  <2>0. k \in 1..n /\ n \in Nat /\ DOMAIN rows = 1..n
    BY <1>1
  <2> HIDE DEF n
  <2>1. g \in [DOMAIN rows -> DOMAIN rows']
    <3> SUFFICES ASSUME NEW j \in 1..n PROVE (IF j < k THEN j ELSE IF j = k THEN n ELSE j - 1) \in 1..n
      BY <1>3, <2>0
    <3> QED BY <2>0
  <2>2. \A j \in DOMAIN rows: j # k => rows'[g[j]] = rows[j]
    <3> SUFFICES ASSUME NEW j \in 1..n, j # k PROVE rows'[IF j < k THEN j ELSE j - 1] = rows[j]
      BY <2>0
    <3>1. CASE j < k
      BY <1>3, <2>0, <3>1
    <3>2. CASE j > k
      <4>1. j - 1 \in 1..(n - 1) /\ ~(j - 1 < k) /\ j - 1 + 1 = j
        BY <2>0, <3>2
      <4>2. rows'[j - 1] = rows[j - 1 + 1]
        BY <1>3, <4>1
      <4>3. (IF j < k THEN j ELSE j - 1) = j - 1
        BY <2>0, <3>2
      <4> QED BY <4>1, <4>2, <4>3
    <3>3. j < k \/ j > k
      BY <2>0
    <3> QED BY <3>1, <3>2, <3>3
  <2>3. g[k] = n BY <1>1
  <2>4. \A i, j \in DOMAIN rows: i # j => g[i] # g[j]
    BY <1>1
  <2>5. \A i, j \in DOMAIN rows: j > i /\ i # k => g[j] > g[i]
    BY <1>1
  <2> QED BY <2>1, <2>2, <2>3, <2>4, <2>5
<1>5. \A j \in DOMAIN rows: g[j] <= n /\ g[j] \in Nat
  BY <1>1
<1>6. k \in DOMAIN rows OBVIOUS
<1> HIDE DEF g, n
<1>7. ASSUME NEW r \in Listed(sweep.status), r.id \notin {rows[k].id}
      PROVE  \E q \in Stored': q.id = r.id /\ sweep.status \in {None, q.status}
  <2>1. PICK j \in DOMAIN rows: rows[j] = r
    BY DEF Listed, Stored, ToSet
  <2>2. j # k BY <1>7, <2>1
  <2>3. rows'[g[j]] = r /\ g[j] \in DOMAIN rows'
    BY <1>4, <2>1, <2>2
  <2> QED BY <2>3 DEF Listed, Stored, ToSet
<1>8. ASSUME NEW i \in DOMAIN rows, rows[i].id \notin {rows[k].id}
      PROVE  AheadIds(rows, sweep.status, Exact, rows[i].id)
               \subseteq AheadIds(rows', sweep.status, Exact, rows[i].id)
  <2>1. i # k /\ rows'[g[i]] = rows[i]
    BY <1>4, <1>8
  <2>2. ASSUME NEW j \in DOMAIN rows, j # i, sweep.status \in {None, rows[j].status},
               rows[j].time > rows[i].time \/ (rows[j].time = rows[i].time /\ (Exact => j > i))
        PROVE  /\ g[j] # g[i] /\ sweep.status \in {None, rows'[g[j]].status}
               /\ \/ rows'[g[j]].time > rows'[g[i]].time
                  \/ rows'[g[j]].time = rows'[g[i]].time /\ (Exact => g[j] > g[i])
    <3>1. CASE j # k
      BY <1>4, <2>1, <2>2, <3>1
    <3>2. CASE j = k
      <4>1. rows'[g[j]] = row /\ g[j] = n
        BY <1>3, <1>4, <3>2
      <4>2. now >= rows[i].time /\ now \in Nat /\ rows[i].time \in Nat
        BY <1>1 DEF Table
      <4>3. g[i] < n
        BY <1>1, <1>4, <1>5, <2>1, <4>1, <3>2
      <4>4. sweep.status \in {None, row.status}
        BY <1>0
      <4> QED BY <2>1, <4>1, <4>2, <4>3, <4>4, <1>4, <2>2
    <3> QED BY <3>1, <3>2
  <2>3. \A j \in DOMAIN rows: rows'[g[j]].id = rows[j].id
    BY <1>3, <1>4
  <2> QED BY <1>1, <1>4, <2>2, <2>3, Embedded
<1> QED BY <1>0, <1>7, <1>8, SweepKept

\* Of a total order LIMIT gives the rows with few rows before them.
LEMMA TopsByRank ==
  ASSUME NEW some, IsFiniteSet(some), NEW n \in Nat, NEW ties,
         \A a \in some: ~Precedes({}, a, a, ties),
         \A a, b \in some: a # b => Precedes({}, a, b, ties) \/ Precedes({}, b, a, ties),
         NEW top \in Tops({}, some, n, ties), NEW r \in some
  PROVE  r \in top <=> Cardinality({o \in some: Precedes({}, o, r, ties)}) < n
<1> DEFINE before == {o \in some: Precedes({}, o, r, ties)}
<1>1. /\ top \subseteq some /\ IsFiniteSet(top) /\ Cardinality(some) \in Nat
      /\ Cardinality(top) = IF n <= Cardinality(some) THEN n ELSE Cardinality(some)
      /\ Cardinality(some) <= n => top = some
      /\ \A o \in some \ top, a \in top: ~Precedes({}, o, a, ties)
  BY TopsSize
<1>2. IsFiniteSet(before) /\ Cardinality(before) \in Nat
  <2>1. before \in SUBSET some OBVIOUS
  <2> HIDE DEF before
  <2> QED BY <2>1, FS_Subset, FS_CardinalityType
<1>3. ASSUME r \in top PROVE Cardinality(before) < n
  <2>1. before \in SUBSET top /\ r \notin before
    BY <1>1, <1>3
  <2>2. before # top BY <1>3, <2>1
  <2> HIDE DEF before
  <2>3. Cardinality(before) <= Cardinality(top) /\ Cardinality(before) # Cardinality(top)
    BY <1>1, <2>1, <2>2, FS_Subset
  <2> QED BY <1>1, <1>2, <2>3
<1>4. ASSUME r \notin top PROVE ~(Cardinality(before) < n)
  <2>1. top \in SUBSET before
    BY <1>1, <1>4
  <2>2. Cardinality(top) = n /\ Cardinality(top) <= Cardinality(before)
    <3> HIDE DEF before
    <3>1. Cardinality(top) <= Cardinality(before)
      BY <1>2, <2>1, FS_Subset
    <3> QED BY <1>1, <1>4, <3>1
  <2> HIDE DEF before
  <2> QED BY <1>2, <2>2
<1> QED BY <1>3, <1>4

\* A page: the rows with between offset and offset + size rows before them.
LEMMA PageByRank ==
  ASSUME NEW some, IsFiniteSet(some), NEW size \in Nat, NEW offset \in Nat, NEW ties,
         \A a \in some: ~Precedes({}, a, a, ties),
         \A a, b \in some: a # b => Precedes({}, a, b, ties) \/ Precedes({}, b, a, ties),
         NEW page \in Pages(some, size, offset, ties)
  PROVE  /\ \A r \in some: r \in page <=>
              /\ Cardinality({o \in some: Precedes({}, o, r, ties)}) < offset + size
              /\ ~(Cardinality({o \in some: Precedes({}, o, r, ties)}) < offset)
         /\ page \subseteq some
         /\ \E later \in SUBSET some:
              /\ Cardinality(later) = IF offset + size <= Cardinality(some)
                                      THEN Cardinality(some) - (offset + size) ELSE 0
              /\ \A r \in some: r \in later <=>
                   ~(Cardinality({o \in some: Precedes({}, o, r, ties)}) < offset + size)
<1> PICK head \in Tops({}, some, offset + size, ties), skipped \in Tops({}, some, offset, ties):
      page = head \ skipped
  BY DEF Pages
<1> DEFINE rank(r) == Cardinality({o \in some: Precedes({}, o, r, ties)})
<1>1. \A r \in some: r \in head <=> rank(r) < offset + size
  BY TopsByRank
<1>2. \A r \in some: r \in skipped <=> rank(r) < offset
  BY TopsByRank
<1>3. \A r \in some: rank(r) \in Nat /\ rank(r) <= Cardinality(some)
  <2> SUFFICES ASSUME NEW r \in some PROVE rank(r) \in Nat /\ rank(r) <= Cardinality(some) OBVIOUS
  <2> {o \in some: Precedes({}, o, r, ties)} \in SUBSET some OBVIOUS
  <2> QED BY FS_Subset, FS_CardinalityType
<1>4. /\ head \subseteq some /\ IsFiniteSet(head) /\ Cardinality(some) \in Nat
      /\ Cardinality(head) = IF offset + size <= Cardinality(some) THEN offset + size ELSE Cardinality(some)
      /\ Cardinality(some) <= offset + size => head = some
  BY TopsSize
<1> HIDE DEF rank
<1>5. some \ head \in SUBSET some /\ \A r \in some: r \in some \ head <=> ~(rank(r) < offset + size)
  BY <1>1
<1>6. some \cap head = head
  BY <1>4
<1>7. Cardinality(some \ head) = Cardinality(some) - Cardinality(head)
  BY <1>6, FS_Difference
<1>8. Cardinality(some \ head) = IF offset + size <= Cardinality(some)
                                 THEN Cardinality(some) - (offset + size) ELSE 0
  BY <1>4, <1>7
<1>9. \A r \in some: r \in page <=> rank(r) < offset + size /\ ~(rank(r) < offset)
  BY <1>1, <1>2
<1> QED BY <1>4, <1>5, <1>8, <1>9 DEF rank

\* As many ids as rows.
LEMMA IdsCount ==
  ASSUME TablesInv, NEW some \in SUBSET Stored
  PROVE  Cardinality({o.id: o \in some}) = Cardinality(some)
<1> DEFINE f == [o \in some |-> o.id]
           ids == {o.id: o \in some}
<1>1. f \in Surjection(some, ids)
  BY DEF Surjection
<1>2. f \in Injection(some, ids)
  <2>1. \A a, b \in some: a.id = b.id => a = b
    BY TableFacts
  <2> QED BY <2>1 DEF Injection, IsInjective
<1>3. IsFiniteSet(some)
  BY SomeFinite
<1> HIDE DEF f, ids
<1> QED BY <1>1, <1>2, <1>3, FS_Surjection DEF ids

\* The order in which a sweep reads, when the order is total.
LEMMA SweepOrder ==
  ASSUME TablesInv, sweep.status \in {None, "valid"},
         NEW ties, ties = IF sweep.status = None THEN "newest" ELSE "oldest",
         Exact \/ ~\E a, b \in Stored: a # b /\ a.time = b.time
  PROVE  /\ \A a \in Stored: ~Precedes({}, a, a, ties)
         /\ \A a, b \in Stored: a # b => Precedes({}, a, b, ties) \/ Precedes({}, b, a, ties)
         /\ \A r \in Listed(sweep.status):
              {o.id: o \in {q \in Listed(sweep.status): Precedes({}, q, r, ties)}}
                = AheadIds(rows, sweep.status, Exact, r.id)
<1>1. \A a \in Stored: a.time \in Nat /\ Pos(a) \in Nat
  <2> SUFFICES ASSUME NEW a \in Stored PROVE a.time \in Nat /\ Pos(a) \in Nat OBVIOUS
  <2>1. a \in Rows /\ Pos(a) \in DOMAIN rows
    BY TableFacts
  <2> QED BY <2>1, TableFacts DEF Rows
<1>2. \A a, b \in Stored: Precedes({}, a, b, ties)
        <=> \/ a.time > b.time
            \/ /\ backend = "sqlite" /\ ~(b.time > a.time)
               /\ IF ties = "newest" THEN Pos(a) > Pos(b) ELSE Pos(a) < Pos(b)
  BY NewerByTime DEF Precedes, Before
<1>3. \A a, b \in Stored: Pos(a) = Pos(b) => a = b
  BY TableFacts
<1>4. \A a, b \in Stored: Precedes({}, a, b, ties)
        <=> a # b /\ (a.time > b.time \/ (a.time = b.time /\ (Exact => Pos(a) > Pos(b))))
  <2>1. CASE Exact
    <3>1. ties = "newest" /\ backend = "sqlite"
      BY <2>1 DEF Exact
    <3> QED BY <1>1, <1>2, <1>3, <2>1, <3>1
  <2>2. CASE ~Exact
    <3>1. \A a, b \in Stored: a # b => a.time # b.time
      BY <2>2
    <3> QED BY <1>1, <1>2, <1>3, <2>2, <3>1
  <2> QED BY <2>1, <2>2
<1>5. \A a, b \in Stored: a # b => Precedes({}, a, b, ties) \/ Precedes({}, b, a, ties)
  <2>1. \A a, b \in Stored: a # b => a.time # b.time \/ Exact
    OBVIOUS
  <2> QED BY <1>1, <1>3, <1>4, <2>1
<1>6. ASSUME NEW r \in Listed(sweep.status)
      PROVE  {o.id: o \in {q \in Listed(sweep.status): Precedes({}, q, r, ties)}}
               = AheadIds(rows, sweep.status, Exact, r.id)
  <2> DEFINE A == {o.id: o \in {q \in Listed(sweep.status): Precedes({}, q, r, ties)}}
             B == AheadIds(rows, sweep.status, Exact, r.id)
  <2>1. r \in Stored BY DEF Listed
  <2>2. ASSUME NEW q \in Listed(sweep.status), Precedes({}, q, r, ties) PROVE q.id \in B
    <3>1. q \in Stored /\ sweep.status \in {None, q.status} BY DEF Listed
    <3>2. q # r /\ (q.time > r.time \/ (q.time = r.time /\ (Exact => Pos(q) > Pos(r))))
      BY <1>4, <2>1, <2>2, <3>1
    <3>3. /\ Pos(q) \in DOMAIN rows /\ rows[Pos(q)] = q /\ Pos(r) \in DOMAIN rows /\ rows[Pos(r)] = r
          /\ Pos(q) # Pos(r)
      BY <2>1, <3>1, <3>2, TableFacts
    <3> QED BY <3>1, <3>2, <3>3 DEF AheadIds
  <2>3. ASSUME NEW y \in B PROVE y \in A
    <3>1. PICK j \in DOMAIN rows:
            /\ y = rows[j].id /\ sweep.status \in {None, rows[j].status}
            /\ \E k \in DOMAIN rows: /\ rows[k].id = r.id /\ j # k
                                     /\ \/ rows[j].time > rows[k].time
                                        \/ rows[j].time = rows[k].time /\ (Exact => j > k)
      BY <2>3 DEF AheadIds
    <3>2. PICK k \in DOMAIN rows: /\ rows[k].id = r.id /\ j # k
                                  /\ \/ rows[j].time > rows[k].time
                                     \/ rows[j].time = rows[k].time /\ (Exact => j > k)
      BY <3>1
    <3>3. rows[k] \in Stored /\ rows[j] \in Stored /\ Pos(rows[j]) = j /\ Pos(rows[k]) = k
      BY TableFacts DEF Stored, ToSet
    <3>4. rows[k] = r
      BY <2>1, <3>2, <3>3, TableFacts
    <3>5. rows[j] \in Listed(sweep.status) /\ rows[j] # r
      BY <3>1, <3>2, <3>3, <3>4 DEF Listed
    <3>6. Precedes({}, rows[j], r, ties)
      BY <1>4, <2>1, <3>2, <3>3, <3>4, <3>5
    <3> QED BY <3>1, <3>5, <3>6
  <2> HIDE DEF B
  <2> QED BY <2>2, <2>3 DEF B
<1> QED BY <1>4, <1>5, <1>6

\* A count changes nothing that was read.
LEMMA CountKeeps ==
  ASSUME TablesInv, SweepInv, CountEntries
  PROVE  SweepInv'
<1> DEFINE counted == Cardinality(Listed(sweep.status))
<1>1. /\ sweep.size > 0 /\ ~sweep.done /\ UNCHANGED <<kind, backend, rows, now>>
      /\ sweep' = [sweep EXCEPT !.counted = TRUE, !.total = counted]
  BY DEF CountEntries
<1>2. counted \in Nat
  <2>1. Listed(sweep.status) \in SUBSET Stored BY DEF Listed
  <2> QED BY <2>1, SomeFinite
<1> HIDE DEF counted
<1>3. sweep \in Sweeps BY DEF SweepInv
<1>4. /\ sweep' \in Sweeps
      /\ sweep'.size = sweep.size /\ sweep'.status = sweep.status /\ sweep'.page = sweep.page
      /\ sweep'.found = sweep.found /\ sweep'.tied = sweep.tied /\ sweep'.done = sweep.done
      /\ sweep'.untouched = sweep.untouched /\ sweep'.deleted = sweep.deleted
  BY <1>1, <1>2, <1>3 DEF Sweeps
<1>5. Exact' = Exact
  BY <1>1, <1>4 DEF Exact
<1>6. sweep.size > 0 /\ ~sweep.deleted => sweep.untouched \subseteq {r.id: r \in Listed(sweep.status)'}
  BY <1>1 DEF SweepInv, Listed, Stored
<1> QED BY <1>1, <1>3, <1>4, <1>5, <1>6 DEF SweepInv, Sweeps

\* A page shows the entries up to where it reaches.
LEMMA PageKeeps ==
  ASSUME TablesInv, SweepInv, ReadPage
  PROVE  SweepInv'
<1>1. /\ sweep.size > 0 /\ kind' = kind /\ backend' = backend /\ rows' = rows
      /\ sweep.counted
  <2>1. sweep.counted /\ kind' = kind /\ backend' = backend /\ rows' = rows
    BY DEF ReadPage
  <2>2. sweep.size \in Nat /\ (sweep.size = 0 => ~sweep.counted)
    BY DEF SweepInv, Sweeps
  <2> QED BY <2>1, <2>2
<1> DEFINE listed == Listed(sweep.status)
           ties == IF sweep.status = None THEN "newest" ELSE "oldest"
           offset == sweep.page * sweep.size
           size == sweep.size
           joined == Max({0, Cardinality(listed) - sweep.total})
           done == (sweep.page + 1) * sweep.size >= sweep.total
           tie == \E a, b \in Stored: a # b /\ a.time = b.time
<1>2. PICK page \in ListEntries(sweep.size, sweep.page * sweep.size, sweep.status):
        sweep' = [sweep EXCEPT !.page = @ + 1, !.counted = FALSE, !.joined = joined,
                               !.found = @ \cup {r.id: r \in page},
                               !.tied = @ \/ tie, !.done = done]
  BY DEF ReadPage
<1>3. /\ sweep \in Sweeps /\ sweep.size \in Nat /\ sweep.page \in Nat /\ sweep.status \in {None, "valid"}
      /\ sweep.total \in Nat /\ sweep.tied \in BOOLEAN
  BY DEF SweepInv, Sweeps
<1>4. page \in Pages(listed, size, offset, ties)
  <2>1. sweep.size <= MaxPageSize /\ MaxPageSize \in Int /\ sweep.size \in Int
    <3>1. sweep.size \in PageSizes BY <1>1 DEF SweepInv
    <3>2. PageSizes \subseteq 1..MaxPageSize /\ MaxPageSize \in Nat BY QueriesAssumption
    <3>3. sweep.size \in 1..MaxPageSize BY <3>1, <3>2
    <3> QED BY <3>2, <3>3
  <2>2. Min({sweep.size, MaxPageSize}) = sweep.size
    BY <2>1, MinOfTwo
  <2> QED BY <1>2, <2>2 DEF ListEntries
<1>5. listed \in SUBSET Stored /\ IsFiniteSet(listed) /\ Cardinality(listed) \in Nat
  <2>1. listed \in SUBSET Stored BY DEF Listed
  <2> QED BY <2>1, SomeFinite
<1>6. offset \in Nat /\ (sweep.page + 1) * sweep.size = offset + size
  BY <1>3
<1>7. page \subseteq listed
  <2> PICK head \in Tops({}, listed, offset + size, ties), skipped \in Tops({}, listed, offset, ties):
        page = head \ skipped
    BY <1>4 DEF Pages
  <2>1. head \subseteq listed BY DEF Tops, kSubset
  <2> QED BY <2>1
<1>8. joined \in Nat /\ joined >= Cardinality(listed) - sweep.total
  <2> DEFINE more == Cardinality(listed) - sweep.total
  <2>1. more \in Int BY <1>3, <1>5
  <2> HIDE DEF more
  <2>2. Max({0, more}) = IF 0 <= more THEN more ELSE 0
    BY <2>1, MinOfTwo
  <2>3. Max({0, more}) \in Nat /\ Max({0, more}) >= more
    BY <2>1, <2>2
  <2> QED BY <2>3 DEF more
<1>9. /\ sweep' \in Sweeps
      /\ sweep'.size = sweep.size /\ sweep'.status = sweep.status /\ sweep'.page = sweep.page + 1
      /\ sweep'.found = sweep.found \cup {r.id: r \in page} /\ sweep'.joined = joined
      /\ sweep'.tied = (sweep.tied \/ tie) /\ sweep'.done = done
      /\ sweep'.untouched = sweep.untouched /\ sweep'.deleted = sweep.deleted
  <2> DEFINE ids == {r.id: r \in page}
             tied == sweep.tied \/ tie
             next == [size |-> sweep.size, status |-> sweep.status, page |-> sweep.page + 1,
                      counted |-> FALSE, total |-> sweep.total, joined |-> joined,
                      found |-> sweep.found \cup ids, untouched |-> sweep.untouched,
                      deleted |-> sweep.deleted, tied |-> tied, done |-> done]
  <2>1. ids \subseteq Ids
    <3>1. \A r \in Stored: r.id \in Ids
      <4> SUFFICES ASSUME NEW r \in Stored PROVE r.id \in Ids OBVIOUS
      <4>1. r \in Rows BY TableFacts
      <4> QED BY <4>1 DEF Rows
    <3> QED BY <1>5, <1>7, <3>1
  <2>2. sweep.page + 1 \in Nat BY <1>3
  <2>3. tied \in BOOLEAN /\ done \in BOOLEAN
    <3>1. tie \in BOOLEAN OBVIOUS
    <3>2. done \in BOOLEAN OBVIOUS
    <3> HIDE DEF tie, done
    <3> QED BY <1>3, <3>1, <3>2
  <2> HIDE DEF ids, tie, done, joined
  <2>4. sweep' = [sweep EXCEPT !.page = @ + 1, !.counted = FALSE, !.joined = joined,
                               !.found = @ \cup ids, !.tied = @ \/ tie, !.done = done]
    BY <1>2 DEF ids
  <2> HIDE DEF tied
  <2>5. sweep' = next
    BY <1>3, <2>4, Zenon DEF Sweeps, tied
  <2>6. next \in Sweeps
    BY <1>3, <1>8, <2>1, <2>2, <2>3 DEF Sweeps
  <2>7. /\ sweep'.size = sweep.size /\ sweep'.status = sweep.status /\ sweep'.page = sweep.page + 1
        /\ sweep'.found = sweep.found \cup ids /\ sweep'.joined = joined
        /\ sweep'.tied = tied /\ sweep'.done = done
        /\ sweep'.untouched = sweep.untouched /\ sweep'.deleted = sweep.deleted
    BY <2>5
  <2> QED BY <2>5, <2>6, <2>7 DEF ids, tied
<1>10. Exact' = Exact
  BY <1>1, <1>9 DEF Exact
<1> HIDE DEF joined, done
<1>11. PICK later \in SUBSET listed:
         /\ Cardinality(later) = IF offset + size <= Cardinality(listed)
                                 THEN Cardinality(listed) - (offset + size) ELSE 0
         /\ ~sweep.deleted /\ (Exact \/ ~sweep'.tied) =>
              \A r \in listed:
                LET rank == Cardinality(AheadIds(rows, sweep.status, Exact, r.id))
                IN  /\ r \in page <=> rank < offset + size /\ ~(rank < offset)
                    /\ r \in later <=> ~(rank < offset + size)
  <2>1. CASE ~(Exact \/ ~sweep'.tied)
    <3> DEFINE m == IF offset + size <= Cardinality(listed)
                    THEN Cardinality(listed) - (offset + size) ELSE 0
    <3>1. \E some \in SUBSET listed: Cardinality(some) = m
      <4> PICK head \in Tops({}, listed, offset + size, ties): TRUE
        BY <1>4 DEF Pages
      <4> DEFINE width == offset + size
      <4>1. width \in Nat BY <1>3, <1>6
      <4> HIDE DEF width, listed
      <4>2. head \in Tops({}, listed, width, ties) BY DEF width
      <4>3. /\ head \subseteq listed
            /\ Cardinality(head) = IF width <= Cardinality(listed) THEN width ELSE Cardinality(listed)
        BY <1>5, <4>1, <4>2, TopsSize
      <4>4. listed \cap head = head BY <4>3
      <4>5. Cardinality(listed \ head) = Cardinality(listed) - Cardinality(head)
        BY <1>5, <4>4, FS_Difference
      <4>6. Cardinality(listed \ head) = m
        BY <1>5, <4>1, <4>3, <4>5 DEF width
      <4>7. listed \ head \in SUBSET listed OBVIOUS
      <4> QED BY <4>6, <4>7
    <3> QED BY <2>1, <3>1
  <2>2. CASE Exact \/ ~sweep'.tied
    <3>1. Exact \/ ~\E a, b \in Stored: a # b /\ a.time = b.time
      BY <1>9, <2>2
    <3>2. /\ \A a \in Stored: ~Precedes({}, a, a, ties)
          /\ \A a, b \in Stored: a # b => Precedes({}, a, b, ties) \/ Precedes({}, b, a, ties)
          /\ \A r \in listed: {o.id: o \in {q \in listed: Precedes({}, q, r, ties)}}
                               = AheadIds(rows, sweep.status, Exact, r.id)
      BY <1>3, <3>1, SweepOrder
    <3>3. \A r \in listed: Cardinality({q \in listed: Precedes({}, q, r, ties)})
                            = Cardinality(AheadIds(rows, sweep.status, Exact, r.id))
      <4> SUFFICES ASSUME NEW r \in listed
                   PROVE  Cardinality({q \in listed: Precedes({}, q, r, ties)})
                            = Cardinality(AheadIds(rows, sweep.status, Exact, r.id))
        OBVIOUS
      <4> DEFINE before == {q \in listed: Precedes({}, q, r, ties)}
      <4>1. before \in SUBSET Stored BY <1>5
      <4>2. {o.id: o \in before} = AheadIds(rows, sweep.status, Exact, r.id) BY <3>2
      <4> HIDE DEF before
      <4>3. Cardinality({o.id: o \in before}) = Cardinality(before)
        BY <4>1, IdsCount
      <4> QED BY <4>2, <4>3 DEF before
    <3>4. /\ \A a \in listed: ~Precedes({}, a, a, ties)
          /\ \A a, b \in listed: a # b => Precedes({}, a, b, ties) \/ Precedes({}, b, a, ties)
      BY <1>5, <3>2
    <3> HIDE DEF ties, listed, offset, size
    <3>5. size \in Nat BY <1>3 DEF size
    <3>6. /\ \A r \in listed: r \in page <=>
              /\ Cardinality({o \in listed: Precedes({}, o, r, ties)}) < offset + size
              /\ ~(Cardinality({o \in listed: Precedes({}, o, r, ties)}) < offset)
          /\ \E some \in SUBSET listed:
              /\ Cardinality(some) = IF offset + size <= Cardinality(listed)
                                     THEN Cardinality(listed) - (offset + size) ELSE 0
              /\ \A r \in listed: r \in some <=>
                   ~(Cardinality({o \in listed: Precedes({}, o, r, ties)}) < offset + size)
      BY <1>4, <1>5, <1>6, <3>4, <3>5, PageByRank
    <3> QED BY <3>3, <3>6
  <2> QED BY <2>1, <2>2
<1> HIDE DEF ties, listed, offset, size, tie
<1>12. ASSUME ~sweep.deleted, Exact \/ ~sweep'.tied, NEW x \in sweep.untouched
       PROVE  /\ Cardinality(AheadIds(rows, sweep.status, Exact, x)) < offset + size => x \in sweep'.found
              /\ x \notin sweep'.found => \E r \in later: r.id = x
  <2>1. PICK r \in listed: r.id = x
    BY <1>1, <1>12 DEF SweepInv, listed
  <2> DEFINE rank == Cardinality(AheadIds(rows, sweep.status, Exact, x))
  <2>2. /\ r \in page <=> rank < offset + size /\ ~(rank < offset)
        /\ r \in later <=> ~(rank < offset + size)
    BY <1>11, <1>12, <2>1
  <2>3. r \in page => x \in sweep'.found
    BY <1>9, <2>1
  <2>4. Exact \/ ~sweep.tied
    BY <1>9, <1>12
  <2>5. rank < offset => x \in sweep.found
    BY <1>1, <1>12, <2>4 DEF SweepInv, offset
  <2>6. sweep.found \subseteq sweep'.found BY <1>9
  <2> HIDE DEF rank
  <2>7. rank < offset + size => x \in sweep'.found
    BY <2>2, <2>3, <2>5, <2>6
  <2> QED BY <2>1, <2>2, <2>7 DEF rank
<1>13. ASSUME ~sweep.deleted, Exact \/ ~sweep'.tied, sweep'.done PROVE Reached'
  <2> DEFINE missed == sweep.untouched \ sweep'.found
             ids == {r.id: r \in later}
  <2>1. missed \subseteq ids
    BY <1>12, <1>13
  <2>2. Cardinality(ids) = Cardinality(later) /\ IsFiniteSet(ids)
    <3>1. later \in SUBSET Stored BY <1>5, <1>11
    <3>2. ids \subseteq {r.id: r \in Listed(sweep.status)}
      BY <1>11 DEF listed
    <3> QED BY <3>1, <3>2, IdsCount, ListedIds
  <2> HIDE DEF ids, missed
  <2>3. Cardinality(missed) \in Nat /\ Cardinality(missed) <= Cardinality(ids)
    BY <2>1, <2>2, FS_Subset, FS_CardinalityType
  <2>4. offset + size >= sweep.total
    BY <1>6, <1>9, <1>13 DEF done
  <2>5. size \in Nat BY <1>3 DEF size
  <2>6. Cardinality(later) <= joined
    BY <1>3, <1>5, <1>6, <1>8, <1>11, <2>4, <2>5
  <2>7. Cardinality(missed) <= joined
    BY <1>8, <2>2, <2>3, <2>6, FS_CardinalityType
  <2> QED BY <1>9, <2>7 DEF Reached, missed
<1>14. sweep'.size > 0 /\ ~sweep'.deleted =>
       sweep'.untouched \subseteq {r.id: r \in Listed(sweep.status)'}
  BY <1>1, <1>9 DEF SweepInv, Listed, Stored
<1>15. sweep'.size > 0 /\ ~sweep'.deleted /\ (Exact' \/ ~sweep'.tied) =>
       /\ sweep'.done => Reached'
       /\ \A x \in sweep'.untouched:
            Cardinality(AheadIds(rows', sweep'.status, Exact', x)) < sweep'.page * sweep'.size
              => x \in sweep'.found
  <2>1. sweep'.page * sweep'.size = offset + size
    BY <1>6, <1>9
  <2> QED BY <1>1, <1>9, <1>10, <1>12, <1>13, <2>1
<1>16. sweep'.size = 0 => ~sweep'.done /\ ~sweep'.counted
  BY <1>1, <1>3, <1>9
<1>17. sweep'.size > 0 => kind' = "entries" /\ sweep'.size \in PageSizes
  BY <1>1, <1>9 DEF SweepInv
<1> QED BY <1>9, <1>14, <1>15, <1>16, <1>17 DEF SweepInv

\* A step that leaves the client alone and adds rows at the end, or none.
LEMMA SweepUntouched ==
  ASSUME TablesInv, TablesInv', SweepInv, kind' = kind, backend' = backend, sweep' = sweep,
         \A i \in DOMAIN rows: i \in DOMAIN rows' /\ rows'[i] = rows[i]
  PROVE  SweepInv'
<1>1. sweep \in Sweeps /\ sweep.deleted \in BOOLEAN
  BY DEF SweepInv, Sweeps
<1>2. sweep' = [sweep EXCEPT !.untouched = @ \ {}, !.deleted = sweep.deleted]
  BY <1>1 DEF Sweeps
<1> QED BY <1>1, <1>2, RowsInPlace

\* What is done to the table, and the next page, keep what a sweep relies on.
LEMMA SweepStep ==
  ASSUME TablesInv, SweepInv, QNext \/ UNCHANGED qvars
  PROVE  SweepInv'
<1>1. TablesInv'
  BY TablesStep
<1>2. sweep \in Sweeps /\ sweep.deleted \in BOOLEAN /\ sweep.status \in {None, "valid"}
  BY DEF SweepInv, Sweeps
<1>3. /\ Table(rows, now) /\ Len(rows) \in Nat /\ DOMAIN rows = 1..Len(rows)
      /\ \A k \in DOMAIN rows: rows[k] \in Rows /\ rows[k].id \in Ids /\ rows[k].time \in Nat
                               /\ rows[k].time <= now
  BY RowsOfTable
<1>4. CASE UNCHANGED qvars
  BY <1>1, <1>4, SweepUntouched DEF qvars
<1>5. ASSUME NEW id \in Ids, NEW t \in 1..MaxTime, NEW c \in Columns(kind), Insert(id, c, t)
      PROVE  SweepInv'
  <2>1. /\ t \in InsertTimes /\ rows' = Append(rows, Row(id, c, t))
        /\ kind' = kind /\ backend' = backend /\ sweep' = sweep
    BY <1>5 DEF Insert
  <2>2. t \in Nat /\ t <= now
    BY <2>1 DEF InsertTimes, TablesInv
  <2>3. \A k \in DOMAIN rows: rows[k].id # id
    BY <1>5 DEF Insert, Stored, ToSet
  <2>4. Row(id, c, t) \in Rows /\ Row(id, c, t).id = id /\ Row(id, c, t).time = t
    BY <2>2, RowTyped
  <2>5. /\ DOMAIN Append(rows, Row(id, c, t)) = 1..(Len(rows) + 1)
        /\ \A i \in DOMAIN rows: Append(rows, Row(id, c, t))[i] = rows[i]
    BY <1>3, <2>2, <2>3, <2>4, AppendRow
  <2>6. \A i \in DOMAIN rows: i \in DOMAIN rows' /\ rows'[i] = rows[i]
    BY <1>3, <2>1, <2>5
  <2> QED BY <1>1, <2>1, <2>6, SweepUntouched
<1>6. ASSUME NEW k \in DOMAIN rows, NEW c \in Columns(kind), Rewrite(k, c)
      PROVE  SweepInv'
  <2>1. kind' = kind /\ backend' = backend /\ now \in Nat
    BY <1>6 DEF Rewrite, TablesInv
  <2>2. sweep' = [sweep EXCEPT !.untouched = @ \ {rows[k].id}, !.deleted = sweep.deleted]
    BY <1>2, <1>6 DEF Rewrite, Sweeps
  <2>3. CASE kind = "entries" /\ backend = "sqlite"
    <3> DEFINE row == Row(rows[k].id, c, now)
    <3>1. rows' = Append(RemoveAt(rows, k), row)
      BY <1>6, <2>3 DEF Rewrite
    <3>2. row \in Rows /\ row.id = rows[k].id /\ row.time = now /\ row.status = "valid"
      BY <1>3, <2>1, <2>3, RowTyped
    <3> HIDE DEF row
    <3> QED BY <1>1, <2>1, <2>2, <3>1, <3>2, RowReplaced
  <2>4. CASE ~(kind = "entries" /\ backend = "sqlite")
    <3> DEFINE row == Row(rows[k].id, c, rows[k].time)
    <3>1. rows' = [rows EXCEPT ![k] = row]
      BY <1>6, <2>4 DEF Rewrite
    <3>2. row \in Rows /\ row.id = rows[k].id /\ row.time = rows[k].time
      BY <1>3, RowTyped
    <3>3. sweep.size > 0 => row.status = "valid"
      <4>1. sweep.size > 0 => kind = "entries" BY DEF SweepInv
      <4> QED BY <1>3, <4>1, RowTyped
    <3> HIDE DEF row
    <3>4. /\ DOMAIN rows' = DOMAIN rows
          /\ \A i \in DOMAIN rows: rows'[i] = IF i = k THEN row ELSE rows[i]
      BY <3>1
    <3>5. sweep.size > 0 /\ ~sweep.deleted =>
            \A i \in DOMAIN rows:
              /\ i \in DOMAIN rows' /\ rows'[i].id = rows[i].id /\ rows'[i].time = rows[i].time
              /\ sweep.status \in {None, rows[i].status} => sweep.status \in {None, rows'[i].status}
      BY <1>2, <3>2, <3>3, <3>4
    <3> QED BY <1>1, <1>2, <2>1, <2>2, <3>5, RowsInPlace
  <2> QED BY <2>3, <2>4
<1>7. ASSUME NEW k \in DOMAIN rows, Invalidate(k) PROVE SweepInv'
  <2> DEFINE row == [rows[k] EXCEPT !.status = "invalidated"]
             lost == sweep.deleted \/ (sweep.size > 0 /\ sweep.status = "valid")
  <2>1. rows' = [rows EXCEPT ![k] = row] /\ kind' = kind /\ backend' = backend
    BY <1>7 DEF Invalidate
  <2>2. row.id = rows[k].id /\ row.time = rows[k].time
    BY <1>3 DEF Rows
  <2>3. sweep' = [sweep EXCEPT !.untouched = @ \ {rows[k].id}, !.deleted = lost]
    BY <1>2, <1>7 DEF Invalidate, Sweeps
  <2>4. lost \in BOOLEAN
    BY <1>2
  <2> HIDE DEF row
  <2>5. /\ DOMAIN rows' = DOMAIN rows
        /\ \A i \in DOMAIN rows: rows'[i] = IF i = k THEN row ELSE rows[i]
    BY <2>1
  <2>6. sweep.size > 0 /\ ~lost =>
          /\ ~sweep.deleted
          /\ \A i \in DOMAIN rows:
              /\ i \in DOMAIN rows' /\ rows'[i].id = rows[i].id /\ rows'[i].time = rows[i].time
              /\ sweep.status \in {None, rows[i].status} => sweep.status \in {None, rows'[i].status}
    BY <1>2, <2>2, <2>5
  <2> HIDE DEF lost
  <2> QED BY <1>1, <2>1, <2>3, <2>4, <2>6, RowsInPlace
<1>8. ASSUME NEW k \in DOMAIN rows, Delete(k) PROVE SweepInv'
  <2>1. kind' = kind /\ backend' = backend
    BY <1>8 DEF Delete
  <2> DEFINE lost == sweep.size > 0
  <2>2. sweep' = [sweep EXCEPT !.untouched = @ \ {rows[k].id}, !.deleted = lost]
    BY <1>8 DEF Delete
  <2>3. lost \in BOOLEAN
    OBVIOUS
  <2>4. ~(sweep.size > 0 /\ ~lost)
    OBVIOUS
  <2> HIDE DEF lost
  <2> QED BY <1>1, <2>1, <2>2, <2>3, <2>4, RowsInPlace
<1>9. ASSUME NEW session \in Owners, NEW n \in 0..MaxEntries, NEW ids \in [1..n -> Ids],
             RecordProvenance(session, ids)
      PROVE  SweepInv'
  <2> DEFINE entry(id) == [id |-> id, name |-> session, status |-> "valid", value |-> None,
                           words |-> {}, tags |-> {}, time |-> now]
             new == [k \in 1..Len(ids) |-> entry(ids[k])]
  <2>1. rows' = rows \o new /\ kind' = kind /\ backend' = backend /\ sweep' = sweep
    BY <1>9 DEF RecordProvenance
  <2>2. n \in Nat /\ Len(ids) = n
    <3>1. n \in Nat BY QueriesAssumption
    <3> QED BY <3>1
  <2>3. new \in Seq(Rows)
    <3>1. \A k \in 1..n: entry(ids[k]) \in Rows
      BY DEF Rows, Values, TablesInv
    <3> HIDE DEF entry
    <3> QED BY <2>2, <3>1
  <2> HIDE DEF new
  <2>4. rows \in Seq(Rows)
    BY <1>3 DEF Table
  <2>5. \A i \in DOMAIN rows: i \in DOMAIN (rows \o new) /\ (rows \o new)[i] = rows[i]
    BY <1>3, <2>3, <2>4, ConcatProperties
  <2> QED BY <1>1, <2>1, <2>5, SweepUntouched
<1>10. CASE Tick
  BY <1>1, <1>10, SweepUntouched DEF Tick
<1>11. ASSUME NEW size \in PageSizes, NEW status \in {None, "valid"}, StartSweep(size, status)
       PROVE  SweepInv'
  <2> DEFINE ids == {r.id: r \in Listed(status)}
             next == [size |-> size, status |-> status, page |-> 0, found |-> {},
                      counted |-> FALSE, total |-> 0, joined |-> 0,
                      untouched |-> ids, deleted |-> FALSE, tied |-> FALSE, done |-> FALSE]
  <2>1. /\ kind = "entries" /\ kind' = kind /\ backend' = backend /\ rows' = rows
        /\ sweep' = [NoSweep EXCEPT !.size = size, !.status = status, !.untouched = ids]
    BY <1>11 DEF StartSweep
  <2>2. \A r \in Listed(status): r.id \in Ids
    BY <1>3 DEF Listed, Stored, ToSet
  <2>3. ids \in SUBSET Ids
    BY <2>2
  <2>4. ids = {r.id: r \in Listed(status)'}
    BY <2>1 DEF Listed, Stored
  <2>5. size \in Nat
    BY QueriesAssumption
  <2> HIDE DEF ids
  <2>6. sweep' = next
    BY <2>1 DEF NoSweep
  <2>7. next \in Sweeps
    BY <2>3, <2>5 DEF Sweeps
  <2>8. \A x \in Ids: Cardinality(AheadIds(rows', status, Exact', x)) \in Nat
    <3>1. Table(rows', now') BY <1>1 DEF TablesInv, Table
    <3> QED BY <3>1, AheadFinite
  <2>9. sweep'.page * sweep'.size = 0
    BY <2>5, <2>6
  <2>10. /\ sweep'.size = size /\ sweep'.status = status /\ sweep'.untouched = ids
         /\ ~sweep'.done /\ ~sweep'.counted /\ ~sweep'.deleted
    BY <2>6
  <2>11. \A x \in sweep'.untouched:
           ~(Cardinality(AheadIds(rows', sweep'.status, Exact', x)) < sweep'.page * sweep'.size)
    BY <2>3, <2>8, <2>9, <2>10
  <2>12. sweep' \in Sweeps BY <2>6, <2>7
  <2>13. sweep'.untouched \subseteq {r.id: r \in Listed(sweep.status)'}
    BY <2>4, <2>10
  <2> QED BY <2>1, <2>10, <2>11, <2>12, <2>13 DEF SweepInv
<1>12. CASE CountEntries
  BY <1>12, CountKeeps
<1>13. CASE ReadPage
  BY <1>13, PageKeeps
<1> QED BY <1>4, <1>5, <1>6, <1>7, <1>8, <1>9, <1>10, <1>11, <1>12, <1>13 DEF QNext

\* A sweep that has ended has reached every entry nobody touched.
LEMMA SweepImplies == SweepInv => SweepFindsUntouched
<1> SUFFICES ASSUME SweepInv, sweep.done, ~sweep.deleted, Exact \/ ~sweep.tied
             PROVE  Reached
  BY DEF SweepFindsUntouched, Exact, Reached
<1>1. sweep.size > 0
  BY DEF SweepInv, Sweeps
<1> QED BY <1>1 DEF SweepInv

\* Before anything is stored or read.
LEMMA EmptyTable ==
  ASSUME rows = <<>>, now \in Nat, sweep = NoSweep PROVE TablesInv /\ SweepInv
<1>1. TablesInv
  BY DEF TablesInv
<1>2. NoSweep \in Sweeps
  BY DEF NoSweep, Sweeps
<1> QED BY <1>1, <1>2 DEF SweepInv, NoSweep

\* The same, of a behaviour about a table.
LEMMA TablesStart == QInit => TablesInv /\ SweepInv
BY EmptyTable DEF QInit

-----------------------------------------------------------------------------
(* Workflows.                                                               *)

\* The positions of the file of a bundle that runs.
RunFiles(bundle) == {k \in DOMAIN bundle.files: bundle.files[k].path = bundle.entrypoint}

RunnableType(type) == IF type = "python" THEN "function" ELSE type

\* A bundle is the workflow asked for.
Holds(bundle, asked) ==
  IF bundle = None THEN asked.contents = {}
  ELSE /\ bundle \in Bundles /\ bundle.type # None
       /\ WellFormed(bundle.files)
       /\ asked.type = RunnableType(bundle.type)
       /\ asked.contents = {bundle.files[k].content: k \in RunFiles(bundle)}

Deployed == /\ local \in Definitions \cup {None}
            /\ local # None /\ local.type = "notebook"
                 => /\ local.content \in Notebooks
                    /\ local.schema = ParseNotebook(local.content)

WorkflowInv ==
  /\ Deployed
  /\ record # None => /\ record.schema \in [Sides -> Schemas]
                      /\ sent.schema = record.schema
                      /\ Holds(record.bundle, sent.asked)

\* The type and the entry point normalize_workflow_bundle settles on.
LEMMA PlainParts ==
  /\ \A type: DefaultWorkflowEntrypoint(type) \in Paths
  /\ \A p \in Requested: /\ p.type \in Types \cup {None} /\ p.entrypoint \in Paths \cup {None}
                         /\ PayloadType(p) \in Types /\ PayloadEntrypoint(p) \in Paths
<1>1. ASSUME NEW type PROVE DefaultWorkflowEntrypoint(type) \in Paths
  <2>1. type = "notebook" => DefaultWorkflowEntrypoint(type) = "workflow.ipynb"
    BY DEF DefaultWorkflowEntrypoint
  <2>2. type \in {"function", "python"} => DefaultWorkflowEntrypoint(type) = "workflow.py"
    BY DEF DefaultWorkflowEntrypoint
  <2>3. type = "docker" => DefaultWorkflowEntrypoint(type) = "Dockerfile"
    BY DEF DefaultWorkflowEntrypoint
  <2>4. type \notin {"notebook", "function", "python", "docker"} => DefaultWorkflowEntrypoint(type) = "workflow.bin"
    BY DEF DefaultWorkflowEntrypoint
  <2>5. {"workflow.ipynb", "workflow.py", "Dockerfile", "workflow.bin"} \subseteq Paths
    BY WorkflowsAssumption
  <2> QED BY <2>1, <2>2, <2>3, <2>4, <2>5
<1>2. ASSUME NEW p \in Requested
      PROVE  p.type \in Types \cup {None} /\ p.entrypoint \in Paths \cup {None}
  BY DEF Requested
<1>3. ASSUME NEW p \in Requested PROVE PayloadType(p) \in Types
  <2>1. "notebook" \in Types BY WorkflowsAssumption
  <2> QED BY <1>2, <2>1 DEF PayloadType, Or
<1>4. ASSUME NEW p \in Requested PROVE PayloadEntrypoint(p) \in Paths
  BY <1>1, <1>2 DEF PayloadEntrypoint, Or
<1> QED BY <1>1, <1>2, <1>3, <1>4

\* The files it puts together are files.
LEMMA FilesOfPayload ==
  ASSUME NEW p \in Requested
  PROVE  PayloadFiles(p) \in Seq(Files)
<1>1. PayloadEntrypoint(p) \in Paths \cup {None}
  BY PlainParts
<1>2. p.data # None => [path |-> PayloadEntrypoint(p), content |-> p.data] \in Files
  BY <1>1 DEF Requested, Files
<1>3. p.dockerfile # None => [path |-> "Dockerfile", content |-> p.dockerfile] \in Files
  <2>1. "Dockerfile" \in Paths BY WorkflowsAssumption
  <2>2. p.dockerfile \in Contents \cup {None}
    BY DEF Requested
  <2> QED BY <2>1, <2>2 DEF Files
<1>4. (IF p.data = None THEN <<>> ELSE <<[path |-> PayloadEntrypoint(p), content |-> p.data]>>) \in Seq(Files)
  BY <1>2
<1>5. (IF p.dockerfile = None THEN <<>> ELSE <<[path |-> "Dockerfile", content |-> p.dockerfile]>>) \in Seq(Files)
  BY <1>3
<1>6. p.context \in Seq(Files) /\ (p.files # None => p.files \in Seq(Files))
  BY DEF Requested
<1> QED BY <1>4, <1>5, <1>6 DEF PayloadFiles

\* The contents of the file named as the entry point.
LEMMA ContentsNamed ==
  ASSUME NEW bundle
  PROVE  {file.content: file \in {g \in ToSet(bundle.files): g.path = bundle.entrypoint}}
           = {bundle.files[k].content: k \in RunFiles(bundle)}
BY DEF ToSet, RunFiles

\* The bundle stored is the workflow asked for.
LEMMA NormalizedHolds ==
  ASSUME NEW p \in Requested, NormalizeWorkflowBundle(p) # Invalid
  PROVE  /\ Holds(NormalizeWorkflowBundle(p), Asked(p))
         /\ NormalizeWorkflowBundle(p) \in Bundles \cup {None}
<1>0. None \notin Types
  BY WorkflowsAssumption
<1>1. CASE p.bundle # None
  <2> DEFINE b == GivenBundle(p)
  <2>1. b \in Bundles /\ b.type # None
    <3>1. p.bundle \in Bundles
      BY <1>1 DEF Requested
    <3>2. /\ p.bundle.type \in Types \cup {None} /\ p.bundle.entrypoint \in Paths \cup {None}
          /\ p.bundle.files \in Seq(Files) /\ p.bundle.schema \in [Sides -> Schemas \cup {None}]
      BY <3>1 DEF Bundles
    <3>3. b.type \in Types /\ b.entrypoint \in Paths
      BY <3>2, PlainParts DEF GivenBundle, Or
    <3>4. b = [type |-> b.type, entrypoint |-> b.entrypoint, files |-> p.bundle.files, schema |-> p.bundle.schema]
      BY DEF GivenBundle
    <3> HIDE DEF b
    <3>5. b \in Bundles
      BY <3>2, <3>3, <3>4 DEF Bundles
    <3> QED BY <1>0, <3>3, <3>5
  <2>2. NormalizeWorkflowBundle(p) = b /\ WellFormed(b.files)
    BY <1>1 DEF NormalizeWorkflowBundle
  <2>3. Asked(p).type = RunnableType(b.type)
    BY <1>1 DEF Asked, GivenBundle, PayloadType, RunnableType
  <2>4. Asked(p).contents = {file.content: file \in {g \in ToSet(b.files): g.path = b.entrypoint}}
    BY <1>1 DEF Asked, GivenBundle, PayloadType
  <2>5. b # None
    BY <2>1, WorkflowsAssumption
  <2> HIDE DEF b
  <2>6. Asked(p).contents = {b.files[k].content: k \in RunFiles(b)}
    BY <2>4, ContentsNamed
  <2> QED BY <2>1, <2>2, <2>3, <2>5, <2>6 DEF Holds
<1>2. CASE p.bundle = None
  <2> DEFINE b == [type |-> PayloadType(p), entrypoint |-> PayloadEntrypoint(p),
                   files |-> PayloadFiles(p), schema |-> NoSchema]
  <2>1. b \in Bundles /\ b.type # None
    <3>1. NoSchema \in [Sides -> Schemas \cup {None}]
      BY DEF NoSchema
    <3> QED BY <1>0, <3>1, FilesOfPayload, PlainParts DEF Bundles
  <2>2. Asked(p) = [type |-> RunnableType(b.type),
                    contents |-> {file.content: file \in {g \in ToSet(b.files): g.path = b.entrypoint}}]
    BY <1>2, <1>0 DEF Asked, PayloadType, RunnableType, PayloadEntrypoint, Or
  <2>0. NormalizeWorkflowBundle(p) =
          IF p.files = None /\ b.files = <<>> THEN None
          ELSE IF WellFormed(b.files) THEN b ELSE Invalid
    BY <1>2 DEF NormalizeWorkflowBundle
  <2> HIDE DEF b
  <2>3. CASE p.files = None /\ b.files = <<>>
    <3>1. NormalizeWorkflowBundle(p) = None
      BY <2>0, <2>3
    <3>2. Asked(p).contents = {}
      BY <2>2, <2>3 DEF ToSet
    <3> QED BY <3>1, <3>2 DEF Holds
  <2>4. CASE ~(p.files = None /\ b.files = <<>>)
    <3>1. NormalizeWorkflowBundle(p) = b /\ WellFormed(b.files)
      BY <2>0, <2>4
    <3>2. b # None
      BY <2>1, WorkflowsAssumption
    <3>3. Asked(p).type = RunnableType(b.type)
      BY <2>2
    <3>4. Asked(p).contents = {b.files[k].content: k \in RunFiles(b)}
      <4>1. Asked(p).contents = {file.content: file \in {g \in ToSet(b.files): g.path = b.entrypoint}}
        BY <2>2
      <4> QED BY <4>1, ContentsNamed
    <3> QED BY <2>1, <3>1, <3>2, <3>3, <3>4 DEF Holds
  <2> QED BY <2>3, <2>4
<1> QED BY <1>1, <1>2

\* Each side has a schema, of the payload or of its bundle.
LEMMA SchemasResolved ==
  ASSUME NEW p \in Requested, NEW bundle \in Bundles \cup {None},
         BothSides(ResolveSchemas(p, bundle))
  PROVE  ResolveSchemas(p, bundle) \in [Sides -> Schemas]
<1> SUFFICES ASSUME NEW side \in Sides PROVE ResolveSchemas(p, bundle)[side] \in Schemas
  BY DEF ResolveSchemas
<1>1. ResolveSchemas(p, bundle)[side] # None
  BY DEF BothSides
<1>2. p.schema[side] \in Schemas \cup {None}
  BY DEF Requested
<1>3. bundle # None => bundle.schema[side] \in Schemas \cup {None}
  BY DEF Bundles
<1> QED BY <1>1, <1>2, <1>3 DEF ResolveSchemas, Or

\* register_simulation.
LEMMA RegisterKeeps ==
  ASSUME WorkflowInv, NEW p \in Requested, Register(p)
  PROVE  WorkflowInv'
<1> DEFINE bundle == NormalizeWorkflowBundle(p)
<1>1. bundle # Invalid /\ BothSides(ResolveSchemas(p, bundle))
  BY DEF Register
<1>2. Holds(bundle, Asked(p)) /\ bundle \in Bundles \cup {None}
  BY <1>1, NormalizedHolds
<1>3. /\ record'.schema = ResolveSchemas(p, bundle)
      /\ record'.bundle = bundle
      /\ sent' = [asked |-> Asked(p), schema |-> record'.schema]
      /\ local' = local
  BY DEF Register
<1>4. record'.schema \in [Sides -> Schemas]
  BY <1>1, <1>2, <1>3, SchemasResolved
<1>5. Deployed'
  BY <1>3 DEF WorkflowInv, Deployed
<1>6. Holds(record'.bundle, sent'.asked)
  BY <1>2, <1>3
<1> QED BY <1>3, <1>4, <1>5, <1>6 DEF WorkflowInv

\* What is synchronised from the local repository is a request like any other.
LEMMA SyncIsRequest ==
  ASSUME WorkflowInv, LoadSimulation # Invalid
  PROVE  LoadSimulation \in Definitions /\ SyncPayload(LoadSimulation) \in Requested
<1>1. LoadSimulation \in Definitions
  BY DEF WorkflowInv, Deployed, LoadSimulation
<1> DEFINE sim == LoadSimulation
          path == DefaultWorkflowEntrypoint(sim.type)
<1>2. sim.type \in Types /\ sim.content \in Contents /\ sim.schema \in [Sides -> Schemas \cup {None}]
  <2>1. sim.type \in {"notebook", "function"} /\ sim.content \in Contents /\ sim.schema \in [Sides -> Schemas]
    BY <1>1 DEF Definitions
  <2>2. {"notebook", "function"} \subseteq Types BY WorkflowsAssumption
  <2> QED BY <2>1, <2>2
<1>3. path \in Paths
  BY PlainParts
<1>4. <<[path |-> path, content |-> sim.content]>> \in Seq(Files)
  BY <1>2, <1>3 DEF Files
<1> HIDE DEF sim, path
<1>5. [type |-> sim.type, entrypoint |-> path, schema |-> NoSchema,
       files |-> <<[path |-> path, content |-> sim.content]>>] \in Bundles
  BY <1>2, <1>3, <1>4 DEF Bundles, NoSchema
<1>6. SyncPayload(sim) \in Requested
  <2>1. <<>> \in Seq(Files) OBVIOUS
  <2> QED BY <1>2, <1>5, <2>1 DEF SyncPayload, Requested, path
<1> QED BY <1>1, <1>6 DEF sim

\* update_simulation.
LEMMA UpdateKeeps ==
  ASSUME WorkflowInv, NEW u \in Requested, Update(u)
  PROVE  WorkflowInv'
<1> DEFINE bundle == NormalizeWorkflowBundle(u)
<1>1. /\ record # None
      /\ UpdatesBundle(u) => bundle # Invalid
      /\ record'.schema = [side \in Sides |-> Or(u.schema[side], record.schema[side])]
      /\ record'.bundle = IF UpdatesBundle(u) THEN bundle ELSE record.bundle
      /\ sent' = [asked |-> IF UpdatesBundle(u) THEN Asked(u) ELSE sent.asked, schema |-> record'.schema]
      /\ local' = local
  BY DEF Update
<1>2. record'.schema \in [Sides -> Schemas]
  BY <1>1 DEF WorkflowInv, Requested, Or
<1>3. Holds(record'.bundle, sent'.asked)
  BY <1>1, NormalizedHolds DEF WorkflowInv
<1>4. Deployed'
  BY <1>1 DEF WorkflowInv, Deployed
<1> QED BY <1>1, <1>2, <1>3, <1>4 DEF WorkflowInv

\* A notebook has, for each side, the schema of its last cell of that side.
LEMMA ParsedSchema ==
  ASSUME NEW cells \in Notebooks, NEW side \in Sides
  PROVE  /\ ParseNotebook(cells)[side] \in Schemas \cup {None}
         /\ \A k \in DOMAIN cells:
              /\ cells[k].magic = side
              /\ \A j \in (k + 1)..Len(cells): cells[j].magic # side
              => ParseNotebook(cells)[side] = cells[k].schema
<1> DEFINE last == {k \in DOMAIN cells: /\ cells[k].magic = side
                                        /\ \A j \in (k + 1)..Len(cells): cells[j].magic # side}
<1>1. ParseNotebook(cells)[side] = IF last = {} THEN None ELSE cells[CHOOSE k \in last: TRUE].schema
  BY DEF ParseNotebook
<1>2. cells \in Seq(Cells)
  BY WorkflowsAssumption
<1>3. \A j, k \in last: j = k
  <2>1. Len(cells) \in Nat /\ DOMAIN cells = 1..Len(cells)
    BY <1>2
  <2> QED BY <2>1
<1>4. \A k \in DOMAIN cells: cells[k].schema \in Schemas
  <2> SUFFICES ASSUME NEW k \in DOMAIN cells PROVE cells[k].schema \in Schemas OBVIOUS
  <2>1. cells[k] \in Cells
    BY <1>2
  <2> QED BY <2>1 DEF Cells
<1> QED BY <1>1, <1>3, <1>4

\* deploy.
LEMMA DeployKeeps ==
  ASSUME WorkflowInv
  PROVE  /\ \A cells \in Notebooks: DeployNotebook(cells) => WorkflowInv'
         /\ \A source \in Sources, p \in Payloads:
              BothSides(p.schema) /\ DeployFunction(source, p.schema) => WorkflowInv'
<1>1. ASSUME NEW cells \in Notebooks, DeployNotebook(cells) PROVE WorkflowInv'
  <2>1. /\ local' = [type |-> "notebook", content |-> cells, schema |-> ParseNotebook(cells)]
        /\ BothSides(ParseNotebook(cells)) /\ record' = record /\ sent' = sent
    BY <1>1 DEF DeployNotebook
  <2>2. ParseNotebook(cells) \in [Sides -> Schemas]
    BY <2>1, ParsedSchema DEF ParseNotebook, BothSides
  <2>3. Deployed'
    BY <2>1, <2>2, WorkflowsAssumption DEF Deployed, Definitions
  <2> QED BY <2>1, <2>3 DEF WorkflowInv
<1>2. ASSUME NEW source \in Sources, NEW p \in Payloads, BothSides(p.schema),
             DeployFunction(source, p.schema)
      PROVE  WorkflowInv'
  <2>1. /\ local' = [type |-> "function", content |-> source, schema |-> p.schema]
        /\ record' = record /\ sent' = sent
    BY <1>2 DEF DeployFunction
  <2>2. p \in Requested
    BY WorkflowsAssumption
  <2>3. p.schema \in [Sides -> Schemas]
    BY <1>2, <2>2 DEF BothSides, Requested
  <2>4. Deployed'
    BY <2>1, <2>3, WorkflowsAssumption DEF Deployed, Definitions
  <2> QED BY <2>1, <2>4 DEF WorkflowInv
<1> QED BY <1>1, <1>2

\* No call changes what a simulation runs unless it says so.
LEMMA WorkflowStep ==
  ASSUME WorkflowInv, WNext \/ UNCHANGED wvars
  PROVE  WorkflowInv'
<1>1. CASE UNCHANGED wvars
  BY <1>1 DEF wvars, WorkflowInv, Deployed
<1>2. ASSUME NEW cells \in Notebooks, DeployNotebook(cells) PROVE WorkflowInv'
  BY <1>2, DeployKeeps
<1>3. ASSUME NEW source \in Sources, NEW p \in Payloads, BothSides(p.schema) /\ DeployFunction(source, p.schema)
      PROVE  WorkflowInv'
  BY <1>3, DeployKeeps
<1>4. ASSUME NEW p \in Payloads, Register(p) PROVE WorkflowInv'
  BY <1>4, RegisterKeeps, WorkflowsAssumption
<1>5. CASE SyncLocal
  BY <1>5, SyncIsRequest, RegisterKeeps DEF SyncLocal
<1>6. ASSUME NEW u \in Updates, Update(u) PROVE WorkflowInv'
  BY <1>6, UpdateKeeps, WorkflowsAssumption
<1>7. CASE DeleteRecord
  BY <1>7 DEF DeleteRecord, WorkflowInv, Deployed
<1> QED BY <1>1, <1>2, <1>3, <1>4, <1>5, <1>6, <1>7 DEF WNext

\* What the catalog makes of a bundle that is what was asked for.
LEMMA RecordRuns ==
  ASSUME WorkflowInv, record # None
  PROVE  IF sent.asked.type \in {"notebook", "function"} /\ sent.asked.contents # {}
         THEN /\ Definition # Invalid
              /\ Definition.type = sent.asked.type /\ Definition.schema = sent.schema
              /\ sent.asked.contents = {Definition.content}
         ELSE Definition = Invalid
<1> DEFINE bundle == record.bundle
           content == FileContent(bundle, bundle.entrypoint)
           type == Or(bundle.type, Or(record.type, "notebook"))
<1>1. Definition = SimulationFromRecord
  BY DEF Definition
<1>2. CASE bundle = None
  BY <1>1, <1>2 DEF SimulationFromRecord, WorkflowInv, Holds
<1>3. CASE bundle # None
  <2>1. /\ bundle \in Bundles /\ bundle.type # None /\ WellFormed(bundle.files)
        /\ sent.asked.type = RunnableType(bundle.type)
        /\ sent.asked.contents = {bundle.files[k].content: k \in RunFiles(bundle)}
        /\ record.schema \in [Sides -> Schemas] /\ sent.schema = record.schema
    BY <1>3 DEF WorkflowInv, Holds
  <2>2. type = bundle.type
    BY <2>1 DEF Or
  <2>3. bundle.files \in Seq(Files)
    BY <2>1 DEF Bundles
  <2>4. \A j, k \in RunFiles(bundle): j = k
    BY <2>1 DEF RunFiles, WellFormed
  <2>5. \A k \in DOMAIN bundle.files: bundle.files[k].content \in Contents
    <3> SUFFICES ASSUME NEW k \in DOMAIN bundle.files PROVE bundle.files[k].content \in Contents OBVIOUS
    <3>1. bundle.files[k] \in Files
      BY <2>3
    <3>2. bundle.files[k].content \in Contents \cup {None}
      BY <3>1 DEF Files
    <3>3. bundle.files[k].content # None
      BY <2>1 DEF WellFormed, WellFormedFile
    <3> QED BY <3>2, <3>3
  <2> DEFINE first == {k \in DOMAIN bundle.files:
                         /\ bundle.files[k].path = bundle.entrypoint
                         /\ \A j \in 1..(k - 1): bundle.files[j].path # bundle.entrypoint}
  <2>6. first = RunFiles(bundle)
    <3>1. Len(bundle.files) \in Nat /\ DOMAIN bundle.files = 1..Len(bundle.files)
      BY <2>3
    <3>2. \A k \in RunFiles(bundle): \A j \in 1..(k - 1): bundle.files[j].path # bundle.entrypoint
      BY <3>1, <2>4 DEF RunFiles
    <3> QED BY <3>2 DEF RunFiles
  <2>7. content = IF first = {} THEN Invalid ELSE bundle.files[CHOOSE k \in first: TRUE].content
    BY DEF FileContent
  <2>8. CASE RunFiles(bundle) = {}
    <3>1. sent.asked.contents = {}
      BY <2>1, <2>8
    <3>2. content = Invalid
      BY <2>6, <2>7, <2>8
    <3> QED BY <1>1, <1>3, <3>1, <3>2 DEF SimulationFromRecord
  <2>9. CASE RunFiles(bundle) # {}
    <3> PICK k \in RunFiles(bundle): TRUE
      BY <2>9
    <3>1. content = bundle.files[k].content /\ content \in Contents
      BY <2>4, <2>5, <2>6, <2>7, <2>9 DEF RunFiles
    <3>2. sent.asked.contents = {content}
      BY <2>1, <2>4, <3>1
    <3>3. content # Invalid
      BY <3>1, WorkflowsAssumption
    <3> HIDE DEF content
    <3>4. CASE bundle.type \in {"function", "python", "notebook"}
      <4>1. Definition = [type |-> RunnableType(bundle.type), content |-> content, schema |-> record.schema]
        BY <1>1, <1>3, <2>2, <3>3, <3>4 DEF SimulationFromRecord, RunnableType, content
      <4>2. Definition \in Definitions
        BY <2>1, <3>1, <3>4, <4>1 DEF Definitions, RunnableType
      <4> QED BY <2>1, <3>2, <3>4, <4>1, <4>2, WorkflowsAssumption DEF RunnableType
    <3>5. CASE bundle.type \notin {"function", "python", "notebook"}
      <4>1. Definition = Invalid
        BY <1>1, <1>3, <2>2, <3>5 DEF SimulationFromRecord
      <4>2. sent.asked.type \notin {"notebook", "function"}
        BY <2>1, <3>5 DEF RunnableType
      <4> QED BY <4>1, <4>2
    <3> QED BY <3>4, <3>5
  <2> QED BY <2>8, <2>9
<1> QED BY <1>2, <1>3

\* The definition built from such a row or file is the one sent.
LEMMA WorkflowImplies == WorkflowInv => RunsWhatWasSent
<1> SUFFICES ASSUME WorkflowInv PROVE RunsWhatWasSent OBVIOUS
<1>1. ASSUME record = None, local # None, local.type = "notebook"
      PROVE  Definition = local
  BY <1>1 DEF Definition, LoadSimulation
<1>2. ASSUME record = None, local # None, local.type = "notebook",
             NEW side \in Sides, NEW k \in DOMAIN local.content,
             local.content[k].magic = side,
             \A j \in (k + 1)..Len(local.content): local.content[j].magic # side
      PROVE  Definition.schema[side] = local.content[k].schema
  BY <1>1, <1>2, ParsedSchema DEF WorkflowInv, Deployed
<1> QED BY <1>2, RecordRuns DEF RunsWhatWasSent

\* Nothing is deployed or registered when the catalog starts.
LEMMA WorkflowStart == WInit => WorkflowInv
BY DEF WInit, WorkflowInv, Deployed

-----------------------------------------------------------------------------
(* The fields of a schema.                                                  *)

Parts == {"int", "float", "bool", "text", "magnitude", "array", "image", "element", "list", "dict"}

\* A value has one part that names what it is.
LEMMA Shapes ==
  ASSUME NEW v \in FieldValues
  PROVE  /\ v # None /\ v # Invalid
         /\ \/ v \in [int: Int] /\ \A p \in Parts: Has(v, p) <=> p = "int"
            \/ v \in [float: Floats] /\ \A p \in Parts: Has(v, p) <=> p = "float"
            \/ v \in [bool: BOOLEAN] /\ \A p \in Parts: Has(v, p) <=> p = "bool"
            \/ v \in [text: STRING] /\ \A p \in Parts: Has(v, p) <=> p = "text"
            \/ v \in Quantities /\ \A p \in Parts: Has(v, p) <=> p = "magnitude"
            \/ v \in Arrays /\ \A p \in Parts: Has(v, p) <=> p = "array"
            \/ v \in Images /\ \A p \in Parts: Has(v, p) <=> p = "image"
            \/ v \in [element: Symbols] /\ \A p \in Parts: Has(v, p) <=> p = "element"
            \/ v \in [list: Seq(Scalars)] /\ \A p \in Parts: Has(v, p) <=> p = "list"
            \/ v \in [dict: Quantities \cup Arrays \cup Images \cup Mappings]
               /\ \A p \in Parts: Has(v, p) <=> p = "dict"
<1>1. v # None /\ v # Invalid
  BY SchemaAssumption
<1>2. \A p: Has(v, p) <=> p \in DOMAIN v
  BY <1>1 DEF Has
<1>3. CASE v \in [int: Int]
  <2>1. DOMAIN v = {"int"} BY <1>3
  <2> QED BY <1>1, <1>2, <1>3, <2>1 DEF Parts
<1>4. CASE v \in [float: Floats]
  <2>1. DOMAIN v = {"float"} BY <1>4
  <2> QED BY <1>1, <1>2, <1>4, <2>1 DEF Parts
<1>5. CASE v \in [bool: BOOLEAN]
  <2>1. DOMAIN v = {"bool"} BY <1>5
  <2> QED BY <1>1, <1>2, <1>5, <2>1 DEF Parts
<1>6. CASE v \in [text: STRING]
  <2>1. DOMAIN v = {"text"} BY <1>6
  <2> QED BY <1>1, <1>2, <1>6, <2>1 DEF Parts
<1>7. CASE v \in Quantities
  <2>1. DOMAIN v = {"magnitude", "units"} BY <1>7 DEF Quantities
  <2> QED BY <1>1, <1>2, <1>7, <2>1 DEF Parts
<1>8. CASE v \in Arrays
  <2>1. DOMAIN v = {"array", "shape"} BY <1>8 DEF Arrays
  <2> QED BY <1>1, <1>2, <1>8, <2>1 DEF Parts
<1>9. CASE v \in Images
  <2>1. DOMAIN v = {"image"} BY <1>9 DEF Images
  <2> QED BY <1>1, <1>2, <1>9, <2>1 DEF Parts
<1>10. CASE v \in [element: Symbols]
  <2>1. DOMAIN v = {"element"} BY <1>10
  <2> QED BY <1>1, <1>2, <1>10, <2>1 DEF Parts
<1>11. CASE v \in [list: Seq(Scalars)]
  <2>1. DOMAIN v = {"list"} BY <1>11
  <2> QED BY <1>1, <1>2, <1>11, <2>1 DEF Parts
<1>12. CASE v \in [dict: Quantities \cup Arrays \cup Images \cup Mappings]
  <2>1. DOMAIN v = {"dict"} BY <1>12
  <2> QED BY <1>1, <1>2, <1>12, <2>1 DEF Parts
<1> QED BY <1>3, <1>4, <1>5, <1>6, <1>7, <1>8, <1>9, <1>10, <1>11, <1>12 DEF FieldValues, Scalars

\* The value each part has, and that None has none.
LEMMA PartOf ==
  /\ \A p: ~Has(None, p) /\ ~Has(Invalid, p)
  /\ \A v \in FieldValues:
       /\ v # None /\ v # Invalid
       /\ Has(v, "int") => v.int \in Int
       /\ Has(v, "float") => v.float \in Floats
       /\ Has(v, "bool") => v.bool \in BOOLEAN
       /\ Has(v, "text") => v \in [text: STRING]
       /\ Has(v, "magnitude") => v \in Quantities
       /\ Has(v, "array") => v \in Arrays
       /\ Has(v, "image") => v \in Images
       /\ Has(v, "element") => v \in [element: Symbols]
       /\ Has(v, "list") => v \in [list: Seq(Scalars)]
       /\ Has(v, "dict") => v \in [dict: Quantities \cup Arrays \cup Images \cup Mappings]
       /\ \A p, q \in Parts: Has(v, p) /\ Has(v, q) => p = q
<1>1. \A p: ~Has(None, p) /\ ~Has(Invalid, p)
  BY DEF Has
<1>2. /\ "int" \in Parts /\ "float" \in Parts /\ "bool" \in Parts /\ "text" \in Parts /\ "magnitude" \in Parts
      /\ "array" \in Parts /\ "image" \in Parts /\ "element" \in Parts /\ "list" \in Parts /\ "dict" \in Parts
  BY DEF Parts
<1> SUFFICES ASSUME NEW v \in FieldValues
             PROVE  /\ v # None /\ v # Invalid
                    /\ Has(v, "int") => v.int \in Int
                    /\ Has(v, "float") => v.float \in Floats
                    /\ Has(v, "bool") => v.bool \in BOOLEAN
                    /\ Has(v, "text") => v \in [text: STRING]
                    /\ Has(v, "magnitude") => v \in Quantities
                    /\ Has(v, "array") => v \in Arrays
                    /\ Has(v, "image") => v \in Images
                    /\ Has(v, "element") => v \in [element: Symbols]
                    /\ Has(v, "list") => v \in [list: Seq(Scalars)]
                    /\ Has(v, "dict") => v \in [dict: Quantities \cup Arrays \cup Images \cup Mappings]
                    /\ \A p, q \in Parts: Has(v, p) /\ Has(v, q) => p = q
  BY <1>1
<1>3. v \in [int: Int] => v.int \in Int OBVIOUS
<1>4. v \in [float: Floats] => v.float \in Floats OBVIOUS
<1>5. v \in [bool: BOOLEAN] => v.bool \in BOOLEAN OBVIOUS
<1> QED BY <1>2, <1>3, <1>4, <1>5, Shapes

\* What validation makes is a value.
LEMMA Makes ==
  /\ \A n \in Int: [int |-> n] \in FieldValues /\ Has([int |-> n], "int")
  /\ \A x \in Floats: [float |-> x] \in FieldValues /\ Has([float |-> x], "float")
  /\ \A b \in BOOLEAN: [bool |-> b] \in FieldValues /\ Has([bool |-> b], "bool")
  /\ \A s \in STRING: /\ [text |-> s] \in FieldValues /\ Has([text |-> s], "text")
                      /\ [image |-> s] \in FieldValues /\ Has([image |-> s], "image")
  /\ \A x \in Floats, u \in STRING: Quantity(x, u) \in FieldValues /\ Has(Quantity(x, u), "magnitude")
  /\ \A e \in Symbols: [element |-> e] \in FieldValues /\ Has([element |-> e], "element")
  /\ \A a \in Seq(Floats), s \in Seq(Nat):
       [array |-> a, shape |-> s] \in FieldValues /\ Has([array |-> a, shape |-> s], "array")
  /\ \A x \in Quantities \cup Arrays \cup Images: [dict |-> x] \in FieldValues /\ Has([dict |-> x], "dict")
<1>1. \A n \in Int: [int |-> n] \in FieldValues /\ Has([int |-> n], "int")
  BY SchemaAssumption DEF FieldValues, Scalars, Has
<1>2. \A x \in Floats: [float |-> x] \in FieldValues /\ Has([float |-> x], "float")
  BY SchemaAssumption DEF FieldValues, Scalars, Has
<1>3. \A b \in BOOLEAN: [bool |-> b] \in FieldValues /\ Has([bool |-> b], "bool")
  BY SchemaAssumption DEF FieldValues, Scalars, Has
<1>4. \A s \in STRING: [text |-> s] \in FieldValues /\ Has([text |-> s], "text")
  BY SchemaAssumption DEF FieldValues, Scalars, Has
<1>5. \A s \in STRING: [image |-> s] \in FieldValues /\ Has([image |-> s], "image")
  BY SchemaAssumption DEF FieldValues, Images, Has
<1>6. \A x \in Floats, u \in STRING: Quantity(x, u) \in FieldValues /\ Has(Quantity(x, u), "magnitude")
  BY SchemaAssumption DEF FieldValues, Quantities, Quantity, Has
<1>7. \A e \in Symbols: [element |-> e] \in FieldValues /\ Has([element |-> e], "element")
  BY SchemaAssumption DEF FieldValues, Has
<1>8. \A a \in Seq(Floats), s \in Seq(Nat):
        [array |-> a, shape |-> s] \in FieldValues /\ Has([array |-> a, shape |-> s], "array")
  BY SchemaAssumption DEF FieldValues, Arrays, Has
<1>9. \A x \in Quantities \cup Arrays \cup Images: [dict |-> x] \in FieldValues /\ Has([dict |-> x], "dict")
  BY SchemaAssumption DEF FieldValues, Has
<1> QED BY <1>1, <1>2, <1>3, <1>4, <1>5, <1>6, <1>7, <1>8, <1>9

\* float(v) is a number or raises.
LEMMA FloatTyped ==
  /\ Float(None) = Invalid
  /\ \A v \in FieldValues:
       /\ Float(v) \in Floats \cup {Invalid}
       /\ Has(v, "int") => Float(v) = v.int * One
       /\ Has(v, "float") => Float(v) = v.float
       /\ ~(\E p \in {"int", "float", "bool", "text"}: Has(v, p)) => Float(v) = Invalid
<1>1. Float(None) = Invalid
  BY PartOf DEF Float
<1>2. \A s: Numeral(s) \in Floats \cup {Invalid}
  <2> SUFFICES ASSUME NEW s PROVE Numeral(s) \in Floats \cup {Invalid} OBVIOUS
  <2>1. CASE \E n \in 0..MaxNumeral: ToString(n) = s
    <3> DEFINE m == CHOOSE n \in 0..MaxNumeral: ToString(n) = s
    <3>1. m \in 0..MaxNumeral BY <2>1
    <3> HIDE DEF m
    <3>2. One * m \in Int BY <3>1, SchemaAssumption
    <3> QED BY <2>1, <3>2 DEF Numeral, m, Floats
  <2>2. CASE ~\E n \in 0..MaxNumeral: ToString(n) = s
    BY <2>2 DEF Numeral, Floats
  <2> QED BY <2>1, <2>2
<1> SUFFICES ASSUME NEW v \in FieldValues
             PROVE  /\ Float(v) \in Floats \cup {Invalid}
                    /\ Has(v, "int") => Float(v) = v.int * One
                    /\ Has(v, "float") => Float(v) = v.float
                    /\ ~(\E p \in {"int", "float", "bool", "text"}: Has(v, p)) => Float(v) = Invalid
  BY <1>1
<1>3. {"int", "float", "bool", "text"} \subseteq Parts BY DEF Parts
<1>4. \A p, q \in {"int", "float", "bool", "text"}: Has(v, p) /\ Has(v, q) => p = q
  BY <1>3, PartOf
<1>5. CASE Has(v, "int")
  <2>1. ~Has(v, "float") /\ ~Has(v, "bool") /\ ~Has(v, "text") BY <1>4, <1>5
  <2>2. Float(v) = v.int * One BY <1>5, <2>1 DEF Float
  <2>3. v.int * One \in Int BY <1>5, PartOf, SchemaAssumption
  <2> QED BY <1>5, <2>1, <2>2, <2>3 DEF Floats
<1>6. CASE Has(v, "float")
  <2>1. ~Has(v, "int") /\ ~Has(v, "bool") /\ ~Has(v, "text") BY <1>4, <1>6
  <2>2. Float(v) = v.float BY <1>6, <2>1 DEF Float
  <2> QED BY <1>6, <2>1, <2>2, PartOf
<1>7. CASE Has(v, "bool")
  <2>1. ~Has(v, "int") /\ ~Has(v, "float") /\ ~Has(v, "text") BY <1>4, <1>7
  <2>2. Float(v) = IF v.bool THEN One ELSE 0 BY <1>7, <2>1 DEF Float
  <2> QED BY <1>7, <2>1, <2>2, SchemaAssumption DEF Floats
<1>8. CASE Has(v, "text")
  <2>1. ~Has(v, "int") /\ ~Has(v, "float") /\ ~Has(v, "bool") BY <1>4, <1>8
  <2>2. Float(v) = Numeral(v.text) BY <1>8, <2>1 DEF Float
  <2> QED BY <1>2, <1>8, <2>1, <2>2
<1>9. CASE ~\E p \in {"int", "float", "bool", "text"}: Has(v, p)
  BY <1>9 DEF Float
<1> QED BY <1>5, <1>6, <1>7, <1>8, <1>9

-----------------------------------------------------------------------------
(* What a type has made of a value it takes as it is.                        *)

\* Integer: int of an integer is that integer.
LEMMA IntegerSettles ==
  ASSUME NEW f, NEW v \in FieldValues \cup {None}, ValidateInteger(f, v) # Invalid
  PROVE  ValidateInteger(f, v) \in FieldValues /\ ValidateInteger(f, ValidateInteger(f, v)) = ValidateInteger(f, v)
<1>1. Float(v) \in Int
  BY FloatTyped DEF ValidateInteger, Floats
<1>2. Truncated(Float(v)) \in Int
  <2>1. \A x \in Nat: x \div One \in Int BY SchemaAssumption
  <2> QED BY <1>1, <2>1 DEF Truncated
<1> DEFINE n == Truncated(Float(v))
           x == [int |-> n]
<1>n. n \in Int BY <1>2
<1>3. ValidateInteger(f, v) = x /\ Within(f, n * One)
  BY DEF ValidateInteger
<1>4. x \in FieldValues /\ Has(x, "int") /\ x.int = n
  BY <1>2, Makes
<1>5. Truncated(n * One) = n
  <2>1. \A k \in Nat: (k * One) \div One = k
    BY SchemaAssumption
  <2> HIDE DEF n
  <2>2. CASE n >= 0
    <3>1. n * One >= 0 BY <1>n, <2>2, SchemaAssumption
    <3>2. (n * One) \div One = n BY <1>n, <2>1, <2>2
    <3> QED BY <3>1, <3>2 DEF Truncated
  <2>3. CASE n < 0
    <3> DEFINE k == -n
    <3>1. k \in Nat /\ k > 0 /\ n = -k BY <1>n, <2>3
    <3> HIDE DEF k
    <3>2. n * One = -(k * One) BY <3>1, SchemaAssumption
    <3>3. k * One > 0 /\ k * One \in Nat BY <3>1, SchemaAssumption
    <3>4. (k * One) \div One = k BY <2>1, <3>1
    <3> DEFINE y == k * One
    <3>5. y > 0 /\ y \in Nat /\ y \div One = k /\ n * One = -y BY <3>2, <3>3, <3>4
    <3> HIDE DEF y
    <3>6. ~(-y >= 0) /\ -(-y) = y BY <3>5
    <3>7. Truncated(-y) = -k BY <3>5, <3>6 DEF Truncated
    <3> QED BY <3>1, <3>5, <3>7
  <2> QED BY <1>n, <2>2, <2>3
<1>6. Float(x) = n * One /\ n * One \in Int
  <2> HIDE DEF n
  <2>1. Float(x) = x.int * One
    <3> HIDE DEF x
    <3> QED BY <1>4, FloatTyped
  <2>2. n * One \in Int
    BY <1>n, SchemaAssumption
  <2> QED BY <1>4, <2>1, <2>2
<1>7. ValidateInteger(f, x) = x
  <2> HIDE DEF n
  <2>1. n * One \notin {Invalid, NaN}
    BY <1>6, SchemaAssumption DEF Floats
  <2> QED BY <1>3, <1>5, <1>6, <2>1 DEF ValidateInteger
<1> QED BY <1>3, <1>4, <1>7

\* A quantity is converted to one in the units asked for.
LEMMA ConvertedTyped ==
  ASSUME NEW q \in Quantities, NEW units \in STRING, Converted(q, units) # Invalid
  PROVE  Converted(q, units) \in Quantities /\ Converted(q, units).units = units
<1>1. CASE q.units = units
  BY <1>1 DEF Converted
<1>2. CASE q.units # units
  <2>1. {q.units, units} \subseteq DOMAIN UnitSize
    BY <1>2 DEF Converted
  <2>2. \A x \in Int: (x * UnitSize[q.units] + UnitZero[q.units] - UnitZero[units])
                        \div UnitSize[units] \in Int
    <3>1. /\ UnitSize[q.units] \in Nat \ {0} /\ UnitSize[units] \in Nat \ {0}
          /\ UnitZero[q.units] \in Int /\ UnitZero[units] \in Int
      BY <2>1, SchemaAssumption
    <3> QED BY <3>1
  <2> DEFINE x == IF q.magnitude = NaN THEN NaN
                  ELSE (q.magnitude * UnitSize[q.units] + UnitZero[q.units] - UnitZero[units])
                       \div UnitSize[units]
  <2>3. x \in Floats
    BY <2>2 DEF Quantities, Floats
  <2>4. Converted(q, units) = Quantity(x, units)
    BY <1>2, <2>1 DEF Converted
  <2> HIDE DEF x
  <2> QED BY <2>3, <2>4 DEF Quantity, Quantities
<1> QED BY <1>1, <1>2

\* Number: with units, a quantity in them; without, the value as it came.
LEMMA NumberSettles ==
  ASSUME NEW f \in Specifications, NEW v \in FieldValues \cup {None}, ValidateNumber(f, v) # Invalid
  PROVE  /\ ValidateNumber(f, v) \in FieldValues
         /\ ValidateNumber(f, ValidateNumber(f, v)) = ValidateNumber(f, v)
         /\ f.units = None => ValidateNumber(f, v) = v
         /\ f.units # None => Has(ValidateNumber(f, v), "magnitude")
<1> DEFINE x == IF Has(v, "magnitude") THEN v.magnitude ELSE Float(v)
<1>1. f.units \in STRING \cup {None} BY DEF Specifications
<1>2. x # Invalid /\ v # None
  <2>1. x # Invalid BY DEF ValidateNumber
  <2> QED BY <2>1, FloatTyped, PartOf
<1>3. v \in FieldValues BY <1>2
<1>4. Has(v, "magnitude") => v \in Quantities /\ v.magnitude \in Floats
  <2>1. Has(v, "magnitude") => v \in Quantities BY <1>3, PartOf
  <2> QED BY <2>1 DEF Quantities
<1>5. x \in Floats
  BY <1>2, <1>3, <1>4, FloatTyped
<1>6. CASE f.units = None
  <2>1. ValidateNumber(f, v) = v
    BY <1>2, <1>6 DEF ValidateNumber
  <2> QED BY <1>3, <1>6, <2>1
<1>7. CASE f.units # None
  <2> DEFINE q == IF Has(v, "magnitude") THEN Converted(v, f.units) ELSE Times(x, f.units)
  <2>1. ValidateNumber(f, v) = q /\ q # Invalid
        /\ Within(f, IF Has(q, "magnitude") THEN q.magnitude ELSE x)
    BY <1>2, <1>7 DEF ValidateNumber
  <2>2. q \in Quantities /\ q.units = f.units
    <3>1. CASE Has(v, "magnitude")
      BY <1>1, <1>4, <1>7, <2>1, <3>1, ConvertedTyped
    <3>2. CASE ~Has(v, "magnitude")
      <4>1. q = Quantity(x, f.units) BY <2>1, <3>2 DEF Times
      <4> HIDE DEF x, q
      <4> QED BY <1>1, <1>5, <1>7, <4>1 DEF Quantity, Quantities
    <3> QED BY <3>1, <3>2
  <2>3. q \in FieldValues /\ Has(q, "magnitude")
    <3> HIDE DEF q
    <3>1. q \in FieldValues BY <2>2 DEF FieldValues
    <3>2. "magnitude" \in DOMAIN q BY <2>2 DEF Quantities
    <3> QED BY <3>1, <3>2, PartOf DEF Has
  <2>4. q.magnitude # Invalid
    <3> HIDE DEF q
    <3> QED BY <2>2, SchemaAssumption DEF Quantities
  <2>5. Converted(q, f.units) = q
    <3> HIDE DEF q
    <3> QED BY <2>2 DEF Converted
  <2>6. ValidateNumber(f, q) = q
    <3> HIDE DEF q
    <3> QED BY <1>7, <2>1, <2>3, <2>4, <2>5 DEF ValidateNumber
  <2> HIDE DEF q
  <2> QED BY <1>7, <2>1, <2>3, <2>6
<1> QED BY <1>6, <1>7

\* Text: str of a text is that text.
LEMMA TextSettles ==
  ASSUME NEW f, NEW v, Str(v) \in STRING, ValidateText(f, v) # Invalid
  PROVE  /\ ValidateText(f, v) \in FieldValues
         /\ ValidateText(f, ValidateText(f, v)) = ValidateText(f, v)
<1> DEFINE x == [text |-> Str(v)]
<1>1. x \in FieldValues /\ Has(x, "text") /\ x.text = Str(v)
  BY Makes
<1>2. Str(x) = Str(v)
  <2>1. ~Has(x, "int") /\ ~Has(x, "bool") /\ ~Has(x, "float") /\ x # None
    BY <1>1, PartOf DEF Parts
  <2> HIDE DEF x
  <2> QED BY <1>1, <2>1 DEF Str
<1>3. ValidateText(f, v) = x
  BY DEF ValidateText
<1>4. ValidateText(f, x) = x
  BY <1>2, <1>3 DEF ValidateText
<1> QED BY <1>1, <1>3, <1>4

\* An array of floats.
LEMMA ArrayTyped ==
  ASSUME NEW v \in FieldValues \cup {None}, AsArray(v) # Invalid
  PROVE  /\ AsArray(v) \in Arrays
         /\ Has(v, "array") => AsArray(v) = v
<1> DEFINE items == CASE v = None -> <<NaN>>
                      [] Has(v, "list") -> [k \in DOMAIN v.list |-> Float(v.list[k])]
                      [] Has(v, "array") -> v.array
                      [] Has(v, "magnitude") -> <<v.magnitude>>
                      [] OTHER -> <<Float(v)>>
           shape == CASE Has(v, "array") -> v.shape
                      [] Has(v, "list") -> <<Len(items)>>
                      [] OTHER -> <<>>
<1>1. Invalid \notin ToSet(items) /\ AsArray(v) = [array |-> items, shape |-> shape]
  BY DEF AsArray
<1>2. {"list", "array", "magnitude"} \subseteq Parts BY DEF Parts
<1>3. v = None => \A p: ~Has(v, p)
  BY PartOf
<1>4. v # None => v \in FieldValues /\ \A p, q \in {"list", "array", "magnitude"}: Has(v, p) /\ Has(v, q) => p = q
  BY <1>2, PartOf
<1>5. CASE v = None
  <2>1. items = <<NaN>> /\ shape = <<>>
    BY <1>3, <1>5
  <2>2. <<NaN>> \in Seq(Floats) /\ <<>> \in Seq(Nat)
    BY DEF Floats
  <2> HIDE DEF items, shape
  <2> QED BY <1>1, <1>3, <1>5, <2>1, <2>2 DEF Arrays
<1>6. CASE Has(v, "list")
  <2>1. v # None /\ ~Has(v, "array") /\ ~Has(v, "magnitude") BY <1>3, <1>4, <1>6
  <2>2. items = [k \in DOMAIN v.list |-> Float(v.list[k])] /\ shape = <<Len(items)>>
    BY <1>6, <2>1
  <2>3. v.list \in Seq(Scalars)
    BY <1>4, <1>6, <2>1, PartOf
  <2>4. \A k \in DOMAIN v.list: Float(v.list[k]) \in Floats
    <3> SUFFICES ASSUME NEW k \in DOMAIN v.list PROVE Float(v.list[k]) \in Floats
      OBVIOUS
    <3>1. v.list[k] \in Scalars BY <2>3
    <3>2. v.list[k] \in FieldValues BY <3>1 DEF FieldValues
    <3>3. items[k] = Float(v.list[k]) /\ k \in DOMAIN items BY <2>2
    <3>4. Float(v.list[k]) # Invalid
      <4> HIDE DEF items
      <4> QED BY <1>1, <3>3 DEF ToSet
    <3> QED BY <3>2, <3>4, FloatTyped
  <2>5. items \in Seq(Floats) /\ Len(items) \in Nat
    <3>1. DOMAIN v.list = 1..Len(v.list) /\ Len(v.list) \in Nat BY <2>3
    <3>2. items \in [1..Len(v.list) -> Floats] BY <2>2, <2>4, <3>1
    <3> HIDE DEF items
    <3>3. items \in Seq(Floats) BY <3>1, <3>2
    <3> QED BY <3>3
  <2> HIDE DEF items, shape
  <2>6. shape \in Seq(Nat) BY <2>2, <2>5
  <2> QED BY <1>1, <2>1, <2>5, <2>6 DEF Arrays
<1>7. CASE Has(v, "array")
  <2>1. v # None /\ ~Has(v, "list") /\ ~Has(v, "magnitude") BY <1>3, <1>4, <1>7
  <2>2. items = v.array /\ shape = v.shape
    BY <1>7, <2>1
  <2>3. v \in Arrays
    BY <1>4, <1>7, <2>1, PartOf
  <2> HIDE DEF items, shape
  <2> QED BY <1>1, <2>2, <2>3 DEF Arrays
<1>8. CASE Has(v, "magnitude")
  <2>1. v # None /\ ~Has(v, "list") /\ ~Has(v, "array") BY <1>3, <1>4, <1>8
  <2>2. items = <<v.magnitude>> /\ shape = <<>>
    BY <1>8, <2>1
  <2>3. v \in Quantities
    BY <1>4, <1>8, <2>1, PartOf
  <2>4. v.magnitude \in Floats BY <2>3 DEF Quantities
  <2> HIDE DEF items, shape
  <2> QED BY <1>1, <2>1, <2>2, <2>4 DEF Arrays
<1>9. CASE v # None /\ ~Has(v, "list") /\ ~Has(v, "array") /\ ~Has(v, "magnitude")
  <2>2. items = <<Float(v)>> /\ shape = <<>>
    BY <1>9
  <2> HIDE DEF items, shape
  <2>3. Float(v) # Invalid
    BY <1>1, <2>2 DEF ToSet
  <2>4. Float(v) \in Floats
    BY <1>4, <1>9, <2>3, FloatTyped
  <2> QED BY <1>1, <1>9, <2>2, <2>4 DEF Arrays
<1> QED BY <1>5, <1>6, <1>7, <1>8, <1>9

\* Array.
LEMMA ArraySettles ==
  ASSUME NEW f, NEW v \in FieldValues \cup {None}, ValidateArray(f, v) # Invalid
  PROVE  /\ ValidateArray(f, v) \in FieldValues
         /\ ValidateArray(f, ValidateArray(f, v)) = ValidateArray(f, v)
         /\ Has(ValidateArray(f, v), "array")
<1> DEFINE a == AsArray(v)
<1>1. /\ ValidateArray(f, v) = a /\ a # Invalid
      /\ f.shape # <<>> => /\ Len(a.shape) = Len(f.shape)
                           /\ \A d \in DOMAIN f.shape: f.shape[d] \in {None, a.shape[d]}
  BY DEF ValidateArray
<1>2. a \in Arrays BY <1>1, ArrayTyped
<1>3. a \in FieldValues /\ Has(a, "array")
  <2> HIDE DEF a
  <2>1. a \in FieldValues BY <1>2 DEF FieldValues
  <2>2. "array" \in DOMAIN a BY <1>2 DEF Arrays
  <2> QED BY <2>1, <2>2, PartOf DEF Has
<1>4. AsArray(a) = a
  <2> HIDE DEF a
  <2>1. a # None /\ ~Has(a, "list") /\ ~Has(a, "magnitude") BY <1>3, PartOf DEF Parts
  <2>2. Invalid \notin ToSet(a.array)
    <3>1. a.array \in Seq(Floats) BY <1>2 DEF Arrays
    <3>2. \A k \in DOMAIN a.array: a.array[k] \in Floats BY <3>1
    <3> QED BY <3>2, SchemaAssumption DEF ToSet
  <2>3. a = [array |-> a.array, shape |-> a.shape]
    BY <1>2 DEF Arrays
  <2>4. AsArray(a) = [array |-> a.array, shape |-> a.shape]
    BY <1>3, <2>1, <2>2 DEF AsArray
  <2> QED BY <2>3, <2>4
<1> HIDE DEF a
<1>5. ValidateArray(f, a) = a
  BY <1>1, <1>4 DEF ValidateArray
<1> QED BY <1>1, <1>3, <1>5

\* Boolean.
LEMMA BooleanSettles ==
  ASSUME NEW v \in FieldValues \cup {None}, ValidateBoolean(v) # Invalid
  PROVE  /\ ValidateBoolean(v) \in FieldValues
         /\ ValidateBoolean(ValidateBoolean(v)) = ValidateBoolean(v)
<1>0. {"bool", "text", "int", "float"} \subseteq Parts BY DEF Parts
<1>1. \A x \in FieldValues: Has(x, "bool") => ValidateBoolean(x) = x
  <2> SUFFICES ASSUME NEW x \in FieldValues, Has(x, "bool") PROVE ValidateBoolean(x) = x
    OBVIOUS
  <2>1. ~Has(x, "text") /\ ~Has(x, "int") /\ ~Has(x, "float") BY <1>0, PartOf
  <2> QED BY <2>1 DEF ValidateBoolean
<1>2. \A b \in BOOLEAN: [bool |-> b] \in FieldValues /\ Has([bool |-> b], "bool")
  BY Makes
<1>3. v # None
  BY PartOf DEF ValidateBoolean
<1>4. \A p, q \in {"bool", "text", "int", "float"}: Has(v, p) /\ Has(v, q) => p = q
  BY <1>0, <1>3, PartOf
<1>5. CASE Has(v, "bool")
  BY <1>1, <1>3, <1>5
<1>6. CASE Has(v, "text")
  <2>1. ~Has(v, "bool") /\ ~Has(v, "int") /\ ~Has(v, "float") BY <1>4, <1>6
  <2>2. ValidateBoolean(v) = [bool |-> TRUE] \/ ValidateBoolean(v) = [bool |-> FALSE]
    <3>1. CASE v.text \in {"true", "yes", "1"}
      BY <1>6, <2>1, <3>1 DEF ValidateBoolean
    <3>2. CASE v.text \in {"false", "no", "0"}
      BY <1>6, <2>1, <3>2 DEF ValidateBoolean
    <3>3. CASE v.text \notin {"true", "yes", "1", "false", "no", "0"}
      BY <1>6, <2>1, <3>3 DEF ValidateBoolean
    <3> QED BY <3>1, <3>2, <3>3
  <2> QED BY <1>1, <1>2, <2>2
<1>7. CASE Has(v, "int") \/ Has(v, "float")
  <2>1. ~Has(v, "bool") /\ ~Has(v, "text") BY <1>4, <1>7
  <2>2. ValidateBoolean(v) = [bool |-> Float(v) # 0]
    BY <1>7, <2>1 DEF ValidateBoolean
  <2> DEFINE b == Float(v) # 0
  <2>3. b \in BOOLEAN OBVIOUS
  <2> HIDE DEF b
  <2>4. ValidateBoolean(v) = [bool |-> b] BY <2>2 DEF b
  <2> QED BY <1>1, <1>2, <2>3, <2>4
<1>8. CASE ~Has(v, "bool") /\ ~Has(v, "text") /\ ~Has(v, "int") /\ ~Has(v, "float")
  BY <1>8 DEF ValidateBoolean
<1> QED BY <1>5, <1>6, <1>7, <1>8

\* Image.
LEMMA ImageSettles ==
  ASSUME NEW v \in FieldValues \cup {None}, ValidateImage(v) # Invalid
  PROVE  /\ ValidateImage(v) \in FieldValues
         /\ ValidateImage(ValidateImage(v)) = ValidateImage(v)
         /\ Has(ValidateImage(v), "image")
<1>0. {"text", "image"} \subseteq Parts BY DEF Parts
<1>1. \A x \in FieldValues: Has(x, "image") => ValidateImage(x) = x
  <2> SUFFICES ASSUME NEW x \in FieldValues, Has(x, "image") PROVE ValidateImage(x) = x
    OBVIOUS
  <2>1. ~Has(x, "text") BY <1>0, PartOf
  <2> QED BY <2>1 DEF ValidateImage
<1>2. v # None
  BY PartOf DEF ValidateImage
<1>3. CASE Has(v, "image")
  BY <1>1, <1>2, <1>3
<1>4. CASE ~Has(v, "image")
  <2>1. Has(v, "text") /\ ValidateImage(v) = [image |-> v.text]
    BY <1>4 DEF ValidateImage
  <2>2. v.text \in STRING
    BY <1>2, <2>1, PartOf
  <2>3. [image |-> v.text] \in FieldValues /\ Has([image |-> v.text], "image")
    BY <2>2, Makes
  <2> QED BY <1>1, <2>1, <2>3
<1> QED BY <1>3, <1>4

\* Element: the symbol of what is given, which the choices need not hold.
LEMMA ElementSettles ==
  ASSUME NEW f, NEW v \in FieldValues \cup {None}, ValidateElement(f, v) # Invalid
  PROVE  LET e == ValidateElement(f, v)
         IN  /\ e \in FieldValues /\ Has(e, "element")
             /\ f.choices = {} \/ e.element \in f.choices => ValidateElement(f, e) = e
             /\ (\A name \in f.choices \cap DOMAIN ElementOf: ElementOf[name] \in f.choices)
                  => f.choices = {} \/ e.element \in f.choices
<1>0. {"text", "element"} \subseteq Parts BY DEF Parts
<1> DEFINE given == IF Has(v, "element") THEN v.element ELSE v.text
           e == [element |-> ElementOf[given]]
<1>1. /\ ValidateElement(f, v) = e
      /\ Has(v, "element") \/ (Has(v, "text") /\ v.text \in DOMAIN ElementOf)
      /\ f.choices # {} => given \in f.choices
  BY DEF ValidateElement
<1>2. v # None
  BY <1>1, PartOf
<1>3. given \in DOMAIN ElementOf
  <2>1. CASE Has(v, "element")
    <3>1. v \in [element: Symbols] BY <1>2, <2>1, PartOf
    <3>2. v.element \in Symbols BY <3>1
    <3> QED BY <2>1, <3>2, SchemaAssumption
  <2>2. CASE ~Has(v, "element")
    BY <1>1, <2>2
  <2> QED BY <2>1, <2>2
<1> HIDE DEF given
<1>4. ElementOf[given] \in Symbols /\ ElementOf[ElementOf[given]] = ElementOf[given]
  BY <1>3, SchemaAssumption
<1>5. e \in FieldValues /\ Has(e, "element") /\ e.element = ElementOf[given]
  BY <1>4, Makes
<1> HIDE DEF e
<1>6. f.choices = {} \/ e.element \in f.choices => ValidateElement(f, e) = e
  BY <1>4, <1>5 DEF ValidateElement, e
<1> QED BY <1>1, <1>3, <1>5, <1>6

\* An element that is a choice by its name and not by its symbol; and a field
\* that has none.
Unchosen(f, v) == f.type = "Element" /\ Has(v, "element") /\ f.choices # {} /\ v.element \notin f.choices
Closed(f) == f.type = "Element" => \A name \in f.choices \cap DOMAIN ElementOf: ElementOf[name] \in f.choices

\* What is stored is what its own field stores of it.
LEMMA Settles ==
  ASSUME NEW f \in Specifications, NEW v \in FieldValues \cup {None},
         f.type = "Text" => Str(v) \in STRING,
         Validate(f, v) # Invalid
  PROVE  LET x == Validate(f, v)
         IN  /\ x \in FieldValues
             /\ Validate(f, x) = x \/ Unchosen(f, x)
             /\ Closed(f) => Validate(f, x) = x
<1>0. f.type \in FieldTypes BY DEF Specifications
<1>1. CASE f.type = "Integer"
  <2>1. \A w: Validate(f, w) = ValidateInteger(f, w) BY <1>1 DEF Validate
  <2> QED BY <2>1, IntegerSettles
<1>2. CASE f.type = "Number"
  <2>1. \A w: Validate(f, w) = ValidateNumber(f, w) BY <1>2 DEF Validate
  <2> QED BY <2>1, NumberSettles
<1>3. CASE f.type = "Text"
  <2>1. \A w: Validate(f, w) = ValidateText(f, w) BY <1>3 DEF Validate
  <2> QED BY <1>3, <2>1, TextSettles
<1>4. CASE f.type = "Array"
  <2>1. \A w: Validate(f, w) = ValidateArray(f, w) BY <1>4 DEF Validate
  <2> QED BY <2>1, ArraySettles
<1>5. CASE f.type = "Boolean"
  <2>1. \A w: Validate(f, w) = ValidateBoolean(w) BY <1>5 DEF Validate
  <2> QED BY <2>1, BooleanSettles
<1>6. CASE f.type = "Image"
  <2>1. \A w: Validate(f, w) = ValidateImage(w) BY <1>6 DEF Validate
  <2> QED BY <2>1, ImageSettles
<1>7. CASE f.type = "Element"
  <2>1. \A w: Validate(f, w) = ValidateElement(f, w) BY <1>7 DEF Validate
  <2> QED BY <1>7, <2>1, ElementSettles DEF Unchosen, Closed
<1>8. CASE f.type = "List"
  <2>1. \A w: Validate(f, w) = ValidateList(w) BY <1>8 DEF Validate
  <2> QED BY <2>1, PartOf DEF ValidateList
<1>9. CASE f.type = "Dict"
  <2>1. \A w: Validate(f, w) = ValidateDict(w) BY <1>9 DEF Validate
  <2> QED BY <2>1, PartOf DEF ValidateDict
<1> QED BY <1>0, <1>1, <1>2, <1>3, <1>4, <1>5, <1>6, <1>7, <1>8, <1>9 DEF FieldTypes

-----------------------------------------------------------------------------
(* The stored form of a schema.                                              *)

\* It keeps what its type validates with, and the default of all but images.
LEMMA LoadedKeeps ==
  ASSUME NEW f \in Specifications
  PROVE  LET g == Loaded(Exported(f))
         IN  /\ g.type = f.type /\ g.optional = f.optional
             /\ f.type # "Image" => g.default = f.default
             /\ \A key \in TypeKeys[f.type]: g[key] = f[key]
<1> DEFINE d == Exported(f)
           g == Loaded(d)
           keys == {"type", "optional", "default", "min", "max", "units", "choices", "maxlen", "shape"}
<1>1. f.type \in FieldTypes /\ DOMAIN f = keys
  BY DEF Specifications
<1>2. TypeKeys[f.type] \subseteq {"min", "max", "units", "choices", "maxlen", "shape"}
  BY <1>1 DEF TypeKeys, FieldTypes
<1>3. \A type: DOMAIN Plain(type) = keys
  BY DEF Plain
<1>4. DOMAIN d = {"type", "optional", "default"} \cup {key \in TypeKeys[f.type]: f[key] # Plain(f.type)[key]}
  BY DEF Exported, Restrict
<1>5. \A key \in DOMAIN d: d[key] = f[key]
  BY <1>4 DEF Exported, Restrict
<1>6. d.type = f.type
  <2>1. "type" \in DOMAIN d BY <1>4
  <2> QED BY <1>5, <2>1
<1> HIDE DEF d
<1>7. \A key \in keys: g[key] = IF key \in DOMAIN d \cap ReadKeys(f.type) THEN d[key] ELSE Plain(f.type)[key]
  BY <1>3, <1>6 DEF Loaded
<1> HIDE DEF g
<1>8. {"type", "optional"} \cup TypeKeys[f.type] \subseteq ReadKeys(f.type)
      /\ (f.type # "Image" => "default" \in ReadKeys(f.type))
  BY DEF ReadKeys
<1>9. g.type = f.type /\ g.optional = f.optional
  BY <1>4, <1>5, <1>7, <1>8
<1>10. f.type # "Image" => g.default = f.default
  BY <1>4, <1>5, <1>7, <1>8
<1>11. ASSUME NEW key \in TypeKeys[f.type] PROVE g[key] = f[key]
  <2>1. key \in keys /\ key \in ReadKeys(f.type) BY <1>2, <1>8
  <2>2. g[key] = IF key \in DOMAIN d THEN d[key] ELSE Plain(f.type)[key]
    BY <1>7, <2>1
  <2>3. key \notin DOMAIN d => f[key] = Plain(f.type)[key]
    BY <1>4
  <2> QED BY <1>5, <2>2, <2>3
<1> QED BY <1>9, <1>10, <1>11 DEF g, d

\* And so judges every value as the schema did.
LEMMA LoadedJudges ==
  ASSUME NEW f \in Specifications, NEW v
  PROVE  Validate(Loaded(Exported(f)), v) = Validate(f, v)
<1> DEFINE g == Loaded(Exported(f))
<1>1. g.type = f.type /\ \A key \in TypeKeys[f.type]: g[key] = f[key]
  BY LoadedKeeps
<1>0. f.type \in FieldTypes BY DEF Specifications
<1> SUFFICES Validate(g, v) = Validate(f, v)
  OBVIOUS
<1> HIDE DEF g
<1>2. CASE f.type = "Integer"
  <2>1. g.min = f.min /\ g.max = f.max BY <1>1, <1>2 DEF TypeKeys
  <2> QED BY <1>1, <1>2, <2>1 DEF Validate, ValidateInteger, Within
<1>3. CASE f.type = "Number"
  <2>1. g.min = f.min /\ g.max = f.max /\ g.units = f.units BY <1>1, <1>3 DEF TypeKeys
  <2>2. \A x: Within(g, x) = Within(f, x) BY <2>1 DEF Within
  <2> QED BY <1>1, <1>3, <2>1, <2>2 DEF Validate, ValidateNumber
<1>4. CASE f.type = "Text"
  <2>1. g.choices = f.choices /\ g.maxlen = f.maxlen BY <1>1, <1>4 DEF TypeKeys
  <2> QED BY <1>1, <1>4, <2>1 DEF Validate, ValidateText
<1>5. CASE f.type = "Array"
  <2>1. g.shape = f.shape BY <1>1, <1>5 DEF TypeKeys
  <2> QED BY <1>1, <1>5, <2>1 DEF Validate, ValidateArray
<1>6. CASE f.type = "Element"
  <2>1. g.choices = f.choices BY <1>1, <1>6 DEF TypeKeys
  <2> QED BY <1>1, <1>6, <2>1 DEF Validate, ValidateElement
<1>7. CASE f.type \in {"Boolean", "Image", "List", "Dict"}
  BY <1>1, <1>7 DEF Validate
<1> QED BY <1>0, <1>2, <1>3, <1>4, <1>5, <1>6, <1>7 DEF FieldTypes

\* The loaded field reads what is written as the field it was made of.
LEMMA LoadedReads ==
  ASSUME NEW f \in Specifications, NEW d
  PROVE  Deserialize(Loaded(Exported(f)), d) = Deserialize(f, d)
<1> DEFINE g == Loaded(Exported(f))
<1>1. g.type = f.type
  BY LoadedKeeps
<1>2. \A v: Assigned(g, v) = Assigned(f, v)
  BY LoadedJudges DEF Assigned
<1> SUFFICES Deserialize(g, d) = Deserialize(f, d)
  OBVIOUS
<1> HIDE DEF g
<1>3. \A part: FromDict(g, d, part) = FromDict(f, d, part)
  BY <1>2 DEF FromDict
<1>4. DeserializeNumber(g, d) = DeserializeNumber(f, d)
  BY <1>2, <1>3 DEF DeserializeNumber
<1>5. DeserializeArray(g, d) = DeserializeArray(f, d)
  BY <1>2, <1>3 DEF DeserializeArray
<1>6. DeserializeImage(g, d) = DeserializeImage(f, d)
  BY <1>3 DEF DeserializeImage
<1>7. DeserializeElement(g, d) = DeserializeElement(f, d)
  BY <1>2 DEF DeserializeElement
<1> QED BY <1>1, <1>2, <1>4, <1>5, <1>6, <1>7 DEF Deserialize

\* What an object of the type is written as is read back.
LEMMA DictRead ==
  ASSUME NEW f, NEW x \in Quantities \cup Arrays \cup Images, NEW part,
         Has(x, part), Validate(f, x) = x
  PROVE  /\ Has([dict |-> x], "dict") /\ [dict |-> x] # None
         /\ FromDict(f, [dict |-> x], part) = x
<1> DEFINE d == [dict |-> x]
<1>1. Has(d, "dict") /\ d.dict = x
  BY Makes
<1>2. d # None /\ x # None
  BY <1>1 DEF Has
<1> HIDE DEF d
<1>3. FromDict(f, d, part) = x
  BY <1>1, <1>2 DEF FromDict, Assigned
<1> QED BY <1>1, <1>2, <1>3 DEF d

\* What is written of a value a field holds, the field reads as it was, or not at all.
LEMMA ReadAsWritten ==
  ASSUME NEW f \in Specifications, NEW x \in FieldValues, Validate(f, x) = x \/ Unchosen(f, x)
  PROVE  LET back == Deserialize(f, Serialize(f, x))
         IN  IF Unreadable(f, x) THEN back = Invalid
             ELSE \/ back = x
                  \/ f.type = "Number" /\ f.units = None /\ back = [float |-> Float(x)]
<1>0. f.type \in FieldTypes /\ f.units \in STRING \cup {None} BY DEF Specifications
<1>1. x # None /\ x # Invalid /\ (f.type # "Element" => Validate(f, x) = x /\ Assigned(f, x) = x)
  BY PartOf DEF Assigned, Unchosen
<1>2. CASE f.type \in {"Integer", "Text", "Boolean", "List", "Dict"}
  <2>0. ~Unreadable(f, x)
    BY <1>2 DEF Unreadable
  <2>1. Serialize(f, x) = x
    BY <1>1, <1>2 DEF Serialize
  <2>2. Deserialize(f, x) = x
    BY <1>1, <1>2 DEF Deserialize
  <2> QED BY <2>0, <2>1, <2>2
<1>3. CASE f.type = "Number"
  <2>0. Unreadable(f, x) <=> Has(x, "magnitude") /\ x.units \in OffsetUnits
    BY <1>3 DEF Unreadable
  <2>1. /\ \A v: Validate(f, v) = ValidateNumber(f, v)
        /\ Serialize(f, x) = SerializeNumber(x)
        /\ \A d: Deserialize(f, d) = DeserializeNumber(f, d)
    BY <1>3 DEF Validate, Serialize, Deserialize
  <2>2. CASE Has(x, "magnitude")
    <3>1. x \in Quantities BY <2>2, PartOf
    <3> DEFINE d == [dict |-> x]
    <3>2. Serialize(f, x) = d BY <1>1, <2>1, <2>2 DEF SerializeNumber
    <3>3. Has(d, "dict") /\ d # None /\ d.dict = x
      BY <1>3, <1>1, <2>2, <3>1, DictRead
    <3> HIDE DEF d
    <3>4. Quantity(x.magnitude, x.units) = x
      BY <3>1 DEF Quantity, Quantities
    <3>5. CASE x.units \in OffsetUnits
      <4>1. DeserializeNumber(f, d) = Invalid
        BY <3>3, <3>5 DEF DeserializeNumber, Times
      <4> QED BY <2>0, <2>1, <2>2, <3>2, <3>5, <4>1
    <3>6. CASE x.units \notin OffsetUnits
      <4>1. DeserializeNumber(f, d) = x
        BY <1>1, <1>3, <2>2, <3>3, <3>4, <3>6 DEF DeserializeNumber, Times
      <4> QED BY <2>0, <2>1, <3>2, <3>6, <4>1
    <3> QED BY <3>5, <3>6
  <2>3. CASE ~Has(x, "magnitude")
    <3> DEFINE y == Float(x)
               v == [float |-> y]
    <3>1. y # Invalid
      BY <1>1, <1>3, <2>1, <2>3 DEF ValidateNumber
    <3>2. y \in Floats BY <3>1, FloatTyped
    <3>3. f.units = None
      BY <1>1, <1>3, <2>1, <2>3, NumberSettles
    <3>4. Within(f, y)
      BY <1>1, <1>3, <2>1, <2>3, <3>1, <3>3 DEF ValidateNumber
    <3>5. Serialize(f, x) = v
      BY <1>1, <2>1, <2>3, <3>1 DEF SerializeNumber
    <3>6. v \in FieldValues /\ Has(v, "float") /\ v.float = y
      BY <3>2, Makes
    <3> HIDE DEF y, v
    <3>7. ~Has(v, "magnitude") /\ ~Has(v, "dict") /\ v # None /\ v # Invalid
      BY <3>6, PartOf DEF Parts
    <3>8. Float(v) = y
      BY <3>6, FloatTyped
    <3>9. ValidateNumber(f, v) = v
      BY <3>1, <3>3, <3>4, <3>7, <3>8 DEF ValidateNumber
    <3>10. [float |-> Float(v)] = v
      BY <3>8 DEF v
    <3>11. DeserializeNumber(f, v) = v
      BY <2>1, <3>1, <3>7, <3>8, <3>9, <3>10 DEF DeserializeNumber, Assigned
    <3> QED BY <1>3, <2>0, <2>1, <2>3, <3>3, <3>5, <3>11 DEF v, y
  <2> QED BY <2>2, <2>3
<1>4. CASE f.type = "Array"
  <2>1. /\ Validate(f, x) = ValidateArray(f, x)
        /\ Serialize(f, x) = SerializeObject(x, "array")
        /\ \A d: Deserialize(f, d) = DeserializeArray(f, d)
    BY <1>4 DEF Validate, Serialize, Deserialize
  <2>0. ~Unreadable(f, x)
    BY <1>4 DEF Unreadable
  <2>2. Has(x, "array") BY <1>1, <1>4, <2>1, ArraySettles
  <2>3. x \in Arrays BY <2>2, PartOf
  <2>4. Serialize(f, x) = [dict |-> x] BY <1>1, <2>1, <2>2 DEF SerializeObject
  <2>5. Has([dict |-> x], "dict") /\ [dict |-> x] # None /\ FromDict(f, [dict |-> x], "array") = x
    BY <1>1, <1>4, <2>2, <2>3, DictRead
  <2>6. DeserializeArray(f, [dict |-> x]) = x
    BY <2>5 DEF DeserializeArray
  <2> QED BY <2>0, <2>1, <2>4, <2>6
<1>5. CASE f.type = "Image"
  <2>1. /\ Validate(f, x) = ValidateImage(x)
        /\ Serialize(f, x) = SerializeObject(x, "image")
        /\ \A d: Deserialize(f, d) = DeserializeImage(f, d)
    BY <1>5 DEF Validate, Serialize, Deserialize
  <2>2. Has(x, "image") BY <1>1, <1>5, <2>1, ImageSettles
  <2>3. x \in Images BY <2>2, PartOf
  <2>0. Unreadable(f, x) <=> x.image \notin PNGImages
    BY <1>5, <2>2 DEF Unreadable
  <2>7. CASE x.image \in PNGImages
    <3>1. Serialize(f, x) = [dict |-> x] BY <1>1, <2>1, <2>2, <2>7 DEF SerializeObject
    <3>2. [dict |-> x] # None /\ FromDict(f, [dict |-> x], "image") = x
      BY <1>1, <1>5, <2>2, <2>3, DictRead
    <3>3. DeserializeImage(f, [dict |-> x]) = x
      BY <3>2 DEF DeserializeImage
    <3> QED BY <2>0, <2>1, <2>7, <3>1, <3>3
  <2>8. CASE x.image \notin PNGImages
    <3>1. Serialize(f, x) = Invalid BY <1>1, <2>1, <2>8 DEF SerializeObject
    <3>2. DeserializeImage(f, Invalid) = Invalid
      BY SchemaAssumption, PartOf DEF DeserializeImage, FromDict
    <3> QED BY <2>0, <2>1, <2>8, <3>1, <3>2
  <2> QED BY <2>7, <2>8
<1>6. CASE f.type = "Element"
  <2>1. /\ \A v: Validate(f, v) = ValidateElement(f, v)
        /\ Serialize(f, x) = SerializeObject(x, "element")
        /\ \A d: Deserialize(f, d) = DeserializeElement(f, d)
    BY <1>6 DEF Validate, Serialize, Deserialize
  <2>2. Has(x, "element") BY <1>1, <2>1, ElementSettles DEF Unchosen
  <2>3. x = [element |-> x.element] /\ x.element \in Symbols
    <3>1. x \in [element: Symbols] BY <2>2, PartOf
    <3> QED BY <3>1
  <2>4. x.element \in DOMAIN ElementOf /\ ElementOf[x.element] = x.element
    BY <2>3, SchemaAssumption
  <2> DEFINE d == [text |-> x.element]
  <2>5. Serialize(f, x) = d
    BY <1>1, <2>1, <2>2 DEF SerializeObject
  <2>6. d \in FieldValues /\ Has(d, "text") /\ d.text = x.element /\ d # None
    BY <2>3, SchemaAssumption, Makes, PartOf
  <2> HIDE DEF d
  <2>7. DeserializeElement(f, d) = ValidateElement(f, x)
    BY <1>1, <2>1, <2>3, <2>4, <2>6 DEF DeserializeElement, Assigned
  <2>8. Unreadable(f, x) <=> f.choices # {} /\ x.element \notin f.choices
    BY <1>6, <2>2 DEF Unreadable
  <2>9. CASE Unreadable(f, x)
    <3>1. ValidateElement(f, x) = Invalid
      BY <2>2, <2>8, <2>9 DEF ValidateElement
    <3> QED BY <2>1, <2>5, <2>7, <2>9, <3>1
  <2>10. CASE ~Unreadable(f, x)
    <3>1. ValidateElement(f, x) = x
      BY <2>1, <2>8, <2>10 DEF Unchosen
    <3> QED BY <2>1, <2>5, <2>7, <2>10, <3>1
  <2> QED BY <2>9, <2>10
<1> QED BY <1>0, <1>2, <1>3, <1>4, <1>5, <1>6 DEF FieldTypes

\* What a field holds: nothing, or a value it takes as it is, or an element of a
\* name among its choices.
Held(f, v) == v = None \/ (v \in FieldValues /\ (Validate(f, v) = v \/ Unchosen(f, v)))

LEMMA AssignedHeld ==
  ASSUME NEW f \in Specifications, NEW v \in FieldValues \cup {None},
         f.type = "Text" => Str(v) \in STRING, Assigned(f, v) # Invalid
  PROVE  Held(f, Assigned(f, v))
BY Settles DEF Assigned, Held

\* Whatever is read of an output, the field takes it as it is, or raises.
LEMMA ReadHeld ==
  ASSUME NEW f \in Specifications, NEW d \in FieldValues \cup {None}, Str(d) \in STRING,
         Deserialize(f, d) # Invalid
  PROVE  Held(f, Deserialize(f, d))
<1>0. f.type \in FieldTypes BY DEF Specifications
<1>1. ASSUME NEW part \in {"magnitude", "array", "image"}, f.type # "Text",
             FromDict(f, d, part) # Invalid
      PROVE  Held(f, FromDict(f, d, part))
  <2>1. Has(d, "dict") /\ Has(d.dict, part) /\ FromDict(f, d, part) = Assigned(f, d.dict)
    BY <1>1 DEF FromDict
  <2>2. d \in FieldValues
    BY <2>1, PartOf
  <2>3. d.dict \in Quantities \cup Arrays \cup Images \cup Mappings
    <3>1. d \in [dict: Quantities \cup Arrays \cup Images \cup Mappings] BY <2>1, <2>2, PartOf
    <3> QED BY <3>1
  <2>4. d.dict \notin Mappings
    BY <2>1, SchemaAssumption DEF Has
  <2>5. d.dict \in FieldValues
    BY <2>3, <2>4 DEF FieldValues
  <2> QED BY <1>1, <2>1, <2>5, AssignedHeld
<1>2. CASE f.type = "Number"
  <2>1. Deserialize(f, d) = DeserializeNumber(f, d) BY <1>2 DEF Deserialize
  <2>2. CASE d = None
    BY <2>1, <2>2 DEF DeserializeNumber, Held
  <2>3. CASE d # None /\ Has(d, "dict")
    <3> DEFINE x == d.dict
               q == Times(x.magnitude, x.units)
    <3>1. Has(x, "magnitude") /\ q # Invalid /\ Deserialize(f, d) = Assigned(f, q)
      BY <2>1, <2>3 DEF DeserializeNumber
    <3>2. x \in Quantities \cup Arrays \cup Images
      <4>1. d \in [dict: Quantities \cup Arrays \cup Images \cup Mappings] BY <2>3, PartOf
      <4>2. x \in Quantities \cup Arrays \cup Images \cup Mappings BY <4>1
      <4> HIDE DEF x
      <4> QED BY <3>1, <4>2, SchemaAssumption DEF Has
    <3>3. x \in Quantities
      <4> HIDE DEF x
      <4>1. x \in FieldValues BY <3>2 DEF FieldValues
      <4> QED BY <3>1, <4>1, PartOf
    <3>4. q = Quantity(x.magnitude, x.units)
      BY <3>1 DEF Times
    <3>5. q \in FieldValues
      <4>1. x.magnitude \in Floats /\ x.units \in STRING BY <3>3 DEF Quantities
      <4> HIDE DEF x
      <4> QED BY <3>4, <4>1, Makes
    <3> HIDE DEF q
    <3> QED BY <1>2, <3>1, <3>5, AssignedHeld
  <2>4. CASE d # None /\ ~Has(d, "dict")
    <3>1. Float(d) # Invalid /\ Deserialize(f, d) = Assigned(f, [float |-> Float(d)])
      BY <2>1, <2>4 DEF DeserializeNumber
    <3>2. [float |-> Float(d)] \in FieldValues
      <4>1. Float(d) \in Floats BY <2>4, <3>1, FloatTyped
      <4> QED BY <4>1, Makes
    <3> QED BY <1>2, <3>1, <3>2, AssignedHeld
  <2> QED BY <2>2, <2>3, <2>4
<1>3. CASE f.type = "Array"
  <2>1. Deserialize(f, d) = DeserializeArray(f, d) BY <1>3 DEF Deserialize
  <2>2. CASE d = None
    BY <2>1, <2>2 DEF DeserializeArray, Held
  <2>3. CASE d # None /\ Has(d, "dict")
    BY <1>1, <1>3, <2>1, <2>3 DEF DeserializeArray
  <2>4. CASE d # None /\ ~Has(d, "dict")
    <3>1. AsArray(d) # Invalid /\ Deserialize(f, d) = Assigned(f, AsArray(d))
      BY <2>1, <2>4 DEF DeserializeArray
    <3>2. AsArray(d) \in FieldValues
      <4>1. AsArray(d) \in Arrays BY <3>1, ArrayTyped
      <4> QED BY <4>1 DEF FieldValues
    <3> QED BY <1>3, <3>1, <3>2, AssignedHeld
  <2> QED BY <2>2, <2>3, <2>4
<1>4. CASE f.type = "Image"
  <2>1. Deserialize(f, d) = IF d = None THEN None ELSE FromDict(f, d, "image")
    BY <1>4 DEF Deserialize, DeserializeImage
  <2> QED BY <1>1, <1>4, <2>1 DEF Held
<1>5. CASE f.type = "Element"
  <2>1. Deserialize(f, d) = DeserializeElement(f, d) BY <1>5 DEF Deserialize
  <2>2. CASE d = None
    BY <2>1, <2>2 DEF DeserializeElement, Held
  <2>3. CASE d # None
    <3> DEFINE x == [element |-> ElementOf[d.text]]
    <3>1. d.text \in DOMAIN ElementOf /\ Deserialize(f, d) = Assigned(f, x)
      BY <2>1, <2>3 DEF DeserializeElement
    <3>2. x \in FieldValues
      <4>1. ElementOf[d.text] \in Symbols BY <3>1, SchemaAssumption
      <4> QED BY <4>1, Makes
    <3> HIDE DEF x
    <3> QED BY <1>5, <3>1, <3>2, AssignedHeld
  <2> QED BY <2>2, <2>3
<1>6. CASE f.type \in {"Integer", "Text", "Boolean", "List", "Dict"}
  <2>1. Deserialize(f, d) = Assigned(f, d)
    BY <1>6 DEF Deserialize
  <2> QED BY <2>1, AssignedHeld
<1> QED BY <1>0, <1>2, <1>3, <1>4, <1>5, <1>6 DEF FieldTypes

-----------------------------------------------------------------------------
(* The fields as they are used.                                              *)

\* Every field holds what it takes, and the outputs of runs are given.
SchemaInv ==
  /\ schema \in [FieldNames -> Specifications] /\ \A n \in FieldNames: schema[n] \in Fields[n]
  /\ values \in [FieldNames -> FieldValues \cup {None}]
  /\ \A n \in FieldNames: Held(schema[n], values[n])
  /\ results \in Seq(ToSet(results))
  /\ \A k \in DOMAIN results: \A n \in DOMAIN results[k].data:
       n \in FieldNames /\ results[k].data[n] \in Given

\* What is given to a schema.
LEMMA GivenParts ==
  /\ \A n \in FieldNames: Raws[n] \subseteq Given /\ \A f \in Fields[n]: f.default \in Given
  /\ \A data \in Data \cup Outputs: \A n \in DOMAIN data: data[n] \in Given
BY DEF Given, Range

\* What a field holds is a value.
LEMMA HeldTyped == ASSUME NEW f, NEW v, Held(f, v) PROVE v \in FieldValues \cup {None}
BY DEF Held

\* Before anything is assigned or run.
LEMMA SchemaStart == RInit => SchemaInv
<1> SUFFICES ASSUME RInit PROVE SchemaInv
  OBVIOUS
<1>1. /\ schema \in [FieldNames -> UNION Range(Fields)] /\ \A n \in FieldNames: schema[n] \in Fields[n]
      /\ values = [n \in FieldNames |-> None] /\ results = <<>>
  BY DEF RInit, SInit
<1>2. \A n \in FieldNames: schema[n] \in Specifications
  BY <1>1, SchemaAssumption
<1>3. results \in Seq(ToSet(results)) /\ DOMAIN results = {}
  BY <1>1
<1> QED BY <1>1, <1>2, <1>3 DEF SchemaInv, Held

\* schema.name = value
LEMMA SetFieldStep ==
  ASSUME SchemaInv, NEW n \in FieldNames, NEW v \in Raws[n], SetField(n, v)
  PROVE  SchemaInv' /\ (raised' => UNCHANGED values)
<1>1. v \in Given
  BY GivenParts
<1>2. v \in FieldValues \cup {None} /\ Str(v) \in STRING
  BY <1>1, SchemaAssumption
<1>3. schema[n] \in Specifications
  BY DEF SchemaInv
<1> DEFINE x == Assigned(schema[n], v)
<1>4. /\ raised' = (x = Invalid) /\ schema' = schema /\ results' = results
      /\ values' = IF raised' THEN values ELSE [values EXCEPT ![n] = x]
  BY DEF SetField
<1>5. x # Invalid => Held(schema[n], x)
  BY <1>2, <1>3, AssignedHeld
<1> HIDE DEF x
<1>6. x # Invalid => x \in FieldValues \cup {None}
  BY <1>5, HeldTyped
<1>7. raised' => values' = values
  BY <1>4
<1>8. values' \in [FieldNames -> FieldValues \cup {None}] /\ \A m \in FieldNames: Held(schema[m], values'[m])
  <2>1. CASE x = Invalid
    BY <1>4, <2>1 DEF SchemaInv
  <2>2. CASE x # Invalid
    BY <1>4, <1>5, <1>6, <2>2 DEF SchemaInv
  <2> QED BY <2>1, <2>2
<1> QED BY <1>4, <1>7, <1>8 DEF SchemaInv

\* What Schema.validate returns: values each field takes as they are, and defaults.
LEMMA ValidatedParts ==
  ASSUME SchemaInv, NEW data \in Data, Validated(schema, data) # Invalid,
         NEW n \in DOMAIN Validated(schema, data)
  PROVE  LET x == Validated(schema, data)[n]
         IN  /\ n \in FieldNames
             /\ \/ /\ x \in FieldValues
                   /\ Validate(schema[n], x) = x \/ Unchosen(schema[n], x)
                   /\ Closed(schema[n]) => Validate(schema[n], x) = x
                \/ x = schema[n].default /\ x # None
<1> DEFINE present == {m \in DOMAIN schema: m \in DOMAIN data \/ schema[m].default # None}
           all == [m \in present |-> IF m \in DOMAIN data THEN Validate(schema[m], data[m])
                                                          ELSE schema[m].default]
<1>1. Validated(schema, data) = all /\ \A m \in present: all[m] # Invalid
  BY DEF Validated
<1>2. n \in present /\ n \in FieldNames
  BY <1>1 DEF SchemaInv
<1>3. CASE n \in DOMAIN data
  <2>1. data[n] \in Given
    BY <1>3, GivenParts
  <2>2. data[n] \in FieldValues \cup {None} /\ Str(data[n]) \in STRING
    BY <2>1, SchemaAssumption
  <2>3. schema[n] \in Specifications
    BY <1>2 DEF SchemaInv
  <2>4. all[n] = Validate(schema[n], data[n]) /\ all[n] # Invalid
    BY <1>1, <1>2, <1>3
  <2>5. Validate(schema[n], data[n]) # Invalid
    <3> HIDE DEF all, present
    <3> QED BY <2>4
  <2> DEFINE x == Validate(schema[n], data[n])
  <2>6. /\ x \in FieldValues
        /\ Validate(schema[n], x) = x \/ Unchosen(schema[n], x)
        /\ Closed(schema[n]) => Validate(schema[n], x) = x
    BY <2>2, <2>3, <2>5, Settles
  <2> HIDE DEF all, present, x
  <2> QED BY <1>1, <1>2, <2>4, <2>6 DEF x
<1>4. CASE n \notin DOMAIN data
  <2>1. all[n] = schema[n].default /\ schema[n].default # None
    BY <1>2, <1>4
  <2> HIDE DEF all, present
  <2> QED BY <1>1, <1>2, <2>1
<1> QED BY <1>3, <1>4

\* set_values
LEMMA SetValuesStep ==
  ASSUME SchemaInv, NEW data \in Data, SetValues(data)
  PROVE  /\ SchemaInv'
         /\ raised' /\ (\A n \in FieldNames: Steady(schema[n])) => UNCHANGED values
<1> DEFINE validated == Validated(schema, data)
           result(n) == Assigned(schema[n], validated[n])
           refused == {k \in DOMAIN FieldOrder:
                         /\ validated # Invalid /\ FieldOrder[k] \in DOMAIN validated
                         /\ result(FieldOrder[k]) = Invalid}
           assigned(n) == /\ validated # Invalid /\ n \in DOMAIN validated
                          /\ \A k \in refused: \E j \in 1..(k - 1): FieldOrder[j] = n
<1>1. /\ raised' = (validated = Invalid \/ refused # {}) /\ schema' = schema /\ results' = results
      /\ values' = [n \in FieldNames |-> IF assigned(n) THEN result(n) ELSE values[n]]
  BY DEF SetValues
<1>2. ASSUME validated # Invalid, NEW n \in DOMAIN validated
      PROVE  /\ n \in FieldNames /\ schema[n] \in Specifications
             /\ \/ /\ validated[n] \in FieldValues
                   /\ Validate(schema[n], validated[n]) = validated[n] \/ Unchosen(schema[n], validated[n])
                   /\ Closed(schema[n]) => Validate(schema[n], validated[n]) = validated[n]
                \/ validated[n] = schema[n].default /\ validated[n] # None
  <2> HIDE DEF validated
  <2>1. /\ n \in FieldNames
        /\ \/ /\ validated[n] \in FieldValues
              /\ Validate(schema[n], validated[n]) = validated[n] \/ Unchosen(schema[n], validated[n])
              /\ Closed(schema[n]) => Validate(schema[n], validated[n]) = validated[n]
           \/ validated[n] = schema[n].default /\ validated[n] # None
    BY <1>2, ValidatedParts DEF validated
  <2> QED BY <2>1 DEF SchemaInv
<1> HIDE DEF validated
<1>3. ASSUME validated # Invalid, NEW n \in DOMAIN validated, result(n) # Invalid
      PROVE  Held(schema[n], result(n))
  <2>1. CASE validated[n] \in FieldValues /\ Validate(schema[n], validated[n]) = validated[n]
    <3>1. result(n) = validated[n] BY <2>1, PartOf DEF Assigned
    <3> QED BY <2>1, <3>1 DEF Held
  <2>3. CASE validated[n] \in FieldValues /\ Unchosen(schema[n], validated[n])
    <3> DEFINE v == validated[n]
    <3>1. Validate(schema[n], v) = Invalid
      BY <2>3 DEF Unchosen, Validate, ValidateElement
    <3>2. result(n) = Invalid
      BY <2>3, <3>1, PartOf DEF Assigned
    <3> QED BY <1>3, <3>2
  <2>2. CASE validated[n] = schema[n].default
    <3>1. n \in FieldNames /\ schema[n] \in Specifications BY <1>2, <1>3
    <3>2. schema[n].default \in Given BY <3>1, GivenParts DEF SchemaInv
    <3>3. validated[n] \in FieldValues \cup {None} /\ Str(validated[n]) \in STRING
      BY <2>2, <3>2, SchemaAssumption
    <3> QED BY <1>3, <3>1, <3>3, AssignedHeld
  <2> QED BY <1>2, <1>3, <2>1, <2>2, <2>3
<1>4. ASSUME NEW n \in FieldNames, assigned(n) PROVE result(n) # Invalid
  <2>1. SUFFICES ASSUME result(n) = Invalid PROVE FALSE
    OBVIOUS
  <2>2. PICK k \in DOMAIN FieldOrder: FieldOrder[k] = n
    BY DEF FieldNames, ToSet
  <2>3. k \in refused
    BY <1>4, <2>1, <2>2
  <2>4. PICK j \in 1..(k - 1): FieldOrder[j] = n
    BY <1>4, <2>3
  <2>5. DOMAIN FieldOrder = 1..Len(FieldOrder) /\ Len(FieldOrder) \in Nat
    BY SchemaAssumption
  <2>6. j \in DOMAIN FieldOrder /\ j # k
    BY <2>2, <2>4, <2>5
  <2> QED BY <2>2, <2>4, <2>6, SchemaAssumption DEF IsInjective
<1>5. \A n \in FieldNames: assigned(n) => Held(schema[n], result(n)) /\ result(n) \in FieldValues \cup {None}
  <2> SUFFICES ASSUME NEW n \in FieldNames, assigned(n)
               PROVE  Held(schema[n], result(n)) /\ result(n) \in FieldValues \cup {None}
    OBVIOUS
  <2>1. Held(schema[n], result(n)) BY <1>3, <1>4
  <2> QED BY <2>1, HeldTyped
<1>6. ASSUME raised', \A n \in FieldNames: Steady(schema[n])
      PROVE  values' = values
  <2>1. refused = {}
    <3> SUFFICES ASSUME NEW k \in refused PROVE FALSE OBVIOUS
    <3>1. validated # Invalid /\ FieldOrder[k] \in DOMAIN validated /\ result(FieldOrder[k]) = Invalid
      OBVIOUS
    <3>2. CASE validated[FieldOrder[k]] \in FieldValues
               /\ Validate(schema[FieldOrder[k]], validated[FieldOrder[k]]) = validated[FieldOrder[k]]
      BY <3>1, <3>2, PartOf DEF Assigned
    <3>3. CASE validated[FieldOrder[k]] = schema[FieldOrder[k]].default
      <4>1. FieldOrder[k] \in FieldNames BY <1>2, <3>1
      <4> QED BY <1>6, <3>1, <3>3, <4>1 DEF Steady
    <3>4. Closed(schema[FieldOrder[k]])
      <4>1. FieldOrder[k] \in FieldNames BY <1>2, <3>1
      <4> QED BY <1>6, <4>1 DEF Steady, Closed
    <3> QED BY <1>2, <3>1, <3>2, <3>3, <3>4
  <2>2. validated = Invalid
    BY <1>1, <1>6, <2>1
  <2>3. \A n \in FieldNames: ~assigned(n)
    BY <2>2
  <2> HIDE DEF assigned
  <2>4. values' = [n \in FieldNames |-> values[n]]
    BY <1>1, <2>3
  <2> QED BY <2>4 DEF SchemaInv
<1> HIDE DEF assigned, result
<1>7. values' \in [FieldNames -> FieldValues \cup {None}] /\ \A n \in FieldNames: Held(schema[n], values'[n])
  BY <1>1, <1>5 DEF SchemaInv
<1> QED BY <1>1, <1>6, <1>7 DEF SchemaInv

\* ExecutionResult.save
LEMMA RunStep ==
  ASSUME SchemaInv, NEW data \in Outputs, Run(data)
  PROVE  SchemaInv' /\ UNCHANGED values
<1> DEFINE own == Restrict(data, FieldNames \cap DOMAIN data)
           saved == [n \in DOMAIN own |-> IF values[n] # None THEN Serialize(schema[n], values[n])
                                                              ELSE own[n]]
           result == [data |-> own, saved |-> saved]
<1>1. /\ results' = results \/ results' = Append(results, result)
      /\ schema' = schema /\ values' = values
  BY DEF Run
<1>2. \A n \in DOMAIN result.data: n \in FieldNames /\ result.data[n] \in Given
  <2>1. \A n \in DOMAIN own: n \in FieldNames /\ n \in DOMAIN data /\ own[n] = data[n]
    BY DEF Restrict
  <2>2. \A n \in DOMAIN data: data[n] \in Given
    BY GivenParts
  <2> HIDE DEF own, saved
  <2> QED BY <2>1, <2>2
<1> HIDE DEF result
<1>3. results \in Seq(ToSet(results) \cup {result}) /\ Len(results) \in Nat /\ DOMAIN results = 1..Len(results)
  BY DEF SchemaInv
<1>4. CASE results' = results
  BY <1>1, <1>4 DEF SchemaInv
<1>5. CASE results' = Append(results, result)
  <2>1. /\ DOMAIN results' = 1..(Len(results) + 1)
        /\ \A k \in DOMAIN results: results'[k] = results[k]
        /\ results'[Len(results) + 1] = result
        /\ results' \in Seq(ToSet(results) \cup {result})
    BY <1>3, <1>5
  <2>2. results' \in Seq(ToSet(results'))
    <3>1. \A k \in DOMAIN results': results'[k] \in ToSet(results') BY DEF ToSet
    <3>2. results' \in [1..(Len(results) + 1) -> ToSet(results')] BY <2>1, <3>1
    <3>3. Len(results) + 1 \in Nat BY <1>3
    <3> QED BY <3>2, <3>3
  <2>3. \A k \in DOMAIN results': results'[k] = result \/ (k \in DOMAIN results /\ results'[k] = results[k])
    BY <1>3, <2>1
  <2> QED BY <1>1, <1>2, <2>2, <2>3 DEF SchemaInv
<1> QED BY <1>1, <1>4, <1>5

\* OutputData.__getattr__
LEMMA ReadOutputStep ==
  ASSUME SchemaInv, NEW k, NEW n \in FieldNames, ReadOutput(k, n)
  PROVE  SchemaInv' /\ (raised' => UNCHANGED values)
<1> DEFINE d == results[k].data[n]
           x == Deserialize(schema[n], d)
<1>1. /\ raised' = (x = Invalid) /\ schema' = schema /\ results' = results
      /\ values' = IF raised' THEN values ELSE [values EXCEPT ![n] = x]
  BY DEF ReadOutput
<1>2. d \in Given
  BY DEF ReadOutput, SchemaInv
<1>3. d \in FieldValues \cup {None} /\ Str(d) \in STRING
  <2> HIDE DEF d
  <2> QED BY <1>2, SchemaAssumption
<1>4. schema[n] \in Specifications
  BY DEF SchemaInv
<1>5. x # Invalid => Held(schema[n], x)
  <2> HIDE DEF d
  <2> QED BY <1>3, <1>4, ReadHeld
<1> HIDE DEF x
<1>6. x # Invalid => x \in FieldValues \cup {None}
  BY <1>5, HeldTyped
<1>7. values' \in [FieldNames -> FieldValues \cup {None}] /\ \A m \in FieldNames: Held(schema[m], values'[m])
  <2>1. CASE x = Invalid
    BY <1>1, <2>1 DEF SchemaInv
  <2>2. CASE x # Invalid
    BY <1>1, <1>5, <1>6, <2>2 DEF SchemaInv
  <2> QED BY <2>1, <2>2
<1> QED BY <1>1, <1>7 DEF SchemaInv

\* Every use of a schema leaves its fields with what they take.
LEMMA SchemaStep ==
  ASSUME SchemaInv, RNext
  PROVE  /\ SchemaInv'
         /\ raised' /\ (\A n \in FieldNames: Steady(schema[n])) => UNCHANGED values \/ UNCHANGED svars
<1>1. ASSUME NEW data \in Data, Request(data) PROVE SchemaInv' /\ UNCHANGED values
  <2>1. UNCHANGED <<schema, values, results>> BY <1>1 DEF Request
  <2> QED BY <2>1 DEF SchemaInv
<1>2. ASSUME SNext
      PROVE  /\ SchemaInv'
             /\ raised' /\ (\A n \in FieldNames: Steady(schema[n])) => UNCHANGED values
  BY <1>2, SetFieldStep, SetValuesStep, RunStep, ReadOutputStep DEF SNext
<1> QED BY <1>1, <1>2 DEF RNext

\* So what they hold is read back.
LEMMA SchemaImplies == SchemaInv => ReadBack
<1> SUFFICES ASSUME SchemaInv, NEW n \in FieldNames
             PROVE  LET f == schema[n]
                        g == LoadedSchema(schema)[n]
                    IN  /\ \A v \in Raws[n]: Validate(g, v) = Validate(f, v)
                        /\ g.optional = f.optional /\ (f.type # "Image" => g.default = f.default)
                        /\ values[n] # None =>
                             LET back == Deserialize(g, Serialize(f, values[n]))
                             IN  IF Unreadable(f, values[n]) THEN back = Invalid
                                 ELSE \/ back = values[n]
                                      \/ /\ f.type = "Number" /\ f.units = None
                                         /\ back = [float |-> Float(values[n])]
  BY DEF ReadBack, SchemaInv
<1> DEFINE f == schema[n]
           g == LoadedSchema(schema)[n]
<1>1. f \in Specifications /\ DOMAIN schema = FieldNames
  BY DEF SchemaInv
<1>2. g = Loaded(Exported(f))
  BY <1>1 DEF LoadedSchema
<1>3. Held(f, values[n])
  BY DEF SchemaInv
<1> HIDE DEF f, g
<1>4. \A v: Validate(g, v) = Validate(f, v)
  BY <1>1, <1>2, LoadedJudges
<1>5. g.optional = f.optional /\ (f.type # "Image" => g.default = f.default)
  BY <1>1, <1>2, LoadedKeeps
<1>6. ASSUME values[n] # None
      PROVE  LET back == Deserialize(g, Serialize(f, values[n]))
             IN  IF Unreadable(f, values[n]) THEN back = Invalid
                 ELSE \/ back = values[n]
                      \/ f.type = "Number" /\ f.units = None /\ back = [float |-> Float(values[n])]
  <2>1. values[n] \in FieldValues /\ (Validate(f, values[n]) = values[n] \/ Unchosen(f, values[n]))
    BY <1>3, <1>6 DEF Held
  <2>2. Deserialize(g, Serialize(f, values[n])) = Deserialize(f, Serialize(f, values[n]))
    BY <1>1, <1>2, LoadedReads
  <2> QED BY <1>1, <2>1, <2>2, ReadAsWritten
<1> QED BY <1>4, <1>5, <1>6 DEF f, g

-----------------------------------------------------------------------------
(* The keys of requests.                                                     *)

\* Induction up to n: were some number missing, the numbers below the first
\* one missing would be mapped into fewer.
LEMMA UpTo ==
  ASSUME NEW n \in Nat, NEW Z, 0 \in Z, \A j \in 0..(n - 1): j \in Z => j + 1 \in Z
  PROVE  0..n \subseteq Z
<1> SUFFICES ASSUME NEW i \in 0..n, i \notin Z PROVE FALSE OBVIOUS
<1> DEFINE Bad == {j \in 0..n: j <= i /\ j \notin Z}
           down == [j \in Bad |-> j - 1]
<1>1. IsFiniteSet(0..n)
  BY FS_Interval
<1>2. IsFiniteSet(Bad) /\ i \in Bad
  BY <1>1, FS_Subset
<1>3. /\ IsFiniteSet(Bad \ {i}) /\ Cardinality(Bad \ {i}) = Cardinality(Bad) - 1
      /\ Cardinality(Bad) \in Nat
  BY <1>2, FS_RemoveElement, FS_CardinalityType
<1>4. \A j \in Bad: j - 1 \in Bad \ {i}
  <2> SUFFICES ASSUME NEW j \in Bad PROVE j - 1 \in Bad \ {i}
    OBVIOUS
  <2>1. j # 0 /\ j - 1 \in 0..(n - 1) /\ (j - 1) + 1 = j
    OBVIOUS
  <2>2. j - 1 \notin Z
    BY <2>1
  <2> QED BY <2>1, <2>2
<1>5. down \in Injection(Bad, Bad \ {i})
  <2>1. down \in [Bad -> Bad \ {i}]
    BY <1>4
  <2>2. \A a, b \in Bad: down[a] = down[b] => a = b
    OBVIOUS
  <2> QED BY <2>1, <2>2 DEF Injection, IsInjective
<1>6. Cardinality(Bad) <= Cardinality(Bad \ {i})
  BY <1>3, <1>5, FS_Injection
<1> QED BY <1>3, <1>6

\* The text of a squid id is defined by recursion over its inputs.
IsPrologue(p, g, n) == p = [k \in 0..n |-> IF k = 0 THEN <<>> ELSE p[k - 1] \o g[k]]
LEMMA PrologueExists ==
  ASSUME NEW n \in Nat, NEW g
  PROVE  \E p: IsPrologue(p, g, n)
<1> DEFINE Z == {m \in 0..n: \E p: IsPrologue(p, g, m)}
<1>1. 0 \in Z
  <2> DEFINE p == [k \in 0..0 |-> <<>>]
  <2>1. IsPrologue(p, g, 0)
    BY DEF IsPrologue
  <2> QED BY <2>1
<1>2. ASSUME NEW j \in 0..(n - 1), j \in Z PROVE j + 1 \in Z
  <2>1. PICK p: IsPrologue(p, g, j)
    BY <1>2
  <2> DEFINE r == [k \in 0..(j + 1) |-> IF k = j + 1 THEN p[j] \o g[j + 1] ELSE p[k]]
             t == [k \in 0..(j + 1) |-> IF k = 0 THEN <<>> ELSE r[k - 1] \o g[k]]
  <2>2. ASSUME NEW k \in 0..(j + 1) PROVE r[k] = t[k]
    <3>1. CASE k = j + 1
      <4>1. k # 0 /\ k - 1 = j /\ j \in 0..(j + 1) /\ j # j + 1
        BY <3>1
      <4> QED BY <3>1, <4>1
    <3>2. CASE k # j + 1
      <4>1. k \in 0..j BY <3>2
      <4>2. r[k] = p[k]
        BY <3>2
      <4>3. p[k] = IF k = 0 THEN <<>> ELSE p[k - 1] \o g[k]
        BY <2>1, <4>1 DEF IsPrologue
      <4>4. k # 0 => k - 1 \in 0..(j + 1) /\ k - 1 # j + 1
        BY <4>1
      <4>5. k # 0 => r[k - 1] = p[k - 1]
        BY <4>4
      <4> QED BY <4>2, <4>3, <4>5
    <3> QED BY <3>1, <3>2
  <2>3. r = t
    <3> HIDE DEF t, r
    <3>1. r = [k \in 0..(j + 1) |-> r[k]] BY DEF r
    <3>2. t = [k \in 0..(j + 1) |-> t[k]] BY DEF t
    <3> QED BY <2>2, <3>1, <3>2
  <2>4. IsPrologue(r, g, j + 1)
    BY <2>3 DEF IsPrologue
  <2>5. j + 1 \in 0..n
    OBVIOUS
  <2> HIDE DEF r
  <2> QED BY <2>4, <2>5
<1> HIDE DEF Z
<1>3. n \in Z
  BY <1>1, <1>2, UpTo
<1> QED BY <1>3 DEF Z

\* What stands for an input in the text.
Written(inputs, n) == <<n, Str(ForHashing(inputs[n]))>>

\* The text of inputs none of which has a line break has a line for each of them.
LEMMA SquidLines ==
  ASSUME NEW a, DOMAIN a \subseteq FieldNames,
         \A n \in DOMAIN a: Has(a[n], "text") => Str(ForHashing(a[n])) \notin DOMAIN LinesOf
  PROVE  \A x: x \in ToSet(SquidId(a)) <=> \E n \in DOMAIN a: x = Written(a, n)
<1> DEFINE N == Len(FieldOrder)
           g == [k \in 1..N |-> Lines(a, FieldOrder[k])]
           S == {Written(a, n): n \in DOMAIN a}
           Upto(k) == {j \in 1..k: FieldOrder[j] \in DOMAIN a}
<1>1. N \in Nat /\ FieldNames = {FieldOrder[k]: k \in 1..N}
  BY SchemaAssumption DEF FieldNames, ToSet
<1>2. PICK p: IsPrologue(p, g, N)
  BY <1>1, PrologueExists
<1> DEFINE q == CHOOSE f: f = [k \in 0..N |-> IF k = 0 THEN <<>> ELSE f[k - 1] \o Lines(a, FieldOrder[k])]
<1>3. q = [k \in 0..N |-> IF k = 0 THEN <<>> ELSE q[k - 1] \o Lines(a, FieldOrder[k])]
  <2>1. p = [k \in 0..N |-> IF k = 0 THEN <<>> ELSE p[k - 1] \o g[k]]
    BY <1>2 DEF IsPrologue
  <2>2. \A k \in 0..N: k # 0 => g[k] = Lines(a, FieldOrder[k])
    BY <1>1
  <2> HIDE DEF g
  <2>3. p = [k \in 0..N |-> IF k = 0 THEN <<>> ELSE p[k - 1] \o Lines(a, FieldOrder[k])]
    BY <2>1, <2>2
  <2> QED BY <2>3
<1>4. SquidId(a) = q[N]
  BY DEF SquidId
<1> HIDE DEF q, g
<1>5. \A k \in 1..N: Lines(a, FieldOrder[k]) = IF FieldOrder[k] \in DOMAIN a
                                               THEN <<Written(a, FieldOrder[k])>> ELSE <<>>
  BY DEF Lines, Written
<1> DEFINE Z == {k \in 0..N: q[k] \in Seq(S) /\ ToSet(q[k]) = {Written(a, FieldOrder[j]): j \in Upto(k)}}
<1>6. 0 \in Z
  <2>1. q[0] = <<>> /\ 0 \in 0..N
    BY <1>1, <1>3
  <2>2. Upto(0) = {}
    OBVIOUS
  <2>3. q[0] \in Seq(S) /\ ToSet(q[0]) = {}
    BY <2>1 DEF ToSet
  <2> QED BY <2>1, <2>2, <2>3
<1>7. ASSUME NEW k \in 0..(N - 1), k \in Z PROVE k + 1 \in Z
  <2>1. k + 1 \in 1..N /\ k + 1 \in 0..N /\ (k + 1) - 1 = k
    BY <1>1
  <2>2. q[k + 1] = q[k] \o Lines(a, FieldOrder[k + 1])
    BY <1>3, <2>1
  <2>3. q[k] \in Seq(S) /\ ToSet(q[k]) = {Written(a, FieldOrder[j]): j \in Upto(k)}
    BY <1>7
  <2>4. CASE FieldOrder[k + 1] \in DOMAIN a
    <3> DEFINE w == Written(a, FieldOrder[k + 1])
    <3>1. w \in S
      BY <2>4
    <3>2. q[k + 1] = Append(q[k], w)
      <4>1. q[k + 1] = q[k] \o <<w>>
        BY <1>5, <2>1, <2>2, <2>4
      <4> QED BY <2>3, <3>1, <4>1, AppendIsConcat
    <3>3. Upto(k + 1) = Upto(k) \cup {k + 1}
      BY <2>1, <2>4
    <3> HIDE DEF w, S
    <3>4. /\ q[k + 1] \in Seq(S) /\ Len(q[k + 1]) = Len(q[k]) + 1 /\ q[k + 1][Len(q[k]) + 1] = w
          /\ \A i \in 1..Len(q[k]): q[k + 1][i] = q[k][i]
      BY <2>3, <3>1, <3>2
    <3>5. ToSet(q[k + 1]) = ToSet(q[k]) \cup {w}
      <4>1. Len(q[k]) \in Nat /\ DOMAIN q[k] = 1..Len(q[k]) /\ DOMAIN q[k + 1] = 1..(Len(q[k]) + 1)
        BY <2>3, <3>4
      <4>2. DOMAIN q[k + 1] = DOMAIN q[k] \cup {Len(q[k]) + 1}
        BY <4>1
      <4>3. \A x: x \in ToSet(q[k]) <=> \E i \in DOMAIN q[k]: x = q[k][i]
        BY DEF ToSet
      <4>4. \A x: x \in ToSet(q[k + 1]) <=> \E i \in DOMAIN q[k + 1]: x = q[k + 1][i]
        BY DEF ToSet
      <4>5. \A i \in DOMAIN q[k]: q[k + 1][i] = q[k][i]
        BY <3>4, <4>1
      <4>6. \A x: x \in ToSet(q[k + 1]) <=> x \in ToSet(q[k]) \/ x = w
        BY <3>4, <4>2, <4>3, <4>4, <4>5
      <4> QED BY <4>6
    <3>6. {Written(a, FieldOrder[j]): j \in Upto(k + 1)}
            = {Written(a, FieldOrder[j]): j \in Upto(k)} \cup {w}
      BY <3>3 DEF w
    <3> HIDE DEF Upto
    <3> QED BY <2>1, <2>3, <3>4, <3>5, <3>6
  <2>5. CASE FieldOrder[k + 1] \notin DOMAIN a
    <3>1. q[k + 1] = q[k]
      <4>1. q[k + 1] = q[k] \o <<>>
        BY <1>5, <2>1, <2>2, <2>5
      <4> QED BY <2>3, <4>1, ConcatEmptySeq
    <3>2. Upto(k + 1) = Upto(k)
      BY <2>1, <2>5
    <3> QED BY <2>1, <2>3, <3>1, <3>2
  <2> QED BY <2>4, <2>5
<1>8. N \in Z
  <2> HIDE DEF Z
  <2>1. 0..N \subseteq Z
    BY <1>1, <1>6, <1>7, UpTo
  <2> QED BY <1>1, <2>1
<1>9. ToSet(SquidId(a)) = {Written(a, FieldOrder[j]): j \in Upto(N)}
  BY <1>4, <1>8
<1>10. \A n \in DOMAIN a: \E j \in Upto(N): n = FieldOrder[j]
  BY <1>1
<1> QED BY <1>9, <1>10

\* Rounding moves no float by the width of the grid.
LEMMA RoundedClose ==
  ASSUME NEW x \in Floats, NEW y \in Floats, Rounded(x) = Rounded(y)
  PROVE  Close(x, y)
<1>1. Grid \in Nat /\ Grid > 0 /\ NaN \notin Int
  BY RequestsAssumption, SchemaAssumption
<1>2. \A z \in Int: (z + Grid \div 2) \div Grid \in Int /\ Grid \div 2 \in Int
  BY <1>1
<1>3. \A z \in Int, d \in Int: Grid * d \in Int
  BY <1>1
<1>4. CASE x = NaN \/ y = NaN
  <2>1. x = y
    BY <1>1, <1>2, <1>3, <1>4 DEF Rounded, Floats
  <2> QED BY <2>1 DEF Close
<1>5. CASE x # NaN /\ y # NaN
  <2> DEFINE h == Grid \div 2
             d == (x + h) \div Grid
             e == (y + h) \div Grid
  <2>1. x \in Int /\ y \in Int /\ h \in Int
    BY <1>2, <1>5 DEF Floats
  <2>2. d \in Int /\ e \in Int /\ Grid * d = Grid * e
    BY <1>2, <1>5, <2>1 DEF Rounded
  <2>3. /\ Grid * d <= x + h /\ x + h < Grid * d + Grid
        /\ Grid * e <= y + h /\ y + h < Grid * e + Grid
    BY <1>1, <2>1
  <2> HIDE DEF d, e, h
  <2>4. x - y < Grid /\ y - x < Grid
    BY <1>1, <1>3, <2>1, <2>2, <2>3
  <2> QED BY <1>5, <2>4 DEF Close
<1> QED BY <1>4, <1>5

-----------------------------------------------------------------------------
\* What a request holds is storable, and an array without dimensions a number.
Kept(x) == /\ x \in FieldValues /\ x \in Storable
           /\ Has(x, "array") /\ x.shape = <<>> => Len(x.array) = 1
LEMMA ArrayMade ==
  ASSUME NEW f \in Specifications, NEW v \in Given, Validate(f, v) # Invalid,
         Has(Validate(f, v), "array"), Validate(f, v).shape = <<>>
  PROVE  Len(Validate(f, v).array) = 1
<1> DEFINE x == Validate(f, v)
<1>1. v \in FieldValues \cup {None} /\ Str(v) \in STRING
  BY SchemaAssumption
<1>2. x \in FieldValues /\ Validate(f, x) = x
  <2>1. x \in FieldValues /\ (Validate(f, x) = x \/ Unchosen(f, x))
    BY <1>1, Settles
  <2>2. ~Has(x, "element")
    <3> HIDE DEF x
    <3> QED BY <2>1, PartOf DEF Parts, x
  <2> QED BY <2>1, <2>2 DEF Unchosen
<1> HIDE DEF x
<1>3. x # Invalid /\ x # None /\ Has(x, "array")
  BY <1>2, Shapes DEF x
<1>4. \A p \in Parts \ {"array"}: ~Has(x, p)
  BY <1>2, <1>3, PartOf DEF Parts
<1>5. Float(x) = Invalid
  BY <1>4 DEF Float, Parts
<1>6. f.type \in FieldTypes
  BY DEF Specifications
<1>7. f.type # "Integer"
  BY <1>2, <1>3, <1>5 DEF Validate, ValidateInteger
<1>8. f.type # "Number"
  <2>1. ~Has(x, "magnitude") BY <1>4 DEF Parts
  <2> QED BY <1>2, <1>3, <1>5, <2>1 DEF Validate, ValidateNumber
<1>9. f.type # "Text"
  <2>1. ASSUME f.type = "Text" PROVE x = [text |-> Str(x)]
    BY <1>2, <1>3, <2>1 DEF Validate, ValidateText
  <2>2. \A s: "array" \notin DOMAIN [text |-> s]
    OBVIOUS
  <2> QED BY <1>3, <2>1, <2>2 DEF Has
<1>10. f.type \notin {"Boolean", "Image", "Element", "List", "Dict"}
  <2>1. /\ ~Has(x, "bool") /\ ~Has(x, "text") /\ ~Has(x, "int") /\ ~Has(x, "float")
        /\ ~Has(x, "image") /\ ~Has(x, "element") /\ ~Has(x, "list") /\ ~Has(x, "dict")
    BY <1>4 DEF Parts
  <2>2. f.type # "Boolean"
    BY <1>2, <1>3, <2>1 DEF Validate, ValidateBoolean
  <2>3. f.type # "Image"
    BY <1>2, <1>3, <2>1 DEF Validate, ValidateImage
  <2>4. f.type # "Element"
    BY <1>2, <1>3, <2>1 DEF Validate, ValidateElement
  <2>5. f.type # "List"
    BY <1>2, <1>3, <2>1 DEF Validate, ValidateList
  <2>6. f.type # "Dict"
    BY <1>2, <1>3, <2>1 DEF Validate, ValidateDict
  <2> QED BY <2>2, <2>3, <2>4, <2>5, <2>6
<1>11. x = AsArray(v)
  <2>1. f.type = "Array"
    BY <1>6, <1>7, <1>8, <1>9, <1>10 DEF FieldTypes
  <2> QED BY <1>3, <2>1 DEF Validate, ValidateArray, x
<1>12. CASE Has(v, "array")
  <2>1. v \in FieldValues
    BY <1>1, <1>12, PartOf
  <2>2. AsArray(v) = v
    BY <1>3, <1>11, <1>12, <2>1, ArrayTyped
  <2> QED BY <1>11, <1>12, <2>2, RequestsAssumption DEF x
<1>13. CASE ~Has(v, "array")
  <2> DEFINE items == CASE v = None -> <<NaN>>
                        [] Has(v, "list") -> [k \in DOMAIN v.list |-> Float(v.list[k])]
                        [] Has(v, "array") -> v.array
                        [] Has(v, "magnitude") -> <<v.magnitude>>
                        [] OTHER -> <<Float(v)>>
             shape == CASE Has(v, "array") -> v.shape
                        [] Has(v, "list") -> <<Len(items)>>
                        [] OTHER -> <<>>
  <2>1. x = [array |-> items, shape |-> shape]
    BY <1>3, <1>11 DEF AsArray
  <2>2. shape = <<>>
    BY <2>1 DEF x
  <2>3. ~Has(v, "list")
    BY <1>13, <2>2
  <2>4. Len(items) = 1
    BY <1>13, <2>3
  <2> HIDE DEF items, shape
  <2> QED BY <2>1, <2>4 DEF x
<1> QED BY <1>12, <1>13

LEMMA KeptValues ==
  ASSUME NEW n \in FieldNames, NEW f \in Fields[n]
  PROVE  /\ \A v \in Given: Validate(f, v) # Invalid => Kept(Validate(f, v))
         /\ f.default # None => Kept(f.default)
<1>1. f \in Specifications /\ f.default \in Given
  BY SchemaAssumption, GivenParts
<1>2. f \in UNION {Fields[m]: m \in FieldNames}
  OBVIOUS
<1>3. ASSUME NEW v \in Given, Validate(f, v) # Invalid PROVE Kept(Validate(f, v))
  <2>1. v \in FieldValues \cup {None} /\ Str(v) \in STRING
    BY SchemaAssumption
  <2>2. Validate(f, v) \in FieldValues
    BY <1>1, <1>3, <2>1, Settles
  <2>3. Validate(f, v) # None
    BY <2>2, Shapes
  <2>4. Validate(f, v) \in Storable
    BY <1>2, <1>3, <2>3 DEF Storable
  <2> QED BY <1>1, <1>3, <2>2, <2>4, ArrayMade DEF Kept
<1>4. ASSUME f.default # None PROVE Kept(f.default)
  <2>1. f.default \in FieldValues
    BY <1>1, <1>4, SchemaAssumption
  <2>2. f.default # Invalid
    BY <2>1, Shapes
  <2>3. f.default \in Storable
    BY <1>2, <1>4, <2>2 DEF Storable
  <2> QED BY <1>1, <2>1, <2>3, RequestsAssumption DEF Kept
<1> QED BY <1>3, <1>4

\* What the keys are made of: a plain value.
Plains == Scalars \cup [list: Seq(Scalars)] \cup [list: Seq(Scalars), nesting: Seq(Nat)]
          \cup [dict: Quantities \cup Arrays \cup Images \cup Mappings]

\* serialize_for_hashing makes such a value, or one that JSON cannot write.
LEMMA PlainForms ==
  ASSUME NEW v, Kept(v), Jsonable(ForHashing(v))
  PROVE  ForHashing(v) \in Plains /\ (Has(ForHashing(v), "text") <=> Has(v, "text"))
<1>1. v \in FieldValues /\ v # None /\ v # Invalid
  BY Shapes DEF Kept
<1>2. \A p, q \in Parts: Has(v, p) /\ Has(v, q) => p = q
  BY <1>1, PartOf
<1>3. \A p: Has(v, p) <=> p \in DOMAIN v
  BY <1>1 DEF Has
<1>4. CASE Has(v, "array")
  <2>1. v \in Arrays
    BY <1>1, <1>4, PartOf
  <2>2. v.array \in Seq(Floats) /\ v.shape \in Seq(Nat)
    BY <2>1 DEF Arrays
  <2> DEFINE floats == [k \in DOMAIN v.array |-> [float |-> v.array[k]]]
  <2>3. floats \in Seq(Scalars)
    <3>1. \A k \in DOMAIN v.array: [float |-> v.array[k]] \in Scalars
      BY <2>2 DEF Scalars
    <3>2. DOMAIN v.array = 1..Len(v.array) /\ Len(v.array) \in Nat
      BY <2>2
    <3> QED BY <3>1, <3>2
  <2>4. ~Has(v, "text") /\ ~Has(v, "magnitude")
    BY <1>2, <1>4 DEF Parts
  <2>5. CASE v.shape = <<>>
    <3>1. Len(v.array) = 1
      BY <1>4, <2>5 DEF Kept
    <3>2. v.array[1] \in Floats
      BY <2>2, <3>1
    <3>3. ForHashing(v) = [float |-> v.array[1]]
      <4>1. Len(v.shape) = 0
        BY <2>5
      <4> QED BY <1>4, <2>4, <2>5, <4>1 DEF ForHashing
    <3>4. "text" \notin DOMAIN ForHashing(v)
      BY <3>3
    <3> QED BY <2>4, <3>2, <3>3, <3>4 DEF Plains, Scalars, Has
  <2>6. CASE Len(v.shape) = 1
    <3>1. v.shape # <<>>
      BY <2>6
    <3>2. ForHashing(v) = [list |-> floats]
      BY <1>4, <2>4, <2>6, <3>1 DEF ForHashing
    <3>3. "text" \notin DOMAIN ForHashing(v)
      BY <3>2
    <3> HIDE DEF floats
    <3> QED BY <2>3, <2>4, <3>2, <3>3 DEF Plains, Has
  <2>7. CASE v.shape # <<>> /\ Len(v.shape) # 1
    <3>1. Len(v.shape) \in Nat /\ Len(v.shape) > 1
      <4>1. Len(v.shape) \in Nat /\ Len(v.shape) # 0
        BY <2>2, <2>7, EmptySeq
      <4>2. \A l \in Nat: l # 0 /\ l # 1 => l > 1
        OBVIOUS
      <4> QED BY <2>7, <4>1, <4>2
    <3>2. ForHashing(v) = [list |-> floats, nesting |-> Nesting(v.shape)]
      BY <1>4, <2>4, <2>7, <3>1 DEF ForHashing
    <3>3. "text" \notin DOMAIN ForHashing(v)
      BY <3>2
    <3>4. Nesting(v.shape) \in Seq(Nat)
      <4>1. CASE 0 \notin ToSet(v.shape)
        BY <2>2, <4>1 DEF Nesting
      <4>2. CASE 0 \in ToSet(v.shape)
        <5> DEFINE Zeros == {k \in DOMAIN v.shape: v.shape[k] = 0}
                   k0 == CHOOSE k \in DOMAIN v.shape: v.shape[k] = 0 /\ \A j \in 1..(k - 1): v.shape[j] # 0
        <5>1. Zeros # {} /\ Zeros \subseteq 1..Len(v.shape)
          BY <2>2, <4>2 DEF ToSet
        <5>2. \E k \in Zeros: \A j \in Zeros: k <= j
          <6> DEFINE Z == {m \in 0..Len(v.shape): \A j \in Zeros: j > m}
          <6>1. ASSUME \A k \in Zeros: \E j \in Zeros: j < k PROVE FALSE
            <7>1. 0 \in Z
              BY <3>1, <5>1
            <7>2. ASSUME NEW m \in 0..(Len(v.shape) - 1), m \in Z PROVE m + 1 \in Z
              <8>1. \A j \in Zeros: j > m /\ j \in Nat
                BY <5>1, <7>2
              <8>2. m + 1 \notin Zeros
                BY <6>1, <8>1
              <8>3. \A j \in Zeros: j > m + 1
                BY <8>1, <8>2
              <8> QED BY <3>1, <8>3
            <7> HIDE DEF Z
            <7>3. 0..Len(v.shape) \subseteq Z
              BY <3>1, <7>1, <7>2, UpTo
            <7>4. Len(v.shape) \in Z
              BY <3>1, <7>3
            <7> QED BY <3>1, <5>1, <7>4 DEF Z
          <6> QED BY <5>1, <6>1
        <5>3. \E k \in DOMAIN v.shape: v.shape[k] = 0 /\ \A j \in 1..(k - 1): v.shape[j] # 0
          <6>1. PICK k \in Zeros: \A j \in Zeros: k <= j
            BY <5>2
          <6>2. k \in 1..Len(v.shape) /\ v.shape[k] = 0
            BY <5>1
          <6>3. \A j \in 1..(k - 1): j \in DOMAIN v.shape /\ ~(k <= j)
            BY <2>2, <6>2
          <6> QED BY <6>1, <6>2, <6>3
        <5>4. k0 \in 1..Len(v.shape)
          BY <2>2, <5>3
        <5>5. Nesting(v.shape) = SubSeq(v.shape, 1, k0)
          BY <4>2 DEF Nesting
        <5> HIDE DEF k0
        <5> QED BY <2>2, <5>4, <5>5
      <4> QED BY <4>1, <4>2
    <3> HIDE DEF floats
    <3> QED BY <2>3, <2>4, <3>2, <3>3, <3>4 DEF Plains, Has
  <2> QED BY <2>5, <2>6, <2>7
<1>5. CASE Has(v, "magnitude")
  <2>1. v \in Quantities /\ ~Has(v, "array") /\ ~Has(v, "text")
    BY <1>1, <1>2, <1>5, PartOf DEF Parts
  <2>2. ForHashing(v) = [dict |-> v]
    BY <1>5, <2>1 DEF ForHashing
  <2>3. "text" \notin DOMAIN ForHashing(v)
    BY <2>2
  <2> QED BY <2>1, <2>2, <2>3 DEF Plains, Has
<1>6. CASE ~Has(v, "array") /\ ~Has(v, "magnitude")
  <2>1. ForHashing(v) = v
    BY <1>6 DEF ForHashing
  <2>2. \E p \in {"int", "float", "bool", "text", "list", "dict"}: Has(v, p)
    BY <1>1, <2>1 DEF Jsonable
  <2>3. ~Has(v, "image") /\ ~Has(v, "element")
    BY <1>2, <2>2 DEF Parts
  <2>4. v \in Plains
    BY <1>1, <1>6, <2>3, Shapes DEF Plains, Scalars, Parts
  <2> QED BY <2>1, <2>4
<1> QED BY <1>4, <1>5, <1>6

\* The parts of a plain value.
LEMMA PlainKinds ==
  ASSUME NEW v \in Plains
  PROVE  /\ v \notin {None, Invalid}
         /\ \/ v \in Scalars /\ ~Has(v, "list") /\ ~Has(v, "dict")
            \/ /\ v.list \in Seq(Scalars) /\ DOMAIN v \in {{"list"}, {"list", "nesting"}}
               /\ v = [part \in DOMAIN v |-> v[part]]
               /\ Has(v, "list") /\ ~Has(v, "dict") /\ ~Has(v, "float")
            \/ /\ v.dict \in Quantities \cup Arrays \cup Images \cup Mappings /\ DOMAIN v = {"dict"}
               /\ Has(v, "dict") /\ ~Has(v, "list") /\ ~Has(v, "float")
<1>1. CASE v \in [list: Seq(Scalars), nesting: Seq(Nat)]
  <2>1. v \notin {None, Invalid}
    BY <1>1, RequestsAssumption
  <2>2. DOMAIN v = {"list", "nesting"} /\ v.list \in Seq(Scalars) /\ v = [part \in DOMAIN v |-> v[part]]
    BY <1>1
  <2> QED BY <2>1, <2>2 DEF Has
<1>2. CASE v \in FieldValues
  <2>1. v \notin {None, Invalid}
    BY <1>2, Shapes
  <2>2. CASE v \in Scalars
    <3>1. DOMAIN v \in {{"int"}, {"float"}, {"bool"}, {"text"}}
      BY <2>2 DEF Scalars
    <3> QED BY <2>1, <2>2, <3>1 DEF Has
  <2>3. CASE v \in [list: Seq(Scalars)]
    <3>1. DOMAIN v = {"list"} /\ v.list \in Seq(Scalars) /\ v = [part \in DOMAIN v |-> v[part]]
      BY <2>3
    <3> QED BY <2>1, <3>1 DEF Has
  <2>4. CASE v \in [dict: Quantities \cup Arrays \cup Images \cup Mappings]
    <3>1. DOMAIN v = {"dict"} /\ v.dict \in Quantities \cup Arrays \cup Images \cup Mappings
      BY <2>4
    <3> QED BY <2>1, <3>1 DEF Has
  <2> QED BY <1>1, <2>2, <2>3, <2>4 DEF Plains
<1> QED BY <1>1, <1>2 DEF Plains, FieldValues

\* Two sequences over the same indices are as long as each other.
LEMMA SameLength == ASSUME NEW i \in Nat, NEW j \in Nat, 1..i = 1..j PROVE i = j
<1>1. (i # 0 => i \in 1..j) /\ (j # 0 => j \in 1..i)
  OBVIOUS
<1> QED BY <1>1

\* Scalars that are rounded to the same are close.
LEMMA ItemsClose ==
  ASSUME NEW v \in Scalars, NEW w \in Scalars, RoundedItem(v) = RoundedItem(w)
  PROVE  CloseItems(v, w)
<1>1. v \notin {None, Invalid} /\ w \notin {None, Invalid}
  BY PlainKinds DEF Plains
<1>2. \A x \in Scalars: /\ DOMAIN x \in {{"int"}, {"float"}, {"bool"}, {"text"}}
                        /\ "float" \in DOMAIN x => x.float \in Floats
  BY DEF Scalars
<1>3. /\ DOMAIN RoundedItem(v) = DOMAIN v /\ DOMAIN RoundedItem(w) = DOMAIN w
      /\ Has(v, "float") <=> "float" \in DOMAIN v
      /\ Has(w, "float") <=> "float" \in DOMAIN w
  BY <1>1, <1>2 DEF RoundedItem, Has
<1>4. CASE Has(v, "float")
  <2>1. Has(w, "float")
    BY <1>3, <1>4
  <2>2. v.float \in Floats /\ w.float \in Floats
    BY <1>2, <1>3, <1>4, <2>1
  <2>3. Rounded(v.float) = Rounded(w.float)
    BY <1>4, <2>1 DEF RoundedItem
  <2> QED BY <1>4, <2>1, <2>2, <2>3, RoundedClose DEF CloseItems
<1>5. CASE ~Has(v, "float")
  <2>1. ~Has(w, "float")
    BY <1>3, <1>5
  <2> QED BY <1>5, <2>1 DEF RoundedItem, CloseItems
<1> QED BY <1>4, <1>5

\* So are dictionaries.
LEMMA DictsClose ==
  ASSUME NEW d \in Quantities \cup Arrays \cup Images \cup Mappings,
         NEW e \in Quantities \cup Arrays \cup Images \cup Mappings,
         RoundedDict(d) = RoundedDict(e)
  PROVE  CloseDicts(d, e)
<1>1. \A x \in Quantities: /\ x.magnitude \in Floats /\ x = [magnitude |-> x.magnitude, units |-> x.units]
                           /\ Has(x, "magnitude") /\ ~Has(x, "array")
  <2> SUFFICES ASSUME NEW x \in Quantities
               PROVE  /\ x.magnitude \in Floats /\ x = [magnitude |-> x.magnitude, units |-> x.units]
                      /\ Has(x, "magnitude") /\ ~Has(x, "array")
    OBVIOUS
  <2>1. x.magnitude \in Floats /\ x = [magnitude |-> x.magnitude, units |-> x.units]
    BY DEF Quantities
  <2>2. x \in FieldValues BY DEF FieldValues
  <2>3. Has(x, "magnitude") BY <2>1, <2>2, Shapes DEF Has
  <2>4. "array" \notin DOMAIN x BY <2>1
  <2> QED BY <2>1, <2>3, <2>4 DEF Has
<1>2. \A x \in Arrays: /\ x.array \in Seq(Floats) /\ x = [array |-> x.array, shape |-> x.shape]
                       /\ Has(x, "array") /\ ~Has(x, "magnitude")
  <2> SUFFICES ASSUME NEW x \in Arrays
               PROVE  /\ x.array \in Seq(Floats) /\ x = [array |-> x.array, shape |-> x.shape]
                      /\ Has(x, "array") /\ ~Has(x, "magnitude")
    OBVIOUS
  <2>1. x.array \in Seq(Floats) /\ x = [array |-> x.array, shape |-> x.shape]
    BY DEF Arrays
  <2>2. x \in FieldValues BY DEF FieldValues
  <2>3. Has(x, "array") BY <2>1, <2>2, Shapes DEF Has
  <2>4. "magnitude" \notin DOMAIN x BY <2>1
  <2> QED BY <2>1, <2>3, <2>4 DEF Has
<1>3. \A x \in Images \cup Mappings: "magnitude" \notin DOMAIN x /\ "array" \notin DOMAIN x
  <2>1. \A x \in Images: DOMAIN x = {"image"} BY DEF Images
  <2> QED BY <2>1, SchemaAssumption
<1>4. \A x \in Quantities: RoundedDict(x) = [magnitude |-> Rounded(x.magnitude), units |-> x.units]
  BY <1>1 DEF RoundedDict
<1>5. \A x \in Arrays: RoundedDict(x) = [array |-> [k \in DOMAIN x.array |-> Rounded(x.array[k])],
                                         shape |-> x.shape]
  <2> SUFFICES ASSUME NEW x \in Arrays
               PROVE  RoundedDict(x) = [array |-> [k \in DOMAIN x.array |-> Rounded(x.array[k])],
                                        shape |-> x.shape]
    OBVIOUS
  <2> DEFINE items == [k \in DOMAIN x.array |-> Rounded(x.array[k])]
  <2>1. RoundedDict(x) = [x EXCEPT !.array = items]
    BY <1>2 DEF RoundedDict
  <2> HIDE DEF items
  <2>2. x = [array |-> x.array, shape |-> x.shape]
    BY <1>2
  <2>3. [x EXCEPT !.array = items] = [array |-> items, shape |-> x.shape]
    BY <2>2
  <2> QED BY <2>1, <2>3 DEF items
<1>6. \A x \in Images \cup Mappings: RoundedDict(x) = x
  BY <1>3 DEF RoundedDict, Has
<1>7. CASE d \in Quantities
  <2>1. "magnitude" \in DOMAIN RoundedDict(e) /\ "array" \notin DOMAIN RoundedDict(e)
    BY <1>4, <1>7
  <2>2. e \in Quantities
    BY <1>3, <1>5, <1>6, <2>1
  <2>3. Rounded(d.magnitude) = Rounded(e.magnitude) /\ d.units = e.units
    BY <1>4, <1>7, <2>2
  <2>4. Close(d.magnitude, e.magnitude)
    BY <1>1, <1>7, <2>2, <2>3, RoundedClose
  <2> QED BY <1>1, <1>7, <2>2, <2>3, <2>4 DEF CloseDicts
<1>8. CASE d \in Arrays
  <2>1. "array" \in DOMAIN RoundedDict(e)
    BY <1>5, <1>8
  <2>2. e \in Arrays
    BY <1>3, <1>4, <1>6, <2>1
  <2> DEFINE r(x) == [k \in DOMAIN x.array |-> Rounded(x.array[k])]
  <2>3. [array |-> r(d), shape |-> d.shape] = [array |-> r(e), shape |-> e.shape]
    BY <1>5, <1>8, <2>2
  <2>4. r(d) = r(e) /\ d.shape = e.shape
    <3> HIDE DEF r
    <3> QED BY <2>3
  <2>5. DOMAIN d.array = DOMAIN e.array /\ \A k \in DOMAIN d.array: Rounded(d.array[k]) = Rounded(e.array[k])
    <3>1. DOMAIN r(d) = DOMAIN d.array /\ DOMAIN r(e) = DOMAIN e.array
      OBVIOUS
    <3>2. \A k \in DOMAIN d.array: r(d)[k] = Rounded(d.array[k])
      OBVIOUS
    <3>3. \A k \in DOMAIN e.array: r(e)[k] = Rounded(e.array[k])
      OBVIOUS
    <3> HIDE DEF r
    <3> QED BY <2>4, <3>1, <3>2, <3>3
  <2>6. d.array \in Seq(Floats) /\ e.array \in Seq(Floats)
    BY <1>2, <1>8, <2>2
  <2>7. Len(d.array) = Len(e.array)
    <3>1. /\ DOMAIN d.array = 1..Len(d.array) /\ DOMAIN e.array = 1..Len(e.array)
          /\ Len(d.array) \in Nat /\ Len(e.array) \in Nat
      BY <2>6
    <3> QED BY <2>5, <3>1, SameLength
  <2>8. \A k \in DOMAIN d.array: Close(d.array[k], e.array[k])
    <3>1. \A k \in DOMAIN d.array: d.array[k] \in Floats /\ e.array[k] \in Floats
      BY <2>5, <2>6
    <3> QED BY <2>5, <3>1, RoundedClose
  <2> QED BY <1>2, <1>8, <2>2, <2>4, <2>7, <2>8 DEF CloseDicts
<1>9. CASE d \in Images \cup Mappings
  <2>1. "magnitude" \notin DOMAIN RoundedDict(e) /\ "array" \notin DOMAIN RoundedDict(e)
    BY <1>3, <1>6, <1>9
  <2>2. e \in Images \cup Mappings
    BY <1>4, <1>5, <2>1
  <2> QED BY <1>6, <1>9, <2>2 DEF CloseDicts
<1> QED BY <1>7, <1>8, <1>9

\* The canonical forms of two values are the same only if the values are near.
LEMMA CanonicalClose ==
  ASSUME NEW v \in Plains, NEW w \in Plains, CanonicalFloats(v) = CanonicalFloats(w)
  PROVE  Near(v, w)
<1> DEFINE items(x) == [k \in DOMAIN x.list |-> RoundedItem(x.list[k])]
<1>1. \A x \in Plains: Has(x, "dict") =>
        CanonicalFloats(x) = [dict |-> RoundedDict(x.dict)] /\ DOMAIN CanonicalFloats(x) = {"dict"}
  <2>1. \A x \in Plains: Has(x, "dict") => ~Has(x, "list")
    <3>1. \A x \in Scalars: DOMAIN x \in {{"int"}, {"float"}, {"bool"}, {"text"}}
      BY DEF Scalars
    <3> QED BY <3>1, PlainKinds DEF Has
  <2> QED BY <2>1 DEF CanonicalFloats
<1>2. \A x \in Plains: Has(x, "list") =>
        /\ CanonicalFloats(x) = [x EXCEPT !.list = items(x)]
        /\ DOMAIN CanonicalFloats(x) = DOMAIN x /\ "list" \in DOMAIN x
  <2> SUFFICES ASSUME NEW x \in Plains, Has(x, "list")
               PROVE  /\ CanonicalFloats(x) = [x EXCEPT !.list = items(x)]
                      /\ DOMAIN CanonicalFloats(x) = DOMAIN x /\ "list" \in DOMAIN x
    OBVIOUS
  <2>1. ~Has(x, "dict")
    BY PlainKinds
  <2>2. CanonicalFloats(x) = [x EXCEPT !.list = items(x)]
    BY <2>1 DEF CanonicalFloats
  <2> HIDE DEF items
  <2> QED BY <2>2 DEF Has
<1>3. \A x \in Plains: ~Has(x, "dict") /\ ~Has(x, "list") =>
        /\ x \in Scalars /\ CanonicalFloats(x) = RoundedItem(x)
        /\ DOMAIN RoundedItem(x) \in {{"int"}, {"float"}, {"bool"}, {"text"}}
  <2> SUFFICES ASSUME NEW x \in Plains, ~Has(x, "dict"), ~Has(x, "list")
               PROVE  /\ x \in Scalars /\ CanonicalFloats(x) = RoundedItem(x)
                      /\ DOMAIN RoundedItem(x) \in {{"int"}, {"float"}, {"bool"}, {"text"}}
    OBVIOUS
  <2>1. x \in Scalars
    BY PlainKinds
  <2>2. DOMAIN x \in {{"int"}, {"float"}, {"bool"}, {"text"}}
    BY <2>1 DEF Scalars
  <2>3. DOMAIN RoundedItem(x) \in {{"int"}, {"float"}, {"bool"}, {"text"}}
    BY <2>2 DEF RoundedItem
  <2> QED BY <2>1, <2>3 DEF CanonicalFloats
<1> HIDE DEF items
<1>4. CASE Has(v, "dict")
  <2>1. DOMAIN CanonicalFloats(w) = {"dict"}
    BY <1>1, <1>4
  <2>2. Has(w, "dict")
    BY <1>2, <1>3, <2>1
  <2>3. RoundedDict(v.dict) = RoundedDict(w.dict)
    BY <1>1, <1>4, <2>2
  <2>4. /\ v.dict \in Quantities \cup Arrays \cup Images \cup Mappings
        /\ w.dict \in Quantities \cup Arrays \cup Images \cup Mappings
    <3>1. \A x \in Plains: Has(x, "dict") => x.dict \in Quantities \cup Arrays \cup Images \cup Mappings
      <4>1. \A x \in Scalars: DOMAIN x \in {{"int"}, {"float"}, {"bool"}, {"text"}}
        BY DEF Scalars
      <4> QED BY <4>1, PlainKinds DEF Has
    <3> QED BY <1>4, <2>2, <3>1
  <2>5. CloseDicts(v.dict, w.dict)
    BY <2>3, <2>4, DictsClose
  <2> QED BY <1>4, <2>2, <2>5 DEF Near
<1>5. CASE Has(v, "list")
  <2>1. "list" \in DOMAIN CanonicalFloats(w) /\ DOMAIN CanonicalFloats(w) = DOMAIN v
    BY <1>2, <1>5
  <2>2. Has(w, "list")
    BY <1>1, <1>3, <2>1
  <2>3. /\ DOMAIN v = DOMAIN w /\ "list" \in DOMAIN v
        /\ [v EXCEPT !.list = items(v)] = [w EXCEPT !.list = items(w)]
    BY <1>2, <1>5, <2>1, <2>2
  <2>4. \A x \in Plains: Has(x, "list") => x.list \in Seq(Scalars) /\ x = [part \in DOMAIN x |-> x[part]]
    <3>1. \A x \in Scalars: DOMAIN x \in {{"int"}, {"float"}, {"bool"}, {"text"}}
      BY DEF Scalars
    <3> QED BY <3>1, PlainKinds DEF Has
  <2>5. v.list \in Seq(Scalars) /\ w.list \in Seq(Scalars)
    BY <1>5, <2>2, <2>4
  <2>6. items(v) = items(w)
    <3>1. [v EXCEPT !.list = items(v)].list = items(v) /\ [w EXCEPT !.list = items(w)].list = items(w)
      BY <2>3
    <3> QED BY <2>3, <3>1
  <2>7. DOMAIN v.list = DOMAIN w.list /\ \A k \in DOMAIN v.list: RoundedItem(v.list[k]) = RoundedItem(w.list[k])
    <3>1. DOMAIN items(v) = DOMAIN v.list /\ DOMAIN items(w) = DOMAIN w.list
      BY DEF items
    <3>2. \A k \in DOMAIN v.list: items(v)[k] = RoundedItem(v.list[k])
      BY DEF items
    <3>3. \A k \in DOMAIN w.list: items(w)[k] = RoundedItem(w.list[k])
      BY DEF items
    <3> QED BY <2>6, <3>1, <3>2, <3>3
  <2>8. Len(v.list) = Len(w.list)
    <3>1. /\ DOMAIN v.list = 1..Len(v.list) /\ DOMAIN w.list = 1..Len(w.list)
          /\ Len(v.list) \in Nat /\ Len(w.list) \in Nat
      BY <2>5
    <3> QED BY <2>7, <3>1, SameLength
  <2>9. \A k \in DOMAIN v.list: CloseItems(v.list[k], w.list[k])
    <3>1. \A k \in DOMAIN v.list: v.list[k] \in Scalars /\ w.list[k] \in Scalars
      BY <2>5, <2>7
    <3> QED BY <2>7, <3>1, ItemsClose
  <2>10. w = [v EXCEPT !.list = w.list]
    <3>1. \A part \in DOMAIN v \ {"list"}: v[part] = w[part]
      <4> SUFFICES ASSUME NEW part \in DOMAIN v, part # "list" PROVE v[part] = w[part]
        OBVIOUS
      <4>1. /\ [v EXCEPT !.list = items(v)][part] = v[part]
            /\ [w EXCEPT !.list = items(w)][part] = w[part]
        BY <2>3
      <4> QED BY <2>3, <4>1
    <3>2. w = [part \in DOMAIN w |-> w[part]]
      BY <2>2, <2>4
    <3>3. [v EXCEPT !.list = w.list] = [part \in DOMAIN v |-> IF part = "list" THEN w.list ELSE v[part]]
      OBVIOUS
    <3> QED BY <2>3, <3>1, <3>2, <3>3
  <2> QED BY <1>5, <2>2, <2>8, <2>9, <2>10 DEF Near
<1>6. CASE ~Has(v, "dict") /\ ~Has(v, "list")
  <2>1. v \in Scalars /\ DOMAIN CanonicalFloats(w) \in {{"int"}, {"float"}, {"bool"}, {"text"}}
    BY <1>3, <1>6
  <2>2. ~Has(w, "dict") /\ ~Has(w, "list")
    BY <1>1, <1>2, <2>1
  <2>3. w \in Scalars /\ RoundedItem(v) = RoundedItem(w)
    BY <1>3, <1>6, <2>2
  <2> QED BY <2>1, <2>3, ItemsClose DEF Near
<1> QED BY <1>4, <1>5, <1>6

\* The requests so far hold values that JSON writes.
RequestsInv ==
  \A a \in requests:
    DOMAIN a \subseteq FieldNames /\ Writable(a) /\ \A n \in DOMAIN a: Kept(a[n])

LEMMA RequestsStep ==
  ASSUME SchemaInv, RequestsInv, RNext
  PROVE  RequestsInv'
<1>1. ASSUME NEW data \in Data, Request(data) PROVE RequestsInv'
  <2> DEFINE a == Validated(schema, data)
             present == {n \in DOMAIN schema: n \in DOMAIN data \/ schema[n].default # None}
             all == [n \in present |-> IF n \in DOMAIN data THEN Validate(schema[n], data[n])
                                                            ELSE schema[n].default]
  <2>1. /\ raised' = (a = Invalid \/ ~Writable(a))
        /\ requests' = IF raised' THEN requests ELSE requests \cup {a}
    BY <1>1 DEF Request
  <2>2. ASSUME a # Invalid, NEW n \in DOMAIN a PROVE n \in FieldNames /\ Kept(a[n])
    <3>1. a = all /\ \A m \in present: all[m] # Invalid
      BY <2>2 DEF Validated
    <3>2. n \in present /\ n \in FieldNames /\ schema[n] \in Fields[n]
      BY <2>2, <3>1 DEF SchemaInv
    <3>3. CASE n \in DOMAIN data
      <4>1. data[n] \in Given
        BY <3>3, GivenParts
      <4>2. a[n] = Validate(schema[n], data[n]) /\ a[n] # Invalid
        BY <3>1, <3>2, <3>3
      <4> HIDE DEF a
      <4>3. Validate(schema[n], data[n]) # Invalid
        BY <4>2
      <4>4. Kept(Validate(schema[n], data[n]))
        BY <3>2, <4>1, <4>3, KeptValues
      <4> QED BY <3>2, <4>2, <4>4
    <3>4. CASE n \notin DOMAIN data
      <4>1. a[n] = schema[n].default /\ schema[n].default # None
        BY <3>1, <3>2, <3>4
      <4>2. Kept(schema[n].default)
        BY <3>2, <4>1, KeptValues
      <4> HIDE DEF a
      <4> QED BY <3>2, <4>1, <4>2
    <3> QED BY <3>3, <3>4
  <2> HIDE DEF a
  <2>3. ASSUME NEW b \in requests'
        PROVE  DOMAIN b \subseteq FieldNames /\ Writable(b) /\ \A n \in DOMAIN b: Kept(b[n])
    BY <2>1, <2>2 DEF RequestsInv
  <2> QED BY <2>3 DEF RequestsInv
<1>2. requests' = requests => RequestsInv'
  BY DEF RequestsInv
<1> QED BY <1>1, <1>2 DEF RNext

\* A text is written as it is.
LEMMA TextWritten ==
  ASSUME NEW v, Kept(v), Has(v, "text")
  PROVE  ForHashing(v) = v /\ Str(v) = v.text /\ v = [text |-> v.text]
<1>1. v \in FieldValues
  BY DEF Kept
<1>2. v \in [text: STRING] /\ ~Has(v, "array") /\ ~Has(v, "magnitude") /\ v # None
  BY <1>1, Shapes DEF Parts
<1>3. ForHashing(v) = v
  BY <1>2 DEF ForHashing
<1>4. v = [text |-> v.text]
  BY <1>2
<1>5. Str(v) = v.text
  BY <1>2, PartOf, <1>1 DEF Str, Parts
<1> QED BY <1>3, <1>4, <1>5

\* Of inputs with the same squid id, none of them a text that can be mistaken,
\* those of one have the names of the other, and are written as they are.
LEMMA SquidSeparates ==
  ASSUME RequestsInv, NEW a \in requests, NEW b \in requests,
         SquidId(a) = SquidId(b), ~Mistakable(a), ~Mistakable(b),
         NEW n \in DOMAIN a
  PROVE  n \in DOMAIN b /\ ForHashing(a[n]) = ForHashing(b[n])
<1>1. ASSUME NEW c \in requests, ~Mistakable(c)
      PROVE  \A x: x \in ToSet(SquidId(c)) <=> \E m \in DOMAIN c: x = Written(c, m)
  <2>1. ASSUME NEW m \in DOMAIN c, Has(c[m], "text") PROVE Str(ForHashing(c[m])) \notin DOMAIN LinesOf
    <3>1. Kept(c[m])
      BY DEF RequestsInv
    <3>2. c[m].text \notin DOMAIN LinesOf
      BY <1>1, <2>1 DEF Mistakable
    <3> QED BY <2>1, <3>1, <3>2, TextWritten
  <2>2. DOMAIN c \subseteq FieldNames
    BY DEF RequestsInv
  <2> QED BY <2>1, <2>2, SquidLines
<1>2. PICK m \in DOMAIN b: Written(a, n) = Written(b, m)
  <2>1. \A x: x \in ToSet(SquidId(a)) <=> \E m \in DOMAIN a: x = Written(a, m)
    BY <1>1
  <2>2. \A x: x \in ToSet(SquidId(b)) <=> \E m \in DOMAIN b: x = Written(b, m)
    BY <1>1
  <2> QED BY <2>1, <2>2
<1>3. n \in DOMAIN b /\ Str(ForHashing(a[n])) = Str(ForHashing(b[n]))
  BY <1>2 DEF Written
<1>4. Kept(a[n]) /\ Kept(b[n]) /\ Jsonable(ForHashing(a[n])) /\ Jsonable(ForHashing(b[n]))
  BY <1>3 DEF RequestsInv, Writable
<1>5. Has(a[n], "text") <=> Has(b[n], "text")
  BY <1>3 DEF Mistakable
<1>6. CASE Has(a[n], "text")
  <2>1. Has(b[n], "text")
    BY <1>5, <1>6
  <2> QED BY <1>3, <1>4, <1>6, <2>1, TextWritten
<1>7. CASE ~Has(a[n], "text")
  <2>1. ~Has(ForHashing(a[n]), "text") /\ ~Has(ForHashing(b[n]), "text")
    BY <1>4, <1>5, <1>7, PlainForms
  <2>2. a[n] \in Storable /\ b[n] \in Storable
    BY <1>4 DEF Kept
  <2> QED BY <1>3, <1>4, <2>1, <2>2, RequestsAssumption
<1> QED BY <1>3, <1>6, <1>7

\* So the keys of requests tell them apart.
LEMMA RequestsImply == RequestsInv => KeysSeparate
<1> SUFFICES ASSUME RequestsInv, NEW a \in requests, NEW b \in requests
             PROVE  /\ CacheKey(a) = CacheKey(b) =>
                         /\ DOMAIN a = DOMAIN b
                         /\ \A n \in DOMAIN a: Near(ForHashing(a[n]), ForHashing(b[n]))
                    /\ SquidId(a) = SquidId(b) =>
                         \/ /\ DOMAIN a = DOMAIN b
                            /\ \A n \in DOMAIN a: ForHashing(a[n]) = ForHashing(b[n])
                         \/ Mistakable(a) \/ Mistakable(b)
  BY DEF KeysSeparate
<1>1. ASSUME CacheKey(a) = CacheKey(b)
      PROVE  DOMAIN a = DOMAIN b /\ \A n \in DOMAIN a: Near(ForHashing(a[n]), ForHashing(b[n]))
  <2>1. DOMAIN a = DOMAIN b
    BY <1>1 DEF CacheKey
  <2>2. ASSUME NEW n \in DOMAIN a PROVE Near(ForHashing(a[n]), ForHashing(b[n]))
    <3>1. CanonicalFloats(ForHashing(a[n])) = CanonicalFloats(ForHashing(b[n]))
      <4>1. CacheKey(a)[n] = CacheKey(b)[n]
        BY <1>1
      <4> QED BY <2>1, <4>1 DEF CacheKey
    <3>2. Kept(a[n]) /\ Kept(b[n]) /\ Jsonable(ForHashing(a[n])) /\ Jsonable(ForHashing(b[n]))
      BY <2>1 DEF RequestsInv, Writable
    <3>3. ForHashing(a[n]) \in Plains /\ ForHashing(b[n]) \in Plains
      BY <3>2, PlainForms
    <3> QED BY <3>1, <3>3, CanonicalClose
  <2> QED BY <2>1, <2>2
<1>2. ASSUME SquidId(a) = SquidId(b), ~Mistakable(a), ~Mistakable(b)
      PROVE  DOMAIN a = DOMAIN b /\ \A n \in DOMAIN a: ForHashing(a[n]) = ForHashing(b[n])
  <2>1. \A n \in DOMAIN a: n \in DOMAIN b /\ ForHashing(a[n]) = ForHashing(b[n])
    BY <1>2, SquidSeparates
  <2>2. \A n \in DOMAIN b: n \in DOMAIN a
    BY <1>2, SquidSeparates
  <2> QED BY <2>1, <2>2
<1> QED BY <1>1, <1>2

-----------------------------------------------------------------------------
(* All of them together.                                                    *)

ContentInv ==
  /\ TablesInv /\ SweepInv /\ WorkflowInv
  /\ IF subject = "schema" THEN SchemaInv /\ RequestsInv ELSE schema = <<>> /\ requests = {}

LEMMA ContentStart == Init => ContentInv
<1> SUFFICES ASSUME Init PROVE ContentInv
  OBVIOUS
<1>1. TablesInv /\ SweepInv
  <2>1. CASE subject = "tables"
    BY <2>1, TablesStart DEF Init
  <2>2. CASE subject # "tables"
    <3>1. rows = <<>> /\ now = 0 /\ sweep = NoSweep
      BY <2>2 DEF Init, NoTable
    <3> QED BY <3>1, EmptyTable
  <2> QED BY <2>1, <2>2
<1>2. WorkflowInv
  BY WorkflowStart DEF Init
<1>3. IF subject = "schema" THEN SchemaInv /\ RequestsInv ELSE schema = <<>> /\ requests = {}
  <2>1. RInit => RequestsInv
    BY DEF RInit, RequestsInv
  <2> QED BY <2>1, SchemaStart DEF Init, SchemaOfNoField
<1> QED BY <1>1, <1>2, <1>3 DEF ContentInv

LEMMA ContentStep == ContentInv /\ [Next]_vars => ContentInv'
<1> SUFFICES ASSUME ContentInv, [Next]_vars PROVE ContentInv'
  OBVIOUS
<1>1. QNext \/ UNCHANGED qvars
  BY DEF Next, vars, tables, qvars
<1>2. WNext \/ UNCHANGED wvars
  BY DEF Next, vars
<1>3. subject' = subject /\ ((subject = "schema" /\ RNext) \/ UNCHANGED schemas)
  BY DEF Next, vars
<1>4. UNCHANGED schemas => /\ schema' = schema /\ (SchemaInv => SchemaInv')
                           /\ requests' = requests /\ (RequestsInv => RequestsInv')
  BY DEF schemas, SchemaInv, RequestsInv
<1>5. (IF subject = "schema" THEN SchemaInv /\ RequestsInv ELSE schema = <<>> /\ requests = {})'
  BY <1>3, <1>4, SchemaStep, RequestsStep DEF ContentInv
<1> QED BY <1>1, <1>2, <1>5, TablesStep, SweepStep, WorkflowStep DEF ContentInv

LEMMA ContentInvariance == Spec => []ContentInv
<1> QED BY ContentStart, ContentStep, PTL DEF Spec

(* An answer shorter than the limit asked for has left out no row that was  *)
(* searched for, and a full one none that comes before a row it shows: for  *)
(* the searches of results and of simulations, the log of provenance and    *)
(* the statistics, on either database (search_results, search,              *)
(* get_provenance, get_parameter_stats, list_entries).  But a results       *)
(* search ends at the scan cap, a catalog search compares tags after its    *)
(* limit (a row they leave out has limit others before it), and the         *)
(* client's search is held to this for each status but "all".               *)
THEOREM AnswersAreComplete == Spec => []AnswersComplete
<1>1. ContentInv => AnswersComplete
  BY TablesImply DEF ContentInv
<1> QED BY <1>1, ContentInvariance, PTL

(* SQLite and PostgreSQL find the same: a search of results that either of  *)
(* them answers with less than its limit is answered with the same rows by  *)
(* the other, whether the filters are applied by the loop over the cursor   *)
(* or by search_results_by_params, unless it fails or there are more rows   *)
(* than the loop reads.                                                     *)
THEOREM BackendsAgree ==
  Spec => [](\A name \in Owners \cup {None}, limit \in Limits:
             \A f \in {g \in Filters: g # None => g.op # "other"}:
             \A a \in SearchSQLite(name, f, limit) \ {Failed},
                b \in SearchPostgreSQL(name, f, limit) \ {Failed}:
               /\ Cardinality(Named(name)) <= MaxScan
               /\ Cardinality(a) < limit \/ Cardinality(b) < limit
               => a = b)
<1>1. ContentInv =>
        \A name \in Owners \cup {None}, limit \in Limits:
        \A f \in {g \in Filters: g # None => g.op # "other"}:
        \A a \in SearchSQLite(name, f, limit) \ {Failed},
           b \in SearchPostgreSQL(name, f, limit) \ {Failed}:
          /\ Cardinality(Named(name)) <= MaxScan
          /\ Cardinality(a) < limit \/ Cardinality(b) < limit
          => a = b
  <2> SUFFICES ASSUME TablesInv, NEW name \in Owners \cup {None}, NEW limit \in Limits,
                      NEW f \in {g \in Filters: g # None => g.op # "other"},
                      NEW a \in SearchSQLite(name, f, limit) \ {Failed},
                      NEW b \in SearchPostgreSQL(name, f, limit) \ {Failed},
                      Cardinality(Named(name)) <= MaxScan,
                      Cardinality(a) < limit \/ Cardinality(b) < limit
               PROVE  a = b
    BY DEF ContentInv
  <2> DEFINE wanted == {r \in Named(name): Satisfies(r.value, f)}
  <2>1. limit \in Nat /\ MaxScan \in Nat
    BY QueriesAssumption
  <2>2. /\ IsFiniteSet(wanted) /\ Cardinality(Named(name)) \in Nat
        /\ Complete(a, wanted, {}, IF Cardinality(Named(name)) > MaxScan THEN 0 ELSE limit)
        /\ Complete(b, wanted, {}, limit)
    BY SearchesAreComplete
  <2> HIDE DEF wanted
  <2>3. Complete(a, wanted, {}, limit)
    BY <2>1, <2>2
  <2> QED BY <2>1, <2>2, <2>3, ShortAnswersAgree
<1> QED BY <1>1, ContentInvariance, PTL

(* A client that reads list_entries page by page, until its pages cover the *)
(* total it was last told, has seen every entry that was there when it      *)
(* began and that nobody touched, but for as many as joined the list        *)
(* between that total and its page: if no entry left the list it reads, and *)
(* with a status, or on PostgreSQL, if no two rows had one time.            *)
THEOREM SweepsFindAll == Spec => []SweepFindsUntouched
<1>1. ContentInv => SweepFindsUntouched
  BY SweepImplies DEF ContentInv
<1> QED BY <1>1, ContentInvariance, PTL

(* What runs for a simulation (_simulation_from_catalog_record, load) is    *)
(* what was last sent or deployed for it (register_simulation,              *)
(* update_simulation, deploy, sync_local_simulations).                      *)
THEOREM SentIsRun == Spec => []RunsWhatWasSent
<1>1. ContentInv => RunsWhatWasSent
  BY WorkflowImplies DEF ContentInv
<1> QED BY <1>1, ContentInvariance, PTL

(* The schema loaded from its stored form (Schema.to_dict, from_dict) judges *)
(* every value a caller gives as the schema did, and reads what it has       *)
(* written (serialize, deserialize) as the value it was, but for numbers of  *)
(* fields without units, which are read as floats.  A quantity in an offset  *)
(* unit, an image of a mode PNG has not, and an element that is a choice by  *)
(* its name only are not read back: writing or reading them raises.          *)
THEOREM FieldsReadBack == Spec => []ReadBack
<1>1. ContentInv => ReadBack
  <2>1. CASE subject = "schema"
    BY <2>1, SchemaImplies DEF ContentInv
  <2>2. CASE subject # "schema"
    BY <2>2 DEF ContentInv, ReadBack
  <2> QED BY <2>1, <2>2
<1> QED BY <1>1, ContentInvariance, PTL

(* set_values and the assignment of a field, when they raise, have assigned  *)
(* nothing, in a schema whose fields take their own defaults and whose       *)
(* choices of elements, if they are names, hold the symbols too: there, what *)
(* validate returned is not refused when it is assigned and validated again. *)
THEOREM SettingIsAllOrNothing == Spec => SetAllOrNothing
<1>1. ContentInv /\ [Next]_vars =>
        [raised' /\ (\A n \in FieldNames: Steady(schema[n])) => UNCHANGED values]_svars
  <2> SUFFICES ASSUME ContentInv, [Next]_vars
               PROVE  \/ raised' /\ (\A n \in FieldNames: Steady(schema[n])) => UNCHANGED values
                      \/ UNCHANGED svars
    OBVIOUS
  <2>1. CASE subject = "schema" /\ RNext
    BY <2>1, SchemaStep DEF ContentInv
  <2>2. CASE UNCHANGED schemas
    BY <2>2 DEF schemas, svars
  <2>3. (subject = "schema" /\ RNext) \/ UNCHANGED schemas
    BY DEF Next, vars
  <2> QED BY <2>1, <2>2, <2>3
<1> QED BY <1>1, ContentInvariance, PTL DEF Spec, SetAllOrNothing

(* Two requests under one cache key (compute_cache_key) have the same inputs  *)
(* up to the rounding of floats; two under one squid id (compute_squid_id)    *)
(* the same inputs, unless one of them holds a text where its field takes     *)
(* none, or none where it takes texts, or a text with a line break.           *)
THEOREM KeysAreSeparate == Spec => []KeysSeparate
<1>1. ContentInv => KeysSeparate
  <2>1. requests = {} => RequestsInv
    BY DEF RequestsInv
  <2> QED BY <2>1, RequestsImply DEF ContentInv
<1> QED BY <1>1, ContentInvariance, PTL
=============================================================================
