------------------------------- MODULE Queries -------------------------------
(***************************************************************************)
(* What the three services read out of their tables: searches of results   *)
(* and of simulations, the list of cache entries page by page, the log of  *)
(* provenance, and the statistics.                                         *)
(*                                                                         *)
(* A behaviour grows one table.  A search changes nothing, so it is an     *)
(* operator on the table: the set of answers the service may give.  SQLite *)
(* sorts rows of one time by rowid, in the direction its plan reads them;  *)
(* PostgreSQL promises no order for them.  A sweep through the pages does  *)
(* have a state: rows come and go between two of its pages.                *)
(***************************************************************************)
EXTENDS Integers, FiniteSets, Sequences, SequencesExt, NoValue

CONSTANTS Ids,
          Owners,             \* the simulations or sessions the rows are of
          Numbers, Text,      \* values of a parameter: numbers, and another
          Words, Short,       \* words of a query: long ones, and one letter
          Tags,               \* sets of words a simulation is tagged with
          Kinds, Backends,
          QueryTexts,         \* the texts searched for: sequences of words
          Limits,             \* the limits asked for
          PageSizes,          \* the page sizes of the web interface
          MaxPageSize,        \* MAX_PAGE_SIZE
          MaxScan,            \* _SEARCH_MAX_SCAN
          MaxAnswer,          \* the greatest limit of a read of provenance
          MaxEntries,         \* the greatest number of entries recorded at once
          MaxTime,            \* bound on the clock
          Failed

VARIABLES kind,     \* the table this behaviour is about
          backend,
          rows,     \* in the order of their rowids
          now,      \* the clock, in the unit of created_at
          sweep     \* a client reading the list of entries page by page
qvars == <<kind, backend, rows, now, sweep>>

Values == Numbers \cup {Text, None}      \* None: the parameter is absent

Comparisons == [op: {"$gt", "$lte", "$eq", "other"}, target: Numbers]

\* The columns the queries of each table look at.  Simulations are versions of
\* one name; the text of their tags is searched with the rest.
Columns(k) ==
  CASE k = "results" ->
         [name: Owners, status: {"completed"}, value: Values, words: {{}}, tags: {{}}]
    [] k = "simulations" ->
         {c \in [name: {None}, status: {"active", "deprecated"}, value: {None},
                 words: SUBSET Words, tags: Tags]: c.tags \subseteq c.words}
    [] OTHER ->
         [name: {None}, status: {"valid"}, value: {None}, words: {{}}, tags: {{}}]

ASSUME QueriesAssumption ==
  /\ Numbers \subseteq Int /\ Text \notin Numbers /\ None \notin Numbers
  /\ None \notin Owners /\ None \notin Comparisons
  /\ Limits \subseteq Nat /\ {MaxScan, MaxAnswer, MaxEntries} \subseteq Nat
  /\ MaxPageSize \in Nat /\ PageSizes \subseteq 1..MaxPageSize

\* total: what was counted for the page to be read, and joined: how many more
\* entries were listed when the last page was read.
NoSweep == [size |-> 0, status |-> None, page |-> 0, counted |-> FALSE, total |-> 0,
            joined |-> 0, found |-> {}, untouched |-> {}, deleted |-> FALSE,
            tied |-> FALSE, done |-> FALSE]

QInit == /\ kind \in Kinds /\ backend \in Backends
         /\ rows = <<>> /\ now = 1
         /\ sweep = NoSweep

Stored == ToSet(rows)
Pos(row) == CHOOSE k \in DOMAIN rows: rows[k] = row

-----------------------------------------------------------------------------
(* Order and limit. *)

\* ORDER BY the number of the query's words in a row, then created_at DESC.
Newer(tokens, a, b) ==
  LET rank(r) == Cardinality(tokens \cap r.words)
  IN  rank(a) > rank(b) \/ (rank(a) = rank(b) /\ a.time > b.time)

\* Mutant: ORDER BY ... created_at, without DESC.
Older(tokens, a, b) ==
  LET rank(r) == Cardinality(tokens \cap r.words)
  IN  rank(a) > rank(b) \/ (rank(a) = rank(b) /\ a.time < b.time)

Before(tokens, a, b) == Newer(tokens, a, b)

\* ties: the direction in which SQLite's plan reads rows of one time.
Precedes(tokens, a, b, ties) ==
  \/ Before(tokens, a, b)
  \/ /\ backend = "sqlite" /\ ~Before(tokens, b, a)
     /\ IF ties = "newest" THEN Pos(a) > Pos(b) ELSE Pos(a) < Pos(b)

\* LIMIT: the sets of the first n of some rows, and OFFSET, of the n after.
Tops(tokens, some, n, ties) ==
  {top \in kSubset(Min({n, Cardinality(some)}), some):
     \A a \in top, o \in some \ top: ~Precedes(tokens, o, a, ties)}
Pages(some, n, offset, ties) ==
  {page \ skipped: page \in Tops({}, some, offset + n, ties),
                   skipped \in Tops({}, some, offset, ties)}

-----------------------------------------------------------------------------
(* Searches of results: a filter compares the parameter with a number. *)

Filters == Comparisons \cup {None}

\* A number and a text are not comparable.
Raises(v, f) == f # None /\ f.op \in {"$gt", "$lte"} /\ v = Text

\* _matches_filter: an unknown operator is ignored.
MatchesFilter(v, f) ==
  \/ f = None
  \/ f.op = "$gt" /\ v \in Numbers /\ v > f.target
  \/ f.op = "$lte" /\ v \in Numbers /\ v <= f.target
  \/ f.op = "$eq" /\ v = f.target
  \/ f.op = "other"

\* matches_jsonb_filter: an absent parameter never matches.
MatchesJsonbFilter(v, f) == f = None \/ (v # None /\ MatchesFilter(v, f))

\* Mutant: the limit is applied in SQL, before the filters.
ScanOfLimited(named, f, limit) ==
  LET top == CHOOSE some \in Tops({}, named, Min({limit, MaxScan}), "oldest"): TRUE
  IN  {r \in top: MatchesFilter(r.value, f)}

\* The loop over the cursor: it ends at the scan cap, or when a row is added
\* and limit rows are in the list.  A row it does not read raises nothing.
Scan(named, f, limit) ==
  LET hits == {r \in named: MatchesFilter(r.value, f)}
      ahead(some, r) == Cardinality({o \in some: Precedes({}, o, r, "oldest")})
      read == {r \in named: ahead(named, r) < MaxScan /\ ahead(hits, r) < Max({limit, 1})}
  IN  IF \E r \in read: Raises(r.value, f) THEN Failed ELSE hits \cap read

\* The rows the columns of a search leave: name \in Owners \cup {None}.
Named(name) == {r \in Stored: name \in {None, r.name}}

\* Without filters the LIMIT is the statement's, below the scan cap.
SearchSQLite(name, f, limit) ==
  IF f = None THEN Tops({}, Named(name), Min({limit, MaxScan}), "oldest")
  ELSE {Scan(Named(name), f, limit)}

\* search_results_by_params casts every parameter it compares.
SearchPostgreSQL(name, f, limit) ==
  IF \E r \in Named(name): Raises(r.value, f) THEN {Failed}
  ELSE Tops({}, {r \in Named(name): MatchesJsonbFilter(r.value, f)}, limit, None)

\* search_results: the answers the service may give.
SearchResults(name, f, limit) ==
  IF backend = "sqlite" THEN SearchSQLite(name, f, limit) ELSE SearchPostgreSQL(name, f, limit)

\* get_parameter_stats: over the rows whose parameter is a number.
ParameterStats(name) ==
  LET values == {r \in Stored: r.name = name /\ r.value \in Numbers}
  IN  [count |-> Cardinality(values),
       min |-> IF values = {} THEN None ELSE Min({r.value: r \in values}),
       max |-> IF values = {} THEN None ELSE Max({r.value: r \in values})]

-----------------------------------------------------------------------------
(* Searches of the catalog. *)

\* _search_tokens: the distinct words of more than one letter.
SearchTokens(text) == ToSet(text) \ {Short}

\* _keyword_search_sql: a row qualifies by any of the words.
Recalled(tokens) == {r \in Stored: tokens = {} \/ tokens \cap r.words # {}}

Found(tokens, status) == {r \in Recalled(tokens): status \in {"all", r.status}}

Tagged(some, tags) == {r \in some: tags = {} \/ tags \cap r.tags # {}}

\* search: the tags are compared after the LIMIT.  With nothing to look for
\* SQLite reads the index on created_at backwards.
SearchSimulations(text, tags, status, limit) ==
  LET tokens == SearchTokens(text)
      ties == IF tokens = {} /\ status = "all" THEN "newest" ELSE "oldest"
  IN  {Tagged(top, tags): top \in Tops(tokens, Found(tokens, status), limit, ties)}

\* CatalogClient.search: to ask for "all" it sends no status, and the route
\* then takes "active".
ClientSearch(text, tags, status, limit) ==
  SearchSimulations(text, tags, IF status = "all" THEN "active" ELSE status, limit)

\* get_simulation without a version.
Latest == Tops({}, Stored, 1, "oldest")

OverviewStats == [total_simulations |-> Cardinality(Stored),
                  active_simulations |-> Cardinality({r \in Stored: r.status = "active"})]

-----------------------------------------------------------------------------
(* The list of cache entries, and the log of provenance. *)

Listed(status) == {r \in Stored: status \in {None, r.status}}

\* The second statement of list_entries: without a status SQLite reads the index
\* on created_at backwards; with one it sorts what the index on status finds.
ListEntries(limit, offset, status) ==
  Pages(Listed(status), Min({limit, MaxPageSize}), offset,
        IF status = None THEN "newest" ELSE "oldest")

CacheStats == [total_entries |-> Cardinality(Listed("valid"))]

\* get_provenance, and the limits its route lets through.
GetProvenance(session, limit) ==
  LET log == {r \in Stored: r.name = session}
  IN  {r \in log: Cardinality({o \in log: Pos(o) < Pos(r)}) < Max({1, Min({limit, MaxAnswer})})}

-----------------------------------------------------------------------------
(* The table changes. *)

Row(id, c, t) == [id |-> id, name |-> c.name, status |-> c.status, value |-> c.value,
                  words |-> c.words, tags |-> c.tags, time |-> t]

\* A new row takes the time of its transaction: on PostgreSQL that may have
\* begun some time ago.
InsertTimes == IF backend = "sqlite" THEN {now} ELSE 1..now

\* register_result, register_simulation, set: a new row.
Insert(id, c, t) ==
  /\ kind # "provenance" /\ t \in InsertTimes /\ c \in Columns(kind)
  /\ \A r \in Stored: r.id # id
  /\ rows' = Append(rows, Row(id, c, t))
  /\ UNCHANGED <<kind, backend, now, sweep>>

\* The same of a row that exists: its time stays, except that SQLite's cache
\* replaces the whole row.
Rewrite(k, c) ==
  /\ kind # "provenance" /\ k \in DOMAIN rows /\ c \in Columns(kind)
  /\ rows[k].name = c.name
  /\ rows' = IF kind = "entries" /\ backend = "sqlite"
             THEN Append(RemoveAt(rows, k), Row(rows[k].id, c, now))
             ELSE [rows EXCEPT ![k] = Row(rows[k].id, c, rows[k].time)]
  /\ sweep' = [sweep EXCEPT !.untouched = @ \ {rows[k].id}]
  /\ UNCHANGED <<kind, backend, now>>

\* invalidate: the entry leaves the list of the valid ones.
Invalidate(k) ==
  /\ kind = "entries" /\ k \in DOMAIN rows /\ rows[k].status = "valid"
  /\ rows' = [rows EXCEPT ![k].status = "invalidated"]
  /\ sweep' = [sweep EXCEPT !.untouched = @ \ {rows[k].id},
                            !.deleted = @ \/ (sweep.size > 0 /\ sweep.status = "valid")]
  /\ UNCHANGED <<kind, backend, now>>

Delete(k) ==
  /\ kind # "provenance" /\ k \in DOMAIN rows
  /\ rows' = RemoveAt(rows, k)
  /\ sweep' = [sweep EXCEPT !.untouched = @ \ {rows[k].id},
                            !.deleted = sweep.size > 0]
  /\ UNCHANGED <<kind, backend, now>>

\* record_provenance: of the entries sent those that are objects, with these
\* ids, are stored; the others are skipped.
RecordProvenance(session, ids) ==
  /\ kind = "provenance"
  /\ \A r \in Stored: r.id \notin ToSet(ids)
  /\ LET entry(id) == [id |-> id, name |-> session, status |-> "valid", value |-> None,
                       words |-> {}, tags |-> {}, time |-> now]
     IN  rows' = rows \o [k \in 1..Len(ids) |-> entry(ids[k])]
  /\ UNCHANGED <<kind, backend, now, sweep>>

Tick == /\ now < MaxTime
        /\ now' = now + 1
        /\ UNCHANGED <<kind, backend, rows, sweep>>

-----------------------------------------------------------------------------
(* A sweep: the web interface shows the pages of the list one after the      *)
(* other.  Each call answers with a total, of a statement before that of the *)
(* page; there is no next page when the pages shown cover the total.         *)

StartSweep(size, status) ==
  /\ kind = "entries" /\ sweep = NoSweep
  /\ sweep' = [NoSweep EXCEPT !.size = size, !.status = status,
                              !.untouched = {r.id: r \in Listed(status)}]
  /\ UNCHANGED <<kind, backend, rows, now>>

\* SELECT COUNT( * ).
CountEntries ==
  /\ sweep.size > 0 /\ ~sweep.done /\ ~sweep.counted
  /\ sweep' = [sweep EXCEPT !.counted = TRUE, !.total = Cardinality(Listed(sweep.status))]
  /\ UNCHANGED <<kind, backend, rows, now>>

\* SELECT ... LIMIT ... OFFSET, and the answer is shown.
ReadPage ==
  /\ sweep.counted
  /\ \E page \in ListEntries(sweep.size, sweep.page * sweep.size, sweep.status):
       sweep' = [sweep EXCEPT !.page = @ + 1,
                              !.counted = FALSE,
                              !.joined = Max({0, Cardinality(Listed(sweep.status)) - sweep.total}),
                              !.found = @ \cup {r.id: r \in page},
                              !.tied = @ \/ \E a, b \in Stored: a # b /\ a.time = b.time,
                              !.done = (sweep.page + 1) * sweep.size >= sweep.total]
  /\ UNCHANGED <<kind, backend, rows, now>>

QNext == \/ \E id \in Ids, t \in 1..MaxTime: \E c \in Columns(kind): Insert(id, c, t)
         \/ \E k \in DOMAIN rows: \E c \in Columns(kind): Rewrite(k, c)
         \/ \E k \in DOMAIN rows: Invalidate(k) \/ Delete(k)
         \/ \E session \in Owners, n \in 0..MaxEntries:
              \E ids \in [1..n -> Ids]: IsInjective(ids) /\ RecordProvenance(session, ids)
         \/ Tick
         \/ \E size \in PageSizes, status \in {None, "valid"}: StartSweep(size, status)
         \/ CountEntries
         \/ ReadPage

-----------------------------------------------------------------------------
(* What an answer promises. *)

\* What a filter says, of the operators it may name.
Satisfies(v, f) == f = None \/ CASE f.op = "$gt" -> v \in Numbers /\ v > f.target
                                  [] f.op = "$lte" -> v \in Numbers /\ v <= f.target
                                  [] f.op = "$eq" -> v = f.target

\* Of the rows wanted an answer omits none while it is short of its limit, and
\* none that comes before a row it holds.
Complete(answer, wanted, tokens, limit) ==
  LET omitted == wanted \ answer
  IN  /\ answer \subseteq wanted
      /\ omitted # {} => Cardinality(answer) >= limit
      /\ \A o \in omitted, a \in answer: ~Newer(tokens, o, a)

ResultsComplete ==
  \A name \in Owners \cup {None}, limit \in Limits:
    \A f \in {g \in Filters: g # None => g.op # "other"}:
      LET named == {r \in Stored: name \in {None, r.name}}
      IN  \A answer \in SearchResults(name, f, limit) \ {Failed}:
            Complete(answer, {r \in named: Satisfies(r.value, f)}, {},
                     IF Cardinality(named) > MaxScan THEN 0 ELSE limit)

\* With tags: a row left out is not among the first limit rows that qualify.
CompleteButTags(answer, text, tags, status, limit) ==
  LET words == {text[k]: k \in DOMAIN text} \ {Short}
      qualify == {r \in Stored: /\ status \in {"all", r.status}
                                /\ words # {} => \E w \in words: w \in r.words}
      wanted == {r \in qualify: tags # {} => \E w \in tags: w \in r.tags}
  IN  /\ Complete(answer, wanted, words, IF tags = {} THEN limit ELSE 0)
      /\ \A o \in wanted \ answer:
           Cardinality({r \in qualify \ {o}: ~Newer(words, o, r)}) >= limit

CatalogComplete ==
  /\ \A text \in QueryTexts, tags \in Tags, status \in {"active", "all"}, limit \in Limits:
       \A answer \in SearchSimulations(text, tags, status, limit)
                    \cup IF status = "all" THEN {} ELSE ClientSearch(text, tags, status, limit):
         CompleteButTags(answer, text, tags, status, limit)
  /\ \A answer \in Latest: Complete(answer, Stored, {}, 1)

ProvenanceComplete ==
  \A session \in Owners, limit \in Limits:
    LET answer == GetProvenance(session, limit)
        omitted == {r \in Stored: r.name = session} \ answer
    IN  /\ omitted # {} => Cardinality(answer) >= Min({limit, MaxAnswer})
        /\ \A o \in omitted, a \in answer: Pos(a) < Pos(o)

\* The statistics count the rows the searches find.
StatsAgree ==
  LET all == Len(rows)
      counts(answers, n) == \A answer \in answers \ {Failed}: Cardinality(answer) = n
  IN  /\ \A name \in Owners:
           LET stats == ParameterStats(name)
           IN  stats.count > 0 /\ all <= MaxScan =>
                 counts(SearchResults(name, [op |-> "$lte", target |-> stats.max], all), stats.count)
      /\ counts(SearchSimulations(<<>>, {}, "active", all), OverviewStats.active_simulations)
      /\ all <= MaxPageSize => counts(ListEntries(all, 0, "valid"), CacheStats.total_entries)

(* An answer shorter than the limit asked for has left out no row that was   *)
(* searched for, and a full one none that comes before a row it shows: the   *)
(* filters of a results search are applied before its limit, the words of a  *)
(* catalog search count once each, the oldest provenance comes first, and    *)
(* the statistics count what the searches find.  Two exceptions are in the   *)
(* code: a results search reads no more than the scan cap, and a catalog     *)
(* search compares the tags after its limit, so it may leave out a tagged    *)
(* row that limit others, tagged or not, come before.  The client's search   *)
(* is held to this for every status but "all", which it does not send.       *)
AnswersComplete ==
  /\ kind = "results" => ResultsComplete
  /\ kind = "simulations" => CatalogComplete
  /\ kind = "provenance" => ProvenanceComplete
  /\ kind \in {"results", "simulations", "entries"} => StatsAgree

(* A client that reads the list of cache entries page by page, until its     *)
(* pages cover the total it was last told, has seen every entry that was     *)
(* there when it began and that nobody touched, but for as many as joined    *)
(* the list between the total and the page of the last call: whatever was    *)
(* stored or replaced before, new rows come before the rows still to read.   *)
(* Not if an entry was deleted meanwhile (or left the list the client        *)
(* reads); and with a status, or on PostgreSQL, not if two rows had one      *)
(* time: then rows may move between pages.                                   *)
SweepFindsUntouched ==
  sweep.done /\ ~sweep.deleted /\ ((backend = "sqlite" /\ sweep.status = None) \/ ~sweep.tied)
    => Cardinality(sweep.untouched \ sweep.found) <= sweep.joined
=============================================================================
