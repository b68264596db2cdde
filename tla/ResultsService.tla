--------------------------- MODULE ResultsService ---------------------------
(***************************************************************************)
(* The results service (services/results_service.py): executions, the      *)
(* schema inferred for their simulation, and the errors of registrations,  *)
(* on SQLite or PostgreSQL.  A registration is a read of the schema, a     *)
(* write of the merged schema and a write of the result, each a            *)
(* transaction of its own, in one of several handler threads.  Each thread *)
(* keeps its connection from request to request, with whatever transaction *)
(* the last request left on it.                                            *)
(*                                                                         *)
(* One simulation version: others share neither its schema nor its rows.   *)
(* Params are its output parameters; inputs go through the same merge.     *)
(***************************************************************************)
EXTENDS Naturals, FiniteSets

CONSTANTS Execs, Threads, Params, Types,
          Inputs,       \* input sets; one squid id for each
          InputOf,      \* what each execution was run on
          Backends,     \* those a service may be started with
          Routes,       \* the registration routes in use
          Loads,        \* what clients may register, see below
          Blank,        \* the empty string a client sends for no squid id
          None

ASSUME KnownBackends == Backends \subseteq {"sqlite", "postgresql"}
ASSUME SomeInputs == InputOf \in [Execs -> Inputs]
ASSUME Outsiders == Blank \notin Inputs /\ None \notin Inputs /\ None \notin Types

VARIABLES backend,      \* the one this service was started with
          load,         \* the executions its clients register, and the flaws of their values
          schema, rows, errors,
          conn,         \* the state of each thread's connection
          req,          \* the registration each thread is carrying out
          refused       \* has a request ended with its last write refused?
data == <<schema, rows, errors>>
vars == <<backend, load, data, conn, req, refused>>

Shapes == [Params -> Types \cup {None}]
Empty == [p \in Params |-> None]
Given(d) == {p \in Params: d[p] # None}
ASSUME NoShape == None \notin Shapes

(* The statements that refuse the values of a request.  A null name or version
   passes the check for missing fields and then a NOT NULL column refuses it, the
   name's in the table of errors too; a list, a dict or too large an integer
   cannot be bound, from the read of the schema on; parameters that are no dict
   fail before it; any other value meets the INSERT of the result first.  "entry"
   stands for an entry of provenance with a value that cannot be bound. *)
Flaws == {{}, {"result"}, {"schema"}, {"schema", "error"},
          {"read"}, {"read", "error"}, {"result", "error"}, {"entry"}}
ASSUME KnownLoads == Loads \subseteq [execs: SUBSET Execs, flaws: SUBSET Flaws]
DirectFlaws == load.flaws \ {{"entry"}}

\* /register takes name and version from the run: those of the body are for the
\* error only.
RunFlaws == {f \cap {"result", "error"}: f \in DirectFlaws}

Rows == [squid: Inputs \cup {None}, by: Execs]   \* by: whose outputs
Reqs == [route: {"/register", "/register_direct"}, exec: Execs,
         squid: Inputs \cup {Blank}, delta: Shapes, seen: Shapes \cup {None},
         flaw: SUBSET {"schema", "result", "error"},
         step: {"schema", "result", "error"}]

ASSUME NoRequest == None \notin Reqs

\* A SQLite connection is outside any transaction ("idle"), or in one that holds
\* the write lock ("open"), has read nothing yet ("begun"), holds the latest
\* snapshot ("reading") or one that others have committed after ("stale").
\* PostgreSQL's is in order ("idle") or refuses statements ("aborted").
Conns == {"idle", "open", "begun", "reading", "stale", "aborted"}

TypeOK == /\ backend \in Backends
          /\ load \in Loads
          /\ schema \in Shapes \cup {None}
          /\ rows \in [Execs -> Rows \cup {None}]
          /\ errors \in SUBSET Execs
          /\ conn \in [Threads -> Conns]
          /\ req \in [Threads -> Reqs \cup {None}]
          /\ refused \in BOOLEAN

Init == /\ backend \in Backends
        /\ load \in Loads
        /\ schema = None
        /\ rows = [e \in Execs |-> None]
        /\ errors = {}
        /\ conn = [t \in Threads |-> "idle"]
        /\ req = [t \in Threads |-> None]
        /\ refused = FALSE

-----------------------------------------------------------------------------
(* Connections. *)

\* No statement is carried out in a failed transaction of PostgreSQL, no write
\* in one of SQLite whose snapshot is out of date.
Usable(t) == conn[t] \notin {"aborted", "stale"}

\* SQLite has one writer.
Writable(t) == Usable(t) /\ \A u \in Threads \ {t}: conn[u] # "open"

(* "database is locked": at once with a snapshot, or after the 5 s of the
   busy timeout.  A thread that holds the lock in the middle of a request is
   taken to end it sooner than that. *)
Locked(t) == /\ backend = "sqlite"
             /\ \/ conn[t] = "stale"
                \/ \E u \in Threads \ {t}: /\ conn[u] = "open"
                                           /\ req[u] = None \/ conn[t] = "reading"

\* sqlite3 begins a transaction before it binds or carries out a write.
Begun(t) == IF conn[t] = "idle" THEN "begun" ELSE conn[t]

\* A SELECT in a transaction takes the snapshot of the moment.
AfterRead(t) == IF conn[t] = "begun" THEN "reading" ELSE conn[t]

(* What a statement that refuses its values leaves, nothing being rolled back:
   a constraint is met with the lock in hand, a value that cannot be bound (by
   psycopg2, as a rule, before anything is sent) without. *)
AfterRefusal(t) ==
  IF backend = "sqlite" THEN {Begun(t)} \cup {c \in {"open"}: Writable(t)}
  ELSE {"aborted", conn[t]}

\* The same of a column that may not be null.
AfterConstraint == IF backend = "sqlite" THEN "open" ELSE "aborted"

Committed(t) == [u \in Threads |-> IF u = t THEN "idle"
                                   ELSE IF conn[u] = "reading" THEN "stale" ELSE conn[u]]

-----------------------------------------------------------------------------
(* Registration. *)

\* Mutant: the types of the last call win.
LastWins(seen, delta) ==
  IF seen = None THEN delta
  ELSE [p \in Params |-> IF delta[p] # None THEN delta[p] ELSE seen[p]]

Merged(seen, delta) ==
  IF seen = None THEN delta
  ELSE [p \in Params |-> IF seen[p] # None THEN seen[p] ELSE delta[p]]

\* Mutant: a simulation without a schema is taken for one without changes.
NoInsert(seen, merged) == seen # None /\ merged # seen

SchemaChanged(seen, merged) == merged # seen

\* A request keeps what its later steps need.
Begin(t, route, e, s, flaw, step, d, seen) ==
  /\ req[t] = None /\ route \in Routes
  /\ req' = [req EXCEPT ![t] =
       [route |-> route, exec |-> e, squid |-> s, step |-> step,
        flaw |-> IF step = "error" THEN flaw \cap {"error"} ELSE flaw,
        delta |-> IF step = "schema" THEN d ELSE Empty,
        seen |-> IF step = "schema" THEN seen ELSE None]]
  /\ UNCHANGED <<data, refused>>

(* POST /register_direct, with the squid id of the inputs or without one: infer
   the types, read the schema and merge.  A null name or version has none. *)
RegisterDirect(t) ==
  \E e \in load.execs, d \in Shapes, flaw \in DirectFlaws: \E s \in {Blank, InputOf[e]}:
    IF "read" \in flaw \/ conn[t] = "aborted"
    THEN /\ Begin(t, "/register_direct", e, s, flaw \ {"read"}, "error", d, None)
         /\ conn' \in {conn} \cup {[conn EXCEPT ![t] = "aborted"]:
                                   b \in {"postgresql"} \cap {backend}}
    ELSE /\ IF "schema" \in flaw
            THEN Begin(t, "/register_direct", e, s, flaw, "schema", Empty, None)
            ELSE Begin(t, "/register_direct", e, s, flaw,
                       IF SchemaChanged(schema, Merged(schema, d))
                       THEN "schema" ELSE "result", d, schema)
         /\ conn' = [conn EXCEPT ![t] = AfterRead(t)]

(* POST /register, as its client calls it: introspect_run takes the dict of
   inputs, and that of outputs, for a list of dicts and raises at the first name
   of a run that has one.  What it makes of a run without any has no key that
   the merge reads. *)
Register(t) ==
  /\ \E e \in load.execs, d \in Shapes, flaw \in RunFlaws:
       LET step == IF Given(d) # {} THEN "error" ELSE "schema"
       IN Begin(t, "/register", e, Blank, flaw, step, Empty, None)
  /\ UNCHANGED conn

(* register_schema: overwrites the row with what was merged, and commits. *)
WriteSchema(t) ==
  /\ req[t] # None /\ req[t].step = "schema" /\ Writable(t)
  /\ "schema" \notin req[t].flaw
  /\ schema' = IF req[t].route = "/register" THEN Empty
               ELSE Merged(req[t].seen, req[t].delta)
  /\ req' = [req EXCEPT ![t].step = "result",
                          ![t].delta = Empty, ![t].seen = None]
  /\ conn' = Committed(t)
  /\ UNCHANGED <<rows, errors, refused>>

\* The except clause: what the error needs is kept.
Fail(t) ==
  /\ req' = [req EXCEPT ![t].step = "error", ![t].delta = Empty, ![t].seen = None,
                          ![t].flaw = @ \cap {"error"}]
  /\ UNCHANGED <<data, refused>>

(* register_schema raises: a column that may not be null, or PostgreSQL's
   connection. *)
SchemaRefused(t) ==
  /\ req[t] # None /\ req[t].step = "schema"
  /\ \/ /\ "schema" \in req[t].flaw /\ Writable(t)
        /\ conn' = [conn EXCEPT ![t] = AfterConstraint]
     \/ conn[t] = "aborted" /\ UNCHANGED conn
  /\ Fail(t)

\* Mutant: an empty squid id is stored as one.
EmptyKept(s) == s

NormalizedSquid(s) == IF s = Blank THEN None ELSE s

\* Mutant: the row is looked for by its execution id only.
TargetByExec(e, s) == {x \in {e}: rows[x] # None}

\* The row an INSERT of execution e with squid id s would duplicate on the
\* column its ON CONFLICT names: SQLite names squid_id whenever there is one.
Target(e, s) ==
  IF backend = "sqlite" /\ s # None
  THEN {x \in Execs: rows[x] # None /\ rows[x].squid = s}
  ELSE {x \in {e}: rows[x] # None}

\* The unique index on execution_id, which the ON CONFLICT may not name.
Duplicate(e, s) == rows[e] # None /\ Target(e, s) = {}

(* register_result: inserts the row, or updates the outputs of the row in the
   way, and commits.  An update leaves the row's ids and inputs alone. *)
WriteResult(t) ==
  /\ req[t] # None /\ req[t].step = "result" /\ Writable(t)
  /\ "result" \notin req[t].flaw
  /\ LET e == req[t].exec
         s == NormalizedSquid(req[t].squid)
     IN /\ ~Duplicate(e, s)
        /\ rows' = IF Target(e, s) = {}
                   THEN [rows EXCEPT ![e] = [squid |-> s, by |-> e]]
                   ELSE [x \in Execs |-> IF x \in Target(e, s)
                                         THEN [rows[x] EXCEPT !.by = e]
                                         ELSE rows[x]]
  /\ req' = [req EXCEPT ![t] = None]
  /\ conn' = Committed(t)
  /\ UNCHANGED <<schema, errors, refused>>

(* register_result raises, on a duplicate or a value the database does not take
   (for PostgreSQL a NaN is one): nothing is written, and nothing rolled back. *)
WriteRefused(t) ==
  /\ req[t] # None /\ req[t].step = "result"
  /\ \/ /\ Duplicate(req[t].exec, NormalizedSquid(req[t].squid)) /\ Writable(t)
        /\ conn' = [conn EXCEPT ![t] = AfterConstraint]
     \/ /\ "result" \in req[t].flaw
        /\ \E c \in AfterRefusal(t): conn' = [conn EXCEPT ![t] = c]
  /\ Fail(t)

(* Either write raises: the database is locked. *)
TimedOut(t) ==
  /\ req[t] # None /\ req[t].step \in {"schema", "result"} /\ Locked(t)
  /\ conn' = [conn EXCEPT ![t] = Begun(t)]
  /\ Fail(t)

\* Mutant: what the failed statement left begun is rolled back, the error with it.
RecordErrorRolledBack(t) ==
  /\ req[t] # None /\ req[t].step = "error" /\ Writable(t)
  /\ "error" \notin req[t].flaw
  /\ errors' = IF conn[t] = "idle" THEN errors \cup {req[t].exec} ELSE errors
  /\ req' = [req EXCEPT ![t] = None]
  /\ conn' = [conn EXCEPT ![t] = "idle"]
  /\ UNCHANGED <<schema, rows, refused>>

\* Mutant: the error is left for the next request to commit.
RecordErrorUncommitted(t) ==
  /\ req[t] # None /\ req[t].step = "error" /\ Writable(t)
  /\ "error" \notin req[t].flaw
  /\ errors' = errors \cup {req[t].exec}
  /\ req' = [req EXCEPT ![t] = None]
  /\ conn' = [conn EXCEPT ![t] = "open"]
  /\ UNCHANGED <<schema, rows, refused>>

(* The except clause: record_error on the same connection, and a 500. *)
RecordError(t) ==
  /\ req[t] # None /\ req[t].step = "error" /\ Writable(t)
  /\ "error" \notin req[t].flaw
  /\ errors' = errors \cup {req[t].exec}
  /\ req' = [req EXCEPT ![t] = None]
  /\ conn' = Committed(t)
  /\ UNCHANGED <<schema, rows, refused>>

(* record_error raises in its turn and the request ends with no error on file:
   the name it is given is null or cannot be bound, the database is locked, or
   PostgreSQL's transaction has failed. *)
ErrorRefused(t) ==
  /\ req[t] # None /\ req[t].step = "error"
  /\ \/ /\ "error" \in req[t].flaw
        /\ \E c \in AfterRefusal(t): conn' = [conn EXCEPT ![t] = c]
        /\ refused' = TRUE
     \/ /\ Locked(t)
        /\ conn' = [conn EXCEPT ![t] = Begun(t)]
        /\ UNCHANGED refused
     \/ conn[t] = "aborted" /\ UNCHANGED <<conn, refused>>
  /\ req' = [req EXCEPT ![t] = None]
  /\ UNCHANGED data

-----------------------------------------------------------------------------
(* Other requests, each a transaction. *)

(* GET and /search: a transaction that a request left on the connection goes
   on. *)
Read(t) ==
  /\ req[t] = None
  /\ conn' = [conn EXCEPT ![t] = AfterRead(t)]
  /\ UNCHANGED <<data, req, refused>>

(* POST /search with a filter PostgreSQL cannot cast. *)
SearchFails(t) ==
  /\ backend = "postgresql" /\ req[t] = None
  /\ conn' = [conn EXCEPT ![t] = "aborted"]
  /\ UNCHANGED <<data, req, refused>>

(* DELETE /results/<execution_id>. *)
DeleteResult(t) ==
  /\ req[t] = None /\ Writable(t)
  /\ \E e \in Execs: /\ rows' = [rows EXCEPT ![e] = None]
                     /\ errors' = errors \ {e}
  /\ conn' = Committed(t)
  /\ UNCHANGED <<schema, req, refused>>

(* POST /provenance, of which nothing else here reads the table. *)
RecordProvenance(t) ==
  /\ req[t] = None /\ Writable(t)
  /\ conn' = Committed(t)
  /\ UNCHANGED <<data, req, refused>>

(* Either of the two raises: the database is locked, or an entry has a value
   that cannot be bound, with other entries inserted before it or not. *)
OtherRefused(t) ==
  /\ req[t] = None
  /\ \/ /\ Locked(t)
        /\ conn' = [conn EXCEPT ![t] = Begun(t)]
        /\ UNCHANGED refused
     \/ /\ {"entry"} \in load.flaws
        /\ \E c \in AfterRefusal(t): conn' = [conn EXCEPT ![t] = c]
        /\ refused' = TRUE
  /\ UNCHANGED <<data, req>>

(* DELETE /results.  SQLite's begins its transaction itself, which it cannot
   within one; PostgreSQL's is the only request that rolls back. *)
ClearAll(t) ==
  /\ req[t] = None
  /\ \/ /\ Writable(t) /\ conn[t] = "idle"
        /\ rows' = [e \in Execs |-> None] /\ errors' = {}
        /\ conn' = Committed(t)
     \/ /\ conn[t] = "aborted"
        /\ conn' = [conn EXCEPT ![t] = "idle"]
        /\ UNCHANGED <<rows, errors>>
  /\ UNCHANGED <<schema, req, refused>>

Next == /\ \E t \in Threads:
             \/ RegisterDirect(t) \/ Register(t) \/ WriteSchema(t) \/ SchemaRefused(t)
             \/ WriteResult(t) \/ WriteRefused(t) \/ TimedOut(t)
             \/ RecordError(t) \/ ErrorRefused(t)
             \/ Read(t) \/ SearchFails(t) \/ DeleteResult(t)
             \/ RecordProvenance(t) \/ OtherRefused(t) \/ ClearAll(t)
        /\ UNCHANGED <<backend, load>>

Spec == Init /\ [][Next]_vars

-----------------------------------------------------------------------------
(* Properties. *)

(* A stored execution belongs to a simulation whose schema is on file: a thread
   that writes a result has seen a schema or written one, in an earlier
   transaction, and nothing deletes schemas. *)
RowsHaveSchema == schema = None => \A e \in Execs: rows[e] = None

(* The outputs of a row were computed from the row's inputs, although an upsert
   replaces the outputs, and on SQLite may find the row of another execution
   by its squid id. *)
OutputsMatchInputs == \A e \in Execs:
  rows[e] # None => InputOf[rows[e].by] = InputOf[e]

(* On SQLite no two rows hold the same squid id: a result is found once by its
   squid id, however executions with and without one are registered. *)
OneRowPerSquid == backend = "sqlite" => \A d, e \in Execs:
  rows[d] # None /\ rows[e] # None /\ rows[d].squid = rows[e].squid
    => d = e \/ rows[d].squid = None

(* A direct registration that writes the schema it merged, and meets the schema
   it read, loses no type another registered first, and leaves every parameter of
   its own on file: only a write between its two transactions can make it lose
   any. *)
UnracedMergeKeeps == [][\A t \in Threads:
  req[t] # None /\ req[t].step = "schema" /\ req[t].route = "/register_direct"
    /\ req'[t] # None /\ req'[t].step = "result" /\ schema = req[t].seen
    => /\ Given(req[t].delta) \subseteq Given(schema')
       /\ schema = None \/ \A p \in Given(schema): schema'[p] = schema[p]]_vars

(* A registration that fails leaves an error on file, whatever the statement
   that failed left of its transaction, but for three: one whose name the table
   of errors refuses in its turn; on PostgreSQL, one whose connection is in a
   failed transaction; on SQLite, one that meets what the refused last write of
   an earlier request has left, a lock or a snapshot out of date. *)
FailuresRecorded == [][\A t \in Threads:
  req[t] # None /\ req[t].step = "error" /\ req'[t] = None
    => \/ req[t].exec \in errors'
       \/ "error" \in req[t].flaw
       \/ backend = "postgresql" /\ conn[t] = "aborted"
       \/ /\ backend = "sqlite" /\ refused
          /\ conn[t] = "stale" \/ \E u \in Threads \ {t}: conn[u] = "open"]_vars

(* On SQLite no transaction outlives its request, failed registrations included,
   until the last write of one is refused: record_error commits what the failed
   statement left open. *)
IdleBetweenRequests == backend = "sqlite" /\ ~refused =>
  \A t \in Threads: req[t] = None => conn[t] = "idle"
=============================================================================
