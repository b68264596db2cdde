------------------------------ MODULE Catalog ------------------------------
(***************************************************************************)
(* The catalog service (services/catalog_service.py) with its two          *)
(* backends: the table of simulations, the registry of executions and the  *)
(* queue of registrations to approve, used by several handler threads.     *)
(* POST /run loads a simulation, runs it for as long as it takes, records  *)
(* the execution and mirrors it to the cache service, while others delete, *)
(* clear or register simulations.  Every thread keeps a connection of its  *)
(* own.  A statement that fails outside a rollback leaves its transaction  *)
(* on it: on SQLite with the database's write lock, on PostgreSQL in a     *)
(* state in which the connection refuses every statement.                  *)
(*                                                                         *)
(* One input set for each version: runs on others have cache keys of their *)
(* own.  The session check that precedes every handler is left out.        *)
(***************************************************************************)
EXTENDS Naturals, FiniteSets

CONSTANTS Threads, Execs,
          Versions,     \* name/version pairs of simulations
          Requests,     \* rows of sync_queue
          Payload,      \* the version each of them asks to register
          MaxId,        \* bound on the ids handed out
          Backends,     \* those a service may be started with
          None

ASSUME SomePayload == Payload \in [Requests -> Versions]
ASSUME Bound == MaxId \in Nat
ASSUME NotData == None \notin Versions \cup Execs

VARIABLES backend,      \* the one this service was started with
          sims,         \* the version registered under each id
          lastId,       \* AUTOINCREMENT, SERIAL
          registry,     \* the simulation id in the row of each execution
          cached,       \* the execution in the cache entry of each version
          queue,
          conn,         \* what each thread's connection was left with
          work,         \* what each handler thread is in the middle of
          ran           \* history: the version each execution ran
vars == <<backend, sims, lastId, registry, cached, queue, conn, work, ran>>

Ids == 1..MaxId
Runs == [op: {"run"}, sim: Ids, version: Versions, exec: Execs \cup {None},
         step: {"loaded", "ran", "recorded"}, ok: BOOLEAN]
Approvals == [op: {"approve"}, request: Requests, outcome: {"approved", "failed"}]

Deletions == [op: {"delete"}, sims: SUBSET Ids, rows: SUBSET Execs, all: BOOLEAN]

ASSUME NotWork == None \notin Approvals \cup Deletions

TypeOK == /\ backend \in Backends
          /\ sims \in [Ids -> Versions \cup {None}]
          /\ lastId \in 0..MaxId
          /\ registry \in [Execs -> Ids \cup {None}]
          /\ cached \in [Versions -> Execs \cup {None}]
          /\ queue \in [Requests -> {"pending", "approved", "failed"}]
          /\ conn \in [Threads -> {"clean", "open", "aborted"}]
          /\ work \in [Threads -> Runs \cup Approvals \cup Deletions \cup {None}]
          /\ ran \in [Execs -> Versions \cup {None}]

Init == /\ backend \in Backends
        /\ sims = [i \in Ids |-> None] /\ lastId = 0
        /\ registry = [e \in Execs |-> None]
        /\ cached = [v \in Versions |-> None]
        /\ queue = [r \in Requests |-> "pending"]
        /\ conn = [t \in Threads |-> "clean"]
        /\ work = [t \in Threads |-> None]
        /\ ran = [e \in Execs |-> None]

-----------------------------------------------------------------------------
(* The database. *)

\* No other thread holds SQLite's write lock.
Free(t) == \A u \in Threads \ {t}: conn[u] # "open"

\* A transaction begins: BEGIN IMMEDIATE fails if one is open, this thread's
\* included; a PostgreSQL connection that was left aborted refuses it.
CanBegin(t) == conn[t] = "clean" /\ Free(t)

\* A statement outside BEGIN IMMEDIATE goes on with the thread's transaction.
CanWrite(t) == conn[t] # "aborted" /\ Free(t)

\* The statement commits what the connection had open.
Commit(t) == conn' = [conn EXCEPT ![t] = "clean"]

\* The statement is refused and nobody rolls back.
LeaveFailed(t) ==
  conn' = [conn EXCEPT ![t] = IF backend = "sqlite" THEN "open" ELSE "aborted"]

Registered(v) == \E i \in Ids: sims[i] = v

\* Mutant: the ids of deleted simulations are handed out again.
SmallestFreeId == CHOOSE i \in Ids: sims[i] = None /\ \A j \in Ids: j < i => sims[j] # None

NewId == lastId + 1

\* Mutant: the insertion is not conditional.
InsertAlways(v) == sims' = [sims EXCEPT ![NewId] = v] /\ lastId' = NewId

\* INSERT OR IGNORE, ON CONFLICT DO NOTHING, on the unique (name, version).  The
\* ids that PostgreSQL skips on a conflict are left out.
Insert(v) == IF Registered(v) THEN UNCHANGED <<sims, lastId>>
             ELSE sims' = [sims EXCEPT ![NewId] = v] /\ lastId' = NewId

-----------------------------------------------------------------------------
(* Requests that are one transaction, or appear as one. *)

(* POST /simulations: 201, or 409 for a version that is registered. *)
RegisterSimulation(t) ==
  /\ work[t] = None /\ CanBegin(t) /\ lastId < MaxId
  /\ \E v \in Versions: Insert(v)
  /\ UNCHANGED <<registry, cached, queue, conn, work, ran>>

\* The rows of the simulations, and of their executions.
Remove(I) ==
  /\ sims' = [i \in Ids |-> IF i \in I THEN None ELSE sims[i]]
  /\ registry' = [e \in Execs |-> IF registry[e] \in I THEN None ELSE registry[e]]

(* DELETE /simulations/<id> on SQLite.  The cache keeps what it has. *)
DeleteSimulation(t) ==
  /\ backend = "sqlite" /\ work[t] = None /\ CanBegin(t)
  /\ \E i \in Ids: sims[i] # None /\ Remove({i})
  /\ UNCHANGED <<lastId, cached, queue, conn, work, ran>>

(* DELETE /simulations on SQLite. *)
ClearAllSimulations(t) ==
  /\ backend = "sqlite" /\ work[t] = None /\ CanBegin(t) /\ Remove(Ids)
  /\ UNCHANGED <<lastId, cached, queue, conn, work, ran>>

(* PATCH /simulations/<id>, /session/refresh and /session/login write columns and
   rows that nothing here depends on; they commit what the thread has open. *)
UpdateSimulation(t) ==
  /\ work[t] = None /\ conn[t] = "open"
  /\ Commit(t)
  /\ UNCHANGED <<sims, lastId, registry, cached, queue, work, ran>>

(* A PATCH with a value PostgreSQL does not take for the column (JSON with NaN). *)
UpdateRefused(t) ==
  /\ backend = "postgresql" /\ work[t] = None /\ conn[t] = "clean"
  /\ LeaveFailed(t)
  /\ UNCHANGED <<sims, lastId, registry, cached, queue, work, ran>>

(* POST and DELETE /simulations on an aborted connection fail and roll back.  They
   get that far with --no-auth only: the check of a session fails before. *)
Recover(t) ==
  /\ work[t] = None /\ conn[t] = "aborted"
  /\ Commit(t)
  /\ UNCHANGED <<sims, lastId, registry, cached, queue, work, ran>>

-----------------------------------------------------------------------------
(* The deletions on PostgreSQL: the rows that refer to the simulations go in
   statements of their own, READ COMMITTED, before the simulations. *)

Deleting(t) == work[t] # None /\ work[t].op = "delete"

\* Rows of the registry that a deletion under way has locked.
RowsLocked(t, R) == \E u \in Threads \ {t}: Deleting(u) /\ work[u].rows \cap R # {}

RowsOf(I) == {e \in Execs: registry[e] \in I}

(* The first statements.  They wait for rows that another deletion locked. *)
BeginDelete(t) ==
  /\ backend = "postgresql" /\ work[t] = None /\ CanBegin(t)
  /\ \E all \in BOOLEAN:
     \E I \in IF all THEN {Ids} ELSE {{i}: i \in {j \in Ids: sims[j] # None}}:
       /\ ~RowsLocked(t, RowsOf(I))
       /\ work' = [work EXCEPT ![t] = [op |-> "delete", sims |-> I, rows |-> RowsOf(I),
                                       all |-> all]]
  /\ UNCHANGED <<sims, lastId, registry, cached, queue, conn, ran>>

(* The simulations go and the transaction commits. *)
FinishDelete(t) ==
  /\ Deleting(t) /\ RowsOf(work[t].sims) \subseteq work[t].rows
  /\ sims' = [i \in Ids |-> IF i \in work[t].sims THEN None ELSE sims[i]]
  /\ registry' = [e \in Execs |-> IF e \in work[t].rows THEN None ELSE registry[e]]
  /\ work' = [work EXCEPT ![t] = None]
  /\ UNCHANGED <<lastId, cached, queue, conn, ran>>

\* Mutant: every statement commits.
RefuseDeleteLate(t) ==
  /\ Deleting(t) /\ ~(RowsOf(work[t].sims) \subseteq work[t].rows)
  /\ registry' = [e \in Execs |-> IF e \in work[t].rows THEN None ELSE registry[e]]
  /\ LeaveFailed(t)
  /\ work' = [work EXCEPT ![t] = None]
  /\ UNCHANGED <<sims, lastId, cached, queue, ran>>

(* An execution was recorded in between and refers to a simulation, or another
   deletion waits for this one that waits for it.  Only clear_all rolls back. *)
RefuseDelete(t) ==
  /\ Deleting(t)
  /\ \/ ~(RowsOf(work[t].sims) \subseteq work[t].rows)
     \/ \E u \in Threads \ {t}: Deleting(u) /\ work[u].sims \cap work[t].sims # {}
  /\ IF work[t].all THEN UNCHANGED conn ELSE LeaveFailed(t)
  /\ work' = [work EXCEPT ![t] = None]
  /\ UNCHANGED <<sims, lastId, registry, cached, queue, ran>>

-----------------------------------------------------------------------------
(* POST /run.  A client that runs a simulation itself and posts the execution to
   /executions does the same, away from the service. *)

(* get_simulation: reads are not in the way of a lock. *)
LoadRecord(t) ==
  /\ work[t] = None /\ conn[t] # "aborted"
  /\ \E i \in Ids:
       /\ sims[i] # None
       /\ work' = [work EXCEPT ![t] = [op |-> "run", sim |-> i, version |-> sims[i],
                                       exec |-> None, step |-> "loaded", ok |-> TRUE]]
  /\ UNCHANGED <<sims, lastId, registry, cached, queue, conn, ran>>

(* sim.run with a caching executor: the cached execution, or a new one, which is
   cached under name, version and inputs if it completes. *)
Execute(t) ==
  /\ work[t] # None /\ work[t].op = "run" /\ work[t].step = "loaded"
  /\ LET v == work[t].version IN
     IF cached[v] # None
     THEN /\ work' = [work EXCEPT ![t].exec = cached[v], ![t].step = "ran"]
          /\ UNCHANGED <<cached, ran>>
     ELSE \E e \in Execs, ok \in BOOLEAN:
            /\ ran[e] = None
            /\ ran' = [ran EXCEPT ![e] = v]
            /\ cached' = IF ok THEN [cached EXCEPT ![v] = e] ELSE cached
            /\ work' = [work EXCEPT ![t].exec = e, ![t].ok = ok, ![t].step = "ran"]
  /\ UNCHANGED <<sims, lastId, registry, queue, conn>>

Recording(t) == work[t] # None /\ work[t].op = "run" /\ work[t].step = "ran"

\* The upsert inserts the row unless the execution has one: only then is there a
\* foreign key to check.
Recordable(t) == registry[work[t].exec] # None \/ sims[work[t].sim] # None

(* record_execution: an update leaves the row its simulation id.  On PostgreSQL it
   waits for a deletion that has locked the row. *)
RecordExecution(t) ==
  /\ Recording(t) /\ CanWrite(t) /\ Recordable(t)
  /\ ~RowsLocked(t, {work[t].exec})
  /\ registry' = [registry EXCEPT
       ![work[t].exec] = IF @ # None THEN @ ELSE work[t].sim]
  /\ Commit(t)
  /\ work' = [work EXCEPT ![t].step = "recorded"]
  /\ UNCHANGED <<sims, lastId, cached, queue, ran>>

(* The simulation is gone: IntegrityError, a 500, and the transaction of the INSERT
   is left as it is. *)
RecordRefused(t) ==
  /\ Recording(t) /\ CanWrite(t) /\ ~Recordable(t)
  /\ LeaveFailed(t)
  /\ work' = [work EXCEPT ![t] = None]
  /\ UNCHANGED <<sims, lastId, registry, cached, queue, ran>>

(* "database is locked": a 500. *)
RecordLocked(t) ==
  /\ Recording(t) /\ ~CanWrite(t)
  /\ work' = [work EXCEPT ![t] = None]
  /\ UNCHANGED <<sims, lastId, registry, cached, queue, conn, ran>>

(* _store_service_cache_entry, for hits too, or a cache service that is down. *)
MirrorRun(t) ==
  /\ work[t] # None /\ work[t].op = "run" /\ work[t].step = "recorded"
  /\ \/ /\ work[t].ok
        /\ cached' = [cached EXCEPT ![work[t].version] = work[t].exec]
     \/ UNCHANGED cached
  /\ work' = [work EXCEPT ![t] = None]
  /\ UNCHANGED <<sims, lastId, registry, queue, conn, ran>>

(* The cache service drops an entry (module CacheService). *)
DropCached ==
  /\ \E v \in Versions: cached' = [cached EXCEPT ![v] = None]
  /\ UNCHANGED <<sims, lastId, registry, queue, conn, work, ran>>

-----------------------------------------------------------------------------
(* POST /sync/<id>/approve: the registration and the mark on the request are two
   transactions; the request need not be pending. *)

Outcome(v) == IF Registered(v) THEN "failed" ELSE "approved"

ApproveSync(t) ==
  /\ work[t] = None /\ CanBegin(t) /\ lastId < MaxId
  /\ \E r \in Requests:
       /\ Insert(Payload[r])
       /\ work' = [work EXCEPT ![t] = [op |-> "approve", request |-> r,
                                       outcome |-> Outcome(Payload[r])]]
  /\ UNCHANGED <<registry, cached, queue, conn, ran>>

(* The mark; if the database is locked it is lost with a 500. *)
MarkRequest(t) ==
  /\ work[t] # None /\ work[t].op = "approve"
  /\ queue' = IF CanWrite(t) THEN [queue EXCEPT ![work[t].request] = work[t].outcome]
              ELSE queue
  /\ work' = [work EXCEPT ![t] = None]
  /\ UNCHANGED <<sims, lastId, registry, cached, conn, ran>>

(* The service stops and is started again. *)
Restart ==
  /\ conn' = [t \in Threads |-> "clean"]
  /\ work' = [t \in Threads |-> None]
  /\ UNCHANGED <<sims, lastId, registry, cached, queue, ran>>

Next == /\ \/ \E t \in Threads:
                \/ RegisterSimulation(t) \/ DeleteSimulation(t) \/ ClearAllSimulations(t)
                \/ UpdateSimulation(t) \/ UpdateRefused(t) \/ Recover(t)
                \/ BeginDelete(t) \/ FinishDelete(t) \/ RefuseDelete(t)
                \/ LoadRecord(t) \/ Execute(t) \/ RecordExecution(t)
                \/ RecordRefused(t) \/ RecordLocked(t) \/ MirrorRun(t)
                \/ ApproveSync(t) \/ MarkRequest(t)
           \/ DropCached \/ Restart
        /\ UNCHANGED backend

Spec == Init /\ [][Next]_vars

-----------------------------------------------------------------------------
(* Properties. *)

(* The row of an execution belongs to a simulation that is registered, and to the
   version that execution ran: although simulations are deleted and registered
   while runs are under way, and a run may be answered from the cache with an
   execution of a simulation deleted since. *)
ExecutionsOfTheirVersion == \A e \in Execs:
  registry[e] # None => sims[registry[e]] = ran[e]

(* A version is registered once, directly or by approval, whoever comes first. *)
OneSimulationPerVersion == \A i, j \in Ids: sims[i] # None /\ sims[i] = sims[j] => i = j

(* An execution leaves the registry only with its simulation: a deletion that is
   refused half way, on either backend, takes none. *)
RecordsKept == [][\A e \in Execs:
  registry[e] # None => registry'[e] = registry[e] \/ sims'[registry[e]] = None]_vars
=============================================================================
