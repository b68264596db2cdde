--------------------------- MODULE CatalogProofs ---------------------------
(***************************************************************************)
(* Proofs about Catalog, for any number of threads, versions, executions   *)
(* and requests.                                                           *)
(*                                                                         *)
(* A handler knows the id it loaded, and what it knows goes stale.  What   *)
(* stays true (Knows) is that the id has been handed out, and stands for   *)
(* the version that was loaded or for nothing: with AUTOINCREMENT an id is *)
(* never handed out again (Assigned).  With CacheInv, that a cache entry   *)
(* names an execution of its version, this is inductive.  A deletion that  *)
(* PostgreSQL carries out in several statements keeps the rows it has      *)
(* locked as they are till it ends (Locks), so that the rows it removes    *)
(* are those of the simulations it removes.                                *)
(***************************************************************************)
EXTENDS Catalog, TLAPS

Assigned == \A i \in Ids: sims[i] # None => i <= lastId

CacheInv == \A v \in Versions: cached[v] # None => ran[cached[v]] = v

\* What thread t knows while it serves /run.
Knows(t) == work[t] # None /\ work[t].op = "run" =>
              /\ work[t].sim <= lastId
              /\ sims[work[t].sim] \in {work[t].version, None}
              /\ work[t].step # "loaded" =>
                   work[t].exec # None /\ ran[work[t].exec] = work[t].version

RegistryInv == \A e \in Execs: registry[e] # None => ran[e] # None

\* What a deletion under way has locked.
Locks == \A t \in Threads: Deleting(t) =>
           /\ backend = "postgresql"
           /\ \A e \in work[t].rows: registry[e] \in work[t].sims
           /\ ~RowsLocked(t, work[t].rows)

Inv == /\ TypeOK /\ Assigned /\ CacheInv /\ RegistryInv /\ Locks
       /\ \A t \in Threads: Knows(t)
       /\ ExecutionsOfTheirVersion /\ OneSimulationPerVersion

-----------------------------------------------------------------------------
LEMMA InitInv == Init => Inv
BY Bound, SomePayload, NotData
   DEF Init, Inv, TypeOK, Assigned, CacheInv, RegistryInv, Knows, Ids, Locks, Deleting,
       ExecutionsOfTheirVersion, OneSimulationPerVersion

LEMMA RunType == ASSUME TypeOK, NEW t \in Threads, work[t] # None, work[t].op = "run"
                 PROVE  work[t] \in Runs
BY DEF TypeOK, Runs, Approvals, Deletions

LEMMA DeletionType == ASSUME TypeOK, NEW t \in Threads, Deleting(t)
                      PROVE  work[t] \in Deletions
BY DEF TypeOK, Runs, Approvals, Deletions, Deleting

\* An insertion hands out an id never handed out before, for a version that is
\* not registered, and leaves all others alone.
LEMMA Inserted ==
  ASSUME TypeOK, Assigned, OneSimulationPerVersion, NEW v \in Versions,
         lastId < MaxId, Insert(v)
  PROVE  /\ sims' \in [Ids -> Versions \cup {None}]
         /\ lastId' \in 0..MaxId /\ lastId <= lastId'
         /\ \A i \in Ids: i <= lastId => sims'[i] = sims[i]
         /\ Assigned' /\ OneSimulationPerVersion'
<1> USE Bound DEF TypeOK, Ids
<1>1. CASE Registered(v)
  BY <1>1 DEF Insert, Assigned, OneSimulationPerVersion
<1>2. CASE ~Registered(v)
  <2>1. NewId \in Ids /\ NewId = lastId + 1
    BY DEF NewId
  <2>2. sims' = [sims EXCEPT ![NewId] = v] /\ lastId' = NewId
    BY <1>2 DEF Insert
  <2>3. \A i \in Ids: sims[i] # v
    BY <1>2 DEF Registered
  <2>4. OneSimulationPerVersion'
    BY <2>1, <2>2, <2>3 DEF OneSimulationPerVersion
  <2>5. Assigned'
    BY <2>1, <2>2 DEF Assigned
  <2> QED BY <2>1, <2>2, <2>4, <2>5
<1> QED BY <1>1, <1>2

\* Registration and approval: Inserted, and at most one thread starts to approve.
LEMMA InsertKeeps ==
  ASSUME Inv, NEW v \in Versions, lastId < MaxId, Insert(v),
         UNCHANGED <<registry, cached, ran>>,
         \A t \in Threads: work'[t] = work[t]
                           \/ (work'[t] # None /\ work'[t].op = "approve")
  PROVE  /\ Assigned' /\ CacheInv' /\ RegistryInv'
         /\ \A t \in Threads: Knows(t)'
         /\ ExecutionsOfTheirVersion' /\ OneSimulationPerVersion'
<1>1. /\ lastId <= lastId' /\ lastId \in Nat /\ lastId' \in Nat
      /\ \A i \in Ids: i <= lastId => sims'[i] = sims[i]
      /\ Assigned' /\ OneSimulationPerVersion'
  BY Inserted, Bound DEF Inv, TypeOK
<1>2. CacheInv' /\ RegistryInv'
  BY DEF Inv, CacheInv, RegistryInv
<1>3. ASSUME NEW t \in Threads PROVE Knows(t)'
  <2>1. SUFFICES ASSUME work'[t] = work[t], work[t] # None, work[t].op = "run"
                 PROVE  Knows(t)'
    BY DEF Knows
  <2>2. work[t].sim \in Ids /\ work[t].sim <= lastId
    BY <2>1, RunType DEF Inv, Knows, Runs
  <2> QED BY <1>1, <2>1, <2>2 DEF Inv, Knows, Ids
<1>4. ExecutionsOfTheirVersion'
  <2> SUFFICES ASSUME NEW e \in Execs, registry[e] # None
               PROVE  sims'[registry[e]] = ran[e]
    BY DEF ExecutionsOfTheirVersion
  <2>1. registry[e] \in Ids /\ sims[registry[e]] = ran[e] /\ ran[e] # None
    BY DEF Inv, TypeOK, ExecutionsOfTheirVersion, RegistryInv
  <2> QED BY <1>1, <2>1 DEF Inv, Assigned
<1> QED BY <1>1, <1>2, <1>3, <1>4

\* Deletions.
LEMMA RemoveKeeps ==
  ASSUME Inv, NEW I \in SUBSET Ids, Remove(I), UNCHANGED <<lastId, cached, ran>>,
         \A t \in Threads: work'[t] \in {work[t], None}
  PROVE  /\ Assigned' /\ CacheInv' /\ RegistryInv'
         /\ \A t \in Threads: Knows(t)'
         /\ ExecutionsOfTheirVersion' /\ OneSimulationPerVersion'
<1>1. /\ \A i \in Ids: sims'[i] = IF i \in I THEN None ELSE sims[i]
      /\ \A e \in Execs: registry'[e] = IF registry[e] \in I THEN None ELSE registry[e]
  BY DEF Remove
<1>2. Assigned' /\ OneSimulationPerVersion'
  BY <1>1 DEF Inv, Assigned, OneSimulationPerVersion
<1>3. CacheInv' /\ RegistryInv'
  BY <1>1 DEF Inv, CacheInv, RegistryInv
<1>4. ASSUME NEW t \in Threads PROVE Knows(t)'
  BY <1>1, RunType DEF Inv, Knows, Runs
<1>5. ExecutionsOfTheirVersion'
  BY <1>1 DEF Inv, TypeOK, ExecutionsOfTheirVersion
<1> QED BY <1>2, <1>3, <1>4, <1>5

-----------------------------------------------------------------------------
LEMMA TypeStep == Inv /\ [Next]_vars => TypeOK'
<1> SUFFICES ASSUME Inv, [Next]_vars PROVE TypeOK' OBVIOUS
<1>0. UNCHANGED backend
  BY DEF Next, vars
<1> USE <1>0, Bound, SomePayload DEF Inv
<1>1. ASSUME NEW t \in Threads, RegisterSimulation(t) PROVE TypeOK'
  <2>1. PICK v \in Versions: Insert(v)
    BY <1>1 DEF RegisterSimulation
  <2> QED BY <1>1, <2>1, Inserted DEF RegisterSimulation, TypeOK
<1>2. ASSUME NEW t \in Threads, DeleteSimulation(t) PROVE TypeOK'
  BY <1>2 DEF DeleteSimulation, Remove, TypeOK
<1>3. ASSUME NEW t \in Threads, ClearAllSimulations(t) PROVE TypeOK'
  BY <1>3 DEF ClearAllSimulations, Remove, TypeOK
<1>4. ASSUME NEW t \in Threads, UpdateSimulation(t) PROVE TypeOK'
  BY <1>4 DEF UpdateSimulation, Commit, TypeOK
<1>5. ASSUME NEW t \in Threads, LoadRecord(t) PROVE TypeOK'
  BY <1>5 DEF LoadRecord, TypeOK, Runs
<1>6. ASSUME NEW t \in Threads, Execute(t) PROVE TypeOK'
  <2>1. work[t] \in Runs
    BY <1>6, RunType DEF Execute
  <2>2. CASE cached[work[t].version] # None
    BY <1>6, <2>1, <2>2 DEF Execute, TypeOK, Runs
  <2>3. CASE cached[work[t].version] = None
    <3>1. PICK e \in Execs, ok \in BOOLEAN:
            /\ ran' = [ran EXCEPT ![e] = work[t].version]
            /\ cached' = IF ok THEN [cached EXCEPT ![work[t].version] = e] ELSE cached
            /\ work' = [work EXCEPT ![t].exec = e, ![t].ok = ok, ![t].step = "ran"]
      BY <1>6, <2>3 DEF Execute
    <3>2. [work[t] EXCEPT !.exec = e, !.ok = ok, !.step = "ran"] \in Runs
      BY <2>1 DEF Runs
    <3>3. work' \in [Threads -> Runs \cup Approvals \cup Deletions \cup {None}]
      BY <3>1, <3>2 DEF TypeOK
    <3> QED BY <1>6, <2>1, <3>1, <3>3 DEF Execute, TypeOK, Runs
  <2> QED BY <2>2, <2>3
<1>7. ASSUME NEW t \in Threads, RecordExecution(t) PROVE TypeOK'
  <2>1. work[t] \in Runs
    BY <1>7, RunType DEF RecordExecution, Recording
  <2> QED BY <1>7, <2>1 DEF RecordExecution, Commit, TypeOK, Runs
<1>8. ASSUME NEW t \in Threads, RecordRefused(t) PROVE TypeOK'
  BY <1>8 DEF RecordRefused, LeaveFailed, TypeOK
<1>9. ASSUME NEW t \in Threads, RecordLocked(t) PROVE TypeOK'
  BY <1>9 DEF RecordLocked, TypeOK
<1>10. ASSUME NEW t \in Threads, MirrorRun(t) PROVE TypeOK'
  <2>1. work[t] \in Runs
    BY <1>10, RunType DEF MirrorRun
  <2> QED BY <1>10, <2>1 DEF MirrorRun, TypeOK, Runs
<1>11. ASSUME NEW t \in Threads, ApproveSync(t) PROVE TypeOK'
  <2>1. PICK r \in Requests: 
          /\ Insert(Payload[r])
          /\ work' = [work EXCEPT ![t] = [op |-> "approve", request |-> r,
                                          outcome |-> Outcome(Payload[r])]]
    BY <1>11 DEF ApproveSync
  <2>2. Payload[r] \in Versions
    OBVIOUS
  <2>3. [op |-> "approve", request |-> r, outcome |-> Outcome(Payload[r])] \in Approvals
    BY DEF Outcome, Approvals
  <2>4. work' \in [Threads -> Runs \cup Approvals \cup Deletions \cup {None}]
    BY <2>1, <2>3 DEF TypeOK
  <2>5. sims' \in [Ids -> Versions \cup {None}] /\ lastId' \in 0..MaxId
    BY <1>11, <2>1, <2>2, Inserted DEF ApproveSync
  <2> QED BY <1>11, <2>4, <2>5 DEF ApproveSync, TypeOK
<1>12. ASSUME NEW t \in Threads, MarkRequest(t) PROVE TypeOK'
  <2>1. work[t] \in Approvals
    BY <1>12 DEF MarkRequest, TypeOK, Runs, Approvals, Deletions
  <2> QED BY <1>12, <2>1 DEF MarkRequest, TypeOK, Approvals
<1>13. CASE DropCached
  BY <1>13 DEF DropCached, TypeOK
<1>14. CASE Restart
  BY <1>14 DEF Restart, TypeOK
<1>15. CASE UNCHANGED vars
  BY <1>15 DEF vars, TypeOK
<1>16. ASSUME NEW t \in Threads, UpdateRefused(t) \/ Recover(t) PROVE TypeOK'
  BY <1>16 DEF UpdateRefused, Recover, LeaveFailed, Commit, TypeOK
<1>17. ASSUME NEW t \in Threads, BeginDelete(t) PROVE TypeOK'
  <2>1. PICK all \in BOOLEAN, I \in SUBSET Ids:
          work' = [work EXCEPT ![t] = [op |-> "delete", sims |-> I, rows |-> RowsOf(I),
                                       all |-> all]]
    BY <1>17 DEF BeginDelete
  <2>2. [op |-> "delete", sims |-> I, rows |-> RowsOf(I), all |-> all] \in Deletions
    BY DEF Deletions, RowsOf
  <2> QED BY <1>17, <2>1, <2>2 DEF BeginDelete, TypeOK
<1>18. ASSUME NEW t \in Threads, FinishDelete(t) PROVE TypeOK'
  BY <1>18 DEF FinishDelete, TypeOK
<1>19. ASSUME NEW t \in Threads, RefuseDelete(t) PROVE TypeOK'
  BY <1>19 DEF RefuseDelete, LeaveFailed, TypeOK
<1> QED BY <1>1, <1>2, <1>3, <1>4, <1>5, <1>6, <1>7, <1>8, <1>9, <1>10, <1>11, <1>12,
           <1>13, <1>14, <1>15, <1>16, <1>17, <1>18, <1>19 DEF Next

\* What the locks are about stays as it is but for the thread's own end.
LEMMA LocksStay ==
  ASSUME Inv, UNCHANGED <<backend, registry>>,
         \A t \in Threads: work'[t] = work[t] \/ ~Deleting(t)'
  PROVE  Locks'
BY DEF Inv, Locks, Deleting, RowsLocked

LEMMA LockStep == Inv /\ [Next]_vars => Locks'
<1> SUFFICES ASSUME Inv, [Next]_vars PROVE Locks' OBVIOUS
<1>0. TypeOK /\ Locks /\ UNCHANGED backend
  BY DEF Inv, Next, vars
<1>1. ASSUME NEW t \in Threads,
             \/ RegisterSimulation(t) \/ UpdateSimulation(t) \/ UpdateRefused(t)
             \/ Recover(t) \/ RecordRefused(t) \/ RecordLocked(t) \/ MirrorRun(t)
             \/ MarkRequest(t) \/ RefuseDelete(t)
      PROVE  Locks'
  <2>1. UNCHANGED registry /\ \A u \in Threads: work'[u] \in {work[u], None}
    BY <1>0, <1>1
       DEF RegisterSimulation, UpdateSimulation, UpdateRefused, Recover, RecordRefused,
           RecordLocked, MirrorRun, MarkRequest, RefuseDelete, TypeOK
  <2> QED BY <1>0, <2>1, LocksStay DEF Deleting
<1>2. ASSUME NEW t \in Threads, DeleteSimulation(t) \/ ClearAllSimulations(t) PROVE Locks'
  <2>1. backend = "sqlite" /\ UNCHANGED work
    BY <1>2 DEF DeleteSimulation, ClearAllSimulations
  <2> QED BY <1>0, <2>1 DEF Locks, Deleting
<1>3. ASSUME NEW t \in Threads, LoadRecord(t) \/ Execute(t) \/ ApproveSync(t)
      PROVE  Locks'
  <2>1. UNCHANGED registry /\ \A u \in Threads \ {t}: work'[u] = work[u]
    BY <1>0, <1>3 DEF LoadRecord, Execute, ApproveSync, TypeOK
  <2>2. ~Deleting(t)'
    <3>1. CASE LoadRecord(t)
      BY <1>0, <3>1 DEF LoadRecord, Deleting, TypeOK
    <3>2. CASE Execute(t)
      <4>1. work[t] \in Runs
        BY <1>0, <3>2, RunType DEF Execute
      <4>2. \E e \in Execs \cup {None}, ok \in BOOLEAN:
              work'[t] = [work[t] EXCEPT !.exec = e, !.ok = ok, !.step = "ran"]
        <5>1. CASE cached[work[t].version] # None
          <6>1. work' = [work EXCEPT ![t].exec = cached[work[t].version], ![t].step = "ran"]
            BY <3>2, <5>1 DEF Execute
          <6>2. work'[t] = [work[t] EXCEPT !.exec = cached[work[t].version], !.ok = work[t].ok,
                                           !.step = "ran"]
            BY <1>0, <4>1, <6>1 DEF TypeOK, Runs
          <6> QED BY <1>0, <4>1, <6>2 DEF TypeOK, Runs
        <5>2. CASE cached[work[t].version] = None
          <6>1. PICK e \in Execs, ok \in BOOLEAN:
                  work' = [work EXCEPT ![t].exec = e, ![t].ok = ok, ![t].step = "ran"]
            BY <3>2, <5>2 DEF Execute
          <6>2. work'[t] = [work[t] EXCEPT !.exec = e, !.ok = ok, !.step = "ran"]
            BY <1>0, <6>1 DEF TypeOK
          <6> QED BY <6>2
        <5> QED BY <5>1, <5>2
      <4> QED BY <4>1, <4>2 DEF Deleting, Runs
    <3>3. CASE ApproveSync(t)
      BY <1>0, <3>3 DEF ApproveSync, Deleting, TypeOK
    <3> QED BY <1>3, <3>1, <3>2, <3>3
  <2> QED BY <1>0, <2>1, <2>2, LocksStay
<1>4. ASSUME NEW t \in Threads, RecordExecution(t) PROVE Locks'
  <2>1. work[t] \in Runs
    BY <1>0, <1>4, RunType DEF RecordExecution, Recording
  <2>2. \A u \in Threads \ {t}: work'[u] = work[u]
    BY <1>0, <1>4 DEF RecordExecution, TypeOK
  <2>3. ~Deleting(t)'
    BY <1>0, <1>4, <2>1 DEF RecordExecution, TypeOK, Runs, Deleting
  <2>4. \A e \in Execs: e # work[t].exec => registry'[e] = registry[e]
    BY <1>0, <1>4 DEF RecordExecution, TypeOK
  <2>5. ASSUME NEW u \in Threads, Deleting(u)', NEW e \in work'[u].rows
        PROVE  registry'[e] \in work'[u].sims
    <3>1. u # t /\ work'[u] = work[u] /\ Deleting(u)
      BY <2>2, <2>3, <2>5 DEF Deleting
    <3>2. work[u].rows \subseteq Execs
      BY <1>0, <3>1, DeletionType DEF Deletions
    <3>3. e # work[t].exec
      BY <1>4, <2>5, <3>1 DEF RecordExecution, RowsLocked
    <3> QED BY <1>0, <2>4, <2>5, <3>1, <3>2, <3>3 DEF Locks
  <2>6. ASSUME NEW u \in Threads, Deleting(u)' PROVE (~RowsLocked(u, work[u].rows))'
    BY <1>0, <2>2, <2>3, <2>6 DEF Locks, Deleting, RowsLocked
  <2> QED BY <1>0, <2>2, <2>3, <2>5, <2>6 DEF Locks, Deleting
<1>5. ASSUME NEW t \in Threads, BeginDelete(t) PROVE Locks'
  <2>1. PICK all \in BOOLEAN, I \in SUBSET Ids:
          /\ ~RowsLocked(t, RowsOf(I))
          /\ work' = [work EXCEPT ![t] = [op |-> "delete", sims |-> I, rows |-> RowsOf(I),
                                          all |-> all]]
    BY <1>5 DEF BeginDelete
  <2>2. /\ work'[t].rows = RowsOf(I) /\ work'[t].sims = I
        /\ \A u \in Threads \ {t}: work'[u] = work[u]
    BY <1>0, <2>1 DEF TypeOK
  <2>3. UNCHANGED registry /\ backend = "postgresql"
    BY <1>5 DEF BeginDelete
  <2>4. \A u \in Threads \ {t}: Deleting(u) => work[u].rows \cap RowsOf(I) = {}
    BY <2>1 DEF RowsLocked
  <2>5. ASSUME NEW u \in Threads, Deleting(u)' PROVE (~RowsLocked(u, work[u].rows))'
    BY <1>0, <2>2, <2>4, <2>5 DEF Locks, Deleting, RowsLocked
  <2>6. \A e \in RowsOf(I): registry[e] \in I
    BY DEF RowsOf
  <2> QED BY <1>0, <2>2, <2>3, <2>5, <2>6 DEF Locks, Deleting
<1>6. ASSUME NEW t \in Threads, FinishDelete(t) PROVE Locks'
  <2>1. work'[t] = None /\ \A u \in Threads \ {t}: work'[u] = work[u]
    BY <1>0, <1>6 DEF FinishDelete, TypeOK
  <2>2. ASSUME NEW u \in Threads, Deleting(u)', NEW e \in work'[u].rows
        PROVE  registry'[e] \in work'[u].sims
    <3>1. u # t /\ work'[u] = work[u] /\ Deleting(u) /\ Deleting(t)
      BY <1>6, <2>1, <2>2 DEF Deleting, FinishDelete
    <3>2. e \in Execs
      BY <1>0, <2>2, <3>1, DeletionType DEF Deletions
    <3>3. e \notin work[t].rows
      BY <1>0, <2>2, <3>1 DEF Locks, RowsLocked
    <3> QED BY <1>0, <1>6, <2>2, <3>1, <3>2, <3>3 DEF FinishDelete, Locks
  <2>3. ASSUME NEW u \in Threads, Deleting(u)' PROVE (~RowsLocked(u, work[u].rows))'
    BY <1>0, <2>1, <2>3 DEF Locks, Deleting, RowsLocked
  <2> QED BY <1>0, <2>1, <2>2, <2>3 DEF Locks, Deleting
<1>7. CASE DropCached \/ Restart \/ UNCHANGED vars
  <2>1. UNCHANGED registry /\ \A u \in Threads: work'[u] \in {work[u], None}
    BY <1>0, <1>7 DEF DropCached, Restart, vars
  <2> QED BY <1>0, <2>1, LocksStay DEF Deleting
<1> QED BY <1>1, <1>2, <1>3, <1>4, <1>5, <1>6, <1>7 DEF Next

\* The rows a deletion removes are those of the simulations it removes.
LEMMA FinishRemoves == ASSUME Inv, NEW t \in Threads, FinishDelete(t)
                       PROVE  Remove(work[t].sims) /\ work[t].sims \in SUBSET Ids
<1>1. work[t] \in Deletions
  BY DeletionType DEF Inv, FinishDelete
<1>2. work[t].rows = RowsOf(work[t].sims)
  BY <1>1 DEF Inv, Locks, FinishDelete, RowsOf, Deletions
<1> QED BY <1>1, <1>2 DEF FinishDelete, Remove, RowsOf, Deletions

\* The parts of Inv but TypeOK, for the steps that leave the simulations alone.
Rest == /\ CacheInv /\ RegistryInv /\ \A t \in Threads: Knows(t)
        /\ ExecutionsOfTheirVersion

LEMMA SameSims == Inv /\ UNCHANGED <<sims, lastId>>
                    => Assigned' /\ OneSimulationPerVersion'
BY DEF Inv, Assigned, OneSimulationPerVersion

\* A thread that ends its request, or starts to wait, knows no more than it did.
LEMMA Forgetting ==
  ASSUME Inv, UNCHANGED <<sims, lastId, ran>>,
         \A t \in Threads: work'[t] \in {work[t], None}
  PROVE  \A t \in Threads: Knows(t)'
BY DEF Inv, Knows

LEMMA ExecuteKeeps == ASSUME Inv, NEW t \in Threads, Execute(t) PROVE Rest'
<1> DEFINE v == work[t].version
<1>1. work[t] \in Runs /\ v \in Versions /\ Knows(t)
  BY RunType DEF Inv, Execute, Runs
<1>2. CASE cached[v] # None
  <2>1. /\ work' = [work EXCEPT ![t].exec = cached[v], ![t].step = "ran"]
        /\ UNCHANGED <<sims, lastId, registry, cached, ran>>
    BY <1>2 DEF Execute
  <2>2. ran[cached[v]] = v
    BY <1>1, <1>2 DEF Inv, CacheInv
  <2>3. ASSUME NEW u \in Threads PROVE Knows(u)'
    <3>1. CASE u = t
      <4>1. work'[t] = [work[t] EXCEPT !.exec = cached[v], !.step = "ran"]
        BY <2>1 DEF Inv, TypeOK
      <4>2. /\ work'[t].sim = work[t].sim /\ work'[t].version = v
            /\ work'[t].exec = cached[v]
        BY <1>1, <4>1 DEF Runs
      <4> QED BY <1>1, <1>2, <2>1, <2>2, <3>1, <4>2 DEF Knows, Execute
    <3>2. CASE u # t
      BY <2>1, <3>2 DEF Inv, TypeOK, Knows
    <3> QED BY <3>1, <3>2
  <2> QED BY <2>1, <2>3 DEF Inv, Rest, CacheInv, RegistryInv, ExecutionsOfTheirVersion
<1>3. CASE cached[v] = None
  <2>1. PICK e \in Execs, ok \in BOOLEAN:
          /\ ran[e] = None
          /\ ran' = [ran EXCEPT ![e] = v]
          /\ cached' = IF ok THEN [cached EXCEPT ![v] = e] ELSE cached
          /\ work' = [work EXCEPT ![t].exec = e, ![t].ok = ok, ![t].step = "ran"]
    BY <1>3 DEF Execute
  <2>2. UNCHANGED <<sims, lastId, registry>>
    BY DEF Execute
  <2>3. \A d \in Execs: ran[d] # None => ran'[d] = ran[d]
    BY <2>1 DEF Inv, TypeOK
  <2>4. CacheInv'
    <3>1. \A w \in Versions: cached[w] # None => cached[w] \in Execs /\ ran'[cached[w]] = w
      BY <2>3, NotData DEF Inv, TypeOK, CacheInv
    <3>2. ran'[e] = v
      BY <2>1 DEF Inv, TypeOK
    <3> QED BY <1>1, <2>1, <3>1, <3>2 DEF Inv, TypeOK, CacheInv
  <2>5. RegistryInv' /\ ExecutionsOfTheirVersion'
    BY <2>2, <2>3, <1>1, <2>1, NotData DEF Inv, TypeOK, RegistryInv, ExecutionsOfTheirVersion
  <2>6. ASSUME NEW u \in Threads PROVE Knows(u)'
    <3>1. CASE u = t
      <4>1. work'[t] = [work[t] EXCEPT !.exec = e, !.ok = ok, !.step = "ran"]
        BY <2>1 DEF Inv, TypeOK
      <4>2. e # None /\ ran'[e] = v
        BY <2>1, NotData DEF Inv, TypeOK
      <4>3. /\ work'[t].sim = work[t].sim /\ work'[t].version = v
            /\ work'[t].exec = e
        BY <1>1, <4>1 DEF Runs
      <4> QED BY <1>1, <2>2, <3>1, <4>2, <4>3 DEF Knows, Execute
    <3>2. CASE u # t
      <4>1. work'[u] = work[u] /\ Knows(u)
        BY <2>1, <3>2 DEF Inv, TypeOK
      <4> SUFFICES ASSUME work[u] # None, work[u].op = "run", work[u].step # "loaded"
                   PROVE  ran'[work[u].exec] = work[u].version
        BY <2>2, <4>1 DEF Knows
      <4>2. work[u] \in Runs
        BY RunType DEF Inv
      <4> QED BY <2>3, <4>1, <4>2, NotData DEF Knows, Runs
    <3> QED BY <3>1, <3>2
  <2> QED BY <2>4, <2>5, <2>6 DEF Rest
<1> QED BY <1>2, <1>3

LEMMA RecordKeeps == ASSUME Inv, NEW t \in Threads, RecordExecution(t) PROVE Rest'
<1>1. /\ work[t] \in Runs /\ Knows(t)
      /\ ran[work[t].exec] = work[t].version /\ work[t].exec \in Execs
  BY RunType DEF Inv, RecordExecution, Recording, Knows, Runs
<1>2. registry' = [registry EXCEPT ![work[t].exec] = IF @ # None THEN @ ELSE work[t].sim]
  BY DEF RecordExecution
<1>3. UNCHANGED <<sims, lastId, cached, ran>>
  BY DEF RecordExecution
<1>4. CacheInv' /\ RegistryInv'
  BY <1>1, <1>2, <1>3, NotData DEF Inv, TypeOK, CacheInv, RegistryInv, Runs
<1>5. ExecutionsOfTheirVersion'
  <2> SUFFICES ASSUME NEW e \in Execs, registry'[e] # None
               PROVE  sims[registry'[e]] = ran[e]
    BY <1>3 DEF ExecutionsOfTheirVersion
  <2>1. CASE registry[e] # None
    BY <1>1, <1>2, <2>1 DEF Inv, TypeOK, ExecutionsOfTheirVersion
  <2>2. CASE registry[e] = None
    <3>1. e = work[t].exec /\ registry'[e] = work[t].sim
      BY <1>1, <1>2, <2>2 DEF Inv, TypeOK
    <3>2. sims[work[t].sim] # None
      BY <2>2, <3>1 DEF RecordExecution, Recordable
    <3> QED BY <1>1, <3>1, <3>2 DEF Knows, RecordExecution, Recording
  <2> QED BY <2>1, <2>2
<1>6. ASSUME NEW u \in Threads PROVE Knows(u)'
  BY <1>1, <1>3 DEF Inv, TypeOK, RecordExecution, Recording, Knows, Runs
<1> QED BY <1>4, <1>5, <1>6 DEF Rest

LEMMA MirrorKeeps == ASSUME Inv, NEW t \in Threads, MirrorRun(t) PROVE Rest'
<1>1. work[t] \in Runs /\ ran[work[t].exec] = work[t].version
  BY RunType DEF Inv, MirrorRun, Knows
<1>2. CacheInv'
  BY <1>1 DEF Inv, TypeOK, MirrorRun, CacheInv, Runs
<1>3. \A u \in Threads: Knows(u)'
  BY Forgetting DEF MirrorRun, Inv, TypeOK
<1> QED BY <1>2, <1>3 DEF MirrorRun, Inv, Rest, RegistryInv, ExecutionsOfTheirVersion

LEMMA LoadKeeps == ASSUME Inv, NEW t \in Threads, LoadRecord(t) PROVE Rest'
<1>1. PICK i \in Ids:
        /\ sims[i] # None
        /\ work' = [work EXCEPT ![t] = [op |-> "run", sim |-> i, version |-> sims[i],
                                        exec |-> None, step |-> "loaded", ok |-> TRUE]]
  BY DEF LoadRecord
<1>2. UNCHANGED <<sims, lastId, registry, cached, ran>>
  BY DEF LoadRecord
<1>3. i <= lastId
  BY <1>1 DEF Inv, Assigned
<1>4. ASSUME NEW u \in Threads PROVE Knows(u)'
  BY <1>1, <1>2, <1>3 DEF Inv, TypeOK, Knows
<1> QED BY <1>2, <1>4 DEF Inv, Rest, CacheInv, RegistryInv, ExecutionsOfTheirVersion

LEMMA InvStep == Inv /\ [Next]_vars => Inv'
<1> SUFFICES ASSUME Inv, [Next]_vars PROVE Inv' OBVIOUS
<1>0. TypeOK' /\ Locks'
  BY TypeStep, LockStep
<1>1. ASSUME NEW t \in Threads, RegisterSimulation(t) PROVE Inv'
  BY <1>0, <1>1, InsertKeeps DEF RegisterSimulation, Inv
<1>2. ASSUME NEW t \in Threads, ApproveSync(t) PROVE Inv'
  <2>1. PICK r \in Requests:
          /\ Insert(Payload[r])
          /\ work' = [work EXCEPT ![t] = [op |-> "approve", request |-> r,
                                          outcome |-> Outcome(Payload[r])]]
    BY <1>2 DEF ApproveSync
  <2>2. work'[t] \in Approvals
    BY <2>1, SomePayload DEF Inv, TypeOK, Approvals, Outcome
  <2>3. work'[t] # None
    BY <2>2, NotWork
  <2>4. \A u \in Threads: work'[u] = work[u] \/ (work'[u] # None /\ work'[u].op = "approve")
    BY <2>1, <2>2, <2>3 DEF Inv, TypeOK, Approvals
  <2> QED BY <1>0, <1>2, <2>1, <2>4, SomePayload, InsertKeeps DEF ApproveSync, Inv
<1>3. ASSUME NEW t \in Threads, DeleteSimulation(t) PROVE Inv'
  <2>1. PICK i \in Ids: Remove({i})
    BY <1>3 DEF DeleteSimulation
  <2> QED BY <1>0, <1>3, <2>1, RemoveKeeps DEF DeleteSimulation, Inv
<1>4. ASSUME NEW t \in Threads, ClearAllSimulations(t) PROVE Inv'
  BY <1>0, <1>4, RemoveKeeps DEF ClearAllSimulations, Inv
<1>5. ASSUME NEW t \in Threads, LoadRecord(t) PROVE Inv'
  BY <1>0, <1>5, LoadKeeps, SameSims DEF LoadRecord, Inv, Rest
<1>6. ASSUME NEW t \in Threads, Execute(t) PROVE Inv'
  BY <1>0, <1>6, ExecuteKeeps, SameSims DEF Execute, Inv, Rest
<1>7. ASSUME NEW t \in Threads, RecordExecution(t) PROVE Inv'
  BY <1>0, <1>7, RecordKeeps, SameSims DEF RecordExecution, Inv, Rest
<1>8. ASSUME NEW t \in Threads, MirrorRun(t) PROVE Inv'
  BY <1>0, <1>8, MirrorKeeps, SameSims DEF MirrorRun, Inv, Rest
<1>9. ASSUME UNCHANGED <<sims, lastId, registry, ran>>, cached' \in [Versions -> Execs \cup {None}],
             \A v \in Versions: cached'[v] \in {cached[v], None},
             \A t \in Threads: work'[t] \in {work[t], None}
      PROVE  Inv'
  <2>1. CacheInv' /\ RegistryInv' /\ ExecutionsOfTheirVersion'
    BY <1>9 DEF Inv, CacheInv, RegistryInv, ExecutionsOfTheirVersion
  <2> QED BY <1>0, <1>9, <2>1, SameSims, Forgetting DEF Inv
<1>10. ASSUME NEW t \in Threads,
              \/ UpdateSimulation(t) \/ UpdateRefused(t) \/ Recover(t)
              \/ RecordRefused(t) \/ RecordLocked(t) \/ MarkRequest(t) \/ RefuseDelete(t)
       PROVE  Inv'
  BY <1>9, <1>10
     DEF UpdateSimulation, UpdateRefused, Recover, RecordRefused, RecordLocked,
         MarkRequest, RefuseDelete, Inv, TypeOK
<1>11. CASE DropCached
  BY <1>9, <1>11 DEF DropCached, Inv, TypeOK
<1>12. CASE Restart
  BY <1>9, <1>12 DEF Restart, Inv, TypeOK
<1>13. CASE UNCHANGED vars
  BY <1>9, <1>13 DEF vars, Inv, TypeOK
<1>14. ASSUME NEW t \in Threads, BeginDelete(t) PROVE Inv'
  <2>1. UNCHANGED <<sims, lastId, registry, cached, ran>>
    BY <1>14 DEF BeginDelete
  <2>2. CacheInv' /\ RegistryInv' /\ ExecutionsOfTheirVersion'
    BY <2>1 DEF Inv, CacheInv, RegistryInv, ExecutionsOfTheirVersion
  <2>3. \A u \in Threads: work'[u] = work[u] \/ work'[u].op = "delete"
    BY <1>14 DEF BeginDelete, Inv, TypeOK
  <2>4. \A u \in Threads: Knows(u)'
    BY <2>1, <2>3 DEF Inv, Knows
  <2> QED BY <1>0, <2>1, <2>2, <2>4, SameSims DEF Inv
<1>15. ASSUME NEW t \in Threads, FinishDelete(t) PROVE Inv'
  <2>1. \A u \in Threads: work'[u] \in {work[u], None}
    BY <1>15 DEF FinishDelete, Inv, TypeOK
  <2> QED BY <1>0, <1>15, <2>1, FinishRemoves, RemoveKeeps DEF FinishDelete, Inv
<1> QED BY <1>1, <1>2, <1>3, <1>4, <1>5, <1>6, <1>7, <1>8, <1>10, <1>11, <1>12, <1>13,
           <1>14, <1>15 DEF Next

(* The invariant holds of every reachable state. *)
THEOREM Invariance == Spec => []Inv
BY InitInv, InvStep, PTL DEF Spec

(* Simulations, registry, cache, locks and the work of the handler threads stay
   in the sets the comments of Catalog describe. *)
THEOREM TypesHold == Spec => []TypeOK
<1>1. Inv => TypeOK
  BY DEF Inv
<1> QED BY Invariance, <1>1, PTL

(* The row of an execution belongs to the version the execution ran, whatever is
   deleted, registered again and answered from the cache meanwhile. *)
THEOREM RegistryFaithful == Spec => []ExecutionsOfTheirVersion
<1>1. Inv => ExecutionsOfTheirVersion
  BY DEF Inv
<1> QED BY Invariance, <1>1, PTL

(* A version is never registered twice, directly or by approval. *)
THEOREM VersionsUnique == Spec => []OneSimulationPerVersion
<1>1. Inv => OneSimulationPerVersion
  BY DEF Inv
<1> QED BY Invariance, <1>1, PTL

(* A step that takes a row out of the registry removes its simulation. *)
LEMMA KeptStep == Inv /\ [Next]_vars => \A e \in Execs:
  registry[e] # None => registry'[e] = registry[e] \/ sims'[registry[e]] = None
<1> SUFFICES ASSUME Inv, [Next]_vars, NEW e \in Execs, registry[e] # None,
                    registry'[e] # registry[e]
             PROVE  sims'[registry[e]] = None
  OBVIOUS
<1>0. registry[e] \in Ids /\ TypeOK
  BY DEF Inv, TypeOK
<1>1. ASSUME NEW I \in SUBSET Ids, Remove(I) PROVE sims'[registry[e]] = None
  BY <1>0, <1>1 DEF Remove
<1>2. ASSUME NEW t \in Threads, RecordExecution(t) PROVE FALSE
  BY <1>0, <1>2 DEF RecordExecution, TypeOK
<1>3. ASSUME NEW t \in Threads, DeleteSimulation(t) \/ ClearAllSimulations(t)
      PROVE  sims'[registry[e]] = None
  BY <1>1, <1>3 DEF DeleteSimulation, ClearAllSimulations
<1>4. ASSUME NEW t \in Threads, FinishDelete(t) PROVE sims'[registry[e]] = None
  BY <1>1, <1>4, FinishRemoves
<1>5. UNCHANGED registry \/ \E t \in Threads:
        RecordExecution(t) \/ DeleteSimulation(t) \/ ClearAllSimulations(t) \/ FinishDelete(t)
  BY DEF Next, vars, RegisterSimulation, UpdateSimulation, UpdateRefused, Recover,
         BeginDelete, RefuseDelete, LoadRecord, Execute, RecordRefused, RecordLocked,
         MirrorRun, ApproveSync, MarkRequest, DropCached, Restart
<1> QED BY <1>2, <1>3, <1>4, <1>5

(* No deletion, finished or refused, takes the record of an execution and leaves
   its simulation. *)
THEOREM RecordsStay == Spec => RecordsKept
<1>1. Inv /\ [Next]_vars => [\A e \in Execs: registry[e] # None =>
                               registry'[e] = registry[e] \/ sims'[registry[e]] = None]_vars
  BY KeptStep
<1> QED BY Invariance, <1>1, PTL DEF Spec, RecordsKept
=============================================================================
