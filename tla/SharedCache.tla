---------------------------- MODULE SharedCache ----------------------------
(***************************************************************************)
(* Several sim2l installations that share a cache service and a results    *)
(* service.  Each installation runs NotebookExecutor.execute: look the     *)
(* SQUID id up in the cache service, load the execution it names from the  *)
(* installation's own database or else from the results service, or run    *)
(* the simulation, save the result locally, store it in the cache service  *)
(* and register it with the results service.                               *)
(*                                                                         *)
(* Every call of a service may be lost, answered with an error, or time    *)
(* out at the client and be carried out later: the clients turn all of     *)
(* these into a miss or a warning and go on.  Operators invalidate, delete *)
(* and clear at any time.                                                  *)
(***************************************************************************)
EXTENDS Naturals, FiniteSets

CONSTANTS Insts,         \* installations, each with its own sim2l database
          Registering,   \* those whose executor registers with the results
                         \* service (register_results of NotebookExecutor; the
                         \* function executors have no such step)
          Keys,          \* SQUID ids
          Execs,         \* execution ids (uuid4, never reused)
          MaxLate,       \* bound: calls given up and still to be carried out
          Nothing

VARIABLES
  entries,   \* cache_entries of the cache service, by cache_key
  rows,      \* execution_results of the results service
  db,        \* db[i]: executions saved in the database of installation i
  runs,      \* runs[e]: key and outcome of execution e, Nothing if unborn
  net,       \* calls given up by the client that the service still carries out
  pc,        \* where each installation is in execute()
  job,       \* the key it was asked for
  cur,       \* the execution it is loading, or its own run
  answer     \* what execute() returned

services == <<entries, rows, net>>
vars == <<entries, rows, db, runs, net, pc, job, cur, answer>>

Entry == [exec: Execs, status: {"valid", "invalidated"}]
Row == [exec: Execs, squid: Keys, outs: Execs]
Run == [key: Keys, status: {"completed", "failed"}]
Call == [op: {"set", "register"}, key: Keys, exec: Execs]
Steps == {"idle", "lookup", "load", "run", "save", "store", "register"}

ASSUME SharedCacheAssumption == /\ Registering \subseteq Insts
                                /\ Nothing \notin Execs \cup Run
                                /\ MaxLate \in Nat

TypeOK == /\ entries \in [Keys -> Entry \cup {Nothing}]
          /\ rows \subseteq Row
          /\ db \in [Insts -> SUBSET Execs]
          /\ runs \in [Execs -> Run \cup {Nothing}]
          /\ net \subseteq Call
          /\ pc \in [Insts -> Steps]
          /\ job \in [Insts -> Keys \cup {Nothing}]
          /\ cur \in [Insts -> Execs \cup {Nothing}]
          /\ answer \in [Insts -> [key: Keys, outs: Execs \cup {Nothing}]
                                    \cup {Nothing}]

Init == /\ entries = [k \in Keys |-> Nothing]
        /\ rows = {}
        /\ db = [i \in Insts |-> {}]
        /\ runs = [e \in Execs |-> Nothing]
        /\ net = {}
        /\ pc = [i \in Insts |-> "idle"]
        /\ job = [i \in Insts |-> Nothing]
        /\ cur = [i \in Insts |-> Nothing]
        /\ answer = [i \in Insts |-> Nothing]

-----------------------------------------------------------------------------
(* The two services' transactions. *)

Valid(k) == entries[k] # Nothing /\ entries[k].status = "valid"

\* SQLiteCacheBackend.set: INSERT OR REPLACE, and the row is valid again.
SetEntry(k, e) == entries' = [entries EXCEPT ![k] = [exec |-> e, status |-> "valid"]]

\* Mutant: the update is not restricted to the conflicting row.
UpsertedAll(k, e) ==
  IF \E r \in rows: r.squid = k THEN {[r EXCEPT !.outs = e]: r \in rows}
  ELSE rows \cup {[exec |-> e, squid |-> k, outs |-> e]}

\* register_result: ON CONFLICT(squid_id) DO UPDATE of the outputs; the row
\* keeps the execution_id it was first registered under.
Upserted(k, e) ==
  IF \E r \in rows: r.squid = k
  THEN {IF r.squid = k THEN [r EXCEPT !.outs = e] ELSE r: r \in rows}
  ELSE rows \cup {[exec |-> e, squid |-> k, outs |-> e]}

Carry(c) == CASE c.op = "set"      -> SetEntry(c.key, c.exec) /\ UNCHANGED rows
              [] c.op = "register" -> rows' = Upserted(c.key, c.exec) /\ UNCHANGED entries

\* A call as the client experiences it: carried out, lost or refused, or timed
\* out while the service is still going to carry it out.
Send(c) == \/ Carry(c) /\ UNCHANGED net
           \/ UNCHANGED services
           \/ /\ Cardinality(net) < MaxLate
              /\ net' = net \cup {c}
              /\ UNCHANGED <<entries, rows>>

-----------------------------------------------------------------------------
(* One installation executing simulations one after another. *)

Go(i, from, to) == /\ pc[i] = from
                   /\ pc' = [pc EXCEPT ![i] = to]

\* execute() is left, and with it its local variables.
Leave(i) == /\ pc' = [pc EXCEPT ![i] = "idle"]
            /\ job' = [job EXCEPT ![i] = Nothing]
            /\ cur' = [cur EXCEPT ![i] = Nothing]

Return(i, outs) == /\ Leave(i)
                   /\ answer' = [answer EXCEPT ![i] = [key |-> job[i], outs |-> outs]]

Request(i) ==
  /\ Go(i, "idle", "lookup")
  /\ \E k \in Keys: job' = [job EXCEPT ![i] = k]
  /\ answer' = [answer EXCEPT ![i] = Nothing]
  /\ UNCHANGED <<services, db, runs, cur>>

(* _check_cache_service: GET /cache/{squid} answers 200 with an execution id. *)
LookupHit(i) ==
  /\ Go(i, "lookup", "load")
  /\ Valid(job[i])
  /\ cur' = [cur EXCEPT ![i] = entries[job[i]].exec]
  /\ UNCHANGED <<services, db, runs, job, answer>>

(* 404, any other status, a timeout or a refused connection are a miss. *)
LookupMiss(i) ==
  /\ Go(i, "lookup", "run")
  /\ UNCHANGED <<services, db, runs, job, cur, answer>>

(* load_result_with_fallback finds the execution in the own database ... *)
LoadLocal(i) ==
  /\ pc[i] = "load"
  /\ cur[i] \in db[i]
  /\ Return(i, cur[i])
  /\ UNCHANGED <<services, db, runs>>

(* ... or rebuilds it from the results service's row of that execution id ... *)
LoadRemote(i) ==
  /\ pc[i] = "load"
  /\ cur[i] \notin db[i]
  /\ \E r \in rows: r.exec = cur[i] /\ Return(i, r.outs)
  /\ UNCHANGED <<services, db, runs>>

(* ... or raises, which check_cache treats as a miss: no such row, or the
   results service cannot be reached. *)
LoadFails(i) ==
  /\ Go(i, "load", "run")
  /\ cur[i] \notin db[i]
  /\ UNCHANGED <<services, db, runs, job, cur, answer>>

(* The simulation runs under a fresh execution id, and completes or fails. *)
Execute(i) ==
  /\ Go(i, "run", "save")
  /\ \E e \in {x \in Execs: runs[x] = Nothing}, s \in {"completed", "failed"}:
       /\ runs' = [runs EXCEPT ![e] = [key |-> job[i], status |-> s]]
       /\ cur' = [cur EXCEPT ![i] = e]
  /\ UNCHANGED <<services, db, job, answer>>

\* Mutant: results are published whatever their status.
SaveResultUnchecked(i) ==
  /\ Go(i, "save", "store")
  /\ db' = [db EXCEPT ![i] = @ \cup {cur[i]}]
  /\ UNCHANGED <<services, runs, job, cur, answer>>

(* result.save(); a failed run is returned at once, neither cached nor
   registered. *)
SaveResult(i) ==
  /\ pc[i] = "save"
  /\ db' = [db EXCEPT ![i] = @ \cup {cur[i]}]
  /\ IF runs[cur[i]].status = "completed"
     THEN Go(i, "save", "store") /\ UNCHANGED <<job, cur, answer>>
     ELSE Return(i, Nothing)
  /\ UNCHANGED <<services, runs>>

(* _store_cache_service, then execute returns unless results are registered. *)
StoreCache(i) ==
  /\ pc[i] = "store"
  /\ Send([op |-> "set", key |-> job[i], exec |-> cur[i]])
  /\ IF i \in Registering
     THEN Go(i, "store", "register") /\ UNCHANGED <<job, cur, answer>>
     ELSE Return(i, cur[i])
  /\ UNCHANGED <<db, runs>>

(* _register_result_via_api: POST /register_direct, then execute returns. *)
RegisterResult(i) ==
  /\ pc[i] = "register"
  /\ Send([op |-> "register", key |-> job[i], exec |-> cur[i]])
  /\ Return(i, cur[i])
  /\ UNCHANGED <<db, runs>>

(* The installation's process dies: its database survives. *)
Crash(i) ==
  /\ pc[i] # "idle"
  /\ Leave(i)
  /\ UNCHANGED <<services, db, runs, answer>>

-----------------------------------------------------------------------------
(* The services on their own. *)

clients == <<db, runs, pc, job, cur, answer>>

\* A service carries out a call whose client has given up.
CarryLate(c) == /\ c \in net
                /\ net' = net \ {c}
                /\ Carry(c)
                /\ UNCHANGED clients

(* POST /cache/invalidate: the filters select some of the keys. *)
Invalidate(K) ==
  /\ \E k \in K: Valid(k)
  /\ entries' = [k \in Keys |-> IF k \in K /\ Valid(k)
                                THEN [entries[k] EXCEPT !.status = "invalidated"]
                                ELSE entries[k]]
  /\ UNCHANGED <<rows, net, clients>>

(* DELETE /cache/{key} and DELETE /cache *)
DeleteEntries(K) ==
  /\ \E k \in K: entries[k] # Nothing
  /\ entries' = [k \in Keys |-> IF k \in K THEN Nothing ELSE entries[k]]
  /\ UNCHANGED <<rows, net, clients>>

(* DELETE /results/{execution_id} *)
DeleteResult(e) ==
  /\ \E r \in rows: r.exec = e
  /\ rows' = {r \in rows: r.exec # e}
  /\ UNCHANGED <<entries, net, clients>>

InstStep(i) ==
  \/ Request(i) \/ LookupHit(i) \/ LookupMiss(i) \/ LoadLocal(i)
  \/ LoadRemote(i) \/ LoadFails(i) \/ Execute(i) \/ SaveResult(i)
  \/ StoreCache(i) \/ RegisterResult(i) \/ Crash(i)

Next == \/ \E i \in Insts: InstStep(i)
        \/ \E c \in net: CarryLate(c)
        \/ \E K \in SUBSET Keys: Invalidate(K) \/ DeleteEntries(K)
        \/ \E e \in Execs: DeleteResult(e)

Spec == Init /\ [][Next]_vars

-----------------------------------------------------------------------------
Saved(e) == \E i \in Insts: e \in db[i]

Completed(k) == {e \in Execs: runs[e] = [key |-> k, status |-> "completed"]
                                /\ Saved(e)}

(* Nothing that other installations can come across (a cache entry, the outputs
   in a results row, a call still under way) refers to a run that failed, was
   for another key, or was lost with its installation before it was saved: the
   order run, save, store, register, and the status checks, see to that. *)
PublishedRunsAreSaved ==
  /\ \A k \in Keys: entries[k] # Nothing => entries[k].exec \in Completed(k)
  /\ \A r \in rows: {r.exec, r.outs} \subseteq Completed(r.squid)
  /\ \A c \in net: c.exec \in Completed(c.key)

(* Whatever the caches, the services and the network do, execute() answers with
   the outputs of a completed run of the key that was asked for. *)
RR == INSTANCE ResultReuse WITH done <- [k \in Keys |-> Completed(k)]
ImplementsReuse == RR!ASpec
=============================================================================
