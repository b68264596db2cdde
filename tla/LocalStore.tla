----------------------------- MODULE LocalStore -----------------------------
(***************************************************************************)
(* One installation's SQLite database, without any service configured: the *)
(* simulations deployed in it (repository/sqlite.py), the executions saved *)
(* in it (result/result.py) and its cache table, used by local executors   *)
(* (executor/local.py) in several threads or processes.                    *)
(*                                                                         *)
(* Each client has a connection of its own for the repository, and opens a *)
(* new one for each lookup, load, save and store.  A statement that writes *)
(* takes the one write lock of the database till its connection commits,   *)
(* rolls back or is closed.  SimulationRepository.delete and update_status *)
(* raise without doing either, so a client may hold the lock indefinitely. *)
(***************************************************************************)
EXTENDS Naturals, FiniteSets

CONSTANTS Clients,
          Names,        \* a name and version of a simulation
          Tagged,       \* those that are deployed with tags
          Inputs,
          Execs,        \* execution ids
          MaxDeploys,   \* bound on the deployments
          MaxHits,      \* bound on the hits of a cache row
          None

VARIABLES sims,    \* database id of each deployed simulation
          nextId,  \* the AUTOINCREMENT sequence of table simulations
          execs,   \* table executions
          cache,   \* table cache, by simulation id and inputs
          lock,    \* the client whose repository connection is in a transaction
          run,     \* the execute() call of each client
          hit,     \* the hit each client was last answered with
          hits     \* history: hits on a cache row since it was saved
vars == <<sims, nextId, execs, cache, lock, run, hit, hits>>

Ids == 1..MaxDeploys
CacheKeys == Ids \X Inputs
Statuses == {"completed", "failed"}
Executions == [name: Names, sid: Ids \cup {None}, input: Inputs, status: Statuses]
Runs == [name: Names, input: Inputs, caching: BOOLEAN, sid: Ids \cup {None},
         exec: Execs \cup {None}, status: Statuses,
         pc: {"resolve", "lookup", "load", "run", "save", "store"}]
Rows == [exec: Execs, access: Nat]

ASSUME ConstantsAssumption ==
  /\ Tagged \subseteq Names
  /\ MaxDeploys \in Nat /\ MaxHits \in Nat
  /\ None \notin Clients \cup Execs \cup Nat
  /\ None \notin Executions /\ None \notin Runs /\ None \notin Rows

TypeOK == /\ sims \in [Names -> Ids \cup {None}]
          /\ nextId \in 1..MaxDeploys + 1
          /\ execs \in [Execs -> Executions \cup {None}]
          /\ cache \in [CacheKeys -> Rows \cup {None}]
          /\ lock \in Clients \cup {None}
          /\ run \in [Clients -> Runs \cup {None}]
          /\ hit \in [Clients -> [name: Names, input: Inputs, exec: Execs] \cup {None}]
          /\ hits \in [CacheKeys -> Nat]

Init == /\ sims = [n \in Names |-> None]
        /\ nextId = 1
        /\ execs = [e \in Execs |-> None]
        /\ cache = [k \in CacheKeys |-> None]
        /\ lock = None
        /\ run = [c \in Clients |-> None]
        /\ hit = [c \in Clients |-> None]
        /\ hits = [k \in CacheKeys |-> 0]

-----------------------------------------------------------------------------
(* The repository.  A call that finds the database locked by another client
   raises after the busy timeout and changes nothing. *)

MayWrite(c) == lock \in {None, c}

Referenced(n) == n \in Tagged \/ \E e \in Execs: execs[e] # None /\ execs[e].sid = sims[n]

\* Mutant: ids are given out again, as without AUTOINCREMENT.
DeployReusingIds(c, n) ==
  /\ MayWrite(c)
  /\ sims[n] = None /\ nextId <= MaxDeploys
  /\ \E id \in Ids: /\ \A m \in Names: sims[m] # id
                    /\ sims' = [sims EXCEPT ![n] = id]
  /\ nextId' = nextId + 1
  /\ lock' = None
  /\ UNCHANGED <<execs, cache, run, hit, hits>>

(* deploy: commits the new row, or rolls back if the simulation exists. *)
Deploy(c, n) ==
  /\ MayWrite(c)
  /\ \/ /\ sims[n] = None /\ nextId <= MaxDeploys
        /\ sims' = [sims EXCEPT ![n] = nextId]
        /\ nextId' = nextId + 1
     \/ /\ sims[n] # None
        /\ UNCHANGED <<sims, nextId>>
  /\ lock' = None
  /\ UNCHANGED <<execs, cache, run, hit, hits>>

(* delete: a simulation that is not there, or that tags or executions refer to
   (foreign keys are enforced on this connection), raises with the transaction
   of its DELETE still open. *)
Delete(c, n) ==
  /\ MayWrite(c)
  /\ \/ /\ sims[n] # None /\ ~Referenced(n)
        /\ sims' = [sims EXCEPT ![n] = None]
        /\ lock' = None
     \/ /\ sims[n] = None \/ Referenced(n)
        /\ lock' = c
        /\ UNCHANGED sims
  /\ UNCHANGED <<nextId, execs, cache, run, hit, hits>>

(* update_status; no step of an execution reads the status. *)
Deprecate(c, n) ==
  /\ MayWrite(c)
  /\ lock' = IF sims[n] = None THEN c ELSE None
  /\ UNCHANGED <<sims, nextId, execs, cache, run, hit, hits>>

(* The repository object goes away and its connection is closed. *)
Discard(c) ==
  /\ lock = c
  /\ lock' = None
  /\ UNCHANGED <<sims, nextId, execs, cache, run, hit, hits>>

-----------------------------------------------------------------------------
(* LocalExecutor.execute, step by step. *)

At(c, pc) == run[c] # None /\ run[c].pc = pc

Goto(c, pc) == run' = [run EXCEPT ![c].pc = pc]

Return(c) == run' = [run EXCEPT ![c] = None]

Key(c) == <<run[c].sid, run[c].input>>

Start(c) ==
  /\ run[c] = None
  /\ \E n \in Names, i \in Inputs, caching \in BOOLEAN:
       run' = [run EXCEPT ![c] =
         [name |-> n, input |-> i, caching |-> caching, sid |-> None, exec |-> None,
          status |-> "failed", pc |-> IF caching THEN "resolve" ELSE "run"]]
  /\ hit' = [hit EXCEPT ![c] = None]
  /\ UNCHANGED <<sims, nextId, execs, cache, lock, hits>>

(* check_cache: the database id, on which the key depends. *)
Resolve(c) ==
  /\ At(c, "resolve")
  /\ LET id == sims[run[c].name] IN
       run' = [run EXCEPT ![c].sid = id, ![c].pc = IF id = None THEN "run" ELSE "lookup"]
  /\ UNCHANGED <<sims, nextId, execs, cache, lock, hit, hits>>

\* Mutant: the hit is not counted in the transaction that finds it.
LookupUncounted(c) ==
  /\ At(c, "lookup") /\ lock = None
  /\ IF cache[Key(c)] = None
     THEN Goto(c, "run") /\ UNCHANGED hits
     ELSE /\ hits[Key(c)] < MaxHits
          /\ hits' = [hits EXCEPT ![Key(c)] = @ + 1]
          /\ run' = [run EXCEPT ![c].exec = cache[Key(c)].exec, ![c].pc = "load"]
  /\ UNCHANGED <<sims, nextId, execs, cache, lock, hit>>

(* _check_cache_local: BEGIN IMMEDIATE, SELECT, UPDATE, commit. *)
Lookup(c) ==
  /\ At(c, "lookup") /\ lock = None
  /\ \/ /\ cache[Key(c)] = None
        /\ Goto(c, "run")
        /\ UNCHANGED <<cache, hits>>
     \/ /\ cache[Key(c)] # None
        /\ hits[Key(c)] < MaxHits
        /\ cache' = [cache EXCEPT ![Key(c)].access = @ + 1]
        /\ hits' = [hits EXCEPT ![Key(c)] = @ + 1]
        /\ run' = [run EXCEPT ![c].exec = cache[Key(c)].exec, ![c].pc = "load"]
  /\ UNCHANGED <<sims, nextId, execs, lock, hit>>

(* load_result of the execution found, in another connection. *)
LoadHit(c) ==
  /\ At(c, "load")
  /\ execs[run[c].exec] # None
  /\ hit' = [hit EXCEPT ![c] = [name |-> run[c].name, input |-> run[c].input,
                                exec |-> run[c].exec]]
  /\ Return(c)
  /\ UNCHANGED <<sims, nextId, execs, cache, lock, hits>>

Fresh(e) == execs[e] = None /\ \A c \in Clients: run[c] # None => run[c].exec # e

(* The database id is looked up a second time, and the function is called. *)
Run(c) ==
  /\ At(c, "run")
  /\ \E e \in Execs, s \in Statuses:
       /\ Fresh(e)
       /\ run' = [run EXCEPT ![c].sid = sims[run[c].name], ![c].exec = e,
                             ![c].status = s, ![c].pc = "save"]
  /\ UNCHANGED <<sims, nextId, execs, cache, lock, hit, hits>>

(* ExecutionResult.save: one transaction for the execution and the cache row,
   which it replaces whether or not the run has failed, or the executor uses
   the cache at all. *)
Save(c) ==
  /\ At(c, "save") /\ lock = None
  /\ execs' = [execs EXCEPT ![run[c].exec] =
       [name |-> run[c].name, sid |-> run[c].sid, input |-> run[c].input,
        status |-> run[c].status]]
  /\ IF run[c].sid = None
     THEN UNCHANGED <<cache, hits>>
     ELSE /\ cache' = [cache EXCEPT ![Key(c)] = [exec |-> run[c].exec, access |-> 1]]
          /\ hits' = [hits EXCEPT ![Key(c)] = 0]
  /\ IF run[c].caching /\ run[c].status = "completed" THEN Goto(c, "store") ELSE Return(c)
  /\ UNCHANGED <<sims, nextId, lock, hit>>

(* The lookup or the save raises, and with it execute(): the database stayed
   locked, or an output cannot be written as JSON. *)
Raise(c) ==
  /\ (At(c, "lookup") /\ lock # None) \/ At(c, "save")
  /\ Return(c)
  /\ UNCHANGED <<sims, nextId, execs, cache, lock, hit, hits>>

Accesses(k) == IF cache[k] = None THEN 0 ELSE cache[k].access

(* _store_cache: the row is written again, with the accesses it has by now; an
   exception is logged and dropped. *)
Store(c) ==
  /\ At(c, "store")
  /\ \/ /\ run[c].sid # None /\ lock = None
        /\ cache' = [cache EXCEPT ![Key(c)] =
                       [exec |-> run[c].exec, access |-> Accesses(Key(c))]]
     \/ /\ run[c].sid = None \/ lock # None
        /\ UNCHANGED cache
  /\ Return(c)
  /\ UNCHANGED <<sims, nextId, execs, lock, hit, hits>>

Next == \E c \in Clients:
          \/ Start(c) \/ Resolve(c) \/ Lookup(c) \/ LoadHit(c) \/ Run(c)
          \/ Save(c) \/ Raise(c) \/ Store(c) \/ Discard(c)
          \/ \E n \in Names: Deploy(c, n) \/ Delete(c, n) \/ Deprecate(c, n)

Spec == Init /\ [][Next]_vars

-----------------------------------------------------------------------------
(* A hit is a saved execution of the simulation and inputs it was asked for.
   Executions can be saved for a simulation that was deleted while they ran
   (save does not enforce foreign keys); this says they are never taken for
   executions of a simulation deployed later. *)
HitsBelong == \A c \in Clients: hit[c] # None =>
                /\ execs[hit[c].exec] # None
                /\ execs[hit[c].exec].name = hit[c].name
                /\ execs[hit[c].exec].input = hit[c].input

(* access_count counts the save and each hit since, with no update lost among
   concurrent lookups and the second write of the row by _store_cache. *)
AccessesCounted == \A k \in CacheKeys: cache[k] # None => cache[k].access = hits[k] + 1
=============================================================================
