--------------------------- MODULE IsolatedWorker ---------------------------
(***************************************************************************)
(* IsolatedFunctionExecutor.execute after its cache lookup missed          *)
(* (executor/isolated.py): a child Python process, the worker, runs the    *)
(* workflow and leaves its outputs in a file; the parent waits for the     *)
(* worker's pipes to close and for its exit, kills the worker's process    *)
(* group when that takes longer than timeout_seconds, reads the file,      *)
(* removes the temporary directory, saves the result and stores it in the  *)
(* cache service.                                                          *)
(*                                                                         *)
(* The workflow is the user's: it may start descendants, which inherit the *)
(* worker's stdout and stderr and belong to its process group until they   *)
(* close the pipes or start a session of their own; it may end the worker  *)
(* at any point, and the operating system may.  POSIX branch of the code.  *)
(***************************************************************************)
EXTENDS Naturals, FiniteSets

CONSTANTS Descendants,   \* processes that the workflow may start
          Saves,         \* save_result of the executor
          Caches,        \* cache, with a cache service configured
          NotRunning

ASSUME IsolatedWorkerAssumption ==
  {Saves, Caches} \subseteq BOOLEAN /\ NotRunning \notin [holds: BOOLEAN, grouped: BOOLEAN]

VARIABLES
  pc,        \* where the parent is in execute()
  worker,    \* the worker: not started, running, exited, exited and reaped
  code,      \* its exit code: 0, or 1 for every other code and for a signal
  file,      \* outputs.json
  procs,     \* procs[d]: does d hold the pipes, is it in the worker's group
  timedOut,  \* communicate raised TimeoutExpired
  payload,   \* what _run_worker is going to return
  status,    \* result.status
  saved,     \* the result is in the database
  cached     \* the cache service was given the result

child == <<worker, code, file, procs>>
result == <<status, saved, cached>>
workerVars == <<pc, child, timedOut, payload, result>>

Alive == {d \in Descendants: procs[d] # NotRunning}
Holders == {d \in Alive: procs[d].holds}
Group == {d \in Alive: procs[d].grouped}

\* Every write end of the worker's stdout and stderr is closed.
PipesClosed == worker \in {"exited", "reaped"} /\ Holders = {}

Steps == {"start", "waiting", "kill", "drain", "read", "leave", "save", "store", "done"}
Outcomes == {"ok", "error"}

WorkerTypeOK ==
  /\ pc \in Steps
  /\ worker \in {"absent", "running", "exited", "reaped"}
  /\ code \in 0..1
  /\ file \in Outcomes \cup {"none", "partial"}
  /\ procs \in [Descendants -> [holds: BOOLEAN, grouped: BOOLEAN] \cup {NotRunning}]
  /\ timedOut \in BOOLEAN
  /\ payload \in Outcomes \cup {"none"}
  /\ status \in {"pending", "completed", "failed"}
  /\ saved \in BOOLEAN
  /\ cached \in BOOLEAN

WorkerInit ==
  /\ pc = "start"
  /\ worker = "absent"
  /\ code = 0
  /\ file = "none"
  /\ procs = [d \in Descendants |-> NotRunning]
  /\ timedOut = FALSE
  /\ payload = "none"
  /\ status = "pending"
  /\ saved = FALSE
  /\ cached = FALSE

Go(from, to) == pc = from /\ pc' = to

-----------------------------------------------------------------------------
(* The worker and its descendants. *)

parent == <<pc, timedOut, payload, result>>

\* The workflow, or a descendant of the worker, starts a process.
Fork(d) ==
  /\ procs[d] = NotRunning
  /\ \/ worker = "running" /\ procs' = [procs EXCEPT ![d] = [holds |-> TRUE, grouped |-> TRUE]]
     \/ \E p \in Alive: procs' = [procs EXCEPT ![d] = procs[p]]
  /\ UNCHANGED <<parent, worker, code, file>>

\* A descendant redirects its output, leaves the process group, or ends.
Detach(d) ==
  /\ d \in Alive
  /\ procs' \in {[procs EXCEPT ![d].holds = FALSE], [procs EXCEPT ![d].grouped = FALSE],
                 [procs EXCEPT ![d] = NotRunning]}
  /\ UNCHANGED <<parent, worker, code, file>>

\* Path.write_text truncates the file ...
OpenOutput == /\ worker = "running"
              /\ file = "none"
              /\ file' = "partial"
              /\ UNCHANGED <<parent, worker, code, procs>>

\* ... and fills it: with the outputs, or with the error when the workflow
\* raised or the outputs could not be written.
WriteOutput == /\ worker = "running"
               /\ file = "partial"
               /\ file' \in Outcomes
               /\ UNCHANGED <<parent, worker, code, procs>>

(* The script comes to its end: code 0 after the outputs, unless the shutdown
   of the interpreter fails, and 1 after the error, which is raised again.  Or
   the workflow leaves by SystemExit or os._exit, with any code and no
   complete file, or a signal or a crash ends the worker. *)
WorkerExits ==
  /\ worker = "running"
  /\ worker' = "exited"
  /\ code' \in IF file = "error" THEN {1} ELSE {0, 1}
  /\ UNCHANGED <<parent, file, procs>>

-----------------------------------------------------------------------------
(* The parent. *)

(* subprocess.Popen; the inputs may not be serializable. *)
StartWorker ==
  /\ pc = "start"
  /\ \/ pc' = "waiting" /\ worker' = "running" /\ UNCHANGED payload
     \/ pc' = "leave" /\ payload' = "error" /\ UNCHANGED worker
  /\ UNCHANGED <<code, file, procs, timedOut, result>>

(* communicate returns: end of file on both pipes, and the worker's exit. *)
Communicated ==
  /\ Go("waiting", "read")
  /\ PipesClosed
  /\ worker' = "reaped"
  /\ UNCHANGED <<code, file, procs, timedOut, payload, result>>

(* TimeoutExpired, however close the worker was to its end. *)
TimesOut ==
  /\ Go("waiting", "kill")
  /\ timedOut' = TRUE
  /\ UNCHANGED <<child, payload, result>>

\* Mutant: only the worker is killed, not its process group.
KillWorkerOnly ==
  /\ Go("kill", "drain")
  /\ worker' = IF worker = "running" THEN "exited" ELSE "reaped"
  /\ code' = IF worker = "running" THEN 1 ELSE code
  /\ UNCHANGED <<file, procs, timedOut, payload, result>>

\* Mutant: SIGTERM, which the worker may ignore.
TerminateProcessTree ==
  /\ Go("kill", "drain")
  /\ UNCHANGED <<child, timedOut, payload, result>>

(* _kill_process_tree: poll reaps a worker that has exited, and then nothing
   is killed; otherwise killpg ends every process of the group. *)
KillProcessTree ==
  /\ Go("kill", "drain")
  /\ IF worker = "running"
     THEN /\ worker' = "exited"
          /\ code' = 1
          /\ procs' = [d \in Descendants |-> IF d \in Group THEN NotRunning ELSE procs[d]]
     ELSE worker' = "reaped" /\ UNCHANGED <<code, procs>>
  /\ UNCHANGED <<file, timedOut, payload, result>>

\* Mutant: the second communicate has a timeout of its own, and what the
\* worker wrote is used after all.
DrainAndRead ==
  /\ Go("drain", "read")
  /\ worker' = "reaped"
  /\ UNCHANGED <<code, file, procs, timedOut, payload, result>>

(* The second communicate, which has no timeout; the payload says timed out. *)
Drain ==
  /\ Go("drain", "leave")
  /\ PipesClosed
  /\ worker' = "reaped"
  /\ payload' = "error"
  /\ UNCHANGED <<code, file, procs, timedOut, result>>

\* Mutant: the exit code is not looked at.
ReadOutputAlone ==
  /\ Go("read", "leave")
  /\ payload' = IF file = "ok" THEN "ok" ELSE "error"
  /\ UNCHANGED <<child, timedOut, result>>

(* The file is missing, not JSON, or an error: failed.  Outputs count when the
   exit code is 0. *)
ReadOutput ==
  /\ Go("read", "leave")
  /\ payload' = IF file = "ok" /\ code = 0 THEN "ok" ELSE "error"
  /\ UNCHANGED <<child, timedOut, result>>

(* Leaving the TemporaryDirectory block and the try of execute: the removal
   of the directory can fail while a descendant still writes to it, and
   set_outputs can refuse the outputs; both become a failed result. *)
LeaveRun ==
  /\ Go("leave", "save")
  /\ status' \in IF payload = "ok" THEN {"completed", "failed"} ELSE {"failed"}
  /\ UNCHANGED <<child, timedOut, payload, saved, cached>>

(* result.save(), when asked for; it may raise, and execute with it. *)
SaveResult ==
  /\ pc = "save"
  /\ \/ pc' = "store" /\ saved' = Saves
     \/ Saves /\ pc' = "done" /\ UNCHANGED saved
  /\ UNCHANGED <<child, timedOut, payload, status, cached>>

(* _store_cache_service: completed results only, and errors are warnings. *)
StoreCache ==
  /\ Go("store", "done")
  /\ cached' \in {FALSE, Caches /\ status = "completed"}
  /\ UNCHANGED <<child, timedOut, payload, status, saved>>

ParentStep ==
  \/ StartWorker \/ Communicated \/ TimesOut \/ KillProcessTree \/ Drain
  \/ ReadOutput \/ LeaveRun \/ SaveResult \/ StoreCache

WorkerNext ==
  \/ ParentStep
  \/ OpenOutput \/ WriteOutput \/ WorkerExits
  \/ \E d \in Descendants: Fork(d) \/ Detach(d)

WorkerSpec == WorkerInit /\ [][WorkerNext]_workerVars

(* The parent's thread is scheduled, and its timer fires (timeout_seconds is
   always set).  Nothing is assumed of the workflow: it may hang for ever. *)
FairWorkerSpec == WorkerSpec /\ WF_workerVars(ParentStep)

-----------------------------------------------------------------------------
(* A result is completed, and offered to other callers through the cache, only
   when the worker wrote all of its outputs, exited with code 0 and did so
   within the timeout; and what is offered was saved first if it is to be. *)
CompletedMeansSucceeded ==
  /\ status = "completed" => file = "ok" /\ code = 0 /\ ~timedOut
  /\ cached => status = "completed" /\ (Saves => saved)

(* When _run_worker is left the worker is gone for good, reaped, and nobody
   writes to its pipes any more. *)
WorkerGone == pc \in {"read", "leave", "save", "store", "done"} =>
                /\ worker \in {"absent", "reaped"}
                /\ Holders = {}

(* What is left of the worker's process group when a timeout has been dealt
   with belongs to a worker that had exited by itself before the kill; what a
   killed worker had started is gone and does not come back. *)
SurvivorsHadOwnExit == pc = "drain" /\ Group # {} => worker = "reaped"

(* execute returns, whatever the workflow does, unless some descendant keeps
   the worker's pipes open for ever. *)
ReturnsUnlessHeld == <>(pc = "done") \/ <>[](Holders # {})
=============================================================================
