---------------------------- MODULE ExecutionEnv ----------------------------
(***************************************************************************)
(* NotebookExecutor.execute as the worker threads of one service process   *)
(* run it (executor/notebook.py).  The identity of a run reaches the       *)
(* Papermill kernel through the process-wide os.environ: a thread takes    *)
(* _EXECUTION_ENV_LOCK, remembers the previous value, writes its execution *)
(* id, lets Papermill spawn a kernel that inherits the environment, and    *)
(* restores the previous value on the way out, raised or not.  In the      *)
(* kernel, api.save_outputs files the outputs under the inherited id.      *)
(*                                                                         *)
(* One environment value stands for the three keys the code sets together; *)
(* one output stands for the outputs of a run (save_outputs writes all of  *)
(* them in one commit).                                                    *)
(***************************************************************************)
EXTENDS FiniteSets

CONSTANTS Threads,      \* worker threads of the process
          Runs,         \* execution ids, one per run (uuid4)
          NoRun,        \* SIM2L_EXECUTION_ID is not set
          CallerRun,    \* an id that was set before this process ran anything:
                        \* the process was itself started from a notebook run
          Free          \* nobody holds the lock

ASSUME DistinctNames == /\ NoRun \notin Runs /\ CallerRun \notin Runs
                        /\ NoRun # CallerRun /\ Free \notin Threads

VARIABLES
  lock,         \* holder of _EXECUTION_ENV_LOCK
  env,          \* os.environ["SIM2L_EXECUTION_ID"]
  outer,        \* the value the process was started with
  pc,           \* where each thread is in execute()
  created,      \* every execution id handed out so far
  run,          \* the execution id of the thread's current run
  previous,     \* what _execution_environment saved
  body,         \* how the thread's with-block went
  kernels,      \* live kernels: the id inherited, the run that spawned it
  outputs,      \* rows of the outputs table: id filed under, producing run
  extracted,    \* what _extract_outputs returned to the thread
  executions    \* rows of the executions table: run, status, outputs stored

vars == <<lock, env, outer, created, pc, run, previous, body, kernels,
          outputs, extracted, executions>>
proc == <<lock, env, outer, created, previous>>

EnvValues == Runs \cup {NoRun, CallerRun}
Steps == {"idle", "created", "locked", "set", "running", "ended", "restored",
          "left", "extracted"}

TypeOK == /\ lock \in Threads \cup {Free}
          /\ env \in EnvValues
          /\ outer \in {NoRun, CallerRun}
          /\ created \subseteq Runs
          /\ pc \in [Threads -> Steps]
          /\ run \in [Threads -> Runs \cup {NoRun}]
          /\ previous \in [Threads -> EnvValues]
          /\ body \in [Threads -> {"none", "ok", "raised"}]
          /\ kernels \subseteq [id: EnvValues, of: Runs]
          /\ outputs \subseteq [id: EnvValues, of: Runs]
          /\ extracted \in [Threads -> SUBSET Runs]
          /\ executions \subseteq [run: Runs, status: {"completed", "failed"},
                                   outs: SUBSET Runs]

Init == /\ lock = Free
        /\ outer \in {NoRun, CallerRun}
        /\ env = outer
        /\ created = {}
        /\ pc = [t \in Threads |-> "idle"]
        /\ run = [t \in Threads |-> NoRun]
        /\ previous = [t \in Threads |-> NoRun]
        /\ body = [t \in Threads |-> "none"]
        /\ kernels = {}
        /\ outputs = {}
        /\ extracted = [t \in Threads |-> {}]
        /\ executions = {}

Go(t, from, to) == /\ pc[t] = from
                   /\ pc' = [pc EXCEPT ![t] = to]

\* The rows _extract_outputs and save look up.
FiledUnder(r) == {o.of: o \in {x \in outputs: x.id = r}}

\* INSERT OR REPLACE on UNIQUE(execution_id, name)
Replaced(id, r) == {o \in outputs: o.id # id} \cup {[id |-> id, of |-> r]}

KernelsOf(t) == {k \in kernels: k.of = run[t]}

(* execute up to ExecutionResult.create: a fresh execution id. *)
CreateRun(t) ==
  /\ Go(t, "idle", "created")
  /\ \E r \in Runs \ created: /\ run' = [run EXCEPT ![t] = r]
                             /\ created' = created \cup {r}
  /\ body' = [body EXCEPT ![t] = "none"]
  /\ extracted' = [extracted EXCEPT ![t] = {}]
  /\ UNCHANGED <<lock, env, outer, previous, kernels, outputs, executions>>

\* Mutant: no lock, the code before _EXECUTION_ENV_LOCK was added.
EnterEnvUnlocked(t) ==
  /\ Go(t, "created", "locked")
  /\ lock' = t
  /\ previous' = [previous EXCEPT ![t] = env]
  /\ UNCHANGED <<env, outer, created, run, body, kernels, outputs, extracted,
                 executions>>

(* with _EXECUTION_ENV_LOCK: previous = {key: os.environ.get(key) ...} *)
EnterEnv(t) ==
  /\ Go(t, "created", "locked")
  /\ lock = Free
  /\ lock' = t
  /\ previous' = [previous EXCEPT ![t] = env]
  /\ UNCHANGED <<env, outer, created, run, body, kernels, outputs, extracted,
                 executions>>

\* Mutant: the lock covers the set but not the spawn and the restore.
SetEnvAndUnlock(t) ==
  /\ Go(t, "locked", "set")
  /\ env' = run[t]
  /\ lock' = Free
  /\ UNCHANGED <<outer, created, previous, run, body, kernels, outputs,
                 extracted, executions>>

(* os.environ.update(values) *)
SetEnv(t) ==
  /\ Go(t, "locked", "set")
  /\ env' = run[t]
  /\ UNCHANGED <<lock, outer, created, previous, run, body, kernels, outputs,
                 extracted, executions>>

(* pm.execute_notebook launches a kernel that inherits os.environ. *)
SpawnKernel(t) ==
  /\ Go(t, "set", "running")
  /\ kernels' = kernels \cup {[id |-> env, of |-> run[t]]}
  /\ UNCHANGED <<proc, run, body, outputs, extracted, executions>>

(* api.save_outputs in a kernel: nothing is stored unless an id was inherited.
   It may be called again, and by a kernel whose parent process died. *)
SaveOutputs(k) ==
  /\ k \in kernels
  /\ k.id # NoRun
  /\ outputs' = Replaced(k.id, k.of)
  /\ UNCHANGED <<proc, pc, run, body, kernels, extracted, executions>>

(* An orphaned kernel of a dead process runs to its end. *)
OrphanExits(k) ==
  /\ k \in kernels
  /\ \A t \in Threads: pc[t] = "running" => run[t] # k.of
  /\ kernels' = kernels \ {k}
  /\ UNCHANGED <<proc, pc, run, body, outputs, extracted, executions>>

(* execute_notebook returns; Papermill has shut the kernel down. *)
NotebookReturns(t) ==
  /\ Go(t, "running", "ended")
  /\ body' = [body EXCEPT ![t] = "ok"]
  /\ kernels' = kernels \ KernelsOf(t)
  /\ UNCHANGED <<proc, run, outputs, extracted, executions>>

(* execute_notebook raises: the kernel did not start within start_timeout, a
   cell failed, or a cell ran into execution_timeout. *)
NotebookRaises(t) ==
  /\ pc[t] \in {"set", "running"}
  /\ pc' = [pc EXCEPT ![t] = "ended"]
  /\ body' = [body EXCEPT ![t] = "raised"]
  /\ kernels' = kernels \ KernelsOf(t)
  /\ UNCHANGED <<proc, run, outputs, extracted, executions>>

\* Mutant: restored on the success path only, as the old code did.
RestoreEnvOnSuccess(t) ==
  /\ Go(t, "ended", "restored")
  /\ env' = IF body[t] = "ok" THEN previous[t] ELSE env
  /\ UNCHANGED <<lock, outer, created, previous, run, body, kernels, outputs,
                 extracted, executions>>

(* finally: put every previous value back *)
RestoreEnv(t) ==
  /\ Go(t, "ended", "restored")
  /\ env' = previous[t]
  /\ UNCHANGED <<lock, outer, created, previous, run, body, kernels, outputs,
                 extracted, executions>>

\* Mutant: acquire and release without a with-block, skipped by an exception.
LeaveEnvOnSuccess(t) ==
  /\ Go(t, "restored", "left")
  /\ lock' = IF body[t] = "ok" THEN Free ELSE lock
  /\ UNCHANGED <<env, outer, created, previous, run, body, kernels, outputs,
                 extracted, executions>>

(* Leaving the with-block releases the lock, raised or not. *)

LeaveEnv(t) ==
  /\ Go(t, "restored", "left")
  /\ lock' = Free
  /\ UNCHANGED <<env, outer, created, previous, run, body, kernels, outputs,
                 extracted, executions>>

(* _extract_outputs: the rows filed under the run's id, or else what scrapbook
   finds in the executed notebook; a raised body goes straight to save. *)
ExtractOutputs(t) ==
  /\ Go(t, "left", "extracted")
  /\ \E found \in SUBSET {run[t]}:
       extracted' = [extracted EXCEPT
         ![t] = IF body[t] = "raised" THEN {}
                ELSE IF FiledUnder(run[t]) # {} THEN FiledUnder(run[t])
                ELSE found]
  /\ UNCHANGED <<proc, run, body, kernels, outputs, executions>>

(* result.save(): the executions row, and the outputs not stored already. *)
SaveResult(t) ==
  /\ Go(t, "extracted", "idle")
  /\ executions' = executions \cup
       {[run    |-> run[t],
         status |-> IF body[t] = "ok" THEN "completed" ELSE "failed",
         outs   |-> extracted[t]]}
  /\ outputs' = IF FiledUnder(run[t]) = {}
                THEN outputs \cup {[id |-> run[t], of |-> o]: o \in extracted[t]}
                ELSE outputs
  /\ UNCHANGED <<proc, run, body, kernels, extracted>>

(* The process dies and is started again: threads, lock and environment are
   gone; kernels are processes of their own and the tables are on disk. *)
Crash ==
  /\ \E t \in Threads: pc[t] # "idle"
  /\ lock' = Free
  /\ env' = outer
  /\ pc' = [t \in Threads |-> "idle"]
  /\ UNCHANGED <<outer, created, run, previous, body, kernels, outputs,
                 extracted, executions>>

ThreadStep(t) ==
  \/ CreateRun(t) \/ EnterEnv(t) \/ SetEnv(t) \/ SpawnKernel(t)
  \/ NotebookReturns(t) \/ NotebookRaises(t) \/ RestoreEnv(t) \/ LeaveEnv(t)
  \/ ExtractOutputs(t) \/ SaveResult(t)

Next == \/ \E t \in Threads: ThreadStep(t)
        \/ \E k \in kernels: SaveOutputs(k) \/ OrphanExits(k)
        \/ Crash

Spec == Init /\ [][Next]_vars

(* Scheduling: a thread that can go on does.  A running notebook ends one way
   or the other because both timeouts are set (SIM2L_NOTEBOOK_EXEC_TIMEOUT not
   0), and the runs are finitely many, so weak fairness is enough for a lock
   that serves its waiters in no particular order. *)
Progress(t) == ThreadStep(t) /\ ~CreateRun(t)
FairSpec == Spec /\ \A t \in Threads: WF_vars(Progress(t))

-----------------------------------------------------------------------------
(* Outputs are filed under the execution that produced them, however runs,
   failures, timeouts and orphaned kernels interleave (the misfiling that the
   comment on _EXECUTION_ENV_LOCK describes cannot happen). *)
OutputsFiledUnderOwnRun == \A o \in outputs: o.id = o.of

(* Whenever no run holds the environment it has the value that it had before
   the process ran anything: a caller that had these variables set gets them
   back, and a failed notebook leaves nothing behind for whatever runs next. *)
EnvironmentGivenBack == lock = Free => env = outer

(* No run waits for the lock for ever: it is left after raised bodies too. *)
NoRunStuck == \A t \in Threads: (pc[t] = "created") ~> (pc[t] = "idle")

(* Execution implements the abstract promise RunAttribution. *)
Recorded(r, s) == \E e \in executions: e.run = r /\ e.status = s
RunState == [r \in Runs |-> IF r \notin created THEN "absent"
                           ELSE IF Recorded(r, "completed") THEN "completed"
                           ELSE IF Recorded(r, "failed") THEN "failed"
                           ELSE "open"]
RunFiled == [r \in Runs |-> FiledUnder(r)]
RA == INSTANCE RunAttribution WITH state <- RunState, filed <- RunFiled
ImplementsAttribution == RA!ASpec
=============================================================================
