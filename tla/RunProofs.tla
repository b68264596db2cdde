------------------------------ MODULE RunProofs -----------------------------
(***************************************************************************)
(* Proofs about a run of a notebook: about the environment of the process  *)
(* it runs in (ExecutionEnv), for any number of threads and runs, and about *)
(* its record (RunRecord), for any number of writers, names, tags and calls. *)
(***************************************************************************)
EXTENDS ExecutionEnv, RunRecord, FiniteSetTheorems, TLAPS

-----------------------------------------------------------------------------
(* ExecutionEnv.  OutputsFiledUnderOwnRun is not inductive: that a kernel      *)
(* inherits the id of the run that spawns it needs to know that os.environ     *)
(* holds that id from the update to the restore, which needs the lock to       *)
(* exclude every other writer, and that what the restore puts back is the      *)
(* value of before the first run.  Inv says so.                                *)

Window == {"locked", "set", "running", "ended", "restored"}

\* The lock is held by exactly the thread that is inside the with-block.
LockInv == \A t \in Threads: pc[t] \in Window <=> lock = t

\* The environment is the window's own from the update to the restore.
EnvInv == /\ lock = Free => env = outer
          /\ \A t \in Threads:
               /\ pc[t] \in {"locked", "restored"} => env = outer
               /\ pc[t] \in {"set", "running", "ended"} => env = run[t]
               /\ pc[t] \in Window => previous[t] = outer

\* A thread inside execute() has a run id that was handed out.
RunInv == \A t \in Threads: pc[t] # "idle" => run[t] \in created

\* Kernels inherited, and rows were filed under, the id of their own run.
FiledInv == /\ \A k \in kernels: k.id = k.of /\ k.of \in created
            /\ \A o \in outputs: o.id = o.of /\ o.of \in created
            /\ \A t \in Threads: extracted[t] \subseteq {run[t]}

Inv == TypeOK /\ LockInv /\ EnvInv /\ RunInv /\ FiledInv

\* A run is recorded at most once, and by the thread that created it.
RecordInv ==
  /\ \A e \in executions: e.run \in created
  /\ \A e, f \in executions: e.run = f.run => e = f
  /\ \A t \in Threads: pc[t] # "idle" =>
       /\ \A e \in executions: e.run # run[t]
       /\ \A u \in Threads: pc[u] # "idle" /\ run[u] = run[t] => u = t

FullInv == Inv /\ RecordInv

-----------------------------------------------------------------------------
LEMMA InitInv == Init => FullInv
BY DistinctNames DEF Init, FullInv, Inv, TypeOK, LockInv, EnvInv, RunInv,
   FiledInv, RecordInv, Window, EnvValues, Steps

\* Types are preserved by every step.
LEMMA TypeStep == TypeOK /\ RunInv /\ [Next]_vars => TypeOK'
<1> SUFFICES ASSUME TypeOK, RunInv, [Next]_vars PROVE TypeOK' OBVIOUS
<1> USE DEF TypeOK, RunInv, EnvValues, Steps, Go, proc
<1>1. ASSUME NEW t \in Threads, CreateRun(t) PROVE TypeOK'
  BY <1>1 DEF CreateRun
<1>2. ASSUME NEW t \in Threads, EnterEnv(t) PROVE TypeOK'
  BY <1>2 DEF EnterEnv
<1>3. ASSUME NEW t \in Threads, SetEnv(t) PROVE TypeOK'
  BY <1>3 DEF SetEnv
<1>4. ASSUME NEW t \in Threads, SpawnKernel(t) PROVE TypeOK'
  BY <1>4 DEF SpawnKernel
<1>5. ASSUME NEW t \in Threads, NotebookReturns(t) PROVE TypeOK'
  BY <1>5 DEF NotebookReturns
<1>6. ASSUME NEW t \in Threads, NotebookRaises(t) PROVE TypeOK'
  BY <1>6 DEF NotebookRaises
<1>7. ASSUME NEW t \in Threads, RestoreEnv(t) PROVE TypeOK'
  BY <1>7 DEF RestoreEnv
<1>8. ASSUME NEW t \in Threads, LeaveEnv(t) PROVE TypeOK'
  BY <1>8 DEF LeaveEnv
<1>9. ASSUME NEW t \in Threads, ExtractOutputs(t) PROVE TypeOK'
  BY <1>9 DEF ExtractOutputs, FiledUnder
<1>10. ASSUME NEW t \in Threads, SaveResult(t) PROVE TypeOK'
  BY <1>10 DEF SaveResult, FiledUnder
<1>11. ASSUME NEW k \in kernels, SaveOutputs(k) PROVE TypeOK'
  BY <1>11 DEF SaveOutputs, Replaced
<1>12. ASSUME NEW k \in kernels, OrphanExits(k) PROVE TypeOK'
  BY <1>12 DEF OrphanExits
<1>13. CASE Crash
  BY <1>13 DEF Crash
<1>14. CASE UNCHANGED vars
  BY <1>14 DEF vars
<1> QED
  BY <1>1, <1>2, <1>3, <1>4, <1>5, <1>6, <1>7, <1>8, <1>9, <1>10, <1>11, <1>12, <1>13, <1>14 DEF Next, ThreadStep

\* The lock is held exactly inside the with-block.
LEMMA LockStep == TypeOK /\ LockInv /\ [Next]_vars => LockInv'
<1> SUFFICES ASSUME TypeOK, LockInv, [Next]_vars PROVE LockInv' OBVIOUS
<1> USE DistinctNames DEF TypeOK, LockInv, Window, Steps, Go, proc
<1>1. ASSUME NEW t \in Threads, CreateRun(t) PROVE LockInv'
  BY <1>1 DEF CreateRun
<1>2. ASSUME NEW t \in Threads, EnterEnv(t) PROVE LockInv'
  BY <1>2 DEF EnterEnv
<1>3. ASSUME NEW t \in Threads, SetEnv(t) PROVE LockInv'
  BY <1>3 DEF SetEnv
<1>4. ASSUME NEW t \in Threads, SpawnKernel(t) PROVE LockInv'
  BY <1>4 DEF SpawnKernel
<1>5. ASSUME NEW t \in Threads, NotebookReturns(t) PROVE LockInv'
  BY <1>5 DEF NotebookReturns
<1>6. ASSUME NEW t \in Threads, NotebookRaises(t) PROVE LockInv'
  BY <1>6 DEF NotebookRaises
<1>7. ASSUME NEW t \in Threads, RestoreEnv(t) PROVE LockInv'
  BY <1>7 DEF RestoreEnv
<1>8. ASSUME NEW t \in Threads, LeaveEnv(t) PROVE LockInv'
  BY <1>8 DEF LeaveEnv
<1>9. ASSUME NEW t \in Threads, ExtractOutputs(t) PROVE LockInv'
  BY <1>9 DEF ExtractOutputs, FiledUnder
<1>10. ASSUME NEW t \in Threads, SaveResult(t) PROVE LockInv'
  BY <1>10 DEF SaveResult, FiledUnder
<1>11. ASSUME NEW k \in kernels, SaveOutputs(k) PROVE LockInv'
  BY <1>11 DEF SaveOutputs, Replaced
<1>12. ASSUME NEW k \in kernels, OrphanExits(k) PROVE LockInv'
  BY <1>12 DEF OrphanExits
<1>13. CASE Crash
  BY <1>13 DEF Crash
<1>14. CASE UNCHANGED vars
  BY <1>14 DEF vars
<1> QED
  BY <1>1, <1>2, <1>3, <1>4, <1>5, <1>6, <1>7, <1>8, <1>9, <1>10, <1>11, <1>12, <1>13, <1>14
     DEF Next, ThreadStep

\* Only the holder of the lock writes the environment, and it puts back
\* the value of before its own window.
LEMMA EnvStep == TypeOK /\ LockInv /\ EnvInv /\ [Next]_vars => EnvInv'
<1> SUFFICES ASSUME TypeOK, LockInv, EnvInv, [Next]_vars PROVE EnvInv' OBVIOUS
<1> USE DistinctNames DEF TypeOK, LockInv, EnvInv, Window, Steps, Go, proc
<1>1. ASSUME NEW t \in Threads, CreateRun(t) PROVE EnvInv'
  BY <1>1 DEF CreateRun
<1>2. ASSUME NEW t \in Threads, EnterEnv(t) PROVE EnvInv'
  BY <1>2 DEF EnterEnv
<1>3. ASSUME NEW t \in Threads, SetEnv(t) PROVE EnvInv'
  BY <1>3 DEF SetEnv
<1>4. ASSUME NEW t \in Threads, SpawnKernel(t) PROVE EnvInv'
  BY <1>4 DEF SpawnKernel
<1>5. ASSUME NEW t \in Threads, NotebookReturns(t) PROVE EnvInv'
  BY <1>5 DEF NotebookReturns
<1>6. ASSUME NEW t \in Threads, NotebookRaises(t) PROVE EnvInv'
  BY <1>6 DEF NotebookRaises
<1>7. ASSUME NEW t \in Threads, RestoreEnv(t) PROVE EnvInv'
  BY <1>7 DEF RestoreEnv
<1>8. ASSUME NEW t \in Threads, LeaveEnv(t) PROVE EnvInv'
  BY <1>8 DEF LeaveEnv
<1>9. ASSUME NEW t \in Threads, ExtractOutputs(t) PROVE EnvInv'
  BY <1>9 DEF ExtractOutputs, FiledUnder
<1>10. ASSUME NEW t \in Threads, SaveResult(t) PROVE EnvInv'
  BY <1>10 DEF SaveResult, FiledUnder
<1>11. ASSUME NEW k \in kernels, SaveOutputs(k) PROVE EnvInv'
  BY <1>11 DEF SaveOutputs, Replaced
<1>12. ASSUME NEW k \in kernels, OrphanExits(k) PROVE EnvInv'
  BY <1>12 DEF OrphanExits
<1>13. CASE Crash
  BY <1>13 DEF Crash
<1>14. CASE UNCHANGED vars
  BY <1>14 DEF vars
<1> QED
  BY <1>1, <1>2, <1>3, <1>4, <1>5, <1>6, <1>7, <1>8, <1>9, <1>10, <1>11, <1>12, <1>13, <1>14
     DEF Next, ThreadStep

\* A thread past CreateRun has a run id that was handed out.
LEMMA RunStep == TypeOK /\ RunInv /\ [Next]_vars => RunInv'
<1> SUFFICES ASSUME TypeOK, RunInv, [Next]_vars PROVE RunInv' OBVIOUS
<1> USE DistinctNames DEF TypeOK, RunInv, Steps, Go, proc
<1>1. ASSUME NEW t \in Threads, CreateRun(t) PROVE RunInv'
  BY <1>1 DEF CreateRun
<1>2. ASSUME NEW t \in Threads, EnterEnv(t) PROVE RunInv'
  BY <1>2 DEF EnterEnv
<1>3. ASSUME NEW t \in Threads, SetEnv(t) PROVE RunInv'
  BY <1>3 DEF SetEnv
<1>4. ASSUME NEW t \in Threads, SpawnKernel(t) PROVE RunInv'
  BY <1>4 DEF SpawnKernel
<1>5. ASSUME NEW t \in Threads, NotebookReturns(t) PROVE RunInv'
  BY <1>5 DEF NotebookReturns
<1>6. ASSUME NEW t \in Threads, NotebookRaises(t) PROVE RunInv'
  BY <1>6 DEF NotebookRaises
<1>7. ASSUME NEW t \in Threads, RestoreEnv(t) PROVE RunInv'
  BY <1>7 DEF RestoreEnv
<1>8. ASSUME NEW t \in Threads, LeaveEnv(t) PROVE RunInv'
  BY <1>8 DEF LeaveEnv
<1>9. ASSUME NEW t \in Threads, ExtractOutputs(t) PROVE RunInv'
  BY <1>9 DEF ExtractOutputs, FiledUnder
<1>10. ASSUME NEW t \in Threads, SaveResult(t) PROVE RunInv'
  BY <1>10 DEF SaveResult, FiledUnder
<1>11. ASSUME NEW k \in kernels, SaveOutputs(k) PROVE RunInv'
  BY <1>11 DEF SaveOutputs, Replaced
<1>12. ASSUME NEW k \in kernels, OrphanExits(k) PROVE RunInv'
  BY <1>12 DEF OrphanExits
<1>13. CASE Crash
  BY <1>13 DEF Crash
<1>14. CASE UNCHANGED vars
  BY <1>14 DEF vars
<1> QED
  BY <1>1, <1>2, <1>3, <1>4, <1>5, <1>6, <1>7, <1>8, <1>9, <1>10, <1>11, <1>12, <1>13, <1>14
     DEF Next, ThreadStep

\* A kernel is spawned inside the window, so it inherits its run's id.
LEMMA FiledStep == TypeOK /\ EnvInv /\ RunInv /\ FiledInv /\ [Next]_vars => FiledInv'
<1> SUFFICES ASSUME TypeOK, EnvInv, RunInv, FiledInv, [Next]_vars PROVE FiledInv' OBVIOUS
<1> USE DistinctNames DEF TypeOK, EnvInv, RunInv, FiledInv, Steps, Go, proc
<1>1. ASSUME NEW t \in Threads, CreateRun(t) PROVE FiledInv'
  BY <1>1 DEF CreateRun
<1>2. ASSUME NEW t \in Threads, EnterEnv(t) PROVE FiledInv'
  BY <1>2 DEF EnterEnv
<1>3. ASSUME NEW t \in Threads, SetEnv(t) PROVE FiledInv'
  BY <1>3 DEF SetEnv
<1>4. ASSUME NEW t \in Threads, SpawnKernel(t) PROVE FiledInv'
  BY <1>4 DEF SpawnKernel
<1>5. ASSUME NEW t \in Threads, NotebookReturns(t) PROVE FiledInv'
  BY <1>5 DEF NotebookReturns
<1>6. ASSUME NEW t \in Threads, NotebookRaises(t) PROVE FiledInv'
  BY <1>6 DEF NotebookRaises
<1>7. ASSUME NEW t \in Threads, RestoreEnv(t) PROVE FiledInv'
  BY <1>7 DEF RestoreEnv
<1>8. ASSUME NEW t \in Threads, LeaveEnv(t) PROVE FiledInv'
  BY <1>8 DEF LeaveEnv
<1>9. ASSUME NEW t \in Threads, ExtractOutputs(t) PROVE FiledInv'
  BY <1>9 DEF ExtractOutputs, FiledUnder
<1>10. ASSUME NEW t \in Threads, SaveResult(t) PROVE FiledInv'
  BY <1>10 DEF SaveResult, FiledUnder
<1>11. ASSUME NEW k \in kernels, SaveOutputs(k) PROVE FiledInv'
  BY <1>11 DEF SaveOutputs, Replaced
<1>12. ASSUME NEW k \in kernels, OrphanExits(k) PROVE FiledInv'
  BY <1>12 DEF OrphanExits
<1>13. CASE Crash
  BY <1>13 DEF Crash
<1>14. CASE UNCHANGED vars
  BY <1>14 DEF vars
<1> QED
  BY <1>1, <1>2, <1>3, <1>4, <1>5, <1>6, <1>7, <1>8, <1>9, <1>10, <1>11, <1>12, <1>13, <1>14
     DEF Next, ThreadStep

\* Fresh ids are not recorded yet, and a thread records its run once.
LEMMA RecordStep == TypeOK /\ RunInv /\ RecordInv /\ [Next]_vars => RecordInv'
<1> SUFFICES ASSUME TypeOK, RunInv, RecordInv, [Next]_vars PROVE RecordInv' OBVIOUS
<1> USE DistinctNames DEF TypeOK, RunInv, RecordInv, Steps, Go, proc
<1>1. ASSUME NEW t \in Threads, CreateRun(t) PROVE RecordInv'
  BY <1>1 DEF CreateRun
<1>2. ASSUME NEW t \in Threads, EnterEnv(t) PROVE RecordInv'
  BY <1>2 DEF EnterEnv
<1>3. ASSUME NEW t \in Threads, SetEnv(t) PROVE RecordInv'
  BY <1>3 DEF SetEnv
<1>4. ASSUME NEW t \in Threads, SpawnKernel(t) PROVE RecordInv'
  BY <1>4 DEF SpawnKernel
<1>5. ASSUME NEW t \in Threads, NotebookReturns(t) PROVE RecordInv'
  BY <1>5 DEF NotebookReturns
<1>6. ASSUME NEW t \in Threads, NotebookRaises(t) PROVE RecordInv'
  BY <1>6 DEF NotebookRaises
<1>7. ASSUME NEW t \in Threads, RestoreEnv(t) PROVE RecordInv'
  BY <1>7 DEF RestoreEnv
<1>8. ASSUME NEW t \in Threads, LeaveEnv(t) PROVE RecordInv'
  BY <1>8 DEF LeaveEnv
<1>9. ASSUME NEW t \in Threads, ExtractOutputs(t) PROVE RecordInv'
  BY <1>9 DEF ExtractOutputs, FiledUnder
<1>10. ASSUME NEW t \in Threads, SaveResult(t) PROVE RecordInv'
  BY <1>10 DEF SaveResult, FiledUnder
<1>11. ASSUME NEW k \in kernels, SaveOutputs(k) PROVE RecordInv'
  BY <1>11 DEF SaveOutputs, Replaced
<1>12. ASSUME NEW k \in kernels, OrphanExits(k) PROVE RecordInv'
  BY <1>12 DEF OrphanExits
<1>13. CASE Crash
  BY <1>13 DEF Crash
<1>14. CASE UNCHANGED vars
  BY <1>14 DEF vars
<1> QED
  BY <1>1, <1>2, <1>3, <1>4, <1>5, <1>6, <1>7, <1>8, <1>9, <1>10, <1>11, <1>12, <1>13, <1>14
     DEF Next, ThreadStep

LEMMA InvStep == FullInv /\ [Next]_vars => FullInv'
BY TypeStep, LockStep, EnvStep, RunStep, FiledStep, RecordStep DEF FullInv, Inv

\* The inductive invariant holds in every reachable state.
THEOREM Invariance == Spec => []FullInv
BY InitInv, InvStep, PTL DEF Spec

(* The lock, the environment, runs and kernels stay in the sets the comments of
   ExecutionEnv describe. *)
THEOREM TypesHold == Spec => []TypeOK
<1>1. FullInv => TypeOK
  BY DEF FullInv, Inv
<1> QED BY Invariance, <1>1, PTL

(* Outputs are filed under the execution that produced them: for any number of
   threads sharing os.environ, any failures, timeouts, crashes and orphans. *)
THEOREM OutputsWellFiled == Spec => []OutputsFiledUnderOwnRun
<1>1. FullInv => OutputsFiledUnderOwnRun
  BY DEF FullInv, Inv, FiledInv, OutputsFiledUnderOwnRun
<1> QED BY <1>1, Invariance, PTL

(* Outside the with-block the environment is the one the process was given. *)
THEOREM EnvironmentRestored == Spec => []EnvironmentGivenBack
<1>1. FullInv => EnvironmentGivenBack
  BY DEF FullInv, Inv, EnvInv, EnvironmentGivenBack
<1> QED BY <1>1, Invariance, PTL

\* What a thread has still to do in execute(): every step counts one.
StepsLeft == [idle |-> 0, extracted |-> 1, left |-> 2, restored |-> 3, ended |-> 4,
              running |-> 5, set |-> 6, locked |-> 7, created |-> 8]

\* The guard of the thread's next step in execute() holds.
MayGoOn(t) == pc[t] # "idle" /\ (pc[t] = "created" => lock = Free)

(* What NoRunStuck rests on beside the scheduling of threads.  A run that waits *)
(* for _EXECUTION_ENV_LOCK waits for a thread that can go on and has passed     *)
(* where it waits, so runs never wait for each other in a circle; and no step   *)
(* of anybody takes a run that has begun further from its end.                  *)
THEOREM WaitersAreServed ==
  Spec => /\ [](\A t \in Threads: pc[t] # "idle" /\ ~MayGoOn(t) =>
                  \E u \in Threads: lock = u /\ MayGoOn(u) /\ StepsLeft[pc[u]] < StepsLeft[pc[t]])
          /\ [][\A t \in Threads: pc[t] # "idle" /\ pc'[t] # pc[t] =>
                  StepsLeft[pc'[t]] < StepsLeft[pc[t]]]_vars
<1>1. FullInv => \A t \in Threads: pc[t] # "idle" /\ ~MayGoOn(t) =>
        \E u \in Threads: lock = u /\ MayGoOn(u) /\ StepsLeft[pc[u]] < StepsLeft[pc[t]]
  <2> SUFFICES ASSUME FullInv, NEW t \in Threads, pc[t] # "idle", ~MayGoOn(t)
               PROVE  \E u \in Threads: lock = u /\ MayGoOn(u) /\ StepsLeft[pc[u]] < StepsLeft[pc[t]]
    OBVIOUS
  <2>1. pc[t] = "created" /\ lock \in Threads
    BY DEF MayGoOn, FullInv, Inv, TypeOK
  <2>2. pc[lock] \in Window
    BY <2>1 DEF FullInv, Inv, LockInv
  <2>3. MayGoOn(lock) /\ StepsLeft[pc[lock]] < StepsLeft[pc[t]]
    BY <2>1, <2>2 DEF Window, MayGoOn, StepsLeft
  <2> QED BY <2>1, <2>3
<1>2. FullInv /\ [Next]_vars =>
        [\A t \in Threads: pc[t] # "idle" /\ pc'[t] # pc[t] =>
           StepsLeft[pc'[t]] < StepsLeft[pc[t]]]_vars
  <2> SUFFICES ASSUME FullInv, Next, NEW t \in Threads, pc[t] # "idle", pc'[t] # pc[t]
               PROVE  StepsLeft[pc'[t]] < StepsLeft[pc[t]]
    OBVIOUS
  <2>1. pc \in [Threads -> Steps]
    BY DEF FullInv, Inv, TypeOK
  <2>2. ASSUME NEW u \in Threads, NEW from \in Steps, NEW to \in Steps, Go(u, from, to),
               StepsLeft[to] < StepsLeft[from]
        PROVE  StepsLeft[pc'[t]] < StepsLeft[pc[t]]
    BY <2>1, <2>2 DEF Go
  <2>3. ASSUME NEW u \in Threads, ThreadStep(u) PROVE StepsLeft[pc'[t]] < StepsLeft[pc[t]]
    <3>1. CASE CreateRun(u)
      BY <2>1, <3>1 DEF CreateRun, Go
    <3>2. CASE NotebookRaises(u)
      BY <2>1, <3>2 DEF NotebookRaises, StepsLeft
    <3>3. CASE EnterEnv(u)
      BY <2>2, <3>3 DEF EnterEnv, Steps, StepsLeft
    <3>4. CASE SetEnv(u)
      BY <2>2, <3>4 DEF SetEnv, Steps, StepsLeft
    <3>5. CASE SpawnKernel(u)
      BY <2>2, <3>5 DEF SpawnKernel, Steps, StepsLeft
    <3>6. CASE NotebookReturns(u)
      BY <2>2, <3>6 DEF NotebookReturns, Steps, StepsLeft
    <3>7. CASE RestoreEnv(u)
      BY <2>2, <3>7 DEF RestoreEnv, Steps, StepsLeft
    <3>8. CASE LeaveEnv(u)
      BY <2>2, <3>8 DEF LeaveEnv, Steps, StepsLeft
    <3>9. CASE ExtractOutputs(u)
      BY <2>2, <3>9 DEF ExtractOutputs, Steps, StepsLeft
    <3>10. CASE SaveResult(u)
      BY <2>2, <3>10 DEF SaveResult, Steps, StepsLeft
    <3> QED BY <2>3, <3>1, <3>2, <3>3, <3>4, <3>5, <3>6, <3>7, <3>8, <3>9, <3>10 DEF ThreadStep
  <2>4. ASSUME NEW k \in kernels, SaveOutputs(k) \/ OrphanExits(k) PROVE pc' = pc
    BY <2>4 DEF SaveOutputs, OrphanExits
  <2>5. CASE Crash
    <3>1. pc'[t] = "idle" /\ pc[t] \in Steps \ {"idle"}
      BY <2>1, <2>5 DEF Crash
    <3> QED BY <3>1 DEF Steps, StepsLeft
  <2> QED BY <2>3, <2>4, <2>5 DEF Next
<1> QED BY <1>1, <1>2, Invariance, PTL DEF Spec

-----------------------------------------------------------------------------
\* The runs behind a single row.
LEMMA OneRow ==
  ASSUME NEW r, NEW S, S = {[id |-> r, of |-> r]}
  PROVE  {o.of: o \in S} = {r}
<1>1. \A o \in S: o.of = r
  OBVIOUS
<1>2. [id |-> r, of |-> r] \in S
  OBVIOUS
<1>3. \A x: x \in {o.of: o \in S} <=> \E o \in S: x = o.of
  OBVIOUS
<1>4. \A x: x \in {o.of: o \in S} <=> x = r
  BY <1>1, <1>2, <1>3
<1> QED BY <1>4

\* A step that leaves the ids and the two tables alone is a stutter.
LEMMA QuietStep ==
  UNCHANGED <<created, executions, outputs>> => UNCHANGED RA!avars
BY DEF RA!avars, RunState, RunFiled, Recorded, FiledUnder

\* Taking a fresh execution id opens the run.
LEMMA CreateOpens ==
  ASSUME FullInv, NEW t \in Threads, CreateRun(t)
  PROVE  RA!ANext
<1>1. PICK r \in Runs \ created: created' = created \cup {r}
  BY DEF CreateRun
<1>2. executions' = executions /\ outputs' = outputs
  BY DEF CreateRun
<1>3. RunState[r] = "absent"
  BY <1>1 DEF RunState
<1>4. RunState' = [RunState EXCEPT ![r] = "open"]
  <2>1. ~Recorded(r, "completed") /\ ~Recorded(r, "failed")
    BY <1>1 DEF FullInv, RecordInv, Recorded
  <2> QED BY <1>1, <1>2, <2>1 DEF RunState, Recorded
<1>5. RunFiled' = RunFiled
  BY <1>2 DEF RunFiled, FiledUnder
<1> QED BY <1>1, <1>3, <1>4, <1>5 DEF RA!ANext, RA!Open

\* What a kernel saves is filed under the id of its own run.
LEMMA SaveOutputsFiles ==
  ASSUME FullInv, NEW k \in kernels, SaveOutputs(k)
  PROVE  RA!ANext
<1>1. k.id = k.of /\ k.of \in created /\ k.of \in Runs
  BY DEF FullInv, Inv, FiledInv, TypeOK
<1>2. RunState' = RunState
  BY DEF SaveOutputs, proc, RunState, Recorded
<1>3. RunFiled' = [RunFiled EXCEPT ![k.of] = {k.of}]
  <2>1. outputs' = {o \in outputs: o.id # k.of} \cup {[id |-> k.of, of |-> k.of]}
    BY <1>1 DEF SaveOutputs, Replaced
  <2>2. FiledUnder(k.of)' = {k.of}
    <3>1. {x \in outputs': x.id = k.of} = {[id |-> k.of, of |-> k.of]}
      BY <2>1
    <3> QED BY <3>1, OneRow DEF FiledUnder
  <2>3. ASSUME NEW q \in Runs, q # k.of PROVE FiledUnder(q)' = FiledUnder(q)
    <3>1. {x \in outputs': x.id = q} = {x \in outputs: x.id = q}
      BY <2>1, <2>3
    <3> QED BY <3>1 DEF FiledUnder
  <2> QED BY <1>1, <2>2, <2>3 DEF RunFiled
<1>4. RunState[k.of] # "absent"
  BY <1>1 DEF RunState
<1> QED BY <1>1, <1>2, <1>3, <1>4 DEF RA!ANext, RA!File

\* Saving the result closes the run, with its own outputs if any.
LEMMA SaveCloses ==
  ASSUME FullInv, NEW t \in Threads, SaveResult(t)
  PROVE  RA!ANext
<1>0. PICK r \in Runs: r = run[t] /\ r \in created
  BY DEF SaveResult, Go, FullInv, Inv, RunInv, TypeOK
<1>1. PICK s \in {"completed", "failed"}:
        s = IF body[t] = "ok" THEN "completed" ELSE "failed"
  OBVIOUS
<1>2. /\ executions' = executions \cup {[run |-> r, status |-> s, outs |-> extracted[t]]}
      /\ created' = created
  BY <1>0, <1>1 DEF SaveResult, proc
<1>3. ~Recorded(r, "completed") /\ ~Recorded(r, "failed")
  BY <1>0 DEF SaveResult, Go, FullInv, RecordInv, Recorded
<1>4. RunState[r] = "open"
  BY <1>0, <1>3 DEF RunState
<1>5. ASSUME NEW q, NEW x
      PROVE  Recorded(q, x)' <=> Recorded(q, x) \/ (q = r /\ x = s)
  <2> DEFINE row == [run |-> r, status |-> s, outs |-> extracted[t]]
  <2>1. row.run = r /\ row.status = s
    OBVIOUS
  <2>2. \A e: e \in executions' <=> e \in executions \/ e = row
    BY <1>2
  <2> HIDE DEF row
  <2> QED BY <2>1, <2>2 DEF Recorded
<1>6. RunState' = [RunState EXCEPT ![r] = s]
  BY <1>0, <1>1, <1>2, <1>3, <1>5 DEF RunState
<1>7. RunFiled' = RunFiled \/ RunFiled' = [RunFiled EXCEPT ![r] = {r}]
  <2>1. extracted[t] = {} \/ extracted[t] = {r}
    BY <1>0 DEF FullInv, Inv, FiledInv
  <2>2. CASE FiledUnder(r) # {} \/ extracted[t] = {}
    <3>1. outputs' = outputs
      BY <1>0, <2>2 DEF SaveResult
    <3> QED BY <3>1 DEF RunFiled, FiledUnder
  <2>3. CASE FiledUnder(r) = {} /\ extracted[t] = {r}
    <3>1. outputs' = outputs \cup {[id |-> r, of |-> r]}
      BY <1>0, <2>3 DEF SaveResult
    <3>2. FiledUnder(r)' = {r}
      <4>1. {x \in outputs': x.id = r} = {[id |-> r, of |-> r]}
        BY <2>3, <3>1 DEF FiledUnder
      <4> QED BY <4>1, OneRow DEF FiledUnder
    <3>3. ASSUME NEW q \in Runs, q # r PROVE FiledUnder(q)' = FiledUnder(q)
      <4>1. {x \in outputs': x.id = q} = {x \in outputs: x.id = q}
        BY <3>1, <3>3
      <4> QED BY <4>1 DEF FiledUnder
    <3> QED BY <1>0, <3>2, <3>3 DEF RunFiled
  <2> QED BY <2>1, <2>2, <2>3
<1> QED BY <1>0, <1>1, <1>4, <1>6, <1>7 DEF RA!ANext, RA!Close

(* Notebook execution implements RunAttribution: every step opens a run, files
   its own outputs, closes it once, or is invisible. *)
THEOREM Refinement == Spec => ImplementsAttribution
<1>1. Init => RA!AInit
  BY DEF Init, RA!AInit, RunState, RunFiled, FiledUnder, Recorded
<1>2. FullInv /\ [Next]_vars => [RA!ANext]_(RA!avars)
  <2> SUFFICES ASSUME FullInv, [Next]_vars PROVE [RA!ANext]_(RA!avars) OBVIOUS
  <2>1. ASSUME NEW t \in Threads, EnterEnv(t) PROVE UNCHANGED RA!avars
    BY <2>1, QuietStep DEF EnterEnv, proc
  <2>2. ASSUME NEW t \in Threads, SetEnv(t) PROVE UNCHANGED RA!avars
    BY <2>2, QuietStep DEF SetEnv, proc
  <2>3. ASSUME NEW t \in Threads, SpawnKernel(t) PROVE UNCHANGED RA!avars
    BY <2>3, QuietStep DEF SpawnKernel, proc
  <2>4. ASSUME NEW t \in Threads, NotebookReturns(t) PROVE UNCHANGED RA!avars
    BY <2>4, QuietStep DEF NotebookReturns, proc
  <2>5. ASSUME NEW t \in Threads, NotebookRaises(t) PROVE UNCHANGED RA!avars
    BY <2>5, QuietStep DEF NotebookRaises, proc
  <2>6. ASSUME NEW t \in Threads, RestoreEnv(t) PROVE UNCHANGED RA!avars
    BY <2>6, QuietStep DEF RestoreEnv, proc
  <2>7. ASSUME NEW t \in Threads, LeaveEnv(t) PROVE UNCHANGED RA!avars
    BY <2>7, QuietStep DEF LeaveEnv, proc
  <2>8. ASSUME NEW t \in Threads, ExtractOutputs(t) PROVE UNCHANGED RA!avars
    BY <2>8, QuietStep DEF ExtractOutputs, proc
  <2>9. ASSUME NEW k \in kernels, OrphanExits(k) PROVE UNCHANGED RA!avars
    BY <2>9, QuietStep DEF OrphanExits, proc
  <2>10. CASE Crash
    BY <2>10, QuietStep DEF Crash
  <2>11. CASE UNCHANGED vars
    BY <2>11, QuietStep DEF vars
  <2> QED
    BY <2>1, <2>2, <2>3, <2>4, <2>5, <2>6, <2>7, <2>8, <2>9, <2>10, <2>11,
       CreateOpens, SaveOutputsFiles, SaveCloses DEF Next, ThreadStep
<1> QED BY <1>1, <1>2, Invariance, PTL DEF Spec, ImplementsAttribution, RA!ASpec

-----------------------------------------------------------------------------
(* RunRecord.  That an acknowledged row is in the file says nothing of the     *)
(* commit that is about to acknowledge one: one has to know what the open      *)
(* transaction has made of the file, that no other connection can write        *)
(* meanwhile, and that a commit follows the statements of its own call.  The   *)
(* step of a writer is judged by what it leaves of that writer's connection    *)
(* and of the steps it has still to do.                                        *)

\* Transactions: what may follow what on an agenda.
Ordered(a) ==
  \A i \in DOMAIN a:
    /\ a[i].into = "meta" => a[i].what = "running"
    /\ a[i].into = "status" => a[i].what \in Statuses \ {"running"}
    /\ a[i].into = "params" => a[i].what \in Params
    /\ a[i].into = "rows" => a[i].what \in Tables
    /\ a[i].into \in {"tags", "links"} => a[i].what \in Tags
    /\ a[i].into = "nothing" => a[i].what \in {"null", "unserialisable"}
    /\ a[i].into = "tags" =>
         i + 1 \in DOMAIN a /\ a[i + 1] = Into("links", a[i].what)
    /\ a[i].into \in {"meta", "status", "params", "rows", "links"} =>
         i + 1 \in DOMAIN a /\ a[i + 1] = Into("commit", a[i].what)
    /\ a[i].into = "commit" /\ i + 1 \in DOMAIN a =>
         a[i + 1].into \notin {"links", "commit"}

Begins(a, tables) == a # <<>> /\ a[1].into \in tables
Ended == Statuses \ {"running"}
MayWrite(c) == c # None /\ c.lock \in {"reserved", "pending"}
Pending(a, t) ==
  IF Begins(a, {"commit"}) /\ a[1].what \in Tables /\ a[1].what = t THEN 1 ELSE 0

\* What an open transaction has made of the file, with the steps a still to do.
ImageInv(db, a) ==
  /\ disk.meta \in Ended => db.meta \in Ended
  /\ disk.params \subseteq db.params
  /\ Begins(a, {"commit"}) /\ a[1].what \in Params => a[1].what \in db.params
  /\ \A t \in Tables:
       /\ acked.rows[t] + Pending(a, t) <= db.rows[t]
       /\ db.rows[t] <= acked.rows[t] + unsure[t] + Pending(a, t)
  /\ db.tags = IF Begins(a, {"links"}) THEN db.links \cup {a[1].what} ELSE db.links

\* A connection c with the steps a still to do, whose last call raised if f.
Sound(c, a, f) ==
  /\ c = None => a = <<>>
  /\ Ordered(a)
  /\ c # None =>
       /\ c.image # None <=> MayWrite(c)
       /\ c.image # None => c.tx /\ ImageInv(c.image, a)
       /\ Begins(a, {"links", "commit"}) => c.image # None
       /\ a = <<>> /\ (c.tx \/ c.lock # "none") => f

OneWriter == \A v, w \in Writers: MayWrite(conn[v]) /\ MayWrite(conn[w]) => v = w

\* add_tag is one transaction: no tag in the file without its link to the run.
TagsLinked == disk.tags = disk.links

RunRecordInv ==
  /\ RecordTypeOK
  /\ \A w \in Writers: Sound(conn[w], agenda[w], failed[w])
  /\ OneWriter
  /\ AckedSaved /\ TagsLinked /\ RegisteredEndStands

-----------------------------------------------------------------------------
(* What the calls put on an agenda.                                            *)

Todo == RunDatabaseCalls \cup SaveInputsToRunDb \cup SaveOutputsToRunDb
Proper(a) == /\ a \in Seq(Step) /\ Ordered(a) /\ a # <<>>
             /\ ~Begins(a, {"links", "commit"})

\* A statement and its commit are a proper agenda.
LEMMA CommittedProper ==
  ASSUME NEW table \in {"meta", "status", "params", "rows"},
         NEW what,
         table = "meta" => what = "running",
         table = "status" => what \in Statuses \ {"running"},
         table = "params" => what \in Params,
         table = "rows" => what \in Tables
  PROVE  Proper(Committed(table, what))
<1> DEFINE a == Committed(table, what)
<1>1. a = <<Into(table, what), Into("commit", what)>>
  BY DEF Committed
<1>2. Into(table, what) \in Step /\ Into("commit", what) \in Step
  BY DEF Into, Step, Statuses
<1>3. a \in Seq(Step) /\ Len(a) = 2 /\ DOMAIN a = 1..2
  BY <1>1, <1>2
<1>4. a[1].into = table /\ a[1].what = what /\ a[2].into = "commit" /\ a[2].what = what
  BY <1>1 DEF Into
<1>5. Ordered(a)
  <2> SUFFICES ASSUME NEW i \in 1..2
               PROVE  Ordered(a)!(i)
    BY <1>3 DEF Ordered
  <2>1. CASE i = 1
    BY <2>1, <1>1, <1>3, <1>4 DEF Into
  <2>2. CASE i = 2
    BY <2>2, <1>1, <1>3, <1>4 DEF Into
  <2> QED
    BY <2>1, <2>2
<1> QED
  BY <1>1, <1>3, <1>4, <1>5 DEF Proper, Begins

\* A refused statement is a proper agenda, of one step.
LEMMA RefusedProper ==
  ASSUME NEW what \in {"null", "unserialisable"}
  PROVE  Proper(<<Into("nothing", what)>>)
<1> DEFINE a == <<Into("nothing", what)>>
<1>1. Into("nothing", what) \in Step
  BY DEF Into, Step
<1>2. a \in Seq(Step) /\ Len(a) = 1 /\ DOMAIN a = 1..1 /\ a[1] = Into("nothing", what)
  BY <1>1
<1>3. a[1].into = "nothing" /\ a[1].what = what
  BY <1>2 DEF Into
<1> QED
  BY <1>2, <1>3 DEF Proper, Begins, Ordered

\* add_tag is one transaction of two statements.
LEMMA AddTagProper ==
  ASSUME NEW tag \in Tags
  PROVE  Proper(AddTag(tag))
<1> DEFINE a == AddTag(tag)
<1>1. a = <<Into("tags", tag), Into("links", tag), Into("commit", tag)>>
  BY DEF AddTag
<1>2. Into("tags", tag) \in Step /\ Into("links", tag) \in Step /\ Into("commit", tag) \in Step
  BY DEF Into, Step
<1>3. a \in Seq(Step) /\ Len(a) = 3 /\ DOMAIN a = 1..3
  BY <1>1, <1>2
<1>4. /\ a[1] = Into("tags", tag) /\ a[2] = Into("links", tag) /\ a[3] = Into("commit", tag)
      /\ a[1].into = "tags" /\ a[2].into = "links" /\ a[3].into = "commit"
      /\ a[1].what = tag /\ a[2].what = tag /\ a[3].what = tag
  BY <1>1 DEF Into
<1>5. Ordered(a)
  <2> SUFFICES ASSUME NEW i \in 1..3
               PROVE  Ordered(a)!(i)
    BY <1>3 DEF Ordered
  <2>1. CASE i = 1
    BY <2>1, <1>3, <1>4
  <2>2. CASE i = 2
    BY <2>2, <1>3, <1>4
  <2>3. CASE i = 3
    BY <2>3, <1>3, <1>4
  <2> QED
    BY <2>1, <2>2, <2>3
<1> QED
  BY <1>1, <1>3, <1>4, <1>5 DEF Proper, Begins

\* The parameters of a dict are saved one after the other, a transaction each.
LEMMA EachProper ==
  ASSUME NEW table \in {"inputs", "outputs"},
         NEW a \in Each(table)
  PROVE  Proper(a)
<1>1. PICK p \in SetToSeqs(Names) \ {<<>>}:
        a = [k \in 1..2 * Len(p) |-> Committed("params", <<table, p[(k + 1) \div 2]>>)[2 - (k % 2)]]
  BY DEF Each
<1>2. Cardinality(Names) \in Nat
  BY RunRecordAssumption, FS_CardinalityType
<1>3. p \in Seq(Names) /\ Len(p) \in Nat \ {0}
  <2>1. p \in [1..Cardinality(Names) -> Names] /\ p # <<>>
    BY <1>1 DEF SetToSeqs
  <2>2. p \in Seq(Names) /\ Len(p) = Cardinality(Names)
    BY <2>1, <1>2
  <2> QED
    BY <2>1, <2>2, <1>2
<1> DEFINE n == Len(p)
           what(k) == <<table, p[(k + 1) \div 2]>>
<1> HIDE DEF n
<1>4. n \in Nat \ {0} /\ DOMAIN a = 1..2 * n
  BY <1>1, <1>3 DEF n
<1>5. ASSUME NEW k \in 1..2 * n
      PROVE  /\ what(k) \in Params
             /\ k % 2 = 1 => a[k] = Into("params", what(k))
             /\ k % 2 = 0 => a[k] = Into("commit", what(k))
             /\ k % 2 \in {0, 1}
  <2>1. (k + 1) \div 2 \in 1..n
    BY <1>4
  <2>2. what(k) \in Params
    BY <2>1, <1>3 DEF Params, n
  <2>3. k % 2 \in {0, 1}
    BY <1>4
  <2>4. a[k] = <<Into("params", what(k)), Into("commit", what(k))>>[2 - (k % 2)]
    BY <1>1 DEF Committed, n
  <2>5. CASE k % 2 = 1
    BY <2>2, <2>4, <2>5
  <2>6. CASE k % 2 = 0
    BY <2>2, <2>4, <2>6
  <2> QED
    BY <2>2, <2>3, <2>5, <2>6
<1> HIDE DEF what
<1>6. ASSUME NEW k \in 1..2 * n
      PROVE  /\ a[k] \in Step /\ a[k].what = what(k) /\ what(k) \in Params
             /\ k % 2 = 1 => a[k].into = "params"
             /\ k % 2 = 0 => a[k].into = "commit"
  <2>1. \A into \in {"params", "commit"}:
          /\ Into(into, what(k)).into = into /\ Into(into, what(k)).what = what(k)
          /\ Into(into, what(k)) \in Step
    BY <1>5 DEF Into, Step
  <2>2. CASE k % 2 = 1
    <3>1. a[k] = Into("params", what(k))
      BY <2>2, <1>5
    <3> QED
      BY <2>1, <2>2, <3>1, <1>5
  <2>3. CASE k % 2 = 0
    <3>1. a[k] = Into("commit", what(k))
      BY <2>3, <1>5
    <3> QED
      BY <2>1, <2>3, <3>1, <1>5
  <2> QED
    BY <2>2, <2>3, <1>5
<1>7. a \in Seq(Step)
  <2>1. a = [k \in 1..2 * n |-> a[k]]
    BY <1>1 DEF n
  <2>2. 2 * n \in Nat
    BY <1>4
  <2> QED
    BY <1>6, <2>1, <2>2
<1>8. Ordered(a)
  <2> SUFFICES ASSUME NEW k \in 1..2 * n
               PROVE  Ordered(a)!(k)
    BY <1>4 DEF Ordered
  <2>1. CASE k % 2 = 1
    <3>1. k + 1 \in 1..2 * n /\ (k + 1) % 2 = 0 /\ (k + 2) \div 2 = (k + 1) \div 2
      BY <2>1, <1>4
    <3>2. what(k + 1) = what(k)
      BY <3>1 DEF what
    <3>3. a[k + 1] = Into("commit", what(k))
      BY <3>1, <3>2, <1>5
    <3> QED
      BY <2>1, <3>1, <3>3, <1>4, <1>6
  <2>2. CASE k % 2 = 0
    <3>1. (k + 1) % 2 = 1
      BY <2>2, <1>4
    <3>2. k + 1 \in 1..2 * n => a[k + 1].into = "params"
      BY <3>1, <1>6
    <3> QED
      BY <2>2, <3>2, <1>4, <1>6
  <2> QED
    BY <2>1, <2>2, <1>6
<1>9. a # <<>> /\ ~Begins(a, {"links", "commit"})
  <2>1. 1 \in 1..2 * n /\ 1 % 2 = 1
    BY <1>4
  <2>2. a[1].into = "params"
    BY <2>1, <1>6
  <2> QED
    BY <2>1, <2>2, <1>4, <1>7 DEF Begins
<1> QED
  BY <1>7, <1>8, <1>9 DEF Proper

\* Whatever is called, its steps are transactions.
LEMMA TodoProper ==
  ASSUME NEW a \in Todo
  PROVE  Proper(a)
<1>1. ASSUME NEW t, NEW required, a \in InsertRow(t, required)
      PROVE  Proper(a)
  <2>1. CASE t \in Tables /\ a = Committed("rows", t)
    BY <2>1, CommittedProper
  <2>2. CASE a = Null
    BY <2>2, RefusedProper DEF Null
  <2> QED
    BY <1>1, <2>1, <2>2 DEF InsertRow
<1>2. CASE a \in SaveArtifact \cup Log \cup LogCellExecution \cup SaveMetric \cup SaveResourceUsage
  BY <1>1, <1>2 DEF SaveArtifact, Log, LogCellExecution, SaveMetric, SaveResourceUsage
<1>3. CASE a \in SaveInput \cup SaveOutput
  <2>1. CASE a = Unserialisable
    BY <2>1, RefusedProper DEF Unserialisable
  <2>2. CASE \E what \in Params: a = Committed("params", what)
    BY <2>2, CommittedProper
  <2> QED
    BY <1>3, <2>1, <2>2 DEF SaveInput, SaveOutput, Params
<1>4. CASE a \in InitializeRun \cup CompleteRun
  BY <1>4, CommittedProper DEF InitializeRun, CompleteRun
<1>5. CASE \E tag \in Tags: a = AddTag(tag)
  BY <1>5, AddTagProper
<1>6. CASE a \in SaveInputsToRunDb \cup SaveOutputsToRunDb
  BY <1>6, EachProper DEF SaveInputsToRunDb, SaveOutputsToRunDb
<1> QED
  BY <1>2, <1>3, <1>4, <1>5, <1>6 DEF Todo, RunDatabaseCalls

\* What is left of an agenda after its first step.
LEMMA AfterFirst ==
  ASSUME NEW a \in Seq(Step), Ordered(a), a # <<>>
  PROVE  /\ Tail(a) \in Seq(Step) /\ Ordered(Tail(a))
         /\ a[1].into = "tags" =>
              Tail(a) # <<>> /\ Tail(a)[1] = Into("links", a[1].what)
         /\ a[1].into \in {"meta", "status", "params", "rows", "links"} =>
              Tail(a) # <<>> /\ Tail(a)[1] = Into("commit", a[1].what)
         /\ a[1].into = "commit" => ~Begins(Tail(a), {"links", "commit"})
<1>1. /\ Len(a) \in Nat \ {0} /\ DOMAIN a = 1..Len(a) /\ 1 \in DOMAIN a
      /\ Tail(a) \in Seq(Step) /\ Len(Tail(a)) = Len(a) - 1
      /\ DOMAIN Tail(a) = 1..Len(a) - 1
  OBVIOUS
<1>2. \A i \in DOMAIN Tail(a): i + 1 \in DOMAIN a /\ Tail(a)[i] = a[i + 1]
  BY <1>1
<1>3. \A i \in Nat: i + 1 \in DOMAIN a /\ i >= 1 => i \in DOMAIN Tail(a)
  BY <1>1
<1>4. Ordered(Tail(a))
  <2> SUFFICES ASSUME NEW i \in DOMAIN Tail(a)
               PROVE  Ordered(Tail(a))!(i)
    BY DEF Ordered
  <2>1. i \in Nat /\ i >= 1 /\ i + 1 \in DOMAIN a /\ Tail(a)[i] = a[i + 1]
    BY <1>1, <1>2
  <2>2. (i + 1) + 1 \in DOMAIN a => i + 1 \in DOMAIN Tail(a) /\ Tail(a)[i + 1] = a[(i + 1) + 1]
    BY <1>2, <1>3, <2>1
  <2>3. i + 1 \in DOMAIN Tail(a) => (i + 1) + 1 \in DOMAIN a
    BY <1>2, <2>1
  <2>4. Ordered(a)!(i + 1)
    BY <2>1 DEF Ordered
  <2> QED
    BY <2>1, <2>2, <2>3, <2>4
<1>5. Ordered(a)!(1)
  BY <1>1 DEF Ordered
<1>6. 1 + 1 \in DOMAIN a => Tail(a) # <<>> /\ Tail(a)[1] = a[1 + 1] /\ 1 \in DOMAIN Tail(a)
  <2>1. 1 + 1 \in DOMAIN a => 1 \in DOMAIN Tail(a)
    BY <1>1
  <2>2. 1 \in DOMAIN Tail(a) => Tail(a)[1] = a[1 + 1]
    BY <1>2
  <2>3. 1 \in DOMAIN Tail(a) => Len(Tail(a)) # 0
    BY <1>1
  <2> QED
    BY <2>1, <2>2, <2>3
<1>7. Tail(a) # <<>> => 1 + 1 \in DOMAIN a
  BY <1>1
<1> QED
  BY <1>1, <1>4, <1>5, <1>6, <1>7 DEF Begins

-----------------------------------------------------------------------------
(* One writer's step.                                                          *)

\* A step of w that leaves the file, and what is known of it, alone.
LEMMA PrivateStep ==
  ASSUME RunRecordInv, NEW w \in Writers,
         NEW c \in Connection \cup {None}, NEW a \in Seq(Step), NEW f \in BOOLEAN,
         Sound(c, a, f),
         MayWrite(c) => MayWrite(conn[w]) \/ ~OtherHolds(w, {"reserved", "pending"}),
         conn' = [conn EXCEPT ![w] = c],
         agenda' = [agenda EXCEPT ![w] = a],
         failed' = [failed EXCEPT ![w] = f],
         calls' \in 0..MaxCalls,
         UNCHANGED <<disk, acked, unsure, service, results>>
  PROVE  RunRecordInv'
<1>1. RecordTypeOK'
  BY DEF RunRecordInv, RecordTypeOK
<1>2. /\ conn'[w] = c /\ agenda'[w] = a /\ failed'[w] = f
      /\ \A v \in Writers \ {w}: /\ conn'[v] = conn[v] /\ agenda'[v] = agenda[v]
                                /\ failed'[v] = failed[v]
  BY DEF RunRecordInv, RecordTypeOK
<1>3. \A v \in Writers: Sound(conn[v], agenda[v], failed[v])'
  <2>1. ASSUME NEW d, NEW b, NEW g
        PROVE  Sound(d, b, g)' = Sound(d, b, g)
    BY DEF Sound, ImageInv
  <2> QED
    BY <1>2, <2>1 DEF RunRecordInv
<1>4. OneWriter'
  BY <1>2 DEF RunRecordInv, OneWriter, MayWrite, OtherHolds, Open
<1>5. (AckedSaved /\ TagsLinked /\ RegisteredEndStands)'
  BY DEF RunRecordInv, AckedSaved, TagsLinked, RegisteredEndStands
<1> QED
  BY <1>1, <1>3, <1>4, <1>5 DEF RunRecordInv

\* A call that raises leaves c as its connection, or none.
LEMMA RaiseStep ==
  ASSUME RunRecordInv, NEW w \in Writers, NEW c \in Connection,
         Sound(c, <<>>, TRUE),
         MayWrite(c) => MayWrite(conn[w]) \/ ~OtherHolds(w, {"reserved", "pending"}),
         Raise(w, c),
         UNCHANGED <<disk, calls, acked, unsure, service, results>>
  PROVE  RunRecordInv'
<1> DEFINE d == IF c.kept THEN c ELSE None
<1>1. /\ conn' = [conn EXCEPT ![w] = d]
      /\ agenda' = [agenda EXCEPT ![w] = <<>>]
      /\ failed' = [failed EXCEPT ![w] = c.kept]
  BY DEF Raise, SetConn
<1>2. c.kept \in BOOLEAN /\ d \in Connection \cup {None} /\ <<>> \in Seq(Step)
  BY DEF Connection
<1>3. Sound(None, <<>>, FALSE)
  BY DEF Sound, Ordered
<1>4. Sound(d, <<>>, c.kept)
  BY <1>2, <1>3
<1>5. MayWrite(d) => MayWrite(conn[w]) \/ ~OtherHolds(w, {"reserved", "pending"})
  BY DEF MayWrite
<1>6. calls' \in 0..MaxCalls
  BY DEF RunRecordInv, RecordTypeOK
<1> HIDE DEF d
<1> QED
  BY <1>1, <1>2, <1>4, <1>5, <1>6, PrivateStep

\* What is known of a writer that has steps to do.
LEMMA AtWork ==
  ASSUME RunRecordInv, NEW w \in Writers, ~Idle(w)
  PROVE  /\ agenda[w] \in Seq(Step) /\ agenda[w] # <<>> /\ Ordered(agenda[w])
         /\ Head(agenda[w]) = agenda[w][1] /\ agenda[w][1] \in Step
         /\ Ordered(agenda[w])!(1)
         /\ conn[w] \in Connection /\ conn[w] # None
         /\ Sound(conn[w], agenda[w], failed[w])
<1>1. agenda[w] \in Seq(Step) /\ agenda[w] # <<>> /\ Ordered(agenda[w]) /\ conn[w] # None
  BY DEF RunRecordInv, RecordTypeOK, Sound, Idle
<1>2. 1 \in DOMAIN agenda[w] /\ agenda[w][1] \in Step /\ Head(agenda[w]) = agenda[w][1]
  BY <1>1
<1> QED
  BY <1>1, <1>2 DEF RunRecordInv, RecordTypeOK, Ordered

\* The contents a statement sees.
LEMMA SeenSound ==
  ASSUME RunRecordInv, NEW w \in Writers, ~Idle(w), agenda[w][1].into # "commit"
  PROVE  Seen(w) \in Contents /\ ImageInv(Seen(w), agenda[w])
<1>1. conn[w] \in Connection /\ Sound(conn[w], agenda[w], failed[w]) /\ conn[w] # None
  BY AtWork
<1>2. CASE conn[w].image # None
  BY <1>1, <1>2 DEF Seen, Sound, Connection
<1>3. CASE conn[w].image = None
  <2>1. Seen(w) = disk /\ disk \in Contents /\ ~Begins(agenda[w], {"commit", "links"})
    BY <1>1, <1>3 DEF Seen, Sound, Begins, RunRecordInv, RecordTypeOK
  <2>2. \A t \in Tables: Pending(agenda[w], t) = 0
    BY <2>1 DEF Pending, Begins
  <2>3. \A t \in Tables: disk.rows[t] \in Nat /\ acked.rows[t] \in Nat /\ unsure[t] \in Nat
    BY DEF RunRecordInv, RecordTypeOK, Contents
  <2> QED
    BY <2>1, <2>2, <2>3 DEF ImageInv, RunRecordInv, AckedSaved, TagsLinked, Begins
<1> QED
  BY <1>2, <1>3

\* The rest of a call may be given up at any step but that between a tag and its
\* link and that between a row and its commit.
LEMMA ImageDropped ==
  ASSUME NEW db \in Contents, NEW a, ImageInv(db, a), RecordTypeOK,
         ~Begins(a, {"links"}), Begins(a, {"commit"}) => a[1].what \notin Tables
  PROVE  ImageInv(db, <<>>)
<1>1. \A t \in Tables: Pending(a, t) = 0 /\ Pending(<<>>, t) = 0
  BY DEF Pending, Begins
<1>2. ~Begins(<<>>, {"links"}) /\ ~Begins(<<>>, {"commit"})
  BY DEF Begins
<1> QED
  BY <1>1, <1>2 DEF ImageInv

\* A statement that is carried out keeps the image in order.
LEMMA AppliedSound ==
  ASSUME RecordTypeOK,
         NEW db \in Contents, NEW a \in Seq(Step), Ordered(a), a # <<>>, ImageInv(db, a),
         a[1].into # "commit", a[1].what # "unserialisable", ~Violates(a[1], db)
  PROVE  Applied(a[1], db) \in Contents /\ ImageInv(Applied(a[1], db), Tail(a))
<1> DEFINE s == a[1]
           b == Tail(a)
           new == Applied(s, db)
<1>1. s \in Step /\ Ordered(a)!(1)
  BY DEF Ordered
<1>2. /\ s.into = "tags" => b # <<>> /\ b[1] = Into("links", s.what)
      /\ s.into \in {"meta", "status", "params", "rows", "links"} =>
           b # <<>> /\ b[1] = Into("commit", s.what)
  BY AfterFirst
<1>3. s.into \in {"meta", "status", "params", "rows", "tags", "links"}
  BY <1>1 DEF Violates, Step
<1>4. \A t \in Tables: /\ db.rows[t] \in Nat /\ acked.rows[t] \in Nat /\ unsure[t] \in Nat
                       /\ Pending(a, t) = 0
  BY DEF RecordTypeOK, Contents, Pending, Begins
<1> SUFFICES new \in Contents /\ ImageInv(new, b)
  OBVIOUS
<1> HIDE DEF s, b
<1>5. /\ disk.meta \in Ended => db.meta \in Ended
      /\ disk.params \subseteq db.params
      /\ \A t \in Tables: acked.rows[t] <= db.rows[t] /\ db.rows[t] <= acked.rows[t] + unsure[t]
      /\ db.tags = IF s.into = "links" THEN db.links \cup {s.what} ELSE db.links
  BY <1>4 DEF ImageInv, Begins, s
<1>6. CASE s.into \in {"meta", "status", "params", "links"}
  <2>1. Begins(b, {"commit"}) /\ ~Begins(b, {"links"}) /\ b[1].what = s.what
    BY <1>2, <1>6 DEF Begins, Into
  <2>2. \A t \in Tables: Pending(b, t) = 0
    BY <1>1, <1>6, <2>1, RunRecordAssumption, NotKept DEF Pending, s, LogTables, Statuses, Params
  <2>3. CASE s.into \in {"meta", "status"}
    <3>1. new = [db EXCEPT !.meta = new.meta]
      BY <2>3 DEF Applied, Contents
    <3>2. new.meta \in Statuses \cup {None} /\ (disk.meta \in Ended => new.meta \in Ended)
      BY <1>1, <1>5, <2>3, RunRecordAssumption DEF Applied, Contents, Violates, Ended, Statuses, s
    <3>3. s.what \notin Params
      BY <1>1, <2>3, NotKept DEF s, Statuses
    <3> HIDE DEF new
    <3>4. new \in Contents
      BY <3>1, <3>2 DEF Contents
    <3>5. /\ new.params = db.params /\ new.rows = db.rows
          /\ new.tags = db.tags /\ new.links = db.links
      BY <3>1 DEF Contents
    <3> QED
      BY <1>4, <1>5, <2>1, <2>2, <2>3, <3>2, <3>3, <3>4, <3>5 DEF ImageInv
  <2>4. CASE s.into = "params"
    <3>1. new = [db EXCEPT !.params = db.params \cup {s.what}]
      BY <2>4 DEF Applied, Contents
    <3>2. s.what \in Params
      BY <1>1, <2>4 DEF s
    <3> HIDE DEF new
    <3> QED
      BY <1>4, <1>5, <2>1, <2>2, <2>4, <3>1, <3>2 DEF ImageInv, Contents
  <2>5. CASE s.into = "links"
    <3>1. new = [db EXCEPT !.links = db.links \cup {s.what}]
      BY <2>5 DEF Applied, Contents
    <3>2. s.what \in Tags /\ s.what \notin Params
      BY <1>1, <2>5, NotKept DEF s
    <3> HIDE DEF new
    <3> QED
      BY <1>4, <1>5, <2>1, <2>2, <2>5, <3>1, <3>2 DEF ImageInv, Contents
  <2> QED
    BY <1>6, <2>3, <2>4, <2>5
<1>7. CASE s.into = "rows"
  <2>1. Begins(b, {"commit"}) /\ ~Begins(b, {"links"}) /\ b[1].what = s.what
    BY <1>2, <1>7 DEF Begins, Into
  <2>2. s.what \in Tables /\ s.what \notin Params
    BY <1>1, <1>7, RunRecordAssumption, NotKept DEF s
  <2>3. new = [db EXCEPT !.rows = [db.rows EXCEPT ![s.what] = db.rows[s.what] + 1]]
    BY <1>7 DEF Applied, Contents
  <2> HIDE DEF new
  <2>4. /\ new \in Contents /\ new.params = db.params /\ new.meta = db.meta
        /\ new.tags = db.tags /\ new.links = db.links
    <3>1. [db.rows EXCEPT ![s.what] = db.rows[s.what] + 1] \in [Tables -> Nat]
      BY <2>2 DEF Contents
    <3> QED
      BY <2>3, <3>1 DEF Contents
  <2>5. \A t \in Tables: new.rows[t] = db.rows[t] + Pending(b, t)
    BY <1>4, <2>1, <2>2, <2>3 DEF Contents, Pending
  <2>6. \A t \in Tables: Pending(b, t) \in {0, 1}
    BY DEF Pending
  <2> QED
    BY <1>4, <1>5, <1>7, <2>1, <2>2, <2>4, <2>5, <2>6 DEF ImageInv
<1>8. CASE s.into = "tags"
  <2>1. Begins(b, {"links"}) /\ ~Begins(b, {"commit"}) /\ b[1].what = s.what
    BY <1>2, <1>8 DEF Begins, Into
  <2>2. s.what \in Tags
    BY <1>1, <1>8 DEF s
  <2>3. new = [db EXCEPT !.tags = db.tags \cup {s.what}]
    BY <1>8 DEF Applied, Contents
  <2>4. \A t \in Tables: Pending(b, t) = 0
    BY <2>1 DEF Pending
  <2> HIDE DEF new
  <2> QED
    BY <1>4, <1>5, <1>8, <2>1, <2>2, <2>3, <2>4 DEF ImageInv, Contents
<1> QED
  BY <1>3, <1>6, <1>7, <1>8

-----------------------------------------------------------------------------
(* The actions.                                                                *)

LEMMA CountedAdds ==
  ASSUME NEW rows \in [Tables -> Nat], NEW what
  PROVE  /\ Counted(rows, what) \in [Tables -> Nat]
         /\ \A t \in Tables: Counted(rows, what)[t] = rows[t] + (IF t = what THEN 1 ELSE 0)
  BY DEF Counted

LEMMA ConnectStep ==
  ASSUME RunRecordInv, NEW w \in Writers, Connect(w)
  PROVE  RunRecordInv'
<1>1. Fresh \in Connection /\ ~MayWrite(Fresh)
  BY DEF Fresh, Connection, Locks, MayWrite
<1>2. agenda[w] = <<>> /\ agenda[w] \in Seq(Step) /\ failed[w] \in BOOLEAN /\ calls' \in 0..MaxCalls
  BY DEF RunRecordInv, RecordTypeOK, Sound, Connect, Open
<1>3. Sound(Fresh, agenda[w], failed[w])
  BY <1>1, <1>2 DEF Sound, Ordered, Fresh, Begins, MayWrite
<1>4. /\ conn' = [conn EXCEPT ![w] = Fresh]
      /\ agenda' = [agenda EXCEPT ![w] = agenda[w]]
      /\ failed' = [failed EXCEPT ![w] = failed[w]]
  BY DEF RunRecordInv, RecordTypeOK, Connect, SetConn
<1> QED
  <2>1. UNCHANGED <<disk, acked, unsure, service, results>>
    BY DEF Connect
  <2> QED
    BY <1>1, <1>2, <1>3, <1>4, <2>1, PrivateStep

LEMMA CreateRunDatabaseStep ==
  ASSUME RunRecordInv, NEW w \in Writers, CreateRunDatabase(w)
  PROVE  RunRecordInv'
<1> DEFINE c == [Fresh EXCEPT !.kept = FALSE]
<1>1. PICK a \in InitializeRun: agenda' = [agenda EXCEPT ![w] = a]
  BY DEF CreateRunDatabase
<1>2. Proper(a)
  BY TodoProper DEF Todo, RunDatabaseCalls
<1>3. c \in Connection /\ ~MayWrite(c) /\ c # None
  BY NotKept DEF Fresh, Connection, Locks, MayWrite
<1>4. Sound(c, a, failed[w])
  BY <1>2, <1>3 DEF Sound, Proper, Fresh, MayWrite, Begins
<1>5. failed[w] \in BOOLEAN /\ calls' \in 0..MaxCalls
  BY RunRecordAssumption DEF RunRecordInv, RecordTypeOK, CreateRunDatabase
<1>6. conn' = [conn EXCEPT ![w] = c] /\ failed' = [failed EXCEPT ![w] = failed[w]]
  BY DEF RunRecordInv, RecordTypeOK, CreateRunDatabase, SetConn
<1> HIDE DEF c
<1> QED
  <2>1. UNCHANGED <<disk, acked, unsure, service, results>> /\ a \in Seq(Step)
    BY <1>2 DEF CreateRunDatabase, Proper
  <2> QED
    BY <1>1, <1>3, <1>4, <1>5, <1>6, <2>1, PrivateStep

LEMMA CloseStep ==
  ASSUME RunRecordInv, NEW w \in Writers, Close(w)
  PROVE  RunRecordInv'
<1>1. Sound(None, <<>>, FALSE) /\ ~MayWrite(None)
  BY DEF Sound, Ordered, MayWrite
<1>2. calls' \in 0..MaxCalls /\ <<>> \in Seq(Step)
  BY DEF RunRecordInv, RecordTypeOK, Close
<1> QED
  BY <1>1, <1>2, PrivateStep DEF Close, SetConn

LEMMA CallStep ==
  ASSUME RunRecordInv, NEW w \in Writers, Call(w)
  PROVE  RunRecordInv'
<1>1. PICK a \in Todo: agenda' = [agenda EXCEPT ![w] = a]
  BY DEF Call, Todo
<1>2. Proper(a)
  BY TodoProper
<1>3. conn[w] \in Connection /\ Sound(conn[w], agenda[w], failed[w]) /\ agenda[w] = <<>> /\ conn[w] # None
  BY DEF RunRecordInv, RecordTypeOK, Call, Open, Idle
<1>4. conn[w].image # None => ImageInv(conn[w].image, a)
  <2>1. \A t \in Tables: Pending(a, t) = 0 /\ Pending(<<>>, t) = 0
    BY <1>2 DEF Pending, Begins, Proper
  <2> QED
    BY <1>2, <1>3, <2>1 DEF Sound, ImageInv, Proper, Begins
<1>5. Sound(conn[w], a, FALSE)
  BY <1>2, <1>3, <1>4 DEF Sound, Proper, Begins
<1>6. conn' = [conn EXCEPT ![w] = conn[w]] /\ failed' = [failed EXCEPT ![w] = FALSE]
  BY DEF RunRecordInv, RecordTypeOK, Call
<1>7. calls' \in 0..MaxCalls
  BY RunRecordAssumption DEF RunRecordInv, RecordTypeOK, Call
<1> QED
  BY <1>1, <1>2, <1>3, <1>5, <1>6, <1>7, PrivateStep DEF Call, Proper

\* A call may give up before a statement.
LEMMA GivenUp ==
  ASSUME RunRecordInv, NEW w \in Writers, ~Idle(w),
         agenda[w][1].into # "links",
         agenda[w][1].into = "commit" => agenda[w][1].what \notin Tables
  PROVE  Sound(conn[w], <<>>, TRUE)
<1>1. conn[w] \in Connection /\ Sound(conn[w], agenda[w], failed[w]) /\ conn[w] # None
  BY AtWork
<1>2. conn[w].image # None => ImageInv(conn[w].image, <<>>)
  BY <1>1, ImageDropped DEF Connection, Sound, Begins, RunRecordInv
<1> QED
  BY <1>1, <1>2 DEF Sound, Ordered, Begins

LEMMA SerialiseStep ==
  ASSUME RunRecordInv, NEW w \in Writers, Serialise(w)
  PROVE  RunRecordInv'
<1>1. ~Idle(w) /\ agenda[w][1].what = "unserialisable" /\ conn[w] \in Connection
  BY AtWork DEF Serialise
<1>2. agenda[w][1].what \notin Tables \cup Tags
  BY <1>1, RunRecordAssumption DEF LogTables
<1>3. agenda[w][1].into # "links"
  BY <1>1, <1>2, AtWork
<1>4. Sound(conn[w], <<>>, TRUE)
  BY <1>1, <1>2, <1>3, GivenUp
<1> QED
  BY <1>1, <1>4, RaiseStep DEF Serialise

LEMMA ExecuteStep ==
  ASSUME RunRecordInv, NEW w \in Writers, Execute(w)
  PROVE  RunRecordInv'
<1> DEFINE s == Head(agenda[w])
           begun == [conn[w] EXCEPT !.tx = TRUE, !.image = Seen(w),
                                    !.lock = IF @ = "pending" THEN @ ELSE "reserved"]
           done == [begun EXCEPT !.image = Applied(s, Seen(w))]
<1>1. /\ ~Idle(w) /\ s = agenda[w][1] /\ s.into # "commit" /\ s.what # "unserialisable"
      /\ ~OtherHolds(w, {"reserved", "pending"})
  BY AtWork DEF Execute, AtStatement
<1>2. /\ agenda[w] \in Seq(Step) /\ agenda[w] # <<>> /\ Ordered(agenda[w])
      /\ conn[w] \in Connection /\ s \in Step
  BY <1>1, AtWork
<1>3. Seen(w) \in Contents /\ ImageInv(Seen(w), agenda[w])
  BY <1>1, SeenSound
<1>4. /\ begun \in Connection /\ begun # None /\ MayWrite(begun) /\ begun.tx
      /\ begun.image = Seen(w) /\ Seen(w) # None
  BY <1>2, <1>3, NotKept DEF Connection, Locks, MayWrite
<1>5. CASE Violates(s, Seen(w))
  <2>1. ~Begins(agenda[w], {"links"}) /\ ~Begins(agenda[w], {"commit"})
    BY <1>1, <1>5, AtWork, RunRecordAssumption DEF Violates, Begins
  <2>2. ImageInv(Seen(w), <<>>)
    BY <1>3, <2>1, ImageDropped DEF RunRecordInv
  <2>3. Raise(w, begun)
    BY <1>5 DEF Execute
  <2> HIDE DEF begun
  <2>4. Sound(begun, <<>>, TRUE)
    BY <1>4, <2>2 DEF Sound, Ordered, Begins
  <2> QED
    BY <1>1, <1>4, <2>3, <2>4, RaiseStep DEF Execute
<1>6. CASE ~Violates(s, Seen(w))
  <2>1. Applied(s, Seen(w)) \in Contents /\ ImageInv(Applied(s, Seen(w)), Tail(agenda[w]))
    BY <1>1, <1>2, <1>3, <1>6, AppliedSound DEF RunRecordInv
  <2>2. /\ conn' = [conn EXCEPT ![w] = done]
        /\ agenda' = [agenda EXCEPT ![w] = Tail(agenda[w])]
        /\ failed' = [failed EXCEPT ![w] = failed[w]]
    BY <1>6 DEF Execute, SetConn, Advance, RunRecordInv, RecordTypeOK
  <2>3. /\ Tail(agenda[w]) \in Seq(Step) /\ Ordered(Tail(agenda[w]))
        /\ s.into \in {"meta", "status", "params", "rows", "tags", "links"} => Tail(agenda[w]) # <<>>
    BY <1>1, <1>2, AfterFirst
  <2>4. s.into \in {"meta", "status", "params", "rows", "tags", "links"}
    BY <1>1, <1>2, <1>6, AtWork DEF Violates, Step
  <2>5. /\ done \in Connection /\ MayWrite(done) /\ done # None /\ done.tx
        /\ done.image = Applied(s, Seen(w)) /\ done.image # None
    BY <1>4, <2>1, NotKept DEF Connection, MayWrite
  <2> HIDE DEF done
  <2>6. Sound(done, Tail(agenda[w]), failed[w])
    BY <2>1, <2>3, <2>4, <2>5 DEF Sound
  <2>7. failed[w] \in BOOLEAN /\ calls' \in 0..MaxCalls
    BY DEF RunRecordInv, RecordTypeOK, Execute
  <2> QED
    <3>1. UNCHANGED <<disk, acked, unsure, service, results>>
      BY DEF Execute
    <3> QED
      BY <1>1, <2>2, <2>3, <2>5, <2>6, <2>7, <3>1, PrivateStep
<1> QED
  BY <1>5, <1>6

LEMMA ExecuteTimesOutStep ==
  ASSUME RunRecordInv, NEW w \in Writers, ExecuteTimesOut(w)
  PROVE  RunRecordInv'
<1> DEFINE c == [conn[w] EXCEPT !.tx = TRUE]
<1>1. ~Idle(w) /\ OtherHolds(w, {"reserved", "pending"}) /\ Raise(w, c)
  BY DEF ExecuteTimesOut, AtStatement
<1>2. conn[w] \in Connection /\ conn[w] # None /\ Sound(conn[w], agenda[w], failed[w])
  BY <1>1, AtWork
<1>3. ~MayWrite(conn[w])
  BY <1>1, <1>2 DEF RunRecordInv, OneWriter, MayWrite, OtherHolds, Open
<1>4. c \in Connection /\ c # None /\ c.image = None /\ ~MayWrite(c)
  BY <1>2, <1>3, NotKept DEF Sound, Connection, MayWrite
<1> HIDE DEF c
<1>5. Sound(c, <<>>, TRUE)
  BY <1>4 DEF Sound, Ordered, Begins
<1> QED
  BY <1>1, <1>4, <1>5, RaiseStep DEF ExecuteTimesOut

\* What is known of a writer at its commit: it alone may write.
LEMMA AtItsCommit ==
  ASSUME RunRecordInv, NEW w \in Writers, AtCommit(w)
  PROVE  LET c == conn[w]
             a == agenda[w]
         IN /\ ~Idle(w) /\ c \in Connection /\ c # None /\ a[1].into = "commit" /\ Head(a) = a[1]
            /\ c.image \in Contents /\ c.image # None /\ ImageInv(c.image, a) /\ MayWrite(c) /\ c.tx
            /\ c.image.tags = c.image.links
            /\ \A v \in Writers \ {w}: ~MayWrite(conn[v])
            /\ \A t \in Tables: Pending(a, t) = IF t = a[1].what THEN 1 ELSE 0
<1>1. ~Idle(w) /\ agenda[w][1].into = "commit" /\ Head(agenda[w]) = agenda[w][1]
  BY AtWork DEF AtCommit
<1>2. /\ conn[w] \in Connection /\ conn[w] # None /\ agenda[w] # <<>>
      /\ Sound(conn[w], agenda[w], failed[w])
  BY <1>1, AtWork
<1>3. Begins(agenda[w], {"commit"}) /\ ~Begins(agenda[w], {"links"})
  BY <1>1, <1>2 DEF Begins
<1>4. conn[w].image \in Contents /\ conn[w].image # None /\ ImageInv(conn[w].image, agenda[w])
  BY <1>2, <1>3 DEF Sound, Begins, Connection
<1>5. MayWrite(conn[w]) /\ conn[w].tx
  BY <1>2, <1>4 DEF Sound
<1>6. conn[w].image.tags = conn[w].image.links
  BY <1>3, <1>4 DEF ImageInv
<1>7. \A v \in Writers \ {w}: ~MayWrite(conn[v])
  BY <1>5 DEF RunRecordInv, OneWriter
<1>8. \A t \in Tables: Pending(agenda[w], t) = IF t = agenda[w][1].what THEN 1 ELSE 0
  BY <1>3 DEF Pending
<1> QED
  BY <1>1, <1>2, <1>4, <1>5, <1>6, <1>7, <1>8

LEMMA CommitStep ==
  ASSUME RunRecordInv, NEW w \in Writers, Commit(w)
  PROVE  RunRecordInv'
<1> DEFINE db == conn[w].image
           a == agenda[w]
           what == Head(agenda[w]).what
<1>1. /\ ~Idle(w) /\ conn[w] \in Connection /\ conn[w] # None /\ a[1].into = "commit"
      /\ Head(a) = a[1] /\ db \in Contents /\ ImageInv(db, a) /\ db.tags = db.links
      /\ \A v \in Writers \ {w}: ~MayWrite(conn[v])
      /\ \A t \in Tables: Pending(a, t) = IF t = what THEN 1 ELSE 0
  BY AtItsCommit DEF Commit
<1>2. /\ disk' = db
      /\ conn' = [conn EXCEPT ![w] = Fresh] /\ agenda' = [agenda EXCEPT ![w] = Tail(a)]
      /\ acked' = [params |-> acked.params \cup ({what} \cap Params),
                   rows |-> Counted(acked.rows, what)]
      /\ UNCHANGED <<failed, calls, unsure, service, results>>
  BY DEF Commit, SetConn, Advance, Acknowledged
<1>3. a \in Seq(Step) /\ a # <<>> /\ Ordered(a)
  BY <1>1, AtWork
<1>4. Tail(a) \in Seq(Step) /\ Ordered(Tail(a)) /\ ~Begins(Tail(a), {"links", "commit"})
  BY <1>1, <1>3, AfterFirst
<1>5. /\ Fresh \in Connection /\ Fresh # None /\ ~MayWrite(Fresh)
      /\ Fresh.image = None /\ ~Fresh.tx /\ Fresh.lock = "none"
  <2>1. Fresh \in Connection
    BY DEF Fresh, Connection, Locks
  <2> QED
    BY <2>1, NotKept DEF Fresh, MayWrite
<1>6. acked.rows \in [Tables -> Nat] /\ unsure \in [Tables -> Nat]
  BY DEF RunRecordInv, RecordTypeOK
<1>7. /\ acked'.rows \in [Tables -> Nat]
      /\ \A t \in Tables: acked'.rows[t] = acked.rows[t] + Pending(a, t)
  <2>1. /\ Counted(acked.rows, what) \in [Tables -> Nat]
        /\ \A t \in Tables: Counted(acked.rows, what)[t] = acked.rows[t] + (IF t = what THEN 1 ELSE 0)
    BY <1>6, CountedAdds
  <2>2. acked'.rows = Counted(acked.rows, what)
    BY <1>2
  <2> HIDE DEF what, a
  <2> QED
    BY <1>1, <2>1, <2>2
<1>8. RecordTypeOK'
  <2>1. acked' \in [params: SUBSET Params, rows: [Tables -> Nat]]
    BY <1>2, <1>7 DEF RunRecordInv, RecordTypeOK
  <2> QED
    BY <1>1, <1>2, <1>4, <1>5, <2>1 DEF RunRecordInv, RecordTypeOK
<1>9. \A v \in Writers: Sound(conn[v], agenda[v], failed[v])'
  <2>2. /\ conn'[w] = Fresh /\ agenda'[w] = Tail(a) /\ failed'[w] = failed[w]
        /\ \A v \in Writers \ {w}: /\ conn'[v] = conn[v] /\ agenda'[v] = agenda[v]
                                  /\ failed'[v] = failed[v]
    BY <1>2 DEF RunRecordInv, RecordTypeOK
  <2>3. ASSUME NEW v \in Writers \ {w}
        PROVE  Sound(conn[v], agenda[v], failed[v])'
    <3>1. Sound(conn[v], agenda[v], failed[v]) /\ ~MayWrite(conn[v]) /\ conn[v] \in Connection \cup {None}
      BY <1>1 DEF RunRecordInv, RecordTypeOK
    <3> QED
      BY <2>2, <3>1 DEF Sound, MayWrite, Ordered, Begins
  <2>1. Sound(conn[w], agenda[w], failed[w])'
    BY <1>4, <1>5, <2>2 DEF Sound, MayWrite, Ordered, Begins
  <2> QED
    BY <2>1, <2>3
<1>10. OneWriter'
  BY <1>1, <1>2, <1>5 DEF RunRecordInv, RecordTypeOK, OneWriter, MayWrite
<1>11. AckedSaved'
  <2>1. acked'.params \subseteq disk'.params
    BY <1>1, <1>2, <1>3 DEF RunRecordInv, AckedSaved, ImageInv, Begins
  <2>2. ASSUME NEW t \in Tables
        PROVE  acked'.rows[t] <= disk'.rows[t] /\ disk'.rows[t] <= acked'.rows[t] + unsure'[t]
    <3>1. /\ acked.rows[t] \in Nat /\ unsure[t] \in Nat /\ db.rows[t] \in Nat
          /\ Pending(a, t) \in {0, 1}
      BY <1>1, <1>6 DEF Contents
    <3>2. /\ acked.rows[t] + Pending(a, t) <= db.rows[t]
          /\ db.rows[t] <= acked.rows[t] + unsure[t] + Pending(a, t)
      BY <1>1 DEF ImageInv
    <3> HIDE DEF db, a
    <3> QED
      BY <1>2, <1>7, <3>1, <3>2
  <2> QED
    BY <2>1, <2>2 DEF AckedSaved
<1>12. TagsLinked'
  BY <1>1, <1>2 DEF TagsLinked
<1>13. RegisteredEndStands'
  <2>1. disk.meta \in Ended => db.meta \in Ended
    BY <1>1 DEF ImageInv
  <2>2. /\ disk.meta \in Statuses \cup {None} /\ None \notin Statuses
        /\ results \ {"running"} # {} => disk.meta \notin {"running", None}
    BY RunRecordAssumption DEF RunRecordInv, RecordTypeOK, RegisteredEndStands, Contents
  <2> QED
    BY <1>2, <2>1, <2>2 DEF RegisteredEndStands, Ended
<1> QED
  BY <1>8, <1>9, <1>10, <1>11, <1>12, <1>13 DEF RunRecordInv

LEMMA CommitTimesOutStep ==
  ASSUME RunRecordInv, NEW w \in Writers, CommitTimesOut(w)
  PROVE  RunRecordInv'
<1> DEFINE db == conn[w].image
           a == agenda[w]
           what == Head(agenda[w]).what
           c == [conn[w] EXCEPT !.lock = "pending"]
           d == IF c.kept THEN c ELSE None
<1>1. /\ ~Idle(w) /\ conn[w] \in Connection /\ conn[w] # None /\ a[1].into = "commit"
      /\ Head(a) = a[1] /\ db \in Contents /\ db # None /\ ImageInv(db, a)
      /\ db.tags = db.links /\ conn[w].tx
      /\ \A v \in Writers \ {w}: ~MayWrite(conn[v])
      /\ \A t \in Tables: Pending(a, t) = IF t = what THEN 1 ELSE 0
  BY AtItsCommit DEF CommitTimesOut
<1>2. /\ conn' = [conn EXCEPT ![w] = d] /\ agenda' = [agenda EXCEPT ![w] = <<>>]
      /\ failed' = [failed EXCEPT ![w] = c.kept]
      /\ unsure' = Counted(unsure, what)
      /\ UNCHANGED <<disk, calls, acked, service, results>>
  BY DEF CommitTimesOut, Raise, SetConn
<1>3. /\ c \in Connection /\ c # None /\ MayWrite(c) /\ c.image = db /\ c.tx
      /\ c.kept \in BOOLEAN /\ d \in Connection \cup {None} /\ <<>> \in Seq(Step)
  BY <1>1, NotKept DEF Connection, Locks, MayWrite
<1>4. unsure \in [Tables -> Nat]
  BY DEF RunRecordInv, RecordTypeOK
<1>5. /\ unsure' \in [Tables -> Nat]
      /\ \A t \in Tables: unsure'[t] = unsure[t] + Pending(a, t)
  <2>1. /\ Counted(unsure, what) \in [Tables -> Nat]
        /\ \A t \in Tables: Counted(unsure, what)[t] = unsure[t] + (IF t = what THEN 1 ELSE 0)
    BY <1>4, CountedAdds
  <2> HIDE DEF what, a
  <2> QED
    BY <1>1, <1>2, <2>1
<1>6. RecordTypeOK'
  BY <1>2, <1>3, <1>5 DEF RunRecordInv, RecordTypeOK
<1>7. \A t \in Tables: /\ acked.rows[t] \in Nat /\ unsure[t] \in Nat /\ db.rows[t] \in Nat
                       /\ disk.rows[t] \in Nat /\ Pending(a, t) \in {0, 1}
  BY <1>1, <1>4 DEF RunRecordInv, RecordTypeOK, Contents
<1>8. \A v \in Writers: Sound(conn[v], agenda[v], failed[v])'
  <2>1. /\ conn'[w] = d /\ agenda'[w] = <<>> /\ failed'[w] = c.kept
        /\ \A v \in Writers \ {w}: /\ conn'[v] = conn[v] /\ agenda'[v] = agenda[v]
                                  /\ failed'[v] = failed[v]
    BY <1>2 DEF RunRecordInv, RecordTypeOK
  <2>2. ASSUME NEW v \in Writers \ {w}
        PROVE  Sound(conn[v], agenda[v], failed[v])'
    <3>1. Sound(conn[v], agenda[v], failed[v]) /\ ~MayWrite(conn[v]) /\ conn[v] \in Connection \cup {None}
      BY <1>1 DEF RunRecordInv, RecordTypeOK
    <3> QED
      BY <2>1, <3>1 DEF Sound, MayWrite, Ordered, Begins
  <2>3. Ordered(<<>>) /\ ~Begins(<<>>, {"commit"}) /\ ~Begins(<<>>, {"links"})
        /\ ~Begins(<<>>, {"links", "commit"})
    BY DEF Ordered, Begins
  <2>4. c.kept => ImageInv(conn[w].image, agenda[w])'
    <3>1. \A t \in Tables: Pending(<<>>, t) = 0
      BY <2>3 DEF Pending
    <3>2. \A t \in Tables: acked.rows[t] <= db.rows[t] /\ db.rows[t] <= acked.rows[t] + unsure'[t]
      <4>1. \A t \in Tables: /\ acked.rows[t] + Pending(a, t) <= db.rows[t]
                             /\ db.rows[t] <= acked.rows[t] + unsure[t] + Pending(a, t)
        BY <1>1 DEF ImageInv
      <4> HIDE DEF db, a
      <4> QED
        BY <4>1, <1>5, <1>7
    <3>3. (disk.meta \in Ended => db.meta \in Ended) /\ disk.params \subseteq db.params
      BY <1>1 DEF ImageInv
    <3>4. c.kept => conn'[w].image = db
      BY <1>3, <2>1
    <3>5. UNCHANGED <<disk, acked>>
      BY <1>2
    <3>6. \A t \in Tables: Pending(agenda[w], t)' = 0
      BY <2>1 DEF Pending, Begins
    <3>7. ~Begins(agenda[w], {"commit"})' /\ ~Begins(agenda[w], {"links"})'
      BY <2>1 DEF Begins
    <3> HIDE DEF db, a, c, d
    <3> SUFFICES ASSUME c.kept PROVE ImageInv(conn[w].image, agenda[w])'
      OBVIOUS
    <3>8. \A t \in Tables: /\ (acked.rows[t] + Pending(agenda[w], t) <= conn[w].image.rows[t])'
                           /\ (conn[w].image.rows[t] <= acked.rows[t] + unsure[t] + Pending(agenda[w], t))'
      <4>1. ASSUME NEW t \in Tables
            PROVE  /\ acked.rows[t] + 0 <= db.rows[t]
                   /\ db.rows[t] <= acked.rows[t] + unsure'[t] + 0
        BY <1>5, <1>7, <3>2
      <4> QED
        BY <4>1, <3>4, <3>5, <3>6
    <3>9. (conn[w].image.tags = IF Begins(agenda[w], {"links"})
                                THEN conn[w].image.links \cup {agenda[w][1].what}
                                ELSE conn[w].image.links)'
      BY <1>1, <3>4, <3>7
    <3>10. (disk.meta \in Ended => conn[w].image.meta \in Ended)' /\ (disk.params \subseteq conn[w].image.params)'
      BY <3>3, <3>4, <3>5 DEF Ended, Statuses
    <3> QED
      BY <3>7, <3>8, <3>9, <3>10 DEF ImageInv
  <2>5. Sound(conn[w], agenda[w], failed[w])'
    <3> HIDE DEF c, db
    <3>1. CASE c.kept
      <4>1. conn'[w] = c
        BY <2>1, <3>1
      <4> QED
        BY <1>1, <1>3, <2>1, <2>3, <2>4, <3>1, <4>1 DEF Sound, MayWrite, Ordered, Begins
    <3>2. CASE ~c.kept
      <4>1. conn'[w] = None
        BY <2>1, <3>2
      <4> QED
        BY <2>1, <2>3, <4>1 DEF Sound, Ordered
    <3> QED
      BY <3>1, <3>2
  <2> QED
    BY <2>2, <2>5
<1>9. OneWriter'
  <2>1. \A v \in Writers \ {w}: conn'[v] = conn[v]
    BY <1>2 DEF RunRecordInv, RecordTypeOK
  <2> QED
    BY <1>1, <2>1 DEF OneWriter, MayWrite
<1>10. (AckedSaved /\ TagsLinked /\ RegisteredEndStands)'
  <2>1. \A t \in Tables: disk.rows[t] <= acked.rows[t] + unsure'[t] /\ acked.rows[t] <= disk.rows[t]
    <3>1. \A t \in Tables: disk.rows[t] <= acked.rows[t] + unsure[t] /\ acked.rows[t] <= disk.rows[t]
      BY DEF RunRecordInv, AckedSaved
    <3> HIDE DEF db, a
    <3> QED
      BY <1>5, <1>7, <3>1
  <2> QED
    BY <1>2, <2>1 DEF RunRecordInv, AckedSaved, TagsLinked, RegisteredEndStands
<1> QED
  BY <1>6, <1>8, <1>9, <1>10 DEF RunRecordInv

LEMMA ReadStep ==
  ASSUME RunRecordInv, NEW w \in Writers, Read(w)
  PROVE  RunRecordInv'
<1> DEFINE c == [conn[w] EXCEPT !.lock = "shared"]
<1>1. /\ conn[w] \in Connection /\ conn[w] # None /\ conn[w].tx /\ conn[w].lock = "none"
      /\ agenda[w] = <<>> /\ Sound(conn[w], agenda[w], failed[w])
  BY DEF RunRecordInv, RecordTypeOK, Read, Open, Idle
<1>2. c \in Connection /\ c # None /\ ~MayWrite(c) /\ c.image = None
  BY <1>1, NotKept DEF Sound, Connection, Locks, MayWrite
<1>3. Sound(c, agenda[w], failed[w])
  BY <1>1, <1>2 DEF Sound, Begins
<1>4. /\ conn' = [conn EXCEPT ![w] = c]
      /\ agenda' = [agenda EXCEPT ![w] = agenda[w]]
      /\ failed' = [failed EXCEPT ![w] = failed[w]]
      /\ agenda[w] \in Seq(Step) /\ failed[w] \in BOOLEAN /\ calls' \in 0..MaxCalls
  BY DEF RunRecordInv, RecordTypeOK, Read, SetConn
<1>5. UNCHANGED <<disk, acked, unsure, service, results>>
  BY DEF Read
<1> HIDE DEF c
<1> QED
  BY <1>2, <1>3, <1>4, <1>5, PrivateStep

LEMMA ServiceStep ==
  ASSUME RunRecordInv, IntrospectRun \/ RegisterRun
  PROVE  RunRecordInv'
<1>1. UNCHANGED <<disk, conn, agenda, failed, calls, acked, unsure>>
  BY DEF IntrospectRun, RegisterRun
<1>2. service' \in {"idle", "empty"} /\ results' \subseteq results \cup ({disk.meta} \ {None})
  BY DEF RunRecordInv, RecordTypeOK, IntrospectRun, RegisterRun
<1>3. RecordTypeOK' /\ RegisteredEndStands'
  BY <1>1, <1>2 DEF RunRecordInv, RecordTypeOK, RegisteredEndStands, Contents
<1>4. \A w \in Writers: Sound(conn[w], agenda[w], failed[w])'
  BY <1>1 DEF RunRecordInv, Sound, ImageInv
<1>5. (OneWriter /\ AckedSaved /\ TagsLinked)'
  BY <1>1 DEF RunRecordInv, OneWriter, AckedSaved, TagsLinked
<1> QED
  BY <1>3, <1>4, <1>5 DEF RunRecordInv

-----------------------------------------------------------------------------
(* The theorems.                                                               *)

LEMMA RunRecordInitInv == RecordInit => RunRecordInv
<1> SUFFICES ASSUME RecordInit PROVE RunRecordInv
  OBVIOUS
<1>1. RecordTypeOK
  BY RunRecordAssumption DEF RecordInit, RecordTypeOK, Blank, Contents
<1>2. \A w \in Writers: conn[w] = None /\ agenda[w] = <<>>
  BY DEF RecordInit
<1>3. \A w \in Writers: Sound(conn[w], agenda[w], failed[w])
  BY <1>2 DEF Sound, Ordered
<1>4. OneWriter /\ AckedSaved /\ TagsLinked /\ RegisteredEndStands
  BY <1>2 DEF RecordInit, Blank, OneWriter, MayWrite, AckedSaved, TagsLinked, RegisteredEndStands
<1> QED
  BY <1>1, <1>3, <1>4 DEF RunRecordInv

LEMMA RunRecordNextInv == RunRecordInv /\ [RecordNext]_recordVars => RunRecordInv'
<1> SUFFICES ASSUME RunRecordInv, [RecordNext]_recordVars PROVE RunRecordInv'
  OBVIOUS
<1>1. ASSUME NEW w \in Writers, Connect(w) PROVE RunRecordInv'
  BY <1>1, ConnectStep
<1>2. ASSUME NEW w \in Writers, CreateRunDatabase(w) PROVE RunRecordInv'
  BY <1>2, CreateRunDatabaseStep
<1>3. ASSUME NEW w \in Writers, Close(w) PROVE RunRecordInv'
  BY <1>3, CloseStep
<1>4. ASSUME NEW w \in Writers, Call(w) PROVE RunRecordInv'
  BY <1>4, CallStep
<1>5. ASSUME NEW w \in Writers, Serialise(w) PROVE RunRecordInv'
  BY <1>5, SerialiseStep
<1>6. ASSUME NEW w \in Writers, Execute(w) PROVE RunRecordInv'
  BY <1>6, ExecuteStep
<1>7. ASSUME NEW w \in Writers, ExecuteTimesOut(w) PROVE RunRecordInv'
  BY <1>7, ExecuteTimesOutStep
<1>8. ASSUME NEW w \in Writers, Commit(w) PROVE RunRecordInv'
  BY <1>8, CommitStep
<1>9. ASSUME NEW w \in Writers, CommitTimesOut(w) PROVE RunRecordInv'
  BY <1>9, CommitTimesOutStep
<1>10. ASSUME NEW w \in Writers, Read(w) PROVE RunRecordInv'
  BY <1>10, ReadStep
<1>11. CASE IntrospectRun \/ RegisterRun
  BY <1>11, ServiceStep
<1>12. CASE UNCHANGED recordVars
  <2>1. \A w \in Writers: Sound(conn[w], agenda[w], failed[w])'
    BY <1>12 DEF recordVars, RunRecordInv, Sound, ImageInv
  <2>2. RecordTypeOK'
    BY <1>12 DEF recordVars, RunRecordInv, RecordTypeOK
  <2>3. (OneWriter /\ AckedSaved /\ TagsLinked /\ RegisteredEndStands)'
    BY <1>12 DEF recordVars, RunRecordInv, OneWriter, AckedSaved, TagsLinked, RegisteredEndStands
  <2> QED
    BY <2>1, <2>2, <2>3 DEF RunRecordInv
<1> QED
  BY <1>1, <1>2, <1>3, <1>4, <1>5, <1>6, <1>7, <1>8, <1>9, <1>10, <1>11, <1>12 DEF RecordNext

LEMMA RecordInvariance == RecordSpec => []RunRecordInv
  BY RunRecordInitInv, RunRecordNextInv, PTL DEF RecordSpec

(* Every variable of a run's record keeps its type: what is left of a call     *)
(* consists of statements and commits, and no table holds less than no row.    *)
THEOREM RecordTypesHold == RecordSpec => []RecordTypeOK
<1>1. RunRecordInv => RecordTypeOK
  BY DEF RunRecordInv
<1> QED
  BY <1>1, RecordInvariance, PTL

(* A parameter or a row whose call returned is in the file, and a row whose    *)
(* call did not return is there at most once, however many processes write     *)
(* and whatever they leave undone.                                             *)
THEOREM AckedAreSaved == RecordSpec => []AckedSaved
<1>1. RunRecordInv => AckedSaved
  BY DEF RunRecordInv
<1> QED
  BY <1>1, RecordInvariance, PTL

(* Between calls, only a connection whose last call raised is in a             *)
(* transaction or holds a lock.                                                *)
THEOREM OnlyFailuresLock == RecordSpec => []LocksOfFailuresOnly
<1>1. RunRecordInv => LocksOfFailuresOnly
  BY DEF RunRecordInv, LocksOfFailuresOnly, Sound, Open, Idle
<1> QED
  BY <1>1, RecordInvariance, PTL

(* A run that was registered as ended does not begin again.                    *)
THEOREM EndsStand == RecordSpec => []RegisteredEndStands
<1>1. RunRecordInv => RegisteredEndStands
  BY DEF RunRecordInv
<1> QED
  BY <1>1, RecordInvariance, PTL
=============================================================================
