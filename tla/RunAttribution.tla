--------------------------- MODULE RunAttribution ---------------------------
(***************************************************************************)
(* What notebook execution promises, without threads, environment          *)
(* variables or kernels: a run, once opened, may have outputs filed under  *)
(* its execution id, they are its own and no other run's, and it is closed *)
(* at most once.  A run that is never closed was lost to a crash.          *)
(***************************************************************************)
CONSTANT Runs                   \* execution ids (uuid4, never reused)

VARIABLES state,                \* the fate of each run
          filed                 \* filed[r]: the runs that produced the outputs
                                \* stored under the execution id r
avars == <<state, filed>>

AInit == /\ state = [r \in Runs |-> "absent"]
         /\ filed = [r \in Runs |-> {}]

Open(r) == /\ state[r] = "absent"
           /\ state' = [state EXCEPT ![r] = "open"]
           /\ UNCHANGED filed

\* Outputs reach the table while the run is open, and possibly after it was
\* closed or lost: a kernel that outlives its parent still owns its run's id.
File(r) == /\ state[r] # "absent"
           /\ filed' = [filed EXCEPT ![r] = {r}]
           /\ UNCHANGED state

\* Closing a run may store the outputs found in the executed notebook.
Close(r) == /\ state[r] = "open"
            /\ \E s \in {"completed", "failed"}: state' = [state EXCEPT ![r] = s]
            /\ \/ UNCHANGED filed
               \/ filed' = [filed EXCEPT ![r] = {r}]

ANext == \E r \in Runs: Open(r) \/ File(r) \/ Close(r)

ASpec == AInit /\ [][ANext]_avars
=============================================================================
