--------------------------- MODULE MCExecutionEnv ---------------------------
(* Two worker threads and three runs: enough for one thread to run twice while
   the other waits, and for a run to follow a failed or a crashed one.        *)
EXTENDS ExecutionEnv, TLC

CONSTANTS t1, t2, r1, r2, r3

MCThreads == {t1, t2}
MCRuns == {r1, r2, r3}

=============================================================================
