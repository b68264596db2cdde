-------------------------- MODULE MCIsolatedWorker --------------------------
(* Three processes started by the workflow: one can outlive the other, fork it
   after leaving the group, and hold the pipes when the other does not. *)
EXTENDS IsolatedWorker
=============================================================================
