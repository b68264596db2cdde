------------------------------- MODULE NoValue -------------------------------
(* What stands for a value that is not there: Python's None, and an exception. *)
CONSTANTS None, Invalid
=============================================================================
