----------------------------- MODULE MCFileTree -----------------------------
(* Three ids supplied by callers and one generated; four operations: a tree of
   two levels can be built and then moved in or deleted.                     *)
EXTENDS FileTree, TLC

CONSTANTS c1, c2, u1, u2, u3, g1

MCClients == {c1, c2}
MCUsable == {u1, u2, u3}
MCGenerated == {g1}
MCModes == {"remote", "local"}
MCSymmetry == Permutations(MCUsable) \cup Permutations(MCClients)
=============================================================================
