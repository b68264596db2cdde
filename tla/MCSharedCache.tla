--------------------------- MODULE MCSharedCache ---------------------------
(* Two installations, one of which registers its results; two keys and three
   executions: a second run of a key after or beside the first, and a run of
   another key between them.                                                 *)
EXTENDS SharedCache, TLC

CONSTANTS i1, i2, k1, k2, e1, e2, e3

MCInsts == {i1, i2}
MCKeys == {k1, k2}
MCExecs == {e1, e2, e3}
MCTwoExecs == {e1, e2}
MCRegistering == {i1}
MCSymmetry == Permutations(MCKeys) \cup Permutations(MCExecs)
=============================================================================
