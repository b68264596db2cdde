--------------------------- MODULE MCCacheService ---------------------------
(* Two handler threads over two keys, with entries that never expire and
   entries that expire on the next tick, and one session that expires while
   requests are under way.                                                   *)
EXTENDS CacheService, TLC

CONSTANTS k1, k2, e1, e2, t1, t2

MCKeys == {k1, k2}
MCBackends == {"sqlite", "postgresql"}
MCExecs == {e1, e2}
MCThreads == {t1, t2}
MCSids == {"s1"}
MCTtls == {Never, 1}
MCSymmetry == {f @@ g @@ h: f \in Permutations(MCKeys), g \in Permutations(MCExecs),
                             h \in Permutations(MCThreads)}
=============================================================================
