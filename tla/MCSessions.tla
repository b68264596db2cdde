----------------------------- MODULE MCSessions -----------------------------
(* Two threads, of two services or of one.  Two managers are two built at
   the same time, or one and that of the process started again.              *)
EXTENDS Sessions, TLC

CONSTANTS a, b, t1, t2, m1, m2, k1, k2

MCServices == {a, b}
MCThreads == {t1, t2}
MCManagers == {m1, m2}
MCTokens == {k1, k2}

On(kind, backend) == [kind |-> kind, backend |-> backend]
Apart(f, g, n) == [flavour |-> [s \in MCServices |-> IF s = a THEN f ELSE g],
                   home |-> [t \in MCThreads |-> IF t = t1 THEN a ELSE b],
                   attempts |-> 1, crashes |-> n]
Together(f) == [flavour |-> [s \in MCServices |-> f],
                home |-> [t \in MCThreads |-> a],
                attempts |-> 2, crashes |-> 0]

(* One thread each: services that share the password file, and a crash.  Two
   threads of one process, that share its manager and its limiter.            *)
MCDeployments == {Apart(On("catalog", "postgresql"), On("catalog", "sqlite"), 0),
                  Apart(On("results", "memory"), On("cache", "sqlite"), 1),
                  Together(On("results", "memory"))}

MCSymmetry == Permutations(MCManagers) \cup Permutations(MCTokens)
=============================================================================
