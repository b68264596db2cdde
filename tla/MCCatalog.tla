----------------------------- MODULE MCCatalog -----------------------------
(* Two handler threads, two versions, two executions and two requests for the
   same version: a version can be deleted, registered again and approved while
   runs of either are under way.                                             *)
EXTENDS Catalog, TLC

CONSTANTS t1, t2, v1, v2, e1, e2, r1, r2

MCPayload == (r1 :> v1) @@ (r2 :> v1)
Symmetry == {f @@ g @@ h: f \in Permutations(Threads), g \in Permutations(Execs),
                          h \in Permutations(Requests)}
=============================================================================
