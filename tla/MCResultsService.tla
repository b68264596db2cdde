-------------------------- MODULE MCResultsService --------------------------
(***************************************************************************)
(* Instances of ResultsService.  What is stored: three executions, two on  *)
(* the same inputs, whose values no statement refuses.  What is refused:   *)
(* one execution, with every kind of value that some statement refuses.    *)
(***************************************************************************)
EXTENDS ResultsService, TLC

CONSTANTS e1, e2, e3, x, y, t1, t2, p, number, string

MCInputOf == (e1 :> x) @@ (e2 :> x) @@ (e3 :> y)
MCLoads == {[execs |-> {e1, e2, e3}, flaws |-> {{}}], [execs |-> {e3}, flaws |-> Flaws]}
Symmetry == {f @@ g: f \in Permutations(Threads), g \in Permutations({e1, e2})}
=============================================================================
