---------------------------- MODULE MCLocalStore ----------------------------
(* Two clients, two simulations (one deployed with tags) and one input: enough
   for a run that outlives the deployment it belongs to, a lookup between the
   save and the store of another run, and a refused deletion that keeps the
   database locked.                                                          *)
EXTENDS LocalStore, TLC

CONSTANTS c1, c2, n1, n2, e1, e2, x1

MCClients == {c1, c2}
MCNames == {n1, n2}
MCTagged == {n2}
MCInputs == {x1}
MCExecs == {e1, e2}
MCSymmetry == Permutations(MCClients) \cup Permutations(MCExecs)
=============================================================================
