---------------------------- MODULE MCRunRecord -----------------------------
(* Two processes write the file of one run, four calls in all: enough for one to
   fail, the other to time out, read and hold up the first one's commit.      *)
EXTENDS RunRecord, TLC

CONSTANTS w1, w2, x, y, g

MCWriters == {w1, w2}
MCNames == {x, y}
MCTags == {g}
MCSymmetry == Permutations(MCWriters)
=============================================================================
