----------------------------- MODULE CacheStore -----------------------------
(***************************************************************************)
(* What the cache service promises its clients, whatever the database: for *)
(* each key there is at most one execution to be had, the one last stored  *)
(* and not invalidated, deleted or expired since, and a lookup is answered *)
(* with that execution or, if there is none, with a miss.                  *)
(***************************************************************************)
CONSTANTS Keys, Execs, None

VARIABLES live,      \* the execution a lookup of each key is to find
          reply      \* the answer of a lookup, when the last step gave one
avars == <<live, reply>>

AInit == live = [k \in Keys |-> None] /\ reply = None

\* A store; with a time to live of zero the entry has already expired.
Store(k) == /\ \E e \in Execs \cup {None}: live' = [live EXCEPT ![k] = e]
            /\ reply' = None

\* Expiry, invalidation and deletion only take executions away.
Drop == /\ \E K \in SUBSET Keys:
             live' = [k \in Keys |-> IF k \in K THEN None ELSE live[k]]
        /\ reply' = None

Serve(k) == /\ reply' = [key |-> k, exec |-> live[k]]
            /\ UNCHANGED live

ANext == Drop \/ \E k \in Keys: Store(k) \/ Serve(k)

ASpec == AInit /\ [][ANext]_avars
=============================================================================
