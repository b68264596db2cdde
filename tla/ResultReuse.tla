---------------------------- MODULE ResultReuse ----------------------------
(***************************************************************************)
(* What caching promises to whoever asks for a simulation, without caches, *)
(* services or messages: a request for a key (a SQUID id: simulation,      *)
(* version and inputs) is answered with the outputs of a run of that very  *)
(* key that completed and was saved, its own or an earlier one anywhere,   *)
(* or with the failure of its own run.                                     *)
(***************************************************************************)
CONSTANTS Insts, Keys, Execs, Nothing

VARIABLES done,      \* done[k]: the completed and saved runs of key k
          answer     \* answer[i]: key asked for, run whose outputs were given
avars == <<done, answer>>

AInit == /\ done = [k \in Keys |-> {}]
         /\ answer = [i \in Insts |-> Nothing]

\* A request is pending: the previous answer is forgotten.
Ask(i) == /\ answer' = [answer EXCEPT ![i] = Nothing]
          /\ UNCHANGED done

\* A run of k completes and is on disk.
Finish(k, e) == /\ \A j \in Keys: e \notin done[j]
                /\ done' = [done EXCEPT ![k] = @ \cup {e}]
                /\ UNCHANGED answer

\* Reused or new, the outputs are those of a completed run of the key.
Reply(i, k) == /\ \E e \in done[k]:
                    answer' = [answer EXCEPT ![i] = [key |-> k, outs |-> e]]
               /\ UNCHANGED done

\* The own run failed: the caller gets the failure.
ReplyFailed(i, k) == /\ answer' = [answer EXCEPT ![i] = [key |-> k, outs |-> Nothing]]
                     /\ UNCHANGED done

ANext == \/ \E i \in Insts: Ask(i)
         \/ \E k \in Keys, e \in Execs: Finish(k, e)
         \/ \E i \in Insts, k \in Keys: Reply(i, k) \/ ReplyFailed(i, k)

ASpec == AInit /\ [][ANext]_avars
=============================================================================
