---------------------------- MODULE LoginLimiter ----------------------------
(***************************************************************************)
(* LoginRateLimiter: a sliding window per (ip, username).  A bucket is the *)
(* sequence of the times of the attempts that were let through, in the     *)
(* order in which they took the lock.  An attempt reads the monotonic      *)
(* clock before it waits for the lock, so a bucket need not be sorted.     *)
(***************************************************************************)
EXTENDS Naturals, Sequences, SequencesExt

CONSTANT Window   \* window_seconds, 60 in the services

ASSUME LoginLimiterAssumption == Window \in Nat \ {0}

\* now - time > Window, that is time < cutoff
Stale(time, now) == time + Window < now

\* Mutant: the sweep looks at the first attempt instead of the last.
SweptByOldest(bucket, now) ==
  IF bucket # <<>> /\ Stale(Head(bucket), now) THEN <<>> ELSE bucket

(* _maybe_sweep: a bucket whose last attempt is stale is dropped, with any
   attempt before it that read the clock later and is not stale.            *)
Swept(bucket, now) ==
  IF bucket # <<>> /\ Stale(Last(bucket), now) THEN <<>> ELSE bucket

(* allow, at the time now it has read, drops attempts from the left, up to the
   first that is not stale ...                                              *)
Pruned(bucket, now) ==
  LET fresh == {i \in DOMAIN bucket: ~Stale(bucket[i], now)}
  IN  SubSeq(bucket, Min(fresh \cup {Len(bucket) + 1}), Len(bucket))

\* What allow finds in the bucket; sweep says whether this call was the 256th.
Kept(bucket, now, sweep) == Pruned(IF sweep THEN Swept(bucket, now) ELSE bucket, now)

\* ... and lets the attempt through while fewer than max (max_attempts) remain.
Allows(bucket, now, sweep, max) == Len(Kept(bucket, now, sweep)) < max

\* The bucket after allow.
Attempted(bucket, now, sweep, max) ==
  LET kept == Kept(bucket, now, sweep)
  IN  IF Allows(bucket, now, sweep, max) THEN Append(kept, now) ELSE kept
=============================================================================
