----------------------------- MODULE CacheProofs -----------------------------
(***************************************************************************)
(* Proofs about the cache service and about the files kept in a cache.     *)
(*                                                                         *)
(* CacheService, on either backend, for any number of keys, executions,    *)
(* sessions and handler threads.  The counters and the answers depend on   *)
(* who is between the two statements of a get: only a get is               *)
(* (RequestInv), on SQLite one thread at most and on PostgreSQL one for    *)
(* each key, whose entry stays live as long as the row is locked and the   *)
(* transaction's clock stands (ReaderInv).                                 *)
(*                                                                         *)
(* FileTree, for any clients, ids, number of operations and recursion      *)
(* limit.  TreeInv relates the lists of the folders to the calls that are  *)
(* left to each client.                                                    *)
(***************************************************************************)
EXTENDS CacheService, FileTree, FiniteSetTheorems, SequenceTheorems, TLAPS

Reading(t) == req[t] # None /\ req[t].step = "read"

RequestInv == \A t \in Threads: req[t] # None =>
  /\ req[t].op # "clear" => req[t].key \in Keys
  /\ req[t].step # "act" => req[t].op = "get"
  /\ req[t].step = "reread" => backend = "postgresql"

ReaderInv == \A t \in Threads: Reading(t) =>
  /\ backend = "postgresql" => Live(req[t].key)
  /\ \A u \in Threads: Reading(u) /\ (backend = "sqlite" \/ req[u].key = req[t].key) => u = t

Inv == TypeOK /\ RequestInv /\ ReaderInv /\ CountersExact

LEMMA InitInv == Init => Inv
<1> SUFFICES ASSUME Init PROVE Inv OBVIOUS
<1>1. TypeOK
  BY CacheServiceAssumption DEF Init, TypeOK
<1> QED BY <1>1 DEF Init, Inv, RequestInv, ReaderInv, Reading, CountersExact

LEMMA Recounted ==
  ASSUME NEW e \in Entries, NEW a \in Nat, NEW h \in Nat,
         NEW r, r = [e EXCEPT !.access = a, !.hits = h]
  PROVE  /\ r \in Entries /\ r.access = a /\ r.hits = h /\ r.exec = e.exec
         /\ r.status = e.status /\ r.expires = e.expires
BY DEF Entries

LEMMA TypeStep == Inv /\ [Next]_vars => TypeOK'
<1> SUFFICES ASSUME Inv, [Next]_vars PROVE TypeOK' OBVIOUS
<1>0. TypeOK /\ RequestInv
  BY DEF Inv
<1>c. now \in Nat
  BY <1>0, CacheServiceAssumption DEF TypeOK
<1>a. ASSUME NEW t \in Threads, NEW a \in [key: Keys, exec: Execs \cup {None}] \cup {None}, Answer(t, a)
      PROVE  /\ req' \in [Threads -> Reqs \cup {None}]
             /\ reply' \in [key: Keys, exec: Execs \cup {None}] \cup {None}
  BY <1>0, <1>a DEF Answer, TypeOK
<1> DEFINE Same == UNCHANGED backend
<1>1. ASSUME NEW t \in Threads, Receive(t), Same PROVE TypeOK'
  BY <1>0, <1>1 DEF Receive, TypeOK, Reqs
<1>2. ASSUME NEW t \in Threads, Refuse(t), Same PROVE TypeOK'
  BY <1>0, <1>2, <1>a DEF Refuse, TypeOK
<1>3. ASSUME NEW t \in Threads, Get(t), Same PROVE TypeOK'
  <2>1. req[t].key \in Keys /\ req[t] \in Reqs
    BY <1>0, <1>3 DEF Get, Acting, RequestInv, TypeOK
  <2>2. entries' \in [Keys -> Entries \cup {None}]
    <3>1. Live(req[t].key) => entries[req[t].key] \in Entries
      BY <1>0, <2>1 DEF Live, TypeOK
    <3>2. Live(req[t].key) =>
            [entries[req[t].key] EXCEPT !.access = @ + 1, !.hits = @ + 1] \in Entries
      <4> SUFFICES ASSUME Live(req[t].key)
                   PROVE  [entries[req[t].key] EXCEPT !.access = @ + 1, !.hits = @ + 1] \in Entries
        OBVIOUS
      <4>1. entries[req[t].key].access + 1 \in Nat /\ entries[req[t].key].hits + 1 \in Nat
        BY <3>1 DEF Entries
      <4> QED BY <3>1, <4>1, Recounted
    <3>3. Live(req[t].key) => entries' =
            [entries EXCEPT ![req[t].key] = [entries[req[t].key] EXCEPT !.access = @ + 1, !.hits = @ + 1]]
      BY <1>3 DEF Get, Counted
    <3>4. ~Live(req[t].key) => entries' = entries
      BY <1>3 DEF Get
    <3> QED BY <1>0, <2>1, <3>2, <3>3, <3>4 DEF TypeOK
  <2>3. req' \in [Threads -> Reqs \cup {None}]
    <3>1. \A step \in {"read", "reread"}: [req[t] EXCEPT !.step = step] \in Reqs
      BY <2>1 DEF Reqs
    <3> QED BY <1>0, <1>3, <3>1 DEF Get, TypeOK
  <2> QED BY <1>0, <1>3, <2>2, <2>3 DEF Get, TypeOK
<1>4. ASSUME NEW t \in Threads, GetRead(t), Same PROVE TypeOK'
  <2>1. req[t].key \in Keys
    BY <1>0, <1>4 DEF GetRead, RequestInv
  <2>2. Found(req[t].key) \in [key: Keys, exec: Execs \cup {None}] \cup {None}
    BY <1>0, <2>1 DEF Found, Live, TypeOK, Entries
  <2>3. served' \in [Keys -> Nat]
    BY <1>0, <1>4, <2>1 DEF GetRead, TypeOK
  <2> QED BY <1>0, <1>4, <1>a, <2>2, <2>3 DEF GetRead, TypeOK
<1>5. ASSUME NEW t \in Threads, Set(t), Same PROVE TypeOK'
  <2>1. req[t].key \in Keys
    BY <1>0, <1>5 DEF Set, Acting, RequestInv
  <2>2. PICK e \in Execs, ttl \in Ttls:
          IF backend = "sqlite" \/ entries[req[t].key] = None
          THEN /\ entries' = [entries EXCEPT ![req[t].key] = Stored(e, ttl)]
               /\ served' = [served EXCEPT ![req[t].key] = 0]
          ELSE /\ entries' = [entries EXCEPT
                    ![req[t].key] = [Stored(e, ttl) EXCEPT !.access = entries[req[t].key].access + 1,
                                                           !.hits = entries[req[t].key].hits]]
               /\ UNCHANGED served
    BY <1>5 DEF Set
  <2>3. Stored(e, ttl) \in Entries
    BY <1>c, CacheServiceAssumption DEF Stored, Entries
  <2>4. entries[req[t].key] # None =>
          [Stored(e, ttl) EXCEPT !.access = entries[req[t].key].access + 1,
                                 !.hits = entries[req[t].key].hits] \in Entries
    <3> SUFFICES ASSUME entries[req[t].key] # None
                 PROVE  [Stored(e, ttl) EXCEPT !.access = entries[req[t].key].access + 1,
                                               !.hits = entries[req[t].key].hits] \in Entries
      OBVIOUS
    <3>1. entries[req[t].key].access + 1 \in Nat /\ entries[req[t].key].hits \in Nat
      BY <1>0, <2>1 DEF TypeOK, Entries
    <3> QED BY <2>3, <3>1 DEF Entries
  <2>5. entries' \in [Keys -> Entries \cup {None}] /\ served' \in [Keys -> Nat]
    BY <1>0, <2>1, <2>2, <2>3, <2>4 DEF TypeOK
  <2> QED BY <1>0, <1>5, <1>a, <2>5 DEF Set, TypeOK
<1>6. ASSUME NEW t \in Threads, Invalidate(t), Same PROVE TypeOK'
  <2>1. entries' \in [Keys -> Entries \cup {None}]
    BY <1>0, <1>6 DEF Invalidate, TypeOK, Entries
  <2> QED BY <1>0, <1>6, <1>a, <2>1 DEF Invalidate, TypeOK
<1>7. ASSUME NEW t \in Threads, Delete(t), Same PROVE TypeOK'
  BY <1>0, <1>7, <1>a DEF Delete, TypeOK
<1>8. ASSUME NEW t \in Threads, Clear(t), Same PROVE TypeOK'
  BY <1>0, <1>8, <1>a DEF Clear, TypeOK
<1>9. ASSUME NEW s \in Sids, MirrorSession(s), Same PROVE TypeOK'
  <2>1. sessions' \in [Sids -> Grants \cup {None}]
    BY <1>0, <1>9, <1>c DEF MirrorSession, SessionLife, TypeOK, Grants
  <2> QED BY <1>0, <1>9, <2>1 DEF MirrorSession, TypeOK
<1>10. ASSUME Tick, Same PROVE TypeOK'
  BY <1>0, <1>10, CacheServiceAssumption DEF Tick, TypeOK
<1>11. CASE UNCHANGED vars
  BY <1>0, <1>11 DEF vars, TypeOK
<1> QED BY <1>1, <1>2, <1>3, <1>4, <1>5, <1>6, <1>7, <1>8, <1>9, <1>10, <1>11 DEF Next

-----------------------------------------------------------------------------
(* Who is between the two statements of a get. *)

Handles(t) == \/ Receive(t) \/ Refuse(t) \/ Get(t) \/ GetRead(t) \/ Set(t)
              \/ Invalidate(t) \/ Delete(t) \/ Clear(t)

\* What a handler's step makes of the requests: its own is the only one to
\* change, and is between two statements only after the first of a get.
LEMMA Handled ==
  ASSUME TypeOK, RequestInv, NEW t \in Threads, Handles(t)
  PROVE  /\ \A u \in Threads: u # t => req'[u] = req[u]
         /\ \/ req'[t] = None
            \/ /\ req'[t].step = "act"
               /\ req'[t].op # "clear" => req'[t].key \in Keys
            \/ /\ Get(t) /\ req[t] \in Reqs /\ req'[t].op = req[t].op /\ req'[t].key = req[t].key
               /\ req'[t].step = IF Live(req[t].key) \/ backend = "sqlite" THEN "read" ELSE "reread"
<1>1. CASE Receive(t)
  <2>1. PICK op \in Ops, s \in Sids:
          \E k \in IF op = "clear" THEN {None} ELSE Keys:
            req' = [req EXCEPT ![t] = [op |-> op, sid |-> s, key |-> k, step |-> "act"]]
    BY <1>1 DEF Receive
  <2> QED BY <2>1 DEF TypeOK
<1>2. CASE Get(t)
  <2>1. req[t] \in Reqs
    BY <1>2 DEF Get, Acting, TypeOK
  <2>2. req' = [req EXCEPT ![t].step =
                  IF Live(req[t].key) \/ backend = "sqlite" THEN "read" ELSE "reread"]
    BY <1>2 DEF Get
  <2>3. req'[t] = [req[t] EXCEPT !.step =
                  IF Live(req[t].key) \/ backend = "sqlite" THEN "read" ELSE "reread"]
    BY <2>2 DEF TypeOK
  <2>4. /\ req'[t].op = req[t].op /\ req'[t].key = req[t].key
        /\ req'[t].step = IF Live(req[t].key) \/ backend = "sqlite" THEN "read" ELSE "reread"
    BY <2>1, <2>3 DEF Reqs
  <2>5. \A u \in Threads: u # t => req'[u] = req[u]
    BY <2>2 DEF TypeOK
  <2> QED BY <1>2, <2>1, <2>4, <2>5
<1>3. CASE \E a: Answer(t, a)
  BY <1>3 DEF Answer, TypeOK
<1> QED BY <1>1, <1>2, <1>3 DEF Handles, Refuse, GetRead, Set, Invalidate, Delete, Clear

LEMMA RequestStep == Inv /\ [Next]_vars => RequestInv'
<1> SUFFICES ASSUME Inv, [Next]_vars PROVE RequestInv' OBVIOUS
<1>0. TypeOK /\ RequestInv /\ UNCHANGED backend
  BY DEF Inv, Next, vars
<1>b. backend \in {"sqlite", "postgresql"}
  BY <1>0, CacheServiceAssumption DEF TypeOK
<1>1. ASSUME NEW t \in Threads, Handles(t) PROVE RequestInv'
  <2>1. ASSUME Get(t) PROVE req[t].op = "get" /\ req[t].key \in Keys
    BY <1>0, <2>1 DEF Get, Acting, RequestInv
  <2> QED BY <1>0, <1>1, <1>b, <2>1, Handled DEF RequestInv
<1>2. CASE UNCHANGED req
  BY <1>0, <1>2 DEF RequestInv
<1> QED BY <1>1, <1>2 DEF Next, Handles, MirrorSession, Tick, vars

\* While a thread is between two statements nobody else changes its entry, on
\* SQLite nobody changes any, and on PostgreSQL its clock stands.
LEMMA LockHolds ==
  ASSUME Inv, [Next]_vars, NEW t \in Threads, Reading(t)
  PROVE  /\ req[t].key \in Keys
         /\ entries'[req[t].key] = entries[req[t].key]
         /\ backend = "postgresql" => now' = now
         /\ backend = "sqlite" => entries' = entries
         /\ \A u \in Threads: Get(u) => backend = "postgresql" /\ req[u].key # req[t].key
<1> DEFINE k == req[t].key
<1>0. TypeOK /\ RequestInv /\ k \in Keys /\ backend \in {"sqlite", "postgresql"}
  BY CacheServiceAssumption DEF Inv, Reading, RequestInv, TypeOK
<1>1. \A K: Unlocked(K) => backend = "postgresql" /\ k \notin K
  BY DEF Unlocked, Reading
<1>g. \A u \in Threads: Get(u) => backend = "postgresql" /\ req[u].key # k
  BY <1>1 DEF Get
<1> HIDE DEF k
<1>2. ASSUME NEW u \in Threads, Handles(u)
      PROVE  /\ entries'[k] = entries[k] /\ now' = now
             /\ backend = "sqlite" => entries' = entries
  <2>1. CASE Get(u)
    <3>1. entries' = entries \/ entries' = [entries EXCEPT ![req[u].key] =
            [entries[req[u].key] EXCEPT !.access = @ + 1, !.hits = @ + 1]]
      BY <2>1 DEF Get, Counted
    <3> QED BY <1>0, <1>g, <2>1, <3>1 DEF Get, TypeOK
  <2>2. CASE Set(u)
    <3>1. Unlocked({req[u].key}) /\ UNCHANGED now
      BY <2>2 DEF Set
    <3>2. \E f: entries' = [entries EXCEPT ![req[u].key] = f]
      BY <2>2 DEF Set
    <3> QED BY <1>0, <1>1, <3>1, <3>2 DEF TypeOK
  <2>3. CASE Invalidate(u)
    BY <1>0, <1>1, <2>3 DEF Invalidate
  <2>4. CASE Delete(u)
    BY <1>0, <1>1, <2>4 DEF Delete, TypeOK
  <2>5. CASE Clear(u)
    BY <1>0, <1>1, <2>5 DEF Clear
  <2> QED BY <1>2, <2>1, <2>2, <2>3, <2>4, <2>5 DEF Handles, Receive, Refuse, GetRead
<1>3. CASE Tick
  <2>1. backend # "postgresql"
    BY <1>3 DEF Tick, Reading
  <2> QED BY <1>0, <1>3, <1>g, <2>1 DEF Tick, k
<1>4. CASE \E s \in Sids: MirrorSession(s)
  BY <1>0, <1>4, <1>g DEF MirrorSession, k
<1>5. CASE UNCHANGED vars
  BY <1>0, <1>5, <1>g DEF vars, k
<1>6. CASE \E u \in Threads: Handles(u)
  BY <1>0, <1>2, <1>6, <1>g DEF k
<1> QED BY <1>3, <1>4, <1>5, <1>6 DEF Next, Handles

LEMMA ReaderStep == Inv /\ [Next]_vars => ReaderInv'
<1> SUFFICES ASSUME Inv, [Next]_vars PROVE ReaderInv' OBVIOUS
<1>0. TypeOK /\ RequestInv /\ ReaderInv /\ UNCHANGED backend
  BY DEF Inv, Next, vars
<1>b. backend \in {"sqlite", "postgresql"}
  BY <1>0, CacheServiceAssumption DEF TypeOK
<1>l. ASSUME NEW t \in Threads, Reading(t), req'[t] = req[t], backend = "postgresql"
      PROVE  Live(req[t].key)'
  BY <1>0, <1>l, LockHolds DEF ReaderInv, Live, Unexpired
<1>1. ASSUME NEW t \in Threads, Handles(t) PROVE ReaderInv'
  <2>1. \A u \in Threads: u # t => req'[u] = req[u] /\ (Reading(u)' <=> Reading(u))
    BY <1>0, <1>1, Handled DEF Reading
  <2>2. CASE ~Reading(t)'
    <3> SUFFICES ASSUME NEW u \in Threads, Reading(u)'
                 PROVE  /\ backend' = "postgresql" => Live(req[u].key)'
                        /\ \A v \in Threads: Reading(v)' /\ (backend' = "sqlite" \/ req'[v].key = req'[u].key)
                             => v = u
      BY DEF ReaderInv
    <3>1. u # t /\ Reading(u) /\ req'[u] = req[u]
      BY <2>1, <2>2
    <3>2. backend = "postgresql" => Live(req[u].key)'
      BY <1>l, <3>1
    <3>3. \A v \in Threads: Reading(v)' => Reading(v) /\ req'[v] = req[v]
      BY <2>1, <2>2
    <3> QED BY <1>0, <3>1, <3>2, <3>3 DEF ReaderInv, Live, Unexpired
  <2>3. CASE Reading(t)'
    <3>1. Get(t) /\ req'[t].key = req[t].key /\ (Live(req[t].key) \/ backend = "sqlite")
          /\ req[t].key \in Keys
      BY <1>0, <1>1, <2>3, Handled DEF Reading, Get, Acting, RequestInv
    <3>2. \A u \in Threads: Reading(u) => backend = "postgresql" /\ req[u].key # req[t].key
      BY <3>1, LockHolds
    <3>3. Live(req[t].key) => Live(req[t].key)'
      <4> SUFFICES ASSUME Live(req[t].key) PROVE Live(req[t].key)'
        OBVIOUS
      <4> DEFINE e == entries[req[t].key]
                 r == [e EXCEPT !.access = e.access + 1, !.hits = e.hits + 1]
      <4>1. e \in Entries
        BY <1>0, <3>1 DEF Live, TypeOK
      <4>2. entries'[req[t].key] = r
        BY <1>0, <3>1 DEF Get, Counted, TypeOK
      <4>3. e.access + 1 \in Nat /\ e.hits + 1 \in Nat
        BY <4>1 DEF Entries
      <4>r. r \in Entries /\ r.status = e.status /\ r.expires = e.expires
        <5>1. r = [e EXCEPT !.access = e.access + 1, !.hits = e.hits + 1]
          OBVIOUS
        <5> HIDE DEF e, r
        <5> QED BY <4>1, <4>3, <5>1 DEF Entries
      <4> HIDE DEF r
      <4>4. /\ entries'[req[t].key] \in Entries
            /\ entries'[req[t].key].status = entries[req[t].key].status
            /\ entries'[req[t].key].expires = entries[req[t].key].expires
        BY <4>2, <4>r
      <4>5. now' = now
        BY <3>1 DEF Get
      <4>6. req'[t].key = req[t].key
        BY <3>1
      <4> QED BY <4>4, <4>5, <4>6, CacheServiceAssumption DEF Live, Unexpired
    <3>4. ASSUME NEW u \in Threads, Reading(u)', u # t
          PROVE  /\ backend = "postgresql" /\ req'[u] = req[u] /\ Reading(u)
                 /\ req[u].key # req[t].key /\ Live(req[u].key)'
      BY <1>l, <2>1, <3>2, <3>4
    <3>5. ASSUME NEW u \in Threads, NEW v \in Threads, Reading(u)', Reading(v)',
                 backend' = "sqlite" \/ req'[v].key = req'[u].key
          PROVE  v = u
      BY <1>0, <3>1, <3>4, <3>5 DEF ReaderInv
    <3>6. ASSUME NEW u \in Threads, Reading(u)', backend' = "postgresql"
          PROVE  Live(req[u].key)'
      <4>1. CASE u = t
        BY <1>0, <3>1, <3>3, <3>6, <4>1
      <4>2. CASE u # t
        BY <3>4, <3>6, <4>2
      <4> QED BY <4>1, <4>2
    <3> QED BY <3>5, <3>6 DEF ReaderInv
  <2> QED BY <2>2, <2>3
<1>2. CASE UNCHANGED req
  <2>1. \A t \in Threads: Reading(t)' => Reading(t)
    BY <1>2 DEF Reading
  <2> QED BY <1>0, <1>2, <1>l, <2>1 DEF ReaderInv
<1> QED BY <1>1, <1>2 DEF Next, Handles, MirrorSession, Tick, vars

-----------------------------------------------------------------------------
(* The counters. *)

Reads(k) == \E t \in Threads: Reading(t) /\ req[t].key = k

\* The counters of an entry and the hits answered for it, on backend b.
Tallied(b, entry, answered) ==
  IF b = "sqlite"
  THEN /\ entry.hits >= answered
       /\ entry.expires = Never => entry.hits = answered
       /\ entry.access = entry.hits + 1
  ELSE entry.hits <= answered /\ entry.hits < entry.access

LEMMA PendingIs ==
  ASSUME NEW k \in Keys
  PROVE  Pending(k) = IF Live(k) /\ Reads(k) THEN 1 ELSE 0
BY DEF Pending, Reads, Reading

LEMMA CountersAre ==
  CountersExact <=> \A k \in Keys: entries[k] # None =>
                      Tallied(backend, entries[k], served[k] + Pending(k))
BY DEF CountersExact, Tallied

\* Only a get brings a thread between its statements, or back.
LEMMA ReadsStay ==
  ASSUME TypeOK, RequestInv, NEW t \in Threads, Handles(t), ~Get(t), ~GetRead(t), NEW k \in Keys
  PROVE  Reads(k)' <=> Reads(k)
<1>1. ~Reading(t)
  BY DEF Handles, Receive, Refuse, Set, Invalidate, Delete, Clear, Acting, Reading
<1>2. ~Reading(t)' /\ \A u \in Threads: u # t => req'[u] = req[u]
  BY Handled DEF Reading
<1> QED BY <1>1, <1>2 DEF Reads, Reading

LEMMA CountStep == Inv /\ [Next]_vars => CountersExact'
<1> SUFFICES ASSUME Inv, [Next]_vars PROVE CountersExact' OBVIOUS
<1>a. UNCHANGED backend
  BY DEF Next, vars
<1> SUFFICES ASSUME NEW k \in Keys, entries'[k] # None
             PROVE  Tallied(backend, entries'[k], served'[k] + Pending(k)')
  BY <1>a DEF Tallied, CountersExact, Pending
<1>0. TypeOK /\ RequestInv /\ ReaderInv /\ TypeOK' /\ UNCHANGED backend
  BY TypeStep DEF Inv, Next, vars
<1>b. backend \in {"sqlite", "postgresql"}
  BY <1>0, CacheServiceAssumption DEF TypeOK
<1>n. /\ served[k] \in Nat /\ served'[k] \in Nat /\ Pending(k) \in {0, 1} /\ Pending(k)' \in {0, 1}
      /\ entries'[k] \in Entries
      /\ entries[k] # None => entries[k] \in Entries
  BY <1>0 DEF TypeOK, Pending
<1>t. entries[k] # None => Tallied(backend, entries[k], served[k] + Pending(k))
  BY CountersAre DEF Inv
<1>p. /\ Pending(k) = IF Live(k) /\ Reads(k) THEN 1 ELSE 0
      /\ Pending(k)' = IF Live(k)' /\ Reads(k)' THEN 1 ELSE 0
  <2>1. Pending(k) = IF Live(k) /\ Reads(k) THEN 1 ELSE 0
    BY PendingIs
  <2>2. Pending(k)' = IF Live(k)' /\ Reads(k)' THEN 1 ELSE 0
    BY DEF Pending, Reads, Reading, Live, Unexpired
  <2> QED BY <2>1, <2>2
<1>u. ASSUME NEW t \in Threads, NEW K, Unlocked(K)
      PROVE  (k \in K \/ backend = "sqlite") => ~Reads(k)
  BY <1>u DEF Unlocked, Reads, Reading
\* Nothing the counters of k depend on changes.
<1>s. ASSUME entries'[k] = entries[k], served'[k] = served[k], now' = now, Reads(k)' <=> Reads(k)
      PROVE  Tallied(backend, entries'[k], served'[k] + Pending(k)')
  <2>1. Live(k)' <=> Live(k)
    BY <1>s DEF Live, Unexpired
  <2> QED BY <1>s, <1>t, <1>p, <2>1
<1>1. ASSUME NEW t \in Threads, Receive(t) \/ Refuse(t)
      PROVE  Tallied(backend, entries'[k], served'[k] + Pending(k)')
  <2>1. Reads(k)' <=> Reads(k)
    <3>1. ~Get(t) /\ ~GetRead(t)
      BY <1>1 DEF Receive, Refuse, Get, GetRead, Acting
    <3> QED BY <1>0, <1>1, <3>1, ReadsStay DEF Handles
  <2> QED BY <1>1, <1>s, <2>1 DEF Receive, Refuse
<1>2. ASSUME NEW t \in Threads, Get(t)
      PROVE  Tallied(backend, entries'[k], served'[k] + Pending(k)')
  <2> DEFINE j == req[t].key
  <2>0. /\ \A u \in Threads: u # t => req'[u] = req[u]
        /\ req'[t].key = j /\ req'[t] # None /\ ~Reading(t)
        /\ req'[t].step = IF Live(j) \/ backend = "sqlite" THEN "read" ELSE "reread"
    <3>1. req[t] # None /\ req[t].step = "act" /\ req[t] \in Reqs
      BY <1>0, <1>2 DEF Get, Acting, TypeOK
    <3>2. req'[t] = [req[t] EXCEPT !.step = IF Live(j) \/ backend = "sqlite" THEN "read" ELSE "reread"]
      BY <1>0, <1>2 DEF Get, TypeOK
    <3>3. req'[t] \in Reqs
      BY <3>1, <3>2 DEF Reqs
    <3>4. \A u \in Threads: u # t => req'[u] = req[u]
      BY <1>0, <1>2 DEF Get, TypeOK
    <3>5. req'[t].key = j /\ req'[t].step = IF Live(j) \/ backend = "sqlite" THEN "read" ELSE "reread"
      BY <3>1, <3>2 DEF Reqs
    <3> QED BY <3>1, <3>3, <3>4, <3>5, CacheServiceAssumption DEF Reading
  <2>1. UNCHANGED <<now, served>>
    BY <1>2 DEF Get
  <2>2. CASE k # j
    <3>1. entries'[k] = entries[k]
      BY <1>0, <1>2, <2>2 DEF Get, Counted, TypeOK
    <3>2. Reads(k)' <=> Reads(k)
      BY <2>0, <2>2 DEF Reads, Reading
    <3> QED BY <1>s, <2>1, <3>1, <3>2
  <2>3. CASE k = j
    <3>1. ~Reads(k)
      BY <1>2, <1>u, <2>3 DEF Get
    <3>2. CASE ~Live(k)
      <4>1. entries'[k] = entries[k]
        BY <1>2, <2>3, <3>2 DEF Get
      <4>2. ~Live(k)'
        BY <2>1, <3>2, <4>1 DEF Live, Unexpired
      <4> QED BY <1>t, <1>p, <2>1, <3>2, <4>1, <4>2
    <3>3. CASE Live(k)
      <4>1. Reads(k)'
        BY <2>0, <2>3, <3>3 DEF Reads, Reading
      <4>2. entries[k] \in Entries
        BY <1>n, <3>3 DEF Live
      <4>3. entries'[k] = [entries[k] EXCEPT !.access = @ + 1, !.hits = @ + 1]
        BY <1>0, <1>2, <2>3, <3>3 DEF Get, Counted, TypeOK
      <4>4. /\ entries'[k].access = entries[k].access + 1 /\ entries'[k].hits = entries[k].hits + 1
            /\ entries'[k].status = entries[k].status /\ entries'[k].expires = entries[k].expires
        BY <4>2, <4>3 DEF Entries
      <4>5. Live(k)'
        BY <2>1, <3>3, <4>4, <1>n, CacheServiceAssumption DEF Live, Unexpired
      <4>6. Pending(k) = 0 /\ Pending(k)' = 1
        BY <1>p, <3>1, <3>3, <4>1, <4>5
      <4>7. entries[k].access \in Nat /\ entries[k].hits \in Nat
        BY <4>2 DEF Entries
      <4>8. entries[k] # None
        BY <3>3 DEF Live
      <4> QED BY <1>b, <1>n, <1>t, <2>1, <4>4, <4>6, <4>7, <4>8 DEF Tallied
    <3> QED BY <3>2, <3>3
  <2> QED BY <2>2, <2>3
<1>3. ASSUME NEW t \in Threads, GetRead(t)
      PROVE  Tallied(backend, entries'[k], served'[k] + Pending(k)')
  <2> DEFINE j == req[t].key
  <2>0. /\ \A u \in Threads: u # t => req'[u] = req[u]
        /\ req'[t] = None /\ UNCHANGED <<entries, now>>
        /\ req[t] # None /\ req[t].step \in {"read", "reread"} /\ j \in Keys
    BY <1>0, <1>3 DEF GetRead, Answer, RequestInv, TypeOK
  <2>1. served'[k] = IF k = j /\ Live(j) THEN served[k] + 1 ELSE served[k]
    BY <1>0, <1>3, <2>0 DEF GetRead, TypeOK
  <2>2. Live(k)' <=> Live(k)
    BY <2>0 DEF Live, Unexpired
  <2>3. CASE k # j
    <3>1. Reads(k)' <=> Reads(k)
      BY <2>0, <2>3 DEF Reads, Reading
    <3> QED BY <1>s, <2>0, <2>1, <2>3, <3>1
  <2>4. CASE k = j /\ req[t].step = "read"
    <3>1. Reads(k)
      BY <2>0, <2>4 DEF Reads, Reading
    <3>2. ~Reads(k)'
      BY <1>0, <2>0, <2>4 DEF Reads, Reading, ReaderInv
    <3>3. served'[k] + Pending(k)' = served[k] + Pending(k)
      BY <1>n, <1>p, <2>1, <2>4, <3>1, <3>2
    <3> QED BY <1>t, <2>0, <3>3
  <2>5. CASE k = j /\ req[t].step = "reread"
    <3>1. backend = "postgresql"
      BY <1>0, <2>0, <2>5 DEF RequestInv
    <3>2. Reads(k)' <=> Reads(k)
      BY <2>0, <2>5 DEF Reads, Reading
    <3>3. Pending(k)' = Pending(k)
      BY <1>p, <2>2, <3>2
    <3>4. entries[k].access \in Nat /\ entries[k].hits \in Nat
      BY <1>n, <2>0 DEF Entries
    <3>5. Pending(k) \in Nat
      BY <1>n
    <3>6. served[k] + Pending(k) <= served'[k] + Pending(k)'
      BY <1>n, <2>1, <3>3, <3>5
    <3>7. entries[k].hits <= served[k] + Pending(k) /\ entries[k].hits < entries[k].access
      BY <1>t, <2>0, <3>1 DEF Tallied
    <3> QED BY <1>n, <2>0, <3>1, <3>4, <3>5, <3>6, <3>7 DEF Tallied
  <2> QED BY <2>0, <2>3, <2>4, <2>5
<1>h. ASSUME NEW t \in Threads, Set(t) \/ Invalidate(t) \/ Delete(t) \/ Clear(t)
      PROVE  now' = now /\ (Reads(k)' <=> Reads(k))
  <2>1. ~Get(t) /\ ~GetRead(t) /\ now' = now
    BY <1>h DEF Set, Invalidate, Delete, Clear, Get, GetRead, Acting
  <2> QED BY <1>0, <1>h, <2>1, ReadsStay DEF Handles
<1>4. ASSUME NEW t \in Threads, Set(t)
      PROVE  Tallied(backend, entries'[k], served'[k] + Pending(k)')
  <2> DEFINE j == req[t].key
  <2>0. j \in Keys /\ Unlocked({j})
    BY <1>0, <1>4 DEF Set, Acting, RequestInv
  <2>1. PICK e \in Execs, ttl \in Ttls:
          IF backend = "sqlite" \/ entries[j] = None
          THEN /\ entries' = [entries EXCEPT ![j] = Stored(e, ttl)]
               /\ served' = [served EXCEPT ![j] = 0]
          ELSE /\ entries' = [entries EXCEPT ![j] = [Stored(e, ttl) EXCEPT
                                !.access = entries[j].access + 1, !.hits = entries[j].hits]]
               /\ UNCHANGED served
    BY <1>4 DEF Set
  <2>2. CASE k # j
    BY <1>0, <1>4, <1>h, <1>s, <2>1, <2>2 DEF TypeOK
  <2>3. CASE k = j
    <3>1. ~Reads(k) /\ ~Reads(k)'
      BY <1>4, <1>h, <1>u, <2>0, <2>3
    <3>2. Pending(k) = 0 /\ Pending(k)' = 0
      BY <1>p, <3>1
    <3>3. CASE backend = "sqlite" \/ entries[j] = None
      <4>1. entries'[k] = Stored(e, ttl) /\ served'[k] = 0
        BY <1>0, <2>1, <2>3, <3>3 DEF TypeOK
      <4>2. entries'[k].access = 1 /\ entries'[k].hits = 0
        BY <4>1 DEF Stored
      <4> QED BY <3>2, <4>1, <4>2 DEF Tallied
    <3>4. CASE backend # "sqlite" /\ entries[j] # None
      <4>1. served'[k] = served[k] /\ entries'[k] = [Stored(e, ttl) EXCEPT
                                !.access = entries[j].access + 1, !.hits = entries[j].hits]
        BY <1>0, <2>1, <2>3, <3>4 DEF TypeOK
      <4>2. entries'[k].access = entries[k].access + 1 /\ entries'[k].hits = entries[k].hits
        BY <2>3, <4>1 DEF Stored
      <4>3. entries[k].access \in Nat /\ entries[k].hits \in Nat
        BY <1>n, <2>3, <3>4 DEF Entries
      <4> QED BY <1>n, <1>t, <2>3, <3>2, <3>4, <4>1, <4>2, <4>3 DEF Tallied
    <3> QED BY <3>3, <3>4
  <2> QED BY <2>2, <2>3
<1>5. ASSUME NEW t \in Threads, Invalidate(t)
      PROVE  Tallied(backend, entries'[k], served'[k] + Pending(k)')
  <2>1. PICK K \in {{req[t].key}, Keys}:
          /\ Unlocked(K)
          /\ entries' = [i \in Keys |->
               IF i \in K /\ entries[i] # None /\ entries[i].status = "valid"
               THEN [entries[i] EXCEPT !.status = "invalidated"]
               ELSE entries[i]]
    BY <1>5 DEF Invalidate
  <2>2. served'[k] = served[k]
    BY <1>5 DEF Invalidate
  <2>3. CASE entries'[k] = entries[k]
    BY <1>5, <1>h, <1>s, <2>2, <2>3
  <2>4. CASE k \in K /\ entries[k] # None /\ entries'[k] = [entries[k] EXCEPT !.status = "invalidated"]
    <3>1. ~Reads(k) /\ ~Reads(k)'
      BY <1>5, <1>h, <1>u, <2>1, <2>4
    <3>2. Pending(k) = Pending(k)'
      BY <1>p, <3>1
    <3>3. /\ entries'[k].access = entries[k].access /\ entries'[k].hits = entries[k].hits
          /\ entries'[k].expires = entries[k].expires
      BY <1>n, <2>4 DEF Entries
    <3> QED BY <1>t, <2>2, <2>4, <3>2, <3>3 DEF Tallied
  <2> QED BY <2>1, <2>3, <2>4
<1>6. ASSUME NEW t \in Threads, Delete(t)
      PROVE  Tallied(backend, entries'[k], served'[k] + Pending(k)')
  <2>1. k # req[t].key
    BY <1>0, <1>6 DEF Delete, TypeOK
  <2>2. entries'[k] = entries[k] /\ served'[k] = served[k]
    BY <1>0, <1>6, <2>1 DEF Delete, TypeOK
  <2> QED BY <1>6, <1>h, <1>s, <2>2
<1>7. ASSUME NEW t \in Threads, Clear(t)
      PROVE  FALSE
  BY <1>7 DEF Clear
<1>8. ASSUME Tick
      PROVE  Tallied(backend, entries'[k], served'[k] + Pending(k)')
  <2>1. /\ entries' = entries /\ served' = served /\ (Reads(k)' <=> Reads(k))
        /\ now \in Nat /\ now' = now + 1
    BY <1>0, <1>8, CacheServiceAssumption DEF Tick, Reads, Reading, TypeOK
  <2>2. CASE backend = "postgresql"
    <3>1. ~Reads(k)
      BY <1>8, <2>2 DEF Tick, Reads, Reading
    <3> QED BY <1>t, <1>p, <2>1, <3>1
  <2>3. CASE backend = "sqlite"
    <3>1. Live(k)' => Live(k)
      BY <1>n, <2>1 DEF Live, Unexpired, Entries
    <3>2. entries[k].expires = Never => (Live(k)' <=> Live(k))
      BY <2>1 DEF Live, Unexpired
    <3>3. entries[k].hits \in Nat
      BY <1>n, <2>1 DEF Entries
    <3>4. Pending(k)' <= Pending(k) /\ (entries[k].expires = Never => Pending(k)' = Pending(k))
      BY <1>p, <2>1, <3>1, <3>2
    <3>5. \A x, y \in {0, 1}: x <= y => served[k] + x <= served[k] + y
      BY <1>n
    <3>6. /\ entries[k].hits >= served[k] + Pending(k)'
          /\ entries[k].expires = Never => entries[k].hits = served[k] + Pending(k)'
          /\ entries[k].access = entries[k].hits + 1
      BY <1>n, <1>t, <2>1, <2>3, <3>3, <3>4, <3>5 DEF Tallied
    <3> QED BY <2>1, <2>3, <3>6 DEF Tallied
  <2> QED BY <1>b, <2>2, <2>3
<1>9. ASSUME (\E s \in Sids: MirrorSession(s)) \/ UNCHANGED vars
      PROVE  Tallied(backend, entries'[k], served'[k] + Pending(k)')
  <2>1. UNCHANGED <<entries, served, now, req>>
    BY <1>9 DEF MirrorSession, vars
  <2> QED BY <1>s, <2>1 DEF Reads, Reading
<1> QED BY <1>1, <1>2, <1>3, <1>4, <1>5, <1>6, <1>7, <1>8, <1>9 DEF Next

-----------------------------------------------------------------------------
(* The theorems. *)

THEOREM Invariance == Spec => []Inv
<1>1. Inv /\ [Next]_vars => Inv'
  BY TypeStep, RequestStep, ReaderStep, CountStep DEF Inv
<1> QED BY InitInv, <1>1, PTL DEF Spec

\* Entries, sessions, requests and answers stay in the sets the comments of
\* CacheService describe.
THEOREM TypesHold == Spec => []TypeOK
<1>1. Inv => TypeOK
  BY DEF Inv
<1> QED BY Invariance, <1>1, PTL

\* The UPDATE and the SELECT of get agree on what a hit is, whatever other
\* handlers do between them: on SQLite hit_count and access_count are exact, on
\* PostgreSQL no hit is counted that is not answered.
THEOREM CountsAreExact == Spec => []CountersExact
<1>1. Inv => CountersExact
  BY DEF Inv
<1> QED BY Invariance, <1>1, PTL

LEMMA CurrentIs ==
  ASSUME TypeOK, NEW k \in Keys
  PROVE  Current(k) = IF Live(k) THEN entries[k].exec ELSE None
<1>1. entries[k] # None => entries[k].status \in {"valid", "invalidated"}
               /\ (entries[k].expires # Never => entries[k].expires \in Nat) /\ now \in Nat
  BY CacheServiceAssumption DEF TypeOK, Entries
<1> QED BY <1>1 DEF Current, Live, Unexpired

\* A key whose entry stays, and does not expire, stays what it is.
LEMMA CurrentStays ==
  ASSUME NEW k \in Keys, entries'[k] = entries[k], now' = now
  PROVE  Current(k)' = Current(k)
BY DEF Current

(* The handlers of either backend implement CacheStore: their statements store,
   take away or serve what a lookup is to find, or are invisible. *)
THEOREM Refinement == Spec => ImplementsCacheStore
<1>1. Init => CSt!AInit
  BY DEF Init, CSt!AInit, Current
<1>2. Inv /\ [Next]_vars => [CSt!ANext]_(CSt!avars)
  <2> SUFFICES ASSUME Inv, [Next]_vars PROVE [CSt!ANext]_(CSt!avars) OBVIOUS
  <2>0. TypeOK /\ TypeOK' /\ RequestInv
    BY TypeStep DEF Inv
  \* A step that leaves each key as it is or with nothing to be found.
  <2>d. ASSUME reply' = None, \A k \in Keys: Current(k)' = Current(k) \/ Current(k)' = None
        PROVE  CSt!ANext
    <3> DEFINE K == {k \in Keys: Current(k)' # Current(k)}
    <3>1. [k \in Keys |-> Current(k)]' =
            [k \in Keys |-> IF k \in K THEN None ELSE [j \in Keys |-> Current(j)][k]]
      BY <2>d
    <3>2. K \in SUBSET Keys
      OBVIOUS
    <3> HIDE DEF K
    <3> QED BY <2>d, <3>1, <3>2 DEF CSt!ANext, CSt!Drop
  <2>1. ASSUME NEW t \in Threads, GetRead(t) PROVE CSt!ANext
    <3> DEFINE k == req[t].key
    <3>1. k \in Keys /\ UNCHANGED <<entries, now>> /\ reply' = Found(k)
      BY <2>0, <2>1 DEF GetRead, Answer, RequestInv
    <3>2. \A j \in Keys: Current(j)' = Current(j)
      BY <3>1, CurrentStays
    <3>3. Found(k) = [key |-> k, exec |-> [j \in Keys |-> Current(j)][k]]
      BY <2>0, <3>1, CurrentIs DEF Found
    <3> HIDE DEF k
    <3>4. CSt!Serve(k)
      BY <3>1, <3>2, <3>3 DEF CSt!Serve
    <3> QED BY <3>1, <3>4 DEF CSt!ANext
  <2>2. ASSUME NEW t \in Threads, Set(t) PROVE CSt!ANext
    <3>0. PICK k \in Keys: k = req[t].key
      BY <2>0, <2>2 DEF Set, Acting, RequestInv
    <3>1. UNCHANGED now /\ reply' = None
      BY <2>2 DEF Set, Answer
    <3>2. \E r: entries' = [entries EXCEPT ![k] = r]
      BY <2>2, <3>0 DEF Set
    <3>3. \A j \in Keys: j # k => entries'[j] = entries[j]
      BY <2>0, <3>2 DEF TypeOK
    <3>4. \A j \in Keys: j # k => Current(j)' = Current(j)
      BY <3>1, <3>3, CurrentStays
    <3>5. Current(k)' \in Execs \cup {None}
      <4>1. entries'[k] \in Entries \cup {None}
        BY <2>0, <3>1 DEF TypeOK
      <4>2. entries'[k] = None \/ entries'[k].exec \in Execs
        BY <4>1 DEF Entries
      <4>3. Current(k)' = None \/ (entries'[k] # None /\ Current(k)' = entries'[k].exec)
        BY DEF Current
      <4> QED BY <4>2, <4>3
    <3>6. [j \in Keys |-> Current(j)]' = [[j \in Keys |-> Current(j)] EXCEPT ![k] = Current(k)']
      <4>1. [j \in Keys |-> Current(j)]' =
              [j \in Keys |-> IF j = k THEN Current(k)' ELSE [i \in Keys |-> Current(i)][j]]
        BY <3>1, <3>4
      <4> QED BY <4>1
    <3>7. CSt!Store(k)
      BY <3>1, <3>5, <3>6 DEF CSt!Store
    <3> QED BY <3>1, <3>7 DEF CSt!ANext
  <2>3. ASSUME NEW t \in Threads, Get(t) PROVE CSt!ANext
    <3>1. \A k \in Keys: \/ entries'[k] = entries[k]
                         \/ entries[k] # None /\ entries'[k] = [entries[k] EXCEPT !.access = @ + 1, !.hits = @ + 1]
      BY <2>0, <2>3 DEF Get, Counted, Live, TypeOK
    <3>2. ASSUME NEW k \in Keys PROVE Current(k)' = Current(k)
      <4>1. CASE entries'[k] = entries[k]
        BY <2>3, <4>1, CurrentStays DEF Get
      <4>2. CASE entries[k] # None /\ entries'[k] = [entries[k] EXCEPT !.access = @ + 1, !.hits = @ + 1]
        <5>1. entries[k] \in Entries /\ now' = now
          BY <2>0, <2>3, <4>2 DEF Get, TypeOK
        <5>2. /\ entries'[k].status = entries[k].status /\ entries'[k].expires = entries[k].expires
              /\ entries'[k].exec = entries[k].exec
          BY <4>2, <5>1 DEF Entries
        <5>3. entries'[k] # None
          <6>1. entries[k].access + 1 \in Nat /\ entries[k].hits + 1 \in Nat
            BY <5>1 DEF Entries
          <6>2. entries'[k] \in Entries
            BY <4>2, <5>1, <6>1 DEF Entries
          <6> QED BY <6>2, CacheServiceAssumption
        <5> QED BY <4>2, <5>1, <5>2, <5>3 DEF Current
      <4> QED BY <3>1, <4>1, <4>2
    <3> QED BY <2>3, <2>d, <3>2 DEF Get
  <2>4. ASSUME NEW t \in Threads, Invalidate(t) PROVE CSt!ANext
    <3>1. ASSUME NEW k \in Keys PROVE Current(k)' = Current(k) \/ Current(k)' = None
      <4>1. CASE entries'[k] = entries[k]
        BY <2>4, <4>1, CurrentStays DEF Invalidate
      <4>2. CASE entries[k] # None /\ entries'[k] = [entries[k] EXCEPT !.status = "invalidated"]
        <5>1. entries[k] \in Entries
          BY <2>0, <4>2 DEF TypeOK
        <5>2. entries'[k].status = "invalidated"
          BY <4>2, <5>1 DEF Entries
        <5> QED BY <5>2 DEF Current
      <4> QED BY <2>4, <4>1, <4>2 DEF Invalidate
    <3> QED BY <2>4, <2>d, <3>1 DEF Invalidate, Answer
  <2>5. ASSUME NEW t \in Threads, Delete(t) \/ Clear(t) PROVE CSt!ANext
    <3>1. ASSUME NEW k \in Keys PROVE Current(k)' = Current(k) \/ Current(k)' = None
      <4>1. (entries'[k] = entries[k] \/ entries'[k] = None) /\ now' = now
        BY <2>0, <2>5 DEF Delete, Clear, TypeOK
      <4> QED BY <4>1, CurrentStays DEF Current
    <3> QED BY <2>5, <2>d, <3>1 DEF Delete, Clear, Answer
  <2>6. ASSUME Tick PROVE CSt!ANext
    <3>1. ASSUME NEW k \in Keys PROVE Current(k)' = Current(k) \/ Current(k)' = None
      <4>1. entries' = entries /\ now \in Nat /\ now' = now + 1
        BY <2>0, <2>6, CacheServiceAssumption DEF Tick, TypeOK
      <4>2. entries[k] # None => entries[k].expires \in Nat \cup {Never}
        BY <2>0 DEF TypeOK, Entries
      <4> QED BY <4>1, <4>2 DEF Current
    <3> QED BY <2>6, <2>d, <3>1 DEF Tick
  <2>7. ASSUME UNCHANGED <<entries, now>>, reply' = None PROVE CSt!ANext
    <3>1. \A k \in Keys: Current(k)' = Current(k)
      BY <2>7, CurrentStays
    <3> QED BY <2>7, <2>d, <3>1
  <2>8. CASE UNCHANGED vars
    <3>1. UNCHANGED <<entries, now, reply>>
      BY <2>8 DEF vars
    <3>2. \A k \in Keys: Current(k)' = Current(k)
      BY <3>1, CurrentStays
    <3> QED BY <3>1, <3>2 DEF CSt!avars
  <2>9. ASSUME NEW t \in Threads, Receive(t) \/ Refuse(t) PROVE CSt!ANext
    BY <2>7, <2>9 DEF Receive, Refuse, Answer
  <2>10. ASSUME NEW s \in Sids, MirrorSession(s) PROVE CSt!ANext
    BY <2>7, <2>10 DEF MirrorSession
  <2> QED BY <2>1, <2>2, <2>3, <2>4, <2>5, <2>6, <2>8, <2>9, <2>10 DEF Next
<1> QED BY Invariance, <1>1, <1>2, PTL DEF Spec, ImplementsCacheStore, CSt!ASpec


-----------------------------------------------------------------------------
(* FileTree.  Of two pieces of state that have to agree, parent_id and the    *)
(* lists, one is changed before the other, and a list is read before it is    *)
(* set.  So the invariant is about the lists as they will be once what was    *)
(* read and changed is set (ListOf), and about what the calls that are left   *)
(* to each client, and the frames it is in, have still to do.  It holds while *)
(* `clean' is true.                                                           *)

Drafts(c, x) == draft[c] # Nothing /\ draft[c].file = x
ListOf == [x \in Ids |-> IF \E c \in Clients: Drafts(c, x)
                         THEN draft[CHOOSE c \in Clients: Drafts(c, x)].entry.objects
                         ELSE store[x].objects]
Below(x, f) == Exists(x) /\ store[x].parent = f
Listed(f, x) == Exists(f) /\ x \in ToSet(ListOf[f])
InNoList(x) == \A f \in Ids: ~Listed(f, x)

\* Clients at work at the same time keep to entries of their own.
DisjointInv ==
  /\ \A c, d \in Clients: c # d /\ Busy(c) /\ Busy(d) => touched[c] \cap touched[d] = {}
  /\ mode = "local" => \A c, d \in Clients: Busy(c) /\ Busy(d) => c = d

\* What is about to be set differs from what is stored in the list only.
DraftInv == \A c \in Clients: draft[c] # Nothing =>
  /\ mode = "remote"
  /\ \E f \in Usable: /\ draft[c].file = f /\ f \in touched[c] /\ Exists(f)
                     /\ draft[c].entry.parent = store[f].parent
                     /\ draft[c].entry.folder = store[f].folder

Plain(list) == /\ list \in Seq(Ids)
               /\ \A i, j \in DOMAIN list: list[i] = list[j] => i = j
EntryInv == \A x \in Ids: Exists(x) =>
  /\ x \in born /\ store[x].parent # x
  /\ store[x].parent \in (born \cap Usable) \cup {Root}
  /\ \A p \in Ids: Below(x, p) /\ Exists(p) => store[p].folder
  /\ Plain(ListOf[x])

(* A folder lists what names it as its parent, but for an entry that a client
   has still to put into a list, to give its new parent_id, or to drop.       *)
LeavingBy(c, f, x) ==
  /\ agenda[c] # <<>> /\ f \in touched[c] /\ x \in touched[c]
  /\ \/ Head(agenda[c])[1] = "link" /\ Head(agenda[c])[3] = x
     \/ Head(agenda[c])[1] \in {"write", "reparent", "drop"} /\ Head(agenda[c])[2] = x
ArrivingBy(c, f, x) ==
  /\ agenda[c] # <<>> /\ f \in touched[c] /\ x \in touched[c]
  /\ \/ /\ Head(agenda[c])[1] = "write" /\ Head(agenda[c])[2] = x
        /\ Head(agenda[c])[3].parent = f
     \/ Head(agenda[c]) = <<"reparent", x, f>>
ListInv == \A f, x \in Ids: Exists(f) =>
  /\ Listed(f, x) => Exists(x) /\ (Below(x, f) \/ \E c \in Clients: ArrivingBy(c, f, x))
  /\ Below(x, f) => Listed(f, x) \/ \E c \in Clients: LeavingBy(c, f, x)

\* The calls left to a client that creates, moves, updates or lists.
Sound(c, p) == p = Root \/ (p \in Usable /\ p \in touched[c] /\ IsFolder(p))
NewEntry(p, folder) == [parent |-> p, folder |-> folder, objects |-> <<>>]
Creating(c, x, p, folder) ==
  /\ agenda[c] = IF p = Root THEN <<<<"write", x, NewEntry(p, folder)>>>>
                 ELSE <<<<"write", x, NewEntry(p, folder)>>, <<"link", p, x>>>>
  /\ x \in born /\ x \in touched[c] /\ ~Exists(x)
  /\ Sound(c, p) /\ p # x
  /\ \A y \in Ids: ~Below(y, x)
  /\ \A d \in Clients: /\ x \notin doomed[d]
                       /\ \A i \in DOMAIN frames[d]: x \notin ToSet(frames[d][i].list)
Linking(c, x, p) == /\ agenda[c] = <<<<"link", p, x>>>>
                    /\ x \in touched[c] /\ p # Root /\ Sound(c, p) /\ Below(x, p)
Final(x, p) == IF mode = "local" THEN <<"reparent", x, p>>
               ELSE <<"write", x, [store[x] EXCEPT !.parent = p]>>
Target(c, x, p) == /\ x \in touched[c] /\ p # x /\ Sound(c, p) /\ ~Drafts(c, x)
                   /\ mode = "local" => p \notin Subtree(x)
Out(c, x, p) == /\ store[x].parent # Root
                /\ agenda[c] = IF p = Root
                               THEN <<<<"unlink", store[x].parent, x>>, Final(x, p)>>
                               ELSE <<<<"unlink", store[x].parent, x>>,
                                      <<"link", p, x>>, Final(x, p)>>
Between(c, x, p) == /\ store[x].parent \in touched[c] \cup {Root}
                    /\ InNoList(x) /\ p # Root
                    /\ agenda[c] = <<<<"link", p, x>>, Final(x, p)>>
In(c, x, p) == /\ store[x].parent \in touched[c] \cup {Root}
               /\ p = Root \/ Listed(p, x)
               /\ \A f \in Ids: Listed(f, x) => f = p
               /\ agenda[c] = <<Final(x, p)>>
Moving(c, x, p) ==
  /\ Target(c, x, p)
  /\ \/ agenda[c] = <<<<"move", x, p>>>>
     \/ Exists(x) /\ (Out(c, x, p) \/ Between(c, x, p) \/ In(c, x, p))
Asking(c, x, r) == agenda[c] = <<<<"delete", x, r>>>> /\ asked[c] = <<x, r>> /\ x \in touched[c]
Fetching(c, t, x) == agenda[c] = <<<<t, x, Nothing>>>> /\ x \in touched[c]
OtherInv(c) ==
  \/ agenda[c] = <<>>
  \/ \E x \in Usable, t \in {"update", "list"}: Fetching(c, t, x)
  \/ \E x \in Ids, p \in Usable \cup {Root}, folder \in BOOLEAN: Creating(c, x, p, folder)
  \/ \E x \in Ids, p \in Usable: Linking(c, x, p)
  \/ \E x \in Usable, p \in Usable \cup {Root}: Moving(c, x, p)
  \/ \E x \in Usable, r \in BOOLEAN: Asking(c, x, r)

(* The calls of delete_file a client is in: each but the outermost is for a
   child of the next, and remotely a child that is there has its turn to come. *)
Left(frame) == {n \in DOMAIN frame.list: n >= frame.turn}
FrameInv(c, i, f) ==
  LET F == frames[c] IN
  /\ F[i].file = f /\ f \in touched[c] /\ Exists(f) /\ F[i].parent = store[f].parent
  /\ i = Len(F) => asked[c][1] = f
  /\ i < Len(F) => F[i].parent = F[i + 1].file /\ asked[c][2]
  /\ F[i].loop <=> asked[c][2] /\ store[f].folder
  /\ F[i].turn > 0 /\ F[i].list \in Seq(Ids) /\ ToSet(F[i].list) \subseteq born
  /\ mode = "remote" /\ F[i].loop =>
       /\ \A n \in Left(F[i]), y \in Ids: F[i].list[n] = y =>
            (y \in Usable /\ Exists(y) => Below(y, f))
       /\ \A y \in Usable: Below(y, f) =>
            \/ i > 1 /\ y = F[i - 1].file
            \/ i = 1 /\ agenda[c] = <<<<"delete", y, TRUE>>>>
            \/ \E n \in Left(F[i]): F[i].list[n] = y
Descending(c, x, y) ==
  /\ Head(frames[c]).file = x /\ Head(frames[c]).loop
  /\ agenda[c] = <<<<"delete", y, TRUE>>>>
  /\ mode = "remote" => y \in ToSet(Head(frames[c]).list)
  /\ y \in Usable /\ Exists(y) => Below(y, x)
Leaf(c, x) ==
  /\ Head(frames[c]).file = x
  /\ Head(frames[c]).loop /\ mode = "remote" => Left(Head(frames[c])) = {}
  /\ \/ /\ Head(frames[c]).parent # Root
        /\ agenda[c] = <<<<"unlink", Head(frames[c]).parent, x>>, <<"drop", x, Nothing>>>>
     \/ /\ InNoList(x) /\ Head(frames[c]).parent \in touched[c] \cup {Root}
        /\ agenda[c] = <<<<"drop", x, Nothing>>>>
DeleteInv(c) ==
  /\ asked[c] # Nothing
  /\ \A i \in DOMAIN frames[c]: \E f \in Usable: FrameInv(c, i, f)
  /\ \/ agenda[c] = <<>>
     \/ \E x \in Usable, y \in Ids: Descending(c, x, y)
     \/ \E x \in Usable: Leaf(c, x)

CallInv(c) == IF frames[c] = <<>> THEN OtherInv(c) ELSE DeleteInv(c)

\* Locally no folder is below itself.
Acyclic == mode = "local" =>
  \A S \in SUBSET Ids: S # {} => \E y \in S: ~(Exists(y) /\ store[y].parent \in S)

(* What is doomed by a delete is touched by no other client, is closed under
   children, and is below the folder asked for, until nothing of it is left.  *)
DoomedBusy(c, r) ==
  /\ asked[c] = <<r, TRUE>> /\ r \in doomed[c] /\ Exists(r)
  /\ frames[c] # <<>> \/ agenda[c] = <<<<"delete", r, TRUE>>>>
  /\ \A d \in Clients \ {c}: Busy(d) => touched[d] \cap doomed[c] = {}
  /\ \A y \in Ids: Exists(y) =>
       /\ store[y].parent \in doomed[c] => y \in doomed[c]
       /\ y \in doomed[c] => /\ y = r \/ store[y].parent \in doomed[c]
                             /\ y \in Usable => y \in Subtree(r)
DoomInv == \A c \in Clients:
  /\ doomed[c] \subseteq born
  /\ mode = "remote" /\ Busy(c) /\ doomed[c] # {} => \E r \in Usable: DoomedBusy(c, r)
  /\ mode = "remote" /\ ~Busy(c) => \A x \in Usable: Exists(x) => x \notin doomed[c] /\ store[x].parent \notin doomed[c]

CallsInv == \A c \in Clients: CallInv(c)
Good == /\ TreeTypeOK /\ DisjointInv /\ DraftInv /\ EntryInv /\ ListInv
        /\ CallsInv /\ Acyclic /\ DoomInv
TreeInv == clean => Good

-----------------------------------------------------------------------------
(* About numbers and lists. *)

\* Induction down from n, since an infinite descent cannot be injective.
LEMMA DownTo ==
  ASSUME NEW n \in Nat, NEW Z, n \in Z,
         \A j \in 1..n: j < n /\ j + 1 \in Z => j \in Z
  PROVE  1..n \subseteq Z
<1> SUFFICES ASSUME NEW i \in 1..n, i \notin Z PROVE FALSE OBVIOUS
<1> DEFINE Bad == {j \in 1..n: j >= i /\ j \notin Z}
           up == [j \in Bad |-> j + 1]
<1>1. IsFiniteSet(1..n)
  BY FS_Interval
<1>2. IsFiniteSet(Bad) /\ i \in Bad
  BY <1>1, FS_Subset
<1>3. /\ IsFiniteSet(Bad \ {i}) /\ Cardinality(Bad \ {i}) = Cardinality(Bad) - 1
      /\ Cardinality(Bad) \in Nat
  BY <1>2, FS_RemoveElement, FS_CardinalityType
<1>4. \A j \in Bad: j + 1 \in Bad \ {i}
  OBVIOUS
<1>5. up \in Injection(Bad, Bad \ {i})
  <2>1. up \in [Bad -> Bad \ {i}]
    BY <1>4
  <2>2. \A a, b \in Bad: up[a] = up[b] => a = b
    OBVIOUS
  <2> QED BY <2>1, <2>2 DEF Injection, IsInjective
<1>6. Cardinality(Bad) <= Cardinality(Bad \ {i})
  BY <1>3, <1>5, FS_Injection
<1> QED BY <1>3, <1>6

LEMMA ToSetIs == \A s: \A y: y \in ToSet(s) <=> \E i \in DOMAIN s: s[i] = y
BY DEF ToSet

\* What RemoveAt leaves of a list.
LEMMA Removed ==
  ASSUME NEW S, NEW s \in Seq(S), NEW k \in DOMAIN s
  PROVE  /\ RemoveAt(s, k) \in Seq(S) /\ Len(RemoveAt(s, k)) = Len(s) - 1
         /\ \A i \in 1..(Len(s) - 1): RemoveAt(s, k)[i] = IF i < k THEN s[i] ELSE s[i + 1]
<1> DEFINE a == SubSeq(s, 1, k - 1)
           b == SubSeq(s, k + 1, Len(s))
<1>0. k \in 1..Len(s) /\ Len(s) \in Nat
  OBVIOUS
<1>1. a \in Seq(S) /\ Len(a) = k - 1 /\ \A i \in 1..(k - 1): a[i] = s[i]
  BY <1>0
<1>2. b \in Seq(S) /\ Len(b) = Len(s) - k /\ \A i \in 1..(Len(s) - k): b[i] = s[k + i]
  BY <1>0
<1> HIDE DEF a, b
<1>3. /\ a \o b \in Seq(S) /\ Len(a \o b) = Len(s) - 1
      /\ \A i \in 1..(Len(s) - 1): (a \o b)[i] = IF i < k THEN s[i] ELSE s[i + 1]
  <2>1. a \o b \in Seq(S) /\ Len(a \o b) = Len(a) + Len(b)
    BY <1>1, <1>2, ConcatProperties
  <2>2. \A i \in 1..(Len(a) + Len(b)): (a \o b)[i] = IF i <= Len(a) THEN a[i] ELSE b[i - Len(a)]
    BY <1>1, <1>2, ConcatProperties
  <2>3. Len(a) = k - 1 /\ Len(b) = Len(s) - k /\ k \in Nat
    BY <1>0, <1>1, <1>2
  <2>4. ASSUME NEW i \in 1..(Len(s) - 1)
        PROVE (a \o b)[i] = IF i < k THEN s[i] ELSE s[i + 1]
    <3>1. CASE i < k
      <4>1. i \in 1..(k - 1) /\ i \in 1..(Len(a) + Len(b)) /\ i <= Len(a)
        BY <1>0, <2>3, <3>1
      <4> QED BY <1>1, <2>2, <3>1, <4>1
    <3>2. CASE ~(i < k)
      <4>1. i - Len(a) \in 1..(Len(s) - k) /\ k + (i - Len(a)) = i + 1
        BY <1>0, <2>3, <3>2
      <4>2. (a \o b)[i] = b[i - Len(a)]
        <5>1. i \in 1..(Len(a) + Len(b)) /\ ~(i <= Len(a))
          BY <1>0, <2>3, <3>2
        <5> QED BY <2>2, <5>1
      <4>3. b[i - Len(a)] = s[k + (i - Len(a))]
        BY <1>2, <4>1
      <4> QED BY <3>2, <4>1, <4>2, <4>3
    <3> QED BY <3>1, <3>2
  <2>5. Len(a \o b) = Len(s) - 1
    BY <1>0, <2>1, <2>3
  <2> QED BY <2>1, <2>4, <2>5
<1> QED BY <1>3 DEF RemoveAt, a, b

LEMMA PlainRemoved ==
  ASSUME NEW s, Plain(s), NEW k \in DOMAIN s
  PROVE  Plain(RemoveAt(s, k)) /\ \A y: y \in ToSet(RemoveAt(s, k)) <=> y \in ToSet(s) /\ y # s[k]
<1> DEFINE r == RemoveAt(s, k)
<1>0. s \in Seq(Ids) /\ \A i, j \in DOMAIN s: s[i] = s[j] => i = j
  BY DEF Plain
<1>1. /\ r \in Seq(Ids) /\ Len(r) = Len(s) - 1
      /\ \A i \in 1..(Len(s) - 1): r[i] = IF i < k THEN s[i] ELSE s[i + 1]
  BY <1>0, Removed
<1> HIDE DEF r
<1>2. /\ DOMAIN r = 1..(Len(s) - 1) /\ DOMAIN s = 1..Len(s) /\ Len(s) \in Nat /\ k \in 1..Len(s)
  BY <1>0, <1>1
<1>3. ASSUME NEW i \in DOMAIN r, NEW j \in DOMAIN r, r[i] = r[j] PROVE i = j
  <2> DEFINE at(h) == IF h < k THEN h ELSE h + 1
  <2>1. at(i) \in DOMAIN s /\ at(j) \in DOMAIN s /\ r[i] = s[at(i)] /\ r[j] = s[at(j)]
    BY <1>1, <1>2
  <2>2. at(i) = at(j)
    BY <1>0, <1>3, <2>1
  <2> QED BY <1>2, <2>2
<1>4. ASSUME NEW y PROVE (\E i \in DOMAIN r: r[i] = y) <=> (\E i \in DOMAIN s: s[i] = y) /\ y # s[k]
  <2>1. ASSUME NEW i \in DOMAIN r, r[i] = y PROVE (\E j \in DOMAIN s: s[j] = y) /\ y # s[k]
    BY <1>0, <1>1, <1>2, <2>1
  <2>2. ASSUME NEW j \in DOMAIN s, s[j] = y, y # s[k] PROVE \E i \in DOMAIN r: r[i] = y
    <3>1. CASE j < k
      BY <1>1, <1>2, <2>2, <3>1
    <3>2. CASE j > k
      <4>1. j - 1 \in DOMAIN r /\ r[j - 1] = y
        BY <1>1, <1>2, <2>2, <3>2
      <4> QED BY <4>1
    <3> QED BY <1>2, <2>2, <3>1, <3>2
  <2> QED BY <2>1, <2>2
<1>5. Plain(r) /\ \A y: y \in ToSet(r) <=> y \in ToSet(s) /\ y # s[k]
  BY <1>1, <1>3, <1>4, ToSetIs DEF Plain
<1> QED BY <1>5 DEF r

LEMMA PlainAppended ==
  ASSUME NEW s, Plain(s), NEW x \in Ids, x \notin ToSet(s)
  PROVE  Plain(Append(s, x)) /\ \A y: y \in ToSet(Append(s, x)) <=> y \in ToSet(s) \/ y = x
<1> DEFINE r == Append(s, x)
<1>0. s \in Seq(Ids) /\ \A i, j \in DOMAIN s: s[i] = s[j] => i = j
  BY DEF Plain
<1>1. /\ r \in Seq(Ids) /\ Len(r) = Len(s) + 1 /\ r[Len(s) + 1] = x
      /\ \A i \in 1..Len(s): r[i] = s[i]
  BY <1>0
<1> HIDE DEF r
<1>2. DOMAIN r = 1..(Len(s) + 1) /\ DOMAIN s = 1..Len(s) /\ Len(s) \in Nat
  BY <1>0, <1>1
<1>3. \A i \in DOMAIN s: s[i] # x
  BY ToSetIs
<1>4. \A i, j \in DOMAIN r: r[i] = r[j] => i = j
  BY <1>0, <1>1, <1>2, <1>3
<1>5. ASSUME NEW y PROVE (\E i \in DOMAIN r: r[i] = y) <=> (\E i \in DOMAIN s: s[i] = y) \/ y = x
  BY <1>1, <1>2
<1>6. Plain(r) /\ \A y: y \in ToSet(r) <=> y \in ToSet(s) \/ y = x
  BY <1>1, <1>4, <1>5, ToSetIs DEF Plain
<1> QED BY <1>6 DEF r

\* The agendas that are put together from parts.
LEMMA Joined ==
  ASSUME NEW a, NEW b, NEW d
  PROVE  /\ <<a>> \o <<>> = <<a>> /\ <<>> \o <<a>> = <<a>> /\ <<a>> \o <<b>> = <<a, b>>
         /\ (<<>> \o <<>>) \o <<a>> = <<a>> /\ (<<a>> \o <<>>) \o <<b>> = <<a, b>>
         /\ (<<>> \o <<a>>) \o <<b>> = <<a, b>> /\ (<<a>> \o <<b>>) \o <<d>> = <<a, b, d>>
<1> DEFINE S == {a, b, d}
<1>1. /\ <<>> \in Seq(S) /\ <<a>> \in Seq(S) /\ <<b>> \in Seq(S) /\ <<d>> \in Seq(S)
      /\ <<a, b>> \in Seq(S) /\ <<a, b, d>> \in Seq(S)
      /\ Len(<<a>>) = 1 /\ Len(<<b>>) = 1 /\ Len(<<d>>) = 1
      /\ Len(<<a, b>>) = 2 /\ Len(<<a, b, d>>) = 3
  OBVIOUS
<1> HIDE DEF S
<1>2. <<a>> \o <<>> = <<a>> /\ <<>> \o <<a>> = <<a>> /\ <<>> \o <<>> = <<>>
  BY <1>1, ConcatEmptySeq
<1>3. <<a>> \o <<b>> = <<a, b>>
  <2>1. /\ <<a>> \o <<b>> \in Seq(S) /\ Len(<<a>> \o <<b>>) = 2
        /\ (<<a>> \o <<b>>)[1] = a /\ (<<a>> \o <<b>>)[2] = b
    BY <1>1, ConcatProperties
  <2>2. \A i \in 1..2: (<<a>> \o <<b>>)[i] = <<a, b>>[i]
    BY <2>1
  <2> QED BY <1>1, <2>1, <2>2, SeqEqual
<1>4. <<a, b>> \o <<d>> = <<a, b, d>>
  <2>1. /\ <<a, b>> \o <<d>> \in Seq(S) /\ Len(<<a, b>> \o <<d>>) = 3
        /\ (<<a, b>> \o <<d>>)[1] = a /\ (<<a, b>> \o <<d>>)[2] = b
        /\ (<<a, b>> \o <<d>>)[3] = d
    BY <1>1, ConcatProperties
  <2>2. \A i \in 1..3: (<<a, b>> \o <<d>>)[i] = <<a, b, d>>[i]
    BY <2>1
  <2> QED BY <1>1, <2>1, <2>2, SeqEqual
<1> QED BY <1>2, <1>3, <1>4

LEMMA Parts == \A a, b, d:
  /\ <<a>> # <<>> /\ Head(<<a>>) = a /\ Tail(<<a>>) = <<>>
  /\ <<a, b>> # <<>> /\ Head(<<a, b>>) = a /\ Tail(<<a, b>>) = <<b>>
  /\ <<a, b, d>> # <<>> /\ Head(<<a, b, d>>) = a /\ Tail(<<a, b, d>>) = <<b, d>>
OBVIOUS

-----------------------------------------------------------------------------
(* What is known of the call a client makes next. *)

LEMMA CreatingHead ==
  ASSUME NEW c, NEW x, NEW p, NEW folder, Creating(c, x, p, folder)
  PROVE  /\ agenda[c] # <<>> /\ Head(agenda[c]) = <<"write", x, NewEntry(p, folder)>>
         /\ p = Root => Tail(agenda[c]) = <<>>
         /\ p # Root => Tail(agenda[c]) = <<<<"link", p, x>>>>
<1> DEFINE w == <<"write", x, NewEntry(p, folder)>>
<1>1. agenda[c] = IF p = Root THEN <<w>> ELSE <<w, <<"link", p, x>>>>
  BY DEF Creating
<1> HIDE DEF w
<1>2. /\ agenda[c] # <<>> /\ Head(agenda[c]) = w
      /\ p = Root => Tail(agenda[c]) = <<>>
      /\ p # Root => Tail(agenda[c]) = <<<<"link", p, x>>>>
  BY <1>1, Parts
<1> QED BY <1>2 DEF w

LEMMA LinkingHead ==
  ASSUME NEW c, NEW x, NEW p, Linking(c, x, p)
  PROVE  agenda[c] # <<>> /\ Head(agenda[c]) = <<"link", p, x>> /\ Tail(agenda[c]) = <<>>
BY Parts DEF Linking

LEMMA OutHead ==
  ASSUME NEW c, NEW x, NEW p, Out(c, x, p)
  PROVE  /\ agenda[c] # <<>> /\ Head(agenda[c]) = <<"unlink", store[x].parent, x>>
         /\ p = Root => Tail(agenda[c]) = <<Final(x, p)>>
         /\ p # Root => Tail(agenda[c]) = <<<<"link", p, x>>, Final(x, p)>>
BY Parts DEF Out

LEMMA BetweenHead ==
  ASSUME NEW c, NEW x, NEW p, Between(c, x, p)
  PROVE  /\ agenda[c] # <<>> /\ Head(agenda[c]) = <<"link", p, x>>
         /\ Tail(agenda[c]) = <<Final(x, p)>>
BY Parts DEF Between

LEMMA InHead ==
  ASSUME NEW c, NEW x, NEW p, In(c, x, p)
  PROVE  agenda[c] # <<>> /\ Head(agenda[c]) = Final(x, p) /\ Tail(agenda[c]) = <<>>
BY Parts DEF In

LEMMA SingleHead ==
  ASSUME NEW c, NEW t, NEW x, NEW r, agenda[c] = <<<<t, x, r>>>>
  PROVE  agenda[c] # <<>> /\ Head(agenda[c]) = <<t, x, r>> /\ Tail(agenda[c]) = <<>>
BY Parts

LEMMA FrameOf ==
  ASSUME TreeTypeOK, NEW c \in Clients, frames[c] # <<>>
  PROVE  /\ 1 \in DOMAIN frames[c] /\ Head(frames[c]) = frames[c][1] /\ frames[c][1] \in Frame
         /\ Len(frames[c]) \in Nat /\ Len(frames[c]) >= 1 /\ DOMAIN frames[c] = 1..Len(frames[c])
         /\ frames[c] \in Seq(Frame) /\ Tail(frames[c]) \in Seq(Frame)
         /\ Len(Tail(frames[c])) = Len(frames[c]) - 1
         /\ \A i \in 1..(Len(frames[c]) - 1): Tail(frames[c])[i] = frames[c][i + 1]
<1>1. frames[c] \in Seq(Frame)
  BY DEF TreeTypeOK
<1> QED BY <1>1, HeadTailProperties

(* Which calls they are, by kind. *)
LEMMA Kinds ==
  ASSUME TreeTypeOK, NEW c \in Clients, CallInv(c), agenda[c] # <<>>
  PROVE  LET kind == Head(agenda[c])[1] IN
    /\ kind = "write" =>
         /\ frames[c] = <<>>
         /\ \/ \E x \in Ids, p \in Usable \cup {Root}, folder \in BOOLEAN: Creating(c, x, p, folder)
            \/ /\ mode # "local"
               /\ \E x \in Usable, p \in Usable \cup {Root}: Target(c, x, p) /\ Exists(x) /\ In(c, x, p)
    /\ kind = "reparent" =>
         /\ frames[c] = <<>> /\ mode = "local"
         /\ \E x \in Usable, p \in Usable \cup {Root}: Target(c, x, p) /\ Exists(x) /\ In(c, x, p)
    /\ kind = "link" =>
         /\ frames[c] = <<>>
         /\ \/ \E x \in Ids, p \in Usable: Linking(c, x, p)
            \/ \E x \in Usable, p \in Usable: Target(c, x, p) /\ Exists(x) /\ Between(c, x, p)
    /\ kind = "unlink" =>
         \/ /\ frames[c] = <<>>
            /\ \E x \in Usable, p \in Usable \cup {Root}: Target(c, x, p) /\ Exists(x) /\ Out(c, x, p)
         \/ frames[c] # <<>> /\ DeleteInv(c) /\ \E x \in Usable: Leaf(c, x)
    /\ kind = "move" =>
         /\ frames[c] = <<>>
         /\ \E x \in Usable, p \in Usable \cup {Root}: Target(c, x, p) /\ agenda[c] = <<<<"move", x, p>>>>
    /\ kind \in {"update", "list"} =>
         /\ frames[c] = <<>>
         /\ \E x \in Usable: Fetching(c, kind, x)
    /\ kind = "delete" =>
         \/ frames[c] = <<>> /\ \E x \in Usable, r \in BOOLEAN: Asking(c, x, r)
         \/ frames[c] # <<>> /\ DeleteInv(c) /\ \E x \in Usable, y \in Ids: Descending(c, x, y)
    /\ kind = "drop" => frames[c] # <<>> /\ DeleteInv(c) /\ \E x \in Usable: Leaf(c, x)
<1> DEFINE kind == Head(agenda[c])[1]
<1>1. CASE frames[c] = <<>>
  <2>0. OtherInv(c)
    BY <1>1 DEF CallInv
  <2>1. CASE \E x \in Usable, t \in {"update", "list"}: Fetching(c, t, x)
    <3>1. PICK x \in Usable, t \in {"update", "list"}: Fetching(c, t, x)
      BY <2>1
    <3>2. kind = t
      BY <3>1, SingleHead DEF Fetching
    <3> QED BY <1>1, <3>1, <3>2
  <2>2. CASE \E x \in Ids, p \in Usable \cup {Root}, folder \in BOOLEAN: Creating(c, x, p, folder)
    <3>1. PICK x \in Ids, p \in Usable \cup {Root}, folder \in BOOLEAN: Creating(c, x, p, folder)
      BY <2>2
    <3>2. Head(agenda[c]) = <<"write", x, NewEntry(p, folder)>>
      BY <3>1, CreatingHead
    <3>3. kind = "write"
      BY <3>2
    <3> QED BY <1>1, <2>2, <3>3
  <2>3. CASE \E x \in Ids, p \in Usable: Linking(c, x, p)
    <3>1. kind = "link"
      BY <2>3, LinkingHead
    <3> QED BY <1>1, <2>3, <3>1
  <2>4. CASE \E x \in Usable, p \in Usable \cup {Root}: Moving(c, x, p)
    <3>1. PICK x \in Usable, p \in Usable \cup {Root}: Moving(c, x, p)
      BY <2>4
    <3>2. CASE agenda[c] = <<<<"move", x, p>>>>
      <4>1. kind = "move"
        BY <3>2, SingleHead
      <4> QED BY <1>1, <3>1, <3>2, <4>1 DEF Moving
    <3>3. CASE Exists(x) /\ Out(c, x, p)
      <4>0. Head(agenda[c]) = <<"unlink", store[x].parent, x>>
        BY <3>3, OutHead
      <4>1. kind = "unlink"
        BY <4>0
      <4> QED BY <1>1, <3>1, <3>3, <4>1 DEF Moving
    <3>4. CASE Exists(x) /\ Between(c, x, p)
      <4>1. kind = "link" /\ p \in Usable
        BY <3>4, BetweenHead DEF Between
      <4> QED BY <1>1, <3>1, <3>4, <4>1 DEF Moving
    <3>5. CASE Exists(x) /\ In(c, x, p)
      <4>0. Head(agenda[c]) = Final(x, p)
        BY <3>5, InHead
      <4>1. kind = IF mode = "local" THEN "reparent" ELSE "write"
        BY <4>0 DEF Final
      <4> QED BY <1>1, <3>1, <3>5, <4>1 DEF Moving
    <3> QED BY <3>1, <3>2, <3>3, <3>4, <3>5 DEF Moving
  <2>5. CASE \E x \in Usable, r \in BOOLEAN: Asking(c, x, r)
    <3>1. kind = "delete"
      BY <2>5, SingleHead DEF Asking
    <3> QED BY <1>1, <2>5, <3>1
  <2> QED BY <2>0, <2>1, <2>2, <2>3, <2>4, <2>5 DEF OtherInv
<1>2. CASE frames[c] # <<>>
  <2>0. DeleteInv(c)
    BY <1>2 DEF CallInv
  <2>1. CASE \E x \in Usable, y \in Ids: Descending(c, x, y)
    <3>1. kind = "delete"
      BY <2>1, SingleHead DEF Descending
    <3> QED BY <1>2, <2>0, <2>1, <3>1
  <2>2. CASE \E x \in Usable: Leaf(c, x)
    <3>1. kind = "drop" \/ kind = "unlink"
      BY <2>2, Parts DEF Leaf
    <3> QED BY <1>2, <2>0, <2>2, <3>1
  <2> QED BY <2>0, <2>1, <2>2 DEF DeleteInv
<1> QED BY <1>1, <1>2

-----------------------------------------------------------------------------
(* A step of one client, seen from the entries and from the others. *)

\* The next call of c is about x, and nothing that overlaps it is.
StepOn(c, x) ==
  /\ x \in Ids /\ clean /\ Busy(c)
  /\ mode' = mode /\ born' = born /\ asked' = asked
  /\ touched' = [touched EXCEPT ![c] = @ \cup {x}]
  /\ \A d \in Clients \ {c}: Busy(d) => x \notin touched[d]
  /\ doomed' = [d \in Clients |-> IF d # c /\ Busy(d) /\ x \in doomed[d] THEN {} ELSE doomed[d]]
  /\ \A d \in Clients \ {c}: agenda'[d] = agenda[d] /\ draft'[d] = draft[d] /\ frames'[d] = frames[d]
  /\ \A y \in Ids: y # x => store'[y] = store[y]
  /\ draft[c] # Nothing => draft[c].file = x
  /\ draft'[c] # Nothing => draft'[c].file = x

\* What the others may rely on.
Apart(c) ==
  /\ mode' = mode /\ born \subseteq born'
  /\ \A d \in Clients \ {c}:
       /\ agenda'[d] = agenda[d] /\ draft'[d] = draft[d] /\ frames'[d] = frames[d]
       /\ asked'[d] = asked[d] /\ touched'[d] = touched[d]
       /\ Busy(d) => mode # "local" /\ touched'[c] \cap touched[d] = {}
  /\ Busy(c) => touched[c] \subseteq touched'[c]
  /\ \A x \in Ids: x \notin touched'[c] => store'[x] = store[x] /\ ListOf'[x] = ListOf[x]
  /\ \A x, f \in Ids: f \notin touched'[c] => (Below(x, f)' <=> Below(x, f))
  /\ \A f, x \in Ids: x \notin touched'[c] /\ Exists(f)' =>
       (Listed(f, x)' <=> Listed(f, x)) /\ (Exists(f) \/ ~Below(x, f))
  /\ \A x \in Ids: Exists(x)' /\ ~Exists(x) =>
       \A d \in Clients: \A i \in DOMAIN frames[d]: x \notin ToSet(frames[d][i].list)
  /\ \A i \in DOMAIN frames'[c]: \A x \in ToSet(frames'[c][i].list):
       Exists(x) \/ \E j \in DOMAIN frames[c]: x \in ToSet(frames[c][j].list)
  /\ \A d \in Clients: \A x \in doomed'[d]: Exists(x) \/ x \in doomed[d]

LEMMA Fetched ==
  ASSUME NEW c, NEW x, NEW e \in Gets(x), Read(c, x, e), clean'
  PROVE  /\ Touches(c, x, TRUE)
         /\ e # Nothing => x \in Usable /\ Exists(x) /\ e = store[x]
         /\ Exists(x) /\ x \in Usable => e # Nothing
<1>1. e # Nothing \/ ~Exists(x) \/ x \notin Usable
  BY DEF Read, Touches
<1>2. Touches(c, x, TRUE)
  BY <1>1 DEF Read, Touches
<1>3. e # Nothing => x \in Usable /\ Exists(x) /\ e = store[x]
  BY DEF Gets
<1> QED BY <1>1, <1>2, <1>3

\* The lists are what the drafts, if any, say.
AsDrafted ==
  /\ \A k \in Clients: draft[k] # Nothing => ListOf[draft[k].file] = draft[k].entry.objects
  /\ \A z \in Ids: (\A k \in Clients: ~Drafts(k, z)) => ListOf[z] = store[z].objects

LEMMA ListIs == TreeTypeOK /\ DisjointInv /\ DraftInv => AsDrafted
<1> SUFFICES ASSUME TreeTypeOK, DisjointInv, DraftInv
    PROVE /\ \A c \in Clients: draft[c] # Nothing => ListOf[draft[c].file] = draft[c].entry.objects
          /\ \A x \in Ids: (\A c \in Clients: ~Drafts(c, x)) => ListOf[x] = store[x].objects
  BY DEF AsDrafted
<1>1. ASSUME NEW c \in Clients, draft[c] # Nothing
      PROVE  ListOf[draft[c].file] = draft[c].entry.objects
  <2> DEFINE x == draft[c].file
             d == CHOOSE e \in Clients: Drafts(e, x)
  <2>1. x \in Ids /\ x \in touched[c] /\ Drafts(c, x) /\ Busy(c)
    BY <1>1 DEF DraftInv, Exists, Drafts, Busy
  <2>2. d \in Clients /\ Drafts(d, x)
    BY <2>1
  <2>3. ListOf[x] = draft[d].entry.objects
    BY <2>1 DEF ListOf
  <2> HIDE DEF d
  <2>4. x \in touched[d] /\ Busy(d)
    BY <2>2 DEF Drafts, DraftInv, Busy
  <2>5. d = c
    BY <2>1, <2>2, <2>4 DEF DisjointInv
  <2> QED BY <2>3, <2>5
<1>2. ASSUME NEW x \in Ids, \A c \in Clients: ~Drafts(c, x)
      PROVE  ListOf[x] = store[x].objects
  BY <1>2 DEF ListOf
<1> QED BY <1>1, <1>2

LEMMA ListIsNext == (TreeTypeOK /\ DisjointInv /\ DraftInv)' => AsDrafted'
BY ListIs, PTL

LEMMA StepDisjoint ==
  ASSUME TreeTypeOK, DisjointInv, NEW c \in Clients, NEW x, StepOn(c, x)
  PROVE  DisjointInv'
<1>1. \A d \in Clients \ {c}: (Busy(d)' <=> Busy(d)) /\ touched'[d] = touched[d]
  BY DEF StepOn, Busy, TreeTypeOK
<1>2. touched'[c] = touched[c] \cup {x}
  BY DEF StepOn, TreeTypeOK
<1>3. ASSUME NEW a \in Clients, NEW d \in Clients, a # d, Busy(a)', Busy(d)'
      PROVE touched'[a] \cap touched'[d] = {}
  <2>1. Busy(c) /\ \A e \in Clients \ {c}: Busy(e) => x \notin touched[e]
    BY DEF StepOn
  <2>2. Busy(a) /\ Busy(d)
    BY <1>1, <1>3, <2>1
  <2> QED BY <1>1, <1>2, <1>3, <2>1, <2>2 DEF DisjointInv
<1>4. ASSUME mode' = "local", NEW a \in Clients, NEW d \in Clients, Busy(a)', Busy(d)'
      PROVE a = d
  <2>1. Busy(c) /\ mode = "local"
    BY <1>4 DEF StepOn
  <2> QED BY <1>1, <1>4, <2>1 DEF DisjointInv
<1> QED BY <1>3, <1>4 DEF DisjointInv

LEMMA StepDraft ==
  ASSUME TreeTypeOK, DraftInv, NEW c \in Clients, NEW x, StepOn(c, x),
         draft'[c] # Nothing => /\ mode = "remote" /\ x \in Usable /\ Exists(x)'
                                /\ draft'[c].entry.parent = store'[x].parent
                                /\ draft'[c].entry.folder = store'[x].folder
  PROVE  DraftInv'
<1> SUFFICES ASSUME NEW d \in Clients, draft'[d] # Nothing
    PROVE /\ mode' = "remote"
          /\ \E f \in Usable: /\ draft'[d].file = f /\ f \in touched'[d] /\ Exists(f)'
                             /\ draft'[d].entry.parent = store'[f].parent
                             /\ draft'[d].entry.folder = store'[f].folder
  BY DEF DraftInv
<1>1. CASE d = c
  <2>1. draft'[d].file = x /\ x \in touched'[c] /\ mode' = mode
    BY <1>1 DEF StepOn, TreeTypeOK
  <2> QED BY <1>1, <2>1
<1>2. CASE d # c
  <2>1. draft'[d] = draft[d] /\ touched'[d] = touched[d] /\ mode' = mode /\ Busy(d)
    BY <1>2 DEF StepOn, TreeTypeOK, Busy
  <2>2. PICK f \in Usable:
          /\ draft[d].file = f /\ f \in touched[d] /\ Exists(f)
          /\ draft[d].entry.parent = store[f].parent /\ draft[d].entry.folder = store[f].folder
    BY <2>1 DEF DraftInv
  <2>3. f # x /\ mode = "remote"
    BY <1>2, <2>1, <2>2 DEF StepOn, DraftInv
  <2>4. store'[f] = store[f] /\ Exists(f)'
    BY <2>2, <2>3 DEF StepOn, Exists
  <2> QED BY <2>1, <2>2, <2>3, <2>4
<1> QED BY <1>1, <1>2

\* A step on x changes no list but that of x.
LEMMA StepLists ==
  ASSUME TreeTypeOK, DisjointInv, DraftInv, TreeTypeOK', DisjointInv', DraftInv',
         NEW c \in Clients, NEW x, StepOn(c, x)
  PROVE  /\ \A y \in Ids: y # x => ListOf'[y] = ListOf[y]
         /\ ListOf[x] = IF draft[c] # Nothing THEN draft[c].entry.objects ELSE store[x].objects
         /\ ListOf'[x] = IF draft'[c] # Nothing THEN draft'[c].entry.objects
                         ELSE store'[x].objects
<1>1. /\ \A d \in Clients: draft[d] # Nothing => ListOf[draft[d].file] = draft[d].entry.objects
      /\ \A y \in Ids: (\A d \in Clients: ~Drafts(d, y)) => ListOf[y] = store[y].objects
  BY ListIs DEF AsDrafted
<1>3. /\ \A d \in Clients: draft'[d] # Nothing => ListOf'[draft'[d].file] = draft'[d].entry.objects
      /\ \A y \in Ids: (\A d \in Clients: ~Drafts(d, y)') => ListOf'[y] = store'[y].objects
  BY ListIsNext DEF AsDrafted
<1>4. \A d \in Clients \ {c}: ~Drafts(d, x) /\ ~Drafts(d, x)'
  BY DEF StepOn, Drafts, DraftInv, Busy
<1>5. ASSUME NEW y \in Ids, y # x PROVE ListOf'[y] = ListOf[y]
  <2>1. \A d \in Clients: Drafts(d, y)' <=> Drafts(d, y)
    BY <1>5 DEF StepOn, Drafts
  <2>2. CASE \E d \in Clients: Drafts(d, y)
    <3>1. PICK d \in Clients: Drafts(d, y)
      BY <2>2
    <3>2. d # c
      BY <1>5, <3>1 DEF StepOn, Drafts
    <3>3. draft'[d] = draft[d] /\ draft[d] # Nothing /\ draft[d].file = y
      BY <3>1, <3>2 DEF StepOn, Drafts
    <3> QED BY <1>1, <1>3, <3>3
  <2>3. CASE ~ \E d \in Clients: Drafts(d, y)
    <3>1. store'[y] = store[y]
      BY <1>5 DEF StepOn
    <3> QED BY <1>1, <1>3, <2>1, <2>3, <3>1
  <2> QED BY <2>2, <2>3
<1>6. ListOf[x] = IF draft[c] # Nothing THEN draft[c].entry.objects ELSE store[x].objects
  BY <1>1, <1>4 DEF StepOn, Drafts
<1>7. ListOf'[x] = IF draft'[c] # Nothing THEN draft'[c].entry.objects ELSE store'[x].objects
  BY <1>3, <1>4 DEF StepOn, Drafts
<1> QED BY <1>5, <1>6, <1>7

-----------------------------------------------------------------------------
(* The others' calls and frames stay as they should be. *)

\* The lists that delete_file calls hold, and what is in none of them.
InNoFrame(x) == \A d \in Clients: \A i \in DOMAIN frames[d]: x \notin ToSet(frames[d][i].list)

\* What client d has to do is as it was, and so is what its calls and frames are about.
Undisturbed(d) ==
  /\ mode' = mode /\ born \subseteq born' /\ asked'[d] = asked[d] /\ touched[d] \subseteq touched'[d]
  /\ agenda'[d] = agenda[d] /\ frames'[d] = frames[d]
  /\ \A y \in Ids: y \in touched[d] =>
       /\ Exists(y)' <=> Exists(y)
       /\ store'[y].parent = store[y].parent /\ store'[y].folder = store[y].folder
       /\ ~Drafts(d, y) => store'[y] = store[y] /\ ~Drafts(d, y)'
       /\ \A z \in Ids: /\ Below(z, y)' <=> Below(z, y)
                        /\ Listed(z, y)' => Listed(z, y)
                        /\ Listed(y, z)' <=> Listed(y, z)
  /\ mode = "local" => \A y: Subtree(y)' = Subtree(y) /\ (Exists(y)' => Exists(y))
  /\ \A y \in Ids: \A e \in Clients: y \in doomed'[e] => Exists(y) \/ y \in doomed[e]
  /\ \A y \in Ids: Exists(y)' /\ ~Exists(y) =>
       \A i \in DOMAIN frames[d]: y \notin ToSet(frames[d][i].list)
  /\ \A y \in Ids: y \in touched[d] /\ ~Exists(y) /\ InNoFrame(y) => InNoFrame(y)'

LEMMA Keeps ==
  ASSUME TreeTypeOK, NEW d \in Clients, CallInv(d), Undisturbed(d)
  PROVE  CallInv(d)'
<1>1. /\ mode' = mode /\ born \subseteq born' /\ asked'[d] = asked[d] /\ touched[d] \subseteq touched'[d]
      /\ agenda'[d] = agenda[d] /\ frames'[d] = frames[d]
  BY DEF Undisturbed
<1>2. \A y \in Ids: y \in touched[d] =>
        /\ Exists(y)' <=> Exists(y)
        /\ store'[y].parent = store[y].parent /\ store'[y].folder = store[y].folder
  BY DEF Undisturbed
<1>3. \A y, z \in Ids: y \in touched[d] => (Below(z, y)' <=> Below(z, y))
  BY DEF Undisturbed
<1>4. \A y, f \in Ids: y \in touched[d] => (Listed(f, y)' => Listed(f, y))
  BY DEF Undisturbed
<1>5. \A p, y \in Ids: p \in touched[d] => (Listed(p, y)' <=> Listed(p, y))
  BY DEF Undisturbed
<1>6. \A p \in Usable \cup {Root}: Sound(d, p) => Sound(d, p)'
  BY <1>1, <1>2 DEF Sound, IsFolder, Ids
<1>7. \A x \in Ids: x \in touched[d] /\ InNoList(x) => InNoList(x)'
  BY <1>4 DEF InNoList
<1>8. \A y \in Ids: \A e \in Clients: y \in doomed'[e] => Exists(y) \/ y \in doomed[e]
  BY DEF Undisturbed
<1>10. CASE frames[d] = <<>>
  <2>0. frames'[d] = <<>> /\ OtherInv(d)
    BY <1>1, <1>10 DEF CallInv
  <2> SUFFICES OtherInv(d)'
    BY <2>0 DEF CallInv
  <2>1. CASE agenda[d] = <<>>
    BY <1>1, <2>1 DEF OtherInv
  <2>2. ASSUME NEW x \in Usable, NEW t \in {"update", "list"}, Fetching(d, t, x)
        PROVE  OtherInv(d)'
    <3>1. Fetching(d, t, x)'
      BY <1>1, <2>2 DEF Fetching
    <3> QED BY <3>1 DEF OtherInv
  <2>3. ASSUME NEW x \in Ids, NEW p \in Usable \cup {Root}, NEW folder \in BOOLEAN,
               Creating(d, x, p, folder)
        PROVE  OtherInv(d)'
    <3>1. /\ x \in born /\ x \in touched[d] /\ ~Exists(x) /\ Sound(d, p) /\ p # x
          /\ \A y \in Ids: ~Below(y, x)
          /\ \A e \in Clients: x \notin doomed[e]
          /\ \A e \in Clients: \A i \in DOMAIN frames[e]: x \notin ToSet(frames[e][i].list)
      BY <2>3 DEF Creating
    <3>2. /\ x \in born' /\ x \in touched'[d] /\ ~Exists(x)' /\ Sound(d, p)'
          /\ \A y \in Ids: ~Below(y, x)'
          /\ \A e \in Clients: x \notin doomed'[e]
      BY <1>1, <1>2, <1>3, <1>6, <1>8, <3>1 DEF Undisturbed
    <3>3. \A e \in Clients: \A i \in DOMAIN frames'[e]: x \notin ToSet(frames'[e][i].list)
      BY <3>1 DEF InNoFrame, Undisturbed
    <3>4. agenda'[d] = IF p = Root THEN <<<<"write", x, NewEntry(p, folder)>>>>
                       ELSE <<<<"write", x, NewEntry(p, folder)>>, <<"link", p, x>>>>
      BY <1>1, <2>3 DEF Creating
    <3>5. Creating(d, x, p, folder)'
      BY <3>1, <3>2, <3>3, <3>4 DEF Creating, NewEntry
    <3> QED BY <3>5 DEF OtherInv
  <2>4. ASSUME NEW x \in Ids, NEW p \in Usable, Linking(d, x, p) PROVE OtherInv(d)'
    <3>1. p \in Ids /\ p \in touched[d]
      BY <2>4 DEF Linking, Sound, Ids
    <3>2. Linking(d, x, p)'
      BY <1>1, <1>3, <1>6, <2>4, <3>1 DEF Linking
    <3> QED BY <3>2 DEF OtherInv
  <2>5. ASSUME NEW x \in Usable, NEW p \in Usable \cup {Root}, Moving(d, x, p)
        PROVE  OtherInv(d)'
    <3>1. x \in Ids /\ x \in touched[d] /\ Target(d, x, p)
      BY <2>5 DEF Moving, Target, Ids
    <3>2. Target(d, x, p)'
      BY <1>1, <1>6, <3>1 DEF Target, Undisturbed
    <3>3. store'[x] = store[x] /\ (Exists(x)' <=> Exists(x)) /\ Final(x, p)' = Final(x, p)
      BY <1>1, <3>1 DEF Final, Target, Undisturbed
    <3>4. CASE agenda[d] = <<<<"move", x, p>>>>
      <4>1. Moving(d, x, p)'
        BY <1>1, <3>2, <3>4 DEF Moving
      <4> QED BY <4>1 DEF OtherInv
    <3>5. CASE Exists(x) /\ Out(d, x, p)
      <4>1. Out(d, x, p)'
        BY <1>1, <3>3, <3>5 DEF Out
      <4>2. Moving(d, x, p)'
        BY <3>2, <3>3, <3>5, <4>1 DEF Moving
      <4> QED BY <4>2 DEF OtherInv
    <3>6. CASE Exists(x) /\ Between(d, x, p)
      <4>1. Between(d, x, p)'
        BY <1>1, <1>7, <3>1, <3>3, <3>6 DEF Between
      <4>2. Moving(d, x, p)'
        BY <3>2, <3>3, <3>6, <4>1 DEF Moving
      <4> QED BY <4>2 DEF OtherInv
    <3>7. CASE Exists(x) /\ In(d, x, p)
      <4>1. p # Root => p \in Ids /\ p \in touched[d]
        BY <3>1 DEF Target, Sound, Ids
      <4>2. p = Root \/ Listed(p, x)'
        BY <1>5, <3>1, <3>7, <4>1 DEF In
      <4>3. \A f \in Ids: Listed(f, x)' => f = p
        BY <1>4, <3>1, <3>7 DEF In
      <4>4. In(d, x, p)'
        BY <1>1, <3>3, <3>7, <4>2, <4>3 DEF In
      <4>5. Moving(d, x, p)'
        BY <3>2, <3>3, <3>7, <4>4 DEF Moving
      <4> QED BY <4>5 DEF OtherInv
    <3> QED BY <2>5, <3>4, <3>5, <3>6, <3>7 DEF Moving
  <2>6. ASSUME NEW x \in Usable, NEW r \in BOOLEAN, Asking(d, x, r) PROVE OtherInv(d)'
    <3>1. Asking(d, x, r)'
      BY <1>1, <2>6 DEF Asking
    <3> QED BY <3>1 DEF OtherInv
  <2> QED BY <2>0, <2>1, <2>2, <2>3, <2>4, <2>5, <2>6 DEF OtherInv
<1>11. CASE frames[d] # <<>>
  <2>0. frames'[d] # <<>> /\ DeleteInv(d)
    BY <1>1, <1>11 DEF CallInv
  <2> SUFFICES DeleteInv(d)'
    BY <2>0 DEF CallInv
  <2>1. ASSUME NEW i \in DOMAIN frames[d] PROVE \E f \in Usable: FrameInv(d, i, f)'
    <3>1. PICK f \in Usable: FrameInv(d, i, f)
      BY <2>0 DEF DeleteInv
    <3>6. ToSet(frames[d][i].list) \subseteq born'
      BY <3>1 DEF FrameInv, Undisturbed
    <3>2. /\ f \in Ids /\ f \in touched[d] /\ (Exists(f)' <=> Exists(f))
          /\ store'[f].parent = store[f].parent /\ store'[f].folder = store[f].folder
      BY <1>2, <3>1 DEF FrameInv, Ids
    <3>3. \A y \in Ids: Below(y, f)' <=> Below(y, f)
      BY <1>3, <3>2
    <3>4. ASSUME mode' = "remote", frames'[d][i].loop
          PROVE /\ \A n \in Left(frames'[d][i]), y \in Ids: frames'[d][i].list[n] = y =>
                     (y \in Usable /\ Exists(y)' => Below(y, f)')
                /\ \A y \in Usable: Below(y, f)' =>
                     \/ i > 1 /\ y = frames'[d][i - 1].file
                     \/ i = 1 /\ agenda'[d] = <<<<"delete", y, TRUE>>>>
                     \/ \E n \in Left(frames'[d][i]): frames'[d][i].list[n] = y
      <4>1. /\ \A n \in Left(frames[d][i]), y \in Ids: frames[d][i].list[n] = y =>
                 (y \in Usable /\ Exists(y) => Below(y, f))
            /\ \A y \in Usable: Below(y, f) =>
                 \/ i > 1 /\ y = frames[d][i - 1].file
                 \/ i = 1 /\ agenda[d] = <<<<"delete", y, TRUE>>>>
                 \/ \E n \in Left(frames[d][i]): frames[d][i].list[n] = y
        BY <1>1, <3>1, <3>4 DEF FrameInv
      <4>2. ASSUME NEW n \in Left(frames[d][i]), NEW y \in Ids, frames[d][i].list[n] = y
            PROVE (y \in Usable /\ Exists(y)' => Below(y, f)')
        <5>1. y \in ToSet(frames[d][i].list)
          BY <4>2, ToSetIs DEF Left
        <5>2. Exists(y)' => Exists(y)
          BY <5>1 DEF Undisturbed
        <5> QED BY <3>3, <4>1, <4>2, <5>2 DEF Undisturbed
      <4> QED BY <1>1, <3>3, <4>1, <4>2 DEF Ids
    <3>5. FrameInv(d, i, f)'
      BY <1>1, <3>6, <3>1, <3>2, <3>4 DEF FrameInv
    <3> QED BY <3>5
  <2>2. ASSUME NEW x \in Usable, NEW y \in Ids, Descending(d, x, y) PROVE Descending(d, x, y)'
    <3>1. PICK f \in Usable: FrameInv(d, 1, f)
      BY <1>11, <2>0, FrameOf DEF DeleteInv
    <3>2. x \in Ids /\ x \in touched[d]
      BY <1>11, <2>2, <3>1, FrameOf DEF FrameInv, Descending, Ids
    <3>3. CASE y \in Usable /\ Exists(y)'
      <4>1. Exists(y) => Below(y, x)'
        BY <1>3, <2>2, <3>2, <3>3 DEF Descending
      <4>2. Exists(y)
        <5>1. CASE mode = "remote"
          <6>1. y \in ToSet(frames[d][1].list) /\ 1 \in DOMAIN frames[d]
            BY <1>11, <2>2, <5>1, FrameOf DEF Descending
          <6> QED BY <3>3, <6>1 DEF Undisturbed
        <5>2. CASE mode = "local"
          BY <3>3, <5>2 DEF Undisturbed
        <5> QED BY <5>1, <5>2, FileTreeAssumption DEF TreeTypeOK
      <4> QED BY <1>1, <2>2, <4>1, <4>2 DEF Descending
    <3>4. CASE ~(y \in Usable /\ Exists(y)')
      BY <1>1, <2>2, <3>4 DEF Descending
    <3> QED BY <3>3, <3>4
  <2>3. ASSUME NEW x \in Usable, Leaf(d, x) PROVE Leaf(d, x)'
    <3>1. PICK f \in Usable: FrameInv(d, 1, f)
      BY <1>11, <2>0, FrameOf DEF DeleteInv
    <3>2. x \in Ids /\ x \in touched[d]
      BY <1>11, <2>3, <3>1, FrameOf DEF FrameInv, Leaf, Ids
    <3> QED BY <1>1, <1>7, <2>3, <3>2 DEF Leaf
  <2> QED BY <1>1, <2>0, <2>1, <2>2, <2>3 DEF DeleteInv
<1> QED BY <1>10, <1>11

LEMMA OthersKeep ==
  ASSUME TreeTypeOK, CallsInv, NEW c \in Clients, Apart(c)
  PROVE  \A d \in Clients \ {c}: CallInv(d)'
<1> SUFFICES ASSUME NEW d \in Clients, d # c PROVE CallInv(d)' OBVIOUS
<1>1. /\ agenda'[d] = agenda[d] /\ draft'[d] = draft[d] /\ frames'[d] = frames[d]
      /\ asked'[d] = asked[d] /\ touched'[d] = touched[d] /\ mode' = mode
  BY DEF Apart
<1>2. CASE agenda[d] = <<>> /\ frames[d] = <<>>
  BY <1>1, <1>2 DEF CallInv, OtherInv
<1>3. CASE agenda[d] # <<>> \/ frames[d] # <<>>
  <2>0. Busy(d) /\ CallInv(d)
    BY <1>3 DEF Busy, CallsInv
  <2>1. mode # "local" /\ \A y \in touched[d]: y \notin touched'[c]
    BY <2>0 DEF Apart
  <2>2. \A y \in Ids: y \in touched[d] =>
          store'[y] = store[y] /\ ListOf'[y] = ListOf[y] /\ (Exists(y)' <=> Exists(y))
    BY <2>1 DEF Apart, Exists
  <2>3. \A y, z \in Ids: y \in touched[d] => (Below(z, y)' <=> Below(z, y))
    BY <2>1 DEF Apart
  <2>4. \A y, f \in Ids: y \in touched[d] => (Listed(f, y)' => Listed(f, y))
    BY <2>1 DEF Apart, Listed
  <2>5. \A p, y \in Ids: p \in touched[d] => (Listed(p, y)' <=> Listed(p, y))
    BY <2>2 DEF Listed
  <2>6. \A y \in Ids: Drafts(d, y)' <=> Drafts(d, y)
    BY <1>1 DEF Drafts
  <2>7. \A y \in Ids: ~Exists(y) /\ InNoFrame(y) => InNoFrame(y)'
    BY DEF Apart, InNoFrame
  <2>8. /\ \A y \in Ids: \A e \in Clients: y \in doomed'[e] => Exists(y) \/ y \in doomed[e]
        /\ \A y \in Ids: Exists(y)' /\ ~Exists(y) =>
             \A i \in DOMAIN frames[d]: y \notin ToSet(frames[d][i].list)
        /\ born \subseteq born'
    BY DEF Apart
  <2>9. Undisturbed(d)
    BY <1>1, <2>1, <2>2, <2>3, <2>4, <2>5, <2>6, <2>7, <2>8 DEF Undisturbed
  <2> QED BY <2>0, <2>9, Keeps
<1> QED BY <1>2, <1>3

-----------------------------------------------------------------------------
(* The types, whether or not anything went wrong.  Locally an entry that is   *)
(* to get its new parent is still there, since no one else is at work.        *)

StaysInv ==
  /\ mode = "local" => \A c, d \in Clients: Busy(c) /\ Busy(d) => c = d
  /\ \A c \in Clients: \A i \in DOMAIN agenda[c]:
       /\ agenda[c][i][1] \in {"move", "reparent"} => frames[c] = <<>>
       /\ agenda[c][i][1] = "drop" => i = Len(agenda[c]) /\ frames[c] # <<>>
       /\ agenda[c][i][1] = "reparent" => mode = "local" /\ Exists(agenda[c][i][2])
TypeInv == TreeTypeOK /\ StaysInv

\* What kind of call names what.
LEMMA Calls ==
  ASSUME NEW t \in Task
  PROVE  /\ t[1] \in {"link", "unlink"} => t[2] \in Usable /\ t[3] \in Ids
         /\ t[1] = "write" => t[2] \in Ids /\ t[3] \in Entry
         /\ t[1] \in {"move", "reparent"} => t[2] \in Usable /\ t[3] \in Usable \cup {Root}
         /\ t[1] \in {"update", "drop", "list"} => t[2] \in Usable
         /\ t[1] = "delete" => t[2] \in Ids /\ t[3] \in BOOLEAN
BY DEF Task

LEMMA AgendaTypes ==
  ASSUME TreeTypeOK, NEW c \in Clients, agenda[c] # <<>>
  PROVE  /\ Head(agenda[c]) \in Task /\ Later(c) \in Seq(Task) /\ agenda[c] \in Seq(Task)
         /\ \A i \in DOMAIN Later(c): i + 1 \in DOMAIN agenda[c] /\ Later(c)[i] = agenda[c][i + 1]
         /\ 1 \in DOMAIN agenda[c] /\ Head(agenda[c]) = agenda[c][1]
<1>1. agenda[c] \in Seq(Task)
  BY DEF TreeTypeOK
<1> QED BY <1>1, HeadTailProperties DEF Later

LEMMA NamedTypes ==
  ASSUME TreeTypeOK, NEW c \in Clients, NEW do, Now(c, do)
  PROVE  /\ do \in {"link", "unlink"} => Subject(c) \in Usable /\ Argument(c) \in Ids
         /\ do = "write" => Subject(c) \in Ids /\ Argument(c) \in Entry
         /\ do \in {"move", "reparent"} => Subject(c) \in Usable /\ Argument(c) \in Usable \cup {Root}
         /\ do \in {"update", "drop", "list"} => Subject(c) \in Usable
         /\ do = "delete" => Subject(c) \in Ids /\ Argument(c) \in BOOLEAN
<1>1. Head(agenda[c]) \in Task /\ Head(agenda[c])[1] = do
  BY AgendaTypes DEF Now
<1> QED BY <1>1, Calls DEF Subject, Argument

\* A step that touches x leaves the rest of the types to the store and the calls.
LEMMA TouchTypes ==
  ASSUME TreeTypeOK, NEW c \in Clients, NEW x \in Ids, NEW ok, Touches(c, x, ok),
         store' \in [Ids -> Entry \cup {Nothing}],
         agenda' \in [Clients -> Seq(Task)], draft' \in [Clients -> Draft \cup {Nothing}],
         frames' \in [Clients -> Seq(Frame)]
  PROVE  TreeTypeOK'
<1>1. clean' \in BOOLEAN /\ doomed' \in [Clients -> SUBSET Ids]
  BY DEF Touches, TreeTypeOK
<1>2. touched' \in [Clients -> SUBSET (Ids \cup {Root})]
  BY DEF Touches, TreeTypeOK
<1> QED BY <1>1, <1>2 DEF Touches, TreeTypeOK

\* And leaves the calls that are to come as they are, but those of c.
LEMMA TouchStays ==
  ASSUME StaysInv, NEW c \in Clients, NEW x, NEW ok, Touches(c, x, ok), Busy(c),
         \A d \in Clients \ {c}: /\ agenda'[d] = agenda[d] /\ draft'[d] = draft[d]
                                 /\ frames'[d] = frames[d],
         \A i \in DOMAIN agenda'[c]:
           /\ agenda'[c][i][1] \in {"move", "reparent"} => frames'[c] = <<>>
           /\ agenda'[c][i][1] = "drop" => i = Len(agenda'[c]) /\ frames'[c] # <<>>
           /\ agenda'[c][i][1] = "reparent" => mode = "local" /\ Exists(agenda[c][i][2])'
  PROVE  StaysInv'
<1>0. mode' = mode
  BY DEF Touches
<1>1. mode = "local" => \A a, d \in Clients: Busy(a)' /\ Busy(d)' => a = d
  <2>1. \A d \in Clients \ {c}: Busy(d)' => Busy(d)
    BY DEF Busy
  <2> QED BY <2>1 DEF StaysInv
<1>2. ASSUME NEW d \in Clients, NEW i \in DOMAIN agenda'[d]
      PROVE /\ agenda'[d][i][1] \in {"move", "reparent"} => frames'[d] = <<>>
            /\ agenda'[d][i][1] = "drop" => i = Len(agenda'[d]) /\ frames'[d] # <<>>
            /\ agenda'[d][i][1] = "reparent" => mode = "local" /\ Exists(agenda[d][i][2])'
  <2>1. CASE d # c
    <3>1. i \in DOMAIN agenda[d] /\ agenda'[d] = agenda[d] /\ frames'[d] = frames[d]
      BY <1>2, <2>1
    <3>2. agenda[d][i][1] # "reparent"
      <4>1. agenda[d] # <<>>
        BY <3>1
      <4> QED BY <2>1, <3>1, <4>1 DEF StaysInv, Busy
    <3> QED BY <3>1, <3>2 DEF StaysInv
  <2>2. CASE d = c
    BY <1>2, <2>2
  <2> QED BY <2>1, <2>2
<1> QED BY <1>0, <1>1, <1>2 DEF StaysInv

\* A call that only leaves the agenda shorter, or none.
LEMMA TailStays ==
  ASSUME TypeInv, NEW c \in Clients, \A y \in Ids: Exists(y) => Exists(y)',
         \/ agenda'[c] = agenda[c]
         \/ agenda[c] # <<>> /\ agenda'[c] = Later(c),
         frames'[c] = frames[c]
  PROVE  \A i \in DOMAIN agenda'[c]:
           /\ agenda'[c][i][1] \in {"move", "reparent"} => frames'[c] = <<>>
           /\ agenda'[c][i][1] = "drop" => i = Len(agenda'[c]) /\ frames'[c] # <<>>
           /\ agenda'[c][i][1] = "reparent" => mode = "local" /\ Exists(agenda[c][i][2])'
<1> SUFFICES ASSUME NEW i \in DOMAIN agenda'[c]
    PROVE  /\ agenda'[c][i][1] \in {"move", "reparent"} => frames'[c] = <<>>
           /\ agenda'[c][i][1] = "drop" => i = Len(agenda'[c]) /\ frames'[c] # <<>>
           /\ agenda'[c][i][1] = "reparent" => mode = "local" /\ Exists(agenda[c][i][2])'
  OBVIOUS
<1>1. PICK j \in DOMAIN agenda[c]:
        agenda'[c][i] = agenda[c][j] /\ (j = Len(agenda[c]) => i = Len(agenda'[c]))
  <2>1. CASE agenda'[c] = agenda[c]
    BY <2>1
  <2>2. CASE agenda[c] # <<>> /\ agenda'[c] = Later(c)
    <3>1. i + 1 \in DOMAIN agenda[c] /\ Later(c)[i] = agenda[c][i + 1]
      BY <2>2, AgendaTypes DEF TypeInv
    <3>2. Len(Later(c)) = Len(agenda[c]) - 1
      BY <2>2, AgendaTypes, HeadTailProperties DEF TypeInv, Later
    <3>3. i \in 1..Len(Later(c)) /\ Len(agenda[c]) \in Nat
      BY <2>2, AgendaTypes DEF TypeInv
    <3> QED BY <2>2, <3>1, <3>2, <3>3
  <2> QED BY <2>1, <2>2
<1>2. agenda[c][j][1] = "reparent" => Exists(agenda[c][j][2])
  BY DEF TypeInv, StaysInv
<1>3. agenda[c][j][1] = "reparent" => Exists(agenda[c][i][2])'
  BY <1>1, <1>2 DEF Exists
<1> QED BY <1>1, <1>3 DEF TypeInv, StaysInv

LEMMA StartTypes ==
  ASSUME TypeInv, NEW c \in Clients, NEW named \in SUBSET (Ids \cup {Root}), NEW todo \in Seq(Task),
         \A i \in DOMAIN todo: todo[i][1] \notin {"reparent", "drop"},
         NEW sound, NEW request \in (Ids \X BOOLEAN) \cup {Nothing}, NEW goal \in SUBSET Ids,
         Start(c, named, todo, sound, request, goal), born' \in SUBSET Ids,
         placed' \in SUBSET (Ids \X (Usable \cup {Root}))
  PROVE  TypeInv'
<1>1. clean' \in BOOLEAN /\ doomed' \in [Clients -> SUBSET Ids] /\ ops' \in 0..MaxOps
  BY FileTreeAssumption DEF Start, TypeInv, TreeTypeOK
<1>2. touched' \in [Clients -> SUBSET (Ids \cup {Root})]
  BY DEF Start, TypeInv, TreeTypeOK
<1>3. agenda' \in [Clients -> Seq(Task)] /\ asked' \in [Clients -> (Ids \X BOOLEAN) \cup {Nothing}]
  BY DEF Start, TypeInv, TreeTypeOK, Continue
<1>4. TreeTypeOK'
  BY <1>1, <1>2, <1>3 DEF Start, TypeInv, TreeTypeOK
<1>5. ASSUME NEW d \in Clients, NEW i \in DOMAIN agenda'[d]
      PROVE  /\ agenda'[d][i][1] \in {"move", "reparent"} => frames'[d] = <<>>
             /\ agenda'[d][i][1] = "drop" => i = Len(agenda'[d]) /\ frames'[d] # <<>>
             /\ agenda'[d][i][1] # "reparent"
  <2>1. agenda' = [agenda EXCEPT ![c] = todo] /\ frames' = frames
    BY DEF Start, Continue
  <2>2. CASE d = c
    BY <1>5, <2>1, <2>2 DEF TypeInv, TreeTypeOK, Start, Busy
  <2>3. CASE d # c
    <3>1. agenda'[d] = agenda[d] /\ Busy(d)
      BY <1>5, <2>1, <2>3, AgendaTypes DEF TypeInv, TreeTypeOK, Busy
    <3> QED BY <1>5, <2>1, <3>1 DEF TypeInv, StaysInv, Start
  <2> QED BY <2>2, <2>3
<1>6. mode' = "local" => \A a, d \in Clients: Busy(a)' /\ Busy(d)' => a = d
  BY DEF Start, Continue, Busy, TypeInv, TreeTypeOK
<1> QED BY <1>4, <1>5, <1>6 DEF TypeInv, StaysInv

LEMMA CallTypes ==
  ASSUME TypeInv, NEW c \in Clients, TreeCall(c)
  PROVE  TypeInv'
<1>1. ASSUME NEW x \in Ids, NEW p \in Usable \cup {Root}, NEW folder \in BOOLEAN,
             CreateFile(c, x, p, folder)
      PROVE  TypeInv'
  <2> DEFINE w == <<"write", x, NewEntry(p, folder)>>
             todo == <<w>> \o Unless(p = Root, <<"link", p, x>>)
  <2>0. NewEntry(p, folder) \in Entry
    <3>1. <<>> \in Seq(Ids \cup {Dict(y): y \in Ids})
      OBVIOUS
    <3> QED BY <3>1 DEF Entry, NewEntry
  <2>1. w \in Task /\ (p # Root => <<"link", p, x>> \in Task)
    BY <2>0 DEF Task
  <2>2. todo = IF p = Root THEN <<w>> ELSE <<w, <<"link", p, x>>>>
    BY Joined DEF Unless
  <2>3. todo \in Seq(Task) /\ \A i \in DOMAIN todo: todo[i][1] \notin {"reparent", "drop"}
    <3>1. w[1] \notin {"reparent", "drop"}
      OBVIOUS
    <3> HIDE DEF w, todo
    <3> QED BY <2>1, <2>2, <3>1
  <2>4. /\ {x, p} \in SUBSET (Ids \cup {Root}) /\ born' \in SUBSET Ids
        /\ placed' \in SUBSET (Ids \X (Usable \cup {Root}))
    BY <1>1 DEF CreateFile, Ids, TypeInv, TreeTypeOK
  <2>5. Start(c, {x, p}, todo, SoundParent(p), Nothing, {})
    BY <1>1 DEF CreateFile, NewEntry
  <2> HIDE DEF todo
  <2> QED BY <2>3, <2>4, <2>5, StartTypes
<1>2. ASSUME NEW x \in Usable, NEW t \in {"update", "list"},
             Start(c, {x}, <<<<t, x, Nothing>>>>, TRUE, Nothing, {}),
             UNCHANGED <<born, placed>>
      PROVE  TypeInv'
  <2>1. <<t, x, Nothing>> \in Task
    BY DEF Task
  <2> DEFINE todo == <<<<t, x, Nothing>>>>
  <2>2. todo \in Seq(Task) /\ \A i \in DOMAIN todo: todo[i][1] \notin {"reparent", "drop"}
    BY <2>1
  <2>3. /\ {x} \in SUBSET (Ids \cup {Root}) /\ born' \in SUBSET Ids /\ {} \in SUBSET Ids
        /\ Nothing \in (Ids \X BOOLEAN) \cup {Nothing}
        /\ placed' \in SUBSET (Ids \X (Usable \cup {Root}))
    BY <1>2 DEF Ids, TypeInv, TreeTypeOK
  <2>4. Start(c, {x}, todo, TRUE, Nothing, {})
    BY <1>2
  <2> HIDE DEF todo
  <2> QED BY <2>2, <2>3, <2>4, StartTypes
<1>3. ASSUME NEW x \in Usable, NEW r \in BOOLEAN, DeleteFile(c, x, r) PROVE TypeInv'
  <2> DEFINE todo == <<<<"delete", x, r>>>>
             goal == IF r /\ Exists(x) THEN Subtree(x) ELSE {}
  <2>1. <<"delete", x, r>> \in Task /\ <<x, r>> \in Ids \X BOOLEAN
    BY DEF Task, Ids
  <2>2. todo \in Seq(Task) /\ \A i \in DOMAIN todo: todo[i][1] \notin {"reparent", "drop"}
    BY <2>1
  <2>3. /\ {x} \in SUBSET (Ids \cup {Root}) /\ born' \in SUBSET Ids /\ goal \in SUBSET Ids
        /\ placed' \in SUBSET (Ids \X (Usable \cup {Root}))
    BY <1>3 DEF DeleteFile, Ids, TypeInv, TreeTypeOK, Subtree
  <2>4. Start(c, {x}, todo, TRUE, <<x, r>>, goal)
    BY <1>3 DEF DeleteFile
  <2> HIDE DEF todo, goal
  <2> QED BY <2>1, <2>2, <2>3, <2>4, StartTypes
<1>4. ASSUME NEW x \in Usable, NEW p \in Usable \cup {Root}, MoveFile(c, x, p) PROVE TypeInv'
  <2> DEFINE todo == <<<<"move", x, p>>>>
             sound == SoundParent(p) /\ p \notin Subtree(x)
  <2>1. <<"move", x, p>> \in Task
    BY DEF Task
  <2>2. todo \in Seq(Task) /\ \A i \in DOMAIN todo: todo[i][1] \notin {"reparent", "drop"}
    BY <2>1
  <2>3. /\ {x, p} \in SUBSET (Ids \cup {Root}) /\ born' \in SUBSET Ids
        /\ placed' \in SUBSET (Ids \X (Usable \cup {Root}))
    BY <1>4 DEF MoveFile, Ids, TypeInv, TreeTypeOK
  <2>4. Start(c, {x, p}, todo, sound, Nothing, {})
    BY <1>4 DEF MoveFile
  <2> HIDE DEF todo, sound
  <2> QED BY <2>2, <2>3, <2>4, StartTypes
<1> QED BY <1>1, <1>2, <1>3, <1>4 DEF TreeCall, UpdateFile, ListFolder

\* What every step of c is like that touches x.
Shape(c, x, ok) ==
  /\ x \in Ids /\ Busy(c) /\ Touches(c, x, ok)
  /\ \A d \in Clients \ {c}: agenda'[d] = agenda[d] /\ draft'[d] = draft[d] /\ frames'[d] = frames[d]
  /\ \A y \in Ids: y # x => store'[y] = store[y]
  /\ draft[c] # Nothing => draft[c].file = x
  /\ draft'[c] # Nothing => draft'[c].file = x
  /\ store' \in [Ids -> Entry \cup {Nothing}] /\ agenda' \in [Clients -> Seq(Task)]
  /\ draft' \in [Clients -> Draft \cup {Nothing}] /\ frames' \in [Clients -> Seq(Frame)]

LEMMA ShapeTypes ==
  ASSUME TypeInv, NEW c \in Clients, NEW x, NEW ok, Shape(c, x, ok),
         \A i \in DOMAIN agenda'[c]:
           /\ agenda'[c][i][1] \in {"move", "reparent"} => frames'[c] = <<>>
           /\ agenda'[c][i][1] = "drop" => i = Len(agenda'[c]) /\ frames'[c] # <<>>
           /\ agenda'[c][i][1] = "reparent" => mode = "local" /\ Exists(agenda[c][i][2])'
  PROVE  TypeInv'
<1>1. TreeTypeOK'
  BY TouchTypes DEF TypeInv, Shape
<1>2. StaysInv'
  BY TouchStays DEF TypeInv, Shape
<1> QED BY <1>1, <1>2 DEF TypeInv

\* A variable of which only what is c's changes.
LEMMA Becomes ==
  ASSUME NEW S, NEW v \in [Clients -> S], NEW c \in Clients, NEW e \in S, NEW w, w = [v EXCEPT ![c] = e]
  PROVE  w \in [Clients -> S] /\ w[c] = e /\ \A d \in Clients \ {c}: w[d] = v[d]
OBVIOUS

LEMMA AgendaBecomes ==
  ASSUME TreeTypeOK, NEW c \in Clients, NEW todo \in Seq(Task), Continue(c, todo)
  PROVE  /\ agenda' \in [Clients -> Seq(Task)] /\ agenda'[c] = todo
         /\ \A d \in Clients \ {c}: agenda'[d] = agenda[d]
BY DEF TreeTypeOK, Continue

-----------------------------------------------------------------------------
(* The shape of each step. *)

LEMMA WriteShape ==
  ASSUME TypeInv, NEW c \in Clients, DoWrite(c)
  PROVE  /\ \E ok \in BOOLEAN: Shape(c, Subject(c), ok)
         /\ agenda'[c] = Later(c) /\ draft'[c] = Nothing /\ frames'[c] = frames[c]
         /\ Argument(c) \in Entry /\ \A y \in Ids: Exists(y) => Exists(y)'
<1>1. /\ TreeTypeOK /\ Subject(c) \in Ids /\ Argument(c) \in Entry /\ Later(c) \in Seq(Task)
      /\ draft[c] = Nothing /\ Busy(c)
  BY NamedTypes, AgendaTypes DEF TypeInv, DoWrite, Now, Busy
<1>2. /\ agenda' \in [Clients -> Seq(Task)] /\ draft' \in [Clients -> Draft \cup {Nothing}]
      /\ frames' \in [Clients -> Seq(Frame)]
      /\ agenda'[c] = Later(c) /\ draft'[c] = Nothing /\ frames'[c] = frames[c]
      /\ \A d \in Clients \ {c}: agenda'[d] = agenda[d] /\ draft'[d] = draft[d] /\ frames'[d] = frames[d]
  BY <1>1, AgendaBecomes DEF DoWrite, TreeTypeOK
<1>3. /\ store' \in [Ids -> Entry \cup {Nothing}]
      /\ \A y \in Ids: y # Subject(c) => store'[y] = store[y]
      /\ store'[Subject(c)] \in {Argument(c), store[Subject(c)]}
  BY <1>1 DEF DoWrite, CallSet, TreeTypeOK
<1>6. \A y \in Ids: Exists(y) => Exists(y)'
  BY <1>1, <1>3, FileTreeAssumption DEF Exists
<1>4. PICK ok \in BOOLEAN: Touches(c, Subject(c), ok)
  BY DEF DoWrite, CallSet
<1>5. Shape(c, Subject(c), ok)
  BY <1>1, <1>2, <1>3, <1>4 DEF Shape
<1> QED BY <1>1, <1>2, <1>5, <1>6

LEMMA SaveShape ==
  ASSUME TypeInv, NEW c \in Clients, DoSave(c)
  PROVE  /\ \E ok \in BOOLEAN: Shape(c, draft[c].file, ok)
         /\ agenda' = agenda /\ draft'[c] = Nothing /\ frames' = frames
         /\ draft[c] \in Draft /\ \A y \in Ids: Exists(y) => Exists(y)'
<1>1. TreeTypeOK /\ draft[c] \in Draft /\ Busy(c) /\ Nothing \in Draft \cup {Nothing}
  BY DEF TypeInv, TreeTypeOK, DoSave, Busy
<1>2. draft[c].file \in Ids /\ draft[c].entry \in Entry
  BY <1>1 DEF Draft
<1>3. /\ draft' \in [Clients -> Draft \cup {Nothing}] /\ draft'[c] = Nothing
      /\ \A d \in Clients \ {c}: draft'[d] = draft[d]
  BY <1>1 DEF DoSave, TreeTypeOK
<1>4. /\ store' \in [Ids -> Entry \cup {Nothing}]
      /\ \A y \in Ids: y # draft[c].file => store'[y] = store[y]
      /\ store'[draft[c].file] \in {draft[c].entry, store[draft[c].file]}
  BY <1>1, <1>2 DEF DoSave, CallSet, TreeTypeOK
<1>7. \A y \in Ids: Exists(y) => Exists(y)'
  BY <1>2, <1>4, FileTreeAssumption DEF Exists
<1>5. PICK ok \in BOOLEAN: Touches(c, draft[c].file, ok)
  BY DEF DoSave, CallSet
<1>6. Shape(c, draft[c].file, ok)
  BY <1>1, <1>2, <1>3, <1>4, <1>5 DEF Shape, DoSave, TreeTypeOK
<1> QED BY <1>1, <1>3, <1>6, <1>7 DEF DoSave

LEMMA DropShape ==
  ASSUME TypeInv, NEW c \in Clients, DoDrop(c), frames[c] # <<>>
  PROVE  /\ \E ok \in BOOLEAN: Shape(c, Subject(c), ok)
         /\ agenda'[c] = Later(c) /\ draft'[c] = Nothing /\ frames'[c] = Tail(frames[c])
<1>1. /\ TreeTypeOK /\ Subject(c) \in Ids /\ Later(c) \in Seq(Task)
      /\ draft[c] = Nothing /\ Busy(c) /\ Tail(frames[c]) \in Seq(Frame)
  BY NamedTypes, AgendaTypes, FrameOf DEF TypeInv, DoDrop, Now, Busy, Ids
<1>2. /\ agenda' \in [Clients -> Seq(Task)] /\ draft' \in [Clients -> Draft \cup {Nothing}]
      /\ frames' \in [Clients -> Seq(Frame)]
      /\ agenda'[c] = Later(c) /\ draft'[c] = Nothing /\ frames'[c] = Tail(frames[c])
      /\ \A d \in Clients \ {c}: agenda'[d] = agenda[d] /\ draft'[d] = draft[d] /\ frames'[d] = frames[d]
  <2>1. /\ agenda' \in [Clients -> Seq(Task)] /\ agenda'[c] = Later(c)
        /\ \A d \in Clients \ {c}: agenda'[d] = agenda[d]
    BY <1>1, AgendaBecomes DEF DoDrop, Return
  <2>2. /\ frames' \in [Clients -> Seq(Frame)] /\ frames'[c] = Tail(frames[c])
        /\ \A d \in Clients \ {c}: frames'[d] = frames[d]
    BY <1>1 DEF DoDrop, Return, TreeTypeOK
  <2> QED BY <1>1, <2>1, <2>2 DEF DoDrop, TreeTypeOK
<1>3. /\ store' \in [Ids -> Entry \cup {Nothing}]
      /\ \A y \in Ids: y # Subject(c) => store'[y] = store[y]
  BY <1>1 DEF DoDrop, CallSet, TreeTypeOK
<1>4. PICK ok \in BOOLEAN: Touches(c, Subject(c), ok)
  BY DEF DoDrop, CallSet
<1>5. Shape(c, Subject(c), ok)
  BY <1>1, <1>2, <1>3, <1>4 DEF Shape
<1> QED BY <1>1, <1>2, <1>5

\* What a list may hold by its type.
Held == Ids \cup {Dict(x): x \in Ids}

LEMMA ChangedShape ==
  ASSUME TreeTypeOK, NEW c \in Clients, NEW e, draft[c] = Nothing,
         Subject(c) \in Usable, Exists(Subject(c)), e = store[Subject(c)],
         NEW objects \in Seq(Held), Changed(c, e, objects)
  PROVE  /\ store' \in [Ids -> Entry \cup {Nothing}] /\ draft' \in [Clients -> Draft \cup {Nothing}]
         /\ \A y \in Ids: y # Subject(c) => store'[y] = store[y]
         /\ draft'[c] # Nothing => draft'[c].file = Subject(c)
         /\ \A d \in Clients \ {c}: draft'[d] = draft[d]
         /\ \A y \in Ids: Exists(y) => Exists(y)'
<1>1. Subject(c) \in Ids /\ e \in Entry
  BY DEF TreeTypeOK, Exists
<1>2. [e EXCEPT !.objects = objects] \in Entry
  BY <1>1 DEF Entry, Held
<1>3. CASE mode = "local"
  <2>1. store' = [store EXCEPT ![Subject(c)] = [e EXCEPT !.objects = objects]] /\ draft' = draft
    BY <1>3 DEF Changed
  <2> QED BY <1>1, <1>2, <2>1, FileTreeAssumption DEF TreeTypeOK, Exists
<1>4. CASE mode # "local"
  <2> DEFINE new == [file |-> Subject(c), entry |-> [e EXCEPT !.objects = objects]]
  <2>1. store' = store /\ draft' = [draft EXCEPT ![c] = new]
    BY <1>4 DEF Changed
  <2>2. new \in Draft /\ new.file = Subject(c)
    BY <1>1, <1>2 DEF Draft
  <2> HIDE DEF new
  <2> QED BY <1>1, <2>1, <2>2 DEF TreeTypeOK, Exists
<1> QED BY <1>3, <1>4

LEMMA LinkShape ==
  ASSUME TypeInv, NEW c \in Clients, DoLink(c)
  PROVE  /\ \E ok \in BOOLEAN: Shape(c, Subject(c), ok)
         /\ agenda'[c] = Later(c) /\ frames' = frames
         /\ \A y \in Ids: Exists(y) => Exists(y)'
<1>1. /\ TreeTypeOK /\ Subject(c) \in Usable /\ Argument(c) \in Ids /\ Later(c) \in Seq(Task)
      /\ draft[c] = Nothing /\ Busy(c) /\ Subject(c) \in Ids
  BY NamedTypes, AgendaTypes DEF TypeInv, DoLink, Now, Busy, Ids
<1>2. PICK e \in Gets(Subject(c)):
        /\ Read(c, Subject(c), e)
        /\ IF e # Nothing /\ e.folder /\ Argument(c) \notin Elements(e)
           THEN Changed(c, e, Append(e.objects, Argument(c)))
           ELSE UNCHANGED <<store, draft>>
  BY DEF DoLink
<1>3. /\ store' \in [Ids -> Entry \cup {Nothing}] /\ draft' \in [Clients -> Draft \cup {Nothing}]
      /\ \A y \in Ids: y # Subject(c) => store'[y] = store[y]
      /\ draft'[c] # Nothing => draft'[c].file = Subject(c)
      /\ \A d \in Clients \ {c}: draft'[d] = draft[d]
      /\ \A y \in Ids: Exists(y) => Exists(y)'
  <2>1. CASE UNCHANGED <<store, draft>>
    BY <1>1, <2>1 DEF TreeTypeOK, Exists
  <2>2. CASE e # Nothing /\ Changed(c, e, Append(e.objects, Argument(c)))
    <3>1. Exists(Subject(c)) /\ e = store[Subject(c)] /\ e \in Entry
      BY <1>1, <2>2 DEF Gets, Exists, TreeTypeOK
    <3>2. Append(e.objects, Argument(c)) \in Seq(Held)
      BY <1>1, <3>1, AppendProperties DEF Entry, Held
    <3> QED BY <1>1, <2>2, <3>1, <3>2, ChangedShape
  <2> QED BY <1>2, <2>1, <2>2
<1>4. /\ agenda' \in [Clients -> Seq(Task)] /\ agenda'[c] = Later(c)
      /\ \A d \in Clients \ {c}: agenda'[d] = agenda[d]
  BY <1>1, AgendaBecomes DEF DoLink
<1>5. \E ok \in BOOLEAN: Touches(c, Subject(c), ok)
  BY <1>2 DEF Read
<1> QED BY <1>1, <1>3, <1>4, <1>5 DEF Shape, DoLink, TreeTypeOK

LEMMA UnlinkShape ==
  ASSUME TypeInv, NEW c \in Clients, DoUnlink(c)
  PROVE  /\ \E ok \in BOOLEAN: Shape(c, Subject(c), ok)
         /\ agenda'[c] = Later(c) /\ frames' = frames
         /\ \A y \in Ids: Exists(y) => Exists(y)'
<1>1. /\ TreeTypeOK /\ Subject(c) \in Usable /\ Argument(c) \in Ids /\ Later(c) \in Seq(Task)
      /\ draft[c] = Nothing /\ Busy(c) /\ Subject(c) \in Ids
  BY NamedTypes, AgendaTypes DEF TypeInv, DoUnlink, Now, Busy, Ids
<1>2. PICK e \in Gets(Subject(c)):
        /\ Read(c, Subject(c), e)
        /\ IF e # Nothing /\ e.folder /\ Argument(c) \in Elements(e)
           THEN \E k \in DOMAIN e.objects: Changed(c, e, RemoveAt(e.objects, k))
           ELSE UNCHANGED <<store, draft>>
  BY DEF DoUnlink
<1>3. /\ store' \in [Ids -> Entry \cup {Nothing}] /\ draft' \in [Clients -> Draft \cup {Nothing}]
      /\ \A y \in Ids: y # Subject(c) => store'[y] = store[y]
      /\ draft'[c] # Nothing => draft'[c].file = Subject(c)
      /\ \A d \in Clients \ {c}: draft'[d] = draft[d]
      /\ \A y \in Ids: Exists(y) => Exists(y)'
  <2>1. CASE UNCHANGED <<store, draft>>
    BY <1>1, <2>1 DEF TreeTypeOK, Exists
  <2>2. ASSUME e # Nothing, NEW k \in DOMAIN e.objects, Changed(c, e, RemoveAt(e.objects, k))
        PROVE  /\ store' \in [Ids -> Entry \cup {Nothing}] /\ draft' \in [Clients -> Draft \cup {Nothing}]
               /\ \A y \in Ids: y # Subject(c) => store'[y] = store[y]
               /\ draft'[c] # Nothing => draft'[c].file = Subject(c)
               /\ \A d \in Clients \ {c}: draft'[d] = draft[d]
               /\ \A y \in Ids: Exists(y) => Exists(y)'
    <3>1. Exists(Subject(c)) /\ e = store[Subject(c)] /\ e \in Entry
      BY <1>1, <2>2 DEF Gets, Exists, TreeTypeOK
    <3>2. RemoveAt(e.objects, k) \in Seq(Held)
      BY <3>1, Removed DEF Entry, Held
    <3> QED BY <1>1, <2>2, <3>1, <3>2, ChangedShape
  <2> QED BY <1>2, <2>1, <2>2
<1>4. /\ agenda' \in [Clients -> Seq(Task)] /\ agenda'[c] = Later(c)
      /\ \A d \in Clients \ {c}: agenda'[d] = agenda[d]
  BY <1>1, AgendaBecomes DEF DoUnlink
<1>5. \E ok \in BOOLEAN: Touches(c, Subject(c), ok)
  BY <1>2 DEF Read
<1> QED BY <1>1, <1>3, <1>4, <1>5 DEF Shape, DoUnlink, TreeTypeOK

LEMMA UpdateShape ==
  ASSUME TypeInv, NEW c \in Clients, DoUpdate(c)
  PROVE  /\ \E ok \in BOOLEAN: Shape(c, Subject(c), ok)
         /\ agenda'[c] = Later(c) /\ frames' = frames
<1>1. /\ TreeTypeOK /\ Subject(c) \in Usable /\ Later(c) \in Seq(Task)
      /\ draft[c] = Nothing /\ Busy(c) /\ Subject(c) \in Ids
  BY NamedTypes, AgendaTypes DEF TypeInv, DoUpdate, Now, Busy, Ids
<1>2. PICK e \in Gets(Subject(c)):
        /\ Read(c, Subject(c), e)
        /\ IF e = Nothing \/ mode = "local" THEN UNCHANGED draft
           ELSE draft' = [draft EXCEPT ![c] = [file |-> Subject(c), entry |-> e]]
  BY DEF DoUpdate
<1>3. /\ draft' \in [Clients -> Draft \cup {Nothing}]
      /\ draft'[c] # Nothing => draft'[c].file = Subject(c)
      /\ \A d \in Clients \ {c}: draft'[d] = draft[d]
  <2> DEFINE new == [file |-> Subject(c), entry |-> e]
  <2>1. CASE UNCHANGED draft
    BY <1>1, <2>1 DEF TreeTypeOK
  <2>2. CASE e # Nothing /\ draft' = [draft EXCEPT ![c] = new]
    <3>1. e \in Entry
      BY <1>1, <2>2 DEF Gets, Exists, TreeTypeOK
    <3>2. new \in Draft /\ new.file = Subject(c)
      BY <1>1, <3>1 DEF Draft
    <3> HIDE DEF new
    <3> QED BY <1>1, <2>2, <3>2 DEF TreeTypeOK
  <2> QED BY <1>2, <2>1, <2>2
<1>4. /\ agenda' \in [Clients -> Seq(Task)] /\ agenda'[c] = Later(c)
      /\ \A d \in Clients \ {c}: agenda'[d] = agenda[d]
  BY <1>1, AgendaBecomes DEF DoUpdate
<1>5. \E ok \in BOOLEAN: Touches(c, Subject(c), ok)
  BY <1>2 DEF Read
<1> QED BY <1>1, <1>3, <1>4, <1>5 DEF Shape, DoUpdate, TreeTypeOK

LEMMA ReparentShape ==
  ASSUME TypeInv, NEW c \in Clients, DoReparent(c)
  PROVE  /\ \E ok \in BOOLEAN: Shape(c, Subject(c), ok)
         /\ agenda'[c] = Later(c) /\ frames' = frames /\ draft' = draft
         /\ Exists(Subject(c)) /\ store'[Subject(c)] # Nothing
<1>1. /\ TreeTypeOK /\ Subject(c) \in Usable /\ Later(c) \in Seq(Task)
      /\ draft[c] = Nothing /\ Busy(c) /\ Subject(c) \in Ids /\ Argument(c) \in Usable \cup {Root}
  BY NamedTypes, AgendaTypes DEF TypeInv, DoReparent, Now, Busy, Ids
<1>2. Exists(Subject(c)) /\ store[Subject(c)] \in Entry
  <2>1. 1 \in DOMAIN agenda[c] /\ agenda[c][1][1] = "reparent" /\ Subject(c) = agenda[c][1][2]
    BY AgendaTypes DEF TypeInv, DoReparent, Now, Subject
  <2> QED BY <1>1, <2>1 DEF TypeInv, StaysInv, Exists, TreeTypeOK
<1>3. [store[Subject(c)] EXCEPT !.parent = Argument(c)] \in Entry
  BY <1>1, <1>2 DEF Entry
<1>4. /\ store' \in [Ids -> Entry \cup {Nothing}]
      /\ \A y \in Ids: y # Subject(c) => store'[y] = store[y]
      /\ store'[Subject(c)] \in Entry
  BY <1>1, <1>3 DEF TreeTypeOK, DoReparent
<1>5. store'[Subject(c)] # Nothing
  BY <1>4, FileTreeAssumption
<1>6. /\ agenda' \in [Clients -> Seq(Task)] /\ agenda'[c] = Later(c)
      /\ \A d \in Clients \ {c}: agenda'[d] = agenda[d]
  BY <1>1, AgendaBecomes DEF DoReparent
<1>7. Touches(c, Subject(c), TRUE)
  BY DEF DoReparent
<1>8. Shape(c, Subject(c), TRUE)
  BY <1>1, <1>4, <1>6, <1>7 DEF Shape, DoReparent, TreeTypeOK
<1> QED BY <1>2, <1>5, <1>6, <1>8 DEF DoReparent

LEMMA MoveShape ==
  ASSUME TypeInv, NEW c \in Clients, DoMove(c)
  PROVE  /\ \E ok \in BOOLEAN: Shape(c, Subject(c), ok)
         /\ store' = store /\ frames' = frames /\ draft' = draft /\ frames[c] = <<>>
         /\ \A i \in DOMAIN agenda'[c]:
              /\ agenda'[c][i][1] # "drop"
              /\ agenda'[c][i][1] = "reparent" =>
                   mode = "local" /\ agenda'[c][i][2] = Subject(c) /\ Exists(Subject(c))
<1> DEFINE x == Subject(c)
           p == Argument(c)
<1>1. /\ TreeTypeOK /\ x \in Usable /\ p \in Usable \cup {Root}
      /\ draft[c] = Nothing /\ Busy(c) /\ x \in Ids
  BY NamedTypes DEF TypeInv, DoMove, Now, Busy, Ids
<1>2. PICK e \in Gets(x):
        /\ Read(c, x, e)
        /\ Continue(c, IF e = Nothing THEN <<>>
             ELSE Unless(e.parent = Root, <<"unlink", e.parent, x>>)
                  \o Unless(p = Root, <<"link", p, x>>)
                  \o << IF mode = "local" THEN <<"reparent", x, p>>
                        ELSE <<"write", x, [e EXCEPT !.parent = p]>> >>)
  BY DEF DoMove
<1>3. frames[c] = <<>>
  BY AgendaTypes DEF TypeInv, StaysInv, DoMove, Now
<1> DEFINE u == <<"unlink", e.parent, x>>
           l == <<"link", p, x>>
           w == IF mode = "local" THEN <<"reparent", x, p>>
                ELSE <<"write", x, [e EXCEPT !.parent = p]>>
           todo == IF e = Nothing THEN <<>> ELSE Unless(e.parent = Root, u) \o Unless(p = Root, l) \o <<w>>
<1>4. e # Nothing => Exists(x) /\ e = store[x] /\ e \in Entry
  BY <1>1 DEF Gets, Exists, TreeTypeOK
<1>5. e # Nothing => /\ e.parent # Root => u \in Task
                     /\ p # Root => l \in Task
                     /\ w \in Task
  <2> SUFFICES ASSUME e # Nothing PROVE /\ e.parent # Root => u \in Task
                                        /\ p # Root => l \in Task
                                        /\ w \in Task
    OBVIOUS
  <2>1. e.parent \in Usable \cup {Root} /\ [e EXCEPT !.parent = p] \in Entry
    BY <1>1, <1>4 DEF Entry
  <2> QED BY <1>1, <2>1 DEF Task
<1>6. /\ u[1] = "unlink" /\ l[1] = "link" /\ w[1] \in {"reparent", "write"}
      /\ w[1] = "reparent" => mode = "local" /\ w[2] = x
  OBVIOUS
<1>7. /\ todo \in Seq(Task)
      /\ \A i \in DOMAIN todo: todo[i] \in {u, l, w} /\ e # Nothing
  <2>1. CASE e = Nothing
    BY <2>1
  <2>2. CASE e # Nothing
    <3> HIDE DEF u, l, w
    <3>1. todo = IF e.parent = Root THEN IF p = Root THEN <<w>> ELSE <<l, w>>
                 ELSE IF p = Root THEN <<u, w>> ELSE <<u, l, w>>
      BY <2>2, Joined DEF Unless
    <3> HIDE DEF todo
    <3>2. CASE e.parent = Root /\ p = Root
      BY <1>5, <2>2, <3>1, <3>2
    <3>3. CASE e.parent = Root /\ p # Root
      BY <1>5, <2>2, <3>1, <3>3
    <3>4. CASE e.parent # Root /\ p = Root
      BY <1>5, <2>2, <3>1, <3>4
    <3>5. CASE e.parent # Root /\ p # Root
      BY <1>5, <2>2, <3>1, <3>5
    <3> QED BY <3>2, <3>3, <3>4, <3>5
  <2> QED BY <2>1, <2>2
<1>8. Continue(c, todo)
  BY <1>2
<1> HIDE DEF todo, u, l, w
<1>9. /\ agenda' \in [Clients -> Seq(Task)] /\ agenda'[c] = todo
      /\ \A d \in Clients \ {c}: agenda'[d] = agenda[d]
  BY <1>1, <1>7, <1>8, AgendaBecomes
<1>10. \E ok \in BOOLEAN: Touches(c, x, ok)
  BY <1>2 DEF Read
<1>11. \E ok \in BOOLEAN: Shape(c, x, ok)
  BY <1>1, <1>9, <1>10 DEF Shape, DoMove, TreeTypeOK
<1>12. \A i \in DOMAIN agenda'[c]:
         /\ agenda'[c][i][1] # "drop"
         /\ agenda'[c][i][1] = "reparent" => mode = "local" /\ agenda'[c][i][2] = x /\ Exists(x)
  BY <1>4, <1>6, <1>7, <1>9
<1> QED BY <1>3, <1>11, <1>12 DEF DoMove

LEMMA DeleteShape ==
  ASSUME TypeInv, NEW c \in Clients, DoDelete(c)
  PROVE  /\ \E ok \in BOOLEAN: Shape(c, Subject(c), ok)
         /\ store' = store /\ draft' = draft /\ agenda'[c] = <<>>
<1> DEFINE x == Subject(c)
           recursive == Argument(c)
<1>1. /\ TreeTypeOK /\ x \in Ids /\ recursive \in BOOLEAN /\ draft[c] = Nothing /\ Busy(c)
  BY NamedTypes DEF TypeInv, DoDelete, Now, Busy
<1>2. PICK e \in Gets(x):
       IF e = Nothing
       THEN Read(c, x, e) /\ Continue(c, <<>>) /\ UNCHANGED frames
       ELSE IF Len(frames[c]) >= MaxDepth
       THEN Touches(c, x, FALSE) /\ Continue(c, <<>>) /\ frames' = [frames EXCEPT ![c] = <<>>]
       ELSE /\ Read(c, x, e) /\ Continue(c, <<>>)
            /\ frames' = [frames EXCEPT ![c] =
                 <<[file |-> x, parent |-> e.parent, loop |-> e.folder /\ recursive,
                    list |-> e.objects, turn |-> 1]>> \o @]
  BY DEF DoDelete
<1> DEFINE new == [file |-> x, parent |-> e.parent, loop |-> e.folder /\ recursive,
                   list |-> e.objects, turn |-> 1]
<1>3. frames' \in [Clients -> Seq(Frame)] /\ \A d \in Clients \ {c}: frames'[d] = frames[d]
  <2>1. <<>> \in Seq(Frame) /\ frames[c] \in Seq(Frame)
    BY <1>1 DEF TreeTypeOK
  <2>2. e # Nothing => new \in Frame
    <3>1. e # Nothing => x \in Usable /\ e \in Entry
      BY <1>1 DEF Gets, Exists, TreeTypeOK
    <3> QED BY <1>1, <3>1 DEF Frame, Entry
  <2> HIDE DEF new
  <2>3. e # Nothing => <<new>> \o frames[c] \in Seq(Frame)
    BY <2>1, <2>2, ConcatProperties
  <2>4. CASE frames' = frames
    BY <1>1, <2>4 DEF TreeTypeOK
  <2>5. CASE frames' = [frames EXCEPT ![c] = <<>>]
    BY <1>1, <2>1, <2>5 DEF TreeTypeOK
  <2>6. CASE e # Nothing /\ frames' = [frames EXCEPT ![c] = <<new>> \o @]
    BY <1>1, <2>3, <2>6 DEF TreeTypeOK
  <2> QED BY <1>2, <2>4, <2>5, <2>6 DEF new
<1>4. Continue(c, <<>>) /\ <<>> \in Seq(Task) /\ \E ok \in BOOLEAN: Touches(c, x, ok)
  <2>1. Continue(c, <<>>) /\ \E ok \in BOOLEAN: Touches(c, x, ok)
    BY <1>2 DEF Read
  <2> QED BY <2>1
<1>5. /\ agenda' \in [Clients -> Seq(Task)] /\ agenda'[c] = <<>>
      /\ \A d \in Clients \ {c}: agenda'[d] = agenda[d]
  BY <1>1, <1>4, AgendaBecomes
<1> QED BY <1>1, <1>3, <1>4, <1>5 DEF Shape, DoDelete, TreeTypeOK

LEMMA TurnShape ==
  ASSUME TypeInv, NEW c \in Clients, DoTurn(c)
  PROVE  /\ \E ok \in BOOLEAN: Shape(c, Head(frames[c]).file, ok)
         /\ store' = store /\ draft' = draft /\ frames[c] # <<>>
         /\ \A i \in DOMAIN agenda'[c]:
              /\ agenda'[c][i][1] \notin {"move", "reparent"}
              /\ agenda'[c][i][1] = "drop" => i = Len(agenda'[c]) /\ frames'[c] # <<>>
<1> DEFINE frame == Head(frames[c])
           f == frame.file
           list == IF ~frame.loop \/ (mode = "local" /\ ~Exists(f)) THEN <<>>
                   ELSE IF mode = "local" THEN store[f].objects ELSE frame.list
           child == list[frame.turn]
           u == <<"unlink", frame.parent, f>>
           w == <<"drop", f, Nothing>>
           own == Unless(frame.parent = Root, u) \o <<w>>
           next == [frame EXCEPT !.turn = @ + 1]
<1>1. /\ TreeTypeOK /\ agenda[c] = <<>> /\ draft[c] = Nothing /\ frames[c] # <<>> /\ Busy(c)
      /\ Touches(c, f, TRUE) /\ store' = store /\ draft' = draft
  BY DEF TypeInv, DoTurn, Turn, Busy
<1>2. /\ frame \in Frame /\ f \in Usable /\ frame.parent \in Usable \cup {Root} /\ next \in Frame
      /\ Tail(frames[c]) \in Seq(Frame)
  <2>1. frame \in Frame /\ Tail(frames[c]) \in Seq(Frame)
    BY <1>1, FrameOf
  <2> HIDE DEF frame
  <2> QED BY <2>1 DEF Frame
<1>3. /\ own \in Seq(Task)
      /\ \A i \in DOMAIN own: /\ own[i][1] \notin {"move", "reparent"}
                              /\ own[i][1] = "drop" => i = Len(own)
  <2>1. w \in Task /\ (frame.parent # Root => u \in Task)
    BY <1>2 DEF Task, Ids
  <2>2. u[1] = "unlink" /\ w[1] = "drop"
    OBVIOUS
  <2> HIDE DEF u, w, frame
  <2>3. own = IF frame.parent = Root THEN <<w>> ELSE <<u, w>>
    BY Joined DEF Unless
  <2> HIDE DEF own
  <2>4. CASE frame.parent = Root
    BY <2>1, <2>2, <2>3, <2>4
  <2>5. CASE frame.parent # Root
    BY <2>1, <2>2, <2>3, <2>5
  <2> QED BY <2>4, <2>5
<1>4. \/ Continue(c, own) /\ frames' = frames
      \/ Continue(c, <<>>) /\ frames' = [frames EXCEPT ![c] = <<>>]
      \/ /\ child \in Ids /\ Continue(c, <<<<"delete", child, TRUE>>>>)
         /\ frames' = [frames EXCEPT ![c] = <<next>> \o Tail(@)]
  BY DEF DoTurn, Turn
<1> HIDE DEF own, child, next, f, frame
<1>5. CASE Continue(c, own) /\ frames' = frames
  <2>1. /\ agenda' \in [Clients -> Seq(Task)] /\ agenda'[c] = own
        /\ \A d \in Clients \ {c}: agenda'[d] = agenda[d]
    BY <1>1, <1>3, <1>5, AgendaBecomes
  <2>2. Shape(c, f, TRUE)
    BY <1>1, <1>2, <1>5, <2>1 DEF Shape, TreeTypeOK, Ids
  <2> QED BY <1>1, <1>3, <1>5, <2>1, <2>2 DEF f, frame
<1>6. CASE Continue(c, <<>>) /\ frames' = [frames EXCEPT ![c] = <<>>]
  <2>0. <<>> \in Seq(Task) /\ <<>> \in Seq(Frame)
    OBVIOUS
  <2>1. /\ agenda' \in [Clients -> Seq(Task)] /\ agenda'[c] = <<>>
        /\ \A d \in Clients \ {c}: agenda'[d] = agenda[d]
    BY <1>1, <1>6, <2>0, AgendaBecomes
  <2>4. DOMAIN agenda'[c] = {}
    BY <2>1
  <2>2. frames' \in [Clients -> Seq(Frame)] /\ \A d \in Clients \ {c}: frames'[d] = frames[d]
    BY <1>1, <1>6, <2>0 DEF TreeTypeOK
  <2>3. Shape(c, f, TRUE)
    BY <1>1, <1>2, <2>1, <2>2 DEF Shape, TreeTypeOK, Ids
  <2> QED BY <1>1, <2>4, <2>3 DEF f, frame
<1>7. CASE /\ child \in Ids /\ Continue(c, <<<<"delete", child, TRUE>>>>)
           /\ frames' = [frames EXCEPT ![c] = <<next>> \o Tail(@)]
  <2> DEFINE todo == <<<<"delete", child, TRUE>>>>
  <2>0. <<"delete", child, TRUE>> \in Task
    BY <1>7 DEF Task
  <2>1. todo \in Seq(Task) /\ \A i \in DOMAIN todo: todo[i][1] = "delete"
    BY <2>0
  <2>2. <<next>> \o Tail(frames[c]) \in Seq(Frame)
    BY <1>2, ConcatProperties
  <2>3. frames' \in [Clients -> Seq(Frame)] /\ \A d \in Clients \ {c}: frames'[d] = frames[d]
    BY <1>1, <1>7, <2>2 DEF TreeTypeOK
  <2>4. Continue(c, todo)
    BY <1>7
  <2> HIDE DEF todo
  <2>5. /\ agenda' \in [Clients -> Seq(Task)] /\ agenda'[c] = todo
        /\ \A d \in Clients \ {c}: agenda'[d] = agenda[d]
    BY <1>1, <2>1, <2>4, AgendaBecomes
  <2>6. Shape(c, f, TRUE)
    BY <1>1, <1>2, <2>3, <2>5 DEF Shape, TreeTypeOK, Ids
  <2> QED BY <1>1, <2>1, <2>5, <2>6 DEF f, frame
<1> QED BY <1>4, <1>5, <1>6, <1>7

LEMMA ListShape ==
  ASSUME TypeInv, NEW c \in Clients, DoList(c)
  PROVE  /\ \E ok \in BOOLEAN: Shape(c, Subject(c), ok)
         /\ agenda'[c] = Later(c) /\ draft' = draft /\ frames' = frames
         /\ \A y \in Ids: Exists(y) => Exists(y)'
<1> DEFINE f == Subject(c)
           list == IF IsFolder(f) THEN store[f].objects ELSE <<>>
           found == {i \in DOMAIN list: list[i] \in Usable /\ Exists(list[i])}
           dicts(nth) == [i \in DOMAIN nth |-> Dict(list[nth[i]])]
<1>1. /\ TreeTypeOK /\ f \in Usable /\ Later(c) \in Seq(Task)
      /\ draft[c] = Nothing /\ Busy(c) /\ f \in Ids
  BY NamedTypes, AgendaTypes DEF TypeInv, DoList, Now, Busy, Ids
<1>2. /\ IF list = <<>> \/ ~(ToSet(list) \subseteq Ids) THEN UNCHANGED store
         ELSE \E nth \in [1..Cardinality(found) -> found]:
                store' = [store EXCEPT ![f].objects = dicts(nth)]
      /\ Touches(c, f, list = <<>>) /\ draft' = draft /\ frames' = frames
      /\ Continue(c, Later(c))
  BY DEF DoList
<1>3. ASSUME list # <<>>, ToSet(list) \subseteq Ids, NEW nth \in [1..Cardinality(found) -> found],
             store' = [store EXCEPT ![f].objects = dicts(nth)]
      PROVE  /\ store' \in [Ids -> Entry \cup {Nothing}] /\ store'[f] # Nothing
             /\ \A y \in Ids: y # f => store'[y] = store[y]
  <2>1. IsFolder(f) /\ list = store[f].objects /\ store[f] \in Entry
    BY <1>1, <1>3 DEF IsFolder, Exists, TreeTypeOK
  <2>2. list \in Seq(Ids)
    <3>1. store[f].objects \in Seq(Held)
      BY <2>1 DEF Entry, Held
    <3>2. \A i \in DOMAIN list: list[i] \in Ids
      BY <1>3, ToSetIs
    <3> HIDE DEF list
    <3>3. list \in Seq(Held)
      BY <2>1, <3>1
    <3> QED BY <3>2, <3>3
  <2> HIDE DEF list
  <2>3. Cardinality(found) \in Nat
    <3>1. IsFiniteSet(1..Len(list)) /\ found \subseteq 1..Len(list)
      BY <2>2, FS_Interval
    <3> QED BY <3>1, FS_Subset, FS_CardinalityType
  <2>4. dicts(nth) \in Seq(Held)
    <3>1. DOMAIN nth = 1..Cardinality(found) /\ \A i \in DOMAIN nth: list[nth[i]] \in Ids
      BY <1>3, <2>2
    <3>2. \A i \in DOMAIN nth: Dict(list[nth[i]]) \in Held
      BY <3>1 DEF Held
    <3> QED BY <2>3, <3>1, <3>2
  <2> HIDE DEF dicts
  <2>5. [store[f] EXCEPT !.objects = dicts(nth)] \in Entry
    BY <2>1, <2>4 DEF Entry, Held
  <2>6. store' = [store EXCEPT ![f] = [store[f] EXCEPT !.objects = dicts(nth)]]
    BY <1>3
  <2> QED BY <1>1, <2>5, <2>6, FileTreeAssumption DEF TreeTypeOK
<1>4. /\ store' \in [Ids -> Entry \cup {Nothing}]
      /\ \A y \in Ids: y # f => store'[y] = store[y]
      /\ store'[f] # Nothing \/ store'[f] = store[f]
  BY <1>1, <1>2, <1>3 DEF TreeTypeOK
<1> HIDE DEF list
<1>5. /\ agenda' \in [Clients -> Seq(Task)] /\ agenda'[c] = Later(c)
      /\ \A d \in Clients \ {c}: agenda'[d] = agenda[d]
  BY <1>1, <1>2, AgendaBecomes
<1>6. \E ok \in BOOLEAN: Touches(c, f, ok)
  BY <1>2
<1>7. \E ok \in BOOLEAN: Shape(c, f, ok)
  BY <1>1, <1>2, <1>4, <1>5, <1>6 DEF Shape, TreeTypeOK
<1>8. \A y \in Ids: Exists(y) => Exists(y)'
  BY <1>4 DEF Exists
<1> QED BY <1>2, <1>5, <1>7, <1>8

LEMMA StepTypes ==
  ASSUME TypeInv, NEW c \in Clients, TreeStep(c)
  PROVE  TypeInv'
<1>1. CASE DoWrite(c)
  <2>1. agenda[c] # <<>>
    BY <1>1 DEF DoWrite, Now
  <2> QED BY <1>1, <2>1, WriteShape, TailStays, ShapeTypes
<1>2. CASE DoSave(c)
  <2>1. agenda'[c] = agenda[c] /\ frames'[c] = frames[c]
    BY <1>2, SaveShape
  <2> QED BY <1>2, <2>1, SaveShape, TailStays, ShapeTypes
<1>3. CASE DoDrop(c)
  <2>1. frames[c] # <<>> /\ Len(agenda[c]) = 1
    BY <1>3, AgendaTypes DEF TypeInv, StaysInv, DoDrop, Now
  <2>2. Later(c) \in Seq(Task) /\ Len(Later(c)) = 0
    BY <1>3, <2>1, AgendaTypes, HeadTailProperties DEF DoDrop, Now, Later, TypeInv
  <2>3. DOMAIN agenda'[c] = {}
    BY <1>3, <2>1, <2>2, DropShape
  <2> QED BY <1>3, <2>1, <2>3, DropShape, ShapeTypes
<1>4. CASE DoLink(c)
  <2>1. agenda[c] # <<>> /\ frames'[c] = frames[c]
    BY <1>4, LinkShape DEF DoLink, Now
  <2> QED BY <1>4, <2>1, LinkShape, TailStays, ShapeTypes
<1>5. CASE DoUnlink(c)
  <2>1. agenda[c] # <<>> /\ frames'[c] = frames[c]
    BY <1>5, UnlinkShape DEF DoUnlink, Now
  <2> QED BY <1>5, <2>1, UnlinkShape, TailStays, ShapeTypes
<1>6. CASE DoUpdate(c)
  <2>1. \A y \in Ids: Exists(y) => Exists(y)'
    BY <1>6 DEF DoUpdate, Exists
  <2>2. agenda[c] # <<>> /\ frames'[c] = frames[c]
    BY <1>6, UpdateShape DEF DoUpdate, Now
  <2> QED BY <1>6, <2>1, <2>2, UpdateShape, TailStays, ShapeTypes
<1>7. CASE DoMove(c)
  <2>1. ASSUME NEW i \in DOMAIN agenda'[c], agenda'[c][i][1] = "reparent"
        PROVE  mode = "local" /\ Exists(agenda[c][i][2])'
    <3>1. mode = "local" /\ agenda'[c][i][2] = Subject(c) /\ Exists(Subject(c)) /\ store' = store
      BY <1>7, <2>1, MoveShape
    <3> QED BY <3>1 DEF Exists
  <2>2. frames'[c] = <<>> /\ \A i \in DOMAIN agenda'[c]: agenda'[c][i][1] # "drop"
    BY <1>7, MoveShape
  <2> QED BY <1>7, <2>1, <2>2, MoveShape, ShapeTypes
<1>8. CASE DoReparent(c)
  <2>1. \A y \in Ids: Exists(y) => Exists(y)'
    BY <1>8, ReparentShape DEF Shape, Exists
  <2>2. agenda[c] # <<>> /\ frames'[c] = frames[c]
    BY <1>8, ReparentShape DEF DoReparent, Now
  <2> QED BY <1>8, <2>1, <2>2, ReparentShape, TailStays, ShapeTypes
<1>9. CASE DoDelete(c)
  <2>1. DOMAIN agenda'[c] = {}
    BY <1>9, DeleteShape
  <2> QED BY <1>9, <2>1, DeleteShape, ShapeTypes
<1>10. CASE DoTurn(c)
  <2>1. \A i \in DOMAIN agenda'[c]: agenda'[c][i][1] \notin {"move", "reparent"}
    BY <1>10, TurnShape
  <2> QED BY <1>10, <2>1, TurnShape, ShapeTypes
<1>11. CASE DoList(c)
  <2>1. agenda[c] # <<>> /\ frames'[c] = frames[c]
    BY <1>11, ListShape DEF DoList, Now
  <2> QED BY <1>11, <2>1, ListShape, TailStays, ShapeTypes
<1> QED BY <1>1, <1>2, <1>3, <1>4, <1>5, <1>6, <1>7, <1>8, <1>9, <1>10, <1>11 DEF TreeStep

LEMMA NextTypes == TypeInv /\ [TreeNext]_treeVars => TypeInv'
<1> SUFFICES ASSUME TypeInv, [TreeNext]_treeVars PROVE TypeInv' OBVIOUS
<1>1. CASE UNCHANGED treeVars
  BY <1>1 DEF treeVars, treeHistory, TypeInv, TreeTypeOK, StaysInv, Exists, Busy
<1>2. ASSUME NEW c \in Clients, TreeCall(c) \/ TreeStep(c) PROVE TypeInv'
  BY <1>2, CallTypes, StepTypes
<1> QED BY <1>1, <1>2 DEF TreeNext

LEMMA InitTypes == TreeInit => TypeInv
<1> SUFFICES ASSUME TreeInit PROVE TypeInv OBVIOUS
<1>1. TreeTypeOK
  BY FileTreeAssumption DEF TreeInit, TreeTypeOK
<1>2. StaysInv
  BY DEF TreeInit, StaysInv, Busy
<1> QED BY <1>1, <1>2 DEF TypeInv

\* Every entry, call, draft and frame is of its type, whatever fails.
THEOREM TreeTypesHold == TreeSpec => []TreeTypeOK
<1>1. TypeInv => TreeTypeOK
  BY DEF TypeInv
<1> QED BY <1>1, InitTypes, NextTypes, PTL DEF TreeSpec

-----------------------------------------------------------------------------
(* What is below an entry. *)

LEMMA SubtreeRoot == \A x \in Ids: x \in Subtree(x)
BY DEF Subtree

LEMMA SubtreeDown ==
  ASSUME NEW x, NEW y \in Ids, Exists(y), store[y].parent \in Subtree(x)
  PROVE  y \in Subtree(x)
<1> SUFFICES ASSUME NEW S \in SUBSET Ids, x \in S, Closed(S) PROVE y \in S
  BY DEF Subtree
<1>1. store[y].parent \in S
  BY DEF Subtree
<1> QED BY <1>1 DEF Closed

LEMMA SubtreeUp ==
  ASSUME NEW x \in Ids, NEW y \in Subtree(x), y # x
  PROVE  y \in Ids /\ Exists(y) /\ store[y].parent \in Subtree(x)
<1> DEFINE S == Subtree(x) \ {y}
<1>0. y \in Ids /\ S \in SUBSET Ids /\ x \in S
  BY SubtreeRoot DEF Subtree
<1>1. ~Closed(S)
  BY <1>0 DEF Subtree
<1>2. PICK z \in Ids: Exists(z) /\ store[z].parent \in S /\ z \notin S
  BY <1>1 DEF Closed
<1>3. z \in Subtree(x)
  BY <1>2, SubtreeDown
<1>4. z = y
  BY <1>2, <1>3
<1> QED BY <1>0, <1>2, <1>4

\* Nothing of the tree changes but what the lists say.
SameTree == \A x \in Ids: /\ Exists(x)' <=> Exists(x)
                          /\ Exists(x) => /\ store'[x].parent = store[x].parent
                                          /\ store'[x].folder = store[x].folder

LEMMA SubtreeSame == SameTree => \A x: Subtree(x)' = Subtree(x)
<1> SUFFICES ASSUME SameTree, NEW x PROVE Subtree(x)' = Subtree(x) OBVIOUS
<1>1. \A S \in SUBSET Ids: Closed(S)' <=> Closed(S)
  BY DEF SameTree, Closed
<1> QED BY <1>1 DEF Subtree

-----------------------------------------------------------------------------
(* A step of one client leaves the others', and what they rely on. *)

LEMMA ShapeOn ==
  ASSUME TreeTypeOK, NEW c \in Clients, NEW x, NEW ok, Shape(c, x, ok), clean'
  PROVE  StepOn(c, x) /\ clean /\ ok
BY DEF Shape, Touches, StepOn

LEMMA StepApart ==
  ASSUME TreeTypeOK, DisjointInv, DraftInv, TreeTypeOK', DraftInv',
         NEW c \in Clients, NEW x, StepOn(c, x),
         \A y \in Ids: y \notin touched'[c] /\ Exists(x)' => (Listed(x, y)' <=> Listed(x, y)),
         Exists(x) => \/ store[x].parent \in touched'[c] \cup {Root}
                      \/ Exists(x)' /\ store'[x].parent = store[x].parent,
         Exists(x)' => \/ store'[x].parent \in touched'[c] \cup {Root}
                       \/ Exists(x) /\ store'[x].parent = store[x].parent,
         Exists(x)' /\ ~Exists(x) =>
           /\ InNoFrame(x)
           /\ \A d \in Clients: x \notin doomed[d]
           /\ \A y \in Ids: ~Below(y, x),
         \A i \in DOMAIN frames'[c]: \A y \in ToSet(frames'[c][i].list):
           Exists(y) \/ \E j \in DOMAIN frames[c]: y \in ToSet(frames[c][j].list)
  PROVE  Apart(c) /\ DisjointInv'
<1>0. DisjointInv'
  BY StepDisjoint
<1>1. /\ x \in Ids /\ Busy(c) /\ mode' = mode /\ born' = born /\ asked' = asked
      /\ touched'[c] = touched[c] \cup {x}
      /\ \A d \in Clients \ {c}: touched'[d] = touched[d]
      /\ \A y \in Ids: y # x => store'[y] = store[y]
      /\ \A d \in Clients \ {c}: agenda'[d] = agenda[d] /\ draft'[d] = draft[d] /\ frames'[d] = frames[d]
  BY DEF StepOn, TreeTypeOK
<1>2. \A d \in Clients \ {c}: Busy(d) => mode # "local" /\ touched'[c] \cap touched[d] = {}
  BY <1>1 DEF DisjointInv, StepOn
<1>3. \A y \in Ids: y \notin touched'[c] => store'[y] = store[y] /\ ListOf'[y] = ListOf[y]
  BY <1>0, <1>1, StepLists
<1>4. \A y, f \in Ids: f \notin touched'[c] => (Below(y, f)' <=> Below(y, f))
  <2> SUFFICES ASSUME NEW y \in Ids, NEW f \in Ids, f \notin touched'[c]
      PROVE Below(y, f)' <=> Below(y, f)
    OBVIOUS
  <2>1. CASE y # x
    BY <1>1, <2>1 DEF Below, Exists
  <2>2. CASE y = x
    BY <1>1, <2>2, FileTreeAssumption DEF Below
  <2> QED BY <2>1, <2>2
<1>5. \A f, y \in Ids: y \notin touched'[c] /\ Exists(f)' =>
        (Listed(f, y)' <=> Listed(f, y)) /\ (Exists(f) \/ ~Below(y, f))
  <2> SUFFICES ASSUME NEW f \in Ids, NEW y \in Ids, y \notin touched'[c], Exists(f)'
      PROVE (Listed(f, y)' <=> Listed(f, y)) /\ (Exists(f) \/ ~Below(y, f))
    OBVIOUS
  <2>1. CASE f # x
    <3>1. ListOf'[f] = ListOf[f] /\ Exists(f)
      BY <1>0, <1>1, <2>1, StepLists DEF Exists
    <3> QED BY <3>1 DEF Listed
  <2>2. CASE f = x
    BY <2>2
  <2> QED BY <2>1, <2>2
<1>6. \A y \in Ids: Exists(y)' /\ ~Exists(y) =>
        \A d \in Clients: \A i \in DOMAIN frames[d]: y \notin ToSet(frames[d][i].list)
  BY <1>1 DEF Exists, InNoFrame
<1>7. \A d \in Clients: \A y \in doomed'[d]: Exists(y)' => Exists(y) \/ y \in doomed[d]
  BY DEF StepOn, TreeTypeOK
<1> QED BY <1>0, <1>1, <1>2, <1>3, <1>4, <1>5, <1>6, <1>7 DEF Apart, StepOn, TreeTypeOK

\* The lists of what c touches depend on what c still has to do.
OwnLists(c, f, y) ==
  Exists(f) =>
    /\ Listed(f, y) => Exists(y) /\ (Below(y, f) \/ ArrivingBy(c, f, y))
    /\ Below(y, f) => Listed(f, y) \/ LeavingBy(c, f, y)

LEMMA OwnListsHold ==
  ASSUME ListInv, NEW c \in Clients, Apart(c),
         NEW f \in Ids, NEW y \in Ids, f \in touched'[c] \/ y \in touched'[c]
  PROVE  OwnLists(c, f, y)
<1>1. \A d \in Clients \ {c}: ~ArrivingBy(d, f, y) /\ ~LeavingBy(d, f, y)
  BY DEF Apart, ArrivingBy, LeavingBy, Busy
<1> QED BY <1>1 DEF ListInv, OwnLists

LEMMA ListsKeep ==
  ASSUME ListInv, NEW c \in Clients, Apart(c), agenda[c] # <<>> => Busy(c),
         \A f, y \in touched'[c] \cap Ids: OwnLists(c, f, y)'
  PROVE  ListInv'
<1> SUFFICES ASSUME NEW f \in Ids, NEW y \in Ids, Exists(f)'
    PROVE  /\ Listed(f, y)' => Exists(y)' /\ (Below(y, f)' \/ \E d \in Clients: ArrivingBy(d, f, y)')
           /\ Below(y, f)' => Listed(f, y)' \/ \E d \in Clients: LeavingBy(d, f, y)'
  BY DEF ListInv
<1>1. CASE f \in touched'[c] /\ y \in touched'[c]
  BY <1>1 DEF OwnLists
<1>2. \A d \in Clients \ {c}: /\ ArrivingBy(d, f, y) => ArrivingBy(d, f, y)' /\ y \notin touched'[c]
                              /\ LeavingBy(d, f, y) => LeavingBy(d, f, y)'
  BY DEF Apart, ArrivingBy, LeavingBy, Busy
<1>3. CASE f \notin touched'[c]
  <2>1. ~ArrivingBy(c, f, y) /\ ~LeavingBy(c, f, y)
    BY <1>3 DEF Apart, ArrivingBy, LeavingBy
  <2>2. /\ Exists(f) /\ (Below(y, f)' <=> Below(y, f))
        /\ Listed(f, y)' <=> Listed(f, y)
    BY <1>3 DEF Apart, Exists, Listed
  <2>3. Listed(f, y) => Exists(y) /\ (Below(y, f) \/ \E d \in Clients \ {c}: ArrivingBy(d, f, y))
    BY <2>1, <2>2 DEF ListInv
  <2>4. Below(y, f) => Listed(f, y) \/ \E d \in Clients \ {c}: LeavingBy(d, f, y)
    BY <2>1, <2>2 DEF ListInv
  <2>5. Below(y, f)' => Exists(y)'
    BY DEF Below
  <2>6. y \notin touched'[c] /\ Exists(y) => Exists(y)'
    BY DEF Apart, Exists
  <2> QED BY <1>2, <2>2, <2>3, <2>4, <2>5, <2>6
<1>4. CASE f \in touched'[c] /\ y \notin touched'[c]
  <2>1. \A d \in Clients: ~ArrivingBy(d, f, y) /\ ~LeavingBy(d, f, y)
    BY <1>4 DEF Apart, ArrivingBy, LeavingBy, Busy
  <2>2. /\ Listed(f, y)' <=> Listed(f, y)
        /\ Exists(f) \/ ~Below(y, f)
        /\ Below(y, f)' <=> Below(y, f)
        /\ Exists(y)' <=> Exists(y)
    BY <1>4 DEF Apart, Below, Exists
  <2>3. Exists(f) => (Listed(f, y) => Exists(y) /\ Below(y, f)) /\ (Below(y, f) => Listed(f, y))
    BY <2>1 DEF ListInv
  <2> QED BY <2>2, <2>3 DEF Listed
<1> QED BY <1>1, <1>3, <1>4

(* What other clients are to delete is out of reach of a step of c. *)
DoomOf(d) ==
  /\ Busy(d) /\ doomed[d] # {} => \E r \in Usable: DoomedBusy(d, r)
  /\ ~Busy(d) => \A y \in Usable: Exists(y) => y \notin doomed[d] /\ store[y].parent \notin doomed[d]

LEMMA OthersDoom ==
  ASSUME TreeTypeOK, TreeTypeOK', DoomInv, NEW c \in Clients, NEW x, StepOn(c, x), mode = "remote",
         NEW p, Exists(x)' => /\ store'[x].parent = p
                              /\ \/ Exists(x) /\ store[x].parent = p
                                 \/ p = Root
                                 \/ p \in touched[c] \cap Usable /\ Exists(p),
         Exists(x)' /\ ~Exists(x) => \A d \in Clients: x \notin doomed[d],
         NEW d \in Clients, d # c
  PROVE  DoomOf(d)'
<1>1. /\ x \in Ids /\ Busy(c) /\ touched'[c] = touched[c] \cup {x} /\ touched'[d] = touched[d]
      /\ asked'[d] = asked[d] /\ frames'[d] = frames[d] /\ agenda'[d] = agenda[d]
      /\ (Busy(d)' <=> Busy(d)) /\ doomed'[d] \subseteq Ids /\ Root \notin Ids
      /\ doomed'[d] = IF Busy(d) /\ x \in doomed[d] THEN {} ELSE doomed[d]
      /\ \A y \in Ids: y # x => store'[y] = store[y]
      /\ \A e \in Clients \ {c}: touched'[e] = touched[e] /\ (Busy(e)' <=> Busy(e))
  BY FileTreeAssumption DEF StepOn, TreeTypeOK, Busy
<1>2. CASE ~Busy(d)
  <2>1. \A y \in Usable: Exists(y) => y \notin doomed[d] /\ store[y].parent \notin doomed[d]
    BY <1>2 DEF DoomInv
  <2>2. SUFFICES ASSUME NEW y \in Usable, Exists(y)'
                 PROVE y \notin doomed[d] /\ store'[y].parent \notin doomed[d]
    BY <1>1, <1>2 DEF DoomOf
  <2>3. CASE y # x
    BY <1>1, <2>1, <2>2, <2>3 DEF Exists
  <2>4. CASE y = x
    BY <1>1, <2>1, <2>2, <2>4
  <2> QED BY <2>3, <2>4
<1>3. CASE Busy(d) /\ doomed'[d] # {}
  <2>1. x \notin doomed[d] /\ doomed'[d] = doomed[d] /\ doomed[d] # {}
    BY <1>1, <1>3
  <2>2. PICK r \in Usable: DoomedBusy(d, r)
    BY <1>3, <2>1 DEF DoomInv
  <2>3. r \in Ids /\ r # x /\ r \in doomed[d] /\ Exists(r)
    BY <2>1, <2>2 DEF DoomedBusy, Ids
  <2>4. Exists(x)' => p \notin doomed[d] \/ (Exists(x) /\ store[x].parent = p)
    <3>1. touched[c] \cap doomed[d] = {} /\ Root \notin doomed[d]
      BY <1>1, <2>1, <2>2 DEF DoomedBusy
    <3>2. p \in touched[c] \cap Usable => p \notin doomed[d]
      BY <3>1
    <3> QED BY <3>1, <3>2
  <2>5. ASSUME NEW y \in Ids, Exists(y)'
        PROVE  /\ store'[y].parent \in doomed[d] => y \in doomed[d]
               /\ y \in doomed[d] => Exists(y) /\ (y = r \/ store'[y].parent \in doomed[d])
    <3>1. CASE y # x
      BY <1>1, <2>2, <2>5, <3>1 DEF DoomedBusy, Exists
    <3>2. CASE y = x
      BY <2>1, <2>2, <2>4, <2>5, <3>2 DEF DoomedBusy
    <3> QED BY <3>1, <3>2
  <2>6. ASSUME NEW y \in Usable, Exists(y)', y \in doomed[d] PROVE y \in Subtree(r)'
    <3>1. SUFFICES ASSUME NEW S \in SUBSET Ids, r \in S, Closed(S)' PROVE y \in S
      BY <2>6 DEF Subtree, Ids
    <3> DEFINE Z == S \cup (Ids \ doomed[d])
    <3>2. Closed(Z)
      <4> SUFFICES ASSUME NEW z \in Ids, Exists(z), store[z].parent \in Z PROVE z \in Z
        BY DEF Closed
      <4>1. CASE z \notin doomed[d]
        BY <4>1
      <4>2. CASE z \in doomed[d]
        <5>1. z # x /\ Exists(z)' /\ store'[z] = store[z]
          BY <1>1, <2>1, <4>2 DEF Exists
        <5>2. z = r \/ store[z].parent \in doomed[d]
          BY <2>2, <4>2 DEF DoomedBusy
        <5> QED BY <3>1, <5>1, <5>2 DEF Closed
      <4> QED BY <4>1, <4>2
    <3>3. y \in Ids /\ Exists(y) /\ y \in Subtree(r)
      BY <2>2, <2>5, <2>6 DEF DoomedBusy, Ids
    <3>4. y \in Z
      BY <3>1, <3>2, <3>3 DEF Subtree
    <3> QED BY <2>6, <3>4
  <2>7. \A e \in Clients \ {d}: Busy(e)' => touched'[e] \cap doomed[d] = {}
    BY <1>1, <2>1, <2>2 DEF DoomedBusy
  <2>8. Exists(r)'
    BY <1>1, <2>3 DEF Exists
  <2>9. DoomedBusy(d, r)'
    BY <1>1, <2>1, <2>2, <2>5, <2>6, <2>7, <2>8 DEF DoomedBusy
  <2> QED BY <1>1, <1>3, <2>9 DEF DoomOf
<1> QED BY <1>1, <1>2, <1>3 DEF DoomOf

LEMMA SameDoom ==
  ASSUME TreeTypeOK, TreeTypeOK', DoomInv, NEW c \in Clients, NEW x, StepOn(c, x), mode = "remote",
         SameTree, \A r \in Usable: DoomedBusy(c, r) =>
                     frames'[c] # <<>> \/ agenda'[c] = <<<<"delete", r, TRUE>>>>
  PROVE  DoomOf(c)'
<1>1. /\ Busy(c) /\ asked'[c] = asked[c] /\ doomed'[c] = doomed[c]
      /\ \A e \in Clients \ {c}: touched'[e] = touched[e] /\ (Busy(e)' <=> Busy(e))
  BY DEF StepOn, TreeTypeOK, Busy
<1>2. CASE doomed[c] = {}
  BY <1>1, <1>2 DEF DoomOf
<1>3. CASE doomed[c] # {}
  <2>1. PICK r \in Usable: DoomedBusy(c, r)
    BY <1>1, <1>3 DEF DoomInv
  <2>2. frames'[c] # <<>> \/ agenda'[c] = <<<<"delete", r, TRUE>>>>
    BY <2>1
  <2>3. Busy(c)'
    BY <2>2, Parts DEF Busy
  <2>4. Subtree(r)' = Subtree(r)
    BY SubtreeSame
  <2>5. Exists(r)' /\ asked'[c] = <<r, TRUE>> /\ r \in doomed'[c]
    BY <1>1, <2>1 DEF DoomedBusy, SameTree, Ids
  <2>6. \A y \in Ids: Exists(y)' =>
          /\ store'[y].parent \in doomed'[c] => y \in doomed'[c]
          /\ y \in doomed'[c] => /\ y = r \/ store'[y].parent \in doomed'[c]
                                 /\ y \in Usable => y \in Subtree(r)'
    BY <1>1, <2>1, <2>4 DEF DoomedBusy, SameTree
  <2>7. \A e \in Clients \ {c}: Busy(e)' => touched'[e] \cap doomed'[c] = {}
    BY <1>1, <2>1 DEF DoomedBusy
  <2>8. DoomedBusy(c, r)'
    BY <2>2, <2>5, <2>6, <2>7 DEF DoomedBusy
  <2> QED BY <2>3, <2>8 DEF DoomOf
<1> QED BY <1>2, <1>3

\* A step of c that changes at most what one list says.
SameStep(c, x) ==
  /\ StepOn(c, x) /\ SameTree
  /\ \A y \in Ids: y \notin touched'[c] /\ Exists(x) => (Listed(x, y)' <=> Listed(x, y))
  /\ Exists(x) => Plain(ListOf'[x])
  /\ \A i \in DOMAIN frames'[c]: \A y \in ToSet(frames'[c][i].list):
       Exists(y) \/ \E j \in DOMAIN frames[c]: y \in ToSet(frames[c][j].list)
  /\ \A r \in Usable: DoomedBusy(c, r) => frames'[c] # <<>> \/ agenda'[c] = <<<<"delete", r, TRUE>>>>

LEMMA SameApart ==
  ASSUME Good, TreeTypeOK', DraftInv', NEW c \in Clients, NEW x, SameStep(c, x)
  PROVE  Apart(c) /\ DisjointInv'
<1>1. x \in Ids /\ StepOn(c, x) /\ SameTree
  BY DEF SameStep, StepOn
<1>2. Exists(x) <=> Exists(x)'
  BY <1>1 DEF SameTree
<1>3. Exists(x) => store'[x].parent = store[x].parent
  BY <1>1 DEF SameTree
<1>4. \A y \in Ids: y \notin touched'[c] /\ Exists(x)' => (Listed(x, y)' <=> Listed(x, y))
  BY <1>2 DEF SameStep
<1>5. \A i \in DOMAIN frames'[c]: \A y \in ToSet(frames'[c][i].list):
           Exists(y) \/ \E j \in DOMAIN frames[c]: y \in ToSet(frames[c][j].list)
  BY DEF SameStep
<1> QED BY <1>1, <1>2, <1>3, <1>4, <1>5, StepApart DEF Good

LEMMA SameKeeps ==
  ASSUME Good, TreeTypeOK', DraftInv', NEW c \in Clients, NEW x, SameStep(c, x),
         \A f, y \in touched'[c] \cap Ids: OwnLists(c, f, y)',
         CallInv(c)'
  PROVE  Good'
<1>0. Apart(c) /\ DisjointInv'
  BY SameApart
<1>1. x \in Ids /\ StepOn(c, x) /\ SameTree /\ Busy(c) /\ mode' = mode /\ born' = born
  BY DEF SameStep, StepOn
<1>2. EntryInv'
  <2> SUFFICES ASSUME NEW y \in Ids, Exists(y)'
      PROVE  /\ y \in born' /\ store'[y].parent # y
             /\ store'[y].parent \in (born' \cap Usable) \cup {Root}
             /\ \A p \in Ids: Below(y, p)' /\ Exists(p)' => store'[p].folder
             /\ Plain(ListOf'[y])
    BY DEF EntryInv, Plain
  <2>1. Exists(y) /\ store'[y].parent = store[y].parent
    BY <1>1 DEF SameTree
  <2>2. \A p \in Ids: Below(y, p)' /\ Exists(p)' => store'[p].folder
    BY <1>1, <2>1 DEF SameTree, Below, Good, EntryInv
  <2>3. Plain(ListOf'[y])
    <3>1. CASE y = x
      BY <2>1, <3>1 DEF SameStep
    <3>2. CASE y # x
      <4>1. ListOf'[y] = ListOf[y]
        BY <1>0, <1>1, <3>2, StepLists DEF Good
      <4> QED BY <2>1, <4>1 DEF Good, EntryInv
    <3> QED BY <3>1, <3>2
  <2> QED BY <1>1, <2>1, <2>2, <2>3 DEF Good, EntryInv
<1>3. ListInv'
  BY <1>0, <1>1, ListsKeep DEF Good
<1>4. CallsInv'
  BY <1>0, OthersKeep DEF CallsInv, Good
<1>5. Acyclic'
  BY <1>1 DEF Acyclic, Good, SameTree
<1>6. DoomInv'
  <2>1. \A d \in Clients: doomed'[d] \subseteq born'
    BY <1>1 DEF Good, DoomInv, StepOn, TreeTypeOK
  <2>2. ASSUME mode = "remote" PROVE \A d \in Clients: DoomOf(d)'
    <3>1. DoomOf(c)'
      BY <1>1, <2>2, SameDoom DEF Good, SameStep
    <3>2. ASSUME NEW d \in Clients, d # c PROVE DoomOf(d)'
      <4>1. Exists(x)' => /\ store'[x].parent = store[x].parent /\ Exists(x)
        BY <1>1 DEF SameTree
      <4> QED BY <1>1, <2>2, <3>2, <4>1, OthersDoom DEF Good
    <3> QED BY <3>1, <3>2
  <2> QED BY <1>1, <2>1, <2>2 DEF DoomInv, DoomOf
<1> QED BY <1>0, <1>2, <1>3, <1>4, <1>5, <1>6 DEF Good

\* A step of c that changes no list either.
LEMMA QuietKeeps ==
  ASSUME Good, TreeTypeOK', DraftInv', NEW c \in Clients, NEW x, StepOn(c, x), SameTree,
         ListOf'[x] = ListOf[x],
         \A i \in DOMAIN frames'[c]: \A y \in ToSet(frames'[c][i].list):
           Exists(y) \/ \E j \in DOMAIN frames[c]: y \in ToSet(frames[c][j].list),
         \A r \in Usable: DoomedBusy(c, r) => frames'[c] # <<>> \/ agenda'[c] = <<<<"delete", r, TRUE>>>>
  PROVE  /\ Apart(c) /\ DisjointInv'
         /\ \A y \in Ids: ListOf'[y] = ListOf[y]
         /\ CallInv(c)' /\ (\/ agenda'[c] = agenda[c] \/ agenda[c] = <<>>
                            \/ Head(agenda[c])[1] \in {"delete", "update", "list", "move"}) => Good'
<1>1. SameStep(c, x)
  <2>1. Exists(x) => Plain(ListOf'[x])
    BY DEF Good, EntryInv, StepOn
  <2>2. \A y \in Ids: Exists(x) => (Listed(x, y)' <=> Listed(x, y))
    BY DEF StepOn, SameTree, Listed
  <2> QED BY <2>1, <2>2 DEF SameStep
<1>2. Apart(c) /\ DisjointInv'
  BY <1>1, SameApart
<1>3. \A y \in Ids: ListOf'[y] = ListOf[y]
  BY <1>2, StepLists DEF Good
<1>4. ASSUME CallInv(c)', \/ agenda'[c] = agenda[c] \/ agenda[c] = <<>>
                          \/ Head(agenda[c])[1] \in {"delete", "update", "list", "move"}
      PROVE  Good'
  <2> SUFFICES ASSUME NEW f \in touched'[c] \cap Ids, NEW y \in touched'[c] \cap Ids
      PROVE  OwnLists(c, f, y)'
    BY <1>1, <1>4, SameKeeps
  <2>1. OwnLists(c, f, y)
    BY <1>2, OwnListsHold DEF Good
  <2>2. ArrivingBy(c, f, y) => ArrivingBy(c, f, y)'
    BY <1>4 DEF ArrivingBy
  <2>3. LeavingBy(c, f, y) => LeavingBy(c, f, y)'
    BY <1>4 DEF LeavingBy
  <2>4. /\ Exists(f)' <=> Exists(f)
        /\ Exists(y)' <=> Exists(y)
        /\ Below(y, f)' <=> Below(y, f)
        /\ Listed(f, y)' <=> Listed(f, y)
    BY <1>3 DEF SameTree, Below, Listed
  <2> QED BY <2>1, <2>2, <2>3, <2>4 DEF OwnLists
<1> QED BY <1>2, <1>3, <1>4

-----------------------------------------------------------------------------
(* Each step keeps the invariant. *)

LEMMA SaveKeeps ==
  ASSUME Good, TypeInv, TreeTypeOK', clean', NEW c \in Clients, DoSave(c)
  PROVE  Good'
<1> DEFINE x == draft[c].file
           e == draft[c].entry
<1>1. StepOn(c, x) /\ draft[c] # Nothing /\ draft'[c] = Nothing /\ agenda' = agenda /\ frames' = frames
  BY SaveShape, ShapeOn DEF Good, DoSave
<1>2. /\ mode = "remote" /\ x \in Usable /\ x \in Ids /\ x \in touched[c] /\ Exists(x)
      /\ e.parent = store[x].parent /\ e.folder = store[x].folder
      /\ e \in Entry
  BY <1>1, SaveShape DEF Good, DraftInv, Ids, Draft
<1>3. store' = [store EXCEPT ![x] = e]
  <2>1. ~Touches(c, x, FALSE)
    BY DEF Touches
  <2> QED BY <2>1 DEF DoSave, CallSet
<1>4. store'[x] = e /\ \A y \in Ids: y # x => store'[y] = store[y]
  BY <1>2, <1>3 DEF Good, TreeTypeOK
<1>5. SameTree
  BY <1>2, <1>4, FileTreeAssumption DEF SameTree, Exists
<1>6. DraftInv'
  BY <1>1, StepDraft DEF Good
<1>7. ListOf'[x] = ListOf[x]
  <2>1. DisjointInv'
    BY <1>1, StepDisjoint DEF Good
  <2> QED BY <1>1, <1>4, <1>6, <2>1, StepLists DEF Good
<1>8. /\ Apart(c) /\ \A y \in Ids: ListOf'[y] = ListOf[y]
      /\ CallInv(c)' => Good'
  <2>1. \A i \in DOMAIN frames'[c]: \A y \in ToSet(frames'[c][i].list):
          Exists(y) \/ \E j \in DOMAIN frames[c]: y \in ToSet(frames[c][j].list)
    BY <1>1
  <2>2. \A r \in Usable: DoomedBusy(c, r) => frames'[c] # <<>> \/ agenda'[c] = <<<<"delete", r, TRUE>>>>
    BY <1>1 DEF DoomedBusy
  <2> QED BY <1>1, <1>5, <1>6, <1>7, <2>1, <2>2, QuietKeeps
<1>9. CallInv(c)'
  <2>1. CallInv(c) /\ touched[c] \subseteq touched'[c] /\ TreeTypeOK
    BY <1>8, <1>1 DEF Good, CallsInv, Apart, StepOn
  <2>2. Undisturbed(c)
    <3>1. /\ mode' = mode /\ born' = born /\ asked'[c] = asked[c] /\ touched[c] \subseteq touched'[c]
          /\ agenda'[c] = agenda[c] /\ frames' = frames
      BY <1>1, <2>1 DEF StepOn
    <3>2. \A y \in Ids: /\ Exists(y)' <=> Exists(y)
                        /\ Exists(y) => store'[y].parent = store[y].parent /\ store'[y].folder = store[y].folder
                        /\ ~Drafts(c, y) => store'[y] = store[y] /\ ~Drafts(c, y)'
      BY <1>1, <1>4, <1>5 DEF SameTree, Drafts
    <3>3. \A y \in Ids: ~Exists(y) => store'[y] = store[y]
      BY <1>2, <1>4
    <3>4. \A y, z \in Ids: (Below(z, y)' <=> Below(z, y)) /\ (Listed(z, y)' <=> Listed(z, y))
      BY <1>8, <3>2 DEF Below, Listed
    <3>5. \A y \in Ids: \A d \in Clients: y \in doomed'[d] => Exists(y) \/ y \in doomed[d]
      BY <1>8 DEF Apart
    <3> QED BY <1>2, <3>1, <3>2, <3>3, <3>4, <3>5 DEF Undisturbed, InNoFrame
  <2> QED BY <2>1, <2>2, Keeps
<1> QED BY <1>8, <1>9

\* What holds of a step that leaves the store as it is.
LEMMA Still ==
  ASSUME Good, TreeTypeOK', NEW c \in Clients, NEW x, StepOn(c, x), store' = store,
         draft[c] = Nothing, draft'[c] = Nothing
  PROVE  DraftInv' /\ SameTree /\ ListOf'[x] = ListOf[x] /\ ListOf[x] = store[x].objects
<1>1. SameTree
  BY DEF SameTree, Exists
<1>2. DraftInv'
  BY StepDraft DEF Good
<1>3. DisjointInv'
  BY StepDisjoint DEF Good
<1> QED BY <1>1, <1>2, <1>3, StepLists DEF Good

\* Only a delete dooms anything.
LEMMA NotDoomed ==
  ASSUME NEW c, frames[c] = <<>>, agenda[c] # <<>>, Head(agenda[c])[1] # "delete"
  PROVE  \A r: ~DoomedBusy(c, r)
<1> SUFFICES ASSUME NEW r, DoomedBusy(c, r) PROVE FALSE OBVIOUS
<1>1. agenda[c] = <<<<"delete", r, TRUE>>>>
  BY DEF DoomedBusy
<1>2. Head(agenda[c]) = <<"delete", r, TRUE>>
  BY <1>1, Parts
<1> QED BY <1>2

LEMMA UpdateKeeps ==
  ASSUME Good, TypeInv, TreeTypeOK', clean', NEW c \in Clients, DoUpdate(c)
  PROVE  Good'
<1>0. PICK x: x = Subject(c)
  OBVIOUS
<1>1. /\ StepOn(c, x) /\ draft[c] = Nothing /\ agenda'[c] = Later(c) /\ frames' = frames
      /\ store' = store /\ agenda[c] # <<>> /\ Head(agenda[c])[1] = "update" /\ x \in Usable /\ x \in Ids
  BY <1>0, UpdateShape, ShapeOn, NamedTypes DEF Good, DoUpdate, Now, Ids
<1>2. frames[c] = <<>> /\ Later(c) = <<>>
  <2>1. PICK y: frames[c] = <<>> /\ Fetching(c, "update", y)
    BY <1>1, Kinds DEF Good, CallsInv
  <2> QED BY <2>1, SingleHead DEF Fetching, Later
<1>3. PICK e \in Gets(x):
        /\ Read(c, x, e)
        /\ IF e = Nothing \/ mode = "local" THEN UNCHANGED draft
           ELSE draft' = [draft EXCEPT ![c] = [file |-> x, entry |-> e]]
  BY <1>0 DEF DoUpdate
<1>4. draft'[c] # Nothing => /\ mode = "remote" /\ Exists(x) /\ draft'[c].entry = store[x]
  <2>1. e # Nothing => Exists(x) /\ e = store[x]
    BY DEF Gets
  <2>2. draft'[c] = draft[c] \/ (e # Nothing /\ mode # "local" /\ draft'[c] = [file |-> x, entry |-> e])
    BY <1>3 DEF Good, TreeTypeOK
  <2> QED BY <1>1, <2>1, <2>2, FileTreeAssumption DEF Good, TreeTypeOK
<1>5. SameTree
  BY <1>1 DEF SameTree, Exists
<1>6. DraftInv'
  <2>1. draft'[c] # Nothing => /\ mode = "remote" /\ x \in Usable /\ Exists(x)'
                               /\ draft'[c].entry.parent = store'[x].parent
                               /\ draft'[c].entry.folder = store'[x].folder
    BY <1>1, <1>4 DEF Exists
  <2> QED BY <1>1, <2>1, StepDraft DEF Good
<1>7. ListOf'[x] = ListOf[x]
  <2>1. DisjointInv'
    BY <1>1, StepDisjoint DEF Good
  <2> QED BY <1>1, <1>4, <1>6, <2>1, StepLists DEF Good
<1>8. CallInv(c)'
  BY <1>1, <1>2 DEF CallInv, OtherInv
<1>9. \A r \in Usable: ~DoomedBusy(c, r)
  BY <1>1, <1>2, NotDoomed
<1>10. \A i \in DOMAIN frames'[c]: \A y \in ToSet(frames'[c][i].list):
          Exists(y) \/ \E j \in DOMAIN frames[c]: y \in ToSet(frames[c][j].list)
  BY <1>1
<1> QED BY <1>1, <1>5, <1>6, <1>7, <1>8, <1>9, <1>10, QuietKeeps

LEMMA ListKeeps ==
  ASSUME Good, TypeInv, TreeTypeOK', clean', NEW c \in Clients, DoList(c)
  PROVE  Good'
<1>0. PICK x: x = Subject(c)
  OBVIOUS
<1>1. /\ StepOn(c, x) /\ draft[c] = Nothing /\ draft' = draft /\ agenda'[c] = Later(c) /\ frames' = frames
      /\ agenda[c] # <<>> /\ Head(agenda[c])[1] = "list"
  BY <1>0, ListShape, ShapeOn DEF Good, DoList, Now
<1>2. frames[c] = <<>> /\ Later(c) = <<>>
  <2>1. PICK y: frames[c] = <<>> /\ Fetching(c, "list", y)
    BY <1>1, Kinds DEF Good, CallsInv
  <2> QED BY <2>1, SingleHead DEF Fetching, Later
<1>3. store' = store
  <2> DEFINE list == IF IsFolder(Subject(c)) THEN store[Subject(c)].objects ELSE <<>>
  <2>1. Touches(c, Subject(c), list = <<>>) /\ (list = <<>> => store' = store)
    BY DEF DoList
  <2> HIDE DEF list
  <2> QED BY <2>1 DEF Touches
<1>4. SameTree /\ DraftInv' /\ ListOf'[x] = ListOf[x]
  BY <1>1, <1>3, Still DEF Good
<1>5. CallInv(c)'
  BY <1>1, <1>2 DEF CallInv, OtherInv
<1>6. \A r \in Usable: ~DoomedBusy(c, r)
  BY <1>1, <1>2, NotDoomed
<1>7. \A i \in DOMAIN frames'[c]: \A y \in ToSet(frames'[c][i].list):
          Exists(y) \/ \E j \in DOMAIN frames[c]: y \in ToSet(frames[c][j].list)
  BY <1>1
<1> QED BY <1>1, <1>4, <1>5, <1>6, <1>7, QuietKeeps

\* move_file puts together what it is to do from the entry as it is.
LEMMA MoveKeeps ==
  ASSUME Good, TypeInv, TreeTypeOK', clean', NEW c \in Clients, DoMove(c)
  PROVE  Good'
<1>0. PICK x, p: x = Subject(c) /\ p = Argument(c)
  OBVIOUS
<1>1. /\ StepOn(c, x) /\ draft[c] = Nothing /\ draft' = draft /\ frames' = frames /\ store' = store
      /\ frames[c] = <<>> /\ agenda[c] # <<>> /\ Head(agenda[c])[1] = "move" /\ x \in Usable /\ x \in Ids
  BY <1>0, MoveShape, ShapeOn, NamedTypes DEF Good, DoMove, Now, Ids
<1>2. p \in Usable \cup {Root} /\ Target(c, x, p)
  <2>1. PICK y \in Usable, q \in Usable \cup {Root}: Target(c, y, q) /\ agenda[c] = <<<<"move", y, q>>>>
    BY <1>1, Kinds DEF Good, CallsInv
  <2>2. Head(agenda[c]) = <<"move", y, q>>
    BY <2>1, SingleHead
  <2>3. y = x /\ q = p
    BY <1>0, <2>2 DEF Subject, Argument
  <2> QED BY <2>1, <2>3
<1>3. SameTree /\ DraftInv' /\ ListOf'[x] = ListOf[x]
  BY <1>1, Still DEF Good
<1>6. \A r \in Usable: ~DoomedBusy(c, r)
  BY <1>1, NotDoomed
<1>7. \A i \in DOMAIN frames'[c]: \A y \in ToSet(frames'[c][i].list):
          Exists(y) \/ \E j \in DOMAIN frames[c]: y \in ToSet(frames[c][j].list)
  BY <1>1
<1>8. /\ Apart(c) /\ DisjointInv' /\ \A y \in Ids: ListOf'[y] = ListOf[y]
      /\ CallInv(c)' => Good'
  BY <1>1, <1>3, <1>6, <1>7, QuietKeeps
<1>9. Target(c, x, p)' /\ Final(x, p)' = Final(x, p)
  <2>1. touched[c] \subseteq touched'[c] /\ mode' = mode
    BY <1>1, <1>8 DEF StepOn, Apart
  <2>2. Sound(c, p)'
    BY <1>2, <1>3, <2>1 DEF Target, Sound, IsFolder, SameTree, Ids
  <2>3. Subtree(x)' = Subtree(x)
    BY <1>3, SubtreeSame
  <2> QED BY <1>1, <1>2, <2>1, <2>2, <2>3 DEF Target, Drafts, Final
<1>10. CallInv(c)'
  <2>1. PICK e \in Gets(x):
          /\ Read(c, x, e)
          /\ Continue(c, IF e = Nothing THEN <<>>
               ELSE Unless(e.parent = Root, <<"unlink", e.parent, x>>)
                    \o Unless(p = Root, <<"link", p, x>>)
                    \o << IF mode = "local" THEN <<"reparent", x, p>>
                          ELSE <<"write", x, [e EXCEPT !.parent = p]>> >>)
    BY <1>0 DEF DoMove
  <2>2. e # Nothing => Exists(x) /\ e = store[x]
    BY DEF Gets
  <2> DEFINE u == <<"unlink", store[x].parent, x>>
             l == <<"link", p, x>>
  <2>3. agenda'[c] = IF e = Nothing THEN <<>>
                     ELSE Unless(store[x].parent = Root, u) \o Unless(p = Root, l) \o <<Final(x, p)>>
    BY <2>1, <2>2 DEF Continue, Good, TreeTypeOK, Final
  <2> HIDE DEF u, l
  <2>4. CASE e = Nothing
    BY <1>1, <2>3, <2>4 DEF CallInv, OtherInv
  <2>5. CASE e # Nothing
    <3>0. agenda'[c] = IF store[x].parent = Root
                       THEN IF p = Root THEN <<Final(x, p)>> ELSE <<l, Final(x, p)>>
                       ELSE IF p = Root THEN <<u, Final(x, p)>> ELSE <<u, l, Final(x, p)>>
      BY <2>3, <2>5, Joined DEF Unless
    <3>1. Exists(x)' /\ store'[x].parent = store[x].parent
      BY <1>1, <2>2, <2>5 DEF Exists
    <3>2. CASE store[x].parent # Root
      <4>1. Out(c, x, p)'
        BY <1>1, <1>9, <3>0, <3>1, <3>2 DEF Out, u, l
      <4> QED BY <1>1, <1>2, <1>9, <3>1, <4>1 DEF CallInv, OtherInv, Moving
    <3>3. CASE store[x].parent = Root
      <4>1. InNoList(x)
        <5>1. ASSUME NEW f \in Ids, Listed(f, x) PROVE FALSE
          <6>1. x \in touched'[c]
            BY <1>1 DEF Good, TreeTypeOK, StepOn
          <6>2. Below(x, f) \/ ArrivingBy(c, f, x)
            BY <1>1, <1>8, <5>1, <6>1, OwnListsHold DEF OwnLists, Good, Listed
          <6>3. ~ArrivingBy(c, f, x)
            BY <1>1 DEF ArrivingBy
          <6> QED BY <3>3, <5>1, <6>2, <6>3, FileTreeAssumption DEF Below
        <5> QED BY <5>1 DEF InNoList
      <4>2. InNoList(x)' /\ \A f \in Ids: ~Listed(f, x)'
        BY <1>1, <1>8, <4>1 DEF InNoList, Listed, Exists
      <4>3. CASE p = Root
        <5>1. In(c, x, p)'
          BY <1>1, <1>9, <3>0, <3>1, <3>3, <4>2, <4>3 DEF In
        <5> QED BY <1>1, <1>2, <1>9, <3>1, <5>1 DEF CallInv, OtherInv, Moving
      <4>4. CASE p # Root
        <5>1. Between(c, x, p)'
          BY <1>1, <1>9, <3>0, <3>1, <3>3, <4>2, <4>4 DEF Between, l
        <5> QED BY <1>1, <1>2, <1>9, <3>1, <5>1 DEF CallInv, OtherInv, Moving
      <4> QED BY <4>3, <4>4
    <3> QED BY <3>2, <3>3
  <2> QED BY <2>4, <2>5
<1> QED BY <1>8, <1>10

\* A call of delete_file that goes on as before, if its place on the stack may change.
LEMMA FrameKeeps ==
  ASSUME NEW c \in Clients, NEW i \in DOMAIN frames[c], NEW j \in DOMAIN frames'[c],
         NEW f \in Usable, FrameInv(c, i, f),
         mode' = mode, born' = born, asked' = asked, touched[c] \subseteq touched'[c],
         frames'[c][j] = frames[c][i],
         j = Len(frames'[c]) => i = Len(frames[c]),
         j < Len(frames'[c]) => i < Len(frames[c]) /\ frames'[c][j + 1] = frames[c][i + 1],
         Exists(f)', store'[f].folder = store[f].folder,
         \A y \in Ids: Exists(y)' => Exists(y) /\ store'[y].parent = store[y].parent,
         \A y \in Usable: Below(y, f)' =>
           /\ i > 1 /\ y = frames[c][i - 1].file =>
                \/ j > 1 /\ y = frames'[c][j - 1].file
                \/ j = 1 /\ agenda'[c] = <<<<"delete", y, TRUE>>>>
           /\ i = 1 /\ agenda[c] = <<<<"delete", y, TRUE>>>> =>
                \/ j > 1 /\ y = frames'[c][j - 1].file
                \/ j = 1 /\ agenda'[c] = <<<<"delete", y, TRUE>>>>
  PROVE  FrameInv(c, j, f)'
<1> DEFINE F == frames[c][i]
<1>1. /\ F.file = f /\ f \in touched[c] /\ Exists(f) /\ F.parent = store[f].parent
      /\ i = Len(frames[c]) => asked[c][1] = f
      /\ i < Len(frames[c]) => F.parent = frames[c][i + 1].file /\ asked[c][2]
      /\ F.loop <=> asked[c][2] /\ store[f].folder
      /\ F.turn > 0 /\ F.list \in Seq(Ids) /\ ToSet(F.list) \subseteq born
  BY DEF FrameInv
<1>2. f \in Ids /\ store'[f].parent = store[f].parent
  BY DEF Ids
<1>3. ASSUME mode = "remote", F.loop
      PROVE  /\ \A n \in Left(F), y \in Ids: F.list[n] = y =>
                  (y \in Usable /\ Exists(y)' => Below(y, f)')
             /\ \A y \in Usable: Below(y, f)' =>
                  \/ j > 1 /\ y = frames'[c][j - 1].file
                  \/ j = 1 /\ agenda'[c] = <<<<"delete", y, TRUE>>>>
                  \/ \E n \in Left(F): F.list[n] = y
  <2>1. /\ \A n \in Left(F), y \in Ids: F.list[n] = y =>
             (y \in Usable /\ Exists(y) => Below(y, f))
        /\ \A y \in Usable: Below(y, f) =>
             \/ i > 1 /\ y = frames[c][i - 1].file
             \/ i = 1 /\ agenda[c] = <<<<"delete", y, TRUE>>>>
             \/ \E n \in Left(F): F.list[n] = y
    BY <1>3 DEF FrameInv
  <2>2. \A y \in Ids: Exists(y)' => (Below(y, f)' <=> Below(y, f))
    BY DEF Below
  <2>3. \A y \in Ids: Below(y, f)' => Exists(y)' /\ Below(y, f)
    BY <2>2 DEF Below
  <2> QED BY <2>1, <2>2, <2>3 DEF Ids
<1>4. /\ frames'[c][j].file = f /\ f \in touched'[c] /\ frames'[c][j].parent = store'[f].parent
      /\ j = Len(frames'[c]) => asked'[c][1] = f
      /\ j < Len(frames'[c]) => frames'[c][j].parent = frames'[c][j + 1].file /\ asked'[c][2]
      /\ frames'[c][j].loop <=> asked'[c][2] /\ store'[f].folder
      /\ frames'[c][j].turn > 0 /\ frames'[c][j].list \in Seq(Ids)
      /\ ToSet(frames'[c][j].list) \subseteq born'
  BY <1>1, <1>2
<1>5. frames'[c][j] = F
  OBVIOUS
<1> HIDE DEF F
<1> QED BY <1>3, <1>4, <1>5 DEF FrameInv

LEMMA Pushed ==
  ASSUME NEW S, NEW a \in S, NEW s \in Seq(S)
  PROVE  /\ <<a>> \o s \in Seq(S) /\ Len(<<a>> \o s) = Len(s) + 1 /\ (<<a>> \o s)[1] = a
         /\ \A i \in 1..Len(s): (<<a>> \o s)[i + 1] = s[i]
         /\ DOMAIN (<<a>> \o s) = 1..(Len(s) + 1) /\ Len(s) \in Nat /\ DOMAIN s = 1..Len(s)
         /\ <<a>> \o s # <<>> /\ Head(<<a>> \o s) = a
<1>1. <<a>> \in Seq(S) /\ Len(<<a>>) = 1 /\ <<a>>[1] = a /\ Len(s) \in Nat
  OBVIOUS
<1>2. /\ <<a>> \o s \in Seq(S) /\ Len(<<a>> \o s) = Len(s) + 1 /\ (<<a>> \o s)[1] = a
      /\ \A i \in 1..Len(s): (<<a>> \o s)[i + 1] = s[i]
  <2> DEFINE b == <<a>>
  <2> HIDE DEF b
  <2>1. b \in Seq(S) /\ Len(b) = 1 /\ b[1] = a
    BY <1>1 DEF b
  <2>2. /\ b \o s \in Seq(S) /\ Len(b \o s) = 1 + Len(s)
        /\ \A i \in 1..(1 + Len(s)): (b \o s)[i] = IF i <= 1 THEN b[i] ELSE s[i - 1]
    <3>1. /\ b \o s \in Seq(S) /\ Len(b \o s) = Len(b) + Len(s)
          /\ \A i \in 1..(Len(b) + Len(s)): (b \o s)[i] = IF i <= Len(b) THEN b[i] ELSE s[i - Len(b)]
      BY <2>1, ConcatProperties
    <3> QED BY <2>1, <3>1
  <2>3. b \o s \in Seq(S) /\ Len(b \o s) = Len(s) + 1 /\ (b \o s)[1] = a
    BY <1>1, <2>1, <2>2
  <2>4. \A i \in 1..Len(s): (b \o s)[i + 1] = s[i]
    BY <1>1, <2>2
  <2> QED BY <2>3, <2>4 DEF b
<1> DEFINE t == <<a>> \o s
<1> HIDE DEF t
<1>3. t \in Seq(S) /\ Len(t) = Len(s) + 1 /\ t[1] = a
  BY <1>2 DEF t
<1>4. DOMAIN t = 1..(Len(s) + 1) /\ t # <<>> /\ Head(t) = a
  BY <1>1, <1>3
<1> QED BY <1>1, <1>2, <1>4 DEF t

\* What c reads of an entry that is its own is what its list says.
LEMMA ReadList ==
  ASSUME Good, TreeTypeOK', NEW c \in Clients, NEW x, StepOn(c, x), store' = store,
         draft[c] = Nothing, draft'[c] = Nothing, Exists(x)
  PROVE  /\ store[x].objects = ListOf[x] /\ store[x].objects \in Seq(Ids)
         /\ \A z \in ToSet(store[x].objects): z \in Ids /\ Listed(x, z) /\ Exists(z) /\ z \in born
<1>1. store[x].objects = ListOf[x] /\ x \in Ids
  BY Still DEF StepOn
<1>2. Plain(ListOf[x])
  BY <1>1 DEF Good, EntryInv
<1>3. ListOf[x] \in Seq(Ids)
  BY <1>2 DEF Plain
<1>4. ASSUME NEW z \in ToSet(store[x].objects) PROVE z \in Ids /\ Listed(x, z) /\ Exists(z) /\ z \in born
  <2>1. z \in Ids
    <3>1. PICK k \in DOMAIN ListOf[x]: ListOf[x][k] = z
      BY <1>1, <1>4, ToSetIs
    <3> QED BY <1>3, <3>1
  <2>2. Listed(x, z)
    BY <1>1 DEF Listed
  <2>3. Exists(z)
    BY <1>1, <2>1, <2>2 DEF Good, ListInv
  <2> QED BY <2>1, <2>2, <2>3 DEF Good, EntryInv
<1> QED BY <1>1, <1>3, <1>4

LEMMA DeleteKeeps ==
  ASSUME Good, TypeInv, TreeTypeOK', clean', NEW c \in Clients, DoDelete(c)
  PROVE  Good'
<1>0. PICK x, r: x = Subject(c) /\ r = Argument(c)
  OBVIOUS
<1>1. /\ StepOn(c, x) /\ draft[c] = Nothing /\ draft' = draft /\ agenda'[c] = <<>> /\ store' = store
      /\ agenda[c] # <<>> /\ Head(agenda[c])[1] = "delete" /\ x \in Ids /\ r \in BOOLEAN
  BY <1>0, DeleteShape, ShapeOn, NamedTypes DEF Good, DoDelete, Now
<1> DEFINE new == [file |-> x, parent |-> store[x].parent, loop |-> store[x].folder /\ r,
                   list |-> store[x].objects, turn |-> 1]
<1>2. \/ ~(x \in Usable /\ Exists(x)) /\ frames' = frames
      \/ /\ x \in Usable /\ Exists(x)
         /\ frames' = [frames EXCEPT ![c] = <<new>> \o @]
  <2>1. PICK e \in Gets(x):
       IF e = Nothing
       THEN Read(c, x, e) /\ Continue(c, <<>>) /\ UNCHANGED frames
       ELSE IF Len(frames[c]) >= MaxDepth
       THEN Touches(c, x, FALSE) /\ Continue(c, <<>>) /\ frames' = [frames EXCEPT ![c] = <<>>]
       ELSE /\ Read(c, x, e) /\ Continue(c, <<>>)
            /\ frames' = [frames EXCEPT ![c] =
                 <<[file |-> x, parent |-> e.parent, loop |-> e.folder /\ r,
                    list |-> e.objects, turn |-> 1]>> \o @]
    BY <1>0 DEF DoDelete
  <2>2. ~Touches(c, x, FALSE)
    BY DEF Touches
  <2>3. Read(c, x, e)
    BY <2>1, <2>2
  <2>4. /\ e # Nothing => x \in Usable /\ Exists(x) /\ e = store[x]
        /\ Exists(x) /\ x \in Usable => e # Nothing
    BY <2>3, Fetched
  <2>5. CASE e = Nothing
    BY <2>1, <2>4, <2>5
  <2>6. CASE e # Nothing
    <3>1. e = store[x] /\ x \in Usable /\ Exists(x)
      BY <2>4, <2>6
    <3> QED BY <2>1, <2>2, <2>6, <3>1
  <2> QED BY <2>5, <2>6
<1>3. SameTree /\ DraftInv' /\ ListOf'[x] = ListOf[x]
  BY <1>1, Still DEF Good
<1>4. touched[c] \subseteq touched'[c] /\ x \in touched'[c] /\ mode' = mode /\ born' = born /\ asked' = asked
  BY <1>1 DEF StepOn, Good, TreeTypeOK
<1>5. \/ frames[c] = <<>> /\ Asking(c, x, r)
      \/ /\ frames[c] # <<>> /\ DeleteInv(c) /\ r = TRUE
         /\ \E y \in Usable: Descending(c, y, x)
  <2>1. CASE frames[c] = <<>>
    <3>1. PICK y \in Usable, q \in BOOLEAN: Asking(c, y, q)
      BY <1>1, <2>1, Kinds DEF Good, CallsInv
    <3>2. Head(agenda[c]) = <<"delete", y, q>>
      BY <3>1, SingleHead DEF Asking
    <3>3. y = x /\ q = r
      BY <1>0, <3>2 DEF Subject, Argument
    <3> QED BY <2>1, <3>1, <3>3
  <2>2. CASE frames[c] # <<>>
    <3>1. DeleteInv(c) /\ \E y \in Usable, z \in Ids: Descending(c, y, z)
      BY <1>1, <2>2, Kinds DEF Good, CallsInv
    <3>2. PICK y \in Usable, z \in Ids: Descending(c, y, z)
      BY <3>1
    <3>0. agenda[c] = <<<<"delete", z, TRUE>>>>
      BY <3>2 DEF Descending
    <3>3. Head(agenda[c]) = <<"delete", z, TRUE>>
      BY <3>0, SingleHead
    <3>5. PICK q: q = TRUE
      OBVIOUS
    <3>6. Head(agenda[c]) = <<"delete", z, q>>
      BY <3>3, <3>5, Zenon
    <3>7. z = x /\ r = q
      BY <1>0, <3>6 DEF Subject, Argument
    <3>4. z = x /\ r = TRUE
      BY <3>5, <3>7
    <3> QED BY <2>2, <3>1, <3>2, <3>4
  <2> QED BY <2>1, <2>2
<1>6. \A y \in Ids: Exists(y)' => Exists(y) /\ store'[y].parent = store[y].parent
  BY <1>1 DEF Exists
<1>7. CASE ~(x \in Usable /\ Exists(x)) /\ frames' = frames
  <2>1. \A i \in DOMAIN frames'[c]: \A y \in ToSet(frames'[c][i].list):
          Exists(y) \/ \E j \in DOMAIN frames[c]: y \in ToSet(frames[c][j].list)
    BY <1>7
  <2>2. ASSUME NEW q \in Usable, DoomedBusy(c, q) PROVE frames'[c] # <<>>
    <3>1. SUFFICES ASSUME frames[c] = <<>> PROVE FALSE
      BY <1>7
    <3>2. Exists(q) /\ agenda[c] = <<<<"delete", q, TRUE>>>>
      BY <2>2, <3>1 DEF DoomedBusy
    <3>3. Head(agenda[c]) = <<"delete", q, TRUE>>
      BY <3>2, SingleHead
    <3>4. q = x
      BY <1>0, <3>3 DEF Subject
    <3> QED BY <1>7, <3>2, <3>4
  <2>3. CallInv(c)'
    <3>1. CASE frames[c] = <<>>
      BY <1>1, <1>7, <3>1 DEF CallInv, OtherInv
    <3>2. CASE frames[c] # <<>>
      <4>1. DeleteInv(c)
        BY <1>5, <3>2
      <4>2. ASSUME NEW i \in DOMAIN frames'[c] PROVE \E f \in Usable: FrameInv(c, i, f)'
        <5>1. PICK f \in Usable: FrameInv(c, i, f)
          BY <1>7, <4>1, <4>2 DEF DeleteInv
        <5>2. ASSUME NEW y \in Usable, Below(y, f)', agenda[c] = <<<<"delete", y, TRUE>>>> PROVE FALSE
          <6>1. Head(agenda[c]) = <<"delete", y, TRUE>>
            BY <5>2, SingleHead
          <6>2. y = x /\ Exists(y)'
            BY <1>0, <5>2, <6>1 DEF Subject, Below
          <6> QED BY <1>6, <1>7, <6>2 DEF Ids
        <5>3. Exists(f)' /\ store'[f].folder = store[f].folder
          BY <1>1, <5>1 DEF FrameInv, Exists
        <5>4. FrameInv(c, i, f)'
          BY <1>4, <1>6, <1>7, <5>1, <5>2, <5>3, FrameKeeps
        <5> QED BY <5>4
      <4>3. DeleteInv(c)'
        BY <1>1, <1>4, <4>1, <4>2 DEF DeleteInv
      <4> QED BY <1>7, <3>2, <4>3 DEF CallInv
    <3> QED BY <3>1, <3>2
  <2> QED BY <1>1, <1>3, <2>1, <2>2, <2>3, QuietKeeps
<1>8. CASE x \in Usable /\ Exists(x) /\ frames' = [frames EXCEPT ![c] = <<new>> \o @]
  <2>0. /\ store[x].objects = ListOf[x] /\ store[x].objects \in Seq(Ids)
        /\ \A z \in ToSet(store[x].objects): z \in Ids /\ Listed(x, z) /\ Exists(z) /\ z \in born
    BY <1>1, <1>8, ReadList
  <2>1. new \in Frame
    <3>1. store[x] \in Entry
      BY <1>8 DEF Good, TreeTypeOK, Exists
    <3>2. 1 \in Nat /\ (store[x].folder /\ r) \in BOOLEAN
      OBVIOUS
    <3> QED BY <1>8, <3>1, <3>2 DEF Entry, Frame
  <2>2. /\ new.file = x /\ new.parent = store[x].parent /\ (new.loop <=> store[x].folder /\ r)
        /\ new.list = store[x].objects /\ new.turn = 1
    OBVIOUS
  <2> DEFINE F == frames[c]
             G == frames'[c]
  <2> HIDE DEF new
  <2>3. F \in Seq(Frame) /\ G = <<new>> \o F
    BY <1>8 DEF Good, TreeTypeOK
  <2>4. /\ Len(G) = Len(F) + 1 /\ G[1] = new /\ \A i \in 1..Len(F): G[i + 1] = F[i]
        /\ DOMAIN G = 1..(Len(F) + 1) /\ Len(F) \in Nat /\ DOMAIN F = 1..Len(F)
        /\ G # <<>>
    BY <2>1, <2>3, Pushed
  <2>5. \A i \in DOMAIN G: \A y \in ToSet(G[i].list):
          Exists(y) \/ \E j \in DOMAIN F: y \in ToSet(F[j].list)
    <3> SUFFICES ASSUME NEW i \in DOMAIN G, NEW y \in ToSet(G[i].list)
        PROVE  Exists(y) \/ \E j \in DOMAIN F: y \in ToSet(F[j].list)
      OBVIOUS
    <3> HIDE DEF F, G
    <3>1. CASE i = 1
      BY <2>0, <2>2, <2>4, <3>1
    <3>2. CASE i # 1
      <4>1. i - 1 \in DOMAIN F /\ G[i] = F[i - 1]
        BY <2>4, <3>2
      <4> QED BY <4>1
    <3> QED BY <3>1, <3>2
  <2>6. Apart(c) /\ (CallInv(c)' => Good')
    BY <1>1, <1>3, <2>4, <2>5, QuietKeeps
  <2>7. \A z \in Ids: Listed(x, z) <=> Below(z, x)
    <3> SUFFICES ASSUME NEW z \in Ids PROVE Listed(x, z) <=> Below(z, x) OBVIOUS
    <3>1. OwnLists(c, x, z)
      BY <1>1, <1>4, <2>6, OwnListsHold DEF Good
    <3>2. ~ArrivingBy(c, x, z) /\ ~LeavingBy(c, x, z)
      BY <1>1 DEF ArrivingBy, LeavingBy
    <3> QED BY <1>8, <3>1, <3>2 DEF OwnLists
  <2>8. ASSUME NEW i \in DOMAIN F, NEW f \in Usable, FrameInv(c, i, f) PROVE FrameInv(c, i + 1, f)'
    <3>0. i \in 1..Len(F) /\ i + 1 \in DOMAIN G /\ i \in Nat
      BY <2>4
    <3>1. G[i + 1] = F[i] /\ (i + 1 = Len(G) => i = Len(F))
      BY <2>4, <3>0
    <3>2. i + 1 < Len(G) => i < Len(F) /\ G[i + 1 + 1] = F[i + 1]
      <4>1. i + 1 < Len(G) => i + 1 \in 1..Len(F)
        BY <2>4, <3>0
      <4> QED BY <2>4, <4>1
    <3>3. Exists(f)' /\ store'[f].folder = store[f].folder
      BY <1>1, <2>8 DEF FrameInv, Exists
    <3>4. ASSUME NEW y \in Usable, Below(y, f)', i > 1, y = F[i - 1].file
          PROVE  i + 1 > 1 /\ y = G[i + 1 - 1].file
      <4>1. i - 1 \in 1..Len(F) /\ i + 1 - 1 = (i - 1) + 1
        BY <3>0, <3>4
      <4>2. G[(i - 1) + 1] = F[i - 1]
        BY <2>4, <4>1
      <4> QED BY <3>0, <3>4, <4>1, <4>2
    <3>5. ASSUME NEW y \in Usable, Below(y, f)', i = 1, agenda[c] = <<<<"delete", y, TRUE>>>>
          PROVE  i + 1 > 1 /\ y = G[i + 1 - 1].file
      <4>1. Head(agenda[c]) = <<"delete", y, TRUE>>
        BY <3>5, SingleHead
      <4>2. y = x
        BY <1>0, <4>1 DEF Subject
      <4>3. G[i + 1 - 1] = new
        BY <2>4, <3>5
      <4> QED BY <2>2, <3>5, <4>2, <4>3
    <3>6. PICK j: j = i + 1
      OBVIOUS
    <3>7. \A y \in Usable: Below(y, f)' =>
            /\ i > 1 /\ y = F[i - 1].file =>
                 \/ j > 1 /\ y = G[j - 1].file
                 \/ j = 1 /\ agenda'[c] = <<<<"delete", y, TRUE>>>>
            /\ i = 1 /\ agenda[c] = <<<<"delete", y, TRUE>>>> =>
                 \/ j > 1 /\ y = G[j - 1].file
                 \/ j = 1 /\ agenda'[c] = <<<<"delete", y, TRUE>>>>
      <4> SUFFICES ASSUME NEW y \in Usable, Below(y, f)'
          PROVE  /\ i > 1 /\ y = F[i - 1].file => j > 1 /\ y = G[j - 1].file
                 /\ i = 1 /\ agenda[c] = <<<<"delete", y, TRUE>>>> => j > 1 /\ y = G[j - 1].file
        OBVIOUS
      <4>1. i > 1 /\ y = F[i - 1].file => i + 1 > 1 /\ y = G[i + 1 - 1].file
        BY <3>4
      <4>2. i = 1 /\ agenda[c] = <<<<"delete", y, TRUE>>>> => i + 1 > 1 /\ y = G[i + 1 - 1].file
        BY <3>5
      <4>3. j - 1 = i + 1 - 1 /\ (i + 1 > 1 => j > 1)
        BY <3>0, <3>6
      <4> QED BY <4>1, <4>2, <4>3
    <3>8. /\ j \in DOMAIN G /\ G[j] = F[i] /\ (j = Len(G) => i = Len(F))
          /\ j < Len(G) => i < Len(F) /\ G[j + 1] = F[i + 1]
      BY <3>0, <3>1, <3>2, <3>6
    <3>9. FrameInv(c, j, f)'
      BY <1>4, <1>6, <2>8, <3>3, <3>7, <3>8, FrameKeeps
    <3> QED BY <3>6, <3>9
  <2>9. FrameInv(c, 1, x)'
    <3>1. asked[c][2] = r /\ (F = <<>> => asked[c][1] = x)
      <4>1. CASE F = <<>>
        <5>1. asked[c] = <<x, r>>
          BY <1>5, <4>1 DEF Asking
        <5> QED BY <5>1
      <4>2. CASE F # <<>>
        <5>1. PICK y \in Usable: Descending(c, y, x)
          BY <1>5, <4>2
        <5>2. PICK f \in Usable: FrameInv(c, 1, f)
          BY <1>5, <4>2, FrameOf DEF DeleteInv, Good
        <5>3. asked[c][2] = TRUE
          <6>1. asked[c] \in Ids \X BOOLEAN
            BY <1>5, <4>2 DEF DeleteInv, Good, TreeTypeOK
          <6>2. F[1].loop /\ (F[1].loop <=> asked[c][2] /\ store[f].folder)
            BY <4>2, <5>1, <5>2, FrameOf DEF Descending, FrameInv, Good
          <6> QED BY <6>1, <6>2
        <5> QED BY <1>5, <4>2, <5>3
      <4> QED BY <4>1, <4>2
    <3>2. 1 < Len(G) => new.parent = G[2].file /\ asked[c][2]
      <4> SUFFICES ASSUME 1 < Len(G) PROVE new.parent = G[2].file /\ asked[c][2]
        OBVIOUS
      <4>1. F # <<>> /\ 1 \in 1..Len(F) /\ G[2] = F[1]
        <5>1. 1 \in 1..Len(F)
          BY <2>4
        <5> QED BY <2>4, <5>1
      <4>2. PICK y \in Usable: Descending(c, y, x)
        BY <1>5, <4>1
      <4>3. F[1].file = y /\ Below(x, y)
        BY <1>8, <4>1, <4>2, FrameOf DEF Descending, Good
      <4> QED BY <1>5, <2>2, <3>1, <4>1, <4>3 DEF Below
    <3>3. 1 = Len(G) => F = <<>>
      BY <2>3, <2>4, EmptySeq
    <3>4. Exists(x)' /\ store'[x] = store[x]
      BY <1>1, <1>8 DEF Exists
    <3>5. Left(new) = DOMAIN store[x].objects
      BY <2>0, <2>2 DEF Left
    <3>6. \A z \in Ids: Below(z, x)' <=> Below(z, x)
      BY <1>1 DEF Below, Exists
    <3>7. /\ \A n \in Left(new), z \in Ids: new.list[n] = z => Below(z, x)'
          /\ \A z \in Usable: Below(z, x)' => \E n \in Left(new): new.list[n] = z
      <4>1. \A z \in Ids: Below(z, x) <=> \E n \in DOMAIN store[x].objects: store[x].objects[n] = z
        BY <1>8, <2>0, <2>7, ToSetIs DEF Listed
      <4> QED BY <2>2, <3>5, <3>6, <4>1 DEF Ids
    <3>8. ToSet(new.list) \subseteq born /\ new.list \in Seq(Ids)
      BY <2>0, <2>2
    <3>9. new.loop <=> asked[c][2] /\ store[x].folder
      BY <1>1, <2>2, <3>1
    <3>10. G[1] = new
      BY <2>4
    <3>11. 1 = Len(G) => asked[c][1] = x
      BY <3>1, <3>3
    <3> HIDE DEF F
    <3>12. /\ G[1].file = x /\ x \in touched'[c] /\ Exists(x)' /\ G[1].parent = store'[x].parent
           /\ 1 = Len(G) => asked'[c][1] = x
           /\ 1 < Len(G) => G[1].parent = G[1 + 1].file /\ asked'[c][2]
           /\ G[1].loop <=> asked'[c][2] /\ store'[x].folder
           /\ G[1].turn > 0 /\ G[1].list \in Seq(Ids) /\ ToSet(G[1].list) \subseteq born'
      BY <1>4, <2>2, <3>2, <3>4, <3>8, <3>9, <3>10, <3>11
    <3> QED BY <3>7, <3>10, <3>12 DEF FrameInv
  <2>10. CallInv(c)'
    <3>1. \A i \in DOMAIN G: \E f \in Usable: FrameInv(c, i, f)'
      <4> SUFFICES ASSUME NEW i \in DOMAIN G PROVE \E f \in Usable: FrameInv(c, i, f)'
        OBVIOUS
      <4>1. CASE i = 1
        BY <1>8, <2>9, <4>1
      <4>2. CASE i # 1
        <5>1. i - 1 \in DOMAIN F /\ (i - 1) + 1 = i /\ F # <<>>
          BY <2>4, <4>2
        <5>2. PICK f \in Usable: FrameInv(c, i - 1, f)
          BY <1>5, <5>1 DEF DeleteInv
        <5>3. FrameInv(c, (i - 1) + 1, f)'
          BY <2>8, <5>1, <5>2
        <5> QED BY <5>1, <5>3
      <4> QED BY <4>1, <4>2
    <3>2. asked'[c] # Nothing
      <4>1. CASE F = <<>>
        <5>1. asked[c] = <<x, r>> /\ <<x, r>> \in Ids \X BOOLEAN
          BY <1>1, <1>5, <4>1 DEF Asking
        <5> QED BY <1>4, <5>1, FileTreeAssumption
      <4>2. CASE F # <<>>
        BY <1>4, <1>5, <4>2 DEF DeleteInv
      <4> QED BY <4>1, <4>2
    <3> QED BY <1>1, <2>4, <3>1, <3>2 DEF CallInv, DeleteInv
  <2> QED BY <2>6, <2>10
<1> QED BY <1>2, <1>7, <1>8

\* The turn of the loop over the children, or after the last one the entry itself.
LEMMA TurnKeeps ==
  ASSUME Good, TypeInv, TreeTypeOK', clean', NEW c \in Clients, DoTurn(c)
  PROVE  Good'
<1> DEFINE frame == Head(frames[c])
           F == frames[c]
           G == frames'[c]
<1>0. PICK f \in Usable: FrameInv(c, 1, f)
  BY FrameOf DEF DoTurn, Turn, Good, CallsInv, CallInv, DeleteInv
<1>1. /\ F # <<>> /\ frame = F[1] /\ frame \in Frame /\ frame.file = f /\ f \in Ids
      /\ 1 \in DOMAIN F /\ F \in Seq(Frame) /\ Len(F) \in Nat /\ DOMAIN F = 1..Len(F)
  BY <1>0, FrameOf DEF DoTurn, Turn, Good, FrameInv, Ids
<1>2. /\ StepOn(c, f) /\ draft[c] = Nothing /\ draft' = draft /\ store' = store
      /\ agenda[c] = <<>> /\ DeleteInv(c)
  BY <1>1, TurnShape, ShapeOn DEF Good, CallsInv, CallInv, DoTurn, Turn
<1>3. SameTree /\ DraftInv' /\ ListOf'[f] = ListOf[f]
  BY <1>2, Still DEF Good
<1>4. touched[c] \subseteq touched'[c] /\ f \in touched'[c] /\ mode' = mode /\ born' = born /\ asked' = asked
  BY <1>2 DEF StepOn, Good, TreeTypeOK
<1>5. PICK list: list = IF ~frame.loop \/ (mode = "local" /\ ~Exists(f)) THEN <<>>
                        ELSE IF mode = "local" THEN store[f].objects ELSE frame.list
  OBVIOUS
<1> DEFINE own == Unless(frame.parent = Root, <<"unlink", frame.parent, f>>) \o <<<<"drop", f, Nothing>>>>
           next == [frame EXCEPT !.turn = @ + 1]
<1>6. IF frame.turn > Len(list) THEN Continue(c, own) /\ UNCHANGED frames
      ELSE IF list[frame.turn] \notin Ids
      THEN Continue(c, <<>>) /\ frames' = [frames EXCEPT ![c] = <<>>]
      ELSE /\ Continue(c, <<<<"delete", list[frame.turn], TRUE>>>>)
           /\ frames' = [frames EXCEPT ![c] = <<next>> \o Tail(@)]
  BY <1>1, <1>5 DEF DoTurn, Turn
<1>7. /\ Exists(f) /\ store[f].objects = ListOf[f] /\ store[f].objects \in Seq(Ids)
      /\ \A z \in ToSet(store[f].objects): z \in Ids /\ Listed(f, z) /\ Exists(z) /\ z \in born
  <2>1. Exists(f)
    BY <1>0 DEF FrameInv
  <2> QED BY <1>2, <2>1, ReadList
<1>8. /\ frame.list \in Seq(Ids) /\ frame.turn \in Nat /\ frame.turn > 0 /\ ToSet(frame.list) \subseteq born
      /\ frame.loop \in BOOLEAN /\ frame.parent = store[f].parent /\ frame.parent \in Usable \cup {Root}
  BY <1>0, <1>1 DEF FrameInv, Frame
<1>9. list \in Seq(Ids)
  BY <1>5, <1>7, <1>8
<1>10. \A y \in Ids: Exists(y)' => Exists(y) /\ store'[y].parent = store[y].parent
  BY <1>2 DEF Exists
<1>11. Exists(f)' /\ \A g \in Ids: Exists(g) => Exists(g)' /\ store'[g].folder = store[g].folder
  BY <1>2, <1>7 DEF Exists
<1> HIDE DEF frame
<1>12. ASSUME \A i \in DOMAIN G: \A y \in ToSet(G[i].list):
                Exists(y) \/ \E j \in DOMAIN F: y \in ToSet(F[j].list),
              G # <<>>
       PROVE  /\ Apart(c) /\ DisjointInv' /\ (CallInv(c)' => Good')
              /\ \A y \in Ids: ListOf'[y] = ListOf[y]
  <2>1. \A r \in Usable: DoomedBusy(c, r) => frames'[c] # <<>> \/ agenda'[c] = <<<<"delete", r, TRUE>>>>
    BY <1>12
  <2> QED BY <1>2, <1>3, <1>12, <2>1, QuietKeeps
<1>13. asked'[c] # Nothing
  BY <1>2, <1>4 DEF DeleteInv
<1>14. CASE frame.turn > Len(list)
  <2> HIDE DEF own
  <2>0. agenda' = [agenda EXCEPT ![c] = own] /\ frames' = frames
    BY <1>6, <1>14 DEF Continue
  <2>1. agenda'[c] = own /\ G = F
    BY <2>0 DEF Good, TreeTypeOK
  <2>2. own = IF frame.parent = Root THEN <<<<"drop", f, Nothing>>>>
              ELSE <<<<"unlink", frame.parent, f>>, <<"drop", f, Nothing>>>>
    <3> DEFINE u == <<"unlink", frame.parent, f>>
               w == <<"drop", f, Nothing>>
    <3>1. own = Unless(frame.parent = Root, u) \o <<w>>
      BY DEF own
    <3> HIDE DEF u, w
    <3>2. own = IF frame.parent = Root THEN <<w>> ELSE <<u, w>>
      BY <3>1, Joined DEF Unless
    <3> QED BY <3>2 DEF u, w
  <2>3. /\ Apart(c) /\ DisjointInv' /\ (CallInv(c)' => Good') /\ \A y \in Ids: ListOf'[y] = ListOf[y]
    <3>1. \A i \in DOMAIN G: \A y \in ToSet(G[i].list):
                Exists(y) \/ \E j \in DOMAIN F: y \in ToSet(F[j].list)
      BY <2>1
    <3> QED BY <1>1, <1>12, <2>1, <3>1
  <2>4. ASSUME NEW i \in DOMAIN G PROVE \E g \in Usable: FrameInv(c, i, g)'
    <3>1. PICK g \in Usable: FrameInv(c, i, g)
      BY <1>2, <2>1, <2>4 DEF DeleteInv
    <3>2. Exists(g)' /\ store'[g].folder = store[g].folder
      BY <1>11, <3>1 DEF FrameInv, Ids
    <3>3. \A y: agenda[c] # <<<<"delete", y, TRUE>>>>
      BY <1>2
    <3>4. FrameInv(c, i, g)'
      BY <1>4, <1>10, <2>1, <3>1, <3>2, <3>3, FrameKeeps
    <3> QED BY <3>4
  <2>5. Leaf(c, f)'
    <3>1. Head(G) = frame /\ frame.file = f
      BY <1>1, <2>1 DEF frame
    <3>2. frame.loop /\ mode = "remote" => Left(frame) = {}
      <4> SUFFICES ASSUME frame.loop, mode = "remote", NEW n \in Left(frame) PROVE FALSE
        OBVIOUS
      <4>1. n \in 1..Len(frame.list) /\ n >= frame.turn
        BY <1>8 DEF Left
      <4>2. list = frame.list
        BY <1>5
      <4> QED BY <1>8, <1>14, <4>1, <4>2
    <3>3. frame.parent \in touched'[c] \cup {Root} \/ frame.parent # Root
      OBVIOUS
    <3>4. frame.parent = Root => InNoList(f)'
      <4> SUFFICES ASSUME frame.parent = Root, NEW g \in Ids, Listed(g, f)' PROVE FALSE
        BY DEF InNoList
      <4>1. Listed(g, f) /\ Exists(g)
        BY <1>2, <2>3 DEF Listed, Exists
      <4>2. OwnLists(c, g, f)
        BY <1>1, <1>4, <2>3, OwnListsHold DEF Good
      <4>3. ~ArrivingBy(c, g, f)
        BY <1>2 DEF ArrivingBy
      <4> QED BY <1>8, <4>1, <4>2, <4>3, FileTreeAssumption DEF OwnLists, Below
    <3> QED BY <1>4, <2>1, <2>2, <3>1, <3>2, <3>4 DEF Leaf
  <2>6. DeleteInv(c)'
    BY <1>13, <2>4, <2>5 DEF DeleteInv
  <2> QED BY <1>1, <2>1, <2>3, <2>6 DEF CallInv
<1>15. CASE ~(frame.turn > Len(list))
  <2>0. PICK n: n = frame.turn
    OBVIOUS
  <2>1. n \in DOMAIN list /\ list[n] \in Ids /\ n \in Nat /\ n > 0 /\ n <= Len(list)
    BY <1>8, <1>9, <1>15, <2>0
  <2>2. PICK child: child = list[n] /\ child \in Ids
    BY <2>1
  <2>3. frame.loop /\ list = IF mode = "local" THEN store[f].objects ELSE frame.list
    <3>1. Len(<<>>) = 0 /\ list # <<>>
      BY <2>1
    <3> QED BY <1>5, <1>7, <3>1
  <2> HIDE DEF next
  <2>4. /\ agenda' = [agenda EXCEPT ![c] = <<<<"delete", child, TRUE>>>>]
        /\ frames' = [frames EXCEPT ![c] = <<next>> \o Tail(@)]
    BY <1>6, <1>15, <2>0, <2>1, <2>2 DEF Continue
  <2>5. agenda'[c] = <<<<"delete", child, TRUE>>>> /\ G = <<next>> \o Tail(F)
    BY <2>4 DEF Good, TreeTypeOK
  <2>6. /\ next.file = f /\ next.parent = frame.parent /\ next.loop = frame.loop
        /\ next.list = frame.list /\ next.turn = n + 1 /\ next \in Frame
    <3>1. next = [file |-> frame.file, parent |-> frame.parent, loop |-> frame.loop,
                  list |-> frame.list, turn |-> frame.turn + 1]
      BY <1>1 DEF next, Frame
    <3>2. f \in Usable /\ frame.parent \in Usable \cup {Root} /\ frame.loop \in BOOLEAN
          /\ frame.turn + 1 \in Nat /\ frame.list \in Seq(Ids \cup {Dict(x): x \in Ids})
      BY <1>0, <1>1, <1>8 DEF Frame
    <3> QED BY <1>1, <2>0, <3>1, <3>2 DEF Frame
  <2>7. /\ Len(G) = Len(F) /\ G[1] = next /\ DOMAIN G = DOMAIN F /\ G # <<>> /\ Head(G) = next
        /\ \A i \in DOMAIN F: i # 1 => G[i] = F[i]
    <3>1. /\ Tail(F) \in Seq(Frame) /\ Len(Tail(F)) = Len(F) - 1 /\ Len(F) >= 1
          /\ \A i \in 1..(Len(F) - 1): Tail(F)[i] = F[i + 1]
      BY <1>1, FrameOf DEF Good
    <3>2. /\ Len(G) = Len(Tail(F)) + 1 /\ G[1] = next /\ DOMAIN G = 1..(Len(Tail(F)) + 1)
          /\ \A i \in 1..Len(Tail(F)): G[i + 1] = Tail(F)[i]
          /\ G # <<>> /\ Head(G) = next
      BY <2>5, <2>6, <3>1, Pushed
    <3> HIDE DEF F, G
    <3>3. ASSUME NEW i \in DOMAIN F, i # 1 PROVE G[i] = F[i]
      <4>1. i - 1 \in 1..Len(Tail(F)) /\ i - 1 \in 1..(Len(F) - 1) /\ i = (i - 1) + 1
        BY <1>1, <3>1, <3>3
      <4>2. G[(i - 1) + 1] = F[(i - 1) + 1]
        BY <3>1, <3>2, <4>1
      <4> QED BY <4>1, <4>2
    <3> QED BY <1>1, <3>1, <3>2, <3>3
  <2>8. \A i \in DOMAIN F: G[i].list = F[i].list /\ G[i].file = F[i].file
    BY <1>1, <2>6, <2>7 DEF frame
  <2>9. /\ Apart(c) /\ DisjointInv' /\ (CallInv(c)' => Good') /\ \A y \in Ids: ListOf'[y] = ListOf[y]
    <3>1. \A i \in DOMAIN G: \A y \in ToSet(G[i].list):
                Exists(y) \/ \E j \in DOMAIN F: y \in ToSet(F[j].list)
      BY <2>7, <2>8
    <3> QED BY <1>12, <2>7, <3>1
  <2>10. child \in Usable /\ Exists(child) => Below(child, f)
    <3>1. CASE mode = "local"
      <4>1. Listed(f, child)
        BY <1>7, <2>1, <2>2, <2>3, <3>1, ToSetIs
      <4>2. OwnLists(c, f, child)
        BY <1>1, <1>4, <2>2, <2>9, OwnListsHold DEF Good
      <4>3. ~ArrivingBy(c, f, child)
        BY <1>2 DEF ArrivingBy
      <4> QED BY <1>7, <4>1, <4>2, <4>3 DEF OwnLists
    <3>2. CASE mode # "local"
      <4>1. mode = "remote"
        BY <3>2, FileTreeAssumption DEF Good, TreeTypeOK
      <4>2. n \in Left(frame)
        BY <2>0, <2>1, <2>3, <3>2 DEF Left
      <4> QED BY <1>0, <1>1, <2>1, <2>2, <2>3, <3>2, <4>1, <4>2 DEF FrameInv
    <3> QED BY <3>1, <3>2
  <2>11. Descending(c, f, child)'
    <3>1. mode' = "remote" => child \in ToSet(next.list)
      BY <1>4, <2>1, <2>2, <2>3, <2>6, ToSetIs
    <3>2. child \in Usable /\ Exists(child)' => Below(child, f)'
      BY <1>2, <2>10 DEF Below, Exists
    <3> QED BY <2>3, <2>5, <2>6, <2>7, <3>1, <3>2 DEF Descending
  <2>12. FrameInv(c, 1, f)'
    <3>1. Left(next) \subseteq Left(frame) /\ Left(frame) \subseteq Left(next) \cup {n}
      <4>1. \A k \in DOMAIN frame.list: k \in Nat
        BY <1>8
      <4> QED BY <2>0, <2>1, <2>6, <4>1 DEF Left
    <3>2. mode' = "remote" /\ next.loop =>
            /\ \A k \in Left(next), y \in Ids: next.list[k] = y => (y \in Usable /\ Exists(y)' => Below(y, f)')
            /\ \A y \in Usable: Below(y, f)' =>
                 \/ agenda'[c] = <<<<"delete", y, TRUE>>>>
                 \/ \E k \in Left(next): next.list[k] = y
      <4> SUFFICES ASSUME mode = "remote"
          PROVE /\ \A k \in Left(next), y \in Ids: next.list[k] = y => (y \in Usable /\ Exists(y)' => Below(y, f)')
                /\ \A y \in Usable: Below(y, f)' =>
                     \/ agenda'[c] = <<<<"delete", y, TRUE>>>>
                     \/ \E k \in Left(next): next.list[k] = y
        BY <1>4
      <4>1. /\ \A k \in Left(frame), y \in Ids: frame.list[k] = y => (y \in Usable /\ Exists(y) => Below(y, f))
            /\ \A y \in Usable: Below(y, f) =>
                 \/ 1 > 1 /\ y = F[1 - 1].file
                 \/ agenda[c] = <<<<"delete", y, TRUE>>>>
                 \/ \E k \in Left(frame): frame.list[k] = y
        BY <1>0, <1>1, <2>3 DEF FrameInv
      <4>2. \A y \in Ids: (Below(y, f)' <=> Below(y, f)) /\ (Exists(y)' <=> Exists(y))
        BY <1>2 DEF Below, Exists
      <4>3. ASSUME NEW y \in Usable, Below(y, f)', agenda'[c] # <<<<"delete", y, TRUE>>>>
            PROVE  \E k \in Left(next): next.list[k] = y
        <5>1. PICK k \in Left(frame): frame.list[k] = y
          <6>1. agenda[c] # <<<<"delete", y, TRUE>>>>
            BY <1>2
          <6>2. Below(y, f) /\ ~(1 > 1)
            BY <4>2, <4>3 DEF Ids
          <6> QED BY <4>1, <4>3, <6>1, <6>2
        <5>2. y # child
          BY <2>5, <4>3
        <5>3. k # n
          BY <2>2, <2>3, <4>1, <5>1, <5>2, FileTreeAssumption
        <5> QED BY <2>6, <3>1, <5>1, <5>3
      <4>4. ASSUME NEW k \in Left(next), NEW y \in Ids, next.list[k] = y, y \in Usable, Exists(y)'
            PROVE  Below(y, f)'
        BY <2>6, <3>1, <4>1, <4>2, <4>4
      <4> QED BY <4>3, <4>4
    <3>3. /\ next.file = f /\ f \in touched'[c] /\ Exists(f)' /\ next.parent = store'[f].parent
          /\ next.turn > 0 /\ next.list \in Seq(Ids) /\ ToSet(next.list) \subseteq born'
      BY <1>2, <1>4, <1>8, <1>11, <2>1, <2>6
    <3>4. /\ 1 = Len(G) => asked'[c][1] = f
          /\ 1 < Len(G) => next.parent = G[1 + 1].file /\ asked'[c][2]
          /\ next.loop <=> asked'[c][2] /\ store'[f].folder
      <4>1. /\ 1 = Len(F) => asked[c][1] = f
            /\ 1 < Len(F) => F[1].parent = F[1 + 1].file /\ asked[c][2]
            /\ F[1].loop <=> asked[c][2] /\ store[f].folder
        BY <1>0 DEF FrameInv
      <4>2. 1 < Len(F) => 1 + 1 \in DOMAIN F
        BY <1>1
      <4> QED BY <1>1, <1>2, <1>4, <2>6, <2>7, <2>8, <4>1, <4>2
    <3>5. G[1] = next
      BY <2>7
    <3>6. mode' = "remote" /\ G[1].loop =>
            /\ \A k \in Left(G[1]), y \in Ids: G[1].list[k] = y => (y \in Usable /\ Exists(y)' => Below(y, f)')
            /\ \A y \in Usable: Below(y, f)' =>
                 \/ 1 > 1 /\ y = G[1 - 1].file
                 \/ 1 = 1 /\ agenda'[c] = <<<<"delete", y, TRUE>>>>
                 \/ \E k \in Left(G[1]): G[1].list[k] = y
      BY <3>2, <3>5
    <3>7. /\ G[1].file = f /\ f \in touched'[c] /\ Exists(f)' /\ G[1].parent = store'[f].parent
          /\ G[1].turn > 0 /\ G[1].list \in Seq(Ids) /\ ToSet(G[1].list) \subseteq born'
          /\ 1 = Len(G) => asked'[c][1] = f
          /\ 1 < Len(G) => G[1].parent = G[1 + 1].file /\ asked'[c][2]
          /\ G[1].loop <=> asked'[c][2] /\ store'[f].folder
      BY <3>3, <3>4, <3>5
    <3> HIDE DEF next
    <3> QED BY <3>6, <3>7 DEF FrameInv
  <2>13. ASSUME NEW i \in DOMAIN G, i # 1 PROVE \E g \in Usable: FrameInv(c, i, g)'
    <3>0. i \in DOMAIN F /\ i > 1 /\ i \in 1..Len(F)
      BY <1>1, <2>7, <2>13
    <3>1. PICK g \in Usable: FrameInv(c, i, g)
      BY <1>2, <3>0 DEF DeleteInv
    <3>2. Exists(g)' /\ store'[g].folder = store[g].folder
      BY <1>11, <3>1 DEF FrameInv, Ids
    <3>3. i - 1 \in DOMAIN F /\ (i < Len(F) => i + 1 \in DOMAIN F /\ i + 1 # 1)
      BY <1>1, <3>0
    <3>4. G[i] = F[i] /\ Len(G) = Len(F) /\ G[i - 1].file = F[i - 1].file /\ (i < Len(F) => G[i + 1] = F[i + 1])
      BY <2>7, <2>8, <2>13, <3>0, <3>3
    <3>5. \A y: agenda[c] # <<<<"delete", y, TRUE>>>>
      BY <1>2
    <3>6. FrameInv(c, i, g)'
      BY <1>4, <1>10, <2>13, <3>0, <3>1, <3>2, <3>4, <3>5, FrameKeeps
    <3> QED BY <3>6
  <2>14. DeleteInv(c)'
    BY <1>0, <1>13, <2>2, <2>11, <2>12, <2>13 DEF DeleteInv
  <2> QED BY <2>7, <2>9, <2>14 DEF CallInv
<1> QED BY <1>14, <1>15

\* A list that is changed is, from then on, what it will be once it is set.
LEMMA ChangedIs ==
  ASSUME Good, TreeTypeOK', NEW c \in Clients, NEW f \in Usable, StepOn(c, f), f = Subject(c),
         Exists(f), draft[c] = Nothing, NEW objects \in Seq(Ids), Changed(c, store[f], objects)
  PROVE  /\ SameTree /\ DraftInv' /\ DisjointInv' /\ ListOf[f] = store[f].objects
         /\ ListOf'[f] = objects
<1>1. f \in Ids /\ store[f] \in Entry /\ mode \in {"remote", "local"}
  BY FileTreeAssumption DEF Good, TreeTypeOK, Exists, Ids
<1> DEFINE new == [store[f] EXCEPT !.objects = objects]
<1>2. new.parent = store[f].parent /\ new.folder = store[f].folder /\ new.objects = objects /\ new \in Entry
  <2>1. store[f].parent \in Usable \cup {Root} /\ store[f].folder \in BOOLEAN
    BY <1>1 DEF Entry
  <2>2. new = [parent |-> store[f].parent, folder |-> store[f].folder, objects |-> objects]
    BY <1>1 DEF Entry
  <2>3. objects \in Seq(Ids \cup {Dict(x): x \in Ids})
    OBVIOUS
  <2> QED BY <2>1, <2>2, <2>3 DEF Entry
<1>3. \/ mode = "local" /\ store' = [store EXCEPT ![f] = new] /\ draft' = draft
      \/ /\ mode = "remote" /\ store' = store
         /\ draft' = [draft EXCEPT ![c] = [file |-> f, entry |-> new]]
  BY <1>1 DEF Changed
<1> HIDE DEF new
<1>4. \/ mode = "local" /\ store'[f] = new /\ draft'[c] = Nothing
      \/ mode = "remote" /\ store'[f] = store[f] /\ draft'[c] = [file |-> f, entry |-> new]
  BY <1>1, <1>3 DEF Good, TreeTypeOK
<1>5. Exists(f)' /\ store'[f].parent = store[f].parent /\ store'[f].folder = store[f].folder
  <2>1. CASE store'[f] = store[f]
    BY <2>1 DEF Exists
  <2>2. CASE store'[f] = new
    BY <1>1, <1>2, <2>2, FileTreeAssumption DEF Exists
  <2> QED BY <1>4, <2>1, <2>2
<1>6. SameTree
  BY <1>5 DEF SameTree, StepOn, Exists
<1>7. DraftInv'
  <2>1. draft'[c] # Nothing => /\ mode = "remote" /\ f \in Usable /\ Exists(f)'
                               /\ draft'[c].entry.parent = store'[f].parent
                               /\ draft'[c].entry.folder = store'[f].folder
    BY <1>2, <1>4, <1>5
  <2> QED BY <2>1, StepDraft DEF Good
<1>8. DisjointInv'
  BY StepDisjoint DEF Good
<1>9. /\ ListOf[f] = store[f].objects
      /\ ListOf'[f] = IF draft'[c] # Nothing THEN draft'[c].entry.objects ELSE store'[f].objects
  BY <1>7, <1>8, StepLists DEF Good
<1>10. draft'[c] # Nothing <=> mode = "remote"
  <2>1. [file |-> f, entry |-> new] \in Draft
    BY <1>1, <1>2 DEF Draft
  <2> QED BY <1>4, <2>1, FileTreeAssumption
<1> QED BY <1>2, <1>4, <1>6, <1>7, <1>8, <1>9, <1>10

\* The new child is put into the list of the folder, if it is not in it.
LEMMA LinkKeeps ==
  ASSUME Good, TypeInv, TreeTypeOK', clean', NEW c \in Clients, DoLink(c)
  PROVE  Good'
<1>0. PICK f, x: f = Subject(c) /\ x = Argument(c)
  OBVIOUS
<1>1. /\ StepOn(c, f) /\ draft[c] = Nothing /\ agenda'[c] = Later(c) /\ frames' = frames
      /\ agenda[c] # <<>> /\ Head(agenda[c])[1] = "link" /\ f \in Usable /\ f \in Ids /\ x \in Ids
  BY <1>0, LinkShape, ShapeOn, NamedTypes DEF Good, DoLink, Now, Ids
<1>2. /\ frames[c] = <<>> /\ x \in touched[c] /\ Sound(c, f)
      /\ \/ Linking(c, x, f)
         \/ x \in Usable /\ Target(c, x, f) /\ Exists(x) /\ Between(c, x, f)
  <2>1. /\ frames[c] = <<>>
        /\ \/ \E y \in Ids, p \in Usable: Linking(c, y, p)
           \/ \E y \in Usable, p \in Usable: Target(c, y, p) /\ Exists(y) /\ Between(c, y, p)
    BY <1>1, Kinds DEF Good, CallsInv
  <2>2. CASE \E y \in Ids, p \in Usable: Linking(c, y, p)
    <3>1. PICK y \in Ids, p \in Usable: Linking(c, y, p)
      BY <2>2
    <3>2. y = x /\ p = f
      BY <1>0, <3>1, LinkingHead DEF Subject, Argument
    <3> QED BY <2>1, <3>1, <3>2 DEF Linking
  <2>3. CASE \E y \in Usable, p \in Usable: Target(c, y, p) /\ Exists(y) /\ Between(c, y, p)
    <3>1. PICK y \in Usable, p \in Usable: Target(c, y, p) /\ Exists(y) /\ Between(c, y, p)
      BY <2>3
    <3>2. y = x /\ p = f
      BY <1>0, <3>1, BetweenHead DEF Subject, Argument
    <3> QED BY <2>1, <3>1, <3>2 DEF Target
  <2> QED BY <2>1, <2>2, <2>3
<1>3. Exists(f) /\ store[f].folder /\ f \in touched[c]
  BY <1>1, <1>2, FileTreeAssumption DEF Sound, IsFolder
<1>4. /\ touched[c] \subseteq touched'[c] /\ touched'[c] = touched[c] /\ f \in touched'[c] /\ x \in touched'[c]
      /\ mode' = mode
  BY <1>1, <1>2, <1>3 DEF StepOn, Good, TreeTypeOK
<1>5. /\ SameTree /\ DraftInv' /\ DisjointInv' /\ Plain(ListOf'[f])
      /\ \A y: y \in ToSet(ListOf'[f]) <=> y \in ToSet(ListOf[f]) \/ y = x
      /\ mode = "remote" => store' = store
  <2>1. PICK e \in Gets(f):
          /\ Read(c, f, e)
          /\ IF e # Nothing /\ e.folder /\ x \notin Elements(e)
             THEN Changed(c, e, Append(e.objects, x))
             ELSE UNCHANGED <<store, draft>>
    BY <1>0 DEF DoLink
  <2>2. e = store[f] /\ e # Nothing
    BY <1>1, <1>3, <2>1, Fetched
  <2>3. Plain(ListOf[f]) /\ ListOf[f] \in Seq(Ids)
    BY <1>1, <1>3 DEF Good, EntryInv, Plain
  <2>4. ListOf[f] = store[f].objects
    <3>1. AsDrafted
      BY ListIs DEF Good
    <3>2. \A d \in Clients: ~Drafts(d, f)
      BY <1>1, <1>3 DEF Good, DraftInv, DisjointInv, Drafts, Busy
    <3> QED BY <1>1, <3>1, <3>2 DEF AsDrafted
  <2>5. CASE x \in Elements(e)
    <3>1. store' = store /\ draft' = draft
      BY <2>1, <2>5
    <3>2. SameTree /\ DraftInv' /\ ListOf'[f] = ListOf[f] /\ DisjointInv'
      BY <1>1, <3>1, Still, StepDisjoint DEF Good
    <3> QED BY <2>2, <2>3, <2>4, <2>5, <3>1, <3>2 DEF Elements
  <2>6. CASE x \notin Elements(e)
    <3>1. Changed(c, store[f], Append(ListOf[f], x))
      BY <1>3, <2>1, <2>2, <2>4, <2>6
    <3>2. Append(ListOf[f], x) \in Seq(Ids)
      BY <1>1, <2>3
    <3>3. SameTree /\ DraftInv' /\ DisjointInv' /\ ListOf'[f] = Append(ListOf[f], x)
      BY <1>0, <1>1, <1>3, <3>1, <3>2, ChangedIs
    <3>4. mode = "remote" => store' = store
      BY <3>1 DEF Changed
    <3> QED BY <1>1, <2>2, <2>3, <2>4, <2>6, <3>3, <3>4, PlainAppended DEF Elements
  <2> QED BY <2>5, <2>6
<1>6. \A y \in Ids: y # f => ListOf'[y] = ListOf[y]
  BY <1>1, <1>5, StepLists DEF Good
<1>7. \A g, y \in Ids: /\ (Exists(g)' <=> Exists(g)) /\ (Below(y, g)' <=> Below(y, g))
                       /\ (Listed(g, y)' <=> Listed(g, y) \/ (g = f /\ y = x))
  <2>1. \A g \in Ids: Exists(g)' <=> Exists(g)
    BY <1>5 DEF SameTree
  <2>2. \A g, y \in Ids: Below(y, g)' <=> Below(y, g)
    BY <1>5 DEF SameTree, Below
  <2> QED BY <1>3, <1>5, <1>6, <2>1, <2>2 DEF Listed
<1>8. SameStep(c, f)
  <2>1. \A y \in Ids: y \notin touched'[c] => (Listed(f, y)' <=> Listed(f, y))
    BY <1>1, <1>4, <1>7
  <2>2. \A r \in Usable: ~DoomedBusy(c, r)
    BY <1>1, <1>2, NotDoomed
  <2>3. \A i \in DOMAIN frames'[c]: \A y \in ToSet(frames'[c][i].list):
           Exists(y) \/ \E j \in DOMAIN frames[c]: y \in ToSet(frames[c][j].list)
    BY <1>1
  <2> QED BY <1>1, <1>5, <2>1, <2>2, <2>3 DEF SameStep
<1>9. Apart(c)
  BY <1>5, <1>8, SameApart
<1>10. \A g, y \in Ids: g \in touched'[c] /\ y \in touched'[c] => OwnLists(c, g, y) /\ ~ArrivingBy(c, g, y)
  BY <1>1, <1>9, OwnListsHold DEF Good, ArrivingBy
<1>11. CASE Linking(c, x, f)
  <2>1. agenda'[c] = <<>> /\ Below(x, f)
    BY <1>1, <1>11, LinkingHead DEF Later, Linking
  <2>2. ASSUME NEW g \in touched'[c] \cap Ids, NEW y \in touched'[c] \cap Ids PROVE OwnLists(c, g, y)'
    <3> SUFFICES ASSUME Exists(g)'
        PROVE  /\ Listed(g, y)' => Exists(y)' /\ Below(y, g)'
               /\ Below(y, g)' => Listed(g, y)'
      BY DEF OwnLists
    <3>1. LeavingBy(c, g, y) => y = x
      BY <1>0, <1>1 DEF LeavingBy, Argument
    <3>2. OwnLists(c, g, y) /\ ~ArrivingBy(c, g, y)
      BY <1>10, <2>2
    <3>3. Below(x, f) /\ Exists(x) /\ (Below(x, g) => g = f)
      BY <2>1 DEF Below
    <3> QED BY <1>7, <3>1, <3>2, <3>3 DEF OwnLists
  <2>3. CallInv(c)'
    BY <1>1, <1>2, <2>1 DEF CallInv, OtherInv
  <2> QED BY <1>5, <1>8, <2>2, <2>3, SameKeeps
<1>12. CASE x \in Usable /\ Target(c, x, f) /\ Exists(x) /\ Between(c, x, f)
  <2>1. agenda'[c] = <<Final(x, f)>>
    BY <1>1, <1>12, BetweenHead DEF Later
  <2>2. Final(x, f)' = Final(x, f)
    <3>1. CASE mode = "local"
      BY <1>4, <3>1 DEF Final
    <3>2. CASE mode # "local"
      <4>1. mode = "remote"
        BY <3>2, FileTreeAssumption DEF Good, TreeTypeOK
      <4> QED BY <1>4, <1>5, <4>1 DEF Final
    <3> QED BY <3>1, <3>2
  <2>3. agenda'[c] # <<>> /\ Head(agenda'[c]) = Final(x, f)
    BY <2>1, Parts
  <2>4. \/ mode = "local" /\ Final(x, f) = <<"reparent", x, f>>
        \/ /\ Final(x, f)[1] = "write" /\ Final(x, f)[2] = x
           /\ Final(x, f)[3].parent = f
    <3>1. store[x] \in Entry
      BY <1>12 DEF Good, TreeTypeOK, Exists
    <3>2. [store[x] EXCEPT !.parent = f].parent = f
      BY <3>1 DEF Entry
    <3> QED BY <3>2 DEF Final
  <2>5. ArrivingBy(c, f, x)' /\ \A g \in touched'[c]: LeavingBy(c, g, x)'
    BY <1>4, <2>3, <2>4 DEF ArrivingBy, LeavingBy
  <2>6. ASSUME NEW g \in touched'[c] \cap Ids, NEW y \in touched'[c] \cap Ids PROVE OwnLists(c, g, y)'
    <3> SUFFICES ASSUME Exists(g)'
        PROVE  /\ Listed(g, y)' => Exists(y)' /\ (Below(y, g)' \/ ArrivingBy(c, g, y)')
               /\ Below(y, g)' => Listed(g, y)' \/ LeavingBy(c, g, y)'
      BY DEF OwnLists
    <3>1. LeavingBy(c, g, y) => y = x
      BY <1>0, <1>1 DEF LeavingBy, Argument
    <3>2. OwnLists(c, g, y) /\ ~ArrivingBy(c, g, y)
      BY <1>10, <2>6
    <3> QED BY <1>7, <1>12, <2>5, <3>1, <3>2 DEF OwnLists
  <2>7. Target(c, x, f)'
    <3>1. Subtree(x)' = Subtree(x)
      BY <1>5, SubtreeSame
    <3>2. Sound(c, f)'
      BY <1>1, <1>3, <1>4, <1>5, FileTreeAssumption DEF Sound, IsFolder, SameTree
    <3>3. ~Drafts(c, x)'
      BY <1>1, <1>12 DEF Target, Drafts, StepOn
    <3> QED BY <1>4, <1>12, <3>1, <3>2, <3>3 DEF Target
  <2>8. In(c, x, f)' /\ Exists(x)'
    <3>1. store'[x].parent = store[x].parent /\ Exists(x)'
      BY <1>1, <1>5, <1>12 DEF SameTree
    <3>2. Listed(f, x)' /\ \A g \in Ids: Listed(g, x)' => g = f
      BY <1>1, <1>7, <1>12 DEF Between, InNoList
    <3>3. store'[x].parent \in touched'[c] \cup {Root}
      BY <1>4, <1>12, <3>1 DEF Between
    <3> QED BY <2>1, <2>2, <3>1, <3>2, <3>3 DEF In
  <2>9. CallInv(c)'
    BY <1>1, <1>2, <1>12, <2>7, <2>8 DEF CallInv, OtherInv, Moving
  <2> QED BY <1>5, <1>8, <2>6, <2>9, SameKeeps
<1> QED BY <1>2, <1>11, <1>12

LEMMA NotDeleting ==
  ASSUME NEW c, agenda[c] # <<>>, Head(agenda[c])[1] # "delete"
  PROVE  \A y: agenda[c] # <<<<"delete", y, TRUE>>>>
<1> SUFFICES ASSUME NEW y, agenda[c] = <<<<"delete", y, TRUE>>>> PROVE FALSE OBVIOUS
<1>1. Head(agenda[c]) = <<"delete", y, TRUE>>
  BY SingleHead
<1> QED BY <1>1

\* The child is taken off the list of its parent: then no list has it.
LEMMA UnlinkKeeps ==
  ASSUME Good, TypeInv, TreeTypeOK', clean', NEW c \in Clients, DoUnlink(c)
  PROVE  Good'
<1>0. PICK f, x: f = Subject(c) /\ x = Argument(c)
  OBVIOUS
<1>1. /\ StepOn(c, f) /\ draft[c] = Nothing /\ agenda'[c] = Later(c) /\ frames' = frames
      /\ agenda[c] # <<>> /\ Head(agenda[c])[1] = "unlink" /\ f \in Usable /\ f \in Ids /\ x \in Ids
  BY <1>0, UnlinkShape, ShapeOn, NamedTypes DEF Good, DoUnlink, Now, Ids
<1>2. /\ x \in Usable /\ x \in touched[c] /\ Below(x, f)
      /\ \/ frames[c] = <<>> /\ \E p \in Usable \cup {Root}: Target(c, x, p) /\ Out(c, x, p)
         \/ frames[c] # <<>> /\ DeleteInv(c) /\ Leaf(c, x) /\ Head(frames[c]).parent = f
  <2>1. CASE frames[c] = <<>>
    <3>1. PICK y \in Usable, p \in Usable \cup {Root}: Target(c, y, p) /\ Exists(y) /\ Out(c, y, p)
      BY <1>1, <2>1, Kinds DEF Good, CallsInv
    <3>2. y = x /\ store[y].parent = f
      BY <1>0, <3>1, OutHead DEF Subject, Argument
    <3> QED BY <2>1, <3>1, <3>2 DEF Target, Below
  <2>2. CASE frames[c] # <<>>
    <3>1. DeleteInv(c) /\ \E y \in Usable: Leaf(c, y)
      BY <1>1, <2>2, Kinds DEF Good, CallsInv
    <3>2. PICK y \in Usable: Leaf(c, y)
      BY <3>1
    <3>3. agenda[c] = <<<<"unlink", Head(frames[c]).parent, y>>, <<"drop", y, Nothing>>>>
      <4>1. agenda[c] # <<<<"drop", y, Nothing>>>>
        BY <1>1, SingleHead
      <4> QED BY <3>2, <4>1 DEF Leaf
    <3>4. Head(agenda[c]) = <<"unlink", Head(frames[c]).parent, y>>
      BY <3>3, Parts
    <3>5. y = x /\ Head(frames[c]).parent = f
      BY <1>0, <3>4 DEF Subject, Argument
    <3>6. PICK g \in Usable: FrameInv(c, 1, g)
      BY <2>2, <3>1, FrameOf DEF DeleteInv, Good
    <3>7. g = x /\ Exists(x) /\ x \in touched[c] /\ store[x].parent = f
      BY <2>2, <3>2, <3>5, <3>6, FrameOf DEF Leaf, FrameInv, Good
    <3> QED BY <2>2, <3>1, <3>2, <3>5, <3>7 DEF Below
  <2> QED BY <2>1, <2>2
<1>3. Exists(x) /\ store[x].parent = f /\ f # x /\ f # Root /\ (Exists(f) => store[f].folder)
  <2>1. EntryInv
    BY DEF Good
  <2> QED BY <1>1, <1>2, <2>1, FileTreeAssumption DEF EntryInv, Below
<1>4. /\ touched[c] \subseteq touched'[c] /\ f \in touched'[c] /\ x \in touched'[c]
      /\ mode' = mode /\ asked' = asked /\ born' = born
  BY <1>1, <1>2 DEF StepOn, Good, TreeTypeOK
<1>5. /\ SameTree /\ DraftInv' /\ DisjointInv'
      /\ Exists(f) => /\ Plain(ListOf'[f])
                      /\ \A y: y \in ToSet(ListOf'[f]) <=> y \in ToSet(ListOf[f]) /\ y # x
      /\ mode = "remote" => store' = store
  <2>1. PICK e \in Gets(f):
          /\ Read(c, f, e)
          /\ IF e # Nothing /\ e.folder /\ x \in Elements(e)
             THEN \E k \in DOMAIN e.objects:
                    /\ e.objects[k] = x /\ \A j \in 1..(k - 1): e.objects[j] # x
                    /\ Changed(c, e, RemoveAt(e.objects, k))
             ELSE UNCHANGED <<store, draft>>
    BY <1>0 DEF DoUnlink
  <2>2. (Exists(f) => e # Nothing) /\ (e # Nothing => e = store[f] /\ Exists(f))
    BY <1>1, <2>1, Fetched
  <2>3. CASE e # Nothing /\ x \in Elements(e)
    <3>1. PICK k \in DOMAIN e.objects: e.objects[k] = x /\ Changed(c, e, RemoveAt(e.objects, k))
      BY <1>3, <2>1, <2>2, <2>3
    <3>2. Plain(ListOf[f]) /\ ListOf[f] \in Seq(Ids) /\ Exists(f) /\ e = store[f]
      BY <1>1, <2>2, <2>3 DEF Good, EntryInv, Plain
    <3>3. ListOf[f] = store[f].objects
      <4>1. AsDrafted
        BY ListIs DEF Good
      <4>2. \A d \in Clients: ~Drafts(d, f)
        <5>1. \A d \in Clients \ {c}: Busy(d) => f \notin touched[d]
          BY <1>1 DEF StepOn
        <5> QED BY <1>1, <5>1 DEF Good, DraftInv, Drafts, Busy
      <4> QED BY <1>1, <4>1, <4>2 DEF AsDrafted
    <3>4. RemoveAt(ListOf[f], k) \in Seq(Ids)
      BY <3>1, <3>2, <3>3, Removed
    <3>5. /\ Plain(RemoveAt(ListOf[f], k))
          /\ \A y: y \in ToSet(RemoveAt(ListOf[f], k)) <=> y \in ToSet(ListOf[f]) /\ y # x
      BY <3>1, <3>2, <3>3, PlainRemoved
    <3>6. Changed(c, store[f], RemoveAt(ListOf[f], k))
      BY <3>1, <3>2, <3>3
    <3>7. SameTree /\ DraftInv' /\ DisjointInv' /\ ListOf'[f] = RemoveAt(ListOf[f], k)
      BY <1>0, <1>1, <3>2, <3>4, <3>6, ChangedIs
    <3>8. mode = "remote" => store' = store
      BY <3>6 DEF Changed
    <3> QED BY <3>5, <3>7, <3>8
  <2>4. CASE ~(e # Nothing /\ x \in Elements(e))
    <3>1. store' = store /\ draft' = draft
      BY <2>1, <2>4
    <3>2. SameTree /\ DraftInv' /\ ListOf'[f] = ListOf[f] /\ DisjointInv' /\ ListOf[f] = store[f].objects
      BY <1>1, <3>1, Still, StepDisjoint DEF Good
    <3>3. Exists(f) => Plain(ListOf[f]) /\ x \notin ToSet(ListOf[f])
      BY <1>1, <2>2, <2>4, <3>2 DEF Good, EntryInv, Elements
    <3> QED BY <3>1, <3>2, <3>3
  <2> QED BY <2>3, <2>4
<1>6. \A y \in Ids: y # f => ListOf'[y] = ListOf[y]
  BY <1>1, <1>5, StepLists DEF Good
<1>7. \A g, y \in Ids: /\ (Exists(g)' <=> Exists(g)) /\ (Below(y, g)' <=> Below(y, g))
                       /\ (Listed(g, y)' <=> Listed(g, y) /\ ~(g = f /\ y = x))
  <2>1. \A g \in Ids: Exists(g)' <=> Exists(g)
    BY <1>5 DEF SameTree
  <2>2. \A g, y \in Ids: Below(y, g)' <=> Below(y, g)
    BY <1>5 DEF SameTree, Below
  <2> QED BY <1>5, <1>6, <2>1, <2>2 DEF Listed
<1>8. SameStep(c, f)
  <2>1. \A y \in Ids: y \notin touched'[c] => (Listed(f, y)' <=> Listed(f, y))
    BY <1>1, <1>4, <1>7
  <2>2. \A r \in Usable: DoomedBusy(c, r) => frames'[c] # <<>> \/ agenda'[c] = <<<<"delete", r, TRUE>>>>
    BY <1>1, NotDoomed
  <2>3. \A i \in DOMAIN frames'[c]: \A y \in ToSet(frames'[c][i].list):
           Exists(y) \/ \E j \in DOMAIN frames[c]: y \in ToSet(frames[c][j].list)
    BY <1>1
  <2> QED BY <1>1, <1>5, <2>1, <2>2, <2>3 DEF SameStep
<1>9. Apart(c)
  BY <1>5, <1>8, SameApart
<1>10. \A g, y \in Ids: g \in touched'[c] \/ y \in touched'[c] =>
         (Exists(g) => (Listed(g, y) <=> Below(y, g)) /\ (Listed(g, y) => Exists(y)))
  <2> SUFFICES ASSUME NEW g \in Ids, NEW y \in Ids, g \in touched'[c] \/ y \in touched'[c], Exists(g)
      PROVE (Listed(g, y) <=> Below(y, g)) /\ (Listed(g, y) => Exists(y))
    OBVIOUS
  <2>1. OwnLists(c, g, y)
    BY <1>9, OwnListsHold DEF Good
  <2>2. ~ArrivingBy(c, g, y) /\ ~LeavingBy(c, g, y)
    BY <1>1 DEF ArrivingBy, LeavingBy
  <2> QED BY <2>1, <2>2 DEF OwnLists
<1>11. InNoList(x)'
  <2> SUFFICES ASSUME NEW g \in Ids, Listed(g, x)' PROVE FALSE
    BY DEF InNoList
  <2>1. Listed(g, x) /\ g # f
    BY <1>1, <1>7
  <2>2. Below(x, g)
    BY <1>1, <1>4, <1>10, <2>1 DEF Listed
  <2> QED BY <1>3, <2>1, <2>2 DEF Below
<1>12. ASSUME LeavingBy(c, f, x)', CallInv(c)' PROVE Good'
  <2>1. ASSUME NEW g \in touched'[c] \cap Ids, NEW y \in touched'[c] \cap Ids PROVE OwnLists(c, g, y)'
    <3> SUFFICES ASSUME Exists(g)'
        PROVE  /\ Listed(g, y)' => Exists(y)' /\ (Below(y, g)' \/ ArrivingBy(c, g, y)')
               /\ Below(y, g)' => Listed(g, y)' \/ LeavingBy(c, g, y)'
      BY DEF OwnLists
    <3> QED BY <1>7, <1>10, <1>12
  <2> QED BY <1>5, <1>8, <1>12, <2>1, SameKeeps
<1>13. CASE frames[c] = <<>> /\ \E p \in Usable \cup {Root}: Target(c, x, p) /\ Out(c, x, p)
  <2>1. PICK p \in Usable \cup {Root}: Target(c, x, p) /\ Out(c, x, p)
    BY <1>13
  <2>2. agenda'[c] = IF p = Root THEN <<Final(x, p)>> ELSE <<<<"link", p, x>>, Final(x, p)>>
    BY <1>1, <2>1, OutHead DEF Later
  <2>3. Final(x, p)' = Final(x, p) /\ store'[x] = store[x]
    BY <1>1, <1>3, <1>2, <1>4 DEF Final, StepOn, Ids
  <2>4. agenda'[c] # <<>> /\ Head(agenda'[c]) = IF p = Root THEN Final(x, p) ELSE <<"link", p, x>>
    BY <2>2, Parts
  <2>5. Final(x, p)[1] \in {"write", "reparent"} /\ Final(x, p)[2] = x
    BY DEF Final
  <2>6. LeavingBy(c, f, x)'
    BY <1>4, <2>4, <2>5 DEF LeavingBy
  <2>7. Target(c, x, p)'
    <3>1. Subtree(x)' = Subtree(x)
      BY <1>5, SubtreeSame
    <3>2. Sound(c, p)'
      BY <1>4, <1>5, <2>1 DEF Target, Sound, IsFolder, SameTree, Ids
    <3>3. ~Drafts(c, x)'
      BY <1>1, <1>3 DEF Drafts, StepOn
    <3> QED BY <1>4, <2>1, <3>1, <3>2, <3>3 DEF Target
  <2>8. Exists(x)' /\ store'[x].parent \in touched'[c] \cup {Root}
    BY <1>1, <1>3, <1>4, <2>3 DEF Exists
  <2>9. In(c, x, p)' \/ Between(c, x, p)'
    <3>1. CASE p = Root
      BY <1>11, <2>2, <2>3, <2>8, <3>1 DEF In, InNoList
    <3>2. CASE p # Root
      BY <1>11, <2>2, <2>3, <2>8, <3>2 DEF Between
    <3> QED BY <3>1, <3>2
  <2>10. CallInv(c)'
    BY <1>1, <1>2, <1>13, <2>7, <2>8, <2>9 DEF CallInv, OtherInv, Moving
  <2> QED BY <1>12, <2>6, <2>10
<1>14. CASE frames[c] # <<>> /\ DeleteInv(c) /\ Leaf(c, x) /\ Head(frames[c]).parent = f
  <2>1. agenda[c] = <<<<"unlink", f, x>>, <<"drop", x, Nothing>>>>
    <3>1. agenda[c] # <<<<"drop", x, Nothing>>>>
      BY <1>1, SingleHead
    <3> QED BY <1>14, <3>1 DEF Leaf
  <2>2. agenda'[c] = <<<<"drop", x, Nothing>>>>
    BY <1>1, <2>1, Parts DEF Later
  <2>3. Head(agenda'[c]) = <<"drop", x, Nothing>> /\ agenda'[c] # <<>>
    BY <2>2, Parts
  <2>4. LeavingBy(c, f, x)'
    BY <1>4, <2>3 DEF LeavingBy
  <2>5. Leaf(c, x)'
    BY <1>1, <1>4, <1>11, <1>14, <2>2 DEF Leaf
  <2>6. ASSUME NEW i \in DOMAIN frames'[c] PROVE \E g \in Usable: FrameInv(c, i, g)'
    <3>1. PICK g \in Usable: FrameInv(c, i, g)
      BY <1>1, <1>14, <2>6 DEF DeleteInv
    <3>2. Exists(g)' /\ store'[g].folder = store[g].folder
      BY <1>5, <3>1 DEF FrameInv, SameTree, Ids
    <3>3. \A y: agenda[c] # <<<<"delete", y, TRUE>>>>
      BY <1>1, NotDeleting
    <3>4. \A y \in Ids: Exists(y)' => Exists(y) /\ store'[y].parent = store[y].parent
      BY <1>5 DEF SameTree
    <3>5. FrameInv(c, i, g)'
      BY <1>1, <1>4, <3>1, <3>2, <3>3, <3>4, FrameKeeps
    <3> QED BY <3>5
  <2>7. DeleteInv(c)'
    BY <1>2, <1>4, <1>14, <2>5, <2>6 DEF DeleteInv
  <2>8. CallInv(c)'
    BY <1>1, <1>14, <2>7 DEF CallInv
  <2> QED BY <1>12, <2>4, <2>8
<1> QED BY <1>2, <1>13, <1>14

LEMMA FinalIs == \A x, p: Final(x, p)[1] \in {"write", "reparent"} /\ Final(x, p)[2] = x
BY DEF Final

\* Nothing is doomed by a client that deletes nothing.
LEMMA UndoomedKeeps ==
  ASSUME Good, TreeTypeOK', NEW c \in Clients, NEW x, StepOn(c, x),
         frames[c] = <<>>, agenda[c] # <<>>, Head(agenda[c])[1] # "delete",
         NEW p, Exists(x)' => /\ store'[x].parent = p
                              /\ \/ Exists(x) /\ store[x].parent = p
                                 \/ p = Root
                                 \/ p \in touched[c] \cap Usable /\ Exists(p),
         Exists(x)' /\ ~Exists(x) => \A d \in Clients: x \notin doomed[d]
  PROVE  DoomInv'
<1>1. \A d \in Clients: doomed'[d] \subseteq doomed[d] /\ doomed[d] \subseteq born
  BY DEF Good, DoomInv, StepOn, TreeTypeOK
<1>2. mode' = mode /\ born' = born
  BY DEF StepOn
<1>3. ASSUME mode = "remote" PROVE \A d \in Clients: DoomOf(d)'
  <2>1. DoomOf(c)'
    <3>1. doomed[c] = {}
      BY <1>3, NotDoomed DEF Good, DoomInv, StepOn
    <3>2. doomed'[c] = {}
      BY <1>1, <3>1
    <3> QED BY <3>2 DEF DoomOf
  <2>2. ASSUME NEW d \in Clients, d # c PROVE DoomOf(d)'
    BY <1>3, <2>2, OthersDoom DEF Good
  <2> QED BY <2>1, <2>2
<1> QED BY <1>1, <1>2, <1>3 DEF DoomInv, DoomOf

\* Its entry gets its new parent_id, when its new folder is the only one to list it.
LEMMA PlacedKeeps ==
  ASSUME Good, TreeTypeOK', NEW c \in Clients, NEW x \in Usable, NEW p \in Usable \cup {Root},
         StepOn(c, x), Target(c, x, p), In(c, x, p), Exists(x), draft[c] = Nothing,
         draft'[c] = Nothing, frames[c] = <<>>, frames' = frames, agenda'[c] = <<>>,
         store'[x] = [store[x] EXCEPT !.parent = p]
  PROVE  Good'
<1>1. /\ x \in Ids /\ store'[x].parent = p /\ store'[x].folder = store[x].folder
      /\ store'[x].objects = store[x].objects /\ Exists(x)' /\ p # x
  <2>1. store[x] \in Entry /\ x \in Ids
    BY DEF Good, TreeTypeOK, Exists, Ids
  <2>2. store'[x] \in Entry
    BY <2>1 DEF Entry
  <2> QED BY <2>1, <2>2, FileTreeAssumption DEF Entry, Exists, Target
<1>2. /\ mode' = mode /\ born' = born /\ touched'[c] = touched[c] \cup {x} /\ x \in touched[c]
      /\ \A y \in Ids: y # x => store'[y] = store[y]
      /\ \A y \in Ids: Exists(y)' <=> Exists(y)
  BY <1>1 DEF StepOn, Good, TreeTypeOK, Target, Exists
<1>3. DraftInv' /\ DisjointInv'
  BY StepDraft, StepDisjoint DEF Good
<1>4. \A y \in Ids: ListOf'[y] = ListOf[y]
  BY <1>1, <1>3, StepLists DEF Good
<1>5. p = Root \/ (p \in touched[c] /\ Exists(p) /\ store[p].folder /\ p \in Ids)
  BY DEF Target, Sound, IsFolder, Ids
<1>6. Apart(c)
  <2>1. \A y \in Ids: y \notin touched'[c] /\ Exists(x)' => (Listed(x, y)' <=> Listed(x, y))
    BY <1>1, <1>4 DEF Listed
  <2>2. store[x].parent \in touched'[c] \cup {Root} /\ store'[x].parent \in touched'[c] \cup {Root}
    BY <1>1, <1>2, <1>5 DEF In
  <2>3. \A i \in DOMAIN frames'[c]: \A y \in ToSet(frames'[c][i].list):
           Exists(y) \/ \E j \in DOMAIN frames[c]: y \in ToSet(frames[c][j].list)
    OBVIOUS
  <2> QED BY <1>1, <1>3, <2>1, <2>2, <2>3, StepApart DEF Good
<1>7. EntryInv'
  <2> SUFFICES ASSUME NEW y \in Ids, Exists(y)'
      PROVE  /\ y \in born' /\ store'[y].parent # y
             /\ store'[y].parent \in (born' \cap Usable) \cup {Root}
             /\ \A q \in Ids: Below(y, q)' /\ Exists(q)' => store'[q].folder
             /\ Plain(ListOf'[y])
    BY DEF EntryInv, Plain
  <2>1. Exists(y) /\ y \in born' /\ Plain(ListOf'[y])
    BY <1>2, <1>4 DEF Good, EntryInv
  <2>2. store'[y].parent # y /\ store'[y].parent \in (born' \cap Usable) \cup {Root}
    <3>1. CASE y = x
      <4>1. p # Root => p \in born
        BY <1>5 DEF Good, EntryInv
      <4> QED BY <1>1, <1>2, <3>1, <4>1
    <3>2. CASE y # x
      BY <1>2, <2>1, <3>2 DEF Good, EntryInv
    <3> QED BY <3>1, <3>2
  <2>3. \A q \in Ids: Below(y, q)' /\ Exists(q)' => store'[q].folder
    <3> SUFFICES ASSUME NEW q \in Ids, Below(y, q)', Exists(q) PROVE store'[q].folder
      BY <1>2
    <3>1. store'[q].folder = store[q].folder
      BY <1>1, <1>2
    <3>2. CASE y = x
      BY <1>1, <1>5, <3>1, <3>2, FileTreeAssumption DEF Below
    <3>3. CASE y # x
      <4>1. Below(y, q)
        BY <1>2, <2>1, <3>3 DEF Below
      <4> QED BY <2>1, <3>1, <4>1 DEF Good, EntryInv
    <3> QED BY <3>2, <3>3
  <2> QED BY <2>1, <2>2, <2>3
<1>8. ListInv'
  <2> SUFFICES ASSUME NEW f \in touched'[c] \cap Ids, NEW y \in touched'[c] \cap Ids
      PROVE  OwnLists(c, f, y)'
    BY <1>6, ListsKeep DEF Good, StepOn
  <2> SUFFICES ASSUME Exists(f)'
      PROVE  /\ Listed(f, y)' => Exists(y)' /\ Below(y, f)'
             /\ Below(y, f)' => Listed(f, y)'
    BY DEF OwnLists
  <2>1. Listed(f, y)' <=> Listed(f, y)
    BY <1>2, <1>4 DEF Listed
  <2>2. CASE y = x
    <3>1. Below(x, f)' <=> f = p
      BY <1>1 DEF Below
    <3>2. Listed(f, x) => f = p
      BY DEF In
    <3>3. f = p => Listed(f, x)
      BY FileTreeAssumption DEF In
    <3> QED BY <1>1, <2>1, <2>2, <3>1, <3>2, <3>3
  <2>3. CASE y # x
    <3>1. OwnLists(c, f, y)
      BY <1>6, OwnListsHold DEF Good
    <3>2. /\ agenda[c] # <<>> /\ Head(agenda[c])[1] \in {"write", "reparent"}
          /\ Head(agenda[c])[2] = x
      BY InHead, FinalIs
    <3>3. ~ArrivingBy(c, f, y) /\ ~LeavingBy(c, f, y)
      <4>1. Head(agenda[c]) # <<"reparent", y, f>>
        BY <2>3, <3>2
      <4> QED BY <2>3, <3>2, <4>1 DEF ArrivingBy, LeavingBy
    <3>4. Below(y, f)' <=> Below(y, f)
      BY <1>2, <2>3 DEF Below, Exists
    <3> QED BY <1>2, <2>1, <3>1, <3>3, <3>4 DEF OwnLists
  <2> QED BY <2>2, <2>3
<1>9. CallsInv'
  <2>1. CallInv(c)'
    BY DEF CallInv, OtherInv
  <2> QED BY <1>6, <2>1, OthersKeep DEF CallsInv, Good
<1>10. Acyclic'
  <2> SUFFICES ASSUME mode = "local", NEW S \in SUBSET Ids, S # {},
                      \A y \in S: Exists(y)' /\ store'[y].parent \in S
      PROVE FALSE
    BY <1>2 DEF Acyclic
  <2>1. Acyclic
    BY DEF Good
  <2>2. CASE x \notin S
    BY <1>2, <2>1, <2>2 DEF Acyclic
  <2>3. CASE x \in S
    <3> DEFINE T == S \ Subtree(x)
    <3>1. p \in T /\ T \in SUBSET Ids
      BY <1>1, <2>3 DEF Target
    <3>2. ASSUME NEW y \in T PROVE Exists(y) /\ store[y].parent \in T
      <4>1. y # x /\ y \in Ids
        BY <1>1, <3>2, SubtreeRoot
      <4>2. Exists(y) /\ store[y].parent \in S
        BY <1>2, <3>2, <4>1
      <4>3. store[y].parent \notin Subtree(x)
        BY <3>2, <4>1, <4>2, SubtreeDown
      <4> QED BY <4>2, <4>3
    <3> QED BY <2>1, <3>1, <3>2 DEF Acyclic
  <2> QED BY <2>2, <2>3
<1>11. DoomInv'
  <2>1. agenda[c] # <<>> /\ Head(agenda[c])[1] # "delete"
    BY InHead, FinalIs
  <2>2. p = Root \/ (p \in touched[c] \cap Usable /\ Exists(p))
    BY <1>5, FileTreeAssumption
  <2> QED BY <1>1, <2>1, <2>2, UndoomedKeeps
<1> QED BY <1>3, <1>7, <1>8, <1>9, <1>10, <1>11 DEF Good

\* Locally that is an assignment to the dict in the cache.
LEMMA ReparentKeeps ==
  ASSUME Good, TypeInv, TreeTypeOK', clean', NEW c \in Clients, DoReparent(c)
  PROVE  Good'
<1>0. PICK x, p: x = Subject(c) /\ p = Argument(c)
  OBVIOUS
<1>1. /\ StepOn(c, x) /\ draft[c] = Nothing /\ draft' = draft /\ frames' = frames
      /\ agenda'[c] = Later(c) /\ x \in Ids /\ Exists(x)
      /\ agenda[c] # <<>> /\ Head(agenda[c])[1] = "reparent"
  BY <1>0, ReparentShape, ShapeOn, NamedTypes DEF Good, DoReparent, Now, Ids
<1>2. /\ frames[c] = <<>>
      /\ \E y \in Usable, q \in Usable \cup {Root}: Target(c, y, q) /\ Exists(y) /\ In(c, y, q)
      /\ mode = "local"
  BY <1>1, Kinds DEF Good, CallsInv
<1>3. PICK y \in Usable, q \in Usable \cup {Root}: Target(c, y, q) /\ Exists(y) /\ In(c, y, q)
  BY <1>2
<1>4. Head(agenda[c]) = <<"reparent", y, q>> /\ Tail(agenda[c]) = <<>>
  BY <1>2, <1>3, InHead DEF Final
<1>5. y = x /\ q = p
  BY <1>0, <1>4 DEF Subject, Argument
<1>6. store'[x] = [store[x] EXCEPT !.parent = p]
  BY <1>0, <1>1 DEF DoReparent, Good, TreeTypeOK
<1> QED BY <1>1, <1>2, <1>3, <1>4, <1>5, <1>6, PlacedKeeps DEF Later

\* A new entry: nothing lists it or is below it yet.
LEMMA CreatedKeeps ==
  ASSUME Good, TreeTypeOK', NEW c \in Clients, NEW x \in Ids, NEW p \in Usable \cup {Root},
         NEW folder \in BOOLEAN, StepOn(c, x), Creating(c, x, p, folder), draft[c] = Nothing,
         draft'[c] = Nothing, frames[c] = <<>>, frames' = frames, agenda'[c] = Later(c),
         store'[x] = NewEntry(p, folder)
  PROVE  Good'
<1>1. /\ store'[x].parent = p /\ store'[x].objects = <<>> /\ Exists(x)' /\ p # x /\ ~Exists(x)
      /\ x \in born /\ \A y \in Ids: ~Below(y, x)
  <2>1. <<>> \in Seq(Ids \cup {Dict(y): y \in Ids})
    OBVIOUS
  <2>2. NewEntry(p, folder) \in Entry
    BY <2>1 DEF NewEntry, Entry
  <2> QED BY <2>2, FileTreeAssumption DEF NewEntry, Exists, Creating
<1>2. /\ mode' = mode /\ born' = born /\ touched'[c] = touched[c] \cup {x} /\ x \in touched[c]
      /\ \A y \in Ids: y # x => store'[y] = store[y] /\ (Exists(y)' <=> Exists(y))
  BY <1>1 DEF StepOn, Good, TreeTypeOK, Creating, Exists
<1>3. DraftInv' /\ DisjointInv'
  BY StepDraft, StepDisjoint DEF Good
<1>4. ListOf'[x] = <<>> /\ \A y \in Ids: y # x => ListOf'[y] = ListOf[y]
  BY <1>1, <1>3, StepLists DEF Good
<1>5. p = Root \/ (p \in touched[c] /\ Exists(p) /\ store[p].folder /\ p \in Ids)
  BY DEF Creating, Sound, IsFolder, Ids
<1>6. \A y: ~Listed(x, y)' /\ ~Listed(x, y)
  <2>1. DOMAIN ListOf'[x] = {}
    BY <1>4
  <2> QED BY <1>1, <2>1, ToSetIs DEF Listed
<1>7. Apart(c)
  <2>1. store'[x].parent \in touched'[c] \cup {Root}
    BY <1>1, <1>2, <1>5
  <2>2. \A i \in DOMAIN frames'[c]: \A y \in ToSet(frames'[c][i].list):
           Exists(y) \/ \E j \in DOMAIN frames[c]: y \in ToSet(frames[c][j].list)
    OBVIOUS
  <2>3. /\ InNoFrame(x)
        /\ \A d \in Clients: x \notin doomed[d]
    BY DEF Creating, InNoFrame
  <2> QED BY <1>1, <1>3, <1>6, <2>1, <2>2, <2>3, StepApart DEF Good
<1>8. EntryInv'
  <2> SUFFICES ASSUME NEW y \in Ids, Exists(y)'
      PROVE  /\ y \in born' /\ store'[y].parent # y
             /\ store'[y].parent \in (born' \cap Usable) \cup {Root}
             /\ \A q \in Ids: Below(y, q)' /\ Exists(q)' => store'[q].folder
             /\ Plain(ListOf'[y])
    BY DEF EntryInv, Plain
  <2>1. CASE y = x
    <3>1. p # Root => p \in born
      BY <1>5 DEF Good, EntryInv
    <3>2. Plain(<<>>)
      BY DEF Plain
    <3>3. \A q \in Ids: Below(y, q)' => store'[q].folder
      <4> SUFFICES ASSUME NEW q \in Ids, Below(y, q)' PROVE store'[q].folder OBVIOUS
      <4>1. q = p
        BY <1>1, <2>1 DEF Below
      <4> QED BY <1>1, <1>2, <1>5, <4>1, FileTreeAssumption
    <3> QED BY <1>1, <1>2, <1>4, <2>1, <3>1, <3>2, <3>3
  <2>2. CASE y # x
    <3>1. Exists(y) /\ store'[y] = store[y] /\ ListOf'[y] = ListOf[y]
      BY <1>2, <1>4, <2>2
    <3>2. \A q \in Ids: Below(y, q)' /\ Exists(q)' => store'[q].folder
      <4> SUFFICES ASSUME NEW q \in Ids, Below(y, q)', Exists(q)' PROVE store'[q].folder OBVIOUS
      <4>1. Below(y, q)
        BY <3>1 DEF Below
      <4>2. q # x
        BY <1>1, <4>1
      <4>3. Exists(q) /\ store'[q] = store[q]
        BY <1>2, <4>2
      <4> QED BY <3>1, <4>1, <4>3 DEF Good, EntryInv
    <3> QED BY <1>2, <3>1, <3>2 DEF Good, EntryInv
  <2> QED BY <2>1, <2>2
<1>9. /\ p = Root => agenda'[c] = <<>>
      /\ p # Root => /\ agenda'[c] = <<<<"link", p, x>>>> /\ agenda'[c] # <<>>
                     /\ Head(agenda'[c]) = <<"link", p, x>>
  <2>1. CASE p = Root
    BY <2>1, CreatingHead DEF Later
  <2>2. CASE p # Root
    <3>1. agenda'[c] = <<<<"link", p, x>>>>
      BY <2>2, CreatingHead DEF Later
    <3> QED BY <2>2, <3>1, Parts
  <2> QED BY <2>1, <2>2
<1>10. ListInv'
  <2> SUFFICES ASSUME NEW f \in touched'[c] \cap Ids, NEW y \in touched'[c] \cap Ids
      PROVE  OwnLists(c, f, y)'
    BY <1>7, ListsKeep DEF Good, StepOn
  <2> SUFFICES ASSUME Exists(f)'
      PROVE  /\ Listed(f, y)' => Exists(y)' /\ Below(y, f)'
             /\ Below(y, f)' => Listed(f, y)' \/ LeavingBy(c, f, y)'
    BY DEF OwnLists
  <2>0. \A g \in Ids: Below(x, g)' <=> g = p
    BY <1>1 DEF Below
  <2>1. CASE f = x
    <3>1. ~Below(y, x)'
      <4>1. CASE y = x
        BY <1>1, <4>1 DEF Below
      <4>2. CASE y # x
        <5>1. Below(y, x)' <=> Below(y, x)
          BY <1>2, <4>2 DEF Below
        <5> QED BY <1>1, <5>1
      <4> QED BY <4>1, <4>2
    <3> QED BY <1>6, <2>1, <3>1
  <2>2. CASE f # x
    <3>0. Exists(f) /\ OwnLists(c, f, y) /\ (Listed(f, y)' <=> Listed(f, y))
      BY <1>2, <1>4, <1>7, <2>2, OwnListsHold DEF Good, Listed
    <3>1. CASE y = x
      <4>1. ~Listed(f, x)
        BY <1>1, <3>0, <3>1 DEF OwnLists
      <4>2. f = p => LeavingBy(c, f, x)'
        BY <1>2, <1>9, FileTreeAssumption DEF LeavingBy
      <4> QED BY <2>0, <3>0, <3>1, <4>1, <4>2
    <3>2. CASE y # x
      <4>1. agenda[c] # <<>> /\ Head(agenda[c])[1] = "write" /\ Head(agenda[c])[2] = x
        BY CreatingHead
      <4>2. ~ArrivingBy(c, f, y) /\ ~LeavingBy(c, f, y)
        <5>1. Head(agenda[c]) # <<"reparent", y, f>>
          BY <4>1
        <5> QED BY <3>2, <4>1, <5>1 DEF ArrivingBy, LeavingBy
      <4>3. Below(y, f)' <=> Below(y, f)
        BY <1>2, <3>2 DEF Below
      <4> QED BY <1>2, <3>0, <3>2, <4>2, <4>3 DEF OwnLists
    <3> QED BY <3>1, <3>2
  <2> QED BY <2>1, <2>2
<1>11. CallsInv'
  <2>1. CallInv(c)'
    <3>1. CASE p = Root
      BY <1>9, <3>1 DEF CallInv, OtherInv
    <3>2. CASE p # Root
      <4>1. Below(x, p)'
        BY <1>1 DEF Below
      <4>2. Sound(c, p)'
        BY <1>1, <1>2, <1>5, <3>2 DEF Sound, IsFolder
      <4>3. Linking(c, x, p)'
        BY <1>2, <1>9, <3>2, <4>1, <4>2 DEF Linking
      <4> QED BY <3>2, <4>3 DEF CallInv, OtherInv
    <3> QED BY <3>1, <3>2
  <2> QED BY <1>7, <2>1, OthersKeep DEF CallsInv, Good
<1>12. Acyclic'
  <2> SUFFICES ASSUME mode = "local", NEW S \in SUBSET Ids, S # {},
                      \A y \in S: Exists(y)' /\ store'[y].parent \in S
      PROVE FALSE
    BY <1>2 DEF Acyclic
  <2> DEFINE T == S \ {x}
  <2>1. T \in SUBSET Ids /\ T # {}
    BY <1>1
  <2>2. ASSUME NEW y \in T PROVE Exists(y) /\ store[y].parent \in T
    <3>1. Exists(y) /\ store[y].parent \in S /\ y \in Ids
      BY <1>2
    <3> QED BY <1>1, <3>1 DEF Below
  <2> QED BY <2>1, <2>2 DEF Good, Acyclic
<1>13. DoomInv'
  <2>1. agenda[c] # <<>> /\ Head(agenda[c])[1] # "delete"
    BY CreatingHead
  <2>2. p = Root \/ (p \in touched[c] \cap Usable /\ Exists(p))
    BY <1>5, FileTreeAssumption
  <2> QED BY <1>1, <2>1, <2>2, UndoomedKeeps DEF Creating
<1> QED BY <1>3, <1>8, <1>10, <1>11, <1>12, <1>13 DEF Good

\* create_file sets the new entry, move_file the entry with its new parent_id.
LEMMA WriteKeeps ==
  ASSUME Good, TypeInv, TreeTypeOK', clean', NEW c \in Clients, DoWrite(c)
  PROVE  Good'
<1>0. PICK x, e: x = Subject(c) /\ e = Argument(c)
  OBVIOUS
<1>1. /\ StepOn(c, x) /\ draft[c] = Nothing /\ draft'[c] = Nothing /\ frames' = frames
      /\ agenda'[c] = Later(c) /\ x \in Ids /\ agenda[c] # <<>> /\ Head(agenda[c])[1] = "write"
  BY <1>0, WriteShape, ShapeOn, NamedTypes DEF Good, DoWrite, Now
<1>2. store'[x] = e
  <2>1. ~Touches(c, x, FALSE)
    BY DEF Touches
  <2> QED BY <1>0, <1>1, <2>1 DEF DoWrite, CallSet, Good, TreeTypeOK
<1>3. /\ frames[c] = <<>>
      /\ \/ \E y \in Ids, p \in Usable \cup {Root}, folder \in BOOLEAN: Creating(c, y, p, folder)
         \/ /\ mode # "local"
            /\ \E y \in Usable, p \in Usable \cup {Root}: Target(c, y, p) /\ Exists(y) /\ In(c, y, p)
  BY <1>1, Kinds DEF Good, CallsInv
<1>4. CASE \E y \in Ids, p \in Usable \cup {Root}, folder \in BOOLEAN: Creating(c, y, p, folder)
  <2>1. PICK y \in Ids, p \in Usable \cup {Root}, folder \in BOOLEAN: Creating(c, y, p, folder)
    BY <1>4
  <2>2. y = x /\ e = NewEntry(p, folder)
    BY <1>0, <2>1, CreatingHead DEF Subject, Argument
  <2> QED BY <1>1, <1>2, <1>3, <2>1, <2>2, CreatedKeeps
<1>5. CASE /\ mode # "local"
           /\ \E y \in Usable, p \in Usable \cup {Root}: Target(c, y, p) /\ Exists(y) /\ In(c, y, p)
  <2>1. PICK y \in Usable, p \in Usable \cup {Root}: Target(c, y, p) /\ Exists(y) /\ In(c, y, p)
    BY <1>5
  <2>2. Head(agenda[c]) = <<"write", y, [store[y] EXCEPT !.parent = p]>> /\ Tail(agenda[c]) = <<>>
    BY <1>5, <2>1, InHead DEF Final
  <2>3. y = x /\ e = [store[y] EXCEPT !.parent = p]
    BY <1>0, <2>2 DEF Subject, Argument
  <2> QED BY <1>1, <1>2, <1>3, <2>1, <2>2, <2>3, PlacedKeeps DEF Later
<1> QED BY <1>3, <1>4, <1>5

\* With the cache service, what is dropped is below nothing that is left.
LEMMA LeafChildless ==
  ASSUME Good, NEW c \in Clients, NEW x \in Usable, mode = "remote", frames[c] # <<>>,
         DeleteInv(c), Leaf(c, x), asked[c][2]
  PROVE  \A y \in Usable: ~Below(y, x)
<1> SUFFICES ASSUME NEW y \in Usable, Below(y, x) PROVE FALSE OBVIOUS
<1>1. PICK f \in Usable: FrameInv(c, 1, f)
  BY FrameOf DEF DeleteInv, Good
<1>2. f = x /\ Exists(x) /\ x \in Ids /\ y \in Ids
  BY <1>1, FrameOf DEF Leaf, FrameInv, Good, Ids
<1>3. store[x].folder
  BY <1>2 DEF Good, EntryInv, Below
<1>4. frames[c][1].loop /\ Left(frames[c][1]) = {}
  BY <1>1, <1>2, <1>3, FrameOf DEF FrameInv, Leaf, Good
<1>5. agenda[c] # <<<<"delete", y, TRUE>>>>
  <2>1. agenda[c] # <<>> /\ Head(agenda[c])[1] \in {"unlink", "drop"}
    <3>1. CASE agenda[c] = <<<<"drop", x, Nothing>>>>
      BY <3>1, SingleHead
    <3>2. CASE agenda[c] = <<<<"unlink", Head(frames[c]).parent, x>>, <<"drop", x, Nothing>>>>
      <4>1. Head(agenda[c]) = <<"unlink", Head(frames[c]).parent, x>> /\ agenda[c] # <<>>
        BY <3>2, Parts
      <4> QED BY <4>1
    <3> QED BY <3>1, <3>2 DEF Leaf
  <2> QED BY <2>1, NotDeleting
<1>6. \/ 1 > 1 /\ y = frames[c][1 - 1].file
      \/ 1 = 1 /\ agenda[c] = <<<<"delete", y, TRUE>>>>
      \/ \E n \in Left(frames[c][1]): frames[c][1].list[n] = y
  BY <1>1, <1>2, <1>4 DEF FrameInv
<1>7. ~(1 > 1)
  OBVIOUS
<1> QED BY <1>4, <1>5, <1>6, <1>7, Zenon

\* It is not one of the folders whose delete is still under way.
LEMMA LeafOnce ==
  ASSUME Good, NEW c \in Clients, NEW x \in Usable, frames[c] # <<>>,
         DeleteInv(c), Leaf(c, x), NEW k \in DOMAIN frames[c], k > 1
  PROVE  frames[c][k].file # x
<1> SUFFICES ASSUME frames[c][k].file = x PROVE FALSE OBVIOUS
<1> DEFINE F == frames[c]
<1>1. /\ F \in Seq(Frame) /\ Len(F) \in Nat /\ DOMAIN F = 1..Len(F) /\ F[1].file = x
      /\ \A i \in 1..Len(F): F[i] \in Frame
  BY FrameOf DEF Good, Leaf
<1>2. ASSUME NEW i \in 1..(k - 1)
      PROVE  /\ F[i].file \in Usable /\ F[i].file \in Ids /\ Exists(F[i].file)
             /\ store[F[i].file].parent = F[i + 1].file /\ asked[c][2]
  <2>1. i \in DOMAIN F /\ i < Len(F)
    BY <1>1
  <2>2. PICK f \in Usable: FrameInv(c, i, f)
    BY <2>1 DEF DeleteInv
  <2> QED BY <2>1, <2>2 DEF FrameInv, Ids
<1>3. mode = "local" \/ mode = "remote"
  BY FileTreeAssumption DEF Good, TreeTypeOK
<1>4. CASE mode = "remote"
  <2>1. k - 1 \in 1..(k - 1) /\ (k - 1) + 1 = k
    BY <1>1
  <2>2. Below(F[k - 1].file, x) /\ F[k - 1].file \in Usable /\ asked[c][2]
    <3>1. PICK i: i = k - 1
      OBVIOUS
    <3>2. i \in 1..(k - 1) /\ i + 1 = k
      BY <2>1, <3>1
    <3>3. Below(F[i].file, x) /\ F[i].file \in Usable /\ asked[c][2]
      BY <1>2, <3>2 DEF Below
    <3> QED BY <3>1, <3>3
  <2> QED BY <1>4, <2>2, LeafChildless
<1>5. CASE mode = "local"
  <2> DEFINE S == {F[i].file: i \in 1..(k - 1)}
  <2>1. S \in SUBSET Ids /\ x \in S
    <3>1. 1 \in 1..(k - 1)
      BY <1>1
    <3> QED BY <1>1, <1>2, <3>1
  <2>2. ASSUME NEW y \in S PROVE Exists(y) /\ store[y].parent \in S
    <3>1. PICK i \in 1..(k - 1): y = F[i].file
      OBVIOUS
    <3>2. Exists(y) /\ store[y].parent = F[i + 1].file
      BY <1>2, <3>1
    <3>3. CASE i = k - 1
      <4>1. i + 1 = k
        BY <1>1, <3>3
      <4> QED BY <2>1, <3>2, <4>1
    <3>4. CASE i # k - 1
      <4>1. i + 1 \in 1..(k - 1)
        BY <1>1, <3>4
      <4> QED BY <3>2, <4>1
    <3> QED BY <3>3, <3>4
  <2> QED BY <1>5, <2>1, <2>2 DEF Good, Acyclic
<1> QED BY <1>3, <1>4, <1>5

LEMMA DropKeeps ==
  ASSUME Good, TypeInv, TreeTypeOK', clean', NEW c \in Clients, DoDrop(c)
  PROVE  Good'
<1> DEFINE F == frames[c]
           G == frames'[c]
<1>0. PICK x: x = Subject(c)
  OBVIOUS
<1>1. agenda[c] # <<>> /\ Head(agenda[c])[1] = "drop"
  BY DEF DoDrop, Now
<1>2. F # <<>> /\ DeleteInv(c) /\ \E y \in Usable: Leaf(c, y)
  BY <1>1, Kinds DEF Good, CallsInv
<1>3. PICK y \in Usable: Leaf(c, y)
  BY <1>2
<1>4. agenda[c] = <<<<"drop", y, Nothing>>>> /\ InNoList(y) /\ Head(F).parent \in touched[c] \cup {Root}
  <2>1. agenda[c] # <<<<"unlink", Head(F).parent, y>>, <<"drop", y, Nothing>>>>
    <3>1. SUFFICES ASSUME agenda[c] = <<<<"unlink", Head(F).parent, y>>, <<"drop", y, Nothing>>>>
          PROVE FALSE
      OBVIOUS
    <3>2. Head(agenda[c]) = <<"unlink", Head(F).parent, y>>
      BY <3>1, Parts
    <3> QED BY <1>1, <3>2
  <2> QED BY <1>3, <2>1 DEF Leaf
<1>5. y = x /\ Tail(agenda[c]) = <<>>
  <2>1. Head(agenda[c]) = <<"drop", y, Nothing>> /\ Tail(agenda[c]) = <<>>
    BY <1>4, SingleHead
  <2> QED BY <1>0, <2>1 DEF Subject
<1>6. /\ x \in Usable /\ x \in Ids /\ Leaf(c, x) /\ InNoList(x)
  BY <1>3, <1>4, <1>5 DEF Ids
<1>7. /\ StepOn(c, x) /\ draft[c] = Nothing /\ draft'[c] = Nothing /\ agenda'[c] = <<>> /\ G = Tail(F)
  BY <1>0, <1>2, <1>5, DropShape, ShapeOn DEF Good, Later, DoDrop, Now
<1>8. store'[x] = Nothing /\ ~Exists(x)'
  <2>1. ~Touches(c, x, FALSE)
    BY DEF Touches
  <2> QED BY <1>0, <1>6, <2>1 DEF DoDrop, CallSet, Good, TreeTypeOK, Exists
<1>9. PICK g \in Usable: FrameInv(c, 1, g)
  BY <1>2, FrameOf DEF DeleteInv, Good
<1>10. /\ g = x /\ Exists(x) /\ store[x].parent \in touched[c] \cup {Root} /\ x \in touched[c]
  BY <1>2, <1>4, <1>6, <1>9, FrameOf DEF FrameInv, Leaf, Good
<1>11. /\ mode' = mode /\ born' = born /\ asked' = asked /\ touched'[c] = touched[c] /\ doomed'[c] = doomed[c]
       /\ \A z \in Ids: z # x => store'[z] = store[z] /\ (Exists(z)' <=> Exists(z))
  BY <1>10, <1>7 DEF StepOn, Good, TreeTypeOK, Exists
<1>12. DraftInv' /\ DisjointInv'
  BY <1>7, StepDraft, StepDisjoint DEF Good
<1>13. \A z \in Ids: z # x => ListOf'[z] = ListOf[z]
  BY <1>7, <1>12, StepLists DEF Good
<1>14. \A z \in Ids: Exists(z)' => z # x /\ Exists(z) /\ store'[z] = store[z] /\ ListOf'[z] = ListOf[z]
  BY <1>8, <1>11, <1>13
<1>15. /\ F \in Seq(Frame) /\ Len(F) \in Nat /\ DOMAIN F = 1..Len(F) /\ Len(F) >= 1
       /\ G \in Seq(Frame) /\ Len(G) = Len(F) - 1 /\ DOMAIN G = 1..Len(G)
       /\ \A i \in DOMAIN G: G[i] = F[i + 1] /\ i + 1 \in DOMAIN F
  BY <1>2, <1>7, FrameOf DEF Good
<1>16. Apart(c)
  <2>1. \A i \in DOMAIN G: \A z \in ToSet(G[i].list):
           Exists(z) \/ \E j \in DOMAIN F: z \in ToSet(F[j].list)
    BY <1>15
  <2> QED BY <1>7, <1>8, <1>10, <1>11, <1>12, <2>1, StepApart DEF Good
<1>17. EntryInv'
  <2> SUFFICES ASSUME NEW z \in Ids, Exists(z)'
      PROVE  /\ z \in born' /\ store'[z].parent # z
             /\ store'[z].parent \in (born' \cap Usable) \cup {Root}
             /\ \A q \in Ids: Below(z, q)' /\ Exists(q)' => store'[q].folder
             /\ Plain(ListOf'[z])
    BY DEF EntryInv, Plain
  <2>1. Exists(z) /\ store'[z] = store[z] /\ ListOf'[z] = ListOf[z]
    BY <1>14
  <2>2. \A q \in Ids: Below(z, q)' /\ Exists(q)' => store'[q].folder
    <3> SUFFICES ASSUME NEW q \in Ids, Below(z, q)', Exists(q)' PROVE store'[q].folder OBVIOUS
    <3>1. Below(z, q) /\ Exists(q) /\ store'[q] = store[q]
      BY <1>14, <2>1 DEF Below
    <3> QED BY <2>1, <3>1 DEF Good, EntryInv
  <2> QED BY <1>11, <2>1, <2>2 DEF Good, EntryInv
<1>18. ListInv'
  <2> SUFFICES ASSUME NEW f \in touched'[c] \cap Ids, NEW z \in touched'[c] \cap Ids
      PROVE  OwnLists(c, f, z)'
    BY <1>7, <1>16, ListsKeep DEF Good, StepOn
  <2> SUFFICES ASSUME Exists(f)'
      PROVE  /\ Listed(f, z)' => Exists(z)' /\ Below(z, f)'
             /\ Below(z, f)' => Listed(f, z)'
    BY DEF OwnLists
  <2>1. Exists(f) /\ (Listed(f, z)' <=> Listed(f, z))
    BY <1>14 DEF Listed
  <2>2. CASE z = x
    BY <1>6, <1>8, <2>1, <2>2 DEF InNoList, Below
  <2>3. CASE z # x
    <3>1. OwnLists(c, f, z)
      BY <1>16, OwnListsHold DEF Good
    <3>2. Head(agenda[c])[2] = x
      BY <1>0 DEF Subject
    <3>3. ~ArrivingBy(c, f, z) /\ ~LeavingBy(c, f, z)
      <4>1. Head(agenda[c]) # <<"reparent", z, f>>
        BY <1>1
      <4> QED BY <1>1, <2>3, <3>2, <4>1 DEF ArrivingBy, LeavingBy
    <3>4. Below(z, f)' <=> Below(z, f)
      BY <1>11, <2>3 DEF Below
    <3> QED BY <1>11, <2>1, <2>3, <3>1, <3>3, <3>4 DEF OwnLists
  <2> QED BY <2>2, <2>3
<1>19. Acyclic'
  <2> SUFFICES ASSUME mode = "local", NEW S \in SUBSET Ids, S # {},
                      \A z \in S: Exists(z)' /\ store'[z].parent \in S
      PROVE FALSE
    BY <1>11 DEF Acyclic
  <2>1. \A z \in S: Exists(z) /\ store[z].parent \in S
    BY <1>14
  <2> QED BY <2>1 DEF Good, Acyclic
<1>20. ASSUME NEW j \in DOMAIN G PROVE \E f \in Usable: FrameInv(c, j, f)' /\ f = G[j].file
  <2>1. PICK i: i = j + 1
    OBVIOUS
  <2>2. /\ i \in DOMAIN F /\ G[j] = F[i] /\ i > 1 /\ j \in Nat /\ i \in Nat
        /\ (j = Len(G) => i = Len(F))
        /\ j < Len(G) => i < Len(F) /\ j + 1 \in DOMAIN G /\ j + 1 = i
        /\ j > 1 => j - 1 \in DOMAIN G /\ (j - 1) + 1 = i - 1
    <3>1. j \in 1..Len(G) /\ Len(G) = Len(F) - 1 /\ Len(F) \in Nat /\ j + 1 \in DOMAIN F /\ G[j] = F[j + 1]
      BY <1>15, <1>20
    <3>2. i \in DOMAIN F /\ G[j] = F[i]
      BY <2>1, <3>1
    <3>3. DOMAIN G = 1..Len(G) /\ DOMAIN F = 1..Len(F)
      BY <1>15
    <3> HIDE DEF F, G
    <3> QED BY <2>1, <3>1, <3>2, <3>3
  <2>3. PICK f \in Usable: FrameInv(c, i, f)
    BY <1>2, <2>2 DEF DeleteInv
  <2>4. f = F[i].file /\ f # x /\ Exists(f) /\ f \in Ids
    BY <1>2, <1>6, <2>2, <2>3, LeafOnce DEF FrameInv, Ids
  <2>5. Exists(f)' /\ store'[f].folder = store[f].folder
    BY <1>11, <2>4
  <2>6. j < Len(G) => i < Len(F) /\ G[j + 1] = F[i + 1]
    <3> SUFFICES ASSUME j < Len(G) PROVE i < Len(F) /\ G[i] = F[i + 1]
      BY <2>2
    <3> QED BY <1>15, <2>2
  <2>7. \A z \in Usable: Below(z, f)' =>
          (i > 1 /\ z = F[i - 1].file => j > 1 /\ z = G[j - 1].file)
    <3> SUFFICES ASSUME NEW z \in Usable, Below(z, f)', z = F[i - 1].file
        PROVE  j > 1 /\ z = G[j - 1].file
      OBVIOUS
    <3>1. z # x
      BY <1>8 DEF Below
    <3>2. j # 1
      <4> SUFFICES ASSUME j = 1 PROVE FALSE OBVIOUS
      <4>1. z = F[1].file
        BY <2>1
      <4> QED BY <1>2, <1>6, <3>1, <4>1, FrameOf DEF Leaf, Good
    <3>3. j > 1 /\ j - 1 \in DOMAIN G /\ (j - 1) + 1 = i - 1
      BY <1>15, <2>2, <3>2
    <3>4. G[j - 1] = F[(j - 1) + 1]
      BY <1>15, <3>3
    <3> QED BY <3>3, <3>4
  <2>8. \A z: agenda[c] # <<<<"delete", z, TRUE>>>>
    BY <1>1, NotDeleting
  <2>9. \A z \in Ids: Exists(z)' => Exists(z) /\ store'[z].parent = store[z].parent
    BY <1>14
  <2>10. FrameInv(c, j, f)'
    BY <1>11, <2>2, <2>3, <2>5, <2>6, <2>7, <2>8, <2>9, FrameKeeps
  <2> QED BY <2>2, <2>4, <2>10
<1>21. CallsInv'
  <2>1. CallInv(c)'
    <3>1. CASE G = <<>>
      BY <1>7, <3>1 DEF CallInv, OtherInv
    <3>2. CASE G # <<>>
      <4>1. \A j \in DOMAIN G: \E f \in Usable: FrameInv(c, j, f)'
        BY <1>20
      <4> QED BY <1>2, <1>7, <1>11, <3>2, <4>1 DEF CallInv, DeleteInv
    <3> QED BY <3>1, <3>2
  <2> QED BY <1>16, <2>1, OthersKeep DEF CallsInv, Good
<1>22. ASSUME mode = "remote", doomed[c] # {} PROVE DoomOf(c)'
  <2>1. PICK r \in Usable: DoomedBusy(c, r)
    BY <1>22, <1>7 DEF Good, DoomInv, StepOn
  <2>2. r \in Ids /\ asked[c] = <<r, TRUE>> /\ asked[c][1] = r /\ asked[c][2]
    <3>1. asked[c] = <<r, TRUE>>
      BY <2>1 DEF DoomedBusy
    <3>2. PICK t: t = TRUE
      OBVIOUS
    <3>3. asked[c] = <<r, t>>
      BY <3>1, <3>2, Zenon
    <3>4. asked[c][1] = r /\ asked[c][2] = t
      BY <3>3
    <3> QED BY <3>1, <3>2, <3>4 DEF Ids
  <2>3. \A z \in Usable: ~Below(z, x)
    BY <1>2, <1>6, <1>22, <2>2, LeafChildless
  <2>4. ASSUME NEW z \in Usable, Exists(z)', z \in doomed[c], r # x PROVE z \in Subtree(r)'
    <3> SUFFICES ASSUME NEW S \in SUBSET Ids, r \in S, Closed(S)' PROVE z \in S
      BY <2>4 DEF Subtree, Ids
    <3> DEFINE Z == S \cup {x} \cup Generated
    <3>1. Z \in SUBSET Ids /\ r \in Z
      BY <1>6 DEF Ids
    <3>2. Closed(Z)
      <4> SUFFICES ASSUME NEW w \in Ids, Exists(w), store[w].parent \in Z, w # x, w \in Usable PROVE w \in S
        BY DEF Closed, Ids
      <4>1. store[w].parent \notin Generated
        BY FileTreeAssumption DEF Good, EntryInv, Ids
      <4>2. store[w].parent # x
        BY <2>3 DEF Below
      <4>3. store'[w].parent \in S /\ Exists(w)'
        BY <1>11, <4>1, <4>2
      <4> QED BY <4>3 DEF Closed
    <3>3. z \in Subtree(r) /\ z # x /\ z \notin Generated
      BY <1>14, <2>1, <2>4, FileTreeAssumption DEF DoomedBusy, Ids
    <3> QED BY <3>1, <3>2, <3>3 DEF Subtree
  <2>5. CASE G # <<>>
    <3>1. r # x
      <4>1. Len(F) > 1 /\ Len(F) \in DOMAIN F
        BY <1>15, <2>5
      <4>2. PICK f \in Usable: FrameInv(c, Len(F), f)
        BY <1>2, <4>1 DEF DeleteInv
      <4>3. F[Len(F)].file = r
        BY <2>2, <4>2 DEF FrameInv
      <4> QED BY <1>2, <1>6, <4>1, <4>3, LeafOnce
    <3>2. Exists(r)'
      BY <1>11, <2>1, <2>2, <3>1 DEF DoomedBusy
    <3>3. \A d \in Clients \ {c}: Busy(d)' => touched'[d] \cap doomed[c] = {}
      BY <1>7, <2>1 DEF DoomedBusy, StepOn, Busy, Good, TreeTypeOK
    <3>4. ASSUME NEW z \in Ids, Exists(z)'
          PROVE  /\ store'[z].parent \in doomed[c] => z \in doomed[c]
                 /\ z \in doomed[c] => z = r \/ store'[z].parent \in doomed[c]
      BY <1>14, <2>1, <3>4 DEF DoomedBusy
    <3>5. DoomedBusy(c, r)'
      BY <1>11, <2>1, <2>2, <2>4, <2>5, <3>1, <3>2, <3>3, <3>4 DEF DoomedBusy
    <3>6. Busy(c)'
      BY <2>5 DEF Busy
    <3> QED BY <3>5, <3>6 DEF DoomOf
  <2>6. CASE G = <<>>
    <3>1. ~Busy(c)'
      BY <1>7, <2>6 DEF Busy
    <3>2. r = x
      <4>1. Len(F) = 1
        BY <1>15, <2>6
      <4> QED BY <1>9, <1>10, <2>2, <4>1 DEF FrameInv
    <3>3. ASSUME NEW z \in Usable, Exists(z)' PROVE z \notin doomed[c]
      <4> SUFFICES ASSUME z \in doomed[c] PROVE FALSE OBVIOUS
      <4>1. z \in Ids /\ z # x /\ Exists(z)
        BY <1>14, <3>3 DEF Ids
      <4>2. z \in Subtree(x)
        BY <2>1, <3>2, <4>1 DEF DoomedBusy
      <4> DEFINE Z == {x} \cup Generated
      <4>3. Z \in SUBSET Ids /\ x \in Z /\ z \notin Z
        BY <1>6, <4>1, FileTreeAssumption DEF Ids
      <4>4. Closed(Z)
        <5> SUFFICES ASSUME NEW w \in Ids, Exists(w), store[w].parent \in Z, w \in Usable PROVE FALSE
          BY DEF Closed, Ids
        <5>1. store[w].parent \notin Generated
          BY FileTreeAssumption DEF Good, EntryInv, Ids
        <5> QED BY <2>3, <5>1 DEF Below
      <4> QED BY <4>2, <4>3, <4>4 DEF Subtree
    <3>4. ASSUME NEW z \in Usable, Exists(z)' PROVE store'[z].parent \notin doomed[c]
      <4>1. z \in Ids /\ Exists(z) /\ store'[z] = store[z]
        BY <1>14, <3>4 DEF Ids
      <4> QED BY <2>1, <3>3, <3>4, <4>1 DEF DoomedBusy
    <3> QED BY <1>11, <3>1, <3>3, <3>4 DEF DoomOf
  <2> QED BY <2>5, <2>6
<1>23. DoomInv'
  <2>1. \A d \in Clients: doomed'[d] \subseteq born'
    BY <1>7 DEF Good, DoomInv, StepOn, TreeTypeOK
  <2>2. ASSUME mode = "remote" PROVE \A d \in Clients: DoomOf(d)'
    <3>1. DoomOf(c)'
      <4>1. CASE doomed[c] = {}
        BY <1>11, <4>1 DEF DoomOf
      <4> QED BY <1>22, <2>2, <4>1
    <3>2. ASSUME NEW d \in Clients, d # c PROVE DoomOf(d)'
      BY <1>7, <1>8, <2>2, <3>2, OthersDoom DEF Good
    <3> QED BY <3>1, <3>2
  <2> QED BY <1>11, <2>1, <2>2 DEF DoomInv, DoomOf
<1> QED BY <1>12, <1>17, <1>18, <1>19, <1>21, <1>23 DEF Good

-----------------------------------------------------------------------------
(* Each operation starts from what the others leave it. *)

LEMMA StartKeeps ==
  ASSUME Good, TreeTypeOK', clean', NEW c \in Clients, NEW named \in SUBSET (Ids \cup {Root}),
         NEW todo, NEW sound, NEW request, NEW goal,
         Start(c, named, todo, sound, request, goal), born \subseteq born', todo # <<>>,
         goal # {} => \E r \in Usable: /\ goal = Subtree(r) /\ Exists(r) /\ request = <<r, TRUE>>
                                       /\ todo = <<<<"delete", r, TRUE>>>>
  PROVE  OtherInv(c)' => Good'
<1>1. /\ agenda'[c] = todo /\ draft' = draft /\ frames' = frames /\ store' = store /\ mode' = mode
      /\ draft[c] = Nothing /\ frames[c] = <<>> /\ agenda[c] = <<>> /\ ~Busy(c)
      /\ touched'[c] = named \ {Root} /\ asked'[c] = request /\ clean
      /\ mode = "local" => \A d \in Clients: ~Busy(d)
      /\ \A d \in Clients \ {c}: /\ agenda'[d] = agenda[d] /\ touched'[d] = touched[d]
                                 /\ asked'[d] = asked[d]
                                 /\ Busy(d) => touched[d] \cap named \subseteq {Root}
  BY DEF Start, Continue, Busy, Good, TreeTypeOK
<1>2. \A d \in Clients \ {c}: /\ Busy(d)' <=> Busy(d)
                              /\ doomed'[d] = IF Busy(d) /\ doomed[d] \cap named # {} THEN {} ELSE doomed[d]
  BY <1>1 DEF Start, Busy
<1>3. /\ doomed'[c] = {} \/ doomed'[c] = goal
      /\ doomed'[c] # {} => \A b \in Clients: Busy(b) => touched[b] \cap goal = {}
  BY DEF Start
<1>4. DisjointInv'
  <2>1. \A d \in Clients \ {c}: Busy(d) => touched'[c] \cap touched[d] = {}
    BY <1>1
  <2> QED BY <1>1, <1>2, <2>1 DEF DisjointInv, Good
<1>5. DraftInv'
  <2>1. \A d \in Clients: draft[d] # Nothing => touched'[d] = touched[d]
    BY <1>1
  <2> QED BY <1>1, <2>1 DEF DraftInv, Good, Exists
<1>6. \A y \in Ids: ListOf'[y] = ListOf[y]
  <2>1. AsDrafted /\ AsDrafted'
    BY <1>4, <1>5, ListIs, ListIsNext DEF Good
  <2> SUFFICES ASSUME NEW y \in Ids PROVE ListOf'[y] = ListOf[y] OBVIOUS
  <2>2. CASE \A k \in Clients: ~Drafts(k, y)
    <3>1. \A k \in Clients: ~Drafts(k, y)'
      BY <1>1, <2>2 DEF Drafts
    <3> QED BY <1>1, <2>1, <2>2, <3>1 DEF AsDrafted
  <2>3. CASE \E k \in Clients: Drafts(k, y)
    BY <1>1, <2>1, <2>3 DEF AsDrafted, Drafts
  <2> QED BY <2>2, <2>3
<1>7. SameTree
  BY <1>1 DEF SameTree, Exists
<1>8. \A r: Subtree(r)' = Subtree(r)
  BY <1>7, SubtreeSame
<1>9. \A f, y \in Ids: /\ Exists(y)' <=> Exists(y)
                       /\ Below(y, f)' <=> Below(y, f)
                       /\ Listed(f, y)' <=> Listed(f, y)
  BY <1>1, <1>6 DEF Exists, Below, Listed
<1>10. \A y \in goal: y \in Ids /\ Exists(y)
  <2> SUFFICES ASSUME NEW y \in goal PROVE y \in Ids /\ Exists(y) OBVIOUS
  <2>1. PICK r \in Usable: goal = Subtree(r) /\ Exists(r)
    OBVIOUS
  <2>2. r \in Ids
    BY DEF Ids
  <2> QED BY <2>1, <2>2, SubtreeUp
<1>11. Apart(c)
  <2>1. \A d \in Clients: \A y \in doomed'[d]: Exists(y) \/ y \in doomed[d]
    BY <1>2, <1>3, <1>10
  <2>2. \A d \in Clients \ {c}: Busy(d) => mode # "local" /\ touched'[c] \cap touched[d] = {}
    BY <1>1
  <2> QED BY <1>1, <1>6, <1>9, <2>1, <2>2 DEF Apart
<1>12. EntryInv'
  BY <1>1, <1>6, <1>9 DEF EntryInv, Good
<1>13. ListInv'
  <2>1. ASSUME NEW f \in touched'[c] \cap Ids, NEW y \in touched'[c] \cap Ids PROVE OwnLists(c, f, y)'
    <3>1. OwnLists(c, f, y)
      BY <1>11, OwnListsHold DEF Good
    <3>2. ~ArrivingBy(c, f, y) /\ ~LeavingBy(c, f, y)
      BY <1>1 DEF ArrivingBy, LeavingBy
    <3> QED BY <1>9, <3>1, <3>2 DEF OwnLists
  <2> QED BY <1>1, <1>11, <2>1, ListsKeep DEF Good
<1>14. OtherInv(c)' => CallsInv'
  <2>1. OtherInv(c)' => CallInv(c)'
    BY <1>1 DEF CallInv
  <2> QED BY <1>11, <2>1, OthersKeep DEF CallsInv, Good
<1>15. Acyclic'
  BY <1>1 DEF Acyclic, Good, Exists
<1>16. DoomInv'
  <2>1. \A d \in Clients: doomed'[d] \subseteq born'
    <3>1. goal \subseteq born
      BY <1>10 DEF Good, EntryInv
    <3> QED BY <1>2, <1>3, <3>1 DEF Good, DoomInv
  <2>2. ASSUME mode = "remote" PROVE \A d \in Clients: DoomOf(d)'
    <3>1. DoomOf(c)'
      <4>1. Busy(c)'
        BY <1>1 DEF Busy
      <4>2. ASSUME doomed'[c] # {} PROVE \E r \in Usable: DoomedBusy(c, r)'
        <5>1. doomed'[c] = goal /\ goal # {}
          BY <1>3, <4>2
        <5>2. PICK r \in Usable: /\ goal = Subtree(r) /\ Exists(r) /\ request = <<r, TRUE>>
                                 /\ todo = <<<<"delete", r, TRUE>>>>
          BY <5>1
        <5>3. r \in Ids /\ r \in goal
          BY <5>2, SubtreeRoot DEF Ids
        <5>4. \A e \in Clients \ {c}: Busy(e)' => touched'[e] \cap goal = {}
          BY <1>1, <1>2, <1>3, <4>2
        <5>5. \A y \in Ids: Exists(y)' =>
                /\ store'[y].parent \in goal => y \in goal
                /\ y \in goal => /\ y = r \/ store'[y].parent \in goal
                                 /\ y \in Usable => y \in Subtree(r)'
          BY <1>1, <1>8, <1>9, <5>2, <5>3, SubtreeDown, SubtreeUp
        <5>6. DoomedBusy(c, r)'
          BY <1>1, <1>9, <5>1, <5>2, <5>3, <5>4, <5>5 DEF DoomedBusy
        <5> QED BY <5>6
      <4> QED BY <4>1, <4>2 DEF DoomOf
    <3>2. ASSUME NEW d \in Clients, d # c PROVE DoomOf(d)'
      <4>1. CASE ~Busy(d)
        <5>1. doomed'[d] = doomed[d] /\ ~Busy(d)'
          BY <1>2, <3>2, <4>1
        <5> QED BY <1>1, <1>9, <2>2, <4>1, <5>1 DEF Good, DoomInv, DoomOf, Ids
      <4>2. CASE Busy(d)
        <5>1. CASE doomed'[d] = {}
          BY <1>2, <3>2, <4>2, <5>1 DEF DoomOf
        <5>2. CASE doomed'[d] # {}
          <6>1. doomed'[d] = doomed[d] /\ doomed[d] \cap named = {}
            BY <1>2, <3>2, <4>2, <5>2
          <6>2. PICK r \in Usable: DoomedBusy(d, r)
            BY <2>2, <4>2, <5>2, <6>1 DEF Good, DoomInv
          <6>3. \A e \in Clients \ {d}: Busy(e)' => touched'[e] \cap doomed[d] = {}
            BY <1>1, <1>2, <6>1, <6>2 DEF DoomedBusy
          <6>4. agenda'[d] = agenda[d] /\ frames'[d] = frames[d] /\ asked'[d] = asked[d] /\ r \in Ids
            BY <1>1, <3>2 DEF Ids
          <6>5. DoomedBusy(d, r)'
            BY <1>1, <1>8, <1>9, <6>1, <6>2, <6>3, <6>4 DEF DoomedBusy
          <6> QED BY <1>2, <3>2, <4>2, <6>5 DEF DoomOf
        <5> QED BY <5>1, <5>2
      <4> QED BY <4>1, <4>2
    <3> QED BY <3>1, <3>2
  <2> QED BY <1>1, <2>1, <2>2 DEF DoomInv, DoomOf
<1> QED BY <1>4, <1>5, <1>12, <1>13, <1>14, <1>15, <1>16 DEF Good

\* What Start leaves to the lemmas about each operation.
LEMMA Started ==
  ASSUME TreeTypeOK, TreeTypeOK', NEW c \in Clients, NEW named, NEW todo, NEW sound, NEW request,
         NEW goal, Start(c, named, todo, sound, request, goal), clean'
  PROVE  /\ agenda'[c] = todo /\ touched'[c] = named \ {Root} /\ asked'[c] = request /\ store' = store
         /\ mode' = mode /\ draft' = draft /\ frames' = frames /\ draft[c] = Nothing /\ sound /\ clean
         /\ frames[c] = <<>>
BY DEF Start, Continue, Busy, TreeTypeOK

LEMMA CreateKeeps ==
  ASSUME Good, TypeInv, TreeTypeOK', clean', NEW c \in Clients, NEW x \in Ids,
         NEW p \in Usable \cup {Root}, NEW folder \in BOOLEAN, CreateFile(c, x, p, folder)
  PROVE  Good'
<1> DEFINE w == <<"write", x, NewEntry(p, folder)>>
           l == <<"link", p, x>>
           todo == <<w>> \o Unless(p = Root, l)
<1>1. /\ x \notin born /\ p \in (born \cap Usable) \cup {Root} /\ born' = born \cup {x}
      /\ Start(c, {x, p}, todo, SoundParent(p), Nothing, {})
  BY DEF CreateFile, NewEntry
<1>2. /\ agenda'[c] = todo /\ touched'[c] = {x, p} \ {Root} /\ store' = store /\ mode' = mode
      /\ frames' = frames /\ SoundParent(p)
  <2> HIDE DEF todo
  <2>1. PICK s: s = SoundParent(p)
    OBVIOUS
  <2>2. Start(c, {x, p}, todo, s, Nothing, {})
    BY <1>1, <2>1
  <2> QED BY <2>1, <2>2, Started DEF Good
<1> HIDE DEF w, l
<1>3. todo = (IF p = Root THEN <<w>> ELSE <<w, l>>) /\ todo # <<>>
  <2>1. todo = IF p = Root THEN <<w>> ELSE <<w, l>>
    BY Joined DEF Unless
  <2> QED BY <2>1, Parts
<1> HIDE DEF todo
<1>4. OtherInv(c)' => Good'
  <2>1. {x, p} \in SUBSET (Ids \cup {Root})
    BY DEF Ids
  <2> QED BY <1>1, <1>3, <2>1, StartKeeps
<1>5. x # Root /\ p # x /\ ~Exists(x) /\ \A y \in Ids: ~Below(y, x)
  BY <1>1, FileTreeAssumption DEF Good, EntryInv, Below
<1>6. Sound(c, p)' /\ x \in touched'[c]
  <2>1. p # Root => IsFolder(p)'
    BY <1>2 DEF SoundParent, IsFolder, Exists
  <2> QED BY <1>2, <1>5, <2>1 DEF Sound
<1>7. \A d \in Clients: x \notin doomed'[d]
  <2>1. \A d \in Clients: doomed'[d] \subseteq doomed[d]
    BY <1>1 DEF Start
  <2> QED BY <1>1, <2>1 DEF Good, DoomInv
<1>8. \A d \in Clients: \A i \in DOMAIN frames'[d]: x \notin ToSet(frames'[d][i].list)
  <2> SUFFICES ASSUME NEW d \in Clients, NEW i \in DOMAIN frames[d], x \in ToSet(frames[d][i].list)
      PROVE  FALSE
    BY <1>2
  <2>1. frames[d] # <<>>
    OBVIOUS
  <2>2. PICK f \in Usable: FrameInv(d, i, f)
    BY <2>1 DEF Good, CallsInv, CallInv, DeleteInv
  <2> QED BY <1>1, <2>2 DEF FrameInv
<1>9. agenda'[c] = IF p = Root THEN <<<<"write", x, NewEntry(p, folder)>>>>
                   ELSE <<<<"write", x, NewEntry(p, folder)>>, <<"link", p, x>>>>
  BY <1>2, <1>3 DEF w, l
<1>10. Creating(c, x, p, folder)'
  BY <1>1, <1>2, <1>5, <1>6, <1>7, <1>8, <1>9 DEF Creating, Exists, Below, NewEntry
<1> QED BY <1>4, <1>10 DEF OtherInv

LEMMA FetchKeeps ==
  ASSUME Good, TypeInv, TreeTypeOK', clean', NEW c \in Clients, NEW x \in Usable,
         NEW t \in {"update", "list"}, UNCHANGED born,
         Start(c, {x}, <<<<t, x, Nothing>>>>, TRUE, Nothing, {})
  PROVE  Good'
<1>1. {x} \in SUBSET (Ids \cup {Root}) /\ <<<<t, x, Nothing>>>> # <<>> /\ x # Root
  BY FileTreeAssumption DEF Ids
<1>2. OtherInv(c)' => Good'
  BY <1>1, StartKeeps
<1>3. Fetching(c, t, x)'
  <2> DEFINE todo == <<<<t, x, Nothing>>>>
  <2>1. Start(c, {x}, todo, TRUE, Nothing, {})
    OBVIOUS
  <2> HIDE DEF todo
  <2>2. agenda'[c] = todo /\ touched'[c] = {x} \ {Root}
    BY <2>1, Started DEF Good
  <2> QED BY <1>1, <2>2 DEF Fetching, todo
<1> QED BY <1>2, <1>3 DEF OtherInv

LEMMA DeleteStarts ==
  ASSUME Good, TypeInv, TreeTypeOK', clean', NEW c \in Clients, NEW x \in Usable,
         NEW recursive \in BOOLEAN, DeleteFile(c, x, recursive)
  PROVE  Good'
<1> DEFINE goal == IF recursive /\ Exists(x) THEN Subtree(x) ELSE {}
           todo == <<<<"delete", x, recursive>>>>
           request == <<x, recursive>>
<1>1. Start(c, {x}, todo, TRUE, request, goal) /\ born' = born
  BY DEF DeleteFile
<1>2. {x} \in SUBSET (Ids \cup {Root}) /\ todo # <<>> /\ x # Root
  BY FileTreeAssumption DEF Ids
<1>3. goal # {} => \E r \in Usable: /\ goal = Subtree(r) /\ Exists(r) /\ request = <<r, TRUE>>
                                    /\ todo = <<<<"delete", r, TRUE>>>>
  <2> SUFFICES ASSUME goal # {}
      PROVE  /\ goal = Subtree(x) /\ Exists(x) /\ request = <<x, TRUE>>
             /\ todo = <<<<"delete", x, TRUE>>>>
    OBVIOUS
  <2>1. recursive /\ Exists(x)
    OBVIOUS
  <2>2. recursive = TRUE
    BY <2>1
  <2> QED BY <2>1, <2>2
<1>4. asked'[c] = request /\ agenda'[c] = todo /\ touched'[c] = {x} \ {Root}
  <2> HIDE DEF goal, todo, request
  <2> QED BY <1>1, Started DEF Good
<1>5. Asking(c, x, recursive)'
  BY <1>2, <1>4 DEF Asking
<1>6. OtherInv(c)' => Good'
  <2> HIDE DEF goal, todo, request
  <2> QED BY <1>1, <1>2, <1>3, StartKeeps
<1> QED BY <1>5, <1>6 DEF OtherInv

LEMMA MoveStarts ==
  ASSUME Good, TypeInv, TreeTypeOK', clean', NEW c \in Clients, NEW x \in Usable,
         NEW p \in Usable \cup {Root}, MoveFile(c, x, p)
  PROVE  Good'
<1> DEFINE sound == SoundParent(p) /\ p \notin Subtree(x)
<1>1. Start(c, {x, p}, <<<<"move", x, p>>>>, sound, Nothing, {}) /\ born' = born
  BY DEF MoveFile
<1>2. {x, p} \in SUBSET (Ids \cup {Root}) /\ <<<<"move", x, p>>>> # <<>> /\ x # Root /\ x \in Ids
  BY FileTreeAssumption DEF Ids
<1>3. /\ agenda'[c] = <<<<"move", x, p>>>> /\ touched'[c] = {x, p} \ {Root} /\ store' = store
      /\ mode' = mode /\ draft' = draft /\ draft[c] = Nothing /\ sound
  BY <1>1, Started DEF Good
<1>4. Target(c, x, p)'
  <2>1. p # x
    BY <1>2, <1>3, SubtreeRoot
  <2>2. Sound(c, p)'
    BY <1>3, <1>2 DEF Sound, SoundParent, IsFolder, Exists
  <2>3. Subtree(x)' = Subtree(x)
    <3>1. SameTree
      BY <1>3 DEF SameTree, Exists
    <3> QED BY <3>1, SubtreeSame
  <2> QED BY <1>2, <1>3, <2>1, <2>2, <2>3 DEF Target, Drafts
<1>5. OtherInv(c)' => Good'
  <2> HIDE DEF sound
  <2> QED BY <1>1, <1>2, StartKeeps
<1> QED BY <1>3, <1>4, <1>5 DEF OtherInv, Moving

-----------------------------------------------------------------------------
(* The invariant, and what it is for. *)

LEMMA TreeStays == Good /\ UNCHANGED treeVars => Good'
<1> SUFFICES ASSUME Good, UNCHANGED treeVars PROVE Good' OBVIOUS
<1>1. /\ mode' = mode /\ store' = store /\ agenda' = agenda /\ draft' = draft /\ frames' = frames
      /\ born' = born /\ ops' = ops /\ clean' = clean /\ touched' = touched /\ asked' = asked
      /\ doomed' = doomed /\ placed' = placed
  BY DEF treeVars, treeHistory
<1>2. TreeTypeOK'
  BY <1>1 DEF Good, TreeTypeOK
<1>3. DisjointInv' /\ \A d \in Clients: Busy(d)' <=> Busy(d)
  BY <1>1 DEF Good, DisjointInv, Busy
<1>4. DraftInv'
  BY <1>1 DEF Good, DraftInv, Exists
<1>5. \A y \in Ids: ListOf'[y] = ListOf[y]
  <2>1. AsDrafted /\ AsDrafted'
    BY <1>2, <1>3, <1>4, ListIs, ListIsNext DEF Good
  <2> SUFFICES ASSUME NEW y \in Ids PROVE ListOf'[y] = ListOf[y] OBVIOUS
  <2>2. CASE \A k \in Clients: ~Drafts(k, y)
    <3>1. \A k \in Clients: ~Drafts(k, y)'
      BY <1>1, <2>2 DEF Drafts
    <3> QED BY <1>1, <2>1, <2>2, <3>1 DEF AsDrafted
  <2>3. CASE \E k \in Clients: Drafts(k, y)
    BY <1>1, <2>1, <2>3 DEF AsDrafted, Drafts
  <2> QED BY <2>2, <2>3
<1>6. \A f, y \in Ids: /\ Exists(y)' <=> Exists(y)
                       /\ Below(y, f)' <=> Below(y, f)
                       /\ Listed(f, y)' <=> Listed(f, y)
  BY <1>1, <1>5 DEF Exists, Below, Listed
<1>7. EntryInv'
  BY <1>1, <1>5, <1>6 DEF Good, EntryInv
<1>8. ListInv'
  <2>1. \A d \in Clients: \A f, y \in Ids: /\ ArrivingBy(d, f, y)' <=> ArrivingBy(d, f, y)
                                           /\ LeavingBy(d, f, y)' <=> LeavingBy(d, f, y)
    BY <1>1 DEF ArrivingBy, LeavingBy
  <2> QED BY <1>6, <2>1 DEF Good, ListInv
<1>9. \A r: Subtree(r)' = Subtree(r)
  <2>1. SameTree
    BY <1>1 DEF SameTree, Exists
  <2> QED BY <2>1, SubtreeSame
<1>10. CallsInv'
  <2> SUFFICES ASSUME NEW d \in Clients PROVE CallInv(d)'
    BY DEF CallsInv
  <2>1. Undisturbed(d)
    <3>1. \A y \in Ids: ~Drafts(d, y) => ~Drafts(d, y)'
      BY <1>1 DEF Drafts
    <3>2. \A y: Exists(y)' => Exists(y)
      BY <1>1 DEF Exists
    <3> QED BY <1>1, <1>6, <1>9, <3>1, <3>2 DEF Undisturbed, InNoFrame
  <2> QED BY <2>1, Keeps DEF Good, CallsInv
<1>11. Acyclic'
  BY <1>1 DEF Good, Acyclic, Exists
<1>12. DoomInv'
  <2>1. \A d \in Clients: \A r \in Usable: DoomedBusy(d, r) => DoomedBusy(d, r)'
    <3> SUFFICES ASSUME NEW d \in Clients, NEW r \in Usable, DoomedBusy(d, r) PROVE DoomedBusy(d, r)'
      OBVIOUS
    <3> QED BY <1>1, <1>3, <1>6, <1>9 DEF DoomedBusy, Ids
  <2>2. \A y \in Usable: Exists(y)' <=> Exists(y)
    BY <1>6 DEF Ids
  <2> QED BY <1>1, <1>3, <2>1, <2>2 DEF Good, DoomInv
<1> QED BY <1>2, <1>3, <1>4, <1>7, <1>8, <1>10, <1>11, <1>12 DEF Good

LEMMA InitTree == TreeInit => TreeInv
<1> SUFFICES ASSUME TreeInit PROVE Good
  BY DEF TreeInv
<1>1. TreeTypeOK
  BY InitTypes DEF TypeInv
<1>2. \A d \in Clients: ~Busy(d) /\ draft[d] = Nothing /\ frames[d] = <<>> /\ agenda[d] = <<>> /\ doomed[d] = {}
  BY DEF TreeInit, Busy
<1>3. \A y \in Ids: ~Exists(y)
  BY DEF TreeInit, Exists
<1>4. DisjointInv /\ DraftInv /\ EntryInv /\ ListInv /\ Acyclic
  BY <1>2, <1>3 DEF DisjointInv, DraftInv, EntryInv, ListInv, Acyclic
<1>5. CallsInv
  BY <1>2 DEF CallsInv, CallInv, OtherInv
<1>6. DoomInv
  BY <1>2 DEF DoomInv
<1> QED BY <1>1, <1>4, <1>5, <1>6 DEF Good

LEMMA NextTree == TypeInv /\ TreeInv /\ [TreeNext]_treeVars => TreeInv'
<1> SUFFICES ASSUME TypeInv, TreeInv, [TreeNext]_treeVars, clean' PROVE Good'
  BY DEF TreeInv
<1>1. TreeTypeOK'
  BY NextTypes DEF TypeInv
<1>2. CASE UNCHANGED treeVars
  BY <1>2, TreeStays DEF TreeInv, treeVars, treeHistory
<1>3. ASSUME NEW c \in Clients, TreeStep(c) PROVE Good'
  <2>1. clean
    <3>1. \E x, ok: Touches(c, x, ok)
      BY <1>3 DEF TreeStep, DoWrite, DoSave, DoDrop, DoLink, DoUnlink, DoUpdate, DoMove, DoReparent,
                  DoDelete, DoTurn, Turn, DoList, CallSet, Read
    <3> QED BY <3>1 DEF Touches
  <2>2. Good
    BY <2>1 DEF TreeInv
  <2> QED BY <1>1, <1>3, <2>2, WriteKeeps, SaveKeeps, DropKeeps, LinkKeeps, UnlinkKeeps, UpdateKeeps,
             MoveKeeps, ReparentKeeps, DeleteKeeps, TurnKeeps, ListKeeps DEF TreeStep
<1>4. ASSUME NEW c \in Clients, TreeCall(c) PROVE Good'
  <2>1. clean
    BY <1>4 DEF TreeCall, CreateFile, UpdateFile, DeleteFile, MoveFile, ListFolder, Start
  <2>2. Good
    BY <2>1 DEF TreeInv
  <2>3. CASE \E x \in Usable: UpdateFile(c, x) \/ ListFolder(c, x)
    BY <1>1, <2>2, <2>3, FetchKeeps DEF UpdateFile, ListFolder
  <2> QED BY <1>1, <1>4, <2>2, <2>3, CreateKeeps, DeleteStarts, MoveStarts DEF TreeCall
<1> QED BY <1>2, <1>3, <1>4 DEF TreeNext

\* Only the last call of delete_file for an entry removes it.
LEMMA RemovedBy ==
  ASSUME TypeInv, NEW c \in Clients, TreeStep(c) \/ TreeCall(c), NEW x \in Ids, Exists(x),
         store'[x] = Nothing
  PROVE  DoDrop(c)
<1> SUFFICES ASSUME ~DoDrop(c) PROVE FALSE OBVIOUS
<1>1. ~(\A y \in Ids: Exists(y) => Exists(y)')
  BY DEF Exists
<1>2. store' # store
  BY DEF Exists
<1>3. CASE TreeCall(c)
  BY <1>2, <1>3 DEF TreeCall, CreateFile, UpdateFile, DeleteFile, MoveFile, ListFolder, Start
<1>4. CASE DoWrite(c) \/ DoSave(c) \/ DoLink(c) \/ DoUnlink(c) \/ DoList(c)
  BY <1>1, <1>4, WriteShape, SaveShape, LinkShape, UnlinkShape, ListShape
<1>5. CASE DoReparent(c)
  BY <1>1, <1>5, ReparentShape DEF Shape, Exists
<1>6. CASE DoUpdate(c) \/ DoMove(c) \/ DoDelete(c) \/ DoTurn(c)
  BY <1>2, <1>6 DEF DoUpdate, DoMove, DoDelete, DoTurn, Turn
<1> QED BY <1>3, <1>4, <1>5, <1>6 DEF TreeStep

\* The calls of delete_file a client is in lead down from what it was asked for.
LEMMA FramesBelow ==
  ASSUME Good, NEW c \in Clients, frames[c] # <<>>, DeleteInv(c)
  PROVE  \/ Head(frames[c]).file = asked[c][1]
         \/ asked[c][2] /\ Head(frames[c]).file \in Subtree(asked[c][1])
<1> DEFINE F == frames[c]
           n == Len(F)
           r == asked[c][1]
           Z == {i \in 1..n: F[i].file \in Subtree(r)}
<1>1. n \in Nat /\ n >= 1 /\ DOMAIN F = 1..n /\ Head(F) = F[1]
  BY FrameOf DEF Good
<1>2. ASSUME NEW i \in 1..n
      PROVE  /\ F[i].file \in Ids /\ Exists(F[i].file)
             /\ i = n => F[i].file = r
             /\ i < n => store[F[i].file].parent = F[i + 1].file /\ asked[c][2]
  <2>1. PICK f \in Usable: FrameInv(c, i, f)
    BY <1>1 DEF DeleteInv
  <2> QED BY <2>1 DEF FrameInv, Ids
<1>3. n \in Z
  <2>1. n \in 1..n
    BY <1>1
  <2>2. r \in Ids /\ F[n].file = r
    BY <1>2, <2>1
  <2> QED BY <2>1, <2>2, SubtreeRoot
<1>4. ASSUME NEW j \in 1..n, j < n, j + 1 \in Z PROVE j \in Z
  BY <1>2, <1>4, SubtreeDown
<1>5. 1..n \subseteq Z
  <2> HIDE DEF n, Z
  <2> QED BY <1>1, <1>3, <1>4, DownTo
<1>6. 1 \in 1..n
  BY <1>1
<1>7. CASE n = 1
  BY <1>1, <1>2, <1>6, <1>7
<1>8. CASE n # 1
  <2>1. 1 < n
    <3> HIDE DEF n, Z
    <3> QED BY <1>1, <1>8
  <2> QED BY <1>1, <1>2, <1>5, <1>6, <2>1
<1> QED BY <1>7, <1>8

-----------------------------------------------------------------------------
(* What a delete reaches, whatever failed or overlapped: a list, a draft, a   *)
(* call or a frame only ever puts an entry where it was asked to go, and the  *)
(* calls of delete_file go from a folder to what its list held.               *)

Put(x, p) == <<x, p>> \in placed
AllPut(list, f) == \A i \in DOMAIN list: list[i] \in Ids => Put(list[i], f)
EntryPut(x, e) == Put(x, e.parent) /\ AllPut(e.objects, x)
TaskPut(c, t) ==
  /\ t[1] = "write" => EntryPut(t[2], t[3])
  /\ t[1] = "link" => Put(t[3], t[2])
  /\ t[1] \in {"move", "reparent"} => Put(t[2], t[3])
  /\ t[1] = "delete" => IF frames[c] = <<>> THEN asked[c] # Nothing /\ asked[c] = <<t[2], t[3]>>
                        ELSE asked[c][2] /\ Put(t[2], Head(frames[c]).file)
  /\ t[1] = "drop" => frames[c] # <<>> /\ t[2] = Head(frames[c]).file
FramePut(c, i) ==
  LET F == frames[c] IN
  /\ AllPut(F[i].list, F[i].file) /\ F[i].turn > 0 /\ (F[i].loop => asked[c][2])
  /\ i = Len(F) => F[i].file = asked[c][1]
  /\ i < Len(F) => asked[c][2] /\ Put(F[i].file, F[i + 1].file)
ClientPut(c) ==
  /\ draft[c] # Nothing => EntryPut(draft[c].file, draft[c].entry)
  /\ \A i \in DOMAIN agenda[c]: TaskPut(c, agenda[c][i])
  /\ frames[c] # <<>> => asked[c] # Nothing
  /\ \A i \in DOMAIN frames[c]: FramePut(c, i)
StorePut == \A x \in Ids: Exists(x) => EntryPut(x, store[x])
PutInv == StorePut /\ \A c \in Clients: ClientPut(c)

LEMMA PutStays ==
  ASSUME placed \subseteq placed'
  PROVE  /\ \A x, p: Put(x, p) => Put(x, p)'
         /\ \A list, f: AllPut(list, f) => AllPut(list, f)'
         /\ \A x, e: EntryPut(x, e) => EntryPut(x, e)'
BY DEF Put, AllPut, EntryPut

\* A client whose calls stay as they are.
LEMMA ClientStays ==
  ASSUME NEW c \in Clients, ClientPut(c), placed \subseteq placed', agenda'[c] = agenda[c],
         draft'[c] = draft[c], frames'[c] = frames[c], asked'[c] = asked[c]
  PROVE  ClientPut(c)'
<1>1. \A t: TaskPut(c, t) => TaskPut(c, t)'
  BY PutStays DEF TaskPut
<1>2. \A i: FramePut(c, i) => FramePut(c, i)'
  BY PutStays DEF FramePut
<1> QED BY <1>1, <1>2, PutStays DEF ClientPut

\* A step that touches x leaves the rest.
LEMMA ShapePut ==
  ASSUME TreeTypeOK, PutInv, NEW c \in Clients, NEW x, NEW ok, Shape(c, x, ok),
         store'[x] # Nothing => EntryPut(x, store'[x]), ClientPut(c)'
  PROVE  PutInv'
<1>1. placed' = placed /\ asked' = asked
  BY DEF Shape, Touches
<1>2. \A d \in Clients: ClientPut(d)'
  BY <1>1, ClientStays DEF PutInv, Shape
<1>3. ASSUME NEW y \in Ids, Exists(y)' PROVE EntryPut(y, store[y])'
  <2>1. CASE y = x
    <3>1. EntryPut(y, store'[y])
      BY <1>3, <2>1 DEF Exists
    <3> QED BY <1>1, <3>1, PutStays
  <2>2. CASE y # x
    <3>1. store'[y] = store[y] /\ Exists(y)
      BY <1>3, <2>2 DEF Shape, Exists
    <3>2. EntryPut(y, store[y])
      BY <3>1 DEF PutInv, StorePut
    <3> QED BY <1>1, <3>1, <3>2, PutStays
  <2> QED BY <2>1, <2>2
<1> QED BY <1>2, <1>3 DEF PutInv, StorePut

\* A call after which the frames are as before and nothing is new on the agenda.
LEMMA TailPut ==
  ASSUME TreeTypeOK, NEW c \in Clients, ClientPut(c), placed' = placed, asked'[c] = asked[c],
         agenda'[c] = agenda[c] \/ (agenda[c] # <<>> /\ agenda'[c] = Later(c)),
         frames'[c] = frames[c],
         draft'[c] # Nothing => EntryPut(draft'[c].file, draft'[c].entry)
  PROVE  ClientPut(c)'
<1>1. \A t: TaskPut(c, t) => TaskPut(c, t)'
  BY PutStays DEF TaskPut
<1>2. \A i: FramePut(c, i) => FramePut(c, i)'
  BY PutStays DEF FramePut
<1>3. \A i \in DOMAIN agenda'[c]: \E j \in DOMAIN agenda[c]: agenda'[c][i] = agenda[c][j]
  BY AgendaTypes
<1> QED BY <1>1, <1>2, <1>3, PutStays DEF ClientPut

\* A call after which the frames are as before and the agenda is put together anew.
LEMMA AgendaPut ==
  ASSUME NEW c \in Clients, ClientPut(c), placed' = placed, asked'[c] = asked[c],
         frames'[c] = frames[c], \A i \in DOMAIN agenda'[c]: TaskPut(c, agenda'[c][i]),
         draft'[c] # Nothing => EntryPut(draft'[c].file, draft'[c].entry)
  PROVE  ClientPut(c)'
<1>1. \A t: TaskPut(c, t) => TaskPut(c, t)'
  BY PutStays DEF TaskPut
<1>2. \A i: FramePut(c, i) => FramePut(c, i)'
  BY PutStays DEF FramePut
<1> QED BY <1>1, <1>2, PutStays DEF ClientPut

\* What the next call says of the entries.
LEMMA HeadPut ==
  ASSUME TreeTypeOK, NEW c \in Clients, ClientPut(c), agenda[c] # <<>>
  PROVE  TaskPut(c, Head(agenda[c]))
BY AgendaTypes DEF ClientPut

LEMMA WritePut ==
  ASSUME TypeInv, PutInv, NEW c \in Clients, DoWrite(c)
  PROVE  PutInv'
<1>1. PICK ok \in BOOLEAN: Shape(c, Subject(c), ok)
  BY WriteShape
<1>2. placed' = placed /\ asked' = asked /\ TreeTypeOK /\ ClientPut(c)
  BY <1>1 DEF Shape, Touches, TypeInv, PutInv
<1>3. agenda[c] # <<>> /\ agenda'[c] = Later(c) /\ draft'[c] = Nothing /\ frames'[c] = frames[c]
  BY WriteShape DEF DoWrite, Now
<1>4. ClientPut(c)'
  BY <1>2, <1>3, TailPut
<1>5. EntryPut(Subject(c), Argument(c))
  BY <1>2, <1>3, HeadPut DEF TaskPut, DoWrite, Now, Subject, Argument
<1>6. store'[Subject(c)] \in {Argument(c), store[Subject(c)]}
  BY <1>1, <1>2 DEF DoWrite, CallSet, TreeTypeOK, Shape
<1>7. store'[Subject(c)] # Nothing => EntryPut(Subject(c), store'[Subject(c)])
  BY <1>1, <1>5, <1>6 DEF PutInv, StorePut, Exists, Shape
<1> QED BY <1>1, <1>2, <1>4, <1>7, ShapePut

LEMMA SavePut ==
  ASSUME TypeInv, PutInv, NEW c \in Clients, DoSave(c)
  PROVE  PutInv'
<1> DEFINE x == draft[c].file
<1>1. PICK ok \in BOOLEAN: Shape(c, x, ok)
  BY SaveShape
<1>2. placed' = placed /\ asked' = asked /\ TreeTypeOK /\ ClientPut(c)
  BY <1>1 DEF Shape, Touches, TypeInv, PutInv
<1>3. agenda'[c] = agenda[c] /\ draft'[c] = Nothing /\ frames'[c] = frames[c]
  BY SaveShape
<1>4. ClientPut(c)'
  BY <1>2, <1>3, TailPut
<1>5. EntryPut(x, draft[c].entry)
  BY <1>2 DEF ClientPut, DoSave
<1>6. store'[x] \in {draft[c].entry, store[x]}
  BY <1>1, <1>2 DEF DoSave, CallSet, TreeTypeOK, Shape
<1> HIDE DEF x
<1>7. store'[x] # Nothing => EntryPut(x, store'[x])
  BY <1>1, <1>5, <1>6 DEF PutInv, StorePut, Exists, Shape
<1> QED BY <1>1, <1>2, <1>4, <1>7, ShapePut

LEMMA UpdatePut ==
  ASSUME TypeInv, PutInv, NEW c \in Clients, DoUpdate(c)
  PROVE  PutInv'
<1>1. PICK ok \in BOOLEAN: Shape(c, Subject(c), ok)
  BY UpdateShape
<1>2. placed' = placed /\ asked' = asked /\ TreeTypeOK /\ ClientPut(c) /\ Subject(c) \in Ids
  BY <1>1 DEF Shape, Touches, TypeInv, PutInv
<1>3. /\ agenda[c] # <<>> /\ agenda'[c] = Later(c) /\ draft[c] = Nothing
      /\ frames'[c] = frames[c] /\ store' = store
  BY UpdateShape DEF DoUpdate, Now
<1>4. draft'[c] # Nothing => EntryPut(draft'[c].file, draft'[c].entry)
  <2>1. PICK e \in Gets(Subject(c)):
          IF e = Nothing \/ mode = "local" THEN UNCHANGED draft
          ELSE draft' = [draft EXCEPT ![c] = [file |-> Subject(c), entry |-> e]]
    BY DEF DoUpdate
  <2>2. CASE draft' = draft
    BY <1>3, <2>2
  <2>3. CASE e # Nothing /\ draft' = [draft EXCEPT ![c] = [file |-> Subject(c), entry |-> e]]
    <3>1. Exists(Subject(c)) /\ e = store[Subject(c)]
      BY <2>3 DEF Gets
    <3>2. EntryPut(Subject(c), e)
      BY <1>2, <3>1 DEF PutInv, StorePut
    <3>3. draft'[c] = [file |-> Subject(c), entry |-> e]
      BY <1>2, <2>3 DEF TreeTypeOK
    <3> QED BY <3>2, <3>3
  <2> QED BY <2>1, <2>2, <2>3
<1>5. ClientPut(c)'
  BY <1>2, <1>3, <1>4, TailPut, PutStays
<1>6. store'[Subject(c)] # Nothing => EntryPut(Subject(c), store'[Subject(c)])
  BY <1>2, <1>3 DEF PutInv, StorePut, Exists
<1> QED BY <1>1, <1>2, <1>5, <1>6, ShapePut

\* A list that is changed: what is new in it was put into the folder.
LEMMA ChangedPut ==
  ASSUME TreeTypeOK, PutInv, NEW c \in Clients, NEW e, draft[c] = Nothing, placed' = placed,
         Subject(c) \in Ids, Exists(Subject(c)), e = store[Subject(c)],
         NEW objects, AllPut(objects, Subject(c)), Changed(c, e, objects)
  PROVE  /\ store'[Subject(c)] # Nothing => EntryPut(Subject(c), store'[Subject(c)])
         /\ draft'[c] # Nothing => EntryPut(draft'[c].file, draft'[c].entry)
<1> DEFINE f == Subject(c)
           new == [e EXCEPT !.objects = objects]
<1>1. e \in Entry /\ EntryPut(f, e)
  BY DEF TreeTypeOK, Exists, PutInv, StorePut
<1>2. new.parent = e.parent /\ new.objects = objects
  BY <1>1 DEF Entry
<1>3. EntryPut(f, new)
  BY <1>1, <1>2 DEF EntryPut
<1>4. CASE mode = "local"
  <2>1. store' = [store EXCEPT ![f] = new] /\ draft' = draft
    BY <1>4 DEF Changed
  <2>2. store'[f] = new
    BY <2>1 DEF TreeTypeOK
  <2> QED BY <1>3, <2>1, <2>2
<1>5. CASE mode # "local"
  <2>1. store' = store /\ draft' = [draft EXCEPT ![c] = [file |-> f, entry |-> new]]
    BY <1>5 DEF Changed
  <2>2. draft'[c] = [file |-> f, entry |-> new]
    BY <2>1 DEF TreeTypeOK
  <2> QED BY <1>1, <1>3, <2>1, <2>2
<1> QED BY <1>4, <1>5

LEMMA LinkPut ==
  ASSUME TypeInv, PutInv, NEW c \in Clients, DoLink(c)
  PROVE  PutInv'
<1> DEFINE f == Subject(c)
           x == Argument(c)
<1>1. PICK ok \in BOOLEAN: Shape(c, f, ok)
  BY LinkShape
<1>2. /\ placed' = placed /\ asked' = asked /\ TreeTypeOK /\ ClientPut(c) /\ f \in Ids
      /\ agenda[c] # <<>> /\ agenda'[c] = Later(c) /\ draft[c] = Nothing /\ frames' = frames
  BY <1>1, LinkShape DEF Shape, Touches, TypeInv, PutInv, DoLink, Now
<1>3. Put(x, f)
  BY <1>2, HeadPut DEF TaskPut, DoLink, Now, Subject, Argument
<1>4. /\ store'[f] # Nothing => EntryPut(f, store'[f])
      /\ draft'[c] # Nothing => EntryPut(draft'[c].file, draft'[c].entry)
  <2>1. PICK e \in Gets(f): IF e # Nothing /\ e.folder /\ x \notin Elements(e)
                            THEN Changed(c, e, Append(e.objects, x))
                            ELSE UNCHANGED <<store, draft>>
    BY DEF DoLink
  <2>2. CASE UNCHANGED <<store, draft>>
    BY <1>2, <2>2 DEF PutInv, StorePut, Exists
  <2>3. CASE e # Nothing /\ Changed(c, e, Append(e.objects, x))
    <3>1. Exists(f) /\ e = store[f] /\ e \in Entry
      BY <1>2, <2>3 DEF Gets, Exists, TreeTypeOK
    <3>2. EntryPut(f, e) /\ e.objects \in Seq(Held)
      BY <1>2, <3>1 DEF PutInv, StorePut, Entry, Held
    <3>3. AllPut(Append(e.objects, x), f)
      <4> SUFFICES ASSUME NEW i \in DOMAIN Append(e.objects, x), Append(e.objects, x)[i] \in Ids
                   PROVE Put(Append(e.objects, x)[i], f)
        BY DEF AllPut
      <4>1. Append(e.objects, x)[i] = x \/ (i \in DOMAIN e.objects /\ Append(e.objects, x)[i] = e.objects[i])
        BY <3>2
      <4> QED BY <1>3, <3>2, <4>1 DEF EntryPut, AllPut
    <3> QED BY <1>2, <2>3, <3>1, <3>3, ChangedPut
  <2> QED BY <2>1, <2>2, <2>3
<1>5. ClientPut(c)'
  BY <1>2, <1>4, TailPut, PutStays
<1> QED BY <1>1, <1>2, <1>4, <1>5, ShapePut

LEMMA UnlinkPut ==
  ASSUME TypeInv, PutInv, NEW c \in Clients, DoUnlink(c)
  PROVE  PutInv'
<1> DEFINE f == Subject(c)
<1>1. PICK ok \in BOOLEAN: Shape(c, f, ok)
  BY UnlinkShape
<1>2. /\ placed' = placed /\ asked' = asked /\ TreeTypeOK /\ ClientPut(c) /\ f \in Ids
      /\ agenda[c] # <<>> /\ agenda'[c] = Later(c) /\ draft[c] = Nothing /\ frames' = frames
  BY <1>1, UnlinkShape DEF Shape, Touches, TypeInv, PutInv, DoUnlink, Now
<1>4. /\ store'[f] # Nothing => EntryPut(f, store'[f])
      /\ draft'[c] # Nothing => EntryPut(draft'[c].file, draft'[c].entry)
  <2>1. PICK e \in Gets(f): IF e # Nothing /\ e.folder /\ Argument(c) \in Elements(e)
                            THEN \E k \in DOMAIN e.objects: Changed(c, e, RemoveAt(e.objects, k))
                            ELSE UNCHANGED <<store, draft>>
    BY DEF DoUnlink
  <2>2. CASE UNCHANGED <<store, draft>>
    BY <1>2, <2>2 DEF PutInv, StorePut, Exists
  <2>3. ASSUME e # Nothing, NEW k \in DOMAIN e.objects, Changed(c, e, RemoveAt(e.objects, k))
        PROVE  /\ store'[f] # Nothing => EntryPut(f, store'[f])
               /\ draft'[c] # Nothing => EntryPut(draft'[c].file, draft'[c].entry)
    <3>1. Exists(f) /\ e = store[f] /\ e \in Entry
      BY <1>2, <2>3 DEF Gets, Exists, TreeTypeOK
    <3>2. EntryPut(f, e) /\ e.objects \in Seq(Held)
      BY <1>2, <3>1 DEF PutInv, StorePut, Entry, Held
    <3>3. AllPut(RemoveAt(e.objects, k), f)
      <4> DEFINE s == e.objects
                 less == RemoveAt(s, k)
      <4>1. /\ less \in Seq(Held) /\ Len(less) = Len(s) - 1
            /\ \A i \in 1..(Len(s) - 1): less[i] = IF i < k THEN s[i] ELSE s[i + 1]
        BY <2>3, <3>2, Removed
      <4> HIDE DEF less
      <4> SUFFICES ASSUME NEW i \in DOMAIN less, less[i] \in Ids PROVE Put(less[i], f)
        BY DEF AllPut, less
      <4>2. i \in 1..(Len(s) - 1) /\ Len(s) \in Nat /\ DOMAIN s = 1..Len(s)
        BY <3>2, <4>1
      <4>3. \E j \in DOMAIN s: less[i] = s[j]
        <5>1. i \in DOMAIN s /\ i + 1 \in DOMAIN s
          BY <4>2
        <5> QED BY <4>1, <4>2, <5>1
      <4> QED BY <3>2, <4>3 DEF EntryPut, AllPut
    <3> QED BY <1>2, <2>3, <3>1, <3>3, ChangedPut
  <2> QED BY <2>1, <2>2, <2>3
<1>5. ClientPut(c)'
  BY <1>2, <1>4, TailPut, PutStays
<1> QED BY <1>1, <1>2, <1>4, <1>5, ShapePut

LEMMA ReparentPut ==
  ASSUME TypeInv, PutInv, NEW c \in Clients, DoReparent(c)
  PROVE  PutInv'
<1> DEFINE x == Subject(c)
           p == Argument(c)
<1>1. PICK ok \in BOOLEAN: Shape(c, x, ok)
  BY ReparentShape
<1>2. /\ placed' = placed /\ asked' = asked /\ TreeTypeOK /\ ClientPut(c) /\ x \in Ids
      /\ agenda[c] # <<>> /\ agenda'[c] = Later(c) /\ draft[c] = Nothing /\ frames' = frames
      /\ draft' = draft /\ Exists(x)
  BY <1>1, ReparentShape DEF Shape, Touches, TypeInv, PutInv, DoReparent, Now
<1>3. Put(x, p)
  BY <1>2, HeadPut DEF TaskPut, DoReparent, Now, Subject, Argument
<1>4. ClientPut(c)'
  BY <1>2, TailPut
<1>5. EntryPut(x, store[x]) /\ store[x] \in Entry
  BY <1>2 DEF PutInv, StorePut, Exists, TreeTypeOK
<1>6. store'[x] = [store[x] EXCEPT !.parent = p]
  BY <1>2 DEF DoReparent, TreeTypeOK
<1>7. store'[x].parent = p /\ store'[x].objects = store[x].objects
  BY <1>5, <1>6 DEF Entry
<1>8. EntryPut(x, store'[x])
  BY <1>3, <1>5, <1>7 DEF EntryPut
<1> QED BY <1>1, <1>2, <1>4, <1>8, ShapePut

LEMMA ListPut ==
  ASSUME TypeInv, PutInv, NEW c \in Clients, DoList(c)
  PROVE  PutInv'
<1> DEFINE f == Subject(c)
           list == IF IsFolder(f) THEN store[f].objects ELSE <<>>
           dicts(nth) == [i \in DOMAIN nth |-> Dict(list[nth[i]])]
           found == {i \in DOMAIN list: list[i] \in Usable /\ Exists(list[i])}
<1>1. PICK ok \in BOOLEAN: Shape(c, f, ok)
  BY ListShape
<1>2. /\ placed' = placed /\ asked' = asked /\ TreeTypeOK /\ ClientPut(c) /\ f \in Ids
      /\ agenda[c] # <<>> /\ agenda'[c] = Later(c) /\ draft[c] = Nothing /\ frames' = frames
      /\ draft' = draft
  BY <1>1, ListShape DEF Shape, Touches, TypeInv, PutInv, DoList, Now
<1>3. ClientPut(c)'
  BY <1>2, TailPut
<1>4. store'[f] # Nothing => EntryPut(f, store'[f])
  <2>1. CASE store' = store
    BY <1>2, <2>1 DEF PutInv, StorePut, Exists
  <2>2. ASSUME list # <<>>, ToSet(list) \subseteq Ids, NEW nth \in [1..Cardinality(found) -> found],
               store' = [store EXCEPT ![f].objects = dicts(nth)]
        PROVE  EntryPut(f, store'[f])
    <3>1. Exists(f) /\ list = store[f].objects /\ store[f] \in Entry
      BY <1>2, <2>2 DEF IsFolder, Exists, TreeTypeOK
    <3>2. EntryPut(f, store[f])
      BY <1>2, <3>1 DEF PutInv, StorePut
    <3>3. \A i \in DOMAIN nth: Dict(list[nth[i]]) \notin Ids
      <4>1. \A i \in DOMAIN nth: list[nth[i]] \in Ids
        BY <2>2, ToSetIs
      <4> QED BY <4>1, FileTreeAssumption
    <3>4. AllPut(dicts(nth), f)
      BY <3>3 DEF AllPut
    <3> HIDE DEF dicts
    <3>5. store'[f] = [store[f] EXCEPT !.objects = dicts(nth)]
      BY <1>2, <2>2 DEF TreeTypeOK
    <3>6. store'[f].parent = store[f].parent /\ store'[f].objects = dicts(nth)
      BY <3>1, <3>5 DEF Entry
    <3> QED BY <3>2, <3>4, <3>6 DEF EntryPut
  <2>3. \/ store' = store
        \/ /\ list # <<>> /\ ToSet(list) \subseteq Ids
           /\ \E nth \in [1..Cardinality(found) -> found]:
                store' = [store EXCEPT ![f].objects = dicts(nth)]
    BY DEF DoList
  <2> QED BY <2>1, <2>2, <2>3
<1> QED BY <1>1, <1>2, <1>3, <1>4, ShapePut

LEMMA MovePut ==
  ASSUME TypeInv, PutInv, NEW c \in Clients, DoMove(c)
  PROVE  PutInv'
<1> DEFINE x == Subject(c)
           p == Argument(c)
<1>1. PICK ok \in BOOLEAN: Shape(c, x, ok)
  BY MoveShape
<1>2. /\ placed' = placed /\ asked' = asked /\ TreeTypeOK /\ ClientPut(c) /\ x \in Ids
      /\ agenda[c] # <<>> /\ draft[c] = Nothing /\ frames' = frames /\ frames[c] = <<>>
      /\ draft' = draft /\ store' = store
  BY <1>1, MoveShape DEF Shape, Touches, TypeInv, PutInv, DoMove, Now
<1>3. Put(x, p)
  BY <1>2, HeadPut DEF TaskPut, DoMove, Now, Subject, Argument
<1>4. PICK e \in Gets(x):
        Continue(c, IF e = Nothing THEN <<>>
             ELSE Unless(e.parent = Root, <<"unlink", e.parent, x>>)
                  \o Unless(p = Root, <<"link", p, x>>)
                  \o << IF mode = "local" THEN <<"reparent", x, p>>
                        ELSE <<"write", x, [e EXCEPT !.parent = p]>> >>)
  BY DEF DoMove
<1> DEFINE u == <<"unlink", e.parent, x>>
           l == <<"link", p, x>>
           w == IF mode = "local" THEN <<"reparent", x, p>>
                ELSE <<"write", x, [e EXCEPT !.parent = p]>>
           todo == IF e = Nothing THEN <<>> ELSE Unless(e.parent = Root, u) \o Unless(p = Root, l) \o <<w>>
<1>5. e # Nothing => e \in Entry /\ EntryPut(x, e)
  BY <1>2 DEF Gets, Exists, TreeTypeOK, PutInv, StorePut
<1>6. TaskPut(c, u) /\ TaskPut(c, l) /\ (e # Nothing => TaskPut(c, w))
  <2>1. e # Nothing => EntryPut(x, [e EXCEPT !.parent = p])
    <3>1. e # Nothing => [e EXCEPT !.parent = p].parent = p /\ [e EXCEPT !.parent = p].objects = e.objects
      BY <1>5 DEF Entry
    <3> QED BY <1>3, <1>5, <3>1 DEF EntryPut
  <2>2. u[1] = "unlink" /\ l[1] = "link" /\ l[2] = p /\ l[3] = x
    OBVIOUS
  <2>3. \/ w[1] = "reparent" /\ w[2] = x /\ w[3] = p
        \/ w[1] = "write" /\ w[2] = x /\ w[3] = [e EXCEPT !.parent = p]
    OBVIOUS
  <2> HIDE DEF u, l, w
  <2> QED BY <1>3, <2>1, <2>2, <2>3 DEF TaskPut
<1>7. todo \in Seq({u, l, w}) /\ (e = Nothing => todo = <<>>)
  <2> HIDE DEF u, l, w
  <2>1. CASE e = Nothing
    BY <2>1
  <2>2. CASE e # Nothing
    <3>1. todo = IF e.parent = Root THEN IF p = Root THEN <<w>> ELSE <<l, w>>
                 ELSE IF p = Root THEN <<u, w>> ELSE <<u, l, w>>
      BY <2>2, Joined DEF Unless
    <3> HIDE DEF todo
    <3>2. /\ <<w>> \in Seq({u, l, w}) /\ <<l, w>> \in Seq({u, l, w})
          /\ <<u, w>> \in Seq({u, l, w}) /\ <<u, l, w>> \in Seq({u, l, w})
      OBVIOUS
    <3> QED BY <2>2, <3>1, <3>2
  <2> QED BY <2>1, <2>2
<1>8. agenda'[c] = todo
  BY <1>2, <1>4 DEF Continue, TreeTypeOK
<1> HIDE DEF todo, u, l, w
<1>9. \A i \in DOMAIN agenda'[c]: TaskPut(c, agenda'[c][i])
  <2>1. e = Nothing => DOMAIN agenda'[c] = {}
    BY <1>7, <1>8
  <2>2. \A i \in DOMAIN agenda'[c]: agenda'[c][i] \in {u, l, w}
    BY <1>7, <1>8
  <2> QED BY <1>6, <2>1, <2>2
<1>10. ClientPut(c)'
  BY <1>2, <1>9, AgendaPut
<1>11. store'[x] # Nothing => EntryPut(x, store'[x])
  BY <1>2 DEF PutInv, StorePut, Exists
<1> QED BY <1>1, <1>2, <1>10, <1>11, ShapePut

LEMMA DropPut ==
  ASSUME TypeInv, PutInv, NEW c \in Clients, DoDrop(c)
  PROVE  PutInv'
<1> DEFINE x == Subject(c)
           F == frames[c]
           G == Tail(F)
<1>0. frames[c] # <<>> /\ Len(agenda[c]) = 1
  BY AgendaTypes DEF TypeInv, StaysInv, DoDrop, Now
<1>1. PICK ok \in BOOLEAN: Shape(c, x, ok)
  BY <1>0, DropShape
<1>2. /\ placed' = placed /\ asked' = asked /\ TreeTypeOK /\ ClientPut(c) /\ x \in Ids
      /\ agenda[c] # <<>> /\ agenda'[c] = Later(c) /\ draft'[c] = Nothing /\ frames'[c] = G
  BY <1>0, <1>1, DropShape DEF Shape, Touches, TypeInv, PutInv, DoDrop, Now
<1>3. DOMAIN agenda'[c] = {}
  <2>1. Later(c) \in Seq(Task) /\ Len(Later(c)) = 0
    BY <1>0, <1>2, AgendaTypes, HeadTailProperties DEF Later
  <2> QED BY <1>2, <2>1
<1>4. /\ Len(F) \in Nat /\ Len(F) >= 1 /\ DOMAIN F = 1..Len(F) /\ G \in Seq(Frame)
      /\ Len(G) = Len(F) - 1 /\ \A i \in 1..(Len(F) - 1): G[i] = F[i + 1]
  BY <1>0, <1>2, FrameOf
<1> HIDE DEF F, G
<1>5. ASSUME NEW i \in DOMAIN G
      PROVE  /\ AllPut(G[i].list, G[i].file) /\ G[i].turn > 0 /\ (G[i].loop => asked[c][2])
             /\ i = Len(G) => G[i].file = asked[c][1]
             /\ i < Len(G) => asked[c][2] /\ Put(G[i].file, G[i + 1].file)
  <2>1. i \in 1..(Len(F) - 1) /\ i + 1 \in DOMAIN F
    BY <1>4
  <2>2. FramePut(c, i + 1) /\ G[i] = F[i + 1]
    BY <1>2, <1>4, <2>1 DEF ClientPut, F
  <2>3. i = Len(G) => i + 1 = Len(F)
    BY <1>4
  <2>4. i < Len(G) => i + 1 < Len(F) /\ G[i + 1] = F[(i + 1) + 1]
    BY <1>4, <2>1
  <2> QED BY <2>2, <2>3, <2>4 DEF FramePut, F
<1>6. \A i \in DOMAIN frames'[c]: FramePut(c, i)'
  <2> SUFFICES ASSUME NEW i \in DOMAIN frames'[c] PROVE FramePut(c, i)' OBVIOUS
  <2>1. frames'[c] = G /\ asked'[c] = asked[c] /\ placed' = placed
    BY <1>2
  <2> QED BY <1>5, <2>1, PutStays DEF FramePut
<1>7. ClientPut(c)'
  <2>1. asked'[c] # Nothing
    BY <1>0, <1>2 DEF ClientPut
  <2> QED BY <1>2, <1>3, <1>6, <2>1 DEF ClientPut
<1>8. store'[x] # Nothing => EntryPut(x, store'[x])
  <2>1. store'[x] \in {Nothing, store[x]}
    BY <1>2 DEF DoDrop, CallSet, TreeTypeOK
  <2> QED BY <1>2, <2>1 DEF PutInv, StorePut, Exists
<1> QED BY <1>1, <1>2, <1>7, <1>8, ShapePut

\* A call of delete_file that puts a frame in front.
LEMMA PushedPut ==
  ASSUME TreeTypeOK, NEW c \in Clients, ClientPut(c), placed' = placed, asked' = asked,
         NEW new \in Frame, NEW rest \in Seq(Frame), frames'[c] = <<new>> \o rest,
         asked[c] # Nothing, draft'[c] = Nothing,
         AllPut(new.list, new.file), new.turn > 0, new.loop => asked[c][2],
         rest = <<>> => new.file = asked[c][1],
         rest # <<>> => asked[c][2] /\ Put(new.file, rest[1].file),
         \A i \in 1..Len(rest): \E j \in DOMAIN frames[c]:
           /\ rest[i] = frames[c][j] /\ (i = Len(rest) <=> j = Len(frames[c]))
           /\ i < Len(rest) => j < Len(frames[c]) /\ rest[i + 1] = frames[c][j + 1],
         \A i \in DOMAIN agenda'[c]:
            /\ agenda'[c][i][1] = "delete" /\ asked[c][2] /\ Put(agenda'[c][i][2], new.file)
  PROVE  ClientPut(c)'
<1> DEFINE G == <<new>> \o rest
<1>1. /\ Len(rest) \in Nat /\ G \in Seq(Frame) /\ Len(G) = Len(rest) + 1 /\ DOMAIN G = 1..(Len(rest) + 1)
      /\ G[1] = new /\ Head(G) = new /\ G # <<>>
      /\ \A i \in 2..(Len(rest) + 1): G[i] = rest[i - 1]
  <2>1. <<new>> \in Seq(Frame) /\ Len(<<new>>) = 1 /\ <<new>>[1] = new
    OBVIOUS
  <2>2. G \in Seq(Frame) /\ Len(G) = 1 + Len(rest)
    BY <2>1, ConcatProperties
  <2>3. \A i \in 1..(1 + Len(rest)): G[i] = IF i <= 1 THEN <<new>>[i] ELSE rest[i - 1]
    BY <2>1, ConcatProperties
  <2>4. Len(rest) \in Nat
    OBVIOUS
  <2> HIDE DEF G
  <2>5. G[1] = new /\ \A i \in 2..(Len(rest) + 1): G[i] = rest[i - 1]
    BY <2>1, <2>3, <2>4
  <2>6. DOMAIN G = 1..(Len(rest) + 1) /\ G # <<>>
    BY <2>2, <2>4
  <2>7. Head(G) = G[1]
    BY <2>2, <2>6, HeadTailProperties
  <2> QED BY <2>2, <2>4, <2>5, <2>6, <2>7
<1> HIDE DEF G
<1>2. frames'[c] = G
  BY DEF G
<1>3. ASSUME NEW i \in DOMAIN G
      PROVE  /\ AllPut(G[i].list, G[i].file) /\ G[i].turn > 0 /\ (G[i].loop => asked[c][2])
             /\ i = Len(G) => G[i].file = asked[c][1]
             /\ i < Len(G) => asked[c][2] /\ Put(G[i].file, G[i + 1].file)
  <2>1. CASE i = 1
    <3>1. rest = <<>> <=> Len(rest) = 0
      OBVIOUS
    <3>2. Len(rest) # 0 => G[2] = rest[1]
      BY <1>1
    <3> QED BY <1>1, <2>1, <3>1, <3>2
  <2>2. CASE i # 1
    <3>1. i \in 2..(Len(rest) + 1) /\ i - 1 \in 1..Len(rest) /\ G[i] = rest[i - 1]
      BY <1>1, <2>2
    <3>2. PICK j \in DOMAIN frames[c]:
            /\ rest[i - 1] = frames[c][j] /\ (i - 1 = Len(rest) <=> j = Len(frames[c]))
            /\ i - 1 < Len(rest) => j < Len(frames[c]) /\ rest[(i - 1) + 1] = frames[c][j + 1]
      BY <3>1
    <3>3. i < Len(G) => i - 1 < Len(rest) /\ G[i + 1] = rest[(i - 1) + 1]
      BY <1>1, <3>1
    <3>4. i = Len(G) => i - 1 = Len(rest)
      BY <1>1, <3>1
    <3>5. FramePut(c, j)
      BY DEF ClientPut
    <3> QED BY <3>1, <3>2, <3>3, <3>4, <3>5 DEF FramePut
  <2> QED BY <2>1, <2>2
<1>4. \A i \in DOMAIN frames'[c]: FramePut(c, i)'
  <2> SUFFICES ASSUME NEW i \in DOMAIN frames'[c] PROVE FramePut(c, i)' OBVIOUS
  <2> QED BY <1>2, <1>3, PutStays DEF FramePut
<1>5. \A i \in DOMAIN agenda'[c]: TaskPut(c, agenda[c][i])'
  <2> SUFFICES ASSUME NEW i \in DOMAIN agenda'[c] PROVE TaskPut(c, agenda[c][i])' OBVIOUS
  <2>1. Head(frames'[c]).file = new.file /\ frames'[c] # <<>>
    BY <1>1, <1>2
  <2> QED BY <2>1, PutStays DEF TaskPut
<1> QED BY <1>4, <1>5 DEF ClientPut

LEMMA DeletePut ==
  ASSUME TypeInv, PutInv, NEW c \in Clients, DoDelete(c)
  PROVE  PutInv'
<1> DEFINE x == Subject(c)
           recursive == Argument(c)
           F == frames[c]
           new(e) == [file |-> x, parent |-> e.parent, loop |-> e.folder /\ recursive,
                      list |-> e.objects, turn |-> 1]
<1>1. PICK ok \in BOOLEAN: Shape(c, x, ok)
  BY DeleteShape
<1>2. /\ placed' = placed /\ asked' = asked /\ TreeTypeOK /\ ClientPut(c) /\ x \in Ids
      /\ agenda[c] # <<>> /\ agenda'[c] = <<>> /\ draft' = draft /\ draft[c] = Nothing
      /\ store' = store
  BY <1>1, DeleteShape DEF Shape, Touches, TypeInv, PutInv, DoDelete, Now
<1>3. DOMAIN agenda'[c] = {}
  BY <1>2
<1>4. TaskPut(c, Head(agenda[c])) /\ Head(agenda[c])[1] = "delete" /\ recursive \in BOOLEAN
  BY <1>2, HeadPut, NamedTypes DEF DoDelete, Now
<1>5. /\ F = <<>> => asked[c] # Nothing /\ asked[c] = <<x, recursive>>
      /\ F # <<>> => asked[c] # Nothing /\ asked[c][2] /\ Put(x, Head(F).file)
  BY <1>2, <1>4 DEF TaskPut, Subject, Argument, ClientPut
<1>6. PICK e \in Gets(x):
        \/ frames' = frames
        \/ frames' = [frames EXCEPT ![c] = <<>>]
        \/ e # Nothing /\ frames' = [frames EXCEPT ![c] = <<new(e)>> \o @]
  BY DEF DoDelete
<1>7. ASSUME frames' = frames PROVE ClientPut(c)'
  <2>1. /\ frames'[c] = frames[c] /\ asked'[c] = asked[c] /\ ~(draft'[c] # Nothing)
        /\ \A i \in DOMAIN agenda'[c]: TaskPut(c, agenda'[c][i])
    BY <1>2, <1>3, <1>7
  <2> QED BY <1>2, <2>1, AgendaPut
<1>8. ASSUME frames' = [frames EXCEPT ![c] = <<>>] PROVE ClientPut(c)'
  <2>1. frames'[c] = <<>> /\ DOMAIN frames'[c] = {}
    BY <1>2, <1>8 DEF TreeTypeOK
  <2>2. draft'[c] = Nothing
    BY <1>2
  <2> QED BY <1>3, <2>1, <2>2 DEF ClientPut
<1>9. ASSUME e # Nothing, frames' = [frames EXCEPT ![c] = <<new(e)>> \o @] PROVE ClientPut(c)'
  <2>1. /\ x \in Usable /\ Exists(x) /\ e = store[x] /\ e \in Entry /\ EntryPut(x, e)
    BY <1>2, <1>9 DEF Gets, Exists, TreeTypeOK, PutInv, StorePut
  <2>2. new(e) \in Frame /\ F \in Seq(Frame)
    BY <1>2, <1>4, <2>1 DEF Frame, Entry, TreeTypeOK
  <2>3. frames'[c] = <<new(e)>> \o F
    BY <1>2, <1>9 DEF TreeTypeOK
  <2>4. /\ new(e).file = x /\ new(e).list = e.objects /\ new(e).turn = 1
        /\ new(e).loop => recursive
    OBVIOUS
  <2> HIDE DEF new
  <2>5. PICK frame \in Frame: frame = new(e)
    BY <2>2
  <2>6. AllPut(frame.list, frame.file) /\ frame.turn > 0 /\ (frame.loop => asked[c][2])
    <3>1. recursive => asked[c][2]
      <4>1. CASE F = <<>>
        <5>1. asked[c][2] = recursive
          BY <1>5, <4>1
        <5> QED BY <5>1
      <4> QED BY <1>5, <4>1
    <3> QED BY <2>1, <2>4, <2>5, <3>1 DEF EntryPut
  <2>7. /\ F = <<>> => frame.file = asked[c][1]
        /\ F # <<>> => asked[c][2] /\ Put(frame.file, F[1].file)
    BY <1>2, <1>5, <2>4, <2>5, FrameOf
  <2>8. \A i \in 1..Len(F): i \in DOMAIN F
    BY <2>2
  <2>9. PICK rest \in Seq(Frame): rest = F
    BY <2>2
  <2>10. frames'[c] = <<frame>> \o rest
    BY <2>3, <2>5, <2>9
  <2>11. asked[c] # Nothing /\ draft'[c] = Nothing
    BY <1>2, <1>5
  <2>12. \A i \in 1..Len(rest): \E j \in DOMAIN frames[c]:
           /\ rest[i] = frames[c][j] /\ (i = Len(rest) <=> j = Len(frames[c]))
           /\ i < Len(rest) => j < Len(frames[c]) /\ rest[i + 1] = frames[c][j + 1]
    BY <2>8, <2>9
  <2>13. /\ rest = <<>> => frame.file = asked[c][1]
         /\ rest # <<>> => asked[c][2] /\ Put(frame.file, rest[1].file)
    BY <2>7, <2>9
  <2> QED BY <1>2, <1>3, <2>6, <2>10, <2>11, <2>12, <2>13, PushedPut
<1>10. ClientPut(c)'
  BY <1>6, <1>7, <1>8, <1>9
<1>11. store'[x] # Nothing => EntryPut(x, store'[x])
  BY <1>2 DEF PutInv, StorePut, Exists
<1> QED BY <1>1, <1>2, <1>10, <1>11, ShapePut

LEMMA TurnPut ==
  ASSUME TypeInv, PutInv, NEW c \in Clients, DoTurn(c)
  PROVE  PutInv'
<1> DEFINE frame == Head(frames[c])
           f == frame.file
           list == IF ~frame.loop \/ (mode = "local" /\ ~Exists(f)) THEN <<>>
                   ELSE IF mode = "local" THEN store[f].objects ELSE frame.list
           child == list[frame.turn]
           u == <<"unlink", frame.parent, f>>
           w == <<"drop", f, Nothing>>
           own == Unless(frame.parent = Root, u) \o <<w>>
           next == [frame EXCEPT !.turn = @ + 1]
           rest == Tail(frames[c])
<1>1. PICK ok \in BOOLEAN: Shape(c, f, ok)
  BY TurnShape
<1>2. /\ placed' = placed /\ asked' = asked /\ TreeTypeOK /\ ClientPut(c) /\ f \in Ids
      /\ agenda[c] = <<>> /\ draft' = draft /\ draft[c] = Nothing /\ store' = store /\ frames[c] # <<>>
  BY <1>1, TurnShape DEF Shape, Touches, TypeInv, PutInv, DoTurn, Turn
<1>3. /\ frame \in Frame /\ FramePut(c, 1) /\ frame = frames[c][1] /\ asked[c] # Nothing
      /\ rest \in Seq(Frame) /\ Len(frames[c]) \in Nat /\ Len(frames[c]) >= 1
      /\ DOMAIN frames[c] = 1..Len(frames[c])
      /\ Len(rest) = Len(frames[c]) - 1 /\ \A i \in 1..(Len(frames[c]) - 1): rest[i] = frames[c][i + 1]
  BY <1>2, FrameOf DEF ClientPut
<1>4. \/ Continue(c, own) /\ frames' = frames
      \/ Continue(c, <<>>) /\ frames' = [frames EXCEPT ![c] = <<>>]
      \/ /\ child \in Ids /\ ~(frame.turn > Len(list)) /\ Continue(c, <<<<"delete", child, TRUE>>>>)
         /\ frames' = [frames EXCEPT ![c] = <<next>> \o rest]
  BY DEF DoTurn, Turn
<1>5. ASSUME Continue(c, own), frames' = frames PROVE ClientPut(c)'
  <2>1. TaskPut(c, u) /\ TaskPut(c, w)
    BY <1>2 DEF TaskPut
  <2>2. agenda'[c] = own
    BY <1>2, <1>5 DEF Continue, TreeTypeOK
  <2> HIDE DEF u, w, frame, own
  <2>3. own = <<w>> \/ own = <<u, w>>
    BY Joined DEF Unless, own
  <2>4. \A i \in DOMAIN agenda'[c]: agenda'[c][i] \in {u, w}
    BY <2>2, <2>3
  <2> QED BY <1>2, <1>5, <2>1, <2>4, AgendaPut
<1>6. ASSUME Continue(c, <<>>), frames' = [frames EXCEPT ![c] = <<>>] PROVE ClientPut(c)'
  <2>1. agenda'[c] = <<>> /\ frames'[c] = <<>> /\ draft'[c] = Nothing
    BY <1>2, <1>6 DEF Continue, TreeTypeOK
  <2>2. DOMAIN agenda'[c] = {} /\ DOMAIN frames'[c] = {}
    BY <2>1
  <2> QED BY <2>1, <2>2 DEF ClientPut
<1>7. ASSUME child \in Ids, ~(frame.turn > Len(list)), Continue(c, <<<<"delete", child, TRUE>>>>),
             frames' = [frames EXCEPT ![c] = <<next>> \o rest]
      PROVE  ClientPut(c)'
  <2>1. frame.loop /\ list \in Seq(Held) /\ AllPut(list, f)
    <3>1. frame.loop /\ list \in Seq(Held) /\ (mode = "local" => Exists(f))
          /\ list = IF mode = "local" THEN store[f].objects ELSE frame.list
      <4>1. frame.turn \in Nat /\ frame.turn > 0
        BY <1>3 DEF Frame, FramePut
      <4>2. list # <<>>
        <5>1. SUFFICES ASSUME list = <<>> PROVE FALSE
          OBVIOUS
        <5>2. Len(list) = 0
          BY <5>1
        <5> HIDE DEF list, frame
        <5> QED BY <1>7, <4>1, <5>2
      <4>3. Exists(f) => store[f] \in Entry
        BY <1>2 DEF Exists, TreeTypeOK
      <4> QED BY <1>3, <4>2, <4>3 DEF Entry, Frame, Held
    <3>2. AllPut(frame.list, f) /\ (Exists(f) => AllPut(store[f].objects, f))
      BY <1>2, <1>3 DEF FramePut, PutInv, StorePut, EntryPut
    <3> QED BY <3>1, <3>2
  <2>2. asked[c][2] /\ Put(child, f)
    <3>1. frame.turn \in Nat /\ frame.turn > 0 /\ asked[c][2]
      BY <1>3, <2>1 DEF Frame, FramePut
    <3> HIDE DEF list, frame, f
    <3>2. frame.turn \in DOMAIN list
      BY <1>7, <2>1, <3>1
    <3> QED BY <1>7, <2>1, <3>1, <3>2 DEF AllPut
  <2>3. next \in Frame /\ next.file = f /\ next.list = frame.list /\ next.turn = frame.turn + 1
        /\ next.loop = frame.loop
    <3>1. frame \in Frame
      BY <1>3
    <3> HIDE DEF frame
    <3> QED BY <3>1 DEF Frame
  <2>4. PICK new \in Frame: /\ new = next /\ new.file = f /\ new.list = frame.list
                            /\ new.turn = frame.turn + 1 /\ new.loop = frame.loop
    BY <2>3
  <2>5. AllPut(new.list, new.file) /\ new.turn > 0 /\ (new.loop => asked[c][2])
    BY <1>3, <2>2, <2>4 DEF FramePut, Frame
  <2>6. PICK others \in Seq(Frame): others = rest
    BY <1>3
  <2>7. /\ others = <<>> => new.file = asked[c][1]
        /\ others # <<>> => asked[c][2] /\ Put(new.file, others[1].file)
    <3>1. others = <<>> <=> Len(others) = 0
      OBVIOUS
    <3>2. Len(others) = 0 => new.file = asked[c][1]
      BY <1>3, <2>4, <2>6 DEF FramePut
    <3>3. Len(others) # 0 => asked[c][2] /\ Put(new.file, others[1].file)
      <4> SUFFICES ASSUME Len(others) # 0 PROVE Put(new.file, others[1].file)
        BY <2>2
      <4>1. 1 < Len(frames[c]) /\ others[1] = frames[c][2]
        <5>1. Len(others) \in Nat /\ Len(others) = Len(frames[c]) - 1
          BY <1>3, <2>6
        <5>2. 1 \in 1..(Len(frames[c]) - 1) /\ 1 + 1 = 2
          <6>1. \A k, n \in Nat: k # 0 /\ k = n - 1 => 1 < n /\ 1 \in 1..(n - 1) /\ 1 + 1 = 2
            OBVIOUS
          <6>2. Len(frames[c]) \in Nat
            BY <1>3
          <6> QED BY <5>1, <6>1, <6>2
        <5>3. 1 < Len(frames[c])
          <6>1. \A k, n \in Nat: k # 0 /\ k = n - 1 => 1 < n
            OBVIOUS
          <6> QED BY <1>3, <5>1, <6>1
        <5> QED BY <1>3, <2>6, <5>2, <5>3
      <4> QED BY <1>3, <2>4, <4>1 DEF FramePut
    <3> QED BY <3>1, <3>2, <3>3
  <2>8. \A i \in 1..Len(others): \E j \in DOMAIN frames[c]:
          /\ others[i] = frames[c][j] /\ (i = Len(others) <=> j = Len(frames[c]))
          /\ i < Len(others) => j < Len(frames[c]) /\ others[i + 1] = frames[c][j + 1]
    <3> SUFFICES ASSUME NEW i \in 1..Len(others)
                 PROVE \E j \in DOMAIN frames[c]:
                   /\ others[i] = frames[c][j] /\ (i = Len(others) <=> j = Len(frames[c]))
                   /\ i < Len(others) => j < Len(frames[c]) /\ others[i + 1] = frames[c][j + 1]
      OBVIOUS
    <3>1. i + 1 \in DOMAIN frames[c] /\ others[i] = frames[c][i + 1] /\ Len(others) = Len(frames[c]) - 1
      BY <1>3, <2>6
    <3>2. i < Len(others) => others[i + 1] = frames[c][(i + 1) + 1]
      BY <1>3, <2>6, <3>1
    <3> QED BY <1>3, <3>1, <3>2
  <2>9. frames'[c] = <<new>> \o others /\ draft'[c] = Nothing /\ agenda'[c] = <<<<"delete", child, TRUE>>>>
    BY <1>2, <1>7, <2>4, <2>6 DEF TreeTypeOK, Continue
  <2>10. \A i \in DOMAIN agenda'[c]:
            /\ agenda'[c][i][1] = "delete" /\ asked[c][2] /\ Put(agenda'[c][i][2], new.file)
    <3> DEFINE call == <<"delete", child, TRUE>>
    <3>1. call[1] = "delete" /\ call[2] = child
      OBVIOUS
    <3> HIDE DEF child, call
    <3>2. \A i \in DOMAIN agenda'[c]: agenda'[c][i] = call
      <4>1. agenda'[c] = <<call>>
        BY <2>9 DEF call
      <4> QED BY <4>1
    <3> QED BY <2>2, <2>4, <3>1, <3>2
  <2> QED BY <1>2, <1>3, <2>5, <2>7, <2>8, <2>9, <2>10, PushedPut
<1>8. ClientPut(c)'
  BY <1>4, <1>5, <1>6, <1>7
<1>9. store'[f] # Nothing => EntryPut(f, store'[f])
  BY <1>2 DEF PutInv, StorePut, Exists
<1> QED BY <1>1, <1>2, <1>8, <1>9, ShapePut

\* The start of an operation: its calls put things where they are asked to be.
LEMMA StartPut ==
  ASSUME TypeInv, PutInv, NEW c \in Clients, NEW named, NEW todo, NEW sound, NEW request, NEW goal,
         Start(c, named, todo, sound, request, goal), placed \subseteq placed',
         \A i \in DOMAIN todo:
           LET t == todo[i] IN
           /\ t[1] \in {"write", "link", "move", "update", "list", "delete"}
           /\ t[1] = "write" => t[3].objects = <<>> /\ <<t[2], t[3].parent>> \in placed'
           /\ t[1] = "link" => <<t[3], t[2]>> \in placed'
           /\ t[1] = "move" => <<t[2], t[3]>> \in placed'
           /\ t[1] = "delete" => request # Nothing /\ request = <<t[2], t[3]>>
  PROVE  PutInv'
<1>1. /\ store' = store /\ draft' = draft /\ frames' = frames
      /\ agenda'[c] = todo /\ asked'[c] = request /\ frames[c] = <<>> /\ draft[c] = Nothing
      /\ \A d \in Clients \ {c}: agenda'[d] = agenda[d] /\ asked'[d] = asked[d]
  BY DEF Start, TypeInv, TreeTypeOK, Continue, Busy
<1>2. \A i \in DOMAIN agenda'[c]: TaskPut(c, agenda[c][i])'
  <2> SUFFICES ASSUME NEW i \in DOMAIN todo PROVE TaskPut(c, agenda[c][i])'
    BY <1>1
  <2>1. agenda'[c][i] = todo[i] /\ frames'[c] = <<>>
    BY <1>1
  <2>2. \A x: AllPut(<<>>, x)'
    BY DEF AllPut
  <2> QED BY <1>1, <2>1, <2>2 DEF TaskPut, EntryPut, Put
<1>3. ClientPut(c)'
  <2>1. DOMAIN frames'[c] = {}
    BY <1>1
  <2> QED BY <1>1, <1>2, <2>1 DEF ClientPut
<1>4. \A d \in Clients \ {c}: ClientPut(d)'
  BY <1>1, ClientStays DEF PutInv
<1>5. StorePut'
  BY <1>1, PutStays DEF PutInv, StorePut, Exists
<1> QED BY <1>3, <1>4, <1>5 DEF PutInv

LEMMA CallPut ==
  ASSUME TypeInv, PutInv, NEW c \in Clients, TreeCall(c)
  PROVE  PutInv'
<1>1. ASSUME NEW x \in Ids, NEW p \in Usable \cup {Root}, NEW folder \in BOOLEAN,
             CreateFile(c, x, p, folder)
      PROVE  PutInv'
  <2> DEFINE w == <<"write", x, NewEntry(p, folder)>>
             l == <<"link", p, x>>
             todo == <<w>> \o Unless(p = Root, l)
  <2>1. placed \subseteq placed' /\ <<x, p>> \in placed'
    BY <1>1 DEF CreateFile
  <2>2. /\ w[1] = "write" /\ w[2] = x /\ w[3].objects = <<>> /\ w[3].parent = p
        /\ l[1] = "link" /\ l[2] = p /\ l[3] = x
    BY DEF NewEntry
  <2>3. Start(c, {x, p}, todo, SoundParent(p), Nothing, {})
    BY <1>1 DEF CreateFile, NewEntry
  <2> HIDE DEF w, l
  <2>4. todo = IF p = Root THEN <<w>> ELSE <<w, l>>
    BY Joined DEF Unless
  <2> HIDE DEF todo
  <2>5. \A i \in DOMAIN todo: todo[i] \in {w, l}
    BY <2>4
  <2>6. \A i \in DOMAIN todo:
           LET t == todo[i] IN
           /\ t[1] \in {"write", "link", "move", "update", "list", "delete"}
           /\ t[1] = "write" => t[3].objects = <<>> /\ <<t[2], t[3].parent>> \in placed'
           /\ t[1] = "link" => <<t[3], t[2]>> \in placed'
           /\ t[1] = "move" => <<t[2], t[3]>> \in placed'
           /\ t[1] = "delete" => Nothing # Nothing /\ Nothing = <<t[2], t[3]>>
    BY <2>1, <2>2, <2>5
  <2> QED BY <2>1, <2>3, <2>6, StartPut
<1>2. ASSUME NEW x \in Usable, NEW t \in {"update", "list"},
             Start(c, {x}, <<<<t, x, Nothing>>>>, TRUE, Nothing, {}), UNCHANGED <<born, placed>>
      PROVE  PutInv'
  <2> DEFINE call == <<t, x, Nothing>>
             todo == <<call>>
  <2>1. call[1] = t
    OBVIOUS
  <2> HIDE DEF call
  <2>2. \A i \in DOMAIN todo: todo[i] = call
    OBVIOUS
  <2>3. Start(c, {x}, todo, TRUE, Nothing, {})
    BY <1>2 DEF call
  <2> HIDE DEF todo
  <2> QED BY <1>2, <2>1, <2>2, <2>3, StartPut
<1>3. ASSUME NEW x \in Usable, NEW r \in BOOLEAN, DeleteFile(c, x, r) PROVE PutInv'
  <2> DEFINE call == <<"delete", x, r>>
             todo == <<call>>
             goal == IF r /\ Exists(x) THEN Subtree(x) ELSE {}
             request == <<x, r>>
  <2>1. call[1] = "delete" /\ request = <<call[2], call[3]>> /\ request # Nothing
    <3>1. request \in Ids \X BOOLEAN
      BY DEF Ids
    <3> QED BY <3>1, FileTreeAssumption
  <2> HIDE DEF call
  <2>2. \A i \in DOMAIN todo: todo[i] = call
    OBVIOUS
  <2>3. Start(c, {x}, todo, TRUE, request, goal) /\ UNCHANGED placed
    BY <1>3 DEF DeleteFile, call
  <2> HIDE DEF todo, goal
  <2>4. PICK whole: whole = request
    OBVIOUS
  <2> HIDE DEF request
  <2>5. placed \subseteq placed' /\ Start(c, {x}, todo, TRUE, whole, goal)
    BY <2>3, <2>4
  <2>6. \A i \in DOMAIN todo:
           LET t == todo[i] IN
           /\ t[1] \in {"write", "link", "move", "update", "list", "delete"}
           /\ t[1] = "write" => t[3].objects = <<>> /\ <<t[2], t[3].parent>> \in placed'
           /\ t[1] = "link" => <<t[3], t[2]>> \in placed'
           /\ t[1] = "move" => <<t[2], t[3]>> \in placed'
           /\ t[1] = "delete" => whole # Nothing /\ whole = <<t[2], t[3]>>
    BY <2>1, <2>2, <2>4
  <2> QED BY <2>5, <2>6, StartPut
<1>4. ASSUME NEW x \in Usable, NEW p \in Usable \cup {Root}, MoveFile(c, x, p) PROVE PutInv'
  <2> DEFINE call == <<"move", x, p>>
             todo == <<call>>
             sound == SoundParent(p) /\ p \notin Subtree(x)
  <2>1. call[1] = "move" /\ <<call[2], call[3]>> \in placed' /\ placed \subseteq placed'
    BY <1>4 DEF MoveFile
  <2> HIDE DEF call
  <2>2. \A i \in DOMAIN todo: todo[i] = call
    OBVIOUS
  <2>3. Start(c, {x, p}, todo, sound, Nothing, {})
    BY <1>4 DEF MoveFile, call
  <2> HIDE DEF todo, sound
  <2> QED BY <2>1, <2>2, <2>3, StartPut
<1> QED BY <1>1, <1>2, <1>3, <1>4 DEF TreeCall, UpdateFile, ListFolder

LEMMA NextPut == TypeInv /\ PutInv /\ [TreeNext]_treeVars => PutInv'
<1> SUFFICES ASSUME TypeInv, PutInv, [TreeNext]_treeVars PROVE PutInv' OBVIOUS
<1>1. CASE UNCHANGED treeVars
  <2>1. /\ placed' = placed /\ asked' = asked /\ store' = store /\ draft' = draft
        /\ agenda' = agenda /\ frames' = frames
    BY <1>1 DEF treeVars, treeHistory
  <2>2. StorePut'
    BY <2>1, PutStays DEF PutInv, StorePut, Exists
  <2> QED BY <2>1, <2>2, ClientStays DEF PutInv
<1>2. ASSUME NEW c \in Clients, TreeStep(c) PROVE PutInv'
  BY <1>2, WritePut, SavePut, DropPut, LinkPut, UnlinkPut, UpdatePut, MovePut, ReparentPut,
     DeletePut, TurnPut, ListPut DEF TreeStep
<1> QED BY <1>1, <1>2, CallPut DEF TreeNext

LEMMA InitPut == TreeInit => PutInv
<1> SUFFICES ASSUME TreeInit PROVE PutInv OBVIOUS
<1>1. StorePut
  BY DEF TreeInit, StorePut, Exists
<1>2. ASSUME NEW c \in Clients PROVE ClientPut(c)
  <2>1. agenda[c] = <<>> /\ frames[c] = <<>> /\ draft[c] = Nothing
    BY DEF TreeInit
  <2>2. DOMAIN agenda[c] = {} /\ DOMAIN frames[c] = {}
    BY <2>1
  <2> QED BY <2>1, <2>2 DEF ClientPut
<1> QED BY <1>1, <1>2 DEF PutInv

LEMMA EverBelowDown ==
  ASSUME TreeTypeOK, NEW r, NEW y, NEW p, Put(y, p), p \in EverBelow(r)
  PROVE  y \in EverBelow(r)
<1>1. y \in Ids
  BY DEF Put, TreeTypeOK
<1> SUFFICES ASSUME NEW S \in SUBSET Ids, r \in S, EverClosed(S) PROVE y \in S
  BY <1>1 DEF EverBelow
<1>2. p \in S
  BY DEF EverBelow
<1> DEFINE link == <<y, p>>
<1>3. link \in placed /\ link[1] = y /\ link[2] = p
  BY DEF Put
<1> QED BY <1>2, <1>3 DEF EverClosed

\* The calls of delete_file a client is in are for what was once put below what
\* it was asked to delete.
LEMMA FramesEver ==
  ASSUME TreeTypeOK, NEW c \in Clients, ClientPut(c), frames[c] # <<>>
  PROVE  \/ Head(frames[c]).file = asked[c][1]
         \/ asked[c][2] /\ Head(frames[c]).file \in EverBelow(asked[c][1])
<1> DEFINE F == frames[c]
           n == Len(F)
           r == asked[c][1]
           Z == {i \in 1..n: F[i].file \in EverBelow(r)}
<1>1. n \in Nat /\ n >= 1 /\ DOMAIN F = 1..n /\ Head(F) = F[1]
  BY FrameOf
<1>2. ASSUME NEW i \in 1..n
      PROVE  /\ i = n => F[i].file = r
             /\ i < n => Put(F[i].file, F[i + 1].file) /\ asked[c][2]
  BY <1>1 DEF ClientPut, FramePut
<1>3. n \in Z
  <2>1. n \in 1..n
    BY <1>1
  <2>2. F[n].file \in Ids
    <3>1. F[n] \in Frame
      BY <1>1 DEF TreeTypeOK
    <3> HIDE DEF F
    <3> QED BY <3>1 DEF Frame, Ids
  <2>3. r \in Ids /\ F[n].file = r
    BY <1>2, <2>1, <2>2
  <2> QED BY <2>1, <2>3 DEF EverBelow
<1>4. ASSUME NEW j \in 1..n, j < n, j + 1 \in Z PROVE j \in Z
  BY <1>2, <1>4, EverBelowDown
<1>5. 1..n \subseteq Z
  <2> HIDE DEF n, Z
  <2> QED BY <1>1, <1>3, <1>4, DownTo
<1>6. 1 \in 1..n
  BY <1>1
<1>7. CASE n = 1
  BY <1>1, <1>2, <1>6, <1>7
<1>8. CASE n # 1
  <2>1. 1 < n
    <3> HIDE DEF n, Z
    <3> QED BY <1>1, <1>8
  <2> QED BY <1>1, <1>2, <1>5, <1>6, <2>1
<1> QED BY <1>7, <1>8

-----------------------------------------------------------------------------
(* What a recursive delete leaves: only a create adds or changes an entry with *)
(* a generated id, and nothing removes one.                                    *)

KeptInv == \A c \in Clients: \A x \in doomed[c] \cap Generated: Exists(x)
ClosedInv == clean /\ mode = "remote" =>
  \A c \in Clients: \A x \in Generated: Exists(x) /\ store[x].parent \in doomed[c] => x \in doomed[c]

\* What is doomed grows only when a recursive delete starts.
LEMMA DoomedShrinks ==
  ASSUME TypeInv, NEW b \in Clients, TreeStep(b) \/ TreeCall(b), NEW c \in Clients
  PROVE  \/ doomed'[c] \subseteq doomed[c] /\ (doomed'[c] # {} => doomed'[c] = doomed[c])
         \/ /\ c = b /\ TreeCall(b) /\ Busy(c)'
            /\ \E x \in Usable: Exists(x) /\ doomed'[c] \in {{}, Subtree(x)}
<1>1. CASE TreeStep(b)
  <2>1. \E x, ok: Touches(b, x, ok)
    BY <1>1 DEF TreeStep, DoWrite, DoSave, DoDrop, DoLink, DoUnlink, DoUpdate, DoMove, DoReparent,
                DoDelete, DoTurn, Turn, DoList, CallSet, Read
  <2> QED BY <2>1 DEF Touches
<1>2. CASE TreeCall(b)
  <2>1. PICK named, todo, sound, request, goal:
          /\ Start(b, named, todo, sound, request, goal) /\ todo # <<>>
          /\ goal = {} \/ \E x \in Usable: Exists(x) /\ goal = Subtree(x)
    <3>1. ASSUME NEW x \in Ids, NEW p \in Usable \cup {Root}, NEW folder \in BOOLEAN,
                 CreateFile(b, x, p, folder)
          PROVE  \E named, todo, sound, request, goal:
                   /\ Start(b, named, todo, sound, request, goal) /\ todo # <<>>
                   /\ goal = {} \/ \E y \in Usable: Exists(y) /\ goal = Subtree(y)
      <4> DEFINE w == <<"write", x, [parent |-> p, folder |-> folder, objects |-> <<>>]>>
                 todo == <<w>> \o Unless(p = Root, <<"link", p, x>>)
      <4>1. Start(b, {x, p}, todo, SoundParent(p), Nothing, {})
        BY <3>1 DEF CreateFile
      <4> HIDE DEF w
      <4>2. todo # <<>>
        BY Joined, Parts DEF Unless
      <4> HIDE DEF todo
      <4> QED BY <4>1, <4>2
    <3>2. ASSUME NEW call, NEW named, NEW sound, NEW request, NEW goal,
                 Start(b, named, <<call>>, sound, request, goal),
                 goal = {} \/ \E y \in Usable: Exists(y) /\ goal = Subtree(y)
          PROVE  \E todo: Start(b, named, todo, sound, request, goal) /\ todo # <<>>
      BY <3>2, Parts
    <3>3. CASE \E x \in Usable: UpdateFile(b, x) \/ ListFolder(b, x)
      BY <3>2, <3>3 DEF UpdateFile, ListFolder
    <3>4. ASSUME NEW x \in Usable, NEW r \in BOOLEAN, DeleteFile(b, x, r)
          PROVE  \E named, todo, sound, request, goal:
                   /\ Start(b, named, todo, sound, request, goal) /\ todo # <<>>
                   /\ goal = {} \/ \E y \in Usable: Exists(y) /\ goal = Subtree(y)
      <4> DEFINE goal == IF r /\ Exists(x) THEN Subtree(x) ELSE {}
      <4>1. Start(b, {x}, <<<<"delete", x, r>>>>, TRUE, <<x, r>>, goal)
        BY <3>4 DEF DeleteFile
      <4>2. goal = {} \/ \E y \in Usable: Exists(y) /\ goal = Subtree(y)
        OBVIOUS
      <4> HIDE DEF goal
      <4> QED BY <3>2, <4>1, <4>2
    <3>5. CASE \E x \in Usable, p \in Usable \cup {Root}: MoveFile(b, x, p)
      BY <3>2, <3>5 DEF MoveFile
    <3> QED BY <1>2, <3>1, <3>3, <3>4, <3>5 DEF TreeCall
  <2>2. CASE c # b
    BY <2>1, <2>2 DEF Start
  <2>3. CASE c = b
    <3>1. agenda'[c] = todo
      BY <2>1, <2>3 DEF Start, Continue, TypeInv, TreeTypeOK
    <3>2. Busy(c)'
      BY <2>1, <3>1 DEF Busy
    <3>3. doomed'[c] \in {{}, goal}
      BY <2>1, <2>3 DEF Start
    <3> QED BY <1>2, <2>1, <2>3, <3>2, <3>3
  <2> QED BY <2>2, <2>3
<1> QED BY <1>1, <1>2

LEMMA DropSteps ==
  ASSUME TypeInv, NEW c \in Clients, DoDrop(c)
  PROVE  frames[c] # <<>> /\ \E ok \in BOOLEAN: Shape(c, Subject(c), ok)
<1>1. frames[c] # <<>>
  BY AgendaTypes DEF TypeInv, StaysInv, DoDrop, Now
<1> QED BY <1>1, DropShape

LEMMA KeptStep == TypeInv /\ KeptInv /\ [TreeNext]_treeVars => KeptInv'
<1> SUFFICES ASSUME TypeInv, KeptInv, [TreeNext]_treeVars, NEW c \in Clients,
                    NEW x \in doomed'[c] \cap Generated
             PROVE  Exists(x)'
  BY DEF KeptInv
<1>1. CASE UNCHANGED treeVars
  BY <1>1 DEF treeVars, treeHistory, KeptInv, Exists
<1>2. CASE TreeNext
  <2>1. PICK b \in Clients: TreeStep(b) \/ TreeCall(b)
    BY <1>2 DEF TreeNext
  <2>2. Exists(x)
    <3>1. CASE doomed'[c] \subseteq doomed[c]
      BY <3>1 DEF KeptInv
    <3>2. CASE \E y \in Usable: Exists(y) /\ doomed'[c] \in {{}, Subtree(y)}
      <4>1. PICK y \in Usable: Exists(y) /\ x \in Subtree(y)
        BY <3>2
      <4> QED BY <4>1, SubtreeUp DEF Ids
    <3> QED BY <2>1, <3>1, <3>2, DoomedShrinks
  <2>3. ASSUME store'[x] = Nothing PROVE FALSE
    <3>1. DoDrop(b)
      BY <2>1, <2>2, <2>3, RemovedBy DEF Exists
    <3>2. Subject(b) \in Usable
      BY <3>1, NamedTypes DEF TypeInv, DoDrop
    <3>3. frames[b] # <<>>
      BY <3>1, AgendaTypes DEF TypeInv, StaysInv, DoDrop, Now
    <3>4. \A y \in Ids: y # Subject(b) => store'[y] = store[y]
      BY <3>1, <3>3, DropShape DEF Shape
    <3> QED BY <2>2, <2>3, <3>2, <3>4, FileTreeAssumption DEF Exists
  <2> QED BY <2>2, <2>3 DEF Exists
<1> QED BY <1>1, <1>2

\* What changes an entry with a generated id is the write of a create.
LEMMA GeneratedWritten ==
  ASSUME TypeInv, TreeInv, NEW b \in Clients, TreeStep(b) \/ TreeCall(b), clean', mode = "remote",
         NEW x \in Generated, Exists(x)', store'[x] # store[x]
  PROVE  /\ frames[b] = <<>>
         /\ \E p \in Usable \cup {Root}, folder \in BOOLEAN:
               Creating(b, x, p, folder) /\ store'[x].parent = p
<1>0. TreeStep(b) /\ x \in Ids /\ x \notin Usable
  BY FileTreeAssumption DEF TreeCall, CreateFile, UpdateFile, DeleteFile, MoveFile, ListFolder, Start, Ids
<1>1. Good /\ TreeTypeOK
  <2>1. \E y, ok: Touches(b, y, ok)
    BY <1>0 DEF TreeStep, DoWrite, DoSave, DoDrop, DoLink, DoUnlink, DoUpdate, DoMove, DoReparent,
                DoDelete, DoTurn, Turn, DoList, CallSet, Read
  <2> QED BY <2>1 DEF Touches, TreeInv, Good
<1>2. CASE DoWrite(b)
  <2>1. x = Subject(b)
    BY <1>0, <1>2, WriteShape DEF Shape
  <2>2. agenda[b] # <<>> /\ Head(agenda[b])[1] = "write" /\ store'[x] = Argument(b)
    BY <1>1, <1>2, <2>1 DEF DoWrite, Now, CallSet, TreeTypeOK
  <2>3. CallInv(b)
    BY <1>1 DEF Good, CallsInv
  <2>4. CASE \E y \in Ids, p \in Usable \cup {Root}, folder \in BOOLEAN: Creating(b, y, p, folder)
    <3>1. PICK y \in Ids, p \in Usable \cup {Root}, folder \in BOOLEAN: Creating(b, y, p, folder)
      BY <2>4
    <3>2. Head(agenda[b]) = <<"write", y, NewEntry(p, folder)>>
      BY <3>1, CreatingHead
    <3>3. x = y /\ store'[x] = NewEntry(p, folder)
      BY <2>1, <2>2, <3>2 DEF Subject, Argument
    <3>4. store'[x].parent = p
      BY <3>3 DEF NewEntry
    <3> QED BY <1>1, <2>2, <2>3, <3>1, <3>3, <3>4, Kinds
  <2>5. CASE \E y \in Usable, p \in Usable \cup {Root}: Target(b, y, p) /\ Exists(y) /\ In(b, y, p)
    <3>1. PICK y \in Usable, p \in Usable \cup {Root}: In(b, y, p)
      BY <2>5
    <3>2. Head(agenda[b])[2] = y
      BY <3>1, InHead, FinalIs
    <3> QED BY <1>0, <2>1, <3>2 DEF Subject
  <2> QED BY <1>1, <2>2, <2>3, <2>4, <2>5, Kinds
<1>3. CASE DoSave(b)
  <2>1. x = draft[b].file
    BY <1>0, <1>3, SaveShape DEF Shape
  <2> QED BY <1>0, <1>1, <1>3, <2>1 DEF Good, DraftInv, DoSave
<1>4. ASSUME Subject(b) \in Usable, \E ok \in BOOLEAN: Shape(b, Subject(b), ok) PROVE FALSE
  BY <1>0, <1>4 DEF Shape
<1>5. CASE DoDrop(b)
  <2>1. frames[b] # <<>>
    BY <1>5, AgendaTypes DEF TypeInv, StaysInv, DoDrop, Now
  <2> QED BY <1>1, <1>4, <1>5, <2>1, DropShape, NamedTypes DEF DoDrop
<1>6. CASE DoLink(b) \/ DoUnlink(b)
  BY <1>1, <1>4, <1>6, LinkShape, UnlinkShape, NamedTypes DEF DoLink, DoUnlink
<1>7. CASE DoReparent(b) \/ DoList(b)
  BY <1>1, <1>4, <1>7, ReparentShape, ListShape, NamedTypes DEF DoReparent, DoList
<1>8. CASE DoUpdate(b) \/ DoMove(b) \/ DoDelete(b) \/ DoTurn(b)
  BY <1>8 DEF DoUpdate, DoMove, DoDelete, DoTurn, Turn
<1> QED BY <1>0, <1>2, <1>3, <1>5, <1>6, <1>7, <1>8 DEF TreeStep

LEMMA ClosedStep == TypeInv /\ TreeInv /\ TreeInv' /\ ClosedInv /\ [TreeNext]_treeVars => ClosedInv'
<1> SUFFICES ASSUME TypeInv, TreeInv, TreeInv', ClosedInv, [TreeNext]_treeVars, clean', mode' = "remote",
                    NEW c \in Clients, NEW x \in Generated, Exists(x)', store'[x].parent \in doomed'[c]
             PROVE  x \in doomed'[c]
  BY DEF ClosedInv
<1>1. CASE UNCHANGED treeVars
  BY <1>1 DEF treeVars, treeHistory, ClosedInv, Exists
<1>2. CASE TreeNext
  <2>1. PICK b \in Clients: TreeStep(b) \/ TreeCall(b)
    BY <1>2 DEF TreeNext
  <2>2. mode = "remote" /\ clean
    <3>1. CASE TreeStep(b)
      <4>1. \E y, ok: Touches(b, y, ok)
        BY <3>1 DEF TreeStep, DoWrite, DoSave, DoDrop, DoLink, DoUnlink, DoUpdate, DoMove, DoReparent,
                    DoDelete, DoTurn, Turn, DoList, CallSet, Read
      <4> QED BY <4>1 DEF Touches
    <3>2. CASE TreeCall(b)
      BY <3>2 DEF TreeCall, CreateFile, UpdateFile, DeleteFile, MoveFile, ListFolder, Start
    <3> QED BY <2>1, <3>1, <3>2
  <2>3. CASE Busy(c)'
    <3>1. \E r \in Usable: DoomedBusy(c, r)'
      BY <2>3 DEF TreeInv, Good, DoomInv
    <3> QED BY <3>1 DEF DoomedBusy, Ids
  <2>4. CASE ~Busy(c)'
    <3>1. doomed'[c] = doomed[c]
      BY <2>1, <2>4, DoomedShrinks
    <3>2. CASE store'[x] = store[x]
      BY <2>2, <3>1, <3>2 DEF ClosedInv, Exists
    <3>3. CASE store'[x] # store[x]
      <4>1. PICK p \in Usable \cup {Root}, folder \in BOOLEAN:
              Creating(b, x, p, folder) /\ store'[x].parent = p /\ frames[b] = <<>>
        BY <2>1, <2>2, <3>3, GeneratedWritten
      <4>2. p \in Usable /\ Exists(p) /\ p \in doomed[c]
        BY <3>1, <4>1, FileTreeAssumption DEF Creating, Sound, IsFolder, TypeInv, TreeTypeOK
      <4>3. Busy(c)
        BY <2>2, <4>2 DEF TreeInv, Good, DoomInv
      <4>4. c = b
        <5>1. CASE c # b /\ TreeStep(b)
          <6>1. /\ agenda'[c] = agenda[c] /\ draft'[c] = draft[c] /\ frames'[c] = frames[c]
            BY <5>1, WriteShape, SaveShape, LinkShape, UnlinkShape, ReparentShape, ListShape, UpdateShape,
               MoveShape, DeleteShape, TurnShape, DropSteps DEF TreeStep, Shape
          <6> QED BY <2>4, <4>3, <6>1 DEF Busy
        <5>2. CASE c # b /\ TreeCall(b)
          <6>1. store' = store
            BY <5>2 DEF TreeCall, CreateFile, UpdateFile, DeleteFile, MoveFile, ListFolder, Start
          <6> QED BY <3>3, <6>1
        <5> QED BY <2>1, <5>1, <5>2
      <4>5. PICK r \in Usable: DoomedBusy(b, r)
        BY <2>2, <4>2, <4>3, <4>4 DEF TreeInv, Good, DoomInv
      <4>6. agenda[b] = <<<<"delete", r, TRUE>>>>
        BY <4>1, <4>5 DEF DoomedBusy
      <4>7. Head(agenda[b]) = <<"delete", r, TRUE>> /\ Head(agenda[b]) = <<"write", x, NewEntry(p, folder)>>
        BY <4>1, <4>6, SingleHead, CreatingHead
      <4> QED BY <4>7
    <3> QED BY <3>2, <3>3
  <2> QED BY <2>3, <2>4
<1> QED BY <1>1, <1>2

-----------------------------------------------------------------------------
(* What is proved of the files. *)

\* parent_id and the lists agree whenever no operation is under way, if nothing
\* failed and operations under way at once keep to entries of their own.
THEOREM TreeConsistentHolds == TreeSpec => []TreeConsistent
<1>1. TreeInv => TreeConsistent
  <2> SUFFICES ASSUME TreeInv, clean, Quiet, NEW f \in Usable, NEW x \in Ids, IsFolder(f), Exists(x)
      PROVE  /\ (store[x].parent = f) <=> (x \in Elements(store[f]))
             /\ Cardinality({i \in DOMAIN store[f].objects: store[f].objects[i] = x}) <= 1
    BY DEF TreeConsistent
  <2>1. Good /\ f \in Ids /\ Exists(f)
    BY DEF TreeInv, Ids, IsFolder
  <2>2. \A d \in Clients: agenda[d] = <<>> /\ draft[d] = Nothing
    BY DEF Quiet, Busy
  <2>3. ListOf[f] = store[f].objects
    BY <2>1, <2>2, ListIs DEF AsDrafted, Good, Drafts
  <2>4. Below(x, f) <=> Listed(f, x)
    BY <2>1, <2>2 DEF Good, ListInv, ArrivingBy, LeavingBy
  <2>5. (store[x].parent = f) <=> (x \in Elements(store[f]))
    BY <2>1, <2>3, <2>4 DEF Below, Listed, Elements
  <2> DEFINE D == {i \in DOMAIN store[f].objects: store[f].objects[i] = x}
  <2>6. \A i, j \in D: i = j
    BY <2>1, <2>3 DEF Good, EntryInv, Plain
  <2>7. Cardinality(D) <= 1
    <3> HIDE DEF D
    <3>1. CASE D = {}
      BY <3>1, FS_EmptySet
    <3>2. CASE D # {}
      <4>1. PICK i \in D: D = {i}
        BY <2>6, <3>2
      <4> QED BY <4>1, FS_Singleton
    <3> QED BY <3>1, <3>2
  <2> QED BY <2>5, <2>7
<1> QED BY <1>1, InitTree, NextTree, InitTypes, NextTypes, PTL DEF TreeSpec

\* Of what a recursive delete with the cache service was to remove, exactly the
\* entries with generated ids are left, and nothing else below any of it, if
\* nothing failed and no other operation touched it.
THEOREM RemoteDeleteLeavesGeneratedHolds == TreeSpec => []RemoteDeleteLeavesGenerated
<1>1. TypeInv /\ TreeInv /\ KeptInv /\ ClosedInv => RemoteDeleteLeavesGenerated
  <2> SUFFICES ASSUME TypeInv, TreeInv, KeptInv, ClosedInv, mode = "remote", clean,
                      NEW c \in Clients, ~Busy(c)
               PROVE  /\ {x \in doomed[c]: Exists(x)} = doomed[c] \cap Generated
                      /\ \A x \in Ids: Exists(x) /\ store[x].parent \in doomed[c] => x \in doomed[c]
    BY DEF RemoteDeleteLeavesGenerated
  <2>1. \A x \in Usable: Exists(x) => x \notin doomed[c] /\ store[x].parent \notin doomed[c]
    BY DEF TreeInv, Good, DoomInv
  <2>2. \A x \in Generated: Exists(x) /\ store[x].parent \in doomed[c] => x \in doomed[c]
    BY DEF ClosedInv
  <2> QED BY <2>1, <2>2 DEF KeptInv, Exists, Ids
<1>2. TreeInit => KeptInv /\ ClosedInv
  BY DEF TreeInit, KeptInv, ClosedInv, Exists
<1>3. TypeInv /\ TreeInv /\ KeptInv /\ ClosedInv /\ [TreeNext]_treeVars => KeptInv' /\ ClosedInv'
  BY NextTree, KeptStep, ClosedStep
<1> QED BY <1>1, <1>2, <1>3, InitTree, NextTree, InitTypes, NextTypes, PTL DEF TreeSpec

\* Whatever fails or overlaps, what a delete removes is what it was asked for or,
\* if it is recursive, was once put below it; and is below it now if nothing did.
THEOREM DeletesOnlySubtreeHolds == TreeSpec => DeletesOnlySubtree
<1>1. TypeInv /\ TreeInv /\ PutInv /\ [TreeNext]_treeVars =>
        [\A x \in Ids: Exists(x) /\ store'[x] = Nothing =>
           \E c \in Clients:
             /\ Busy(c) /\ asked[c] # Nothing
             /\ \/ x = asked[c][1]
                \/ /\ asked[c][2] /\ x \in EverBelow(asked[c][1])
                   /\ clean' => x \in Subtree(asked[c][1])]_treeVars
  <2> SUFFICES ASSUME TypeInv, TreeInv, PutInv, TreeNext, NEW x \in Ids, Exists(x), store'[x] = Nothing
      PROVE  \E c \in Clients:
               /\ Busy(c) /\ asked[c] # Nothing
               /\ \/ x = asked[c][1]
                  \/ /\ asked[c][2] /\ x \in EverBelow(asked[c][1])
                     /\ clean' => x \in Subtree(asked[c][1])
    OBVIOUS
  <2>1. PICK c \in Clients: TreeCall(c) \/ TreeStep(c)
    BY DEF TreeNext
  <2>2. DoDrop(c)
    BY <2>1, RemovedBy
  <2>3. /\ TreeTypeOK /\ ClientPut(c) /\ agenda[c] # <<>> /\ Head(agenda[c])[1] = "drop"
        /\ frames[c] # <<>> /\ Busy(c) /\ asked[c] # Nothing
    BY <2>2, DropSteps DEF TypeInv, PutInv, ClientPut, DoDrop, Now, Busy
  <2>4. x = Head(frames[c]).file
    <3>1. \E ok \in BOOLEAN: Shape(c, Subject(c), ok)
      BY <2>2, DropSteps
    <3>2. \A z \in Ids: z # Subject(c) => store'[z] = store[z]
      BY <3>1 DEF Shape
    <3>3. Subject(c) = Head(frames[c]).file
      BY <2>3, HeadPut DEF TaskPut, Subject
    <3> QED BY <3>2, <3>3 DEF Exists
  <2>5. x = asked[c][1] \/ (asked[c][2] /\ x \in EverBelow(asked[c][1]))
    BY <2>3, <2>4, FramesEver
  <2>6. ASSUME clean' PROVE x = asked[c][1] \/ x \in Subtree(asked[c][1])
    <3>1. clean
      BY <2>2, <2>6 DEF DoDrop, CallSet, Touches
    <3>2. Good /\ DeleteInv(c)
      BY <2>3, <3>1, Kinds DEF TreeInv, Good, CallsInv
    <3> QED BY <2>3, <2>4, <3>2, FramesBelow
  <2> QED BY <2>3, <2>5, <2>6
<1> QED BY <1>1, InitTree, NextTree, InitTypes, NextTypes, InitPut, NextPut, PTL
        DEF TreeSpec, DeletesOnlySubtree
=============================================================================
