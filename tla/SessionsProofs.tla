--------------------------- MODULE SessionsProofs ---------------------------
(***************************************************************************)
(* Proofs about Sessions, for any deployment, number of threads, managers  *)
(* and tokens, and any limits of the limiter.                              *)
(*                                                                         *)
(* What has to be known besides the properties: one thread at most, ever,  *)
(* writes the password file (WriterInv); the manager a thread is building  *)
(* is nobody else's (ManagerInv), so a manager that a slower thread        *)
(* overwrote never comes back; a token a thread works on was issued by its *)
(* service (TokenInv); a row holds the expiry the client was told (RowInv) *)
(* and memory loses only what has expired (MemoryInv); old transactions    *)
(* are the catalog's on PostgreSQL (OpenedInv); and the limiter's bucket   *)
(* is the end of the sequence of all attempts, and what it dropped is      *)
(* stale or was followed by one that is (LimiterInv).                      *)
(***************************************************************************)
EXTENDS Sessions, SequenceTheorems, WellFoundedInduction, TLAPS

-----------------------------------------------------------------------------
(* The limiter. *)

Before == {x \in Nat \X Nat: x[1] < x[2]}

LEMMA Least == ASSUME NEW K \in SUBSET Nat, K # {} PROVE \E x \in K: \A y \in K: x <= y
<1>1. OpToRel(<, Nat) = Before
  BY DEF OpToRel, Before
<1>2. IsWellFoundedOn(Before, Nat)
  BY <1>1, NatLessThanWellFounded
<1>3. \E x \in K: \A y \in K: ~(<<y, x>> \in Before)
  BY <1>2, WFMin
<1>4. \A x, y \in Nat: ~(<<y, x>> \in Before) => x <= y
  BY DEF Before
<1> QED BY <1>3, <1>4

\* b is h without its first d elements.
Suffix(b, h, d) == /\ d \in Nat /\ Len(h) = d + Len(b)
                   /\ \A i \in 1..Len(b): b[i] = h[d + i]

\* What Pruned drops is stale, and it stops at an attempt that is not.
LEMMA PrunedSuffix ==
  ASSUME NEW b \in Seq(Nat), NEW n \in Nat
  PROVE  /\ Pruned(b, n) \in Seq(Nat)
         /\ \E d \in Nat: /\ Suffix(Pruned(b, n), b, d)
                          /\ \A i \in 1..d: Stale(b[i], n)
                          /\ d < Len(b) => ~Stale(b[d + 1], n)
<1> DEFINE fresh == {i \in DOMAIN b: ~Stale(b[i], n)}
           K == fresh \cup {Len(b) + 1}
           m == Min(K)
<1>1. K \in SUBSET Nat /\ K # {} /\ DOMAIN b = 1..Len(b) /\ Len(b) \in Nat
  OBVIOUS
<1>2. m \in K /\ \A i \in K: m <= i
  <2>1. \E x \in K: \A y \in K: x <= y
    BY <1>1, Least
  <2> HIDE DEF K
  <2> QED BY <2>1 DEF Min
<1>3. m \in 1..(Len(b) + 1)
  BY <1>1, <1>2
<1>4. \A i \in 1..(m - 1): Stale(b[i], n)
  <2> SUFFICES ASSUME NEW i \in 1..(m - 1) PROVE Stale(b[i], n) OBVIOUS
  <2> HIDE DEF m
  <2>1. i \in 1..Len(b) /\ ~(m <= i)
    BY <1>1, <1>3
  <2>2. i \notin K
    BY <1>2, <2>1
  <2> QED BY <1>1, <2>1, <2>2
<1>5. m - 1 < Len(b) => ~Stale(b[m], n)
  <2> HIDE DEF m
  <2> QED BY <1>1, <1>2, <1>3
<1>6. Pruned(b, n) = SubSeq(b, m, Len(b))
  BY DEF Pruned
<1> HIDE DEF m, K, fresh
<1>7. \A i \in m..Len(b): b[i] \in Nat
  BY <1>1, <1>3
<1>8. /\ SubSeq(b, m, Len(b)) \in Seq(Nat)
      /\ Len(SubSeq(b, m, Len(b))) = IF m <= Len(b) THEN Len(b) - m + 1 ELSE 0
      /\ \A i \in 1..(Len(b) - m + 1): SubSeq(b, m, Len(b))[i] = b[m + i - 1]
  BY <1>1, <1>3, <1>7, SubSeqProperties
<1>9. Len(SubSeq(b, m, Len(b))) = Len(b) - (m - 1)
  BY <1>1, <1>3, <1>8
<1>10. Suffix(SubSeq(b, m, Len(b)), b, m - 1)
  BY <1>1, <1>3, <1>8, <1>9 DEF Suffix
<1>11. m - 1 \in Nat /\ (m - 1) + 1 = m
  BY <1>1, <1>3
<1>12. m - 1 < Len(b) => ~Stale(b[(m - 1) + 1], n)
  BY <1>5, <1>11
<1> QED BY <1>4, <1>6, <1>8, <1>10, <1>11, <1>12

\* allow keeps the end of the bucket; each attempt it drops was followed by a
\* stale one or is stale itself.
LEMMA KeptSuffix ==
  ASSUME NEW b \in Seq(Nat), NEW n \in Nat, NEW sweep \in BOOLEAN
  PROVE  /\ Kept(b, n, sweep) \in Seq(Nat)
         /\ \E d \in Nat: /\ Suffix(Kept(b, n, sweep), b, d)
                          /\ \A i \in 1..d: \E l \in i..Len(b): Stale(b[l], n)
<1>0. Len(b) \in Nat
  OBVIOUS
<1>1. CASE ~sweep \/ Swept(b, n) = b
  <2>1. Kept(b, n, sweep) = Pruned(b, n)
    BY <1>1 DEF Kept
  <2>2. PICK d \in Nat: Suffix(Pruned(b, n), b, d) /\ \A i \in 1..d: Stale(b[i], n)
    BY PrunedSuffix
  <2>3. Pruned(b, n) \in Seq(Nat)
    BY PrunedSuffix
  <2>4. ASSUME NEW i \in 1..d PROVE i \in i..Len(b) /\ Stale(b[i], n)
    BY <1>0, <2>2, <2>3 DEF Suffix
  <2> QED BY <2>1, <2>2, <2>3, <2>4
<1>2. CASE sweep /\ Swept(b, n) # b
  <2>1. b # <<>> /\ Stale(b[Len(b)], n) /\ Swept(b, n) = <<>>
    BY <1>2 DEF Swept, Last
  <2>2. Pruned(<<>>, n) = <<>>
    <3>1. <<>> \in Seq(Nat)
      OBVIOUS
    <3>2. Pruned(<<>>, n) \in Seq(Nat) /\ \E e \in Nat: Suffix(Pruned(<<>>, n), <<>>, e)
      BY <3>1, PrunedSuffix
    <3>3. Len(Pruned(<<>>, n)) = 0
      BY <3>2 DEF Suffix
    <3> QED BY <3>2, <3>3
  <2>3. Kept(b, n, sweep) = <<>>
    BY <1>2, <2>1, <2>2 DEF Kept
  <2>4. Suffix(<<>>, b, Len(b)) /\ <<>> \in Seq(Nat)
    BY <1>0 DEF Suffix
  <2>5. \A i \in 1..Len(b): Len(b) \in i..Len(b)
    BY <1>0
  <2> QED BY <1>0, <2>1, <2>3, <2>4, <2>5
<1> QED BY <1>1, <1>2

\* What is known of a client's bucket b, its attempts h and the time n: they
\* are in the order in which they were let through; the bucket holds what the
\* last of them read, and each that it does not hold was followed by one, or is
\* one, whose reading is stale by now.
Limited(b, h, n, m) ==
  /\ \A i \in 1..Len(h): h[i].read <= h[i].let /\ h[i].let <= n
  /\ \A i, j \in 1..Len(h): i <= j => h[i].let <= h[j].let
  /\ \E d \in Nat: /\ Len(h) = d + Len(b)
                   /\ \A i \in 1..Len(b): b[i] = h[d + i].read
                   /\ \A i \in 1..d: \E l \in i..Len(h): Stale(h[l].read, n)
  /\ \A i \in 1..Len(h): i + m \in 1..Len(h) =>
       \E l \in i..(i + m - 1): h[l].read + Window < h[i + m].let

LEMMA LimitedAttempt ==
  ASSUME NEW b \in Seq(Nat), NEW h \in Seq(Try), NEW n \in Nat, NEW read \in Nat, read <= n,
         NEW sweep \in BOOLEAN, NEW m \in Nat \ {0}, Limited(b, h, n, m)
  PROVE  /\ Allows(b, read, sweep, m) =>
              Limited(Attempted(b, read, sweep, m), Append(h, [read |-> read, let |-> n]), n, m)
         /\ ~Allows(b, read, sweep, m) => Limited(Attempted(b, read, sweep, m), h, n, m)
<1>0. m \in Nat \ {0} /\ Window \in Nat \ {0} /\ Len(b) \in Nat /\ Len(h) \in Nat
  BY LoginLimiterAssumption
<1>h. \A i \in 1..Len(h): h[i] \in Try /\ h[i].read \in Nat /\ h[i].let \in Nat
  <2>1. \A i \in 1..Len(h): h[i] \in Try
    OBVIOUS
  <2> QED BY <2>1 DEF Try
<1>1. PICK d \in Nat: /\ Len(h) = d + Len(b)
                      /\ \A i \in 1..Len(b): b[i] = h[d + i].read
                      /\ \A i \in 1..d: \E l \in i..Len(h): Stale(h[l].read, n)
  BY DEF Limited
<1> DEFINE kept == Kept(b, read, sweep)
<1>2. kept \in Seq(Nat)
  BY KeptSuffix
<1>3. PICK e \in Nat: Suffix(kept, b, e) /\ \A i \in 1..e: \E l \in i..Len(b): Stale(b[l], read)
  BY KeptSuffix
<1>a. /\ Allows(b, read, sweep, m) => /\ Len(kept) < m
                                   /\ Attempted(b, read, sweep, m) = Append(kept, read)
      /\ ~Allows(b, read, sweep, m) => Attempted(b, read, sweep, m) = kept
  BY DEF Allows, Attempted
<1> HIDE DEF kept
<1>4. Len(kept) \in Nat /\ Len(b) = e + Len(kept)
  BY <1>2, <1>3 DEF Suffix
<1>5. Len(h) = (d + e) + Len(kept) /\ d + e \in Nat
  BY <1>0, <1>1, <1>4
<1>6. ASSUME NEW i \in 1..Len(kept) PROVE kept[i] = h[(d + e) + i].read
  <2>1. kept[i] = b[e + i] /\ e + i \in 1..Len(b)
    BY <1>3, <1>4 DEF Suffix
  <2>2. b[e + i] = h[d + (e + i)].read
    BY <1>1, <2>1
  <2>3. d + (e + i) = (d + e) + i
    OBVIOUS
  <2> QED BY <2>1, <2>2, <2>3
<1>7. ASSUME NEW i \in 1..(d + e) PROVE \E l \in i..Len(h): Stale(h[l].read, n)
  <2>1. CASE i <= d
    <3>1. i \in 1..d
      BY <2>1
    <3> QED BY <1>1, <3>1
  <2>2. CASE i > d
    <3>1. i - d \in 1..e
      BY <2>2
    <3>2. PICK l \in (i - d)..Len(b): Stale(b[l], read)
      BY <1>3, <3>1
    <3>3. l \in 1..Len(b) /\ d + l \in i..Len(h) /\ d + l \in 1..Len(h)
      BY <1>0, <1>1, <2>2, <3>1
    <3>4. b[l] = h[d + l].read
      BY <1>1, <3>3
    <3>5. h[d + l].read \in Nat
      BY <1>h, <3>3
    <3>6. Stale(h[d + l].read, n)
      BY <1>0, <3>2, <3>4, <3>5 DEF Stale
    <3> QED BY <3>3, <3>6
  <2> QED BY <2>1, <2>2
<1>8. ASSUME ~Allows(b, read, sweep, m) PROVE Limited(Attempted(b, read, sweep, m), h, n, m)
  BY <1>5, <1>6, <1>7, <1>8, <1>a DEF Limited
<1>9. ASSUME Allows(b, read, sweep, m)
      PROVE  Limited(Attempted(b, read, sweep, m), Append(h, [read |-> read, let |-> n]), n, m)
  <2> DEFINE a == [read |-> read, let |-> n]
             g == Append(h, a)
             c == Append(kept, read)
  <2>0. a \in Try /\ a.read = read /\ a.let = n
    BY DEF Try
  <2>1. /\ Len(g) = Len(h) + 1 /\ g[Len(h) + 1] = a
        /\ \A i \in 1..Len(h): g[i] = h[i]
    BY AppendProperties, <2>0
  <2>2. /\ Len(c) = Len(kept) + 1 /\ c[Len(kept) + 1] = read
        /\ \A i \in 1..Len(kept): c[i] = kept[i]
    BY AppendProperties, <1>2
  <2> HIDE DEF a, g, c
  <2>3. \A i \in 1..Len(g): i \in 1..Len(h) \/ i = Len(h) + 1
    BY <1>0, <2>1
  <2>4. ASSUME NEW i \in 1..Len(g) PROVE g[i].read <= g[i].let /\ g[i].let <= n
    <3>1. CASE i \in 1..Len(h)
      BY <2>1, <3>1 DEF Limited
    <3>2. CASE i = Len(h) + 1
      BY <2>0, <2>1, <3>2
    <3> QED BY <2>3, <3>1, <3>2
  <2>5. ASSUME NEW i \in 1..Len(g), NEW j \in 1..Len(g), i <= j PROVE g[i].let <= g[j].let
    <3>1. CASE j = Len(h) + 1
      BY <2>0, <2>1, <2>4, <3>1
    <3>2. CASE j \in 1..Len(h)
      <4>1. i \in 1..Len(h)
        BY <1>0, <2>5, <3>2
      <4> QED BY <2>1, <2>5, <3>2, <4>1 DEF Limited
    <3> QED BY <2>3, <3>1, <3>2
  <2>6. ASSUME NEW i \in 1..Len(c) PROVE c[i] = g[(d + e) + i].read
    <3>1. CASE i = Len(kept) + 1
      <4>1. (d + e) + i = Len(h) + 1
        BY <1>4, <1>5, <3>1
      <4> QED BY <2>0, <2>1, <2>2, <3>1, <4>1
    <3>2. CASE i # Len(kept) + 1
      <4>1. i \in 1..Len(kept)
        BY <1>4, <2>2, <3>2
      <4>2. (d + e) + i \in 1..Len(h)
        BY <1>4, <1>5, <4>1
      <4> QED BY <1>6, <2>1, <2>2, <4>1, <4>2
    <3> QED BY <3>1, <3>2
  <2>7. ASSUME NEW i \in 1..(d + e) PROVE \E l \in i..Len(g): Stale(g[l].read, n)
    <3>1. PICK l \in i..Len(h): Stale(h[l].read, n)
      BY <1>7
    <3>2. l \in 1..Len(h) /\ l \in i..Len(g)
      BY <1>0, <2>1, <3>1
    <3> QED BY <2>1, <3>1, <3>2
  <2>8. Len(g) = (d + e) + Len(c)
    BY <1>4, <1>5, <2>1, <2>2
  <2>9. ASSUME NEW i \in 1..Len(g), i + m \in 1..Len(g)
        PROVE  \E l \in i..(i + m - 1): g[l].read + Window < g[i + m].let
    <3>1. CASE i + m \in 1..Len(h)
      <4>1. i \in 1..Len(h)
        BY <1>0, <3>1
      <4>2. PICK l \in i..(i + m - 1): h[l].read + Window < h[i + m].let
        BY <3>1, <4>1 DEF Limited
      <4>3. l \in 1..Len(h)
        BY <1>0, <3>1
      <4> QED BY <2>1, <3>1, <4>2, <4>3
    <3>2. CASE i + m = Len(h) + 1
      <4>1. i \in 1..(d + e)
        BY <1>0, <1>4, <1>5, <1>9, <1>a, <3>2
      <4>2. PICK l \in i..Len(h): Stale(h[l].read, n)
        BY <1>7, <4>1
      <4>3. l \in 1..Len(h) /\ l \in i..(i + m - 1)
        BY <1>0, <3>2
      <4>4. g[l] = h[l] /\ g[i + m].let = n
        BY <2>0, <2>1, <3>2, <4>3
      <4> QED BY <4>2, <4>3, <4>4 DEF Stale
    <3> QED BY <2>3, <2>9, <3>1, <3>2
  <2>10. Limited(c, g, n, m)
    <3>1. \E f \in Nat: /\ Len(g) = f + Len(c)
                        /\ \A i \in 1..Len(c): c[i] = g[f + i].read
                        /\ \A i \in 1..f: \E l \in i..Len(g): Stale(g[l].read, n)
      BY <1>5, <2>6, <2>7, <2>8
    <3> QED BY <2>4, <2>5, <2>9, <3>1 DEF Limited
  <2> QED BY <1>9, <1>a, <2>10 DEF a, g, c
<1> QED BY <1>8, <1>9

LEMMA AttemptedType ==
  ASSUME NEW b \in Seq(Nat), NEW n \in Nat, NEW sweep \in BOOLEAN, NEW m
  PROVE  Attempted(b, n, sweep, m) \in Seq(Nat)
<1>1. Kept(b, n, sweep) \in Seq(Nat)
  BY KeptSuffix
<1>2. \A c \in Seq(Nat): Append(c, n) \in Seq(Nat)
  OBVIOUS
<1> QED BY <1>1, <1>2 DEF Attempted

-----------------------------------------------------------------------------
(* The invariant. *)

Building(t) == thread[t].step \in {"resolve", "claim", "write", "install"}

WriterInv == \A t \in Threads: At(t, "write") =>
  file = "empty" /\ \A u \in Threads: At(u, "write") => u = t

ManagerInv ==
  /\ \A t \in Threads: Building(t) =>
       /\ thread[t].mgr \in Managers
       /\ \A u \in Threads: thread[u].mgr = thread[t].mgr => u = t
       /\ \A s \in Services: manager[s] # thread[t].mgr
       /\ \A k \in Tokens: issued[k] # Nothing => issued[k].mgr # thread[t].mgr
  /\ \A s \in Services: manager[s] # Nothing => cred[manager[s]] # Nothing
  /\ \A k \in Tokens: issued[k] # Nothing => cred[issued[k].mgr] # Nothing
  /\ \A t \in Threads: thread[t].step \in {"install", "return", "authenticate", "lookup"} =>
       thread[t].mgr \in Managers /\ cred[thread[t].mgr] # Nothing
  /\ \A t \in Threads: At(t, "return") => manager[Home(t)] # Nothing

TokenInv == \A t \in Threads:
  /\ thread[t].step \in {"mirror", "lookup", "confirm", "evict"} => thread[t].tok # Nothing
  /\ thread[t].tok # Nothing => thread[t].tok \in OfService(Home(t))

RowInv == \A k \in Tokens:
  /\ row[k] > 0 => issued[k] # Nothing /\ row[k] = issued[k].exp
  /\ issued[k] # Nothing =>
       /\ Kind(issued[k].svc) = "cache" /\ issued[k].told => row[k] = issued[k].exp
       /\ Kind(issued[k].svc) = "catalog" /\ issued[k].mirrored => row[k] = issued[k].exp

MemoryInv ==
  /\ \A k \in Tokens: /\ issued[k] # Nothing
                      /\ Kind(issued[k].svc) = "results" /\ issued[k].told
                      /\ issued[k].mgr = manager[issued[k].svc]
                      => memory[k] = issued[k].exp \/ issued[k].exp <= now
  /\ \A t \in Threads: At(t, "evict") => memory[thread[t].tok] <= now

OpenedInv == \A t \in Threads: opened[t] # Nothing => Kind(Home(t)) = "catalog" /\ OnPG(Home(t))

OverdueInv == \A o \in overdue:
  LET k == o.tok
  IN  /\ issued[k] # Nothing /\ Kind(issued[k].svc) = "catalog" /\ OnPG(issued[k].svc)
      /\ o.began < o.exp

LimiterInv == /\ \A s \in Services: Limited(bucket[s], tries[s], now, MaxAttempts)
              /\ \A t \in Threads: thread[t].at <= now

Inv == /\ TypeOK /\ WriterInv /\ SharedCredential /\ ManagerInv /\ TokenInv /\ RowInv
       /\ MemoryInv /\ OpenedInv /\ OverdueInv /\ LimiterInv

LEMMA InitInv == Init => Inv
<1> SUFFICES ASSUME Init PROVE Inv OBVIOUS
<1> USE SessionsAssumption DEF Init
<1>1. TypeOK
  BY DEF TypeOK, Thread, Idle, Steps, Expiry, Deployment
<1>2. WriterInv /\ SharedCredential /\ ManagerInv /\ TokenInv
  BY DEF WriterInv, SharedCredential, ManagerInv, TokenInv, Building, At, Idle
<1>3. RowInv /\ MemoryInv /\ OpenedInv /\ OverdueInv
  BY DEF RowInv, MemoryInv, OpenedInv, OverdueInv, At, Idle
<1>4. Limited(<<>>, <<>>, 0, MaxAttempts)
  BY DEF Limited
<1>5. LimiterInv
  BY <1>4 DEF LimiterInv, Idle
<1> QED BY <1>1, <1>2, <1>3, <1>5 DEF Inv

LEMMA DeploymentType ==
  ASSUME TypeOK
  PROVE  /\ deployment \in Deployment
         /\ \A t \in Threads: Home(t) \in Services
         /\ \A s \in Services: Kind(s) \in Kinds
         /\ MaxAttempts \in Nat \ {0}
BY SessionsAssumption DEF TypeOK, Deployment, Flavour, Home, Kind, MaxAttempts

-----------------------------------------------------------------------------
(* Types. *)

LEMMA TypeStep == Inv /\ [Next]_vars => TypeOK'
<1> SUFFICES ASSUME Inv, [Next]_vars PROVE TypeOK' OBVIOUS
<1>0. TypeOK /\ ManagerInv /\ TokenInv /\ RowInv
  BY DEF Inv
<1>c. TTL \in Nat \ {0} /\ MaxNow \in Nat /\ MaxExpiry \in Nat
  BY SessionsAssumption
<1>h. \A t \in Threads: Home(t) \in Services
  BY <1>0, DeploymentType
<1>u. \A k \in Tokens \cup {Nothing}: Use(k) \in Steps
  BY DEF Use, Steps
<1>i. Idle \in Thread
  BY DEF Idle, Thread, Steps
<1>e. ASSUME NEW t \in Threads, NEW k \in Tokens \cup {Nothing}, EnterManager(t, k)
      PROVE  thread' \in [Threads -> Thread]
  <2>1. CASE manager[Home(t)] # Nothing
    <3>1. [step |-> Use(k), mgr |-> manager[Home(t)], tok |-> k, at |-> 0] \in Thread
      BY <1>0, <1>h, <1>u, <2>1 DEF TypeOK, Thread
    <3>2. thread' = [thread EXCEPT ![t] = [step |-> Use(k), mgr |-> manager[Home(t)], tok |-> k, at |-> 0]]
      BY <1>e, <2>1 DEF EnterManager
    <3> QED BY <1>0, <3>1, <3>2 DEF TypeOK
  <2>2. CASE manager[Home(t)] = Nothing
    <3>1. PICK m \in Managers:
            thread' = [thread EXCEPT ![t] = [step |-> "resolve", mgr |-> m, tok |-> k, at |-> 0]]
      BY <1>e, <2>2 DEF EnterManager, UnusedManagers
    <3>2. [step |-> "resolve", mgr |-> m, tok |-> k, at |-> 0] \in Thread
      BY DEF Thread, Steps
    <3> QED BY <1>0, <3>1, <3>2 DEF TypeOK
  <2> QED BY <2>1, <2>2
<1>g. ASSUME NEW t \in Threads, NEW step \in Steps, Goto(t, step)
      PROVE  thread' \in [Threads -> Thread]
  <2>1. thread[t] \in Thread
    BY <1>0 DEF TypeOK
  <2>2. [thread[t] EXCEPT !.step = step] \in Thread
    BY <2>1 DEF Thread
  <2>3. thread' = [thread EXCEPT ![t] = [@ EXCEPT !.step = step]]
    BY <1>g DEF Goto
  <2> QED BY <1>0, <2>2, <2>3 DEF TypeOK
<1>l. ASSUME NEW t \in Threads, Leave(t) PROVE thread' \in [Threads -> Thread]
  BY <1>0, <1>i, <1>l DEF Leave, TypeOK
<1>w. ASSUME NEW t \in Threads, NEW step \in Steps, NEW k \in Tokens \cup {Nothing}
      PROVE  [thread[t] EXCEPT !.step = step, !.tok = k] \in Thread
  <2>1. thread[t] \in Thread
    BY <1>0 DEF TypeOK
  <2> QED BY <2>1 DEF Thread
<1>o. ASSUME NEW t \in Threads, Opens(t) \/ Ends(t)
      PROVE  opened' \in [Threads -> 0..MaxNow \cup {Nothing}]
  BY <1>0, <1>o DEF Opens, Ends, TransactionTime, TypeOK
<1>k. ASSUME NEW t \in Threads, thread[t].step \in {"mirror", "lookup", "confirm", "evict"}
      PROVE  thread[t].tok \in Tokens /\ issued[thread[t].tok] \in Issue
  BY <1>0, <1>k DEF TokenInv, OfService, TypeOK
<1>a. ASSUME NEW t \in Threads, NEW k \in Tokens, issued[k] # Nothing, Accept(t, k)
      PROVE  overdue' \subseteq Overdue
  <2>1. issued[k] \in Issue /\ now \in Nat /\ opened[t] \in 0..MaxNow \cup {Nothing}
    BY <1>0, <1>a DEF TypeOK
  <2>2. TransactionTime(t) \in Nat /\ issued[k].exp \in Nat
    BY <1>c, <2>1 DEF TransactionTime, Issue
  <2>3. [tok |-> k, began |-> TransactionTime(t), exp |-> issued[k].exp] \in Overdue
    BY <2>2 DEF Overdue
  <2> QED BY <1>0, <1>a, <2>3 DEF Accept, TypeOK
<1> DEFINE Same == UNCHANGED <<deployment, now, restarts>>
<1>r. ASSUME NEW t \in Threads, ReadClock(t), Same PROVE TypeOK'
  <2>1. thread[t] \in Thread /\ now \in Nat
    BY <1>0, <1>c DEF TypeOK
  <2>2. [thread[t] EXCEPT !.step = "limit", !.at = now] \in Thread
    BY <2>1 DEF Thread, Steps
  <2>3. thread' \in [Threads -> Thread]
    BY <1>0, <1>r, <2>2 DEF ReadClock, TypeOK
  <2> QED BY <1>0, <1>r, <2>3 DEF ReadClock, server, history, TypeOK
<1>1. ASSUME NEW t \in Threads, NEW sweep \in BOOLEAN,
             LoginAllowed(t, sweep) \/ LoginThrottled(t, sweep), Same
      PROVE  TypeOK'
  <2> DEFINE read == thread[t].at
  <2>1. now \in Nat /\ read \in Nat /\ bucket[Home(t)] \in Seq(Nat) /\ tries[Home(t)] \in Seq(Try)
    BY <1>0, <1>h, <1>c DEF TypeOK, Thread
  <2>2. /\ Attempted(bucket[Home(t)], read, sweep, MaxAttempts) \in Seq(Nat)
        /\ Append(tries[Home(t)], [read |-> read, let |-> now]) \in Seq(Try)
    <3>1. Attempted(bucket[Home(t)], read, sweep, MaxAttempts) \in Seq(Nat)
      BY <2>1, AttemptedType
    <3>2. [read |-> read, let |-> now] \in Try
      BY <2>1 DEF Try
    <3> QED BY <2>1, <3>1, <3>2
  <2>3. bucket' \in [Services -> Seq(Nat)]
    BY <1>0, <1>1, <2>2 DEF LoginAllowed, LoginThrottled, TypeOK
  <2>4. tries' \in [Services -> Seq(Try)]
    BY <1>0, <1>1, <2>2 DEF LoginAllowed, LoginThrottled, TypeOK, history
  <2>5. thread' \in [Threads -> Thread]
    BY <1>1, <1>e, <1>l DEF LoginAllowed, LoginThrottled
  <2> QED BY <1>0, <1>1, <2>3, <2>4, <2>5 DEF LoginAllowed, LoginThrottled, TypeOK, history
<1>2. ASSUME NEW t \in Threads, ResolvePassword(t) \/ ClaimPasswordFile(t) \/ WritePassword(t), Same
      PROVE  TypeOK'
  <2>1. thread[t].mgr \in Managers
    BY <1>0, <1>2 DEF ResolvePassword, ClaimPasswordFile, WritePassword, ManagerInv, Building, At
  <2>2. thread' \in [Threads -> Thread]
    BY <1>2, <1>g DEF ResolvePassword, ClaimPasswordFile, WritePassword, Steps
  <2>3. cred' \in [Managers -> Credential \cup {Nothing}]
    BY <1>0, <1>2, <2>1
       DEF ResolvePassword, ClaimPasswordFile, WritePassword, SetCredential, InFile, Credential, TypeOK
  <2>4. file' \in {"absent", "empty"} \cup Managers
    BY <1>0, <1>2, <2>1 DEF ResolvePassword, ClaimPasswordFile, WritePassword, TypeOK
  <2> QED BY <1>0, <1>2, <2>2, <2>3, <2>4
          DEF ResolvePassword, ClaimPasswordFile, WritePassword, history, TypeOK
<1>3. ASSUME NEW t \in Threads, InstallManager(t), Same PROVE TypeOK'
  <2>1. thread[t].mgr \in Managers
    BY <1>0, <1>3 DEF InstallManager, ManagerInv, Building, At
  <2>2. thread' \in [Threads -> Thread]
    BY <1>3, <1>g DEF InstallManager, Steps
  <2> QED BY <1>0, <1>3, <2>1, <2>2 DEF InstallManager, history, TypeOK
<1>4. ASSUME NEW t \in Threads, ReturnManager(t), Same PROVE TypeOK'
  <2>1. manager[Home(t)] \in Managers \cup {Nothing} /\ Use(thread[t].tok) \in Steps
    BY <1>0, <1>h, <1>u DEF TypeOK, Thread
  <2>2. thread' \in [Threads -> Thread]
    <3>1. thread[t] \in Thread /\ manager[Home(t)] \in Managers \cup {Nothing}
      BY <1>0, <2>1 DEF TypeOK
    <3>2. [thread[t] EXCEPT !.mgr = manager[Home(t)], !.step = Use(thread[t].tok)] \in Thread
      BY <2>1, <3>1 DEF Thread
    <3>3. thread' = [thread EXCEPT ![t] = [@ EXCEPT !.mgr = manager[Home(t)],
                                                    !.step = Use(thread[t].tok)]]
      BY <1>0, <1>4 DEF ReturnManager, TypeOK
    <3> QED BY <1>0, <3>2, <3>3 DEF TypeOK
  <2> QED BY <1>0, <1>4, <2>2 DEF ReturnManager, history, server, TypeOK
<1>5. ASSUME NEW t \in Threads, Authenticate(t), Same PROVE TypeOK'
  <2>1. PICK k \in Tokens:
          /\ issued[k] = Nothing
          /\ AuthenticateSucceeds(t, k) \/ AuthenticateFails(t, k)
          /\ \E told \in BOOLEAN: issued' = [issued EXCEPT ![k] =
               [svc |-> Home(t), mgr |-> thread[t].mgr, exp |-> now + TTL,
                told |-> told, mirrored |-> FALSE]]
    BY <1>5 DEF Authenticate
  <2>2. thread[t].mgr \in Managers /\ now + TTL \in 1..MaxExpiry
    BY <1>0, <1>5, <1>c DEF Authenticate, ManagerInv, At, TypeOK
  <2>3. issued' \in [Tokens -> Issue \cup {Nothing}]
    BY <1>0, <1>h, <2>1, <2>2 DEF TypeOK, Issue
  <2>4. memory' \in [Tokens -> Expiry]
    <3>1. PICK gone:
            memory' = [j \in Tokens |-> IF j = k THEN now + TTL
                                       ELSE IF j \in gone THEN 0 ELSE memory[j]]
      BY <2>1 DEF AuthenticateSucceeds, AuthenticateFails
    <3>2. now + TTL \in Expiry /\ 0 \in Expiry
      BY <1>c, <2>2 DEF Expiry
    <3>3. memory \in [Tokens -> Expiry]
      BY <1>0 DEF TypeOK
    <3> QED BY <3>1, <3>2, <3>3
  <2>5. thread' \in [Threads -> Thread]
    <3>1. Leave(t) \/ thread' = [thread EXCEPT ![t].step = "mirror", ![t].tok = k]
      BY <2>1 DEF AuthenticateSucceeds, AuthenticateFails
    <3>2. CASE thread' = [thread EXCEPT ![t].step = "mirror", ![t].tok = k]
      <4>1. [thread[t] EXCEPT !.step = "mirror", !.tok = k] \in Thread
        BY <1>w DEF Steps
      <4> QED BY <1>0, <3>2, <4>1 DEF TypeOK
    <3> QED BY <1>l, <3>1, <3>2
  <2>6. bucket' \in [Services -> Seq(Nat)] /\ tries' \in [Services -> Seq(Try)]
    <3>1. <<>> \in Seq(Nat) /\ <<>> \in Seq(Try)
      OBVIOUS
    <3>2. CASE AuthenticateSucceeds(t, k)
      BY <1>0, <3>1, <3>2 DEF AuthenticateSucceeds, TypeOK
    <3>3. CASE AuthenticateFails(t, k)
      BY <1>0, <3>3 DEF AuthenticateFails, TypeOK
    <3> QED BY <2>1, <3>2, <3>3
  <2> QED BY <1>0, <1>5, <2>3, <2>4, <2>5, <2>6 DEF Authenticate, TypeOK
<1>6. ASSUME NEW t \in Threads, AuthenticateRefused(t), Same PROVE TypeOK'
  BY <1>0, <1>6, <1>l DEF AuthenticateRefused, server, history, TypeOK
<1>7. ASSUME NEW t \in Threads, MirrorInCatalog(t) \/ MirrorInCache(t) \/ MirrorFails(t), Same
      PROVE  TypeOK'
  <2>1. thread[t].tok \in Tokens /\ issued[thread[t].tok] \in Issue
    BY <1>7, <1>k DEF MirrorInCatalog, MirrorInCache, MirrorFails, At
  <2>2. issued' \in [Tokens -> Issue \cup {Nothing}]
    <3> DEFINE k == thread[t].tok
    <3>1. issued \in [Tokens -> Issue \cup {Nothing}] /\ k \in Tokens /\ issued[k] \in Issue
      BY <1>0, <2>1 DEF TypeOK
    <3>2. CASE MirrorFails(t)
      <4>1. issued' = [issued EXCEPT ![k].told = Kind(Home(t)) = "catalog"]
        BY <3>2 DEF MirrorFails
      <4>2. [issued[k] EXCEPT !.told = Kind(Home(t)) = "catalog"] \in Issue
        BY <3>1 DEF Issue
      <4> QED BY <3>1, <4>1, <4>2
    <3>3. CASE Mirrored(t)
      <4>1. issued' = [issued EXCEPT ![k].told = TRUE, ![k].mirrored = TRUE]
        BY <3>3 DEF Mirrored
      <4>2. [issued[k] EXCEPT !.told = TRUE, !.mirrored = TRUE] \in Issue
        BY <3>1 DEF Issue
      <4> QED BY <3>1, <4>1, <4>2
    <3> QED BY <1>7, <3>2, <3>3 DEF MirrorInCatalog, MirrorInCache
  <2>3. row' \in [Tokens -> Expiry]
    <3>1. issued[thread[t].tok].exp \in Expiry
      BY <2>1, <1>c DEF Issue, Expiry
    <3> QED BY <1>0, <1>7, <2>1, <3>1
            DEF MirrorInCatalog, MirrorInCache, MirrorFails, Mirrored, TypeOK
  <2>4. thread' \in [Threads -> Thread]
    BY <1>7, <1>l DEF MirrorInCatalog, MirrorInCache, MirrorFails, Mirrored
  <2>5. opened' \in [Threads -> 0..MaxNow \cup {Nothing}]
    BY <1>0, <1>7, <1>o DEF MirrorInCatalog, MirrorInCache, MirrorFails, TypeOK
  <2> QED BY <1>0, <1>7, <2>2, <2>3, <2>4, <2>5
          DEF MirrorInCatalog, MirrorInCache, MirrorFails, Mirrored, TypeOK
<1>8. ASSUME NEW t \in Threads, NEW k \in Tokens,
             \/ CheckCacheSession(t, k) \/ CheckCatalogSession(t, k) \/ CheckResultsSession(t, k),
             Same
      PROVE  TypeOK'
  <2>1. thread' \in [Threads -> Thread]
    <3>1. CASE CheckResultsSession(t, k)
      BY <1>e, <3>1 DEF CheckResultsSession
    <3>2. CASE CheckCatalogSession(t, k)
      <4>1. \/ UNCHANGED thread
            \/ thread' = [thread EXCEPT ![t].step = "confirm", ![t].tok = k]
        BY <3>2 DEF CheckCatalogSession
      <4>2. [thread[t] EXCEPT !.step = "confirm", !.tok = k] \in Thread
        BY <1>w DEF Steps
      <4> QED BY <1>0, <4>1, <4>2 DEF TypeOK
    <3>3. CASE CheckCacheSession(t, k)
      BY <1>0, <3>3 DEF CheckCacheSession, TypeOK
    <3> QED BY <1>8, <3>1, <3>2, <3>3
  <2>2. overdue' \subseteq Overdue
    BY <1>0, <1>8, <1>a
       DEF CheckCacheSession, CheckCatalogSession, CheckResultsSession, Presents, OfService, history,
           TypeOK
  <2>3. opened' \in [Threads -> 0..MaxNow \cup {Nothing}]
    BY <1>0, <1>8, <1>o
       DEF CheckCacheSession, CheckCatalogSession, CheckResultsSession, server, TypeOK
  <2> QED BY <1>0, <1>8, <2>1, <2>2, <2>3
          DEF CheckCacheSession, CheckCatalogSession, CheckResultsSession, server, history, TypeOK
<1>9. ASSUME NEW t \in Threads, NEW k \in Tokens, RefreshSession(t, k), Same PROVE TypeOK'
  <2>1. issued[k] \in Issue /\ row[k] \in Expiry
    BY <1>0, <1>9 DEF RefreshSession, Presents, OfService, TypeOK
  <2>2. CASE UNCHANGED <<row, issued>>
    BY <1>0, <1>9, <1>o, <2>2 DEF RefreshSession, TypeOK
  <2>3. CASE Extended(k)
    <3>1. row[k] + TTL \in 1..MaxExpiry /\ row[k] + TTL \in Expiry
      BY <1>c, <2>1, <2>3 DEF Extended, Expiry
    <3>2. [issued[k] EXCEPT !.exp = row[k] + TTL] \in Issue
      BY <2>1, <3>1 DEF Issue
    <3>3. row' \in [Tokens -> Expiry] /\ issued' \in [Tokens -> Issue \cup {Nothing}]
      BY <1>0, <2>3, <3>1, <3>2 DEF Extended, TypeOK
    <3> QED BY <1>0, <1>9, <1>o, <3>3 DEF RefreshSession, TypeOK
  <2> QED BY <1>9, <2>2, <2>3 DEF RefreshSession
<1>10. ASSUME NEW t \in Threads, GetSession(t), Same PROVE TypeOK'
  <2>1. thread' \in [Threads -> Thread]
    BY <1>10, <1>g, <1>l DEF GetSession, Steps
  <2> QED BY <1>0, <1>10, <2>1 DEF GetSession, server, history, TypeOK
<1>11. ASSUME NEW t \in Threads, EvictSession(t), Same PROVE TypeOK'
  <2>1. memory' \in [Tokens -> Expiry]
    <3>1. 0 \in Expiry
      BY <1>c DEF Expiry
    <3> QED BY <1>0, <1>11, <3>1 DEF EvictSession, TypeOK
  <2> QED BY <1>0, <1>11, <1>l, <2>1 DEF EvictSession, history, TypeOK
<1>12. ASSUME NEW t \in Threads, ConfirmResults(t) \/ ConfirmCatalog(t), Same PROVE TypeOK'
  <2>1. overdue' \subseteq Overdue
    <3>1. thread[t].tok \in Tokens /\ issued[thread[t].tok] # Nothing
      BY <1>0, <1>12, <1>k, NoRecord DEF ConfirmResults, ConfirmCatalog, At
    <3>2. Accept(t, thread[t].tok) \/ UNCHANGED overdue
      BY <1>12 DEF ConfirmResults, ConfirmCatalog
    <3> QED BY <1>0, <1>a, <3>1, <3>2 DEF TypeOK
  <2>2. opened' \in [Threads -> 0..MaxNow \cup {Nothing}]
    BY <1>0, <1>12, <1>o DEF ConfirmResults, ConfirmCatalog, server, TypeOK
  <2> QED BY <1>0, <1>12, <1>l, <2>1, <2>2 DEF ConfirmResults, ConfirmCatalog, server, TypeOK
<1>13. CASE Tick
  BY <1>0, <1>13, <1>c DEF Tick, server, history, TypeOK
<1>14. ASSUME NEW s \in Services, Restart(s) PROVE TypeOK'
  <2>1. deployment \in Deployment
    BY <1>0, DeploymentType
  <2>2. restarts' \in 0..deployment.crashes
    BY <1>0, <1>14, <2>1 DEF Restart, TypeOK, Deployment
  <2>3. memory' \in [Tokens -> Expiry]
    BY <1>0, <1>14, <1>c DEF Restart, TypeOK, Expiry
  <2> QED BY <1>0, <1>14, <1>i, <2>2, <2>3 DEF Restart, TypeOK
<1>15. CASE UNCHANGED vars
  BY <1>0, <1>15 DEF vars, server, history, TypeOK
<1> QED BY <1>r, <1>1, <1>2, <1>3, <1>4, <1>5, <1>6, <1>7, <1>8, <1>9, <1>10, <1>11, <1>12,
           <1>13, <1>14, <1>15 DEF Next, Request

-----------------------------------------------------------------------------
(* Threads and what they hold. *)

\* A request changes what its own thread does.
LEMMA OthersStay ==
  ASSUME TypeOK, NEW t \in Threads, Request(t), NEW u \in Threads, u # t
  PROVE  thread'[u] = thread[u]
BY DEF TypeOK, Request, LoginAllowed, LoginThrottled, ReadClock, EnterManager, ResolvePassword,
       ClaimPasswordFile, WritePassword, InstallManager, ReturnManager, Authenticate,
       AuthenticateSucceeds, AuthenticateFails, AuthenticateRefused, MirrorInCatalog,
       MirrorInCache, MirrorFails, Mirrored, CheckCacheSession, CheckCatalogSession,
       CheckResultsSession, RefreshSession, GetSession, EvictSession, ConfirmResults,
       ConfirmCatalog, Goto, Leave

\* These are the requests that build a manager or find one.
Finding(t) == \/ \E sweep \in BOOLEAN: LoginAllowed(t, sweep)
              \/ \E k \in Tokens: CheckResultsSession(t, k)
Preparing(t) == ResolvePassword(t) \/ ClaimPasswordFile(t) \/ WritePassword(t)

\* Every other one leaves its thread idle, or as it is, or past the manager.
LEMMA OtherRequests ==
  ASSUME TypeOK, NEW t \in Threads, Request(t), ~Finding(t), ~Preparing(t),
         ~InstallManager(t), ~ReturnManager(t), ~Authenticate(t)
  PROVE  /\ UNCHANGED <<file, cred, manager>>
         /\ \/ UNCHANGED thread
            \/ thread'[t] = Idle
            \/ /\ thread'[t].step \in {"limit", "confirm", "evict"}
               /\ thread'[t].mgr = thread[t].mgr
               /\ thread[t].step \in {"idle", "lookup"}
<1>1. CASE \E k \in Tokens: CheckCatalogSession(t, k)
  BY <1>1 DEF CheckCatalogSession, Presents, At, TypeOK, Thread
<1>2. CASE GetSession(t)
  BY <1>2 DEF GetSession, Goto, Leave, server, At, TypeOK, Thread
<1>3. ASSUME NEW sweep \in BOOLEAN, LoginThrottled(t, sweep)
      PROVE  UNCHANGED <<file, cred, manager>> /\ thread'[t] = Idle
  BY <1>3 DEF LoginThrottled, Leave, TypeOK
<1>4. ASSUME NEW k \in Tokens, CheckCacheSession(t, k) \/ RefreshSession(t, k)
      PROVE  UNCHANGED <<file, cred, manager, thread>>
  BY <1>4 DEF CheckCacheSession, RefreshSession, server
<1>5. CASE \/ AuthenticateRefused(t) \/ MirrorInCatalog(t) \/ MirrorInCache(t) \/ MirrorFails(t)
           \/ EvictSession(t) \/ ConfirmResults(t) \/ ConfirmCatalog(t)
  BY <1>5 DEF AuthenticateRefused, MirrorInCatalog, MirrorInCache, MirrorFails, Mirrored,
              EvictSession, ConfirmResults, ConfirmCatalog, Leave, server, TypeOK
<1>6. CASE ReadClock(t)
  BY <1>6 DEF ReadClock, server, At, TypeOK, Thread
<1> QED BY <1>1, <1>2, <1>3, <1>4, <1>5, <1>6 DEF Request, Finding, Preparing

LEMMA FindingManager ==
  ASSUME TypeOK, NEW t \in Threads, Finding(t)
  PROVE  /\ UNCHANGED <<file, cred, manager, memory, row, issued>>
         /\ At(t, "idle") \/ At(t, "limit")
         /\ thread'[t].tok = Nothing \/ thread'[t].tok \in OfService(Home(t))
         /\ \/ /\ manager[Home(t)] # Nothing
               /\ thread'[t].mgr = manager[Home(t)]
               /\ thread'[t].step = Use(thread'[t].tok)
            \/ thread'[t].step = "resolve" /\ thread'[t].mgr \in UnusedManagers
<1>1. ASSUME NEW k \in Tokens \cup {Nothing}, EnterManager(t, k)
      PROVE  /\ thread'[t].tok = k
             /\ \/ /\ manager[Home(t)] # Nothing
                   /\ thread'[t].mgr = manager[Home(t)]
                   /\ thread'[t].step = Use(thread'[t].tok)
                \/ thread'[t].step = "resolve" /\ thread'[t].mgr \in UnusedManagers
  BY <1>1 DEF EnterManager, TypeOK
<1>2. ASSUME NEW sweep \in BOOLEAN, LoginAllowed(t, sweep)
      PROVE  /\ UNCHANGED <<file, cred, manager, memory, row, issued>>
             /\ At(t, "limit") /\ EnterManager(t, Nothing)
  BY <1>2 DEF LoginAllowed
<1>3. ASSUME NEW k \in Tokens, CheckResultsSession(t, k)
      PROVE  /\ UNCHANGED <<file, cred, manager, memory, row, issued>>
             /\ At(t, "idle") /\ EnterManager(t, k) /\ k \in OfService(Home(t))
  BY <1>3 DEF CheckResultsSession, Presents, server, history
<1> QED BY <1>1, <1>2, <1>3 DEF Finding

-----------------------------------------------------------------------------
(* The admin password. *)

LEMMA PasswordStep == Inv /\ [Next]_vars => WriterInv' /\ SharedCredential'
<1> SUFFICES ASSUME Inv, [Next]_vars PROVE WriterInv' /\ SharedCredential' OBVIOUS
<1>0. TypeOK /\ WriterInv /\ SharedCredential /\ ManagerInv
  BY DEF Inv
<1>m. "empty" \notin Managers /\ "absent" \notin Managers
  BY SessionsAssumption
<1>f. \A m \in Managers: cred[m] # Nothing => cred[m] \in Credential
  BY <1>0 DEF TypeOK
<1>1. ASSUME UNCHANGED <<file, cred>>, \A u \in Threads: At(u, "write")' => At(u, "write")
      PROVE  WriterInv' /\ SharedCredential'
  BY <1>0, <1>1 DEF WriterInv, SharedCredential
<1>2. ASSUME NEW t \in Threads, Request(t), Preparing(t) PROVE WriterInv' /\ SharedCredential'
  <2>1. /\ thread[t].mgr \in Managers
        /\ \A u \in Threads: u # t => thread'[u] = thread[u]
    BY <1>0, <1>2, OthersStay
       DEF Preparing, ResolvePassword, ClaimPasswordFile, WritePassword, ManagerInv, Building, At
  <2>2. CASE ResolvePassword(t)
    <3>1. ~At(t, "write")'
      <4>1. Goto(t, "install") \/ Goto(t, "claim")
        BY <2>2 DEF ResolvePassword
      <4>2. thread'[t].step \in {"install", "claim"}
        BY <1>0, <4>1 DEF Goto, TypeOK, Thread
      <4> QED BY <4>2 DEF At
    <3>2. file' = file
      BY <2>2 DEF ResolvePassword
    <3>3. \/ cred' = cred
          \/ cred' = [cred EXCEPT ![thread[t].mgr] = [pw |-> file, from |-> "file"]]
      BY <2>2 DEF ResolvePassword, SetCredential
    <3>4. WriterInv'
      BY <1>0, <2>1, <3>1, <3>2 DEF WriterInv, At
    <3>5. SharedCredential'
      BY <1>0, <2>1, <3>2, <3>3 DEF SharedCredential, TypeOK
    <3> QED BY <3>4, <3>5
  <2>3. CASE ClaimPasswordFile(t)
    <3>1. CASE file = "absent" /\ file' = "empty" /\ UNCHANGED cred /\ Goto(t, "write")
      <4>1. \A u \in Threads: ~At(u, "write")
        BY <1>0, <3>1 DEF WriterInv
      <4>2. WriterInv'
        BY <2>1, <3>1, <4>1 DEF WriterInv, At
      <4>3. \A m \in Managers: cred[m] # Nothing => cred[m].from # "file"
        BY <1>0, <1>f, <1>m, <3>1 DEF SharedCredential, Credential
      <4> QED BY <3>1, <4>2, <4>3 DEF SharedCredential
    <3>2. CASE /\ file' = file /\ Goto(t, "install")
               /\ \/ SetCredential(t, file, "file")
                  \/ SetCredential(t, thread[t].mgr, "own")
      <4>1. ~At(t, "write")'
        BY <1>0, <3>2 DEF Goto, At, TypeOK
      <4>2. WriterInv'
        BY <1>0, <2>1, <3>2, <4>1 DEF WriterInv, At
      <4>3. SharedCredential'
        <5>1. \/ cred' = [cred EXCEPT ![thread[t].mgr] = [pw |-> file, from |-> "file"]]
              \/ cred' = [cred EXCEPT ![thread[t].mgr] = [pw |-> thread[t].mgr, from |-> "own"]]
          BY <3>2 DEF SetCredential
        <5> SUFFICES ASSUME NEW m \in Managers, cred'[m] # Nothing, cred'[m].from = "file"
                     PROVE  cred'[m].pw = file
          BY <3>2 DEF SharedCredential
        <5>2. CASE m = thread[t].mgr
          BY <1>0, <5>1, <5>2 DEF TypeOK
        <5>3. CASE m # thread[t].mgr
          BY <1>0, <5>1, <5>3 DEF SharedCredential, TypeOK
        <5> QED BY <5>2, <5>3
      <4> QED BY <4>2, <4>3
    <3> QED BY <2>3, <3>1, <3>2 DEF ClaimPasswordFile
  <2>4. CASE WritePassword(t)
    <3>1. At(t, "write") /\ file = "empty" /\ ~At(t, "write")'
      BY <1>0, <2>4 DEF WritePassword, Goto, At, WriterInv, TypeOK
    <3>2. \A u \in Threads: ~At(u, "write")'
      BY <1>0, <2>1, <3>1 DEF WriterInv, At
    <3>3. \A m \in Managers: cred[m] # Nothing => cred[m].from # "file"
      BY <1>0, <1>f, <1>m, <3>1 DEF SharedCredential, Credential
    <3>4. \/ /\ file' = thread[t].mgr
             /\ cred' = [cred EXCEPT ![thread[t].mgr] = [pw |-> thread[t].mgr, from |-> "file"]]
          \/ cred' = [cred EXCEPT ![thread[t].mgr] = [pw |-> thread[t].mgr, from |-> "own"]]
      BY <2>4 DEF WritePassword, SetCredential
    <3>5. SharedCredential'
      <4> SUFFICES ASSUME NEW m \in Managers, cred'[m] # Nothing, cred'[m].from = "file"
                   PROVE  cred'[m].pw = file'
        BY DEF SharedCredential
      <4>1. m = thread[t].mgr
        BY <1>0, <3>3, <3>4 DEF TypeOK
      <4>2. cred \in [Managers -> Credential \cup {Nothing}]
        BY <1>0 DEF TypeOK
      <4> QED BY <3>4, <4>1, <4>2
    <3> QED BY <3>2, <3>5 DEF WriterInv
  <2> QED BY <1>2, <2>2, <2>3, <2>4 DEF Preparing
<1>3. ASSUME NEW t \in Threads, Request(t), ~Preparing(t) PROVE WriterInv' /\ SharedCredential'
  <2>1. UNCHANGED <<file, cred>> /\ (At(t, "write")' => At(t, "write"))
    <3>1. CASE Finding(t)
      BY <1>0, <3>1, FindingManager DEF At, Use
    <3>2. CASE InstallManager(t)
      BY <1>0, <3>2 DEF InstallManager, Goto, At, TypeOK
    <3>3. CASE ReturnManager(t)
      BY <1>0, <3>3 DEF ReturnManager, server, At, Use, TypeOK
    <3>4. CASE Authenticate(t)
      <4>1. UNCHANGED <<file, cred>>
        BY <3>4 DEF Authenticate
      <4>2. \/ thread' = [thread EXCEPT ![t] = Idle]
            \/ \E k \in Tokens: thread' = [thread EXCEPT ![t].step = "mirror", ![t].tok = k]
        BY <3>4 DEF Authenticate, AuthenticateSucceeds, AuthenticateFails, Leave
      <4>3. thread'[t].step \in {"idle", "mirror"}
        BY <1>0, <4>2 DEF TypeOK, Thread, Idle
      <4> QED BY <4>1, <4>3 DEF At
    <3>5. CASE ~(Finding(t) \/ InstallManager(t) \/ ReturnManager(t) \/ Authenticate(t))
      BY <1>0, <1>3, <3>5, OtherRequests DEF At, Idle
    <3> QED BY <3>1, <3>2, <3>3, <3>4, <3>5
  <2> QED BY <1>0, <1>1, <1>3, <2>1, OthersStay DEF At
<1>4. CASE Tick \/ UNCHANGED vars
  BY <1>1, <1>4 DEF Tick, vars, server, At
<1>5. ASSUME NEW s \in Services, Restart(s) PROVE WriterInv' /\ SharedCredential'
  BY <1>1, <1>5 DEF Restart, At, Idle
<1> QED BY <1>2, <1>3, <1>4, <1>5 DEF Next

-----------------------------------------------------------------------------
(* Managers and tokens. *)

\* A step issues a token or leaves alone who made it for whom.
LEMMA IssuedStep ==
  ASSUME TypeOK, TokenInv, [Next]_vars, NEW k \in Tokens
  PROVE  \/ issued'[k] = issued[k]
         \/ /\ issued[k] # Nothing /\ issued'[k] # Nothing
            /\ issued'[k].svc = issued[k].svc /\ issued'[k].mgr = issued[k].mgr
         \/ issued[k] = Nothing /\ \E t \in Threads: Authenticate(t) /\ issued'[k].mgr = thread[t].mgr
<1> DEFINE Stays == /\ issued[k] # Nothing /\ issued'[k] # Nothing
                    /\ issued'[k].svc = issued[k].svc /\ issued'[k].mgr = issued[k].mgr
<1>0. issued \in [Tokens -> Issue \cup {Nothing}]
  BY DEF TypeOK
<1>1. ASSUME NEW t \in Threads, Authenticate(t)
      PROVE  \/ issued'[k] = issued[k]
             \/ issued[k] = Nothing /\ issued'[k].mgr = thread[t].mgr
  <2>1. PICK j \in Tokens, told \in BOOLEAN:
          /\ issued[j] = Nothing
          /\ issued' = [issued EXCEPT ![j] =
               [svc |-> Home(t), mgr |-> thread[t].mgr, exp |-> now + TTL,
                told |-> told, mirrored |-> FALSE]]
    BY <1>1 DEF Authenticate
  <2> QED BY <1>0, <2>1
<1>2. ASSUME NEW t \in Threads, MirrorInCatalog(t) \/ MirrorInCache(t) \/ MirrorFails(t)
      PROVE  issued'[k] = issued[k] \/ Stays
  <2>1. thread[t].tok # Nothing /\ thread[t].tok \in Tokens /\ issued[thread[t].tok] # Nothing
    BY <1>2 DEF MirrorInCatalog, MirrorInCache, MirrorFails, TokenInv, OfService, At
  <2>2. CASE k # thread[t].tok
    BY <1>0, <1>2, <2>2 DEF MirrorInCatalog, MirrorInCache, MirrorFails, Mirrored
  <2>3. CASE k = thread[t].tok
    <3>1. issued[k] \in Issue
      BY <1>0, <2>1, <2>3
    <3>2. \/ issued'[k] = [issued[k] EXCEPT !.told = TRUE, !.mirrored = TRUE]
          \/ issued'[k] = [issued[k] EXCEPT !.told = Kind(Home(t)) = "catalog"]
      BY <1>0, <1>2, <2>3 DEF MirrorInCatalog, MirrorInCache, MirrorFails, Mirrored
    <3>3. issued'[k] \in Issue /\ issued'[k].svc = issued[k].svc /\ issued'[k].mgr = issued[k].mgr
      BY <3>1, <3>2 DEF Issue
    <3> QED BY <2>1, <2>3, <3>3, NoRecord
  <2> QED BY <2>2, <2>3
<1>3. ASSUME NEW t \in Threads, NEW j \in Tokens, RefreshSession(t, j)
      PROVE  issued'[k] = issued[k] \/ Stays
  <2>1. \/ issued' = issued
        \/ issued' = [issued EXCEPT ![j].exp = row[j] + TTL] /\ row[j] + TTL \in 1..MaxExpiry
    <3>1. row[j] \in Nat
      BY SessionsAssumption DEF TypeOK, Expiry
    <3> QED BY <1>3, <3>1, SessionsAssumption DEF RefreshSession, Extended
  <2>2. issued[j] # Nothing
    BY <1>3 DEF RefreshSession, Presents, OfService
  <2>3. CASE k = j /\ issued' = [issued EXCEPT ![j].exp = row[j] + TTL] /\ row[j] + TTL \in 1..MaxExpiry
    <3>1. issued[k] \in Issue /\ issued'[k] = [issued[k] EXCEPT !.exp = row[j] + TTL]
      BY <1>0, <2>2, <2>3
    <3> QED BY <2>2, <2>3, <3>1, NoRecord DEF Issue
  <2> QED BY <1>0, <2>1, <2>3
<1>5. \/ issued' = issued
      \/ \E t \in Threads: \/ Authenticate(t) \/ MirrorInCatalog(t) \/ MirrorInCache(t)
                           \/ MirrorFails(t) \/ \E j \in Tokens: RefreshSession(t, j)
  BY DEF Next, Request, vars, server, history, LoginAllowed, LoginThrottled, ReadClock, ResolvePassword,
         ClaimPasswordFile, WritePassword, InstallManager, ReturnManager, AuthenticateRefused,
         CheckCacheSession, CheckCatalogSession, CheckResultsSession, GetSession,
         EvictSession, ConfirmResults, ConfirmCatalog, Tick, Restart
<1> QED BY <1>1, <1>2, <1>3, <1>5

LEMMA Authenticated ==
  ASSUME TypeOK, NEW t \in Threads, Authenticate(t)
  PROVE  /\ At(t, "authenticate")
         /\ thread'[t].step \in {"idle", "mirror"}
         /\ thread'[t].mgr \in {Nothing, thread[t].mgr}
<1>1. \/ thread' = [thread EXCEPT ![t] = Idle]
      \/ \E k \in Tokens: thread' = [thread EXCEPT ![t].step = "mirror", ![t].tok = k]
  BY DEF Authenticate, AuthenticateSucceeds, AuthenticateFails, Leave
<1>2. At(t, "authenticate")
  BY DEF Authenticate
<1> QED BY <1>1, <1>2 DEF TypeOK, Thread, Idle

LEMMA ManagerStep == Inv /\ [Next]_vars => ManagerInv'
<1> SUFFICES ASSUME Inv, [Next]_vars PROVE ManagerInv' OBVIOUS
<1>0. TypeOK /\ TokenInv /\ ManagerInv
  BY DEF Inv
<1>n. Nothing \notin Managers
  BY SessionsAssumption
<1>s. \A k \in Tokens: issued[k] # Nothing =>
        issued'[k] # Nothing /\ issued'[k].mgr = issued[k].mgr
  BY <1>0, IssuedStep
<1>h. \A t \in Threads: Home(t) \in Services
  BY <1>0, DeploymentType
<1> DEFINE Same == UNCHANGED <<deployment, now, restarts>>
<1>1. ASSUME NEW t \in Threads, Request(t), Finding(t), Same PROVE ManagerInv'
  <2>1. /\ UNCHANGED <<cred, manager, issued, deployment>>
        /\ \A u \in Threads: u # t => thread'[u] = thread[u]
    BY <1>0, <1>1, FindingManager, OthersStay
  <2>2. CASE /\ manager[Home(t)] # Nothing
             /\ thread'[t].mgr = manager[Home(t)]
             /\ thread'[t].step = Use(thread'[t].tok)
    <3>1. manager[Home(t)] \in Managers /\ cred[manager[Home(t)]] # Nothing
      BY <1>0, <1>h, <2>2 DEF ManagerInv, TypeOK
    <3>2. thread'[t].step \in {"authenticate", "lookup"}
      BY <2>2 DEF Use
    <3> QED BY <1>0, <1>h, <2>1, <2>2, <3>1, <3>2 DEF ManagerInv, Building, At, Home
  <2>3. CASE thread'[t].step = "resolve" /\ thread'[t].mgr \in UnusedManagers
    <3> DEFINE m == thread'[t].mgr
    <3>1. m \in Managers /\ cred[m] = Nothing /\ \A u \in Threads: thread[u].mgr # m
      BY <2>3 DEF UnusedManagers
    <3>2. \A s \in Services: manager[s] # Nothing => manager[s] # m
      BY <1>0, <3>1 DEF ManagerInv
    <3>3. \A s \in Services: manager[s] # m
      BY <1>n, <3>1, <3>2
    <3>4. \A k \in Tokens: issued[k] # Nothing => issued[k].mgr # m
      BY <1>0, <3>1 DEF ManagerInv
    <3> HIDE DEF m
    <3>5. m = thread'[t].mgr
      BY DEF m
    <3> QED BY <1>0, <2>1, <2>3, <3>1, <3>3, <3>4, <3>5 DEF ManagerInv, Building, At, Home
  <2> QED BY <1>0, <1>1, <2>2, <2>3, FindingManager
<1>2. ASSUME NEW t \in Threads, Request(t), Preparing(t), Same PROVE ManagerInv'
  <2>1. /\ UNCHANGED <<manager, issued, deployment>>
        /\ \A u \in Threads: u # t => thread'[u] = thread[u]
        /\ Building(t)
    BY <1>0, <1>2, OthersStay
       DEF Preparing, ResolvePassword, ClaimPasswordFile, WritePassword, Building, At, history
  <2>3. thread[t].mgr \in Managers
    BY <1>0, <2>1 DEF ManagerInv
  <2>2. /\ thread'[t].mgr = thread[t].mgr /\ thread'[t].tok = thread[t].tok
        /\ \/ thread'[t].step \in {"claim", "write"} /\ UNCHANGED cred
           \/ thread'[t].step = "install" /\ \E c \in Credential: cred' = [cred EXCEPT ![thread[t].mgr] = c]
    <3>1. \/ (Goto(t, "claim") \/ Goto(t, "write")) /\ UNCHANGED cred
          \/ /\ Goto(t, "install")
             /\ \/ SetCredential(t, thread[t].mgr, "own") \/ SetCredential(t, thread[t].mgr, "file")
                \/ InFile /\ SetCredential(t, file, "file")
      BY <1>2 DEF Preparing, ResolvePassword, ClaimPasswordFile, WritePassword
    <3>2. \/ (Goto(t, "claim") \/ Goto(t, "write")) /\ UNCHANGED cred
          \/ Goto(t, "install") /\ \E c \in Credential: cred' = [cred EXCEPT ![thread[t].mgr] = c]
      <4>1. \A m \in Managers, from \in {"file", "own"}: [pw |-> m, from |-> from] \in Credential
        BY DEF Credential
      <4> QED BY <2>3, <3>1, <4>1 DEF SetCredential, InFile
    <3>3. \A step \in Steps: Goto(t, step) =>
            thread'[t].mgr = thread[t].mgr /\ thread'[t].tok = thread[t].tok /\ thread'[t].step = step
      BY <1>0 DEF Goto, TypeOK, Thread
    <3> QED BY <3>2, <3>3 DEF Steps
  <2>4. \A m \in Managers: cred[m] # Nothing => cred'[m] # Nothing
    BY <1>0, <2>2, NoRecord DEF TypeOK
  <2>5. thread'[t].step = "install" => cred'[thread[t].mgr] # Nothing
    BY <1>0, <2>2, <2>3, NoRecord DEF TypeOK
  <2>6. \A s \in Services: manager[s] # Nothing => manager[s] \in Managers
    BY <1>0 DEF TypeOK
  <2>7. \A k \in Tokens: issued[k] # Nothing => issued[k].mgr \in Managers
    BY <1>0 DEF TypeOK, Issue
  <2> QED BY <1>0, <2>1, <2>2, <2>3, <2>4, <2>5, <2>6, <2>7 DEF ManagerInv, Building, At, Home
<1>3. ASSUME NEW t \in Threads, Request(t), InstallManager(t), Same PROVE ManagerInv'
  <2>1. /\ UNCHANGED <<cred, issued, deployment>>
        /\ \A u \in Threads: u # t => thread'[u] = thread[u]
        /\ thread'[t].mgr = thread[t].mgr /\ thread'[t].step = "return"
        /\ manager' = [manager EXCEPT ![Home(t)] = thread[t].mgr]
        /\ At(t, "install")
    BY <1>0, <1>3, OthersStay DEF InstallManager, Goto, history, TypeOK, Thread
  <2>2. thread[t].mgr \in Managers /\ cred[thread[t].mgr] # Nothing
        /\ \A u \in Threads: u # t => thread[u].mgr # thread[t].mgr
    BY <1>0, <2>1 DEF ManagerInv, At, Building
  <2>3. \A s \in Services: manager'[s] = IF s = Home(t) THEN thread[t].mgr ELSE manager[s]
    BY <1>0, <1>h, <2>1 DEF TypeOK
  <2>4. \A u \in Threads: Building(u)' => u # t /\ Building(u)
    BY <2>1 DEF Building
  <2>5. manager'[Home(t)] # Nothing /\ \A u \in Threads: Home(u)' = Home(u)
    BY <1>n, <1>h, <2>1, <2>2, <2>3 DEF Home
  <2> QED BY <1>0, <1>n, <1>h, <2>1, <2>2, <2>3, <2>4, <2>5 DEF ManagerInv, Building, At
<1>4. ASSUME NEW t \in Threads, Request(t), ReturnManager(t), Same PROVE ManagerInv'
  <2>1. /\ UNCHANGED <<cred, manager, issued, deployment>>
        /\ \A u \in Threads: u # t => thread'[u] = thread[u]
        /\ thread'[t].mgr = manager[Home(t)]
        /\ thread'[t].step \in {"authenticate", "lookup"}
        /\ At(t, "return")
    BY <1>0, <1>4, OthersStay DEF ReturnManager, Use, server, history, TypeOK, Thread
  <2>2. manager[Home(t)] \in Managers /\ cred[manager[Home(t)]] # Nothing
    BY <1>0, <1>h, <2>1 DEF ManagerInv, TypeOK
  <2> QED BY <1>0, <1>h, <2>1, <2>2 DEF ManagerInv, Building, At, Home
<1>5. ASSUME NEW t \in Threads, Request(t), Authenticate(t), Same PROVE ManagerInv'
  <2>1. /\ UNCHANGED <<cred, manager, deployment>>
        /\ \A u \in Threads: u # t => thread'[u] = thread[u]
        /\ At(t, "authenticate")
    BY <1>0, <1>5, OthersStay DEF Authenticate
  <2>2. thread'[t].mgr \in {Nothing, thread[t].mgr} /\ thread'[t].step \in {"idle", "mirror"}
    BY <1>0, <1>5, Authenticated
  <2>3. \A k \in Tokens: issued'[k] # Nothing =>
          \/ issued[k] # Nothing /\ issued'[k].mgr = issued[k].mgr
          \/ issued'[k].mgr = thread[t].mgr
    <3>1. PICK j \in Tokens, told \in BOOLEAN:
            issued' = [issued EXCEPT ![j] =
               [svc |-> Home(t), mgr |-> thread[t].mgr, exp |-> now + TTL,
                told |-> told, mirrored |-> FALSE]]
      BY <1>5 DEF Authenticate
    <3> QED BY <1>0, <3>1 DEF TypeOK
  <2>4. thread[t].mgr \in Managers /\ cred[thread[t].mgr] # Nothing
        /\ \A u \in Threads: Building(u) => u # t /\ thread[u].mgr # thread[t].mgr
    BY <1>0, <2>1 DEF ManagerInv, At, Building
  <2> QED BY <1>0, <1>n, <2>1, <2>2, <2>3, <2>4 DEF ManagerInv, Building, At, Home
<1>6. ASSUME NEW t \in Threads, Request(t), ~Finding(t), ~Preparing(t),
             ~InstallManager(t), ~ReturnManager(t), ~Authenticate(t), Same
      PROVE ManagerInv'
  <2>1. /\ UNCHANGED <<cred, manager, deployment>>
        /\ \A u \in Threads: u # t => thread'[u] = thread[u]
        /\ \/ UNCHANGED thread
           \/ thread'[t] = Idle
           \/ /\ thread'[t].step \in {"limit", "confirm", "evict"}
              /\ thread'[t].mgr = thread[t].mgr
    BY <1>0, <1>6, OthersStay, OtherRequests
  <2>2. \A k \in Tokens: issued'[k] # Nothing => issued[k] # Nothing
    <3>1. ASSUME NEW k \in Tokens, NEW u \in Threads, issued[k] = Nothing, issued'[k] # Nothing,
                 Authenticate(u)
          PROVE  FALSE
      BY <1>0, <1>6, <3>1, Authenticated, OthersStay DEF At
    <3> QED BY <1>0, <3>1, IssuedStep
  <2> QED BY <1>0, <1>n, <1>s, <2>1, <2>2 DEF ManagerInv, Building, At, Home, Idle
<1>7. CASE Tick \/ UNCHANGED vars
  BY <1>0, <1>7 DEF Tick, vars, server, history, ManagerInv, Building, At, Home
<1>8. ASSUME NEW s \in Services, Restart(s) PROVE ManagerInv'
  <2>1. /\ UNCHANGED <<cred, issued, deployment>>
        /\ \A u \in Threads: thread'[u] = IF Home(u) = s THEN Idle ELSE thread[u]
        /\ \A r \in Services: manager'[r] = IF r = s THEN Nothing ELSE manager[r]
    BY <1>0, <1>8 DEF Restart, TypeOK
  <2>2. \A u \in Threads: \/ thread'[u] = thread[u] /\ Home(u) # s
                          \/ thread'[u].step = "idle" /\ thread'[u].mgr = Nothing
    <3>1. Idle.step = "idle" /\ Idle.mgr = Nothing
      BY DEF Idle
    <3> HIDE DEF Idle
    <3>2. \A u \in Threads: IF Home(u) = s THEN thread'[u] = Idle ELSE thread'[u] = thread[u]
      BY <2>1
    <3> QED BY <3>1, <3>2
  <2>3. \A u \in Threads: Building(u)' => Building(u) /\ thread'[u] = thread[u]
    BY <2>2 DEF Building
  <2>4. \A u \in Threads: At(u, "return")' => manager'[Home(u)'] # Nothing
    <3> SUFFICES ASSUME NEW u \in Threads, At(u, "return")' PROVE manager'[Home(u)'] # Nothing
      OBVIOUS
    <3>1. At(u, "return") /\ Home(u) # s /\ Home(u)' = Home(u)
      BY <2>1, <2>2 DEF At, Home
    <3> QED BY <1>0, <1>h, <2>1, <3>1 DEF ManagerInv
  <2>5. \A u \in Threads: Building(u)' =>
          /\ thread'[u].mgr \in Managers
          /\ \A v \in Threads: thread'[v].mgr = thread'[u].mgr => v = u
          /\ \A r \in Services: manager'[r] # thread'[u].mgr
          /\ \A k \in Tokens: issued'[k] # Nothing => issued'[k].mgr # thread'[u].mgr
    BY <1>0, <1>n, <2>1, <2>2, <2>3 DEF ManagerInv
  <2>6. /\ \A r \in Services: manager'[r] # Nothing => cred'[manager'[r]] # Nothing
        /\ \A k \in Tokens: issued'[k] # Nothing => cred'[issued'[k].mgr] # Nothing
    BY <1>0, <2>1 DEF ManagerInv
  <2>7. \A u \in Threads: thread'[u].step \in {"install", "return", "authenticate", "lookup"} =>
          thread'[u].mgr \in Managers /\ cred'[thread'[u].mgr] # Nothing
    BY <1>0, <2>1, <2>2 DEF ManagerInv
  <2> QED BY <2>4, <2>5, <2>6, <2>7 DEF ManagerInv
<1> QED BY <1>1, <1>2, <1>3, <1>4, <1>5, <1>6, <1>7, <1>8 DEF Next

\* A step leaves every token a thread works on with the service that issued it.
LEMMA TokenStep == Inv /\ [Next]_vars => TokenInv'
<1> SUFFICES ASSUME Inv, [Next]_vars PROVE TokenInv' OBVIOUS
<1>0. TypeOK /\ TokenInv
  BY DEF Inv
<1>1. \A k \in Tokens: issued[k] # Nothing => issued'[k] # Nothing /\ issued'[k].svc = issued[k].svc
  BY <1>0, IssuedStep
<1> DEFINE Good(t) ==
      /\ thread'[t].step \in {"mirror", "lookup", "confirm", "evict"} => thread'[t].tok # Nothing
      /\ thread'[t].tok # Nothing =>
           /\ thread'[t].tok \in Tokens /\ issued'[thread'[t].tok] # Nothing
           /\ issued'[thread'[t].tok].svc = Home(t)'
           Keeps(t) == /\ thread'[t].tok = thread[t].tok
                       /\ thread'[t].step \in {"mirror", "lookup", "confirm", "evict"}
                            => thread[t].step \in {"mirror", "lookup", "confirm", "evict"}
           Given(t) == /\ thread'[t].step \in {"lookup", "confirm"}
                         => thread'[t].tok # Nothing
                       /\ thread'[t].step \notin {"mirror", "evict"}
                       /\ thread'[t].tok # Nothing => thread'[t].tok \in OfService(Home(t))
<1>2. ASSUME NEW t \in Threads, Keeps(t), UNCHANGED deployment PROVE Good(t)
  BY <1>0, <1>1, <1>2 DEF TokenInv, OfService, Home
<1>3. ASSUME NEW t \in Threads, thread'[t] = Idle PROVE Good(t)
  BY <1>3 DEF Idle
<1>4. ASSUME NEW t \in Threads, Given(t), UNCHANGED deployment PROVE Good(t)
  BY <1>1, <1>4 DEF OfService, Home
<1>5. ASSUME NEW t \in Threads, Request(t), UNCHANGED deployment PROVE Good(t)
  <2>1. CASE Finding(t)
    <3>1. Given(t)
      BY <1>0, <2>1, FindingManager DEF Use
    <3> QED BY <1>4, <1>5, <3>1
  <2>2. CASE Preparing(t)
    <3>1. Goto(t, "claim") \/ Goto(t, "write") \/ Goto(t, "install")
      BY <2>2 DEF Preparing, ResolvePassword, ClaimPasswordFile, WritePassword
    <3>2. Keeps(t)
      BY <1>0, <3>1 DEF Goto, TypeOK, Thread
    <3> QED BY <1>2, <1>5, <3>2
  <2>3. CASE InstallManager(t)
    <3>1. Keeps(t)
      BY <1>0, <2>3 DEF InstallManager, Goto, TypeOK, Thread
    <3> QED BY <1>2, <1>5, <3>1
  <2>4. CASE ReturnManager(t)
    <3>1. thread'[t].tok = thread[t].tok /\ thread'[t].step = Use(thread[t].tok)
      BY <1>0, <2>4 DEF ReturnManager, TypeOK, Thread
    <3>2. Given(t)
      BY <1>0, <3>1 DEF Use, TokenInv
    <3> QED BY <1>4, <1>5, <3>2
  <2>5. CASE Authenticate(t)
    <3>1. PICK k \in Tokens:
            /\ thread' = [thread EXCEPT ![t] = Idle]
               \/ thread' = [thread EXCEPT ![t].step = "mirror", ![t].tok = k]
            /\ \E told \in BOOLEAN: issued' = [issued EXCEPT ![k] =
                 [svc |-> Home(t), mgr |-> thread[t].mgr, exp |-> now + TTL,
                  told |-> told, mirrored |-> FALSE]]
      BY <2>5 DEF Authenticate, AuthenticateSucceeds, AuthenticateFails, Leave
    <3>2. issued'[k] # Nothing /\ issued'[k].svc = Home(t)
      <4>1. PICK told \in BOOLEAN: issued'[k] =
                 [svc |-> Home(t), mgr |-> thread[t].mgr, exp |-> now + TTL,
                  told |-> told, mirrored |-> FALSE]
        BY <1>0, <3>1 DEF TypeOK
      <4>2. thread[t].mgr \in Managers /\ Home(t) \in Services /\ now + TTL \in 1..MaxExpiry
        BY <1>0, <2>5, SessionsAssumption, DeploymentType
           DEF Inv, ManagerInv, Authenticate, At, TypeOK
      <4>3. issued'[k] \in Issue
        BY <4>1, <4>2 DEF Issue
      <4>4. issued'[k].svc = Home(t)
        BY <4>1
      <4> QED BY <4>3, <4>4, NoRecord
    <3>3. CASE thread' = [thread EXCEPT ![t] = Idle]
      BY <1>0, <1>3, <3>3 DEF TypeOK
    <3>4. CASE thread' = [thread EXCEPT ![t].step = "mirror", ![t].tok = k]
      <4>1. thread'[t].step = "mirror" /\ thread'[t].tok = k
        BY <1>0, <3>4 DEF TypeOK, Thread
      <4>2. k # Nothing /\ Home(t)' = Home(t)
        BY <1>5, SessionsAssumption DEF Home
      <4> QED BY <3>2, <4>1, <4>2
    <3> QED BY <3>1, <3>3, <3>4
  <2>6. CASE \E k \in Tokens: CheckCatalogSession(t, k)
    <3>1. PICK k \in Tokens: CheckCatalogSession(t, k)
      BY <2>6
    <3>2. k \in OfService(Home(t)) /\ k # Nothing /\ At(t, "idle")
      BY <3>1, SessionsAssumption DEF CheckCatalogSession, Presents
    <3>3. CASE UNCHANGED thread
      BY <1>2, <1>5, <3>3
    <3>4. CASE thread' = [thread EXCEPT ![t].step = "confirm", ![t].tok = k]
      <4>1. thread'[t].step = "confirm" /\ thread'[t].tok = k
        BY <1>0, <3>4 DEF TypeOK, Thread
      <4>2. Given(t)
        BY <3>2, <4>1
      <4> QED BY <1>4, <1>5, <4>2
    <3> QED BY <3>1, <3>3, <3>4 DEF CheckCatalogSession
  <2>7. CASE GetSession(t)
    <3>1. At(t, "lookup") /\ (Leave(t) \/ Goto(t, "evict") \/ Goto(t, "confirm"))
      BY <2>7 DEF GetSession
    <3>2. thread'[t] = Idle \/ Keeps(t)
      BY <1>0, <3>1 DEF Leave, Goto, At, TypeOK, Thread
    <3> QED BY <1>2, <1>3, <1>5, <3>2
  <2>8. CASE \/ Leave(t) \/ UNCHANGED thread
    <3>1. thread'[t] = Idle \/ Keeps(t)
      BY <1>0, <2>8 DEF Leave, TypeOK
    <3> QED BY <1>2, <1>3, <1>5, <3>1
  <2>9. \/ Finding(t) \/ Preparing(t) \/ InstallManager(t) \/ ReturnManager(t) \/ Authenticate(t)
        \/ (\E k \in Tokens: CheckCatalogSession(t, k)) \/ GetSession(t)
        \/ Leave(t) \/ UNCHANGED thread \/ ReadClock(t)
    BY <1>5 DEF Request, Finding, Preparing, LoginThrottled, AuthenticateRefused, MirrorInCatalog,
       MirrorInCache, MirrorFails, Mirrored, CheckCacheSession, RefreshSession, EvictSession,
       ConfirmResults, ConfirmCatalog
  <2>10. CASE ReadClock(t)
    <3>1. Keeps(t)
      BY <1>0, <2>10 DEF ReadClock, TypeOK, Thread
    <3> QED BY <1>2, <1>5, <3>1
  <2> QED BY <2>1, <2>2, <2>3, <2>4, <2>5, <2>6, <2>7, <2>8, <2>9, <2>10
<1>6. ASSUME NEW t \in Threads, Request(t), UNCHANGED deployment PROVE \A u \in Threads: Good(u)
  <2>1. \A u \in Threads: u # t => thread'[u] = thread[u]
    BY <1>0, <1>6, OthersStay
  <2> QED BY <1>2, <1>5, <1>6, <2>1
<1>7. ASSUME Tick \/ UNCHANGED vars PROVE \A u \in Threads: Good(u)
  <2>1. UNCHANGED <<deployment, thread>>
    BY <1>7 DEF Tick, vars
  <2>2. \A u \in Threads: Keeps(u)
    BY <2>1
  <2> QED BY <1>2, <2>1, <2>2
<1>8. ASSUME NEW s \in Services, Restart(s) PROVE \A u \in Threads: Good(u)
  <2>1. UNCHANGED deployment /\ \A u \in Threads: thread'[u] = Idle \/ thread'[u] = thread[u]
    BY <1>8 DEF Restart
  <2> QED BY <1>2, <1>3, <2>1
<1>9. \A t \in Threads: Good(t)
  <2> HIDE DEF Good
  <2> QED BY <1>6, <1>7, <1>8 DEF Next
<1> QED BY <1>9 DEF TokenInv, OfService

-----------------------------------------------------------------------------
(* Rows and memory. *)

\* What Authenticate issues.
LEMMA NewToken ==
  ASSUME TypeOK, NEW t \in Threads, Authenticate(t)
  PROVE  \E k \in Tokens:
           /\ issued[k] = Nothing
           /\ issued'[k].svc = Home(t) /\ issued'[k].mgr = thread[t].mgr
           /\ issued'[k].exp = now + TTL /\ issued'[k].mirrored = FALSE
           /\ issued'[k].told => Kind(Home(t)) = "results"
           /\ \A j \in Tokens: j # k => issued'[j] = issued[j]
           /\ memory'[k] = now + TTL
           /\ \A j \in Tokens: j # k =>
                memory'[j] = memory[j] \/ (memory'[j] = 0 /\ memory[j] <= now)
<1>1. PICK k \in Tokens:
        /\ issued[k] = Nothing
        /\ \/ /\ AuthenticateSucceeds(t, k)
              /\ issued' = [issued EXCEPT ![k] =
                   [svc |-> Home(t), mgr |-> thread[t].mgr, exp |-> now + TTL,
                    told |-> Kind(Home(t)) = "results", mirrored |-> FALSE]]
           \/ /\ AuthenticateFails(t, k)
              /\ issued' = [issued EXCEPT ![k] =
                   [svc |-> Home(t), mgr |-> thread[t].mgr, exp |-> now + TTL,
                    told |-> FALSE, mirrored |-> FALSE]]
  BY DEF Authenticate
<1>2. \E gone \in SUBSET ExpiredSessions(thread[t].mgr):
        memory' = [j \in Tokens |-> IF j = k THEN now + TTL
                                    ELSE IF j \in gone THEN 0 ELSE memory[j]]
  BY <1>1 DEF AuthenticateSucceeds, AuthenticateFails
<1>3. /\ memory'[k] = now + TTL
      /\ \A j \in Tokens: j # k =>
           memory'[j] = memory[j] \/ (memory'[j] = 0 /\ memory[j] <= now)
  BY <1>2 DEF ExpiredSessions, TokensOf, Expired
<1>4. \/ issued'[k] = [svc |-> Home(t), mgr |-> thread[t].mgr, exp |-> now + TTL,
                       told |-> Kind(Home(t)) = "results", mirrored |-> FALSE]
      \/ issued'[k] = [svc |-> Home(t), mgr |-> thread[t].mgr, exp |-> now + TTL,
                       told |-> FALSE, mirrored |-> FALSE]
  BY <1>1 DEF TypeOK
<1>5. \A j \in Tokens: j # k => issued'[j] = issued[j]
  BY <1>1 DEF TypeOK
<1>6. /\ issued'[k].svc = Home(t) /\ issued'[k].mgr = thread[t].mgr
      /\ issued'[k].exp = now + TTL /\ issued'[k].mirrored = FALSE
      /\ issued'[k].told => Kind(Home(t)) = "results"
  <2>1. PICK told \in BOOLEAN: /\ told => Kind(Home(t)) = "results"
                               /\ issued'[k] = [svc |-> Home(t), mgr |-> thread[t].mgr, exp |-> now + TTL,
                                                told |-> told, mirrored |-> FALSE]
    BY <1>4
  <2> DEFINE r == [svc |-> Home(t), mgr |-> thread[t].mgr, exp |-> now + TTL,
                   told |-> told, mirrored |-> FALSE]
  <2>2. r.svc = Home(t) /\ r.mgr = thread[t].mgr /\ r.exp = now + TTL /\ r.mirrored = FALSE /\ r.told = told
    OBVIOUS
  <2>3. issued'[k] = r
    BY <2>1
  <2> HIDE DEF r
  <2> QED BY <2>1, <2>2, <2>3
<1> QED BY <1>1, <1>3, <1>5, <1>6

\* What a mirror, done or failed, makes of the token and its row.
LEMMA MirrorEffect ==
  ASSUME TypeOK, TokenInv, NEW t \in Threads,
         MirrorInCatalog(t) \/ MirrorInCache(t) \/ MirrorFails(t)
  PROVE  LET k == thread[t].tok IN
         /\ k \in Tokens /\ issued[k] \in Issue /\ issued[k].svc = Home(t)
         /\ issued'[k].exp = issued[k].exp
         /\ \A j \in Tokens: j # k => row'[j] = row[j] /\ issued'[j] = issued[j]
         /\ \/ row'[k] = issued[k].exp
            \/ /\ row'[k] = row[k]
               /\ issued'[k].told => Kind(Home(t)) = "catalog"
               /\ issued'[k].mirrored = issued[k].mirrored
         /\ Kind(Home(t)) \in {"catalog", "cache"} \/ ~issued'[k].told
<1> DEFINE k == thread[t].tok
<1>1. k \in Tokens /\ issued[k] # Nothing /\ issued[k].svc = Home(t)
  BY DEF MirrorInCatalog, MirrorInCache, MirrorFails, TokenInv, OfService, At
<1>2. issued[k] \in Issue /\ issued \in [Tokens -> Issue \cup {Nothing}] /\ row \in [Tokens -> Expiry]
  BY <1>1 DEF TypeOK
<1>3. CASE MirrorFails(t)
  <2>1. row' = row /\ issued' = [issued EXCEPT ![k].told = Kind(Home(t)) = "catalog"]
    BY <1>3 DEF MirrorFails
  <2>2. issued'[k] = [issued[k] EXCEPT !.told = Kind(Home(t)) = "catalog"]
    BY <1>1, <1>2, <2>1
  <2>3. /\ issued'[k].exp = issued[k].exp /\ issued'[k].mirrored = issued[k].mirrored
        /\ issued'[k].told = (Kind(Home(t)) = "catalog")
    BY <1>2, <2>2 DEF Issue
  <2>4. \A j \in Tokens: j # k => row'[j] = row[j] /\ issued'[j] = issued[j]
    BY <1>2, <2>1
  <2> QED BY <1>1, <1>2, <2>1, <2>3, <2>4
<1>4. CASE Mirrored(t) /\ Kind(Home(t)) \in {"catalog", "cache"}
  <2>1. /\ row' = [row EXCEPT ![k] = issued[k].exp]
        /\ issued' = [issued EXCEPT ![k].told = TRUE, ![k].mirrored = TRUE]
    BY <1>4 DEF Mirrored
  <2>2. issued'[k] = [issued[k] EXCEPT !.told = TRUE, !.mirrored = TRUE]
    BY <1>1, <1>2, <2>1
  <2>3. issued'[k].exp = issued[k].exp
    BY <1>2, <2>2 DEF Issue
  <2>4. row'[k] = issued[k].exp /\ \A j \in Tokens: j # k => row'[j] = row[j] /\ issued'[j] = issued[j]
    BY <1>1, <1>2, <2>1
  <2> QED BY <1>1, <1>2, <1>4, <2>3, <2>4
<1> QED BY <1>3, <1>4 DEF MirrorInCatalog, MirrorInCache

LEMMA RefreshEffect ==
  ASSUME TypeOK, NEW t \in Threads, NEW k \in Tokens, RefreshSession(t, k)
  PROVE  /\ issued[k] \in Issue /\ issued[k].svc = Home(t) /\ Kind(Home(t)) = "catalog"
         /\ \A j \in Tokens: j # k => row'[j] = row[j] /\ issued'[j] = issued[j]
         /\ \/ UNCHANGED <<row, issued>>
            \/ /\ RowAccepted(t, k) /\ row'[k] = row[k] + TTL /\ issued'[k].exp = row[k] + TTL
<1>1. issued[k] \in Issue /\ issued[k].svc = Home(t) /\ Kind(Home(t)) = "catalog"
  BY DEF RefreshSession, Presents, OfService, TypeOK
<1>2. CASE UNCHANGED <<row, issued>>
  BY <1>1, <1>2
<1>3. CASE RowAccepted(t, k) /\ Extended(k)
  <2>1. row' = [row EXCEPT ![k] = @ + TTL] /\ issued' = [issued EXCEPT ![k].exp = row[k] + TTL]
    BY <1>3 DEF Extended
  <2>2. issued'[k] = [issued[k] EXCEPT !.exp = row[k] + TTL]
    BY <2>1 DEF TypeOK
  <2>3. issued'[k].exp = row[k] + TTL
    BY <1>1, <2>2 DEF Issue
  <2>4. row'[k] = row[k] + TTL /\ \A j \in Tokens: j # k => row'[j] = row[j] /\ issued'[j] = issued[j]
    BY <2>1 DEF TypeOK
  <2> QED BY <1>1, <1>3, <2>3, <2>4
<1> QED BY <1>2, <1>3 DEF RefreshSession

\* The requests that change a row or an issue.
Touching(t) == \/ Authenticate(t) \/ MirrorInCatalog(t) \/ MirrorInCache(t) \/ MirrorFails(t)
               \/ \E k \in Tokens: RefreshSession(t, k)

LEMMA Untouched ==
  ASSUME [Next]_vars, \A t \in Threads: ~Touching(t)
  PROVE  UNCHANGED <<deployment, row, issued>>
BY DEF Touching, Next, Request, vars, server, history, LoginAllowed, LoginThrottled, ReadClock,
       ResolvePassword, ClaimPasswordFile, WritePassword, InstallManager, ReturnManager,
       AuthenticateRefused, CheckCacheSession, CheckCatalogSession, CheckResultsSession,
       GetSession, EvictSession, ConfirmResults, ConfirmCatalog, Tick, Restart

LEMMA Frame == ASSUME [Next]_vars PROVE UNCHANGED deployment
BY DEF Next, vars, Tick, Restart

LEMMA RowStep == Inv /\ [Next]_vars => RowInv'
<1> SUFFICES ASSUME Inv, [Next]_vars PROVE RowInv' OBVIOUS
<1>0. TypeOK /\ TokenInv /\ RowInv /\ TypeOK' /\ UNCHANGED deployment
  BY TypeStep, Frame DEF Inv
<1>k. \A s \in Services: Kind(s)' = Kind(s)
  BY <1>0 DEF Kind
<1>t. \A k \in Tokens: /\ issued[k] = Nothing \/ issued[k].svc \in Services
                       /\ issued'[k] = Nothing \/ issued'[k].svc \in Services
                       /\ row[k] \in Nat /\ row'[k] \in Nat
  BY <1>0, SessionsAssumption DEF TypeOK, Issue, Expiry
<1> DEFINE Good(k) ==
      /\ row'[k] > 0 => issued'[k] # Nothing /\ row'[k] = issued'[k].exp
      /\ issued'[k] # Nothing =>
           /\ Kind(issued'[k].svc) = "cache" /\ issued'[k].told => row'[k] = issued'[k].exp
           /\ Kind(issued'[k].svc) = "catalog" /\ issued'[k].mirrored => row'[k] = issued'[k].exp
<1>1. ASSUME NEW k \in Tokens, row'[k] = row[k], issued'[k] = issued[k] PROVE Good(k)
  BY <1>0, <1>1 DEF RowInv
<1>2. ASSUME NEW t \in Threads, Authenticate(t), NEW j \in Tokens PROVE Good(j)
  <2>1. PICK k \in Tokens:
           /\ issued[k] = Nothing
           /\ issued'[k].svc = Home(t) /\ issued'[k].mirrored = FALSE
           /\ issued'[k].told => Kind(Home(t)) = "results"
           /\ \A i \in Tokens: i # k => issued'[i] = issued[i]
    BY <1>0, <1>2, NewToken
  <2>2. row' = row
    BY <1>2 DEF Authenticate
  <2>3. row[k] = 0
    BY <1>0, <1>t, <2>1 DEF RowInv
  <2>4. Good(k)
    BY <2>1, <2>2, <2>3
  <2> QED BY <1>1, <2>1, <2>2, <2>4
<1>3. ASSUME NEW t \in Threads, MirrorInCatalog(t) \/ MirrorInCache(t) \/ MirrorFails(t),
             NEW j \in Tokens
      PROVE  Good(j)
  <2>1. CASE j # thread[t].tok
    BY <1>0, <1>1, <1>3, <2>1, MirrorEffect
  <2>2. CASE j = thread[t].tok
    <3>1. /\ issued[j] # Nothing /\ issued[j].svc = Home(t) /\ issued'[j].exp = issued[j].exp
          /\ \/ row'[j] = issued[j].exp
             \/ /\ row'[j] = row[j]
                /\ issued'[j].told => Kind(Home(t)) = "catalog"
                /\ issued'[j].mirrored = issued[j].mirrored
      BY <1>0, <1>3, <2>2, NoRecord, MirrorEffect
    <3>2. issued'[j] # Nothing /\ issued'[j].svc = issued[j].svc
      BY <1>0, <3>1, IssuedStep
    <3> QED BY <1>0, <3>1, <3>2 DEF RowInv
  <2> QED BY <2>1, <2>2
<1>4. ASSUME NEW t \in Threads, NEW k \in Tokens, RefreshSession(t, k), NEW j \in Tokens PROVE Good(j)
  <2>1. CASE j # k \/ UNCHANGED <<row, issued>>
    BY <1>0, <1>1, <1>4, <2>1, RefreshEffect
  <2>2. CASE j = k /\ row'[k] = row[k] + TTL /\ issued'[k].exp = row[k] + TTL
    <3>1. issued'[j] # Nothing
      BY <1>0, <1>4, <2>2, IssuedStep, RefreshEffect, NoRecord
    <3> QED BY <2>2, <3>1
  <2> QED BY <1>0, <1>4, <2>1, <2>2, RefreshEffect
<1>5. \A k \in Tokens: Good(k)
  <2> HIDE DEF Good
  <2> QED BY <1>1, <1>2, <1>3, <1>4, Untouched DEF Touching
<1> QED BY <1>k, <1>t, <1>5 DEF RowInv

\* What can happen to the managers of the services.
LEMMA ManagerChange ==
  ASSUME Inv, [Next]_vars, NEW s \in Services
  PROVE  \/ manager'[s] = manager[s]
         \/ manager'[s] = Nothing
         \/ \E t \in Threads: Building(t) /\ manager'[s] = thread[t].mgr /\ UNCHANGED issued
<1>0. TypeOK
  BY DEF Inv
<1>1. CASE \E t \in Threads: InstallManager(t)
  BY <1>0, <1>1 DEF InstallManager, Building, At, history, TypeOK
<1>2. CASE \E r \in Services: Restart(r)
  BY <1>0, <1>2 DEF Restart, TypeOK
<1>3. CASE UNCHANGED manager
  BY <1>3
<1>4. ASSUME NEW t \in Threads, Request(t) PROVE InstallManager(t) \/ UNCHANGED manager
  BY <1>4 DEF Request, server, LoginAllowed, LoginThrottled, ReadClock, ResolvePassword, ClaimPasswordFile,
     WritePassword, ReturnManager, Authenticate, AuthenticateRefused, MirrorInCatalog,
     MirrorInCache, MirrorFails, Mirrored, CheckCacheSession, CheckCatalogSession,
     CheckResultsSession, RefreshSession, GetSession, EvictSession, ConfirmResults, ConfirmCatalog
<1> QED BY <1>1, <1>2, <1>3, <1>4 DEF Next, Tick, vars, server

\* A session leaves memory when it has expired, or with its process.
LEMMA MemoryChange ==
  ASSUME Inv, [Next]_vars, NEW k \in Tokens, issued[k] # Nothing
  PROVE  \/ memory'[k] = memory[k]
         \/ memory'[k] = 0 /\ memory[k] <= now
         \/ memory'[k] = 0 /\ manager'[issued[k].svc] = Nothing
<1>0. TypeOK /\ TokenInv /\ MemoryInv
  BY DEF Inv
<1>1. ASSUME NEW t \in Threads, Authenticate(t)
      PROVE  memory'[k] = memory[k] \/ (memory'[k] = 0 /\ memory[k] <= now)
  BY <1>0, <1>1, NewToken
<1>2. ASSUME NEW t \in Threads, EvictSession(t)
      PROVE  memory'[k] = memory[k] \/ (memory'[k] = 0 /\ memory[k] <= now)
  BY <1>0, <1>2 DEF EvictSession, MemoryInv, TypeOK
<1>3. ASSUME NEW s \in Services, Restart(s)
      PROVE  memory'[k] = memory[k] \/ (memory'[k] = 0 /\ manager'[issued[k].svc] = Nothing)
  <2>1. memory'[k] = IF k \in OfService(s) THEN 0 ELSE memory[k]
    BY <1>3 DEF Restart
  <2>2. manager'[s] = Nothing
    BY <1>0, <1>3 DEF Restart, TypeOK
  <2> QED BY <2>1, <2>2 DEF OfService
<1>4. ASSUME NEW t \in Threads, Request(t)
      PROVE  Authenticate(t) \/ EvictSession(t) \/ UNCHANGED memory
  BY <1>4 DEF Request, server, LoginAllowed, LoginThrottled, ReadClock, ResolvePassword, ClaimPasswordFile,
     WritePassword, InstallManager, ReturnManager, AuthenticateRefused, MirrorInCatalog,
     MirrorInCache, MirrorFails, Mirrored, CheckCacheSession, CheckCatalogSession,
     CheckResultsSession, RefreshSession, GetSession, ConfirmResults, ConfirmCatalog
<1> QED BY <1>1, <1>2, <1>3, <1>4 DEF Next, Tick, vars, server

\* What a client was told by the results service was issued so in one step.
LEMMA ResultsIssue ==
  ASSUME Inv, [Next]_vars, NEW k \in Tokens,
         issued'[k] # Nothing, Kind(issued'[k].svc) = "results", issued'[k].told
  PROVE  issued'[k] = issued[k] \/ memory'[k] = issued'[k].exp
<1>0. TypeOK /\ TokenInv
  BY DEF Inv
<1>1. ASSUME NEW t \in Threads, Authenticate(t)
      PROVE  issued'[k] = issued[k] \/ memory'[k] = issued'[k].exp
  <2>1. PICK j \in Tokens: /\ issued'[j].exp = now + TTL /\ memory'[j] = now + TTL
                           /\ \A i \in Tokens: i # j => issued'[i] = issued[i]
    BY <1>0, <1>1, NewToken
  <2> QED BY <2>1
<1>2. ASSUME NEW t \in Threads, MirrorInCatalog(t) \/ MirrorInCache(t) \/ MirrorFails(t)
      PROVE  issued'[k] = issued[k]
  <2>1. CASE k # thread[t].tok
    BY <1>0, <1>2, <2>1, MirrorEffect
  <2>2. CASE k = thread[t].tok
    <3>1. issued[k] # Nothing /\ issued[k].svc = Home(t)
          /\ (Kind(Home(t)) \in {"catalog", "cache"} \/ ~issued'[k].told)
      BY <1>0, <1>2, <2>2, NoRecord, MirrorEffect
    <3>2. issued'[k].svc = issued[k].svc
      BY <1>0, <3>1, IssuedStep
    <3> QED BY <3>1, <3>2
  <2> QED BY <2>1, <2>2
<1>3. ASSUME NEW t \in Threads, NEW j \in Tokens, RefreshSession(t, j)
      PROVE  issued'[k] = issued[k]
  <2>1. /\ issued[j] # Nothing /\ issued[j].svc = Home(t) /\ Kind(Home(t)) = "catalog"
        /\ \A i \in Tokens: i # j => issued'[i] = issued[i]
    BY <1>0, <1>3, NoRecord, RefreshEffect
  <2>2. issued'[j].svc = issued[j].svc
    BY <1>0, <2>1, IssuedStep
  <2> QED BY <2>1, <2>2
<1> QED BY <1>1, <1>2, <1>3, Untouched DEF Touching

LEMMA Clock == ASSUME TypeOK, [Next]_vars PROVE now \in Nat /\ now' \in Nat /\ now <= now'
BY SessionsAssumption DEF TypeOK, Next, vars, Tick, Restart

LEMMA MemoryStep == Inv /\ [Next]_vars => MemoryInv'
<1> SUFFICES ASSUME Inv, [Next]_vars PROVE MemoryInv' OBVIOUS
<1>0. TypeOK /\ TypeOK' /\ TokenInv /\ ManagerInv /\ MemoryInv /\ UNCHANGED deployment
  BY TypeStep, Frame DEF Inv
<1>c. now \in Nat /\ now' \in Nat /\ now <= now'
  BY <1>0, Clock
<1>n. \A k \in Tokens: memory[k] \in Nat /\ memory'[k] \in Nat
  BY <1>0, SessionsAssumption DEF TypeOK, Expiry
<1>1. ASSUME NEW k \in Tokens, issued'[k] # Nothing, Kind(issued[k].svc)' = "results",
             issued'[k].told, issued'[k].mgr = manager'[issued'[k].svc]
      PROVE  memory'[k] = issued'[k].exp \/ issued'[k].exp <= now'
  <2>0. issued'[k] \in Issue /\ issued'[k].svc \in Services /\ issued'[k].mgr \in Managers
        /\ issued'[k].exp \in Nat
    BY <1>0, <1>1, SessionsAssumption DEF TypeOK, Issue
  <2>1. Kind(issued'[k].svc) = "results"
    BY <1>0, <1>1 DEF Kind
  <2>2. issued'[k] = issued[k] \/ memory'[k] = issued'[k].exp
    BY <1>1, <2>1, ResultsIssue
  <2>3. CASE issued'[k] = issued[k]
    <3>1. manager'[issued[k].svc] # Nothing
      BY <1>1, <2>0, <2>3, SessionsAssumption
    <3>2. manager'[issued[k].svc] = manager[issued[k].svc]
      <4>1. ASSUME NEW t \in Threads, Building(t), manager'[issued[k].svc] = thread[t].mgr
            PROVE  FALSE
        BY <1>0, <1>1, <2>3, <4>1 DEF ManagerInv
      <4> QED BY <2>0, <2>3, <3>1, <4>1, ManagerChange
    <3>3. memory[k] = issued[k].exp \/ issued[k].exp <= now
      BY <1>0, <1>1, <2>1, <2>3, <3>2 DEF MemoryInv
    <3>4. memory'[k] = memory[k] \/ memory[k] <= now
      BY <1>1, <2>3, <3>1, MemoryChange
    <3> QED BY <1>c, <1>n, <2>0, <2>3, <3>3, <3>4
  <2> QED BY <2>2, <2>3
<1>2. ASSUME NEW k \in Tokens, issued[k] # Nothing, memory[k] <= now PROVE memory'[k] <= now'
  BY <1>2, <1>c, <1>n, MemoryChange
<1>3. ASSUME NEW t \in Threads, At(t, "evict")' PROVE memory'[thread'[t].tok] <= now'
  <2>1. thread[t].tok \in Tokens \cup {Nothing} /\ thread[t] \in Thread
    BY <1>0 DEF TypeOK, Thread
  <2>2. CASE thread'[t] = thread[t]
    <3>1. At(t, "evict") /\ thread[t].tok \in Tokens /\ issued[thread[t].tok] # Nothing
      BY <1>0, <1>3, <2>2 DEF TokenInv, OfService, At
    <3> QED BY <1>0, <1>2, <2>2, <3>1 DEF MemoryInv
  <2>3. CASE GetSession(t)
    <3>1. At(t, "lookup") /\ memory[thread[t].tok] <= now /\ thread'[t].tok = thread[t].tok
      BY <1>0, <1>3, <2>3 DEF GetSession, Goto, Leave, Idle, At, Expired, TypeOK, Thread
    <3>2. thread[t].tok \in Tokens /\ issued[thread[t].tok] # Nothing
      BY <1>0, <3>1 DEF TokenInv, OfService, At
    <3> QED BY <1>2, <3>1, <3>2
  <2>4. ASSUME Request(t), ~GetSession(t) PROVE thread'[t] = thread[t]
    <3>1. ~Finding(t)
      BY <1>0, <1>3, FindingManager DEF At, Use
    <3>2. ~Preparing(t)
      BY <1>0, <1>3 DEF Preparing, ResolvePassword, ClaimPasswordFile, WritePassword, Goto, At,
         TypeOK, Thread
    <3>3. ~InstallManager(t)
      BY <1>0, <1>3 DEF InstallManager, Goto, At, TypeOK, Thread
    <3>4. ~ReturnManager(t)
      BY <1>0, <1>3 DEF ReturnManager, Use, At, TypeOK, Thread
    <3>5. ~Authenticate(t)
      BY <1>0, <1>3, Authenticated DEF At
    <3>6. thread'[t] # Idle
      BY <1>3 DEF At, Idle
    <3>7. ASSUME NEW k \in Tokens, CheckCatalogSession(t, k) PROVE UNCHANGED thread
      BY <1>0, <1>3, <3>7 DEF CheckCatalogSession, At, TypeOK, Thread
    <3>8. ~ReadClock(t)
      BY <1>0, <1>3 DEF ReadClock, At, TypeOK, Thread
    <3> QED BY <1>0, <2>4, <3>1, <3>2, <3>3, <3>4, <3>5, <3>6, <3>7, <3>8
         DEF Request, Finding, Preparing, LoginThrottled, AuthenticateRefused, MirrorInCatalog,
             MirrorInCache, MirrorFails, Mirrored, CheckCacheSession, RefreshSession,
             EvictSession, ConfirmResults, ConfirmCatalog, Leave, TypeOK
  <2>5. ASSUME NEW u \in Threads, u # t, Request(u) PROVE thread'[t] = thread[t]
    BY <1>0, <2>5, OthersStay
  <2>6. ASSUME NEW s \in Services, Restart(s) PROVE thread'[t] = thread[t]
    <3>1. thread'[t] # Idle
      BY <1>3 DEF At, Idle
    <3> QED BY <2>6, <3>1 DEF Restart
  <2> QED BY <2>2, <2>3, <2>4, <2>5, <2>6 DEF Next, Tick, vars
<1> QED BY <1>1, <1>3 DEF MemoryInv

-----------------------------------------------------------------------------
(* Transactions and expired tokens. *)

LEMMA OpenedStep == Inv /\ [Next]_vars => OpenedInv'
<1> SUFFICES ASSUME Inv, [Next]_vars PROVE OpenedInv' OBVIOUS
<1>0. TypeOK /\ OpenedInv /\ UNCHANGED deployment
  BY Frame DEF Inv
<1>1. ASSUME NEW t \in Threads, Opens(t) PROVE OpenedInv'
  <2>1. \A u \in Threads: opened'[u] = opened[u] \/ (Kind(Home(u)) = "catalog" /\ OnPG(Home(u)))
    BY <1>0, <1>1 DEF Opens, TypeOK
  <2> QED BY <1>0, <2>1 DEF OpenedInv, Kind, OnPG, Home
<1>2. ASSUME NEW t \in Threads, Ends(t) PROVE OpenedInv'
  <2>1. \A u \in Threads: opened'[u] = opened[u] \/ opened'[u] = Nothing
    BY <1>0, <1>2 DEF Ends, TypeOK
  <2> QED BY <1>0, <2>1 DEF OpenedInv, Kind, OnPG, Home
<1>3. ASSUME NEW s \in Services, Restart(s) PROVE OpenedInv'
  <2>1. \A u \in Threads: opened'[u] = opened[u] \/ opened'[u] = Nothing
    BY <1>3 DEF Restart
  <2> QED BY <1>0, <2>1 DEF OpenedInv, Kind, OnPG, Home
<1>4. CASE UNCHANGED opened
  BY <1>0, <1>4 DEF OpenedInv, Kind, OnPG, Home
<1>5. ASSUME NEW t \in Threads, Request(t) PROVE Opens(t) \/ Ends(t) \/ UNCHANGED opened
  BY <1>5 DEF Request, server, LoginAllowed, LoginThrottled, ReadClock, ResolvePassword, ClaimPasswordFile,
     WritePassword, InstallManager, ReturnManager, Authenticate, AuthenticateRefused,
     MirrorInCatalog, MirrorInCache, MirrorFails, Mirrored, CheckCacheSession,
     CheckCatalogSession, CheckResultsSession, RefreshSession, GetSession, EvictSession,
     ConfirmResults, ConfirmCatalog
<1> QED BY <1>1, <1>2, <1>3, <1>4, <1>5 DEF Next, Tick, vars, server

\* What is added to overdue is a token of the catalog on PostgreSQL, accepted
\* in a transaction older than its expiry.
LEMMA OverdueToken ==
  ASSUME Inv, NEW t \in Threads, NEW k \in Tokens,
         \/ CheckCacheSession(t, k)
         \/ ConfirmResults(t) /\ k = thread[t].tok
         \/ ConfirmCatalog(t) /\ k = thread[t].tok
  PROVE  \A o \in overdue': \/ o \in overdue
                            \/ /\ o \in Overdue
                               /\ issued[o.tok] # Nothing
                               /\ Kind(issued[o.tok].svc) = "catalog" /\ OnPG(issued[o.tok].svc)
                               /\ o.began < o.exp
<1> DEFINE new == [tok |-> k, began |-> TransactionTime(t), exp |-> issued[k].exp]
<1>0. TypeOK /\ TokenInv /\ RowInv /\ OpenedInv
  BY DEF Inv
<1>1. issued[k] # Nothing /\ issued[k].svc = Home(t) /\ issued[k] \in Issue
  BY <1>0 DEF CheckCacheSession, Presents, ConfirmResults, ConfirmCatalog, TokenInv, OfService, At,
     TypeOK
<1>3. row[k] \in Nat /\ now \in Nat /\ issued[k].exp \in Nat /\ TransactionTime(t) \in Nat
  BY <1>0, <1>1, SessionsAssumption DEF TypeOK, Issue, Expiry, TransactionTime
<1>4. new \in Overdue
  BY <1>3 DEF Overdue
<1>5. RowAccepted(t, k) =>
        \/ issued[k].exp > now
        \/ /\ Kind(Home(t)) = "catalog" /\ OnPG(Home(t))
           /\ TransactionTime(t) < issued[k].exp
  <2>1. RowAccepted(t, k) => row[k] = issued[k].exp
    BY <1>0, <1>3 DEF RowAccepted, AcceptedBySQLite, AcceptedByPostgreSQL, RowInv
  <2> QED BY <1>0, <1>3, <2>1
          DEF RowAccepted, AcceptedBySQLite, AcceptedByPostgreSQL, TransactionTime, OpenedInv
<1>6. \/ UNCHANGED overdue
      \/ Accept(t, k) /\ (RowAccepted(t, k) \/ issued[k].exp > now)
  BY DEF CheckCacheSession, ConfirmResults, ConfirmCatalog
<1>7. CASE UNCHANGED overdue
  BY <1>7
<1>8. CASE Accept(t, k) /\ issued[k].exp > now
  BY <1>8 DEF Accept
<1>9. CASE Accept(t, k) /\ ~(issued[k].exp > now) /\ RowAccepted(t, k)
  <2>1. overdue' = overdue \cup {new}
    BY <1>9 DEF Accept
  <2>2. new.tok = k /\ new.began = TransactionTime(t) /\ new.exp = issued[k].exp
    OBVIOUS
  <2>3. /\ Kind(Home(t)) = "catalog" /\ OnPG(Home(t))
        /\ TransactionTime(t) < issued[k].exp
    BY <1>5, <1>9
  <2> HIDE DEF new
  <2> QED BY <1>1, <1>4, <2>1, <2>2, <2>3
<1> QED BY <1>6, <1>7, <1>8, <1>9

LEMMA OverdueStep == Inv /\ [Next]_vars => OverdueInv'
<1> SUFFICES ASSUME Inv, [Next]_vars PROVE OverdueInv' OBVIOUS
<1>0. TypeOK /\ TokenInv /\ OverdueInv /\ UNCHANGED deployment
  BY Frame DEF Inv
<1>1. ASSUME NEW k \in Tokens, issued[k] # Nothing
      PROVE  issued'[k] # Nothing /\ issued'[k].svc = issued[k].svc
  BY <1>0, <1>1, IssuedStep
<1> DEFINE Old(o) == /\ o.tok \in Tokens /\ issued[o.tok] # Nothing
                     /\ Kind(issued[o.tok].svc) = "catalog" /\ OnPG(issued[o.tok].svc)
                     /\ o.began < o.exp
<1>2. \A o \in overdue': Old(o)
  <2>1. \A o \in overdue: Old(o)
    BY <1>0 DEF OverdueInv, TypeOK, Overdue
  <2>2. ASSUME NEW t \in Threads, NEW k \in Tokens, CheckCacheSession(t, k)
        PROVE  \A o \in overdue': Old(o)
    BY <2>1, <2>2, OverdueToken DEF Overdue
  <2>3. ASSUME NEW t \in Threads, ConfirmResults(t) \/ ConfirmCatalog(t)
        PROVE  \A o \in overdue': Old(o)
    <3>1. thread[t].tok \in Tokens
      BY <1>0, <2>3 DEF ConfirmResults, ConfirmCatalog, TokenInv, OfService, At
    <3> QED BY <2>1, <2>3, <3>1, OverdueToken DEF Overdue
  <2>4. \/ UNCHANGED overdue
        \/ \E t \in Threads: \/ ConfirmResults(t) \/ ConfirmCatalog(t)
                             \/ \E k \in Tokens: CheckCacheSession(t, k)
    BY DEF Next, Request, vars, server, history, LoginAllowed, LoginThrottled, ReadClock,
       ResolvePassword, ClaimPasswordFile, WritePassword, InstallManager, ReturnManager,
       Authenticate, AuthenticateRefused, MirrorInCatalog, MirrorInCache, MirrorFails, Mirrored,
       CheckCatalogSession, CheckResultsSession, RefreshSession, GetSession, EvictSession,
       Tick, Restart
  <2> HIDE DEF Old
  <2> QED BY <2>1, <2>2, <2>3, <2>4
<1> QED BY <1>0, <1>1, <1>2 DEF OverdueInv, Kind, OnPG

-----------------------------------------------------------------------------
(* The limiter in its service. *)

LEMMA LimiterStep == Inv /\ [Next]_vars => LimiterInv'
<1> SUFFICES ASSUME Inv, [Next]_vars PROVE LimiterInv' OBVIOUS
<1>0. TypeOK /\ LimiterInv
  BY DEF Inv
<1>c. now \in Nat /\ now' \in Nat /\ now <= now'
  BY <1>0, Clock
<1>b. \A s \in Services: bucket[s] \in Seq(Nat) /\ tries[s] \in Seq(Try)
  BY <1>0 DEF TypeOK
<1>e. Limited(<<>>, <<>>, now, MaxAttempts)
  BY DEF Limited
<1>m. MaxAttempts \in Nat \ {0} /\ MaxAttempts' = MaxAttempts
  BY <1>0, DeploymentType DEF Next, Tick, Restart, vars, MaxAttempts
<1>t. \A t \in Threads: thread'[t].at <= now'
  <2>1. \A t \in Threads: thread[t] \in Thread /\ thread[t].at \in Nat /\ thread[t].at <= now
    BY <1>0 DEF LimiterInv, TypeOK, Thread
  <2>2. ASSUME NEW t \in Threads PROVE thread'[t].at = thread[t].at \/ thread'[t].at \in {0, now}
    <3>1. ASSUME Request(t) PROVE thread'[t].at = thread[t].at \/ thread'[t].at \in {0, now}
      <4>1. CASE Finding(t)
        <5>1. ASSUME NEW k \in Tokens \cup {Nothing}, EnterManager(t, k) PROVE thread'[t].at = 0
          BY <1>0, <5>1 DEF EnterManager, TypeOK
        <5> QED BY <4>1, <5>1 DEF Finding, LoginAllowed, CheckResultsSession
      <4>2. CASE ReadClock(t) \/ Leave(t) \/ UNCHANGED thread
        BY <1>0, <4>2 DEF ReadClock, Leave, Idle, TypeOK, Thread
      <4>3. ASSUME NEW step \in Steps, Goto(t, step) PROVE thread'[t].at = thread[t].at
        BY <1>0, <2>1, <4>3 DEF Goto, TypeOK, Thread
      <4>4. ASSUME NEW k \in Tokens, NEW step \in Steps,
                   thread' = [thread EXCEPT ![t].step = step, ![t].tok = k]
            PROVE  thread'[t].at = thread[t].at
        BY <1>0, <2>1, <4>4 DEF TypeOK, Thread
      <4>5. CASE ReturnManager(t)
        BY <1>0, <2>1, <4>5 DEF ReturnManager, TypeOK, Thread
      <4>6. \/ Finding(t) \/ ReadClock(t) \/ Leave(t) \/ UNCHANGED thread \/ ReturnManager(t)
            \/ \E step \in Steps: Goto(t, step)
            \/ \E k \in Tokens, step \in Steps:
                 thread' = [thread EXCEPT ![t].step = step, ![t].tok = k]
        BY <3>1 DEF Request, Finding, Steps, LoginThrottled, ResolvePassword, ClaimPasswordFile,
           WritePassword, InstallManager, Authenticate, AuthenticateSucceeds, AuthenticateFails,
           AuthenticateRefused, MirrorInCatalog, MirrorInCache, MirrorFails, Mirrored,
           CheckCacheSession, CheckCatalogSession, RefreshSession, GetSession, EvictSession,
           ConfirmResults, ConfirmCatalog
      <4> QED BY <4>1, <4>2, <4>3, <4>4, <4>5, <4>6
    <3>2. ASSUME NEW u \in Threads, u # t, Request(u) PROVE thread'[t] = thread[t]
      BY <1>0, <3>2, OthersStay
    <3>3. ASSUME NEW s \in Services, Restart(s) PROVE thread'[t].at = thread[t].at \/ thread'[t].at = 0
      BY <3>3 DEF Restart, Idle
    <3> QED BY <3>1, <3>2, <3>3 DEF Next, Tick, vars
  <2> QED BY <1>c, <2>1, <2>2
<1> DEFINE Same == UNCHANGED now
           Good == \A s \in Services: Limited(bucket'[s], tries'[s], now', MaxAttempts)
<1>1. ASSUME NEW t \in Threads, NEW sweep \in BOOLEAN,
             LoginAllowed(t, sweep) \/ LoginThrottled(t, sweep), Same
      PROVE  Good
  <2> DEFINE h == Home(t)
             read == thread[t].at
  <2>0. h \in Services /\ read \in Nat /\ read <= now
    BY <1>0, DeploymentType DEF LimiterInv, TypeOK, Thread
  <2>1. \A s \in Services: s # h => bucket'[s] = bucket[s] /\ tries'[s] = tries[s]
    BY <1>0, <1>1, <2>0 DEF LoginAllowed, LoginThrottled, history, TypeOK
  <2>2. Limited(bucket[h], tries[h], now, MaxAttempts)
    BY <1>0, <2>0 DEF LimiterInv
  <2>3. bucket'[h] = Attempted(bucket[h], read, sweep, MaxAttempts)
    BY <1>0, <1>1, <2>0 DEF LoginAllowed, LoginThrottled, TypeOK
  <2>4. \/ /\ Allows(bucket[h], read, sweep, MaxAttempts)
           /\ tries'[h] = Append(tries[h], [read |-> read, let |-> now])
        \/ ~Allows(bucket[h], read, sweep, MaxAttempts) /\ tries'[h] = tries[h]
    BY <1>0, <1>1, <2>0 DEF LoginAllowed, LoginThrottled, history, TypeOK
  <2> HIDE DEF h, read
  <2>5. Limited(bucket'[h], tries'[h], now, MaxAttempts)
    <3> DEFINE b == bucket[h]  g == tries[h]  m == MaxAttempts  n == now
    <3>1. b \in Seq(Nat) /\ g \in Seq(Try) /\ n \in Nat /\ m \in Nat \ {0} /\ Limited(b, g, n, m)
      BY <1>b, <1>c, <1>m, <2>0, <2>2
    <3>2. read <= n /\ bucket'[h] = Attempted(b, read, sweep, m)
      BY <2>0, <2>3
    <3>3. \/ Allows(b, read, sweep, m) /\ tries'[h] = Append(g, [read |-> read, let |-> n])
          \/ ~Allows(b, read, sweep, m) /\ tries'[h] = g
      BY <2>4
    <3> HIDE DEF b, g, m, n
    <3>4. Limited(bucket'[h], tries'[h], n, m)
      BY <2>0, <3>1, <3>2, <3>3, LimitedAttempt
    <3> QED BY <3>4 DEF m, n
  <2>6. \A s \in Services: Limited(bucket'[s], tries'[s], now, MaxAttempts)
    BY <1>0, <2>1, <2>5 DEF LimiterInv
  <2>7. now' = now
    BY <1>1
  <2> QED BY <2>6, <2>7
<1>2. ASSUME NEW t \in Threads, Authenticate(t), Same PROVE Good
  <2>1. \A s \in Services: \/ bucket'[s] = bucket[s] /\ tries'[s] = tries[s]
                           \/ bucket'[s] = <<>> /\ tries'[s] = <<>>
    BY <1>0, <1>2 DEF Authenticate, AuthenticateSucceeds, AuthenticateFails, TypeOK
  <2>2. \A s \in Services: Limited(bucket'[s], tries'[s], now, MaxAttempts)
    BY <1>0, <1>e, <2>1 DEF LimiterInv
  <2>3. now' = now
    BY <1>2
  <2> QED BY <2>2, <2>3
<1>3. ASSUME NEW s \in Services, Restart(s) PROVE Good
  <2>1. \A r \in Services: \/ bucket'[r] = bucket[r] /\ tries'[r] = tries[r]
                           \/ bucket'[r] = <<>> /\ tries'[r] = <<>>
    BY <1>0, <1>3 DEF Restart, TypeOK
  <2>2. \A r \in Services: Limited(bucket'[r], tries'[r], now, MaxAttempts)
    BY <1>0, <1>e, <2>1 DEF LimiterInv
  <2>3. now' = now
    BY <1>3 DEF Restart
  <2> QED BY <2>2, <2>3
<1>4. ASSUME UNCHANGED <<bucket, tries>> PROVE Good
  <2> SUFFICES ASSUME NEW s \in Services PROVE Limited(bucket'[s], tries'[s], now', MaxAttempts)
    OBVIOUS
  <2> DEFINE h == tries[s]
             b == bucket[s]
  <2>0. b \in Seq(Nat) /\ h \in Seq(Try) /\ Window \in Nat /\ Limited(b, h, now, MaxAttempts)
    BY <1>0, <1>b, LoginLimiterAssumption DEF LimiterInv
  <2> HIDE DEF h, b
  <2>1. \A i \in 1..Len(h): h[i] \in Try /\ h[i].read \in Nat /\ h[i].let \in Nat
    <3>1. \A i \in 1..Len(h): h[i] \in Try
      BY <2>0
    <3> QED BY <3>1 DEF Try
  <2>2. \A i \in 1..Len(h): h[i].let <= now'
    BY <1>c, <2>0, <2>1 DEF Limited
  <2>3. PICK d \in Nat: /\ Len(h) = d + Len(b)
                        /\ \A i \in 1..Len(b): b[i] = h[d + i].read
                        /\ \A i \in 1..d: \E l \in i..Len(h): Stale(h[l].read, now)
    BY <2>0 DEF Limited
  <2>4. ASSUME NEW i \in 1..d PROVE \E l \in i..Len(h): Stale(h[l].read, now')
    <3>1. PICK l \in i..Len(h): Stale(h[l].read, now)
      BY <2>3
    <3>2. Stale(h[l].read, now')
      BY <1>c, <2>0, <2>1, <3>1 DEF Stale
    <3> QED BY <3>1, <3>2
  <2>5. \E e \in Nat: /\ Len(h) = e + Len(b)
                      /\ \A i \in 1..Len(b): b[i] = h[e + i].read
                      /\ \A i \in 1..e: \E l \in i..Len(h): Stale(h[l].read, now')
    BY <2>3, <2>4
  <2>6. Limited(b, h, now', MaxAttempts)
    BY <2>0, <2>2, <2>5 DEF Limited
  <2> QED BY <1>4, <2>6 DEF h, b
<1>5. ASSUME NEW t \in Threads, Request(t)
      PROVE  \/ \E sweep \in BOOLEAN: LoginAllowed(t, sweep) \/ LoginThrottled(t, sweep)
             \/ Authenticate(t) \/ UNCHANGED <<bucket, tries>>
  BY <1>5 DEF Request, server, history, ReadClock, ResolvePassword, ClaimPasswordFile, WritePassword,
     InstallManager, ReturnManager, AuthenticateRefused, MirrorInCatalog, MirrorInCache,
     MirrorFails, Mirrored, CheckCacheSession, CheckCatalogSession, CheckResultsSession,
     RefreshSession, GetSession, EvictSession, ConfirmResults, ConfirmCatalog
<1>6. Good
  BY <1>1, <1>2, <1>3, <1>4, <1>5 DEF Next, Tick, vars, server, history
<1> QED BY <1>6, <1>m, <1>t DEF LimiterInv

-----------------------------------------------------------------------------
(* The theorems. *)

THEOREM Invariance == Spec => []Inv
<1>1. Inv /\ [Next]_vars => Inv'
  BY TypeStep, PasswordStep, ManagerStep, TokenStep, RowStep, MemoryStep, OpenedStep,
     OverdueStep, LimiterStep DEF Inv
<1> QED BY InitInv, <1>1, PTL DEF Spec

\* The state of the services, of their database and of the requests stays in
\* the sets the comments of Sessions describe.
THEOREM TypesHold == Spec => []TypeOK
<1>1. Inv => TypeOK
  BY DEF Inv
<1> QED BY Invariance, <1>1, PTL

\* The managers of all services, started and restarted at any moment of each
\* other's first logins, that believe to have the shared admin password have
\* the one in the file (_persist_admin_password creates it with O_EXCL).
THEOREM CredentialShared == Spec => []SharedCredential
<1>1. Inv => SharedCredential
  BY DEF Inv
<1> QED BY Invariance, <1>1, PTL

\* A token a client was given by mirror_session, by a mirrored login of the
\* catalog or by the manager of the results service is good until the expiry
\* the client was told.
THEOREM TokensAccepted == Spec => []IssuedTokensAccepted
<1>1. Inv => IssuedTokensAccepted
  <2> SUFFICES ASSUME Inv, NEW k \in Tokens, issued[k] # Nothing, issued[k].told, now < issued[k].exp
               PROVE  /\ Kind(issued[k].svc) = "cache" => row[k] >= issued[k].exp
                      /\ Kind(issued[k].svc) = "catalog" =>
                           (issued[k].mirrored => row[k] >= issued[k].exp)
                      /\ Kind(issued[k].svc) = "results" =>
                           (issued[k].mgr = manager[issued[k].svc] => memory[k] >= issued[k].exp)
    BY DeploymentType DEF IssuedTokensAccepted, Inv, TypeOK, Issue, Kinds
  <2>1. TypeOK /\ RowInv /\ MemoryInv
    BY DEF Inv
  <2>2. issued[k].exp \in Nat /\ now \in Nat
    BY <2>1, SessionsAssumption DEF TypeOK, Issue
  <2> QED BY <2>1, <2>2 DEF RowInv, MemoryInv
<1> QED BY Invariance, <1>1, PTL

\* _check_session on SQLite, the cache service's, whose connections do not
\* outlive a request, and check_session of the results service serve nothing
\* for a token that has expired; _check_session on PostgreSQL does only in a
\* transaction that began before the token expired.
THEOREM ExpiredAreRefused == Spec => []ExpiredRefused
<1>1. Inv => ExpiredRefused
  BY DEF Inv, OverdueInv, ExpiredRefused
<1> QED BY Invariance, <1>1, PTL

\* Mirrors and refreshes do not give an expired session time again, but for a
\* refresh in a PostgreSQL transaction that began before the expiry.
THEOREM ExpiredStay == Spec => ExpiredStaysExpired
<1> DEFINE Stays == \A k \in Tokens:
             (issued[k] # Nothing /\ row[k] > 0 /\ row[k] <= now /\ row'[k] > row[k])
             => \E t \in Threads: OnPG(Home(t)) /\ opened[t] # Nothing /\ opened[t] < row[k]
<1>1. Inv /\ [Next]_vars => Stays
  <2> SUFFICES ASSUME Inv, [Next]_vars, NEW k \in Tokens,
                      issued[k] # Nothing, row[k] > 0, row[k] <= now, row'[k] > row[k]
               PROVE  \E t \in Threads: OnPG(Home(t)) /\ opened[t] # Nothing /\ opened[t] < row[k]
    OBVIOUS
  <2>0. TypeOK /\ TokenInv /\ RowInv
    BY DEF Inv
  <2>n. row[k] \in Nat /\ row'[k] \in Nat /\ now \in Nat
    BY <2>0, TypeStep, SessionsAssumption DEF TypeOK, Expiry
  <2>1. ASSUME NEW t \in Threads, Authenticate(t) PROVE FALSE
    BY <2>n, <2>1 DEF Authenticate
  <2>2. ASSUME NEW t \in Threads, MirrorInCatalog(t) \/ MirrorInCache(t) \/ MirrorFails(t)
        PROVE  FALSE
    <3>1. row'[k] = row[k] \/ row'[k] = issued[k].exp
      BY <2>0, <2>2, MirrorEffect
    <3> QED BY <2>0, <2>n, <3>1 DEF RowInv
  <2>3. ASSUME NEW t \in Threads, NEW j \in Tokens, RefreshSession(t, j)
        PROVE  OnPG(Home(t)) /\ opened[t] # Nothing /\ opened[t] < row[k]
    <3>1. j = k /\ RowAccepted(t, k)
      BY <2>0, <2>n, <2>3, RefreshEffect
    <3>2. opened[t] \in Nat \cup {Nothing}
      BY <2>0, SessionsAssumption DEF TypeOK
    <3> QED BY <2>n, <3>1, <3>2
            DEF RowAccepted, AcceptedBySQLite, AcceptedByPostgreSQL, TransactionTime
  <2> QED BY <2>n, <2>1, <2>2, <2>3, Untouched DEF Touching
<1> QED BY Invariance, <1>1, PTL DEF Spec, ExpiredStaysExpired

\* allow, with its pruning and its sweeps, lets no more than max_attempts
\* attempts of a client through in window_seconds, less the time one of them
\* waited for the lock with the time it had read.
THEOREM LimiterWorks == Spec => []LimiterHolds
<1>1. Inv => LimiterHolds
  <2> SUFFICES ASSUME Inv, NEW s \in Services, NEW i \in DOMAIN tries[s],
                      NEW j \in DOMAIN tries[s], j = i + MaxAttempts
               PROVE  \E l \in i..(j - 1):
                        tries[s][i].let + Window < tries[s][j].let + HeldUp(tries[s][l])
    BY DEF LimiterHolds
  <2> DEFINE h == tries[s]
  <2>0. MaxAttempts \in Nat \ {0} /\ Window \in Nat
    BY LoginLimiterAssumption, DeploymentType DEF Inv
  <2>1. h \in Seq(Try) /\ DOMAIN h = 1..Len(h) /\ Limited(bucket[s], h, now, MaxAttempts)
    BY DEF Inv, TypeOK, LimiterInv
  <2> HIDE DEF h
  <2>2. i \in 1..Len(h) /\ i + MaxAttempts \in 1..Len(h)
    BY <2>1 DEF h
  <2>3. PICK l \in i..(i + MaxAttempts - 1): h[l].read + Window < h[i + MaxAttempts].let
    BY <2>1, <2>2 DEF Limited
  <2>4. l \in 1..Len(h)
    BY <2>0, <2>1, <2>2
  <2>5. h[i].let <= h[l].let
    BY <2>1, <2>2, <2>3, <2>4 DEF Limited
  <2>6. h[i] \in Try /\ h[l] \in Try /\ h[i + MaxAttempts] \in Try
    BY <2>1, <2>2, <2>4
  <2>7. h[i].let + Window < h[i + MaxAttempts].let + HeldUp(h[l])
    BY <2>0, <2>3, <2>5, <2>6 DEF HeldUp, Try
  <2>8. l \in i..(j - 1)
    BY <2>0, <2>2, <2>3
  <2>9. h[i].let + Window < h[j].let + HeldUp(h[l])
    BY <2>7
  <2> QED BY <2>8, <2>9 DEF h
<1> QED BY Invariance, <1>1, PTL
=============================================================================
