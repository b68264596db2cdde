------------------------- MODULE SharedCacheProofs -------------------------
(***************************************************************************)
(* Proofs about SharedCache, for any number of installations, keys and     *)
(* executions.                                                             *)
(*                                                                         *)
(* PublishedRunsAreSaved is not inductive: an entry is written by a client *)
(* that has left SaveResult, so the invariant also has to say what a       *)
(* client between two steps knows of the execution in its hands (HeldInv), *)
(* and that a run is saved once, by the client that ran it (FreshInv).     *)
(* Runs never change and databases only grow, so what was a completed and  *)
(* saved run once stays one (Grow).                                        *)
(***************************************************************************)
EXTENDS SharedCache, TLAPS

\* What an installation knows of the execution in its hands.
HeldInv ==
  \A i \in Insts:
    /\ pc[i] # "idle" => job[i] \in Keys
    /\ pc[i] \in {"load", "store", "register"} => cur[i] \in Completed(job[i])
    /\ pc[i] = "save" => /\ cur[i] \in Execs
                         /\ runs[cur[i]] \in Run
                         /\ runs[cur[i]].key = job[i]

\* A run that is about to be saved is saved nowhere and held by nobody else.
FreshInv ==
  /\ \A i \in Insts: \A e \in db[i]: runs[e] # Nothing
  /\ \A i, j \in Insts: pc[i] = "save" =>
       /\ cur[i] \notin db[j]
       /\ pc[j] = "save" /\ cur[i] = cur[j] => i = j

Inv == TypeOK /\ HeldInv /\ FreshInv /\ PublishedRunsAreSaved

-----------------------------------------------------------------------------
LEMMA InitInv == Init => Inv
BY DEF Init, Inv, TypeOK, HeldInv, FreshInv, PublishedRunsAreSaved, Steps

LEMMA TypeStep == Inv /\ [Next]_vars => TypeOK'
<1> SUFFICES ASSUME Inv, [Next]_vars PROVE TypeOK' OBVIOUS
<1> USE SharedCacheAssumption
    DEF Inv, TypeOK, HeldInv, Steps, Entry, Row, Run, Call, Go, Leave, Return,
        services, clients, Valid
<1>1. ASSUME NEW i \in Insts, Request(i) PROVE TypeOK'
  BY <1>1 DEF Request
<1>2. ASSUME NEW i \in Insts, LookupHit(i) PROVE TypeOK'
  BY <1>2 DEF LookupHit
<1>3. ASSUME NEW i \in Insts, LookupMiss(i) PROVE TypeOK'
  BY <1>3 DEF LookupMiss
<1>4. ASSUME NEW i \in Insts, LoadLocal(i) PROVE TypeOK'
  BY <1>4 DEF LoadLocal
<1>5. ASSUME NEW i \in Insts, LoadRemote(i) PROVE TypeOK'
  BY <1>5 DEF LoadRemote
<1>6. ASSUME NEW i \in Insts, LoadFails(i) PROVE TypeOK'
  BY <1>6 DEF LoadFails
<1>7. ASSUME NEW i \in Insts, Execute(i) PROVE TypeOK'
  BY <1>7 DEF Execute
<1>8. ASSUME NEW i \in Insts, SaveResult(i) PROVE TypeOK'
  <2>1. db' \in [Insts -> SUBSET Execs]
    BY <1>8 DEF SaveResult
  <2>2. CASE runs[cur[i]].status = "completed"
    BY <1>8, <2>1, <2>2 DEF SaveResult
  <2>3. CASE runs[cur[i]].status # "completed"
    <3>1. Return(i, Nothing) /\ UNCHANGED <<services, runs>>
      BY <1>8, <2>3 DEF SaveResult
    <3>2. job[i] \in Keys
      BY <1>8 DEF SaveResult
    <3> QED BY <2>1, <3>1, <3>2
  <2> QED BY <2>2, <2>3
<1>9. ASSUME NEW c \in Call, Carry(c)
      PROVE  entries' \in [Keys -> Entry \cup {Nothing}] /\ rows' \subseteq Row
  <2>1. CASE c.op = "set"
    BY <1>9, <2>1 DEF Carry, SetEntry
  <2>2. CASE c.op = "register"
    <3>1. Upserted(c.key, c.exec) \subseteq Row
      <4>1. CASE \E r \in rows: r.squid = c.key
        <5>1. \A r \in rows: [r EXCEPT !.outs = c.exec] \in Row
          OBVIOUS
        <5> QED BY <4>1, <5>1 DEF Upserted
      <4>2. CASE ~\E r \in rows: r.squid = c.key
        BY <4>2 DEF Upserted
      <4> QED BY <4>1, <4>2
    <3> QED BY <1>9, <2>2, <3>1 DEF Carry
  <2> QED BY <2>1, <2>2
<1>10. ASSUME NEW c \in Call, Send(c)
       PROVE  /\ entries' \in [Keys -> Entry \cup {Nothing}]
              /\ rows' \subseteq Row
              /\ net' \subseteq Call
  BY <1>9, <1>10 DEF Send
<1>11. ASSUME NEW i \in Insts, pc[i] \in {"store", "register"}, NEW op \in {"set", "register"}
       PROVE  [op |-> op, key |-> job[i], exec |-> cur[i]] \in Call
  BY <1>11 DEF Completed
<1>12. ASSUME NEW i \in Insts, StoreCache(i) PROVE TypeOK'
  <2>1. cur[i] \in Execs /\ job[i] \in Keys
    BY <1>12 DEF StoreCache, Completed
  <2>2. [op |-> "set", key |-> job[i], exec |-> cur[i]] \in Call
    BY <2>1
  <2>3. CASE i \in Registering
    BY <1>10, <1>12, <2>2, <2>3 DEF StoreCache
  <2>4. CASE i \notin Registering
    <3>1. Return(i, cur[i]) /\ UNCHANGED <<db, runs>>
      BY <1>12, <2>4 DEF StoreCache
    <3>2. /\ entries' \in [Keys -> Entry \cup {Nothing}]
          /\ rows' \subseteq Row /\ net' \subseteq Call
      BY <1>10, <1>12, <2>2 DEF StoreCache
    <3> QED BY <2>1, <3>1, <3>2
  <2> QED BY <2>3, <2>4
<1>13. ASSUME NEW i \in Insts, RegisterResult(i) PROVE TypeOK'
  BY <1>10, <1>11, <1>13 DEF RegisterResult, Completed
<1>14. ASSUME NEW i \in Insts, Crash(i) PROVE TypeOK'
  BY <1>14 DEF Crash
<1>15. ASSUME NEW c \in net, CarryLate(c) PROVE TypeOK'
  BY <1>9, <1>15 DEF CarryLate
<1>16. ASSUME NEW K \in SUBSET Keys, Invalidate(K) \/ DeleteEntries(K) PROVE TypeOK'
  BY <1>16 DEF Invalidate, DeleteEntries
<1>17. ASSUME NEW e \in Execs, DeleteResult(e) PROVE TypeOK'
  BY <1>17 DEF DeleteResult
<1>18. CASE UNCHANGED vars
  BY <1>18 DEF vars
<1> QED
  BY <1>1, <1>2, <1>3, <1>4, <1>5, <1>6, <1>7, <1>8, <1>12, <1>13, <1>14,
     <1>15, <1>16, <1>17, <1>18 DEF Next, InstStep

-----------------------------------------------------------------------------
\* Everything but running and saving leaves runs and databases alone.
LEMMA OnlyRunsAndSaves ==
  ASSUME [Next]_vars,
         ~\E i \in Insts: Execute(i) \/ SaveResult(i)
  PROVE  UNCHANGED <<db, runs>>
BY DEF Next, InstStep, Request, LookupHit, LookupMiss, LoadLocal, LoadRemote,
   LoadFails, StoreCache, RegisterResult, Crash, CarryLate, Invalidate,
   DeleteEntries, DeleteResult, clients, vars

\* A completed and saved run stays one.
LEMMA Grow ==
  ASSUME Inv, [Next]_vars
  PROVE  \A k \in Keys: Completed(k) \subseteq Completed(k)'
<1> USE DEF Inv, TypeOK, Completed, Saved
<1>1. ASSUME NEW i \in Insts, Execute(i)
      PROVE  \A k \in Keys: Completed(k) \subseteq Completed(k)'
  <2>1. PICK x \in Execs: runs[x] = Nothing /\ \A e \in Execs: e # x => runs'[e] = runs[e]
    BY <1>1 DEF Execute
  <2>2. db' = db
    BY <1>1 DEF Execute
  <2>3. \A e \in Execs: Saved(e) => e # x
    BY <2>1 DEF FreshInv
  <2> QED BY <2>1, <2>2, <2>3
<1>2. ASSUME NEW i \in Insts, SaveResult(i)
      PROVE  \A k \in Keys: Completed(k) \subseteq Completed(k)'
  BY <1>2 DEF SaveResult, services
<1>3. CASE ~\E i \in Insts: Execute(i) \/ SaveResult(i)
  BY <1>3, OnlyRunsAndSaves
<1> QED BY <1>1, <1>2, <1>3

\* Saving a completed run adds it to the completed runs of its key, and only it.
LEMMA SaveCompletes ==
  ASSUME Inv, NEW i \in Insts, NEW q \in Keys, NEW e \in Execs,
         q = job[i], e = cur[i], SaveResult(i), runs[e].status = "completed"
  PROVE  /\ \A k \in Keys: e \notin Completed(k)
         /\ \A k \in Keys: Completed(k)' = IF k = q THEN Completed(k) \cup {e}
                                           ELSE Completed(k)
<1>1. pc[i] = "save" /\ runs[e] = [key |-> q, status |-> "completed"]
  BY DEF SaveResult, Inv, HeldInv, Run
<1>2. runs' = runs /\ \A j \in Insts: db'[j] = IF j = i THEN db[j] \cup {e} ELSE db[j]
  BY DEF SaveResult, Inv, TypeOK
<1>3. \A x \in Execs: Saved(x)' <=> Saved(x) \/ x = e
  BY <1>2 DEF Saved
<1>4. ~Saved(e)
  BY <1>1 DEF Inv, FreshInv, Saved
<1>5. \A k \in Keys, x \in Execs:
        x \in Completed(k)' <=> x \in Completed(k) \/ (x = e /\ k = q)
  BY <1>1, <1>2, <1>3 DEF Completed
<1>6. \A k \in Keys: Completed(k) \subseteq Execs /\ Completed(k)' \subseteq Execs
  BY DEF Completed
<1>7. \A k \in Keys: e \notin Completed(k)
  BY <1>4 DEF Completed
<1>8. ASSUME NEW k \in Keys
      PROVE  Completed(k)' = IF k = q THEN Completed(k) \cup {e} ELSE Completed(k)
  BY <1>5, <1>6
<1> QED BY <1>7, <1>8

\* Saving a failed run changes no completed runs.
LEMMA FailureCompletesNothing ==
  ASSUME Inv, NEW i \in Insts, SaveResult(i), runs[cur[i]].status # "completed"
  PROVE  \A k \in Keys: Completed(k)' = Completed(k)
<1>1. runs' = runs /\ \A j \in Insts: db'[j] = IF j = i THEN db[j] \cup {cur[i]} ELSE db[j]
  BY DEF SaveResult, Inv, TypeOK
<1>2. \A e \in Execs: Saved(e)' <=> Saved(e) \/ e = cur[i]
  BY <1>1 DEF Saved
<1> QED BY <1>1, <1>2 DEF Completed

\* Running a simulation completes nothing yet: the run is not saved.
LEMMA ExecuteCompletesNothing ==
  ASSUME Inv, NEW i \in Insts, Execute(i)
  PROVE  \A k \in Keys: Completed(k)' = Completed(k)
<1>1. PICK e \in Execs: runs[e] = Nothing /\ \A x \in Execs: x # e => runs'[x] = runs[x]
  BY DEF Execute, Inv, TypeOK
<1>2. db' = db /\ ~Saved(e)
  BY <1>1 DEF Execute, Inv, FreshInv, Saved
<1> QED BY <1>1, <1>2 DEF Completed, Saved

-----------------------------------------------------------------------------
\* The steps that start a request and leave it, or that only move on with what
\* they hold, keep HeldInv for the installation that takes them; for the others
\* it is enough that completed runs stay completed and runs are not rewritten.
LEMMA HeldStep == Inv /\ [Next]_vars => HeldInv'
<1> SUFFICES ASSUME Inv, [Next]_vars, NEW j \in Insts
             PROVE  /\ pc'[j] # "idle" => job'[j] \in Keys
                    /\ pc'[j] \in {"load", "store", "register"}
                         => \E k \in Keys: k = job'[j] /\ cur'[j] \in Completed(k)'
                    /\ pc'[j] = "save" => /\ cur'[j] \in Execs
                                          /\ runs'[cur'[j]] \in Run
                                          /\ runs'[cur'[j]].key = job'[j]
  BY DEF HeldInv, Completed, Saved
<1>0. \A k \in Keys: Completed(k) \subseteq Completed(k)'
  BY Grow
<1> DEFINE Goal == /\ pc'[j] # "idle" => job'[j] \in Keys
                   /\ pc'[j] \in {"load", "store", "register"}
                        => \E k \in Keys: k = job'[j] /\ cur'[j] \in Completed(k)'
                   /\ pc'[j] = "save" => /\ cur'[j] \in Execs
                                         /\ runs'[cur'[j]] \in Run
                                         /\ runs'[cur'[j]].key = job'[j]
<1> SUFFICES Goal OBVIOUS
<1>1. CASE UNCHANGED <<pc, job, cur, runs>>
  BY <1>0, <1>1 DEF Inv, HeldInv
<1>2. ASSUME NEW i \in Insts, i # j, InstStep(i) PROVE Goal
  <2>1. pc'[j] = pc[j] /\ job'[j] = job[j] /\ cur'[j] = cur[j]
    BY <1>2 DEF InstStep, Request, LookupHit, LookupMiss, LoadLocal, LoadRemote,
       LoadFails, Execute, SaveResult, StoreCache, RegisterResult, Crash, Go,
       Leave, Return, Inv, TypeOK
  <2>2. \A e \in Execs: runs[e] \in Run => runs'[e] = runs[e] \/ runs[e] = Nothing
    BY <1>2 DEF InstStep, Request, LookupHit, LookupMiss, LoadLocal, LoadRemote,
       LoadFails, Execute, SaveResult, StoreCache, RegisterResult, Crash, Inv, TypeOK
  <2>3. pc[j] = "save" => runs[cur[j]] # Nothing
    BY SharedCacheAssumption DEF Inv, HeldInv
  <2> QED BY <1>0, <2>1, <2>2, <2>3 DEF Inv, HeldInv
<1>3. CASE Request(j)
  BY <1>3 DEF Request, Go, Inv, TypeOK
<1>4. CASE LookupHit(j)
  <2>1. PICK k \in Keys: k = job[j] /\ entries[k] # Nothing
    BY <1>4 DEF LookupHit, Go, Valid, Inv, HeldInv
  <2>2. cur'[j] \in Completed(k)
    BY <1>4, <2>1 DEF LookupHit, Inv, PublishedRunsAreSaved, TypeOK
  <2> QED BY <1>0, <1>4, <2>1, <2>2 DEF LookupHit, Go, Inv, TypeOK
<1>5. CASE LookupMiss(j) \/ LoadFails(j)
  BY <1>5 DEF LookupMiss, LoadFails, Go, Inv, TypeOK, HeldInv
<1>6. CASE LoadLocal(j) \/ LoadRemote(j) \/ Crash(j) \/ RegisterResult(j)
  BY <1>6 DEF LoadLocal, LoadRemote, Crash, RegisterResult, Leave, Return, Inv, TypeOK
<1>7. CASE Execute(j)
  BY <1>7 DEF Execute, Go, Inv, TypeOK, HeldInv, Run
<1>8. CASE SaveResult(j)
  <2>1. CASE runs[cur[j]].status = "completed"
    <3>1. PICK q \in Keys, e \in Execs: q = job[j] /\ e = cur[j]
      BY <1>8 DEF SaveResult, Inv, HeldInv
    <3>2. e \in Completed(q)'
      BY <1>8, <2>1, <3>1, SaveCompletes
    <3> QED BY <1>8, <2>1, <3>1, <3>2 DEF SaveResult, Go, Inv, TypeOK
  <2>2. CASE runs[cur[j]].status # "completed"
    BY <1>8, <2>2 DEF SaveResult, Return, Leave, Inv, TypeOK
  <2> QED BY <2>1, <2>2
<1>9. CASE StoreCache(j)
  <2>1. CASE j \in Registering
    BY <1>0, <1>9, <2>1 DEF StoreCache, Go, Inv, TypeOK, HeldInv
  <2>2. CASE j \notin Registering
    BY <1>9, <2>2 DEF StoreCache, Return, Leave, Inv, TypeOK
  <2> QED BY <2>1, <2>2
<1>10. UNCHANGED <<pc, job, cur, runs>> \/ \E i \in Insts: InstStep(i)
  BY DEF Next, CarryLate, Invalidate, DeleteEntries, DeleteResult, clients, vars
<1> QED
  BY <1>1, <1>2, <1>3, <1>4, <1>5, <1>6, <1>7, <1>8, <1>9, <1>10 DEF InstStep

\* A fresh id is saved nowhere, and SaveResult lets go of the id it saved.
LEMMA FreshStep == Inv /\ [Next]_vars => FreshInv'
<1> SUFFICES ASSUME Inv, [Next]_vars PROVE FreshInv' OBVIOUS
<1> USE DEF Inv, TypeOK, FreshInv
<1>1. ASSUME NEW i \in Insts, Execute(i) PROVE FreshInv'
  <2>1. PICK e \in Execs: /\ runs[e] = Nothing
                         /\ cur' = [cur EXCEPT ![i] = e]
                         /\ runs'[e] # Nothing
                         /\ \A x \in Execs: x # e => runs'[x] = runs[x]
    <3>1. PICK e \in Execs, s \in {"completed", "failed"}:
            /\ runs[e] = Nothing
            /\ runs' = [runs EXCEPT ![e] = [key |-> job[i], status |-> s]]
            /\ cur' = [cur EXCEPT ![i] = e]
      BY <1>1 DEF Execute
    <3>2. [key |-> job[i], status |-> s] \in Run
      BY <1>1 DEF Execute, Go, HeldInv, Run
    <3> QED BY <3>1, <3>2, SharedCacheAssumption
  <2>2. db' = db /\ \A j \in Insts: j # i => pc'[j] = pc[j] /\ cur'[j] = cur[j]
    BY <1>1, <2>1 DEF Execute, Go
  <2>3. \A j \in Insts: e \notin db[j] /\ (pc[j] = "save" => cur[j] # e)
    BY <2>1, SharedCacheAssumption DEF HeldInv
  <2> QED BY <2>1, <2>2, <2>3
<1>2. ASSUME NEW i \in Insts, SaveResult(i) PROVE FreshInv'
  <2>1. /\ pc[i] = "save" /\ pc'[i] # "save"
        /\ \A j \in Insts: j # i => pc'[j] = pc[j] /\ cur'[j] = cur[j]
        /\ runs' = runs
        /\ db' = [db EXCEPT ![i] = @ \cup {cur[i]}]
    BY <1>2 DEF SaveResult, Go, Return, Leave
  <2>2. runs[cur[i]] # Nothing /\ cur[i] \in Execs
    BY <2>1, SharedCacheAssumption DEF HeldInv
  <2>3. \A j \in Insts: pc'[j] = "save" => j # i /\ cur[j] # cur[i]
    BY <2>1
  <2> QED BY <2>1, <2>2, <2>3
<1>3. ASSUME NEW i \in Insts, Request(i) \/ LookupHit(i) \/ LookupMiss(i) \/ LoadLocal(i)
                 \/ LoadRemote(i) \/ LoadFails(i) \/ StoreCache(i)
                 \/ RegisterResult(i) \/ Crash(i)
      PROVE  /\ pc'[i] # "save" /\ UNCHANGED <<db, runs>>
             /\ \A j \in Insts: j # i => pc'[j] = pc[j] /\ cur'[j] = cur[j]
  BY <1>3 DEF Request, LookupHit, LookupMiss, LoadLocal, LoadRemote, LoadFails,
     StoreCache, RegisterResult, Crash, Go, Return, Leave
<1>4. ASSUME NEW i \in Insts, pc'[i] # "save", UNCHANGED <<db, runs>>,
             \A j \in Insts: j # i => pc'[j] = pc[j] /\ cur'[j] = cur[j]
      PROVE  FreshInv'
  BY <1>4
<1>5. CASE UNCHANGED <<db, runs, pc, cur>>
  BY <1>5
<1>6. UNCHANGED <<db, runs, pc, cur>> \/ \E i \in Insts: InstStep(i)
  BY DEF Next, CarryLate, Invalidate, DeleteEntries, DeleteResult, clients, vars
<1> QED BY <1>1, <1>2, <1>3, <1>4, <1>5, <1>6 DEF InstStep

-----------------------------------------------------------------------------
\* What a service is given to carry out refers to a completed, saved run, so
\* what it stores does; the outputs of an older row move on to that run's.
LEMMA CarryPublishes ==
  ASSUME Inv, NEW c \in Call, c.exec \in Completed(c.key), Carry(c)
  PROVE  /\ \A k \in Keys: entries'[k] # Nothing => entries'[k].exec \in Completed(k)
         /\ \A r \in rows': r.exec \in Completed(r.squid) /\ r.outs \in Completed(r.squid)
<1> USE DEF Inv, TypeOK, PublishedRunsAreSaved
<1>1. CASE c.op = "set"
  <2>1. SetEntry(c.key, c.exec) /\ rows' = rows
    BY <1>1 DEF Carry
  <2>2. \A k \in Keys: entries'[k] = IF k = c.key THEN [exec |-> c.exec, status |-> "valid"]
                                     ELSE entries[k]
    BY <2>1 DEF SetEntry
  <2> QED BY <2>1, <2>2
<1>2. CASE c.op = "register"
  <2>1. rows' = Upserted(c.key, c.exec) /\ entries' = entries
    BY <1>2 DEF Carry
  <2>2. ASSUME NEW r \in rows'
        PROVE  r.exec \in Completed(r.squid) /\ r.outs \in Completed(r.squid)
    <3>1. CASE \E x \in rows: x.squid = c.key
      <4>1. PICK x \in rows: r = IF x.squid = c.key THEN [x EXCEPT !.outs = c.exec] ELSE x
        BY <2>1, <2>2, <3>1 DEF Upserted
      <4>2. x \in Row /\ x.exec \in Completed(x.squid) /\ x.outs \in Completed(x.squid)
        OBVIOUS
      <4>3. CASE x.squid = c.key
        <5>1. r.exec = x.exec /\ r.squid = c.key /\ r.outs = c.exec
          BY <4>1, <4>2, <4>3 DEF Row
        <5> QED BY <4>2, <4>3, <5>1
      <4> QED BY <4>1, <4>2, <4>3
    <3>2. CASE ~\E x \in rows: x.squid = c.key
      BY <2>1, <2>2, <3>2 DEF Upserted
    <3> QED BY <3>1, <3>2
  <2> QED BY <2>1, <2>2
<1> QED BY <1>1, <1>2 DEF Call

LEMMA SendPublishes ==
  ASSUME Inv, NEW c \in Call, c.exec \in Completed(c.key), Send(c)
  PROVE  /\ \A k \in Keys: entries'[k] # Nothing => entries'[k].exec \in Completed(k)
         /\ \A r \in rows': r.exec \in Completed(r.squid) /\ r.outs \in Completed(r.squid)
         /\ \A d \in net': d.exec \in Completed(d.key)
BY CarryPublishes DEF Send, services, Inv, PublishedRunsAreSaved

LEMMA PublishedStep == Inv /\ [Next]_vars => PublishedRunsAreSaved'
<1> SUFFICES ASSUME Inv, [Next]_vars PROVE PublishedRunsAreSaved' OBVIOUS
<1> DEFINE Kept ==
      /\ \A k \in Keys: entries'[k] # Nothing => entries'[k].exec \in Completed(k)
      /\ \A r \in rows': r.exec \in Completed(r.squid) /\ r.outs \in Completed(r.squid)
      /\ \A c \in net': c.exec \in Completed(c.key)
<1>1. TypeOK'
  BY TypeStep
<1>2. Kept => PublishedRunsAreSaved'
  <2> SUFFICES ASSUME Kept PROVE PublishedRunsAreSaved' OBVIOUS
  <2>1. \A k \in Keys: Completed(k) \subseteq Completed(k)'
    BY Grow
  <2>2. \A r \in rows': r.squid \in Keys
    BY <1>1 DEF TypeOK, Row
  <2>3. \A c \in net': c.key \in Keys
    BY <1>1 DEF TypeOK, Call
  <2>4. \A k \in Keys: entries'[k] # Nothing => entries'[k].exec \in Completed(k)'
    BY <2>1
  <2>5. \A r \in rows': {r.exec, r.outs} \subseteq Completed(r.squid)'
    BY <2>1, <2>2
  <2>6. \A c \in net': c.exec \in Completed(c.key)'
    BY <2>1, <2>3
  <2> QED BY <2>4, <2>5, <2>6 DEF PublishedRunsAreSaved
<1>3. CASE UNCHANGED services
  BY <1>2, <1>3 DEF services, Inv, PublishedRunsAreSaved
<1>4. ASSUME NEW i \in Insts, StoreCache(i) PROVE Kept
  <2> DEFINE c == [op |-> "set", key |-> job[i], exec |-> cur[i]]
  <2>1. c \in Call /\ c.exec \in Completed(c.key) /\ Send(c)
    BY <1>4 DEF StoreCache, Inv, HeldInv, Call, Completed
  <2> HIDE DEF c
  <2> QED BY <2>1, SendPublishes
<1>5. ASSUME NEW i \in Insts, RegisterResult(i) PROVE Kept
  <2> DEFINE c == [op |-> "register", key |-> job[i], exec |-> cur[i]]
  <2>1. c \in Call /\ c.exec \in Completed(c.key) /\ Send(c)
    BY <1>5 DEF RegisterResult, Inv, HeldInv, Call, Completed
  <2> HIDE DEF c
  <2> QED BY <2>1, SendPublishes
<1>6. ASSUME NEW c \in net, CarryLate(c) PROVE Kept
  BY <1>6, CarryPublishes DEF CarryLate, Inv, TypeOK, PublishedRunsAreSaved
<1>7. ASSUME NEW K \in SUBSET Keys, Invalidate(K) \/ DeleteEntries(K) PROVE Kept
  <2>1. \A k \in Keys: entries'[k] # Nothing
          => entries[k] # Nothing /\ entries'[k].exec = entries[k].exec
    BY <1>7, SharedCacheAssumption DEF Invalidate, DeleteEntries, Valid, Inv, TypeOK, Entry
  <2>2. rows' = rows /\ net' = net
    BY <1>7 DEF Invalidate, DeleteEntries
  <2> QED BY <2>1, <2>2 DEF Inv, PublishedRunsAreSaved
<1>8. ASSUME NEW e \in Execs, DeleteResult(e) PROVE Kept
  BY <1>8 DEF DeleteResult, Inv, PublishedRunsAreSaved
<1>9. UNCHANGED services
        \/ (\E i \in Insts: StoreCache(i) \/ RegisterResult(i))
        \/ (\E c \in net: CarryLate(c))
        \/ (\E K \in SUBSET Keys: Invalidate(K) \/ DeleteEntries(K))
        \/ (\E e \in Execs: DeleteResult(e))
  BY DEF Next, InstStep, Request, LookupHit, LookupMiss, LoadLocal, LoadRemote,
     LoadFails, Execute, SaveResult, Crash, vars, services
<1> QED BY <1>2, <1>3, <1>4, <1>5, <1>6, <1>7, <1>8, <1>9

\* The inductive invariant holds in every reachable state.
THEOREM Invariance == Spec => []Inv
<1>1. Inv /\ [Next]_vars => Inv'
  BY TypeStep, HeldStep, FreshStep, PublishedStep DEF Inv
<1> QED BY <1>1, InitInv, PTL DEF Spec

(* Entries, rows, saved runs and calls under way stay in the sets the comments of
   SharedCache describe. *)
THEOREM TypesHold == Spec => []TypeOK
<1>1. Inv => TypeOK
  BY DEF Inv
<1> QED BY Invariance, <1>1, PTL

(* Entries, results rows and calls under way only ever refer to completed and
   saved runs of their own key: any number of installations, lost and late
   calls, invalidations, deletions and crashes. *)
THEOREM Published == Spec => []PublishedRunsAreSaved
<1>1. Inv => PublishedRunsAreSaved
  BY DEF Inv
<1> QED BY <1>1, Invariance, PTL

-----------------------------------------------------------------------------
\* A step that leaves runs, databases and answers alone is a stutter.
LEMMA Invisible ==
  ASSUME \A k \in Keys: Completed(k)' = Completed(k), answer' = answer
  PROVE  UNCHANGED RR!avars
<1>1. [k \in Keys |-> Completed(k)]' = [k \in Keys |-> Completed(k)]
  OBVIOUS
<1> QED BY <1>1 DEF RR!avars

\* Returning the outputs of a completed run of the key is a reply.
LEMMA ReturnReplies ==
  ASSUME Inv, NEW i \in Insts, NEW e \in Execs, job[i] \in Keys,
         e \in Completed(job[i]), Return(i, e), UNCHANGED <<db, runs>>
  PROVE  RR!ANext
<1>1. PICK k \in Keys: k = job[i]
  OBVIOUS
<1>2. answer' = [answer EXCEPT ![i] = [key |-> k, outs |-> e]]
  BY <1>1 DEF Return
<1>3. [q \in Keys |-> Completed(q)]' = [q \in Keys |-> Completed(q)]
  BY DEF Completed, Saved
<1>4. RR!Reply(i, k)
  BY <1>1, <1>2, <1>3 DEF RR!Reply
<1> QED BY <1>4 DEF RR!ANext

(* execute() implements ResultReuse: each step is a request, a run becoming
   complete and durable, a reply with the outputs of such a run of the very key
   asked for, the failure of the own run, or invisible. *)
THEOREM Refinement == Spec => ImplementsReuse
<1>1. Init => RR!AInit
  BY DEF Init, RR!AInit, Completed, Saved
<1>2. Inv /\ [Next]_vars => [RR!ANext]_(RR!avars)
  <2> SUFFICES ASSUME Inv, [Next]_vars PROVE [RR!ANext]_(RR!avars) OBVIOUS
  <2>1. ASSUME UNCHANGED <<db, runs, answer>> PROVE UNCHANGED RR!avars
    BY <2>1, Invisible DEF Completed, Saved
  <2>2. ASSUME NEW i \in Insts, Request(i) PROVE RR!ANext
    <3>1. RR!Ask(i)
      BY <2>2 DEF Request, RR!Ask, Completed, Saved
    <3> QED BY <3>1 DEF RR!ANext
  <2>3. ASSUME NEW i \in Insts, LoadLocal(i) PROVE RR!ANext
    BY <2>3, ReturnReplies DEF LoadLocal, Inv, TypeOK, HeldInv, Completed
  <2>4. ASSUME NEW i \in Insts, LoadRemote(i) PROVE RR!ANext
    <3>1. PICK r \in rows: r.exec = cur[i] /\ Return(i, r.outs)
      BY <2>4 DEF LoadRemote
    <3>2. job[i] \in Keys /\ cur[i] \in Completed(job[i])
      BY <2>4 DEF LoadRemote, Inv, HeldInv
    <3>3. r.exec \in Completed(r.squid) /\ r.outs \in Completed(r.squid)
      BY DEF Inv, PublishedRunsAreSaved
    <3>4. r.squid = job[i]
      BY <3>1, <3>2, <3>3 DEF Completed
    <3>5. r.outs \in Execs /\ UNCHANGED <<db, runs>>
      BY <2>4, <3>3 DEF LoadRemote, Completed
    <3> QED BY <3>1, <3>2, <3>3, <3>4, <3>5, ReturnReplies
  <2>5. ASSUME NEW i \in Insts, Execute(i) PROVE UNCHANGED RR!avars
    BY <2>5, ExecuteCompletesNothing, Invisible DEF Execute
  <2>6. ASSUME NEW i \in Insts, SaveResult(i) PROVE RR!ANext
    <3>1. PICK q \in Keys, e \in Execs: q = job[i] /\ e = cur[i]
      BY <2>6 DEF SaveResult, Inv, HeldInv
    <3>2. CASE runs[e].status = "completed"
      <4>1. answer' = answer
        BY <2>6, <3>1, <3>2 DEF SaveResult
      <4>2. /\ \A k \in Keys: e \notin Completed(k)
            /\ \A k \in Keys: Completed(k)' = IF k = q THEN Completed(k) \cup {e}
                                              ELSE Completed(k)
        BY <2>6, <3>1, <3>2, SaveCompletes
      <4>3. RR!Finish(q, e)
        BY <4>1, <4>2 DEF RR!Finish
      <4> QED BY <4>3 DEF RR!ANext
    <3>3. CASE runs[e].status # "completed"
      <4>1. answer' = [answer EXCEPT ![i] = [key |-> q, outs |-> Nothing]]
        BY <2>6, <3>1, <3>3 DEF SaveResult, Return
      <4>2. \A k \in Keys: Completed(k)' = Completed(k)
        BY <2>6, <3>1, <3>3, FailureCompletesNothing
      <4>3. [k \in Keys |-> Completed(k)]' = [k \in Keys |-> Completed(k)]
        BY <4>2
      <4>4. RR!ReplyFailed(i, q)
        BY <4>1, <4>3 DEF RR!ReplyFailed
      <4> QED BY <4>4 DEF RR!ANext
    <3> QED BY <3>2, <3>3
  <2>7. ASSUME NEW i \in Insts, StoreCache(i) PROVE [RR!ANext]_(RR!avars)
    <3>1. CASE i \in Registering
      BY <2>1, <2>7, <3>1 DEF StoreCache
    <3>2. CASE i \notin Registering
      BY <2>7, <3>2, ReturnReplies DEF StoreCache, Inv, TypeOK, HeldInv, Completed
    <3> QED BY <3>1, <3>2
  <2>8. ASSUME NEW i \in Insts, RegisterResult(i) PROVE RR!ANext
    BY <2>8, ReturnReplies DEF RegisterResult, Inv, TypeOK, HeldInv, Completed
  <2>9. \/ UNCHANGED <<db, runs, answer>>
        \/ \E i \in Insts: \/ Request(i) \/ LoadLocal(i) \/ LoadRemote(i)
                           \/ Execute(i) \/ SaveResult(i) \/ StoreCache(i)
                           \/ RegisterResult(i)
    BY DEF Next, InstStep, LookupHit, LookupMiss, LoadFails, Crash, CarryLate,
       Invalidate, DeleteEntries, DeleteResult, clients, vars
  <2> QED BY <2>1, <2>2, <2>3, <2>4, <2>5, <2>6, <2>7, <2>8, <2>9
<1> QED BY <1>1, <1>2, Invariance, PTL DEF Spec, ImplementsReuse, RR!ASpec
=============================================================================
