--------------------------- MODULE ExecutorProofs ---------------------------
(***************************************************************************)
(* Proofs about what runs a simulation without a notebook: the store of    *)
(* LocalExecutor (LocalStore), for any number of clients, simulations,     *)
(* inputs and executions; and the worker of IsolatedFunctionExecutor       *)
(* (IsolatedWorker), for any set of descendants and any settings.          *)
(***************************************************************************)
EXTENDS LocalStore, IsolatedWorker, TLAPS

-----------------------------------------------------------------------------
(* LocalStore.  HitsBelong needs to know why a database id stands for one      *)
(* simulation: whatever mentions an id, a deployment, a saved execution or a   *)
(* call under way, mentions it with the same name (OneNamePerId), because ids  *)
(* are never given out again.  RunInv says what a call knows at each of its    *)
(* steps, CacheInv that a cache row names a saved execution of its own key.    *)

\* The id is mentioned together with the name somewhere.
Bound(id, n) == \/ sims[n] = id
                \/ \E e \in Execs: execs[e] # None /\ execs[e].sid = id /\ execs[e].name = n
                \/ \E c \in Clients: run[c] # None /\ run[c].sid = id /\ run[c].name = n

OneNamePerId == \A id \in Ids, n \in Names: Bound(id, n) =>
                  id < nextId /\ \A m \in Names: Bound(id, m) => m = n

SavedFor(e, id, i) == execs[e] # None /\ execs[e].sid = id /\ execs[e].input = i

CacheInv == \A k \in CacheKeys: cache[k] # None => SavedFor(cache[k].exec, k[1], k[2])

Knows(c) ==
  /\ At(c, "lookup") => run[c].sid # None
  /\ At(c, "load") => /\ run[c].sid # None /\ run[c].exec # None
                      /\ SavedFor(run[c].exec, run[c].sid, run[c].input)
  /\ At(c, "save") => /\ run[c].exec # None /\ execs[run[c].exec] = None
                      /\ \A d \in Clients: At(d, "save") /\ run[d].exec = run[c].exec => d = c
  /\ At(c, "store") => /\ run[c].exec # None
                       /\ SavedFor(run[c].exec, run[c].sid, run[c].input)
                       /\ run[c].sid # None => cache[Key(c)] # None

RunInv == \A c \in Clients: Knows(c)

Inv == TypeOK /\ OneNamePerId /\ CacheInv /\ RunInv /\ HitsBelong /\ AccessesCounted

-----------------------------------------------------------------------------
LEMMA InitInv == Init => Inv
BY ConstantsAssumption
   DEF Init, Inv, TypeOK, OneNamePerId, Bound, CacheInv, RunInv, Knows, HitsBelong,
       AccessesCounted, At, Ids, CacheKeys

LEMMA KeyType == ASSUME TypeOK, NEW c \in Clients, run[c] # None, run[c].sid # None
                 PROVE  Key(c) \in CacheKeys /\ Key(c)[1] = run[c].sid /\ Key(c)[2] = run[c].input
BY DEF TypeOK, Key, CacheKeys, Runs

LEMMA TypeStep == Inv /\ [Next]_vars => TypeOK'
<1> SUFFICES ASSUME Inv, [Next]_vars PROVE TypeOK' OBVIOUS
<1> USE ConstantsAssumption DEF Inv, TypeOK, Ids, Statuses, Rows
<1>1. ASSUME NEW c \in Clients, NEW n \in Names, Deploy(c, n) PROVE TypeOK'
  BY <1>1 DEF Deploy
<1>2. ASSUME NEW c \in Clients, NEW n \in Names, Delete(c, n) PROVE TypeOK'
  BY <1>2 DEF Delete
<1>3. ASSUME NEW c \in Clients, NEW n \in Names, Deprecate(c, n) PROVE TypeOK'
  BY <1>3 DEF Deprecate
<1>4. ASSUME NEW c \in Clients, Discard(c) PROVE TypeOK'
  BY <1>4 DEF Discard
<1>5. ASSUME NEW c \in Clients, Start(c) PROVE TypeOK'
  BY <1>5 DEF Start, Runs
<1>6. ASSUME NEW c \in Clients, Resolve(c) PROVE TypeOK'
  BY <1>6 DEF Resolve, Runs, At
<1>7. ASSUME NEW c \in Clients, Lookup(c) PROVE TypeOK'
  <2>1. Key(c) \in CacheKeys
    BY <1>7, KeyType DEF Lookup, At, RunInv, Knows
  <2>2. CASE cache[Key(c)] = None
    BY <1>7, <2>1, <2>2 DEF Lookup, Goto, Runs, At
  <2>3. CASE cache[Key(c)] # None
    BY <1>7, <2>1, <2>3 DEF Lookup, Runs, At
  <2> QED BY <2>2, <2>3
<1>8. ASSUME NEW c \in Clients, LoadHit(c) PROVE TypeOK'
  BY <1>8 DEF LoadHit, Return, Runs, At, RunInv, Knows
<1>9. ASSUME NEW c \in Clients, Run(c) PROVE TypeOK'
  BY <1>9 DEF Run, Runs, At
<1>10. ASSUME NEW c \in Clients, Save(c) PROVE TypeOK'
  <2>1. run[c] \in Runs /\ run[c].exec \in Execs
    BY <1>10 DEF Save, At, RunInv, Knows, Runs
  <2>2. execs' \in [Execs -> Executions \cup {None}]
    BY <1>10, <2>1 DEF Save, Executions, Runs
  <2>3. run' \in [Clients -> Runs \cup {None}]
    BY <1>10, <2>1 DEF Save, Goto, Return, Runs
  <2>4. CASE run[c].sid = None
    BY <1>10, <2>2, <2>3, <2>4 DEF Save
  <2>5. CASE run[c].sid # None
    <3>1. Key(c) \in CacheKeys
      BY <1>10, <2>5, KeyType DEF Save, At
    <3> QED BY <1>10, <2>1, <2>2, <2>3, <2>5, <3>1 DEF Save
  <2> QED BY <2>4, <2>5
<1>11. ASSUME NEW c \in Clients, Raise(c) PROVE TypeOK'
  BY <1>11 DEF Raise, Return
<1>12. ASSUME NEW c \in Clients, Store(c) PROVE TypeOK'
  <2>1. run' \in [Clients -> Runs \cup {None}]
    BY <1>12 DEF Store, Return
  <2>2. CASE UNCHANGED cache
    BY <1>12, <2>1, <2>2 DEF Store
  <2>3. CASE run[c].sid # None /\ cache' = [cache EXCEPT ![Key(c)] =
               [exec |-> run[c].exec, access |-> Accesses(Key(c))]]
    <3>1. Key(c) \in CacheKeys
      BY <1>12, <2>3, KeyType DEF Store, At
    <3>2. Accesses(Key(c)) \in Nat
      BY <3>1 DEF Accesses
    <3>3. run[c].exec \in Execs
      BY <1>12 DEF Store, At, RunInv, Knows, Runs
    <3> QED BY <1>12, <2>1, <2>3, <3>1, <3>2, <3>3 DEF Store
  <2> QED BY <1>12, <2>2, <2>3 DEF Store
<1>13. CASE UNCHANGED vars
  BY <1>13 DEF vars
<1> QED BY <1>1, <1>2, <1>3, <1>4, <1>5, <1>6, <1>7, <1>8, <1>9, <1>10, <1>11,
           <1>12, <1>13 DEF Next

-----------------------------------------------------------------------------
(* Ids. *)

\* A step that brings no pair of an id and a name together keeps OneNamePerId.
LEMMA NoNewName == ASSUME TypeOK, OneNamePerId, nextId' = nextId,
                          \A id \in Ids, n \in Names: Bound(id, n)' => Bound(id, n)
                   PROVE  OneNamePerId'
BY DEF OneNamePerId

LEMMA NameStep == Inv /\ [Next]_vars => OneNamePerId'
<1> SUFFICES ASSUME Inv, [Next]_vars PROVE OneNamePerId' OBVIOUS
<1> USE ConstantsAssumption DEF Inv, TypeOK
<1>1. ASSUME NEW c \in Clients, NEW n \in Names, Deploy(c, n) PROVE OneNamePerId'
  <2>1. CASE sims[n] # None
    BY <1>1, <2>1, NoNewName DEF Deploy, Bound
  <2>2. CASE sims[n] = None
    <3>1. \A id \in Ids, m \in Names: Bound(id, m)' => Bound(id, m) \/ (id = nextId /\ m = n)
      BY <1>1, <2>2 DEF Deploy, Bound
    <3>2. \A m \in Names: nextId \in Ids => ~Bound(nextId, m)
      BY DEF OneNamePerId, Ids
    <3>3. nextId' = nextId + 1 /\ nextId \in Nat
      BY <1>1, <2>2 DEF Deploy, Ids
    <3> QED BY <3>1, <3>2, <3>3 DEF OneNamePerId, Ids
  <2> QED BY <2>1, <2>2
<1>2. ASSUME NEW c \in Clients, NEW n \in Names, Delete(c, n) PROVE OneNamePerId'
  BY <1>2, NoNewName DEF Delete, Bound, Ids
<1>3. ASSUME NEW c \in Clients, NEW n \in Names, Deprecate(c, n) PROVE OneNamePerId'
  BY <1>3, NoNewName DEF Deprecate, Bound
<1>4. ASSUME NEW c \in Clients, Discard(c) PROVE OneNamePerId'
  BY <1>4, NoNewName DEF Discard, Bound
<1>5. ASSUME NEW c \in Clients, Start(c) PROVE OneNamePerId'
  BY <1>5, NoNewName DEF Start, Bound, Ids
<1>6. ASSUME NEW c \in Clients, Resolve(c) PROVE OneNamePerId'
  BY <1>6, NoNewName DEF Resolve, Bound, At, Runs
<1>7. ASSUME NEW c \in Clients, Lookup(c) PROVE OneNamePerId'
  <2>1. /\ nextId' = nextId /\ sims' = sims /\ execs' = execs
        /\ \A d \in Clients: run'[d] # None =>
             run[d] # None /\ run'[d].sid = run[d].sid /\ run'[d].name = run[d].name
    BY <1>7 DEF Lookup, Goto, At, Runs
  <2> QED BY <2>1, NoNewName DEF Bound
<1>8. ASSUME NEW c \in Clients, LoadHit(c) PROVE OneNamePerId'
  BY <1>8, NoNewName DEF LoadHit, Return, Bound
<1>9. ASSUME NEW c \in Clients, Run(c) PROVE OneNamePerId'
  BY <1>9, NoNewName DEF Run, Bound, At, Runs
<1>10. ASSUME NEW c \in Clients, Save(c) PROVE OneNamePerId'
  <2>1. /\ nextId' = nextId /\ sims' = sims
        /\ \A d \in Clients: run'[d] # None =>
             run[d] # None /\ run'[d].sid = run[d].sid /\ run'[d].name = run[d].name
    BY <1>10 DEF Save, Goto, Return, At, Runs
  <2>2. \A e \in Execs: execs'[e] = execs[e] \/
          (execs'[e].sid = run[c].sid /\ execs'[e].name = run[c].name /\ run[c] # None)
    BY <1>10 DEF Save, At
  <2> QED BY <2>1, <2>2, NoNewName DEF Bound
<1>11. ASSUME NEW c \in Clients, Raise(c) PROVE OneNamePerId'
  BY <1>11, NoNewName DEF Raise, Return, Bound
<1>12. ASSUME NEW c \in Clients, Store(c) PROVE OneNamePerId'
  BY <1>12, NoNewName DEF Store, Return, Bound
<1>13. CASE UNCHANGED vars
  BY <1>13, NoNewName DEF vars, Bound
<1> QED BY <1>1, <1>2, <1>3, <1>4, <1>5, <1>6, <1>7, <1>8, <1>9, <1>10, <1>11,
           <1>12, <1>13 DEF Next

-----------------------------------------------------------------------------
(* Executions. *)

\* What is saved stays as it was saved.
LEMMA SavedStays == Inv /\ [Next]_vars =>
                      \A e \in Execs: execs[e] # None => execs'[e] = execs[e]
<1> SUFFICES ASSUME Inv, [Next]_vars, NEW e \in Execs, execs[e] # None
             PROVE  execs'[e] = execs[e]
  OBVIOUS
<1>1. ASSUME NEW c \in Clients, Save(c) PROVE execs'[e] = execs[e]
  BY <1>1 DEF Inv, TypeOK, RunInv, Knows, Save
<1>2. CASE UNCHANGED execs
  BY <1>2
<1> QED BY <1>1, <1>2 DEF Next, vars, Start, Resolve, Lookup, LoadHit, Run, Raise, Store,
                          Discard, Deploy, Delete, Deprecate

\* Cache rows are replaced and never removed.
LEMMA RowsStay == Inv /\ [Next]_vars =>
                    \A k \in CacheKeys: cache[k] # None => cache'[k] # None
<1> SUFFICES ASSUME Inv, [Next]_vars, NEW k \in CacheKeys, cache[k] # None
             PROVE  cache'[k] # None
  OBVIOUS
<1>1. cache \in [CacheKeys -> Rows \cup {None}]
  BY DEF Inv, TypeOK
<1>2. \A e \in Execs, a \in Nat: [exec |-> e, access |-> a] # None
  BY ConstantsAssumption DEF Rows
<1>3. ASSUME NEW c \in Clients, Lookup(c) PROVE cache'[k] # None
  <2>1. CASE UNCHANGED cache
    BY <2>1
  <2>2. CASE /\ cache[Key(c)] # None
             /\ cache' = [cache EXCEPT ![Key(c)].access = @ + 1]
    <3>1. cache'[k] = cache[k] \/ cache'[k] = [cache[k] EXCEPT !.access = @ + 1]
      BY <1>1, <2>2
    <3>2. cache[k].exec \in Execs /\ cache[k].access + 1 \in Nat
          /\ [cache[k] EXCEPT !.access = @ + 1]
               = [exec |-> cache[k].exec, access |-> cache[k].access + 1]
      BY <1>1 DEF Rows
    <3> QED BY <1>2, <3>1, <3>2
  <2> QED BY <1>3, <2>1, <2>2 DEF Lookup
<1>4. ASSUME NEW c \in Clients, Save(c) PROVE cache'[k] # None
  <2>1. run[c].exec \in Execs
    BY <1>4 DEF Inv, TypeOK, Save, At, RunInv, Knows, Runs
  <2>2. [exec |-> run[c].exec, access |-> 1] # None
    BY <1>2, <2>1
  <2> QED BY <1>1, <1>4, <2>2 DEF Save
<1>5. ASSUME NEW c \in Clients, Store(c) PROVE cache'[k] # None
  <2>1. run[c].exec \in Execs
    BY <1>5 DEF Inv, TypeOK, Store, At, RunInv, Knows, Runs
  <2>2. CASE k = Key(c)
    <3>1. Accesses(k) \in Nat
      BY <1>1 DEF Accesses, Rows
    <3> QED BY <1>1, <1>2, <1>5, <2>1, <2>2, <3>1 DEF Store
  <2>3. CASE k # Key(c)
    BY <1>1, <1>5, <2>3 DEF Store
  <2> QED BY <2>2, <2>3
<1>6. CASE UNCHANGED cache
  BY <1>6
<1> QED BY <1>3, <1>4, <1>5, <1>6
        DEF Next, vars, Start, Resolve, LoadHit, Run, Raise, Discard, Deploy, Delete, Deprecate

\* A call that a step leaves alone knows what it knew, if its execution is not saved
\* by that step, nor taken by another call.
LEMMA Untouched ==
  ASSUME Inv, [Next]_vars, NEW d \in Clients, run'[d] = run[d],
         At(d, "save") =>
           /\ execs'[run[d].exec] = None
           /\ \A c \in Clients: At(c, "save")' /\ run'[c].exec = run[d].exec => c = d
  PROVE  Knows(d)'
<1> USE ConstantsAssumption DEF Inv, TypeOK
<1>1. run[d] # None => run[d] \in Runs
  OBVIOUS
<1>2. ASSUME At(d, "load") \/ At(d, "store")
      PROVE  SavedFor(run[d].exec, run[d].sid, run[d].input)'
  <2>1. run[d].exec \in Execs /\ SavedFor(run[d].exec, run[d].sid, run[d].input)
    BY <1>2, <1>1 DEF RunInv, Knows, At, Runs
  <2>2. execs'[run[d].exec] = execs[run[d].exec]
    BY <2>1, SavedStays DEF SavedFor, Inv
  <2> QED BY <2>1, <2>2 DEF SavedFor
<1>3. ASSUME At(d, "store"), run[d].sid # None PROVE cache'[Key(d)] # None
  <2>1. Key(d) \in CacheKeys /\ cache[Key(d)] # None
    BY <1>3, KeyType DEF RunInv, Knows, At
  <2> QED BY <2>1, RowsStay DEF Inv
<1> QED BY <1>1, <1>2, <1>3 DEF RunInv, Knows, At, Key

LEMMA OthersKnow ==
  ASSUME Inv, [Next]_vars, NEW c \in Clients,
         \A d \in Clients \ {c}: run'[d] = run[d],
         At(c, "save")' => Fresh(run'[c].exec),
         \A e \in Execs: execs'[e] = execs[e] \/ (At(c, "save") /\ e = run[c].exec)
  PROVE  \A d \in Clients \ {c}: Knows(d)'
<1> SUFFICES ASSUME NEW d \in Clients \ {c} PROVE Knows(d)' OBVIOUS
<1>1. ASSUME At(d, "save")
      PROVE  /\ execs'[run[d].exec] = None
             /\ \A b \in Clients: At(b, "save")' /\ run'[b].exec = run[d].exec => b = d
  <2>1. /\ run[d] # None /\ run[d].exec \in Execs /\ execs[run[d].exec] = None
        /\ \A b \in Clients: At(b, "save") /\ run[b].exec = run[d].exec => b = d
    BY <1>1 DEF Inv, TypeOK, RunInv, Knows, At, Runs
  <2>2. execs'[run[d].exec] = None
    BY <2>1
  <2>3. ASSUME NEW b \in Clients, At(b, "save")', run'[b].exec = run[d].exec PROVE b = d
    <3>1. CASE b = c
      BY <2>1, <2>3, <3>1 DEF Fresh
    <3>2. CASE b # c
      BY <2>1, <2>3, <3>2 DEF At
    <3> QED BY <3>1, <3>2
  <2> QED BY <2>2, <2>3
<1> QED BY <1>1, Untouched

LEMMA RunStep == Inv /\ [Next]_vars => RunInv'
<1> SUFFICES ASSUME Inv, [Next]_vars PROVE RunInv' OBVIOUS
<1> USE ConstantsAssumption DEF Inv, TypeOK
<1>1. ASSUME NEW c \in Clients, Start(c) PROVE RunInv'
  <2>1. \A d \in Clients \ {c}: Knows(d)'
    BY <1>1, OthersKnow DEF Start, At
  <2>2. Knows(c)'
    BY <1>1 DEF Start, Knows, At
  <2> QED BY <2>1, <2>2 DEF RunInv
<1>2. ASSUME NEW c \in Clients, Resolve(c) PROVE RunInv'
  <2>1. \A d \in Clients \ {c}: Knows(d)'
    BY <1>2, OthersKnow DEF Resolve, At
  <2>2. Knows(c)'
    BY <1>2 DEF Resolve, Knows, At, Runs
  <2> QED BY <2>1, <2>2 DEF RunInv
<1>3. ASSUME NEW c \in Clients, Lookup(c) PROVE RunInv'
  <2>1. run[c] \in Runs /\ Key(c) \in CacheKeys
        /\ Key(c)[1] = run[c].sid /\ Key(c)[2] = run[c].input /\ run[c].sid # None
    BY <1>3, KeyType DEF Lookup, At, RunInv, Knows
  <2>2. \A d \in Clients \ {c}: Knows(d)'
    <3>1. \A d \in Clients \ {c}: run'[d] = run[d]
      BY <1>3 DEF Lookup, Goto
    <3>2. ~At(c, "save")' /\ execs' = execs
      BY <1>3, <2>1 DEF Lookup, Goto, At, Runs
    <3> QED BY <3>1, <3>2, OthersKnow
  <2>3. CASE cache[Key(c)] = None
    <3>1. run'[c].pc = "run"
      BY <1>3, <2>1, <2>3 DEF Lookup, Goto, Runs
    <3>2. /\ ~At(c, "lookup")' /\ ~At(c, "load")'
          /\ ~At(c, "save")' /\ ~At(c, "store")'
      BY <3>1 DEF At
    <3> QED BY <2>2, <3>2 DEF Knows, RunInv
  <2>4. CASE cache[Key(c)] # None
    <3>1. cache[Key(c)].exec \in Execs
          /\ SavedFor(cache[Key(c)].exec, run[c].sid, run[c].input)
      BY <2>1, <2>4 DEF CacheInv, Rows
    <3> QED BY <1>3, <2>1, <2>4, <3>1 DEF Lookup, Knows, At, Runs, SavedFor
  <2> QED BY <2>2, <2>3, <2>4 DEF RunInv
<1>4. ASSUME NEW c \in Clients, LoadHit(c) \/ Raise(c) PROVE RunInv'
  <2>1. run' = [run EXCEPT ![c] = None] /\ execs' = execs
    BY <1>4 DEF LoadHit, Raise, Return
  <2>2. \A d \in Clients \ {c}: Knows(d)'
    BY <2>1, OthersKnow DEF At
  <2> QED BY <2>1, <2>2 DEF RunInv, Knows, At
<1>5. ASSUME NEW c \in Clients, Run(c) PROVE RunInv'
  <2>1. PICK e \in Execs, st \in Statuses:
          /\ Fresh(e)
          /\ run' = [run EXCEPT ![c].sid = sims[run[c].name], ![c].exec = e,
                                ![c].status = st, ![c].pc = "save"]
    BY <1>5 DEF Run
  <2>2. run[c] \in Runs /\ execs' = execs
    BY <1>5 DEF Run, At
  <2>3. run'[c].exec = e /\ run'[c].pc = "save"
    BY <2>1, <2>2 DEF Runs
  <2>4. \A d \in Clients \ {c}: Knows(d)'
    BY <2>1, <2>2, <2>3, OthersKnow
  <2>5. Knows(c)'
    BY <2>1, <2>2, <2>3 DEF Knows, At, Fresh
  <2> QED BY <2>4, <2>5 DEF RunInv
<1>6. ASSUME NEW c \in Clients, Save(c) PROVE RunInv'
  <2>1. run[c] \in Runs /\ run[c].exec \in Execs
    BY <1>6 DEF Save, At, RunInv, Knows, Runs
  <2>2. \A d \in Clients \ {c}: Knows(d)'
    BY <1>6, <2>1, OthersKnow DEF Save, Goto, Return, At, Runs
  <2>3. Knows(c)'
    <3>1. run'[c] = None \/ (/\ run'[c].pc = "store" /\ run'[c].exec = run[c].exec
                             /\ run'[c].sid = run[c].sid /\ run'[c].input = run[c].input)
      BY <1>6, <2>1 DEF Save, Goto, Return, Runs
    <3>2. execs'[run[c].exec] # None /\ execs'[run[c].exec].sid = run[c].sid
          /\ execs'[run[c].exec].input = run[c].input
      <4>1. execs'[run[c].exec] = [name |-> run[c].name, sid |-> run[c].sid,
                                   input |-> run[c].input, status |-> run[c].status]
        BY <1>6, <2>1 DEF Save
      <4>2. execs'[run[c].exec] # None
        BY <2>1, <4>1 DEF Executions, Runs
      <4> QED BY <4>1, <4>2
    <3>3. run[c].sid # None => cache'[Key(c)] # None
      <4>1. ASSUME run[c].sid # None PROVE Key(c) \in CacheKeys
        BY <1>6, <4>1, KeyType DEF Save, At
      <4>2. [exec |-> run[c].exec, access |-> 1] # None
        BY <2>1 DEF Rows
      <4> QED BY <1>6, <4>1, <4>2 DEF Save
    <3> QED BY <2>1, <3>1, <3>2, <3>3 DEF Knows, At, Key, SavedFor
  <2> QED BY <2>2, <2>3 DEF RunInv
<1>7. ASSUME NEW c \in Clients, Store(c) PROVE RunInv'
  <2>1. \A d \in Clients \ {c}: Knows(d)'
    BY <1>7, OthersKnow DEF Store, Return, At
  <2> QED BY <1>7, <2>1 DEF RunInv, Knows, At, Store, Return
<1>8. CASE UNCHANGED <<run, execs>>
  <2>1. \A d \in Clients: Knows(d)'
    BY <1>8, Untouched DEF RunInv, Knows, At
  <2> QED BY <2>1 DEF RunInv
<1> QED BY <1>1, <1>2, <1>3, <1>4, <1>5, <1>6, <1>7, <1>8
        DEF Next, vars, Discard, Deploy, Delete, Deprecate

-----------------------------------------------------------------------------
(* The cache table and the hits. *)

LEMMA CacheStep == Inv /\ [Next]_vars => CacheInv'
<1> SUFFICES ASSUME Inv, [Next]_vars PROVE CacheInv' OBVIOUS
<1>0. cache \in [CacheKeys -> Rows \cup {None}]
  BY DEF Inv, TypeOK
<1>1. \A e \in Execs, id \in Ids, i \in Inputs: SavedFor(e, id, i) => SavedFor(e, id, i)'
  BY SavedStays DEF SavedFor
<1>2. ASSUME NEW k \in CacheKeys, cache'[k] # None, cache[k] # None,
             cache'[k].exec = cache[k].exec
      PROVE  SavedFor(cache[k].exec, k[1], k[2])'
  BY <1>0, <1>1, <1>2 DEF Inv, CacheInv, CacheKeys, Rows
<1>3. ASSUME NEW c \in Clients, Lookup(c) PROVE CacheInv'
  <2>1. \A k \in CacheKeys: cache'[k] # None =>
          cache[k] # None /\ cache'[k].exec = cache[k].exec
    BY <1>0, <1>3 DEF Lookup, Rows
  <2> QED BY <1>2, <2>1 DEF CacheInv
<1>4. ASSUME NEW c \in Clients, Save(c) \/ Store(c), NEW k \in CacheKeys, cache'[k] # cache[k]
      PROVE  SavedFor(cache[k].exec, k[1], k[2])'
  <2>1. run[c] \in Runs /\ run[c] # None /\ run[c].exec \in Execs /\ run[c].sid # None
    BY <1>4 DEF Inv, TypeOK, Save, Store, At, RunInv, Knows, Runs
  <2>2. k = Key(c) /\ k[1] = run[c].sid /\ k[2] = run[c].input
    BY <1>0, <1>4, <2>1, KeyType DEF Save, Store, Inv
  <2>3. cache'[k].exec = run[c].exec
    BY <1>0, <1>4, <2>2 DEF Save, Store
  <2>4. CASE Save(c)
    <3>1. execs'[run[c].exec] = [name |-> run[c].name, sid |-> run[c].sid,
                                 input |-> run[c].input, status |-> run[c].status]
      BY <2>1, <2>4 DEF Save, Inv, TypeOK
    <3>2. execs'[run[c].exec] # None
      BY <2>1, <3>1, ConstantsAssumption DEF Executions, Runs, Inv
    <3> QED BY <2>2, <2>3, <3>1, <3>2 DEF SavedFor
  <2>5. CASE Store(c)
    <3>1. SavedFor(run[c].exec, run[c].sid, run[c].input)
      BY <2>5 DEF Inv, RunInv, Knows, Store
    <3> QED BY <1>1, <2>1, <2>2, <2>3, <3>1 DEF Runs
  <2> QED BY <1>4, <2>4, <2>5
<1>5. ASSUME NEW c \in Clients, Save(c) \/ Store(c) PROVE CacheInv'
  BY <1>2, <1>4, <1>5 DEF CacheInv
<1>6. CASE UNCHANGED cache
  BY <1>2, <1>6 DEF CacheInv
<1> QED BY <1>3, <1>5, <1>6
        DEF Next, vars, Start, Resolve, LoadHit, Run, Raise, Discard, Deploy, Delete, Deprecate

(* A hit is loaded by a call whose database id is that of the execution: both
   stand for the same name. *)
LEMMA HitStep == Inv /\ [Next]_vars => HitsBelong'
<1> SUFFICES ASSUME Inv, [Next]_vars PROVE HitsBelong' OBVIOUS
<1> USE ConstantsAssumption
<1>1. ASSUME NEW d \in Clients, hit'[d] = hit[d], hit'[d] # None
      PROVE  /\ execs'[hit'[d].exec] # None
             /\ execs'[hit'[d].exec].name = hit'[d].name
             /\ execs'[hit'[d].exec].input = hit'[d].input
  BY <1>1, SavedStays DEF Inv, TypeOK, HitsBelong
<1>2. ASSUME NEW c \in Clients, LoadHit(c) PROVE HitsBelong'
  <2>1. run[c] \in Runs /\ run[c].exec \in Execs /\ run[c].sid \in Ids
        /\ SavedFor(run[c].exec, run[c].sid, run[c].input)
    BY <1>2 DEF Inv, TypeOK, LoadHit, At, RunInv, Knows, Runs
  <2>2. execs[run[c].exec].name \in Names
    BY <2>1 DEF Inv, TypeOK, SavedFor, Executions
  <2>3. Bound(run[c].sid, execs[run[c].exec].name) /\ Bound(run[c].sid, run[c].name)
    BY <1>2, <2>1 DEF Bound, SavedFor, LoadHit, At
  <2>4. execs[run[c].exec].name = run[c].name
    BY <2>1, <2>2, <2>3 DEF Inv, OneNamePerId, Runs
  <2>5. hit'[c] = [name |-> run[c].name, input |-> run[c].input, exec |-> run[c].exec]
        /\ execs' = execs /\ \A d \in Clients \ {c}: hit'[d] = hit[d]
    BY <1>2 DEF LoadHit, Inv, TypeOK
  <2> QED BY <1>1, <2>1, <2>4, <2>5 DEF HitsBelong, SavedFor
<1>3. ASSUME NEW c \in Clients, Start(c) PROVE HitsBelong'
  <2>1. \A d \in Clients: hit'[d] # None => hit'[d] = hit[d]
    BY <1>3 DEF Start, Inv, TypeOK
  <2> QED BY <1>1, <2>1 DEF HitsBelong
<1>4. CASE UNCHANGED hit
  BY <1>1, <1>4 DEF HitsBelong
<1> QED BY <1>2, <1>3, <1>4
        DEF Next, vars, Resolve, Lookup, Run, Save, Raise, Store, Discard, Deploy, Delete,
            Deprecate

LEMMA CountStep == Inv /\ [Next]_vars => AccessesCounted'
<1> SUFFICES ASSUME Inv, [Next]_vars PROVE AccessesCounted' OBVIOUS
<1>0. cache \in [CacheKeys -> Rows \cup {None}] /\ hits \in [CacheKeys -> Nat]
      /\ AccessesCounted
  BY DEF Inv, TypeOK
<1>1. ASSUME NEW c \in Clients, Lookup(c) PROVE AccessesCounted'
  BY <1>0, <1>1 DEF Lookup, AccessesCounted, Rows
<1>2. ASSUME NEW c \in Clients, Save(c) PROVE AccessesCounted'
  BY <1>0, <1>2 DEF Save, AccessesCounted
<1>3. ASSUME NEW c \in Clients, Store(c) PROVE AccessesCounted'
  <2>1. CASE UNCHANGED cache
    BY <1>0, <1>3, <2>1 DEF Store, AccessesCounted
  <2>2. CASE /\ run[c].sid # None
             /\ cache' = [cache EXCEPT ![Key(c)] =
                            [exec |-> run[c].exec, access |-> Accesses(Key(c))]]
    <3>1. Key(c) \in CacheKeys /\ cache[Key(c)] # None
      BY <1>3, <2>2, KeyType DEF Store, Inv, RunInv, Knows, At
    <3>2. Accesses(Key(c)) = hits[Key(c)] + 1
      BY <1>0, <3>1 DEF Accesses, AccessesCounted
    <3> QED BY <1>0, <1>3, <2>2, <3>1, <3>2 DEF Store, AccessesCounted
  <2> QED BY <1>3, <2>1, <2>2 DEF Store
<1>4. CASE UNCHANGED <<cache, hits>>
  BY <1>0, <1>4 DEF AccessesCounted
<1> QED BY <1>1, <1>2, <1>3, <1>4
        DEF Next, vars, Start, Resolve, LoadHit, Run, Raise, Discard, Deploy, Delete, Deprecate

-----------------------------------------------------------------------------
THEOREM Invariance == Spec => []Inv
<1>1. Inv /\ [Next]_vars => Inv'
  BY TypeStep, NameStep, CacheStep, RunStep, HitStep, CountStep DEF Inv
<1> QED BY InitInv, <1>1, PTL DEF Spec

(* The tables, the folders and the runs of the clients stay in the sets the
   comments of LocalStore describe. *)
THEOREM TypesHold == Spec => []TypeOK
<1>1. Inv => TypeOK
  BY DEF Inv
<1> QED BY Invariance, <1>1, PTL

(* Whatever the number of clients, deployments and deletions, a hit is a saved
   execution of the simulation and inputs asked for. *)
THEOREM HitsAreOwn == Spec => []HitsBelong
<1>1. Inv => HitsBelong
  BY DEF Inv
<1> QED BY Invariance, <1>1, PTL

(* The access counter of a cache row is exact. *)
THEOREM CountExact == Spec => []AccessesCounted
<1>1. Inv => AccessesCounted
  BY DEF Inv
<1> QED BY Invariance, <1>1, PTL

-----------------------------------------------------------------------------
(* IsolatedWorker.  Its safety properties are not inductive by themselves.     *)
(* Lifecycle says which states of the worker go with which step of the parent, *)
(* so that nothing writes outputs.json any more once the parent reads it;      *)
(* Verdict carries what was read, to the point where the status is decided.    *)

Lifecycle ==
  /\ worker = "absent" => pc \notin {"waiting", "kill", "drain", "read"} /\ Alive = {}
  /\ worker = "running" => pc \in {"waiting", "kill"}
  /\ pc = "start" => worker = "absent"
  /\ pc \in {"waiting", "kill"} => worker # "reaped"

Verdict ==
  /\ pc \in {"start", "waiting", "read"} => ~timedOut
  /\ pc \in {"start", "waiting", "kill", "drain", "read"} => payload = "none"
  /\ payload = "ok" => file = "ok" /\ code = 0 /\ ~timedOut /\ worker = "reaped"
  /\ pc \notin {"save", "store", "done"} => status = "pending"
  /\ status = "completed" => payload = "ok"
  /\ pc = "store" => (Saves => saved)
  /\ pc # "done" => ~cached

WorkerInv ==
  /\ WorkerTypeOK /\ Lifecycle /\ Verdict
  /\ CompletedMeansSucceeded /\ WorkerGone /\ SurvivorsHadOwnExit

LEMMA WorkerInitInv == WorkerInit => WorkerInv
<1> SUFFICES ASSUME WorkerInit PROVE WorkerInv
  OBVIOUS
<1>1. WorkerTypeOK
  <2>1. procs \in [Descendants -> [holds: BOOLEAN, grouped: BOOLEAN] \cup {NotRunning}]
    BY DEF WorkerInit
  <2>2. timedOut \in BOOLEAN /\ saved \in BOOLEAN /\ cached \in BOOLEAN
    BY DEF WorkerInit
  <2>3. pc \in Steps /\ code \in 0..1 /\ file \in Outcomes \cup {"none", "partial"}
    BY DEF WorkerInit, Steps, Outcomes
  <2>4. QED
    BY <2>1, <2>2, <2>3 DEF WorkerInit, WorkerTypeOK
<1>2. Alive = {} /\ Holders = {} /\ Group = {}
  BY DEF WorkerInit, Alive, Holders, Group
<1>3. Lifecycle /\ Verdict
  BY <1>2 DEF WorkerInit, Lifecycle, Verdict
<1>4. CompletedMeansSucceeded /\ WorkerGone /\ SurvivorsHadOwnExit
  BY <1>2 DEF WorkerInit, CompletedMeansSucceeded, WorkerGone, SurvivorsHadOwnExit
<1>5. QED
  BY <1>1, <1>3, <1>4 DEF WorkerInv

\* A step of the workflow's processes adds no holder of the pipes and no member
\* of the group except from the running worker or from one that is there.
LEMMA ForkInherits ==
  ASSUME WorkerTypeOK, NEW d \in Descendants, Fork(d)
  PROVE  /\ procs' \in [Descendants -> [holds: BOOLEAN, grouped: BOOLEAN] \cup {NotRunning}]
         /\ worker = "running" \/ Alive # {}
         /\ worker # "running" /\ Holders = {} => Holders' = {}
         /\ worker # "running" /\ Group = {} => Group' = {}
<1> USE IsolatedWorkerAssumption DEF WorkerTypeOK
<1>1. CASE worker = "running" /\ procs' = [procs EXCEPT ![d] = [holds |-> TRUE, grouped |-> TRUE]]
  BY <1>1
<1>2. ASSUME NEW p \in Alive, procs' = [procs EXCEPT ![d] = procs[p]]
      PROVE  /\ procs' \in [Descendants -> [holds: BOOLEAN, grouped: BOOLEAN] \cup {NotRunning}]
             /\ Holders = {} => Holders' = {}
             /\ Group = {} => Group' = {}
  BY <1>2 DEF Alive, Holders, Group
<1>3. QED
  BY <1>1, <1>2 DEF Fork

LEMMA DetachShrinks ==
  ASSUME WorkerTypeOK, NEW d \in Descendants, Detach(d)
  PROVE  /\ procs' \in [Descendants -> [holds: BOOLEAN, grouped: BOOLEAN] \cup {NotRunning}]
         /\ Alive # {}
         /\ Holders' \subseteq Holders /\ Group' \subseteq Group
<1> USE IsolatedWorkerAssumption DEF WorkerTypeOK
<1>1. d \in Alive /\ procs[d] \in [holds: BOOLEAN, grouped: BOOLEAN]
  BY DEF Detach, Alive
<1>2. CASE procs' = [procs EXCEPT ![d].holds = FALSE]
  BY <1>1, <1>2 DEF Alive, Holders, Group
<1>3. CASE procs' = [procs EXCEPT ![d].grouped = FALSE]
  BY <1>1, <1>3 DEF Alive, Holders, Group
<1>4. CASE procs' = [procs EXCEPT ![d] = NotRunning]
  BY <1>1, <1>4 DEF Alive, Holders, Group
<1>5. QED
  BY <1>1, <1>2, <1>3, <1>4 DEF Detach

-----------------------------------------------------------------------------
LEMMA StepInv == WorkerInv /\ [WorkerNext]_workerVars => WorkerInv'
<1> SUFFICES ASSUME WorkerInv, [WorkerNext]_workerVars PROVE WorkerInv'
  OBVIOUS
<1> USE IsolatedWorkerAssumption DEF WorkerInv, child, parent, result, Go, Steps, Outcomes
<1>1. CASE StartWorker
  BY <1>1 DEF StartWorker, WorkerTypeOK, Lifecycle, Verdict, CompletedMeansSucceeded, WorkerGone,
              SurvivorsHadOwnExit, Alive, Holders, Group
<1>2. CASE Communicated
  BY <1>2 DEF Communicated, PipesClosed, WorkerTypeOK, Lifecycle, Verdict,
              CompletedMeansSucceeded, WorkerGone, SurvivorsHadOwnExit, Alive, Holders, Group
<1>3. CASE TimesOut
  BY <1>3 DEF TimesOut, WorkerTypeOK, Lifecycle, Verdict, CompletedMeansSucceeded, WorkerGone,
              SurvivorsHadOwnExit, Alive, Holders, Group
<1>4. CASE KillProcessTree
  <2>1. CASE worker = "running"
    <3>1. /\ worker' = "exited" /\ code' = 1
          /\ procs' = [d \in Descendants |-> IF d \in Group THEN NotRunning ELSE procs[d]]
      BY <1>4, <2>1 DEF KillProcessTree
    <3>2. procs' \in [Descendants -> [holds: BOOLEAN, grouped: BOOLEAN] \cup {NotRunning}]
      BY <3>1 DEF WorkerTypeOK
    <3>3. Group' = {}
      BY <3>1 DEF Group, Alive
    <3>4. QED
      BY <1>4, <2>1, <3>1, <3>2, <3>3
         DEF KillProcessTree, WorkerTypeOK, Lifecycle, Verdict, CompletedMeansSucceeded,
             WorkerGone, SurvivorsHadOwnExit
  <2>2. CASE worker # "running"
    BY <1>4, <2>2 DEF KillProcessTree, WorkerTypeOK, Lifecycle, Verdict,
                      CompletedMeansSucceeded, WorkerGone, SurvivorsHadOwnExit
  <2>3. QED
    BY <2>1, <2>2
<1>5. CASE Drain
  BY <1>5 DEF Drain, PipesClosed, WorkerTypeOK, Lifecycle, Verdict, CompletedMeansSucceeded,
              WorkerGone, SurvivorsHadOwnExit, Alive, Holders, Group
<1>6. CASE ReadOutput
  BY <1>6 DEF ReadOutput, WorkerTypeOK, Lifecycle, Verdict, CompletedMeansSucceeded,
              WorkerGone, SurvivorsHadOwnExit, Alive, Holders, Group
<1>7. CASE LeaveRun
  BY <1>7 DEF LeaveRun, WorkerTypeOK, Lifecycle, Verdict, CompletedMeansSucceeded,
              WorkerGone, SurvivorsHadOwnExit, Alive, Holders, Group
<1>8. CASE SaveResult
  BY <1>8 DEF SaveResult, WorkerTypeOK, Lifecycle, Verdict, CompletedMeansSucceeded,
              WorkerGone, SurvivorsHadOwnExit, Alive, Holders, Group
<1>9. CASE StoreCache
  BY <1>9 DEF StoreCache, WorkerTypeOK, Lifecycle, Verdict, CompletedMeansSucceeded,
              WorkerGone, SurvivorsHadOwnExit, Alive, Holders, Group
<1>10. CASE OpenOutput
  BY <1>10 DEF OpenOutput, WorkerTypeOK, Lifecycle, Verdict, CompletedMeansSucceeded,
               WorkerGone, SurvivorsHadOwnExit, Alive, Holders, Group
<1>11. CASE WriteOutput
  BY <1>11 DEF WriteOutput, WorkerTypeOK, Lifecycle, Verdict, CompletedMeansSucceeded,
               WorkerGone, SurvivorsHadOwnExit, Alive, Holders, Group
<1>12. CASE WorkerExits
  BY <1>12 DEF WorkerExits, WorkerTypeOK, Lifecycle, Verdict, CompletedMeansSucceeded,
               WorkerGone, SurvivorsHadOwnExit, Alive, Holders, Group
<1>13. ASSUME NEW d \in Descendants, Fork(d) PROVE WorkerInv'
  <2>1. UNCHANGED <<pc, timedOut, payload, status, saved, cached, worker, code, file>>
    BY <1>13 DEF Fork
  <2>2. QED
    BY <1>13, <2>1, ForkInherits
       DEF WorkerTypeOK, Lifecycle, Verdict, CompletedMeansSucceeded, WorkerGone,
           SurvivorsHadOwnExit
<1>14. ASSUME NEW d \in Descendants, Detach(d) PROVE WorkerInv'
  <2>1. UNCHANGED <<pc, timedOut, payload, status, saved, cached, worker, code, file>>
    BY <1>14 DEF Detach
  <2>2. QED
    BY <1>14, <2>1, DetachShrinks
       DEF WorkerTypeOK, Lifecycle, Verdict, CompletedMeansSucceeded, WorkerGone,
           SurvivorsHadOwnExit
<1>15. CASE UNCHANGED workerVars
  BY <1>15 DEF workerVars, WorkerTypeOK, Lifecycle, Verdict, CompletedMeansSucceeded, WorkerGone,
               SurvivorsHadOwnExit, Alive, Holders, Group
<1>16. QED
  BY <1>1, <1>2, <1>3, <1>4, <1>5, <1>6, <1>7, <1>8, <1>9, <1>10, <1>11, <1>12,
     <1>13, <1>14, <1>15 DEF WorkerNext, ParentStep

LEMMA WorkerInvariance == WorkerSpec => []WorkerInv
BY WorkerInitInv, StepInv, PTL DEF WorkerSpec

(* The state of the worker, its descendants, its pipes and the result stays in
   the sets the comments of IsolatedWorker describe. *)
THEOREM WorkerTypesHold == WorkerSpec => []WorkerTypeOK
<1>1. WorkerInv => WorkerTypeOK
  BY DEF WorkerInv
<1> QED BY WorkerInvariance, <1>1, PTL

(* A completed result is the whole output of a worker that exited with code 0
   within the timeout, and only such a result is cached (IsolatedFunction-
   Executor.execute, _run_worker). *)
THEOREM Completion == WorkerSpec => []CompletedMeansSucceeded
<1>1. WorkerInv => CompletedMeansSucceeded
  BY DEF WorkerInv
<1>2. QED
  BY <1>1, WorkerInvariance, PTL

(* _run_worker never leaves a running or unreaped worker, or an open pipe. *)
THEOREM NoWorkerLeft == WorkerSpec => []WorkerGone
<1>1. WorkerInv => WorkerGone
  BY DEF WorkerInv
<1>2. QED
  BY <1>1, WorkerInvariance, PTL

(* _kill_process_tree leaves nobody of the process group of a worker that it
   killed. *)
THEOREM Survivors == WorkerSpec => []SurvivorsHadOwnExit
<1>1. WorkerInv => SurvivorsHadOwnExit
  BY DEF WorkerInv
<1>2. QED
  BY <1>1, WorkerInvariance, PTL

\* What the parent has still to do at most.
ParentStepsLeft == [done |-> 0, store |-> 1, save |-> 2, leave |-> 3, read |-> 4, drain |-> 4,
                    kill |-> 5, waiting |-> 6, start |-> 7]

(* What ReturnsUnlessHeld rests on beside the scheduling of the parent and its  *)
(* timer.  The one call of communicate without a timeout waits for pipes that   *)
(* descendants hold, never for the worker, which has exited by then and is not  *)
(* started again; every other step waits for nothing but the timeout; and no    *)
(* step of anybody takes the parent further from its end.                       *)
THEOREM OnlyPipesHold ==
  WorkerSpec => /\ [](pc = "drain" /\ ~PipesClosed => Holders # {} /\ worker \in {"exited", "reaped"})
                /\ [][worker' = "running" => pc = "start" \/ worker = "running"]_workerVars
                /\ [][pc' # pc => ParentStepsLeft[pc'] < ParentStepsLeft[pc]]_workerVars
<1>1. WorkerInv => (pc = "drain" /\ ~PipesClosed => Holders # {} /\ worker \in {"exited", "reaped"})
  BY DEF WorkerInv, WorkerTypeOK, Lifecycle, PipesClosed
<1>2. [WorkerNext]_workerVars => [worker' = "running" => pc = "start" \/ worker = "running"]_workerVars
  <2> SUFFICES ASSUME WorkerNext, worker' = "running" PROVE pc = "start" \/ worker = "running"
    OBVIOUS
  <2>1. CASE ParentStep
    <3>1. CASE StartWorker
      BY <3>1 DEF StartWorker
    <3>2. CASE Communicated \/ KillProcessTree \/ Drain
      BY <3>2 DEF Communicated, KillProcessTree, Drain
    <3>3. CASE TimesOut \/ ReadOutput \/ LeaveRun \/ SaveResult \/ StoreCache
      BY <3>3 DEF TimesOut, ReadOutput, LeaveRun, SaveResult, StoreCache, child
    <3> QED BY <2>1, <3>1, <3>2, <3>3 DEF ParentStep
  <2>2. CASE ~ParentStep
    BY <2>2 DEF WorkerNext, OpenOutput, WriteOutput, WorkerExits, Fork, Detach
  <2> QED BY <2>1, <2>2
<1>3. [WorkerNext]_workerVars => [pc' # pc => ParentStepsLeft[pc'] < ParentStepsLeft[pc]]_workerVars
  <2> SUFFICES ASSUME WorkerNext, pc' # pc PROVE ParentStepsLeft[pc'] < ParentStepsLeft[pc]
    OBVIOUS
  <2>1. CASE ParentStep
    <3>1. CASE StartWorker
      BY <3>1 DEF StartWorker, ParentStepsLeft
    <3>2. CASE Communicated \/ TimesOut
      BY <3>2 DEF Communicated, TimesOut, Go, ParentStepsLeft
    <3>3. CASE KillProcessTree \/ Drain \/ ReadOutput
      BY <3>3 DEF KillProcessTree, Drain, ReadOutput, Go, ParentStepsLeft
    <3>4. CASE LeaveRun \/ StoreCache
      <4>1. (pc = "leave" /\ pc' = "save") \/ (pc = "store" /\ pc' = "done")
        BY <3>4, Zenon DEF LeaveRun, StoreCache, Go
      <4> QED BY <4>1 DEF ParentStepsLeft
    <3>5. CASE SaveResult
      BY <3>5 DEF SaveResult, ParentStepsLeft
    <3> QED BY <2>1, <3>1, <3>2, <3>3, <3>4, <3>5 DEF ParentStep
  <2>2. CASE ~ParentStep
    BY <2>2 DEF WorkerNext, OpenOutput, WriteOutput, WorkerExits, Fork, Detach, parent
  <2> QED BY <2>1, <2>2
<1> QED BY <1>1, <1>2, <1>3, WorkerInvariance, PTL DEF WorkerSpec
=============================================================================
