---------------------------- MODULE CacheService ----------------------------
(***************************************************************************)
(* The cache service (services/cache_service.py) with its two backends.    *)
(* Flask handlers run in the threads of the WSGI server: a handler takes a *)
(* request, checks the session row, and carries the request out in a       *)
(* transaction of its own, so a session may expire and other requests may  *)
(* be carried out between the check and the effect.  On PostgreSQL the     *)
(* check of get and set is inside the stored function, invalidate has no   *)
(* check, and a get that updated no row reads the table in a second        *)
(* statement, which sees what others committed meanwhile.                  *)
(***************************************************************************)
EXTENDS Naturals, FiniteSets

CONSTANTS Keys, Execs, Threads,
          Sids,         \* session ids
          Backends,     \* those a service may be started with
          Levels,       \* access levels: some of "read", "write" and "admin"
          Ttls,         \* values of ttl_seconds, Never for none
          MaxNow,       \* bound on the clock
          MaxHits,      \* bound on the hits of an entry
          MaxSets,      \* bound on the accesses PostgreSQL counts for stores
          Never, None

SessionLife == 2        \* clock units a mirrored session lives

VARIABLES backend,      \* the one this service was started with
          now, entries, sessions, req,
          reply,        \* the answer of a lookup, when the last step gave one
          served        \* history: hits answered for each key since it was stored
vars == <<backend, now, entries, sessions, req, reply, served>>

Ops == {"get", "set", "invalidate", "delete", "clear"}
Reqs == [op: Ops, sid: Sids, key: Keys \cup {None},   \* None for clear
         step: {"act", "read", "reread"}]
Grants == [level: Levels, expires: Nat]
Entries == [exec: Execs, expires: Nat \cup {Never}, access: Nat, hits: Nat,
            status: {"valid", "invalidated"}]

ASSUME CacheServiceAssumption ==
  /\ Backends \subseteq {"sqlite", "postgresql"}
  /\ Ttls \subseteq Nat \cup {Never} /\ Never \notin Nat
  /\ MaxNow \in Nat \ {0}
  /\ None \notin Keys /\ None \notin Entries /\ None \notin Reqs /\ None \notin Grants

TypeOK == /\ backend \in Backends
          /\ now \in 1..MaxNow
          /\ entries \in [Keys -> Entries \cup {None}]
          /\ sessions \in [Sids -> Grants \cup {None}]
          /\ req \in [Threads -> Reqs \cup {None}]
          /\ reply \in [key: Keys, exec: Execs \cup {None}] \cup {None}
          /\ served \in [Keys -> Nat]

Init == /\ backend \in Backends
        /\ now = 1
        /\ entries = [k \in Keys |-> None]
        /\ sessions = [s \in Sids |-> None]
        /\ req = [t \in Threads |-> None]
        /\ reply = None
        /\ served = [k \in Keys |-> 0]

-----------------------------------------------------------------------------
(* Session rows and their checks. *)

ValidSession(s) == sessions[s] # None /\ sessions[s].expires > now
WriteSession(s) == ValidSession(s) /\ sessions[s].level \in {"write", "admin"}

\* The lock a get holds between its statements: of the database (BEGIN IMMEDIATE
\* on SQLite), or of the row its UPDATE changed (PostgreSQL).
Unlocked(K) == \A t \in Threads:
  req[t] # None /\ req[t].step = "read" => backend = "postgresql" /\ req[t].key \notin K

(* POST /session/login ends in mirror_session: a row with the level of the
   user's privileges. *)
MirrorSession(s) ==
  /\ sessions[s] = None /\ Unlocked({})
  /\ \E l \in Levels:
       sessions' = [sessions EXCEPT ![s] = [level |-> l, expires |-> now + SessionLife]]
  /\ reply' = None
  /\ UNCHANGED <<now, entries, req, served>>

\* What each backend asks of the session, by operation.
Authorised(op, s) ==
  CASE op = "clear" -> WriteSession(s)
    [] op \in {"delete", "set"} -> IF backend = "sqlite" THEN ValidSession(s)
                                   ELSE WriteSession(s)
    [] op = "get" -> ValidSession(s)
    [] op = "invalidate" -> backend = "postgresql" \/ ValidSession(s)

\* On PostgreSQL these check the session in the statement that acts.
ChecksInside(op) == backend = "postgresql" /\ op \in {"get", "set", "invalidate"}

-----------------------------------------------------------------------------
(* Handlers. *)

Answer(t, a) == reply' = a /\ req' = [req EXCEPT ![t] = None]

(* A request comes in.  If its check has a transaction of its own it has passed
   it, or it was answered 401 and nothing has changed. *)
Receive(t) ==
  /\ req[t] = None
  /\ \E op \in Ops, s \in Sids:
     \E k \in IF op = "clear" THEN {None} ELSE Keys:
       /\ ChecksInside(op) \/ Authorised(op, s)
       /\ req' = [req EXCEPT ![t] = [op |-> op, sid |-> s, key |-> k, step |-> "act"]]
  /\ reply' = None
  /\ UNCHANGED <<now, entries, sessions, served>>

\* The 500 of an exception raised in a stored function.
Refuse(t) ==
  /\ req[t] # None /\ req[t].step = "act" /\ ChecksInside(req[t].op)
  /\ ~Authorised(req[t].op, req[t].sid)
  /\ Answer(t, None)
  /\ UNCHANGED <<now, entries, sessions, served>>

Acting(t, op) == /\ req[t] # None /\ req[t].step = "act" /\ req[t].op = op
                 /\ ChecksInside(op) => Authorised(op, req[t].sid)

Unexpired(k) == entries[k].expires # Never => entries[k].expires > now

\* Mutant: the status condition is left out of the statement.
LiveUnlessExpired(k) == entries[k] # None /\ Unexpired(k)

\* The WHERE clause of the get, in both of its statements.
Live(k) == entries[k] # None /\ entries[k].status = "valid" /\ Unexpired(k)

Counted(k) == [entries EXCEPT ![k].access = @ + 1, ![k].hits = @ + 1]

Found(k) == [key |-> k, exec |-> IF Live(k) THEN entries[k].exec ELSE None]

\* Mutant: the UPDATE counts every lookup of a row, valid or not.
GetCountingAll(t) ==
  /\ Acting(t, "get")
  /\ LET k == req[t].key IN
       /\ Unlocked({k})
       /\ entries[k] # None => entries[k].hits < MaxHits
       /\ entries' = IF entries[k] # None THEN Counted(k) ELSE entries
       /\ req' = [req EXCEPT ![t].step = "read"]
  /\ reply' = None
  /\ UNCHANGED <<now, sessions, served>>

(* get, first statement: UPDATE of the counters of a live entry. *)
Get(t) ==
  /\ Acting(t, "get")
  /\ LET k == req[t].key IN
       /\ Unlocked({k})
       /\ Live(k) => entries[k].hits < MaxHits
       /\ entries' = IF Live(k) THEN Counted(k) ELSE entries
       /\ req' = [req EXCEPT ![t].step =
                    IF Live(k) \/ backend = "sqlite" THEN "read" ELSE "reread"]
  /\ reply' = None
  /\ UNCHANGED <<now, sessions, served>>

(* get, second statement: SELECT of the entry if it is live, and commit. *)
GetRead(t) ==
  /\ req[t] # None /\ req[t].step \in {"read", "reread"}
  /\ LET k == req[t].key IN
       /\ Answer(t, Found(k))
       /\ Live(k) => served[k] <= MaxHits
       /\ served' = IF Live(k) THEN [served EXCEPT ![k] = @ + 1] ELSE served
  /\ UNCHANGED <<now, entries, sessions>>

Stored(e, ttl) == [exec |-> e, status |-> "valid", access |-> 1, hits |-> 0,
                   expires |-> IF ttl = Never THEN Never ELSE now + ttl]

(* set: INSERT OR REPLACE starts a new row on SQLite; ON CONFLICT DO UPDATE
   keeps the counters and counts an access on PostgreSQL. *)
Set(t) ==
  /\ Acting(t, "set")
  /\ LET k == req[t].key IN
     \E e \in Execs, ttl \in Ttls:
       /\ Unlocked({k})
       /\ IF backend = "sqlite" \/ entries[k] = None
          THEN /\ entries' = [entries EXCEPT ![k] = Stored(e, ttl)]
               /\ served' = [served EXCEPT ![k] = 0]
          ELSE /\ entries[k].access < entries[k].hits + 1 + MaxSets
               /\ entries' = [entries EXCEPT
                    ![k] = [Stored(e, ttl) EXCEPT !.access = entries[k].access + 1,
                                                  !.hits = entries[k].hits]]
               /\ UNCHANGED served
  /\ Answer(t, None)
  /\ UNCHANGED <<now, sessions>>

(* invalidate: the valid rows the filters select, expired ones included. *)
Invalidate(t) ==
  /\ Acting(t, "invalidate")
  /\ \E K \in {{req[t].key}, Keys}:
       /\ Unlocked(K)
       /\ entries' = [k \in Keys |->
            IF k \in K /\ entries[k] # None /\ entries[k].status = "valid"
            THEN [entries[k] EXCEPT !.status = "invalidated"]
            ELSE entries[k]]
  /\ Answer(t, None)
  /\ UNCHANGED <<now, sessions, served>>

(* delete: one row, 404 if there is none. *)
Delete(t) ==
  /\ Acting(t, "delete") /\ Unlocked({req[t].key})
  /\ entries' = [entries EXCEPT ![req[t].key] = None]
  /\ served' = [served EXCEPT ![req[t].key] = 0]
  /\ Answer(t, None)
  /\ UNCHANGED <<now, sessions>>

(* delete_all *)
Clear(t) ==
  /\ Acting(t, "clear") /\ Unlocked(Keys)
  /\ entries' = [k \in Keys |-> None]
  /\ served' = [k \in Keys |-> 0]
  /\ Answer(t, None)
  /\ UNCHANGED <<now, sessions>>

(* Time passes at any moment on SQLite, where each statement reads the clock,
   and not between the two statements of a PostgreSQL get: CURRENT_TIMESTAMP is
   the same throughout a transaction. *)
Tick ==
  /\ now < MaxNow
  /\ backend = "postgresql" =>
       \A t \in Threads: req[t] # None => req[t].step = "act"
  /\ now' = now + 1
  /\ reply' = None
  /\ UNCHANGED <<entries, sessions, req, served>>

Next == /\ \/ \E t \in Threads: \/ Receive(t) \/ Refuse(t)
                                \/ Get(t) \/ GetRead(t) \/ Set(t)
                                \/ Invalidate(t) \/ Delete(t) \/ Clear(t)
           \/ \E s \in Sids: MirrorSession(s)
           \/ Tick
        /\ UNCHANGED backend

Spec == Init /\ [][Next]_vars

-----------------------------------------------------------------------------
\* The execution stored last for k, and not invalidated, deleted or expired since.
Current(k) ==
  IF entries[k] = None \/ entries[k].status = "invalidated" THEN None
  ELSE IF entries[k].expires # Never /\ entries[k].expires <= now THEN None
  ELSE entries[k].exec

(* Either backend is a cache: a lookup is answered with the execution stored
   last for its key, unless it was invalidated, deleted or has expired, even if
   other requests are carried out between the statements of the handler. *)
CSt == INSTANCE CacheStore WITH live <- [k \in Keys |-> Current(k)]
ImplementsCacheStore == CSt!ASpec

\* 1 if a get has counted a hit on k and not answered it yet.
Pending(k) ==
  IF Live(k) /\ \E t \in Threads: req[t] # None /\ req[t].step = "read" /\ req[t].key = k
  THEN 1 ELSE 0

(* On SQLite no hit is lost and no miss is counted: hit_count is the number of
   hits answered since the entry was stored, the one under way included, and
   access_count is one more, for the store.  Only an entry with a time to live
   can be counted and not answered, when it expires between the two statements.
   On PostgreSQL a hit may go uncounted, when the entry is stored between the
   two statements of a get, but none is counted that is not answered. *)
CountersExact == \A k \in Keys: entries[k] # None =>
  LET entry == entries[k]
      answered == served[k] + Pending(k)
  IN  IF backend = "sqlite"
      THEN /\ entry.hits >= answered
           /\ entry.expires = Never => entry.hits = answered
           /\ entry.access = entry.hits + 1
      ELSE entry.hits <= answered /\ entry.hits < entry.access
=============================================================================
