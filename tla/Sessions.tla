------------------------------ MODULE Sessions ------------------------------
(***************************************************************************)
(* Sessions of the three services.  A service is a process with several    *)
(* request threads.  The first request that needs it builds the process's  *)
(* SessionManager, whose admin password comes from a file all services     *)
(* share: the first to create it writes it, the others read it.  A login   *)
(* passes the limiter, is authenticated by the manager, which keeps the    *)
(* session in memory, and is mirrored in the service's own table (catalog  *)
(* and cache; the results service has none and asks the manager).  Later   *)
(* requests present the token and are checked against the table or the     *)
(* manager.                                                                *)
(*                                                                         *)
(* The deployment modelled has neither SIM2L_ADMIN_PASSWORD nor            *)
(* SIM2L_DEV_MODE set and runs with authentication.  A thread's PostgreSQL *)
(* connection to the catalog outlives the request, the cache service's is  *)
(* closed after it (_close_db_connection).                                 *)
(***************************************************************************)
EXTENDS LoginLimiter, FiniteSets

CONSTANTS Services, Threads,
          Deployments,   \* which service is what and has which threads
          Managers,      \* SessionManagers; also the password each draws
          Tokens,        \* session ids (uuid4, never reused)
          TTL,           \* default_ttl_hours
          MaxNow, MaxExpiry,   \* bounds; a deployment bounds its crashes
          Nothing

Kinds == {"catalog", "cache", "results"}
Flavour == [kind: Kinds, backend: {"sqlite", "postgresql", "memory"}]
Deployment == [flavour: [Services -> Flavour], home: [Threads -> Services],
               attempts: Nat \ {0}, crashes: Nat]

ASSUME SessionsAssumption == /\ Deployments \subseteq Deployment
                             /\ TTL \in Nat \ {0}
                             /\ {MaxNow, MaxExpiry} \subseteq Nat
                             /\ Nothing \notin Managers \cup Tokens \cup Nat
                             /\ Managers \cap {"absent", "empty"} = {}

VARIABLES
  deployment,  \* fixed
  now,         \* the clock
  file,        \* admin_password: "absent", "empty" or the password in it
  cred,        \* cred[m]: the admin password of manager m and its origin
  manager,     \* manager[s]: the global _session_manager of the process
  memory,      \* memory[k]: expires_at in the _sessions of k's manager, 0 if none
  row,         \* row[k]: expires_at in the service's table, 0 if no row
  bucket,      \* bucket[s]: the limiter's bucket of the one client that logs in
  opened,      \* opened[t]: when the open transaction of thread t began
  thread,      \* what each request thread is doing
  restarts,
  issued,      \* history: who made the session, what the client was told
  tries,       \* history: the attempts let through since the last success or
               \* restart: when each read the clock and when it was let through
  overdue      \* history: tokens accepted after their expiry, with the time
               \* the accepting transaction began

server == <<file, cred, manager, memory, row, bucket, opened>>
history == <<issued, tries, overdue>>
vars == <<deployment, now, server, thread, restarts, history>>

Home(t) == deployment.home[t]
Kind(s) == deployment.flavour[s].kind
OnPG(s) == deployment.flavour[s].backend = "postgresql"
MaxAttempts == deployment.attempts   \* max_attempts, 5 in the services

Idle == [step |-> "idle", mgr |-> Nothing, tok |-> Nothing, at |-> 0]
Steps == {"idle", "limit", "resolve", "claim", "write", "install", "return",
          "authenticate", "mirror", "lookup", "confirm", "evict"}
\* at is the time a login has read and waits with for the limiter's lock.
Thread == [step: Steps, mgr: Managers \cup {Nothing}, tok: Tokens \cup {Nothing}, at: Nat]
Credential == [pw: Managers, from: {"file", "own"}]
Issue == [svc: Services, mgr: Managers, exp: 1..MaxExpiry,
          told: BOOLEAN, mirrored: BOOLEAN]
Expiry == 0..MaxExpiry
Try == [read: Nat, let: Nat]
Overdue == [tok: Tokens, began: Nat, exp: Nat]
ASSUME NoRecord == Nothing \notin Credential /\ Nothing \notin Issue

TypeOK == /\ deployment \in Deployments
          /\ now \in 0..MaxNow
          /\ file \in {"absent", "empty"} \cup Managers
          /\ cred \in [Managers -> Credential \cup {Nothing}]
          /\ manager \in [Services -> Managers \cup {Nothing}]
          /\ memory \in [Tokens -> Expiry]
          /\ row \in [Tokens -> Expiry]
          /\ bucket \in [Services -> Seq(Nat)]
          /\ opened \in [Threads -> 0..MaxNow \cup {Nothing}]
          /\ thread \in [Threads -> Thread]
          /\ restarts \in 0..deployment.crashes
          /\ issued \in [Tokens -> Issue \cup {Nothing}]
          /\ tries \in [Services -> Seq(Try)]
          /\ overdue \subseteq Overdue

Init == /\ deployment \in Deployments
        /\ now = 0
        /\ file = "absent"
        /\ cred = [m \in Managers |-> Nothing]
        /\ manager = [s \in Services |-> Nothing]
        /\ memory = [k \in Tokens |-> 0]
        /\ row = [k \in Tokens |-> 0]
        /\ bucket = [s \in Services |-> <<>>]
        /\ opened = [t \in Threads |-> Nothing]
        /\ thread = [t \in Threads |-> Idle]
        /\ restarts = 0
        /\ issued = [k \in Tokens |-> Nothing]
        /\ tries = [s \in Services |-> <<>>]
        /\ overdue = {}

-----------------------------------------------------------------------------
(* Helpers. *)

At(t, step) == thread[t].step = step
Goto(t, step) == thread' = [thread EXCEPT ![t].step = step]
\* What a thread wanted the manager for: a login or the check of a token.
Use(k) == IF k = Nothing THEN "authenticate" ELSE "lookup"
Leave(t) == thread' = [thread EXCEPT ![t] = Idle]
OfService(s) == {k \in Tokens: issued[k] # Nothing /\ issued[k].svc = s}
TokensOf(m) == {k \in Tokens: memory[k] > 0 /\ issued[k].mgr = m}
UnusedManagers == {m \in Managers: cred[m] = Nothing /\ \A t \in Threads: thread[t].mgr # m}

(* CURRENT_TIMESTAMP of PostgreSQL is the time the transaction of the
   connection began, datetime('now') of SQLite that of the statement.       *)
TransactionTime(t) == IF opened[t] = Nothing THEN now ELSE opened[t]

\* A statement on PostgreSQL opens a transaction unless one is open; the
\* catalog's threads keep it until a commit or a rollback.
Opens(t) ==
  opened' = IF OnPG(Home(t)) /\ Kind(Home(t)) = "catalog"
            THEN [opened EXCEPT ![t] = TransactionTime(t)] ELSE opened
Ends(t) == opened' = [opened EXCEPT ![t] = Nothing]

-----------------------------------------------------------------------------
(* Logging in: the limiter and the process's SessionManager. *)

(* get_session_manager: the global is read, and a new manager built by every
   thread that finds it empty.  No other step sees the order of this and the
   limiter's decision before it: they are one step.                         *)
EnterManager(t, k) ==
  LET s == Home(t) IN
  \/ /\ manager[s] # Nothing
     /\ thread' = [thread EXCEPT ![t] =
           [step |-> Use(k), mgr |-> manager[s], tok |-> k, at |-> 0]]
  \/ /\ manager[s] = Nothing
     /\ \E m \in UnusedManagers:
          thread' = [thread EXCEPT ![t] =
               [step |-> "resolve", mgr |-> m, tok |-> k, at |-> 0]]

(* allow reads the clock ... *)
ReadClock(t) ==
  /\ At(t, "idle")
  /\ thread' = [thread EXCEPT ![t].step = "limit", ![t].at = now]
  /\ UNCHANGED <<server, history>>

\* ... and with the lock decides by the time it has read.
LoginAllowed(t, sweep) ==
  LET s == Home(t)  read == thread[t].at IN
  /\ At(t, "limit")
  /\ Allows(bucket[s], read, sweep, MaxAttempts)
  /\ bucket' = [bucket EXCEPT ![s] = Attempted(@, read, sweep, MaxAttempts)]
  /\ tries' = [tries EXCEPT ![s] = Append(@, [read |-> read, let |-> now])]
  /\ EnterManager(t, Nothing)
  /\ UNCHANGED <<file, cred, manager, memory, row, opened, issued, overdue>>

(* 429; the stale attempts are dropped all the same. *)
LoginThrottled(t, sweep) ==
  LET s == Home(t)  read == thread[t].at IN
  /\ At(t, "limit")
  /\ ~Allows(bucket[s], read, sweep, MaxAttempts)
  /\ bucket' = [bucket EXCEPT ![s] = Attempted(@, read, sweep, MaxAttempts)]
  /\ Leave(t)
  /\ UNCHANGED <<file, cred, manager, memory, row, opened, history>>

-----------------------------------------------------------------------------
(* Building a manager: _create_default_admin and the password file. *)

InFile == file \in Managers
SetCredential(t, pw, from) ==
  cred' = [cred EXCEPT ![thread[t].mgr] = [pw |-> pw, from |-> from]]

(* _resolve_admin_password: the persisted password, or a random candidate. *)
ResolvePassword(t) ==
  /\ At(t, "resolve")
  /\ \/ InFile /\ SetCredential(t, file, "file") /\ Goto(t, "install")
     \/ ~InFile /\ UNCHANGED cred /\ Goto(t, "claim")
  /\ UNCHANGED <<file, manager, memory, row, bucket, opened, history>>

\* Mutant: without O_EXCL the file of another service is truncated.
ClaimAnyway(t) ==
  /\ At(t, "claim")
  /\ file' = "empty" /\ UNCHANGED cred /\ Goto(t, "write")
  /\ UNCHANGED <<manager, memory, row, bucket, opened, history>>

(* _persist_admin_password: O_EXCL makes one thread of one service the
   creator; another reads what is there, and finds nothing while the creator
   has not written yet or if it never does.  Any OSError leaves the candidate. *)
ClaimPasswordFile(t) ==
  /\ At(t, "claim")
  /\ \/ /\ file = "absent" /\ file' = "empty"
        /\ UNCHANGED cred /\ Goto(t, "write")
     \/ /\ InFile /\ SetCredential(t, file, "file")
        /\ UNCHANGED file /\ Goto(t, "install")
     \/ /\ SetCredential(t, thread[t].mgr, "own")
        /\ UNCHANGED file /\ Goto(t, "install")
  /\ UNCHANGED <<manager, memory, row, bucket, opened, history>>

WritePassword(t) ==
  LET m == thread[t].mgr IN
  /\ At(t, "write")
  /\ \/ file' = m /\ SetCredential(t, m, "file")
     \/ UNCHANGED file /\ SetCredential(t, m, "own")
  /\ Goto(t, "install")
  /\ UNCHANGED <<manager, memory, row, bucket, opened, history>>

(* The global is assigned, over the manager of a thread that was faster ... *)
InstallManager(t) ==
  /\ At(t, "install")
  /\ manager' = [manager EXCEPT ![Home(t)] = thread[t].mgr]
  /\ Goto(t, "return")
  /\ UNCHANGED <<file, cred, memory, row, bucket, opened, history>>

(* ... and read again to be returned: it may be another thread's by now. *)
ReturnManager(t) ==
  /\ At(t, "return")
  /\ thread' = [thread EXCEPT ![t].mgr = manager[Home(t)], ![t].step = Use(thread[t].tok)]
  /\ UNCHANGED <<server, history>>

-----------------------------------------------------------------------------
(* Authenticating and mirroring. *)

Expired(k) == memory[k] <= now

\* cleanup_expired_sessions
ExpiredSessions(m) == {k \in TokensOf(m): Expired(k)}

(* The cleanup iterates over a dict, and deletes from it, while other threads
   do the same: it may stop half-way with a RuntimeError or a KeyError.     *)
CleanupFails(t) == \E u \in Threads \ {t}: Home(u) = Home(t) /\ ~At(u, "idle")

\* The session is in the manager, but the login is answered with 500.
AuthenticateFails(t, k) ==
  /\ CleanupFails(t)
  /\ \E gone \in SUBSET ExpiredSessions(thread[t].mgr):
       memory' = [j \in Tokens |-> IF j = k THEN now + TTL
                                  ELSE IF j \in gone THEN 0 ELSE memory[j]]
  /\ Leave(t)
  /\ UNCHANGED <<bucket, tries>>

(* authenticate; every 64th login sweeps.  Then the limiter forgets the
   client's attempts.  The results service answers now.                     *)
AuthenticateSucceeds(t, k) ==
  LET s == Home(t) IN
  /\ \E gone \in {{}, ExpiredSessions(thread[t].mgr)}:
       memory' = [j \in Tokens |-> IF j = k THEN now + TTL
                                  ELSE IF j \in gone THEN 0 ELSE memory[j]]
  /\ bucket' = [bucket EXCEPT ![s] = <<>>]
  /\ tries' = [tries EXCEPT ![s] = <<>>]
  /\ IF Kind(s) = "results" THEN Leave(t)
     ELSE thread' = [thread EXCEPT ![t].step = "mirror", ![t].tok = k]

Authenticate(t) ==
  LET s == Home(t)  m == thread[t].mgr IN
  /\ At(t, "authenticate")
  /\ now + TTL <= MaxExpiry
  /\ \E k \in Tokens:
       /\ issued[k] = Nothing
       /\ \/ /\ AuthenticateSucceeds(t, k)
             /\ issued' = [issued EXCEPT ![k] =
                  [svc |-> s, mgr |-> m, exp |-> now + TTL,
                   told |-> Kind(s) = "results", mirrored |-> FALSE]]
          \/ /\ AuthenticateFails(t, k)
             /\ issued' = [issued EXCEPT ![k] =
                  [svc |-> s, mgr |-> m, exp |-> now + TTL,
                   told |-> FALSE, mirrored |-> FALSE]]
  /\ UNCHANGED <<file, cred, manager, row, opened, overdue>>

(* A wrong name or password: 401, and the attempt stays in the bucket. *)
AuthenticateRefused(t) ==
  /\ At(t, "authenticate")
  /\ Leave(t)
  /\ UNCHANGED <<server, history>>

\* Mutant: the cache service answers like the catalog when the mirror fails.
MirrorFailsSilently(t) ==
  LET k == thread[t].tok IN
  /\ At(t, "mirror")
  /\ issued' = [issued EXCEPT ![k].told = TRUE, ![k].mirrored = Kind(Home(t)) = "cache"]
  /\ Ends(t)
  /\ Leave(t)
  /\ UNCHANGED <<file, cred, manager, memory, row, bucket, tries, overdue>>

Mirrored(t) == /\ row' = [row EXCEPT ![thread[t].tok] = issued[thread[t].tok].exp]
               /\ issued' = [issued EXCEPT ![thread[t].tok].told = TRUE,
                                           ![thread[t].tok].mirrored = TRUE]
               /\ Leave(t)
               /\ UNCHANGED <<file, cred, manager, memory, bucket, tries, overdue>>

(* _mirror_session_for_login writes the session to the catalog's table and
   commits, on PostgreSQL whatever transaction the thread had open ...       *)
MirrorInCatalog(t) ==
  /\ At(t, "mirror") /\ Kind(Home(t)) = "catalog"
  /\ Mirrored(t)
  /\ Ends(t)

(* ... and mirror_session to the cache service's. *)
MirrorInCache(t) ==
  /\ At(t, "mirror") /\ Kind(Home(t)) = "cache"
  /\ Mirrored(t)
  /\ UNCHANGED opened

(* The database is locked or gone.  The catalog logs a warning and hands the
   token out, the cache service answers 500.                                *)
MirrorFails(t) ==
  LET k == thread[t].tok IN
  /\ At(t, "mirror")
  /\ issued' = [issued EXCEPT ![k].told = Kind(Home(t)) = "catalog"]
  /\ Ends(t)
  /\ Leave(t)
  /\ UNCHANGED <<file, cred, manager, memory, row, bucket, tries, overdue>>

-----------------------------------------------------------------------------
(* Presenting a token. *)

\* The check is passed; the history notes a token that had expired.
Accept(t, k) ==
  overdue' = IF issued[k].exp > now THEN overdue
             ELSE overdue \cup {[tok |-> k, began |-> TransactionTime(t), exp |-> issued[k].exp]}

(* _check_session: is_valid AND expires_at > now, for either notion of now. *)
AcceptedBySQLite(k) == row[k] > now
AcceptedByPostgreSQL(t, k) == row[k] > TransactionTime(t)
RowAccepted(t, k) == IF OnPG(Home(t)) THEN AcceptedByPostgreSQL(t, k) ELSE AcceptedBySQLite(k)

\* A request with a token of this service that a client has been given.
Presents(t, k, kind) == /\ At(t, "idle")
                        /\ Kind(Home(t)) = kind
                        /\ k \in OfService(Home(t)) /\ issued[k].told

(* The cache service asks its table once and goes on. *)
CheckCacheSession(t, k) ==
  /\ Presents(t, k, "cache")
  /\ IF RowAccepted(t, k) THEN Accept(t, k) ELSE UNCHANGED overdue
  /\ UNCHANGED <<server, thread, issued, tries>>

(* can_run_simulation asks for the session, then for its privileges. *)
CheckCatalogSession(t, k) ==
  /\ Presents(t, k, "catalog")
  /\ IF RowAccepted(t, k)
     THEN thread' = [thread EXCEPT ![t].step = "confirm", ![t].tok = k]
     ELSE UNCHANGED thread
  /\ Opens(t)
  /\ UNCHANGED <<file, cred, manager, memory, row, bucket, history>>

(* check_session of the results service asks the manager of the process. *)
CheckResultsSession(t, k) ==
  /\ Presents(t, k, "results")
  /\ EnterManager(t, k)
  /\ UNCHANGED <<server, history>>

(* get_session of the manager the thread holds: absent, expired, or valid. *)
GetSession(t) ==
  LET k == thread[t].tok
      found == k \in TokensOf(thread[t].mgr)
  IN  /\ At(t, "lookup")
      /\ \/ ~found /\ Leave(t)
         \/ found /\ Expired(k) /\ Goto(t, "evict")
         \/ found /\ ~Expired(k) /\ Goto(t, "confirm")
      /\ UNCHANGED <<server, history>>

(* del self._sessions[session_id]: 401, or a KeyError and 500 when another
   thread has deleted it in between.                                        *)
EvictSession(t) ==
  /\ At(t, "evict")
  /\ memory' = [memory EXCEPT ![thread[t].tok] = 0]
  /\ Leave(t)
  /\ UNCHANGED <<file, cred, manager, row, bucket, opened, history>>

\* Mutant: check_session trusts the session it was given.
ConfirmResultsUnchecked(t) ==
  /\ At(t, "confirm") /\ Kind(Home(t)) = "results"
  /\ Accept(t, thread[t].tok)
  /\ Leave(t)
  /\ UNCHANGED <<server, issued, tries>>

(* is_valid() of the session object get_session returned *)
ConfirmResults(t) ==
  LET k == thread[t].tok IN
  /\ At(t, "confirm") /\ Kind(Home(t)) = "results"
  /\ IF issued[k].exp > now THEN Accept(t, k) ELSE UNCHANGED overdue
  /\ Leave(t)
  /\ UNCHANGED <<server, issued, tries>>

(* _check_privilege, 403 if the row is not accepted any more; the request
   ends the transaction unless it only reads.                               *)
ConfirmCatalog(t) ==
  LET k == thread[t].tok IN
  /\ At(t, "confirm") /\ Kind(Home(t)) = "catalog"
  /\ \/ RowAccepted(t, k) /\ Accept(t, k) /\ (Opens(t) \/ Ends(t))
     \/ ~RowAccepted(t, k) /\ UNCHANGED overdue /\ Opens(t)
  /\ Leave(t)
  /\ UNCHANGED <<file, cred, manager, memory, row, bucket, issued, tries>>

\* UPDATE sessions SET expires_at = expires_at + 24 hours
Extended(k) == /\ row[k] + TTL <= MaxExpiry
               /\ row' = [row EXCEPT ![k] = @ + TTL]
               /\ issued' = [issued EXCEPT ![k].exp = row[k] + TTL]

\* Mutant: the update does not ask whether the row has expired.
RefreshAny(t, k) ==
  /\ Presents(t, k, "catalog")
  /\ row[k] > 0 /\ Extended(k)
  /\ Ends(t)
  /\ UNCHANGED <<file, cred, manager, memory, bucket, thread, tries, overdue>>

(* refresh_session extends a row that is accepted now, else it answers 404;
   either way the transaction ends.                                         *)
RefreshSession(t, k) ==
  /\ Presents(t, k, "catalog")
  /\ \/ RowAccepted(t, k) /\ Extended(k)
     \/ ~RowAccepted(t, k) /\ UNCHANGED <<row, issued>>
  /\ Ends(t)
  /\ UNCHANGED <<file, cred, manager, memory, bucket, thread, tries, overdue>>

-----------------------------------------------------------------------------
(* Time and crashes. *)

Tick == /\ now < MaxNow
        /\ now' = now + 1
        /\ UNCHANGED <<deployment, server, thread, restarts, history>>

(* The process dies, with what it had in memory and what its threads were
   doing, and is started again.                                             *)
Restart(s) ==
  /\ restarts < deployment.crashes
  /\ restarts' = restarts + 1
  /\ manager' = [manager EXCEPT ![s] = Nothing]
  /\ memory' = [k \in Tokens |-> IF k \in OfService(s) THEN 0 ELSE memory[k]]
  /\ bucket' = [bucket EXCEPT ![s] = <<>>]
  /\ tries' = [tries EXCEPT ![s] = <<>>]
  /\ opened' = [t \in Threads |-> IF Home(t) = s THEN Nothing ELSE opened[t]]
  /\ thread' = [t \in Threads |-> IF Home(t) = s THEN Idle ELSE thread[t]]
  /\ UNCHANGED <<deployment, now, file, cred, row, issued, overdue>>

Request(t) == \/ \E sweep \in BOOLEAN: LoginAllowed(t, sweep) \/ LoginThrottled(t, sweep)
              \/ ReadClock(t)
              \/ ResolvePassword(t) \/ ClaimPasswordFile(t) \/ WritePassword(t)
              \/ InstallManager(t) \/ ReturnManager(t)
              \/ Authenticate(t) \/ AuthenticateRefused(t)
              \/ MirrorInCatalog(t) \/ MirrorInCache(t) \/ MirrorFails(t)
              \/ \E k \in Tokens: \/ CheckCacheSession(t, k) \/ CheckCatalogSession(t, k)
                                   \/ CheckResultsSession(t, k) \/ RefreshSession(t, k)
              \/ GetSession(t) \/ EvictSession(t)
              \/ ConfirmResults(t) \/ ConfirmCatalog(t)

Next == \/ /\ \E t \in Threads: Request(t)
           /\ UNCHANGED <<deployment, now, restarts>>
        \/ Tick
        \/ \E s \in Services: Restart(s)

Spec == Init /\ [][Next]_vars

-----------------------------------------------------------------------------
(* Properties. *)

(* Every manager that believes its admin password to be the shared one - it
   read it from the file, or created the file and wrote it - has the password
   that is in the file, whatever other services, threads and crashes do
   between the creation of the file and its writing.                        *)
SharedCredential ==
  \A m \in Managers:
    cred[m] # Nothing /\ cred[m].from = "file" => cred[m].pw = file

(* A token handed out by the cache service, or by the catalog when the mirror
   was written, is accepted until the expiry its client was told, through
   restarts and refreshes; one of the results service while the manager that
   made it is the process's.                                                *)
IssuedTokensAccepted ==
  \A k \in Tokens:
    /\ issued[k] # Nothing
    /\ issued[k].told
    /\ now < issued[k].exp
    => CASE Kind(issued[k].svc) = "cache"   -> row[k] >= issued[k].exp
         [] Kind(issued[k].svc) = "catalog" -> issued[k].mirrored => row[k] >= issued[k].exp
         [] Kind(issued[k].svc) = "results" ->
              issued[k].mgr = manager[issued[k].svc] => memory[k] >= issued[k].exp

(* A request is served for an expired token only by the catalog, by a thread
   whose PostgreSQL transaction began before the token expired.              *)
ExpiredRefused ==
  \A o \in overdue: LET s == issued[o.tok].svc
                    IN  Kind(s) = "catalog" /\ OnPG(s) /\ o.began < o.exp

(* No step gives an expired session time again, except a refresh in such an
   old transaction.                                                         *)
ExpiredStaysExpired ==
  [][\A k \in Tokens:
       (issued[k] # Nothing /\ row[k] > 0 /\ row[k] <= now /\ row'[k] > row[k])
       => \E t \in Threads: OnPG(Home(t)) /\ opened[t] # Nothing /\ opened[t] < row[k]]_vars

\* How long an attempt was held up between the clock and the lock.
HeldUp(a) == a.let - a.read

(* Of the attempts of a client since its last success, no more than MaxAttempts
   are let through in any window however it lies, with pruning and sweeps in
   between - where the window is shorter than the configured one by no more
   than the time that one of them was held up: of MaxAttempts + 1 the last
   comes later than that after the first.                                   *)
LimiterHolds == \A s \in Services: \A i, j \in DOMAIN tries[s]:
  j = i + MaxAttempts =>
    \E l \in i..(j - 1): tries[s][i].let + Window < tries[s][j].let + HeldUp(tries[s][l])
=============================================================================
