----------------------------- MODULE RunRecord ------------------------------
(***************************************************************************)
(* RunDatabase: the SQLite file of one run, with the processes that write  *)
(* it, each through a connection of its own, and the results service that  *)
(* introspects it.                                                         *)
(*                                                                         *)
(* Every call is one or two statements and a commit.  Python begins a      *)
(* transaction before the first INSERT or UPDATE and ends it at the        *)
(* commit; no call rolls back.  A call that raises therefore leaves its    *)
(* connection in the transaction, with the locks SQLite gave it.           *)
(***************************************************************************)
EXTENDS Naturals, Sequences, FiniteSets, SequencesExt

CONSTANTS Writers,     \* the connections that may write
          Names,       \* of inputs and outputs
          Tags,
          Tables,      \* the append-only tables in use, of LogTables
          MaxCalls,    \* bound: calls made
          None

LogTables == {"artifacts", "logs", "cell_executions", "metrics", "resource_usage"}
Statuses == {"running", "completed", "failed", "cached"}

\* The parameters of a run are the keys of a dict.
ASSUME RunRecordAssumption == /\ IsFiniteSet(Names)
                              /\ Tables \subseteq LogTables
                              /\ MaxCalls \in Nat
                              /\ Tags \cap (LogTables \cup {"null", "unserialisable"}) = {}
                              /\ None \notin Statuses

VARIABLES
  disk,     \* what is committed
  conn,     \* conn[w]: None, or the connection w has open
  agenda,   \* agenda[w]: the steps w's call has still to do: statements, commits
  failed,   \* failed[w]: the last write call of w raised (or logged an error)
  calls,    \* calls made
  acked,    \* history: parameters saved, and number of rows appended to each
            \* table, by calls that returned
  unsure,   \* history: number of rows whose call raised at its commit
  service,  \* the results service: "idle", or "empty" once introspect_run has
            \* found no parameter
  results   \* the statuses it has registered

recordVars == <<disk, conn, agenda, failed, calls, acked, unsure, service, results>>

Params == {"inputs", "outputs"} \X Names
Contents == [meta: Statuses \cup {None}, params: SUBSET Params,
             rows: [Tables -> Nat], tags: SUBSET Tags, links: SUBSET Tags]
Locks == {"none", "shared", "reserved", "pending"}
\* image: the contents as the open transaction has changed them.
\* kept: FALSE while _create_run_database may still drop the connection.
Connection == [tx: BOOLEAN, lock: Locks, image: Contents \cup {None}, kept: BOOLEAN]
Step == [into: {"meta", "status", "params", "rows", "tags", "links", "nothing", "commit"},
              what: Statuses \cup Params \cup Tables \cup Tags \cup {"null", "unserialisable"}]

ASSUME NotKept == /\ None \notin Contents /\ None \notin Connection
                  /\ Params \cap (Tags \cup LogTables \cup Statuses) = {}

RecordTypeOK ==
  /\ disk \in Contents
  /\ conn \in [Writers -> Connection \cup {None}]
  /\ agenda \in [Writers -> Seq(Step)]
  /\ failed \in [Writers -> BOOLEAN]
  /\ calls \in 0..MaxCalls
  /\ acked \in [params: SUBSET Params, rows: [Tables -> Nat]]
  /\ unsure \in [Tables -> Nat]
  /\ service \in {"idle", "empty"}
  /\ results \subseteq Statuses

Blank == [meta |-> None, params |-> {}, rows |-> [t \in Tables |-> 0],
          tags |-> {}, links |-> {}]
Fresh == [tx |-> FALSE, lock |-> "none", image |-> None, kept |-> TRUE]

RecordInit ==
  /\ disk = Blank
  /\ conn = [w \in Writers |-> None]
  /\ agenda = [w \in Writers |-> <<>>]
  /\ failed = [w \in Writers |-> FALSE]
  /\ calls = 0
  /\ acked = [params |-> {}, rows |-> [t \in Tables |-> 0]]
  /\ unsure = [t \in Tables |-> 0]
  /\ service = "idle"
  /\ results = {}

-----------------------------------------------------------------------------
(* The calls of RunDatabase, as the steps they are. *)

Into(table, what) == [into |-> table, what |-> what]
Committed(table, what) == <<Into(table, what), Into("commit", what)>>
Null == <<Into("nothing", "null")>>                      \* a NOT NULL column left out
Unserialisable == <<Into("nothing", "unserialisable")>>  \* json.dumps raises

\* An INSERT into table t; a table with a required column may refuse it.
InsertRow(t, required) == IF t \notin Tables THEN {}
                       ELSE {Committed("rows", t)} \cup (IF required THEN {Null} ELSE {})

SaveArtifact == InsertRow("artifacts", TRUE)
Log == InsertRow("logs", TRUE)
LogCellExecution == InsertRow("cell_executions", TRUE)
SaveMetric == InsertRow("metrics", TRUE)
SaveResourceUsage == InsertRow("resource_usage", FALSE)
SaveInput == {Committed("params", <<"inputs", n>>): n \in Names} \cup {Unserialisable}
SaveOutput == {Committed("params", <<"outputs", n>>): n \in Names} \cup {Unserialisable}
InitializeRun == {Committed("meta", "running")}
CompleteRun == {Committed("status", s): s \in Statuses \ {"running"}}

AddTag(tag) == <<Into("tags", tag), Into("links", tag), Into("commit", tag)>>

RunDatabaseCalls ==
  SaveArtifact \cup Log \cup LogCellExecution \cup SaveMetric \cup SaveResourceUsage
  \cup SaveInput \cup SaveOutput \cup InitializeRun \cup CompleteRun
  \cup {AddTag(tag): tag \in Tags}

\* The mixin saves the parameters in the order of their dict, one call each, until
\* one raises.
Each(table) ==
  {[k \in 1..2 * Len(p) |-> Committed("params", <<table, p[(k + 1) \div 2]>>)[2 - (k % 2)]]:
     p \in SetToSeqs(Names) \ {<<>>}}
SaveInputsToRunDb == Each("inputs")
SaveOutputsToRunDb == Each("outputs")

\* Mutant: initialize_run replaces the row.
ViolatesReplacing(s, db) == s.what = "null"

\* The execution id is the primary key of run_metadata.
Violates(s, db) == \/ s.what = "null"
                   \/ s.into = "meta" /\ db.meta # None

\* What s makes of the contents db.
Applied(s, db) ==
  CASE s.into = "meta"   -> [db EXCEPT !.meta = s.what]
    [] s.into = "status" -> [db EXCEPT !.meta = IF @ = None THEN None ELSE s.what]
    [] s.into = "params" -> [db EXCEPT !.params = @ \cup {s.what}]
    [] s.into = "rows"   -> [db EXCEPT !.rows[s.what] = @ + 1]
    [] s.into = "tags"   -> [db EXCEPT !.tags = @ \cup {s.what}]
    [] s.into = "links"  -> [db EXCEPT !.links = @ \cup {s.what}]

-----------------------------------------------------------------------------
(* Connections and locks. *)

Open(w) == conn[w] # None
Idle(w) == agenda[w] = <<>>
OtherHolds(w, locks) == \E v \in Writers \ {w}: Open(v) /\ conn[v].lock \in locks
Seen(w) == IF conn[w].image = None THEN disk ELSE conn[w].image
SetConn(w, c) == conn' = [conn EXCEPT ![w] = c]
Advance(w) == agenda' = [agenda EXCEPT ![w] = Tail(@)]

\* The call raises and leaves its connection as c.
Raise(w, c) == /\ SetConn(w, IF c.kept THEN c ELSE None)
               /\ agenda' = [agenda EXCEPT ![w] = <<>>]
               /\ failed' = [failed EXCEPT ![w] = c.kept]

\* _ensure_initialized: an established schema is only looked at, which a commit
\* that is waiting refuses.
Connect(w) ==
  /\ ~Open(w) /\ ~OtherHolds(w, {"pending"})
  /\ SetConn(w, Fresh)
  /\ UNCHANGED <<disk, agenda, failed, calls, acked, unsure, service, results>>

\* The mixin's _create_run_database, which gives up the connection if
\* initialize_run raises.
CreateRunDatabase(w) ==
  /\ ~Open(w) /\ ~OtherHolds(w, {"pending"}) /\ calls < MaxCalls
  /\ SetConn(w, [Fresh EXCEPT !.kept = FALSE])
  /\ calls' = calls + 1
  /\ \E todo \in InitializeRun: agenda' = [agenda EXCEPT ![w] = todo]
  /\ UNCHANGED <<disk, failed, acked, unsure, service, results>>

\* close, the end of a with block or the end of the process: SQLite rolls back.
Close(w) ==
  /\ Open(w)
  /\ SetConn(w, None)
  /\ agenda' = [agenda EXCEPT ![w] = <<>>]
  /\ failed' = [failed EXCEPT ![w] = FALSE]
  /\ UNCHANGED <<disk, calls, acked, unsure, service, results>>

Call(w) ==
  /\ Open(w) /\ Idle(w) /\ calls < MaxCalls
  /\ calls' = calls + 1
  /\ \E todo \in RunDatabaseCalls \cup SaveInputsToRunDb \cup SaveOutputsToRunDb:
       agenda' = [agenda EXCEPT ![w] = todo]
  /\ failed' = [failed EXCEPT ![w] = FALSE]
  /\ UNCHANGED <<disk, conn, acked, unsure, service, results>>

Serialise(w) ==
  /\ ~Idle(w) /\ Head(agenda[w]).what = "unserialisable"
  /\ Raise(w, conn[w])
  /\ UNCHANGED <<disk, calls, acked, unsure, service, results>>

AtStatement(w) == /\ ~Idle(w) /\ Head(agenda[w]).into # "commit"
                  /\ Head(agenda[w]).what # "unserialisable"

\* A statement, whose transaction has begun and has the write lock either way.
Execute(w) ==
  /\ AtStatement(w) /\ ~OtherHolds(w, {"reserved", "pending"})
  /\ LET s == Head(agenda[w])
         begun == [conn[w] EXCEPT !.tx = TRUE, !.image = Seen(w),
                                  !.lock = IF @ = "pending" THEN @ ELSE "reserved"]
     IN IF Violates(s, Seen(w)) THEN Raise(w, begun)
        ELSE /\ SetConn(w, [begun EXCEPT !.image = Applied(s, @)])
             /\ Advance(w)
             /\ UNCHANGED failed
  /\ UNCHANGED <<disk, calls, acked, unsure, service, results>>

\* The busy timeout passes; the transaction has begun all the same.
ExecuteTimesOut(w) ==
  /\ AtStatement(w) /\ OtherHolds(w, {"reserved", "pending"})
  /\ Raise(w, [conn[w] EXCEPT !.tx = TRUE])
  /\ UNCHANGED <<disk, calls, acked, unsure, service, results>>

AtCommit(w) == ~Idle(w) /\ Head(agenda[w]).into = "commit"
Counted(rows, what) == IF what \in Tables THEN [rows EXCEPT ![what] = @ + 1] ELSE rows
Acknowledged(what) == [params |-> acked.params \cup ({what} \cap Params),
                       rows |-> Counted(acked.rows, what)]

\* Mutant: the call rolls back where it should commit.
CommitRollsBack(w) ==
  /\ AtCommit(w) /\ ~OtherHolds(w, Locks \ {"none"})
  /\ SetConn(w, Fresh)
  /\ acked' = Acknowledged(Head(agenda[w]).what)
  /\ Advance(w)
  /\ UNCHANGED <<disk, failed, calls, unsure, service, results>>

\* Mutant: autocommit=False, which begins the next transaction at once.
CommitBegins(w) ==
  /\ AtCommit(w) /\ ~OtherHolds(w, Locks \ {"none"})
  /\ disk' = conn[w].image
  /\ SetConn(w, [Fresh EXCEPT !.tx = TRUE])
  /\ acked' = Acknowledged(Head(agenda[w]).what)
  /\ Advance(w)
  /\ UNCHANGED <<failed, calls, unsure, service, results>>

Commit(w) ==
  /\ AtCommit(w) /\ ~OtherHolds(w, Locks \ {"none"})
  /\ disk' = conn[w].image
  /\ SetConn(w, Fresh)
  /\ acked' = Acknowledged(Head(agenda[w]).what)
  /\ Advance(w)
  /\ UNCHANGED <<failed, calls, unsure, service, results>>

\* A reader does not end within the busy timeout: the commit raises, and what it
\* was to commit waits for the next commit of the connection, or its end.
CommitTimesOut(w) ==
  /\ AtCommit(w) /\ OtherHolds(w, {"shared"})
  /\ Raise(w, [conn[w] EXCEPT !.lock = "pending"])
  /\ unsure' = Counted(unsure, Head(agenda[w]).what)
  /\ UNCHANGED <<disk, calls, acked, service, results>>

\* get_summary, get_inputs and the others: in a transaction that a failed call
\* left open, the read lock stays.
Read(w) ==
  /\ Open(w) /\ Idle(w) /\ conn[w].tx /\ conn[w].lock = "none"
  /\ ~OtherHolds(w, {"pending"})
  /\ SetConn(w, [conn[w] EXCEPT !.lock = "shared"])
  /\ UNCHANGED <<disk, agenda, failed, calls, acked, unsure, service, results>>

-----------------------------------------------------------------------------
(* POST /register of the results service, on connections of its own. *)

Readable == \A w \in Writers: Open(w) => conn[w].lock # "pending"

\* introspect_run raises at the first parameter, and finds none otherwise.
IntrospectRun ==
  /\ service = "idle" /\ Readable /\ disk.params = {}
  /\ service' = "empty"
  /\ UNCHANGED <<disk, conn, agenda, failed, calls, acked, unsure, results>>

\* The summary is read again, and later; without one, or with a file that cannot be
\* read, the request fails.
RegisterRun ==
  /\ service = "empty"
  /\ service' = "idle"
  /\ results' = IF Readable /\ disk.meta # None THEN results \cup {disk.meta} ELSE results
  /\ UNCHANGED <<disk, conn, agenda, failed, calls, acked, unsure>>

RecordNext ==
  \/ \E w \in Writers: \/ Connect(w) \/ CreateRunDatabase(w) \/ Close(w) \/ Call(w)
                       \/ Serialise(w) \/ Execute(w) \/ ExecuteTimesOut(w)
                       \/ Commit(w) \/ CommitTimesOut(w) \/ Read(w)
  \/ IntrospectRun \/ RegisterRun

RecordSpec == RecordInit /\ [][RecordNext]_recordVars

-----------------------------------------------------------------------------
(* What a call that returned has saved is in the file, whatever processes end  *)
(* at and whichever connections fail; and no table has a row but of a call     *)
(* that returned or that raised at its commit, each row once.                  *)
AckedSaved ==
  /\ acked.params \subseteq disk.params
  /\ \A t \in Tables: /\ acked.rows[t] <= disk.rows[t]
                     /\ disk.rows[t] <= acked.rows[t] + unsure[t]

(* A connection between calls is in a transaction, with the locks that keep    *)
(* the other writers out, only if its last call raised; no call rolls back.    *)
(* A writer whose calls all return never stands in another's way.              *)
LocksOfFailuresOnly ==
  \A w \in Writers: Open(w) /\ Idle(w) /\ (conn[w].tx \/ conn[w].lock # "none") => failed[w]

(* Whatever the results service has registered of a run that had ended, the    *)
(* run has not begun again, for all the retries of initialize_run.             *)
RegisteredEndStands == results \ {"running"} # {} => disk.meta \notin {"running", None}
=============================================================================
