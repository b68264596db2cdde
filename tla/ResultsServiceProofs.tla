------------------------ MODULE ResultsServiceProofs ------------------------
(***************************************************************************)
(* Proofs about ResultsService, for any number of executions, handler      *)
(* threads, parameters and types, and for both backends.                   *)
(*                                                                         *)
(* Between its transactions a registration holds what the other threads do *)
(* not see.  SchemaSeen says what one that is about to write its result    *)
(* knows about the schema, SquidOfInputs that no request and no row holds  *)
(* the squid id of other inputs, which is why a row that an INSERT finds   *)
(* by squid id has the inputs of the execution whose outputs it takes; and *)
(* Tidy what a SQLite connection may be in, so long as no request has      *)
(* ended with its last write refused: between requests, nothing.           *)
(***************************************************************************)
EXTENDS ResultsService, TLAPS

SchemaSeen == \A t \in Threads:
  req[t] # None /\ req[t].step = "result" => schema # None

SquidOfInputs ==
  /\ \A t \in Threads: req[t] # None => req[t].squid \in {Blank, InputOf[req[t].exec]}
  /\ \A e \in Execs: rows[e] # None => rows[e].squid \in {None, InputOf[e]}

Tidy == backend = "sqlite" => \A t \in Threads:
  /\ conn[t] # "aborted"
  /\ ~refused => \/ conn[t] = "idle"
                 \/ /\ conn[t] \in {"open", "begun"}
                    /\ req[t] # None /\ req[t].step = "error"

Inv == /\ TypeOK /\ SchemaSeen /\ SquidOfInputs /\ Tidy
       /\ RowsHaveSchema /\ OutputsMatchInputs /\ OneRowPerSquid

-----------------------------------------------------------------------------
LEMMA InitInv == Init => Inv
BY DEF Init, Inv, TypeOK, Conns, SchemaSeen, SquidOfInputs, Tidy, RowsHaveSchema,
       OutputsMatchInputs, OneRowPerSquid

LEMMA EmptyType == Empty \in Shapes
BY DEF Empty, Shapes

\* What the merge returns is a schema.
LEMMA MergedType == ASSUME NEW s \in Shapes \cup {None}, NEW d \in Shapes
                    PROVE  Merged(s, d) \in Shapes
<1>1. CASE s = None
  BY <1>1 DEF Merged
<1>2. CASE s # None
  BY <1>2 DEF Merged, Shapes
<1> QED BY <1>1, <1>2

\* What Begin writes.
LEMMA BeginType ==
  ASSUME TypeOK, NEW t \in Threads, NEW route \in {"/register", "/register_direct"},
         NEW e \in Execs, NEW s \in Inputs \cup {Blank},
         NEW flaw \in SUBSET {"schema", "result", "error"},
         NEW step \in {"schema", "result", "error"},
         NEW d \in Shapes, NEW seen \in Shapes \cup {None},
         Begin(t, route, e, s, flaw, step, d, seen)
  PROVE  /\ UNCHANGED <<schema, rows, errors, refused>>
         /\ req[t] = None
         /\ \A u \in Threads \ {t}: req'[u] = req[u]
         /\ req' \in [Threads -> Reqs \cup {None}] /\ req'[t] \in Reqs
         /\ req'[t].squid = s /\ req'[t].exec = e /\ req'[t].step = step
<1> DEFINE f == IF step = "error" THEN flaw \cap {"error"} ELSE flaw
           dd == IF step = "schema" THEN d ELSE Empty
           ss == IF step = "schema" THEN seen ELSE None
           r == [route |-> route, exec |-> e, squid |-> s, step |-> step, flaw |-> f,
                 delta |-> dd, seen |-> ss]
<1>1. f \in SUBSET {"schema", "result", "error"} /\ dd \in Shapes /\ ss \in Shapes \cup {None}
  BY EmptyType
<1>2. req' = [req EXCEPT ![t] = r]
  BY Zenon DEF Begin
<1> HIDE DEF f, dd, ss
<1>3. r \in Reqs
  BY <1>1 DEF Reqs
<1>4. r.squid = s /\ r.exec = e /\ r.step = step
  OBVIOUS
<1> HIDE DEF r
<1>5. req \in [Threads -> Reqs \cup {None}]
  BY DEF TypeOK
<1>6. req' \in [Threads -> Reqs \cup {None}] /\ req'[t] = r
      /\ \A u \in Threads \ {t}: req'[u] = req[u]
  BY <1>2, <1>3, <1>5
<1> QED BY <1>3, <1>4, <1>6 DEF Begin, data

\* What a thread that begins a registration will have seen and holds.
LEMMA Begins ==
  ASSUME TypeOK, SquidOfInputs, NEW t \in Threads, RegisterDirect(t) \/ Register(t)
  PROVE  /\ UNCHANGED <<schema, rows, errors, refused>>
         /\ req[t] = None
         /\ \A u \in Threads \ {t}: req'[u] = req[u]
         /\ req' \in [Threads -> Reqs \cup {None}] /\ req'[t] \in Reqs
         /\ req'[t].squid \in {Blank, InputOf[req'[t].exec]}
         /\ req'[t].step = "result" => schema # None
         /\ \/ conn' \in {conn, [conn EXCEPT ![t] = AfterRead(t)]}
            \/ backend # "sqlite" /\ conn' = [conn EXCEPT ![t] = "aborted"]
<1>1. CASE RegisterDirect(t)
  <2> DEFINE Stopped(e, d, flaw, s) ==
        /\ Begin(t, "/register_direct", e, s, flaw \ {"read"}, "error", d, None)
        /\ conn' \in {conn} \cup {[conn EXCEPT ![t] = "aborted"]:
                                  b \in {"postgresql"} \cap {backend}}
             WentOn(e, d, flaw, s) ==
        /\ IF "schema" \in flaw
           THEN Begin(t, "/register_direct", e, s, flaw, "schema", Empty, None)
           ELSE Begin(t, "/register_direct", e, s, flaw,
                      IF SchemaChanged(schema, Merged(schema, d))
                      THEN "schema" ELSE "result", d, schema)
        /\ conn' = [conn EXCEPT ![t] = AfterRead(t)]
  <2>0. \E e \in load.execs, d \in Shapes, flaw \in DirectFlaws: \E s \in {Blank, InputOf[e]}:
          IF "read" \in flaw \/ conn[t] = "aborted"
          THEN Stopped(e, d, flaw, s) ELSE WentOn(e, d, flaw, s)
    BY <1>1, Zenon DEF RegisterDirect
  <2> HIDE DEF Stopped, WentOn
  <2>a. PICK e \in load.execs, d \in Shapes, flaw \in DirectFlaws: \E s \in {Blank, InputOf[e]}:
          IF "read" \in flaw \/ conn[t] = "aborted"
          THEN Stopped(e, d, flaw, s) ELSE WentOn(e, d, flaw, s)
    BY <2>0
  <2>b. e \in Execs /\ flaw \in Flaws \ {{"entry"}}
    BY KnownLoads DEF TypeOK, DirectFlaws
  <2>1. PICK s \in {Blank, InputOf[e]}:
          IF "read" \in flaw \/ conn[t] = "aborted"
          THEN Stopped(e, d, flaw, s) ELSE WentOn(e, d, flaw, s)
    BY <2>a
  <2> USE DEF Stopped, WentOn
  <2>2. s \in Inputs \cup {Blank} /\ schema \in Shapes \cup {None}
    BY <2>b, SomeInputs DEF TypeOK
  <2>3. /\ flaw \ {"read"} \in SUBSET {"schema", "result", "error"}
        /\ "read" \notin flaw => flaw \in SUBSET {"schema", "result", "error"}
    BY <2>b DEF Flaws
  <2>4. CASE "read" \in flaw \/ conn[t] = "aborted"
    <3>1. /\ Begin(t, "/register_direct", e, s, flaw \ {"read"}, "error", d, None)
          /\ \/ conn' = conn
             \/ backend # "sqlite" /\ conn' = [conn EXCEPT ![t] = "aborted"]
      BY <2>1, <2>4
    <3> QED BY <2>b, <2>2, <2>3, <3>1, BeginType
  <2>5. ASSUME ~("read" \in flaw \/ conn[t] = "aborted"), "schema" \in flaw
        PROVE  Begin(t, "/register_direct", e, s, flaw, "schema", Empty, None)
    BY <2>1, <2>5
  <2>6. ASSUME ~("read" \in flaw \/ conn[t] = "aborted"), "schema" \notin flaw
        PROVE  \/ Begin(t, "/register_direct", e, s, flaw, "schema", d, schema)
               \/ /\ Begin(t, "/register_direct", e, s, flaw, "result", d, schema)
                  /\ schema = Merged(schema, d)
    BY <2>1, <2>6 DEF SchemaChanged
  <2>7. CASE ~("read" \in flaw \/ conn[t] = "aborted") /\ "schema" \in flaw
    <3>1. conn' = [conn EXCEPT ![t] = AfterRead(t)]
      BY <2>1, <2>7
    <3> QED BY <2>b, <2>2, <2>3, <2>5, <2>7, <3>1, BeginType, EmptyType
  <2>8. CASE ~("read" \in flaw \/ conn[t] = "aborted") /\ "schema" \notin flaw
    <3>1. conn' = [conn EXCEPT ![t] = AfterRead(t)]
      BY <2>1, <2>8
    <3>2. CASE Begin(t, "/register_direct", e, s, flaw, "schema", d, schema)
      BY <2>b, <2>2, <2>3, <2>8, <3>1, <3>2, BeginType
    <3>3. CASE /\ Begin(t, "/register_direct", e, s, flaw, "result", d, schema)
               /\ schema = Merged(schema, d)
      <4>1. schema # None
        BY <2>2, <3>3, MergedType, NoShape
      <4> QED BY <2>b, <2>2, <2>3, <2>8, <3>1, <3>3, <4>1, BeginType
    <3> QED BY <2>6, <2>8, <3>2, <3>3
  <2> QED BY <2>4, <2>7, <2>8
<1>2. CASE Register(t)
  <2>0. load.execs \subseteq Execs /\ RunFlaws \subseteq SUBSET {"result", "error"} /\ conn' = conn
    BY <1>2, KnownLoads DEF RunFlaws, Register, TypeOK
  <2>1. PICK e \in Execs, flaw \in SUBSET {"result", "error"}:
          \/ Begin(t, "/register", e, Blank, flaw, "schema", Empty, None)
          \/ Begin(t, "/register", e, Blank, flaw, "error", Empty, None)
    BY <1>2, <2>0 DEF Register
  <2>2. flaw \in SUBSET {"schema", "result", "error"}
    OBVIOUS
  <2>3. CASE Begin(t, "/register", e, Blank, flaw, "schema", Empty, None)
    BY <2>0, <2>2, <2>3, BeginType, EmptyType
  <2>4. CASE Begin(t, "/register", e, Blank, flaw, "error", Empty, None)
    BY <2>0, <2>2, <2>4, BeginType, EmptyType
  <2> QED BY <2>1, <2>3, <2>4
<1> QED BY <1>1, <1>2

\* What Fail writes.
LEMMA FailType ==
  ASSUME TypeOK, NEW t \in Threads, req[t] # None, Fail(t)
  PROVE  /\ UNCHANGED <<schema, rows, errors, refused>>
         /\ \A u \in Threads \ {t}: req'[u] = req[u]
         /\ req' \in [Threads -> Reqs \cup {None}] /\ req'[t] \in Reqs
         /\ req'[t].squid = req[t].squid /\ req'[t].exec = req[t].exec
         /\ req'[t].step = "error"
<1> DEFINE r == [req[t] EXCEPT !.step = "error", !.delta = Empty, !.seen = None,
                              !.flaw = @ \cap {"error"}]
<1>0. req[t] \in Reqs /\ req \in [Threads -> Reqs \cup {None}]
  BY DEF TypeOK
<1>1. r \in Reqs /\ r.squid = req[t].squid /\ r.exec = req[t].exec /\ r.step = "error"
  BY <1>0, EmptyType DEF Reqs
<1>2. req' = [req EXCEPT ![t] = r]
  BY Zenon DEF Fail
<1> HIDE DEF r
<1>3. req' \in [Threads -> Reqs \cup {None}] /\ req'[t] = r
      /\ \A u \in Threads \ {t}: req'[u] = req[u]
  BY <1>0, <1>1, <1>2
<1> QED BY <1>1, <1>3 DEF Fail, data

\* Committed, and what a refused statement leaves, are connections.
LEMMA ConnType ==
  ASSUME TypeOK, NEW t \in Threads
  PROVE  /\ Committed(t) \in [Threads -> Conns]
         /\ AfterRefusal(t) \subseteq Conns /\ AfterConstraint \in Conns
         /\ Begun(t) \in Conns /\ AfterRead(t) \in Conns
BY DEF TypeOK, Committed, AfterRefusal, AfterConstraint, Begun, AfterRead, Conns

\* A thread whose registration is at a step is carrying one out.
LEMMA Carrying == ASSUME TypeOK, NEW t \in Threads, req[t] # None
                  PROVE  req[t] \in Reqs
BY DEF TypeOK

\* What WriteSchema puts on file is a schema.
LEMMA SchemaWritten == ASSUME TypeOK, NEW t \in Threads, WriteSchema(t)
                       PROVE  schema' \in Shapes
<1>1. req[t] \in Reqs
  BY Carrying DEF WriteSchema
<1> QED BY <1>1, MergedType, EmptyType DEF WriteSchema, Reqs

LEMMA SquidType == ASSUME TypeOK, SquidOfInputs, NEW t \in Threads, req[t] # None
                   PROVE  /\ req[t].exec \in Execs
                          /\ NormalizedSquid(req[t].squid) \in {None, InputOf[req[t].exec]}
BY Carrying DEF SquidOfInputs, NormalizedSquid, Reqs

\* The rows after a result is written: the one inserted, those whose outputs
\* are replaced, and the others.
LEMMA RowWritten ==
  ASSUME TypeOK, SquidOfInputs, NEW t \in Threads, WriteResult(t)
  PROVE  \A x \in Execs: rows'[x] # None =>
           \/ /\ x = req[t].exec /\ Target(req[t].exec, NormalizedSquid(req[t].squid)) = {}
              /\ rows'[x].squid = NormalizedSquid(req[t].squid) /\ rows'[x].by = req[t].exec
           \/ /\ x \in Target(req[t].exec, NormalizedSquid(req[t].squid)) /\ rows[x] # None
              /\ rows'[x].squid = rows[x].squid /\ rows'[x].by = req[t].exec
           \/ rows[x] # None /\ rows'[x] = rows[x]
<1> TAKE x \in Execs
<1> HAVE rows'[x] # None
<1> DEFINE e == req[t].exec
           s == NormalizedSquid(req[t].squid)
<1>1. e \in Execs /\ rows \in [Execs -> Rows \cup {None}]
  BY SquidType DEF WriteResult, TypeOK
<1>2. CASE Target(e, s) = {}
  <2>1. rows' = [rows EXCEPT ![e] = [squid |-> s, by |-> e]]
    BY <1>2 DEF WriteResult
  <2>2. rows'[x] = IF x = e THEN [squid |-> s, by |-> e] ELSE rows[x]
    BY <1>1, <2>1
  <2> QED BY <1>2, <2>2
<1>3. CASE Target(e, s) # {}
  <2>1. rows' = [y \in Execs |-> IF y \in Target(e, s)
                                 THEN [rows[y] EXCEPT !.by = e] ELSE rows[y]]
    BY <1>3 DEF WriteResult
  <2>2. rows'[x] = IF x \in Target(e, s) THEN [rows[x] EXCEPT !.by = e] ELSE rows[x]
    BY <2>1
  <2>3. CASE x \in Target(e, s)
    <3>1. rows[x] # None
      BY <2>3 DEF Target
    <3>2. rows[x] \in Rows
      BY <1>1, <3>1
    <3>3. [rows[x] EXCEPT !.by = e] = [squid |-> rows[x].squid, by |-> e]
      BY <3>2 DEF Rows
    <3> QED BY <2>2, <2>3, <3>1, <3>3
  <2>4. CASE x \notin Target(e, s)
    BY <2>2, <2>4
  <2> QED BY <2>3, <2>4
<1> QED BY <1>2, <1>3

-----------------------------------------------------------------------------
(* The actions in groups: those that go on to the error, those that end a
   registration in it, and the requests that are no registration. *)

LEMMA Failing ==
  ASSUME TypeOK, NEW t \in Threads, SchemaRefused(t) \/ WriteRefused(t) \/ TimedOut(t)
  PROVE  /\ req[t] # None /\ req[t].step \in {"schema", "result"} /\ Fail(t)
         /\ \E c \in Conns: conn' = [conn EXCEPT ![t] = c]
<1>1. CASE SchemaRefused(t)
  BY <1>1, ConnType DEF SchemaRefused, TypeOK
<1>2. CASE WriteRefused(t)
  BY <1>2, ConnType DEF WriteRefused, TypeOK
<1>3. CASE TimedOut(t)
  BY <1>3, ConnType DEF TimedOut, TypeOK
<1> QED BY <1>1, <1>2, <1>3

LEMMA Ending ==
  ASSUME TypeOK, NEW t \in Threads, RecordError(t) \/ ErrorRefused(t)
  PROVE  /\ req[t] # None /\ req[t].step = "error" /\ req' = [req EXCEPT ![t] = None]
         /\ UNCHANGED <<schema, rows>> /\ errors' \in SUBSET Execs
         /\ conn' \in [Threads -> Conns] /\ refused' \in BOOLEAN
<1>1. CASE RecordError(t)
  <2>1. req[t].exec \in Execs
    BY <1>1, Carrying DEF RecordError, Reqs
  <2> QED BY <1>1, <2>1, ConnType DEF RecordError, TypeOK
<1>2. CASE ErrorRefused(t)
  <2>1. conn' = conn \/ \E c \in Conns: conn' = [conn EXCEPT ![t] = c]
    BY <1>2, ConnType DEF ErrorRefused
  <2>2. conn' \in [Threads -> Conns]
    BY <2>1 DEF TypeOK
  <2> QED BY <1>2, <2>2 DEF ErrorRefused, TypeOK, data
<1> QED BY <1>1, <1>2

Other(t) == \/ Read(t) \/ SearchFails(t) \/ DeleteResult(t)
            \/ RecordProvenance(t) \/ OtherRefused(t) \/ ClearAll(t)

LEMMA Others ==
  ASSUME TypeOK, NEW t \in Threads, Other(t)
  PROVE  /\ req[t] = None /\ UNCHANGED <<schema, req>>
         /\ rows' \in [Execs -> Rows \cup {None}] /\ \A x \in Execs: rows'[x] \in {None, rows[x]}
         /\ errors' \in SUBSET Execs
         /\ conn' \in [Threads -> Conns] /\ refused' \in BOOLEAN
<1>1. CASE Read(t)
  BY <1>1, ConnType DEF Read, data, TypeOK
<1>2. CASE SearchFails(t)
  BY <1>2 DEF SearchFails, data, TypeOK, Conns
<1>3. CASE DeleteResult(t)
  BY <1>3, ConnType DEF DeleteResult, TypeOK
<1>4. CASE RecordProvenance(t)
  BY <1>4, ConnType DEF RecordProvenance, data, TypeOK
<1>5. CASE OtherRefused(t)
  <2>1. \E c \in Conns: conn' = [conn EXCEPT ![t] = c]
    BY <1>5, ConnType DEF OtherRefused
  <2>2. conn' \in [Threads -> Conns]
    BY <2>1 DEF TypeOK
  <2> QED BY <1>5, <2>2 DEF OtherRefused, data, TypeOK
<1>6. CASE ClearAll(t)
  BY <1>6, ConnType DEF ClearAll, TypeOK, Conns
<1> QED BY <1>1, <1>2, <1>3, <1>4, <1>5, <1>6 DEF Other

LEMMA Actions ==
  ASSUME Next
  PROVE  /\ UNCHANGED <<backend, load>>
         /\ \E t \in Threads:
              \/ RegisterDirect(t) \/ Register(t)
              \/ WriteSchema(t)
              \/ WriteResult(t)
              \/ SchemaRefused(t) \/ WriteRefused(t) \/ TimedOut(t)
              \/ RecordError(t) \/ ErrorRefused(t)
              \/ Other(t)
BY DEF Next, Other

-----------------------------------------------------------------------------
LEMMA TypeStep == Inv /\ [Next]_vars => TypeOK'
<1> SUFFICES ASSUME Inv, [Next]_vars PROVE TypeOK' OBVIOUS
<1>0. TypeOK /\ SquidOfInputs
  BY DEF Inv
<1>1. ASSUME NEW t \in Threads, RegisterDirect(t) \/ Register(t), UNCHANGED <<backend, load>>
      PROVE  TypeOK'
  <2>1. conn' \in [Threads -> Conns]
    <3>1. AfterRead(t) \in Conns /\ "aborted" \in Conns /\ conn \in [Threads -> Conns]
      BY <1>0, ConnType DEF Conns, TypeOK
    <3>2. conn' \in {conn, [conn EXCEPT ![t] = AfterRead(t)], [conn EXCEPT ![t] = "aborted"]}
      BY <1>0, <1>1, Begins
    <3> QED BY <3>1, <3>2
  <2> QED BY <1>0, <1>1, <2>1, Begins DEF TypeOK
<1>2. ASSUME NEW t \in Threads, WriteSchema(t), UNCHANGED <<backend, load>> PROVE TypeOK'
  <2>1. req[t] \in Reqs
    BY <1>0, <1>2, Carrying DEF WriteSchema
  <2>2. req' \in [Threads -> Reqs \cup {None}]
    BY <1>0, <1>2, <2>1, EmptyType DEF WriteSchema, TypeOK, Reqs
  <2> QED BY <1>0, <1>2, <2>2, SchemaWritten, ConnType DEF WriteSchema, TypeOK
<1>3. ASSUME NEW t \in Threads, WriteResult(t), UNCHANGED <<backend, load>> PROVE TypeOK'
  <2>1. req[t].exec \in Execs
        /\ NormalizedSquid(req[t].squid) \in Inputs \cup {None}
    BY <1>0, <1>3, SquidType, SomeInputs DEF WriteResult
  <2>2. \A x \in Execs: rows'[x] # None => rows'[x] \in Rows
    BY <1>0, <1>3, <2>1 DEF WriteResult, Target, TypeOK, Rows
  <2>3. DOMAIN rows' = Execs
    BY <1>0, <1>3 DEF WriteResult, TypeOK
  <2>4. rows' = [x \in Execs |-> rows'[x]]
    BY <1>0, <1>3 DEF WriteResult, TypeOK
  <2>5. rows' \in [Execs -> Rows \cup {None}]
    BY <2>2, <2>4
  <2> QED BY <1>0, <1>3, <2>5, ConnType DEF WriteResult, TypeOK
<1>4. ASSUME NEW t \in Threads, SchemaRefused(t) \/ WriteRefused(t) \/ TimedOut(t),
             UNCHANGED <<backend, load>>
      PROVE  TypeOK'
  BY <1>0, <1>4, Failing, FailType DEF TypeOK
<1>5. ASSUME NEW t \in Threads, RecordError(t) \/ ErrorRefused(t), UNCHANGED <<backend, load>>
      PROVE  TypeOK'
  BY <1>0, <1>5, Ending DEF TypeOK
<1>6. ASSUME NEW t \in Threads, Other(t), UNCHANGED <<backend, load>> PROVE TypeOK'
  BY <1>0, <1>6, Others DEF TypeOK
<1>7. CASE UNCHANGED vars
  BY <1>0, <1>7 DEF vars, data, TypeOK
<1> QED BY <1>1, <1>2, <1>3, <1>4, <1>5, <1>6, <1>7, Actions

LEMMA SeenStep == Inv /\ [Next]_vars => SchemaSeen' /\ RowsHaveSchema'
<1> SUFFICES ASSUME Inv, [Next]_vars PROVE SchemaSeen' /\ RowsHaveSchema' OBVIOUS
<1>0. TypeOK /\ SquidOfInputs /\ SchemaSeen /\ RowsHaveSchema
  BY DEF Inv
<1>1. ASSUME NEW t \in Threads, RegisterDirect(t) \/ Register(t)
      PROVE  SchemaSeen' /\ RowsHaveSchema'
  BY <1>0, <1>1, Begins DEF SchemaSeen, RowsHaveSchema
<1>2. ASSUME NEW t \in Threads, WriteSchema(t) PROVE SchemaSeen' /\ RowsHaveSchema'
  BY <1>0, <1>2, SchemaWritten, NoShape DEF SchemaSeen, RowsHaveSchema
<1>3. ASSUME NEW t \in Threads, WriteResult(t) PROVE SchemaSeen' /\ RowsHaveSchema'
  BY <1>0, <1>3 DEF WriteResult, SchemaSeen, RowsHaveSchema, TypeOK
<1>4. ASSUME NEW t \in Threads, SchemaRefused(t) \/ WriteRefused(t) \/ TimedOut(t)
      PROVE  SchemaSeen' /\ RowsHaveSchema'
  BY <1>0, <1>4, Failing, FailType DEF SchemaSeen, RowsHaveSchema
<1>5. ASSUME NEW t \in Threads, RecordError(t) \/ ErrorRefused(t)
      PROVE  SchemaSeen' /\ RowsHaveSchema'
  BY <1>0, <1>5, Ending DEF SchemaSeen, RowsHaveSchema, TypeOK
<1>6. ASSUME NEW t \in Threads, Other(t) PROVE SchemaSeen' /\ RowsHaveSchema'
  BY <1>0, <1>6, Others DEF SchemaSeen, RowsHaveSchema
<1>7. CASE UNCHANGED vars
  BY <1>0, <1>7 DEF vars, data, SchemaSeen, RowsHaveSchema
<1> QED BY <1>1, <1>2, <1>3, <1>4, <1>5, <1>6, <1>7, Actions

-----------------------------------------------------------------------------
(* The squid ids. *)

LEMMA SquidStep == Inv /\ [Next]_vars => SquidOfInputs'
<1> SUFFICES ASSUME Inv, [Next]_vars PROVE SquidOfInputs' OBVIOUS
<1>0. TypeOK /\ SquidOfInputs
  BY DEF Inv
<1>1. ASSUME NEW t \in Threads, RegisterDirect(t) \/ Register(t) PROVE SquidOfInputs'
  BY <1>0, <1>1, Begins DEF SquidOfInputs
<1>2. ASSUME NEW t \in Threads, WriteResult(t) PROVE SquidOfInputs'
  <2>1. \A u \in Threads: req'[u] = None \/ req'[u] = req[u]
    BY <1>0, <1>2 DEF WriteResult, TypeOK
  <2>2. NormalizedSquid(req[t].squid) \in {None, InputOf[req[t].exec]}
    BY <1>0, <1>2, SquidType DEF WriteResult
  <2>3. \A x \in Execs: rows'[x] # None => rows'[x].squid \in {None, InputOf[x]}
    BY <1>0, <1>2, <2>2, RowWritten DEF SquidOfInputs
  <2> QED BY <1>0, <2>1, <2>3 DEF SquidOfInputs
<1>3. ASSUME NEW t \in Threads, WriteSchema(t) PROVE SquidOfInputs'
  <2>1. req[t] \in Reqs
    BY <1>0, <1>3, Carrying DEF WriteSchema
  <2>2. \A u \in Threads: \/ /\ req[u] # None
                             /\ req'[u].squid = req[u].squid /\ req'[u].exec = req[u].exec
                          \/ req'[u] = req[u]
    BY <1>0, <1>3, <2>1 DEF WriteSchema, TypeOK, Reqs
  <2> QED BY <1>0, <1>3, <2>2 DEF SquidOfInputs, WriteSchema
<1>4. ASSUME NEW t \in Threads, SchemaRefused(t) \/ WriteRefused(t) \/ TimedOut(t)
      PROVE  SquidOfInputs'
  BY <1>0, <1>4, Failing, FailType DEF SquidOfInputs
<1>5. ASSUME NEW t \in Threads, RecordError(t) \/ ErrorRefused(t) PROVE SquidOfInputs'
  BY <1>0, <1>5, Ending DEF SquidOfInputs, TypeOK
<1>6. ASSUME NEW t \in Threads, Other(t) PROVE SquidOfInputs'
  BY <1>0, <1>6, Others DEF SquidOfInputs
<1>7. CASE UNCHANGED vars
  BY <1>0, <1>7 DEF vars, data, SquidOfInputs
<1> QED BY <1>1, <1>2, <1>3, <1>4, <1>5, <1>6, <1>7, Actions

\* Only these requests change the rows.
LEMMA RowsChange ==
  ASSUME TypeOK, SquidOfInputs, [Next]_vars
  PROVE  /\ UNCHANGED backend
         /\ \/ \E t \in Threads: WriteResult(t)
            \/ \A x \in Execs: rows'[x] \in {None, rows[x]}
<1>1. ASSUME NEW t \in Threads,
             RegisterDirect(t) \/ Register(t) \/ WriteSchema(t)
               \/ SchemaRefused(t) \/ WriteRefused(t) \/ TimedOut(t)
               \/ RecordError(t) \/ ErrorRefused(t)
      PROVE  rows' = rows
  BY <1>1, Begins, Failing, FailType, Ending DEF WriteSchema
<1>2. CASE UNCHANGED vars
  BY <1>2 DEF vars, data
<1> QED BY <1>1, <1>2, Others, Actions

LEMMA OutputsStep == Inv /\ [Next]_vars => OutputsMatchInputs'
<1> SUFFICES ASSUME Inv, [Next]_vars, NEW x \in Execs, rows'[x] # None
             PROVE  InputOf[rows'[x].by] = InputOf[x]
  BY DEF OutputsMatchInputs
<1>0. TypeOK /\ SquidOfInputs /\ OutputsMatchInputs
  BY DEF Inv
<1>1. CASE rows'[x] = rows[x]
  BY <1>0, <1>1 DEF OutputsMatchInputs
<1>2. ASSUME NEW t \in Threads, WriteResult(t), rows'[x] # rows[x]
      PROVE  InputOf[rows'[x].by] = InputOf[x]
  <2> DEFINE e == req[t].exec
             s == NormalizedSquid(req[t].squid)
  <2>1. s \in {None, InputOf[e]}
    BY <1>0, <1>2, SquidType DEF WriteResult
  <2>2. /\ rows'[x].by = e
        /\ x = e \/ x \in Target(e, s)
    BY <1>0, <1>2, RowWritten
  <2>3. ASSUME x \in Target(e, s), x # e PROVE InputOf[x] = InputOf[e]
    <3>1. s # None /\ rows[x] # None /\ rows[x].squid = s
      BY <2>3 DEF Target
    <3> QED BY <1>0, <2>1, <3>1 DEF SquidOfInputs
  <2> QED BY <2>2, <2>3
<1> QED BY <1>0, <1>1, <1>2, RowsChange

LEMMA UniqueStep == Inv /\ [Next]_vars => OneRowPerSquid'
<1> SUFFICES ASSUME Inv, [Next]_vars, backend' = "sqlite",
                    NEW x \in Execs, NEW y \in Execs, rows'[x] # None, rows'[y] # None,
                    rows'[x].squid = rows'[y].squid, x # y
             PROVE  rows'[x].squid = None
  BY DEF OneRowPerSquid
<1>0. TypeOK /\ SquidOfInputs /\ OneRowPerSquid /\ backend = "sqlite"
  BY RowsChange DEF Inv
<1>1. CASE rows'[x] = rows[x] /\ rows'[y] = rows[y]
  BY <1>0, <1>1 DEF OneRowPerSquid
<1>2. ASSUME NEW t \in Threads, WriteResult(t) PROVE rows'[x].squid = None
  <2> DEFINE e == req[t].exec
             s == NormalizedSquid(req[t].squid)
             Inserted(z) == z = e /\ Target(e, s) = {} /\ rows'[z].squid = s
             Kept(z) == rows[z] # None /\ rows'[z].squid = rows[z].squid
  <2>1. Inserted(x) \/ Kept(x)
    BY <1>0, <1>2, RowWritten
  <2>2. Inserted(y) \/ Kept(y)
    BY <1>0, <1>2, RowWritten
  <2>3. CASE Kept(x) /\ Kept(y)
    BY <1>0, <2>3 DEF OneRowPerSquid
  <2>4. ASSUME NEW z \in Execs, Target(e, s) = {}, rows[z] # None, rows[z].squid = s
        PROVE  s = None
    BY <1>0, <2>4 DEF Target
  <2> QED BY <2>1, <2>2, <2>3, <2>4
<1> QED BY <1>0, <1>1, <1>2, RowsChange

-----------------------------------------------------------------------------
(* The connections. *)

\* Only what a refused last write has left locks a thread out.
LEMMA Unlocked == ASSUME TypeOK, Tidy, NEW t \in Threads, Locked(t)
                  PROVE  refused = TRUE /\ backend = "sqlite"
BY DEF Tidy, Locked, TypeOK

LEMMA TidyStep == Inv /\ [Next]_vars => Tidy'
<1> SUFFICES ASSUME Inv, [Next]_vars PROVE Tidy' OBVIOUS
<1> SUFFICES ASSUME backend = "sqlite", NEW u \in Threads
             PROVE  /\ conn'[u] # "aborted"
                    /\ refused' = FALSE => \/ conn'[u] = "idle"
                                           \/ /\ conn'[u] \in {"open", "begun"}
                                              /\ req'[u] # None /\ req'[u].step = "error"
  <2>1. TypeOK' /\ UNCHANGED backend
    BY TypeStep, RowsChange DEF Inv
  <2>2. ~refused' => refused' = FALSE
    BY <2>1, Zenon DEF TypeOK
  <2> QED BY <2>1, <2>2, Zenon DEF Tidy
<1>0. TypeOK /\ SquidOfInputs /\ Tidy
  BY DEF Inv
<1>1. conn \in [Threads -> Conns] /\ req \in [Threads -> Reqs \cup {None}] /\ "aborted" # "idle"
  BY <1>0 DEF TypeOK
<1> DEFINE Tame(c, r) == \/ c = "idle"
                         \/ c \in {"open", "begun"} /\ r # None /\ r.step = "error"
<1>2. conn[u] # "aborted" /\ (refused = FALSE => Tame(conn[u], req[u]))
  <2>1. refused = FALSE => ~refused
    OBVIOUS
  <2> QED BY <1>0, <2>1, Zenon DEF Tidy
<1>3. ASSUME NEW t \in Threads, conn' = Committed(t), refused' = refused,
             \A v \in Threads \ {t}: req'[v] = req[v]
      PROVE  conn'[u] # "aborted" /\ (refused' = FALSE => Tame(conn'[u], req'[u]))
  BY <1>1, <1>2, <1>3 DEF Committed
<1>4. ASSUME NEW t \in Threads, u # t, NEW c, conn' = [conn EXCEPT ![t] = c] \/ conn' = conn,
             refused' \in {refused, TRUE}, req'[u] = req[u]
      PROVE  conn'[u] # "aborted" /\ (refused' = FALSE => Tame(conn'[u], req'[u]))
  BY <1>1, <1>2, <1>4
<1>5. ASSUME NEW t \in Threads, RegisterDirect(t) \/ Register(t)
      PROVE  conn'[u] # "aborted" /\ (refused' = FALSE => Tame(conn'[u], req'[u]))
  <2>1. conn' = conn \/ conn' = [conn EXCEPT ![t] = AfterRead(t)]
    BY <1>0, <1>5, Begins
  <2>2. req[t] = None /\ refused' = refused /\ \A v \in Threads \ {t}: req'[v] = req[v]
    BY <1>0, <1>5, Begins
  <2>3. CASE u # t
    BY <1>4, <2>1, <2>2, <2>3
  <2>4. CASE u = t
    BY <1>1, <1>2, <2>1, <2>2, <2>4 DEF AfterRead
  <2> QED BY <2>3, <2>4
<1>6. ASSUME NEW t \in Threads, WriteSchema(t) \/ WriteResult(t) \/ RecordError(t)
      PROVE  conn'[u] # "aborted" /\ (refused' = FALSE => Tame(conn'[u], req'[u]))
  <2>1. conn' = Committed(t) /\ refused' = refused
    BY <1>6 DEF WriteSchema, WriteResult, RecordError
  <2>2. \A v \in Threads \ {t}: req'[v] = req[v]
    BY <1>1, <1>6 DEF WriteSchema, WriteResult, RecordError
  <2> QED BY <1>3, <2>1, <2>2
<1>7. ASSUME NEW t \in Threads, SchemaRefused(t) \/ WriteRefused(t) \/ TimedOut(t)
      PROVE  conn'[u] # "aborted" /\ (refused' = FALSE => Tame(conn'[u], req'[u]))
  <2>1. /\ req[t] # None /\ req[t].step \in {"schema", "result"} /\ refused' = refused
        /\ \A v \in Threads \ {t}: req'[v] = req[v]
        /\ req'[t] \in Reqs /\ req'[t].step = "error" /\ req'[t] # None
    BY <1>0, <1>7, Failing, FailType, Outsiders, NoRequest
  <2>2. PICK c \in Conns: conn' = [conn EXCEPT ![t] = c]
    BY <1>0, <1>7, Failing
  <2>3. CASE u # t
    BY <1>4, <2>1, <2>2, <2>3
  <2>4. CASE u = t
    <3>1. c = conn'[t]
      BY <1>1, <2>2
    <3>2. c = "open" \/ c = Begun(t) \/ conn[t] = "aborted"
      BY <1>1, <1>7, <3>1 DEF SchemaRefused, WriteRefused, TimedOut, AfterConstraint,
                              AfterRefusal
    <3>3. c # "aborted" /\ (refused = FALSE => c \in {"open", "begun"})
      BY <1>2, <2>1, <2>4, <3>2 DEF Begun
    <3> QED BY <2>1, <2>4, <3>1, <3>3
  <2> QED BY <2>3, <2>4
<1>8. ASSUME NEW t \in Threads, ErrorRefused(t)
      PROVE  conn'[u] # "aborted" /\ (refused' = FALSE => Tame(conn'[u], req'[u]))
  <2>0. req' = [req EXCEPT ![t] = None]
    BY <1>8 DEF ErrorRefused
  <2>1. CASE /\ \E c \in AfterRefusal(t): conn' = [conn EXCEPT ![t] = c]
             /\ refused' = TRUE
    <3>1. PICK c \in AfterRefusal(t): conn' = [conn EXCEPT ![t] = c]
      BY <2>1
    <3>2. c = Begun(t) \/ c = "open"
      BY <3>1 DEF AfterRefusal
    <3> QED BY <1>1, <1>2, <2>1, <3>1, <3>2 DEF Begun
  <2>2. CASE Locked(t) /\ conn' = [conn EXCEPT ![t] = Begun(t)] /\ refused' = refused
    <3>1. refused = TRUE
      BY <1>0, <2>2, Unlocked DEF TypeOK
    <3> QED BY <1>1, <1>2, <2>2, <3>1 DEF Begun
  <2>3. CASE conn[t] = "aborted"
    BY <1>0, <2>3 DEF Tidy
  <2> QED BY <1>8, <2>1, <2>2, <2>3 DEF ErrorRefused
<1>9. ASSUME NEW t \in Threads, Other(t)
      PROVE  conn'[u] # "aborted" /\ (refused' = FALSE => Tame(conn'[u], req'[u]))
  <2>0. req[t] = None /\ req' = req
    BY <1>0, <1>9, Others
  <2>1. CASE Read(t)
    BY <1>1, <1>2, <2>0, <2>1 DEF Read, AfterRead
  <2>2. CASE DeleteResult(t) \/ RecordProvenance(t)
    BY <1>3, <2>0, <2>2 DEF DeleteResult, RecordProvenance
  <2>3. CASE OtherRefused(t)
    <3>1. CASE Locked(t) /\ conn' = [conn EXCEPT ![t] = Begun(t)] /\ refused' = refused
      <4>1. refused = TRUE
        BY <1>0, <3>1, Unlocked DEF TypeOK
      <4> QED BY <1>1, <1>2, <3>1, <4>1 DEF Begun
    <3>2. CASE /\ \E c \in AfterRefusal(t): conn' = [conn EXCEPT ![t] = c]
               /\ refused' = TRUE
      <4>1. PICK c \in AfterRefusal(t): conn' = [conn EXCEPT ![t] = c]
        BY <3>2
      <4>2. c = Begun(t) \/ c = "open"
        BY <4>1 DEF AfterRefusal
      <4> QED BY <1>1, <1>2, <3>2, <4>1, <4>2 DEF Begun
    <3> QED BY <2>3, <3>1, <3>2 DEF OtherRefused
  <2>4. CASE ClearAll(t)
    <3>1. conn[t] # "aborted"
      BY <1>0 DEF Tidy
    <3>2. conn' = Committed(t) /\ refused' = refused
      BY <2>4, <3>1 DEF ClearAll
    <3> QED BY <1>3, <2>0, <3>2
  <2> QED BY <1>9, <2>1, <2>2, <2>3, <2>4 DEF Other, SearchFails
<1>10. CASE UNCHANGED vars
  BY <1>2, <1>10 DEF vars
<1> QED BY <1>5, <1>6, <1>7, <1>8, <1>9, <1>10, Actions

-----------------------------------------------------------------------------
THEOREM Invariance == Spec => []Inv
<1>1. Inv /\ [Next]_vars => Inv'
  BY TypeStep, SeenStep, SquidStep, OutputsStep, UniqueStep, TidyStep DEF Inv
<1> QED BY InitInv, <1>1, PTL DEF Spec

(* The state of the service has its type: no request writes a row, a schema or
   a step that the handlers do not know. *)
THEOREM TypesHold == Spec => []TypeOK
<1>1. Inv => TypeOK
  BY DEF Inv
<1> QED BY Invariance, <1>1, PTL

(* A registration, direct or not, never leaves a result without a schema
   (register_direct, register_run, _ensure_schema). *)
THEOREM SchemasOnFile == Spec => []RowsHaveSchema
<1>1. Inv => RowsHaveSchema
  BY DEF Inv
<1> QED BY Invariance, <1>1, PTL

(* Whichever row an upsert finds, its inputs are those of the outputs it takes
   (register_result). *)
THEOREM OutputsOfOwnInputs == Spec => []OutputsMatchInputs
<1>1. Inv => OutputsMatchInputs
  BY DEF Inv
<1> QED BY Invariance, <1>1, PTL

(* On SQLite a squid id names one row. *)
THEOREM SquidsUnique == Spec => []OneRowPerSquid
<1>1. Inv => OneRowPerSquid
  BY DEF Inv
<1> QED BY Invariance, <1>1, PTL

(* On SQLite a connection is left in a transaction by nothing but a refused last
   write (record_error commits what a failed registration had begun). *)
THEOREM NothingLeftOpen == Spec => []IdleBetweenRequests
<1>1. Inv => IdleBetweenRequests
  BY DEF Inv, Tidy, IdleBetweenRequests
<1> QED BY Invariance, <1>1, PTL

\* A step that ends a request in error has recorded the error, or is one of the
\* three that cannot.
LEMMA RecordedStep ==
  ASSUME Inv, [Next]_vars, NEW t \in Threads,
         req[t] # None, req[t].step = "error", req'[t] = None
  PROVE  \/ req[t].exec \in errors'
         \/ "error" \in req[t].flaw
         \/ backend = "postgresql" /\ conn[t] = "aborted"
         \/ /\ backend = "sqlite" /\ refused
            /\ conn[t] = "stale" \/ \E u \in Threads \ {t}: conn[u] = "open"
<1>0. TypeOK /\ SquidOfInputs /\ Tidy
  BY DEF Inv
<1>1. ASSUME NEW u \in Threads, RegisterDirect(u) \/ Register(u) PROVE FALSE
  BY <1>0, <1>1, Begins
<1>2. ASSUME NEW u \in Threads, WriteSchema(u) \/ WriteResult(u) PROVE FALSE
  BY <1>0, <1>2 DEF WriteSchema, WriteResult, TypeOK
<1>3. ASSUME NEW u \in Threads, SchemaRefused(u) \/ WriteRefused(u) \/ TimedOut(u) PROVE FALSE
  BY <1>0, <1>3, Failing, FailType
<1>4. ASSUME NEW u \in Threads, Other(u) PROVE FALSE
  BY <1>0, <1>4, Others
<1>5. CASE UNCHANGED vars
  BY <1>5 DEF vars
<1>6. ASSUME NEW u \in Threads, RecordError(u) \/ ErrorRefused(u) PROVE u = t
  BY <1>0, <1>6, Ending DEF TypeOK
<1>7. CASE RecordError(t)
  BY <1>7 DEF RecordError
<1>8. CASE ErrorRefused(t)
  <2>1. CASE "error" \in req[t].flaw
    BY <2>1
  <2>2. CASE Locked(t)
    BY <1>0, <2>2, Unlocked DEF Locked
  <2>3. CASE conn[t] = "aborted"
    BY <1>0, <2>3, KnownBackends DEF Tidy, TypeOK
  <2> QED BY <1>8, <2>1, <2>2, <2>3 DEF ErrorRefused
<1> QED BY <1>1, <1>2, <1>3, <1>4, <1>5, <1>6, <1>7, <1>8, Actions

(* A registration that fails leaves an error on file, but for the name that the
   table of errors refuses too, PostgreSQL's failed transaction, and what a
   refused last write has left on SQLite (register_run's and register_direct's
   except clauses, record_error). *)
THEOREM ErrorsOnFile == Spec => FailuresRecorded
<1>1. Inv /\ [Next]_vars =>
        [\A t \in Threads: req[t] # None /\ req[t].step = "error" /\ req'[t] = None
           => \/ req[t].exec \in errors'
              \/ "error" \in req[t].flaw
              \/ backend = "postgresql" /\ conn[t] = "aborted"
              \/ /\ backend = "sqlite" /\ refused
                 /\ conn[t] = "stale" \/ \E u \in Threads \ {t}: conn[u] = "open"]_vars
  BY RecordedStep
<1> QED BY Invariance, <1>1, PTL DEF Spec, FailuresRecorded

\* A step that writes the schema, and found the one it had read, keeps its types
\* and adds the parameters of the run.
LEMMA MergeStep ==
  ASSUME Inv, [Next]_vars, NEW t \in Threads,
         req[t] # None, req[t].step = "schema", req[t].route = "/register_direct",
         req'[t] # None, req'[t].step = "result", schema = req[t].seen
  PROVE  /\ Given(req[t].delta) \subseteq Given(schema')
         /\ schema = None \/ \A p \in Given(schema): schema'[p] = schema[p]
<1>0. TypeOK /\ SquidOfInputs
  BY DEF Inv
<1>1. WriteSchema(t)
  <2>1. ASSUME NEW u \in Threads, RegisterDirect(u) \/ Register(u) PROVE FALSE
    BY <1>0, <2>1, Begins
  <2>2. ASSUME NEW u \in Threads, WriteSchema(u) PROVE u = t
    BY <1>0, <2>2 DEF WriteSchema, TypeOK
  <2>3. ASSUME NEW u \in Threads, WriteResult(u) PROVE FALSE
    BY <1>0, <2>3 DEF WriteResult, TypeOK
  <2>4. ASSUME NEW u \in Threads, SchemaRefused(u) \/ WriteRefused(u) \/ TimedOut(u)
        PROVE  FALSE
    BY <1>0, <2>4, Failing, FailType
  <2>5. ASSUME NEW u \in Threads, RecordError(u) \/ ErrorRefused(u) PROVE FALSE
    BY <1>0, <2>5, Ending DEF TypeOK
  <2>6. ASSUME NEW u \in Threads, Other(u) PROVE FALSE
    BY <1>0, <2>6, Others
  <2> QED BY <2>1, <2>2, <2>3, <2>4, <2>5, <2>6, Actions DEF vars
<1>2. req[t].delta \in Shapes /\ schema \in Shapes \cup {None}
  BY <1>0, Carrying DEF TypeOK, Reqs
<1>3. schema' = Merged(schema, req[t].delta)
  BY <1>1 DEF WriteSchema
<1>4. CASE schema = None
  BY <1>2, <1>3, <1>4 DEF Merged, Given
<1>5. CASE schema # None
  <2>1. schema' = [p \in Params |-> IF schema[p] # None THEN schema[p] ELSE req[t].delta[p]]
    BY <1>3, <1>5 DEF Merged
  <2> QED BY <2>1 DEF Given
<1> QED BY <1>4, <1>5

(* A registration that meets the schema it had read loses nothing of it: lost
   types take a write between the two transactions (infer and merge in
   register_direct). *)
THEOREM MergesKeep == Spec => UnracedMergeKeeps
<1>1. Inv /\ [Next]_vars => [\A t \in Threads:
        req[t] # None /\ req[t].step = "schema" /\ req[t].route = "/register_direct"
          /\ req'[t] # None /\ req'[t].step = "result" /\ schema = req[t].seen
          => /\ Given(req[t].delta) \subseteq Given(schema')
             /\ schema = None \/ \A p \in Given(schema): schema'[p] = schema[p]]_vars
  BY MergeStep
<1> QED BY Invariance, <1>1, PTL DEF Spec, UnracedMergeKeeps
=============================================================================
