------------------------------ MODULE Workflows ------------------------------
(***************************************************************************)
(* The way of one simulation from its author to a run: a notebook or a       *)
(* function deployed to the local repository, synchronised with the catalog  *)
(* or sent to it as files, changed there, and turned into a definition when  *)
(* it is to run.  Contents of files and schemas are model values.            *)
(***************************************************************************)
EXTENDS Integers, Sequences, FiniteSets, SequencesExt, NoValue

CONSTANTS Types,          \* of simulations: strings
          Paths,          \* of files: strings
          Contents,       \* of files, notebooks and sources among them
          Schemas,
          Notebooks,      \* sequences of cells: [magic, schema]
          Sources,        \* sources of functions
          Ambiguous,      \* of them, those that do not say which function to run
          Payloads,       \* what is registered
          Updates,        \* what a registered simulation is updated with
          MaxCalls        \* bound on the calls of the catalog that change it

VARIABLES local,     \* the simulation in the local repository
          record,    \* its row in the catalog
          sent,      \* what the last accepted call asked to run
          calls
wvars == <<local, record, sent, calls>>

Sides == {"input", "output"}

Cells == [magic: Sides \cup {"other"}, schema: Schemas]

\* What is sent: an absent part is None.
Files == [path: Paths \cup {None}, content: Contents \cup {None}]
Bundles == [type: Types \cup {None}, entrypoint: Paths \cup {None}, files: Seq(Files),
            schema: [Sides -> Schemas \cup {None}]]
Requested == [type: Types \cup {None}, entrypoint: Paths \cup {None}, bundle: Bundles \cup {None},
             files: Seq(Files) \cup {None}, data: Contents \cup {None},
             dockerfile: Contents \cup {None}, context: Seq(Files), hash: Contents \cup {None},
             schema: [Sides -> Schemas \cup {None}]]
\* What is run.
Definitions == [type: {"notebook", "function"}, content: Contents, schema: [Sides -> Schemas]]

ASSUME WorkflowsAssumption ==
  /\ {"notebook", "function"} \subseteq Types
  /\ {"workflow.ipynb", "workflow.py", "Dockerfile", "workflow.bin"} \subseteq Paths
  /\ Notebooks \subseteq Seq(Cells)
  /\ Notebooks \cup Sources \subseteq Contents
  /\ Payloads \cup Updates \subseteq Requested
  /\ None \notin Types \cup Paths /\ None \notin Contents \cup Schemas
  /\ None \notin Bundles /\ None \notin Seq(Files) /\ None \notin Definitions
  /\ Invalid \notin Contents /\ Invalid \notin Definitions

WInit == local = None /\ record = None /\ sent = None /\ calls = 0

Or(x, y) == IF x # None THEN x ELSE y

-----------------------------------------------------------------------------
(* The local repository. *)

\* Mutant: the first one counts.
ParseNotebookFirst(cells) ==
  [side \in Sides |->
     LET first == {k \in DOMAIN cells: /\ cells[k].magic = side
                                       /\ \A j \in 1..(k - 1): cells[j].magic # side}
     IN  IF first = {} THEN None ELSE cells[CHOOSE k \in first: TRUE].schema]

\* parse_notebook: of several cells with one magic the last one counts.
ParseNotebook(cells) ==
  [side \in Sides |->
     LET last == {k \in DOMAIN cells: /\ cells[k].magic = side
                                      /\ \A j \in (k + 1)..Len(cells): cells[j].magic # side}
     IN  IF last = {} THEN None ELSE cells[CHOOSE k \in last: TRUE].schema]

BothSides(schema) == \A side \in Sides: schema[side] # None

\* from_notebook and deploy: a notebook without one of its schemas is refused.
DeployNotebook(cells) ==
  /\ local = None
  /\ BothSides(ParseNotebook(cells))
  /\ local' = [type |-> "notebook", content |-> cells, schema |-> ParseNotebook(cells)]
  /\ UNCHANGED <<record, sent, calls>>

DeployFunction(source, schema) ==
  /\ local = None
  /\ local' = [type |-> "function", content |-> source, schema |-> schema]
  /\ UNCHANGED <<record, sent, calls>>

\* function_from_source
Callable(source) == source \notin Ambiguous

\* load: the definition stored, or an exception.
LoadSimulation ==
  IF local = None \/ (local.type = "function" /\ ~Callable(local.content)) THEN Invalid ELSE local

-----------------------------------------------------------------------------
(* The workflow bundle the catalog makes of a payload. *)

DefaultWorkflowEntrypoint(type) ==
  CASE type = "notebook" -> "workflow.ipynb"
    [] type \in {"function", "python"} -> "workflow.py"
    [] type = "docker" -> "Dockerfile"
    [] OTHER -> "workflow.bin"

\* _normalize_workflow_file
WellFormedFile(file) == file.path # None /\ file.content # None
WellFormed(files) ==
  /\ \A k \in DOMAIN files: WellFormedFile(files[k])
  /\ \A j, k \in DOMAIN files: files[j].path = files[k].path => j = k

PayloadType(p) == Or(p.type, "notebook")

\* A bundle of the payload: what it does not say is taken from the payload.
GivenBundle(p) ==
  LET type == Or(p.bundle.type, PayloadType(p))
  IN  [type |-> type,
       entrypoint |-> Or(p.bundle.entrypoint, Or(p.entrypoint, DefaultWorkflowEntrypoint(type))),
       files |-> p.bundle.files,
       schema |-> p.bundle.schema]

PayloadEntrypoint(p) == Or(p.entrypoint, DefaultWorkflowEntrypoint(PayloadType(p)))

\* workflow_files, or the files made of the payload's other parts.
PayloadFiles(p) ==
  IF p.files # None THEN p.files
  ELSE (IF p.data = None THEN <<>> ELSE <<[path |-> PayloadEntrypoint(p), content |-> p.data]>>)
       \o (IF p.dockerfile = None THEN <<>> ELSE <<[path |-> "Dockerfile", content |-> p.dockerfile]>>)
       \o p.context

NoSchema == [side \in Sides |-> None]
NormalizeWorkflowBundle(p) ==
  LET bundle == IF p.bundle # None THEN GivenBundle(p)
                ELSE [type |-> PayloadType(p), entrypoint |-> PayloadEntrypoint(p),
                      files |-> PayloadFiles(p), schema |-> NoSchema]
  IN  IF p.bundle = None /\ p.files = None /\ bundle.files = <<>> THEN None
      ELSE IF WellFormed(bundle.files) THEN bundle ELSE Invalid

\* _resolve_input_output_schemas
ResolveSchemas(p, bundle) ==
  [side \in Sides |-> Or(p.schema[side], IF bundle = None THEN None ELSE bundle.schema[side])]

\* _file_content_from_bundle
FileContent(bundle, entrypoint) ==
  LET files == bundle.files
      first == {k \in DOMAIN files: /\ files[k].path = entrypoint
                                    /\ \A j \in 1..(k - 1): files[j].path # entrypoint}
  IN  IF first = {} THEN Invalid ELSE files[CHOOSE k \in first: TRUE].content

\* _workflow_hash_from_bundle: made of the files in the order of their paths.
WorkflowHash(bundle) == IF bundle = None THEN None ELSE ToSet(bundle.files)

\* _simulation_from_catalog_record
SimulationFromRecord ==
  IF record.bundle = None THEN Invalid
  ELSE LET type == Or(record.bundle.type, Or(record.type, "notebook"))
           content == FileContent(record.bundle, record.bundle.entrypoint)
       IN  IF content = Invalid \/ type \notin {"function", "python", "notebook"} THEN Invalid
           ELSE [type |-> IF type = "python" THEN "function" ELSE type,
                 content |-> content, schema |-> record.schema]

\* /run: the catalog first, and the local repository if it knows nothing.
Definition == IF record # None THEN SimulationFromRecord ELSE LoadSimulation

-----------------------------------------------------------------------------
(* The calls of the catalog. *)

\* The contents a payload gives for the file it names as the one to run.
Asked(p) ==
  LET bundled == p.bundle # None
      type == IF bundled THEN Or(p.bundle.type, Or(p.type, "notebook"))
              ELSE Or(p.type, "notebook")
      path == Or(IF bundled THEN p.bundle.entrypoint ELSE None,
                 Or(p.entrypoint, DefaultWorkflowEntrypoint(type)))
      files == IF bundled THEN ToSet(p.bundle.files) ELSE ToSet(PayloadFiles(p))
  IN  [type |-> IF type = "python" THEN "function" ELSE type,
       contents |-> {file.content: file \in {g \in files: g.path = path}}]

\* register_simulation, of a name and version the catalog does not have.
Register(p) ==
  /\ calls < MaxCalls /\ record = None
  /\ LET bundle == NormalizeWorkflowBundle(p)
     IN  /\ bundle # Invalid
         /\ BothSides(ResolveSchemas(p, bundle))
         /\ record' = [type |-> PayloadType(p), bundle |-> bundle,
                       hash |-> Or(p.hash, WorkflowHash(bundle)),
                       schema |-> ResolveSchemas(p, bundle)]
  /\ sent' = [asked |-> Asked(p), schema |-> record'.schema]
  /\ calls' = calls + 1
  /\ UNCHANGED local

\* sync_local_simulations: a simulation that cannot be loaded is registered
\* without a bundle and without schemas, which the catalog refuses.
SyncPayload(sim) ==
  LET path == DefaultWorkflowEntrypoint(sim.type)
      bundle == [type |-> sim.type, entrypoint |-> path, schema |-> NoSchema,
                 files |-> <<[path |-> path, content |-> sim.content]>>]
  IN  [type |-> sim.type, entrypoint |-> None, bundle |-> bundle, files |-> None, data |-> None,
       dockerfile |-> None, context |-> <<>>, hash |-> sim.content, schema |-> sim.schema]
SyncLocal == LoadSimulation # Invalid /\ Register(SyncPayload(LoadSimulation))

\* update_simulation: a part of a workflow makes a new bundle, of that part
\* alone, and without a type a notebook's; the hash stays unless it is given.
UpdatesBundle(u) == \/ u.context # <<>>
                    \/ \E part \in {"bundle", "files", "entrypoint", "data", "dockerfile"}: u[part] # None
Update(u) ==
  /\ calls < MaxCalls /\ record # None
  /\ UpdatesBundle(u) => NormalizeWorkflowBundle(u) # Invalid
  /\ record' = [type |-> Or(u.type, record.type),
                bundle |-> IF UpdatesBundle(u) THEN NormalizeWorkflowBundle(u) ELSE record.bundle,
                hash |-> Or(u.hash, record.hash),
                schema |-> [side \in Sides |-> Or(u.schema[side], record.schema[side])]]
  /\ sent' = [asked |-> IF UpdatesBundle(u) THEN Asked(u) ELSE sent.asked, schema |-> record'.schema]
  /\ calls' = calls + 1
  /\ UNCHANGED local

DeleteRecord == /\ calls < MaxCalls /\ record # None
                /\ record' = None /\ sent' = None /\ calls' = calls + 1
                /\ UNCHANGED local

WNext == \/ \E cells \in Notebooks: DeployNotebook(cells)
         \/ \E source \in Sources, p \in Payloads: BothSides(p.schema) /\ DeployFunction(source, p.schema)
         \/ \E p \in Payloads: Register(p)
         \/ SyncLocal
         \/ \E u \in Updates: Update(u)
         \/ DeleteRecord

-----------------------------------------------------------------------------
(* A simulation of the catalog runs the workflow that was sent for it last:   *)
(* the contents of the file named as its entry point, as the type named, and  *)
(* with the schemas it was sent with, whatever the parts of the payload they  *)
(* came in; and it runs if that file was sent and the type is one the catalog *)
(* runs.  One that was only deployed, or synchronised from a deployed one,    *)
(* runs the notebook or function deployed, with the schemas of the last       *)
(* schema cells.                                                              *)
RunsWhatWasSent ==
  /\ record # None =>
       LET asked == sent.asked
       IN  IF asked.type \in {"notebook", "function"} /\ asked.contents # {}
           THEN /\ Definition # Invalid
                /\ Definition.type = asked.type /\ Definition.schema = sent.schema
                /\ asked.contents = {Definition.content}
           ELSE Definition = Invalid
  /\ record = None /\ local # None /\ local.type = "notebook"
       => \A side \in Sides, k \in DOMAIN local.content:
            /\ local.content[k].magic = side
            /\ \A j \in (k + 1)..Len(local.content): local.content[j].magic # side
            => Definition.schema[side] = local.content[k].schema
=============================================================================
