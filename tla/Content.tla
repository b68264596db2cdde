------------------------------- MODULE Content -------------------------------
\* What the services and the library make of the data they hold: a behaviour is
\* about the tables, about a schema, or about a workflow.
EXTENDS Queries, Requests, Workflows

CONSTANT Subjects

VARIABLE subject
tables == <<kind, backend, rows, now, sweep>>
schemas == <<use, schema, values, raised, results, requests>>
vars == <<subject, tables, schemas, wvars>>

NoTable == kind = None /\ backend = None /\ rows = <<>> /\ now = 0 /\ sweep = NoSweep
SchemaOfNoField == /\ use = None /\ schema = <<>> /\ values = <<>> /\ raised = FALSE
                   /\ results = <<>> /\ requests = {}

Init == /\ subject \in Subjects
        /\ IF subject = "tables" THEN QInit ELSE NoTable
        /\ IF subject = "schema" THEN RInit ELSE SchemaOfNoField
        /\ WInit

Next == \/ subject = "tables" /\ QNext /\ UNCHANGED <<subject, schemas, wvars>>
        \/ subject = "schema" /\ RNext /\ UNCHANGED <<subject, tables, wvars>>
        \/ subject = "workflow" /\ WNext /\ UNCHANGED <<subject, tables, schemas>>

Spec == Init /\ [][Next]_vars
=============================================================================
