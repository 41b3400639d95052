-------------------------- MODULE SchemaProvisioner --------------------------
(***************************************************************************)
(* db/provisioning/schema_provisioner.py: tenant schemas are created from  *)
(* a template, migrated revision by revision and rolled back.  The         *)
(* executor commits every statement on its own (cli.py, engine.begin), so  *)
(* a statement is a step, and between two of them the operation can fail   *)
(* or the process can die.                                                 *)
(*                                                                         *)
(* Revision 0 is "000_template" and target -1 the empty string.  Every     *)
(* artifact has Statements statements; the database keeps, per schema and  *)
(* revision, how many of them are in effect (a down artifact undoes them   *)
(* from the last to the first).                                            *)
(***************************************************************************)
EXTENDS Selections, SequencesExt

CONSTANTS
  Tenants,
  NoSchema,       \* the empty active_schema
  LastRevision,   \* the revisions are 1..LastRevision
  Statements,     \* statements of one artifact
  HasDown,        \* the revisions that have a down artifact
  Loaders,        \* TRUE in it: load_applied reads jol_schema_meta; FALSE: no loader
  Rerunnable,     \* the revisions whose artifacts tolerate finding their work done
  MaxFailures,    \* bound: statements the database refuses
  MaxRestarts,    \* bound: deaths of the process
  MaxDowngrades,  \* bound: downgrade calls
  MaxRecords      \* bound: _applied entries of a schema a create may extend

Template  == 0

\* from_artifacts_dir: the up artifacts, sorted by name; HasDown says which of them
\* have a down artifact.
Revisions == 1..LastRevision
Targets   == (-1)..LastRevision

Operations == {"none", "create", "migrate", "downgrade"}

ASSUME ProvisionerAssumption ==
  /\ NoSchema \notin Tenants /\ IsFiniteSet(Tenants)
  /\ LastRevision \in Nat /\ Statements \in Nat \ {0}
  /\ HasDown \subseteq Revisions
  /\ Loaders \subseteq BOOLEAN /\ Rerunnable \subseteq {Template} \cup Revisions
  /\ MaxFailures \in Nat /\ MaxRestarts \in Nat /\ MaxDowngrades \in Nat

VARIABLES
  loader,         \* whether this deployment wires load_applied; never changes
  schemas,        \* the schemas that exist
  objects,        \* statements in effect, per schema and revision
  meta,           \* rows of jol_schema_meta, per schema
  applied,        \* SchemaProvisioner._applied
  active_schema,
  job,            \* the running call
  result,         \* how the last call ended
  undoing,        \* revisions whose rollback began and did not finish
  failures, restarts, downgrades

db      == <<loader, schemas, objects, meta, undoing>>
bounds  == <<failures, restarts, downgrades>>
vars    == <<loader, schemas, objects, meta, applied, active_schema, job, result, undoing,
             failures, restarts, downgrades>>

\* A call: the tenants it still has to visit, the revisions left for the first
\* of them, and the next statement of the first of these.  Statement 0 is CREATE
\* SCHEMA or the CREATE TABLE of the meta table, the one after the artifact's
\* last writes the meta table.
NoJob == [op |-> "none", todo |-> <<>>, revs |-> <<>>, at |-> 0, target |-> -1]
NoResult == [op |-> "none", tenant |-> NoSchema, outcome |-> "ok", target |-> -1]

Schema == Head(job.todo)
Rev    == Head(job.revs)
Running(op) == job.op = op /\ job.revs # <<>>

Init ==
  /\ loader \in Loaders
  /\ schemas = {}
  /\ objects = [t \in Tenants |-> [r \in {Template} \cup Revisions |-> 0]]
  /\ meta    = [t \in Tenants |-> {}]
  /\ applied = [t \in Tenants |-> <<>>]
  /\ undoing = [t \in Tenants |-> {}]
  /\ active_schema = NoSchema
  /\ job = NoJob /\ result = NoResult
  /\ failures = 0 /\ restarts = 0 /\ downgrades = 0

-----------------------------------------------------------------------------
(* What the provisioner believes is applied.                               *)

_applied_revisions(t) ==
  IF loader THEN Sorted(meta[t]) ELSE applied[t]

\* Variant: the newest revision is left out.
PendingButLast(t) ==
  Sorted((1..(LastRevision - 1)) \ ToSet(_applied_revisions(t)))

\* The revisions the schema has not applied yet, in order.
_pending(t) ==
  Sorted(Revisions \ ToSet(_applied_revisions(t)))

-----------------------------------------------------------------------------
(* How a call goes on and how it ends.                                     *)

End(outcome) ==
  /\ job' = NoJob
  /\ result' = [op |-> job.op, outcome |-> outcome, target |-> job.target,
                tenant |-> IF job.todo = <<>> THEN NoSchema ELSE Schema]

NextStatement == job' = [job EXCEPT !.at = @ + 1] /\ UNCHANGED result

\* The next revision of this schema; the next schema of migrate_all; the end.
Advance ==
  IF Len(job.revs) > 1
  THEN job' = [job EXCEPT !.revs = Tail(@), !.at = 1] /\ UNCHANGED result
  ELSE IF job.op = "migrate"
  THEN job' = [job EXCEPT !.todo = Tail(@), !.revs = <<>>, !.at = 0] /\ UNCHANGED result
  ELSE End("ok")

\* _execute turns whatever the database raises into a ProvisioningError, which
\* leaves the call; nothing is undone.
Raise == End("failed")

-----------------------------------------------------------------------------
(* create_tenant_schema and migrate_all.                                   *)

StartCreate(t) ==
  /\ job = NoJob /\ Len(applied[t]) < MaxRecords
  /\ job' = [NoJob EXCEPT !.op = "create", !.todo = <<t>>, !.revs = <<Template>>]
  /\ active_schema' = t
  /\ result' = NoResult
  /\ UNCHANGED <<db, applied, bounds>>

StartMigrate ==
  /\ job = NoJob
  /\ \E list \in SetToSeqs(Tenants) :
       job' = [NoJob EXCEPT !.op = "migrate", !.todo = list]
  /\ result' = NoResult
  /\ UNCHANGED <<db, applied, active_schema, bounds>>

\* Variant: the schema is activated once, for the first tenant.
VisitKeepingSchema ==
  /\ job.op = "migrate" /\ job.revs = <<>> /\ job.todo # <<>>
  /\ IF _pending(Schema) = <<>>
     THEN job' = [job EXCEPT !.todo = Tail(@)] /\ UNCHANGED active_schema
     ELSE /\ job' = [job EXCEPT !.revs = _pending(Schema)]
          /\ active_schema' = IF active_schema = NoSchema THEN Schema ELSE active_schema
  /\ UNCHANGED <<db, applied, result, bounds>>

\* The head of migrate_all's loop body.
VisitTenant ==
  /\ job.op = "migrate" /\ job.revs = <<>> /\ job.todo # <<>>
  /\ IF _pending(Schema) = <<>>
     THEN job' = [job EXCEPT !.todo = Tail(@)] /\ UNCHANGED active_schema
     ELSE job' = [job EXCEPT !.revs = _pending(Schema)] /\ active_schema' = Schema
  /\ UNCHANGED <<db, applied, result, bounds>>

MigrateReturns ==
  /\ job.op = "migrate" /\ job.revs = <<>> /\ job.todo = <<>>
  /\ End("ok")
  /\ UNCHANGED <<db, applied, active_schema, bounds>>

\* CREATE SCHEMA IF NOT EXISTS, or the meta table of a schema that must exist.
Scope ==
  /\ Running("create") \/ Running("migrate")
  /\ job.at = 0
  /\ \/ job.op = "create" /\ schemas' = schemas \cup {Schema} /\ NextStatement
     \/ job.op = "migrate" /\ Schema \in schemas /\ NextStatement /\ UNCHANGED schemas
     \/ job.op = "migrate" /\ Schema \notin schemas /\ Raise /\ UNCHANGED schemas
  /\ UNCHANGED <<loader, objects, meta, undoing, applied, active_schema, bounds>>

\* One statement of the template or of an up artifact, in the ACTIVE schema.
Up ==
  LET there == objects[active_schema][Rev] >= job.at
  IN  /\ Running("create") \/ Running("migrate")
      /\ job.at \in 1..Statements
      /\ IF there THEN UNCHANGED objects
         ELSE objects' = [objects EXCEPT ![active_schema][Rev] = job.at]
      /\ IF there /\ Rev \notin Rerunnable THEN Raise ELSE NextStatement
      /\ UNCHANGED <<loader, schemas, meta, undoing, applied, active_schema, bounds>>

\* _record: _applied first, then, but for the template, the INSERT, which fails
\* on a row that is there (the revision is the primary key).
_record ==
  /\ Running("create") \/ Running("migrate")
  /\ job.at = Statements + 1
  /\ applied' = [applied EXCEPT ![Schema] = Append(@, Rev)]
  /\ \/ Rev = Template /\ Advance /\ UNCHANGED <<meta, failures>>
     \/ /\ Rev # Template /\ Rev \notin meta[Schema]
        /\ meta' = [meta EXCEPT ![Schema] = @ \cup {Rev}]
        /\ Advance /\ UNCHANGED failures
     \/ Rev # Template /\ Rev \in meta[Schema] /\ Raise /\ UNCHANGED <<meta, failures>>
     \/ /\ Rev # Template /\ failures < MaxFailures
        /\ failures' = failures + 1 /\ Raise /\ UNCHANGED meta
  /\ UNCHANGED <<loader, schemas, objects, undoing, active_schema, restarts, downgrades>>

-----------------------------------------------------------------------------
(* downgrade.                                                              *)

KnownTarget(t, target) == target \in ToSet(_applied_revisions(t)) \cup {-1}

Above(revs, target) == Chosen(revs, {i \in 1..Len(revs) : revs[i] > target})

\* Variant: the revision after the target is kept as well.
ToUndoOffByOne(t, target) == Above(Reverse(_applied_revisions(t)), target + 1)

\* The revisions downgrade undoes, newest first.
ToUndo(t, target) == Above(Reverse(_applied_revisions(t)), target)

StartDowngrade(t, target) ==
  /\ job = NoJob /\ downgrades < MaxDowngrades
  /\ downgrades' = downgrades + 1
  /\ IF KnownTarget(t, target)
     THEN /\ active_schema' = t
          /\ IF ToUndo(t, target) = <<>>
             THEN /\ job' = NoJob
                  /\ result' = [op |-> "downgrade", tenant |-> t, outcome |-> "ok",
                                target |-> target]
             ELSE /\ job' = [op |-> "downgrade", todo |-> <<t>>,
                             revs |-> ToUndo(t, target), at |-> 1, target |-> target]
                  /\ result' = NoResult
     ELSE /\ UNCHANGED <<active_schema, job>>
          /\ result' = [op |-> "downgrade", tenant |-> t, outcome |-> "refused",
                        target |-> target]
  /\ UNCHANGED <<db, applied, failures, restarts>>

\* "Raises instead of guessing": no down artifact (the template never has one).
NoDownArtifact ==
  /\ Running("downgrade") /\ job.at = 1 /\ Rev \notin HasDown
  /\ Raise
  /\ UNCHANGED <<db, applied, active_schema, bounds>>

\* One statement of a down artifact.
Down ==
  LET left  == Statements - job.at
      there == objects[active_schema][Rev] > left
  IN  /\ Running("downgrade") /\ Rev \in HasDown /\ job.at \in 1..Statements
      /\ IF there
         THEN /\ objects' = [objects EXCEPT ![active_schema][Rev] = left]
              /\ undoing' = [undoing EXCEPT ![active_schema] = @ \cup {Rev}]
         ELSE UNCHANGED <<objects, undoing>>
      /\ IF there \/ Rev \in Rerunnable THEN NextStatement ELSE Raise
      /\ UNCHANGED <<loader, schemas, meta, applied, active_schema, bounds>>

\* Variant: only the provisioner's own list forgets the revision.
ForgetInMemory ==
  /\ Running("downgrade") /\ job.at = Statements + 1
  /\ undoing' = [undoing EXCEPT ![Schema] = @ \ {Rev}]
  /\ applied' = [applied EXCEPT ![Schema] = RemoveFirst(@, Rev)]
  /\ Advance
  /\ UNCHANGED <<loader, schemas, objects, meta, active_schema, bounds>>

\* DELETE of the row, then of the entry in _applied.
Forget ==
  /\ Running("downgrade") /\ job.at = Statements + 1
  /\ meta'    = [meta EXCEPT ![Schema] = @ \ {Rev}]
  /\ undoing' = [undoing EXCEPT ![Schema] = @ \ {Rev}]
  /\ applied' = [applied EXCEPT ![Schema] = RemoveFirst(@, Rev)]
  /\ Advance
  /\ UNCHANGED <<loader, schemas, objects, active_schema, bounds>>

-----------------------------------------------------------------------------
(* The world.                                                              *)

\* The database refuses the next statement (_record has its own case).
StatementFails ==
  /\ job.revs # <<>> /\ failures < MaxFailures
  /\ job.op = "downgrade" \/ job.at <= Statements
  /\ job.op = "downgrade" => Rev \in HasDown
  /\ failures' = failures + 1
  /\ Raise
  /\ UNCHANGED <<db, applied, active_schema, restarts, downgrades>>

\* The process dies and a new one builds a new provisioner.
Restart ==
  /\ restarts < MaxRestarts
  /\ restarts' = restarts + 1
  /\ applied' = [t \in Tenants |-> <<>>]
  /\ active_schema' = NoSchema
  /\ job' = NoJob /\ result' = NoResult
  /\ UNCHANGED <<db, failures, downgrades>>

\* The executor runs one statement in a transaction of its own.
Statement == Scope \/ Up \/ _record \/ NoDownArtifact \/ Down \/ Forget
Step == VisitTenant \/ MigrateReturns \/ Statement

Next ==
  \/ Step \/ StartMigrate \/ StatementFails \/ Restart
  \/ \E t \in Tenants :
       StartCreate(t) \/ \E target \in Targets : StartDowngrade(t, target)

Spec == Init /\ [][Next]_vars

\* A running call goes on; operations re-runs what failed: the creation of a
\* schema that is missing and the migration.
FairSpec ==
  /\ Spec /\ WF_vars(Step) /\ SF_vars(StartMigrate)
  /\ \A t \in Tenants : SF_vars(t \notin schemas /\ StartCreate(t))

-----------------------------------------------------------------------------
(* Properties.                                                             *)

\* The type invariant of the database and of the provisioner.
TypeOK ==
  /\ loader \in BOOLEAN /\ schemas \subseteq Tenants
  /\ objects \in [Tenants -> [{Template} \cup Revisions -> 0..Statements]]
  /\ meta \in [Tenants -> SUBSET Revisions]
  /\ undoing \in [Tenants -> SUBSET Revisions]
  /\ applied \in [Tenants -> Seq({Template} \cup Revisions)]
  /\ active_schema \in Tenants \cup {NoSchema}
  /\ job \in [op : Operations, todo : Seq(Tenants), revs : Seq({Template} \cup Revisions),
              at : 0..(Statements + 1), target : Targets]
  /\ result \in [op : Operations, tenant : Tenants \cup {NoSchema},
                 outcome : {"ok", "failed", "refused"}, target : Targets]

ChangesOnly(t) ==
  \A u \in Tenants \ {t} :
    objects'[u] = objects[u] /\ meta'[u] = meta[u] /\ applied'[u] = applied[u]

\* Statements reach the schema they are meant for: the executor's search_path
\* follows active_schema, and no call ever changes the schema, or the record, of
\* a tenant it is not working on.
Isolated ==
  [][job.op # "none" /\ restarts' = restarts =>
       IF job.todo = <<>> THEN ChangesOnly(NoSchema) ELSE ChangesOnly(Schema)]_vars

\* "Every schema records applied revisions in jol_schema_meta": whatever fails
\* and whenever, a recorded revision has all its statements in effect, unless its
\* own rollback was interrupted, and its schema exists.
RecordedIsComplete ==
  \A t \in Tenants : \A r \in meta[t] :
    t \in schemas /\ (objects[t][r] = Statements \/ r \in undoing[t])

\* With a loader, revisions are applied in order and rolled back newest first:
\* at every moment the recorded revisions are 1..k for some k.
RecordedIsPrefix ==
  loader => \A t \in Tenants : meta[t] = 1..Cardinality(meta[t])

\* The records tell the truth: what jol_schema_meta lists is there, and it lists a
\* prefix of the revisions (and the types hold).
RecordsTellTheTruth == TypeOK /\ RecordedIsComplete /\ RecordedIsPrefix

\* With a loader, what a successful return means, whichever process did the work
\* before: after migrate_all all revisions of every schema are recorded and, but for
\* interrupted rollbacks, complete; after a downgrade nothing above its target is
\* recorded.
ReturnMeansDone ==
  loader /\ result.outcome = "ok" =>
    /\ result.op = "migrate" => \A t \in Tenants :
         /\ meta[t] = Revisions
         /\ \A r \in Revisions \ undoing[t] : objects[t][r] = Statements
    /\ result.op = "downgrade" => \A r \in meta[result.tenant] : r <= result.target

\* After finitely many failures, restarts and rollbacks, re-running the migration
\* brings every schema to the last revision for good (artifacts that tolerate
\* their own leftovers, and a loader).
MigrationCompletes ==
  loader => <>[](\A t \in Tenants : meta[t] = Revisions)

\* "one tenant's failure never blocks or corrupts the others": when migrate_all
\* ends with a failure, the other tenants' schemas have nothing pending.
FailureIsContained ==
  result.op = "migrate" /\ result.outcome = "failed" =>
    \A t \in schemas \ {result.tenant} : _pending(t) = <<>>
=============================================================================
