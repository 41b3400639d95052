-------------------------- MODULE ProvisionerProofs --------------------------
(***************************************************************************)
(* Theorems about SchemaProvisioner and the commands of TenantOnboarding,  *)
(* for any tenants, revisions, artifacts, failures and restarts.           *)
(***************************************************************************)
EXTENDS TenantOnboarding, CollectionLemmas

All == {Template} \cup Revisions

-----------------------------------------------------------------------------
(* The inductive invariant.                                                *)

\* What a running call works on, and where its statements go.
CallInv ==
  /\ job.op = "none" => job = NoJob
  /\ job.op # "none" => result = NoResult
  /\ job.op \in {"create", "downgrade"} => Len(job.todo) = 1 /\ job.revs # <<>>
  /\ job.op = "create" => job.revs = <<Template>>
  /\ job.op = "migrate" =>
       /\ \A i, j \in 1..Len(job.todo) : i # j => job.todo[i] # job.todo[j]
       /\ IF job.revs = <<>> THEN job.at = 0 ELSE job.todo # <<>>
  /\ job.op = "downgrade" => job.at >= 1
  /\ job.revs # <<>> => active_schema = Schema

\* The statements of an artifact before the next one are in effect.
Progress ==
  job.op \in {"create", "migrate"} /\ job.revs # <<>> /\ job.at >= 1 =>
    Schema \in schemas /\ objects[Schema][Rev] >= job.at - 1

\* With a loader, the rest of the invariant.  The records of a schema are a prefix.
Consecutive == \A t \in Tenants : \E k \in 0..LastRevision : meta[t] = 1..k

\* The tenants migrate_all has been to.
Visited ==
  job.op = "migrate" => \A t \in Tenants : t \notin ToSet(job.todo) => meta[t] = Revisions

\* The revisions left of a migration go on where the records end.
Ahead ==
  job.op = "migrate" /\ job.revs # <<>> =>
    /\ Len(job.revs) <= LastRevision
    /\ meta[Schema] = 1..(LastRevision - Len(job.revs))
    /\ \A i \in 1..Len(job.revs) : job.revs[i] = LastRevision - Len(job.revs) + i

\* The revisions left of a rollback are the end of the records, down to the target.
Behind ==
  job.op = "downgrade" =>
    /\ Len(job.revs) <= Rev
    /\ meta[Schema] = 1..Rev
    /\ \A i \in 1..Len(job.revs) : job.revs[i] = Rev + 1 - i
    /\ Rev = Len(job.revs) \/ Rev - Len(job.revs) <= job.target

\* What the last return said is still so.
Returned ==
  result.outcome = "ok" =>
    /\ result.op = "migrate" => \A t \in Tenants : meta[t] = Revisions
    /\ result.op = "downgrade" => \A r \in meta[result.tenant] : r <= result.target

Sequel == Consecutive /\ Visited /\ Ahead /\ Behind /\ Returned

PInv == TypeOK /\ CallInv /\ RecordedIsComplete /\ Progress /\ (loader => Sequel)

\* The command announces what its create call made.
CommandInv ==
  /\ restarts \in Nat
  /\ registry \in [Tenants -> Slugs \cup {NoSlug}]
  /\ onboarding \in Tenants \cup {NoSchema} /\ announced \subseteq Tenants
  /\ \A t, u \in Tenants : t # u /\ registry[t] # NoSlug => registry[t] # registry[u]
  /\ onboarding # NoSchema =>
       job.op = "create" /\ Schema = onboarding /\ registry[onboarding] # NoSlug
  /\ \A t \in announced :
       registry[t] # NoSlug /\ t \in schemas /\ objects[t][Template] = Statements

-----------------------------------------------------------------------------
(* What the provisioner reads as applied.                                  *)

LEMMA RevisionsFinite == IsFiniteSet(Revisions) /\ Revisions \in SUBSET Int
<1>1. 1 \in Int /\ LastRevision \in Int
  BY ProvisionerAssumption
<1>2. IsFiniteSet(1..LastRevision)
  BY <1>1, FS_Interval
<1> QED
  BY <1>1, <1>2 DEF Revisions

\* What the provisioner reads as applied: with a loader, the rows in order.
LEMMA AppliedFacts ==
  ASSUME TypeOK, NEW t \in Tenants
  PROVE  /\ _applied_revisions(t) \in Seq(All)
         /\ loader => ToSet(_applied_revisions(t)) = meta[t]
<1>1. CASE loader
  <2>1. meta[t] \in SUBSET Revisions
    BY DEF TypeOK
  <2>2. IsFiniteSet(Revisions) /\ Revisions \in SUBSET Int
    BY RevisionsFinite
  <2>3. meta[t] \in SUBSET Int /\ IsFiniteSet(meta[t])
    BY <2>1, <2>2, FS_Subset
  <2>4. /\ Cardinality(meta[t]) \in Nat
        /\ Sorted(meta[t]) \in [1..Cardinality(meta[t]) -> meta[t]]
        /\ \A x \in meta[t] : \E i \in 1..Cardinality(meta[t]) : Sorted(meta[t])[i] = x
    BY <2>3, SortedFacts
  <2>5. Sorted(meta[t]) \in [1..Cardinality(meta[t]) -> All]
    BY <2>1, <2>4 DEF All
  <2>6. Sorted(meta[t]) \in Seq(All)
    BY <2>4, <2>5
  <2>7. ToSet(Sorted(meta[t])) = meta[t]
    BY <2>4 DEF ToSet
  <2> QED
    BY <1>1, <2>6, <2>7 DEF _applied_revisions
<1>2. CASE ~loader
  BY <1>2 DEF TypeOK, _applied_revisions, All
<1> QED
  BY <1>1, <1>2

\* What migrate_all finds pending: with a loader, what is behind the recorded prefix.
LEMMA PendingFacts ==
  ASSUME TypeOK, NEW t \in Tenants
  PROVE  /\ _pending(t) \in Seq(All)
         /\ loader => \A k \in 0..LastRevision : meta[t] = 1..k =>
              _pending(t) = [i \in 1..(LastRevision - k) |-> k + i]
<1> DEFINE P == Revisions \ ToSet(_applied_revisions(t))
<1>1. _pending(t) \in Seq(All)
  <2>1. P \in SUBSET Revisions
    OBVIOUS
  <2>2. IsFiniteSet(Revisions) /\ Revisions \in SUBSET Int
    BY RevisionsFinite
  <2>3. P \in SUBSET Int /\ IsFiniteSet(P)
    BY <2>1, <2>2, FS_Subset
  <2> HIDE DEF P
  <2>4. Cardinality(P) \in Nat /\ Sorted(P) \in [1..Cardinality(P) -> P]
    BY <2>3, SortedFacts
  <2>5. Sorted(P) \in [1..Cardinality(P) -> All]
    BY <2>1, <2>4 DEF All
  <2>6. Sorted(P) \in Seq(All)
    BY <2>4, <2>5
  <2> QED
    BY <2>6 DEF _pending, P
<1>2. ASSUME loader, NEW k \in 0..LastRevision, meta[t] = 1..k
      PROVE  _pending(t) = [i \in 1..(LastRevision - k) |-> k + i]
  <2>1. P = (k + 1)..LastRevision
    BY <1>2, AppliedFacts, ProvisionerAssumption DEF Revisions
  <2>2. k + 1 \in Int /\ LastRevision \in Int /\ k + 1 <= LastRevision + 1
    BY ProvisionerAssumption
  <2>3. Sorted((k + 1)..LastRevision)
          = [i \in 1..(LastRevision - (k + 1) + 1) |-> k + 1 + i - 1]
    BY <2>2, SortedInterval
  <2>4. LastRevision - (k + 1) + 1 = LastRevision - k
    BY ProvisionerAssumption
  <2>5. \A i \in 1..(LastRevision - k) : k + 1 + i - 1 = k + i
    BY ProvisionerAssumption
  <2>6. _pending(t) = Sorted((k + 1)..LastRevision)
    BY <2>1 DEF _pending
  <2> QED
    BY <2>3, <2>4, <2>5, <2>6
<1> QED
  BY <1>1, <1>2

\* What downgrade undoes: with a loader, the end of the prefix, newest first.
LEMMA UndoFacts ==
  ASSUME TypeOK, NEW t \in Tenants, NEW target \in Targets
  PROVE  /\ ToUndo(t, target) \in Seq(All)
         /\ loader /\ KnownTarget(t, target) => \A k \in 0..LastRevision : meta[t] = 1..k =>
              \E m \in 0..k :
                /\ ToUndo(t, target) = [i \in 1..m |-> k + 1 - i]
                /\ m = k \/ k - m = target
<1> DEFINE s == Reverse(_applied_revisions(t))
           P == {i \in 1..Len(s) : s[i] > target}
<1>1. s \in Seq(All)
  <2>1. _applied_revisions(t) \in Seq(All)
    BY AppliedFacts
  <2> QED
    BY <2>1 DEF Reverse
<1>2. ToUndo(t, target) = Chosen(s, P)
  BY DEF ToUndo, Above
<1>3. P \in SUBSET (1..Len(s))
  OBVIOUS
<1>4. ToUndo(t, target) \in Seq(All)
  <2> HIDE DEF s, P
  <2> QED
    BY <1>1, <1>2, <1>3, ChosenFacts
<1>5. ASSUME loader, KnownTarget(t, target), NEW k \in 0..LastRevision, meta[t] = 1..k
      PROVE  \E m \in 0..k : /\ ToUndo(t, target) = [i \in 1..m |-> k + 1 - i]
                             /\ m = k \/ k - m = target
  <2> DEFINE m == IF target = -1 THEN k ELSE k - target
  <2>1. target \in meta[t] \cup {-1}
    BY <1>5, AppliedFacts DEF KnownTarget
  <2>2. k \in Nat /\ m \in 0..k /\ (m = k \/ k - m = target)
    BY <1>5, <2>1, ProvisionerAssumption
  <2>3. _applied_revisions(t) = [i \in 1..k |-> i]
    <3>1. 1 \in Int /\ k \in Int /\ 1 <= k + 1
      BY <2>2
    <3>2. Sorted(1..k) = [i \in 1..(k - 1 + 1) |-> 1 + i - 1]
      BY <3>1, SortedInterval
    <3>3. k - 1 + 1 = k /\ \A i \in 1..k : 1 + i - 1 = i
      BY <2>2
    <3>4. Sorted(1..k) = [i \in 1..k |-> i]
      BY <3>2, <3>3
    <3> QED
      BY <1>5, <3>4 DEF _applied_revisions
  <2>4. Len(s) = k /\ \A i \in 1..k : s[i] = k + 1 - i
    <3>1. Len(_applied_revisions(t)) = k
      BY <2>2, <2>3
    <3>2. s = [i \in 1..k |-> _applied_revisions(t)[(k - i) + 1]]
      BY <3>1 DEF Reverse
    <3>3. \A i \in 1..k : (k - i) + 1 \in 1..k
      BY <2>2
    <3>4. \A i \in 1..k : s[i] = k + 1 - i
      BY <2>3, <3>2, <3>3
    <3> HIDE DEF s
    <3> QED
      BY <2>2, <3>2, <3>4
  <2>5. P = 1..m
    <3> HIDE DEF s
    <3>1. \A i \in 1..k : s[i] > target <=> i \in 1..m
      BY <1>5, <2>1, <2>2, <2>4
    <3> QED
      BY <2>2, <2>4, <3>1
  <2>6. Chosen(s, 1..m) = [i \in 1..m |-> s[i]]
    <3> HIDE DEF s, m
    <3>1. m \in 0..Len(s)
      BY <2>2, <2>4
    <3> QED
      BY <1>1, <3>1, ChosenPrefix
  <2>7. \A i \in 1..m : s[i] = k + 1 - i
    BY <2>2, <2>4
  <2>8. ToUndo(t, target) = [i \in 1..m |-> k + 1 - i]
    <3> HIDE DEF s, m, P
    <3> QED
      BY <1>2, <2>5, <2>6, <2>7
  <2> QED
    BY <2>2, <2>8
<1> QED
  BY <1>4, <1>5

-----------------------------------------------------------------------------
(* Types.                                                                  *)

Jobs == [op : Operations, todo : Seq(Tenants), revs : Seq(All),
         at : 0..(Statements + 1), target : Targets]
Results == [op : Operations, tenant : Tenants \cup {NoSchema},
            outcome : {"ok", "failed", "refused"}, target : Targets]

LEMMA NoJobTyped == NoJob \in Jobs /\ NoResult \in Results
<1>1. -1 \in Targets /\ 0 \in 0..(Statements + 1)
  BY ProvisionerAssumption DEF Targets
<1> QED
  BY <1>1 DEF NoJob, NoResult, Jobs, Results, Operations

LEMMA EndTyped ==
  ASSUME TypeOK, NEW outcome \in {"ok", "failed"}, End(outcome)
  PROVE  job' \in Jobs /\ result' \in Results
<1>1. job \in Jobs
  BY DEF TypeOK, Jobs, All
<1>2. (IF job.todo = <<>> THEN NoSchema ELSE Schema) \in Tenants \cup {NoSchema}
  BY <1>1, HeadTail DEF Schema, Jobs
<1> QED
  BY <1>1, <1>2, NoJobTyped DEF End, Jobs, Results

LEMMA AdvanceTyped ==
  ASSUME TypeOK, CallInv, job.revs # <<>>, Advance
  PROVE  job' \in Jobs /\ result' \in Results
<1>1. job \in Jobs /\ result \in Results
  BY DEF TypeOK, Jobs, Results, All
<1>2. 1 \in 0..(Statements + 1) /\ 0 \in 0..(Statements + 1)
  BY ProvisionerAssumption
<1>3. CASE Len(job.revs) > 1
  <2>1. Tail(job.revs) \in Seq(All)
    BY <1>1, HeadTail DEF Jobs
  <2> QED
    BY <1>1, <1>2, <1>3, <2>1 DEF Advance, Jobs
<1>4. CASE ~ (Len(job.revs) > 1) /\ job.op = "migrate"
  <2>1. Tail(job.todo) \in Seq(Tenants)
    BY <1>1, <1>4, HeadTail DEF Jobs, CallInv
  <2>2. <<>> \in Seq(All)
    OBVIOUS
  <2>3. job' = [job EXCEPT !.todo = Tail(@), !.revs = <<>>, !.at = 0] /\ result' = result
    BY <1>4 DEF Advance
  <2> QED
    BY <1>1, <1>2, <1>4, <2>1, <2>2, <2>3 DEF Jobs
<1>5. CASE ~ (Len(job.revs) > 1) /\ job.op # "migrate"
  BY <1>5, EndTyped DEF Advance
<1> QED
  BY <1>3, <1>4, <1>5

LEMMA NextStatementTyped ==
  ASSUME TypeOK, job.at <= Statements, NextStatement
  PROVE  job' \in Jobs /\ result' \in Results
<1>1. job \in Jobs /\ result \in Results
  BY DEF TypeOK, Jobs, Results, All
<1>2. job.at + 1 \in 0..(Statements + 1)
  BY <1>1, ProvisionerAssumption DEF Jobs
<1> QED
  BY <1>1, <1>2 DEF NextStatement, Jobs

\* Forgetting a revision leaves a list of revisions.
LEMMA RemoveFirstTyped ==
  ASSUME NEW S, NEW s \in Seq(S), NEW e
  PROVE  RemoveFirst(s, e) \in Seq(S)
<1>1. CASE \E i \in 1..Len(s) : s[i] = e
  <2> DEFINE I == {i \in 1..Len(s) : s[i] = e}
             n == SelectInSeq(s, LAMBDA v : v = e)
  <2>1. I \subseteq Nat /\ I # {}
    BY <1>1
  <2>2. PICK m \in I : \A j \in I : m <= j
    BY <2>1, LeastNat
  <2>3. Min(I) \in I
    BY <2>2 DEF Min
  <2>4. n = Min(I)
    BY <2>1 DEF SelectInSeq
  <2>5. n \in 1..Len(s)
    BY <2>3, <2>4
  <2>6. RemoveFirst(s, e) = RemoveAt(s, n)
    BY <1>1 DEF RemoveFirst
  <2> HIDE DEF n
  <2> QED
    BY <2>5, <2>6, RemoveAtFacts
<1>2. CASE ~ \E i \in 1..Len(s) : s[i] = e
  BY <1>2 DEF RemoveFirst
<1> QED
  BY <1>1, <1>2

\* The types of the database, the provisioner's list and the active schema.
StoreTypes ==
  /\ loader \in BOOLEAN /\ schemas \subseteq Tenants
  /\ objects \in [Tenants -> [All -> 0..Statements]]
  /\ meta \in [Tenants -> SUBSET Revisions]
  /\ undoing \in [Tenants -> SUBSET Revisions]
  /\ applied \in [Tenants -> Seq(All)]
  /\ active_schema \in Tenants \cup {NoSchema}

LEMMA TypeParts == TypeOK <=> StoreTypes /\ job \in Jobs /\ result \in Results
  BY DEF TypeOK, StoreTypes, Jobs, Results, All

\* A running call has a schema and a revision.
LEMMA RunningFacts ==
  ASSUME TypeOK, CallInv, job.revs # <<>>
  PROVE  /\ job \in Jobs /\ result \in Results /\ job.op # "none"
         /\ job.todo # <<>> /\ Schema \in Tenants /\ active_schema = Schema
         /\ Rev \in All /\ Rev = job.revs[1] /\ Len(job.revs) \in Nat /\ Len(job.revs) >= 1
<1>1. job \in Jobs /\ result \in Results
  BY TypeParts
<1>2. job.op # "none"
  BY DEF CallInv, NoJob
<1>3. job.todo # <<>>
  <2>1. Len(<<>>) = 0
    OBVIOUS
  <2>2. CASE job.op = "migrate"
    BY <2>2 DEF CallInv
  <2>3. CASE job.op \in {"create", "downgrade"}
    BY <2>1, <2>3 DEF CallInv
  <2> QED
    BY <1>1, <1>2, <2>2, <2>3 DEF Jobs, Operations
<1> QED
  BY <1>1, <1>2, <1>3, HeadTail DEF CallInv, Jobs, Schema, Rev

\* A statement changes the count of one revision of one schema.
LEMMA SetObject ==
  ASSUME NEW o \in [Tenants -> [All -> 0..Statements]], NEW t \in Tenants, NEW r \in All,
         NEW n \in 0..Statements
  PROVE  /\ [o EXCEPT ![t][r] = n] \in [Tenants -> [All -> 0..Statements]]
         /\ [o EXCEPT ![t][r] = n][t][r] = n
         /\ \A u \in Tenants : u # t => [o EXCEPT ![t][r] = n][u] = o[u]
         /\ \A q \in All : q # r => [o EXCEPT ![t][r] = n][t][q] = o[t][q]
  OBVIOUS

LEMMA TypeStep == TypeOK /\ CallInv /\ [Next]_vars => TypeOK'
<1> SUFFICES ASSUME TypeOK, CallInv, [Next]_vars PROVE TypeOK'
  OBVIOUS
<1>0. StoreTypes /\ job \in Jobs /\ result \in Results
  BY TypeParts
<1>p. StoreTypes' /\ job' \in Jobs /\ result' \in Results => TypeOK'
  BY DEF TypeOK, StoreTypes, Jobs, Results, All
<1>1. ASSUME NEW t \in Tenants, StartCreate(t) PROVE TypeOK'
  <2>1. job' \in Jobs
    <3>1. <<t>> \in Seq(Tenants) /\ <<Template>> \in Seq(All) /\ "create" \in Operations
      BY DEF All, Operations
    <3> QED
      BY <1>1, <3>1, NoJobTyped DEF StartCreate, Jobs
  <2> QED
    BY <1>0, <1>1, <1>p, <2>1, NoJobTyped DEF StartCreate, db, StoreTypes
<1>2. CASE StartMigrate
  <2>1. PICK list \in SetToSeqs(Tenants) : job' = [NoJob EXCEPT !.op = "migrate", !.todo = list]
    BY <1>2 DEF StartMigrate
  <2>2. Cardinality(Tenants) \in Nat
    BY ProvisionerAssumption, FS_CardinalityType
  <2>3. list \in Seq(Tenants)
    BY <2>1, <2>2 DEF SetToSeqs
  <2>4. job' \in Jobs
    BY <2>1, <2>3, NoJobTyped DEF Jobs, Operations
  <2> QED
    BY <1>0, <1>2, <1>p, <2>4, NoJobTyped DEF StartMigrate, db, StoreTypes
<1>3. CASE VisitTenant
  <2>1. Schema \in Tenants /\ Tail(job.todo) \in Seq(Tenants)
    BY <1>0, <1>3, HeadTail DEF VisitTenant, Schema, Jobs
  <2>2. _pending(Schema) \in Seq(All)
    BY <2>1, PendingFacts
  <2>3. job' \in Jobs
    BY <1>0, <1>3, <2>1, <2>2 DEF VisitTenant, Jobs
  <2>4. StoreTypes'
    BY <1>0, <1>3, <2>1 DEF VisitTenant, StoreTypes, db
  <2> QED
    BY <1>0, <1>3, <1>p, <2>3, <2>4 DEF VisitTenant
<1>4. CASE MigrateReturns
  BY <1>0, <1>4, <1>p, EndTyped DEF MigrateReturns, StoreTypes, db
<1>5. CASE Scope
  <2>1. Schema \in Tenants
    BY <1>5, RunningFacts DEF Scope, Running
  <2>2. job' \in Jobs /\ result' \in Results
    <3>1. job.at <= Statements
      BY <1>5, ProvisionerAssumption DEF Scope
    <3> QED
      BY <1>5, <3>1, NextStatementTyped, EndTyped DEF Scope, Raise
  <2>3. StoreTypes'
    BY <1>0, <1>5, <2>1 DEF Scope, StoreTypes
  <2> QED
    BY <1>p, <2>2, <2>3
<1>6. CASE Up
  <2>1. active_schema \in Tenants /\ Rev \in All
    BY <1>6, RunningFacts DEF Up, Running
  <2>2. job' \in Jobs /\ result' \in Results
    <3>1. job.at <= Statements
      BY <1>0, <1>6, ProvisionerAssumption DEF Up, Jobs
    <3> QED
      BY <1>6, <3>1, NextStatementTyped, EndTyped DEF Up, Raise
  <2>3. objects' \in [Tenants -> [All -> 0..Statements]]
    <3>1. job.at \in 0..Statements
      BY <1>6, ProvisionerAssumption DEF Up
    <3>2. objects' = objects \/ objects' = [objects EXCEPT ![active_schema][Rev] = job.at]
      BY <1>6 DEF Up
    <3>3. objects \in [Tenants -> [All -> 0..Statements]]
      BY <1>0 DEF StoreTypes
    <3>4. [objects EXCEPT ![active_schema][Rev] = job.at] \in [Tenants -> [All -> 0..Statements]]
      BY <2>1, <3>1, <3>3, SetObject
    <3> QED
      BY <3>2, <3>3, <3>4
  <2>4. StoreTypes'
    BY <1>0, <1>6, <2>3 DEF Up, StoreTypes
  <2> QED
    BY <1>p, <2>2, <2>4
<1>7. CASE _record
  <2>1. Schema \in Tenants /\ Rev \in All /\ job.revs # <<>>
    BY <1>7, RunningFacts DEF _record, Running
  <2>2. job' \in Jobs /\ result' \in Results
    BY <1>7, <2>1, AdvanceTyped, EndTyped DEF _record, Raise
  <2>3. applied' \in [Tenants -> Seq(All)]
    <3>1. Append(applied[Schema], Rev) \in Seq(All)
      BY <1>0, <2>1 DEF StoreTypes
    <3> QED
      BY <1>0, <1>7, <3>1 DEF _record, StoreTypes
  <2>4. meta' \in [Tenants -> SUBSET Revisions]
    <3>1. Rev # Template => Rev \in Revisions
      BY <2>1 DEF All
    <3>2. \/ meta' = meta
          \/ Rev # Template /\ meta' = [meta EXCEPT ![Schema] = @ \cup {Rev}]
      BY <1>7 DEF _record
    <3>3. meta \in [Tenants -> SUBSET Revisions]
      BY <1>0 DEF StoreTypes
    <3> QED
      BY <3>1, <3>2, <3>3
  <2>5. StoreTypes'
    BY <1>0, <1>7, <2>3, <2>4 DEF _record, StoreTypes
  <2> QED
    BY <1>p, <2>2, <2>5
<1>8. ASSUME NEW t \in Tenants, NEW target \in Targets, StartDowngrade(t, target) PROVE TypeOK'
  <2>1. ToUndo(t, target) \in Seq(All)
    BY UndoFacts
  <2>2. 1 \in 0..(Statements + 1)
    BY ProvisionerAssumption
  <2>3. job' \in Jobs
    <3>1. [op |-> "downgrade", todo |-> <<t>>, revs |-> ToUndo(t, target), at |-> 1,
           target |-> target] \in Jobs
      BY <2>1, <2>2 DEF Jobs, Operations
    <3> QED
      BY <1>0, <1>8, <3>1, NoJobTyped DEF StartDowngrade
  <2>4. result' \in Results
    BY <1>8, NoJobTyped DEF StartDowngrade, Results, Operations
  <2>5. StoreTypes'
    BY <1>0, <1>8 DEF StartDowngrade, StoreTypes, db
  <2> QED
    BY <1>p, <2>3, <2>4, <2>5
<1>9. CASE NoDownArtifact
  BY <1>0, <1>9, <1>p, EndTyped DEF NoDownArtifact, Raise, StoreTypes, db
<1>10. CASE Down
  <2>1. active_schema \in Tenants /\ Rev \in All /\ Rev \in Revisions
    BY <1>10, RunningFacts, ProvisionerAssumption DEF Down, Running
  <2>2. job' \in Jobs /\ result' \in Results
    <3>1. job.at <= Statements
      BY <1>0, <1>10, ProvisionerAssumption DEF Down, Jobs
    <3> QED
      BY <1>10, <3>1, NextStatementTyped, EndTyped DEF Down, Raise
  <2>3. Statements - job.at \in 0..Statements
    BY <1>10, ProvisionerAssumption DEF Down
  <2>4. objects' \in [Tenants -> [All -> 0..Statements]]
    <3>1. \/ objects' = objects
          \/ objects' = [objects EXCEPT ![active_schema][Rev] = Statements - job.at]
      BY <1>10 DEF Down
    <3>2. objects \in [Tenants -> [All -> 0..Statements]]
      BY <1>0 DEF StoreTypes
    <3>3. [objects EXCEPT ![active_schema][Rev] = Statements - job.at]
             \in [Tenants -> [All -> 0..Statements]]
      BY <2>1, <2>3, <3>2, SetObject
    <3> QED
      BY <3>1, <3>2, <3>3
  <2>5. undoing' \in [Tenants -> SUBSET Revisions]
    <3>1. \/ undoing' = undoing
          \/ undoing' = [undoing EXCEPT ![active_schema] = @ \cup {Rev}]
      BY <1>10 DEF Down
    <3>2. undoing \in [Tenants -> SUBSET Revisions] /\ Rev \in Revisions
      BY <1>0, <2>1 DEF StoreTypes
    <3> QED
      BY <3>1, <3>2
  <2>6. StoreTypes'
    BY <1>0, <1>10, <2>4, <2>5 DEF Down, StoreTypes
  <2> QED
    BY <1>p, <2>2, <2>6
<1>11. CASE Forget
  <2>1. Schema \in Tenants /\ job.revs # <<>>
    BY <1>11, RunningFacts DEF Forget, Running
  <2>2. job' \in Jobs /\ result' \in Results
    BY <1>11, <2>1, AdvanceTyped DEF Forget
  <2>3. applied' \in [Tenants -> Seq(All)]
    <3>1. RemoveFirst(applied[Schema], Rev) \in Seq(All)
      BY <1>0, <2>1, RemoveFirstTyped DEF StoreTypes
    <3> QED
      BY <1>0, <1>11, <3>1 DEF Forget, StoreTypes
  <2>4. StoreTypes'
    BY <1>0, <1>11, <2>3 DEF Forget, StoreTypes
  <2> QED
    BY <1>p, <2>2, <2>4
<1>12. CASE StatementFails
  BY <1>0, <1>12, <1>p, EndTyped DEF StatementFails, Raise, StoreTypes, db
<1>13. CASE Restart
  BY <1>0, <1>13, <1>p, NoJobTyped DEF Restart, StoreTypes, db
<1>14. CASE UNCHANGED vars
  BY <1>0, <1>14, <1>p DEF vars, StoreTypes
<1> QED
  BY <1>1, <1>2, <1>3, <1>4, <1>5, <1>6, <1>7, <1>8, <1>9, <1>10, <1>11, <1>12, <1>13, <1>14
     DEF Next, Step, Statement

-----------------------------------------------------------------------------
(* The running call.                                                       *)

LEMMA NoJobCall == job' = NoJob => CallInv'
  BY DEF NoJob, CallInv

LEMMA NextStatementCall ==
  ASSUME TypeOK, CallInv, job.revs # <<>>, NextStatement, active_schema' = active_schema
  PROVE  CallInv' /\ Schema' = Schema /\ Rev' = Rev
<1>1. job \in Jobs /\ job.op # "none"
  BY RunningFacts
<1>2. /\ job'.op = job.op /\ job'.todo = job.todo /\ job'.revs = job.revs
      /\ job'.at = job.at + 1 /\ result' = result
  BY <1>1 DEF NextStatement, Jobs
<1>3. Schema' = Schema /\ Rev' = Rev
  BY <1>2 DEF Schema, Rev
<1>4. job.op = "downgrade" => job'.at >= 1
  BY <1>1, <1>2, ProvisionerAssumption DEF CallInv, Jobs
<1> QED
  BY <1>1, <1>2, <1>3, <1>4 DEF CallInv

\* The two ways a call that does not end goes on.
LEMMA AdvanceShape ==
  ASSUME TypeOK, CallInv, job.revs # <<>>, Advance
  PROVE  \/ /\ Len(job.revs) > 1 /\ job' = [job EXCEPT !.revs = Tail(@), !.at = 1]
            /\ job.op # "create" /\ result' = result
         \/ /\ Len(job.revs) = 1 /\ job.op = "migrate" /\ result' = result
            /\ job' = [job EXCEPT !.todo = Tail(@), !.revs = <<>>, !.at = 0]
         \/ Len(job.revs) = 1 /\ job.op \in {"create", "downgrade"} /\ End("ok")
<1>1. job \in Jobs /\ job.op # "none" /\ Len(job.revs) \in Nat /\ Len(job.revs) >= 1
  BY RunningFacts
<1>2. job.op = "create" => Len(job.revs) = 1
  <2>1. Len(<<Template>>) = 1
    OBVIOUS
  <2> QED
    BY <2>1 DEF CallInv
<1>3. /\ Len(job.revs) > 1 \/ Len(job.revs) = 1
      /\ ~ (Len(job.revs) > 1 /\ Len(job.revs) = 1)
  <2> DEFINE n == Len(job.revs)
  <2>1. n \in Nat /\ n >= 1
    BY <1>1
  <2> HIDE DEF n
  <2>2. (n > 1 \/ n = 1) /\ ~ (n > 1 /\ n = 1)
    BY <2>1
  <2> QED
    BY <2>2 DEF n
<1>4. CASE Len(job.revs) > 1
  <2>1. job.op # "create"
    BY <1>2, <1>4, <1>3, Zenon
  <2>2. job' = [job EXCEPT !.revs = Tail(@), !.at = 1] /\ result' = result
    BY <1>4 DEF Advance
  <2> QED
    BY <1>4, <2>1, <2>2
<1>5. CASE Len(job.revs) = 1 /\ job.op = "migrate"
  <2>1. /\ job' = [job EXCEPT !.todo = Tail(@), !.revs = <<>>, !.at = 0]
        /\ result' = result
    BY <1>5 DEF Advance
  <2> QED
    BY <1>5, <2>1
<1>6. CASE Len(job.revs) = 1 /\ job.op # "migrate"
  <2>1. End("ok")
    BY <1>6 DEF Advance
  <2>2. job.op \in {"create", "downgrade"}
    BY <1>1, <1>6 DEF Jobs, Operations
  <2> QED
    BY <1>6, <2>1, <2>2
<1> QED
  BY <1>4, <1>5, <1>6, <1>3, Zenon

LEMMA AdvanceCall ==
  ASSUME TypeOK, CallInv, job.revs # <<>>, Advance, active_schema' = active_schema
  PROVE  CallInv'
<1>1. job \in Jobs /\ job.op # "none" /\ active_schema = Schema /\ job.todo # <<>>
  BY RunningFacts
<1>2. CASE /\ Len(job.revs) > 1 /\ job' = [job EXCEPT !.revs = Tail(@), !.at = 1]
           /\ job.op # "create" /\ result' = result
  <2>1. /\ job'.op = job.op /\ job'.todo = job.todo /\ job'.revs = Tail(job.revs)
        /\ job'.at = 1
    BY <1>1, <1>2 DEF Jobs
  <2>2. job'.revs # <<>>
    BY <1>1, <1>2, <2>1, HeadTail DEF Jobs
  <2>3. Schema' = Schema
    BY <2>1 DEF Schema
  <2> QED
    BY <1>1, <1>2, <2>1, <2>2, <2>3 DEF CallInv
<1>3. CASE /\ Len(job.revs) = 1 /\ job.op = "migrate" /\ result' = result
           /\ job' = [job EXCEPT !.todo = Tail(@), !.revs = <<>>, !.at = 0]
  <2>1. /\ job'.op = "migrate" /\ job'.todo = Tail(job.todo) /\ job'.revs = <<>>
        /\ job'.at = 0
    BY <1>1, <1>3 DEF Jobs
  <2>2. ASSUME NEW i \in 1..Len(job'.todo), NEW j \in 1..Len(job'.todo), i # j
        PROVE  job'.todo[i] # job'.todo[j]
    <3>1. /\ Len(job'.todo) = Len(job.todo) - 1 /\ Len(job.todo) \in Nat
          /\ job'.todo[i] = job.todo[i + 1] /\ job'.todo[j] = job.todo[j + 1]
      BY <1>1, <2>1, HeadTail DEF Jobs
    <3>2. i + 1 \in 1..Len(job.todo) /\ j + 1 \in 1..Len(job.todo) /\ i + 1 # j + 1
      BY <2>2, <3>1
    <3> QED
      BY <1>3, <3>1, <3>2 DEF CallInv
  <2> QED
    BY <1>1, <1>3, <2>1, <2>2 DEF CallInv
<1>4. CASE End("ok")
  BY <1>4, NoJobCall DEF End
<1> QED
  BY <1>2, <1>3, <1>4, AdvanceShape

LEMMA CallStep == TypeOK /\ CallInv /\ [Next]_vars => CallInv'
<1> SUFFICES ASSUME TypeOK, CallInv, [Next]_vars PROVE CallInv'
  OBVIOUS
<1>0. job \in Jobs /\ result \in Results
  BY TypeParts
<1>1. ASSUME NEW t \in Tenants, StartCreate(t) PROVE CallInv'
  <2>1. /\ job'.op = "create" /\ job'.todo = <<t>> /\ job'.revs = <<Template>>
        /\ result' = NoResult /\ active_schema' = t
    BY <1>1 DEF StartCreate, NoJob
  <2>2. Schema' = t
    BY <2>1 DEF Schema
  <2>3. Len(<<t>>) = 1 /\ <<Template>> # <<>>
    OBVIOUS
  <2> QED
    BY <2>1, <2>2, <2>3 DEF CallInv
<1>2. CASE StartMigrate
  <2>1. PICK list \in SetToSeqs(Tenants) : job' = [NoJob EXCEPT !.op = "migrate", !.todo = list]
    BY <1>2 DEF StartMigrate
  <2>2. /\ job'.op = "migrate" /\ job'.todo = list /\ job'.revs = <<>> /\ job'.at = 0
        /\ result' = NoResult
    BY <1>2, <2>1 DEF StartMigrate, NoJob
  <2>3. Cardinality(Tenants) \in Nat
    BY ProvisionerAssumption, FS_CardinalityType
  <2>4. /\ list \in [1..Cardinality(Tenants) -> Tenants]
        /\ \A i, j \in 1..Cardinality(Tenants) : i # j => list[i] # list[j]
    BY <2>1 DEF SetToSeqs
  <2>5. Len(list) = Cardinality(Tenants)
    BY <2>3, <2>4
  <2> QED
    BY <2>2, <2>4, <2>5 DEF CallInv
<1>3. CASE VisitTenant
  <2>0. job.op = "migrate" /\ job.revs = <<>> /\ job.todo # <<>> /\ result' = result
    BY <1>3 DEF VisitTenant
  <2>1. CASE _pending(Schema) = <<>>
    <3>1. /\ job'.op = "migrate" /\ job'.todo = Tail(job.todo) /\ job'.revs = <<>>
          /\ job'.at = job.at
      BY <1>0, <1>3, <2>1 DEF VisitTenant, Jobs
    <3>2. ASSUME NEW i \in 1..Len(job'.todo), NEW j \in 1..Len(job'.todo), i # j
          PROVE  job'.todo[i] # job'.todo[j]
      <4>1. /\ Len(job'.todo) = Len(job.todo) - 1 /\ Len(job.todo) \in Nat
            /\ job'.todo[i] = job.todo[i + 1] /\ job'.todo[j] = job.todo[j + 1]
        BY <1>0, <2>0, <3>1, HeadTail DEF Jobs
      <4>2. i + 1 \in 1..Len(job.todo) /\ j + 1 \in 1..Len(job.todo) /\ i + 1 # j + 1
        BY <3>2, <4>1
      <4> QED
        BY <2>0, <4>1, <4>2 DEF CallInv
    <3> QED
      BY <2>0, <3>1, <3>2 DEF CallInv
  <2>2. CASE _pending(Schema) # <<>>
    <3>1. /\ job'.op = "migrate" /\ job'.todo = job.todo /\ job'.revs = _pending(Schema)
          /\ job'.at = job.at /\ active_schema' = Schema
      BY <1>0, <1>3, <2>2 DEF VisitTenant, Jobs
    <3>2. Schema' = Schema
      BY <3>1 DEF Schema
    <3> QED
      BY <2>0, <2>2, <3>1, <3>2 DEF CallInv
  <2> QED
    BY <2>1, <2>2
<1>4. CASE MigrateReturns
  BY <1>4, NoJobCall DEF MigrateReturns, End
<1>5. CASE Scope
  <2>1. job.revs # <<>> /\ active_schema' = active_schema
    BY <1>5 DEF Scope, Running
  <2>2. NextStatement \/ job' = NoJob
    BY <1>5 DEF Scope, Raise, End
  <2> QED
    BY <2>1, <2>2, NextStatementCall, NoJobCall
<1>6. CASE Up
  <2>1. job.revs # <<>> /\ active_schema' = active_schema
    BY <1>6 DEF Up, Running
  <2>2. NextStatement \/ job' = NoJob
    BY <1>6 DEF Up, Raise, End
  <2> QED
    BY <2>1, <2>2, NextStatementCall, NoJobCall
<1>7. CASE _record
  <2>1. job.revs # <<>> /\ active_schema' = active_schema
    BY <1>7 DEF _record, Running
  <2>2. Advance \/ job' = NoJob
    BY <1>7 DEF _record, Raise, End
  <2> QED
    BY <2>1, <2>2, AdvanceCall, NoJobCall
<1>8. ASSUME NEW t \in Tenants, NEW target \in Targets, StartDowngrade(t, target) PROVE CallInv'
  <2>1. CASE job' = NoJob
    BY <2>1, NoJobCall
  <2>2. CASE job' # NoJob
    <3>1. /\ job'.op = "downgrade" /\ job'.todo = <<t>> /\ job'.revs = ToUndo(t, target)
          /\ job'.at = 1 /\ ToUndo(t, target) # <<>>
          /\ result' = NoResult /\ active_schema' = t
      BY <1>8, <2>2 DEF StartDowngrade
    <3>2. Schema' = t
      BY <3>1 DEF Schema
    <3>3. Len(<<t>>) = 1
      OBVIOUS
    <3> QED
      BY <3>1, <3>2, <3>3 DEF CallInv
  <2> QED
    BY <2>1, <2>2
<1>9. CASE NoDownArtifact
  BY <1>9, NoJobCall DEF NoDownArtifact, Raise, End
<1>10. CASE Down
  <2>1. job.revs # <<>> /\ active_schema' = active_schema
    BY <1>10 DEF Down, Running
  <2>2. NextStatement \/ job' = NoJob
    BY <1>10 DEF Down, Raise, End
  <2> QED
    BY <2>1, <2>2, NextStatementCall, NoJobCall
<1>11. CASE Forget
  BY <1>11, AdvanceCall DEF Forget, Running
<1>12. CASE StatementFails
  BY <1>12, NoJobCall DEF StatementFails, Raise, End
<1>13. CASE Restart
  BY <1>13, NoJobCall DEF Restart
<1>14. CASE UNCHANGED vars
  BY <1>14 DEF vars, CallInv, Schema
<1> QED
  BY <1>1, <1>2, <1>3, <1>4, <1>5, <1>6, <1>7, <1>8, <1>9, <1>10, <1>11, <1>12, <1>13, <1>14
     DEF Next, Step, Statement

-----------------------------------------------------------------------------
(* Statements and records.                                                 *)

\* Steps that change no schema keep the records true.
LEMMA SameRecords == RecordedIsComplete /\ UNCHANGED db => RecordedIsComplete'
  BY DEF RecordedIsComplete, db

LEMMA NoJobProgress == job' = NoJob => Progress'
  BY DEF Progress, NoJob

Effects == RecordedIsComplete /\ Progress

LEMMA EffectStep == TypeOK /\ CallInv /\ Effects /\ TypeOK' /\ [Next]_vars => Effects'
<1> SUFFICES ASSUME TypeOK, CallInv, Effects, TypeOK', [Next]_vars PROVE Effects'
  OBVIOUS
<1>0. StoreTypes /\ job \in Jobs /\ RecordedIsComplete /\ Progress
  BY TypeParts DEF Effects
<1>p. RecordedIsComplete' /\ Progress' => Effects'
  BY DEF Effects
<1>1. ASSUME NEW t \in Tenants, StartCreate(t) PROVE Effects'
  <2>1. job'.at = 0
    BY <1>1 DEF StartCreate, NoJob
  <2>2. Progress'
    BY <2>1 DEF Progress
  <2> QED
    BY <1>0, <1>1, <1>p, <2>2, SameRecords DEF StartCreate
<1>2. CASE StartMigrate
  <2>1. job'.revs = <<>>
    BY <1>2 DEF StartMigrate, NoJob
  <2>2. Progress'
    BY <2>1 DEF Progress
  <2> QED
    BY <1>0, <1>2, <1>p, <2>2, SameRecords DEF StartMigrate
<1>3. CASE VisitTenant
  <2>1. job'.at = 0
    BY <1>0, <1>3 DEF VisitTenant, CallInv, Jobs
  <2>2. Progress'
    BY <2>1 DEF Progress
  <2> QED
    BY <1>0, <1>3, <1>p, <2>2, SameRecords DEF VisitTenant
<1>4. CASE MigrateReturns
  BY <1>0, <1>4, <1>p, SameRecords, NoJobProgress DEF MigrateReturns, End
<1>5. CASE Scope
  <2>1. /\ job.revs # <<>> /\ job.at = 0 /\ active_schema' = active_schema
        /\ objects' = objects /\ meta' = meta /\ undoing' = undoing
        /\ schemas \subseteq schemas'
    BY <1>5 DEF Scope, Running
  <2>2. RecordedIsComplete'
    BY <1>0, <2>1 DEF RecordedIsComplete
  <2>3. CASE NextStatement
    <3>1. Schema' = Schema /\ Rev' = Rev /\ Schema \in Tenants /\ Rev \in All
      BY <2>1, <2>3, NextStatementCall, RunningFacts
    <3>2. job'.at = 1
      BY <1>0, <2>1, <2>3 DEF NextStatement, Jobs
    <3>3. NextStatement => Schema \in schemas' \/ job' = NoJob
      BY <1>5 DEF Scope, Raise, End
    <3>4. objects[Schema][Rev] \in 0..Statements
      BY <1>0, <3>1 DEF StoreTypes
    <3>5. objects'[Schema'][Rev'] >= job'.at - 1
      BY <2>1, <3>1, <3>2, <3>4, ProvisionerAssumption
    <3> QED
      BY <1>p, <2>2, <2>3, <3>1, <3>3, <3>5, NoJobProgress DEF Progress
  <2>4. CASE job' = NoJob
    BY <1>p, <2>2, <2>4, NoJobProgress
  <2> QED
    BY <1>5, <2>3, <2>4 DEF Scope, Raise, End
<1>6. CASE Up
  <2>0. /\ Running("create") \/ Running("migrate")
        /\ job.revs # <<>> /\ job.at \in 1..Statements /\ active_schema' = active_schema
        /\ meta' = meta /\ undoing' = undoing /\ schemas' = schemas
    BY <1>6 DEF Up, Running
  <2>1. active_schema = Schema /\ Schema \in Tenants /\ Rev \in All
    BY <2>0, RunningFacts
  <2>2. /\ objects \in [Tenants -> [All -> 0..Statements]]
        /\ objects[Schema][Rev] \in 0..Statements /\ job.at \in 0..Statements
        /\ Statements \in Nat /\ meta \in [Tenants -> SUBSET Revisions]
    BY <1>0, <2>0, <2>1, ProvisionerAssumption DEF StoreTypes
  <2>3. \/ objects[Schema][Rev] >= job.at /\ objects' = objects
        \/ /\ ~ (objects[Schema][Rev] >= job.at)
           /\ objects' = [objects EXCEPT ![Schema][Rev] = job.at]
    BY <1>6, <2>1 DEF Up
  <2>4. \A t \in Tenants, r \in All :
          objects'[t][r] = objects[t][r] \/ (t = Schema /\ r = Rev /\ objects[t][r] # Statements)
    <3>1. CASE objects' = objects
      BY <3>1
    <3>2. CASE /\ ~ (objects[Schema][Rev] >= job.at)
               /\ objects' = [objects EXCEPT ![Schema][Rev] = job.at]
      <4>1. objects[Schema][Rev] # Statements
        BY <2>0, <2>2, <3>2
      <4> QED
        BY <2>1, <2>2, <3>2, <4>1, SetObject
    <3> QED
      BY <2>3, <3>1, <3>2
  <2>5. objects'[Schema][Rev] >= job.at
    BY <2>1, <2>2, <2>3, SetObject
  <2>6. RecordedIsComplete'
    <3> SUFFICES ASSUME NEW t \in Tenants, NEW r \in meta[t]
                 PROVE  t \in schemas /\ (objects'[t][r] = Statements \/ r \in undoing[t])
      BY <2>0 DEF RecordedIsComplete
    <3>1. t \in schemas /\ (objects[t][r] = Statements \/ r \in undoing[t]) /\ r \in All
      BY <1>0, <2>2 DEF RecordedIsComplete, All
    <3> QED
      BY <2>4, <3>1
  <2>7. CASE NextStatement
    <3>1. Schema' = Schema /\ Rev' = Rev
      BY <2>0, <2>7, NextStatementCall
    <3>2. job'.at - 1 = job.at
      BY <1>0, <2>0, <2>2, <2>7 DEF NextStatement, Jobs
    <3>3. Schema \in schemas
      BY <1>0, <2>0, <2>2 DEF Progress, Running
    <3> QED
      BY <1>p, <2>0, <2>5, <2>6, <3>1, <3>2, <3>3 DEF Progress
  <2>8. CASE job' = NoJob
    BY <1>p, <2>6, <2>8, NoJobProgress
  <2> QED
    BY <1>6, <2>7, <2>8 DEF Up, Raise, End
<1>7. CASE _record
  <2>0. /\ Running("create") \/ Running("migrate")
        /\ job.revs # <<>> /\ job.at = Statements + 1 /\ active_schema' = active_schema
        /\ objects' = objects /\ undoing' = undoing /\ schemas' = schemas
    BY <1>7 DEF _record, Running
  <2>1. Schema \in Tenants /\ Rev \in All /\ Statements \in Nat
    BY <2>0, RunningFacts, ProvisionerAssumption
  <2>2. Schema \in schemas /\ objects[Schema][Rev] = Statements
    <3>1. Schema \in schemas /\ objects[Schema][Rev] >= job.at - 1
      BY <1>0, <2>0, <2>1 DEF Progress, Running
    <3>2. objects[Schema][Rev] \in 0..Statements
      BY <1>0, <2>1 DEF StoreTypes
    <3> QED
      BY <2>0, <2>1, <3>1, <3>2
  <2>3. RecordedIsComplete'
    <3> SUFFICES ASSUME NEW t \in Tenants, NEW r \in meta'[t]
                 PROVE  t \in schemas /\ (objects[t][r] = Statements \/ r \in undoing[t])
      BY <2>0 DEF RecordedIsComplete
    <3>1. meta' = meta \/ meta' = [meta EXCEPT ![Schema] = @ \cup {Rev}]
      BY <1>7 DEF _record
    <3>2. r \in meta[t] \/ (t = Schema /\ r = Rev)
      BY <1>0, <3>1 DEF StoreTypes
    <3> QED
      BY <1>0, <2>2, <3>2 DEF RecordedIsComplete
  <2>4. CASE Advance
    <3>1. CASE /\ Len(job.revs) > 1 /\ job' = [job EXCEPT !.revs = Tail(@), !.at = 1]
               /\ job.op # "create" /\ result' = result
      <4>1. job'.todo = job.todo /\ job'.at = 1 /\ Schema' = Schema
        BY <1>0, <3>1 DEF Jobs, Schema
      <4>2. job'.revs # <<>> => Rev' \in All
        <5>1. job' \in Jobs
          BY DEF TypeOK, Jobs, All
        <5> QED
          BY <5>1, HeadTail DEF Jobs, Rev
      <4>3. job'.revs # <<>> => objects[Schema][Rev'] \in 0..Statements
        BY <1>0, <2>1, <4>2 DEF StoreTypes
      <4>4. job'.revs # <<>> => objects'[Schema'][Rev'] >= job'.at - 1
        BY <2>0, <2>1, <4>1, <4>3
      <4> QED
        BY <1>p, <2>0, <2>2, <2>3, <4>1, <4>4 DEF Progress
    <3>2. CASE job' = [job EXCEPT !.todo = Tail(@), !.revs = <<>>, !.at = 0]
      <4>1. job'.revs = <<>>
        BY <1>0, <3>2 DEF Jobs
      <4> QED
        BY <1>p, <2>3, <4>1 DEF Progress
    <3>3. CASE End("ok")
      BY <1>p, <2>3, <3>3, NoJobProgress DEF End
    <3> QED
      BY <2>0, <2>4, <3>1, <3>2, <3>3, AdvanceShape
  <2>5. CASE job' = NoJob
    BY <1>p, <2>3, <2>5, NoJobProgress
  <2> QED
    BY <1>7, <2>4, <2>5 DEF _record, Raise, End
<1>8. ASSUME NEW t \in Tenants, NEW target \in Targets, StartDowngrade(t, target) PROVE Effects'
  <2>1. job'.op \notin {"create", "migrate"}
    BY <1>8 DEF StartDowngrade, NoJob
  <2>2. Progress'
    BY <2>1 DEF Progress
  <2> QED
    BY <1>0, <1>8, <1>p, <2>2, SameRecords DEF StartDowngrade
<1>9. CASE NoDownArtifact
  BY <1>0, <1>9, <1>p, SameRecords, NoJobProgress DEF NoDownArtifact, Raise, End
<1>10. CASE Down
  <2>0. /\ job.op = "downgrade" /\ job.revs # <<>> /\ meta' = meta /\ schemas' = schemas
        /\ job.at \in 1..Statements
    BY <1>10 DEF Down, Running
  <2>1. active_schema \in Tenants /\ Rev \in All
    BY <2>0, RunningFacts
  <2>2. Statements - job.at \in 0..Statements
    BY <2>0, ProvisionerAssumption
  <2>3. \/ objects' = objects /\ undoing' = undoing
        \/ /\ objects' = [objects EXCEPT ![active_schema][Rev] = Statements - job.at]
           /\ undoing' = [undoing EXCEPT ![active_schema] = @ \cup {Rev}]
    BY <1>10 DEF Down
  <2>4. RecordedIsComplete'
    <3> SUFFICES ASSUME NEW t \in Tenants, NEW r \in meta[t]
                 PROVE  t \in schemas /\ (objects'[t][r] = Statements \/ r \in undoing'[t])
      BY <2>0 DEF RecordedIsComplete
    <3>1. t \in schemas /\ (objects[t][r] = Statements \/ r \in undoing[t]) /\ r \in All
      BY <1>0 DEF RecordedIsComplete, All, StoreTypes
    <3>2. CASE objects' = objects /\ undoing' = undoing
      BY <3>1, <3>2
    <3>3. CASE /\ objects' = [objects EXCEPT ![active_schema][Rev] = Statements - job.at]
               /\ undoing' = [undoing EXCEPT ![active_schema] = @ \cup {Rev}]
      <4>1. undoing[t] \subseteq undoing'[t]
        BY <1>0, <3>3 DEF StoreTypes
      <4>2. CASE t = active_schema /\ r = Rev
        BY <1>0, <3>1, <3>3, <4>2 DEF StoreTypes
      <4>3. CASE ~ (t = active_schema /\ r = Rev)
        <5>1. objects \in [Tenants -> [All -> 0..Statements]]
          BY <1>0 DEF StoreTypes
        <5>2. objects'[t][r] = objects[t][r]
          BY <2>1, <2>2, <3>1, <3>3, <4>3, <5>1, SetObject
        <5> QED
          BY <3>1, <4>1, <5>2
      <4> QED
        BY <4>2, <4>3
    <3> QED
      BY <2>3, <3>2, <3>3
  <2>5. job'.op \notin {"create", "migrate"}
    BY <1>0, <1>10, <2>0 DEF Down, NextStatement, Raise, End, NoJob, Jobs
  <2> QED
    BY <1>p, <2>4, <2>5 DEF Progress
<1>11. CASE Forget
  <2>0. /\ job.op = "downgrade" /\ job.revs # <<>> /\ objects' = objects /\ schemas' = schemas
        /\ meta' = [meta EXCEPT ![Schema] = @ \ {Rev}]
        /\ undoing' = [undoing EXCEPT ![Schema] = @ \ {Rev}]
    BY <1>11 DEF Forget, Running
  <2>1. RecordedIsComplete'
    BY <1>0, <2>0 DEF RecordedIsComplete, StoreTypes
  <2>2. job'.op \notin {"create", "migrate"}
    <3>1. job'.op = "downgrade" \/ job' = NoJob
      BY <1>0, <1>11, <2>0 DEF Forget, Advance, End, Jobs
    <3> QED
      BY <3>1 DEF NoJob
  <2> QED
    BY <1>p, <2>1, <2>2 DEF Progress
<1>12. CASE StatementFails
  BY <1>0, <1>12, <1>p, SameRecords, NoJobProgress DEF StatementFails, Raise, End
<1>13. CASE Restart
  BY <1>0, <1>13, <1>p, SameRecords, NoJobProgress DEF Restart
<1>14. CASE UNCHANGED vars
  BY <1>0, <1>14, <1>p DEF vars, Progress, Schema, Rev, RecordedIsComplete
<1> QED
  BY <1>1, <1>2, <1>3, <1>4, <1>5, <1>6, <1>7, <1>8, <1>9, <1>10, <1>11, <1>12, <1>13, <1>14
     DEF Next, Step, Statement

-----------------------------------------------------------------------------
(* The order of the records.                                               *)

\* A call that ended without success, or a new one that has done nothing.
LEMMA SequelEnds ==
  ASSUME Consecutive, meta' = meta, job'.op \notin {"migrate", "downgrade"},
         result'.outcome # "ok" \/ result'.op \notin {"migrate", "downgrade"}
  PROVE  Sequel'
<1>1. Consecutive'
  BY DEF Consecutive
<1> QED
  BY <1>1 DEF Sequel, Visited, Ahead, Behind, Returned

\* The next statement of the same artifact.
LEMMA SequelSame ==
  ASSUME TypeOK, CallInv, job.revs # <<>>, Sequel, NextStatement, meta' = meta
  PROVE  Sequel'
<1>1. job \in Jobs
  BY RunningFacts
<1>2. /\ job'.op = job.op /\ job'.todo = job.todo /\ job'.revs = job.revs
      /\ job'.target = job.target /\ result' = result
  BY <1>1 DEF NextStatement, Jobs
<1>3. Schema' = Schema /\ Rev' = Rev
  BY <1>2 DEF Schema, Rev
<1> QED
  BY <1>2, <1>3 DEF Sequel, Consecutive, Visited, Ahead, Behind, Returned

\* An error ends the call.
LEMMA SequelRaises ==
  ASSUME Sequel, Raise, meta' = meta
  PROVE  Sequel'
<1>1. job' = NoJob /\ result'.outcome = "failed"
  BY DEF Raise, End
<1>2. job'.op = "none"
  BY <1>1 DEF NoJob
<1> QED
  BY <1>1, <1>2, SequelEnds DEF Sequel

\* A list of all tenants, each once, leaves none out.
LEMMA ListsAll == \A list \in SetToSeqs(Tenants) : ToSet(list) = Tenants
<1> SUFFICES ASSUME NEW list \in SetToSeqs(Tenants) PROVE ToSet(list) = Tenants
  OBVIOUS
<1> DEFINE n == Cardinality(Tenants)
<1>1. n \in Nat /\ IsFiniteSet(Tenants)
  BY ProvisionerAssumption, FS_CardinalityType
<1>2. list \in [1..n -> Tenants] /\ \A i, j \in 1..n : i # j => list[i] # list[j]
  BY DEF SetToSeqs
<1>3. list \in Injection(1..n, Tenants)
  BY <1>2 DEF Injection, IsInjective
<1>4. Cardinality(1..n) = n
  BY <1>1, FS_Interval
<1>5. list \in Surjection(1..n, Tenants)
  BY <1>1, <1>3, <1>4, FS_Injection
<1> QED
  BY <1>2, <1>5 DEF Surjection, ToSet

\* A recorded revision extends the prefix.
LEMMA SequelRecord ==
  ASSUME TypeOK, CallInv, Sequel, _record
  PROVE  Sequel'
<1>0. /\ job \in Jobs /\ result \in Results /\ meta \in [Tenants -> SUBSET Revisions]
      /\ LastRevision \in Nat /\ Revisions = 1..LastRevision
  BY TypeParts, ProvisionerAssumption DEF StoreTypes, Revisions
<1>1. job.revs # <<>> /\ job.op \in {"create", "migrate"}
  BY DEF _record, Running
<1>2. /\ Schema \in Tenants /\ Rev = job.revs[1] /\ Len(job.revs) \in Nat /\ Len(job.revs) >= 1
      /\ job.todo # <<>> /\ result = NoResult
  BY <1>1, RunningFacts DEF CallInv
<1>3. job.op = "create" => Rev = Template
  BY DEF CallInv, Rev
<1>4. CASE Raise /\ meta' = meta
  BY <1>4, SequelRaises
<1>5. CASE Rev = Template /\ Advance /\ meta' = meta
  <2>1. job.op = "create"
    <3>1. CASE job.op = "migrate"
      <4> DEFINE n == Len(job.revs)
      <4>1. n \in Nat /\ n >= 1 /\ Rev = job.revs[1]
        BY <1>2
      <4>2. n <= LastRevision /\ \A i \in 1..n : job.revs[i] = LastRevision - n + i
        BY <1>1, <3>1 DEF Sequel, Ahead
      <4> HIDE DEF n
      <4>3. 1 \in 1..n
        BY <4>1
      <4>4. Rev = LastRevision - n + 1
        BY <4>1, <4>2, <4>3
      <4>5. LastRevision - n + 1 # 0
        BY <1>0, <4>1, <4>2
      <4> QED
        BY <1>5, <4>4, <4>5 DEF Template
    <3> QED
      BY <1>1, <3>1
  <2>2. job' = NoJob /\ result'.op = "create"
    <3>1. Len(job.revs) = 1
      <4>1. Len(<<Template>>) = 1
        OBVIOUS
      <4> QED
        BY <2>1, <4>1 DEF CallInv
    <3>2. End("ok")
      BY <1>5, <2>1, <3>1 DEF Advance
    <3> QED
      BY <1>0, <2>1, <3>2 DEF End, Jobs
  <2>3. job'.op = "none"
    BY <2>2 DEF NoJob
  <2> QED
    BY <1>5, <2>2, <2>3, SequelEnds DEF Sequel
<1>6. CASE Rev # Template /\ Advance /\ meta' = [meta EXCEPT ![Schema] = @ \cup {Rev}]
  <2> DEFINE n == Len(job.revs)
             k == LastRevision - n + 1
  <2>1. job.op = "migrate" /\ n \in Nat /\ n >= 1
    BY <1>1, <1>2, <1>3, <1>6
  <2>2. /\ n <= LastRevision /\ meta[Schema] = 1..(LastRevision - n)
        /\ \A i \in 1..n : job.revs[i] = LastRevision - n + i
    BY <1>1, <2>1 DEF Sequel, Ahead
  <2>3. Rev = k /\ k \in 1..LastRevision
    <3> HIDE DEF n
    <3>1. 1 \in 1..n
      BY <2>1
    <3>2. job.revs[1] = LastRevision - n + 1
      BY <2>2, <3>1
    <3>3. k \in 1..LastRevision
      BY <1>0, <2>1, <2>2
    <3> QED
      BY <1>2, <3>2, <3>3
  <2>4. meta'[Schema] = 1..k
    <3>1. meta'[Schema] = meta[Schema] \cup {Rev}
      BY <1>0, <1>2, <1>6
    <3>2. LastRevision - n = k - 1 /\ k \in Nat
      BY <1>0, <2>1, <2>2, <2>3
    <3> HIDE DEF n, k
    <3>3. (1..(k - 1)) \cup {k} = 1..k
      BY <2>3, <3>2
    <3> QED
      BY <2>2, <2>3, <3>1, <3>2, <3>3, Zenon
  <2>5. \A t \in Tenants : t # Schema => meta'[t] = meta[t]
    BY <1>0, <1>6
  <2>6. Consecutive'
    <3> SUFFICES ASSUME NEW t \in Tenants PROVE \E j \in 0..LastRevision : meta'[t] = 1..j
      BY DEF Consecutive
    <3>1. CASE t = Schema
      <4>1. k \in 0..LastRevision
        BY <2>3
      <4> QED
        BY <2>4, <3>1, <4>1
    <3>2. CASE t # Schema
      BY <2>5, <3>2 DEF Sequel, Consecutive
    <3> QED
      BY <3>1, <3>2
  <2> HIDE DEF k
  <2>7. CASE n > 1 /\ job' = [job EXCEPT !.revs = Tail(@), !.at = 1] /\ result' = result
    <3>1. job'.op = "migrate" /\ job'.todo = job.todo /\ job'.revs = Tail(job.revs)
      BY <1>0, <2>1, <2>7 DEF Jobs
    <3>2. Schema' = Schema
      BY <3>1 DEF Schema
    <3>3. Returned' /\ Behind'
      BY <1>2, <2>7, <3>1 DEF Returned, Behind, NoResult
    <3>4. Visited'
      <4> SUFFICES ASSUME NEW t \in Tenants, t \notin ToSet(job.todo) PROVE meta'[t] = Revisions
        BY <3>1 DEF Visited
      <4>1. t # Schema
        <5>1. Schema = job.todo[1] /\ 1 \in DOMAIN job.todo
          BY <1>0, <1>2, HeadTail DEF Jobs, Schema
        <5> QED
          BY <5>1 DEF ToSet
      <4> QED
        BY <2>1, <2>5, <4>1 DEF Sequel, Visited
    <3>5. Ahead'
      <4>1. /\ Len(job'.revs) = n - 1
            /\ \A i \in 1..(n - 1) : job'.revs[i] = job.revs[i + 1]
        BY <1>0, <1>1, <3>1, HeadTail DEF Jobs
      <4>2. \A i \in 1..(n - 1) : i + 1 \in 1..n
        BY <2>1
      <4>3. \A i \in 1..(n - 1) : job'.revs[i] = LastRevision - n + (i + 1)
        BY <2>2, <4>1, <4>2
      <4>4. k = LastRevision - (n - 1)
        BY <1>0, <2>1 DEF k
      <4> HIDE DEF n
      <4>5. ASSUME NEW i \in 1..(n - 1) PROVE job'.revs[i] = LastRevision - (n - 1) + i
        <5>1. LastRevision - n + (i + 1) = LastRevision - (n - 1) + i
          BY <1>0, <2>1
        <5> QED
          BY <4>3, <5>1
      <4>6. n - 1 <= LastRevision
        BY <1>0, <2>1, <2>2
      <4> QED
        BY <2>4, <3>2, <4>1, <4>4, <4>5, <4>6 DEF Ahead
    <3> QED
      BY <2>6, <3>3, <3>4, <3>5 DEF Sequel
  <2>8. CASE /\ n = 1 /\ result' = result
             /\ job' = [job EXCEPT !.todo = Tail(@), !.revs = <<>>, !.at = 0]
    <3>1. job'.op = "migrate" /\ job'.todo = Tail(job.todo) /\ job'.revs = <<>>
      BY <1>0, <2>1, <2>8 DEF Jobs
    <3>2. meta'[Schema] = Revisions
      BY <1>0, <2>4, <2>8 DEF k
    <3>3. Returned' /\ Behind' /\ Ahead'
      BY <1>2, <2>8, <3>1 DEF Returned, Behind, Ahead, NoResult
    <3>4. Visited'
      <4> SUFFICES ASSUME NEW t \in Tenants, t \notin ToSet(Tail(job.todo))
                   PROVE  meta'[t] = Revisions
        BY <3>1 DEF Visited
      <4>1. CASE t = Schema
        BY <3>2, <4>1
      <4>2. CASE t # Schema
        <5>1. t \notin ToSet(job.todo)
          BY <1>0, <1>2, <4>2, NotInTail DEF Jobs, Schema
        <5> QED
          BY <2>1, <2>5, <4>2, <5>1 DEF Sequel, Visited
      <4> QED
        BY <4>1, <4>2
    <3> QED
      BY <2>6, <3>3, <3>4 DEF Sequel
  <2> QED
    BY <1>1, <1>6, <2>1, <2>7, <2>8, AdvanceShape DEF n
<1> QED
  BY <1>4, <1>5, <1>6 DEF _record

\* A rollback begins at the end of the prefix, or has nothing to do.
LEMMA SequelDowngrade ==
  ASSUME TypeOK, CallInv, Sequel, loader, NEW t \in Tenants, NEW target \in Targets,
         StartDowngrade(t, target)
  PROVE  Sequel'
<1>0. /\ meta' = meta /\ job = NoJob /\ LastRevision \in Nat /\ target \in Int
  BY ProvisionerAssumption DEF StartDowngrade, db, Targets
<1>1. CASE ~ KnownTarget(t, target)
  <2>1. job' = NoJob /\ result'.outcome = "refused"
    BY <1>0, <1>1 DEF StartDowngrade
  <2> QED
    BY <1>0, <2>1, SequelEnds DEF Sequel, NoJob
<1>2. CASE KnownTarget(t, target)
  <2>1. PICK k \in 0..LastRevision : meta[t] = 1..k
    BY DEF Sequel, Consecutive
  <2>2. PICK m \in 0..k : /\ ToUndo(t, target) = [i \in 1..m |-> k + 1 - i]
                          /\ m = k \/ k - m = target
    BY <1>2, <2>1, UndoFacts
  <2>3. /\ k \in Nat /\ m \in Nat /\ m <= k /\ Len(ToUndo(t, target)) = m
        /\ \A i \in 1..m : ToUndo(t, target)[i] = k + 1 - i
    BY <2>1, <2>2
  <2>4. Consecutive'
    BY <1>0 DEF Sequel, Consecutive
  <2>5. CASE ToUndo(t, target) = <<>>
    <3>1. /\ job' = NoJob
          /\ result' = [op |-> "downgrade", tenant |-> t, outcome |-> "ok", target |-> target]
      BY <1>2, <2>5 DEF StartDowngrade
    <3>2. Len(<<>>) = 0
      OBVIOUS
    <3>3. m = 0
      BY <2>3, <2>5, <3>2
    <3>4. \A r \in meta[t] : r <= target
      BY <1>0, <2>1, <2>2, <2>3, <3>3
    <3>5. Returned'
      BY <1>0, <3>1, <3>4 DEF Returned
    <3>6. job'.op = "none"
      BY <3>1 DEF NoJob
    <3> QED
      BY <2>4, <3>5, <3>6 DEF Sequel, Visited, Ahead, Behind
  <2>6. CASE ToUndo(t, target) # <<>>
    <3>1. /\ job'.op = "downgrade" /\ job'.todo = <<t>> /\ job'.revs = ToUndo(t, target)
          /\ job'.target = target /\ result' = NoResult
      BY <1>2, <2>6 DEF StartDowngrade
    <3>2. m >= 1
      <4>1. ToUndo(t, target) \in Seq(All)
        BY UndoFacts
      <4> QED
        BY <2>3, <2>6, <4>1
    <3>3. Schema' = t /\ Rev' = k
      <4>1. ToUndo(t, target) \in Seq(All)
        BY UndoFacts
      <4>2. Head(ToUndo(t, target)) = ToUndo(t, target)[1]
        BY <2>6, <4>1, HeadTail
      <4>3. ToUndo(t, target)[1] = k
        BY <2>3, <3>2
      <4> QED
        BY <3>1, <4>2, <4>3 DEF Schema, Rev
    <3>4. Returned'
      BY <3>1 DEF Returned, NoResult
    <3>5. Behind'
      <4>1. k = m \/ k - m <= target
        BY <1>0, <2>2, <2>3
      <4> QED
        BY <1>0, <2>1, <2>3, <3>1, <3>3, <4>1 DEF Behind
    <3> QED
      BY <2>4, <3>1, <3>4, <3>5 DEF Sequel, Visited, Ahead
  <2> QED
    BY <2>5, <2>6
<1> QED
  BY <1>1, <1>2

\* A forgotten revision was the end of the prefix.
LEMMA SequelForget ==
  ASSUME TypeOK, CallInv, Sequel, Forget
  PROVE  Sequel'
<1>0. /\ job \in Jobs /\ result \in Results /\ meta \in [Tenants -> SUBSET Revisions]
      /\ LastRevision \in Nat /\ Revisions = 1..LastRevision
  BY TypeParts, ProvisionerAssumption DEF StoreTypes, Revisions
<1> DEFINE n == Len(job.revs)
           k == Rev
<1>1. /\ job.revs # <<>> /\ job.op = "downgrade" /\ Advance
      /\ meta' = [meta EXCEPT ![Schema] = @ \ {Rev}]
  BY DEF Forget, Running
<1>2. /\ Schema \in Tenants /\ k = job.revs[1] /\ k \in All /\ n \in Nat /\ n >= 1
      /\ job.todo # <<>> /\ result = NoResult
  BY <1>1, RunningFacts DEF CallInv
<1>3. /\ n <= k /\ meta[Schema] = 1..k /\ \A i \in 1..n : job.revs[i] = k + 1 - i
      /\ k = n \/ k - n <= job.target
  BY <1>1 DEF Sequel, Behind
<1>4. k \in 1..LastRevision /\ job.target \in Int
  BY <1>0, <1>2, <1>3 DEF All, Template, Jobs, Targets
<1>5. meta'[Schema] = 1..(k - 1)
  <2>1. meta'[Schema] = meta[Schema] \ {Rev}
    BY <1>0, <1>1, <1>2
  <2>2. meta'[Schema] = (1..k) \ {k}
    BY <1>3, <2>1
  <2> HIDE DEF k
  <2> QED
    BY <1>0, <1>4, <2>2
<1>6. \A t \in Tenants : t # Schema => meta'[t] = meta[t]
  BY <1>0, <1>1
<1>7. Consecutive'
  <2> SUFFICES ASSUME NEW t \in Tenants PROVE \E j \in 0..LastRevision : meta'[t] = 1..j
    BY DEF Consecutive
  <2>1. CASE t = Schema
    <3>1. k - 1 \in 0..LastRevision
      BY <1>0, <1>4
    <3> QED
      BY <1>5, <2>1, <3>1
  <2>2. CASE t # Schema
    BY <1>6, <2>2 DEF Sequel, Consecutive
  <2> QED
    BY <2>1, <2>2
<1>8. CASE n > 1 /\ job' = [job EXCEPT !.revs = Tail(@), !.at = 1] /\ result' = result
  <2>1. /\ job'.op = "downgrade" /\ job'.todo = job.todo /\ job'.revs = Tail(job.revs)
        /\ job'.target = job.target
    BY <1>0, <1>1, <1>8 DEF Jobs
  <2>2. Schema' = Schema
    BY <2>1 DEF Schema
  <2>3. /\ Len(job'.revs) = n - 1 /\ job'.revs \in Seq(All) /\ job'.revs # <<>>
        /\ \A i \in 1..(n - 1) : job'.revs[i] = job.revs[i + 1]
    BY <1>0, <1>1, <1>8, <2>1, HeadTail DEF Jobs
  <2>4. Rev' = job'.revs[1]
    BY <2>3, HeadTail DEF Rev
  <2> HIDE DEF k, n
  <2>5. \A i \in 1..(n - 1) : job'.revs[i] = k + 1 - (i + 1)
    <3>1. \A i \in 1..(n - 1) : i + 1 \in 1..n
      BY <1>2
    <3> QED
      BY <1>3, <2>3, <3>1
  <2>0. k \in Int /\ n \in Int
    BY <1>2, <1>4
  <2>6. Rev' = k - 1
    <3>1. 1 \in 1..(n - 1)
      BY <1>8, <2>0
    <3>2. job'.revs[1] = k + 1 - (1 + 1)
      BY <2>5, <3>1
    <3>3. k + 1 - (1 + 1) = k - 1
      BY <2>0
    <3> QED
      BY <2>4, <3>2, <3>3
  <2>7. /\ n - 1 <= k - 1
        /\ \A i \in 1..(n - 1) : job'.revs[i] = (k - 1) + 1 - i
        /\ k - 1 = n - 1 \/ (k - 1) - (n - 1) <= job.target
    <3>1. n - 1 <= k - 1
      BY <1>3, <2>0
    <3>2. ASSUME NEW i \in 1..(n - 1) PROVE job'.revs[i] = (k - 1) + 1 - i
      <4>1. k + 1 - (i + 1) = (k - 1) + 1 - i
        BY <2>0
      <4> QED
        BY <2>5, <4>1
    <3>3. (k - 1) - (n - 1) = k - n
      BY <2>0
    <3> QED
      BY <1>3, <3>1, <3>2, <3>3
  <2>8. Behind'
    BY <1>5, <2>1, <2>2, <2>3, <2>6, <2>7 DEF Behind
  <2>9. Returned'
    BY <1>2, <1>8 DEF Returned, NoResult
  <2> QED
    BY <1>7, <2>1, <2>8, <2>9 DEF Sequel, Visited, Ahead
<1>9. CASE n = 1 /\ End("ok")
  <2>1. /\ job' = NoJob /\ result'.op = "downgrade" /\ result'.tenant = Schema
        /\ result'.target = job.target
    BY <1>0, <1>1, <1>2, <1>9 DEF End, Jobs
  <2> HIDE DEF k, n
  <2>2. k - 1 = 0 \/ k - 1 <= job.target
    BY <1>2, <1>3, <1>4, <1>9
  <2>3. \A r \in 1..(k - 1) : r <= job.target
    BY <1>4, <2>2
  <2>4. Returned'
    BY <1>5, <2>1, <2>3 DEF Returned
  <2>5. job'.op = "none"
    BY <2>1 DEF NoJob
  <2> QED
    BY <1>7, <2>4, <2>5 DEF Sequel, Visited, Ahead, Behind
<1> QED
  BY <1>1, <1>8, <1>9, AdvanceShape DEF n

LEMMA SequelStep == TypeOK /\ CallInv /\ Sequel /\ loader /\ [Next]_vars => Sequel'
<1> SUFFICES ASSUME TypeOK, CallInv, Sequel, loader, [Next]_vars PROVE Sequel'
  OBVIOUS
<1>0. /\ job \in Jobs /\ result \in Results /\ meta \in [Tenants -> SUBSET Revisions]
      /\ LastRevision \in Nat /\ Revisions = 1..LastRevision
  BY TypeParts, ProvisionerAssumption DEF StoreTypes, Revisions
<1>e. NoResult.op = "none" /\ NoJob.op = "none" /\ NoJob.todo = <<>> /\ NoJob.revs = <<>>
  BY DEF NoResult, NoJob
<1>1. ASSUME NEW t \in Tenants, StartCreate(t) PROVE Sequel'
  <2>1. job'.op = "create" /\ result' = NoResult /\ meta' = meta
    BY <1>1 DEF StartCreate, NoJob, db
  <2> QED
    BY <1>e, <2>1, SequelEnds DEF Sequel
<1>2. CASE StartMigrate
  <2>1. PICK list \in SetToSeqs(Tenants) : job' = [NoJob EXCEPT !.op = "migrate", !.todo = list]
    BY <1>2 DEF StartMigrate
  <2>2. /\ job'.op = "migrate" /\ job'.todo = list /\ job'.revs = <<>>
        /\ result' = NoResult /\ meta' = meta
    BY <1>2, <2>1 DEF StartMigrate, NoJob, db
  <2>3. ToSet(job'.todo) = Tenants
    BY <2>2, ListsAll
  <2>4. Consecutive' /\ Returned'
    BY <1>e, <2>2 DEF Sequel, Consecutive, Returned
  <2> QED
    BY <2>2, <2>3, <2>4 DEF Sequel, Visited, Ahead, Behind
<1>3. CASE VisitTenant
  <2>0. /\ job.op = "migrate" /\ job.todo # <<>> /\ result' = result /\ meta' = meta
    BY <1>3 DEF VisitTenant, db
  <2>1. Schema \in Tenants
    BY <1>0, <2>0, HeadTail DEF Schema, Jobs
  <2>2. PICK k \in 0..LastRevision : meta[Schema] = 1..k
    BY <2>1 DEF Sequel, Consecutive
  <2>3. _pending(Schema) = [i \in 1..(LastRevision - k) |-> k + i]
    BY <2>1, <2>2, PendingFacts
  <2>4. /\ LastRevision - k \in Nat
        /\ Len(_pending(Schema)) = LastRevision - k
        /\ \A i \in 1..(LastRevision - k) : _pending(Schema)[i] = k + i
    BY <1>0, <2>2, <2>3
  <2>5. Consecutive' /\ Returned'
    BY <2>0 DEF Sequel, Consecutive, Returned
  <2>6. CASE _pending(Schema) = <<>>
    <3>1. /\ job'.op = "migrate" /\ job'.todo = Tail(job.todo) /\ job'.revs = <<>>
      BY <1>0, <1>3, <2>6 DEF VisitTenant, Jobs
    <3>2. meta[Schema] = Revisions
      <4>1. Len(<<>>) = 0
        OBVIOUS
      <4>2. k = LastRevision
        BY <1>0, <2>2, <2>4, <2>6, <4>1
      <4> QED
        BY <1>0, <2>2, <4>2
    <3>3. ASSUME NEW t \in Tenants, t \notin ToSet(Tail(job.todo)) PROVE meta[t] = Revisions
      <4>1. CASE t = Schema
        BY <3>2, <4>1
      <4>2. CASE t # Schema
        <5>1. t \notin ToSet(job.todo)
          BY <1>0, <2>0, <3>3, <4>2, NotInTail DEF Jobs, Schema
        <5> QED
          BY <2>0, <5>1 DEF Sequel, Visited
      <4> QED
        BY <4>1, <4>2
    <3> QED
      BY <2>0, <2>5, <3>1, <3>3 DEF Sequel, Visited, Ahead, Behind
  <2>7. CASE _pending(Schema) # <<>>
    <3>1. /\ job'.op = "migrate" /\ job'.todo = job.todo /\ job'.revs = _pending(Schema)
      BY <1>0, <1>3, <2>7 DEF VisitTenant, Jobs
    <3>2. Schema' = Schema
      BY <3>1 DEF Schema
    <3>3. Visited' /\ Behind'
      BY <2>0, <3>1 DEF Sequel, Visited, Behind
    <3>4. /\ Len(job'.revs) <= LastRevision
          /\ LastRevision - Len(job'.revs) = k
          /\ \A i \in 1..Len(job'.revs) : job'.revs[i] = LastRevision - Len(job'.revs) + i
      <4> DEFINE l == _pending(Schema)
      <4>1. LastRevision \in Nat /\ k \in 0..LastRevision
        BY <2>2, ProvisionerAssumption
      <4>2. /\ LastRevision - k \in Nat /\ Len(l) = LastRevision - k
            /\ \A i \in 1..(LastRevision - k) : l[i] = k + i
        BY <2>4
      <4> HIDE DEF l
      <4>3. Len(l) <= LastRevision /\ LastRevision - Len(l) = k
        BY <4>1, <4>2
      <4>4. \A i \in 1..Len(l) : l[i] = LastRevision - Len(l) + i
        BY <4>2, <4>3, Zenon
      <4> QED
        BY <3>1, <4>3, <4>4 DEF l
    <3>5. Ahead'
      BY <2>0, <2>2, <3>2, <3>4 DEF Ahead
    <3> QED
      BY <2>5, <3>3, <3>5 DEF Sequel
  <2> QED
    BY <2>6, <2>7
<1>4. CASE MigrateReturns
  <2>1. /\ job.op = "migrate" /\ job.todo = <<>> /\ job' = NoJob /\ meta' = meta
        /\ result'.op = "migrate"
    BY <1>0, <1>4 DEF MigrateReturns, End, db, Jobs
  <2>2. ToSet(<<>>) = {}
    BY DEF ToSet
  <2>3. \A t \in Tenants : meta[t] = Revisions
    BY <2>1, <2>2 DEF Sequel, Visited
  <2>4. Consecutive' /\ Returned'
    BY <2>1, <2>3 DEF Sequel, Consecutive, Returned
  <2> QED
    BY <1>e, <2>1, <2>4 DEF Sequel, Visited, Ahead, Behind
<1>5. CASE Scope
  <2>1. job.revs # <<>> /\ meta' = meta /\ (NextStatement \/ Raise)
    BY <1>5 DEF Scope, Running
  <2> QED
    BY <2>1, SequelSame, SequelRaises
<1>6. CASE Up
  <2>1. job.revs # <<>> /\ meta' = meta /\ (NextStatement \/ Raise)
    BY <1>6 DEF Up, Running
  <2> QED
    BY <2>1, SequelSame, SequelRaises
<1>7. CASE _record
  BY <1>7, SequelRecord
<1>8. ASSUME NEW t \in Tenants, NEW target \in Targets, StartDowngrade(t, target) PROVE Sequel'
  BY <1>8, SequelDowngrade
<1>9. CASE NoDownArtifact
  BY <1>9, SequelRaises DEF NoDownArtifact, db
<1>10. CASE Down
  <2>1. job.revs # <<>> /\ meta' = meta /\ (NextStatement \/ Raise)
    BY <1>10 DEF Down, Running
  <2> QED
    BY <2>1, SequelSame, SequelRaises
<1>11. CASE Forget
  BY <1>11, SequelForget
<1>12. CASE StatementFails
  BY <1>12, SequelRaises DEF StatementFails, db
<1>13. CASE Restart
  BY <1>13, <1>e, SequelEnds DEF Restart, db, Sequel
<1>14. CASE UNCHANGED vars
  BY <1>14 DEF vars, Sequel, Consecutive, Visited, Ahead, Behind, Returned, Schema, Rev
<1> QED
  BY <1>1, <1>2, <1>3, <1>4, <1>5, <1>6, <1>7, <1>8, <1>9, <1>10, <1>11, <1>12, <1>13, <1>14
     DEF Next, Step, Statement

-----------------------------------------------------------------------------
(* The invariant of the provisioner under the commands.                    *)

LEMMA LoaderFixed == [Next]_vars => loader' = loader
  BY DEF Next, Step, Statement, StartCreate, StartMigrate, VisitTenant, MigrateReturns, Scope, Up,
         _record, StartDowngrade, NoDownArtifact, Down, Forget, StatementFails, Restart, vars, db

LEMMA ProvisionerInit == Init => PInv
<1> SUFFICES ASSUME Init PROVE PInv
  OBVIOUS
<1>1. /\ LastRevision \in Nat /\ Statements \in Nat /\ 0 \in 0..Statements
      /\ 0 \in 0..LastRevision /\ 1..0 = {}
  BY ProvisionerAssumption
<1>2. TypeOK
  <2>1. StoreTypes
    <3>1. <<>> \in Seq(All)
      OBVIOUS
    <3> QED
      BY <1>1, <3>1, ProvisionerAssumption DEF Init, StoreTypes, All
  <2> QED
    BY <2>1, NoJobTyped, TypeParts DEF Init
<1>3. /\ job = NoJob /\ job.op = "none" /\ job.revs = <<>> /\ result.op = "none"
  BY DEF Init, NoJob, NoResult
<1>4. CallInv /\ Progress /\ Visited /\ Ahead /\ Behind /\ Returned
  BY <1>3 DEF CallInv, Progress, Visited, Ahead, Behind, Returned
<1>5. RecordedIsComplete
  BY DEF Init, RecordedIsComplete
<1>6. Consecutive
  BY <1>1 DEF Init, Consecutive
<1> QED
  BY <1>2, <1>4, <1>5, <1>6 DEF PInv, Sequel

LEMMA ProvisionerStep == PInv /\ [Next]_vars => PInv'
<1> SUFFICES ASSUME PInv, [Next]_vars PROVE PInv'
  OBVIOUS
<1>1. TypeOK /\ CallInv /\ Effects
  BY DEF PInv, Effects
<1>2. TypeOK' /\ CallInv'
  BY <1>1, TypeStep, CallStep
<1>3. Effects'
  BY <1>1, <1>2, EffectStep
<1>4. loader' => Sequel'
  BY <1>1, LoaderFixed, SequelStep DEF PInv
<1> QED
  BY <1>2, <1>3, <1>4 DEF PInv, Effects

\* The INSERT and the start of create_tenant_schema.
LEMMA TenantCreateStep ==
  ASSUME PInv, NEW t \in Tenants, NEW slug \in Slugs, _tenant_create(t, slug)
  PROVE  PInv'
<1>0. StoreTypes /\ TypeOK
  BY TypeParts DEF PInv
<1>1. /\ UNCHANGED db /\ result' = NoResult /\ active_schema' = t
      /\ applied' = [u \in Tenants |-> <<>>]
      /\ job' = [NoJob EXCEPT !.op = "create", !.todo = <<t>>, !.revs = <<Template>>]
  BY DEF _tenant_create
<1>2. job' \in Jobs
  <2>1. <<t>> \in Seq(Tenants) /\ <<Template>> \in Seq(All)
    BY DEF All
  <2> QED
    BY <1>1, <2>1, NoJobTyped DEF Jobs, Operations
<1>3. /\ job'.op = "create" /\ job'.todo = <<t>> /\ job'.revs = <<Template>> /\ job'.at = 0
  BY <1>1 DEF NoJob
<1>4. TypeOK'
  <2>1. <<>> \in Seq(All)
    OBVIOUS
  <2>2. StoreTypes'
    BY <1>0, <1>1, <2>1 DEF StoreTypes, db
  <2> QED
    BY <1>1, <1>2, <2>2, NoJobTyped DEF TypeOK, StoreTypes, Jobs, Results, All
<1>5. CallInv'
  <2>1. Schema' = t
    BY <1>3 DEF Schema
  <2>2. Len(<<t>>) = 1 /\ <<Template>> # <<>>
    OBVIOUS
  <2> QED
    BY <1>1, <1>3, <2>1, <2>2 DEF CallInv
<1>6. RecordedIsComplete' /\ Progress'
  BY <1>1, <1>3, SameRecords DEF PInv, Progress
<1>7. loader' => Sequel'
  <2>1. loader' = loader /\ meta' = meta /\ result'.op = "none"
    BY <1>1 DEF db, NoResult
  <2> QED
    BY <1>3, <2>1, SequelEnds DEF PInv, Sequel
<1> QED
  BY <1>4, <1>5, <1>6, <1>7 DEF PInv

\* What no step of the provisioner takes back: a schema and a complete template.
LEMMA TemplateStays ==
  ASSUME TypeOK, CallInv, [Next]_vars
  PROVE  /\ schemas \subseteq schemas'
         /\ \A t \in Tenants : objects[t][Template] = Statements
                                 => objects'[t][Template] = Statements
<1>0. StoreTypes /\ job \in Jobs /\ Statements \in Nat
  BY TypeParts, ProvisionerAssumption
<1>1. CASE UNCHANGED objects /\ schemas \subseteq schemas'
  BY <1>1
<1>2. CASE Up
  <2>1. job.revs # <<>> /\ job.at \in 1..Statements /\ schemas' = schemas
    BY <1>2 DEF Up, Running
  <2>2. Rev \in All /\ active_schema \in Tenants
    BY <2>1, RunningFacts
  <2>3. ASSUME NEW t \in Tenants, objects[t][Template] = Statements
        PROVE  objects'[t][Template] = Statements
    <3>1. CASE objects[active_schema][Rev] >= job.at
      BY <1>2, <2>3, <3>1 DEF Up
    <3>2. CASE ~ (objects[active_schema][Rev] >= job.at)
      <4>1. objects' = [objects EXCEPT ![active_schema][Rev] = job.at]
        BY <1>2, <3>2 DEF Up
      <4>2. ~ (t = active_schema /\ Rev = Template)
        BY <2>1, <2>3, <3>2, <1>0
      <4> QED
        BY <1>0, <2>2, <2>3, <4>1, <4>2 DEF StoreTypes
    <3> QED
      BY <3>1, <3>2
  <2> QED
    BY <2>1, <2>3
<1>3. CASE Down
  <2>1. job.revs # <<>> /\ Rev \in HasDown /\ schemas' = schemas
    BY <1>3 DEF Down, Running
  <2>2. Rev # Template /\ Rev \in All /\ active_schema \in Tenants
    <3>1. Rev # Template
      BY <2>1, ProvisionerAssumption DEF Revisions, Template
    <3> QED
      BY <2>1, <3>1, RunningFacts
  <2>3. \/ objects' = objects
        \/ objects' = [objects EXCEPT ![active_schema][Rev] = Statements - job.at]
    BY <1>3 DEF Down
  <2>4. ASSUME NEW t \in Tenants PROVE objects'[t][Template] = objects[t][Template]
    <3> DEFINE left == Statements - job.at
    <3> HIDE DEF left
    <3>1. CASE objects' = [objects EXCEPT ![active_schema][Rev] = left]
      BY <1>0, <2>2, <3>1 DEF StoreTypes, All
    <3> QED
      BY <2>3, <3>1 DEF left
  <2> QED
    BY <2>1, <2>4
<1>4. Up \/ Down \/ (UNCHANGED objects /\ schemas \subseteq schemas')
  BY DEF Next, Step, Statement, StartCreate, StartMigrate, VisitTenant, MigrateReturns, Scope,
         _record, StartDowngrade, NoDownArtifact, Forget, StatementFails, Restart, vars, db
<1> QED
  BY <1>1, <1>2, <1>3, <1>4

\* A create call that is running goes on with the same tenant or ends.
LEMMA CreateGoesOn ==
  ASSUME TypeOK, CallInv, [Next]_vars, job.op = "create"
  PROVE  job' = NoJob \/ (job'.op = "create" /\ job'.todo = job.todo)
<1>0. job \in Jobs /\ job.revs # <<>> /\ NoJob.op = "none"
  BY TypeParts DEF CallInv, NoJob
<1>1. CASE NextStatement
  BY <1>0, <1>1 DEF NextStatement, Jobs
<1>2. CASE Advance
  BY <1>0, <1>2, AdvanceShape DEF End
<1>3. CASE job' = NoJob \/ job' = job
  BY <1>3
<1>4. NextStatement \/ Advance \/ job' = NoJob \/ job' = job
  BY <1>0 DEF Next, Step, Statement, StartCreate, StartMigrate, VisitTenant, MigrateReturns, Scope,
       Up, _record, StartDowngrade, NoDownArtifact, Down, Forget, StatementFails, Restart, Raise,
       End, vars
<1> QED
  BY <1>1, <1>2, <1>3, <1>4

\* A create call that returns has run the whole template.
LEMMA CreateReturns ==
  ASSUME TypeOK, CallInv, Progress, restarts \in Nat, Next, job.op = "create", job' = NoJob,
         result'.outcome = "ok", restarts' = restarts
  PROVE  Schema \in schemas /\ objects[Schema][Template] = Statements
<1>0. /\ job \in Jobs /\ StoreTypes /\ job.revs # <<>> /\ job.revs = <<Template>>
      /\ NoJob.op = "none" /\ Statements \in Nat
  BY TypeParts, ProvisionerAssumption DEF CallInv, NoJob
<1>1. Rev = Template /\ Schema \in Tenants
  BY <1>0, RunningFacts DEF Rev
<1>2. ~ Restart
  BY DEF Restart
<1>3. ~ Raise
  BY DEF Raise, End
<1>4. ~ NextStatement
  BY <1>0 DEF NextStatement, Jobs
<1>5. _record
  BY <1>0, <1>2, <1>3, <1>4 DEF Next, Step, Statement, StartCreate, StartMigrate, VisitTenant,
       MigrateReturns, Scope, Up, StartDowngrade, NoDownArtifact, Down, Forget, StatementFails,
       Running
<1>6. job.at = Statements + 1 /\ job.at >= 1
  BY <1>0, <1>5 DEF _record
<1>7. Schema \in schemas /\ objects[Schema][Template] >= Statements
  <2>1. Schema \in schemas /\ objects[Schema][Rev] >= job.at - 1
    BY <1>0, <1>6 DEF Progress
  <2> QED
    BY <1>0, <1>1, <1>6, <2>1
<1>8. objects[Schema][Template] \in 0..Statements
  BY <1>0, <1>1 DEF StoreTypes, All
<1> QED
  BY <1>0, <1>7, <1>8

-----------------------------------------------------------------------------
(* The commands.                                                           *)

LEMMA CommandInit == OnboardingInit => CommandInv
  BY DEF OnboardingInit, Init, CommandInv

LEMMA CommandStep == PInv /\ CommandInv /\ [OnboardingNext]_allVars => CommandInv'
<1> SUFFICES ASSUME PInv, CommandInv, [OnboardingNext]_allVars PROVE CommandInv'
  OBVIOUS
<1>0. /\ TypeOK /\ CallInv /\ Progress /\ StoreTypes /\ job \in Jobs
      /\ NoJob.op = "none" /\ NoSchema \notin Tenants /\ NoSlug \notin Slugs
  BY TypeParts, ProvisionerAssumption, OnboardingAssumption DEF PInv, NoJob
<1>1. CASE Provision(Next)
  <2>1. Next /\ Announce /\ registry' = registry
    BY <1>1 DEF Provision
  <2>2. restarts' \in Nat
    <3>1. restarts' = restarts \/ restarts' = restarts + 1
      BY <2>1 DEF Next, Step, Statement, StartCreate, StartMigrate, VisitTenant, MigrateReturns,
           Scope, Up, _record, StartDowngrade, NoDownArtifact, Down, Forget, StatementFails,
           Restart, bounds
    <3> QED
      BY <3>1 DEF CommandInv
  <2>3. \A t \in announced :
          registry'[t] # NoSlug /\ t \in schemas' /\ objects'[t][Template] = Statements
    BY <1>0, <2>1, TemplateStays DEF CommandInv
  <2>4. CASE onboarding # NoSchema /\ job' = NoJob
    <3>1. CASE announced' = announced
      BY <2>1, <2>2, <2>3, <2>4, <3>1 DEF CommandInv, Announce
    <3>2. CASE announced' # announced
      <4>1. /\ announced' = announced \cup {onboarding} /\ onboarding' = NoSchema
            /\ result'.outcome = "ok" /\ restarts' = restarts
        BY <2>1, <2>4, <3>2 DEF Announce
      <4>2. /\ job.op = "create" /\ Schema = onboarding /\ registry[onboarding] # NoSlug
            /\ onboarding \in Tenants
        BY <2>4 DEF CommandInv
      <4>3. Schema \in schemas /\ objects[Schema][Template] = Statements
        BY <1>0, <2>1, <2>4, <4>1, <4>2, CreateReturns DEF CommandInv
      <4>4. onboarding \in schemas' /\ objects'[onboarding][Template] = Statements
        BY <1>0, <2>1, <4>2, <4>3, TemplateStays
      <4> QED
        BY <2>1, <2>2, <2>3, <4>1, <4>2, <4>4 DEF CommandInv
    <3> QED
      BY <3>1, <3>2
  <2>5. CASE ~ (onboarding # NoSchema /\ job' = NoJob)
    <3>1. onboarding' = onboarding /\ announced' = announced
      BY <2>1, <2>5 DEF Announce
    <3>2. onboarding # NoSchema =>
            job'.op = "create" /\ Schema' = onboarding /\ registry[onboarding] # NoSlug
      BY <1>0, <2>1, <2>5, CreateGoesOn DEF CommandInv, Schema
    <3> QED
      BY <2>1, <2>2, <2>3, <3>1, <3>2 DEF CommandInv
  <2> QED
    BY <2>4, <2>5
<1>2. ASSUME NEW t \in Tenants, NEW slug \in Slugs, _tenant_create(t, slug) PROVE CommandInv'
  <2>1. /\ registry[t] = NoSlug /\ \A u \in Tenants : registry[u] # slug
        /\ registry' = [registry EXCEPT ![t] = slug] /\ onboarding' = t
        /\ schemas' = schemas /\ objects' = objects /\ restarts' = restarts
        /\ announced' = announced
        /\ job' = [NoJob EXCEPT !.op = "create", !.todo = <<t>>, !.revs = <<Template>>]
    BY <1>2 DEF _tenant_create, db, bounds
  <2>2. job'.op = "create" /\ Schema' = t
    BY <2>1 DEF NoJob, Schema
  <2>3. \A u \in Tenants : registry'[u] = IF u = t THEN slug ELSE registry[u]
    BY <2>1 DEF CommandInv
  <2>4. registry' \in [Tenants -> Slugs \cup {NoSlug}]
    BY <2>1 DEF CommandInv
  <2>5. \A x, u \in Tenants : x # u /\ registry'[x] # NoSlug => registry'[x] # registry'[u]
    BY <1>0, <2>1, <2>3 DEF CommandInv
  <2>6. registry'[t] # NoSlug
    BY <1>0, <2>3
  <2>7. \A x \in announced' :
          registry'[x] # NoSlug /\ x \in schemas' /\ objects'[x][Template] = Statements
    BY <1>0, <2>1, <2>3 DEF CommandInv
  <2> QED
    BY <2>1, <2>2, <2>4, <2>5, <2>6, <2>7 DEF CommandInv
<1>3. CASE UNCHANGED allVars
  BY <1>3 DEF allVars, vars, cli, CommandInv, Schema
<1> QED
  BY <1>1, <1>2, <1>3 DEF OnboardingNext

LEMMA OnboardingStep == PInv /\ [OnboardingNext]_allVars => PInv'
<1> SUFFICES ASSUME PInv, [OnboardingNext]_allVars PROVE PInv'
  OBVIOUS
<1>1. CASE Provision(Next)
  BY <1>1, ProvisionerStep DEF Provision
<1>2. CASE UNCHANGED allVars
  BY <1>2, ProvisionerStep DEF allVars
<1> QED
  BY <1>1, <1>2, TenantCreateStep DEF OnboardingNext

\* The inductive invariant, for every number of tenants, revisions and statements.
THEOREM OnboardingInvariant == OnboardingSpec => [](PInv /\ CommandInv)
<1>1. OnboardingInit => PInv /\ CommandInv
  BY ProvisionerInit, CommandInit DEF OnboardingInit
<1>2. PInv /\ CommandInv /\ [OnboardingNext]_allVars => PInv' /\ CommandInv'
  BY OnboardingStep, CommandStep
<1> QED
  BY <1>1, <1>2, PTL DEF OnboardingSpec

-----------------------------------------------------------------------------
(* The theorems.                                                           *)

\* The records of schema_provisioner.py tell the truth: whatever the commands do and
\* whatever fails or dies in between, a revision jol_schema_meta lists has all its
\* statements in effect (or its rollback was interrupted), its schema exists, and,
\* with load_applied wired, the listed revisions are 1..k.
THEOREM RecordsAreTrue == OnboardingSpec => []RecordsTellTheTruth
<1>1. PInv => RecordsTellTheTruth
  <2> SUFFICES ASSUME PInv PROVE RecordsTellTheTruth
    OBVIOUS
  <2>1. ASSUME loader, NEW t \in Tenants PROVE meta[t] = 1..Cardinality(meta[t])
    <3>1. PICK k \in 0..LastRevision : meta[t] = 1..k
      BY <2>1 DEF PInv, Sequel, Consecutive
    <3>2. k \in Nat
      BY <3>1, ProvisionerAssumption
    <3>3. Cardinality(1..k) = k
      BY <3>2, FS_Interval
    <3> QED
      BY <3>1, <3>3
  <2> QED
    BY <2>1 DEF RecordsTellTheTruth, RecordedIsPrefix, PInv
<1> QED
  BY <1>1, OnboardingInvariant, PTL

\* What a successful return of migrate_all or downgrade means, whichever process did
\* the work before and whatever it left behind.
THEOREM ReturnsMeanDone == OnboardingSpec => []ReturnMeansDone
<1>1. PInv => ReturnMeansDone
  BY DEF PInv, Sequel, Returned, RecordedIsComplete, ReturnMeansDone
<1> QED
  BY <1>1, OnboardingInvariant, PTL

\* "created tenant" is said only of a tenant with a slug of its own and a schema with
\* the whole template, and stays true of it.
THEOREM AnnouncementsHold == OnboardingSpec => []AnnouncedIsComplete
<1>1. CommandInv => AnnouncedIsComplete
  BY DEF CommandInv, AnnouncedIsComplete
<1> QED
  BY <1>1, OnboardingInvariant, PTL

\* Statements and records reach only the schema of the tenant the call is working on.
THEOREM CallsAreIsolated == OnboardingSpec => Isolated
<1>1. PInv /\ CommandInv /\ [OnboardingNext]_allVars =>
        [job.op # "none" /\ restarts' = restarts =>
           IF job.todo = <<>> THEN ChangesOnly(NoSchema) ELSE ChangesOnly(Schema)]_vars
  <2> SUFFICES ASSUME PInv, CommandInv, [OnboardingNext]_allVars, vars' # vars,
                      job.op # "none", restarts' = restarts
               PROVE  IF job.todo = <<>> THEN ChangesOnly(NoSchema) ELSE ChangesOnly(Schema)
    OBVIOUS
  <2>1. Next /\ job # NoJob /\ TypeOK /\ CallInv /\ StoreTypes /\ restarts \in Nat
    <3>1. job # NoJob
      BY DEF NoJob
    <3> QED
      BY <3>1, TypeParts
         DEF OnboardingNext, _tenant_create, Provision, allVars, PInv, CommandInv
  <2>2. CASE UNCHANGED <<objects, meta, applied>>
    BY <2>2 DEF ChangesOnly
  <2>3. CASE Up \/ _record \/ Down \/ Forget
    <3>1. job.revs # <<>>
      BY <2>3 DEF Up, _record, Down, Forget, Running
    <3>2. Schema \in Tenants /\ active_schema = Schema /\ job.todo # <<>>
      BY <2>1, <3>1, RunningFacts
    <3>3. ChangesOnly(Schema)
      BY <2>1, <2>3, <3>2 DEF Up, _record, Down, Forget, ChangesOnly, StoreTypes
    <3> QED
      BY <3>2, <3>3
  <2>4. ~ Restart
    BY <2>1 DEF Restart
  <2> QED
    BY <2>1, <2>2, <2>3, <2>4
       DEF Next, Step, Statement, StartCreate, StartMigrate, VisitTenant, MigrateReturns, Scope,
           StartDowngrade, NoDownArtifact, StatementFails, db
<1> QED
  BY <1>1, OnboardingInvariant, PTL DEF OnboardingSpec, Isolated
=============================================================================
