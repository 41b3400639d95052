--------------------------- MODULE TenantOnboarding ---------------------------
(***************************************************************************)
(* The tenant commands of db/provisioning/cli.py over SchemaProvisioner:   *)
(* "tenant create" inserts the registry row, creates the schema and seeds  *)
(* the starter catalog.  Each command is a process with a provisioner of   *)
(* its own.  The INSERT commits by itself, so whatever happens later the   *)
(* row stays; public.tenants allows a slug once.  The starter catalog is   *)
(* seeded into a repository that ends with the command and is no state.    *)
(***************************************************************************)
EXTENDS SchemaProvisioner

CONSTANTS
  Slugs,       \* the slugs that match _SLUG_RE
  NoSlug       \* the tenant has no row in public.tenants

ASSUME OnboardingAssumption == NoSlug \notin Slugs

VARIABLES
  registry,    \* public.tenants: the slug of each registered tenant
  onboarding,  \* the tenant whose "tenant create" is running
  announced    \* the tenants for which the command said "created tenant"

cli == <<registry, onboarding, announced>>
allVars == <<vars, cli>>

OnboardingInit ==
  /\ Init
  /\ registry = [t \in Tenants |-> NoSlug]
  /\ onboarding = NoSchema
  /\ announced = {}

\* _tenant_create: a new uuid t, the INSERT, and the start of create_tenant_schema.
\* A slug that is taken ends the command with nothing changed.
_tenant_create(t, slug) ==
  /\ job = NoJob /\ registry[t] = NoSlug /\ t \notin schemas
  /\ \A u \in Tenants : registry[u] # slug
  /\ registry' = [registry EXCEPT ![t] = slug]
  /\ onboarding' = t
  /\ applied' = [u \in Tenants |-> <<>>]
  /\ active_schema' = t
  /\ job' = [NoJob EXCEPT !.op = "create", !.todo = <<t>>, !.revs = <<Template>>]
  /\ result' = NoResult
  /\ UNCHANGED <<db, bounds, announced>>

\* Variant: the command says so whatever create_tenant_schema did.
AnnounceAlways ==
  IF onboarding # NoSchema /\ job' = NoJob
  THEN /\ onboarding' = NoSchema
       /\ announced' = announced \cup {onboarding}
  ELSE UNCHANGED <<onboarding, announced>>

\* The end of the command: when create_tenant_schema returned, it seeds a repository of
\* its own, which cannot fail and leaves nothing behind, and says so; a failure or a
\* death of the process ends it as well.
Announce ==
  IF onboarding # NoSchema /\ job' = NoJob
  THEN /\ onboarding' = NoSchema
       /\ announced' = IF result'.outcome = "ok" /\ restarts' = restarts
                       THEN announced \cup {onboarding} ELSE announced
  ELSE UNCHANGED <<onboarding, announced>>

\* The provisioner's own steps, and the commands create and downgrade.
Provision(A) == A /\ Announce /\ UNCHANGED registry

OnboardingNext ==
  \/ Provision(Next)
  \/ \E t \in Tenants, slug \in Slugs : _tenant_create(t, slug)

\* The fairness of SchemaProvisioner.
OnboardingSpec ==
  /\ OnboardingInit /\ [][OnboardingNext]_allVars
  /\ WF_allVars(Provision(Step)) /\ SF_allVars(Provision(StartMigrate))
  /\ \A t \in Tenants : SF_allVars(Provision(t \notin schemas /\ StartCreate(t)))

-----------------------------------------------------------------------------
(* Properties.                                                             *)

\* What "created tenant ..." promises: the tenant is registered under a slug no other
\* tenant has, and its schema exists with the whole template in effect, whatever
\* failed, died or was rolled back since.
AnnouncedIsComplete ==
  \A t \in announced :
    /\ registry[t] # NoSlug
    /\ \A u \in Tenants \ {t} : registry[u] # registry[t]
    /\ t \in schemas /\ objects[t][Template] = Statements
=============================================================================
