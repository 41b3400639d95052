---------------------------- MODULE TenantRequests ----------------------------
(***************************************************************************)
(* API requests in flight: tenancy/registry.py, tenancy/middleware.py and  *)
(* the context variable of tenancy/tenant.py, composed with the order      *)
(* routes over OrderService.                                               *)
(*                                                                         *)
(* The middleware resolves and binds a tenant, then awaits the rest of the *)
(* application, so other requests and registrations run between the        *)
(* binding and the handler.  Every request runs in a task of its own and   *)
(* the context variable is one value per task.                             *)
(*                                                                         *)
(* A request answered with 400 and one on an exempt path (/health,         *)
(* /metrics, gateway webhooks) touch neither context nor orders; they are  *)
(* not steps.                                                              *)
(***************************************************************************)
EXTENDS CommissionLedger

CONSTANTS
  Requests,    \* requests that can be in flight together
  Slugs,       \* subdomains below the apex domain
  NoSlug,      \* the host is not below the apex domain
  Candidates,  \* tenants that are offered to the registry
  Unknown      \* dict.get returned None

\* A Tenant, whose commission_rate is TenantRate; it is frozen.
Tenant == [id : Tenants, slug : Slugs, active : BOOLEAN]

ASSUME RequestAssumption ==
  /\ Contexts = Tenants
  /\ Candidates \subseteq Tenant
  /\ Unknown \notin Candidates
  /\ NoSlug \notin Slugs /\ NoSlug \notin Tenants
  /\ Slugs \cap (Tenants \cup {NoTenant}) = {}

VARIABLES
  _by_id, _by_slug,  \* the two dictionaries of TenantRegistry
  address,           \* who a request in flight was sent to; NoSlug: no request
  context            \* _current_tenant in the request's task

requestVars == <<_by_id, _by_slug, address, context>>
allVars == <<vars, requestVars>>

RequestInit ==
  /\ Init
  /\ _by_id   = [t \in Tenants |-> Unknown]
  /\ _by_slug = [s \in Slugs |-> Unknown]
  /\ address  = [r \in Requests |-> NoSlug]
  /\ context  = [r \in Requests |-> NoTenant]

-----------------------------------------------------------------------------
(* The registry.                                                           *)

Enters(tenant) ==
  /\ _by_id'   = [_by_id EXCEPT ![tenant.id] = tenant]
  /\ _by_slug' = [_by_slug EXCEPT ![tenant.slug] = tenant]
  /\ UNCHANGED <<vars, address, context>>

\* Variant: the slug's uniqueness check is missing.
RegisterAnySlug(tenant) == _by_id[tenant.id] = Unknown /\ Enters(tenant)

\* register, also as called by new_tenant: a taken id or slug raises before either
\* dictionary is written.
register(tenant) ==
  /\ _by_id[tenant.id] = Unknown
  /\ _by_slug[tenant.slug] = Unknown
  /\ Enters(tenant)

get_by_id(t) == _by_id[t]
get_by_slug(s) == _by_slug[s]

-----------------------------------------------------------------------------
(* The middleware.                                                         *)

\* _resolve: a subdomain decides, also when nobody is registered under it; only
\* without one the header is read.
_resolve(slug, header) ==
  IF slug # NoSlug THEN get_by_slug(slug)
  ELSE IF header # NoTenant THEN get_by_id(header) ELSE Unknown

\* Who the sender of a request meant.
Addressee(slug, header) == IF slug # NoSlug THEN slug ELSE header

\* Variant: a request without tenant is passed on unbound.
DispatchUnbound(r, slug, header) ==
  LET tenant == _resolve(slug, header)
  IN  /\ address[r] = NoSlug /\ Addressee(slug, header) # NoTenant
      /\ address' = [address EXCEPT ![r] = Addressee(slug, header)]
      /\ context' = [context EXCEPT ![r] =
                       IF tenant # Unknown THEN tenant.id ELSE NoTenant]
      /\ UNCHANGED <<vars, _by_id, _by_slug>>

\* dispatch up to call_next: an unknown or inactive tenant is a 400.
dispatch(r, slug, header) ==
  LET tenant == _resolve(slug, header)
  IN  /\ address[r] = NoSlug
      /\ tenant # Unknown /\ tenant.active
      /\ address' = [address EXCEPT ![r] = Addressee(slug, header)]
      /\ context' = [context EXCEPT ![r] = tenant.id]
      /\ UNCHANGED <<vars, _by_id, _by_slug>>

\* Variant: one variable for the process, which holds the last binding.
SharedContext(r) ==
  IF \E q \in Requests \ {r} : context[q] # NoTenant
  THEN context[CHOOSE q \in Requests \ {r} : context[q] # NoTenant] ELSE context[r]

current_tenant(r) == context[r]

\* The order routes, one of which runs for the request.
Route(c, o) ==
  \/ c # NoTenant /\ \E a \in Amounts : Register(c, o, c, a)
  \/ \E s \in OrderStatus : Transition(c, o, s)
  \/ Complete(c, o)
  \/ \E r \in RefundOutcomes : Cancel(c, o, r)

\* dispatch from call_next on: the handler changes an order, or it only reads or
\* is rejected (404, 409); `finally` unbinds the tenant in any case.
Serve(r) ==
  /\ address[r] # NoSlug
  /\ (\E o \in OrderIds : Route(current_tenant(r), o)) \/ UNCHANGED vars
  /\ address' = [address EXCEPT ![r] = NoSlug]
  /\ context' = [context EXCEPT ![r] = NoTenant]
  /\ UNCHANGED <<_by_id, _by_slug>>

\* Callers inside the process that hold the order: fulfilment and reversals.
BackOffice(o) ==
  /\ \/ \E f \in Fractions : RecordCommissionReversal(o, f)
     \/ ConfirmPayment(o)
     \/ StartService(o)
  /\ UNCHANGED requestVars

RequestNext ==
  \/ \E tenant \in Candidates : register(tenant)
  \/ \E r \in Requests :
       \/ \E slug \in Slugs \cup {NoSlug}, header \in Tenants \cup {NoTenant} :
            dispatch(r, slug, header)
       \/ Serve(r)
  \/ \E o \in OrderIds : BackOffice(o)

RequestSpec == RequestInit /\ [][RequestNext]_allVars

-----------------------------------------------------------------------------
(* Properties.                                                             *)

\* The type invariant of registry, requests and the orders behind them.
RequestTypeOK ==
  /\ TypeOK
  /\ _by_id   \in [Tenants -> Candidates \cup {Unknown}]
  /\ _by_slug \in [Slugs -> Candidates \cup {Unknown}]
  /\ address  \in [Requests -> Slugs \cup Tenants \cup {NoSlug}]
  /\ context  \in [Requests -> Tenants \cup {NoTenant}]

Lookup(a) == IF a \in Slugs THEN _by_slug[a] ELSE _by_id[a]

\* The binding made before the middleware awaits is not stale when the handler
\* uses it: whatever was registered meanwhile, the request's address still
\* resolves to the bound tenant, which is active.
ContextIsCurrent ==
  \A r \in Requests : address[r] # NoSlug =>
    LET tenant == Lookup(address[r])
    IN  tenant # Unknown /\ tenant.active /\ tenant.id = context[r]

OrderState(o) ==
  <<status[o], tenant_id[o], total[o], snapshot[o], history[o], ledger[o], audit[o],
    refundCalls[o]>>

Ends(r) == address[r] # NoSlug /\ address'[r] = NoSlug

\* "the platform never serves traffic outside an explicit tenant boundary": with
\* any number of requests in flight, a request changes only orders that are, then,
\* of the tenant it was sent to, by subdomain or, without one, by header.
OnlyAddressedTenant ==
  [][\A r \in Requests : Ends(r) =>
       \A o \in OrderIds : OrderState(o)' # OrderState(o) =>
         /\ Lookup(address[r]) # Unknown
         /\ tenant_id'[o] = Lookup(address[r]).id]_allVars

\* What middleware, registry and routes do to orders together is what OrderService
\* does when every operation has a registered tenant bound.
ImplementsOrderService == Spec
=============================================================================
