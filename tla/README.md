# Formal model of the JOL commerce engine

TLA+ modules for the backend of the JOL commerce engine
(`src/backend/jol_commerce`), model-checked with TLC on small instances and,
for all safety properties of the passing runs, proved with TLAPS for every value
of the constants. `PROJECT.json` maps each definition to the source
lines it stands for, lists the runs, the mutated definitions that show each
property can fail, the theorems, the hazards and the findings.

## The system and its parts

| Part | State it keeps | Operations | Hard behaviour | What makes it correct |
|---|---|---|---|---|
| Orders (`orders/`, `api/routes_order.py`) | `Order` objects, history, repository | register, transition, complete, cancel, reverse commission; fulfilment steps on the same objects | a handler that fails half way; two services changing one object; who is bound when it runs | history is a path of the state machine; each order is settled or refunded at most once; records are final |
| Commissions (`commissions/`) | append-only ledger | split, reverse, reconcile | rounding, partial reversals | no cent appears or disappears; tenants' views add up |
| Audit log (`audit/audit_log.py`) | entries, last hash | `log`, verify, export | threads in `log`, details shared with the caller | an untampered chain verifies |
| Chain verifier (`audit/chain_verifier.py`, `audit verify`) | none | `verify_chain` | rebuilt links, truncated dumps, checkpoints older or newer than the dump | reports alterations, and only those |
| Webhooks (`payments/webhook_*.py`) | in-memory claims | verify, claim, dispatch, answer | replays, lost answers, crashes, expiry, clock skew | at most one dispatch, no 200 without one, handled in the end |
| Payment flows (`payments/`) | token store, audit | prepay, authorize, charge, in-person, refund | lost answers, declined cards, retries, unknown statuses | nobody is charged or refunded twice; a balance is charged only when authorized; intents are audited |
| Notifications (`notifications/`) | pending, delivered, dead-letter lists | enqueue, mark delivered, mark failed | late and duplicate reports, dead workers, the attempt limit | nothing lost, policy kept, queue drains |
| Schema provisioner (`db/provisioning/`) | `jol_schema_meta`, in-memory list, active schema | create, migrate, downgrade | a failure or crash between any two statements | records are true, tenants isolated, re-running completes |
| Tenancy (`tenancy/`) | registry, context variable | resolve, bind | bindings made before an await, unvalidated rates | a request touches and prices only orders of the tenant it was sent to |
| Provisioning CLI (`db/provisioning/cli.py`) | `public.tenants` | tenant create, create, downgrade, audit verify | a command that fails after it registered the tenant | what it announces is there |
| Catalog (`catalog/`) | services and products of a tenant | add, seed | re-seeding what an admin edited | the last permitted call for an identifier stands (not modelled) |
| Tax (`tax/`, `api/routes_tax.py`) | invoice counter, tax records | VAT from net and gross, invoice, record, reports | rounding, the day a rate changes, threads and restarts around the counter, the calendar, countries nobody checked | VAT to the cent, numbers unique per run, every line recorded and found |
| Bitrix24 sync (`bitrix24/`) | none (the scheduler keeps `last_sync`) | change feed, scrub, post, audit | orders that change during a batch, failing posts, an order that can never be synced | no change missed, only scrubbed data sent, the mirror catches up |
| Logs, payment methods, idempotency manager, security headers, API wiring, frontend | see "Not modelled" | | | |

Interactions: the routes call `OrderService`, which calls the repository, the
commission engine and ledger, the audit logger and an injected refund callback
in one synchronous sequence; before that, the tenant middleware resolves and
binds the tenant and awaits the route. `FulfillmentService` changes the same `Order`
objects without any of them. The webhook handler logs to an `AuditLogger` and
keeps writing to the dictionary it logged. The payment flows call Stripe, then
audit, then store a token. Nothing in a handler awaits between reading and
writing, so a route is one atomic step and its request two (bind, serve); threads, worker processes,
process restarts and the outside services are where steps interleave. The Bitrix24
worker reads the same `Order` objects while the API changes them. `tenant create`
inserts the registry row and runs the provisioner, each committed on its own, and seeds a
catalog that ends with the process. `audit verify` reads a dump of the log made by
`export_entries_jsonl`.

## Modules

* `CommissionEngine` - split and reversal arithmetic; `Decimal` rates and
  fractions are integers in units of `1/Scale`, so rounding is exact.
* `OrderLifecycle` - statuses, transition table, what a path is.
* `OrderService` - one variable per field of `Order` plus ledger, audit trail and
  refund calls, all per order id; one action per operation, with everything the
  operation calls. A call that raises after it changed something is an action
  with exactly that effect: completion whose split raises saves the status and
  logs the change only, cancellation whose refund callback raises does not log
  `order.cancelled`. Rejected calls change nothing and are not steps.
* `CommissionLedger` - the ledger's queries over `OrderService`.
* `TenantRequests` - registry, middleware and context variable composed with the
  order routes: a request is bound in one step and served in another, between which
  other requests are bound and served and tenants register.
* `OrderContract` - the abstract promise to tenant and customer: an order ends
  once, is paid out at most once, only on completion, with the largest whole-cent
  fee an agreed rate allows. `OrderService` refines it (`ImplementsContract`).
* `WebhookHandler` - Stripe, the clock, the claim store and the stages of one
  request (claimed, dispatched, idle), with crashes between them.
* `AuditLog` - `log()` at the grain of its reads and writes of `_last_hash` and
  `_entries`; the initial state chooses event loop or threads and which callers
  write to logged details. Digests are the tuples hashed (no collisions).
* `ChainVerifier` - extends `AuditLog`: the live log is dumped, a witness takes the
  head hash now and then, rows of the dump are modified, deleted, swapped or
  relinked, and `verify_chain` reads it. Once the dump is altered the log stands still.
* `NotificationQueue` - the three lists, the channel matrix, workers that take a
  task and report late, twice or never. Broker and gateways are external.
* `PaymentFlows` - the four payment modes as plans of an order, the calls a plan
  needs, Stripe's intents and refunds. Stripe, the network and the callers are
  external: an idempotency key names one object, an answer may be lost, a card may be
  declined (every intent is confirmed at once, so the gateway keeps the intent, the
  library raises, and the same key raises again), a caller calls again when a call
  raised, with a new key once it was told of a decline.
* `SchemaProvisioner` - the three operations, one database statement per step
  (the CLI's executor commits each statement). An artifact is a number of
  statements; the initial state chooses whether `load_applied` is wired.
* `TenantOnboarding` - extends `SchemaProvisioner`: the registry with its unique slugs
  and the `tenant create` command, which ends with the message only when
  `create_tenant_schema` returned. The catalog it seeds is an object of the process that
  nothing reads again, so it is not state of this module.
* `VatCalculator` - rate table, rate lookup and both calculations, in tenths of a
  cent and per mille, so that rounding and amounts below the cent are exact.
* `TaxInvoices` - `generate()` at the grain of its reads and writes of the class
  counter and of the calendar, in threads of several processes that restart, and the
  tax record of each line, which fails for a country without a rate and on 29 February;
  `generate()` itself checks neither. No code of the repository calls generator and store
  together; the caller that does, line by line, is external.
* `BitrixSync` - change feed, scrubber, post and audit of the orders of a batch, one
  batch per tenant at a time, while orders change. A payload field is a tagged value
  (number, text, text with contact data that the two patterns match, text with contact
  data that they do not match, nothing, internal id, made by the scrubber).
* `MCOrderService`, `MCTenantRequests`, `MCWebhookHandler`, `MCBitrixSync`,
  `MCTaxInvoices` - instances for TLC. The other modules take their constants
  directly from a `.cfg`.
* `Selections` - `sorted()` of a set of numbers and the filtering list comprehension, in
  closed form, for the modules that build lists with them.
* `OrderServiceProofs` (service, ledger, contract and the requests in front of them),
  `PaymentProofs` (webhooks and payment flows), `AuditProofs` (log and verifier),
  `NotificationQueueProofs`, `ProvisionerProofs` (provisioner, `tenant create`),
  `BitrixSyncProofs`, `TaxInvoicesProofs` - theorems; `CollectionLemmas` - what
  they share about sequences, selections and sums.

Definitions marked "Variant" are the faulty forms PROJECT.json uses as mutants;
nothing else refers to them.

## Runs

| Run | Shows |
|---|---|
| `order_api` | `TenantRequests`: two requests in flight, two orders, and a registry that fills meanwhile with three tenants (two want one subdomain, one may be inactive, one has a rate of 150%). A request changes only orders of the tenant it was sent to, bindings are never stale, the composition implements `OrderService`. The audit trail invents, repeats and reorders no status change and tells every one the service made; a completed order is settled exactly when amount and its own tenant's rate allow it, at that rate; the tenants' reconciliation views sum to the ledger; nothing recorded changes. |
| `order_library` | Callers without a bound tenant too, amounts 0, 1 and at rounding edges, several reversals, refund callbacks that return, return nothing or raise. Settlement, reversal and refund integrity, audit against ledger, refinement of `OrderContract`. |
| `webhook` | Replays, lost 200s, skewed clocks, claims that expire, a crash at any stage. One dispatch per event and process run, no 200 for an unhandled event, every event handled unless stale. |
| `audit_log` | `ChainVerifier`: two callers on a loop or in threads, three entries, three alterations. A well-used log verifies after every statement and links always point back; the verifier is exact with the checkpoint of the dump, locates a single alteration without one, and an untouched dump is reported for three causes only (a fork, written details, a checkpoint of another moment). |
| `notification_queue` | `Accounted` (nothing lost or duplicated, every failed attempt counted), the policy on every copy, and draining. |
| `tenant_onboarding` | Truth and order of the records, what a successful return and an announcement mean, isolation of tenants, completion of a re-run migration. |
| `payment_flows` | `MoneyMovesOnce` (nobody overcharged or refunded twice when callers use keys), tokens backed and audited, a balance charged only after an audited authorization, every intent that was not declined audited in the end. |
| `bitrix_sync` | Every order the Box shows out of date is in the next change feed; no internal id and no contact data of a form the patterns describe reaches the Box, and a field the rule table does not list is dropped; the mirror and its audit entries catch up, except behind an order that cannot be synced. |
| `tax_invoices` | On an event loop two invoices share a number only across processes or restarts; each line is taxed at the rate of its day, to the nearest cent, and the net is recovered from the gross; an invoice that was not refused has one record for each line and no other, kept seven years and found by its country if the code was typed in upper case; a refused one has a line that explains it; the retention report counts every record. |
| `audit_receipt`, `migration_blocked`, `fulfillment_unaudited` | Violations, see Findings. |

Runs with `CHECK_DEADLOCK FALSE` may stop: all orders terminal, the bounded
clock at its end, all entries logged.

### Bounds

Two orders or tenants suffice for cross-tenant effects, because no operation
touches more than one order and one context. Amounts and rates are chosen so
that fees round (8% and 15% of 13, 25 and 99 cents) and so that splits fail (a
negative total, which the request schema accepts, and a rate above one). `MaxReversals`
lets fractions add up past the whole. Two requests give every overlap of
two bindings; requests and orders are symmetric, which is sound because the run
checks safety only and no definition distinguishes them. Webhook time is in units of 150 s with
the retention shortened to the least the argument needs (tolerance plus skew),
so that claims expire within `MaxTime`. Two workers and two enqueue calls give late
reports, and a second copy of one id. Two revisions of two statements give a failure before,
inside and after a revision and between revisions. Three intents cover all legs of a
mixed payment, or a leg whose card was declined first; one lost answer and one repeated call may
hit any of them. One slug
for two tenants makes a taken slug the normal case. The
sync has two syncable orders around one that is not and an order of another tenant,
two clock ticks (so that equal and late stamps occur) and one failing post. Invoices
run over three days: the eve and the day of the Estonian rate change, which is also a
change of month, and a 29 February; amounts include a rounding half, a
fraction of a cent and a negative line, and one invoice has the same line with its
country typed both ways, another a second line for a country without a rate, so that it
is refused midway. Three log entries and three alterations suffice to
alter a row and rebuild all links behind it.

### Fairness

* Webhook: a request in progress continues unless the process dies (the handler
  blocks on nothing), and Stripe retries events it has no 200 for. Time is not
  forced to pass, so `HandledUnlessStale` allows staleness as an outcome.
* Notifications: the broker keeps running the task of a pending notification and a
  worker that sent reports or dies (deaths are bounded).
* Provisioner: a running call continues; operations re-runs a failed creation or
  migration. Strong fairness, because starting is possible only between calls.
* Onboarding: as for the provisioner; `tenant create` itself is not fair, because nobody
  has to register tenants.
* Bitrix24: the scheduler keeps its cadence and a running batch goes on (weak fairness
  of each tenant's worker). Clock, order changes and failing posts are not fair; posts
  fail finitely often except for the orders in `Blocked`.
* Payments: a caller calls again while a needed operation has not returned.
  Refunds and repeats are not fair.

## Proofs

`OrderServiceProofs` proves, for all sets of orders, tenants, rates, amounts,
fractions and contexts that satisfy the named assumptions of `OrderService` and
`CommissionEngine`:

* `TypeCorrect`;
* `SettlementIsSound`, `ContractRateIsCharged`, `RefundsAreUnique`,
  `HistoriesArePaths` - four invariants of the runs. None is inductive alone: a
  settlement is sound because an order reaches `completed` once and, until then,
  has neither ledger entry nor refund call. The strengthening says which records an
  order in each status may have; each theorem adds what it needs (the
  rounding bounds of `calculate` and `reverse`, stated as lemmas on integer division;
  that under bound contexts an order's tenant is the context that may complete
  it);
* `HistoryIsFinal` - the action property `RecordsAreFinal`, from type correctness;
* `AuditTellsHistory` and `AuditTellsLedger` - the audit trail beside the history and
  the ledger (`Tells`, `Books` for one order). Every operation writes an audited list and
  its event together (`ApplyWrites`). An event tells of one change only because an order
  reaches a status once: every transition leads to a higher level and no order is behind
  a status it has had (`Onward`), so that a change fulfilment makes cannot be mistaken
  for one the service made. Ledger entries are matched to events by rank; a list that
  grows at its end leaves the ranks of its old entries alone (`RankGrows`), and that the
  settlement is the first booking needs `SettlementIntegrity`;
* `ReconciliationAlwaysAddsUp` - every view balances because each entry does
  (`SumPlus`), and the tenants' views partition the ledger (`SumParts`) because every
  entry goes to the tenant of its order and, under bound contexts, every order has
  one. Assumes finitely many orders and tenants (`LedgerAssumption`);
* `ReversalsStayWithinSettlement` - for any number of reversals. The invariant `Fair`
  bounds `Scale` times what was taken from each column by the settled amount times the
  fractions asked for, plus `Scale - 1` per reversal for the tenant's column
  (`WithinStep`: one reversal keeps the bounds; `WithinMeans`: they give the property);
* `ServiceImplementsContract` - the refinement of `OrderContract`: initial states map to
  initial states, every step to a step of the contract or a stutter, using
  the invariants above and the fee bounds.

Of `TenantRequests` the same module proves, for every registry and any number of requests, that
bindings stay current (`BindingsStayCurrent`: a registration never changes what a
slug or id already finds), that types are kept (`RequestTypesCorrect`), that the composition implements `OrderService`
(`RequestsImplementService`), so that its theorems hold of the API
(`ApiChargesContractRate`), and that requests stay inside the tenant they were sent to
(`RequestsStayInside`).

`PaymentProofs` proves of the webhook handler
type correctness (`WebhookTypeCorrect`); `OncePerRun`, for every tolerance, skew and retention with
`Tolerance + Skew <= Retention`: an event dispatched in this run is still claimed as
long as it is fresh; and `NoEmptyAnswers`: a claim belongs to a handled event or to the
request that is about to handle it (`ClaimInv`), so a duplicate answered 200 is one of
an event that was handled.

Of the payment flows it proves `MoneyAlwaysMovesOnce`, `TokensAlwaysBacked` and
`ChargesAlwaysAuthorized`. With keys, the gateway's objects have keys of their own that
name order, operation and attempt, each intent is for what the plan of its order asks, and
of the attempts at an operation all but the last were declined (`IntentsInv`, `AttemptsInv`,
`RefundsInv`), so an order has at most one intent per operation that was not declined and
what they sum to is within its total. A charge is authorized because a `setup_intent`
token exists only for an authorization that was accepted and audited (`Backed`).

`AuditProofs` proves type correctness, `LinksAlwaysPointBack` and
`ChainAlwaysIntact` for any set of callers and any number of entries. That a link
points back needs what a caller in the middle of `log()` has read: the hash it holds is
that of an entry already in the list, or of the start (`LinksReady`). That the chain
verifies is proved for the well-used log only, from an invariant that ties
`_last_hash` to the last entry at each statement of `log()` (`Linked`). On top of them
come the three properties of `verify_chain`, for dumps of any length:
`CheckpointIsExact`, because two chains with one head are one chain (`OneHeadOneChain`;
a hash determines its row and, through the link, all rows before it);
`AlterationsAreLocated`, because after one alteration the rows are known exactly
(`EditInv`) and the first broken link with them; `FalseAlarmsHaveACause`, because dump
and witness hold what the log held at some moment (`WitnessInv`).

`NotificationQueueProofs` proves `QueueAlwaysAccounted` and `PolicyAlwaysKept` for any
workers, ids, enqueues and deaths. Copies and attempts of an id are sums of a value of
each notification over the three lists (`CountsInv`); an operation moves a notification
from one list to another or re-creates it with one attempt more. The attempt limit and
the policy are types of the lists' elements (`ListsInv`).

`ProvisionerProofs` proves, of `tenant create`, the provisioner and the operations behind
them, for any finite set of tenants, any revisions, statements, failures and deaths of the
process: `RecordsAreTrue`, `ReturnsMeanDone`, `AnnouncementsHold` and `CallsAreIsolated` (an
action property). None of them follows from the state between calls:
the invariant (`OnboardingInvariant`) says what a call in the middle of its work has done.
`PInv` ties the running call to the database: its statements go to the schema of the tenant
it is about (`CallInv`), the statements of an artifact before its counter are in effect
(`Progress`), and, with a loader, the records of a schema are a prefix of the revisions
(`Consecutive`), the revisions a migration still has to do start where the records end
(`Ahead`), those of a rollback are the end of the records down to the target (`Behind`),
and the tenants `migrate_all` has passed are complete (`Visited`). That `_pending` and
`ToUndo` return such intervals rests on lemmas about `Sorted` and `Chosen`
(`SortedInterval`, `ChosenPrefix`). `CommandInv` adds what
`tenant create` knows between its INSERT and its message.

`BitrixSyncProofs` proves `NothingIsMissed` and `OnlyScrubbedIsSent` for any
repository, tenants, clock lags and failing posts. That the feed misses nothing is not
inductive: when a batch returns, `last_sync` jumps to the time of its collection, and this
is right only because every order that changed before the collection was in the batch and
has been posted as it was then or later. `SyncInv` says so of a running batch (`Running`): every order of the tenant is still
in `todo` or is `Covered` (up to date, changed after the collection, or overdue), and the
payload that was built shows the order as it is unless a later feed has it (`Built`). The second theorem needs that a
deal is always an `Outbound` payload, and the scrubber's definition; it says nothing of
contact data that the patterns do not match (see Findings). The Box's empty
answer differs from every payload (`NoDealAssumption`).

`TaxInvoicesProofs` proves `NumbersUniquePerRun`, `VatAlwaysExact` and
`RecordsAlwaysKept` for any threads, processes, calendar of real days and line items of
any countries, with a rate or without. Uniqueness of the numbers is not inductive: the invariant adds that on an event loop a
process has one call of `generate` at a time (`OneCall`), that the counter is at least
every number its present run has printed and, once a call has stored it, greater
(`CounterAhead`), and that a printed month has come (`MonthHasCome`), from the bounds of
integer division and the order of the calendar.

`VatAlwaysExact` rests on lemmas about the operators. `RateFacts` compares the first
match in the newest-first rate list with `RateOn`; `RoundBounds` and `RoundUnique`
characterise rounding half up as the only whole number within half a unit; from them
`VatBounds` has the VAT of any integer amount within half a cent, and `NetRecovered` the
net back from the rounded gross, because the division by one plus a positive rate makes
the half cent smaller. `InvoiceIsExact` adds the lines up.
`RecordsAlwaysKept` needs `RInv`: an id names one call and one invoice (`Ids`), the lines
that a recording call has left are the last ones of its invoice and the store of its
process has exactly one record of each of the others and no further record of the invoice
(`Left`), a settled invoice is recorded up to its end or up to the line it was refused for
(`Finished`, `Stopped`), and a refused one has a line that gives the reason (`Refusals`).
A restart drops records and calls together, and an invoice of an earlier run is no longer
`Settled`.

`CollectionLemmas` holds what these proofs need about sums over finite sets and over
the elements of a sequence. The library defines a sum by a recursive function over
subsets; the lemmas compare it with a table of partial sums (`IsSum`) which is unique,
and take induction in the form of a least counterexample (`LeastNat`), so that no
induction theorem with an operator parameter is used.

Only model-checked: every liveness property (`HandledUnlessStale`, `Drained`,
`MigrationCompletes`, `AcceptedIntentsAreAudited`, `MirrorCatchesUp`), which needs fairness.

## Findings

Shown by runs that violate a documented statement:

1. `audit_receipt` - the webhook handler writes to the receipt it has logged; the
   untampered chain no longer verifies (`audit_log.py:143`).
2. `migration_blocked` - one tenant's failure ends `migrate_all`
   (`schema_provisioner.py:11`).
3. `fulfillment_unaudited` - a status change of `FulfillmentService` has no audit entry
   (`order_lifecycle.py:19`, `fulfillment.py:6`).

Limits that a reader of the documentation may not expect. The passing properties allow
them, as the hypothesis or the exception named, and do not ask for them:

* The transition route cancels an order without `order.cancelled` entry and without a
  call of the refund callback, which `order_lifecycle.py:9` and `order_service.py:8` lead
  one to expect (`order_service.py:78-98`; action `Transition`).
* The intent of a declined card stays at the gateway and never reaches the audit trail
  (`payment_intent.py:85`, against `audit/__init__.py:4`; the exception in
  `AcceptedIntentsAreAudited`).
* Contact data that the two patterns of the scrubber do not match, such as a telephone
  number grouped with dots or an address with a letter outside ASCII, is sent in an
  allowed free text (`pii_scrubber.py:29-30`, against `sync_client.py:67`; the texts called
  "disguised", of which `OnlyScrubbedCrosses` says nothing).
* The tax record of a sale of 29 February cannot be created (`tax_record_store.py:40`,
  against `compliance/tax/retention-evidence.md:26`; `Unrecordable` in `LinesAreRecorded`).
* A completed order has no settlement when the split raises: the status is
  saved first (`order_service.py:83-97`; the ELSE case of `SettledAtContractRate`).
* A refund callback that raises leaves a cancelled order without
  `order.cancelled` (`order_service.py:110`; modelled in `Cancel`).
* Without a bound tenant an order is settled at the default rate
  (`order_service.py:178`; hypothesis of `SettledAtContractRate`).
* Partial reversals may overdraw the tenant's column by less than a cent each, and
  have no cumulative cap (`PartialReversalsStayWithinSettlement`).
* The claim store is per process: after a restart an event can be dispatched again
  (`effects <= 1 + crashes` in `DispatchedOncePerRun`).
* An event that a crash interrupted is handled only if Stripe's retry comes within
  300 s of its creation; later it is rejected as stale (`webhook_handler.py:98`;
  `~Fresh(e)` in `HandledUnlessStale`).
* An emptied dump is reported intact even with a checkpoint
  (`chain_verifier.py:76`; hypothesis `rows # <<>>` of `ExactWithCheckpoint`), and a
  checkpoint taken before or after the dump makes an untouched one look altered
  (third cause of `FalseAlarmHasACause`).
* Idempotency keys are optional although `payment_flows.py:12` says every charge
  carries one (hypothesis `keyed`), and refunds are not audited although
  `refund.py:63` says so.
* Without `load_applied`, as the CLI builds it, a provisioner does not see what
  another process recorded (hypothesis `loader`); an interrupted rollback leaves a
  recorded revision incomplete (`undoing`).
* A `tenant create` that fails after the INSERT leaves the slug taken: the same
  command is refused when it is run again (`cli.py:120`; guard of `_tenant_create`).
* `tenant create` seeds a repository that ends with the process, and `migrate` only
  prints a notice (`cli.py:130,206`).
* Invoice numbers are unique per run of one process on an event loop, not across
  processes, restarts or threads (`invoice_generator.py:106,132`), and the number may
  name the month before the invoice date's.
* `generate()` numbers and issues an invoice for a country without a rate; its totals and
  the records from that line on raise afterwards (`country_rates.py:115`; `Unrecordable` in
  `LinesAreRecorded`).
* A record whose country code was typed in lower case is missing from its country's report
  (`vat_calculator.py:77`; `LinesAreRecorded` asks only for codes typed in upper case).
* A payment whose status the enum does not list is audited and has no token
  (`payment_intent.py:109`; `TokensAreBacked` speaks of the tokens there are).
* An order that cannot be synced keeps every later changed order of its tenant out of
  Bitrix24 for good (`sync_client.py:107`; `Obstructed`), a change stamped no later than
  a collection before it is not returned by the feed (`order_repository.py:59`;
  `overdue`), and an order without a transition is never synced.

## Abstractions

* Callers of `OrderService` obtain an order with `find_by_id` under the same
  context. A caller that keeps another tenant's object would have
  `transition_to` applied before `save` raises (`order_service.py:82`); not modelled.
* Order ids are fresh; ledger and audit log are kept per order because nothing
  reads the relative order of two orders' entries.
* Signature checks succeed for genuine events; staleness is modelled, forgery not.
* Token ids, timestamps and names are left out; equal tokens of an order are one.
* A payment method id is always a gateway token; currencies are left out.
* The Bitrix24 scheduler is not in the repository: one batch at a time per
  tenant, `last_sync` is the time of the collection and moves only when `sync_orders`
  returned. Two overlapping batches of one tenant could post in either order.
* Texts are told apart only by whether the patterns of `_scrub_value` match their contact
  data; what matches is cut out, the rest is kept. Which of the two a text is, is chosen
  by the instance (`FreeText`).
* Dates are numbers `yyyymmdd`, and a 29 February of the calendar is one of a leap year
  (`InvoiceAssumption`); a rate table entry outside the Baltic states has no
  date, since it is the only one of its country. Rates are those of the code:
  `docs/vat-matrix.md:41` also lists 20% for Estonia before 2024, which is in neither the
  code's table nor the run's calendar.

## Not modelled

* `audit/transaction_log.py`, `audit/pii_safe_log.py`, `security/idempotency.py`: no
  code of the repository calls them. The first is an append-only list with
  filters, the second text redaction; the third has a check and a record that a caller
  would have to make atomic, and there is no caller.
* `catalog/`: two dictionaries of one tenant behind a table lookup, with one caller at a
  time. Nothing stores or reads them yet: `tenant create` seeds a catalog that ends with
  its process, and `api/routes_catalog.py` serves the tables.
* `payments/payment_methods.py`, `config.py`, `api/schemas.py`, `api/app.py`,
  `security/`: constant tables, wiring, declarative validation, headers.
* The SQL artifacts (their statements are counted, not interpreted: `_statements`,
  `schema_provisioner.py:209`, splits at every `;`, also inside the `$$` body of the
  template's trigger function), the frontend and the
  scripts, which print placeholders.

## Plan

A composition of webhook handler and audit log, so that the handler's own
entries, duplicates included, form the chain.
