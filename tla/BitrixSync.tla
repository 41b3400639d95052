------------------------------ MODULE BitrixSync ------------------------------
(***************************************************************************)
(* bitrix24/: the one-way sync of changed orders to the Bitrix24 Box.  A   *)
(* worker collects a tenant's changes (OrderRepository.changes_since),     *)
(* and for each order builds the raw payload, scrubs it, posts the deal    *)
(* and logs the event.  Meanwhile the API goes on changing the same Order  *)
(* objects: the payload shows an order as it is when its turn comes, and   *)
(* the deal as it was when the payload was built.                          *)
(*                                                                         *)
(* The scheduler is not in the repository.  What the docstring of          *)
(* sync_client.py asks of it is assumed: one batch at a time per tenant,   *)
(* last_sync is the moment a batch was collected, and it moves only when   *)
(* sync_orders returned.                                                   *)
(*                                                                         *)
(* An order's status is the number of its transitions so far: the table of *)
(* OrderLifecycle has no cycle, so a later status is a greater number.     *)
(***************************************************************************)
EXTENDS Selections, SequencesExt

CONSTANTS
  Tenants,
  Repository,    \* the orders, in the order the repository was given them
  OwnerOf,       \* Order.tenant_id
  FreeText,      \* what branch_id and service_type of an order hold
  Blocked,       \* sync_order raises whenever it meets these: no external_id, or a
                 \* deal the Box never accepts
  NoDeal,        \* the Box has no deal for the order
  Lags,          \* how far the clock of the API can be behind the worker's
  MaxTime,       \* bound: the worker's clock
  MaxChanges,    \* bound: transitions of each order
  MaxFailures    \* bound: posts that fail for other reasons

Orders == ToSet(Repository)
Never  == 0      \* an empty updated_at, and the last_sync before the first batch

ASSUME SyncAssumption ==
  /\ Repository \in Seq(Orders) /\ IsInjective(Repository)
  /\ OwnerOf \in [Orders -> Tenants]
  /\ FreeText \in [Orders -> {"text", "contact", "disguised"}]
  /\ Blocked \subseteq Orders
  /\ Lags \subseteq Nat /\ MaxTime \in Nat /\ MaxFailures \in Nat
  /\ MaxChanges \in [Orders -> Nat]

VARIABLES
  clock,         \* the worker's clock
  status,        \* Order.status
  updated_at,    \* Order.updated_at
  last_sync,     \* the scheduler's, per tenant
  batch,         \* the running sync_orders call, per tenant
  deal,          \* what the Box shows for the order
  synced,        \* orders with a "bitrix24.synced" entry for what the Box shows
  overdue,       \* orders whose last change was stamped no later than a collection
                 \* that had already happened
  failures

vars == <<clock, status, updated_at, last_sync, batch, deal, synced, overdue, failures>>

Idle == [phase |-> "idle", at |-> Never, todo |-> <<>>, payload |-> NoDeal]

Init ==
  /\ clock = 1
  /\ status = [o \in Orders |-> 0]
  /\ updated_at = [o \in Orders |-> Never]
  /\ last_sync = [t \in Tenants |-> Never]
  /\ batch = [t \in Tenants |-> Idle]
  /\ deal = [o \in Orders |-> NoDeal]
  /\ synced = {} /\ overdue = {} /\ failures = 0

-----------------------------------------------------------------------------
(* The scrubber.  A value is a number, a text, nothing, an internal id or  *)
(* something the scrubber makes.  A text with an e-mail address or a       *)
(* telephone number is "contact" if _EMAIL_RE or _PHONE_RE matches it and  *)
(* "disguised" if it is written in a way they do not know: a number        *)
(* grouped with dots, an address with a letter outside ASCII.              *)

Value(kind, v) == [kind |-> kind, v |-> v]

PII_FIELD_RULES ==
  [customer_name |-> "order_ref", phone |-> "hash", email |-> "remove",
   address |-> "remove", deceased_name |-> "remove", order_id |-> "external_id",
   external_id |-> "allow", status |-> "allow", amount |-> "allow",
   amount_cents |-> "allow", branch_id |-> "allow", service_type |-> "allow",
   currency |-> "allow"]

DEFAULT_ACTION == "remove"

Action(field) ==
  IF field \in DOMAIN PII_FIELD_RULES THEN PII_FIELD_RULES[field] ELSE DEFAULT_ACTION

\* Variant: allowed texts are not searched.
KeepValue(x) == x

\* _scrub_value: what the two patterns match is cut out of a text.
_scrub_value(x) == IF x.kind = "contact" THEN Value("text", x.v) ELSE x

\* The fields the scrubber makes itself: external_id at the start, a title for a name,
\* the hash of a telephone number that is not empty, and the status when the payload
\* has none.
Made(payload) ==
  {"external_id", "status"}
    \cup {"title" : f \in {g \in DOMAIN payload : Action(g) = "order_ref"}}
    \cup {"phone_hash" : f \in {g \in DOMAIN payload : Action(g) = "hash" /\ payload[g].kind # "empty"}}

\* scrub_order_payload (hash_phone at its default); an order without external_id is
\* one of the Blocked.
scrub_order_payload(payload, external_id) ==
  LET allowed == {f \in DOMAIN payload : Action(f) = "allow" /\ f # "order_id"}
  IN  [f \in allowed \cup Made(payload) |->
         IF f \in allowed
         THEN IF payload[f].kind = "int" THEN payload[f] ELSE _scrub_value(payload[f])
         ELSE IF f = "status" THEN Value("text", 0)
         ELSE Value("made", IF f = "phone_hash" THEN payload["phone"].v ELSE external_id)]

\* sync_order: the raw payload of an Order with n transitions behind it.
RawPayload(o, n) ==
  [order_id     |-> Value("internal", o),
   status       |-> Value("text", n),
   amount_cents |-> Value("int", o),
   currency     |-> Value("text", o),
   branch_id    |-> Value(FreeText[o], o),
   service_type |-> Value(FreeText[o], o)]

\* What sync_order posts of an order.
Outbound(o, n) == scrub_order_payload(RawPayload(o, n), o)

ASSUME NoDealAssumption ==
  \A o \in Orders : \A n \in 0..MaxChanges[o] : Outbound(o, n) # NoDeal

-----------------------------------------------------------------------------
(* The core: orders change while batches run.                              *)

Tick ==
  /\ clock < MaxTime
  /\ clock' = clock + 1
  /\ UNCHANGED <<status, updated_at, last_sync, batch, deal, synced, overdue, failures>>

\* The last time a collection of t was made that is in force or may come into force.
CollectedAt(t) == IF batch[t] = Idle THEN last_sync[t] ELSE batch[t].at

\* Order.transition_to: status and updated_at, by the clock of the API.
Transition(o) ==
  /\ status[o] < MaxChanges[o]
  /\ status' = [status EXCEPT ![o] = @ + 1]
  /\ \E lag \in Lags :
       LET now == IF lag < clock THEN clock - lag ELSE 1
       IN  /\ updated_at' = [updated_at EXCEPT ![o] = now]
           /\ overdue' = IF now <= CollectedAt(OwnerOf[o]) THEN overdue \cup {o}
                                                           ELSE overdue \ {o}
  /\ UNCHANGED <<clock, last_sync, batch, deal, synced, failures>>

-----------------------------------------------------------------------------
(* The worker.                                                             *)

\* Variant: only what changed at least two ticks after the last sync.
ChangesWellSince(t) ==
  Chosen(Repository,
         {i \in 1..Len(Repository) :
            OwnerOf[Repository[i]] = t /\ updated_at[Repository[i]] > last_sync[t] + 1})

\* changes_since(last_sync) with t bound, in the order of the repository.
changes_since(t) ==
  Chosen(Repository,
         {i \in 1..Len(Repository) :
            /\ OwnerOf[Repository[i]] = t /\ updated_at[Repository[i]] # Never
            /\ updated_at[Repository[i]] > last_sync[t]})

\* The scheduler triggers a sync; sync_orders([]) returns at once.
Collect(t) ==
  /\ batch[t] = Idle
  /\ IF changes_since(t) = <<>>
     THEN last_sync' = [last_sync EXCEPT ![t] = clock] /\ UNCHANGED batch
     ELSE /\ batch' = [batch EXCEPT ![t] = [Idle EXCEPT
                         !.phase = "next", !.at = clock, !.todo = changes_since(t)]]
          /\ UNCHANGED last_sync
  /\ UNCHANGED <<clock, status, updated_at, deal, synced, overdue, failures>>

Current(t) == Head(batch[t].todo)

\* sync_order: the payload of the Order as it is now, scrubbed.
BuildPayload(t) ==
  /\ batch[t].phase = "next" /\ Current(t) \notin Blocked
  /\ batch' = [batch EXCEPT ![t].phase = "built",
                 ![t].payload = Outbound(Current(t), status[Current(t)])]
  /\ UNCHANGED <<clock, status, updated_at, last_sync, deal, synced, overdue, failures>>

\* The Box takes the deal.  It is an upsert: the deal before is replaced.
Upsert(t) ==
  /\ deal' = [deal EXCEPT ![Current(t)] = batch[t].payload]
  /\ synced' = IF deal' = deal THEN synced ELSE synced \ {Current(t)}

PostDeal(t) ==
  /\ batch[t].phase = "built"
  /\ Upsert(t)
  /\ batch' = [batch EXCEPT ![t].phase = "posted"]
  /\ UNCHANGED <<clock, status, updated_at, last_sync, overdue, failures>>

\* The exception leaves sync_order and the list comprehension of sync_orders: the
\* rest of the batch, and the results of what was done, are gone.
Abort(t) == batch' = [batch EXCEPT ![t] = Idle]

SyncRaises(t) ==
  /\ batch[t].phase = "next" /\ Current(t) \in Blocked
  /\ Abort(t)
  /\ UNCHANGED <<clock, status, updated_at, last_sync, deal, synced, overdue, failures>>

\* The batch goes on: the next order, or the return, at which the scheduler moves
\* last_sync.
Proceed(t) ==
  IF Len(batch[t].todo) > 1
  THEN /\ batch' = [batch EXCEPT ![t].phase = "next", ![t].todo = Tail(@),
                                 ![t].payload = NoDeal]
       /\ UNCHANGED last_sync
  ELSE /\ batch' = [batch EXCEPT ![t] = Idle]
       /\ last_sync' = [last_sync EXCEPT ![t] = batch[t].at]

\* Variant: a failing post is skipped and the batch goes on.
PostSkipped(t) ==
  /\ batch[t].phase = "built" /\ failures < MaxFailures
  /\ failures' = failures + 1
  /\ Upsert(t) \/ UNCHANGED <<deal, synced>>
  /\ Proceed(t)
  /\ UNCHANGED <<clock, status, updated_at, overdue>>

\* post_deal raises before the Box has the deal, or after (the answer is lost).
PostFails(t) ==
  /\ batch[t].phase = "built" /\ failures < MaxFailures
  /\ failures' = failures + 1
  /\ Upsert(t) \/ UNCHANGED <<deal, synced>>
  /\ Abort(t)
  /\ UNCHANGED <<clock, status, updated_at, last_sync, overdue>>

\* The audit entry of sync_order.
LogSynced(t) ==
  /\ batch[t].phase = "posted"
  /\ synced' = synced \cup {Current(t)}
  /\ Proceed(t)
  /\ UNCHANGED <<clock, status, updated_at, deal, overdue, failures>>

WorkerStep(t) ==
  Collect(t) \/ BuildPayload(t) \/ PostDeal(t) \/ SyncRaises(t) \/ LogSynced(t)

Next ==
  \/ Tick
  \/ \E o \in Orders : Transition(o)
  \/ \E t \in Tenants : WorkerStep(t) \/ PostFails(t)

\* The scheduler keeps its cadence and a running batch goes on.
Spec == Init /\ [][Next]_vars /\ \A t \in Tenants : WF_vars(WorkerStep(t))

-----------------------------------------------------------------------------
(* Properties.                                                             *)

Shown(o) == IF deal[o] = NoDeal THEN 0 ELSE deal[o]["status"].v
UpToDate(o) == Shown(o) = status[o]

\* No change falls between two batches: the next change feed returns every order
\* the Box shows out of date, whichever posts failed and whatever changed while the
\* batch ran, unless the change was stamped with a time that a collection before it
\* had already covered (changes_since compares with a strict >).
NothingMissed ==
  \A o \in Orders :
    UpToDate(o) \/ updated_at[o] > last_sync[OwnerOf[o]] \/ o \in overdue

\* Of a payload with any one field, known to the rule table or not, only what the
\* table allows or the scrubber itself makes is left.
FailsClosed ==
  \A field \in DOMAIN PII_FIELD_RULES \cup {"unknown"} :
    \A kind \in {"int", "text", "empty", "internal", "contact", "disguised"} :
      LET out == scrub_order_payload([f \in {field} |-> Value(kind, 1)], 1)
      IN  /\ field \in {"email", "address", "deceased_name", "order_id", "unknown"}
               => \A f \in DOMAIN out : out[f].kind = "made" \/ f = "status"
          /\ field \in {"phone", "customer_name"} => field \notin DOMAIN out

\* What the boundary guarantees: the scrubber fails closed, every deal in the Box
\* goes by its order's external_id, and none shows an internal order_id or contact
\* data of a form _EMAIL_RE or _PHONE_RE describes, whichever payload of the order
\* was posted last, again or late.
OnlyScrubbedCrosses ==
  /\ FailsClosed
  /\ [](\A o \in Orders : deal[o] # NoDeal =>
          /\ deal[o]["external_id"] = Value("made", o)
          /\ \A f \in DOMAIN deal[o] : deal[o][f].kind \notin {"internal", "contact"})

\* An order is obstructed by a changed order of its tenant that stands before it in
\* the repository, or is itself one, that sync_order cannot get past.
Obstructed(o) ==
  \E i, j \in 1..Len(Repository) :
    /\ i <= j /\ Repository[j] = o /\ Repository[i] \in Blocked
    /\ OwnerOf[Repository[i]] = OwnerOf[o] /\ status[Repository[i]] > 0

\* In the end the Box shows every order as it is, and the audit trail says so, unless
\* an order that cannot be synced aborts each batch before it ("every sync event is
\* recorded"), or its change was overdue when it was made.
MirrorCatchesUp ==
  <>[](\A o \in Orders :
         \/ Obstructed(o)
         \/ o \in overdue
         \/ UpToDate(o) /\ (status[o] > 0 => o \in synced))
=============================================================================
