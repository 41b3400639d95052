---------------------------- MODULE WebhookHandler ----------------------------
(***************************************************************************)
(* Stripe webhook processing: payments/webhook_handler.py over the dedup   *)
(* store of payments/webhook_dedup.py, behind the route of                 *)
(* api/routes_payment.py.                                                  *)
(*                                                                         *)
(* Stripe delivers an event any number of times, at any time after it was  *)
(* created, until (and, for operational re-sends, after) it sees a 200.    *)
(* The route never awaits once it has the body, so one request runs to its *)
(* end before the next begins; but the process can crash inside it, and a  *)
(* restart begins with an empty in-memory store.  A delivery that          *)
(* verify_signature rejects as stale is answered 400 and changes nothing,  *)
(* so it is not a step.                                                    *)
(***************************************************************************)
EXTENDS Integers

CONSTANTS
  Events,       \* Stripe event ids; never empty
  Ignored,      \* events of a type handle_event does not dispatch
  Tolerance,    \* MAX_TIMESTAMP_DRIFT_SECONDS
  Retention,    \* retention window of WebhookEventStore
  Skew,         \* how far Stripe's clock may be from ours
  MaxTime,      \* bound: the clock of the model stops here
  MaxCrashes    \* bound: process restarts

ASSUME WindowAssumption ==
  /\ Tolerance \in Nat /\ Retention \in Nat /\ Skew \in Nat
  /\ Tolerance + Skew <= Retention        \* 300 s against at least 24 h
  /\ MaxTime \in Nat /\ MaxCrashes \in Nat
  /\ Ignored \subseteq Events

VARIABLES
  now,           \* the wall clock
  sent,          \* events Stripe has created
  created,       \* event.created, by Stripe's clock
  _processed,    \* keys of WebhookEventStore._processed
  processed_at,  \* _ProcessedEvent.processed_at
  stage,         \* where the running handle_event is: idle, claimed, dispatched
  current,       \* the event it works on
  effects,       \* times an event was dispatched for fulfilment or refund
  runEffects,    \* the same, since the last restart
  acked,         \* events Stripe has seen a 200 for
  crashes

webhookVars == <<now, sent, created, _processed, processed_at, stage, current,
                 effects, runEffects, acked, crashes>>

WebhookInit ==
  /\ now = Skew
  /\ sent = {} /\ _processed = {} /\ acked = {}
  /\ created      = [e \in Events |-> 0]
  /\ processed_at = [e \in Events |-> 0]
  /\ effects      = [e \in Events |-> 0]
  /\ runEffects   = [e \in Events |-> 0]
  /\ stage = "idle" /\ current \in Events
  /\ crashes = 0

-----------------------------------------------------------------------------
(* Stripe and the clock.                                                   *)

Emit(e) ==
  /\ e \notin sent
  /\ sent' = sent \cup {e}
  /\ \E t \in (now - Skew)..(now + Skew) : created' = [created EXCEPT ![e] = t]
  /\ UNCHANGED <<now, _processed, processed_at, stage, current, effects, runEffects,
                 acked, crashes>>

Tick ==
  /\ now < MaxTime
  /\ now' = now + 1
  /\ UNCHANGED <<sent, created, _processed, processed_at, stage, current, effects,
                 runEffects, acked, crashes>>

\* A 200 on its way to Stripe arrives or is lost.
Ack(e) == acked' = acked \/ acked' = acked \cup {e}

-----------------------------------------------------------------------------
(* The handler.                                                            *)

\* verify_signature accepts the (genuine) event as fresh.
Fresh(e) == now - created[e] <= Tolerance

\* Variant: entries are purged after the tolerance instead of the retention.
PurgeWithTolerance(S) == {e \in S : processed_at[e] >= now - (Tolerance - 1)}

\* purge_expired: what claim keeps of the store S.
Unexpired(S) == {e \in S : processed_at[e] >= now - Retention}

\* handle_event on a replay: claim is False; audited, answered 200.
Duplicate(e) ==
  /\ stage = "idle" /\ e \in sent /\ Fresh(e)
  /\ e \in Unexpired(_processed)
  /\ _processed' = Unexpired(_processed)
  /\ Ack(e)
  /\ UNCHANGED <<now, sent, created, processed_at, stage, current, effects,
                 runEffects, crashes>>

\* handle_event on a first delivery, up to the claim.
Claim(e) ==
  /\ stage = "idle" /\ e \in sent /\ Fresh(e)
  /\ e \notin Unexpired(_processed)
  /\ _processed' = Unexpired(_processed) \cup {e}
  /\ processed_at' = [processed_at EXCEPT ![e] = now]
  /\ stage' = "claimed" /\ current' = e
  /\ UNCHANGED <<now, sent, created, effects, runEffects, acked, crashes>>

\* The receipt is audited and the event type's handler runs.
Dispatch ==
  /\ stage = "claimed"
  /\ IF current \in Ignored
     THEN UNCHANGED <<effects, runEffects>>
     ELSE /\ effects'    = [effects EXCEPT ![current] = @ + 1]
          /\ runEffects' = [runEffects EXCEPT ![current] = @ + 1]
  /\ stage' = "dispatched"
  /\ UNCHANGED <<now, sent, created, _processed, processed_at, current, acked, crashes>>

\* handle_event returns its receipt and the route answers 200.
Reply ==
  /\ stage = "dispatched"
  /\ Ack(current)
  /\ stage' = "idle"
  /\ UNCHANGED <<now, sent, created, _processed, processed_at, current, effects,
                 runEffects, crashes>>

\* Variant: claims outlive the crash that interrupted their event.
CrashKeepingClaims ==
  /\ crashes < MaxCrashes
  /\ crashes' = crashes + 1
  /\ stage' = "idle"
  /\ runEffects' = [e \in Events |-> 0]
  /\ UNCHANGED <<now, sent, created, _processed, processed_at, current, effects, acked>>

\* The process dies, wherever it is, and comes back: a new WebhookEventStore.
Crash ==
  /\ crashes < MaxCrashes
  /\ crashes' = crashes + 1
  /\ _processed' = {}
  /\ stage' = "idle"
  /\ runEffects' = [e \in Events |-> 0]
  /\ UNCHANGED <<now, sent, created, processed_at, current, effects, acked>>

Deliver(e) == Claim(e) \/ Duplicate(e)

WebhookNext ==
  \/ Tick \/ Dispatch \/ Reply \/ Crash
  \/ \E e \in Events : Emit(e) \/ Deliver(e)

WebhookSpec == WebhookInit /\ [][WebhookNext]_webhookVars

\* A request that is being handled goes on unless the process crashes, and
\* Stripe retries an event it has no 200 for.  Nothing forces time to pass.
Fairness ==
  /\ WF_webhookVars(Dispatch) /\ WF_webhookVars(Reply)
  /\ \A e \in Events : WF_webhookVars(e \notin acked /\ Deliver(e))

WebhookFairSpec == WebhookSpec /\ Fairness

-----------------------------------------------------------------------------
(* Properties.                                                             *)

\* The type invariant of the handler, the store and Stripe's view of them.
WebhookTypeOK ==
  /\ now \in Int
  /\ sent \subseteq Events /\ _processed \subseteq Events /\ acked \subseteq Events
  /\ created \in [Events -> Int] /\ processed_at \in [Events -> Int]
  /\ effects \in [Events -> Nat] /\ runEffects \in [Events -> Nat]
  /\ stage \in {"idle", "claimed", "dispatched"} /\ current \in Events
  /\ crashes \in Nat

\* "a replayed event can never double-fulfil or double-reverse", for as long as
\* the process lives: dispatches exceed one per event only by restarts.  It takes
\* the freshness check AND a retention window that outlasts it.
DispatchedOncePerRun ==
  \A e \in Events : runEffects[e] <= 1 /\ effects[e] <= 1 + crashes

\* Stripe is told 200 only for events whose handler has run: a crash inside the
\* request, a lost answer or a replay never makes Stripe stop too early.
AckedIsHandled == \A e \in acked \ Ignored : effects[e] >= 1

\* An event Stripe created is handled, whatever crashes and lost answers come,
\* if it does not go stale first.
HandledUnlessStale ==
  \A e \in Events \ Ignored : e \in sent ~> effects[e] >= 1 \/ ~Fresh(e)
=============================================================================
