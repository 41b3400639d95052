-------------------------- MODULE NotificationQueue --------------------------
(***************************************************************************)
(* notifications/notification_service.py and classification.py: a queue    *)
(* with channel policy, retry and a dead-letter queue, and the workers     *)
(* that drain it.                                                          *)
(*                                                                         *)
(* The queue hands a worker only a notification_id (task_payload); the     *)
(* worker sends through a gateway and then calls mark_delivered or         *)
(* mark_failed with that id.  The task broker and the gateways are outside *)
(* the repository: a task may be run by several workers, and a worker may  *)
(* die before it reports.                                                  *)
(***************************************************************************)
EXTENDS Naturals, Sequences, FiniteSets, FiniteSetsExt, SequencesExt

CONSTANTS
  Ids,                     \* notification_ids
  Workers,                 \* delivery workers
  MAX_DELIVERY_ATTEMPTS,
  MaxEnqueues,             \* bound: enqueue calls
  MaxDeaths                \* bound: workers that die between send and report

ASSUME QueueAssumption ==
  /\ MAX_DELIVERY_ATTEMPTS \in Nat \ {0}
  /\ MaxEnqueues \in Nat /\ MaxDeaths \in Nat

Classification == {"public", "internal", "confidential", "restricted"}
Channel == {"pwa_push", "sms", "whatsapp", "email", "encrypted_email"}

CHANNEL_MATRIX ==
  [public       |-> {"pwa_push", "sms", "whatsapp"},
   internal     |-> {"sms", "whatsapp", "email"},
   confidential |-> {"encrypted_email"},
   restricted   |-> {"encrypted_email"}]

Sensitive == {"confidential", "restricted"}

Notification ==
  [id : Ids, classification : Classification, channel : Channel,
   encrypted : BOOLEAN, attempts : Nat]

VARIABLES
  pending, delivered, dead_letter,   \* the three lists, in order
  enqueued,                          \* enqueue calls accepted, per id
  task,                              \* the id a worker is sending, or Idle
  failures,                          \* mark_failed calls that found their id
  deaths

vars == <<pending, delivered, dead_letter, enqueued, task, failures, deaths>>

Idle == "idle"
Everything == pending \o delivered \o dead_letter

Init ==
  /\ pending = <<>> /\ delivered = <<>> /\ dead_letter = <<>>
  /\ enqueued = [id \in Ids |-> 0]
  /\ task = [w \in Workers |-> Idle]
  /\ failures = [id \in Ids |-> 0]
  /\ deaths = 0

-----------------------------------------------------------------------------
\* assert_channel_allowed, and the check on confidential content.
PolicyAllows(n) ==
  /\ n.channel \in CHANNEL_MATRIX[n.classification]
  /\ n.classification \in Sensitive => n.encrypted

\* A caller that retries enqueues the same id again; the queue does not check.
enqueue(n) ==
  /\ Len(Everything) < MaxEnqueues
  /\ PolicyAllows(n)
  /\ pending' = Append(pending, n)
  /\ enqueued' = [enqueued EXCEPT ![n.id] = @ + 1]
  /\ UNCHANGED <<delivered, dead_letter, task, failures, deaths>>

Position(id) == {i \in 1..Len(pending) : pending[i].id = id}

\* _pop_pending raises LookupError, and nothing changes, when the id is not there.
InPending(id) == Position(id) # {}
First(id) == CHOOSE i \in Position(id) : \A j \in Position(id) : i <= j

\* A worker gets the task of a pending notification and sends it.
Take(w, id) ==
  /\ task[w] = Idle /\ InPending(id)
  /\ task' = [task EXCEPT ![w] = id]
  /\ UNCHANGED <<pending, delivered, dead_letter, enqueued, failures, deaths>>

Done(w) == task' = [task EXCEPT ![w] = Idle]

mark_delivered(w) ==
  /\ task[w] # Idle /\ InPending(task[w])
  /\ LET i == First(task[w])
     IN  /\ pending' = RemoveAt(pending, i)
         /\ delivered' = Append(delivered, pending[i])
  /\ Done(w)
  /\ UNCHANGED <<dead_letter, enqueued, failures, deaths>>

\* Variant: the copy is made without the encrypted payload.
RetriedInClear(n) == [n EXCEPT !.attempts = @ + 1, !.encrypted = FALSE]

\* Variant: the attempt is not counted.
RetriedUncounted(n) == n

\* The copy mark_failed makes of the frozen dataclass.
Retried(n) == [n EXCEPT !.attempts = @ + 1]

\* Variant: a failed notification goes back to the queue as it was.
MarkFailedForever(w) ==
  /\ task[w] # Idle /\ InPending(task[w])
  /\ LET i == First(task[w])
     IN  pending' = Append(RemoveAt(pending, i), pending[i])
  /\ Done(w)
  /\ UNCHANGED <<delivered, dead_letter, enqueued, failures, deaths>>

mark_failed(w) ==
  /\ task[w] # Idle /\ InPending(task[w])
  /\ LET i == First(task[w])
         n == Retried(pending[i])
         rest == RemoveAt(pending, i)
     IN  IF n.attempts >= MAX_DELIVERY_ATTEMPTS
         THEN pending' = rest /\ dead_letter' = Append(dead_letter, n)
         ELSE pending' = Append(rest, n) /\ UNCHANGED dead_letter
  /\ failures' = [failures EXCEPT ![task[w]] = @ + 1]
  /\ Done(w)
  /\ UNCHANGED <<delivered, enqueued, deaths>>

\* A late report: another worker already moved the notification.
LateReport(w) ==
  /\ task[w] # Idle /\ ~InPending(task[w])
  /\ Done(w)
  /\ UNCHANGED <<pending, delivered, dead_letter, enqueued, failures, deaths>>

\* The worker dies before reporting; its task will be run again.
Die(w) ==
  /\ task[w] # Idle /\ deaths < MaxDeaths
  /\ deaths' = deaths + 1
  /\ Done(w)
  /\ UNCHANGED <<pending, delivered, dead_letter, enqueued, failures>>

\* What callers enqueue: a fresh notification, or the one they have with its id.
NewNotification == [id : Ids, classification : Classification, channel : Channel,
                    encrypted : BOOLEAN, attempts : {0}]

SameObject(n) ==
  \A i \in 1..Len(Everything) :
    Everything[i].id = n.id => n = [Everything[i] EXCEPT !.attempts = 0]

Report(w) == mark_delivered(w) \/ mark_failed(w) \/ LateReport(w)

Next ==
  \/ \E n \in NewNotification : SameObject(n) /\ enqueue(n)
  \/ \E w \in Workers : Report(w) \/ Die(w) \/ \E id \in Ids : Take(w, id)

Spec == Init /\ [][Next]_vars

\* The broker keeps running the task of a pending notification, and a worker
\* that sent something reports it or dies.
FairSpec ==
  /\ Spec
  /\ \A w \in Workers : WF_vars(Report(w))
  /\ \A id \in Ids : WF_vars(\E w \in Workers : Take(w, id))

-----------------------------------------------------------------------------
(* Properties.                                                             *)

Copies(list, id) == {i \in 1..Len(list) : list[i].id = id}

\* The type invariant of the queue and its workers.
TypeOK ==
  /\ pending \in Seq(Notification) /\ delivered \in Seq(Notification)
  /\ dead_letter \in Seq(Notification)
  /\ enqueued \in [Ids -> 0..MaxEnqueues] /\ failures \in [Ids -> Nat]
  /\ \A w \in Workers : task[w] = Idle \/ task[w] \in Ids
  /\ deaths \in 0..MaxDeaths

\* No notification is lost or duplicated by the queue, whatever late, repeated
\* and missing reports the workers make: each accepted enqueue is in exactly one
\* of pending, delivered and dead-letter.
Conserved == \A id \in Ids : Cardinality(Copies(Everything, id)) = enqueued[id]

\* "after 3 attempts the notification moves to the dead-letter queue": the failed
\* attempts of an id are all counted on its copies, a pending copy always has an
\* attempt left, a dead one has used them up.
AttemptsAccounted ==
  /\ \A id \in Ids :
       SumFunction([i \in Copies(Everything, id) |-> Everything[i].attempts])
         = failures[id]
  /\ \A i \in 1..Len(pending) : pending[i].attempts < MAX_DELIVERY_ATTEMPTS
  /\ \A i \in 1..Len(dead_letter) : dead_letter[i].attempts = MAX_DELIVERY_ATTEMPTS

\* Nothing is lost, forgotten or tried too often: every accepted enqueue is in one
\* list and every failed attempt is on one of the copies (and the types hold).
Accounted == TypeOK /\ Conserved /\ AttemptsAccounted

\* The channel policy enforced at enqueue time still holds for every copy the
\* queue re-creates on a retry, wherever it ends.
PolicyKept == \A i \in 1..Len(Everything) : PolicyAllows(Everything[i])

\* Every notification leaves pending in the end: delivered or dead.
Drained == \A id \in Ids : InPending(id) ~> ~InPending(id)
=============================================================================
