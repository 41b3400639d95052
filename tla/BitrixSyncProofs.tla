--------------------------- MODULE BitrixSyncProofs ---------------------------
(***************************************************************************)
(* Theorems about BitrixSync, for any orders, tenants, clocks, lags,       *)
(* failures and orders that cannot be synced.                              *)
(***************************************************************************)
EXTENDS BitrixSync, CollectionLemmas

-----------------------------------------------------------------------------
(* The inductive invariant.                                                *)

OrdersOf(t) == {o \in Orders : OwnerOf[o] = t}

\* What the Box can be sent of an order.
Deals(o) == {Outbound(o, n) : n \in 0..MaxChanges[o]} \cup {NoDeal}
Payloads == {NoDeal} \cup UNION {Deals(o) : o \in Orders}

Batches == [phase : {"idle", "next", "built", "posted"}, at : Nat, todo : Seq(Orders),
            payload : Payloads]

SyncTypes ==
  /\ clock \in Nat
  /\ status \in [Orders -> Nat] /\ \A o \in Orders : status[o] <= MaxChanges[o]
  /\ updated_at \in [Orders -> Nat] /\ last_sync \in [Tenants -> Nat]
  /\ batch \in [Tenants -> Batches]
  /\ deal \in [Orders -> Payloads] /\ \A o \in Orders : deal[o] \in Deals(o)

\* A change feed collected at "at" and later ones have the order, or need not.
Covered(o, at) == UpToDate(o) \/ updated_at[o] > at \/ o \in overdue

\* The payload of the order whose turn it is: of that order, and not older than it
\* unless a later feed has the order.
Built(t) ==
  \E n \in 0..MaxChanges[Current(t)] :
    /\ batch[t].payload = Outbound(Current(t), n)
    /\ \/ n = status[Current(t)]
       \/ updated_at[Current(t)] > batch[t].at \/ Current(t) \in overdue

\* A running batch was collected after the sync before it, and no order of its tenant
\* is lost: it is still to be done or it is covered.
Running(t) ==
  /\ last_sync[t] <= batch[t].at /\ batch[t].at <= clock /\ batch[t].todo # <<>>
  /\ \A o \in ToSet(batch[t].todo) : o \in OrdersOf(t)
  /\ \A o \in OrdersOf(t) : o \in ToSet(batch[t].todo) \/ Covered(o, batch[t].at)
  /\ batch[t].phase = "built" => Built(t)
  /\ batch[t].phase = "posted" => Covered(Current(t), batch[t].at)

TenantInv(t) ==
  /\ last_sync[t] <= clock
  /\ \A o \in OrdersOf(t) : Covered(o, last_sync[t])
  /\ IF batch[t].phase = "idle" THEN batch[t] = Idle ELSE Running(t)

SyncInv == SyncTypes /\ \A t \in Tenants : TenantInv(t)

-----------------------------------------------------------------------------
(* The scrubber.                                                           *)

\* What sync_order posts of an order carries its status, its external id, and neither
\* the internal id nor anything the patterns match.
LEMMA OutboundFacts ==
  ASSUME NEW o \in Orders, NEW n
  PROVE  /\ Outbound(o, n)["status"].v = n
         /\ Outbound(o, n)["external_id"] = Value("made", o)
         /\ \A f \in DOMAIN Outbound(o, n) : Outbound(o, n)[f].kind \notin {"internal", "contact"}
<1> DEFINE p == RawPayload(o, n)
           allowed == {f \in DOMAIN p : Action(f) = "allow" /\ f # "order_id"}
           out == Outbound(o, n)
<1>1. DOMAIN p = {"order_id", "status", "amount_cents", "currency", "branch_id", "service_type"}
  BY DEF RawPayload
<1>2. /\ p["status"] = Value("text", n) /\ p["amount_cents"] = Value("int", o)
      /\ p["currency"] = Value("text", o) /\ p["branch_id"] = Value(FreeText[o], o)
      /\ p["service_type"] = Value(FreeText[o], o)
  BY DEF RawPayload
<1>3. /\ Action("status") = "allow" /\ Action("amount_cents") = "allow"
      /\ Action("currency") = "allow" /\ Action("branch_id") = "allow"
      /\ Action("service_type") = "allow" /\ Action("order_id") = "external_id"
  BY DEF Action, PII_FIELD_RULES
<1> HIDE DEF p
<1>4. allowed = {"status", "amount_cents", "currency", "branch_id", "service_type"}
  BY <1>1, <1>3
<1>5. Made(p) = {"external_id", "status"}
  <2>1. \A f \in DOMAIN p : Action(f) # "order_ref" /\ Action(f) # "hash"
    BY <1>1, <1>3
  <2> QED
    BY <2>1 DEF Made
<1>6. out = [f \in allowed \cup Made(p) |->
               IF f \in allowed
               THEN IF p[f].kind = "int" THEN p[f] ELSE _scrub_value(p[f])
               ELSE IF f = "status" THEN Value("text", 0)
               ELSE Value("made", IF f = "phone_hash" THEN p["phone"].v ELSE o)]
  BY DEF Outbound, scrub_order_payload, p
<1> HIDE DEF out
<1>7. /\ DOMAIN out = {"external_id", "status", "amount_cents", "currency", "branch_id",
                       "service_type"}
      /\ out["external_id"] = Value("made", o)
      /\ \A f \in allowed : out[f] = IF p[f].kind = "int" THEN p[f] ELSE _scrub_value(p[f])
  BY <1>4, <1>5, <1>6
<1>8. \A kind, x : Value(kind, x).kind = kind /\ Value(kind, x).v = x
  BY DEF Value
<1>9. out["status"] = Value("text", n)
  BY <1>2, <1>4, <1>7, <1>8 DEF _scrub_value
<1>10. FreeText[o] \in {"text", "contact", "disguised"}
  BY SyncAssumption
<1>11. \A f \in allowed : out[f].kind \in {"int", "text", "disguised"}
  BY <1>2, <1>4, <1>7, <1>8, <1>10 DEF _scrub_value
<1> QED
  BY <1>4, <1>7, <1>8, <1>9, <1>11 DEF out

\* The scrubber fails closed, field by field.
LEMMA ScrubberFailsClosed == FailsClosed
<1> SUFFICES ASSUME NEW field \in DOMAIN PII_FIELD_RULES \cup {"unknown"},
                    NEW kind \in {"int", "text", "empty", "internal", "contact", "disguised"}
             PROVE  LET out == scrub_order_payload([f \in {field} |-> Value(kind, 1)], 1)
                    IN  /\ field \in {"email", "address", "deceased_name", "order_id",
                                      "unknown"}
                             => \A f \in DOMAIN out : out[f].kind = "made" \/ f = "status"
                        /\ field \in {"phone", "customer_name"} => field \notin DOMAIN out
  BY DEF FailsClosed
<1> DEFINE p == [f \in {field} |-> Value(kind, 1)]
           allowed == {f \in DOMAIN p : Action(f) = "allow" /\ f # "order_id"}
           out == scrub_order_payload(p, 1)
<1>1. DOMAIN p = {field}
  OBVIOUS
<1>2. out = [f \in allowed \cup Made(p) |->
               IF f \in allowed
               THEN IF p[f].kind = "int" THEN p[f] ELSE _scrub_value(p[f])
               ELSE IF f = "status" THEN Value("text", 0)
               ELSE Value("made", IF f = "phone_hash" THEN p["phone"].v ELSE 1)]
  BY DEF scrub_order_payload
<1>3. Made(p) \subseteq {"external_id", "status", "title", "phone_hash"}
  BY DEF Made
<1>4. \A x : Value("made", x).kind = "made"
  BY DEF Value
<1> HIDE DEF p, out
<1>5. CASE field \in {"email", "address", "deceased_name", "order_id", "unknown"}
  <2>1. Action(field) # "allow"
    BY <1>5 DEF Action, PII_FIELD_RULES, DEFAULT_ACTION
  <2>2. allowed = {}
    BY <1>1, <2>1
  <2>3. \A f \in DOMAIN out : out[f].kind = "made" \/ f = "status"
    BY <1>2, <1>4, <2>2
  <2> QED
    BY <1>5, <2>3 DEF out, p
<1>6. CASE field \in {"phone", "customer_name"}
  <2>1. Action(field) # "allow"
    BY <1>6 DEF Action, PII_FIELD_RULES
  <2>2. DOMAIN out \subseteq {"external_id", "status", "title", "phone_hash"}
    BY <1>1, <1>2, <1>3, <2>1
  <2> QED
    BY <1>6, <2>2 DEF out, p
<1>7. CASE field \notin {"email", "address", "deceased_name", "order_id", "unknown", "phone",
                         "customer_name"}
  BY <1>7
<1> QED
  BY <1>5, <1>6, <1>7

-----------------------------------------------------------------------------
(* The change feed.                                                        *)

LEMMA OrderFacts ==
  /\ Repository \in Seq(Orders) /\ OwnerOf \in [Orders -> Tenants]
  /\ MaxChanges \in [Orders -> Nat] /\ Lags \subseteq Nat
  BY SyncAssumption

\* The feed has exactly the tenant's orders that changed since the last sync.
LEMMA ChangesFacts ==
  ASSUME SyncTypes, NEW t \in Tenants
  PROVE  /\ changes_since(t) \in Seq(Orders)
         /\ ToSet(changes_since(t)) = {o \in OrdersOf(t) : updated_at[o] > last_sync[t]}
<1> DEFINE P == {i \in 1..Len(Repository) :
                   /\ OwnerOf[Repository[i]] = t /\ updated_at[Repository[i]] # Never
                   /\ updated_at[Repository[i]] > last_sync[t]}
           feed == Chosen(Repository, P)
<1>1. Repository \in Seq(Orders) /\ P \in SUBSET (1..Len(Repository))
  BY OrderFacts
<1>2. /\ Cardinality(P) \in Nat /\ feed \in Seq(Orders) /\ Len(feed) = Cardinality(P)
      /\ \A k \in 1..Cardinality(P) : \E i \in P : feed[k] = Repository[i]
      /\ \A i \in P : \E k \in 1..Cardinality(P) : feed[k] = Repository[i]
  <2> HIDE DEF P
  <2> QED
    BY <1>1, ChosenFacts
<1>3. ToSet(feed) = {Repository[i] : i \in P}
  <2> HIDE DEF feed, P
  <2> QED
    BY <1>2 DEF ToSet
<1>4. {Repository[i] : i \in P} = {o \in OrdersOf(t) : updated_at[o] > last_sync[t]}
  <2>1. ASSUME NEW i \in P
        PROVE  Repository[i] \in OrdersOf(t) /\ updated_at[Repository[i]] > last_sync[t]
    BY <1>1 DEF OrdersOf
  <2>2. ASSUME NEW o \in OrdersOf(t), updated_at[o] > last_sync[t]
        PROVE  \E i \in P : o = Repository[i]
    <3>1. PICK i \in 1..Len(Repository) : Repository[i] = o
      BY <1>1 DEF OrdersOf, Orders, ToSet
    <3>2. updated_at[o] \in Nat /\ last_sync[t] \in Nat
      BY DEF SyncTypes, OrdersOf
    <3>3. updated_at[o] # Never
      BY <2>2, <3>2 DEF Never
    <3> QED
      BY <2>2, <3>1, <3>3 DEF OrdersOf
  <2> QED
    BY <2>1, <2>2
<1>5. changes_since(t) = feed
  BY DEF changes_since
<1> QED
  BY <1>2, <1>3, <1>4, <1>5

-----------------------------------------------------------------------------
(* Steps.                                                                  *)

\* What a step leaves alone of an order.
SameOrder(o) ==
  /\ status'[o] = status[o] /\ updated_at'[o] = updated_at[o] /\ deal'[o] = deal[o]
  /\ o \in overdue' <=> o \in overdue

LEMMA SameUpToDate ==
  ASSUME NEW o, SameOrder(o)
  PROVE  UpToDate(o)' <=> UpToDate(o)
  BY DEF SameOrder, UpToDate, Shown

\* A step that touches neither a tenant's batch nor its orders keeps its invariant.
LEMMA OtherTenants ==
  ASSUME SyncTypes, clock' \in Nat, clock' >= clock, NEW t \in Tenants, TenantInv(t),
         batch'[t] = batch[t], last_sync'[t] = last_sync[t],
         \A o \in OrdersOf(t) : SameOrder(o)
  PROVE  TenantInv(t)'
<1>0. /\ clock \in Nat /\ last_sync[t] \in Nat /\ batch[t] \in Batches
      /\ batch[t].at \in Nat /\ batch[t].todo \in Seq(Orders)
  BY DEF SyncTypes, Batches
<1>1. last_sync'[t] <= clock'
  BY <1>0 DEF TenantInv
<1>2. \A o \in OrdersOf(t) :
        /\ UpToDate(o)' <=> UpToDate(o)
        /\ updated_at'[o] = updated_at[o]
        /\ o \in overdue' <=> o \in overdue
  BY SameUpToDate DEF SameOrder
<1>3. \A o \in OrdersOf(t) : Covered(o, last_sync[t])'
  BY <1>2 DEF TenantInv, Covered
<1>4. CASE batch[t].phase = "idle"
  BY <1>1, <1>3, <1>4 DEF TenantInv, Idle
<1>5. CASE batch[t].phase # "idle"
  <2>1. Running(t)
    BY <1>5 DEF TenantInv
  <2>2. Current(t)' = Current(t) /\ Current(t) \in OrdersOf(t)
    <3>1. Current(t) = batch[t].todo[1] /\ 1 \in DOMAIN batch[t].todo
      BY <1>0, <2>1, HeadTail DEF Running, Current
    <3>2. Current(t) \in ToSet(batch[t].todo)
      BY <3>1 DEF ToSet
    <3> QED
      BY <2>1, <3>2 DEF Running, Current
  <2>3. SameOrder(Current(t))
    BY <2>2
  <2>4. Built(t) => Built(t)'
    BY <2>2, <2>3 DEF Built, SameOrder
  <2>5. batch'[t].at <= clock'
    BY <1>0, <2>1 DEF Running
  <2>6. \A o \in OrdersOf(t) : Covered(o, batch[t].at) => Covered(o, batch[t].at)'
    BY <1>2 DEF Covered
  <2>7. Covered(Current(t), batch[t].at) => Covered(Current(t), batch[t].at)'
    BY <2>2, <2>6 DEF Covered, UpToDate, Shown
  <2>8. Running(t)'
    BY <2>1, <2>2, <2>4, <2>5, <2>6, <2>7 DEF Running
  <2> QED
    BY <1>1, <1>3, <1>5, <2>8 DEF TenantInv
<1> QED
  BY <1>4, <1>5

\* A worker step of a tenant: enough to look at its batch and at its orders.
LEMMA WorkerChanges ==
  ASSUME SyncInv, NEW t \in Tenants, NEW b \in Batches, NEW s \in Nat,
         clock' = clock, status' = status, updated_at' = updated_at, overdue' = overdue,
         batch' = [batch EXCEPT ![t] = b], last_sync' = [last_sync EXCEPT ![t] = s],
         deal' \in [Orders -> Payloads], \A o \in Orders : deal'[o] \in Deals(o),
         \A o \in Orders : OwnerOf[o] # t => deal'[o] = deal[o],
         TenantInv(t)'
  PROVE  SyncInv'
<1>1. SyncTypes /\ \A u \in Tenants : TenantInv(u)
  BY DEF SyncInv
<1>2. SyncTypes'
  BY <1>1 DEF SyncTypes
<1>3. ASSUME NEW u \in Tenants, u # t PROVE TenantInv(u)'
  <2>1. batch'[u] = batch[u] /\ last_sync'[u] = last_sync[u]
    BY <1>1, <1>3 DEF SyncTypes
  <2>2. \A o \in OrdersOf(u) : SameOrder(o)
    BY <1>3 DEF OrdersOf, SameOrder
  <2>3. clock' \in Nat /\ clock' >= clock
    BY <1>1 DEF SyncTypes
  <2> QED
    BY <1>1, <2>1, <2>2, <2>3, OtherTenants
<1> QED
  BY <1>2, <1>3 DEF SyncInv

LEMMA TickStep == SyncInv /\ Tick => SyncInv'
<1> SUFFICES ASSUME SyncInv, Tick PROVE SyncInv'
  OBVIOUS
<1>1. SyncTypes /\ clock' \in Nat /\ clock' >= clock
  BY DEF SyncInv, SyncTypes, Tick
<1>2. SyncTypes'
  BY <1>1 DEF SyncTypes, Tick
<1>3. ASSUME NEW t \in Tenants PROVE TenantInv(t)'
  <2>1. \A o \in OrdersOf(t) : SameOrder(o)
    BY DEF SameOrder, Tick
  <2> QED
    BY <1>1, <2>1, OtherTenants DEF SyncInv, Tick
<1> QED
  BY <1>2, <1>3 DEF SyncInv

\* A change during a batch is stamped after its collection, or is overdue.
LEMMA TransitionStep ==
  ASSUME SyncInv, NEW o \in Orders, Transition(o)
  PROVE  SyncInv'
<1>0. SyncTypes /\ OwnerOf \in [Orders -> Tenants] /\ MaxChanges \in [Orders -> Nat]
  BY OrderFacts DEF SyncInv
<1> DEFINE t == OwnerOf[o]
<1>1. PICK now \in Nat :
        /\ updated_at' = [updated_at EXCEPT ![o] = now]
        /\ overdue' = IF now <= CollectedAt(t) THEN overdue \cup {o} ELSE overdue \ {o}
  <2>1. PICK lag \in Lags :
          LET now == IF lag < clock THEN clock - lag ELSE 1
          IN  /\ updated_at' = [updated_at EXCEPT ![o] = now]
              /\ overdue' = IF now <= CollectedAt(t) THEN overdue \cup {o} ELSE overdue \ {o}
    BY DEF Transition
  <2>2. (IF lag < clock THEN clock - lag ELSE 1) \in Nat
    BY <1>0, OrderFacts DEF SyncTypes
  <2> QED
    BY <2>1, <2>2
<1>2. /\ status[o] < MaxChanges[o] /\ status' = [status EXCEPT ![o] = @ + 1]
      /\ clock' = clock /\ last_sync' = last_sync /\ batch' = batch /\ deal' = deal
  BY DEF Transition
<1>3. SyncTypes'
  BY <1>0, <1>1, <1>2 DEF SyncTypes
<1>4. \A x \in Orders : x # o => SameOrder(x)
  BY <1>0, <1>1, <1>2 DEF SyncTypes, SameOrder
<1>5. clock' \in Nat /\ clock' >= clock
  BY <1>0, <1>2 DEF SyncTypes
<1>6. ASSUME NEW u \in Tenants, u # t PROVE TenantInv(u)'
  <2>1. \A x \in OrdersOf(u) : SameOrder(x)
    BY <1>4, <1>6 DEF OrdersOf
  <2> QED
    BY <1>0, <1>2, <1>5, <2>1, OtherTenants DEF SyncInv
<1>7. t \in Tenants /\ TenantInv(t) /\ o \in OrdersOf(t)
  BY <1>0 DEF SyncInv, OrdersOf
<1>8. updated_at'[o] = now /\ (o \in overdue' <=> now <= CollectedAt(t))
  BY <1>0, <1>1 DEF SyncTypes
<1>9. /\ last_sync[t] \in Nat /\ batch[t] \in Batches /\ batch[t].at \in Nat
      /\ batch[t].todo \in Seq(Orders)
  BY <1>0, <1>7 DEF SyncTypes, Batches
<1> HIDE DEF t
<1>10. CASE batch[t].phase = "idle"
  <2>1. batch[t] = Idle /\ CollectedAt(t) = last_sync[t]
    BY <1>7, <1>10 DEF TenantInv, CollectedAt
  <2>2. Covered(o, last_sync[t])'
    BY <1>2, <1>8, <1>9, <2>1 DEF Covered
  <2>3. \A x \in OrdersOf(t) : Covered(x, last_sync[t])'
    <3> SUFFICES ASSUME NEW x \in OrdersOf(t), x # o PROVE Covered(x, last_sync[t])'
      BY <2>2
    <3>1. SameOrder(x) /\ Covered(x, last_sync[t])
      BY <1>4, <1>7 DEF OrdersOf, TenantInv
    <3> QED
      BY <1>2, <3>1, SameUpToDate DEF Covered, SameOrder
  <2>4. TenantInv(t)'
    BY <1>2, <1>7, <1>10, <2>1, <2>3 DEF TenantInv, Idle
  <2> QED
    BY <1>3, <1>6, <2>4 DEF SyncInv
<1>11. CASE batch[t].phase # "idle"
  <2>1. Running(t) /\ batch[t] # Idle
    BY <1>7, <1>11 DEF TenantInv, Idle
  <2>2. CollectedAt(t) = batch[t].at /\ last_sync[t] <= batch[t].at
    BY <2>1 DEF Running, CollectedAt
  <2>3. updated_at'[o] > batch[t].at \/ o \in overdue'
    BY <1>8, <1>9, <2>2
  <2>4. Covered(o, batch[t].at)' /\ Covered(o, last_sync[t])'
    BY <1>2, <1>8, <1>9, <2>2, <2>3 DEF Covered
  <2>5. ASSUME NEW x \in OrdersOf(t)
        PROVE  /\ Covered(x, last_sync[t])'
               /\ x \in ToSet(batch[t].todo) \/ Covered(x, batch[t].at)'
    <3>1. CASE x = o
      BY <2>4, <3>1
    <3>2. CASE x # o
      <4>1. SameOrder(x)
        BY <1>4, <3>2 DEF OrdersOf
      <4>2. /\ Covered(x, last_sync[t])
            /\ x \in ToSet(batch[t].todo) \/ Covered(x, batch[t].at)
        BY <1>7, <2>1 DEF TenantInv, Running
      <4> QED
        BY <1>2, <4>1, <4>2, SameUpToDate DEF Covered, SameOrder
    <3> QED
      BY <3>1, <3>2
  <2>6. Current(t) \in OrdersOf(t) /\ Current(t)' = Current(t)
    <3>1. Current(t) = batch[t].todo[1] /\ 1 \in DOMAIN batch[t].todo
      BY <1>9, <2>1, HeadTail DEF Running, Current
    <3>2. Current(t) \in ToSet(batch[t].todo)
      BY <3>1 DEF ToSet
    <3> QED
      BY <1>2, <2>1, <3>2 DEF Running, Current
  <2>7. batch[t].phase = "built" => Built(t)'
    <3> SUFFICES ASSUME batch[t].phase = "built" PROVE Built(t)'
      OBVIOUS
    <3>1. Built(t)
      BY <2>1 DEF Running
    <3>2. CASE Current(t) = o
      BY <1>2, <2>3, <2>6, <3>1, <3>2 DEF Built
    <3>3. CASE Current(t) # o
      <4>1. SameOrder(Current(t))
        BY <1>4, <2>6, <3>3 DEF OrdersOf
      <4> QED
        BY <1>2, <2>6, <3>1, <4>1 DEF Built, SameOrder
    <3> QED
      BY <3>2, <3>3
  <2>8. batch[t].phase = "posted" => Covered(Current(t), batch[t].at)'
    <3> SUFFICES ASSUME batch[t].phase = "posted" PROVE Covered(Current(t), batch[t].at)'
      OBVIOUS
    <3>1. CASE Current(t) = o
      BY <2>4, <2>6, <3>1 DEF Covered, UpToDate, Shown
    <3>2. CASE Current(t) # o
      <4>1. SameOrder(Current(t)) /\ Covered(Current(t), batch[t].at)
        BY <1>4, <2>1, <2>6, <3>2 DEF OrdersOf, Running
      <4> QED
        BY <1>2, <2>6, <4>1 DEF Covered, UpToDate, Shown, SameOrder
    <3> QED
      BY <3>1, <3>2
  <2>9. Running(t)'
    BY <1>2, <2>1, <2>5, <2>6, <2>7, <2>8 DEF Running
  <2>10. TenantInv(t)'
    BY <1>2, <1>7, <1>11, <2>5, <2>9 DEF TenantInv
  <2> QED
    BY <1>3, <1>6, <2>10 DEF SyncInv
<1> QED
  BY <1>10, <1>11

-----------------------------------------------------------------------------
(* The worker's steps.                                                     *)

LEMMA BatchFacts ==
  ASSUME SyncInv, NEW t \in Tenants
  PROVE  /\ SyncTypes /\ TenantInv(t) /\ batch[t] \in Batches /\ Idle \in Batches
         /\ clock \in Nat /\ last_sync[t] \in Nat /\ batch[t].at \in Nat
         /\ batch[t].todo \in Seq(Orders) /\ batch[t].payload \in Payloads
         /\ last_sync = [last_sync EXCEPT ![t] = last_sync[t]]
<1>1. SyncTypes /\ TenantInv(t)
  BY DEF SyncInv
<1>2. batch[t] \in Batches /\ last_sync = [last_sync EXCEPT ![t] = last_sync[t]]
  BY <1>1 DEF SyncTypes
<1>3. Idle \in Batches
  <2>1. NoDeal \in Payloads /\ <<>> \in Seq(Orders) /\ Never \in Nat
    BY DEF Payloads, Never
  <2> QED
    BY <2>1 DEF Idle, Batches
<1> QED
  BY <1>1, <1>2, <1>3 DEF SyncTypes, Batches

\* The order whose turn it is.
LEMMA CurrentFacts ==
  ASSUME SyncInv, NEW t \in Tenants, batch[t].phase # "idle"
  PROVE  /\ Running(t) /\ Current(t) \in OrdersOf(t) /\ Current(t) \in Orders
         /\ Current(t) \in ToSet(batch[t].todo)
<1>1. Running(t) /\ batch[t].todo \in Seq(Orders) /\ batch[t].todo # <<>>
  BY BatchFacts DEF TenantInv, Running
<1>2. Current(t) = batch[t].todo[1] /\ 1 \in DOMAIN batch[t].todo
  BY <1>1, HeadTail DEF Current
<1>3. Current(t) \in ToSet(batch[t].todo)
  BY <1>2 DEF ToSet
<1> QED
  BY <1>1, <1>3 DEF Running, OrdersOf

\* Collecting covers every order of the tenant that the feed does not have.
LEMMA CollectStep ==
  ASSUME SyncInv, NEW t \in Tenants, Collect(t)
  PROVE  SyncInv'
<1>0. /\ SyncTypes /\ TenantInv(t) /\ batch[t] \in Batches /\ clock \in Nat
      /\ last_sync[t] \in Nat /\ last_sync = [last_sync EXCEPT ![t] = last_sync[t]]
  BY BatchFacts
<1> DEFINE feed == changes_since(t)
<1>1. /\ feed \in Seq(Orders)
      /\ ToSet(feed) = {o \in OrdersOf(t) : updated_at[o] > last_sync[t]}
  BY <1>0, ChangesFacts
<1>2. ASSUME NEW o \in OrdersOf(t), o \notin ToSet(feed) PROVE UpToDate(o) \/ o \in overdue
  BY <1>0, <1>1, <1>2 DEF TenantInv, Covered
<1>3. /\ batch[t] = Idle /\ clock' = clock /\ status' = status /\ updated_at' = updated_at
      /\ overdue' = overdue /\ deal' = deal
  BY DEF Collect
<1>4. /\ deal' \in [Orders -> Payloads] /\ \A o \in Orders : deal'[o] \in Deals(o)
      /\ \A o \in Orders : OwnerOf[o] # t => deal'[o] = deal[o]
      /\ \A o : UpToDate(o)' <=> UpToDate(o)
  BY <1>0, <1>3 DEF SyncTypes, UpToDate, Shown
<1>5. CASE feed = <<>>
  <2>1. last_sync' = [last_sync EXCEPT ![t] = clock] /\ batch' = batch
    BY <1>5 DEF Collect
  <2>2. batch' = [batch EXCEPT ![t] = batch[t]] /\ last_sync'[t] = clock
    BY <1>0, <2>1 DEF SyncTypes
  <2>3. ToSet(feed) = {}
    BY <1>5 DEF ToSet
  <2>4. \A o \in OrdersOf(t) : Covered(o, last_sync[t])'
    BY <1>2, <1>3, <1>4, <2>3 DEF Covered
  <2>5. TenantInv(t)'
    BY <1>0, <1>3, <2>1, <2>2, <2>4 DEF TenantInv, Idle
  <2> QED
    BY <1>0, <1>3, <1>4, <2>1, <2>2, <2>5, WorkerChanges
<1>6. CASE feed # <<>>
  <2> DEFINE b == [Idle EXCEPT !.phase = "next", !.at = clock, !.todo = feed]
  <2>1. batch' = [batch EXCEPT ![t] = b] /\ last_sync' = last_sync
    BY <1>6 DEF Collect
  <2> HIDE DEF feed
  <2>2. Idle \in Batches
    BY BatchFacts
  <2>3. b \in Batches
    BY <1>0, <1>1, <2>2 DEF Batches
  <2>4. batch'[t] = b
    BY <1>0, <2>1 DEF SyncTypes
  <2>5. batch'[t].phase = "next" /\ batch'[t].at = clock /\ batch'[t].todo = feed
    BY <2>2, <2>4 DEF Batches
  <2>6. \A o \in OrdersOf(t) : Covered(o, last_sync[t])'
    BY <1>0, <1>3, <1>4, <2>1 DEF TenantInv, Covered
  <2>7. \A o \in OrdersOf(t) : o \in ToSet(feed) \/ Covered(o, batch[t].at)'
    BY <1>2, <1>3, <1>4 DEF Covered
  <2>8. last_sync[t] <= clock
    BY <1>0 DEF TenantInv
  <2>9. Running(t)'
    BY <1>0, <1>1, <1>3, <1>6, <2>1, <2>5, <2>7, <2>8 DEF Running
  <2>10. TenantInv(t)'
    BY <1>3, <2>1, <2>5, <2>6, <2>8, <2>9 DEF TenantInv
  <2> HIDE DEF b
  <2> QED
    BY <1>0, <1>3, <1>4, <2>1, <2>3, <2>10, WorkerChanges
<1> QED
  BY <1>5, <1>6

LEMMA BuildStep ==
  ASSUME SyncInv, NEW t \in Tenants, BuildPayload(t)
  PROVE  SyncInv'
<1> DEFINE c == Current(t)
           n == status[c]
           b == [batch[t] EXCEPT !.phase = "built", !.payload = Outbound(c, n)]
<1>0. /\ SyncTypes /\ TenantInv(t) /\ batch[t] \in Batches /\ clock \in Nat
      /\ last_sync[t] \in Nat /\ last_sync = [last_sync EXCEPT ![t] = last_sync[t]]
      /\ batch[t].at \in Nat /\ batch[t].todo \in Seq(Orders)
  BY BatchFacts
<1>1. /\ batch[t].phase = "next" /\ clock' = clock /\ status' = status
      /\ updated_at' = updated_at /\ overdue' = overdue /\ deal' = deal
      /\ last_sync' = last_sync
      /\ batch' = [batch EXCEPT ![t].phase = "built", ![t].payload = Outbound(c, n)]
  BY DEF BuildPayload
<1>2. Running(t) /\ c \in OrdersOf(t) /\ c \in Orders
  BY <1>1, CurrentFacts
<1>3. n \in 0..MaxChanges[c]
  BY <1>0, <1>2, OrderFacts DEF SyncTypes
<1> HIDE DEF n
<1>4. Outbound(c, n) \in Payloads
  <2>1. Outbound(c, n) \in Deals(c)
    BY <1>3 DEF Deals
  <2> QED
    BY <1>2, <2>1 DEF Payloads
<1>5. batch' = [batch EXCEPT ![t] = b] /\ b \in Batches
  BY <1>0, <1>1, <1>4 DEF SyncTypes, Batches
<1>6. /\ batch'[t].phase = "built" /\ batch'[t].at = batch[t].at
      /\ batch'[t].todo = batch[t].todo /\ batch'[t].payload = Outbound(c, n)
  BY <1>0, <1>5 DEF SyncTypes, Batches
<1>7. Current(t)' = c
  BY <1>6 DEF Current
<1>8. Built(t)'
  BY <1>1, <1>3, <1>6, <1>7 DEF Built, n
<1>9. /\ deal' \in [Orders -> Payloads] /\ \A o \in Orders : deal'[o] \in Deals(o)
      /\ \A o \in Orders : OwnerOf[o] # t => deal'[o] = deal[o]
      /\ \A o : UpToDate(o)' <=> UpToDate(o)
  BY <1>0, <1>1 DEF SyncTypes, UpToDate, Shown
<1>10. /\ \A o \in OrdersOf(t) : Covered(o, last_sync[t])'
       /\ \A o \in OrdersOf(t) : o \in ToSet(batch[t].todo) \/ Covered(o, batch[t].at)'
  BY <1>0, <1>1, <1>2, <1>6, <1>9 DEF TenantInv, Running, Covered
<1>11. Running(t)'
  BY <1>1, <1>2, <1>6, <1>8, <1>10 DEF Running
<1>12. TenantInv(t)'
  BY <1>0, <1>1, <1>6, <1>10, <1>11 DEF TenantInv
<1> HIDE DEF b
<1> QED
  BY <1>0, <1>1, <1>5, <1>9, <1>12, WorkerChanges

\* The Box takes a payload: the order is up to date or a later feed has it.
LEMMA UpsertFacts ==
  ASSUME SyncInv, NEW t \in Tenants, batch[t].phase = "built", status' = status,
         NEW c, c = Current(t), deal' = [deal EXCEPT ![c] = batch[t].payload]
  PROVE  /\ deal' \in [Orders -> Payloads] /\ \A o \in Orders : deal'[o] \in Deals(o)
         /\ \A o \in Orders : OwnerOf[o] # t => deal'[o] = deal[o]
         /\ \A o \in Orders : o # c => (UpToDate(o)' <=> UpToDate(o))
         /\ UpToDate(c)' \/ updated_at[c] > batch[t].at \/ c \in overdue
<1>0. SyncTypes /\ batch[t].payload \in Payloads
  BY BatchFacts
<1>1. Running(t) /\ c \in OrdersOf(t) /\ c \in Orders
  BY CurrentFacts
<1>2. PICK n \in 0..MaxChanges[c] :
        /\ batch[t].payload = Outbound(c, n)
        /\ n = status[c] \/ updated_at[c] > batch[t].at \/ c \in overdue
  BY <1>1 DEF Running, Built
<1>3. deal'[c] = Outbound(c, n) /\ \A o \in Orders : o # c => deal'[o] = deal[o]
  BY <1>0, <1>1, <1>2 DEF SyncTypes
<1>4. deal'[c] \in Deals(c)
  BY <1>2, <1>3 DEF Deals
<1>5. n = status[c] => Shown(c)' = status[c]
  <2>1. Outbound(c, n) # NoDeal /\ Outbound(c, n)["status"].v = n
    BY <1>1, <1>2, OutboundFacts, NoDealAssumption
  <2> QED
    BY <1>3, <2>1 DEF Shown
<1>6. deal' \in [Orders -> Payloads]
  BY <1>0, <1>1 DEF SyncTypes
<1>7. \A o \in Orders : deal'[o] \in Deals(o)
  BY <1>0, <1>3, <1>4 DEF SyncTypes
<1>8. \A o \in Orders : OwnerOf[o] # t => deal'[o] = deal[o]
  BY <1>1, <1>3 DEF OrdersOf
<1>9. \A o \in Orders : o # c => (UpToDate(o)' <=> UpToDate(o))
  BY <1>3 DEF UpToDate, Shown
<1>10. UpToDate(c)' \/ updated_at[c] > batch[t].at \/ c \in overdue
  BY <1>2, <1>5 DEF UpToDate
<1> QED
  BY <1>6, <1>7, <1>8, <1>9, <1>10

LEMMA PostStep ==
  ASSUME SyncInv, NEW t \in Tenants, PostDeal(t)
  PROVE  SyncInv'
<1>0. /\ SyncTypes /\ TenantInv(t) /\ batch[t] \in Batches /\ clock \in Nat
      /\ last_sync[t] \in Nat /\ last_sync = [last_sync EXCEPT ![t] = last_sync[t]]
      /\ batch[t].at \in Nat /\ batch[t].todo \in Seq(Orders)
  BY BatchFacts
<1>1. PICK c : c = Current(t)
  OBVIOUS
<1> DEFINE b == [batch[t] EXCEPT !.phase = "posted"]
<1>2. /\ batch[t].phase = "built" /\ clock' = clock /\ status' = status
      /\ updated_at' = updated_at /\ overdue' = overdue /\ last_sync' = last_sync
      /\ deal' = [deal EXCEPT ![c] = batch[t].payload]
      /\ batch' = [batch EXCEPT ![t].phase = "posted"]
  BY <1>1 DEF PostDeal, Upsert
<1>3. Running(t) /\ c \in OrdersOf(t) /\ c \in Orders /\ c \in ToSet(batch[t].todo)
  BY <1>1, <1>2, CurrentFacts
<1>4. /\ deal' \in [Orders -> Payloads] /\ \A o \in Orders : deal'[o] \in Deals(o)
      /\ \A o \in Orders : OwnerOf[o] # t => deal'[o] = deal[o]
      /\ \A o \in Orders : o # c => (UpToDate(o)' <=> UpToDate(o))
      /\ UpToDate(c)' \/ updated_at[c] > batch[t].at \/ c \in overdue
  BY <1>1, <1>2, UpsertFacts
<1>5. batch' = [batch EXCEPT ![t] = b] /\ b \in Batches
  BY <1>0, <1>2 DEF SyncTypes, Batches
<1>6. /\ batch'[t].phase = "posted" /\ batch'[t].at = batch[t].at
      /\ batch'[t].todo = batch[t].todo
  BY <1>0, <1>5 DEF SyncTypes, Batches
<1>7. Current(t)' = c
  BY <1>1, <1>6 DEF Current
<1>8. updated_at[c] \in Nat /\ last_sync[t] <= batch[t].at
  BY <1>0, <1>3 DEF SyncTypes, Running
<1>9. Covered(c, batch[t].at)' /\ Covered(c, last_sync[t])'
  BY <1>0, <1>2, <1>4, <1>6, <1>8 DEF Covered
<1>10. ASSUME NEW o \in OrdersOf(t), o # c
       PROVE  /\ Covered(o, last_sync[t])'
              /\ o \in ToSet(batch[t].todo) \/ Covered(o, batch[t].at)'
  <2>1. UpToDate(o)' <=> UpToDate(o)
    BY <1>4, <1>10 DEF OrdersOf
  <2> QED
    BY <1>0, <1>2, <1>3, <1>6, <2>1 DEF TenantInv, Running, Covered
<1>11. Covered(Current(t), batch[t].at)'
  BY <1>7, <1>9 DEF Covered, UpToDate, Shown
<1>12. Running(t)'
  BY <1>2, <1>3, <1>6, <1>9, <1>10, <1>11 DEF Running
<1>13. TenantInv(t)'
  BY <1>0, <1>2, <1>6, <1>9, <1>10, <1>12 DEF TenantInv
<1> HIDE DEF b
<1> QED
  BY <1>0, <1>2, <1>4, <1>5, <1>13, WorkerChanges

\* A batch that raises is gone; the next feed has what it did not do.
LEMMA AbortStep ==
  ASSUME SyncInv, NEW t \in Tenants, Abort(t), last_sync' = last_sync,
         clock' = clock, status' = status, updated_at' = updated_at, overdue' = overdue,
         deal' \in [Orders -> Payloads], \A o \in Orders : deal'[o] \in Deals(o),
         \A o \in Orders : OwnerOf[o] # t => deal'[o] = deal[o],
         \A o \in OrdersOf(t) : Covered(o, last_sync[t])'
  PROVE  SyncInv'
<1>0. /\ SyncTypes /\ TenantInv(t) /\ last_sync[t] \in Nat /\ Idle \in Batches
      /\ last_sync = [last_sync EXCEPT ![t] = last_sync[t]]
  BY BatchFacts
<1>1. batch' = [batch EXCEPT ![t] = Idle] /\ batch'[t] = Idle
  BY <1>0 DEF Abort, SyncTypes
<1>2. Idle.phase = "idle"
  BY DEF Idle
<1>3. TenantInv(t)'
  BY <1>0, <1>1, <1>2 DEF TenantInv, Idle
<1> QED
  BY <1>0, <1>1, <1>3, WorkerChanges

LEMMA RaiseStep ==
  ASSUME SyncInv, NEW t \in Tenants, SyncRaises(t)
  PROVE  SyncInv'
<1>0. SyncTypes /\ TenantInv(t)
  BY BatchFacts
<1>1. /\ Abort(t) /\ last_sync' = last_sync /\ clock' = clock /\ status' = status
      /\ updated_at' = updated_at /\ overdue' = overdue /\ deal' = deal
  BY DEF SyncRaises
<1>2. \A o \in OrdersOf(t) : Covered(o, last_sync[t])'
  BY <1>0, <1>1 DEF TenantInv, Covered, UpToDate, Shown
<1>3. deal' \in [Orders -> Payloads] /\ \A o \in Orders : deal'[o] \in Deals(o)
  BY <1>0, <1>1 DEF SyncTypes
<1> QED
  BY <1>1, <1>2, <1>3, AbortStep

LEMMA FailStep ==
  ASSUME SyncInv, NEW t \in Tenants, PostFails(t)
  PROVE  SyncInv'
<1>0. SyncTypes /\ TenantInv(t) /\ last_sync[t] \in Nat /\ batch[t].at \in Nat
  BY BatchFacts
<1>1. PICK c : c = Current(t)
  OBVIOUS
<1>2. /\ batch[t].phase = "built" /\ Abort(t) /\ last_sync' = last_sync /\ clock' = clock
      /\ status' = status /\ updated_at' = updated_at /\ overdue' = overdue
  BY DEF PostFails
<1>3. Running(t) /\ c \in OrdersOf(t) /\ c \in Orders
  BY <1>1, <1>2, CurrentFacts
<1>4. CASE deal' = [deal EXCEPT ![c] = batch[t].payload]
  <2>1. /\ deal' \in [Orders -> Payloads] /\ \A o \in Orders : deal'[o] \in Deals(o)
        /\ \A o \in Orders : OwnerOf[o] # t => deal'[o] = deal[o]
        /\ \A o \in Orders : o # c => (UpToDate(o)' <=> UpToDate(o))
        /\ UpToDate(c)' \/ updated_at[c] > batch[t].at \/ c \in overdue
    BY <1>1, <1>2, <1>4, UpsertFacts
  <2>2. updated_at[c] \in Nat /\ last_sync[t] <= batch[t].at
    BY <1>0, <1>3 DEF SyncTypes, Running
  <2>3. Covered(c, last_sync[t])'
    BY <1>0, <1>2, <2>1, <2>2 DEF Covered
  <2>4. ASSUME NEW o \in OrdersOf(t), o # c PROVE Covered(o, last_sync[t])'
    <3>1. UpToDate(o)' <=> UpToDate(o)
      BY <2>1, <2>4 DEF OrdersOf
    <3> QED
      BY <1>0, <1>2, <3>1 DEF TenantInv, Covered
  <2>5. \A o \in OrdersOf(t) : Covered(o, last_sync[t])'
    BY <2>3, <2>4
  <2> QED
    BY <1>2, <2>1, <2>5, AbortStep
<1>5. CASE deal' = deal
  <2>1. \A o \in OrdersOf(t) : Covered(o, last_sync[t])'
    BY <1>0, <1>2, <1>5 DEF TenantInv, Covered, UpToDate, Shown
  <2>2. deal' \in [Orders -> Payloads] /\ \A o \in Orders : deal'[o] \in Deals(o)
    BY <1>0, <1>5 DEF SyncTypes
  <2> QED
    BY <1>2, <1>5, <2>1, <2>2, AbortStep
<1> QED
  BY <1>1, <1>4, <1>5 DEF PostFails, Upsert

\* When the last order of a batch is done, every order of the tenant is covered as of
\* the collection, which becomes last_sync.
LEMMA LogStep ==
  ASSUME SyncInv, NEW t \in Tenants, LogSynced(t)
  PROVE  SyncInv'
<1>0. /\ SyncTypes /\ TenantInv(t) /\ batch[t] \in Batches /\ clock \in Nat
      /\ last_sync[t] \in Nat /\ last_sync = [last_sync EXCEPT ![t] = last_sync[t]]
      /\ batch[t].at \in Nat /\ batch[t].todo \in Seq(Orders) /\ Idle \in Batches
  BY BatchFacts
<1>1. PICK c : c = Current(t)
  OBVIOUS
<1> DEFINE rest == Tail(batch[t].todo)
<1>2. /\ batch[t].phase = "posted" /\ Proceed(t) /\ clock' = clock /\ status' = status
      /\ updated_at' = updated_at /\ overdue' = overdue /\ deal' = deal
  BY DEF LogSynced
<1>3. /\ Running(t) /\ c \in OrdersOf(t) /\ batch[t].todo # <<>>
      /\ Covered(c, batch[t].at) /\ last_sync[t] <= batch[t].at /\ batch[t].at <= clock
  BY <1>1, <1>2, CurrentFacts DEF Running
<1>4. /\ deal' \in [Orders -> Payloads] /\ \A o \in Orders : deal'[o] \in Deals(o)
      /\ \A o \in Orders : OwnerOf[o] # t => deal'[o] = deal[o]
      /\ \A o : UpToDate(o)' <=> UpToDate(o)
  BY <1>0, <1>2 DEF SyncTypes, UpToDate, Shown
<1>5. /\ Len(batch[t].todo) \in Nat /\ Len(batch[t].todo) >= 1 /\ rest \in Seq(Orders)
      /\ Len(rest) = Len(batch[t].todo) - 1
      /\ \A i \in 1..(Len(batch[t].todo) - 1) : rest[i] = batch[t].todo[i + 1]
      /\ Len(batch[t].todo) > 1 => rest # <<>>
  BY <1>0, <1>3, HeadTail
<1>6. ToSet(rest) \subseteq ToSet(batch[t].todo)
  <2> DEFINE s == batch[t].todo
             n == Len(s)
  <2>1. n \in Nat /\ DOMAIN s = 1..n /\ DOMAIN rest = 1..(n - 1)
    BY <1>0, <1>5
  <2> HIDE DEF n, rest
  <2>2. ASSUME NEW i \in DOMAIN rest PROVE i + 1 \in DOMAIN s
    BY <2>1
  <2>3. \A i \in DOMAIN rest : rest[i] = s[i + 1]
    BY <1>5, <2>1 DEF n
  <2> QED
    BY <2>2, <2>3 DEF ToSet
<1>7. ASSUME NEW o \in OrdersOf(t), o \notin ToSet(rest) PROVE Covered(o, batch[t].at)
  <2>1. CASE o = c
    BY <1>3, <2>1
  <2>2. CASE o # c
    <3>1. o \notin ToSet(batch[t].todo)
      BY <1>0, <1>1, <1>3, <1>7, <2>2, NotInTail DEF Current
    <3> QED
      BY <1>3, <3>1 DEF Running
  <2> QED
    BY <2>1, <2>2
<1>8. CASE Len(batch[t].todo) > 1
  <2> DEFINE b == [batch[t] EXCEPT !.phase = "next", !.todo = rest, !.payload = NoDeal]
  <2>1. /\ batch' = [batch EXCEPT ![t].phase = "next", ![t].todo = Tail(@),
                                  ![t].payload = NoDeal]
        /\ last_sync' = last_sync
    BY <1>2, <1>8 DEF Proceed
  <2>2. NoDeal \in Payloads
    BY DEF Payloads
  <2>3. batch' = [batch EXCEPT ![t] = b]
    BY <1>0, <2>1 DEF SyncTypes, Batches
  <2> HIDE DEF rest
  <2>4. b \in Batches
    BY <1>0, <1>5, <2>2 DEF Batches
  <2>5. batch'[t].phase = "next" /\ batch'[t].at = batch[t].at /\ batch'[t].todo = rest
    BY <1>0, <2>3 DEF SyncTypes, Batches
  <2>6. \A o \in OrdersOf(t) : Covered(o, last_sync[t])'
    BY <1>0, <1>2, <1>4, <2>1 DEF TenantInv, Covered
  <2>7. \A o \in OrdersOf(t) : o \in ToSet(rest) \/ Covered(o, batch[t].at)'
    BY <1>2, <1>4, <1>7, <2>5 DEF Covered
  <2>8. Running(t)'
    BY <1>2, <1>3, <1>5, <1>6, <1>8, <2>1, <2>5, <2>7 DEF Running
  <2>9. TenantInv(t)'
    BY <1>0, <1>2, <2>1, <2>5, <2>6, <2>8 DEF TenantInv
  <2> HIDE DEF b
  <2> QED
    BY <1>0, <1>2, <1>4, <2>1, <2>3, <2>4, <2>9, WorkerChanges
<1>9. CASE ~ (Len(batch[t].todo) > 1)
  <2>1. /\ batch' = [batch EXCEPT ![t] = Idle]
        /\ last_sync' = [last_sync EXCEPT ![t] = batch[t].at]
    BY <1>2, <1>9 DEF Proceed
  <2>2. batch'[t] = Idle /\ last_sync'[t] = batch[t].at
    BY <1>0, <2>1 DEF SyncTypes
  <2>3. ToSet(rest) = {}
    <3> DEFINE n == Len(batch[t].todo)
    <3>1. n \in Nat /\ n >= 1 /\ ~ (n > 1) /\ Len(rest) = n - 1 /\ rest \in Seq(Orders)
      BY <1>5, <1>9
    <3> HIDE DEF n, rest
    <3>2. DOMAIN rest = {}
      BY <3>1
    <3> QED
      BY <3>2 DEF ToSet
  <2>4. \A o \in OrdersOf(t) : Covered(o, last_sync[t])'
    BY <1>2, <1>4, <1>7, <2>2, <2>3 DEF Covered
  <2>5. TenantInv(t)'
    BY <1>2, <1>3, <2>2, <2>4 DEF TenantInv, Idle
  <2> QED
    BY <1>0, <1>2, <1>4, <2>1, <2>5, WorkerChanges
<1> QED
  BY <1>8, <1>9

LEMMA SyncStep == SyncInv /\ [Next]_vars => SyncInv'
<1> SUFFICES ASSUME SyncInv, [Next]_vars PROVE SyncInv'
  OBVIOUS
<1>1. CASE UNCHANGED vars
  <2>1. /\ SyncTypes /\ clock' \in Nat /\ clock' >= clock
        /\ batch' = batch /\ last_sync' = last_sync /\ \A o : SameOrder(o)
    BY <1>1 DEF vars, SyncInv, SyncTypes, SameOrder
  <2>2. SyncTypes'
    BY <1>1 DEF vars, SyncInv, SyncTypes
  <2>3. \A t \in Tenants : TenantInv(t)'
    BY <2>1, OtherTenants DEF SyncInv
  <2> QED
    BY <2>2, <2>3 DEF SyncInv
<1>2. CASE Tick
  BY <1>2, TickStep
<1>3. ASSUME NEW o \in Orders, Transition(o) PROVE SyncInv'
  BY <1>3, TransitionStep
<1>4. ASSUME NEW t \in Tenants, WorkerStep(t) \/ PostFails(t) PROVE SyncInv'
  BY <1>4, CollectStep, BuildStep, PostStep, RaiseStep, LogStep, FailStep DEF WorkerStep
<1> QED
  BY <1>1, <1>2, <1>3, <1>4 DEF Next

LEMMA SyncInit == Init => SyncInv
<1> SUFFICES ASSUME Init PROVE SyncInv
  OBVIOUS
<1>1. /\ NoDeal \in Payloads /\ <<>> \in Seq(Orders) /\ Never \in Nat
      /\ \A o \in Orders : NoDeal \in Deals(o)
  BY DEF Payloads, Never, Deals
<1>2. Idle \in Batches /\ Idle.phase = "idle"
  BY <1>1 DEF Idle, Batches
<1>3. SyncTypes
  <2>1. \A o \in Orders : MaxChanges[o] \in Nat
    BY OrderFacts
  <2> QED
    BY <1>1, <1>2, <2>1 DEF Init, SyncTypes
<1>4. ASSUME NEW t \in Tenants PROVE TenantInv(t)
  <2>1. batch[t] = Idle /\ last_sync[t] <= clock
    BY DEF Init, Never
  <2>2. \A o \in OrdersOf(t) : UpToDate(o)
    BY DEF Init, OrdersOf, UpToDate, Shown
  <2> QED
    BY <1>2, <2>1, <2>2 DEF TenantInv, Covered
<1> QED
  BY <1>3, <1>4 DEF SyncInv

\* The inductive invariant of the sync.
THEOREM SyncInvariant == Spec => []SyncInv
<1> QED
  BY SyncInit, SyncStep, PTL DEF Spec

\* No change of an order falls between two batches of sync_client.py, whatever fails,
\* whatever is retried and whatever changes while a batch runs, unless it was stamped
\* with a time that a collection before it had covered.
THEOREM NothingIsMissed == Spec => []NothingMissed
<1>1. SyncInv => NothingMissed
  BY OrderFacts DEF SyncInv, TenantInv, Covered, OrdersOf, NothingMissed
<1> QED
  BY <1>1, SyncInvariant, PTL

DealsAreClean ==
  \A o \in Orders : deal[o] # NoDeal =>
    /\ deal[o]["external_id"] = Value("made", o)
    /\ \A f \in DOMAIN deal[o] : deal[o][f].kind \notin {"internal", "contact"}

\* What pii_scrubber.py guarantees at the boundary: it fails closed for every field,
\* every deal goes by its external id, and no deal ever shows an internal id or
\* contact data that its patterns describe.  Contact data they do not describe is a
\* kind of text of its own here, and it does cross.
THEOREM OnlyScrubbedIsSent == Spec => OnlyScrubbedCrosses
<1>1. SyncInv => DealsAreClean
  <2> SUFFICES ASSUME SyncInv, NEW o \in Orders, deal[o] # NoDeal
               PROVE  /\ deal[o]["external_id"] = Value("made", o)
                      /\ \A f \in DOMAIN deal[o] : deal[o][f].kind \notin {"internal", "contact"}
    BY DEF DealsAreClean
  <2>1. PICK n \in 0..MaxChanges[o] : deal[o] = Outbound(o, n)
    BY DEF SyncInv, SyncTypes, Deals
  <2> QED
    BY <2>1, OutboundFacts
<1>2. DealsAreClean => (\A o \in Orders : deal[o] # NoDeal =>
          /\ deal[o]["external_id"] = Value("made", o)
          /\ \A f \in DOMAIN deal[o] : deal[o][f].kind \notin {"internal", "contact"})
  BY DEF DealsAreClean
<1> QED
  BY <1>1, <1>2, ScrubberFailsClosed, SyncInvariant, PTL DEF OnlyScrubbedCrosses
=============================================================================
