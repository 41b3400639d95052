----------------------- MODULE NotificationQueueProofs -----------------------
(***************************************************************************)
(* The notification queue loses nothing, counts every failed attempt and   *)
(* keeps the channel policy, for every number of ids, workers, enqueues    *)
(* and deaths.                                                             *)
(*                                                                         *)
(* The two counts (copies of an id, attempts made for an id) are sums over *)
(* the three lists of a value of each notification: moving a notification  *)
(* from list to list leaves such a sum alone, which is what has to be      *)
(* shown for each action.  The limits on the attempts and the policy are   *)
(* types of the lists' elements.                                           *)
(***************************************************************************)
EXTENDS NotificationQueue, CollectionLemmas

Allowed == {n \in Notification : PolicyAllows(n)}
Retryable == {n \in Allowed : n.attempts < MAX_DELIVERY_ATTEMPTS}
Exhausted == {n \in Allowed : n.attempts = MAX_DELIVERY_ATTEMPTS}

\* What a notification adds to the number of copies, and to the attempts, of id.
One(id) == [n \in Notification |-> IF n.id = id THEN 1 ELSE 0]
Tries(id) == [n \in Notification |-> IF n.id = id THEN n.attempts ELSE 0]

Total(v) == SeqSum(v, pending) + SeqSum(v, delivered) + SeqSum(v, dead_letter)
Size == Len(pending) + Len(delivered) + Len(dead_letter)

ListsInv ==
  /\ pending \in Seq(Retryable) /\ delivered \in Seq(Allowed)
  /\ dead_letter \in Seq(Exhausted)
  /\ Size <= MaxEnqueues

WorkersInv ==
  /\ task \in [Workers -> Ids \cup {Idle}]
  /\ deaths \in 0..MaxDeaths

CountsInv ==
  /\ enqueued \in [Ids -> Nat] /\ failures \in [Ids -> Nat]
  /\ \A id \in Ids : Total(One(id)) = enqueued[id] /\ Total(Tries(id)) = failures[id]

QInv == ListsInv /\ WorkersInv /\ CountsInv

-----------------------------------------------------------------------------
(* The counts as sums.                                                     *)

LEMMA Subtypes ==
  /\ \A s : s \in Seq(Retryable) => s \in Seq(Notification) /\ s \in Seq(Allowed)
  /\ \A s : s \in Seq(Exhausted) => s \in Seq(Notification) /\ s \in Seq(Allowed)
  /\ \A s : s \in Seq(Allowed) => s \in Seq(Notification)
<1>1. Retryable \subseteq Allowed /\ Exhausted \subseteq Allowed /\ Allowed \subseteq Notification
  BY DEF Retryable, Exhausted, Allowed
<1> QED
  BY <1>1

LEMMA CountTypes ==
  ASSUME NEW id
  PROVE  /\ One(id) \in [Notification -> Int] /\ Tries(id) \in [Notification -> Int]
         /\ \A n \in Notification : n.id \in Ids /\ n.attempts \in Nat
         /\ \A n \in Notification : One(id)[n] = IF n.id = id THEN 1 ELSE 0
         /\ \A n \in Notification : Tries(id)[n] = IF n.id = id THEN n.attempts ELSE 0
  BY DEF One, Tries, Notification

\* A value that only the copies of id have is summed over these copies.
LEMMA SumOverCopies ==
  ASSUME NEW s \in Seq(Notification), NEW id, NEW v \in [Notification -> Int],
         \A n \in Notification : n.id # id => v[n] = 0
  PROVE  /\ IsFiniteSet(Copies(s, id))
         /\ \A i \in Copies(s, id) : s[i] \in Notification /\ s[i].id = id
                                     /\ Values(v, s)[i] = v[s[i]]
         /\ SeqSum(v, s) = SumFunctionOnSet(Values(v, s), Copies(s, id))
<1> DEFINE S == 1..Len(s)
           T == Copies(s, id)
           f == Values(v, s)
<1>1. /\ \A i \in S : f[i] = v[s[i]] /\ f[i] \in Int
      /\ IsFiniteSet(S)
  BY ValuesFacts
<1>2. \A i \in S : s[i] \in Notification
  OBVIOUS
<1>3. T \in SUBSET S /\ \A i \in S : i \in T <=> s[i].id = id
  BY DEF Copies
<1>4. SeqSum(v, s) = SumFunctionOnSet(f, S)
  BY DEF SeqSum
<1> HIDE DEF S, T, f
<1>5. \A i \in S \ T : f[i] = 0
  <2> SUFFICES ASSUME NEW i \in S, i \notin T PROVE f[i] = 0
    OBVIOUS
  <2>1. s[i] \in Notification /\ s[i].id # id
    BY <1>2, <1>3
  <2>2. v[s[i]] = 0
    BY <2>1
  <2> QED
    BY <1>1, <2>2
<1>6. SumFunctionOnSet(f, S) = SumFunctionOnSet(f, T)
  BY <1>1, <1>3, <1>5, SumWithoutZeros
<1>7. IsFiniteSet(T)
  BY <1>1, <1>3, FS_Subset
<1>8. \A i \in T : s[i] \in Notification /\ s[i].id = id /\ f[i] = v[s[i]]
  BY <1>1, <1>2, <1>3
<1> QED
  BY <1>4, <1>6, <1>7, <1>8 DEF T, f

LEMMA CopiesAreCounted ==
  ASSUME NEW s \in Seq(Notification), NEW id
  PROVE  Cardinality(Copies(s, id)) = SeqSum(One(id), s)
<1> DEFINE v == One(id)
           T == Copies(s, id)
           f == Values(v, s)
<1>1. v \in [Notification -> Int] /\ \A n \in Notification : n.id # id => v[n] = 0
  BY CountTypes
<1>2. \A n \in Notification : n.id = id => v[n] = 1
  BY CountTypes
<1> HIDE DEF v
<1>3. /\ IsFiniteSet(T) /\ SeqSum(v, s) = SumFunctionOnSet(f, T)
      /\ \A i \in T : s[i] \in Notification /\ s[i].id = id /\ f[i] = v[s[i]]
  BY <1>1, SumOverCopies
<1> HIDE DEF T, f
<1>4. \A i \in T : f[i] = 1
  BY <1>2, <1>3
<1>5. SumFunctionOnSet(f, T) = Cardinality(T)
  BY <1>3, <1>4, SumOfOnes
<1> QED
  BY <1>3, <1>5 DEF T, v

LEMMA AttemptsAreSummed ==
  ASSUME NEW s \in Seq(Notification), NEW id
  PROVE  SumFunction([i \in Copies(s, id) |-> s[i].attempts]) = SeqSum(Tries(id), s)
<1> DEFINE v == Tries(id)
           T == Copies(s, id)
           f == Values(v, s)
           g == [i \in T |-> s[i].attempts]
<1>1. v \in [Notification -> Int] /\ \A n \in Notification : n.id # id => v[n] = 0
  BY CountTypes
<1>2. \A n \in Notification : n.id = id => v[n] = n.attempts /\ n.attempts \in Int
  BY CountTypes
<1> HIDE DEF v
<1>3. /\ IsFiniteSet(T) /\ SeqSum(v, s) = SumFunctionOnSet(f, T)
      /\ \A i \in T : s[i] \in Notification /\ s[i].id = id /\ f[i] = v[s[i]]
  BY <1>1, SumOverCopies
<1>4. SumFunction(g) = SumFunctionOnSet(g, T)
  BY DEF SumFunction
<1>5. \A i \in T : g[i] = s[i].attempts
  OBVIOUS
<1> HIDE DEF T, f, g
<1>6. \A i \in T : f[i] \in Int /\ g[i] = f[i]
  BY <1>2, <1>3, <1>5
<1>7. SumFunctionOnSet(g, T) = SumFunctionOnSet(f, T)
  BY <1>3, <1>6, SumSame
<1>8. SumFunction(g) = SeqSum(v, s)
  BY <1>3, <1>4, <1>7
<1> QED
  BY <1>8 DEF g, T, v

\* The sums and the lengths of the three lists are those of their concatenation.
LEMMA EverythingTogether ==
  ASSUME ListsInv
  PROVE  /\ Everything \in Seq(Allowed) /\ Everything \in Seq(Notification)
         /\ Len(Everything) = Size
         /\ \A v \in [Notification -> Int] : SeqSum(v, Everything) = Total(v)
<1> DEFINE a == pending \o delivered
<1>1. /\ pending \in Seq(Allowed) /\ delivered \in Seq(Allowed) /\ dead_letter \in Seq(Allowed)
      /\ pending \in Seq(Notification) /\ delivered \in Seq(Notification)
      /\ dead_letter \in Seq(Notification)
  BY Subtypes DEF ListsInv
<1>2. /\ a \in Seq(Allowed) /\ a \in Seq(Notification)
      /\ Len(a) = Len(pending) + Len(delivered)
  BY <1>1
<1>3. Everything = a \o dead_letter
  BY DEF Everything
<1>4. \A v \in [Notification -> Int] : SeqSum(v, a) = SeqSum(v, pending) + SeqSum(v, delivered)
  BY <1>1, SeqSumConcat
<1> HIDE DEF a
<1>5. /\ Everything \in Seq(Allowed) /\ Everything \in Seq(Notification)
      /\ Len(Everything) = Len(a) + Len(dead_letter)
  <2>1. /\ a \o dead_letter \in Seq(Allowed) /\ a \o dead_letter \in Seq(Notification)
        /\ Len(a \o dead_letter) = Len(a) + Len(dead_letter)
    BY <1>1, <1>2, ConcatFacts
  <2> QED
    BY <1>3, <2>1
<1>6. \A v \in [Notification -> Int] : SeqSum(v, Everything) = SeqSum(v, a) + SeqSum(v, dead_letter)
  BY <1>1, <1>2, <1>3, SeqSumConcat
<1>7. Len(Everything) = Size
  BY <1>2, <1>5, Zenon DEF Size
<1>8. ASSUME NEW v \in [Notification -> Int] PROVE SeqSum(v, Everything) = Total(v)
  BY <1>4, <1>6 DEF Total
<1> QED
  BY <1>5, <1>7, <1>8

-----------------------------------------------------------------------------
(* What the actions do to the lists.                                       *)

\* _pop_pending finds a notification of that id.
LEMMA FirstFacts ==
  ASSUME NEW id, InPending(id)
  PROVE  First(id) \in 1..Len(pending) /\ pending[First(id)].id = id
<1>1. Position(id) \subseteq Nat /\ Position(id) # {}
  BY DEF Position, InPending
<1>2. \E i \in Position(id) : \A j \in Position(id) : i <= j
  BY <1>1, LeastNat
<1>3. First(id) \in Position(id)
  BY <1>2 DEF First
<1> QED
  BY <1>3 DEF Position

\* One notification is added to a list, or taken out of it.
LEMMA ListGrows ==
  ASSUME NEW N, NEW s \in Seq(N), NEW n \in N, N \subseteq Notification
  PROVE  /\ Append(s, n) \in Seq(N) /\ Len(Append(s, n)) = Len(s) + 1 /\ Len(s) \in Nat
         /\ \A v \in [Notification -> Int] :
              /\ SeqSum(v, Append(s, n)) = SeqSum(v, s) + v[n]
              /\ SeqSum(v, s) \in Int /\ v[n] \in Int
<1>1. s \in Seq(Notification) /\ n \in Notification
  OBVIOUS
<1>2. ASSUME NEW v \in [Notification -> Int]
      PROVE  /\ SeqSum(v, Append(s, n)) = SeqSum(v, s) + v[n]
             /\ SeqSum(v, s) \in Int /\ v[n] \in Int
  BY <1>1, SeqSumAppend, ValuesFacts
<1> QED
  BY <1>2

LEMMA ListShrinks ==
  ASSUME NEW N, NEW s \in Seq(N), NEW i \in 1..Len(s), N \subseteq Notification
  PROVE  /\ RemoveAt(s, i) \in Seq(N) /\ Len(RemoveAt(s, i)) = Len(s) - 1 /\ Len(s) \in Nat
         /\ s[i] \in N
         /\ \A v \in [Notification -> Int] :
              /\ SeqSum(v, RemoveAt(s, i)) = SeqSum(v, s) - v[s[i]]
              /\ SeqSum(v, s) \in Int /\ v[s[i]] \in Int
<1>1. s \in Seq(Notification) /\ s[i] \in N /\ s[i] \in Notification
  OBVIOUS
<1>2. ASSUME NEW v \in [Notification -> Int]
      PROVE  /\ SeqSum(v, RemoveAt(s, i)) = SeqSum(v, s) - v[s[i]]
             /\ SeqSum(v, s) \in Int /\ v[s[i]] \in Int
  BY <1>1, SeqSumRemoveAt, ValuesFacts, SMTT(30)
<1>3. RemoveAt(s, i) \in Seq(N) /\ Len(RemoveAt(s, i)) = Len(s) - 1
  BY RemoveAtFacts
<1> QED
  BY <1>1, <1>2, <1>3

LEMMA Subsets ==
  Retryable \subseteq Notification /\ Exhausted \subseteq Notification /\ Allowed \subseteq Notification
  BY DEF Retryable, Exhausted, Allowed

\* The copy made for a retry: the same notification with one more attempt.
LEMMA RetriedFacts ==
  ASSUME NEW n \in Retryable
  PROVE  /\ Retried(n) \in Allowed /\ Retried(n).id = n.id
         /\ n.attempts \in Nat /\ Retried(n).attempts = n.attempts + 1
         /\ n.attempts < MAX_DELIVERY_ATTEMPTS
  BY DEF Retryable, Allowed, Notification, Retried, PolicyAllows

\* The sums of the three lists are integers.
LEMMA TotalType ==
  ASSUME ListsInv, NEW v \in [Notification -> Int]
  PROVE  /\ SeqSum(v, pending) \in Int /\ SeqSum(v, delivered) \in Int
         /\ SeqSum(v, dead_letter) \in Int
         /\ Len(pending) \in Nat /\ Len(delivered) \in Nat /\ Len(dead_letter) \in Nat
<1>1. /\ pending \in Seq(Notification) /\ delivered \in Seq(Notification)
      /\ dead_letter \in Seq(Notification)
  BY Subtypes DEF ListsInv
<1> QED
  BY <1>1, ValuesFacts

-----------------------------------------------------------------------------
(* The invariant is inductive.                                             *)

LEMMA QInit == Init => QInv
<1> SUFFICES ASSUME Init PROVE QInv
  OBVIOUS
<1>1. ListsInv
  BY QueueAssumption DEF Init, ListsInv, Size
<1>2. WorkersInv
  BY QueueAssumption DEF Init, WorkersInv
<1>3. ASSUME NEW v PROVE Total(v) = 0
  <2>1. Total(v) = SeqSum(v, <<>>) + SeqSum(v, <<>>) + SeqSum(v, <<>>)
    BY DEF Total, Init
  <2>2. SeqSum(v, <<>>) = 0
    BY SeqSumEmpty
  <2> QED
    BY <2>1, <2>2
<1>4. CountsInv
  BY <1>3 DEF Init, CountsInv
<1> QED
  BY <1>1, <1>2, <1>4 DEF QInv

LEMMA QEnqueue ==
  ASSUME QInv, NEW n \in NewNotification, enqueue(n)
  PROVE  QInv'
<1> USE DEF QInv
<1>1. n \in Retryable /\ n \in Notification /\ n.id \in Ids /\ n.attempts = 0
  BY QueueAssumption DEF enqueue, NewNotification, Retryable, Allowed, Notification
<1>2. /\ pending' = Append(pending, n) /\ Len(Everything) < MaxEnqueues
      /\ enqueued' = [enqueued EXCEPT ![n.id] = @ + 1]
      /\ UNCHANGED <<delivered, dead_letter, task, failures, deaths>>
  BY DEF enqueue
<1>3. /\ Append(pending, n) \in Seq(Retryable) /\ Len(Append(pending, n)) = Len(pending) + 1
      /\ \A v \in [Notification -> Int] : SeqSum(v, Append(pending, n)) = SeqSum(v, pending) + v[n]
  <2>1. pending \in Seq(Retryable)
    BY DEF ListsInv
  <2> QED
    BY <1>1, <2>1, Subsets, ListGrows
<1>4. ListsInv'
  <2>1. Size < MaxEnqueues
    BY <1>2, EverythingTogether
  <2>2. Size' <= MaxEnqueues
    <3>1. Len(pending) \in Nat /\ Len(delivered) \in Nat /\ Len(dead_letter) \in Nat
      BY DEF ListsInv
    <3>2. Size' = Len(pending') + Len(delivered) + Len(dead_letter)
      BY <1>2 DEF Size
    <3> QED
      BY <1>2, <1>3, <2>1, <3>1, <3>2, QueueAssumption DEF Size
  <2> QED
    BY <1>2, <1>3, <2>2 DEF ListsInv
<1>5. WorkersInv'
  BY <1>2 DEF WorkersInv
<1>6. ASSUME NEW v \in [Notification -> Int] PROVE Total(v)' = Total(v) + v[n]
  <2>1. /\ SeqSum(v, pending) \in Int /\ SeqSum(v, delivered) \in Int
        /\ SeqSum(v, dead_letter) \in Int /\ v[n] \in Int
    BY <1>1, TotalType
  <2>2. Total(v)' = SeqSum(v, Append(pending, n)) + SeqSum(v, delivered) + SeqSum(v, dead_letter)
    BY <1>2 DEF Total
  <2> QED
    BY <1>3, <2>1, <2>2 DEF Total
<1>7. ASSUME NEW id \in Ids
      PROVE  Total(One(id))' = enqueued'[id] /\ Total(Tries(id))' = failures'[id]
  <2>1. /\ Total(One(id))' = Total(One(id)) + One(id)[n]
        /\ Total(Tries(id))' = Total(Tries(id)) + Tries(id)[n]
    BY <1>6, CountTypes
  <2>2. Tries(id)[n] = 0 /\ One(id)[n] = IF n.id = id THEN 1 ELSE 0
    BY <1>1, CountTypes
  <2>3. /\ Total(One(id)) = enqueued[id] /\ Total(Tries(id)) = failures[id]
        /\ enqueued \in [Ids -> Nat] /\ failures[id] \in Nat
    BY DEF CountsInv
  <2> QED
    BY <1>1, <1>2, <2>1, <2>2, <2>3
<1>8. CountsInv'
  <2>1. enqueued' \in [Ids -> Nat] /\ failures' \in [Ids -> Nat]
    BY <1>1, <1>2 DEF CountsInv
  <2> QED
    BY <1>7, <2>1 DEF CountsInv
<1> QED
  BY <1>4, <1>5, <1>8

LEMMA QDelivered ==
  ASSUME QInv, NEW w \in Workers, mark_delivered(w)
  PROVE  QInv'
<1> USE DEF QInv
<1> DEFINE i == First(task[w])
           n == pending[i]
<1>1. /\ pending' = RemoveAt(pending, i) /\ delivered' = Append(delivered, n)
      /\ task' = [task EXCEPT ![w] = Idle]
      /\ UNCHANGED <<dead_letter, enqueued, failures, deaths>>
  BY DEF mark_delivered, Done
<1>2. i \in 1..Len(pending)
  BY FirstFacts DEF mark_delivered
<1> HIDE DEF i
<1>3. /\ pending' \in Seq(Retryable) /\ Len(pending') = Len(pending) - 1 /\ n \in Retryable
      /\ \A v \in [Notification -> Int] : SeqSum(v, pending') = SeqSum(v, pending) - v[n]
  <2>1. pending \in Seq(Retryable)
    BY DEF ListsInv
  <2> QED
    BY <1>1, <1>2, <2>1, Subsets, ListShrinks, SMTT(30)
<1>4. n \in Allowed /\ n \in Notification
  BY <1>3 DEF Retryable, Allowed
<1> HIDE DEF n
<1>5. /\ delivered' \in Seq(Allowed) /\ Len(delivered') = Len(delivered) + 1
      /\ \A v \in [Notification -> Int] : SeqSum(v, delivered') = SeqSum(v, delivered) + v[n]
  <2>1. delivered \in Seq(Allowed)
    BY DEF ListsInv
  <2> QED
    BY <1>1, <1>4, <2>1, Subsets, ListGrows
<1>6. ListsInv'
  <2>1. Len(pending) \in Nat /\ Len(delivered) \in Nat /\ Len(dead_letter) \in Nat
    BY DEF ListsInv
  <2>2. Size' = Size
    BY <1>1, <1>3, <1>5, <2>1 DEF Size
  <2> QED
    BY <1>1, <1>3, <1>5, <2>2 DEF ListsInv
<1>7. WorkersInv'
  BY <1>1 DEF WorkersInv
<1>8. ASSUME NEW v \in [Notification -> Int] PROVE Total(v)' = Total(v)
  <2>1. /\ SeqSum(v, pending) \in Int /\ SeqSum(v, delivered) \in Int
        /\ SeqSum(v, dead_letter) \in Int /\ v[n] \in Int
    BY <1>4, TotalType
  <2>2. Total(v)' = SeqSum(v, pending') + SeqSum(v, delivered') + SeqSum(v, dead_letter)
    BY <1>1 DEF Total
  <2> QED
    BY <1>3, <1>5, <2>1, <2>2, SMTT(30) DEF Total
<1>9. CountsInv'
  BY <1>1, <1>8, CountTypes DEF CountsInv
<1> QED
  BY <1>6, <1>7, <1>9

\* A failed notification is copied with one more attempt; the copy goes back to
\* pending, or to the dead-letter queue when that was the last attempt.
LEMMA QFailed ==
  ASSUME QInv, NEW w \in Workers, mark_failed(w)
  PROVE  QInv'
<1> USE DEF QInv
<1> DEFINE i == First(task[w])
           o == pending[i]
           n == Retried(o)
           rest == RemoveAt(pending, i)
<1>1. /\ IF n.attempts >= MAX_DELIVERY_ATTEMPTS
         THEN pending' = rest /\ dead_letter' = Append(dead_letter, n)
         ELSE pending' = Append(rest, n) /\ UNCHANGED dead_letter
      /\ failures' = [failures EXCEPT ![task[w]] = @ + 1]
      /\ task' = [task EXCEPT ![w] = Idle]
      /\ UNCHANGED <<delivered, enqueued, deaths>>
  BY DEF mark_failed, Done
<1>2. i \in 1..Len(pending) /\ o.id = task[w]
  BY FirstFacts DEF mark_failed
<1> HIDE DEF i
<1>3. /\ rest \in Seq(Retryable) /\ Len(rest) = Len(pending) - 1 /\ o \in Retryable
      /\ \A v \in [Notification -> Int] : SeqSum(v, rest) = SeqSum(v, pending) - v[o]
  <2>1. pending \in Seq(Retryable)
    BY DEF ListsInv
  <2> QED
    BY <1>2, <2>1, Subsets, ListShrinks
<1> HIDE DEF o, rest
<1>4. /\ n \in Allowed /\ n.id = o.id /\ o.attempts \in Nat
      /\ n.attempts = o.attempts + 1 /\ o.attempts < MAX_DELIVERY_ATTEMPTS
  BY <1>3, RetriedFacts
<1>5. n \in Notification /\ o \in Notification /\ o.id \in Ids
  <2>1. n \in Notification /\ o \in Notification
    BY <1>3, <1>4, Subsets
  <2> QED
    BY <2>1, CountTypes
<1> HIDE DEF n
<1>6. Len(pending) \in Nat /\ Len(delivered) \in Nat /\ Len(dead_letter) \in Nat
  BY DEF ListsInv
\* Where the copy goes: in both cases the lists have lost o and gained n.
<1>7. /\ pending' \in Seq(Retryable) /\ dead_letter' \in Seq(Exhausted)
      /\ Len(pending') + Len(dead_letter') = Len(pending) + Len(dead_letter)
      /\ Len(pending') \in Nat /\ Len(dead_letter') \in Nat
      /\ \A v \in [Notification -> Int] :
           SeqSum(v, pending') + SeqSum(v, dead_letter')
             = (SeqSum(v, pending) - v[o]) + v[n] + SeqSum(v, dead_letter)
  <2>1. CASE n.attempts >= MAX_DELIVERY_ATTEMPTS
    <3>1. n \in Exhausted
      BY <1>4, <2>1, QueueAssumption DEF Exhausted
    <3>2. dead_letter \in Seq(Exhausted)
      BY DEF ListsInv
    <3>3. /\ Append(dead_letter, n) \in Seq(Exhausted)
          /\ Len(Append(dead_letter, n)) = Len(dead_letter) + 1
          /\ \A v \in [Notification -> Int] :
               SeqSum(v, Append(dead_letter, n)) = SeqSum(v, dead_letter) + v[n]
      BY <3>1, <3>2, Subsets, ListGrows
    <3>4. pending' = rest /\ dead_letter' = Append(dead_letter, n)
      BY <1>1, <2>1
    <3>5. ASSUME NEW v \in [Notification -> Int]
          PROVE SeqSum(v, pending') + SeqSum(v, dead_letter')
             = (SeqSum(v, pending) - v[o]) + v[n] + SeqSum(v, dead_letter)
      <4>1. /\ SeqSum(v, pending) \in Int /\ SeqSum(v, dead_letter) \in Int
            /\ v[n] \in Int /\ v[o] \in Int
        BY <1>5, TotalType
      <4>2. /\ SeqSum(v, pending') = SeqSum(v, pending) - v[o]
            /\ SeqSum(v, dead_letter') = SeqSum(v, dead_letter) + v[n]
        BY <1>3, <3>3, <3>4
      <4> QED
        BY <4>1, <4>2
    <3>6. /\ Len(pending') = Len(pending) - 1 /\ Len(dead_letter') = Len(dead_letter) + 1
          /\ pending' \in Seq(Retryable) /\ dead_letter' \in Seq(Exhausted)
      BY <1>3, <3>3, <3>4
    <3>7. Len(pending') \in Nat
      BY <3>6
    <3> QED
      BY <1>6, <3>5, <3>6, <3>7
  <2>2. CASE ~ (n.attempts >= MAX_DELIVERY_ATTEMPTS)
    <3>1. n \in Retryable
      BY <1>4, <2>2, QueueAssumption DEF Retryable
    <3>2. /\ Append(rest, n) \in Seq(Retryable) /\ Len(Append(rest, n)) = Len(rest) + 1
          /\ \A v \in [Notification -> Int] : SeqSum(v, Append(rest, n)) = SeqSum(v, rest) + v[n]
      BY <1>3, <3>1, Subsets, ListGrows
    <3>3. pending' = Append(rest, n) /\ dead_letter' = dead_letter
      BY <1>1, <2>2
    <3>4. ASSUME NEW v \in [Notification -> Int]
          PROVE SeqSum(v, pending') + SeqSum(v, dead_letter')
             = (SeqSum(v, pending) - v[o]) + v[n] + SeqSum(v, dead_letter)
      BY <1>3, <3>2, <3>3
    <3>5. Len(pending') = Len(pending) /\ dead_letter' \in Seq(Exhausted)
      BY <1>3, <1>6, <3>2, <3>3 DEF ListsInv
    <3> QED
      BY <1>6, <3>2, <3>3, <3>4, <3>5
  <2> QED
    BY <2>1, <2>2
<1>8. ListsInv'
  <2>1. Size' = Len(pending') + Len(delivered) + Len(dead_letter')
    BY <1>1 DEF Size
  <2>2. Size' = Size
    BY <1>6, <1>7, <2>1 DEF Size
  <2> QED
    BY <1>1, <1>7, <2>2 DEF ListsInv
<1>9. WorkersInv'
  BY <1>1 DEF WorkersInv
<1>10. ASSUME NEW v \in [Notification -> Int] PROVE Total(v)' = Total(v) - v[o] + v[n]
  <2> DEFINE a == SeqSum(v, pending)
             b == SeqSum(v, delivered)
             c == SeqSum(v, dead_letter)
             p == SeqSum(v, pending')
             q == SeqSum(v, dead_letter')
             x == v[o]
             y == v[n]
  <2>1. a \in Int /\ b \in Int /\ c \in Int /\ x \in Int /\ y \in Int
    BY <1>5, TotalType
  <2>2. p \in Int /\ q \in Int
    <3>1. pending' \in Seq(Notification) /\ dead_letter' \in Seq(Notification)
      BY <1>7, Subtypes
    <3> QED
      BY <3>1, ValuesFacts
  <2>3. Total(v)' = p + b + q /\ Total(v) = a + b + c
    BY <1>1 DEF Total
  <2>4. p + q = (a - x) + y + c
    BY <1>7
  <2> HIDE DEF a, b, c, p, q, x, y
  <2>5. p + b + q = (a + b + c) - x + y
    BY <2>1, <2>2, <2>4
  <2>6. Total(v)' = Total(v) - x + y
    BY <2>3, <2>5, Zenon
  <2> QED
    BY <2>6, Zenon DEF x, y
<1>11. ASSUME NEW id \in Ids
       PROVE  Total(One(id))' = enqueued'[id] /\ Total(Tries(id))' = failures'[id]
  <2>1. /\ Total(One(id))' = Total(One(id)) - One(id)[o] + One(id)[n]
        /\ Total(Tries(id))' = Total(Tries(id)) - Tries(id)[o] + Tries(id)[n]
    BY <1>10, CountTypes
  <2>2. /\ One(id)[o] = IF o.id = id THEN 1 ELSE 0
        /\ One(id)[n] = IF n.id = id THEN 1 ELSE 0
        /\ Tries(id)[o] = IF o.id = id THEN o.attempts ELSE 0
        /\ Tries(id)[n] = IF n.id = id THEN n.attempts ELSE 0
    BY <1>5, CountTypes
  <2>3. /\ Total(One(id)) = enqueued[id] /\ Total(Tries(id)) = failures[id]
        /\ enqueued[id] \in Nat /\ failures \in [Ids -> Nat]
    BY DEF CountsInv
  <2>4. failures'[id] = IF o.id = id THEN failures[id] + 1 ELSE failures[id]
    BY <1>1, <1>2, <2>3
  <2>5. Total(One(id))' = enqueued'[id]
    <3>1. One(id)[n] = One(id)[o] /\ One(id)[o] \in Int
      BY <1>4, <2>2
    <3>2. enqueued'[id] = enqueued[id]
      BY <1>1
    <3> QED
      BY <2>1, <2>3, <3>1, <3>2
  <2>6. Total(Tries(id))' = failures'[id]
    BY <1>4, <2>1, <2>2, <2>3, <2>4
  <2> QED
    BY <2>5, <2>6
<1>12. CountsInv'
  <2>1. enqueued' \in [Ids -> Nat] /\ failures' \in [Ids -> Nat]
    BY <1>1, <1>2, <1>5 DEF CountsInv
  <2> QED
    BY <1>11, <2>1 DEF CountsInv
<1> QED
  BY <1>8, <1>9, <1>12

\* The other steps leave the three lists and the counts alone.
LEMMA QOther ==
  ASSUME QInv, UNCHANGED <<pending, delivered, dead_letter, enqueued, failures>>, WorkersInv'
  PROVE  QInv'
<1>1. ListsInv' /\ CountsInv'
  BY DEF QInv, ListsInv, CountsInv, Size, Total
<1> QED
  BY <1>1 DEF QInv

LEMMA QStep == QInv /\ [Next]_vars => QInv'
<1> SUFFICES ASSUME QInv, [Next]_vars PROVE QInv'
  OBVIOUS
<1>1. ASSUME NEW n \in NewNotification, enqueue(n) PROVE QInv'
  BY <1>1, QEnqueue
<1>2. ASSUME NEW w \in Workers, mark_delivered(w) PROVE QInv'
  BY <1>2, QDelivered
<1>3. ASSUME NEW w \in Workers, mark_failed(w) PROVE QInv'
  BY <1>3, QFailed
<1>4. ASSUME NEW w \in Workers, LateReport(w) PROVE QInv'
  <2>1. WorkersInv'
    BY <1>4 DEF QInv, WorkersInv, LateReport, Done
  <2> QED
    BY <1>4, <2>1, QOther DEF LateReport
<1>5. ASSUME NEW w \in Workers, Die(w) PROVE QInv'
  <2>1. WorkersInv'
    BY <1>5, QueueAssumption DEF QInv, WorkersInv, Die, Done
  <2> QED
    BY <1>5, <2>1, QOther DEF Die
<1>6. ASSUME NEW w \in Workers, NEW id \in Ids, Take(w, id) PROVE QInv'
  <2>1. WorkersInv'
    BY <1>6 DEF QInv, WorkersInv, Take
  <2> QED
    BY <1>6, <2>1, QOther DEF Take
<1>7. CASE UNCHANGED vars
  <2>1. WorkersInv'
    BY <1>7 DEF QInv, WorkersInv, vars
  <2> QED
    BY <1>7, <2>1, QOther DEF vars
<1> QED
  BY <1>1, <1>2, <1>3, <1>4, <1>5, <1>6, <1>7 DEF Next, Report

-----------------------------------------------------------------------------
(* What the invariant implies.                                             *)

LEMMA QInvAccounted == QInv => Accounted
<1> SUFFICES ASSUME QInv PROVE Accounted
  OBVIOUS
<1> USE DEF QInv
<1>1. Everything \in Seq(Notification) /\ Len(Everything) = Size
  BY EverythingTogether
<1>2. ASSUME NEW id \in Ids
      PROVE  /\ Cardinality(Copies(Everything, id)) = enqueued[id]
             /\ SumFunction([i \in Copies(Everything, id) |-> Everything[i].attempts]) = failures[id]
  <2>1. SeqSum(One(id), Everything) = Total(One(id)) /\ SeqSum(Tries(id), Everything) = Total(Tries(id))
    BY CountTypes, EverythingTogether
  <2>2. /\ Cardinality(Copies(Everything, id)) = SeqSum(One(id), Everything)
        /\ SumFunction([i \in Copies(Everything, id) |-> Everything[i].attempts])
             = SeqSum(Tries(id), Everything)
    BY <1>1, CopiesAreCounted, AttemptsAreSummed
  <2> QED
    BY <2>1, <2>2 DEF CountsInv
<1>3. ASSUME NEW id \in Ids PROVE enqueued[id] \in 0..MaxEnqueues
  <2> DEFINE C == Copies(Everything, id)
             L == Len(Everything)
  <2>1. C \subseteq 1..L /\ L \in Nat /\ L <= MaxEnqueues
    BY <1>1 DEF Copies, ListsInv
  <2> HIDE DEF C, L
  <2>2. IsFiniteSet(1..L) /\ Cardinality(1..L) = L
    BY <2>1, FS_Interval
  <2>3. Cardinality(C) <= L
    BY <2>1, <2>2, FS_Subset
  <2>4. Cardinality(C) = enqueued[id] /\ enqueued[id] \in Nat
    BY <1>2 DEF C, CountsInv
  <2> QED
    BY <2>1, <2>3, <2>4, QueueAssumption
<1>4. TypeOK
  <2>1. /\ pending \in Seq(Notification) /\ delivered \in Seq(Notification)
        /\ dead_letter \in Seq(Notification)
    BY Subtypes DEF ListsInv
  <2>2. enqueued \in [Ids -> 0..MaxEnqueues] /\ failures \in [Ids -> Nat]
    BY <1>3 DEF CountsInv
  <2> QED
    BY <2>1, <2>2 DEF TypeOK, WorkersInv
<1>5. /\ \A i \in 1..Len(pending) : pending[i].attempts < MAX_DELIVERY_ATTEMPTS
      /\ \A i \in 1..Len(dead_letter) : dead_letter[i].attempts = MAX_DELIVERY_ATTEMPTS
  <2>1. /\ \A i \in 1..Len(pending) : pending[i] \in Retryable
        /\ \A i \in 1..Len(dead_letter) : dead_letter[i] \in Exhausted
    BY DEF ListsInv
  <2> QED
    BY <2>1 DEF Retryable, Exhausted
<1> QED
  BY <1>2, <1>4, <1>5 DEF Accounted, Conserved, AttemptsAccounted

LEMMA QInvPolicy == QInv => PolicyKept
<1> SUFFICES ASSUME QInv PROVE PolicyKept
  OBVIOUS
<1>1. Everything \in Seq(Allowed)
  BY EverythingTogether DEF QInv
<1>2. \A i \in 1..Len(Everything) : Everything[i] \in Allowed
  BY <1>1
<1> QED
  BY <1>2 DEF PolicyKept, Allowed

\* Whatever late, repeated and missing reports the workers make, mark_delivered
\* and mark_failed leave every accepted enqueue in exactly one of the three
\* lists, with its failed attempts counted, fewer than MAX_DELIVERY_ATTEMPTS of
\* them on a pending copy and all of them on a dead one.
THEOREM QueueAlwaysAccounted == Spec => []Accounted
<1>1. Spec => []QInv
  BY QInit, QStep, PTL DEF Spec
<1> QED
  BY <1>1, QInvAccounted, PTL

\* The channel and encryption policy that enqueue asserts holds of every copy the
\* queue makes, in all three lists.
THEOREM PolicyAlwaysKept == Spec => []PolicyKept
<1>1. Spec => []QInv
  BY QInit, QStep, PTL DEF Spec
<1> QED
  BY <1>1, QInvPolicy, PTL
=============================================================================
