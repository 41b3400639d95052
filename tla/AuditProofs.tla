------------------------------ MODULE AuditProofs ------------------------------
(***************************************************************************)
(* Theorems about AuditLog, for any callers, any number of entries and     *)
(* every wiring: types, LinksPointBack and ChainIntact.  And about         *)
(* verify_chain, for dumps of any length and any number of alterations: it *)
(* is exact with the checkpoint of the dump, locates a single alteration   *)
(* without one, and has three causes for a false alarm.                    *)
(***************************************************************************)
EXTENDS ChainVerifier, CollectionLemmas

-----------------------------------------------------------------------------
(* The logger.                                                             *)

\* The entries form a sequence (their links are tuples of any depth, so that there
\* is no fixed set they are taken from), and each caller has a local entry.
Shape == DOMAIN entry = Writers /\ \E S : entries \in Seq(S)

\* Entries in the making have ids of their own, which are not logged before they are
\* appended; an entry that is "appended" is there; details are written only after.
OwnIds ==
  /\ \A v, w \in Writers :
       v # w /\ pc[v] # "idle" /\ pc[w] # "idle" => entry[v].id # entry[w].id
  /\ \A w \in Writers : pc[w] = "built" =>
       \A i \in 1..Len(entries) : entries[i].id # entry[w].id
  /\ \A w \in Writers : pc[w] = "appended" =>
       \E i \in 1..Len(entries) : entries[i] = entry[w]
  /\ \A w \in Writers : pc[w] \in {"built", "appended"} => details[entry[w].id] = 0
  /\ \A k \in EntryIds : k > built => details[k] = 0

\* A link to the start or to one of the first n entries.
LinksTo(h, n) == h = Genesis \/ \E j \in 1..n : h = LoggedHash(entries[j])

\* The hashes callers will link to, or have read, point to logged entries.
LinksReady ==
  /\ LinksTo(last_hash, Len(entries))
  /\ \A w \in Writers : pc[w] = "built" =>
       LinksTo(entry[w].previous_hash, Len(entries))

\* The strengthening of LinksPointBack.
LInv == TypeOK /\ Shape /\ OwnIds /\ LinksReady /\ LinksPointBack

-----------------------------------------------------------------------------
\* The same of AppendEntry, with the type of Len that the other steps need.
LEMMA Appended ==
  ASSUME Shape, NEW w \in Writers, AppendEntry(w)
  PROVE  /\ \E S : entries' \in Seq(S)
         /\ Len(entries) \in Nat /\ Len(entries') = Len(entries) + 1
         /\ \A i \in 1..Len(entries) : entries'[i] = entries[i]
         /\ entries'[Len(entries) + 1] = entry[w]
<1>1. PICK S : entries \in Seq(S)
  BY DEF Shape
<1>2. entries' = Append(entries, entry[w])
  BY DEF AppendEntry
<1>3. /\ Append(entries, entry[w]) \in Seq(S \cup {entry[w]})
      /\ Len(entries) \in Nat /\ Len(Append(entries, entry[w])) = Len(entries) + 1
      /\ \A i \in 1..Len(entries) : Append(entries, entry[w])[i] = entries[i]
      /\ Append(entries, entry[w])[Len(entries) + 1] = entry[w]
  BY <1>1, AppendFacts
<1> HIDE DEF AppendEntry
<1> QED
  BY <1>2, <1>3

LEMMA InitLInv == Init => LInv
<1> SUFFICES ASSUME Init PROVE LInv
  OBVIOUS
<1>1. entries \in Seq({}) /\ Len(entries) = 0
  BY DEF Init
<1>2. TypeOK
  BY <1>1, LogAssumption DEF Init, TypeOK, EntryIds
<1>3. Shape
  BY <1>1 DEF Init, Shape
<1>4. OwnIds
  BY <1>1 DEF Init, OwnIds, EntryIds
<1>5. LinksReady /\ LinksPointBack
  BY <1>1 DEF Init, LinksReady, LinksTo, LinksPointBack
<1> QED
  BY <1>2, <1>3, <1>4, <1>5 DEF LInv

LEMMA NextLInv == LInv /\ [Next]_vars => LInv'
<1> SUFFICES ASSUME LInv, [Next]_vars PROVE LInv'
  OBVIOUS
<1> USE DEF LInv
<1>0. Len(entries) \in Nat
  BY DEF Shape
<1>1. CASE UNCHANGED vars
  <2>1. TypeOK' /\ Shape'
    BY <1>1 DEF vars, TypeOK, Shape
  <2>2. OwnIds'
    BY <1>1 DEF vars, OwnIds
  <2>3. LinksReady' /\ LinksPointBack'
    BY <1>1 DEF vars, LinksReady, LinksTo, LoggedHash, LinksPointBack
  <2> QED
    BY <2>1, <2>2, <2>3
<1>2. ASSUME NEW w \in Writers, Build(w) PROVE LInv'
  <2>0. /\ pc[w] = "idle" /\ pc' = [pc EXCEPT ![w] = "built"]
        /\ built' = built + 1 /\ built + 1 \in EntryIds
        /\ UNCHANGED <<wiring, entries, last_hash, details>>
    BY <1>2, LogAssumption DEF Build, TypeOK, EntryIds
  <2>01. /\ entry'[w].id = built + 1 /\ entry'[w].previous_hash = last_hash
         /\ DOMAIN entry' = Writers
         /\ \A v \in Writers \ {w} : entry'[v] = entry[v]
    BY <1>2 DEF Build, Shape, AuditEntry
  <2>02. built \in 0..MaxEntries /\ built' \in 0..MaxEntries
    BY <2>0 DEF TypeOK, EntryIds
  <2>1. TypeOK'
    BY <1>0, <2>0, <2>01, <2>02 DEF TypeOK
  <2>2. Shape'
    BY <2>0, <2>01 DEF Shape
  <2>3. OwnIds'
    <3>1. \A v \in Writers : pc[v] # "idle" => entry[v].id < built + 1
      BY <2>02 DEF TypeOK
    <3>2. \A i \in 1..Len(entries) : entries[i].id < built + 1
      BY <2>02 DEF TypeOK
    <3>3. details[built + 1] = 0
      BY <2>0, <2>02 DEF OwnIds
    <3>4. (\A u, v \in Writers :
             u # v /\ pc[u] # "idle" /\ pc[v] # "idle" => entry[u].id # entry[v].id)'
      BY <2>0, <2>01, <2>02, <3>1 DEF OwnIds, TypeOK
    <3>5. (\A v \in Writers : pc[v] = "built" =>
             \A i \in 1..Len(entries) : entries[i].id # entry[v].id)'
      BY <1>0, <2>0, <2>01, <2>02, <3>2 DEF OwnIds, TypeOK
    <3>6. (\A v \in Writers : pc[v] = "appended" =>
             \E i \in 1..Len(entries) : entries[i] = entry[v])'
      BY <2>0, <2>01 DEF OwnIds, TypeOK
    <3>7. (\A v \in Writers : pc[v] \in {"built", "appended"} => details[entry[v].id] = 0)'
      BY <2>0, <2>01, <3>3 DEF OwnIds, TypeOK
    <3>8. (\A k \in EntryIds : k > built => details[k] = 0)'
      BY <2>0, <2>02 DEF OwnIds, EntryIds
    <3> QED
      BY <3>4, <3>5, <3>6, <3>7, <3>8 DEF OwnIds
  <2>4. LinksPointBack'
    BY <2>0 DEF LinksPointBack, LoggedHash
  <2>5. LinksReady'
    <3>1. \A h : LinksTo(h, Len(entries)) =>
            h = Genesis \/ \E j \in 1..Len(entries)' : h = LoggedHash(entries'[j])
      BY <2>0 DEF LinksTo
    <3>2. ASSUME NEW v \in Writers, pc'[v] = "built"
          PROVE  LinksTo(entry'[v].previous_hash, Len(entries))
      <4>1. CASE v = w
        BY <2>01, <4>1 DEF LinksReady
      <4>2. CASE v # w
        BY <2>0, <2>01, <3>2, <4>2 DEF LinksReady, TypeOK
      <4> QED
        BY <4>1, <4>2
    <3> QED
      BY <2>0, <3>1, <3>2 DEF LinksReady, LinksTo, LoggedHash
  <2> QED
    BY <2>1, <2>2, <2>3, <2>4, <2>5
<1>3. ASSUME NEW w \in Writers, AppendEntry(w) PROVE LInv'
  <2>0. /\ \E S : entries' \in Seq(S)
        /\ Len(entries') = Len(entries) + 1
        /\ \A i \in 1..Len(entries) : entries'[i] = entries[i]
        /\ entries'[Len(entries) + 1] = entry[w]
    BY <1>3, Appended
  <2>01. /\ pc[w] = "built" /\ pc' = [pc EXCEPT ![w] = "appended"]
         /\ UNCHANGED <<wiring, last_hash, details, built, entry>>
    BY <1>3 DEF AppendEntry
  <2>1. TypeOK' /\ Shape'
    BY <1>0, <2>0, <2>01, SMTT(30) DEF TypeOK, Shape, EntryIds
  <2>2. OwnIds'
    BY <1>0, <2>0, <2>01, SMTT(30) DEF OwnIds, TypeOK, Shape, EntryIds
  <2>3. \A h : \A n \in 0..Len(entries) : LinksTo(h, n) =>
          h = Genesis \/ \E j \in 1..n : h = LoggedHash(entries'[j])
    BY <1>0, <2>0 DEF LinksTo, LoggedHash
  <2>4. LinksReady'
    <3>1. LinksTo(last_hash, Len(entries))'
      BY <1>0, <2>0, <2>01, <2>3 DEF LinksReady, LinksTo, LoggedHash
    <3>2. ASSUME NEW v \in Writers, pc'[v] = "built"
          PROVE  LinksTo(entry[v].previous_hash, Len(entries))'
      <4>1. pc[v] = "built" /\ entry'[v] = entry[v]
        BY <2>01, <3>2 DEF TypeOK
      <4>2. LinksTo(entry[v].previous_hash, Len(entries))
        BY <4>1 DEF LinksReady
      <4> QED
        BY <1>0, <2>0, <2>3, <4>1, <4>2 DEF LinksTo, LoggedHash
    <3> QED
      BY <3>1, <3>2 DEF LinksReady
  <2>5. LinksPointBack'
    <3>1. LinksTo(entry[w].previous_hash, Len(entries))
      BY <2>01 DEF LinksReady
    <3>2. ASSUME NEW i \in 1..Len(entries)'
          PROVE  \/ entries'[i].previous_hash = Genesis
                 \/ \E j \in 1..(i - 1) :
                      entries'[i].previous_hash = LoggedHash(entries'[j])
      <4>1. CASE i = Len(entries) + 1
        BY <1>0, <2>0, <2>3, <3>1, <4>1
      <4>2. CASE i \in 1..Len(entries)
        <5>1. LinksTo(entries[i].previous_hash, i - 1) /\ i - 1 \in 0..Len(entries)
          BY <1>0, <4>2 DEF LinksPointBack, LinksTo
        <5> QED
          BY <1>0, <2>0, <2>3, <4>2, <5>1
      <4> QED
        BY <1>0, <2>0, <4>1, <4>2
    <3>3. \A i, j \in 1..Len(entries)' : i # j => entries'[i].id # entries'[j].id
      BY <1>0, <2>0, <2>01 DEF LinksPointBack, OwnIds
    <3> QED
      BY <3>2, <3>3 DEF LinksPointBack, LoggedHash
  <2> QED
    BY <2>1, <2>2, <2>4, <2>5
<1>4. ASSUME NEW w \in Writers, SetLastHash(w) PROVE LInv'
  <2>1. TypeOK' /\ Shape'
    BY <1>4 DEF SetLastHash, TypeOK, Shape
  <2>2. OwnIds'
    BY <1>4 DEF SetLastHash, OwnIds, TypeOK
  <2>3. LinksTo(last_hash, Len(entries))'
    BY <1>4 DEF SetLastHash, OwnIds, LinksTo, LoggedHash, compute_hash
  <2>4. LinksReady' /\ LinksPointBack'
    BY <1>4, <2>3 DEF SetLastHash, LinksReady, LinksTo, LoggedHash, LinksPointBack, TypeOK
  <2> QED
    BY <2>1, <2>2, <2>4
<1>5. ASSUME NEW w \in Writers, WriteDetails(w) PROVE LInv'
  <2>1. TypeOK' /\ Shape'
    BY <1>5 DEF WriteDetails, TypeOK, Shape, EntryIds
  <2>2. OwnIds'
    BY <1>5 DEF WriteDetails, OwnIds, TypeOK, Shape, EntryIds
  <2>3. LinksReady' /\ LinksPointBack'
    BY <1>5 DEF WriteDetails, LinksReady, LinksTo, LoggedHash, LinksPointBack, TypeOK
  <2> QED
    BY <2>1, <2>2, <2>3
<1> QED
  BY <1>1, <1>2, <1>3, <1>4, <1>5 DEF Next

\* The logger and its callers keep their types.
THEOREM TypeCorrect == Spec => []TypeOK
<1>1. LInv => TypeOK
  BY DEF LInv
<1> QED
  BY InitLInv, NextLInv, <1>1, PTL DEF Spec

\* Whatever threads share the logger and whatever callers write to what they have
\* logged, every entry links to the start or to an entry before it, and none is
\* logged twice.
THEOREM LinksAlwaysPointBack == Spec => []LinksPointBack
<1>1. LInv => LinksPointBack
  BY DEF LInv
<1> QED
  BY InitLInv, NextLInv, <1>1, PTL DEF Spec

-----------------------------------------------------------------------------
(* The chain of a logger on one event loop whose callers leave the details *)
(* alone.                                                                  *)

\* The hash the entry after the first n links to.
HashAt(n) == IF n = 0 THEN Genesis ELSE LoggedHash(entries[n])

\* Nobody writes, one caller at a time is inside log(), the links are those of the
\* logged hashes, and what that caller has read or appended is the head.
Linked ==
  /\ \A k \in EntryIds : details[k] = 0
  /\ \A v, w \in Writers : pc[v] # "idle" /\ pc[w] # "idle" => v = w
  /\ \A w \in Writers : pc[w] # "returned"
  /\ \A i \in 1..Len(entries) : entries[i].previous_hash = HashAt(i - 1)
  /\ (\A w \in Writers : pc[w] # "appended") => last_hash = HashAt(Len(entries))
  /\ \A w \in Writers : pc[w] = "built" => entry[w].previous_hash = last_hash
  /\ \A w \in Writers : pc[w] = "appended" =>
       Len(entries) # 0 /\ entries[Len(entries)] = entry[w]

\* The strengthening of ChainIntact.
CInv == WellUsed => Linked

LEMMA InitCInv == Init => CInv
<1> SUFFICES ASSUME Init PROVE Linked
  BY DEF CInv
<1>1. Len(entries) = 0
  BY DEF Init
<1> QED
  BY <1>1 DEF Init, Linked, HashAt, EntryIds

LEMMA NextCInv == LInv /\ CInv /\ [Next]_vars => CInv'
<1> SUFFICES ASSUME LInv, CInv, [Next]_vars, WellUsed' PROVE Linked'
  BY DEF CInv
<1>0. Len(entries) \in Nat
  BY DEF LInv, Shape
<1>01. WellUsed /\ wiring' = wiring
  BY DEF WellUsed, Next, vars, Build, AppendEntry, SetLastHash, WriteDetails
<1>02. Linked
  BY <1>01 DEF CInv
<1>1. CASE UNCHANGED vars
  BY <1>1, <1>02 DEF vars, Linked, HashAt, LoggedHash
<1>2. ASSUME NEW w \in Writers, Build(w) PROVE Linked'
  <2>1. /\ \A v \in Writers : pc[v] = "idle"
        /\ pc' = [pc EXCEPT ![w] = "built"] /\ UNCHANGED <<entries, last_hash, details>>
        /\ entry'[w].previous_hash = last_hash
    BY <1>2, <1>01 DEF WellUsed, Build, AuditEntry, LInv, Shape
  <2>2. \A n : HashAt(n)' = HashAt(n)
    BY <2>1 DEF HashAt, LoggedHash
  <2> QED
    BY <1>02, <2>1, <2>2 DEF Linked, LInv, TypeOK
<1>3. ASSUME NEW w \in Writers, AppendEntry(w) PROVE Linked'
  <2>1. /\ Len(entries') = Len(entries) + 1
        /\ \A i \in 1..Len(entries) : entries'[i] = entries[i]
        /\ entries'[Len(entries) + 1] = entry[w]
    BY <1>3, Appended DEF LInv
  <2>2. /\ pc[w] = "built" /\ pc' = [pc EXCEPT ![w] = "appended"]
        /\ UNCHANGED <<last_hash, details, entry>>
    BY <1>3 DEF AppendEntry
  <2>3. /\ \A v \in Writers \ {w} : pc[v] = "idle" /\ pc'[v] = "idle"
        /\ pc'[w] = "appended"
    BY <1>02, <2>2 DEF Linked, LInv, TypeOK
  <2>4. \A n \in 0..Len(entries) : HashAt(n)' = HashAt(n)
    BY <1>0, <2>1 DEF HashAt, LoggedHash
  <2>5. entry[w].previous_hash = HashAt(Len(entries))
    BY <1>02, <2>2, <2>3 DEF Linked
  <2>6. \A i \in 1..Len(entries)' : entries'[i].previous_hash = HashAt(i - 1)'
    <3> SUFFICES ASSUME NEW i \in 1..Len(entries)'
                 PROVE  entries'[i].previous_hash = HashAt(i - 1)'
      OBVIOUS
    <3>1. CASE i = Len(entries) + 1
      <4>1. i - 1 = Len(entries)
        BY <1>0, <3>1
      <4> QED
        BY <1>0, <2>1, <2>4, <2>5, <3>1, <4>1
    <3>2. CASE i \in 1..Len(entries)
      <4>1. i - 1 \in 0..Len(entries)
        BY <1>0, <3>2
      <4> QED
        BY <1>02, <2>1, <2>4, <3>2, <4>1 DEF Linked
    <3> QED
      BY <1>0, <2>1, <3>1, <3>2
  <2>7. Len(entries') # 0 /\ entries'[Len(entries')] = entry[w]
    BY <1>0, <2>1
  <2> QED
    BY <1>02, <2>2, <2>3, <2>6, <2>7 DEF Linked
<1>4. ASSUME NEW w \in Writers, SetLastHash(w) PROVE Linked'
  <2>1. /\ pc[w] = "appended" /\ pc' = [pc EXCEPT ![w] = "idle"]
        /\ UNCHANGED <<entries, details, entry>>
        /\ last_hash' = compute_hash(entry[w])
    BY <1>4, <1>01 DEF WellUsed, SetLastHash
  <2>2. \A v \in Writers : pc'[v] = "idle"
    BY <1>02, <2>1 DEF Linked, LInv, TypeOK
  <2>3. entry[w].id \in EntryIds
    BY <2>1, LogAssumption DEF LInv, TypeOK, EntryIds
  <2>4. last_hash' = HashAt(Len(entries))
    <3>1. entries[Len(entries)] = entry[w] /\ Len(entries) # 0
      BY <1>02, <2>1 DEF Linked
    <3>2. details[entry[w].id] = 0
      BY <1>02, <2>3 DEF Linked
    <3> QED
      BY <2>1, <3>1, <3>2 DEF HashAt, LoggedHash, compute_hash
  <2>5. \A n : HashAt(n)' = HashAt(n)
    BY <2>1 DEF HashAt, LoggedHash
  <2> QED
    BY <1>02, <2>1, <2>2, <2>4, <2>5 DEF Linked
<1>5. ASSUME NEW w \in Writers, WriteDetails(w) PROVE Linked'
  BY <1>5, <1>02 DEF Linked, WriteDetails
<1> QED
  BY <1>1, <1>2, <1>3, <1>4, <1>5 DEF Next

\* On one event loop, with callers that leave logged details alone, the chain
\* verifies at every moment, also between two statements of log().
THEOREM ChainAlwaysIntact == Spec => []ChainIntact
<1>1. LInv /\ CInv => ChainIntact
  <2> SUFFICES ASSUME LInv, Linked, NEW i \in 1..Len(entries)
               PROVE  entries[i].previous_hash = ExpectedLink(i)
    BY DEF CInv, WellUsed, ChainIntact, verify_chain_integrity
  <2>1. entries[i].previous_hash = HashAt(i - 1)
    BY DEF Linked
  <2>2. CASE i = 1
    BY <2>1, <2>2 DEF HashAt, ExpectedLink
  <2>3. CASE i # 1
    <3>1. Len(entries) \in Nat
      BY DEF LInv, Shape
    <3>2. i - 1 \in 1..Len(entries) /\ i - 1 # 0
      BY <2>3, <3>1
    <3>3. details[entries[i - 1].id] = 0
      BY <3>2, LogAssumption DEF LInv, TypeOK, EntryIds, Linked
    <3> QED
      BY <2>1, <2>3, <3>2, <3>3 DEF HashAt, ExpectedLink, LoggedHash, compute_hash
  <2> QED
    BY <2>2, <2>3
<1> QED
  BY InitLInv, NextLInv, InitCInv, NextCInv, <1>1, PTL DEF Spec

-----------------------------------------------------------------------------
(* Rows, and the links between them.                                       *)

\* A row has the fields of Row.
IsRow(r) ==
  r = [id |-> r.id, writer |-> r.writer, details |-> r.details,
       previous_hash |-> r.previous_hash]

IsDump(s) == (\E S : s \in Seq(S)) /\ \A i \in 1..Len(s) : IsRow(s[i])

\* The hash of the first n rows of s.
HashOf(s, n) == IF n = 0 THEN Genesis ELSE RowHash(s[n])

\* Every row links to the one before it.
Chained(s) == \A i \in 1..Len(s) : s[i].previous_hash = HashOf(s, i - 1)

\* A row is what its hash says, and no hash is the empty one.
LEMMA RowHashInjective ==
  ASSUME NEW q, NEW r, IsRow(q), IsRow(r), RowHash(q) = RowHash(r)
  PROVE  q = r
  BY DEF IsRow, RowHash

LEMMA RowHashNotGenesis == \A r : RowHash(r) # Genesis
  BY DEF RowHash, Genesis

\* HeadHash of a prefix, as BrokenLinks uses it.
LEMMA PrefixHash ==
  ASSUME NEW S, NEW s \in Seq(S), NEW n \in 0..Len(s)
  PROVE  HeadHash(SubSeq(s, 1, n)) = HashOf(s, n)
<1>1. CASE n = 0
  BY <1>1 DEF HeadHash, HashOf
<1>2. CASE n # 0
  <2>1. /\ SubSeq(s, 1, n) # <<>> /\ Len(SubSeq(s, 1, n)) = n
        /\ SubSeq(s, 1, n)[n] = s[n]
    BY <1>2
  <2> QED
    BY <1>2, <2>1 DEF HeadHash, HashOf, Last
<1> QED
  BY <1>1, <1>2

LEMMA HeadOfDump ==
  ASSUME NEW S, NEW s \in Seq(S)
  PROVE  Len(s) \in Nat /\ HeadHash(s) = HashOf(s, Len(s)) /\ (s = <<>> <=> Len(s) = 0)
  BY DEF HeadHash, HashOf, Last

\* Position i (from 0) is broken if row i + 1 does not link to the i rows before.
LEMMA BrokenAt ==
  ASSUME NEW S, NEW s \in Seq(S), NEW i \in Int
  PROVE  i \in BrokenLinks(s) <=>
           i \in 0..(Len(s) - 1) /\ s[i + 1].previous_hash # HashOf(s, i)
<1>1. ASSUME i \in 0..(Len(s) - 1) PROVE HeadHash(SubSeq(s, 1, i)) = HashOf(s, i)
  <2>1. i \in 0..Len(s)
    BY <1>1
  <2> QED
    BY <2>1, PrefixHash
<1> QED
  BY <1>1 DEF BrokenLinks

LEMMA ChainedIsUnbroken ==
  ASSUME NEW S, NEW s \in Seq(S)
  PROVE  BrokenLinks(s) = {} <=> Chained(s)
<1>1. ASSUME Chained(s), NEW i \in BrokenLinks(s) PROVE FALSE
  <2>1. i \in Int
    BY DEF BrokenLinks
  <2>2. i \in 0..(Len(s) - 1) /\ s[i + 1].previous_hash # HashOf(s, i)
    BY <1>1, <2>1, BrokenAt
  <2>3. i + 1 \in 1..Len(s) /\ (i + 1) - 1 = i
    BY <2>2
  <2> QED
    BY <1>1, <2>2, <2>3 DEF Chained
<1>2. ASSUME BrokenLinks(s) = {}, NEW i \in 1..Len(s)
      PROVE  s[i].previous_hash = HashOf(s, i - 1)
  <2>1. i - 1 \in Int /\ i - 1 \in 0..(Len(s) - 1) /\ (i - 1) + 1 = i
    OBVIOUS
  <2> QED
    BY <1>2, <2>1, BrokenAt
<1> QED
  BY <1>1, <1>2 DEF Chained

\* What verify_chain answers.
LEMMA IntactMeans ==
  ASSUME NEW S, NEW s \in Seq(S), NEW head
  PROVE  verify_chain(s, head).verdict = "intact" <=>
           Chained(s) /\ (head # Genesis /\ s # <<>> => HeadHash(s) = head)
  BY ChainedIsUnbroken DEF verify_chain, Intact, Tampered

\* Two chains with one head are one chain: going back from the head, equal hashes
\* are of equal rows, whose links are equal hashes; the shorter one would end in a
\* row that links to the start and to another row.
LEMMA OneHeadOneChain ==
  ASSUME NEW s, NEW t, IsDump(s), IsDump(t), Chained(s), Chained(t),
         s # <<>>, t # <<>>, HeadHash(s) = HeadHash(t)
  PROVE  s = t
<1>1. PICK S : s \in Seq(S)
  BY DEF IsDump
<1>2. PICK T : t \in Seq(T)
  BY DEF IsDump
<1> DEFINE m == Len(s)
           n == Len(t)
<1>3. m \in Nat /\ n \in Nat /\ m > 0 /\ n > 0 /\ RowHash(s[m]) = RowHash(t[n])
  BY <1>1, <1>2, HeadOfDump DEF HashOf
<1>31. /\ \A i \in 1..m : IsRow(s[i]) /\ s[i].previous_hash = HashOf(s, i - 1)
       /\ \A i \in 1..n : IsRow(t[i]) /\ t[i].previous_hash = HashOf(t, i - 1)
  BY DEF IsDump, Chained
<1> HIDE DEF m, n
<1> DEFINE Differ == {k \in Nat : k < m /\ k < n /\ s[m - k] # t[n - k]}
<1>4. Differ = {}
  <2> SUFFICES ASSUME Differ # {} PROVE FALSE
    OBVIOUS
  <2>1. PICK k \in Differ : \A j \in Differ : k <= j
    BY LeastNat
  <2>2. k \in Nat /\ m - k \in 1..m /\ n - k \in 1..n
    BY <1>3, <2>1
  <2>3. CASE k = 0
    <3>1. s[m] # t[n] /\ m \in 1..m /\ n \in 1..n
      BY <1>3, <2>1, <2>3
    <3>2. IsRow(s[m]) /\ IsRow(t[n])
      BY <1>31, <3>1
    <3> QED
      BY <1>3, <3>1, <3>2, RowHashInjective
  <2>4. CASE k # 0
    <3>1. k - 1 \in Nat /\ k - 1 \notin Differ
      BY <2>1, <2>2, <2>4
    <3>2. s[m - (k - 1)] = t[n - (k - 1)]
      BY <1>3, <2>1, <2>2, <3>1
    <3>3. /\ m - (k - 1) \in 1..m /\ n - (k - 1) \in 1..n
          /\ (m - (k - 1)) - 1 = m - k /\ (n - (k - 1)) - 1 = n - k
          /\ m - k # 0 /\ n - k # 0
      BY <1>3, <2>1, <2>2, <2>4
    <3>4. HashOf(s, m - k) = HashOf(t, n - k)
      BY <1>31, <3>2, <3>3
    <3>5. RowHash(s[m - k]) = RowHash(t[n - k])
      BY <3>3, <3>4 DEF HashOf
    <3>6. s[m - k] = t[n - k]
      BY <1>31, <2>2, <3>5, RowHashInjective
    <3> QED
      BY <2>1, <3>6
  <2> QED
    BY <2>3, <2>4
<1>5. \A k \in Nat : k < m /\ k < n => s[m - k] = t[n - k]
  BY <1>4
<1>6. ~ (m < n)
  <2> SUFFICES ASSUME m < n PROVE FALSE
    OBVIOUS
  <2>1. s[1] = t[n - (m - 1)]
    <3>1. m - 1 \in Nat /\ m - 1 < m /\ m - 1 < n /\ m - (m - 1) = 1
      BY <1>3
    <3> QED
      BY <1>5, <3>1
  <2>2. 1 \in 1..m /\ n - (m - 1) \in 1..n /\ (n - (m - 1)) - 1 # 0 /\ 1 - 1 = 0
    BY <1>3
  <2>3. HashOf(s, 0) = HashOf(t, (n - (m - 1)) - 1)
    BY <1>31, <2>1, <2>2
  <2> QED
    BY <2>2, <2>3, RowHashNotGenesis DEF HashOf
<1>7. ~ (n < m)
  <2> SUFFICES ASSUME n < m PROVE FALSE
    OBVIOUS
  <2>1. t[1] = s[m - (n - 1)]
    <3>1. n - 1 \in Nat /\ n - 1 < n /\ n - 1 < m /\ n - (n - 1) = 1
      BY <1>3
    <3> QED
      BY <1>5, <3>1
  <2>2. 1 \in 1..n /\ m - (n - 1) \in 1..m /\ (m - (n - 1)) - 1 # 0 /\ 1 - 1 = 0
    BY <1>3
  <2>3. HashOf(t, 0) = HashOf(s, (m - (n - 1)) - 1)
    BY <1>31, <2>1, <2>2
  <2> QED
    BY <2>2, <2>3, RowHashNotGenesis DEF HashOf
<1>8. m = n
  BY <1>3, <1>6, <1>7
<1>9. ASSUME NEW i \in 1..m PROVE s[i] = t[i]
  <2>1. m - i \in Nat /\ m - i < m /\ m - (m - i) = i
    BY <1>3
  <2> QED
    BY <1>5, <1>8, <2>1
<1> QED
  BY <1>1, <1>2, <1>8, <1>9 DEF m, n

-----------------------------------------------------------------------------
(* The log underneath, and the dumps made of it.                           *)

LEMMA VerifierStepsLog == VerifierNext => [Next]_vars
  BY DEF VerifierNext, Export, Checkpoint, ModifyRow, DeleteRow, SwapRows, RelinkRow,
         Edit, vars

\* The log only grows, and details are only written to.
LEMMA LogGrows ==
  ASSUME LInv, [Next]_vars
  PROVE  /\ Len(entries) \in Nat /\ Len(entries)' \in Nat /\ Len(entries) <= Len(entries)'
         /\ \A i \in 1..Len(entries) : entries'[i] = entries[i]
         /\ \A k \in EntryIds : details[k] \in Nat /\ details[k] <= details'[k]
<1>0. Len(entries) \in Nat /\ \A k \in EntryIds : details[k] \in Nat
  BY DEF LInv, Shape, TypeOK
<1>1. CASE UNCHANGED vars
  BY <1>0, <1>1 DEF vars
<1>2. ASSUME NEW w \in Writers, AppendEntry(w) PROVE UNCHANGED details
  BY <1>2 DEF AppendEntry
<1>3. ASSUME NEW w \in Writers, AppendEntry(w)
      PROVE  Len(entries)' = Len(entries) + 1 /\ \A i \in 1..Len(entries) : entries'[i] = entries[i]
  BY <1>3, Appended DEF LInv
<1>4. ASSUME NEW w \in Writers, WriteDetails(w)
      PROVE  UNCHANGED entries /\ \A k \in EntryIds : details[k] <= details'[k]
  BY <1>0, <1>4 DEF WriteDetails, LInv, TypeOK
<1>5. ASSUME NEW w \in Writers, Build(w) \/ SetLastHash(w) PROVE UNCHANGED <<entries, details>>
  BY <1>5 DEF Build, SetLastHash
<1> QED
  BY <1>0, <1>1, <1>2, <1>3, <1>4, <1>5 DEF Next

LEMMA RowFacts ==
  \A e : /\ IsRow(Row(e)) /\ Row(e).previous_hash = e.previous_hash
         /\ Row(e).id = e.id /\ Row(e).writer = e.writer
         /\ Row(e).details = details[e.id]
         /\ RowHash(Row(e)) = <<e.id, e.writer, details[e.id], e.previous_hash>>
  BY DEF Row, IsRow, RowHash

\* A dump has a row for every entry, in order.
LEMMA DumpFacts ==
  ASSUME LInv
  PROVE  /\ IsDump(Dump) /\ Len(Dump) = Len(entries) /\ Len(entries) \in Nat
         /\ \A i \in 1..Len(entries) : Dump[i] = Row(entries[i])
<1>1. Len(entries) \in Nat
  BY DEF LInv, Shape
<1>2. Dump \in Seq({Row(entries[i]) : i \in 1..Len(entries)}) /\ Len(Dump) = Len(entries)
  BY <1>1 DEF Dump
<1>3. \A i \in 1..Len(entries) : Dump[i] = Row(entries[i])
  BY DEF Dump
<1> QED
  BY <1>1, <1>2, <1>3, RowFacts DEF IsDump

-----------------------------------------------------------------------------
(* Exact with a checkpoint.                                                *)

\* The rows are rows, whatever was altered; nothing is read before it was dumped; and
\* a dump of a well-used log is a chain.
DumpInv ==
  /\ IsDump(rows) /\ IsDump(exported)
  /\ exported = <<>> => rows = <<>>
  /\ WellUsed => Chained(exported)

\* The strengthening of the theorems below.
VInv == LInv /\ CInv /\ DumpInv

\* An altered dump is a dump.
LEMMA EditsKeepRows ==
  ASSUME DumpInv, NEW i \in 1..Len(rows),
         ModifyRow(i) \/ DeleteRow(i) \/ SwapRows(i) \/ RelinkRow(i)
  PROVE  IsDump(rows') /\ rows # <<>> /\ UNCHANGED <<vars, exported, witness>>
<1>1. PICK S : rows \in Seq(S)
  BY DEF DumpInv, IsDump
<1>2. rows # <<>> /\ IsRow(rows[i])
  BY <1>1 DEF DumpInv, IsDump
<1>3. UNCHANGED <<vars, exported, witness>>
  BY DEF ModifyRow, DeleteRow, SwapRows, RelinkRow, Edit
<1>4. CASE ModifyRow(i)
  <2>1. PICK w : rows' = [rows EXCEPT ![i].writer = w]
    BY <1>4 DEF ModifyRow, Edit
  <2> DEFINE r == [rows[i] EXCEPT !.writer = w]
  <2>2. IsRow(r)
    BY <1>2 DEF IsRow
  <2>3. rows' = [rows EXCEPT ![i] = r]
    BY <2>1
  <2> HIDE DEF r
  <2>4. rows' \in Seq(S \cup {r}) /\ Len(rows') = Len(rows)
        /\ \A j \in 1..Len(rows) : rows'[j] \in {r, rows[j]}
    BY <1>1, <2>3
  <2> QED
    BY <1>2, <1>3, <2>2, <2>4 DEF DumpInv, IsDump
<1>5. CASE RelinkRow(i)
  <2>1. PICK h : rows' = [rows EXCEPT ![i].previous_hash = h]
    BY <1>5 DEF RelinkRow, Edit
  <2> DEFINE r == [rows[i] EXCEPT !.previous_hash = h]
  <2>2. IsRow(r)
    BY <1>2 DEF IsRow
  <2>3. rows' = [rows EXCEPT ![i] = r]
    BY <2>1
  <2> HIDE DEF r
  <2>4. rows' \in Seq(S \cup {r}) /\ Len(rows') = Len(rows)
        /\ \A j \in 1..Len(rows) : rows'[j] \in {r, rows[j]}
    BY <1>1, <2>3
  <2> QED
    BY <1>2, <1>3, <2>2, <2>4 DEF DumpInv, IsDump
<1>6. CASE DeleteRow(i)
  <2>1. rows' = RemoveAt(rows, i)
    BY <1>6 DEF DeleteRow, Edit
  <2>2. /\ rows' \in Seq(S) /\ Len(rows') = Len(rows) - 1
        /\ \A j \in 1..(Len(rows) - 1) : rows'[j] = IF j < i THEN rows[j] ELSE rows[j + 1]
    BY <1>1, <2>1, RemoveAtFacts
  <2>3. \A j \in 1..(Len(rows) - 1) : j \in 1..Len(rows) /\ j + 1 \in 1..Len(rows)
    BY <1>1
  <2> QED
    BY <1>2, <1>3, <2>2, <2>3 DEF DumpInv, IsDump
<1>7. CASE SwapRows(i)
  <2>1. i + 1 \in 1..Len(rows)
    BY <1>1, <1>7 DEF SwapRows
  <2>2. rows' = [rows EXCEPT ![i] = rows[i + 1], ![i + 1] = rows[i]]
    BY <1>7 DEF SwapRows, Edit
  <2>3. /\ rows' \in Seq(S) /\ Len(rows') = Len(rows)
        /\ \A j \in 1..Len(rows) : rows'[j] \in {rows[i], rows[i + 1], rows[j]}
    BY <1>1, <2>1, <2>2
  <2> QED
    BY <1>2, <1>3, <2>1, <2>3 DEF DumpInv, IsDump
<1> QED
  BY <1>4, <1>5, <1>6, <1>7

\* What the log of one event loop gives a dump.
LEMMA DumpIsChained ==
  ASSUME LInv, Linked
  PROVE  Chained(Dump)
<1>1. /\ Len(Dump) = Len(entries) /\ Len(entries) \in Nat
      /\ \A i \in 1..Len(entries) : Dump[i] = Row(entries[i])
  BY DumpFacts
<1>2. \A i \in 1..Len(entries) : details[entries[i].id] = 0
  BY LogAssumption DEF LInv, TypeOK, EntryIds, Linked
<1>3. \A i \in 1..Len(entries) : RowHash(Dump[i]) = LoggedHash(entries[i])
  BY <1>1, <1>2, RowFacts DEF LoggedHash
<1>4. \A n \in 0..Len(entries) : HashOf(Dump, n) = HashAt(n)
  BY <1>1, <1>3 DEF HashOf, HashAt
<1>5. ASSUME NEW i \in 1..Len(Dump)
      PROVE  Dump[i].previous_hash = HashOf(Dump, i - 1)
  <2>1. i \in 1..Len(entries) /\ i - 1 \in 0..Len(entries)
    BY <1>1
  <2>2. Dump[i].previous_hash = entries[i].previous_hash
    BY <1>1, <2>1, RowFacts
  <2> QED
    BY <1>4, <2>1, <2>2 DEF Linked
<1> QED
  BY <1>5 DEF Chained

LEMMA InitVInv == VerifierInit => VInv
<1> SUFFICES ASSUME VerifierInit PROVE VInv
  OBVIOUS
<1>1. LInv /\ CInv
  BY InitLInv, InitCInv DEF VerifierInit
<1>2. IsDump(<<>>) /\ Chained(<<>>)
  <2>1. <<>> \in Seq({}) /\ Len(<<>>) = 0
    OBVIOUS
  <2> QED
    BY <2>1 DEF IsDump, Chained
<1> QED
  BY <1>1, <1>2 DEF VerifierInit, VInv, DumpInv

LEMMA NextVInv == VInv /\ [VerifierNext]_allVars => VInv'
<1> SUFFICES ASSUME VInv, [VerifierNext]_allVars PROVE VInv'
  OBVIOUS
<1>1. LInv /\ CInv /\ DumpInv
  BY DEF VInv
<1>2. [Next]_vars
  BY VerifierStepsLog DEF allVars, vars
<1>3. LInv' /\ CInv'
  BY <1>1, <1>2, NextLInv, NextCInv
<1>4. WellUsed' => WellUsed
  BY <1>2 DEF WellUsed, Next, vars, Build, AppendEntry, SetLastHash, WriteDetails
<1>5. ASSUME UNCHANGED dump PROVE DumpInv'
  <2>1. UNCHANGED <<exported, rows>>
    BY <1>5 DEF dump
  <2> QED
    BY <1>1, <1>4, <2>1 DEF DumpInv, IsDump, Chained, HashOf
<1>6. CASE UNCHANGED allVars
  BY <1>5, <1>6, <1>3 DEF allVars, VInv
<1>7. CASE edits = <<>> /\ Next /\ UNCHANGED dump
  BY <1>5, <1>7, <1>3 DEF VInv
<1>8. CASE Export
  <2>1. exported' = Dump /\ rows' = Dump /\ UNCHANGED vars
    BY <1>8 DEF Export
  <2>2. IsDump(Dump) /\ (WellUsed => Chained(Dump))
    BY <1>1, DumpFacts, DumpIsChained DEF CInv
  <2>3. IsDump(rows') /\ IsDump(exported') /\ (WellUsed' => Chained(exported'))
    BY <1>4, <2>1, <2>2
  <2> QED
    BY <1>3, <2>1, <2>3 DEF VInv, DumpInv, IsDump, Chained, HashOf
<1>9. CASE Checkpoint
  <2>1. UNCHANGED <<exported, rows>>
    BY <1>9 DEF Checkpoint
  <2> QED
    BY <1>1, <1>3, <1>4, <2>1 DEF VInv, DumpInv, IsDump, Chained, HashOf
<1>10. ASSUME NEW i \in 1..Len(rows),
              ModifyRow(i) \/ DeleteRow(i) \/ SwapRows(i) \/ RelinkRow(i)
       PROVE  VInv'
  <2>1. IsDump(rows') /\ rows # <<>> /\ UNCHANGED exported
    BY <1>1, <1>10, EditsKeepRows
  <2> QED
    BY <1>1, <1>3, <1>4, <2>1 DEF VInv, DumpInv, IsDump, Chained, HashOf
<1> QED
  BY <1>6, <1>7, <1>8, <1>9, <1>10 DEF VerifierNext

\* With the head of the dump as checkpoint, verify_chain reports a non-empty dump of a
\* well-used log intact if and only if it is the dump that was made: whatever was
\* modified, deleted, swapped or relinked, however often.
THEOREM CheckpointIsExact == VerifierSpec => []ExactWithCheckpoint
<1>1. VInv => ExactWithCheckpoint
  <2> SUFFICES ASSUME VInv, WellUsed, witness = HeadHash(exported), rows # <<>>
               PROVE  verify_chain(rows, witness).verdict = "intact" <=> rows = exported
    BY DEF ExactWithCheckpoint, Report
  <2>1. /\ IsDump(rows) /\ IsDump(exported) /\ Chained(exported) /\ exported # <<>>
    BY DEF VInv, DumpInv
  <2>2. witness # Genesis
    BY <2>1, RowHashNotGenesis DEF HeadHash
  <2>3. verify_chain(rows, witness).verdict = "intact" <=>
          Chained(rows) /\ HeadHash(rows) = HeadHash(exported)
    BY <2>1, <2>2, IntactMeans DEF IsDump
  <2>4. ASSUME Chained(rows), HeadHash(rows) = HeadHash(exported) PROVE rows = exported
    BY <2>1, <2>4, OneHeadOneChain
  <2> QED
    BY <2>1, <2>3, <2>4
<1> QED
  BY InitVInv, NextVInv, <1>1, PTL DEF VerifierSpec

-----------------------------------------------------------------------------
(* One alteration, located.                                                *)

\* The rows of a dump have ids of their own, and one alteration leaves what that
\* alteration of the dump gives.
EditInv ==
  /\ \A i, j \in 1..Len(exported) : i # j => exported[i].id # exported[j].id
  /\ \E S : edits \in Seq(S)
  /\ edits = <<>> => rows = exported
  /\ Len(edits) = 1 =>
       \E i \in 1..Len(exported) :
         \/ edits[1] = <<"modified", i - 1>> /\ \E w \in Writers \ {exported[i].writer} :
              rows = [exported EXCEPT ![i].writer = w]
         \/ edits[1] = <<"deleted", i - 1>> /\ rows = RemoveAt(exported, i)
         \/ /\ edits[1] = <<"swapped", i - 1>> /\ i < Len(exported)
            /\ rows = [exported EXCEPT ![i] = exported[i + 1], ![i + 1] = exported[i]]
         \/ edits[1] = <<"relinked", i - 1>>

\* An alteration adds itself to the history; the first one finds the dump.
LEMMA EditIsRecorded ==
  ASSUME EditInv, NEW kind, NEW i \in 1..Len(rows), NEW s, Edit(kind, i - 1, s)
  PROVE  /\ \E S : edits' \in Seq(S)
         /\ edits' # <<>> /\ UNCHANGED exported /\ rows' = s
         /\ Len(edits') = 1 => rows = exported /\ edits'[1] = <<kind, i - 1>>
<1>1. PICK S : edits \in Seq(S)
  BY DEF EditInv
<1> DEFINE e == <<kind, i - 1>>
<1>2. edits' = Append(edits, e) /\ rows' = s /\ UNCHANGED exported
  BY DEF Edit
<1> HIDE DEF e
<1>3. /\ Append(edits, e) \in Seq(S \cup {e})
      /\ Len(edits) \in Nat /\ Len(Append(edits, e)) = Len(edits) + 1
      /\ Append(edits, e)[Len(edits) + 1] = e
  BY <1>1, AppendFacts
<1>4. /\ edits' \in Seq(S \cup {e}) /\ Len(edits') = Len(edits) + 1
      /\ edits'[Len(edits) + 1] = e
  BY <1>2, <1>3
<1>5. edits' # <<>>
  BY <1>3, <1>4
<1>6. ASSUME Len(edits') = 1 PROVE rows = exported /\ edits'[1] = e
  <2>1. Len(edits) = 0
    BY <1>3, <1>4, <1>6
  <2>2. edits = <<>>
    BY <1>1, <2>1
  <2> QED
    BY <1>4, <2>1, <2>2 DEF EditInv
<1> QED
  BY <1>2, <1>4, <1>5, <1>6 DEF e

LEMMA InitEditInv == VerifierInit => EditInv
<1> SUFFICES ASSUME VerifierInit PROVE EditInv
  OBVIOUS
<1>1. <<>> \in Seq({}) /\ Len(<<>>) = 0
  OBVIOUS
<1> QED
  BY <1>1 DEF VerifierInit, EditInv

LEMMA NextEditInv == VInv /\ EditInv /\ [VerifierNext]_allVars => EditInv'
<1> SUFFICES ASSUME VInv, EditInv, [VerifierNext]_allVars PROVE EditInv'
  OBVIOUS
<1>1. LInv
  BY DEF VInv
<1>2. ASSUME UNCHANGED <<exported, rows, edits>> PROVE EditInv'
  BY <1>2 DEF EditInv
<1>3. CASE UNCHANGED allVars \/ Checkpoint \/ (edits = <<>> /\ Next /\ UNCHANGED dump)
  BY <1>2, <1>3 DEF allVars, dump, Checkpoint
<1>4. CASE Export
  <2>1. /\ edits = <<>> /\ edits' = edits /\ exported' = Dump /\ rows' = Dump
    BY <1>4 DEF Export
  <2>2. \A i \in 1..Len(entries) : Dump[i].id = entries[i].id
    BY <1>1, DumpFacts, RowFacts
  <2>3. \A i, j \in 1..Len(Dump) : i # j => Dump[i].id # Dump[j].id
    BY <1>1, <2>2, DumpFacts DEF LInv, LinksPointBack
  <2>4. Len(edits') # 1 /\ \E S : edits' \in Seq(S)
    BY <2>1 DEF EditInv
  <2> QED
    BY <2>1, <2>3, <2>4 DEF EditInv
<1>5. ASSUME NEW i \in 1..Len(rows),
             ModifyRow(i) \/ DeleteRow(i) \/ SwapRows(i) \/ RelinkRow(i)
      PROVE  EditInv'
  <2>1. PICK S : exported \in Seq(S)
    BY DEF VInv, DumpInv, IsDump
  <2>2. ASSUME ModifyRow(i) PROVE EditInv'
    <3>1. PICK w \in Writers \ {rows[i].writer} :
            Edit("modified", i - 1, [rows EXCEPT ![i].writer = w])
      BY <2>2 DEF ModifyRow
    <3>2. /\ \E T : edits' \in Seq(T)
          /\ edits' # <<>> /\ UNCHANGED exported
          /\ rows' = [rows EXCEPT ![i].writer = w]
          /\ Len(edits') = 1 => rows = exported /\ edits'[1] = <<"modified", i - 1>>
      BY <3>1, EditIsRecorded
    <3> QED
      BY <3>1, <3>2 DEF EditInv
  <2>3. ASSUME DeleteRow(i) PROVE EditInv'
    <3>1. /\ \E T : edits' \in Seq(T)
          /\ edits' # <<>> /\ UNCHANGED exported
          /\ rows' = RemoveAt(rows, i)
          /\ Len(edits') = 1 => rows = exported /\ edits'[1] = <<"deleted", i - 1>>
      BY <2>3, EditIsRecorded DEF DeleteRow
    <3> QED
      BY <3>1 DEF EditInv
  <2>4. ASSUME SwapRows(i) PROVE EditInv'
    <3>1. /\ \E T : edits' \in Seq(T)
          /\ edits' # <<>> /\ UNCHANGED exported /\ i < Len(rows)
          /\ rows' = [rows EXCEPT ![i] = rows[i + 1], ![i + 1] = rows[i]]
          /\ Len(edits') = 1 => rows = exported /\ edits'[1] = <<"swapped", i - 1>>
      BY <2>4, EditIsRecorded DEF SwapRows
    <3> QED
      BY <3>1 DEF EditInv
  <2>5. ASSUME RelinkRow(i) PROVE EditInv'
    <3>1. /\ \E T : edits' \in Seq(T)
          /\ edits' # <<>> /\ UNCHANGED exported
          /\ Len(edits') = 1 => rows = exported /\ edits'[1] = <<"relinked", i - 1>>
      BY <2>5, EditIsRecorded DEF RelinkRow
    <3> QED
      BY <3>1 DEF EditInv
  <2> QED
    BY <1>5, <2>2, <2>3, <2>4, <2>5
<1> QED
  BY <1>3, <1>4, <1>5 DEF VerifierNext

\* verify_chain without a checkpoint reports the first link that is not what the rows
\* before it hash to.
LEMMA FirstBroken ==
  ASSUME NEW S, NEW s \in Seq(S), NEW i \in 0..(Len(s) - 1),
         s[i + 1].previous_hash # HashOf(s, i),
         \A j \in 1..i : s[j].previous_hash = HashOf(s, j - 1)
  PROVE  verify_chain(s, Genesis) = Tampered(i, i)
<1>1. i \in BrokenLinks(s)
  BY BrokenAt
<1>2. ASSUME NEW j \in BrokenLinks(s) PROVE i <= j
  <2>1. j \in 0..(Len(s) - 1) /\ s[j + 1].previous_hash # HashOf(s, j)
    BY <1>2, BrokenAt DEF BrokenLinks
  <2>2. ASSUME j < i PROVE FALSE
    <3>1. j + 1 \in 1..i /\ (j + 1) - 1 = j
      BY <2>1, <2>2
    <3> QED
      BY <2>1, <3>1
  <2> QED
    BY <2>1, <2>2
<1>3. BrokenLinks(s) \subseteq Int
  BY DEF BrokenLinks
<1>4. Min(BrokenLinks(s)) = i
  BY <1>1, <1>2, <1>3 DEF Min
<1> QED
  BY <1>1, <1>4 DEF verify_chain

\* The row after a gap does not link to the row before it.
LEMMA GapShows ==
  ASSUME NEW s, IsDump(s), Chained(s), NEW i \in 1..Len(s), i < Len(s),
         \A j, k \in 1..Len(s) : j # k => s[j].id # s[k].id
  PROVE  s[i + 1].previous_hash # HashOf(s, i - 1)
<1>1. i \in Nat /\ i # 0 /\ i + 1 \in 1..Len(s) /\ (i + 1) - 1 = i
  BY DEF IsDump
<1>2. s[i + 1].previous_hash = RowHash(s[i])
  BY <1>1 DEF Chained, HashOf
<1>3. CASE i = 1
  BY <1>2, <1>3, RowHashNotGenesis DEF HashOf
<1>4. CASE i # 1
  <2>1. i - 1 \in 1..Len(s) /\ i - 1 # 0 /\ i - 1 # i
    BY <1>1, <1>4
  <2>2. RowHash(s[i]) # RowHash(s[i - 1])
    BY <2>1 DEF RowHash
  <2> QED
    BY <1>2, <2>1, <2>2 DEF HashOf
<1> QED
  BY <1>3, <1>4

\* Rows that agree up to position n hash alike up to there.
LEMMA SamePrefix ==
  ASSUME NEW s, NEW t, NEW n \in Nat, \A j \in 1..n : s[j] = t[j]
  PROVE  \A j \in 0..n : HashOf(s, j) = HashOf(t, j)
  BY DEF HashOf

\* A writer that was changed shows at the link of the next row.
LEMMA ModifiedIsLocated ==
  ASSUME NEW s, IsDump(s), Chained(s), NEW i \in 1..Len(s), i < Len(s),
         NEW w, w # s[i].writer
  PROVE  verify_chain([s EXCEPT ![i].writer = w], Genesis) = Tampered(i, i)
<1> DEFINE r == [s[i] EXCEPT !.writer = w]
           t == [s EXCEPT ![i] = r]
<1>1. PICK S : s \in Seq(S)
  BY DEF IsDump
<1>2. /\ r.writer = w /\ r.previous_hash = s[i].previous_hash
  <2>1. IsRow(s[i])
    BY DEF IsDump
  <2> QED
    BY <2>1 DEF IsRow
<1>3. [s EXCEPT ![i].writer = w] = t
  OBVIOUS
<1> HIDE DEF r
<1>4. /\ t \in Seq(S \cup {r}) /\ Len(t) = Len(s) /\ Len(s) \in Nat /\ t[i] = r
      /\ \A j \in 1..Len(s) : j # i => t[j] = s[j]
  BY <1>1
<1> HIDE DEF t
<1>5. \A j \in 0..(i - 1) : HashOf(t, j) = HashOf(s, j)
  <2>1. i - 1 \in Nat /\ \A j \in 1..(i - 1) : t[j] = s[j]
    BY <1>4
  <2> QED
    BY <2>1, SamePrefix
<1>6. ASSUME NEW j \in 1..i PROVE t[j].previous_hash = HashOf(t, j - 1)
  <2>1. j - 1 \in 0..(i - 1) /\ j \in 1..Len(s)
    BY <1>4
  <2>2. t[j].previous_hash = s[j].previous_hash
    BY <1>2, <1>4, <2>1
  <2> QED
    BY <1>5, <2>1, <2>2 DEF Chained
<1>7. t[i + 1].previous_hash # HashOf(t, i)
  <2>1. i + 1 \in 1..Len(s) /\ i + 1 # i /\ (i + 1) - 1 = i /\ i # 0
    BY <1>4
  <2>2. t[i + 1].previous_hash = RowHash(s[i])
    BY <1>4, <2>1 DEF Chained, HashOf
  <2>3. RowHash(s[i]) # RowHash(r)
    BY <1>2 DEF RowHash
  <2> QED
    BY <1>4, <2>1, <2>2, <2>3 DEF HashOf
<1>8. i \in 0..(Len(t) - 1)
  BY <1>4
<1>9. verify_chain(t, Genesis) = Tampered(i, i)
  BY <1>4, <1>6, <1>7, <1>8, FirstBroken
<1> QED
  BY <1>3, <1>9

\* A row that is missing, or was moved behind its successor, shows where it was.
LEMMA GapIsLocated ==
  ASSUME NEW s, IsDump(s), Chained(s), NEW i \in 1..Len(s), i < Len(s),
         \A j, k \in 1..Len(s) : j # k => s[j].id # s[k].id,
         NEW T, NEW t \in Seq(T), i <= Len(t),
         \A j \in 1..(i - 1) : t[j] = s[j], t[i] = s[i + 1]
  PROVE  verify_chain(t, Genesis) = Tampered(i - 1, i - 1)
<1>1. Len(s) \in Nat /\ Len(t) \in Nat /\ i - 1 \in Nat
  BY DEF IsDump
<1>2. \A j \in 0..(i - 1) : HashOf(t, j) = HashOf(s, j)
  BY <1>1, SamePrefix
<1>3. ASSUME NEW j \in 1..(i - 1) PROVE t[j].previous_hash = HashOf(t, j - 1)
  <2>1. j - 1 \in 0..(i - 1) /\ j \in 1..Len(s)
    BY <1>1
  <2> QED
    BY <1>2, <2>1 DEF Chained
<1>4. t[i].previous_hash # HashOf(t, i - 1)
  BY <1>1, <1>2, GapShows
<1>5. i - 1 \in 0..(Len(t) - 1) /\ (i - 1) + 1 = i
  BY <1>1
<1> HIDE DEF Chained
<1>6. t[(i - 1) + 1].previous_hash # HashOf(t, i - 1)
  BY <1>4, <1>5
<1> QED
  BY <1>3, <1>5, <1>6, FirstBroken

\* Without a checkpoint, verify_chain locates a single altered row that has a
\* successor, in a dump of a well-used log of any length: a modified one at its
\* successor, a deleted or swapped one where it was.
THEOREM AlterationsAreLocated == VerifierSpec => []LocatesAlteration
<1>1. VInv /\ EditInv => LocatesAlteration
  <2> SUFFICES ASSUME VInv, EditInv, WellUsed, Len(edits) = 1
               PROVE  LET kind == edits[1][1]
                          at   == edits[1][2]
                          r    == verify_chain(rows, Genesis)
                      IN  /\ kind = "modified" /\ at + 1 < Len(rows) => r = Tampered(at + 1, at + 1)
                          /\ kind = "deleted" /\ at < Len(rows) => r = Tampered(at, at)
                          /\ kind = "swapped" => r = Tampered(at, at)
    BY DEF LocatesAlteration, Report
  <2>1. IsDump(exported) /\ Chained(exported)
    BY DEF VInv, DumpInv
  <2>2. PICK S : exported \in Seq(S)
    BY <2>1 DEF IsDump
  <2>3. \A j, k \in 1..Len(exported) : j # k => exported[j].id # exported[k].id
    BY DEF EditInv
  <2>4. PICK i \in 1..Len(exported) :
         \/ edits[1] = <<"modified", i - 1>> /\ \E w \in Writers \ {exported[i].writer} :
              rows = [exported EXCEPT ![i].writer = w]
         \/ edits[1] = <<"deleted", i - 1>> /\ rows = RemoveAt(exported, i)
         \/ /\ edits[1] = <<"swapped", i - 1>> /\ i < Len(exported)
            /\ rows = [exported EXCEPT ![i] = exported[i + 1], ![i + 1] = exported[i]]
         \/ edits[1] = <<"relinked", i - 1>>
    BY DEF EditInv
  <2>5. CASE edits[1] = <<"modified", i - 1>> /\ \E w \in Writers \ {exported[i].writer} :
              rows = [exported EXCEPT ![i].writer = w]
    <3>1. PICK w \in Writers \ {exported[i].writer} : rows = [exported EXCEPT ![i].writer = w]
      BY <2>5
    <3>2. Len(rows) = Len(exported) /\ (i - 1) + 1 = i
      BY <2>2, <3>1
    <3>3. i < Len(rows) => verify_chain(rows, Genesis) = Tampered(i, i)
      BY <2>1, <3>1, <3>2, ModifiedIsLocated
    <3> QED
      BY <2>5, <3>2, <3>3
  <2>6. CASE edits[1] = <<"deleted", i - 1>> /\ rows = RemoveAt(exported, i)
    <3>1. /\ rows \in Seq(S) /\ Len(rows) = Len(exported) - 1
          /\ \A j \in 1..(Len(exported) - 1) :
               rows[j] = IF j < i THEN exported[j] ELSE exported[j + 1]
      BY <2>2, <2>6, RemoveAtFacts
    <3>2. ASSUME i - 1 < Len(rows) PROVE verify_chain(rows, Genesis) = Tampered(i - 1, i - 1)
      <4>1. i < Len(exported) /\ i <= Len(rows)
        BY <2>2, <3>1, <3>2
      <4>2. \A j \in 1..(i - 1) : rows[j] = exported[j]
        BY <2>2, <3>1, <4>1
      <4>3. rows[i] = exported[i + 1]
        BY <2>2, <3>1, <4>1
      <4> QED
        BY <2>1, <2>3, <3>1, <4>1, <4>2, <4>3, GapIsLocated
    <3> QED
      BY <2>6, <3>2
  <2>7. CASE /\ edits[1] = <<"swapped", i - 1>> /\ i < Len(exported)
             /\ rows = [exported EXCEPT ![i] = exported[i + 1], ![i + 1] = exported[i]]
    <3>1. i + 1 \in 1..Len(exported) /\ i + 1 # i /\ i < Len(exported)
      BY <2>2, <2>7
    <3>2. /\ rows \in Seq(S) /\ Len(rows) = Len(exported) /\ i <= Len(rows)
          /\ \A j \in 1..(i - 1) : rows[j] = exported[j]
          /\ rows[i] = exported[i + 1]
      BY <2>2, <2>7, <3>1
    <3>3. verify_chain(rows, Genesis) = Tampered(i - 1, i - 1)
      BY <2>1, <2>3, <3>1, <3>2, GapIsLocated
    <3> QED
      BY <2>7, <3>3
  <2>8. CASE edits[1] = <<"relinked", i - 1>>
    BY <2>8
  <2> QED
    BY <2>4, <2>5, <2>6, <2>7, <2>8
<1> QED
  BY InitVInv, NextVInv, InitEditInv, NextEditInv, <1>1, PTL DEF VerifierSpec

-----------------------------------------------------------------------------
(* What can make an untouched dump look altered.                           *)

\* The dump holds the first entries with details of some earlier moment, and the
\* witness a hash that some entry had.
WitnessInv ==
  /\ Len(exported) \in Nat /\ Len(exported) <= Len(entries)
  /\ \A i \in 1..Len(exported) :
       /\ exported[i].id = entries[i].id /\ exported[i].writer = entries[i].writer
       /\ exported[i].previous_hash = entries[i].previous_hash
       /\ exported[i].details \in Nat /\ exported[i].details <= details[entries[i].id]
  /\ \/ witness = Genesis
     \/ \E j \in 1..Len(entries) : \E d \in 0..details[entries[j].id] :
          witness = <<entries[j].id, entries[j].writer, d, entries[j].previous_hash>>

LEMMA EntryIdsInRange ==
  ASSUME LInv
  PROVE  \A i \in 1..Len(entries) : entries[i].id \in EntryIds
  BY LogAssumption DEF LInv, TypeOK, EntryIds

LEMMA InitWitnessInv == VerifierInit => WitnessInv
  BY DEF VerifierInit, Init, WitnessInv

LEMMA NextWitnessInv == VInv /\ WitnessInv /\ [VerifierNext]_allVars => WitnessInv'
<1> SUFFICES ASSUME VInv, WitnessInv, [VerifierNext]_allVars PROVE WitnessInv'
  OBVIOUS
<1>1. LInv /\ [Next]_vars
  BY VerifierStepsLog DEF VInv, allVars, vars
<1>2. /\ Len(entries) \in Nat /\ Len(entries)' \in Nat /\ Len(entries) <= Len(entries)'
      /\ \A i \in 1..Len(entries) : entries'[i] = entries[i]
      /\ \A k \in EntryIds : details[k] \in Nat /\ details[k] <= details'[k]
  BY <1>1, LogGrows
<1>3. \A i \in 1..Len(entries) : entries[i].id \in EntryIds
  BY <1>1, EntryIdsInRange
<1>4. \A k \in EntryIds : details'[k] \in Nat
  BY <1>1, NextLInv DEF LInv, TypeOK
<1>5. ASSUME UNCHANGED <<exported, witness>> PROVE WitnessInv'
  <2>1. /\ Len(exported)' \in Nat /\ Len(exported)' <= Len(entries)'
        /\ \A i \in 1..Len(exported)' : i \in 1..Len(entries)
    BY <1>2, <1>5 DEF WitnessInv
  <2>2. ASSUME NEW i \in 1..Len(exported)'
        PROVE  /\ exported'[i].id = entries'[i].id /\ exported'[i].writer = entries'[i].writer
               /\ exported'[i].previous_hash = entries'[i].previous_hash
               /\ exported'[i].details \in Nat /\ exported'[i].details <= details'[entries'[i].id]
    <3>1. i \in 1..Len(entries) /\ i \in 1..Len(exported)
      BY <1>5, <2>1
    <3>2. entries'[i] = entries[i] /\ entries[i].id \in EntryIds
      BY <1>2, <1>3, <3>1
    <3>3. /\ exported[i].details \in Nat /\ exported[i].details <= details[entries[i].id]
          /\ details[entries[i].id] <= details'[entries[i].id]
          /\ details[entries[i].id] \in Nat /\ details'[entries[i].id] \in Nat
      BY <1>2, <1>4, <3>1, <3>2 DEF WitnessInv
    <3> QED
      BY <1>5, <3>1, <3>2, <3>3 DEF WitnessInv
  <2>3. \/ witness' = Genesis
        \/ \E j \in 1..Len(entries)' : \E d \in 0..details'[entries'[j].id] :
             witness' = <<entries'[j].id, entries'[j].writer, d, entries'[j].previous_hash>>
    <3>1. CASE witness = Genesis
      BY <1>5, <3>1
    <3>2. CASE witness # Genesis
      <4>1. PICK j \in 1..Len(entries) : \E d \in 0..details[entries[j].id] :
              witness = <<entries[j].id, entries[j].writer, d, entries[j].previous_hash>>
        BY <3>2 DEF WitnessInv
      <4>2. PICK d \in 0..details[entries[j].id] :
              witness = <<entries[j].id, entries[j].writer, d, entries[j].previous_hash>>
        BY <4>1
      <4>3. /\ j \in 1..Len(entries)' /\ entries'[j] = entries[j]
            /\ entries[j].id \in EntryIds
        BY <1>2, <1>3
      <4>4. d \in 0..details'[entries'[j].id]
        BY <1>2, <1>4, <4>3
      <4> QED
        BY <1>5, <4>2, <4>3, <4>4
    <3> QED
      BY <3>1, <3>2
  <2> QED
    BY <2>1, <2>2, <2>3 DEF WitnessInv, Genesis
<1>6. CASE UNCHANGED allVars \/ (edits = <<>> /\ Next /\ UNCHANGED dump)
  BY <1>5, <1>6 DEF allVars, dump
<1>7. ASSUME NEW i \in 1..Len(rows),
             ModifyRow(i) \/ DeleteRow(i) \/ SwapRows(i) \/ RelinkRow(i)
      PROVE  WitnessInv'
  BY <1>5, <1>7, EditsKeepRows DEF VInv
<1>8. CASE Export
  <2>1. exported' = Dump /\ UNCHANGED <<entries, details, witness>>
    BY <1>8 DEF Export, vars
  <2>2. /\ Len(Dump) = Len(entries)
        /\ \A i \in 1..Len(entries) :
             /\ Dump[i].id = entries[i].id /\ Dump[i].writer = entries[i].writer
             /\ Dump[i].previous_hash = entries[i].previous_hash
             /\ Dump[i].details = details[entries[i].id]
    BY <1>1, DumpFacts, RowFacts
  <2>3. \A i \in 1..Len(entries) : details[entries[i].id] \in Nat
    BY <1>2, <1>3
  <2> QED
    BY <1>2, <2>1, <2>2, <2>3 DEF WitnessInv, Genesis
<1>9. CASE Checkpoint
  <2>1. witness' = HeadHash(Dump) /\ UNCHANGED <<entries, details, exported>>
    BY <1>9 DEF Checkpoint, vars
  <2>2. \/ HeadHash(Dump) = Genesis
        \/ Len(entries) \in 1..Len(entries) /\
             HeadHash(Dump) = RowHash(Row(entries[Len(entries)]))
    <3>1. PICK S : Dump \in Seq(S)
      BY <1>1, DumpFacts DEF IsDump
    <3>2. HeadHash(Dump) = HashOf(Dump, Len(entries))
      BY <1>1, <3>1, HeadOfDump, DumpFacts
    <3> QED
      BY <1>1, <1>2, <3>2, DumpFacts DEF HashOf
  <2>3. CASE HeadHash(Dump) = Genesis
    BY <2>1, <2>3 DEF WitnessInv, Genesis
  <2>4. CASE Len(entries) \in 1..Len(entries) /\
             HeadHash(Dump) = RowHash(Row(entries[Len(entries)]))
    <3> DEFINE n == Len(entries)
    <3>1. /\ n \in 1..Len(entries) /\ details[entries[n].id] \in 0..details[entries[n].id]
      BY <1>2, <1>3, <2>4
    <3>2. witness' = <<entries[n].id, entries[n].writer, details[entries[n].id],
                       entries[n].previous_hash>>
      BY <2>1, <2>4, RowFacts
    <3>3. (\E j \in 1..Len(entries) : \E d \in 0..details[entries[j].id] :
             witness = <<entries[j].id, entries[j].writer, d, entries[j].previous_hash>>)'
      BY <2>1, <3>1, <3>2
    <3> QED
      BY <2>1, <3>3 DEF WitnessInv
  <2> QED
    BY <2>2, <2>3, <2>4
<1> QED
  BY <1>6, <1>7, <1>8, <1>9 DEF VerifierNext

\* Without two entries on one hash, every entry links to the one before it: the first
\* one that did not would share its link with an earlier one.
LEMMA NoForkIsAChain ==
  ASSUME LInv, \A i, j \in 1..Len(entries) :
                 i # j => entries[i].previous_hash # entries[j].previous_hash
  PROVE  \A i \in 1..Len(entries) : entries[i].previous_hash = HashAt(i - 1)
<1>0. Len(entries) \in Nat
  BY DEF LInv, Shape
<1> DEFINE Off == {i \in 1..Len(entries) : entries[i].previous_hash # HashAt(i - 1)}
<1> SUFFICES ASSUME Off # {} PROVE FALSE
  OBVIOUS
<1>1. PICK i \in Off : \A m \in Off : i <= m
  <2>1. Off \subseteq Nat
    BY <1>0
  <2> QED
    BY <2>1, LeastNat
<1>2. i \in 1..Len(entries) /\ entries[i].previous_hash # HashAt(i - 1)
  BY <1>1
<1>3. \A m \in 1..Len(entries) : m < i => entries[m].previous_hash = HashAt(m - 1)
  BY <1>0, <1>1
<1>4. CASE entries[i].previous_hash = Genesis
  <2>1. i # 1
    BY <1>2, <1>4 DEF HashAt
  <2>2. 1 \in 1..Len(entries) /\ 1 < i /\ 1 - 1 = 0
    BY <1>0, <1>2, <2>1
  <2>3. entries[1].previous_hash = Genesis
    BY <1>3, <2>2 DEF HashAt
  <2> QED
    BY <1>2, <1>4, <2>1, <2>2, <2>3
<1>5. CASE entries[i].previous_hash # Genesis
  <2>1. PICK j \in 1..(i - 1) : entries[i].previous_hash = LoggedHash(entries[j])
    BY <1>2, <1>5 DEF LInv, LinksPointBack
  <2>2. j # 0 /\ j # i - 1
    BY <1>2, <2>1 DEF HashAt
  <2>3. j + 1 \in 1..Len(entries) /\ j + 1 < i /\ (j + 1) - 1 = j /\ j + 1 # i
    BY <1>0, <1>2, <2>2
  <2>4. entries[j + 1].previous_hash = LoggedHash(entries[j])
    BY <1>3, <2>2, <2>3 DEF HashAt
  <2> QED
    BY <1>2, <2>1, <2>3, <2>4
<1> QED
  BY <1>4, <1>5

\* An untouched dump is reported as tampered with only if two threads built on one
\* _last_hash, a caller wrote to what it had logged, or the checkpoint is of another
\* moment than the dump.
THEOREM FalseAlarmsHaveACause == VerifierSpec => []FalseAlarmHasACause
<1>1. VInv /\ WitnessInv => FalseAlarmHasACause
  <2> SUFFICES ASSUME VInv, WitnessInv, rows = exported,
                      verify_chain(exported, witness).verdict = "tampered",
                      \A i, j \in 1..Len(entries) :
                        i # j => entries[i].previous_hash # entries[j].previous_hash,
                      \A i \in 1..Len(entries) : ~ (details[entries[i].id] > 0)
               PROVE  \E j \in 1..Len(entries) :
                        j # Len(exported) /\ witness = LoggedHash(entries[j])
    BY DEF FalseAlarmHasACause, Report
  <2>1. LInv /\ IsDump(exported)
    BY DEF VInv, DumpInv
  <2>2. PICK S : exported \in Seq(S)
    BY <2>1 DEF IsDump
  <2>3. Len(entries) \in Nat /\ \A i \in 1..Len(entries) : details[entries[i].id] = 0
    BY <2>1, EntryIdsInRange DEF LInv, Shape, TypeOK
  <2>4. Len(exported) \in Nat /\ \A i \in 1..Len(exported) : i \in 1..Len(entries)
    BY <2>3 DEF WitnessInv
  <2>5. \A i \in 1..Len(exported) : RowHash(exported[i]) = LoggedHash(entries[i])
    <3> SUFFICES ASSUME NEW i \in 1..Len(exported)
                 PROVE  RowHash(exported[i]) = LoggedHash(entries[i])
      OBVIOUS
    <3>1. exported[i].details = 0
      BY <2>3, <2>4 DEF WitnessInv
    <3> QED
      BY <3>1 DEF WitnessInv, RowHash, LoggedHash
  <2>6. \A n \in 0..Len(exported) : HashOf(exported, n) = HashAt(n)
    BY <2>4, <2>5 DEF HashOf, HashAt
  <2>7. Chained(exported)
    <3> SUFFICES ASSUME NEW i \in 1..Len(exported)
                 PROVE  exported[i].previous_hash = HashOf(exported, i - 1)
      BY DEF Chained
    <3>1. i - 1 \in 0..Len(exported) /\ i \in 1..Len(entries)
      BY <2>4
    <3>2. entries[i].previous_hash = HashAt(i - 1)
      BY <2>1, <3>1, NoForkIsAChain
    <3> QED
      BY <2>6, <3>1, <3>2 DEF WitnessInv
  <2>8. witness # Genesis /\ exported # <<>> /\ HeadHash(exported) # witness
    BY <2>2, <2>7, IntactMeans
  <2>9. PICK j \in 1..Len(entries) : \E d \in 0..details[entries[j].id] :
          witness = <<entries[j].id, entries[j].writer, d, entries[j].previous_hash>>
    BY <2>8 DEF WitnessInv
  <2>10. witness = LoggedHash(entries[j])
    BY <2>3, <2>9 DEF LoggedHash
  <2>11. j # Len(exported)
    <3>1. HeadHash(exported) = HashOf(exported, Len(exported)) /\ Len(exported) # 0
      BY <2>2, <2>8, HeadOfDump
    <3> QED
      BY <2>4, <2>6, <2>8, <2>10, <3>1 DEF HashAt
  <2> QED
    BY <2>10, <2>11
<1> QED
  BY InitVInv, NextVInv, InitWitnessInv, NextWitnessInv, <1>1, PTL DEF VerifierSpec
=============================================================================
