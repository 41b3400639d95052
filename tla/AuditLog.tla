------------------------------- MODULE AuditLog -------------------------------
(***************************************************************************)
(* The hash-chained audit logger of audit/audit_log.py, at the grain at    *)
(* which log() reads and writes the logger: build the entry on _last_hash, *)
(* append it, set _last_hash.  Request handlers of the API run log()       *)
(* without interleaving (one event loop, no await); threads that share a   *)
(* logger do interleave.                                                   *)
(*                                                                         *)
(* An AuditEntry is frozen but keeps the caller's details dict by          *)
(* reference; a caller may go on writing to that dict.  SHA-256 is taken   *)
(* to be collision free: a digest is the tuple of what is hashed, and the  *)
(* empty string the empty tuple.                                           *)
(***************************************************************************)
EXTENDS Naturals, Sequences

CONSTANTS
  Writers,      \* callers of log()
  Mutators,     \* the callers that may write to the details dict after log()
  Loops,        \* TRUE in it: one event loop; FALSE in it: a thread per caller
  MaxEntries    \* bound: entries logged

ASSUME LogAssumption ==
  /\ Mutators \subseteq Writers
  /\ Loops \subseteq BOOLEAN
  /\ MaxEntries \in Nat

VARIABLES
  wiring,       \* how this process uses the logger; never changes
  entries,      \* AuditLogger._entries
  last_hash,    \* AuditLogger._last_hash
  details,      \* the details dicts, by entry_id: how often written since creation
  built,        \* entry_ids handed out (a counter stands for uuid4)
  pc,           \* where each caller is in log()
  entry         \* log()'s local variable

vars == <<wiring, entries, last_hash, details, built, pc, entry>>

EntryIds == 1..MaxEntries

\* The empty _last_hash of a new logger.
Genesis == <<>>

\* An AuditEntry: what identifies it, and its link; the other fields are constant
\* once it exists, except the details, which it only refers to.
AuditEntry(id, w, link) == [id |-> id, writer |-> w, previous_hash |-> link]

\* compute_hash: over the fields as they are NOW.
compute_hash(e) == <<e.id, e.writer, details[e.id], e.previous_hash>>

Init ==
  /\ wiring \in [event_loop : Loops, mutators : SUBSET Mutators]
  /\ entries = <<>>
  /\ last_hash = Genesis
  /\ details = [i \in EntryIds |-> 0]
  /\ built = 0
  /\ pc = [w \in Writers |-> "idle"]
  /\ entry = [w \in Writers |-> AuditEntry(0, w, Genesis)]

\* log(): AuditEntry(..., previous_hash=self._last_hash)
Build(w) ==
  /\ pc[w] = "idle"
  /\ wiring.event_loop => \A v \in Writers : pc[v] = "idle"
  /\ built < MaxEntries
  /\ built' = built + 1
  /\ entry' = [entry EXCEPT ![w] = AuditEntry(built + 1, w, last_hash)]
  /\ pc' = [pc EXCEPT ![w] = "built"]
  /\ UNCHANGED <<wiring, entries, last_hash, details>>

\* Variant: a retried append.
AppendTwice(w) ==
  /\ pc[w] = "built"
  /\ entries' = entries \o <<entry[w], entry[w]>>
  /\ pc' = [pc EXCEPT ![w] = "appended"]
  /\ UNCHANGED <<wiring, last_hash, details, built, entry>>

\* log(): self._entries.append(entry)
AppendEntry(w) ==
  /\ pc[w] = "built"
  /\ entries' = Append(entries, entry[w])
  /\ pc' = [pc EXCEPT ![w] = "appended"]
  /\ UNCHANGED <<wiring, last_hash, details, built, entry>>

\* Variant: _last_hash is not advanced.
KeepLastHash(w) ==
  /\ pc[w] = "appended"
  /\ pc' = [pc EXCEPT ![w] = IF w \in wiring.mutators THEN "returned" ELSE "idle"]
  /\ UNCHANGED <<wiring, entries, last_hash, details, built, entry>>

\* Variant: the hash leaves out the link to the entry before.
SetUnlinkedHash(w) ==
  /\ pc[w] = "appended"
  /\ last_hash' = <<entry[w].id, w, 0, Genesis>>
  /\ pc' = [pc EXCEPT ![w] = IF w \in wiring.mutators THEN "returned" ELSE "idle"]
  /\ UNCHANGED <<wiring, entries, details, built, entry>>

\* log(): self._last_hash = entry.compute_hash(); return
SetLastHash(w) ==
  /\ pc[w] = "appended"
  /\ last_hash' = compute_hash(entry[w])
  /\ pc' = [pc EXCEPT ![w] = IF w \in wiring.mutators THEN "returned" ELSE "idle"]
  /\ UNCHANGED <<wiring, entries, details, built, entry>>

\* StripeWebhookHandler._handle_*: receipt["status"] = ... on the logged dict.
WriteDetails(w) ==
  /\ pc[w] = "returned"
  /\ details' = [details EXCEPT ![entry[w].id] = @ + 1]
  /\ pc' = [pc EXCEPT ![w] = "idle"]
  /\ UNCHANGED <<wiring, entries, last_hash, built, entry>>

Next ==
  \E w \in Writers : Build(w) \/ AppendEntry(w) \/ SetLastHash(w) \/ WriteDetails(w)

Spec == Init /\ [][Next]_vars

-----------------------------------------------------------------------------
\* The hash the entry at position i must carry for the chain to verify.
ExpectedLink(i) == IF i = 1 THEN Genesis ELSE compute_hash(entries[i - 1])

\* verify_chain_integrity
verify_chain_integrity ==
  \A i \in 1..Len(entries) : entries[i].previous_hash = ExpectedLink(i)

(* Properties.                                                             *)

\* The type invariant of the logger and its callers.
TypeOK ==
  /\ wiring \in [event_loop : BOOLEAN, mutators : SUBSET Writers]
  /\ DOMAIN details = EntryIds /\ \A i \in EntryIds : details[i] \in Nat
  /\ built \in 0..MaxEntries
  /\ pc \in [Writers -> {"idle", "built", "appended", "returned"}]
  /\ \A w \in Writers : pc[w] # "idle" => entry[w].id \in 1..built
  /\ \A i \in 1..Len(entries) : entries[i].id \in 1..built

\* One event loop, and callers that leave the details they logged alone.
WellUsed == wiring.event_loop /\ wiring.mutators = {}

\* On one event loop, with callers that leave the details alone, the chain
\* verifies at every moment, also between two statements of log().
ChainIntact == WellUsed => verify_chain_integrity

\* The hash an entry had when log() returned.
LoggedHash(e) == <<e.id, e.writer, 0, e.previous_hash>>

\* Whatever threads and mutating callers do, an entry always links to the start
\* or to an entry that precedes it, and no entry is logged twice.
LinksPointBack ==
  /\ \A i \in 1..Len(entries) :
       \/ entries[i].previous_hash = Genesis
       \/ \E j \in 1..(i - 1) : entries[i].previous_hash = LoggedHash(entries[j])
  /\ \A i, j \in 1..Len(entries) : i # j => entries[i].id # entries[j].id

\* verify_chain_integrity: "True if the chain is intact, False if tampering
\* detected"; nothing in this module tampers, so it must return True.
VerifiesUntampered == wiring.event_loop => verify_chain_integrity
=============================================================================
