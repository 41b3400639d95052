----------------------------- MODULE ChainVerifier -----------------------------
(***************************************************************************)
(* audit/chain_verifier.py over the logger of AuditLog: the log is dumped  *)
(* (export_entries_jsonl) while it is written, an external witness takes   *)
(* the head hash now and then, the dump may be altered, and verify_chain   *)
(* (the audit verify command) reads it.  Positions are those of the code:  *)
(* the first entry has index 0.                                            *)
(***************************************************************************)
EXTENDS AuditLog, FiniteSetsExt, SequencesExt

CONSTANT MaxEdits   \* bound: alterations of the dump

ASSUME VerifierAssumption == MaxEdits \in Nat

VARIABLES
  exported,  \* the dump as it was made
  rows,      \* the dump as the verifier reads it
  witness,   \* expected_head_hash: what the witness last took; Genesis for none
  edits      \* the alterations made to rows, as <<kind, index>>

dump == <<exported, rows, witness, edits>>
allVars == <<vars, dump>>

\* A row of the dump holds the details as they were when it was made.
Row(e) == [id |-> e.id, writer |-> e.writer, details |-> details[e.id],
           previous_hash |-> e.previous_hash]
RowHash(r) == <<r.id, r.writer, r.details, r.previous_hash>>
HeadHash(s) == IF s = <<>> THEN Genesis ELSE RowHash(Last(s))

-----------------------------------------------------------------------------
(* The verifier.                                                           *)

Intact(s) == [verdict |-> "intact", verified |-> Len(s), index |-> Len(s)]
Tampered(v, i) == [verdict |-> "tampered", verified |-> v, index |-> i]

BrokenLinks(s) ==
  {i \in 0..(Len(s) - 1) : s[i + 1].previous_hash # HeadHash(SubSeq(s, 1, i))}

\* Variant: the checkpoint is not compared.
VerifyLinksOnly(s, head) ==
  IF BrokenLinks(s) # {} THEN LET i == Min(BrokenLinks(s)) IN Tampered(i, i)
  ELSE Intact(s)

\* Variant: the last broken link is reported, not the first.
VerifyLastLink(s, head) ==
  IF BrokenLinks(s) # {} THEN LET i == Max(BrokenLinks(s)) IN Tampered(i, i)
  ELSE IF head # Genesis /\ s # <<>> /\ HeadHash(s) # head
       THEN Tampered(Len(s), Len(s) - 1)
  ELSE Intact(s)

\* verify_chain(entries, expected_head_hash); Genesis is the empty string.
verify_chain(s, head) ==
  IF BrokenLinks(s) # {} THEN LET i == Min(BrokenLinks(s)) IN Tampered(i, i)
  ELSE IF head # Genesis /\ s # <<>> /\ HeadHash(s) # head
       THEN Tampered(Len(s), Len(s) - 1)
  ELSE Intact(s)

-----------------------------------------------------------------------------
(* The dump and the witness.                                               *)

VerifierInit ==
  Init /\ exported = <<>> /\ rows = <<>> /\ witness = Genesis /\ edits = <<>>

Dump == [i \in 1..Len(entries) |-> Row(entries[i])]

\* export_entries_jsonl
Export ==
  /\ edits = <<>> /\ rows # Dump
  /\ exported' = Dump /\ rows' = Dump
  /\ UNCHANGED <<vars, witness, edits>>

\* The witness takes the current head (SIEM export, notarization).
Checkpoint ==
  /\ witness # HeadHash(Dump)
  /\ witness' = HeadHash(Dump)
  /\ UNCHANGED <<vars, exported, rows, edits>>

Edit(kind, i, s) ==
  /\ Len(edits) < MaxEdits
  /\ rows' = s
  /\ edits' = Append(edits, <<kind, i>>)
  /\ UNCHANGED <<vars, exported, witness>>

ModifyRow(i) ==
  \E w \in Writers \ {rows[i].writer} :
    Edit("modified", i - 1, [rows EXCEPT ![i].writer = w])

DeleteRow(i) == Edit("deleted", i - 1, RemoveAt(rows, i))

SwapRows(i) ==
  /\ i < Len(rows)
  /\ Edit("swapped", i - 1, [rows EXCEPT ![i] = rows[i + 1], ![i + 1] = rows[i]])

\* Row i is given the link its predecessor now has: one step of rebuilding the
\* chain behind an alteration.
RelinkRow(i) ==
  LET link == HeadHash(SubSeq(rows, 1, i - 1))
  IN  /\ rows[i].previous_hash # link
      /\ Edit("relinked", i - 1, [rows EXCEPT ![i].previous_hash = link])

\* The log is not followed further once the dump has been altered.
VerifierNext ==
  \/ edits = <<>> /\ Next /\ UNCHANGED dump
  \/ Export \/ Checkpoint
  \/ \E i \in 1..Len(rows) : ModifyRow(i) \/ DeleteRow(i) \/ SwapRows(i) \/ RelinkRow(i)

VerifierSpec == VerifierInit /\ [][VerifierNext]_allVars

-----------------------------------------------------------------------------
(* Properties.                                                             *)

Report(head) == verify_chain(rows, head)

\* With the head of the dump as checkpoint the verifier is exact on every non-empty
\* dump of a well-used log: it reports tampering if and only if the rows differ from
\* what was dumped, also when the links were rebuilt behind the alteration.
ExactWithCheckpoint ==
  WellUsed /\ witness = HeadHash(exported) /\ rows # <<>> =>
    (Report(witness).verdict = "intact" <=> rows = exported)

\* Without a checkpoint, one altered row that has a successor is located: "a
\* modified historical entry breaks the link at its successor; a swapped/deleted
\* entry breaks the link where the gap is".  All entries before it are counted
\* as verified.
LocatesAlteration ==
  WellUsed /\ Len(edits) = 1 =>
    LET kind == edits[1][1]
        at   == edits[1][2]
        r    == Report(Genesis)
    IN  /\ kind = "modified" /\ at + 1 < Len(rows) => r = Tampered(at + 1, at + 1)
        /\ kind = "deleted" /\ at < Len(rows) => r = Tampered(at, at)
        /\ kind = "swapped" => r = Tampered(at, at)

\* An untouched dump is reported as tampered with for three reasons only: two
\* threads built on one _last_hash, a caller wrote to the details of an entry it had
\* logged, or the checkpoint is the hash of an entry that was the head before or
\* after the dump was made.
FalseAlarmHasACause ==
  rows = exported /\ Report(witness).verdict = "tampered" =>
    \/ \E i, j \in 1..Len(entries) :
         i # j /\ entries[i].previous_hash = entries[j].previous_hash
    \/ \E i \in 1..Len(entries) : details[entries[i].id] > 0
    \/ \E j \in 1..Len(entries) : j # Len(exported) /\ witness = LoggedHash(entries[j])
=============================================================================
