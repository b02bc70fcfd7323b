------------------------------ MODULE AuditTrail ------------------------------
(***************************************************************************)
(* The hash-chained trail of src/governance/auditTrail.ts, to which the    *)
(* gateway's guard appends its decisions, and the changes verify() is      *)
(* there to find: records edited, removed or put in another order by       *)
(* someone who does not compute hashes anew.                               *)
(***************************************************************************)
EXTENDS Integers, SequencesExt

CONSTANTS
  Events,          \* what is recorded: type, actor, outcome, detail
  Times,           \* the values of Date.now
  MaxRecords,      \* bound: records ever appended
  MaxChanges,      \* bound: changes to the records
  EditedSequences, \* the numbers an edit may put into sequence
  Genesis,         \* GENESIS_HASH
  Hash(_, _, _, _) \* computeEntryHash(prevHash, timestamp, sequence, event)

VARIABLES
  records,  \* the trail
  sealed,   \* history: the records append returned
  changes   \* how often the trail was changed

vars == <<records, sealed, changes>>

ASSUME TrailAssumption ==
  /\ {MaxRecords, MaxChanges} \subseteq Nat
  /\ EditedSequences \subseteq Int

Init == records = <<>> /\ sealed = {} /\ changes = 0

-----------------------------------------------------------------------------
LastHash == IF records = <<>> THEN Genesis ELSE records[Len(records)].entryHash

SealRecord(event, now) ==
  [event |-> event, timestamp |-> now, sequence |-> Len(records), prevHash |-> LastHash,
   entryHash |-> Hash(LastHash, now, Len(records), event)]

(* append: the clock may say anything. *)
AppendRecord ==
  /\ Cardinality(sealed) < MaxRecords
  /\ \E event \in Events, now \in Times :
       /\ records' = Append(records, SealRecord(event, now))
       /\ sealed' = sealed \cup {SealRecord(event, now)}
  /\ UNCHANGED changes

-----------------------------------------------------------------------------
Change == changes < MaxChanges /\ changes' = changes + 1 /\ UNCHANGED sealed

Hashes == {Genesis} \cup {s.entryHash : s \in sealed}

(* A retroactive edit of any field; hashes are those that were once computed. *)
EditRecord ==
  /\ Change
  /\ \E i \in DOMAIN records :
       \/ \E e \in Events : records' = [records EXCEPT ![i].event = e]
       \/ \E t \in Times : records' = [records EXCEPT ![i].timestamp = t]
       \/ \E n \in EditedSequences : records' = [records EXCEPT ![i].sequence = n]
       \/ \E h \in Hashes : records' = [records EXCEPT ![i].prevHash = h]
       \/ \E h \in Hashes : records' = [records EXCEPT ![i].entryHash = h]

RemoveRecord ==
  /\ Change
  /\ \E i \in DOMAIN records : records' = RemoveAt(records, i)

ReorderRecords ==
  /\ Change
  /\ \E i, j \in DOMAIN records :
       records' = [records EXCEPT ![i] = records[j], ![j] = records[i]]

Next == AppendRecord \/ EditRecord \/ RemoveRecord \/ ReorderRecords

Spec == Init /\ [][Next]_vars

-----------------------------------------------------------------------------
PrevHash(i) == IF i = 1 THEN Genesis ELSE records[i - 1].entryHash

(* Mutant: only the links are looked at. *)
UnlinkedOnly == {i \in DOMAIN records : records[i].prevHash # PrevHash(i)}

(* The records that do not follow from the one before, or from their own fields. *)
Tampered ==
  {i \in DOMAIN records :
     LET r == records[i] IN
     \/ r.prevHash # PrevHash(i)
     \/ r.entryHash # Hash(r.prevHash, r.timestamp, r.sequence, r.event)}

(* firstTamperedSequence: the sequence of the first of them, or -1 when there is
   none. *)
FirstTamperedSequence(n) ==
  \/ Tampered = {} /\ n = -1
  \/ \E i \in Tampered : (\A j \in Tampered : i <= j) /\ n = records[i].sequence

Verify == FirstTamperedSequence(-1)

-----------------------------------------------------------------------------
Record(numbers) == [event: Events, timestamp: Times, sequence: numbers,
                    prevHash: Hashes, entryHash: Hashes]

TypeOK ==
  /\ changes \in Nat
  /\ sealed \subseteq Record(Nat)
  /\ records \in Seq(Record(Nat \cup EditedSequences))

(* auditTrail.ts:71 "False on any tampering": a trail that verifies holds nothing but
   records that append sealed, each right behind the one it was appended to. *)
IntactMeansSealed ==
  Verify => \A i \in DOMAIN records :
              records[i] \in sealed /\ records[i].prevHash = PrevHash(i)
=============================================================================
