----------------------------- MODULE PlaylistStore -----------------------------
(***************************************************************************)
(* The merge of shared playlists: PlaylistMetadataStore of                 *)
(* cyphertube-core/src/client/playlist_metadata_store.js.                  *)
(*                                                                         *)
(* Every replica holds a document, edits it, seals copies of it, and       *)
(* merges copies that others sealed.  A copy may come late, twice, out of  *)
(* order or never.  Envelopes and ciphertext are left out: a sealed        *)
(* document is the members and the operations that were encrypted.         *)
(***************************************************************************)
EXTENDS Integers, SequencesExt

CONSTANTS
  Replicas,
  People,        \* the members a document may list
  Owner,         \* the member every document starts with
  NoTarget,      \* the target of an operation that has none
  MaxTime,       \* bound: timestamps are 1..MaxTime
  MaxEdits,      \* bound: operations made by all replicas
  MaxSealed,     \* bound: sealed documents
  DistinctTimes  \* whether no two operations have the same timestamp

VARIABLES
  doc,      \* each replica's document: its members and its ops_log
  entries,  \* the entries its last merge computed
  seen,     \* history: the operations that merge was given
  sealed,   \* the documents sealed so far
  made      \* every operation made so far; its size gives the next op_id

vars == <<doc, entries, seen, sealed, made>>

Op == [type: {"ADD", "REMOVE"}, op_id: 1..MaxEdits, target_op_id: (1..MaxEdits) \cup {NoTarget},
       timestamp: 1..MaxTime]
Entry == [timestamp: 1..MaxTime, tombstone: BOOLEAN]
Known == UNION {[ids -> Entry] : ids \in SUBSET (1..MaxEdits)}
Doc == [members: SUBSET People, ops_log: Seq(Op)]

Init ==
  /\ doc = [r \in Replicas |-> [members |-> {Owner}, ops_log |-> <<>>]]
  /\ entries = [r \in Replicas |-> <<>>]
  /\ seen = [r \in Replicas |-> {}]
  /\ sealed = {}
  /\ made = {}

-----------------------------------------------------------------------------
(* Mutant: the log in the order of arrival. *)
Unsorted(ops) == ops

(* The elements of ops at some places, in an order that gives the places before each of
   them: in the k-th place, the element that has k - 1 before it. *)
InOrder(ops, before) ==
  [k \in 1..Cardinality(DOMAIN before) |->
     ops[CHOOSE i \in DOMAIN before : Cardinality(before[i]) = k - 1]]

(* Array.prototype.sort is stable: equal timestamps stay in the order of ops. *)
SortByTimestamp(ops) ==
  InOrder(ops, [i \in DOMAIN ops |->
    {j \in DOMAIN ops : \/ ops[j].timestamp < ops[i].timestamp
                        \/ ops[j].timestamp = ops[i].timestamp /\ j < i}])

(* One operation of the log.  A removal of an entry that is not there yet is lost. *)
Apply(known, o) ==
  IF o.type = "ADD"
  THEN [i \in DOMAIN known \cup {o.op_id} |->
          IF i = o.op_id THEN [timestamp |-> o.timestamp, tombstone |-> FALSE] ELSE known[i]]
  ELSE IF o.target_op_id \in DOMAIN known /\ o.timestamp >= known[o.target_op_id].timestamp
       THEN [known EXCEPT ![o.target_op_id].tombstone = TRUE]
       ELSE known

(* The entries after the whole log. *)
Replayed(ops) ==
  LET known[i \in 0..Len(ops)] == IF i = 0 THEN <<>> ELSE Apply(known[i - 1], ops[i])
  IN  known[Len(ops)]

(* The first occurrence of each op_id. *)
FirstOfEach(ops) ==
  LET first == {i \in DOMAIN ops : \A j \in 1..(i - 1) : ops[j].op_id # ops[i].op_id}
  IN  InOrder(ops, [i \in first |-> {j \in first : j < i}])

(* mergeCrdtStates: the members are the incoming document's; the logs are replayed
   together, before their duplicates are dropped. *)
MergeCrdtStates(local, incoming) ==
  LET allOps == SortByTimestamp(local.ops_log \o incoming.ops_log)
  IN  [members |-> incoming.members,
       entries |-> Replayed(allOps),
       ops_log |-> FirstOfEach(allOps)]

(* A replica's user adds something, or removes an entry of its log. *)
Edit(r) ==
  /\ Cardinality(made) < MaxEdits
  /\ \E type \in {"ADD", "REMOVE"}, t \in 1..MaxTime :
     \E target \in IF type = "ADD" THEN {NoTarget}
                   ELSE {o.op_id : o \in {x \in ToSet(doc[r].ops_log) : x.type = "ADD"}} :
       LET o == [type |-> type, op_id |-> Cardinality(made) + 1, target_op_id |-> target,
                 timestamp |-> t]
       IN  /\ DistinctTimes => \A x \in made : x.timestamp # t
           /\ doc' = [doc EXCEPT ![r].ops_log = Append(@, o)]
           /\ made' = made \cup {o}
  /\ UNCHANGED <<entries, seen, sealed>>

(* A member is invited; the store never removes one. *)
Invite(r) ==
  /\ \E p \in People \ doc[r].members : doc' = [doc EXCEPT ![r].members = @ \cup {p}]
  /\ UNCHANGED <<entries, seen, sealed, made>>

(* sealMetadataDocument: the entries are not sealed. *)
Seal(r) ==
  /\ Cardinality(sealed) < MaxSealed
  /\ sealed' = sealed \cup {doc[r]}
  /\ UNCHANGED <<doc, entries, seen, made>>

(* A replica merges a sealed document into its own. *)
Merge(r) ==
  /\ \E d \in sealed :
       LET m == MergeCrdtStates(doc[r], d)
       IN  /\ doc' = [doc EXCEPT ![r] = [members |-> m.members, ops_log |-> m.ops_log]]
           /\ entries' = [entries EXCEPT ![r] = m.entries]
           /\ seen' = [seen EXCEPT ![r] = ToSet(doc[r].ops_log) \cup ToSet(d.ops_log)]
  /\ UNCHANGED <<sealed, made>>

Next == \E r \in Replicas : Edit(r) \/ Invite(r) \/ Seal(r) \/ Merge(r)

Spec == Init /\ [][Next]_vars

-----------------------------------------------------------------------------
TypeOK ==
  /\ doc \in [Replicas -> Doc]
  /\ entries \in [Replicas -> Known]
  /\ seen \in [Replicas -> SUBSET Op]
  /\ sealed \subseteq Doc
  /\ made \subseteq Op

(* What a replica's user sees: the entries without a tombstone. *)
Visible(r) == {i \in DOMAIN entries[r] : ~entries[r][i].tombstone}

(* The element set of a set of operations: what was added and not removed since. *)
ElementSet(ops) ==
  {a.op_id : a \in {x \in ops : /\ x.type = "ADD"
                                /\ \A o \in ops : o.target_op_id = x.op_id => o.timestamp < x.timestamp}}

(* When timestamps are distinct, a merge shows exactly the last-writer-wins element
   set of the operations it was given, whatever copies they came in, and its log keeps
   each of them once for the merges to come. *)
LastWriterWins ==
  \A r \in Replicas :
    /\ Visible(r) = ElementSet(seen[r])
    /\ seen[r] \subseteq ToSet(doc[r].ops_log)
    /\ IsInjective([i \in DOMAIN doc[r].ops_log |-> doc[r].ops_log[i].op_id])
=============================================================================
