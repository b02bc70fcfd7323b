------------------------------ MODULE BlindQuota ------------------------------
(***************************************************************************)
(* Storage accounting of a node: BlindQuotaManager of                      *)
(* cyphertube-core/src/node/blind_quota_manager.js.                        *)
(*                                                                         *)
(* A writer asks validateQuotaWindow, uploads, and calls                   *)
(* registerStorageIngress; a write that finds the node full starts an      *)
(* emergency compaction in the background.  Every access to the database   *)
(* is a step, and anything may happen in between.  A block stands for its  *)
(* record in blind_block_manifest together with its object in the store.   *)
(***************************************************************************)
EXTENDS Integers, Sequences, FiniteSetsExt

CONSTANTS
  Pipelines,     \* canonical_blind_id
  Writers,       \* callers that validate and register one chunk at a time
  Compactors,    \* bound: the compactions that may run at once
  None,
  Quota,         \* MAX_PIPELINE_QUOTA_BYTES
  Capacity,      \* NODE_MAX_CAPACITY_BYTES
  Sizes,         \* the sizes of chunks
  Examined,      \* the limit of executeEmergencyCompaction's candidates
  MaxBlocks,     \* bound: blocks ever registered
  MayFail        \* whether a database or storage call may throw

ASSUME QuotaAssumption ==
  /\ {Quota, Capacity, Examined, MaxBlocks} \subseteq Nat
  /\ Sizes \subseteq Nat \ {0}
  /\ MayFail \in BOOLEAN

VARIABLES
  ledger,    \* storage_ledger: allocated_bytes of each pipeline
  blocks,    \* blind_block_manifest
  removed,   \* blocks whose object removeObject has deleted
  count,     \* how many blocks were ever registered; gives ingested_at
  writer,    \* the local state of each writer
  comp,      \* the local state of each compaction
  failed     \* history: whether a call ever threw

vars == <<ledger, blocks, removed, count, writer, comp, failed>>

Block == [at: 1..MaxBlocks, pipe: Pipelines, size: Sizes, origin: {"LOCAL", "PEER"}]
WriterSteps == {"idle", "pipeline", "ledger", "manifest"}
CompSteps == {"idle", "candidates", "find", "remove", "delete", "release"}

IdleWriter == [step |-> "idle", pipe |-> None, size |-> 0, origin |-> None]
IdleComp == [step |-> "idle", todo |-> <<>>, block |-> None]

Init ==
  /\ ledger = [p \in Pipelines |-> 0]
  /\ blocks = {}
  /\ removed = {}
  /\ count = 0
  /\ writer = [w \in Writers |-> IdleWriter]
  /\ comp = [c \in Compactors |-> IdleComp]
  /\ failed = FALSE

-----------------------------------------------------------------------------
TotalNodeUsage == MapThenSumSet(LAMBDA p : ledger[p], Pipelines)

(* The sum of the values of f, natural numbers, by counting: sets of pairs can be
   reasoned about where a fold cannot. *)
Total(f) == Cardinality(UNION {{x} \X (1..f[x]) : x \in DOMAIN f})

Stored(p) == Total([b \in {b \in blocks : b.pipe = p} |-> b.size])

(* validateQuotaWindow up to its first answer.  The ceiling itself is refused. *)
NodeIsFull(size) == TotalNodeUsage + size >= Capacity

(* A full node refuses the write and starts a compaction it does not wait for, and
   nothing asks whether one is running.  Bound: a refusal that finds every compactor
   busy does not happen. *)
Deny(w) ==
  /\ writer[w].step = "idle"
  /\ \E n \in Sizes : NodeIsFull(n)
  /\ \E c \in Compactors :
       /\ comp[c].step = "idle"
       /\ comp' = [comp EXCEPT ![c].step = "candidates"]
  /\ UNCHANGED <<ledger, blocks, removed, count, writer, failed>>

Admit(w) ==
  /\ writer[w].step = "idle"
  /\ \E p \in Pipelines, n \in Sizes, o \in {"LOCAL", "PEER"} :
       /\ ~NodeIsFull(n)
       /\ writer' = [writer EXCEPT ![w] = [step |-> "pipeline", pipe |-> p, size |-> n,
                                           origin |-> o]]
  /\ UNCHANGED <<ledger, blocks, removed, count, comp, failed>>

(* Mutant: the incoming chunk is not counted. *)
FitsNow(p, size) == ledger[p] <= Quota

FitsQuota(p, size) == ledger[p] + size <= Quota

(* The second read of validateQuotaWindow; QUOTA_EXCEEDED ends the write. *)
CheckPipeline(w) ==
  LET q == writer[w] IN
  /\ q.step = "pipeline"
  /\ writer' = [writer EXCEPT ![w] =
       IF FitsQuota(q.pipe, q.size) THEN [q EXCEPT !.step = "ledger"] ELSE IdleWriter]
  /\ UNCHANGED <<ledger, blocks, removed, count, comp, failed>>

(* registerStorageIngress: the ledger first. *)
AddToLedger(w) ==
  LET q == writer[w] IN
  /\ q.step = "ledger"
  /\ count < MaxBlocks
  /\ ledger' = [ledger EXCEPT ![q.pipe] = @ + q.size]
  /\ writer' = [writer EXCEPT ![w].step = "manifest"]
  /\ UNCHANGED <<blocks, removed, count, comp, failed>>

(* Then the manifest. *)
InsertBlock(w) ==
  LET q == writer[w] IN
  /\ q.step = "manifest"
  /\ count < MaxBlocks
  /\ count' = count + 1
  /\ blocks' = blocks \cup {[at |-> count + 1, pipe |-> q.pipe, size |-> q.size,
                             origin |-> q.origin]}
  /\ writer' = [writer EXCEPT ![w] = IdleWriter]
  /\ UNCHANGED <<ledger, removed, comp, failed>>

(* A call throws: the write ends where it is. *)
WriterFails(w) ==
  /\ MayFail
  /\ writer[w].step # "idle"
  /\ writer' = [writer EXCEPT ![w] = IdleWriter]
  /\ failed' = TRUE
  /\ UNCHANGED <<ledger, blocks, removed, count, comp>>

-----------------------------------------------------------------------------
(* The pipelines by allocated_bytes, the largest first. *)
Candidates ==
  {s \in [1..Cardinality(Pipelines) -> Pipelines] :
     /\ \A i, j \in DOMAIN s : i # j => s[i] # s[j]
     /\ \A i, j \in DOMAIN s : i < j => ledger[s[i]] >= ledger[s[j]]}

ReadCandidates(c) ==
  /\ comp[c].step = "candidates"
  /\ \E s \in Candidates :
       comp' = [comp EXCEPT ![c].step = "find",
                            ![c].todo = SubSeq(s, 1, Min({Examined, Len(s)}))]
  /\ UNCHANGED <<ledger, blocks, removed, count, writer, failed>>

(* Mutant: any block may be purged. *)
PurgeableAny(p) == {b \in blocks : b.pipe = p}

(* The blocks a compaction may purge: those that came from a peer. *)
Purgeable(p) == {b \in blocks : b.pipe = p /\ b.origin # "LOCAL"}

(* Mutant: the break after the first candidate, whatever was found. *)
FindBlockOnce(c) ==
  LET q == comp[c] IN
  /\ q.step = "find"
  /\ comp' = [comp EXCEPT ![c] =
       IF q.todo = <<>> \/ Purgeable(Head(q.todo)) = {} THEN IdleComp
       ELSE [q EXCEPT !.step = "remove", !.block = CHOOSE b \in Purgeable(Head(q.todo)) : TRUE]]
  /\ UNCHANGED <<ledger, blocks, removed, count, writer, failed>>

(* Mutant: nobody asks whether a block was found. *)
FindBlockBlindly(c) ==
  /\ comp[c].step = "find"
  /\ comp' = [comp EXCEPT ![c] =
       IF comp[c].todo = <<>> THEN IdleComp
       ELSE LET found == Purgeable(Head(comp[c].todo)) IN
            [comp[c] EXCEPT !.step = "remove",
                            !.block = IF found = {} THEN None ELSE CHOOSE b \in found : TRUE]]
  /\ UNCHANGED <<ledger, blocks, removed, count, writer, failed>>

(* findOne, oldest first; the next candidate when there is none, the end when
   there is no candidate left. *)
FindBlock(c) ==
  LET q == comp[c]
      found == Purgeable(Head(q.todo))
  IN
  /\ q.step = "find"
  /\ \/ q.todo = <<>> /\ comp' = [comp EXCEPT ![c] = IdleComp]
     \/ q.todo # <<>> /\ found = {} /\ comp' = [comp EXCEPT ![c].todo = Tail(@)]
     \/ /\ q.todo # <<>>
        /\ \E b \in found :
             /\ \A o \in found : b.at <= o.at
             /\ comp' = [comp EXCEPT ![c].step = "remove", ![c].block = b]
  /\ UNCHANGED <<ledger, blocks, removed, count, writer, failed>>

(* Mutant: the ledger gives the bytes back before the block is gone. *)
RemoveObjectReleasing(c) ==
  LET b == comp[c].block IN
  /\ comp[c].step = "remove"
  /\ removed' = removed \cup {b}
  /\ ledger' = [ledger EXCEPT ![b.pipe] = @ - b.size]
  /\ comp' = [comp EXCEPT ![c].step = "delete"]
  /\ UNCHANGED <<blocks, count, writer, failed>>

RemoveObject(c) ==
  /\ comp[c].step = "remove"
  /\ removed' = removed \cup {comp[c].block}
  /\ comp' = [comp EXCEPT ![c].step = "delete"]
  /\ UNCHANGED <<ledger, blocks, count, writer, failed>>

(* deleteOne by _id: it does not say whether the record was still there. *)
DeleteBlock(c) ==
  /\ comp[c].step = "delete"
  /\ blocks' = blocks \ {comp[c].block}
  /\ comp' = [comp EXCEPT ![c].step = "release"]
  /\ UNCHANGED <<ledger, removed, count, writer, failed>>

(* The ledger gives the bytes back, and the compaction is over. *)
ReleaseBytes(c) ==
  LET b == comp[c].block IN
  /\ comp[c].step = "release"
  /\ ledger' = [ledger EXCEPT ![b.pipe] = @ - b.size]
  /\ comp' = [comp EXCEPT ![c] = IdleComp]
  /\ UNCHANGED <<blocks, removed, count, writer, failed>>

(* COMPACTION_FAULT: logged, and the compaction ends where it is. *)
CompactionFails(c) ==
  /\ MayFail
  /\ comp[c].step # "idle"
  /\ comp' = [comp EXCEPT ![c] = IdleComp]
  /\ failed' = TRUE
  /\ UNCHANGED <<ledger, blocks, removed, count, writer>>

Write(w) == CheckPipeline(w) \/ AddToLedger(w) \/ InsertBlock(w)
Compact(c) ==
  ReadCandidates(c) \/ FindBlock(c) \/ RemoveObject(c) \/ DeleteBlock(c) \/ ReleaseBytes(c)

Next ==
  \/ \E w \in Writers : Deny(w) \/ Admit(w) \/ Write(w) \/ WriterFails(w)
  \/ \E c \in Compactors : Compact(c) \/ CompactionFails(c)

Spec == Init /\ [][Next]_vars

(* Promises settle; nothing makes a caller write. *)
Fairness == \A c \in Compactors : WF_vars(Compact(c))

-----------------------------------------------------------------------------
TypeOK ==
  /\ ledger \in [Pipelines -> Int]
  /\ blocks \subseteq Block
  /\ removed \subseteq Block
  /\ count \in 0..MaxBlocks
  /\ failed \in BOOLEAN
  /\ writer \in [Writers -> [step: WriterSteps, pipe: Pipelines \cup {None},
                             size: Sizes \cup {0}, origin: {"LOCAL", "PEER", None}]]
  /\ \A c \in Compactors :
       /\ comp[c].step \in CompSteps
       /\ comp[c].block \in Block \cup {None}
       /\ comp[c].todo \in Seq(Pipelines)

(* blind_quota_manager.js:10 "5GB limit": the chunks stored for a pipeline stay within
   its quota, but for one chunk of each other writer that passed the check before the
   last one did.  A writer that is alone keeps to the quota. *)
OverrunBounded ==
  \A p \in Pipelines : Stored(p) <= Quota + (Cardinality(Writers) - 1) * Max(Sizes)

(* What is in the ledger and not yet, or no longer, in the manifest. *)
Unlisted(p) ==
  Total([w \in {w \in Writers : writer[w].step = "manifest" /\ writer[w].pipe = p} |->
           writer[w].size])
Unreleased(p) ==
  Total([c \in {c \in Compactors : comp[c].step = "release" /\ comp[c].block.pipe = p} |->
           comp[c].block.size])

(* Bytes are added before their block and given back after it: whatever call fails, the
   ledger never says less than what is stored.  As long as nothing fails the two agree
   about every pipeline, up to the writes and purges that are between them, and a listed
   block has its object, unless the compaction that deleted it is about to delete the
   record. *)
LedgerMatchesManifest ==
  /\ \A p \in Pipelines :
       /\ ledger[p] >= Stored(p)
       /\ ~failed => ledger[p] = Stored(p) + Unlisted(p) + Unreleased(p)
  /\ ~failed => \A b \in blocks \cap removed :
       \E c \in Compactors : comp[c].step = "delete" /\ comp[c].block = b

(* What the node itself ingested is never purged. *)
LocalBlocksStay ==
  [][\A b \in blocks : b.origin = "LOCAL" => b \in blocks']_vars

(* A compaction that starts while a block from a peer is listed frees one, whatever is
   written meanwhile, provided that no call fails, that it examines every pipeline and
   that it runs alone. *)
CompactionFrees ==
  \A c \in Compactors :
    (comp[c].step = "candidates" /\ \E b \in blocks : b.origin = "PEER") ~>
      comp[c].step = "release" \/ failed
=============================================================================
