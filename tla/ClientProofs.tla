---------------------------- MODULE ClientProofs ----------------------------
(***************************************************************************)
(* Theorems about the web client, of MCClient and the components in it.    *)
(***************************************************************************)
EXTENDS MCClient, SequenceTheorems, FiniteSetTheorems, WellFoundedInduction, TLAPS

(* A set of natural numbers that is not empty has a least element.         *)
LEMMA LeastExists ==
  ASSUME NEW T, T \subseteq Nat, T # {}
  PROVE  \E i \in T : \A j \in T : i <= j
<1> DEFINE R == OpToRel(<, Nat)
<1>1. IsWellFoundedOn(R, Nat)
  BY NatLessThanWellFounded
<1>2. \A i, j \in Nat : j < i => <<j, i>> \in R
  BY DEF OpToRel
<1> HIDE DEF R
<1>3. PICK i \in T : \A j \in T : ~ (<<j, i>> \in R)
  BY <1>1, WFMin
<1>4. \A j \in T : ~ (j < i)
  BY <1>2, <1>3, Zenon
<1> QED
  BY <1>4

-----------------------------------------------------------------------------
(* OfflineQueue.  A tab that has a key has a key of the store's.           *)
KeysReady ==
  \A t \in Tabs :
    /\ tab[t].keyStep = "ready" => tab[t].key # None
    /\ tab[t].write = "add" => tab[t].keyStep = "ready"

(* The records that the queue or some drain holds.                         *)
Held == queue \cup UNION {drain[t][d].items : t \in Tabs, d \in Drains}

(* Ids were given out once, and only for operations that were queued.      *)
IdsGiven ==
  /\ ops \in Nat /\ MaxOps \in Nat /\ ops <= MaxOps
  /\ \A r \in Held : r.id <= ops
  /\ \A r, s \in Held : r.id = s.id => r = s
  /\ \A i \in 1..MaxOps : replays[i] > 0 => i <= ops

(* What a drain holds, by the step it is at.                               *)
DrainHolds ==
  \A t \in Tabs, d \in Drains :
    LET q == drain[t][d] IN
    /\ q.step = "idle" => q.items = {}
    /\ q.step \in {"send", "delete"} => q.items # {}
    /\ q.step = "delete" => replays[First(q.items).id] > 0

Deletes(t, d, i) == drain[t][d].step = "delete" /\ First(drain[t][d].items).id = i

(* At most one drain holds operation i.                                    *)
HeldOnce(i) ==
  \A t, u \in Tabs : \A d, e \in Drains : \A r \in drain[t][d].items, s \in drain[u][e].items :
    r.id = i /\ s.id = i => t = u /\ d = e

(* If it was executed, then once, and a drain deletes it or it is gone.    *)
ExecutedOnce(i) ==
  /\ replays[i] <= 1
  /\ replays[i] = 1 => \/ \E t \in Tabs, d \in Drains : Deletes(t, d, i)
                       \/ \A r \in Held : r.id # i

(* An operation the browser gave no reason to replay twice.                *)
OneHolder == \A i \in (1..MaxOps) \ suspect : HeldOnce(i) /\ ExecutedOnce(i)

QueueInv == TypeOK /\ KeysReady /\ IdsGiven /\ DrainHolds /\ OneHolder /\ NothingIsDropped

(* A set of records that is not empty has a first one.                     *)
LEMMA FirstIsItem ==
  ASSUME NEW items \in SUBSET Rec, items # {}
  PROVE  First(items) \in items
<1> DEFINE ids == {r.id : r \in items}
<1>1. ids \subseteq Nat /\ ids # {}
  BY DEF Rec
<1>2. PICK i \in ids : \A j \in ids : i <= j
  BY <1>1, LeastExists
<1>3. PICK r \in items : r.id = i
  BY <1>2
<1>4. \A s \in items : r.id <= s.id
  BY <1>1, <1>2, <1>3
<1> QED
  BY <1>3, <1>4 DEF First

(* A drain that takes a step leaves the others as they are.                *)
Drained(t, d, q) ==
  /\ drain' \in [Tabs -> [Drains -> Drain]]
  /\ drain'[t][d] = q
  /\ \A u \in Tabs, e \in Drains : u # t \/ e # d => drain'[u][e] = drain[u][e]

LEMMA DrainUpdated ==
  ASSUME TypeOK, NEW t \in Tabs, NEW d \in Drains, NEW q \in Drain,
         drain' = [drain EXCEPT ![t][d] = q]
  PROVE  Drained(t, d, q)
  BY DEF TypeOK, Drained

(* What a tab holds has its type whatever is put in its fields.            *)
LEMMA TabFields ==
  ASSUME NEW k \in Tab, NEW n \in Nat
  PROVE  /\ [k EXCEPT !.keyStep = "ready", !.key = n] \in Tab
         /\ [k EXCEPT !.keyStep = "ready", !.key = n].keyStep = "ready"
         /\ [k EXCEPT !.keyStep = "ready", !.key = n].key = n
         /\ [k EXCEPT !.due = n] \in Tab
         /\ [k EXCEPT !.due = n].keyStep = k.keyStep
         /\ [k EXCEPT !.due = n].key = k.key
         /\ [k EXCEPT !.due = n].write = k.write
  BY DEF Tab

(* A drain that is done with a record holds the others.                    *)
LEMMA KeptFields ==
  ASSUME NEW q \in Drain
  PROVE  /\ Kept(q) \in Drain /\ Kept(q).step = "next"
         /\ Kept(q).items = q.items \ {First(q.items)}
  BY DEF Drain, Kept

(* What is held is a record.                                               *)
LEMMA HeldAreRecords == TypeOK => Held \subseteq Rec
  BY DEF TypeOK, Held, Drain

(* Every tab starts without a key, and with nothing to replay.             *)
LEMMA InitQueues == QueueAssumption /\ Init => QueueInv
<1> SUFFICES ASSUME QueueAssumption, Init PROVE QueueInv
  OBVIOUS
<1>1. TypeOK
  BY DEF Init, TypeOK, NewTab, IdleDrain, Tab, Drain, None, QueueAssumption
<1>2. KeysReady
  BY DEF Init, KeysReady, NewTab
<1>3. Held = {}
  BY DEF Init, Held, IdleDrain
<1>4. IdsGiven
  BY <1>3 DEF Init, IdsGiven, QueueAssumption
<1>5. DrainHolds
  BY DEF Init, DrainHolds, IdleDrain
<1>6. OneHolder
  BY DEF Init, OneHolder, HeldOnce, ExecutedOnce, IdleDrain
<1>7. NothingIsDropped
  BY DEF Init, NothingIsDropped
<1> QED
  BY <1>1, <1>2, <1>4, <1>5, <1>6, <1>7 DEF QueueInv

(* The steps that only concern keys, writes and the network.               *)
LEMMA TabKeeps ==
  ASSUME QueueInv, UNCHANGED <<queue, ops, drain, replays, suspect>>,
         TypeOK', KeysReady'
  PROVE  QueueInv'
<1>1. Held' = Held
  BY DEF Held
<1>2. IdsGiven' /\ DrainHolds' /\ OneHolder' /\ NothingIsDropped'
  BY <1>1 DEF QueueInv, IdsGiven, DrainHolds, OneHolder, HeldOnce, ExecutedOnce, NothingIsDropped, Deletes
<1> QED
  BY <1>2 DEF QueueInv

(* A tab that reads the key, or generates it, has it.                      *)
LEMMA KeyKeeps ==
  ASSUME QueueInv, NEW t \in Tabs, ReadKey(t) \/ PutKey(t)
  PROVE  QueueInv'
<1>1. TypeOK' /\ KeysReady'
  <2>1. CASE ReadKey(t)
    <3>1. tab \in [Tabs -> Tab] /\ storedKey \in Nat /\ TypeOK /\ KeysReady
      BY DEF QueueInv, TypeOK
    <3>0. PICK k : k = [tab[t] EXCEPT !.keyStep = IF storedKey = None THEN "generate" ELSE "ready",
                                    !.key = storedKey]
      OBVIOUS
    <3>2. /\ k \in Tab /\ k.key = storedKey /\ k.write = tab[t].write
          /\ k.keyStep = IF storedKey = None THEN "generate" ELSE "ready"
      BY <3>0, <3>1 DEF Tab
    <3>3. /\ tab' = [tab EXCEPT ![t] = k]
          /\ UNCHANGED <<storedKey, keys, queue, ops, drain, online, outages, reloads, replays, suspect>>
      <4>1. /\ tab' = [tab EXCEPT ![t] = [tab[t] EXCEPT
                          !.keyStep = IF storedKey = None THEN "generate" ELSE "ready",
                          !.key = storedKey]]
            /\ UNCHANGED <<storedKey, keys, queue, ops, drain, online, outages, reloads, replays, suspect>>
        BY ONLY <2>1, <3>1 DEF ReadKey
      <4> QED
        BY ONLY <3>0, <4>1
    <3>4. TypeOK'
      BY <3>1, <3>2, <3>3 DEF TypeOK
    <3>5. tab[t].keyStep = "none" /\ ~ (tab[t].write = "add")
      BY <2>1, <3>1 DEF ReadKey, KeysReady
    <3>6. KeysReady'
      BY <3>1, <3>2, <3>3, <3>5 DEF KeysReady, None
    <3> QED
      BY <3>4, <3>6
  <2>2. CASE PutKey(t)
    <3> DEFINE n == keys + 1
    <3>1. n \in Nat /\ n # None
      BY DEF QueueInv, TypeOK, None
    <3>2. tab' = [tab EXCEPT ![t].keyStep = "ready", ![t].key = n] /\ keys' = n /\ storedKey' = n
      BY <2>2 DEF PutKey
    <3> HIDE DEF n
    <3> DEFINE k == [tab[t] EXCEPT !.keyStep = "ready", !.key = n]
    <3>3. k \in Tab /\ k.keyStep = "ready" /\ k.key = n /\ tab' = [tab EXCEPT ![t] = k]
      <4>1. tab[t] \in Tab /\ tab \in [Tabs -> Tab]
        BY DEF QueueInv, TypeOK
      <4>2. k \in Tab /\ k.keyStep = "ready" /\ k.key = n
        BY ONLY <3>1, <4>1, TabFields
      <4>3. tab' = [tab EXCEPT ![t] = k]
        BY ONLY <3>2, <4>1
      <4> QED
        BY <4>2, <4>3
    <3> HIDE DEF k
    <3>4. TypeOK /\ KeysReady /\ keys' = n /\ storedKey' = n
          /\ UNCHANGED <<queue, ops, drain, online, outages, reloads, replays, suspect>>
      BY <2>2, <3>2 DEF QueueInv, PutKey
    <3>5. TypeOK'
      BY <3>1, <3>3, <3>4 DEF TypeOK
    <3>6. KeysReady'
      BY <3>1, <3>3, <3>4 DEF KeysReady, TypeOK
    <3> QED
      BY <3>5, <3>6
  <2> QED
    BY <2>1, <2>2
<1> QED
  BY <1>1, TabKeeps DEF ReadKey, PutKey

(* A write begins, and waits for the key.                                  *)
LEMMA WriteKeeps ==
  ASSUME QueueInv, NEW t \in Tabs, FailOffline(t) \/ Encrypt(t)
  PROVE  QueueInv'
<1>1. TypeOK' /\ KeysReady'
  <2>1. CASE FailOffline(t)
    BY <2>1 DEF QueueInv, FailOffline, TypeOK, KeysReady, Tab
  <2>2. CASE Encrypt(t)
    BY <2>2 DEF QueueInv, Encrypt, TypeOK, KeysReady, Tab
  <2> QED
    BY <2>1, <2>2
<1> QED
  BY <1>1, TabKeeps DEF FailOffline, Encrypt

(* The network goes and comes, and brings a drain to every tab.            *)
LEMMA NetworkKeeps ==
  ASSUME QueueInv, GoOffline \/ GoOnline
  PROVE  QueueInv'
<1>1. TypeOK' /\ KeysReady'
  <2>1. CASE GoOffline
    BY <2>1 DEF QueueInv, GoOffline, TypeOK, KeysReady
  <2>2. CASE GoOnline
    <3>1. \A t \in Tabs : tab[t] \in Tab /\ tab[t].due + 1 \in Nat
      BY DEF QueueInv, TypeOK, Tab
    <3>2. \A t \in Tabs : /\ tab'[t] \in Tab
                          /\ tab'[t].keyStep = tab[t].keyStep
                          /\ tab'[t].key = tab[t].key
                          /\ tab'[t].write = tab[t].write
      <4> TAKE t \in Tabs
      <4>1. PICK n \in Nat : tab'[t] = [tab[t] EXCEPT !.due = n]
        BY <2>2, <3>1 DEF GoOnline
      <4>2. tab[t] \in Tab
        BY <3>1
      <4>3. /\ [tab[t] EXCEPT !.due = n] \in Tab
            /\ [tab[t] EXCEPT !.due = n].keyStep = tab[t].keyStep
            /\ [tab[t] EXCEPT !.due = n].key = tab[t].key
            /\ [tab[t] EXCEPT !.due = n].write = tab[t].write
        BY <4>2, TabFields
      <4> QED
        BY <4>1, <4>3
    <3>3. tab' \in [Tabs -> Tab]
      BY <2>2, <3>2 DEF GoOnline
    <3> QED
      BY <2>2, <3>2, <3>3 DEF QueueInv, GoOnline, TypeOK, KeysReady
  <2> QED
    BY <2>1, <2>2
<1> QED
  BY <1>1, TabKeeps DEF GoOffline, GoOnline

(* A record that is added has an id of its own, and nobody executed it.    *)
LEMMA AddKeeps ==
  ASSUME QueueInv, NEW t \in Tabs, AddRecord(t)
  PROVE  QueueInv'
<1> DEFINE r == [id |-> ops + 1, key |-> tab[t].key]
<1>1. r \in Rec /\ r.id = ops + 1
  <2>1. tab[t].key \in Nat \ {0}
    BY DEF QueueInv, TypeOK, KeysReady, AddRecord, Tab, None
  <2>2. ops + 1 \in 1..MaxOps
    BY DEF QueueInv, IdsGiven, AddRecord
  <2> QED
    BY <2>1, <2>2 DEF Rec
<1>2. queue' = queue \cup {r} /\ ops' = ops + 1 /\ ops' \in Nat /\ ops' <= MaxOps
      /\ UNCHANGED <<drain, replays, suspect>>
  BY DEF AddRecord, QueueInv, IdsGiven
<1> HIDE DEF r
<1>3. Held' = Held \cup {r}
  BY <1>2 DEF Held
<1>4. TypeOK' /\ KeysReady'
  <2>1. TypeOK'
    BY <1>1, <1>2 DEF AddRecord, QueueInv, TypeOK, Tab
  <2>2. KeysReady'
    BY DEF AddRecord, QueueInv, TypeOK, KeysReady, Tab
  <2> QED
    BY <2>1, <2>2
<1>5. IdsGiven'
  BY <1>1, <1>2, <1>3, HeldAreRecords DEF QueueInv, IdsGiven, Rec
<1>6. DrainHolds'
  BY <1>2 DEF QueueInv, DrainHolds
<1>7. OneHolder'
  BY <1>1, <1>2, <1>3 DEF QueueInv, TypeOK, IdsGiven, OneHolder, HeldOnce, ExecutedOnce, Deletes
<1>8. NothingIsDropped'
  BY <1>1, <1>2 DEF QueueInv, NothingIsDropped, IdsGiven
<1> QED
  BY <1>4, <1>5, <1>6, <1>7, <1>8 DEF QueueInv

(* A drain takes what is queued, which another may hold already.           *)
LEMMA StartKeeps ==
  ASSUME QueueInv, NEW t \in Tabs, NEW d \in Drains, StartDrain(t, d)
  PROVE  QueueInv'
<1> DEFINE q == [step |-> "next", items |-> queue]
<1>1. q \in Drain /\ q.step = "next" /\ q.items = queue
  BY DEF QueueInv, TypeOK, Drain
<1>2. drain' = [drain EXCEPT ![t][d] = q]
  BY DEF StartDrain
<1>3. UNCHANGED <<queue, ops, replays>> /\ drain[t][d].step = "idle" /\ suspect \subseteq suspect'
      /\ \A u \in Tabs, e \in Drains : \A r \in queue \cap drain[u][e].items : r.id \in suspect'
  BY DEF StartDrain
<1> HIDE DEF q
<1>4. /\ drain' \in [Tabs -> [Drains -> Drain]]
      /\ drain'[t][d] = q
      /\ \A u \in Tabs, e \in Drains : u # t \/ e # d => drain'[u][e] = drain[u][e]
  <2>1. Drained(t, d, q)
    BY <1>1, <1>2, DrainUpdated DEF QueueInv
  <2> QED
    BY ONLY <2>1 DEF Drained
<1>5. Held' \subseteq Held
  BY <1>1, <1>3, <1>4 DEF Held
<1>6. TypeOK' /\ KeysReady'
  <2>1. suspect' \subseteq 1..MaxOps
    BY DEF StartDrain, QueueInv, TypeOK, Rec
  <2> DEFINE n == tab[t].due - 1
  <2>a. n \in Nat /\ tab' = [tab EXCEPT ![t].due = n]
    BY DEF StartDrain, QueueInv, TypeOK, Tab
  <2> HIDE DEF n
  <2>2. tab' \in [Tabs -> Tab]
    BY <2>a, TabFields DEF QueueInv, TypeOK
  <2>3. TypeOK'
    BY <1>4, <2>1, <2>2 DEF StartDrain, QueueInv, TypeOK
  <2>4. KeysReady'
    BY DEF StartDrain, QueueInv, TypeOK, KeysReady, Tab
  <2> QED
    BY <2>3, <2>4
<1>7. IdsGiven'
  BY <1>3, <1>5 DEF QueueInv, IdsGiven
<1>8. DrainHolds'
  BY <1>1, <1>3, <1>4 DEF QueueInv, DrainHolds
<1>9. OneHolder'
  <2> SUFFICES ASSUME NEW i \in (1..MaxOps) \ suspect'
               PROVE  HeldOnce(i)' /\ ExecutedOnce(i)'
    BY DEF OneHolder
  <2>1. HeldOnce(i) /\ ExecutedOnce(i)
    BY <1>3 DEF QueueInv, OneHolder
  <2>2. \A u \in Tabs, e \in Drains : \A r \in queue \cap drain[u][e].items : r.id # i
    BY <1>3
  <2>3. \A u \in Tabs, e \in Drains : \A r \in queue, s \in drain[u][e].items : r.id = i => s.id # i
    BY <2>2 DEF QueueInv, IdsGiven, Held
  <2>4. HeldOnce(i)'
    <3> SUFFICES ASSUME NEW u \in Tabs, NEW v \in Tabs, NEW e \in Drains, NEW f \in Drains,
                        NEW r \in drain'[u][e].items, NEW s \in drain'[v][f].items,
                        r.id = i, s.id = i
                 PROVE  u = v /\ e = f
      BY DEF HeldOnce
    <3>1. CASE u = t /\ e = d
      BY <1>1, <1>4, <2>3, <3>1
    <3>2. CASE v = t /\ f = d
      BY <1>1, <1>4, <2>3, <3>2
    <3>3. CASE ~ (u = t /\ e = d) /\ ~ (v = t /\ f = d)
      <4>1. r \in drain[u][e].items /\ s \in drain[v][f].items
        BY <1>4, <3>3
      <4> QED
        BY <2>1, <4>1 DEF HeldOnce
    <3> QED
      BY <3>1, <3>2, <3>3
  <2>5. ExecutedOnce(i)'
    BY <1>1, <1>3, <1>4, <1>5, <2>1 DEF ExecutedOnce, Deletes
  <2> QED
    BY <2>4, <2>5
<1>10. NothingIsDropped'
  BY <1>3 DEF QueueInv, NothingIsDropped
<1> QED
  BY <1>6, <1>7, <1>8, <1>9, <1>10 DEF QueueInv

(* A drain that leaves a record, or all it had, behind: what it may leave
   has not been executed, or there is a reason to execute it again, or it
   is deleted now.                                                         *)
LEMMA LeavesKeep ==
  ASSUME QueueInv, NEW t \in Tabs, NEW d \in Drains, NEW q \in Drain,
         drain' = [drain EXCEPT ![t][d] = q],
         q.items \subseteq drain[t][d].items,
         q.step = "idle" => q.items = {},
         q.step \in {"send", "delete"} => q.items # {},
         q.step = "delete" => replays'[First(q.items).id] > 0,
         UNCHANGED <<queue, ops>>, suspect \subseteq suspect', TypeOK', KeysReady',
         \A i \in 1..MaxOps : replays'[i] >= replays[i] /\ (replays'[i] > 0 => i <= ops),
         \A i \in (1..MaxOps) \ suspect' :
           \/ replays'[i] = 1 /\ q.step = "delete" /\ First(q.items).id = i
           \/ replays'[i] = replays[i] /\ ~ Deletes(t, d, i)
  PROVE  QueueInv'
<1>1. /\ drain' \in [Tabs -> [Drains -> Drain]]
      /\ drain'[t][d] = q
      /\ \A u \in Tabs, e \in Drains : u # t \/ e # d => drain'[u][e] = drain[u][e]
  <2>1. TypeOK
    BY DEF QueueInv
  <2>2. Drained(t, d, q)
    BY ONLY <2>1, DrainUpdated, t \in Tabs, d \in Drains, q \in Drain, drain' = [drain EXCEPT ![t][d] = q]
  <2> QED
    BY ONLY <2>2 DEF Drained
<1>2. Held' \subseteq Held
  BY <1>1 DEF Held
<1>3. IdsGiven'
  <2>1. \A i \in 1..MaxOps : replays'[i] > 0 => i <= ops'
    OBVIOUS
  <2> QED
    BY <1>2, <2>1 DEF QueueInv, IdsGiven
<1>4. DrainHolds'
  <2> SUFFICES ASSUME NEW u \in Tabs, NEW e \in Drains
               PROVE  DrainHolds!(u, e)'
    BY DEF DrainHolds
  <2>1. CASE u = t /\ e = d
    BY <1>1, <2>1
  <2>2. CASE ~ (u = t /\ e = d)
    <3>1. drain'[u][e] = drain[u][e]
      BY <1>1, <2>2
    <3>2. ASSUME drain[u][e].step = "delete"
          PROVE  replays'[First(drain[u][e].items).id] > 0
      <4>a. drain[u][e].items \in SUBSET Rec /\ drain[u][e].items # {}
        BY <3>2 DEF QueueInv, TypeOK, DrainHolds, Drain
      <4>1. First(drain[u][e].items) \in Rec
        BY <4>a, FirstIsItem
      <4>2. First(drain[u][e].items).id \in 1..MaxOps
        BY <4>1 DEF Rec
      <4> QED
        BY <3>2, <4>2 DEF QueueInv, DrainHolds, TypeOK
    <3> QED
      BY <3>1, <3>2 DEF QueueInv, DrainHolds
  <2> QED
    BY <2>1, <2>2
<1>5. OneHolder'
  <2> SUFFICES ASSUME NEW i \in (1..MaxOps) \ suspect'
               PROVE  HeldOnce(i)' /\ ExecutedOnce(i)'
    BY DEF OneHolder
  <2>1. HeldOnce(i) /\ ExecutedOnce(i)
    BY DEF QueueInv, OneHolder
  <2>2. \A u \in Tabs, e \in Drains : drain'[u][e].items \subseteq drain[u][e].items
    BY <1>1
  <2>3. HeldOnce(i)'
    BY <2>1, <2>2 DEF HeldOnce
  <2>4. CASE replays'[i] = 1 /\ q.step = "delete" /\ First(q.items).id = i
    BY <1>1, <2>3, <2>4 DEF ExecutedOnce, Deletes
  <2>5. CASE replays'[i] = replays[i] /\ ~ Deletes(t, d, i)
    <3>1. \A u \in Tabs, e \in Drains : Deletes(u, e, i) => Deletes(u, e, i)'
      BY <1>1, <2>5 DEF Deletes
    <3> QED
      BY <1>2, <2>1, <2>3, <2>5, <3>1 DEF ExecutedOnce
  <2> QED
    BY <2>3, <2>4, <2>5
<1>6. NothingIsDropped'
  BY DEF QueueInv, NothingIsDropped, TypeOK, IdsGiven
<1> QED
  BY <1>3, <1>4, <1>5, <1>6 DEF QueueInv

(* The next record is one the drain holds already.                         *)
LEMMA NextKeeps ==
  ASSUME QueueInv, NEW t \in Tabs, NEW d \in Drains, NextRecord(t, d)
  PROVE  QueueInv'
<1> DEFINE q == IF drain[t][d].items = {} \/ First(drain[t][d].items).key # tab[t].key
                THEN IdleDrain ELSE [drain[t][d] EXCEPT !.step = "send"]
<1>1. drain[t][d] \in Drain
  BY DEF QueueInv, TypeOK
<1>2. /\ q \in Drain /\ q.items \subseteq drain[t][d].items /\ q.step \in {"idle", "send"}
      /\ q.step = "idle" => q.items = {}
      /\ q.step = "send" => q.items # {}
  BY <1>1 DEF Drain, IdleDrain
<1>3. drain' = [drain EXCEPT ![t][d] = q] /\ drain[t][d].step = "next"
  BY DEF NextRecord
<1> HIDE DEF q
<1>4. TypeOK' /\ KeysReady'
  <2>1. drain' \in [Tabs -> [Drains -> Drain]]
    BY <1>2, <1>3, DrainUpdated DEF QueueInv, Drained
  <2> QED
    BY <2>1 DEF QueueInv, NextRecord, TypeOK, KeysReady
<1>5. \A i \in 1..MaxOps : replays'[i] >= replays[i] /\ (replays'[i] > 0 => i <= ops)
  BY DEF NextRecord, QueueInv, TypeOK, IdsGiven
<1> QED
  BY <1>2, <1>3, <1>4, <1>5, LeavesKeep DEF NextRecord, Deletes

(* What a replay sends was not executed yet, or may be executed again.     *)
LEMMA ReplayKeeps ==
  ASSUME QueueInv, NEW t \in Tabs, NEW d \in Drains, Replay(t, d)
  PROVE  QueueInv'
<1> DEFINE r == First(drain[t][d].items)
<1>1. r \in drain[t][d].items /\ r \in Rec /\ r \in Held
  <2>1. drain[t][d].items \in SUBSET Rec /\ drain[t][d].items # {}
    BY DEF QueueInv, TypeOK, DrainHolds, Drain, Replay
  <2> QED
    BY <2>1, FirstIsItem DEF Held
<1>2. r.id \in 1..MaxOps /\ r.id <= ops
  BY <1>1 DEF Rec, QueueInv, IdsGiven
<1>3. ASSUME r.id \notin suspect PROVE replays[r.id] = 0
  <2>1. HeldOnce(r.id) /\ ExecutedOnce(r.id)
    BY <1>2, <1>3 DEF QueueInv, OneHolder
  <2>2. \A u \in Tabs, e \in Drains : ~ Deletes(u, e, r.id)
    <3> SUFFICES ASSUME NEW u \in Tabs, NEW e \in Drains, Deletes(u, e, r.id)
                 PROVE  FALSE
      OBVIOUS
    <3>1. First(drain[u][e].items) \in drain[u][e].items
      BY FirstIsItem DEF QueueInv, TypeOK, DrainHolds, Drain, Deletes
    <3>2. u = t /\ e = d
      BY <1>1, <2>1, <3>1 DEF HeldOnce, Deletes
    <3> QED
      BY <3>2 DEF Deletes, Replay
  <2>3. replays[r.id] # 1 /\ replays[r.id] <= 1
    BY <1>1, <2>1, <2>2 DEF ExecutedOnce
  <2> QED
    BY <1>2, <2>3 DEF QueueInv, TypeOK
<1>4. drain[t][d] \in Drain /\ drain[t][d].step = "send"
  BY DEF QueueInv, TypeOK, Replay
<1> DEFINE sent == [drain[t][d] EXCEPT !.step = "delete"]
           kept == Kept(drain[t][d])
<1>5. /\ sent \in Drain /\ sent.step = "delete" /\ sent.items = drain[t][d].items
      /\ kept \in Drain /\ kept.step = "next" /\ kept.items \subseteq drain[t][d].items
  BY <1>4, KeptFields DEF Drain
<1>6. \A i \in 1..MaxOps : /\ replays'[i] \in Nat /\ replays'[i] >= replays[i]
                           /\ i # r.id => replays'[i] = replays[i]
                           /\ replays'[r.id] \in {replays[r.id], replays[r.id] + 1}
  <2>1. replays' = replays \/ replays' = [replays EXCEPT ![r.id] = replays[r.id] + 1]
    BY DEF Replay
  <2>2. replays \in [1..MaxOps -> Nat]
    BY DEF QueueInv, TypeOK
  <2>3. PICK j \in 1..MaxOps : j = r.id
    BY <1>2
  <2>4. replays[j] \in Nat
    BY <2>2
  <2>5. replays' = replays \/ replays' = [replays EXCEPT ![j] = replays[j] + 1]
    BY <2>1, <2>3
  <2>6. \A i \in 1..MaxOps : /\ replays'[i] \in Nat /\ replays'[i] >= replays[i]
                             /\ i # j => replays'[i] = replays[i]
                             /\ replays'[j] \in {replays[j], replays[j] + 1}
    <3>1. CASE replays' = replays
      BY <2>2, <2>4, <3>1
    <3>2. CASE replays' = [replays EXCEPT ![j] = replays[j] + 1]
      <4>1. replays'[j] = replays[j] + 1 /\ \A i \in (1..MaxOps) \ {j} : replays'[i] = replays[i]
        BY <2>2, <3>2
      <4>2. \A i \in 1..MaxOps : replays[i] \in Nat
        BY <2>2
      <4> QED
        BY <4>1, <4>2
    <3> QED
      BY <2>5, <3>1, <3>2
  <2> QED
    BY <2>3, <2>6
<1>7. /\ UNCHANGED <<queue, ops>> /\ suspect \subseteq suspect' /\ suspect' \subseteq 1..MaxOps
      /\ \/ drain' = [drain EXCEPT ![t][d] = sent] /\ replays'[r.id] = replays[r.id] + 1
         \/ drain' = [drain EXCEPT ![t][d] = kept] /\ r.id \in suspect'
         \/ drain' = [drain EXCEPT ![t][d] = kept] /\ replays' = replays
  BY <1>2 DEF Replay, QueueInv, TypeOK
<1> HIDE DEF r, sent, kept
<1>8. TypeOK' /\ KeysReady'
  <2>1. drain' \in [Tabs -> [Drains -> Drain]]
    BY <1>5, <1>7, DrainUpdated DEF QueueInv, Drained
  <2>2. replays' \in [1..MaxOps -> Nat]
    BY <1>6 DEF Replay, QueueInv, TypeOK
  <2> QED
    BY <1>7, <2>1, <2>2 DEF Replay, QueueInv, TypeOK, KeysReady
<1>9. \A i \in 1..MaxOps : replays'[i] >= replays[i] /\ (replays'[i] > 0 => i <= ops)
  BY <1>2, <1>6 DEF QueueInv, IdsGiven
<1>10. CASE drain' = [drain EXCEPT ![t][d] = sent] /\ replays'[r.id] = replays[r.id] + 1
  <2>1. First(sent.items) = r /\ sent.items # {} /\ replays'[r.id] > 0
    BY <1>1, <1>2, <1>5, <1>10 DEF r, QueueInv, TypeOK
  <2>2. \A i \in (1..MaxOps) \ suspect' :
           \/ replays'[i] = 1 /\ i = r.id
           \/ replays'[i] = replays[i] /\ ~ Deletes(t, d, i)
    BY <1>3, <1>4, <1>6, <1>7, <1>10 DEF Deletes
  <2> QED
    BY <1>5, <1>7, <1>8, <1>9, <1>10, <2>1, <2>2, LeavesKeep
<1>11. CASE drain' = [drain EXCEPT ![t][d] = kept] /\ (r.id \in suspect' \/ replays' = replays)
  <2>1. \A i \in (1..MaxOps) \ suspect' : replays'[i] = replays[i] /\ ~ Deletes(t, d, i)
    BY <1>4, <1>6, <1>11 DEF Deletes
  <2> QED
    BY <1>5, <1>7, <1>8, <1>9, <1>11, <2>1, LeavesKeep
<1> QED
  BY <1>7, <1>10, <1>11

(* What is deleted was executed.                                           *)
LEMMA DeleteKeeps ==
  ASSUME QueueInv, NEW t \in Tabs, NEW d \in Drains, DeleteRecord(t, d)
  PROVE  QueueInv'
<1> DEFINE r == First(drain[t][d].items)
           q == Kept(drain[t][d])
<1>1. r \in drain[t][d].items /\ r \in Rec /\ r \in Held
  <2>1. drain[t][d].items \in SUBSET Rec /\ drain[t][d].items # {}
    BY DEF QueueInv, TypeOK, DrainHolds, Drain, DeleteRecord
  <2> QED
    BY <2>1, FirstIsItem DEF Held
<1>2. r.id \in 1..MaxOps /\ replays[r.id] > 0
  BY <1>1 DEF Rec, QueueInv, DrainHolds, DeleteRecord
<1>3. /\ q \in Drain /\ q.step = "next" /\ q.items = drain[t][d].items \ {r}
  BY KeptFields DEF QueueInv, TypeOK
<1>4. /\ drain' = [drain EXCEPT ![t][d] = q] /\ queue' = {s \in queue : s.id # r.id}
      /\ UNCHANGED <<ops, replays, suspect>> /\ drain[t][d].step = "delete"
  BY DEF DeleteRecord
<1> HIDE DEF r, q
<1>5. /\ drain' \in [Tabs -> [Drains -> Drain]]
      /\ drain'[t][d] = q
      /\ \A u \in Tabs, e \in Drains : u # t \/ e # d => drain'[u][e] = drain[u][e]
  <2>1. Drained(t, d, q)
    BY <1>3, <1>4, DrainUpdated DEF QueueInv
  <2> QED
    BY ONLY <2>1 DEF Drained
<1>6. Held' \subseteq Held
  BY <1>3, <1>4, <1>5 DEF Held
<1>7. TypeOK' /\ KeysReady'
  BY <1>4, <1>5 DEF DeleteRecord, QueueInv, TypeOK, KeysReady
<1>8. IdsGiven'
  BY <1>4, <1>6 DEF QueueInv, IdsGiven
<1>9. DrainHolds'
  BY <1>3, <1>4, <1>5 DEF QueueInv, DrainHolds
<1>10. OneHolder'
  <2> SUFFICES ASSUME NEW i \in (1..MaxOps) \ suspect'
               PROVE  HeldOnce(i)' /\ ExecutedOnce(i)'
    BY DEF OneHolder
  <2>1. HeldOnce(i) /\ ExecutedOnce(i)
    BY <1>4 DEF QueueInv, OneHolder
  <2>2. \A u \in Tabs, e \in Drains : drain'[u][e].items \subseteq drain[u][e].items
    BY <1>3, <1>5
  <2>3. HeldOnce(i)'
    BY <2>1, <2>2 DEF HeldOnce
  <2>4. CASE i # r.id
    <3>1. \A u \in Tabs, e \in Drains : Deletes(u, e, i) => Deletes(u, e, i)'
      <4>1. ~ Deletes(t, d, i)
        BY <2>4 DEF Deletes, r
      <4> QED
        BY <1>5, <4>1 DEF Deletes
    <3> QED
      BY <1>4, <1>6, <2>1, <2>3, <3>1 DEF ExecutedOnce
  <2>5. CASE i = r.id
    <3>1. \A s \in Held' : s.id # i
      <4> SUFFICES ASSUME NEW s \in Held', s.id = r.id
                   PROVE  FALSE
        BY <2>5
      <4>1. s = r
        BY <1>1, <1>6 DEF QueueInv, IdsGiven
      <4>2. s \notin queue'
        BY <1>4
      <4>3. PICK u \in Tabs, e \in Drains : s \in drain'[u][e].items
        BY <4>2 DEF Held
      <4>4. u = t /\ e = d
        BY <1>1, <2>1, <2>2, <2>5, <4>1, <4>3 DEF HeldOnce
      <4> QED
        BY <1>3, <1>5, <4>1, <4>3, <4>4
    <3> QED
      BY <1>4, <2>1, <2>3, <3>1 DEF ExecutedOnce
  <2> QED
    BY <2>3, <2>4, <2>5
<1>11. NothingIsDropped'
  BY <1>2, <1>4 DEF QueueInv, NothingIsDropped
<1> QED
  BY <1>7, <1>8, <1>9, <1>10, <1>11 DEF QueueInv

(* What ran in a tab that is loaded again is gone, deleted or not.         *)
LEMMA ReloadKeeps ==
  ASSUME QueueInv, NEW t \in Tabs, Reload(t)
  PROVE  QueueInv'
<1>1. /\ UNCHANGED <<queue, ops, replays>> /\ suspect \subseteq suspect'
      /\ \A d \in Drains : drain[t][d].step = "delete" => First(drain[t][d].items).id \in suspect'
  BY DEF Reload
<1>2. /\ drain' \in [Tabs -> [Drains -> Drain]]
      /\ \A d \in Drains : drain'[t][d].step = "idle" /\ drain'[t][d].items = {}
      /\ \A u \in Tabs \ {t} : drain'[u] = drain[u]
  BY DEF Reload, QueueInv, TypeOK, IdleDrain, Drain
<1>3. Held' \subseteq Held
  BY <1>1, <1>2 DEF Held
<1>4. TypeOK' /\ KeysReady'
  <2>1. \A d \in Drains : drain[t][d].step = "delete" => First(drain[t][d].items).id \in 1..MaxOps
    BY FirstIsItem DEF QueueInv, TypeOK, DrainHolds, Drain, Rec
  <2>2. suspect' \subseteq 1..MaxOps
    BY <2>1 DEF Reload, QueueInv, TypeOK
  <2>3. NewTab \in Tab /\ NewTab.keyStep = "none" /\ NewTab.write = "idle"
    BY DEF NewTab, Tab, None
  <2>4. tab' = [tab EXCEPT ![t] = NewTab]
    BY DEF Reload
  <2>5. KeysReady'
    BY <2>3, <2>4 DEF QueueInv, TypeOK, KeysReady
  <2> QED
    BY <1>2, <2>2, <2>3, <2>5 DEF Reload, QueueInv, TypeOK
<1>5. IdsGiven'
  BY <1>1, <1>3 DEF QueueInv, IdsGiven
<1>6. DrainHolds'
  BY <1>1, <1>2 DEF QueueInv, DrainHolds
<1>7. OneHolder'
  <2> SUFFICES ASSUME NEW i \in (1..MaxOps) \ suspect'
               PROVE  HeldOnce(i)' /\ ExecutedOnce(i)'
    BY DEF OneHolder
  <2>1. HeldOnce(i) /\ ExecutedOnce(i)
    BY <1>1 DEF QueueInv, OneHolder
  <2>2. \A u \in Tabs, e \in Drains : drain'[u][e].items \subseteq drain[u][e].items
    BY <1>2
  <2>3. HeldOnce(i)'
    BY <2>1, <2>2 DEF HeldOnce
  <2>4. \A u \in Tabs, e \in Drains : Deletes(u, e, i) => Deletes(u, e, i)'
    BY <1>1, <1>2 DEF Deletes
  <2>5. ExecutedOnce(i)'
    BY <1>1, <1>3, <2>1, <2>4 DEF ExecutedOnce
  <2> QED
    BY <2>3, <2>5
<1>8. NothingIsDropped'
  BY <1>1 DEF QueueInv, NothingIsDropped
<1> QED
  BY <1>4, <1>5, <1>6, <1>7, <1>8 DEF QueueInv

(* Every step of the tabs and of the network keeps the invariant.          *)
LEMMA QueueStep ==
  ASSUME QueueInv, [Next]_vars
  PROVE  QueueInv'
<1>1. CASE UNCHANGED vars
  BY <1>1, TabKeeps DEF vars, QueueInv, TypeOK, KeysReady
<1>2. ASSUME NEW t \in Tabs, TabStep(t) \/ FailOffline(t) \/ Reload(t)
      PROVE  QueueInv'
  BY <1>2, KeyKeeps, WriteKeeps, AddKeeps, StartKeeps, NextKeeps, ReplayKeeps, DeleteKeeps, ReloadKeeps
  DEF TabStep
<1> QED
  BY <1>1, <1>2, NetworkKeeps DEF Next

-----------------------------------------------------------------------------
(* SessionPage.  A session lasts longer than the warning before its end.   *)
PageAssumption ==
  /\ Ttl \in Nat /\ Warning \in Nat /\ Throttle \in Nat /\ MaxDelay \in Nat
  /\ MaxTokens \in Nat /\ MaxPageTime \in Nat
  /\ Warning <= Ttl

Lag == IF Throttle < MaxDelay THEN MaxDelay ELSE Throttle

(* A request has been under way for as long as one may be, at most.        *)
Waits(r) == r.since <= now /\ (r.step # "idle" => now <= r.since + MaxDelay)

(* The timer runs unless the banner is shown, and is never overdue.        *)
TimerRuns ==
  /\ banner <=> timer = Page!None
  /\ ~banner => now <= timer /\ timer <= now + Ttl - Warning

(* Redis: a key is refreshed to its full time to live.                     *)
KeysLive ==
  \A t \in Page!Tokens :
    /\ expires[t] <= now + Ttl
    /\ refreshed[t] # Page!None => expires[t] = refreshed[t] + Ttl

(* What an answer says of the key of its token.                            *)
AnswersHold ==
  /\ create.step = "ok" => create.token \in Page!Tokens /\ create.since + Ttl <= expires[create.token]
  /\ extend.step = "ok" => /\ extend.token \in Page!Tokens
                           /\ extend.since + Ttl <= expires[extend.token] + Throttle

(* The timer ends soon after the session, whichever token it was reset
   for: an extension that is under way for another token was asked for
   before the session's was created.                                       *)
TimerFollows ==
  token # Page!NoToken =>
    /\ expires[token] # Page!None
    /\ ~banner => timer + Warning <= expires[token] + MaxDelay + Lag
    /\ extend.step # "idle" /\ extend.token # token => extend.since + Ttl <= expires[token] + MaxDelay

PageInv ==
  /\ Page!TypeOK /\ Waits(create) /\ Waits(extend)
  /\ TimerRuns /\ KeysLive /\ AnswersHold /\ TimerFollows

(* The page begins without a session.                                      *)
LEMMA InitPage == PageAssumption /\ Page!Init => PageInv
<1> SUFFICES ASSUME PageAssumption, Page!Init PROVE PageInv
  OBVIOUS
<1>1. Page!TypeOK
  <2>1. Page!Idle \in Page!Request
    BY DEF Page!Idle, Page!Request, Page!NoToken, PageAssumption
  <2>2. Ttl - Warning \in Nat /\ 0 \in 0..MaxPageTime /\ 0 \in 0..MaxTokens
    BY DEF PageAssumption
  <2> QED
    BY <2>1, <2>2 DEF Page!Init, Page!TypeOK, Page!NoToken
<1> QED
  BY <1>1 DEF Page!Init, PageInv, Waits, TimerRuns, KeysLive, AnswersHold, TimerFollows, Page!Idle,
     Page!None, Page!NoToken, PageAssumption, Page!Tokens

(* A step of the server changes the keys and what a request was answered.  *)
LEMMA ServerKeeps ==
  ASSUME PageAssumption, PageInv,
         UNCHANGED <<now, token, banner, timer>>,
         Page!TypeOK', KeysLive', AnswersHold',
         \A t \in Page!Tokens : expires'[t] >= expires[t],
         create'.since = create.since, create'.step # "idle" => create.step # "idle",
         extend'.since = extend.since, extend'.step # "idle" => extend.step # "idle",
         extend'.token = extend.token
  PROVE  PageInv'
<1>1. Waits(create)' /\ Waits(extend)'
  BY DEF PageInv, Waits
<1>2. TimerRuns'
  BY DEF PageInv, TimerRuns
<1>3. TimerFollows'
  <2> SUFFICES ASSUME token # Page!NoToken
               PROVE  TimerFollows!2'
    BY DEF TimerFollows
  <2>1. token \in Page!Tokens /\ expires[token] \in Nat /\ expires'[token] \in Int
        /\ expires'[token] >= expires[token]
    BY DEF PageInv, Page!TypeOK, TimerFollows, Page!Tokens, Page!NoToken, PageAssumption, Page!None
  <2>2. /\ timer \in Int /\ extend.since \in Int /\ Lag \in Int
    BY DEF PageInv, Page!TypeOK, Page!Request, PageAssumption, Page!None, Lag
  <2> QED
    BY <2>1, <2>2 DEF PageInv, TimerFollows, PageAssumption, Page!None
<1> QED
  BY <1>1, <1>2, <1>3 DEF PageInv

(* A key that is refreshed ends no earlier than before.                    *)
LEMMA RefreshGrows ==
  ASSUME PageAssumption, PageInv, NEW t \in Page!Tokens, now < expires[t], Page!Refresh(t), now' = now
  PROVE  /\ KeysLive'
         /\ expires' \in [Page!Tokens -> Nat \cup {Page!None}]
         /\ refreshed' \in [Page!Tokens -> Nat \cup {Page!None}]
         /\ \A u \in Page!Tokens : expires'[u] >= expires[u]
         /\ now + Ttl <= expires'[t] + Throttle
<1>1. /\ now \in Nat /\ Ttl \in Nat /\ Throttle \in Nat
      /\ expires \in [Page!Tokens -> Nat \cup {-1}]
      /\ refreshed \in [Page!Tokens -> Nat \cup {-1}]
      /\ \A u \in Page!Tokens : /\ expires[u] <= now + Ttl
                                /\ refreshed[u] # -1 => expires[u] = refreshed[u] + Ttl
  BY DEF PageInv, KeysLive, Page!TypeOK, PageAssumption, Page!None
<1>2. CASE refreshed[t] # -1 /\ now - refreshed[t] <= Throttle
  <2>1. UNCHANGED <<expires, refreshed>>
    BY <1>2 DEF Page!Refresh, Page!None
  <2> QED
    BY <1>1, <1>2, <2>1 DEF KeysLive, Page!None
<1>3. CASE ~ (refreshed[t] # -1 /\ now - refreshed[t] <= Throttle)
  <2>1. expires' = [expires EXCEPT ![t] = now + Ttl] /\ refreshed' = [refreshed EXCEPT ![t] = now]
    BY <1>3 DEF Page!Refresh, Page!None
  <2>2. \A u \in Page!Tokens : /\ expires'[u] = IF u = t THEN now + Ttl ELSE expires[u]
                              /\ refreshed'[u] = IF u = t THEN now ELSE refreshed[u]
    BY <1>1, <2>1
  <2>3. now + Ttl \in Nat
    BY <1>1
  <2>4. /\ expires' \in [Page!Tokens -> Nat \cup {-1}]
        /\ refreshed' \in [Page!Tokens -> Nat \cup {-1}]
    BY <1>1, <2>1, <2>3
  <2>5. KeysLive'
    BY <1>1, <2>2 DEF KeysLive, Page!None
  <2>6. \A u \in Page!Tokens : expires'[u] >= expires[u]
    BY <1>1, <2>2
  <2> QED
    BY <1>1, <2>2, <2>4, <2>5, <2>6 DEF Page!None
<1> QED
  BY <1>2, <1>3

(* The server makes a key, and answers with its token.                     *)
LEMMA ServeCreateKeeps ==
  ASSUME PageAssumption, PageInv, Page!ServeCreate
  PROVE  PageInv'
<1>1. PICK t \in Page!Tokens : /\ expires[t] = -1
                              /\ expires' = [expires EXCEPT ![t] = now + Ttl]
                              /\ create' = [create EXCEPT !.step = "ok", !.token = t]
  BY DEF Page!ServeCreate, Page!Answered, Page!None
<1>2. create.step = "sent" /\ UNCHANGED <<now, token, banner, timer, extend, refreshed>>
  BY DEF Page!ServeCreate
<1>3. /\ now \in Nat /\ Ttl \in Nat /\ now + Ttl \in Nat
      /\ expires \in [Page!Tokens -> Nat \cup {-1}]
      /\ \A u \in Page!Tokens : /\ expires[u] <= now + Ttl
                                /\ refreshed[u] # -1 => expires[u] = refreshed[u] + Ttl
      /\ refreshed \in [Page!Tokens -> Nat \cup {-1}]
  BY DEF PageInv, KeysLive, Page!TypeOK, PageAssumption, Page!None
<1>4. \A u \in Page!Tokens : expires'[u] = IF u = t THEN now + Ttl ELSE expires[u]
  BY <1>1, <1>3
<1>5. expires' \in [Page!Tokens -> Nat \cup {-1}]
  BY <1>1, <1>3
<1>6. /\ create' \in Page!Request /\ create'.since = create.since /\ create'.step = "ok" /\ create'.token = t
  <2>1. create \in Page!Request /\ t \in 0..MaxTokens
    BY DEF PageInv, Page!TypeOK, Page!Tokens, PageAssumption
  <2> QED
    BY <1>1, <2>1 DEF Page!Request
<1>7. Page!TypeOK'
  BY <1>2, <1>5, <1>6 DEF PageInv, Page!TypeOK, Page!None
<1>8. KeysLive'
  <2>1. refreshed[t] = -1
    BY <1>1, <1>3
  <2> QED
    BY <1>2, <1>3, <1>4, <2>1 DEF KeysLive, Page!None
<1>9. \A u \in Page!Tokens : expires'[u] >= expires[u]
  BY <1>1, <1>3, <1>4
<1>10. AnswersHold'
  <2>1. create.since <= now /\ create.since \in Nat /\ extend.since \in Nat
    BY DEF PageInv, Waits, Page!TypeOK, Page!Request, PageAssumption
  <2>2. \A u \in Page!Tokens : expires'[u] \in Int /\ expires[u] \in Int
    BY <1>3, <1>5
  <2> QED
    BY <1>2, <1>3, <1>4, <1>6, <1>9, <2>1, <2>2 DEF PageInv, AnswersHold, PageAssumption
<1> QED
  BY <1>2, <1>6, <1>7, <1>8, <1>9, <1>10, ServerKeeps

(* The server refreshes a key, or not, and says so.                        *)
LEMMA ServeExtendKeeps ==
  ASSUME PageAssumption, PageInv, Page!ServeExtend
  PROVE  PageInv'
<1>1. extend.step = "sent" /\ extend.token # Page!NoToken /\ UNCHANGED <<now, token, banner, timer, create>>
  BY DEF Page!ServeExtend
<1>2. extend.token \in Page!Tokens /\ extend \in Page!Request
  BY <1>1 DEF PageInv, Page!TypeOK, Page!Request, Page!Tokens, Page!NoToken, PageAssumption
<1>3. \A u \in Page!Tokens : expires[u] \in Int
  BY DEF PageInv, Page!TypeOK, Page!None
<1>4. create.since \in Int /\ extend.since \in Int /\ extend.since <= now /\ now \in Int
  BY DEF PageInv, Waits, Page!TypeOK, Page!Request, PageAssumption
<1>5. CASE now < expires[extend.token] /\ Page!Refresh(extend.token) /\ extend' = [extend EXCEPT !.step = "ok"]
  <2>1. /\ extend' \in Page!Request /\ extend'.since = extend.since /\ extend'.step = "ok"
        /\ extend'.token = extend.token
    BY <1>2, <1>5 DEF Page!Request
  <2>2. /\ KeysLive'
        /\ expires' \in [Page!Tokens -> Nat \cup {Page!None}]
        /\ refreshed' \in [Page!Tokens -> Nat \cup {Page!None}]
        /\ \A u \in Page!Tokens : expires'[u] >= expires[u]
        /\ now + Ttl <= expires'[extend.token] + Throttle
    BY <1>1, <1>2, <1>5, RefreshGrows
  <2>3. Page!TypeOK'
    BY <1>1, <2>1, <2>2 DEF PageInv, Page!TypeOK
  <2>4. \A u \in Page!Tokens : expires'[u] \in Int
    BY <2>2 DEF Page!None
  <2>5. AnswersHold'
    BY <1>1, <1>2, <1>3, <1>4, <2>1, <2>2, <2>4 DEF PageInv, AnswersHold, PageAssumption
  <2> QED
    BY <1>1, <2>1, <2>2, <2>3, <2>5, ServerKeeps
<1>6. CASE extend' = [extend EXCEPT !.step = "failed"] /\ UNCHANGED <<expires, refreshed>>
  <2>1. /\ extend' \in Page!Request /\ extend'.since = extend.since /\ extend'.step = "failed"
        /\ extend'.token = extend.token
    BY <1>2, <1>6 DEF Page!Request
  <2>2. Page!TypeOK' /\ KeysLive' /\ AnswersHold'
    BY <1>1, <1>6, <2>1 DEF PageInv, Page!TypeOK, KeysLive, AnswersHold
  <2> QED
    BY <1>1, <1>3, <1>6, <2>1, <2>2, ServerKeeps
<1>7. [extend EXCEPT !.token = extend.token] = extend
  BY <1>2 DEF Page!Request
<1>8. /\ Page!Answered(extend, "ok", extend.token) = [extend EXCEPT !.step = "ok"]
      /\ Page!Answered(extend, "failed", extend.token) = [extend EXCEPT !.step = "failed"]
  BY <1>2 DEF Page!Request, Page!Answered
<1> QED
  BY <1>5, <1>6, <1>8 DEF Page!ServeExtend, Page!Alive

(* Another client refreshes a key.                                         *)
LEMMA ActivityKeeps ==
  ASSUME PageAssumption, PageInv, NEW t \in Page!Tokens, Page!Activity(t)
  PROVE  PageInv'
<1>1. UNCHANGED <<now, token, banner, timer, create, extend>> /\ now < expires[t] /\ Page!Refresh(t)
  BY DEF Page!Activity, Page!Alive
<1>2. /\ KeysLive'
      /\ expires' \in [Page!Tokens -> Nat \cup {Page!None}]
      /\ refreshed' \in [Page!Tokens -> Nat \cup {Page!None}]
      /\ \A u \in Page!Tokens : expires'[u] >= expires[u]
  BY <1>1, RefreshGrows
<1>3. Page!TypeOK'
  BY <1>1, <1>2 DEF PageInv, Page!TypeOK
<1>4. AnswersHold'
  <2>1. create.since \in Int /\ extend.since \in Int
    BY DEF PageInv, Page!TypeOK, Page!Request
  <2>2. \A u \in Page!Tokens : expires'[u] \in Int /\ expires[u] \in Int
    BY <1>2 DEF Page!None, PageInv, Page!TypeOK
  <2> QED
    BY <1>1, <1>2, <2>1, <2>2 DEF PageInv, AnswersHold, PageAssumption
<1> QED
  BY <1>1, <1>2, <1>3, <1>4, ServerKeeps

(* The page sends a request, for the session it has.                       *)
LEMMA ClickKeeps ==
  ASSUME PageAssumption, PageInv, Page!ClickCreate \/ Page!ClickExtend
  PROVE  PageInv'
<1> DEFINE sent(t) == [step |-> "sent", token |-> t, since |-> now]
<1>1. \A t \in 0..MaxTokens : sent(t) \in Page!Request
  BY DEF PageInv, Page!TypeOK, Page!Request
<1>2. \A t \in 0..MaxTokens : sent(t).step = "sent" /\ sent(t).since = now /\ sent(t).token = t
  OBVIOUS
<1>3. now \in Nat /\ MaxDelay \in Nat /\ token \in 0..MaxTokens /\ 0 \in 0..MaxTokens
  BY DEF PageInv, Page!TypeOK, PageAssumption
<1>4. CASE Page!ClickCreate
  <2>1. create' = sent(0) /\ UNCHANGED <<now, token, banner, timer, extend, expires, refreshed>>
    BY <1>4 DEF Page!ClickCreate, Page!Sent, Page!NoToken
  <2> HIDE DEF sent
  <2>2. Page!TypeOK'
    BY <1>1, <1>3, <2>1 DEF PageInv, Page!TypeOK
  <2>3. /\ Waits(create)' /\ Waits(extend)' /\ TimerRuns' /\ KeysLive' /\ AnswersHold' /\ TimerFollows'
    BY <1>2, <1>3, <2>1 DEF PageInv, Waits, TimerRuns, KeysLive, AnswersHold, TimerFollows
  <2> QED
    BY <2>2, <2>3 DEF PageInv
<1>5. CASE Page!ClickExtend
  <2>1. extend' = sent(token) /\ UNCHANGED <<now, token, banner, timer, create, expires, refreshed>>
    BY <1>5 DEF Page!ClickExtend, Page!Sent
  <2> HIDE DEF sent
  <2>2. Page!TypeOK'
    BY <1>1, <1>3, <2>1 DEF PageInv, Page!TypeOK
  <2>3. /\ Waits(create)' /\ Waits(extend)' /\ TimerRuns' /\ KeysLive' /\ AnswersHold' /\ TimerFollows'
    BY <1>2, <1>3, <2>1 DEF PageInv, Waits, TimerRuns, KeysLive, AnswersHold, TimerFollows
  <2> QED
    BY <2>2, <2>3 DEF PageInv
<1> QED
  BY <1>4, <1>5

(* A request that is over is gone.                                         *)
LEMMA IdleHolds ==
  ASSUME PageAssumption, PageInv
  PROVE  /\ Page!Idle \in Page!Request /\ Page!Idle.step = "idle" /\ Page!Idle.since = 0
         /\ now \in Nat /\ Ttl \in Nat /\ Warning \in Nat /\ MaxDelay \in Nat /\ Throttle \in Nat
         /\ Lag \in Nat /\ Lag >= Throttle /\ Lag >= MaxDelay
         /\ now + Ttl - Warning \in Nat /\ now + Ttl - Warning >= now
         /\ create.since \in Nat /\ extend.since \in Nat
         /\ \A t \in Page!Tokens : expires[t] \in Int
         /\ token # 0 => token \in Page!Tokens
         /\ timer # -1 => timer \in Nat
  BY DEF Page!Idle, Page!Request, Page!NoToken, PageAssumption, PageInv, Page!TypeOK, Lag, Page!None, Page!Tokens

(* The page has the token of the answer; its timer goes on.                *)
LEMMA CreateReturnsKeeps ==
  ASSUME PageAssumption, PageInv, Page!CreateReturns
  PROVE  PageInv'
<1>1. /\ create.step = "ok" /\ token' = create.token /\ create' = Page!Idle
      /\ UNCHANGED <<now, banner, timer, extend, expires, refreshed>>
  BY DEF Page!CreateReturns
<1>2. create.token \in Page!Tokens /\ create.since + Ttl <= expires[create.token]
  BY <1>1 DEF PageInv, AnswersHold
<1>3. Page!TypeOK'
  <2>1. create.token \in 0..MaxTokens
    BY DEF PageInv, Page!TypeOK, Page!Request
  <2> QED
    BY <1>1, <2>1, IdleHolds DEF PageInv, Page!TypeOK
<1>4. Waits(create)' /\ Waits(extend)' /\ TimerRuns' /\ KeysLive' /\ AnswersHold'
  BY <1>1, IdleHolds DEF PageInv, Waits, TimerRuns, KeysLive, AnswersHold
<1>5. TimerFollows'
  <2>1. now <= create.since + MaxDelay
    BY <1>1 DEF PageInv, Waits
  <2>2. expires[create.token] # -1
    BY <1>2, IdleHolds
  <2>3. ~banner => timer + Warning <= expires[create.token] + MaxDelay + Lag
    BY <1>2, <2>1, IdleHolds DEF PageInv, TimerRuns, Page!None
  <2>4. extend.since + Ttl <= expires[create.token] + MaxDelay
    BY <1>2, <2>1, IdleHolds DEF PageInv, Waits
  <2> QED
    BY <1>1, <2>2, <2>3, <2>4 DEF TimerFollows, Page!None
<1> QED
  BY <1>3, <1>4, <1>5 DEF PageInv

(* The timer is reset for an extension that was made or simulated.         *)
LEMMA ExtendReturnsKeeps ==
  ASSUME PageAssumption, PageInv, Page!ExtendReturns
  PROVE  PageInv'
<1>1. /\ extend.step # "idle" /\ extend' = Page!Idle
      /\ UNCHANGED <<now, token, create, expires, refreshed>>
      /\ \/ UNCHANGED <<banner, timer>>
         \/ /\ banner' = FALSE /\ timer' = now + Ttl - Warning
            /\ extend.step = "ok" \/ extend.token = 0
  BY DEF Page!ExtendReturns, Page!ResetTimer, Page!NoToken
<1>2. Page!TypeOK'
  BY <1>1, IdleHolds DEF PageInv, Page!TypeOK
<1>3. Waits(create)' /\ Waits(extend)' /\ KeysLive' /\ AnswersHold'
  BY <1>1, IdleHolds DEF PageInv, Waits, KeysLive, AnswersHold
<1>4. TimerRuns'
  BY <1>1, IdleHolds DEF PageInv, TimerRuns, Page!None
<1>5. TimerFollows'
  <2> SUFFICES ASSUME token # 0, timer' = now + Ttl - Warning, extend.step = "ok" \/ extend.token = 0
               PROVE  timer' + Warning <= expires[token] + MaxDelay + Lag
    BY <1>1, IdleHolds DEF PageInv, TimerFollows, Page!NoToken
  <2>1. now <= extend.since + MaxDelay
    BY <1>1 DEF PageInv, Waits
  <2>2. CASE extend.token = token
    <3>1. extend.since + Ttl <= expires[token] + Throttle
      BY <2>2 DEF PageInv, AnswersHold
    <3> QED
      BY <2>1, <3>1, IdleHolds
  <2>3. CASE extend.token # token
    <3>1. extend.since + Ttl <= expires[token] + MaxDelay
      BY <1>1, <2>3 DEF PageInv, TimerFollows, Page!NoToken
    <3> QED
      BY <2>1, <3>1, IdleHolds
  <2> QED
    BY <2>2, <2>3
<1> QED
  BY <1>2, <1>3, <1>4, <1>5 DEF PageInv

(* A request fails, the warning comes, time passes, the page is loaded.    *)
LEMMA PageTimeKeeps ==
  ASSUME PageAssumption, PageInv, Page!Fail \/ Page!Warn \/ Page!Tick \/ Page!Reload
  PROVE  PageInv'
<1>1. CASE Page!Fail
  <2>1. /\ \/ create' = Page!Idle /\ UNCHANGED extend
           \/ extend' = Page!Idle /\ UNCHANGED create
        /\ UNCHANGED <<now, token, banner, timer, expires, refreshed>>
    BY <1>1 DEF Page!Fail
  <2>2. Page!TypeOK'
    BY <2>1, IdleHolds DEF PageInv, Page!TypeOK
  <2>3. Waits(create)' /\ Waits(extend)' /\ KeysLive' /\ AnswersHold' /\ TimerRuns' /\ TimerFollows'
    BY <2>1, IdleHolds DEF PageInv, Waits, KeysLive, AnswersHold, TimerRuns, TimerFollows
  <2> QED
    BY <2>2, <2>3 DEF PageInv
<1>2. CASE Page!Warn
  <2>1. /\ banner' = TRUE /\ timer' = Page!None
        /\ UNCHANGED <<now, token, create, extend, expires, refreshed>>
    BY <1>2 DEF Page!Warn
  <2>2. Page!TypeOK'
    BY <2>1 DEF PageInv, Page!TypeOK
  <2>3. Waits(create)' /\ Waits(extend)' /\ KeysLive' /\ AnswersHold' /\ TimerRuns' /\ TimerFollows'
    BY <2>1 DEF PageInv, Waits, KeysLive, AnswersHold, TimerRuns, TimerFollows
  <2> QED
    BY <2>2, <2>3 DEF PageInv
<1>3. CASE Page!Tick
  <2>1. /\ now' = now + 1 /\ now < MaxPageTime
        /\ timer = -1 \/ now < timer
        /\ create.step # "idle" => now - create.since < MaxDelay
        /\ extend.step # "idle" => now - extend.since < MaxDelay
        /\ UNCHANGED <<token, banner, timer, create, extend, expires, refreshed>>
    BY <1>3 DEF Page!Tick, Page!None
  <2>2. Page!TypeOK'
    <3>1. now' \in 0..MaxPageTime
      BY <2>1 DEF PageInv, Page!TypeOK, PageAssumption
    <3> QED
      BY <2>1, <3>1 DEF PageInv, Page!TypeOK
  <2>3. Waits(create)' /\ Waits(extend)'
    BY <2>1, IdleHolds DEF PageInv, Waits
  <2>4. KeysLive'
    BY <2>1, IdleHolds DEF PageInv, KeysLive
  <2>5. TimerRuns'
    BY <2>1, IdleHolds DEF PageInv, TimerRuns, Page!None
  <2>6. AnswersHold' /\ TimerFollows'
    BY <2>1 DEF PageInv, AnswersHold, TimerFollows
  <2> QED
    BY <2>2, <2>3, <2>4, <2>5, <2>6 DEF PageInv
<1>4. CASE Page!Reload
  <2>1. /\ token' = 0 /\ banner' = FALSE /\ timer' = now + Ttl - Warning
        /\ create' = Page!Idle /\ extend' = Page!Idle
        /\ UNCHANGED <<now, expires, refreshed>>
    BY <1>4 DEF Page!Reload, Page!ResetTimer, Page!NoToken
  <2>2. Page!TypeOK'
    <3>1. 0 \in 0..MaxTokens
      BY DEF PageAssumption
    <3> QED
      BY <2>1, <3>1, IdleHolds DEF PageInv, Page!TypeOK
  <2>3. Waits(create)' /\ Waits(extend)' /\ KeysLive' /\ AnswersHold'
    BY <2>1, IdleHolds DEF PageInv, Waits, KeysLive, AnswersHold
  <2>4. TimerRuns' /\ TimerFollows'
    BY <2>1, IdleHolds DEF PageInv, TimerRuns, TimerFollows, Page!None, Page!NoToken
  <2> QED
    BY <2>2, <2>3, <2>4 DEF PageInv
<1> QED
  BY <1>1, <1>2, <1>3, <1>4

(* Every step of the page, the server and the clock keeps the invariant.   *)
LEMMA PageStep ==
  ASSUME PageAssumption, PageInv, [Page!Next]_pageVars
  PROVE  PageInv'
<1>1. CASE UNCHANGED pageVars
  BY <1>1 DEF pageVars, PageInv, Page!TypeOK, Waits, TimerRuns, KeysLive, AnswersHold, TimerFollows
<1>2. CASE Page!Next
  BY <1>2, ServeCreateKeeps, ServeExtendKeeps, ActivityKeeps, ClickKeeps, CreateReturnsKeeps,
     ExtendReturnsKeeps, PageTimeKeeps DEF Page!Next
<1> QED
  BY <1>1, <1>2

(* What the page shows follows from when its timer ends.                   *)
LEMMA PageWarns == PageAssumption /\ PageInv => Page!WarnedInTime
<1> SUFFICES ASSUME PageAssumption, PageInv, token # 0, ~banner
             PROVE  now <= expires[token] + MaxDelay + (Lag - Warning)
  BY DEF Page!WarnedInTime, Lag, Page!NoToken
<1>1. timer \in Nat /\ now <= timer
  BY IdleHolds DEF PageInv, TimerRuns, Page!None
<1>2. timer + Warning <= expires[token] + MaxDelay + Lag /\ expires[token] \in Int
  BY IdleHolds DEF PageInv, TimerFollows, Page!NoToken
<1> QED
  BY <1>1, <1>2, IdleHolds

-----------------------------------------------------------------------------
(* ServiceWorker.                                                          *)
WorkerAssumption == MaxRelease \in Nat \ {0} /\ STATIC_ASSETS \subseteq Assets

Cache == [version : 1..MaxRelease, holds : [Assets -> 0..MaxRelease]]

(* There is one cache for a release; what it holds is no older than that.  *)
CachesHold ==
  /\ caches \in Seq(Cache)
  /\ \A i, j \in 1..Len(caches) : caches[i].version = caches[j].version => i = j
  /\ \A i \in 1..Len(caches) :
       /\ caches[i].version <= release
       /\ \A a \in Assets : caches[i].holds[a] # 0 => caches[i].version <= caches[i].holds[a]

(* The cache of the worker that answers comes first, and is complete.      *)
OwnCacheFirst ==
  active # 0 =>
    /\ Len(caches) > 0 /\ caches[1].version = active
    /\ \A a \in STATIC_ASSETS : caches[1].holds[a] # 0

WorkerInv ==
  /\ Worker!TypeOK /\ CachesHold /\ OwnCacheFirst
  /\ active <= release
  /\ \A f \in fetches : f.worker <= f.from /\ f.from <= release
  /\ Worker!StaticAssetsAreCurrent

(* Nothing is installed at first.                                          *)
LEMMA InitWorker == WorkerAssumption /\ Worker!Init => WorkerInv
<1> SUFFICES ASSUME WorkerAssumption, Worker!Init PROVE WorkerInv
  OBVIOUS
<1>1. caches = <<>> /\ Len(caches) = 0 /\ caches \in Seq(Cache)
  BY DEF Worker!Init
<1>2. Worker!TypeOK
  BY <1>1 DEF Worker!Init, Worker!TypeOK, Worker!None, WorkerAssumption
<1> QED
  BY <1>1, <1>2 DEF Worker!Init, WorkerInv, CachesHold, OwnCacheFirst, Worker!None, Worker!StaticAssetsAreCurrent,
     WorkerAssumption

(* What is put into a cache leaves the other caches, and their order, and
   whatever was in it that was not put again.                              *)
LEMMA PutKeeps ==
  ASSUME WorkerAssumption, Worker!TypeOK, CachesHold, NEW v \in 1..release,
         NEW got \in [Assets -> 0..MaxRelease],
         \A a \in Assets : got[a] # 0 => v <= got[a],
         Worker!Put(v, got), release' = release
  PROVE  /\ CachesHold' /\ Len(caches) <= Len(caches')
         /\ \A i \in 1..Len(caches) :
              /\ caches'[i].version = caches[i].version
              /\ \A a \in Assets : caches[i].holds[a] # 0 => caches'[i].holds[a] # 0
<1> DEFINE new == [version |-> v, holds |-> Worker!Empty]
           opened == IF v \in Worker!Names THEN caches ELSE Append(caches, new)
           Filled(c) == [c EXCEPT !.holds = [a \in Assets |-> IF got[a] # 0 THEN got[a] ELSE c.holds[a]]]
<1>1. release \in 1..MaxRelease /\ v \in 1..MaxRelease /\ MaxRelease \in Nat
  BY DEF Worker!TypeOK, WorkerAssumption
<1>2. new \in Cache /\ new.version = v /\ \A a \in Assets : new.holds[a] = 0
  BY <1>1 DEF Cache, Worker!Empty, Worker!None
<1>3. caches \in Seq(Cache) /\ Len(caches) \in Nat /\ DOMAIN caches = 1..Len(caches)
      /\ \A i \in 1..Len(caches) : caches[i] \in Cache
  BY DEF CachesHold
<1>4. /\ opened \in Seq(Cache) /\ Len(opened) \in Nat /\ DOMAIN opened = 1..Len(opened)
      /\ Len(caches) <= Len(opened)
      /\ \A i \in 1..Len(caches) : opened[i] = caches[i]
      /\ \A i \in 1..Len(opened) : i \notin 1..Len(caches) => opened[i] = new
      /\ \A i, j \in 1..Len(opened) : opened[i].version = opened[j].version => i = j
  <2> HIDE DEF new
  <2>1. CASE v \in Worker!Names
    BY <1>3, <2>1 DEF CachesHold
  <2>2. CASE v \notin Worker!Names
    <3>1. opened = Append(caches, new)
      BY <2>2
    <3>2. /\ opened \in Seq(Cache) /\ Len(opened) = Len(caches) + 1
          /\ \A i \in 1..Len(caches) : opened[i] = caches[i]
          /\ opened[Len(caches) + 1] = new
      <4>1. new \in Cache /\ caches \in Seq(Cache)
        BY <1>2, <1>3
      <4>2. /\ Append(caches, new) \in Seq(Cache) /\ Len(Append(caches, new)) = Len(caches) + 1
            /\ \A i \in 1..Len(caches) : Append(caches, new)[i] = caches[i]
            /\ Append(caches, new)[Len(caches) + 1] = new
        BY ONLY <4>1, AppendProperties
      <4> QED
        BY <3>1, <4>2
    <3>3. \A i \in 1..Len(caches) : caches[i].version # v
      BY <1>3, <2>2 DEF Worker!Names
    <3> HIDE DEF opened
    <3>4. DOMAIN opened = 1..Len(opened)
      BY <3>2, LenProperties
    <3>5. \A i \in 1..Len(opened) : i \in 1..Len(caches) \/ i = Len(caches) + 1
      BY <1>3, <3>2
    <3>6. \A i, j \in 1..Len(opened) : opened[i].version = opened[j].version => i = j
      BY <1>2, <3>2, <3>3, <3>5 DEF CachesHold
    <3> QED
      BY <1>3, <3>2, <3>4, <3>5, <3>6
  <2> QED
    BY <2>1, <2>2
<1>5. caches' = [i \in DOMAIN opened |-> IF opened[i].version = v THEN Filled(opened[i]) ELSE opened[i]]
  BY DEF Worker!Put, Worker!None
<1> HIDE DEF new, opened
<1>6. \A c \in Cache : /\ Filled(c) \in Cache /\ Filled(c).version = c.version
                       /\ \A a \in Assets : Filled(c).holds[a] = IF got[a] # 0 THEN got[a] ELSE c.holds[a]
  BY DEF Cache
<1> HIDE DEF Filled
<1>7. \A i \in 1..Len(opened) :
        /\ caches'[i] \in Cache /\ caches'[i].version = opened[i].version
        /\ \A a \in Assets :
             caches'[i].holds[a] = IF opened[i].version = v /\ got[a] # 0 THEN got[a] ELSE opened[i].holds[a]
  BY <1>4, <1>5, <1>6
<1>8. caches' \in Seq(Cache) /\ Len(caches') = Len(opened)
  <2>1. caches' \in [1..Len(opened) -> Cache]
    BY <1>4, <1>5, <1>7
  <2> QED
    BY <1>4, <2>1
<1>9. \A i \in 1..Len(opened) :
        /\ opened[i].version <= release
        /\ \A a \in Assets : opened[i].holds[a] # 0 => opened[i].version <= opened[i].holds[a]
  BY <1>1, <1>2, <1>4 DEF CachesHold
<1>10. CachesHold'
  <2>1. \A i \in 1..Len(caches') :
          \A a \in Assets : caches'[i].holds[a] # 0 => caches'[i].version <= caches'[i].holds[a]
    BY <1>7, <1>8, <1>9
  <2> QED
    BY <1>4, <1>7, <1>8, <1>9, <2>1 DEF CachesHold
<1>11. \A i \in 1..Len(caches) :
              /\ caches'[i].version = caches[i].version
              /\ \A a \in Assets : caches[i].holds[a] # 0 => caches'[i].holds[a] # 0
  BY <1>3, <1>4, <1>7
<1> QED
  BY <1>4, <1>8, <1>10, <1>11

(* Whatever is put, what the active worker has stays.                      *)
LEMMA PutKeepsOwn ==
  ASSUME WorkerAssumption, WorkerInv, NEW v \in 1..release,
         NEW got \in [Assets -> 0..MaxRelease],
         \A a \in Assets : got[a] # 0 => v <= got[a],
         Worker!Put(v, got), UNCHANGED <<release, active>>, answer' = {},
         fetches' \subseteq fetches
  PROVE  WorkerInv'
<1>1. /\ CachesHold' /\ Len(caches) <= Len(caches')
      /\ \A i \in 1..Len(caches) :
           /\ caches'[i].version = caches[i].version
           /\ \A a \in Assets : caches[i].holds[a] # 0 => caches'[i].holds[a] # 0
  BY PutKeeps DEF WorkerInv
<1>2. Worker!TypeOK'
  <2>1. \A i \in DOMAIN caches' : caches'[i] \in Cache
    BY <1>1 DEF CachesHold
  <2> QED
    BY <2>1 DEF WorkerInv, Worker!TypeOK, Cache
<1>3. OwnCacheFirst'
  <2>1. Len(caches) \in Nat /\ Len(caches') \in Nat
    BY <1>1 DEF CachesHold, WorkerInv
  <2> QED
    BY <1>1, <2>1 DEF WorkerInv, OwnCacheFirst, WorkerAssumption
<1> QED
  BY <1>1, <1>2, <1>3 DEF WorkerInv, Worker!StaticAssetsAreCurrent

(* A release is deployed, and its worker is installed.                     *)
LEMMA InstallKeeps ==
  ASSUME WorkerAssumption, WorkerInv, Worker!Deploy \/ Worker!Install
  PROVE  WorkerInv'
<1>1. release \in 1..MaxRelease /\ MaxRelease \in Nat /\ release \in 1..release
  BY DEF WorkerInv, Worker!TypeOK, WorkerAssumption
<1>2. CASE Worker!Deploy
  <2>1. /\ release' = release + 1 /\ release' \in 1..MaxRelease /\ answer' = {}
        /\ UNCHANGED <<caches, active, fetches>>
    BY <1>1, <1>2 DEF Worker!Deploy
  <2>2. Worker!TypeOK'
    BY <2>1 DEF WorkerInv, Worker!TypeOK
  <2>3. CachesHold'
    <3>1. \A i \in 1..Len(caches) : caches[i].version \in Nat
      <4>1. \A i \in 1..Len(caches) : caches[i] \in Cache
        BY DEF WorkerInv, CachesHold
      <4> QED
        BY <1>1, <4>1 DEF Cache
    <3> QED
      BY <1>1, <2>1, <3>1 DEF WorkerInv, CachesHold
  <2>4. active <= release' /\ \A f \in fetches : f.from <= release'
    BY <1>1, <2>1 DEF WorkerInv, Worker!TypeOK, Worker!Answer
  <2> QED
    BY <2>1, <2>2, <2>3, <2>4 DEF WorkerInv, OwnCacheFirst, Worker!StaticAssetsAreCurrent
<1>3. CASE Worker!Install
  <2> DEFINE all == [a \in Assets |-> IF a \in STATIC_ASSETS THEN release ELSE 0]
  <2>1. /\ all \in [Assets -> 0..MaxRelease] /\ \A a \in Assets : all[a] # 0 => release <= all[a]
        /\ Worker!Empty \in [Assets -> 0..MaxRelease] /\ \A a \in Assets : Worker!Empty[a] = 0
    BY <1>1 DEF Worker!Empty, Worker!None
  <2>2. Worker!Put(release, all) \/ Worker!Put(release, Worker!Empty)
    BY <1>3 DEF Worker!Install, Worker!None
  <2>3. answer' = {} /\ UNCHANGED <<release, active, fetches>>
    BY <1>3 DEF Worker!Install
  <2> HIDE DEF all
  <2> QED
    BY <1>1, <2>1, <2>2, <2>3, PutKeepsOwn
<1> QED
  BY <1>2, <1>3

(* The worker that becomes active keeps only the cache it installed.       *)
LEMMA ActivateKeeps ==
  ASSUME WorkerAssumption, WorkerInv, NEW v \in 1..MaxRelease, Worker!Activate(v)
  PROVE  WorkerInv'
<1>1. PICK i \in DOMAIN caches : caches[i].version = v /\ caches' = <<caches[i]>>
  BY DEF Worker!Activate
<1>2. active' = v /\ answer' = {} /\ UNCHANGED <<release, fetches>>
  BY DEF Worker!Activate
<1>3. i \in 1..Len(caches) /\ caches[i] \in Cache /\ DOMAIN caches = 1..Len(caches)
  BY <1>1 DEF WorkerInv, CachesHold
<1>4. \A a \in STATIC_ASSETS : caches[i].holds[a] # 0
  <2>1. PICK j \in DOMAIN caches : caches[j].version = v /\ \A a \in STATIC_ASSETS : caches[j].holds[a] # 0
    BY DEF Worker!Activate, Worker!Installed, Worker!None
  <2> QED
    BY <1>1, <1>3, <2>1 DEF WorkerInv, CachesHold
<1>5. caches' \in Seq(Cache) /\ Len(caches') = 1 /\ caches'[1] = caches[i] /\ DOMAIN caches' = 1..1
  BY <1>1, <1>3
<1>6. CachesHold'
  BY <1>2, <1>3, <1>5 DEF WorkerInv, CachesHold
<1>7. Worker!TypeOK'
  BY <1>2, <1>3, <1>5 DEF WorkerInv, Worker!TypeOK, Cache
<1>8. OwnCacheFirst' /\ active' <= release'
  BY <1>1, <1>2, <1>3, <1>4, <1>5 DEF OwnCacheFirst, WorkerInv, CachesHold
<1> QED
  BY <1>2, <1>6, <1>7, <1>8 DEF WorkerInv, Worker!StaticAssetsAreCurrent

(* A hit is answered from the first cache, and a miss by the server.       *)
LEMMA FetchKeeps ==
  ASSUME WorkerAssumption, WorkerInv, NEW a \in Assets, Worker!FetchHit(a) \/ Worker!FetchMiss(a)
  PROVE  WorkerInv'
<1>1. release \in 1..MaxRelease /\ active \in 0..MaxRelease /\ active <= release
  BY DEF WorkerInv, Worker!TypeOK
<1>2. CASE Worker!FetchHit(a)
  <2> DEFINE first == CHOOSE i \in Worker!Hits(a) : \A j \in Worker!Hits(a) : i <= j
  <2>1. /\ active # 0 /\ Worker!Hits(a) # {} /\ UNCHANGED <<release, caches, active, fetches>>
        /\ answer' = {[worker |-> active, asset |-> a, from |-> caches[first].holds[a]]}
    BY <1>2 DEF Worker!FetchHit, Worker!None
  <2>2. Worker!Hits(a) \subseteq 1..Len(caches)
    BY DEF Worker!Hits, WorkerInv, CachesHold
  <2>3. first \in Worker!Hits(a) /\ \A j \in Worker!Hits(a) : first <= j
    <3>1. Worker!Hits(a) \subseteq Nat
      BY <2>2
    <3> QED
      BY <2>1, <3>1, LeastExists
  <2> HIDE DEF first
  <2>4. first \in 1..Len(caches) /\ caches[first].holds[a] # 0 /\ caches[first] \in Cache
    BY <2>2, <2>3 DEF Worker!Hits, Worker!None, WorkerInv, CachesHold
  <2>5. a \in STATIC_ASSETS => active <= caches[first].holds[a]
    <3> SUFFICES ASSUME a \in STATIC_ASSETS PROVE active <= caches[first].holds[a]
      OBVIOUS
    <3>1. 1 \in DOMAIN caches /\ caches[1].holds[a] # 0 /\ caches[1].version = active
      BY <2>1 DEF WorkerInv, OwnCacheFirst, CachesHold
    <3>2. first = 1
      BY <2>2, <2>3, <3>1 DEF Worker!Hits, Worker!None
    <3> QED
      BY <2>4, <3>1, <3>2 DEF WorkerInv, CachesHold
  <2>6. \A r \in answer' : /\ r \in Worker!Answer
                           /\ r.asset \in STATIC_ASSETS => r.from >= r.worker
    <3>1. caches[first].holds[a] \in 1..MaxRelease /\ active \in 1..MaxRelease
      BY <1>1, <2>1, <2>4 DEF Cache
    <3> QED
      BY <2>1, <2>5, <3>1 DEF Worker!Answer
  <2>7. Worker!TypeOK'
    BY <2>1, <2>6 DEF WorkerInv, Worker!TypeOK
  <2> QED
    BY <2>1, <2>6, <2>7 DEF WorkerInv, CachesHold, OwnCacheFirst, Worker!StaticAssetsAreCurrent
<1>3. CASE Worker!FetchMiss(a)
  <2> DEFINE r == [worker |-> active, asset |-> a, from |-> release]
  <2>1. /\ active # 0 /\ answer' = {r} /\ fetches' = fetches \cup {r}
        /\ UNCHANGED <<release, caches, active>>
    BY <1>3 DEF Worker!FetchMiss, Worker!None
  <2>2. r \in Worker!Answer /\ r.worker <= r.from /\ r.from = release
    BY <1>1, <2>1 DEF Worker!Answer
  <2> HIDE DEF r
  <2>3. Worker!TypeOK'
    BY <2>1, <2>2 DEF WorkerInv, Worker!TypeOK
  <2>4. \A f \in fetches' : f.worker <= f.from /\ f.from <= release
    BY <1>1, <2>1, <2>2 DEF WorkerInv
  <2>5. Worker!StaticAssetsAreCurrent'
    <3>1. r.worker \in Int /\ r.from \in Int
      BY <2>2 DEF Worker!Answer
    <3> QED
      BY <2>1, <2>2, <3>1 DEF Worker!StaticAssetsAreCurrent
  <2> QED
    BY <2>1, <2>3, <2>4, <2>5 DEF WorkerInv, CachesHold, OwnCacheFirst
<1> QED
  BY <1>2, <1>3

(* A late copy is no older than the worker whose cache it goes to.         *)
LEMMA CopyKeeps ==
  ASSUME WorkerAssumption, WorkerInv, NEW f \in fetches, Worker!KeepCopy(f)
  PROVE  WorkerInv'
<1> DEFINE got == [Worker!Empty EXCEPT ![f.asset] = f.from]
<1>1. /\ f \in Worker!Answer /\ f.worker <= f.from /\ f.from <= release /\ release \in 1..MaxRelease
      /\ MaxRelease \in Nat
  BY DEF WorkerInv, Worker!TypeOK, WorkerAssumption
<1>2. f.worker \in 1..release
  BY <1>1 DEF Worker!Answer
<1>3. got \in [Assets -> 0..MaxRelease] /\ \A a \in Assets : got[a] # 0 => f.worker <= got[a]
  BY <1>1 DEF Worker!Empty, Worker!None, Worker!Answer
<1>4. /\ Worker!Put(f.worker, got) \/ UNCHANGED caches
      /\ answer' = {} /\ fetches' \subseteq fetches /\ UNCHANGED <<release, active>>
  BY DEF Worker!KeepCopy
<1> HIDE DEF got
<1>5. CASE UNCHANGED caches
  <2>1. Worker!TypeOK'
    BY <1>4, <1>5 DEF WorkerInv, Worker!TypeOK
  <2> QED
    BY <1>4, <1>5, <2>1 DEF WorkerInv, CachesHold, OwnCacheFirst, Worker!StaticAssetsAreCurrent
<1> QED
  BY <1>2, <1>3, <1>4, <1>5, PutKeepsOwn

(* Every step of the browser keeps the invariant.                          *)
LEMMA WorkerStep ==
  ASSUME WorkerAssumption, WorkerInv, [Worker!Next]_workerVars
  PROVE  WorkerInv'
<1>1. CASE UNCHANGED workerVars
  BY <1>1 DEF workerVars, WorkerInv, Worker!TypeOK, CachesHold, OwnCacheFirst, Worker!StaticAssetsAreCurrent
<1>2. CASE Worker!Next
  BY <1>2, InstallKeeps, ActivateKeeps, FetchKeeps, CopyKeeps DEF Worker!Next
<1> QED
  BY <1>1, <1>2

-----------------------------------------------------------------------------
(* PlaylistStore.                                                          *)
PlaylistAssumption == Owner \in People /\ MaxEdits \in Nat /\ MaxTime \in Nat /\ NoTarget \notin Nat

(* What comes before each of some places is a strict total order of them.  *)
Orders(before) ==
  /\ IsFiniteSet(DOMAIN before)
  /\ \A i \in DOMAIN before : before[i] \subseteq DOMAIN before /\ i \notin before[i]
  /\ \A i, j \in DOMAIN before : j \in before[i] => before[j] \subseteq before[i]
  /\ \A i, j \in DOMAIN before : i = j \/ i \in before[j] \/ j \in before[i]

(* The places in that order: each of them once.                            *)
Enumerates(place, n, before) ==
  /\ place \in [1..n -> DOMAIN before]
  /\ \A i \in DOMAIN before : \E k \in 1..n : place[k] = i
  /\ \A k, l \in 1..n : k < l => place[k] \in before[place[l]]

(* As many places come before one as its rank says.                        *)
LEMMA RanksExist ==
  ASSUME NEW before, Orders(before), NEW n \in Nat, n = Cardinality(DOMAIN before)
  PROVE  /\ \A i, j \in DOMAIN before : j \in before[i] => Cardinality(before[j]) < Cardinality(before[i])
         /\ \A i \in DOMAIN before : Cardinality(before[i]) \in 0..n - 1
         /\ \A k \in 1..n : \E i \in DOMAIN before : Cardinality(before[i]) = k - 1
<1> PICK S : S = DOMAIN before
  OBVIOUS
<1>1. IsFiniteSet(S) /\ \A i \in S : before[i] \subseteq S /\ i \in S /\ i \notin before[i]
  BY DEF Orders
<1>2. ASSUME NEW i \in S
      PROVE  /\ IsFiniteSet(before[i]) /\ Cardinality(before[i]) \in Nat
             /\ IsFiniteSet(before[i] \cup {i})
             /\ Cardinality(before[i] \cup {i}) = Cardinality(before[i]) + 1
  <2>1. IsFiniteSet(before[i])
    BY <1>1, FS_Subset
  <2> QED
    BY <1>1, <2>1, FS_CardinalityType, FS_AddElement
<1>3. ASSUME NEW i \in S, NEW j \in S, j \in before[i]
      PROVE  Cardinality(before[j]) < Cardinality(before[i])
  <2>1. before[j] \cup {j} \subseteq before[i]
    BY <1>3 DEF Orders
  <2>2. Cardinality(before[j] \cup {j}) <= Cardinality(before[i])
    BY <1>2, <2>1, FS_Subset
  <2> PICK c \in Nat, d \in Nat : c = Cardinality(before[j]) /\ d = Cardinality(before[i])
    BY <1>2
  <2>3. c + 1 <= d
    BY <1>2, <2>2
  <2> QED
    BY <2>3
<1>4. ASSUME NEW i \in S
      PROVE  Cardinality(before[i]) \in 0..n - 1
  <2>1. Cardinality(before[i] \cup {i}) <= n
    BY <1>1, FS_Subset
  <2> PICK c \in Nat : c = Cardinality(before[i])
    BY <1>2
  <2>2. c + 1 <= n
    BY <1>2, <2>1
  <2> QED
    BY <2>2
<1>5. ASSUME NEW k \in 1..n
      PROVE  \E i \in S : Cardinality(before[i]) = k - 1
  <2> PICK rank : rank = [i \in S |-> Cardinality(before[i]) + 1]
    OBVIOUS
  <2>1. rank \in [S -> 1..n]
    BY <1>4
  <2>2. \A i, j \in S : rank[i] = rank[j] => i = j
    <3>1. ASSUME NEW i \in S, NEW j \in S, rank[i] = rank[j], i # j
          PROVE  FALSE
      <4> PICK c \in Nat, d \in Nat : c = Cardinality(before[i]) /\ d = Cardinality(before[j])
        BY <1>2
      <4>1. c = d
        BY <3>1
      <4>2. i \in before[j] \/ j \in before[i]
        BY <3>1 DEF Orders
      <4>3. c < d \/ d < c
        BY <1>3, <4>2
      <4> QED
        BY <4>1, <4>3
    <3> QED
      BY <3>1
  <2>3. rank \in Injection(S, 1..n)
    BY <2>1, <2>2 DEF Injection, IsInjective
  <2>4. IsFiniteSet(1..n) /\ Cardinality(1..n) = n
    BY FS_Interval
  <2>5. rank \in Surjection(S, 1..n)
    BY <2>3, <2>4, FS_Injection
  <2>6. PICK i \in S : rank[i] = k
    BY <2>5 DEF Surjection
  <2> PICK c \in Nat : c = Cardinality(before[i])
    BY <1>2
  <2>7. c + 1 = k
    BY <2>6
  <2>8. c = k - 1
    BY <2>7
  <2> QED
    BY <2>8
<1> QED
  BY <1>3, <1>4, <1>5

Enumerated(r, log, before) ==
  \E n \in Nat : \E place \in [1..n -> DOMAIN before] :
    Enumerates(place, n, before) /\ r = [k \in 1..n |-> log[place[k]]]

LEMMA InOrderEnumerates ==
  ASSUME NEW log, NEW before, Orders(before)
  PROVE  Enumerated(Playlists!InOrder(log, before), log, before)
<1> PICK S : S = DOMAIN before
  OBVIOUS
<1> PICK n \in Nat : n = Cardinality(S)
  BY FS_CardinalityType DEF Orders
<1>1. \A k \in 1..n : \E i \in S : Cardinality(before[i]) = k - 1
  BY RanksExist
<1> PICK place : place = [k \in 1..n |-> CHOOSE i \in S : Cardinality(before[i]) = k - 1]
  OBVIOUS
<1>2. \A k \in 1..n : place[k] \in S /\ Cardinality(before[place[k]]) = k - 1
  BY <1>1
<1>3. place \in [1..n -> S]
  BY <1>2
<1>4. ASSUME NEW i \in S
      PROVE  \E k \in 1..n : place[k] = i
  <2>1. PICK c \in 0..n - 1 : c = Cardinality(before[i])
    BY RanksExist
  <2>2. c + 1 \in 1..n /\ (c + 1) - 1 = c
    OBVIOUS
  <2>3. place[c + 1] \in S /\ Cardinality(before[place[c + 1]]) = Cardinality(before[i])
    BY <1>2, <2>1, <2>2
  <2>4. \A j \in S : j # i => Cardinality(before[j]) # Cardinality(before[i])
    BY RanksExist DEF Orders
  <2> QED
    BY <2>2, <2>3, <2>4
<1>5. ASSUME NEW k \in 1..n, NEW l \in 1..n, k < l
      PROVE  place[k] \in before[place[l]]
  <2> PICK i \in S, j \in S : i = place[k] /\ j = place[l]
    BY <1>2
  <2>1. Cardinality(before[i]) = k - 1 /\ Cardinality(before[j]) = l - 1
    BY <1>2
  <2>2. i # j /\ ~ (Cardinality(before[j]) < Cardinality(before[i]))
    BY <1>5, <2>1
  <2>3. j \notin before[i]
    BY <2>2, RanksExist
  <2> QED
    BY <2>2, <2>3 DEF Orders
<1>6. Enumerates(place, n, before)
  BY <1>3, <1>4, <1>5 DEF Enumerates
<1>7. Playlists!InOrder(log, before) = [k \in 1..n |-> log[place[k]]]
  <2>1. \A T : Playlists!Cardinality(T) = Cardinality(T)
    BY DEF Playlists!Cardinality, Cardinality
  <2>2. Playlists!InOrder(log, before)
          = [k \in 1..Cardinality(DOMAIN before) |->
               log[CHOOSE i \in DOMAIN before : Playlists!Cardinality(before[i]) = k - 1]]
    BY <2>1 DEF Playlists!InOrder
  <2>3. \A k \in 1..n : (CHOOSE i \in DOMAIN before : Playlists!Cardinality(before[i]) = k - 1)
                         = place[k]
    BY <2>1
  <2> QED
    BY <2>2, <2>3
<1>8. place \in [1..n -> DOMAIN before]
  BY <1>3
<1> QED
  BY <1>6, <1>7, <1>8, Zenon DEF Enumerated

(* What a log of operations tells: each of them, told apart by its id and  *)
(* by its timestamp.                                                       *)
Genuine(T) ==
  /\ T \subseteq Playlists!Op
  /\ \A x, y \in T : x.op_id = y.op_id \/ x.timestamp = y.timestamp => x = y
  /\ \A x \in T : x.type = "ADD" => x.target_op_id = NoTarget

Logged(log, T) ==
  /\ log \in Seq(Playlists!Op)
  /\ \A i \in 1..Len(log) : log[i] \in T
  /\ \A x \in T : \E i \in 1..Len(log) : log[i] = x

Sorted(log) == \A i, j \in 1..Len(log) : i < j => log[i].timestamp <= log[j].timestamp

LEMMA LoggedSets == ASSUME NEW log \in Seq(Playlists!Op) PROVE Logged(log, Playlists!ToSet(log))
  BY DEF Logged, Playlists!ToSet

LEMMA LoggedIs == ASSUME NEW log, NEW T, Logged(log, T) PROVE Playlists!ToSet(log) = T
  BY DEF Logged, Playlists!ToSet

(* The fields of an operation.                                             *)
LEMMA OpFields ==
  ASSUME PlaylistAssumption, NEW x \in Playlists!Op
  PROVE  /\ x.type = "ADD" \/ x.type = "REMOVE"
         /\ x.op_id \in 1..MaxEdits /\ x.op_id \in Nat /\ x.op_id # NoTarget
         /\ x.target_op_id \in (1..MaxEdits) \cup {NoTarget}
         /\ x.timestamp \in 1..MaxTime /\ x.timestamp \in Nat
  BY DEF PlaylistAssumption, Playlists!Op

(* A log in some order of places of it.                                    *)
Taken(r, log, before, place, n) ==
  /\ place \in [1..n -> 1..Len(log)]
  /\ Enumerates(place, n, before)
  /\ r \in Seq(Playlists!Op) /\ Len(r) = n
  /\ \A k \in 1..n : r[k] = log[place[k]]

LEMMA InOrderLogged ==
  ASSUME NEW log \in Seq(Playlists!Op), NEW before, Orders(before),
         DOMAIN before \subseteq 1..Len(log)
  PROVE  \E n \in Nat : \E place : Taken(Playlists!InOrder(log, before), log, before, place, n)
<1> PICK r : r = Playlists!InOrder(log, before)
  OBVIOUS
<1>1. PICK n \in Nat : \E place \in [1..n -> DOMAIN before] :
        Enumerates(place, n, before) /\ r = [k \in 1..n |-> log[place[k]]]
  <2>1. Enumerated(r, log, before)
    BY InOrderEnumerates
  <2> QED
    BY ONLY <2>1 DEF Enumerated
<1>2. PICK place \in [1..n -> DOMAIN before] :
        Enumerates(place, n, before) /\ r = [k \in 1..n |-> log[place[k]]]
  BY <1>1
<1>3. \A k \in 1..n : place[k] \in 1..Len(log) /\ log[place[k]] \in Playlists!Op
  BY <1>2
<1>4. r \in Seq(Playlists!Op) /\ Len(r) = n
  <2>1. r \in [1..n -> Playlists!Op]
    BY <1>2, <1>3
  <2> QED
    BY <2>1
<1>5. place \in [1..n -> 1..Len(log)]
  BY <1>3
<1>6. \A k \in 1..n : r[k] = log[place[k]]
  BY <1>2
<1>7. Taken(r, log, before, place, n)
  BY <1>2, <1>4, <1>5, <1>6 DEF Taken
<1> QED
  BY <1>7

(* Sorting a log keeps its operations and sorts them.                      *)
LEMMA SortSorts ==
  ASSUME PlaylistAssumption, NEW log \in Seq(Playlists!Op), NEW T, Logged(log, T)
  PROVE  /\ Logged(Playlists!SortByTimestamp(log), T)
         /\ Sorted(Playlists!SortByTimestamp(log))
<1> PICK n \in Nat : n = Len(log)
  OBVIOUS
<1> PICK time : time = [i \in 1..n |-> log[i].timestamp]
  OBVIOUS
<1>1. DOMAIN log = 1..n /\ \A i \in 1..n : time[i] \in Nat /\ time[i] = log[i].timestamp
  BY OpFields
<1> PICK before : before = [i \in 1..n |->
      {j \in 1..n : time[j] < time[i] \/ (time[j] = time[i] /\ j < i)}]
  OBVIOUS
<1>2. \A i, j \in 1..n : j \in before[i] <=> (time[j] < time[i] \/ (time[j] = time[i] /\ j < i))
  OBVIOUS
<1>3. Orders(before)
  <2>1. IsFiniteSet(DOMAIN before) /\ DOMAIN before = 1..n
    BY FS_Interval
  <2>2. \A i \in 1..n : before[i] \subseteq 1..n /\ i \notin before[i]
    BY <1>1, <1>2
  <2>3. \A i, j, k \in 1..n : j \in before[i] /\ k \in before[j] => k \in before[i]
    BY <1>1, <1>2
  <2>4. \A i, j \in 1..n : i = j \/ i \in before[j] \/ j \in before[i]
    BY <1>1, <1>2
  <2> QED
    BY <2>1, <2>2, <2>3, <2>4 DEF Orders
<1> PICK r : r = Playlists!SortByTimestamp(log)
  OBVIOUS
<1>4. r = Playlists!InOrder(log, before)
  <2>1. before = [i \in DOMAIN log |->
          {j \in DOMAIN log : \/ log[j].timestamp < log[i].timestamp
                              \/ log[j].timestamp = log[i].timestamp /\ j < i}]
    BY <1>1
  <2> QED
    BY <2>1 DEF Playlists!SortByTimestamp
<1>5. PICK m \in Nat : \E place : Taken(r, log, before, place, m)
  <2>1. DOMAIN before \subseteq 1..Len(log)
    BY <1>2
  <2> QED
    BY ONLY <1>3, <1>4, <2>1, InOrderLogged
<1>6. PICK place : Taken(r, log, before, place, m)
  BY <1>5
<1>7. /\ place \in [1..m -> 1..n]
      /\ Enumerates(place, m, before)
      /\ r \in Seq(Playlists!Op) /\ Len(r) = m
      /\ \A k \in 1..m : r[k] = log[place[k]]
  BY <1>6 DEF Taken
<1>8. Logged(r, T)
  <2>1. \A k \in 1..m : r[k] \in T
    BY <1>7 DEF Logged
  <2>2. ASSUME NEW x \in T
        PROVE  \E k \in 1..m : r[k] = x
    <3>1. PICK i \in 1..n : log[i] = x
      BY DEF Logged
    <3>2. PICK k \in 1..m : place[k] = i
      BY <1>7, <3>1 DEF Enumerates
    <3> QED
      BY <1>7, <3>1, <3>2
  <2> QED
    BY <1>7, <2>1, <2>2 DEF Logged
<1>9. Sorted(r)
  <2>1. ASSUME NEW k \in 1..m, NEW l \in 1..m, k < l
        PROVE  r[k].timestamp <= r[l].timestamp
    <3> PICK i \in 1..n, j \in 1..n : i = place[k] /\ j = place[l]
      BY <1>7
    <3>1. i \in before[j]
      BY <1>7, <2>1 DEF Enumerates
    <3>2. time[i] <= time[j]
      <4>1. time[i] < time[j] \/ (time[i] = time[j] /\ i < j)
        BY <1>2, <3>1
      <4> QED
        BY <1>1, <4>1
    <3>3. r[k] = log[i] /\ r[l] = log[j]
      BY <1>7
    <3> QED
      BY <1>1, <3>2, <3>3
  <2> QED
    BY <1>7, <2>1 DEF Sorted
<1> QED
  BY <1>8, <1>9

(* Dropping the duplicates of a log keeps its operations, each once.       *)
Once(log) == \A i, j \in 1..Len(log) : log[i].op_id = log[j].op_id => i = j

LEMMA FirstOnce ==
  ASSUME PlaylistAssumption, NEW log \in Seq(Playlists!Op), NEW T
  PROVE  /\ Playlists!FirstOfEach(log) \in Seq(Playlists!Op)
         /\ Once(Playlists!FirstOfEach(log))
         /\ Logged(log, T) /\ Genuine(T) => Logged(Playlists!FirstOfEach(log), T)
<1> PICK n \in Nat : n = Len(log)
  OBVIOUS
<1> PICK id : id = [i \in 1..n |-> log[i].op_id]
  OBVIOUS
<1>1. DOMAIN log = 1..n /\ \A i \in 1..n : id[i] \in Nat /\ id[i] = log[i].op_id
  BY OpFields
<1> PICK first : first = {i \in 1..n : \A j \in 1..(i - 1) : log[j].op_id # log[i].op_id}
  OBVIOUS
<1>2. \A i \in first : i \in 1..n /\ \A j \in 1..n : j < i => id[j] # id[i]
  BY <1>1
<1> PICK before : before = [i \in first |-> {j \in first : j < i}]
  OBVIOUS
<1>3. Orders(before)
  <2>1. IsFiniteSet(DOMAIN before)
    <3>1. IsFiniteSet(1..n) /\ first \subseteq 1..n
      BY FS_Interval
    <3> QED
      BY <3>1, FS_Subset
  <2>2. \A i, j \in first : j \in before[i] <=> j < i
    OBVIOUS
  <2> QED
    BY <1>2, <2>1, <2>2 DEF Orders
<1> PICK r : r = Playlists!FirstOfEach(log)
  OBVIOUS
<1>4. r = Playlists!InOrder(log, before)
  BY <1>1 DEF Playlists!FirstOfEach
<1>5. PICK m \in Nat : \E place : Taken(r, log, before, place, m)
  <2>1. DOMAIN before \subseteq 1..Len(log)
    BY <1>2
  <2> QED
    BY <1>3, <1>4, <2>1, InOrderLogged
<1>6. PICK place : Taken(r, log, before, place, m)
  BY <1>5
<1>7. /\ place \in [1..m -> 1..n]
      /\ Enumerates(place, m, before)
      /\ r \in Seq(Playlists!Op) /\ Len(r) = m
      /\ \A k \in 1..m : r[k] = log[place[k]]
  BY <1>6 DEF Taken
<1>8. Once(r)
  <2>1. ASSUME NEW k \in 1..m, NEW l \in 1..m, k < l
        PROVE  r[k].op_id # r[l].op_id
    <3> PICK i \in first, j \in first : i = place[k] /\ j = place[l]
      BY <1>7 DEF Enumerates
    <3>1. i < j
      BY <1>7, <2>1 DEF Enumerates
    <3>2. id[i] # id[j]
      BY <1>2, <3>1
    <3>3. r[k] = log[i] /\ r[l] = log[j]
      BY <1>7
    <3> QED
      BY <1>1, <1>2, <3>2, <3>3
  <2> QED
    BY <1>7, <2>1 DEF Once
<1>9. ASSUME Logged(log, T), Genuine(T)
      PROVE  Logged(r, T)
  <2>1. \A k \in 1..m : r[k] \in T
    BY <1>7, <1>9 DEF Logged
  <2>2. ASSUME NEW x \in T
        PROVE  \E k \in 1..m : r[k] = x
    <3> PICK Q : Q = {i \in 1..n : log[i] = x}
      OBVIOUS
    <3>0. PICK c \in 1..n : log[c] = x
      BY <1>9 DEF Logged
    <3>1. Q # {} /\ Q \subseteq Nat
      BY <3>0
    <3>2. PICK i \in Q : \A j \in Q : i <= j
      BY <3>1, LeastExists
    <3>3. ASSUME NEW j \in 1..(i - 1)
          PROVE  log[j].op_id # log[i].op_id
      <4>1. j \in 1..n /\ i \in 1..n /\ ~ (i <= j)
        OBVIOUS
      <4>2. log[j] # log[i]
        BY <3>2, <4>1
      <4>3. log[j] \in T /\ log[i] \in T
        BY <1>9, <4>1 DEF Logged
      <4> QED
        BY <1>9, <4>2, <4>3 DEF Genuine
    <3>4. i \in first
      BY <3>3
    <3>5. PICK k \in 1..m : place[k] = i
      BY <1>7, <3>4 DEF Enumerates
    <3> QED
      BY <1>7, <3>5
  <2> QED
    BY <1>7, <1>9, <2>1, <2>2 DEF Logged
<1> QED
  BY <1>7, <1>8, <1>9

(* Induction up to n, over a set, and what it gives: a function defined    *)
(* from one value to the next exists.                                      *)
LEMMA UpTo ==
  ASSUME NEW n \in Nat, NEW A, 0 \in A, \A i \in 1..n : i - 1 \in A => i \in A
  PROVE  \A i \in 0..n : i \in A
<1> PICK D : D = {i \in 0..n : i \notin A}
  OBVIOUS
<1>1. SUFFICES ASSUME D # {} PROVE FALSE
  OBVIOUS
<1>2. D \subseteq Nat
  OBVIOUS
<1>3. PICK m \in D : \A j \in D : m <= j
  BY <1>1, <1>2, LeastExists
<1>4. m \in 1..n /\ m - 1 \in 0..n /\ ~ (m <= m - 1)
  BY <1>2, <1>3
<1> QED
  BY <1>3, <1>4

Row(f, v, D, m) == f[0] = v /\ \A i \in 1..m : f[i] = D[<<f[i - 1], i>>]

LEMMA RowsExist ==
  ASSUME NEW n \in Nat, NEW V, NEW v \in V, NEW D,
         \A x \in V, i \in 1..n : D[<<x, i>>] \in V
  PROVE  \E f \in [0..n -> V] : Row(f, v, D, n)
<1> PICK A : A = {m \in 0..n : \E f \in [0..m -> V] : Row(f, v, D, m)}
  OBVIOUS
<1>1. 0 \in A
  <2>1. [i \in 0..0 |-> v] \in [0..0 -> V] /\ Row([i \in 0..0 |-> v], v, D, 0)
    BY DEF Row
  <2> QED
    BY <2>1
<1>2. ASSUME NEW m \in 1..n, m - 1 \in A
      PROVE  m \in A
  <2>1. PICK f \in [0..m - 1 -> V] : Row(f, v, D, m - 1)
    BY <1>2
  <2>2. m \in 0..n /\ m - 1 \in 0..m - 1 /\ m \notin 0..m - 1 /\ 0 \in 0..m - 1
        /\ 0..m = 0..(m - 1) \cup {m} /\ 1..m = 1..(m - 1) \cup {m}
        /\ \A i \in 1..m : i - 1 \in 0..m - 1
    OBVIOUS
  <2> PICK g : g = [i \in 0..m |-> IF i = m THEN D[<<f[m - 1], m>>] ELSE f[i]]
    OBVIOUS
  <2>3. f[m - 1] \in V
    BY <2>2
  <2>4. D[<<f[m - 1], m>>] \in V
    BY <2>3
  <2>5. g \in [0..m -> V]
    BY <2>2, <2>4
  <2>6. g[m] = D[<<f[m - 1], m>>] /\ \A i \in 0..m - 1 : g[i] = f[i]
    BY <2>2
  <2>7. Row(g, v, D, m)
    <3>1. g[0] = v
      BY <2>1, <2>2, <2>6 DEF Row
    <3>2. g[m] = D[<<g[m - 1], m>>]
      BY <2>2, <2>6
    <3>3. \A i \in 1..m - 1 : g[i] = D[<<g[i - 1], i>>]
      <4>1. \A i \in 1..m - 1 : i \in 0..m - 1 /\ i - 1 \in 0..m - 1
        OBVIOUS
      <4> QED
        BY <2>1, <2>6, <4>1 DEF Row
    <3> QED
      BY <2>2, <3>1, <3>2, <3>3 DEF Row
  <2> QED
    BY <2>2, <2>5, <2>7
<1>3. n \in A
  <2>1. \A i \in 0..n : i \in A
    BY <1>1, <1>2, UpTo
  <2> QED
    BY <2>1
<1> QED
  BY <1>3

(* Replaying a log goes through what is known after each operation.        *)
Steps(f, log) ==
  /\ f[0] = <<>>
  /\ \A i \in 1..Len(log) : f[i] = Playlists!Apply(f[i - 1], log[i])

LEMMA KnowledgeIs ==
  ASSUME NEW K
  PROVE  K \in Playlists!Known <=> /\ K = [x \in DOMAIN K |-> K[x]]
                             /\ DOMAIN K \subseteq 1..MaxEdits
                             /\ \A x \in DOMAIN K : K[x] \in Playlists!Entry
  BY DEF Playlists!Known

LEMMA NothingKnown == <<>> \in Playlists!Known /\ DOMAIN <<>> = {}
<1>1. <<>> = [x \in {} |-> x] /\ DOMAIN <<>> = {}
  OBVIOUS
<1> QED
  BY <1>1, KnowledgeIs

(* An addition and a removal, on what is known.                            *)
LEMMA ApplyAdd ==
  ASSUME PlaylistAssumption, NEW K \in Playlists!Known, NEW o \in Playlists!Op, o.type = "ADD"
  PROVE  LET L == Playlists!Apply(K, o) IN
         /\ L \in Playlists!Known
         /\ DOMAIN L = DOMAIN K \cup {o.op_id}
         /\ L[o.op_id].timestamp = o.timestamp /\ L[o.op_id].tombstone = FALSE
         /\ \A x \in DOMAIN K : x # o.op_id => L[x] = K[x]
<1> PICK e : e = [timestamp |-> o.timestamp, tombstone |-> FALSE]
  OBVIOUS
<1>1. e \in Playlists!Entry /\ e.timestamp = o.timestamp /\ e.tombstone = FALSE
  BY OpFields DEF Playlists!Entry
<1> PICK L : L = [x \in DOMAIN K \cup {o.op_id} |-> IF x = o.op_id THEN e ELSE K[x]]
  OBVIOUS
<1>2. Playlists!Apply(K, o) = L
  BY DEF Playlists!Apply
<1>3. DOMAIN L = DOMAIN K \cup {o.op_id} /\ L[o.op_id] = e
      /\ \A x \in DOMAIN K : x # o.op_id => L[x] = K[x]
  OBVIOUS
<1>4. DOMAIN K \subseteq 1..MaxEdits /\ \A x \in DOMAIN K : K[x] \in Playlists!Entry
  BY KnowledgeIs
<1>5. L = [x \in DOMAIN L |-> L[x]]
  OBVIOUS
<1>6. L \in Playlists!Known
  <2>1. DOMAIN L \subseteq 1..MaxEdits
    BY <1>3, <1>4, OpFields
  <2>2. \A x \in DOMAIN L : L[x] \in Playlists!Entry
    BY ONLY <1>1, <1>3, <1>4
  <2> QED
    BY ONLY <1>5, <2>1, <2>2, KnowledgeIs
<1> QED
  BY <1>1, <1>2, <1>3, <1>6

AfterRemoval(L, K, o) ==
  LET hit(x) == x = o.target_op_id /\ o.timestamp >= K[x].timestamp
  IN  /\ L \in Playlists!Known
      /\ DOMAIN L = DOMAIN K
      /\ \A x \in DOMAIN K : L[x].timestamp = K[x].timestamp
      /\ \A x \in DOMAIN K : hit(x) => L[x].tombstone = TRUE
      /\ \A x \in DOMAIN K : ~ hit(x) => L[x] = K[x]

LEMMA ApplyRemove ==
  ASSUME PlaylistAssumption, NEW K \in Playlists!Known, NEW o \in Playlists!Op, o.type # "ADD"
  PROVE  AfterRemoval(Playlists!Apply(K, o), K, o)
<1>1. /\ K = [x \in DOMAIN K |-> K[x]]
      /\ DOMAIN K \subseteq 1..MaxEdits
      /\ \A x \in DOMAIN K : K[x] \in Playlists!Entry
  BY KnowledgeIs
<1> PICK t : t = o.target_op_id
  OBVIOUS
<1>2. CASE t \in DOMAIN K /\ o.timestamp >= K[t].timestamp
  <2> PICK e : e = [K[t] EXCEPT !.tombstone = TRUE]
    OBVIOUS
  <2> PICK L : L = [K EXCEPT ![t] = e]
    OBVIOUS
  <2>1. Playlists!Apply(K, o) = L
    BY <1>2 DEF Playlists!Apply
  <2>2. e \in Playlists!Entry /\ e.timestamp = K[t].timestamp /\ e.tombstone = TRUE
    BY <1>1, <1>2 DEF Playlists!Entry
  <2>3. DOMAIN L = DOMAIN K /\ L[t] = e /\ \A x \in DOMAIN K : x # t => L[x] = K[x]
    BY <1>1, <1>2
  <2>4. L = [x \in DOMAIN L |-> L[x]]
    OBVIOUS
  <2>5. L \in Playlists!Known
    BY <1>1, <2>2, <2>3, <2>4, KnowledgeIs
  <2> QED
    BY <1>2, <2>1, <2>2, <2>3, <2>5 DEF AfterRemoval
<1>3. CASE ~ (t \in DOMAIN K /\ o.timestamp >= K[t].timestamp)
  <2>1. Playlists!Apply(K, o) = K
    BY <1>3 DEF Playlists!Apply
  <2> QED
    BY <1>3, <2>1 DEF AfterRemoval
<1> QED
  BY <1>2, <1>3

LEMMA ReplayedBySteps ==
  ASSUME PlaylistAssumption, NEW log \in Seq(Playlists!Op)
  PROVE  \E f \in [0..Len(log) -> Playlists!Known] :
           Steps(f, log) /\ Playlists!Replayed(log) = f[Len(log)]
<1> PICK n \in Nat : n = Len(log)
  OBVIOUS
<1> DEFINE Eq(f) == f = [i \in 0..n |-> IF i = 0 THEN <<>> ELSE Playlists!Apply(f[i - 1], log[i])]
<1> PICK D : D = [q \in Playlists!Known \X (1..n) |-> Playlists!Apply(q[1], log[q[2]])]
  OBVIOUS
<1>1. \A K \in Playlists!Known, i \in 1..n :
        D[<<K, i>>] = Playlists!Apply(K, log[i]) /\ D[<<K, i>>] \in Playlists!Known
  <2>1. \A i \in 1..n : log[i] \in Playlists!Op
    OBVIOUS
  <2>2. \A K \in Playlists!Known, i \in 1..n : Playlists!Apply(K, log[i]) \in Playlists!Known
    BY <2>1, ApplyAdd, ApplyRemove DEF AfterRemoval
  <2> QED
    BY <2>2
<1>2. PICK g \in [0..n -> Playlists!Known] : Row(g, <<>>, D, n)
  BY <1>1, NothingKnown, RowsExist
<1>3. \A i \in 1..n : i \in 0..n /\ i - 1 \in 0..n /\ i # 0
  OBVIOUS
<1>4. g[0] = <<>> /\ \A i \in 1..n : g[i] = Playlists!Apply(g[i - 1], log[i])
  BY <1>1, <1>2, <1>3 DEF Row
<1>5. Eq(g)
  <2>1. \A i \in 0..n : i = 0 \/ i \in 1..n
    OBVIOUS
  <2>2. \A i \in 0..n : g[i] = IF i = 0 THEN <<>> ELSE Playlists!Apply(g[i - 1], log[i])
    BY <1>3, <1>4, <2>1
  <2> QED
    BY <2>2
<1> DEFINE f == CHOOSE h : Eq(h)
<1>6. Playlists!Replayed(log) = f[n]
  BY DEF Playlists!Replayed
<1>7. Eq(f)
  BY <1>5, Zenon
<1> HIDE DEF f
<1>8. f[0] = <<>> /\ \A i \in 1..n : f[i] = Playlists!Apply(f[i - 1], log[i])
  BY <1>3, <1>7
<1>9. \A i \in 0..n : f[i] \in Playlists!Known
  <2>0. PICK A : A = {i \in 0..n : f[i] \in Playlists!Known}
    OBVIOUS
  <2>1. 0 \in A
    BY <1>8, <2>0, NothingKnown
  <2>2. \A i \in 1..n : i - 1 \in A => i \in A
    <3>1. ASSUME NEW i \in 1..n, f[i - 1] \in Playlists!Known
          PROVE  f[i] \in Playlists!Known
      <4>1. f[i] = Playlists!Apply(f[i - 1], log[i])
        BY ONLY i \in 1..n, <1>8
      <4>2. D[<<f[i - 1], i>>] = Playlists!Apply(f[i - 1], log[i]) /\ D[<<f[i - 1], i>>] \in Playlists!Known
        BY <1>1, <3>1
      <4> QED
        BY ONLY <4>1, <4>2
    <3> QED
      BY ONLY <1>3, <2>0, <3>1
  <2> QED
    BY <2>0, <2>1, <2>2, UpTo
<1>10. f \in [0..n -> Playlists!Known] /\ Steps(f, log)
  BY <1>7, <1>8, <1>9 DEF Steps
<1> QED
  BY <1>6, <1>10

(* What is known after i operations of a sorted log: what was added, with  *)
(* a tombstone where a removal came no earlier than the addition.          *)
Removes(o, a) == o.type = "REMOVE" /\ o.target_op_id = a.op_id /\ o.timestamp >= a.timestamp

Removed(log, i, a) == \E l \in 1..i : Removes(log[l], a)

Knows(K, log, i) ==
  /\ K \in Playlists!Known
  /\ \A x \in DOMAIN K : \E j \in 1..i : log[j].type = "ADD" /\ log[j].op_id = x
  /\ \A j \in 1..i : log[j].type = "ADD" =>
       /\ log[j].op_id \in DOMAIN K
       /\ K[log[j].op_id].timestamp = log[j].timestamp
       /\ K[log[j].op_id].tombstone = TRUE <=> Removed(log, i, log[j])

(* One more operation of the log.                                          *)
LEMMA OneMore ==
  ASSUME PlaylistAssumption, NEW T, Genuine(T), NEW log, Logged(log, T), Sorted(log),
         NEW i \in 1..Len(log)
  PROVE  /\ log[i] \in T /\ log[i] \in Playlists!Op /\ i \in Nat
         /\ \A j \in 1..i : log[j] \in T /\ log[j] \in Playlists!Op
         /\ \A j \in 1..i : j = i \/ j \in 1..i - 1
         /\ \A j \in 1..i - 1 : j \in 1..i
         /\ \A j \in 1..i : log[j].timestamp <= log[i].timestamp
<1>1. \A j \in 1..i : j \in 1..Len(log) /\ (j = i \/ j < i)
  BY DEF Logged
<1>2. \A j \in 1..i : log[j] \in T /\ log[j] \in Playlists!Op
  BY <1>1 DEF Logged, Genuine
<1>3. log[i].timestamp <= log[i].timestamp
  BY <1>2, OpFields
<1>4. \A j \in 1..i : log[j].timestamp <= log[i].timestamp
  BY <1>1, <1>3 DEF Sorted
<1> QED
  BY <1>2, <1>4

LEMMA AddKnows ==
  ASSUME PlaylistAssumption, NEW T, Genuine(T), NEW log, Logged(log, T), Sorted(log),
         NEW i \in 1..Len(log), NEW K, Knows(K, log, i - 1), log[i].type = "ADD"
  PROVE  Knows(Playlists!Apply(K, log[i]), log, i)
<1> PICK o : o = log[i]
  OBVIOUS
<1> PICK L : L = Playlists!Apply(K, o)
  OBVIOUS
<1>1. /\ o \in T /\ o \in Playlists!Op /\ i \in Nat /\ o.type = "ADD"
      /\ \A j \in 1..i : log[j] \in T /\ log[j] \in Playlists!Op
      /\ \A j \in 1..i : j = i \/ j \in 1..i - 1
      /\ \A j \in 1..i - 1 : j \in 1..i
      /\ \A j \in 1..i : log[j].timestamp <= o.timestamp
  BY OneMore
<1>2. /\ L \in Playlists!Known
      /\ DOMAIN L = DOMAIN K \cup {o.op_id}
      /\ L[o.op_id].timestamp = o.timestamp /\ L[o.op_id].tombstone = FALSE
      /\ \A x \in DOMAIN K : x # o.op_id => L[x] = K[x]
  <2>1. K \in Playlists!Known
    BY DEF Knows
  <2> QED
    BY <1>1, <2>1, ApplyAdd
<1>3. \A x \in DOMAIN L : \E j \in 1..i : log[j].type = "ADD" /\ log[j].op_id = x
  <2>1. \A x \in DOMAIN K : \E j \in 1..i : log[j].type = "ADD" /\ log[j].op_id = x
    BY <1>1 DEF Knows
  <2>2. i \in 1..i
    OBVIOUS
  <2> QED
    BY <1>1, <1>2, <2>1, <2>2
<1>4. ~ Removed(log, i, o)
  <2>1. ASSUME NEW l \in 1..i, Removes(log[l], o)
        PROVE  FALSE
    <3>1. log[l] \in T /\ log[l].timestamp = o.timestamp /\ log[l].type # "ADD"
      BY <1>1, <2>1, OpFields DEF Removes
    <3>2. log[l] = o
      BY <1>1, <3>1 DEF Genuine
    <3> QED
      BY <1>1, <3>1, <3>2
  <2> QED
    BY <2>1 DEF Removed
<1>5. ASSUME NEW a
      PROVE  Removed(log, i, a) <=> Removed(log, i - 1, a)
  <2>1. ~ Removes(log[i], a)
    BY <1>1 DEF Removes
  <2> QED
    BY <1>1, <2>1 DEF Removed
<1>6. ASSUME NEW j \in 1..i, log[j].type = "ADD"
      PROVE  /\ log[j].op_id \in DOMAIN L
             /\ L[log[j].op_id].timestamp = log[j].timestamp
             /\ L[log[j].op_id].tombstone = TRUE <=> Removed(log, i, log[j])
  <2> PICK a : a = log[j]
    OBVIOUS
  <2>1. CASE a.op_id = o.op_id
    <3>1. a = o
      BY <1>1, <2>1 DEF Genuine
    <3> QED
      BY <1>2, <1>4, <3>1
  <2>2. CASE a.op_id # o.op_id
    <3>1. j \in 1..i - 1
      BY <1>1, <2>2
    <3>2. /\ a.op_id \in DOMAIN K
          /\ K[a.op_id].timestamp = a.timestamp
          /\ K[a.op_id].tombstone = TRUE <=> Removed(log, i - 1, a)
      BY <1>6, <3>1 DEF Knows
    <3>3. a.op_id \in DOMAIN L /\ L[a.op_id] = K[a.op_id]
      BY <1>2, <2>2, <3>2
    <3> QED
      BY <1>5, <3>2, <3>3
  <2> QED
    BY <2>1, <2>2
<1> QED
  BY <1>2, <1>3, <1>6 DEF Knows

LEMMA RemoveKnows ==
  ASSUME PlaylistAssumption, NEW T, Genuine(T), NEW log, Logged(log, T), Sorted(log),
         NEW i \in 1..Len(log), NEW K, Knows(K, log, i - 1), log[i].type # "ADD"
  PROVE  Knows(Playlists!Apply(K, log[i]), log, i)
<1> PICK o : o = log[i]
  OBVIOUS
<1> PICK L : L = Playlists!Apply(K, o)
  OBVIOUS
<1>1. /\ o \in T /\ o \in Playlists!Op /\ i \in Nat /\ o.type = "REMOVE"
      /\ \A j \in 1..i : log[j] \in T /\ log[j] \in Playlists!Op
      /\ \A j \in 1..i : j = i \/ j \in 1..i - 1
      /\ \A j \in 1..i - 1 : j \in 1..i
  BY OneMore, OpFields
<1> DEFINE hit(x) == x = o.target_op_id /\ o.timestamp >= K[x].timestamp
<1>2. /\ L \in Playlists!Known
      /\ DOMAIN L = DOMAIN K
      /\ \A x \in DOMAIN K : L[x].timestamp = K[x].timestamp
      /\ \A x \in DOMAIN K : hit(x) => L[x].tombstone = TRUE
      /\ \A x \in DOMAIN K : ~ hit(x) => L[x] = K[x]
  <2>1. K \in Playlists!Known
    BY DEF Knows
  <2>2. AfterRemoval(L, K, o)
    BY <1>1, <2>1, ApplyRemove
  <2> QED
    BY ONLY <2>2 DEF AfterRemoval
<1>3. \A x \in DOMAIN L : \E j \in 1..i : log[j].type = "ADD" /\ log[j].op_id = x
  BY <1>1, <1>2 DEF Knows
<1>4. ASSUME NEW a
      PROVE  Removed(log, i, a) <=> Removed(log, i - 1, a) \/ Removes(o, a)
  <2>1. i \in 1..i
    OBVIOUS
  <2> QED
    BY <1>1, <2>1 DEF Removed
<1>5. ASSUME NEW j \in 1..i, log[j].type = "ADD"
      PROVE  /\ log[j].op_id \in DOMAIN L
             /\ L[log[j].op_id].timestamp = log[j].timestamp
             /\ L[log[j].op_id].tombstone = TRUE <=> Removed(log, i, log[j])
  <2> PICK a : a = log[j]
    OBVIOUS
  <2>1. j \in 1..i - 1
    BY <1>1, <1>5
  <2>2. /\ a.op_id \in DOMAIN K
        /\ K[a.op_id].timestamp = a.timestamp
        /\ K[a.op_id].tombstone = TRUE <=> Removed(log, i - 1, a)
    BY <1>5, <2>1 DEF Knows
  <2>3. hit(a.op_id) <=> Removes(o, a)
    BY <1>1, <2>2 DEF Removes
  <2>4. L[a.op_id].tombstone = TRUE <=> hit(a.op_id) \/ K[a.op_id].tombstone = TRUE
    BY <1>2, <2>2
  <2> QED
    BY <1>2, <1>4, <2>2, <2>3, <2>4
<1> QED
  BY <1>2, <1>3, <1>5 DEF Knows

LEMMA ReplayKnows ==
  ASSUME PlaylistAssumption, NEW T, Genuine(T), NEW log, Logged(log, T), Sorted(log)
  PROVE  Knows(Playlists!Replayed(log), log, Len(log))
<1> PICK n \in Nat : n = Len(log)
  BY DEF Logged
<1>1. PICK f \in [0..n -> Playlists!Known] : Steps(f, log) /\ Playlists!Replayed(log) = f[n]
  BY ReplayedBySteps DEF Logged
<1> PICK A : A = {i \in 0..n : Knows(f[i], log, i)}
  OBVIOUS
<1>2. 0 \in A
  <2>1. f[0] \in Playlists!Known /\ DOMAIN f[0] = {}
    BY <1>1, NothingKnown DEF Steps
  <2>2. Knows(f[0], log, 0)
    BY <2>1 DEF Knows
  <2> QED
    BY <2>2
<1>3. ASSUME NEW i \in 1..n, i - 1 \in A
      PROVE  i \in A
  <2>1. f[i] = Playlists!Apply(f[i - 1], log[i])
    BY <1>1 DEF Steps
  <2>2. Knows(f[i - 1], log, i - 1)
    BY <1>3
  <2>3. Knows(Playlists!Apply(f[i - 1], log[i]), log, i)
    BY <2>2, AddKnows, RemoveKnows
  <2> QED
    BY <2>1, <2>3
<1>4. \A i \in 0..n : i \in A
  BY <1>2, <1>3, UpTo
<1> QED
  BY <1>1, <1>4

Shown(K) == {x \in DOMAIN K : ~K[x].tombstone}

(* What is shown of a log is the last-writer-wins element set of it.       *)
LEMMA ShownIsElementSet ==
  ASSUME PlaylistAssumption, NEW T, Genuine(T), NEW log, Logged(log, T), NEW K,
         Knows(K, log, Len(log))
  PROVE  Shown(K) = Playlists!ElementSet(T)
<1> PICK n \in Nat : n = Len(log)
  BY DEF Logged
<1> DEFINE Live(a) == a.type = "ADD" /\ \A o \in T : o.target_op_id = a.op_id => o.timestamp < a.timestamp
<1>1. Playlists!ElementSet(T) = {a.op_id : a \in {x \in T : Live(x)}}
  BY DEF Playlists!ElementSet
<1>2. \A x \in T : x \in Playlists!Op
  BY DEF Genuine
<1>3. ASSUME NEW a \in T, a.type = "ADD"
      PROVE  Removed(log, n, a) <=> ~ Live(a)
  <2>1. \A o \in T : (o.target_op_id = a.op_id => o.timestamp < a.timestamp) <=> ~ Removes(o, a)
    <3>1. \A o \in T : o.target_op_id = a.op_id => o.type = "REMOVE"
      BY <1>2, OpFields DEF Genuine
    <3> QED
      BY <1>2, <3>1, OpFields DEF Removes
  <2>2. Removed(log, n, a) <=> \E o \in T : Removes(o, a)
    BY DEF Removed, Logged
  <2> QED
    BY <1>3, <2>1, <2>2
<1>4. \A x \in DOMAIN K : K[x].tombstone \in BOOLEAN
  <2>1. \A x \in DOMAIN K : K[x] \in Playlists!Entry
    BY KnowledgeIs DEF Knows
  <2> QED
    BY <2>1 DEF Playlists!Entry
<1>5. ASSUME NEW x \in DOMAIN K
      PROVE  \E a \in T : a.type = "ADD" /\ a.op_id = x
  BY DEF Knows, Logged
<1>6. ASSUME NEW a \in T, a.type = "ADD"
      PROVE  a.op_id \in Shown(K) <=> Live(a)
  <2>1. PICK j \in 1..n : log[j] = a
    BY DEF Logged
  <2>2. a.op_id \in DOMAIN K /\ (K[a.op_id].tombstone = TRUE <=> Removed(log, n, a))
    BY <1>6, <2>1 DEF Knows
  <2>3. a.op_id \in Shown(K) <=> ~ Removed(log, n, a)
    BY <1>4, <2>2 DEF Shown
  <2> QED
    BY <1>3, <1>6, <2>3
<1>7. Shown(K) \subseteq {a.op_id : a \in {x \in T : Live(x)}}
  <2>1. ASSUME NEW x \in Shown(K)
        PROVE  \E a \in {y \in T : Live(y)} : a.op_id = x
    <3>1. PICK a \in T : a.type = "ADD" /\ a.op_id = x
      BY <1>5 DEF Shown
    <3> QED
      BY <1>6, <3>1
  <2> QED
    BY <2>1
<1>8. {a.op_id : a \in {x \in T : Live(x)}} \subseteq Shown(K)
  <2>1. \A a \in {x \in T : Live(x)} : a.op_id \in Shown(K)
    BY <1>6
  <2> QED
    BY <2>1
<1> QED
  BY <1>1, <1>7, <1>8

(* A merge shows the element set of both logs, and its log holds both.     *)
Document(members, log) == [members |-> members, ops_log |-> log]

LEMMA MergeTypes ==
  ASSUME PlaylistAssumption, NEW a \in Playlists!Doc, NEW b \in Playlists!Doc
  PROVE  LET m == Playlists!MergeCrdtStates(a, b) IN
         /\ m.members \in SUBSET People /\ m.entries \in Playlists!Known
         /\ m.ops_log \in Seq(Playlists!Op) /\ Once(m.ops_log)
<1> PICK both : both = a.ops_log \o b.ops_log
  OBVIOUS
<1>1. both \in Seq(Playlists!Op) /\ b.members \in SUBSET People
  BY DEF Playlists!Doc
<1> PICK log : log = Playlists!SortByTimestamp(both)
  OBVIOUS
<1>2. log \in Seq(Playlists!Op)
  BY <1>1, LoggedSets, SortSorts DEF Logged
<1>3. Playlists!Replayed(log) \in Playlists!Known
  <2>1. PICK f \in [0..Len(log) -> Playlists!Known] : Playlists!Replayed(log) = f[Len(log)]
    BY <1>2, ReplayedBySteps
  <2>2. Len(log) \in 0..Len(log)
    BY <1>2
  <2> QED
    BY <2>1, <2>2
<1>4. Playlists!FirstOfEach(log) \in Seq(Playlists!Op) /\ Once(Playlists!FirstOfEach(log))
  BY <1>2, FirstOnce
<1> QED
  BY <1>1, <1>3, <1>4 DEF Playlists!MergeCrdtStates

Joined(s, t, both) ==
  /\ both \in Seq(Playlists!Op) /\ Len(both) = Len(s) + Len(t)
  /\ \A i \in 1..Len(s) : both[i] = s[i]
  /\ \A i \in 1..Len(t) : both[Len(s) + i] = t[i]

LEMMA Halves ==
  ASSUME NEW n \in Nat, NEW k \in Nat
  PROVE  /\ \A i \in 1..n + k : i \in 1..n \/ (i - n \in 1..k /\ n + (i - n) = i)
         /\ \A i \in 1..k : n + i \in 1..n + k
         /\ \A i \in 1..n : i \in 1..n + k
  OBVIOUS

LEMMA JoinedLogs ==
  ASSUME NEW s \in Seq(Playlists!Op), NEW t \in Seq(Playlists!Op)
  PROVE  Joined(s, t, s \o t)
  BY DEF Joined

LEMMA JoinedTell ==
  ASSUME NEW s, NEW t, NEW both, NEW A, NEW B, Joined(s, t, both), Logged(s, A), Logged(t, B)
  PROVE  Logged(both, A \cup B)
<1> PICK T : T = A \cup B
  OBVIOUS
<1> PICK n \in Nat, k \in Nat : n = Len(s) /\ k = Len(t)
  BY DEF Logged
<1>1. /\ both \in Seq(Playlists!Op) /\ Len(both) = n + k
      /\ \A i \in 1..n : both[i] = s[i]
      /\ \A i \in 1..k : both[n + i] = t[i]
  BY DEF Joined
<1>2. Logged(both, T)
  <2>1. \A i \in 1..n + k : i \in 1..n \/ (i - n \in 1..k /\ n + (i - n) = i)
    BY Halves
  <2>2. \A i \in 1..k : n + i \in 1..n + k
    BY Halves, Zenon
  <2>3. \A i \in 1..n : i \in 1..n + k
    BY Halves, Zenon
  <2>4. \A i \in 1..n + k : both[i] \in T
    <3>1. \A i \in 1..n : both[i] \in T
      BY <1>1 DEF Logged
    <3>2. \A i \in 1..k : both[n + i] \in T
      BY <1>1 DEF Logged
    <3> QED
      BY <2>1, <3>1, <3>2
  <2>5. \A x \in T : \E i \in 1..n + k : both[i] = x
    <3>1. ASSUME NEW x \in A PROVE \E i \in 1..n + k : both[i] = x
      <4>1. PICK i \in 1..n : s[i] = x
        BY DEF Logged
      <4> QED
        BY <1>1, <2>3, <4>1
    <3>2. ASSUME NEW x \in B PROVE \E i \in 1..n + k : both[i] = x
      <4>1. PICK i \in 1..k : t[i] = x
        BY DEF Logged
      <4> QED
        BY <1>1, <2>2, <4>1
    <3> QED
      BY <3>1, <3>2
  <2> QED
    BY <1>1, <2>4, <2>5 DEF Logged
<1> QED
  BY <1>2

LEMMA MergeShows ==
  ASSUME PlaylistAssumption, NEW a \in Playlists!Doc, NEW b \in Playlists!Doc, NEW A, NEW B,
         Logged(a.ops_log, A), Logged(b.ops_log, B), Genuine(A \cup B)
  PROVE  LET m == Playlists!MergeCrdtStates(a, b) IN
         /\ Logged(m.ops_log, A \cup B)
         /\ Shown(m.entries) = Playlists!ElementSet(A \cup B)
<1> PICK T : T = A \cup B
  OBVIOUS
<1> DEFINE both == a.ops_log \o b.ops_log
<1>1. Joined(a.ops_log, b.ops_log, both)
  BY JoinedLogs DEF Logged
<1> HIDE DEF both
<1>2. both \in Seq(Playlists!Op) /\ Logged(both, T)
  BY <1>1, JoinedTell DEF Joined
<1> PICK log : log = Playlists!SortByTimestamp(both)
  OBVIOUS
<1>3. Logged(log, T) /\ Sorted(log)
  BY <1>2, SortSorts
<1>4. Logged(Playlists!FirstOfEach(log), T)
  BY <1>3, FirstOnce DEF Logged
<1>5. Shown(Playlists!Replayed(log)) = Playlists!ElementSet(T)
  BY <1>3, ReplayKnows, ShownIsElementSet
<1> QED
  BY <1>4, <1>5 DEF Playlists!MergeCrdtStates, both

(* With distinct timestamps all documents tell parts of one history.       *)
Agree ==
  /\ Genuine(made)
  /\ \A x \in made : x.op_id <= Cardinality(made)
  /\ \A d \in sealed : Playlists!ToSet(d.ops_log) \subseteq made
  /\ \A r \in Replicas :
       /\ Playlists!ToSet(doc[r].ops_log) \subseteq made
       /\ Once(doc[r].ops_log)
       /\ seen[r] \subseteq Playlists!ToSet(doc[r].ops_log)
       /\ Shown(entries[r]) = Playlists!ElementSet(seen[r])

PlaylistInv == Playlists!TypeOK /\ IsFiniteSet(made) /\ (DistinctTimes => Agree)

LEMMA InitPlaylists == PlaylistAssumption /\ Playlists!Init => PlaylistInv
<1> SUFFICES ASSUME PlaylistAssumption, Playlists!Init
             PROVE  PlaylistInv
  OBVIOUS
<1>1. Playlists!TypeOK
  <2>1. doc \in [Replicas -> Playlists!Doc]
    BY DEF Playlists!Init, Playlists!Doc, PlaylistAssumption
  <2>2. entries \in [Replicas -> Playlists!Known]
    BY NothingKnown DEF Playlists!Init
  <2> QED
    BY <2>1, <2>2 DEF Playlists!Init, Playlists!TypeOK
<1>2. IsFiniteSet(made)
  BY FS_EmptySet DEF Playlists!Init
<1>3. Agree
  <2>1. Genuine(made)
    BY DEF Playlists!Init, Genuine
  <2>2. ASSUME NEW r \in Replicas
        PROVE  /\ Playlists!ToSet(doc[r].ops_log) \subseteq made
               /\ Once(doc[r].ops_log)
               /\ seen[r] \subseteq Playlists!ToSet(doc[r].ops_log)
               /\ Shown(entries[r]) = Playlists!ElementSet(seen[r])
    <3>1. doc[r].ops_log = <<>> /\ entries[r] = <<>> /\ seen[r] = {}
      BY DEF Playlists!Init
    <3>2. Playlists!ToSet(doc[r].ops_log) = {}
      BY <3>1 DEF Playlists!ToSet
    <3>3. Once(doc[r].ops_log)
      BY <3>1 DEF Once
    <3>4. Shown(entries[r]) = {}
      BY <3>1, NothingKnown DEF Shown
    <3>5. Playlists!ElementSet(seen[r]) = {}
      BY <3>1 DEF Playlists!ElementSet
    <3> QED
      BY <3>1, <3>2, <3>3, <3>4, <3>5
  <2> QED
    BY <2>1, <2>2 DEF Playlists!Init, Agree
<1> QED
  BY <1>1, <1>2, <1>3 DEF PlaylistInv

(* A log with one more operation.                                          *)
Longer(log, o, log2) ==
  /\ log2 \in Seq(Playlists!Op) /\ Len(log2) = Len(log) + 1
  /\ \A i \in 1..Len(log) : log2[i] = log[i]
  /\ log2[Len(log) + 1] = o

LEMMA AppendLonger ==
  ASSUME NEW log \in Seq(Playlists!Op), NEW o \in Playlists!Op
  PROVE  Longer(log, o, Append(log, o))
  BY DEF Longer

LEMMA LongerTells ==
  ASSUME PlaylistAssumption, NEW log \in Seq(Playlists!Op), NEW o, NEW log2, Longer(log, o, log2)
  PROVE  /\ Playlists!ToSet(log2) = Playlists!ToSet(log) \cup {o}
         /\ Once(log) /\ (\A i \in 1..Len(log) : log[i].op_id # o.op_id) => Once(log2)
<1> PICK n \in Nat : n = Len(log)
  OBVIOUS
<1>1. /\ log2 \in Seq(Playlists!Op) /\ Len(log2) = n + 1
      /\ \A i \in 1..n : log2[i] = log[i]
      /\ log2[n + 1] = o
  BY DEF Longer
<1>2. \A i \in 1..n + 1 : i \in 1..n \/ i = n + 1
  OBVIOUS
<1>3. \A i \in 1..n : i \in 1..n + 1
  OBVIOUS
<1>4. n + 1 \in 1..n + 1
  OBVIOUS
<1>5. DOMAIN log2 = 1..n + 1 /\ DOMAIN log = 1..n
  BY <1>1
<1>6. Playlists!ToSet(log2) = Playlists!ToSet(log) \cup {o}
  <2>1. \A i \in 1..n + 1 : log2[i] \in Playlists!ToSet(log) \cup {o}
    BY <1>1, <1>2, <1>5 DEF Playlists!ToSet
  <2>2. \A i \in 1..n : log[i] \in Playlists!ToSet(log2)
    BY <1>1, <1>3, <1>5 DEF Playlists!ToSet
  <2>3. o \in Playlists!ToSet(log2)
    BY <1>1, <1>4, <1>5 DEF Playlists!ToSet
  <2> QED
    BY <1>5, <2>1, <2>2, <2>3 DEF Playlists!ToSet
<1>7. ASSUME Once(log), \A i \in 1..n : log[i].op_id # o.op_id
      PROVE  Once(log2)
  BY <1>1, <1>2, <1>7 DEF Once
<1> QED
  BY <1>6, <1>7

LEMMA EditKeeps ==
  ASSUME PlaylistAssumption, PlaylistInv, NEW r \in Replicas, Playlists!Edit(r)
  PROVE  PlaylistInv'
<1> PICK n \in Nat : n = Cardinality(made)
  BY FS_CardinalityType DEF PlaylistInv
<1>1. Playlists!Cardinality(made) = n
  BY DEF Playlists!Cardinality, Cardinality
<1>2. PICK type \in {"ADD", "REMOVE"}, t \in 1..MaxTime :
      \E target \in IF type = "ADD" THEN {NoTarget}
                    ELSE {o.op_id : o \in {x \in Playlists!ToSet(doc[r].ops_log) : x.type = "ADD"}} :
        LET o == [type |-> type, op_id |-> n + 1, target_op_id |-> target, timestamp |-> t]
        IN  /\ DistinctTimes => \A x \in made : x.timestamp # t
            /\ doc' = [doc EXCEPT ![r].ops_log = Append(@, o)]
            /\ made' = made \cup {o}
  BY <1>1 DEF Playlists!Edit
<1>3. PICK target \in IF type = "ADD" THEN {NoTarget}
                    ELSE {o.op_id : o \in {x \in Playlists!ToSet(doc[r].ops_log) : x.type = "ADD"}} :
        LET o == [type |-> type, op_id |-> n + 1, target_op_id |-> target, timestamp |-> t]
        IN  /\ DistinctTimes => \A x \in made : x.timestamp # t
            /\ doc' = [doc EXCEPT ![r].ops_log = Append(@, o)]
            /\ made' = made \cup {o}
  BY <1>2
<1> PICK o : o = [type |-> type, op_id |-> n + 1, target_op_id |-> target, timestamp |-> t]
  OBVIOUS
<1>4. /\ o.type = type /\ o.op_id = n + 1 /\ o.target_op_id = target /\ o.timestamp = t
      /\ DistinctTimes => \A x \in made : x.timestamp # t
      /\ doc' = [doc EXCEPT ![r].ops_log = Append(@, o)]
      /\ made' = made \cup {o}
      /\ UNCHANGED <<entries, seen, sealed>>
  BY <1>3 DEF Playlists!Edit
<1>5. n + 1 \in 1..MaxEdits
  BY <1>1 DEF Playlists!Edit, PlaylistAssumption
<1> PICK log \in Seq(Playlists!Op) : log = doc[r].ops_log
  BY DEF PlaylistInv, Playlists!TypeOK, Playlists!Doc
<1>6. o \in Playlists!Op
  <2>1. \A x \in Playlists!ToSet(log) : x \in Playlists!Op
    BY LoggedSets DEF Logged, Playlists!ToSet
  <2>2. target \in (1..MaxEdits) \cup {NoTarget}
    BY <2>1, OpFields
  <2> QED
    BY <1>5, <2>2 DEF Playlists!Op
<1>7. doc \in [Replicas -> Playlists!Doc] /\ made \subseteq Playlists!Op
  BY DEF PlaylistInv, Playlists!TypeOK
<1>8. /\ doc' \in [Replicas -> Playlists!Doc]
      /\ doc'[r].ops_log = Append(log, o)
      /\ \A q \in Replicas : q # r => doc'[q] = doc[q]
  <2> PICK log2 \in Seq(Playlists!Op) : log2 = Append(log, o)
    BY <1>6, AppendLonger DEF Longer
  <2>1. [doc[r] EXCEPT !.ops_log = log2] \in Playlists!Doc
    BY <1>7 DEF Playlists!Doc
  <2>2. doc' = [doc EXCEPT ![r] = [doc[r] EXCEPT !.ops_log = log2]]
    BY <1>4
  <2>3. [doc[r] EXCEPT !.ops_log = log2].ops_log = log2
    BY <1>7 DEF Playlists!Doc
  <2> QED
    BY <1>7, <2>1, <2>2, <2>3
<1>9. Playlists!TypeOK'
  BY <1>4, <1>6, <1>7, <1>8 DEF PlaylistInv, Playlists!TypeOK
<1>10. IsFiniteSet(made')
  BY <1>4, FS_AddElement DEF PlaylistInv
<1>11. ASSUME DistinctTimes
       PROVE  Agree'
  <2>1. Agree
    BY <1>11 DEF PlaylistInv
  <2>2. \A x \in made : x.op_id <= n /\ x.op_id \in Nat /\ x.op_id # o.op_id /\ x.timestamp # o.timestamp
    BY <1>4, <1>7, <1>11, <2>1, OpFields DEF Agree
  <2>3. o \notin made
    BY <2>2
  <2>4. Genuine(made')
    <3>1. \A x, y \in made' : x.op_id = y.op_id \/ x.timestamp = y.timestamp => x = y
      BY <1>4, <2>1, <2>2 DEF Agree, Genuine
    <3>2. \A x \in made' : x.type = "ADD" => x.target_op_id = NoTarget
      BY <1>4, <2>1 DEF Agree, Genuine
    <3> QED
      BY <1>4, <1>6, <1>7, <3>1, <3>2 DEF Genuine
  <2>5. \A x \in made' : x.op_id <= Cardinality(made')
    <3>1. Cardinality(made') = n + 1
      BY <1>4, <2>3, FS_AddElement DEF PlaylistInv
    <3>2. \A x \in made : x.op_id <= n + 1
      BY <2>2
    <3> QED
      BY <1>4, <3>1, <3>2
  <2>6. ASSUME NEW i \in 1..Len(log)
        PROVE  log[i] \in made
    BY <2>1 DEF Agree, Playlists!ToSet
  <2> PICK log2 : log2 = doc'[r].ops_log
    OBVIOUS
  <2>7. Longer(log, o, log2)
    BY <1>6, <1>8, AppendLonger
  <2>8. Playlists!ToSet(log2) = Playlists!ToSet(log) \cup {o}
    BY <2>7, LongerTells
  <2>9. Once(log2)
    <3>1. Once(log)
      BY <2>1 DEF Agree
    <3>2. \A i \in 1..Len(log) : log[i].op_id # o.op_id
      BY <2>2, <2>6
    <3> QED
      BY <2>7, <3>1, <3>2, LongerTells
  <2>10. ASSUME NEW q \in Replicas
         PROVE  /\ Playlists!ToSet(doc'[q].ops_log) \subseteq made'
                /\ Once(doc'[q].ops_log)
                /\ seen'[q] \subseteq Playlists!ToSet(doc'[q].ops_log)
                /\ Shown(entries'[q]) = Playlists!ElementSet(seen'[q])
    BY <1>4, <1>8, <2>1, <2>8, <2>9 DEF Agree
  <2> QED
    BY <1>4, <2>1, <2>4, <2>5, <2>10 DEF Agree
<1> QED
  BY <1>9, <1>10, <1>11 DEF PlaylistInv

LEMMA InviteKeeps ==
  ASSUME PlaylistInv, NEW r \in Replicas, Playlists!Invite(r)
  PROVE  PlaylistInv'
<1>1. PICK p \in People : doc' = [doc EXCEPT ![r].members = @ \cup {p}]
  BY DEF Playlists!Invite
<1>2. doc \in [Replicas -> Playlists!Doc] /\ UNCHANGED <<entries, seen, sealed, made>>
  BY DEF PlaylistInv, Playlists!TypeOK, Playlists!Invite
<1>3. [doc[r] EXCEPT !.members = @ \cup {p}] \in Playlists!Doc
  BY <1>2 DEF Playlists!Doc
<1>4. doc' \in [Replicas -> Playlists!Doc]
  BY <1>1, <1>2, <1>3
<1>5. \A q \in Replicas : doc'[q].ops_log = doc[q].ops_log
  BY <1>1, <1>2 DEF Playlists!Doc
<1>6. Playlists!TypeOK'
  BY <1>2, <1>4 DEF PlaylistInv, Playlists!TypeOK
<1>7. Agree => Agree'
  BY <1>2, <1>5 DEF Agree
<1> QED
  BY <1>2, <1>6, <1>7 DEF PlaylistInv

LEMMA SealKeeps ==
  ASSUME PlaylistInv, NEW r \in Replicas, Playlists!Seal(r)
  PROVE  PlaylistInv'
<1>1. sealed' = sealed \cup {doc[r]} /\ UNCHANGED <<doc, entries, seen, made>>
  BY DEF Playlists!Seal
<1>2. Playlists!TypeOK'
  BY <1>1 DEF PlaylistInv, Playlists!TypeOK
<1>3. Agree => Agree'
  BY <1>1 DEF Agree
<1> QED
  BY <1>1, <1>2, <1>3 DEF PlaylistInv

LEMMA MergeKeeps ==
  ASSUME PlaylistAssumption, PlaylistInv, NEW r \in Replicas, Playlists!Merge(r)
  PROVE  PlaylistInv'
<1>1. PICK d \in sealed :
        LET m == Playlists!MergeCrdtStates(doc[r], d)
        IN  /\ doc' = [doc EXCEPT ![r] = [members |-> m.members, ops_log |-> m.ops_log]]
            /\ entries' = [entries EXCEPT ![r] = m.entries]
            /\ seen' = [seen EXCEPT ![r] = Playlists!ToSet(doc[r].ops_log) \cup Playlists!ToSet(d.ops_log)]
  BY DEF Playlists!Merge
<1> PICK m : m = Playlists!MergeCrdtStates(doc[r], d)
  OBVIOUS
<1> PICK A, B : A = Playlists!ToSet(doc[r].ops_log) /\ B = Playlists!ToSet(d.ops_log)
  OBVIOUS
<1> PICK e : e = [members |-> m.members, ops_log |-> m.ops_log]
  OBVIOUS
<1>2. /\ doc' = [doc EXCEPT ![r] = e]
      /\ entries' = [entries EXCEPT ![r] = m.entries]
      /\ seen' = [seen EXCEPT ![r] = A \cup B]
      /\ UNCHANGED <<sealed, made>>
  BY <1>1 DEF Playlists!Merge
<1>3. /\ doc \in [Replicas -> Playlists!Doc] /\ d \in Playlists!Doc
      /\ entries \in [Replicas -> Playlists!Known] /\ seen \in [Replicas -> SUBSET Playlists!Op]
  BY DEF PlaylistInv, Playlists!TypeOK
<1>4. /\ m.members \in SUBSET People /\ m.entries \in Playlists!Known
      /\ m.ops_log \in Seq(Playlists!Op) /\ Once(m.ops_log)
  BY <1>3, MergeTypes
<1>5. e \in Playlists!Doc /\ e.ops_log = m.ops_log
  BY <1>4 DEF Playlists!Doc
<1>6. Logged(doc[r].ops_log, A) /\ Logged(d.ops_log, B)
  BY <1>3, LoggedSets DEF Playlists!Doc
<1>7. A \cup B \subseteq Playlists!Op
  <2>1. A \subseteq Playlists!Op /\ B \subseteq Playlists!Op
    BY <1>3 DEF Playlists!Doc, Playlists!ToSet
  <2> QED
    BY <2>1
<1>8. Playlists!TypeOK'
  BY <1>2, <1>3, <1>4, <1>5, <1>7 DEF PlaylistInv, Playlists!TypeOK
<1>9. ASSUME Agree
      PROVE  Agree'
  <2>1. A \subseteq made /\ B \subseteq made
    BY <1>9 DEF Agree
  <2>2. Genuine(A \cup B)
    BY <1>9, <2>1 DEF Agree, Genuine
  <2>3. Logged(m.ops_log, A \cup B) /\ Shown(m.entries) = Playlists!ElementSet(A \cup B)
    <3>1. doc[r] \in Playlists!Doc
      BY <1>3
    <3>2. \A a, b \in Playlists!Doc :
            Logged(a.ops_log, A) /\ Logged(b.ops_log, B)
              => /\ Logged(Playlists!MergeCrdtStates(a, b).ops_log, A \cup B)
                 /\ Shown(Playlists!MergeCrdtStates(a, b).entries) = Playlists!ElementSet(A \cup B)
      BY <2>2, MergeShows
    <3> QED
      BY <1>3, <1>6, <3>1, <3>2
  <2>4. Playlists!ToSet(m.ops_log) = A \cup B
    BY <2>3, LoggedIs
  <2>5. ASSUME NEW q \in Replicas
        PROVE  /\ Playlists!ToSet(doc'[q].ops_log) \subseteq made'
               /\ Once(doc'[q].ops_log)
               /\ seen'[q] \subseteq Playlists!ToSet(doc'[q].ops_log)
               /\ Shown(entries'[q]) = Playlists!ElementSet(seen'[q])
    <3>1. CASE q = r
      <4>1. doc'[q].ops_log = m.ops_log /\ entries'[q] = m.entries /\ seen'[q] = A \cup B
        BY <1>2, <1>3, <1>5, <3>1
      <4> QED
        BY <1>2, <1>4, <2>1, <2>3, <2>4, <4>1
    <3>2. CASE q # r
      <4>1. doc'[q] = doc[q] /\ entries'[q] = entries[q] /\ seen'[q] = seen[q]
        BY <1>2, <1>3, <3>2
      <4> QED
        BY <1>2, <1>9, <4>1 DEF Agree
    <3> QED
      BY <3>1, <3>2
  <2> QED
    BY <1>2, <1>9, <2>5 DEF Agree
<1> QED
  BY <1>2, <1>8, <1>9 DEF PlaylistInv

LEMMA PlaylistStep ==
  ASSUME PlaylistAssumption, PlaylistInv, [Playlists!Next]_playlistVars
  PROVE  PlaylistInv'
<1>1. CASE UNCHANGED playlistVars
  <2>1. Playlists!TypeOK' /\ (Agree => Agree')
    BY <1>1 DEF PlaylistInv, playlistVars, Playlists!TypeOK, Agree
  <2> QED
    BY <1>1, <2>1 DEF PlaylistInv, playlistVars
<1>2. CASE Playlists!Next
  BY <1>2, EditKeeps, InviteKeeps, SealKeeps, MergeKeeps DEF Playlists!Next
<1> QED
  BY <1>1, <1>2

LEMMA PlaylistShows == PlaylistInv /\ Agree => Playlists!LastWriterWins
<1> SUFFICES ASSUME PlaylistInv, Agree, NEW r \in Replicas
             PROVE  /\ Playlists!Visible(r) = Playlists!ElementSet(seen[r])
                    /\ seen[r] \subseteq Playlists!ToSet(doc[r].ops_log)
                    /\ Playlists!IsInjective([i \in DOMAIN doc[r].ops_log |-> doc[r].ops_log[i].op_id])
  BY DEF Playlists!LastWriterWins
<1>1. Playlists!Visible(r) = Shown(entries[r])
  BY DEF Playlists!Visible, Shown
<1> PICK log \in Seq(Playlists!Op) : log = doc[r].ops_log
  BY DEF PlaylistInv, Playlists!TypeOK, Playlists!Doc
<1>2. Once(log)
  BY DEF Agree
<1>3. Playlists!IsInjective([i \in DOMAIN log |-> log[i].op_id])
  BY <1>2 DEF Once, Playlists!IsInjective
<1> QED
  BY <1>1, <1>3 DEF Agree

-----------------------------------------------------------------------------
(* The client.                                                             *)
ClientInv == QueueInv /\ PageInv /\ WorkerInv

(* Each component starts in its invariant.                                 *)
LEMMA InitClient ==
  ASSUME PageAssumption, WorkerAssumption, ClientInit
  PROVE  ClientInv
  BY QueueAssumption, InitQueues, InitPage, InitWorker DEF ClientInit, ClientInv

(* Whichever component moves, the others stay as they are.                 *)
LEMMA ClientStep ==
  ASSUME PageAssumption, WorkerAssumption, ClientInv,
         [ClientNext]_<<vars, playlistVars, pageVars, workerVars>>
  PROVE  ClientInv'
<1>1. [Next]_vars /\ [Page!Next]_pageVars /\ [Worker!Next]_workerVars
  BY DEF ClientNext
<1> QED
  BY <1>1, QueueStep, PageStep, WorkerStep DEF ClientInv

(* The invariant holds throughout.                                         *)
LEMMA ClientAlways ==
  ASSUME PageAssumption, WorkerAssumption
  PROVE  ClientSpec => []ClientInv
<1>1. ClientInit => ClientInv
  BY InitClient
<1>2. ClientInv /\ [ClientNext]_<<vars, playlistVars, pageVars, workerVars>> => ClientInv'
  BY ClientStep
<1> QED
  BY <1>1, <1>2, PTL DEF ClientSpec

LEMMA PlaylistAlways ==
  ASSUME PlaylistAssumption
  PROVE  ClientSpec => []PlaylistInv
<1>1. ClientInit => PlaylistInv
  BY InitPlaylists DEF ClientInit
<1>2. PlaylistInv /\ [ClientNext]_<<vars, playlistVars, pageVars, workerVars>> => PlaylistInv'
  <2>1. ASSUME [ClientNext]_<<vars, playlistVars, pageVars, workerVars>>
        PROVE  [Playlists!Next]_playlistVars
    BY <2>1 DEF ClientNext
  <2> QED
    BY <2>1, PlaylistStep
<1> QED
  BY <1>1, <1>2, PTL DEF ClientSpec

(* offline-cache.js:106-107: whatever fails, whoever closes a tab and
   however many drains run, an operation leaves the queue only when the
   server has executed it.                                                 *)
THEOREM OperationsAreKept ==
  ASSUME PageAssumption, WorkerAssumption
  PROVE  ClientSpec => []NothingIsDropped
<1>1. ClientInv => NothingIsDropped
  BY DEF ClientInv, QueueInv
<1> QED
  BY <1>1, ClientAlways, PTL

(* It is executed twice only where the browser cannot tell: two drains held
   it, its answer was lost, or its tab was closed before the record was
   deleted.                                                                *)
THEOREM OperationsAreExecutedOnce ==
  ASSUME PageAssumption, WorkerAssumption
  PROVE  ClientSpec => []ReplayedOnce
<1>1. ClientInv => ReplayedOnce
  BY DEF ClientInv, QueueInv, OneHolder, ExecutedOnce, ReplayedOnce, TypeOK
<1> QED
  BY <1>1, ClientAlways, PTL

(* app.js:184-197: without a warning, a page's session has not been gone for
   longer than answers and the throttle of its refreshes explain.          *)
THEOREM PageWarnsInTime ==
  ASSUME PageAssumption, WorkerAssumption
  PROVE  ClientSpec => []WarnedInTime
<1>1. ClientInv => WarnedInTime
  BY PageWarns DEF ClientInv, WarnedInTime
<1> QED
  BY <1>1, ClientAlways, PTL

(* sw.js:12-45: a worker answers with no installed asset older than itself,
   whatever late copies and installations bring back.                      *)
THEOREM WorkersAnswerCurrent ==
  ASSUME PageAssumption, WorkerAssumption
  PROVE  ClientSpec => []StaticAssetsAreCurrent
<1>1. ClientInv => StaticAssetsAreCurrent
  BY DEF ClientInv, WorkerInv, StaticAssetsAreCurrent
<1> QED
  BY <1>1, ClientAlways, PTL

(* playlist_metadata_store.js:42-74: whatever copies of the documents a
   replica merges, and in whatever order, it shows the last-writer-wins
   element set of their operations, and its log keeps each of them once.   *)
THEOREM PlaylistsShowLastWrites ==
  ASSUME PlaylistAssumption, DistinctTimes
  PROVE  ClientSpec => []LastWriterWins
<1>1. PlaylistInv => LastWriterWins
  BY PlaylistShows DEF PlaylistInv, LastWriterWins
<1> QED
  BY <1>1, PlaylistAlways, PTL

(* Every variable of the client has its type.                              *)
THEOREM ClientIsTyped ==
  ASSUME PlaylistAssumption, PageAssumption, WorkerAssumption
  PROVE  ClientSpec => []ClientTypeOK
<1>1. ClientInv /\ PlaylistInv => ClientTypeOK
  BY DEF ClientInv, QueueInv, PageInv, WorkerInv, PlaylistInv, ClientTypeOK
<1> QED
  BY <1>1, ClientAlways, PlaylistAlways, PTL

-----------------------------------------------------------------------------
(* What a replica has merged, and what its log holds, only grows. *)
HistoryGrows ==
  \A r \in Replicas :
    /\ seen[r] \subseteq seen'[r]
    /\ Playlists!ToSet(doc[r].ops_log) \subseteq Playlists!ToSet(doc'[r].ops_log)

LEMMA EditGrows ==
  ASSUME PlaylistAssumption, PlaylistInv, NEW r \in Replicas, Playlists!Edit(r)
  PROVE  HistoryGrows
<1>1. PICK o : doc' = [doc EXCEPT ![r].ops_log = Append(@, o)]
  BY DEF Playlists!Edit
<1>2. seen' = seen /\ doc \in [Replicas -> Playlists!Doc]
  BY DEF Playlists!Edit, PlaylistInv, Playlists!TypeOK
<1>3. \A q \in Replicas :
        doc'[q].ops_log = IF q = r THEN Append(doc[q].ops_log, o) ELSE doc[q].ops_log
  BY <1>1, <1>2 DEF Playlists!Doc
<1>4. ASSUME NEW log \in Seq(Playlists!Op)
      PROVE  Playlists!ToSet(log) \subseteq Playlists!ToSet(Append(log, o))
  <2>1. /\ DOMAIN log = 1..Len(log) /\ DOMAIN Append(log, o) = 1..Len(log) + 1 /\ Len(log) \in Nat
        /\ \A i \in 1..Len(log) : Append(log, o)[i] = log[i]
    OBVIOUS
  <2>2. 1..Len(log) \subseteq 1..Len(log) + 1
    BY <2>1
  <2> PICK longer : longer = Append(log, o)
    OBVIOUS
  <2> QED
    BY <2>1, <2>2 DEF Playlists!ToSet
<1>5. \A q \in Replicas : doc[q].ops_log \in Seq(Playlists!Op)
  BY <1>2 DEF Playlists!Doc
<1> QED
  BY <1>2, <1>3, <1>4, <1>5 DEF HistoryGrows

LEMMA MergeGrows ==
  ASSUME DistinctTimes, PlaylistInv, PlaylistInv', NEW r \in Replicas, Playlists!Merge(r)
  PROVE  HistoryGrows
<1>1. PICK d \in sealed :
        LET m == Playlists!MergeCrdtStates(doc[r], d)
        IN  /\ doc' = [doc EXCEPT ![r] = [members |-> m.members, ops_log |-> m.ops_log]]
            /\ seen' = [seen EXCEPT ![r] = Playlists!ToSet(doc[r].ops_log) \cup Playlists!ToSet(d.ops_log)]
  BY DEF Playlists!Merge
<1> PICK A, B, e : /\ A = Playlists!ToSet(doc[r].ops_log) /\ B = Playlists!ToSet(d.ops_log)
                   /\ doc' = [doc EXCEPT ![r] = e]
  BY <1>1
<1>2. doc' = [doc EXCEPT ![r] = e] /\ seen' = [seen EXCEPT ![r] = A \cup B]
  BY <1>1
<1>3. DOMAIN doc = Replicas /\ DOMAIN seen = Replicas
  BY DEF PlaylistInv, Playlists!TypeOK
<1>4. \A q \in Replicas : /\ q # r => doc'[q] = doc[q] /\ seen'[q] = seen[q]
                          /\ q = r => seen'[q] = A \cup B
  BY ONLY <1>2, <1>3
<1>5. seen[r] \subseteq A /\ seen'[r] \subseteq Playlists!ToSet(doc'[r].ops_log)
  BY DEF PlaylistInv, Agree
<1> QED
  BY <1>4, <1>5 DEF HistoryGrows

LEMMA StepGrows ==
  ASSUME PlaylistAssumption, DistinctTimes, PlaylistInv, PlaylistInv', [Playlists!Next]_playlistVars
  PROVE  HistoryGrows
<1>1. CASE UNCHANGED <<doc, seen>>
  BY <1>1 DEF HistoryGrows
<1>2. ASSUME NEW r \in Replicas, Playlists!Invite(r)
      PROVE  HistoryGrows
  <2>1. PICK p \in People : doc' = [doc EXCEPT ![r].members = @ \cup {p}]
    BY <1>2 DEF Playlists!Invite
  <2>2. \A q \in Replicas : doc'[q].ops_log = doc[q].ops_log
    BY <2>1 DEF PlaylistInv, Playlists!TypeOK, Playlists!Doc
  <2> QED
    BY <1>2, <2>2 DEF Playlists!Invite, HistoryGrows
<1>3. ASSUME NEW r \in Replicas, Playlists!Seal(r)
      PROVE  UNCHANGED <<doc, seen>>
  BY <1>3 DEF Playlists!Seal
<1> QED
  BY <1>1, <1>2, <1>3, EditGrows, MergeGrows DEF Playlists!Next, playlistVars

(* mergeCrdtStates at work between devices: edits, invitations and merges of documents that are
   old, repeated or out of order never take an operation back from a replica, and two replicas
   that have merged the same operations show the same, however each of them came by them. *)
THEOREM ReplicasConverge ==
  ASSUME PlaylistAssumption, DistinctTimes
  PROVE  ClientSpec =>
           /\ [](\A r, q \in Replicas : seen[r] = seen[q] => Playlists!Visible(r) = Playlists!Visible(q))
           /\ [][HistoryGrows]_<<vars, playlistVars, pageVars, workerVars>>
<1> DEFINE Converged ==
      \A r, q \in Replicas : seen[r] = seen[q] => Playlists!Visible(r) = Playlists!Visible(q)
<1>1. LastWriterWins => Converged
  BY DEF LastWriterWins, Playlists!LastWriterWins
<1>2. PlaylistInv /\ PlaylistInv' /\ [ClientNext]_<<vars, playlistVars, pageVars, workerVars>>
      => HistoryGrows
  <2>1. ASSUME [ClientNext]_<<vars, playlistVars, pageVars, workerVars>>
        PROVE  [Playlists!Next]_playlistVars
    BY <2>1 DEF ClientNext
  <2> QED
    BY <2>1, StepGrows
<1> QED
  BY <1>1, <1>2, PlaylistAlways, PlaylistsShowLastWrites, PTL DEF ClientSpec
=============================================================================
