----------------------------- MODULE OfflineQueue -----------------------------
(***************************************************************************)
(* The offline queue of the web client: ui/public/offline-cache.js and the *)
(* part of ui/public/app.js that queues requests which fail while the      *)
(* device is offline, and replays them on the events `online' and `load'.  *)
(*                                                                         *)
(* Several tabs share one IndexedDB, whose transactions are steps; each    *)
(* tab fetches the key at most once.  The server, the network and the user *)
(* who closes and opens tabs are external.                                 *)
(***************************************************************************)
EXTENDS Integers

CONSTANTS
  Tabs,
  Drains,     \* bound: the drains that may run in one tab at once
  MaxOps,     \* bound: operations ever queued
  MaxReloads, \* bound: how often tabs are loaded again
  MaxOutages, \* bound: how often the device goes offline
  MayFail     \* whether a replay may fail, or its response be lost

ASSUME QueueAssumption ==
  /\ {MaxOps, MaxReloads, MaxOutages} \subseteq Nat
  /\ MayFail \in BOOLEAN

None == 0

VARIABLES
  storedKey,  \* KEY_STORE: the key, or None
  keys,       \* how many keys were ever generated; gives the next one
  queue,      \* QUEUE_STORE
  ops,        \* how many operations were ever queued; gives the next id
  tab,        \* what each tab holds: its key, the write under way, drains to start
  drain,      \* the local state of each drain of each tab
  online,     \* whether the device is online
  outages,    \* how often it went offline
  reloads,    \* how often tabs were loaded again
  replays,    \* history: how often the server executed each operation's replay
  suspect     \* history: the operations the browser gave a reason to replay twice

vars == <<storedKey, keys, queue, ops, tab, drain, online, outages, reloads, replays, suspect>>

Rec == [id: 1..MaxOps, key: Nat \ {0}]
Tab == [keyStep: {"none", "generate", "ready"}, key: Nat, write: {"idle", "key", "add"}, due: Nat]
Drain == [step: {"idle", "next", "send", "delete"}, items: SUBSET Rec]

NewTab == [keyStep |-> "none", key |-> None, write |-> "idle", due |-> 1]
IdleDrain == [step |-> "idle", items |-> {}]

(* The tabs were loaded, and their first drain is still to come. *)
Init ==
  /\ storedKey = None /\ keys = 0
  /\ queue = {} /\ ops = 0
  /\ tab = [t \in Tabs |-> NewTab]
  /\ drain = [t \in Tabs |-> [d \in Drains |-> IdleDrain]]
  /\ online = TRUE /\ outages = 0 /\ reloads = 0
  /\ replays = [i \in 1..MaxOps |-> 0] /\ suspect = {}

-----------------------------------------------------------------------------
NeedsKey(t) == tab[t].write = "key" \/ \E d \in Drains : drain[t][d].step = "next" /\ drain[t][d].items # {}

(* ensureKey reads the store once. *)
ReadKey(t) ==
  /\ tab[t].keyStep = "none"
  /\ NeedsKey(t)
  /\ tab' = [tab EXCEPT ![t].keyStep = IF storedKey = None THEN "generate" ELSE "ready",
                        ![t].key = storedKey]
  /\ UNCHANGED <<storedKey, keys, queue, ops, drain, online, outages, reloads, replays, suspect>>

(* Finding none, it generates one and puts it there. *)
PutKey(t) ==
  /\ tab[t].keyStep = "generate"
  /\ keys' = keys + 1
  /\ storedKey' = keys + 1
  /\ tab' = [tab EXCEPT ![t].keyStep = "ready", ![t].key = keys + 1]
  /\ UNCHANGED <<queue, ops, drain, online, outages, reloads, replays, suspect>>

(* A request fails while the device is offline: queueOperation starts. *)
FailOffline(t) ==
  /\ ~online
  /\ tab[t].write = "idle"
  /\ ops < MaxOps
  /\ tab' = [tab EXCEPT ![t].write = "key"]
  /\ UNCHANGED <<storedKey, keys, queue, ops, drain, online, outages, reloads, replays, suspect>>

(* Mutant: the write does not wait for the key. *)
EncryptAtOnce(t) ==
  /\ tab[t].write = "key"
  /\ tab' = [tab EXCEPT ![t].write = "add"]
  /\ UNCHANGED <<storedKey, keys, queue, ops, drain, online, outages, reloads, replays, suspect>>

Encrypt(t) ==
  /\ tab[t].write = "key"
  /\ tab[t].keyStep = "ready"
  /\ tab' = [tab EXCEPT ![t].write = "add"]
  /\ UNCHANGED <<storedKey, keys, queue, ops, drain, online, outages, reloads, replays, suspect>>

AddRecord(t) ==
  /\ tab[t].write = "add"
  /\ ops < MaxOps
  /\ ops' = ops + 1
  /\ queue' = queue \cup {[id |-> ops + 1, key |-> tab[t].key]}
  /\ tab' = [tab EXCEPT ![t].write = "idle"]
  /\ UNCHANGED <<storedKey, keys, drain, online, outages, reloads, replays, suspect>>

-----------------------------------------------------------------------------
(* The items of a drain are replayed in the order of their ids. *)
First(items) == CHOOSE r \in items : \A s \in items : r.id <= s.id

(* drainQueue: everything that is queued now, the oldest first; also what another drain
   is about to replay. *)
StartDrain(t, d) ==
  /\ tab[t].due > 0
  /\ drain[t][d].step = "idle"
  /\ tab' = [tab EXCEPT ![t].due = @ - 1]
  /\ drain' = [drain EXCEPT ![t][d] = [step |-> "next", items |-> queue]]
  /\ suspect' = suspect \cup {r.id : r \in queue \cap UNION {drain[u][e].items : u \in Tabs, e \in Drains}}
  /\ UNCHANGED <<storedKey, keys, queue, ops, online, outages, reloads, replays>>

(* The next record, if there is one.  It is decrypted outside of the try block: a
   record of another key ends the drain. *)
NextRecord(t, d) ==
  LET q == drain[t][d] IN
  /\ q.step = "next"
  /\ q.items # {} => tab[t].keyStep = "ready"
  /\ drain' = [drain EXCEPT ![t][d] =
       IF q.items = {} \/ First(q.items).key # tab[t].key
       THEN IdleDrain
       ELSE [q EXCEPT !.step = "send"]]
  /\ UNCHANGED <<storedKey, keys, queue, ops, tab, online, outages, reloads, replays, suspect>>

Kept(q) == [q EXCEPT !.step = "next", !.items = @ \ {First(@)}]

(* Mutant: a replay that fails is deleted like the others. *)
ReplayOrDrop(t, d) ==
  LET q == drain[t][d] IN
  /\ q.step = "send"
  /\ \/ online /\ replays' = [replays EXCEPT ![First(q.items).id] = @ + 1]
     \/ (MayFail \/ ~online) /\ UNCHANGED replays
  /\ drain' = [drain EXCEPT ![t][d].step = "delete"]
  /\ UNCHANGED <<storedKey, keys, queue, ops, tab, online, outages, reloads, suspect>>

(* The handler: the server executes the operation and says so; or it executes it and
   the answer is lost; or it refuses it, or is not reached. *)
Replay(t, d) ==
  LET q == drain[t][d]  i == First(q.items).id IN
  /\ q.step = "send"
  /\ \/ /\ online
        /\ replays' = [replays EXCEPT ![i] = @ + 1]
        /\ drain' = [drain EXCEPT ![t][d].step = "delete"]
        /\ UNCHANGED suspect
     \/ /\ online /\ MayFail
        /\ replays' = [replays EXCEPT ![i] = @ + 1]
        /\ drain' = [drain EXCEPT ![t][d] = Kept(q)]
        /\ suspect' = suspect \cup {i}
     \/ /\ MayFail \/ ~online
        /\ drain' = [drain EXCEPT ![t][d] = Kept(q)]
        /\ UNCHANGED <<replays, suspect>>
  /\ UNCHANGED <<storedKey, keys, queue, ops, tab, online, outages, reloads>>

(* Mutant: the record stays. *)
DeleteNot(t, d) ==
  /\ drain[t][d].step = "delete"
  /\ drain' = [drain EXCEPT ![t][d] = Kept(drain[t][d])]
  /\ UNCHANGED <<storedKey, keys, queue, ops, tab, online, outages, reloads, replays, suspect>>

(* A replay that succeeded is deleted by its id, whoever deleted it before. *)
DeleteRecord(t, d) ==
  LET q == drain[t][d] IN
  /\ q.step = "delete"
  /\ queue' = {r \in queue : r.id # First(q.items).id}
  /\ drain' = [drain EXCEPT ![t][d] = Kept(q)]
  /\ UNCHANGED <<storedKey, keys, ops, tab, online, outages, reloads, replays, suspect>>

-----------------------------------------------------------------------------
GoOffline ==
  /\ online
  /\ outages < MaxOutages
  /\ outages' = outages + 1
  /\ online' = FALSE
  /\ UNCHANGED <<storedKey, keys, queue, ops, tab, drain, reloads, replays, suspect>>

(* The event `online' reaches every tab. *)
GoOnline ==
  /\ ~online
  /\ online' = TRUE
  /\ tab' = [t \in Tabs |-> [tab[t] EXCEPT !.due = @ + 1]]
  /\ UNCHANGED <<storedKey, keys, queue, ops, drain, outages, reloads, replays, suspect>>

(* A tab is loaded again: whatever ran in it is gone, and the event `load' comes. *)
Reload(t) ==
  /\ reloads < MaxReloads
  /\ reloads' = reloads + 1
  /\ tab' = [tab EXCEPT ![t] = NewTab]
  /\ drain' = [drain EXCEPT ![t] = [d \in Drains |-> IdleDrain]]
  /\ suspect' = suspect \cup {First(drain[t][d].items).id : d \in {e \in Drains : drain[t][e].step = "delete"}}
  /\ UNCHANGED <<storedKey, keys, queue, ops, online, outages, replays>>

TabStep(t) ==
  \/ ReadKey(t) \/ PutKey(t) \/ Encrypt(t) \/ AddRecord(t)
  \/ \E d \in Drains :
       StartDrain(t, d) \/ NextRecord(t, d) \/ Replay(t, d) \/ DeleteRecord(t, d)

Next ==
  \/ \E t \in Tabs : TabStep(t) \/ FailOffline(t) \/ Reload(t)
  \/ GoOffline \/ GoOnline

Spec == Init /\ [][Next]_vars

-----------------------------------------------------------------------------
TypeOK ==
  /\ storedKey \in Nat /\ keys \in Nat
  /\ queue \subseteq Rec
  /\ tab \in [Tabs -> Tab]
  /\ drain \in [Tabs -> [Drains -> Drain]]
  /\ replays \in [1..MaxOps -> Nat] /\ suspect \subseteq 1..MaxOps

(* offline-cache.js:106-107: an operation leaves the queue only when the server has executed
   it, whatever fails and whoever closes the tab. *)
NothingIsDropped ==
  \A i \in 1..ops : replays[i] = 0 => \E r \in queue : r.id = i

(* offline-cache.js:106-107 "Each successful replay is deleted": an operation is executed
   twice only when two drains held it at once, the answer to its replay was lost, or its
   tab was closed before the record was deleted; however drains, reloads and outages
   interleave. *)
ReplayedOnce == \A i \in 1..MaxOps : replays[i] > 1 => i \in suspect
=============================================================================
