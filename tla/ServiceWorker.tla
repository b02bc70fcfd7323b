---------------------------- MODULE ServiceWorker ----------------------------
(***************************************************************************)
(* The cache of the web client: ui/public/sw.js, whose releases replace    *)
(* one another.  An asset is the release it comes from.                    *)
(*                                                                         *)
(* caches.match looks through the caches in the order they were made.      *)
(* Every release has a VERSION of its own.  The browser, which runs the    *)
(* handlers, and the server, which serves one release, are external.       *)
(***************************************************************************)
EXTENDS Integers, FiniteSets, Sequences

CONSTANTS
  Assets,         \* what is under /ui/
  STATIC_ASSETS,  \* those the installation fetches
  MaxRelease,     \* bound
  MaxFetches      \* bound: the network fetches under way at once

None == 0

VARIABLES
  release,    \* what the server serves
  caches,     \* the caches, in the order they were made: [version, holds]
  active,     \* the release of the worker that answers, or None
  fetches,    \* the fetches of workers, past and present, whose copy is not yet kept
  answer      \* the last answer of a worker: [worker, asset, from], or none

vars == <<release, caches, active, fetches, answer>>

Empty == [a \in Assets |-> None]
Names == {caches[i].version : i \in DOMAIN caches}

Init ==
  /\ release = 1
  /\ caches = <<>>
  /\ active = None
  /\ fetches = {} /\ answer = {}

(* caches.open, which makes the cache when there is none, and a put for each asset given. *)
Put(v, got) ==
  LET opened == IF v \in Names THEN caches ELSE Append(caches, [version |-> v, holds |-> Empty])
  IN  caches' = [i \in DOMAIN opened |->
        IF opened[i].version = v
        THEN [opened[i] EXCEPT !.holds = [a \in Assets |-> IF got[a] # None THEN got[a] ELSE @[a]]]
        ELSE opened[i]]

-----------------------------------------------------------------------------
Deploy ==
  /\ release < MaxRelease
  /\ release' = release + 1
  /\ answer' = {}
  /\ UNCHANGED <<caches, active, fetches>>

(* The installation opens its cache; addAll then puts every asset or none. *)
Install ==
  /\ active < release
  /\ \/ Put(release, [a \in Assets |-> IF a \in STATIC_ASSETS THEN release ELSE None])
     \/ Put(release, Empty)
  /\ answer' = {}
  /\ UNCHANGED <<release, active, fetches>>

Installed(v) ==
  \E i \in DOMAIN caches :
    caches[i].version = v /\ \A a \in STATIC_ASSETS : caches[i].holds[a] # None

(* Mutant: the caches of earlier releases stay. *)
ActivateBesideTheOld(v) ==
  /\ v > active /\ Installed(v)
  /\ active' = v
  /\ answer' = {}
  /\ UNCHANGED <<release, caches, fetches>>

(* skipWaiting: the worker does not wait for pages to close.  Every other cache goes. *)
Activate(v) ==
  /\ v > active /\ Installed(v)
  /\ active' = v
  /\ \E i \in DOMAIN caches : caches[i].version = v /\ caches' = <<caches[i]>>
  /\ answer' = {}
  /\ UNCHANGED <<release, fetches>>

Hits(a) == {i \in DOMAIN caches : caches[i].holds[a] # None}

FetchHit(a) ==
  /\ active # None /\ Hits(a) # {}
  /\ LET first == CHOOSE i \in Hits(a) : \A j \in Hits(a) : i <= j
     IN  answer' = {[worker |-> active, asset |-> a, from |-> caches[first].holds[a]]}
  /\ UNCHANGED <<release, caches, active, fetches>>

(* The copy is put when the answer has gone out; nothing waits for it. *)
FetchMiss(a) ==
  /\ active # None /\ Hits(a) = {}
  /\ Cardinality(fetches) < MaxFetches
  /\ answer' = {[worker |-> active, asset |-> a, from |-> release]}
  /\ fetches' = fetches \cup {[worker |-> active, asset |-> a, from |-> release]}
  /\ UNCHANGED <<release, caches, active>>

(* It is put into the cache of its worker's release, even when a later worker has deleted
   that cache; or never, when the worker is stopped. *)
KeepCopy(f) ==
  /\ \/ Put(f.worker, [Empty EXCEPT ![f.asset] = f.from])
     \/ UNCHANGED caches
  /\ fetches' = fetches \ {f}
  /\ answer' = {}
  /\ UNCHANGED <<release, active>>

Next ==
  \/ Deploy \/ Install
  \/ \E v \in 1..MaxRelease : Activate(v)
  \/ \E a \in Assets : FetchHit(a) \/ FetchMiss(a)
  \/ \E f \in fetches : KeepCopy(f)

Spec == Init /\ [][Next]_vars

-----------------------------------------------------------------------------
Answer == [worker: 1..MaxRelease, asset: Assets, from: 1..MaxRelease]

TypeOK ==
  /\ release \in 1..MaxRelease
  /\ \A i \in DOMAIN caches :
       caches[i] \in [version: 1..MaxRelease, holds: [Assets -> 0..MaxRelease]]
  /\ active \in 0..MaxRelease
  /\ fetches \subseteq Answer /\ answer \subseteq Answer

(* sw.js:12-45: a worker answers with no asset older than itself if it is one the
   installation fetches, although a late copy of an earlier worker makes that worker's cache
   again, and the cache of a coming worker stands beside its own.  (Other assets, as
   offline-cache.js, may stay old until the next release.) *)
StaticAssetsAreCurrent ==
  \A r \in answer : r.asset \in STATIC_ASSETS => r.from >= r.worker
=============================================================================
