# Cipher-tube: models, checks and proofs

TLA+ modules for the stateful parts of Cipher-tube, the TLC configurations that check
them on small instances, and TLAPS proofs that hold for every value of the constants.
Source lines are given as `file:line`, relative to `src/`; `PROJECT.json` names the lines
every definition models, the hazards of the code, and for each property a plausible bug
that breaks it.

1. [The system](#1-the-system)
2. [Plan](#2-plan)
3. [The modules and the code](#3-the-modules-and-the-code)
4. [Runs, bounds and what they show](#4-runs-bounds-and-what-they-show)
5. [Fairness](#5-fairness)
6. [Theorems](#6-theorems)
7. [Where the code and its documentation disagree](#7-where-the-code-and-its-documentation-disagree)
8. [What is not modelled](#8-what-is-not-modelled)

To repeat a run: `tlc -config SessionFleet.cfg MCSessionServer`; to repeat a proof:
`tlapm ShareLinksProofs.tla`.

## 1. The system

The repository holds several programs that share little but a Redis server. In the order
of how much of their behaviour comes from concurrency and failure:

| Component | State | Operations | Interacts with |
|---|---|---|---|
| **API server sessions** (`src/server.ts`, `src/session_rotator.ts`, `src/session/payload.ts`) | Redis keys `session:<token>` with a TTL; in every process an owner cache (5 s, found or not) and an LRU that throttles the TTL refresh (60 s) | POST `/mcp` (create), `/mcp/check`, `/session/extend`, `/mcp/rotate`; `ensureSessionOwner` in front of the last three | one Redis connection per process, commands pipelined; several processes share Redis |
| **Share links** (`share_service.py`, `routes/share.py`, `models.py`, `auth.py`) | a table of links: token, active flag, limit, count, expiry | create, access, revoke; a telemetry task after the answer | FastAPI's pool of threads, one database session per request |
| **Gateway** (`src/gatewayServer.ts`, `gateway/sessionMiddleware.ts`, `cache/redisPool.ts`, `crypto/verifier.ts`, `governance/`) | Redis keys `state:<hash>`; the state of the Redis client | authenticated requests that bring a hash and perhaps a proof; readiness probe; update manifest; metrics | Redis through a pool that answers null instead of throwing |
| **Update manifest** (`governance/updateManifest.ts`) | two override keys in Redis, a cache per process | GET `/update-manifest`, eligibility of one client | operators who write the keys |
| **Audit trail** (`governance/auditTrail.ts`) | a chain of hashed records in memory | append, verify | every decision of the guard |
| **Metrics counters** (`governance/metricsCounters.ts`) and **latency window** (`gatewayServer.ts`) | a tally per process, counters per time bucket in Redis; samples per route | bump, snapshot; record, percentile | Redis |
| **Blind quota manager** (`cyphertube-core/src/node/blind_quota_manager.js`) | a ledger and a manifest in a database, objects in a store | validate, register, compact | writers and compactions that overlap at every await |
| **Playlist store** (`cyphertube-core/src/client/playlist_metadata_store.js`) | replicated documents with an operation log | edit, seal, open, merge | other replicas, by exchange of sealed documents |
| **Offline queue** (`ui/public/offline-cache.js`, `app.js`) | IndexedDB stores for records and for the key | queue a request, drain, delete | the browser's `online` and `load` events, other tabs |
| **Workflow engine** (`src/engine/runtime/orchestrator.ts`, the definitions in `modules/`) | the state of one run: names and the results kept under them | steps of a workflow, pipelines with parallel branches, `foreach`, templates in parameters | the handlers of the registered actions |
| **Transformer** (`src/os/runtime/TransformerEngine.ts`) | the current form and its count, the listeners, the script's stack | transform, register a listener, run a cycle, use the script | listeners, which are called synchronously and may call everything again |
| **Node manager and self-inspection** (`core/nodes.py`, `core/telemetry.py`) | a queue of coroutines and its worker; the status of the nodes and the loop that inspects them | start and stop of either loop, enqueue, register, deregister, pipeline | asyncio tasks of one event loop, cancellation |
| **Manifest verifier** (`cyphertube-core/src/client/client_manifest_verifier.js`) | trusted keys, revoked operation keys | register a node, take a ticket, verify a manifest | documents of nodes that replace their keys |
| **Signaling ring** (`cyphertube-core/src/node/zk_signaling_ring.js`) | a key pair per window, the frames to pass on | open a window, dispatch, handle an incoming frame | the next node of the stream |
| **Cipher tubes** (`src/cta.ts`, `/mcp/encrypt` and `/mcp/decrypt` of `src/server.ts`) | none on the server; the client keeps the tubes | encrypt, decrypt | clients that send tubes back in any order |
| **Vault indexer** (`src/crypto/VaultIndexer.ts`) | a container: an index and a payload | pack, selective unpack | whatever keeps the container |
| **Rate limiters and myth engine** (`src/server.ts`, `src/myth/`, `src/canon/`) | the epoch, its ledger and strictness; counters per client and window | transition, telemetry, convergence; a request to a limiter | requests of the API server |
| **Session page** (`ui/public/app.js`) | the token, the timer of the warning, the banner | create, extend, warn | the session endpoints, others who use the session |
| **Service worker** (`ui/public/sw.js`) | a cache per release | install, activate, fetch | the releases before and after it |
| **Knowledge indexer** (`core/indexer.py`) | inverted and vector index, snapshots | index, search, snapshot | none |
| Sovereign OS, peer selection, governance registries, policies, wizard, plugin, shells | tables read once, or no state | one call at a time | none |

What is hard about each, and what makes it correct:

* **Sessions.** Every `await` lets other requests of the process run, and Redis orders the
  commands of several processes as it likes. A handler acts on what it read commands ago:
  an owner may be cached while the key is replaced, a refresh may land after a burn, a
  process may die between storing the successor and burning the predecessor. Correct
  means: a token never changes hands, a rotated session continues the owner, scopes and
  count of its predecessor, a burned token has a successor and stays burned, a revocation
  is noticed in bounded time, an active session does not expire, every request is answered.
* **Share links.** The count is read, judged and written back in separate statements, on
  several threads. Correct means: the recorded count stays within the limit, a link is
  served no more often than that, every view is counted, and a revoked link stays revoked
  and refused.
* **Gateway.** node-redis queues commands while it reconnects and rejects those that were
  sent; the pool turns every failure into "no state". Correct means: nobody is admitted
  without an accepted proof, nobody is served on a proof past the maximal age, everybody
  is answered.
* **Update manifest.** A kill switch that is read through a cache, in two reads. Correct
  means: it takes effect within a bounded time and answers are never older than that.
* **Audit trail.** A trail that verifies contains only what was sealed, in its order.
* **Counters and latencies.** A snapshot that is not marked degraded misses nothing; the
  window of samples loses no live one; percentiles are nearest-rank percentiles.
* **Quota manager.** Check and act are separate, and any call may fail. Correct means: the
  overrun is bounded, ledger and manifest drift only in one direction, local blocks are
  never purged, a compaction makes progress.
* **Playlist store.** Merging in any order, late or twice, shows the last-writer-wins set.
* **Offline queue.** A queued request is not lost, and is replayed once.
* **Node manager and self-inspection.** A stop cancels a task and waits for it, and anything
  may be started or stopped meanwhile. Correct means: neither loop runs twice, whoever
  waits is resumed, queued jobs are run, a node that fails is recovered.

* **Workflow engine.** Branches of a stage end in any order, and one that fails ends the run
  while the others are at work. Correct means: a stage begins when the one before it has
  ended and reads what that one left, a name holds the result of the last step that writes
  it, every run ends, parameters are substituted in one pass.
* **Transformer.** A listener that is called may transform the engine again, run a cycle,
  register another listener, empty the script. Correct means: every listener hears of every
  event once, the first one is left with the form the engine is in, and no listener can make
  a cycle fail or succeed.
* **Manifest verifier, signaling ring.** Documents and frames come late, again and from
  anybody, and what a signature covers is less than what a document says. Correct means:
  what is accepted was vouched for by the node it names and is not revoked; what is obeyed
  is fresh.
* **Cipher tubes, vault.** What comes back was in the hands of others. Correct means: it
  opens to exactly what was closed, or not at all.
* **Rate limiters.** The limit changes in the middle of a window. Correct means: what a
  client gets stays within a bound of the epoch's limit.
* **Session page.** The page's idea of a session's end and the server's drift apart: the
  timer starts with the page, and a refresh may be throttled. Correct means: the warning
  comes while the session can still be extended.
* **Service worker.** Workers of several releases share the caches. Correct means: a worker
  does not answer with what an older release installed.

The hazards of the code, each at its line, are listed in `PROJECT.json` with the
properties that cover them and, where none does, the reason.

## 2. Plan

Done, in this order:

1. `SessionPayload`, `SessionServer` and the abstract `SessionLedger`, which
   `SessionServer` implements.
2. `ShareLinks`.
3. `Gateway`.
4. `BlindQuota`, `PlaylistStore`.
5. `AuditTrail`, `UpdateManifest`, `MetricsCounters`, `LatencyWindow`, `OfflineQueue`.
6. `NodeManager`, `SelfInspection`.
7. `WorkflowEngine` with `PredatorModule` and `Templates`; `Transformer`.
8. `ManifestVerifier`, `SignalingRing`, `CipherTube`, `Vault`.
9. `Seasons`; `SessionPage`, `ServiceWorker`.
10. Proofs about 1-9: every invariant and action property the passing runs check is stated by
    a theorem, and so is what the liveness properties rest on; liveness itself is left to TLC.

Next, most important first:

1. The header checks of `server.ts` and its limiters, composed with `SessionServer` through
   the requests they let through.
2. `KnowledgeIndexer`, as operators checked against reference definitions: postings left
   behind when a document is indexed again.
3. The encrypted record store of the web client, and the registry of pending proposals.

Small components that share no state are checked side by side in one run, as
`MCGovernance`, `MCClient`, `MCEventLoop` and `MCStorage` do; new ones join these.

## 3. The modules and the code

Conventions. A variable or action carries the name of the code's where it has one. An
action is the code between two points at which something else can run: two awaits
(TypeScript, JavaScript) or two statements of a database session (Python, threads). A
request is a record with the name of the command it waits for and what it has read so
far, so "what it read may no longer be true" needs no further machinery. Variables marked
*history* are not in the code and are never read by a guard of the code's actions.
Operators whose names say what is dropped (`RemoveObjectReleasing`, `FirstPooled`) are the
plausible bugs that the properties are tried against; no action uses them.

### Sessions

`SessionPayload` - the value stored under a token. A value is the text of a user id
(v0), a document (v1), or invalid; `MigrateLegacy`, the serialisation and the validation
are operators on these. The unsupported payload version is in the model's values but no
code path writes one.

`SessionServer` - the handlers. `redis[t]` is the key of a token with its remaining
lifetime, `cache[p]` and `throttle[p]` are `sessionCache` and `sessionUpdateCache` of a
process, `wire[p]` and `replies[p]` the two directions of its connection, `req[r]` a
request. `CreateRequest`, `OwnerRequest` start a handler, `SessionCreated`, `OwnerGot`,
`OwnerRefreshed`, `SessionRead`, `TtlRead`, `SessionMigrated`, `SuccessorStored`,
`RotationDone` continue it after an await, `CommandFailed` and `FailureIgnored` are its
catch blocks. `RedisGet`, `RedisTtl`, `RedisRefresh`, `RedisBurn`, `RedisStore`,
`RedisMigrate` execute the command at the head of a connection, `RedisRefuse` rejects it.
Replies resume handlers in the order of the commands, as promises of one connection do.
The environment lets time pass (`Tick`), evicts cache entries (`EvictOwner`,
`EvictThrottle`), deletes a key (`Revoke`) and kills a process (`Crash`: without an
`error` listener on the client, `src/server.ts:539`, a lost connection does the same;
commands not yet executed are dropped). Several processes are what
`docker-compose` and the mixed-version fleet of the rotation's task plan describe.
History: `ledger` (the payload a token was first stored with), `burned`, `rotatedBy`,
`deadFor`. Left out: the `isTest` path (`src/server.ts:774`); scopes, which the server
always sets to `[]`, are a constant that the configurations leave empty.

`SessionLedger` - what the session layer promises: tokens are issued once, never change
hands and are continued only by a request of their owner. `LedgerSpec` is the refinement;
`serving` is computed from the requests of `SessionServer`.

### Share links

`ShareLinks` - `link[t]` is the row, `req[r]` a request with the row it has `seen`.
`Begin`, `PrepareLink`, `InsertLink` are POST /create; `Select`, `Judge`, `Count`,
`Refresh`, `Send`, `Notify` are GET /access; `Select`, `Unset` POST /revoke. UPDATE and
commit are one step, because nothing separates them but the lock. `Locked` is SQLite's
"database is locked", `Crash` kills the process with its requests, `Threads` bounds how
many handlers run at once. Whether the shared file is there is open every time a handler
looks. A `max_views`
that is null reads as the column's default of -1. A token is chosen at `Begin`, unlike
any other: collisions of `secrets.token_urlsafe` are excluded. `alone` in a request
(history) tells whether another one overlapped it.

### Gateway

`Gateway` - `store[h]` is the key of a hash with the time of the proof it stems from,
`conn` the client: "closed" before the first connection, "connecting" and "ready". A
command issued while connecting waits (node-redis v5 keeps an offline queue and reports
`isOpen`), one that was sent is rejected by `Disconnect`, a closed client makes the pool
answer null (`Unavailable`). `Arrive`, `Resume`, `GovernanceGuard` are the middleware up
to the answer, `ArriveProbe` with `RedisPing` the readiness probe. `Baseline` turns the
governance rules on. Null answers of EXPIRE and SETEX change nothing, and the 500 of the
middleware's catch block is unreachable, because the pool never throws. History:
`proven`, the hashes and times of accepted proofs.

`UpdateManifest` - `overrides` are the two keys, `cached` the cache, `req[r]` a request
between its two reads. `ReadStage` and `ReadHold` read one key each, `Store` fills the
cache and answers. An operator changes the keys in between. A client is one `Bucket` of
the rollout; the hash that assigns it is left out.

`AuditTrail` - `AppendRecord` seals a record as `append` does; `EditRecord`,
`RemoveRecord` and `ReorderRecords` change the trail without computing hashes anew, which
is what the chain is there to detect; `Verify` is the loop of `firstTamperedSequence`.
`Hash` is a constant operator; TLC takes the tuple of its arguments.

`MetricsCounters` - time is counted in buckets; the retention of 24 hours does not end
within a behaviour. Increments and reads travel in order on a connection (`flight[p]`),
which `Break` cuts: whether the commands on their way were executed is open. `LatencyWindow`
is the samples of one route; `Reference` is the time a sample's age is measured from, and
`Skew` lets the clock be set back. `Sorted` puts the live samples in order by counting, for
each, those that come before it, and `Percentile` picks by `Rank`; `NearestRank` is stated
without either, over everything that `arrived` (history).

### Node and client library

`BlindQuota` - a writer runs `Admit` or `Deny`, `CheckPipeline`, `AddToLedger`,
`InsertBlock`; a compaction `ReadCandidates`, then for every candidate `FindBlock`,
`RemoveObject`, `DeleteBlock`, `ReleaseBytes`. `WriterFails` and `CompactionFails` are a
rejected promise at any of the awaits. A block stands for its record and its object;
`segment_count` follows the bytes and is left out.

`PlaylistStore` - `MergeCrdtStates` merges an incoming document, `Edit`, `Invite` are the
calling application, `Seal` publishes a copy that any replica may `Merge`, once, twice or
never. Envelopes and AES-GCM are left out. `SortByTimestamp` puts every operation behind
those that come before it (`InOrder`; Array.sort is stable), and `Replayed` is the loop that
applies them one by one. With `DistinctTimes` no two edits carry the same timestamp, which
the tests say the algorithm needs.

`OfflineQueue` - a tab reads or generates its key (`ReadKey`, `PutKey`), queues a request
(`FailOffline`, `Encrypt`, `AddRecord`) and runs drains, one per event
(`StartDrain`, `NextRecord`, `Replay`, `DeleteRecord`). A reply may be lost after the
server has executed the request. `Reload` ends what a tab was doing. History: `replays`,
`suspect` (requests for which the answer was lost or two drains overlapped).

### Background loops

`NodeManager` - the queue worker of `core/nodes.py`. Coroutines on one event loop are
interrupted only where they await, so that an action goes from one await to the next; to
await a task that is done, or a queue that has an item, does not suspend. `task[w]` is a
worker task: "new" until its first step, then in `task_queue.get()` ("get") or in the
coroutine it awaits ("job"), and `cancelled` from the call of `cancel()` until
CancelledError is raised at its await. `StartQueueWorker`, `StopQueueWorker`,
`StopEndedWorker` and `StopReturns` are the callers, `Begin`, `TakeJob`, `JobEnds`, `Break`
the loop. A job may raise CancelledError of its own (`JobCancelled`) or keep the one it was
sent from the worker (`JobSurvives`). History: `crossed`, that two stops overlapped;
`astray`, that a job did one of the latter.

`SelfInspection` - the loop of `core/telemetry.py`. `inspect_system` suspends nowhere, so
that an inspection is one step, `Inspect`, and the loop sleeps between two of them.
`Degrade` stands for whoever sets the status of a node. History: `crossed`, that the loop
was started while a stop was under way.

### Engine

`WorkflowEngine` - one run of a definition. `plan` is its sequence of steps, `at` the step
the run is at, `state` the names with what they hold, `calls` the handlers at work, each with
the input it `got`. `Invoke` does a step up to the handlers it calls (all branches of a
parallel stage at once), `PassOver` is a step that calls nobody, `Resolve`
and `Reject` are a handler's promise, `Return` the end. A value is known by the step that made
it and by the length of the list it is, which is all `foreach` and the inputs look at.
`PredatorModule` holds the definitions it is given: the longest pipeline and a workflow of
`modules/cipher-tube.predator/predator.yml`, and one made of the shapes that file does not
use.

`Templates` - `resolveParams`, as an operator on every short text and object. A text is a
sequence of tokens; `Interpolate` is the scanning loop, round by round (`Round`), `ResolveText`
the shortcut for a text that is one reference, `ResolveObject` the copy on first change, without
the keys that `isValidStateKey` refuses (`Valid`). `References` and `Substituted` are the
reference definition.

`Transformer` - everything is synchronous, so that the interleaving is that of a call stack:
`calls` holds broadcasts, listeners and cycles, the running one last. `Deliver` calls the next
listener, which may then do all that an outsider may (`Transform`, `RegisterListener`,
`ExecuteInfinityLoopCycle`, `UseScript`) before `ListenerEnds`. Of the script's stack only the
depth is kept, which is all the cycle's DUP depends on. History: `told`, the events in the
order of their broadcasts; `listeners[i].heard`; `returned`.

### What nodes sign, pack and store

`ManifestVerifier` - `trustedNodes` and `revocationBlacklist` are the client's two tables,
`accepted` the manifest verified last. A signature is a statement with the key it was made
with: `signed` holds all there are. `Sign` and `ReplaceKey` are the nodes; which documents
reach the client, in which order and how often, is open, and so is what a manifest claims
(`Manifest`) beside the delegation it carries. History: `taken`.

`SignalingRing` - `activeRings[n]` is the key pair a node has made for a window.
`DispatchTransition` signs a frame for the next node, `HandleIncomingSignal` verifies, obeys
and passes on. The network (`sent`) keeps every frame and delivers it to anyone at any time.

`CipherTube` - `Encrypt` gives the client the tubes and the ciphertext of a message,
`Decrypt` answers a request made of those and other tubes. A layer opens with the seed and the
salt it was closed with (`Opened`), a lock compares hashes (`Verified`), of several tubes for
a layer the last counts (`Pooled`). Sizes of bodies are kept, contents are not.

`Vault` - `Pack` lays the files one behind the other and seals the index; `Damage` cuts or
alters the container; `SelectiveUnpack` finds an entry and slices its bytes.

### Limits, page and service worker

`Seasons` - the epoch, the ledger of what changed it, the `strictness` it sets, and the two
limiters in front of a request. The external limiter counts every request, refused ones too,
in a window that starts with a client's first. `served` (history) counts the admitted ones by
the time they came.

`SessionPage` - `token`, `banner` and `timer` are the page, `create` and `extend` its two
requests, `expires` and `refreshed` what the server keeps of each token. `Activity` is somebody
else who uses the session. `Fail` loses a request or its answer.

`ServiceWorker` - `caches` in the order they were made, `active` the worker that answers.
`Install`, `Activate`, `FetchHit` and `FetchMiss` are the worker's handlers; `KeepCopy` is the
`cache.put` nobody waits for.

### Side by side

`MCGovernance`, `MCClient`, `MCEventLoop` and `MCStorage` put components that share no state in one run: one moves
only while the others are in their initial states, so that the states add up instead of
multiplying, and each component's behaviours are exactly those it has alone.

## 4. Runs, bounds and what they show

| Run | Instance | What it shows |
|---|---|---|
| `session_fleet` | 2 processes, 2 requests, 2 users, one legacy and one fresh token, revocations and forgotten cache entries | A token never changes hands, lineage is kept, a burned token has a successor, a revocation is noticed once the cache entries have expired |
| `session_process` | 1 process that may crash, 2 fresh tokens, refused commands and evictions, fair | The process implements the ledger; a token it has rotated is not let in again; activity keeps a session alive in spite of the throttle; only another rotation under way gives a burned token more time; every request is answered |
| `session_forbidden` | 1 process, 1 token | *Violated*: the owner of a live session is refused |
| `session_burn_undone` | 2 processes, a legacy token | *Violated*: a burned token gets its full lifetime back |
| `share_overlap` | 4 requests, 1 link, 2 threads, limit 2 or none, expiry, kills | The recorded count stays within the limit whatever overlaps; as long as no two requests overlapped, no view is served that was not counted first; an access after a revocation is refused |
| `share_overserved` | 4 requests at once, limit 1 | *Violated*: a link is served more often than its limit |
| `gateway_requests` | 2 requests, 2 hashes, 4 ticks, connection lost and restored | Nobody is admitted without an accepted proof or served past the maximal age, everybody is answered once Redis is back |
| `quota_faults` | 2 pipelines, 2 writers, 1 compaction, 4 blocks, any call may fail; 2 nodes with 3 keys and 2 operation keys; a ring of 2, 3 key pairs, 2 frames; 2 locks, 2 layers, 2 messages out of 3; 3 files under 2 paths | Ledger and manifest drift apart in one direction only and the overrun is bounded, local blocks stay, compaction frees; an accepted manifest is vouched for and not revoked, an obeyed frame is fresh; tubes and containers open to what was closed or not at all |
| `manifest_hold` | 3 requests, 2 changes, 4 ticks | The kill switch takes effect within the age of the cache and of a read; answers are never older |
| `governance_records` | 3 records and 3 changes; 2 processes, 2 increments; 5 samples; 2 limiters, 7 requests, a ledger of 2 | An intact trail holds sealed records only; a snapshot that is not degraded is complete; percentiles are right; within the length of a window a client gets at most twice the limit of the epoch |
| `client_stores` | 2 tabs with 2 drains, 2 requests, an outage, a reload; 2 replicas, 3 edits, 2 sealed copies; a page with 2 tokens and 10 minutes; 3 releases, 2 assets | Queued requests are kept until replayed; a replay repeats only after a lost answer or beside another drain; a merge shows the last-writer-wins set; the warning comes in time; no worker answers with a static asset older than itself |
| `event_loop` | 2 callers, 3 tasks, 2 jobs; 2 nodes, 2 operators, 3 loops; 3 definitions; texts of 6 tokens and objects of 3 keys; 2 listeners, 2 calls; fair | Each loop runs once, as long as stops (and a stop and a start) do not overlap; whoever stops the worker is resumed and the queue is emptied, unless a job interferes with cancellation, a failed node is recovered, every run of the engine ends; its stages keep their order and their data; templates are substituted in one pass; listeners hear of everything once |

Why the bounds are enough. An unwanted interleaving here involves two actors and one
datum: a rotation and a refresh of one token, two accesses of one link, a writer and a
compaction of one block. Two requests (four where the creation and the revocation of a
link take one each), two processes and one datum each let every pair of steps occur in
either order; a second user, hash or pipeline is there for the properties that say things
are not mixed up. Times are as short as the order of the real ones allows: the lifetime of
a session exceeds the throttle plus the time a request takes, the grace period is shorter
than the lifetime. The bounds by name:

* `MaxLag` (`SessionServer`): ticks that pass while a request is in flight. `TTLAssumption`
  needs `ThrottleTTL + MaxLag < SessionTTL`; the code's values are 60 s and 3600 s.
  `MaxLag` (`UpdateManifest`): how long a read takes.
* `TokensLeft` (`SessionServer`): no request starts that could need a token when all of
  the supply are taken. `Tokens` stands for 256-bit random values, which do not repeat.
* `deadFor` stops at `CacheTTL + MaxLag + 1`, the first value at which the property speaks.
* `Horizon`, `MaxTime`: the last tick. `Threads`: handlers at once. A request slot of
  `ShareLinks` is used once.
* `MaxBlocks`: blocks ever registered. A refusal for want of space is modelled only while
  no compaction runs, because the compaction it starts is the same that runs already.
* `Tasks`, `Loops` (of `NodeManager`, `SelfInspection`): tasks alive or awaited at once. With
  three, two orphans and a worker can run together, the most that two overlapping pairs of
  calls leave behind.
* `Locks`, `Layers`, `MaxTubes`: 2, 2 and 5 stand for the code's 12, 13 and 100: two of a kind
  can be mixed up, and five tubes are one more than a message needs. `BodyLimit`, `TubeSize`
  and `LayerSize` keep the order of the sizes: a short message passes both endpoints, the long
  one is encrypted but does not come back in one body.
* `MaxVaultSize`, `HeaderSize`, `EntrySize`: a container of two small files fits, one of three
  full ones does not.
* `MaxLength`, `MaxKeys` (`Templates`): a text of six tokens holds two references or one inside
  what looks like another, an object of three keys has keys before and after the first change.
  `MaxKeys` (`SignalingRing`): the key pairs the ring makes.
* `Lengths` (`WorkflowEngine`): lists of none, one and two items, and what is no list.
* `MaxListeners`, `MaxCalls`, `MaxScript`: two listeners, of which one calls the engine again
  inside the other's event; a payload that fits, one that does not and a negative one.
* `Ttl`, `Warning`, `Throttle`, `MaxDelay` (`SessionPage`): 4, 1, 1 and 1 steps of a minute for
  an hour, a minute, a minute and the time an answer takes; `MaxPageTime` is longer than two
  lifetimes.
* `Base`, `LimitWindow`, `LastSeason`, `MaxHits`, `MaxEntries`: limits of 10 and 5 keep the
  ratios that strictness 5 to 10 makes of the code's 1000 and 100; `MaxHits` exceeds the
  larger of the limits that the epochs make of them.
* `MaxRelease`, `MaxFetches`: a worker, its predecessor and its successor share the caches.
* `MaxJobs`, `MaxSettings`, `MaxRecords`, `MaxChanges`, `MaxBumps`, `MaxArrivals`, `Skew`, `MaxOps`,
  `MaxReloads`, `MaxOutages`, `MaxEdits`, `MaxSealed`, `MaxSigned`, `MaxSent`, `MaxRingTime`,
  `MaxBuilds`, `MaxFiles`, `MaxTokens`: how often the corresponding thing happens.

Symmetry is used for processes, requests, users, tabs, drains and replicas where nothing
orders them, and never in a run with liveness properties. Deadlock is not checked where a
bound ends every behaviour; the configurations say so.

## 5. Fairness

* `SessionServer!FairSpec`: Redis executes the commands of a live connection, and Node
  runs a callback whose promise is settled: weak fairness of `Redis(p, _)` and
  `Handler(p, _)` for every process. Nothing is assumed of clients, of the clock or of
  faults; a crash answers (disconnects) the requests of its process.
* `Gateway!FairSpec` is the same for every request. `EveryRequestAnswered` needs
  `ReturningSpec`, which adds that the client reconnects: node-redis retries for ever, and
  while it does a command waits in the offline queue without a time limit.
* `BlindQuota!Fairness`: a compaction that is under way gets its next call answered,
  successfully or not. Nothing makes a caller write or start a compaction.
* `NodeManager!Fairness`, `SelfInspection!Fairness`: the event loop resumes a task that can
  go on, a job that is awaited ends, `asyncio.sleep` ends, and whoever awaits an ended task
  is resumed. Nothing makes anybody start, stop or enqueue, and a job need not do either of
  the things that `astray` records.
* `WorkflowEngine!Fairness`: the event loop goes on with a run, and every handler it awaits
  resolves or rejects. The registered handlers all do.
* The other modules state no liveness. In particular nothing promises that an offline
  queue is ever drained: that takes an `online` or `load` event.

## 6. Theorems

`PROJECT.json` lists the theorems a reader should know of. Each is proved for every value
of the constants, under the assumptions named in the modules (lifetimes are positive, model
values such as `Absent` and `Null` are none of the data).

* **`SessionServerProofs`**: `TypeCorrect`. The type invariant alone is not inductive:
  what a reply may be depends on the command the handler waits for. `TypeInv` adds `Shape`,
  one clause per program counter.
  `StoredFaithfully`, `OwnersIsolated`, `LineageSound`,
  `BurnHasSuccessor` and `ImplementsLedger` follow. The argument: a handler stores what it read
  some commands ago, and the key may have been replaced since. `SafetyInv` therefore says
  of every request in flight (`Facts`) how what it carries relates to the `ledger`, which
  never changes at a token that has been issued; that tokens promised to requests in
  flight are distinct and not used yet (`DistinctTokens`, `UnusedTokens`), so that a store
  overwrites nothing; that caches agree with the ledger (`CachedOwners`); and that version
  numbers are issued (`VersionsIssued`). Refinement follows action by action. Three more are about clocks.
  `RevocationsArrive`: an owner found after its key had gone was asked for before, at most
  `MaxLag` ticks ago (`GoneInv`). `RotatedIsForgotten`, once no token of v0 is left: what is cached
  for a rotated token from then on is a document, which no user id equals (`ReplayInv`).
  `ExpirySlides`, from hypotheses the run satisfies (no token of v0, nobody deletes keys, the owner
  cache and two requests together shorter than a session: `SlideHypotheses`): the lifetime of a key
  that was not burned is bounded below by the age of every throttle and cache entry for it, and
  by the age of every request that has seen it (`SlideInv`).
  `BurnsAreFinal`, for one process (with two it fails: run `session_burn_undone`), by `BurnInv`:
  whoever rotates a token has found it in the cache and the throttle closed, and the throttle
  outlasts the cached owner (`HeldBack`), so that no refresh is sent from then on until the token
  is forgotten; one that was sent before stands on the connection in front of every command of
  the rotation (`RefreshFirst`). It assumes that the throttle's LRU map does not overflow and
  that an owner is cached no longer than a refresh is held back, as 5 s and 60 s are
  (`BurnHypotheses`).
  `SessionsContinueTheirOwners` is proved of `SessionLedger`, the abstract specification, and
  carried over by `ImplementsLedger`: the payload of a token never changes, and a session goes on under a
  new token only through a request of its owner that has been let in for it. `NothingIsLost`, by
  `FlightInv`: a request that waits is in one place, once, on the connection of its own process;
  `RequestsAdvance`: no handler goes back to a command.
* **`ShareLinksProofs`**: `LinkTypes`, `CounterBounded`, `LateAccessRefused`,
  `RevocationLasts`, by `LinkInv`. The counter stays within the limit although increments
  are lost, because a request writes one more than it has *seen*, and what it has seen was
  judged to be below the limit (`Follows`, `WithinLimit`); limits do not change, and no two
  creations hold the same token (`Owned`, `Distinct`). `ViewsAreCounted`, by `ViewInv`: while no
  two requests overlapped one handler runs at most, what it has read of the row is still
  there (`UpToDate`), and from the commit of its count on a view is owed to the counter
  (`Owed`), so that the row covers all views owed (`Covered`) whatever fails afterwards.
  `AloneServesWithinLimit`, by `BarredInv`, is the other half of the run `share_overserved`: as long as
  no two requests overlapped, no link is served more often than its limit says.
* **`GatewayProofs`**: `GatewayTypes`, `AdmissionIsProven`, `AgeIsEnforced`, by
  `GatewayInv`: what is stored, and what a request carries from a read, stems from an
  accepted proof (`EntriesProven`, `Sound`). `ClosedClientAwaitedByNobody` and `RequestsDescend`: nobody
  waits for a client that was never connected, and each step that a request takes is one of at most five, however
  often the connection breaks.
* **`StorageProofs`**, about the five components of `MCStorage`. `LocalBlocksAreKept`, for any
  number of writers and of compactions that overlap: the block a compaction holds is from a peer
  (`PurgeInv`). `LedgerCoversBlocks`, by `QuotaInv`: the ledger covers what is in the manifest,
  what writers have added and not yet inserted and what the compaction has deleted and not yet released,
  and is exactly that until a call fails (`Balanced`); what was checked and not yet added counts
  against the quota, too (`WithinQuota`). Sums are counted as sets of pairs, so that
  they can be reasoned about. It assumes that there is one compaction at a time, which the code
  does not guarantee (section 7), finitely many writers, and a largest chunk. `CompactionDelivers`: a
  compaction that starts while a block from a peer is listed gives one up unless a call throws, because
  such a block is in front of it until it holds one (`WillFree`), whatever is written meanwhile. It
  assumes one compaction and no more pipelines than one examines (`AloneAndThorough`). `DocumentsAreVouched`, by
  `VerifierInv` (whoever owns a key, has signed with it or is trusted under it is one and the
  same node, however keys are replaced: `KeysTell`; a revocation that was taken stays) and
  `RingInv` (the same of the key pairs of windows, `RingKeysTell`), from the hypothesis that the
  nodes can have keys of their own (`KeysSuffice`). `PackedIsUnpacked`, by `TubesInv` (a seed and a
  set of tubes open a message exactly when the tube that counts for every layer fits it) and
  `VaultsInv` (what is left of a container begins as it was packed; the offset of a file is the
  sum of the sizes before it, and the region is written file by file). `StorageIsTyped` is the type invariant of all five.
* **`GovernanceProofs`**. `TrailTypes`, and `IntactTrails` from two hypotheses that the theorem
  states: hashes do not collide, and no sequence is edited to a negative number. `TrailInv` says
  that `sealed` holds each record under the hash of its content. Without the second hypothesis
  it fails: see section 7. From the same hypotheses `VerdictsAreRight`: a trail that was only appended to
  verifies, and its first change makes it fail unless what went was the last record. An edit changes
  one field while the hash is of all of them; after a removal or an exchange some record follows
  another than it was sealed behind (`Misplaced`). `SnapshotsAreComplete`: what a snapshot has read, together with what
  Redis holds and what is on its way in front of a read, covers what the snapshot has to find;
  and what is counted or on its way was bumped (`CountersHold`). `PercentilesAreRanks`: the window
  is what arrived without a prefix, each sample of which is too old for good or not among the last
  `MaxSamples` (`WindowInv`), and the element of rank n of the sorted window has n - 1 before it.
  `EpochsAreBounded`: what was served within the running window is within its hits and the limit,
  and what the window before served within the limit, so that any stretch as long as a window holds twice the
  limit at most (`LimitersHold`). `RecordsAreTyped` is the type invariant.
* **`UpdateManifestProofs`**: `ManifestTypes`, `KillSwitchHolds` and `AnswersNameThePast`, from the
  hypothesis that Redis does not fail. `HoldInv` relates the age of the cache, the start of each
  read in flight and the time the hold was set; `RecentInv` says of every setting that is cached
  or was read that it was in force at some moment since the request that read it came.
* **`ClientProofs`**, about the four components of `MCClient`. `OperationsAreKept` and
  `OperationsAreExecutedOnce`, by `QueueInv`: what a drain is about to delete
  was executed (`DrainHolds`), a request that is not suspect is held by one drain at most, and
  once it was executed, that drain deletes it or it is gone (`OneHolder`). `PlaylistsShowLastWrites`,
  by `PlaylistInv`: all logs tell parts of one history, in which an identifier and a timestamp name
  one operation (`Agree`). Sorting keeps the operations of a log; what is shown after the first
  i of them is described without the loop (`Knows`), step by step, and for the whole log that is
  the last-writer-wins set. The hypothesis `DistinctTimes` is the one under which the run checks it.
  `ReplicasConverge` follows, for devices that merge in different orders: the same operations
  merged, the same shown, and no merge takes an operation back.
  `PageWarnsInTime`, by `PageInv`: what an answer still under way promises is kept by the server
  (`AnswersHold`), and the timer follows the last answer (`TimerFollows`).
  `WorkersAnswerCurrent`, by `WorkerInv`: what a cache holds is no older than its
  release (`CachesHold`), and the cache of the active worker comes first (`OwnCacheFirst`).
  `ClientIsTyped` is the type invariant.
* **`EventLoopProofs`**, about the components of `MCEventLoop`. `LoopsRunOnce` (`OneOfEach`), by `ManagerInv`: as long as no two
  stops overlapped, whoever stops awaits the task in `_loop_task`, alone, and a task is cancelled
  only while somebody awaits it; and by `InspectionInv`, the same of the inspection loop.
  `StagesAreOrdered`, by `EngineInv`: handlers at work belong to the step the run is at
  (`AtWork`), and what stands under a name is the result of the last step before it that writes
  the name (`StateOrdered`). `NobodyWaitsInVain`, by `WaitingInv`, and `FlagMeansInspected` say what is left when calls do
  overlap: whoever stops waits for a task that has ended or is cancelled, and what is meant to run is there and was not
  cancelled, until a job strays. `RunsGoForward`: a run repeats no call and goes back to no step.
  `ReentryIsServed`, by `FormsInv`: at every depth of the call stack a broadcast has told exactly
  the listeners in front of its next one, and those above it on the stack are of later events.
  `ParametersAreResolved`: what the loop over a text has put together after each round is what the
  tokens in front of `last` become, and every reference either ends there or begins at `next` or
  later (`LoopState`); every round but the last advances `next`, so that as many rounds as there
  are tokens end the loop. For objects, what is kept of a sequence of pairs is what is kept of
  its beginning and of its rest (`ValidSplits`).

The arguments common to many of these: a recursive function of the model is equal to the
one of its equation, which takes a proof that the equation has a solution, and what holds of
all its values is shown by least counterexample (`WFMin`), without the induction theorems
whose parameter is a formula. Sequences that the code sorts are sorted by counting, so that
"sorted" and "the same elements" are lemmas and not assumptions.

Assumptions on constants that the theorems state and the modules do not: `GovernanceAssumption`,
`PageAssumption`, `WorkerAssumption`, `PlaylistAssumption`, `SlideHypotheses`, `BurnHypotheses`,
`QuotaHypotheses`, `AloneAndThorough`, `CollisionFree`, `KeysSuffice`, `RingHypotheses`, `TubeHypotheses`, `VaultHypotheses`, `TextHypotheses`. They say that bounds are numbers,
that supplies are finite or large enough, and that lifetimes have the order that the code's
have (a warning before the end, a throttle and a request shorter than a session), and that no key
which leads to a value contains a brace; `CollisionFree` is what SHA-256 is used for. Two more keep model values
apart: `NoLoop \notin Loops` and `Null \notin UserIds \X Tokens`.

Only model-checked is liveness, which is out of the prover's reach: `EveryRequestAnswered` of the
sessions and of the gateway, `CompactionFrees`, `EveryWaitEnds`. What each rests on is a matter of
safety and proved: that nothing which is waited for gets lost, and that steps only go forward. For the
sessions `NothingIsLost` and `RequestsAdvance`; for the gateway `ClosedClientAwaitedByNobody` and `RequestsDescend`; for
the compaction `CompactionDelivers`; for the three parts of `EveryWaitEnds` `NobodyWaitsInVain`,
`FlagMeansInspected` and `RunsGoForward`. That fair steps are then taken in the end, TLC checks.

## 7. Where the code and its documentation disagree

With a run that shows it:

* The owner of a session is answered 403 once the entry that creation put in the cache
  has gone: the stored value is a document, and `ensureSessionOwner` compares it with the
  user id (`src/server.ts:767`; `docs/API.md:32`). Run `session_forbidden`.
* A refresh that another process has authorised gives a burned token its full lifetime
  back (`src/server.ts:777`; `docs/GOVERNANCE_COMPLIANCE.md:16`). Run `session_burn_undone`.
* A link is served more often than `max_views` when accesses overlap
  (`share_service.py:68`; `models.py:34`). Run `share_overserved`.

Seen while modelling, stated as bounds in the properties that hold or left without a run:

* Two rotations of one token that overlap both succeed and fork the session
  (`src/session_rotator.ts:107`, `:110`), and the second burn starts the grace period again.
  `LineageConsistent` holds of both successors; `BurnIsFinal` excepts that burn (`BurnedAgain`).
* The process that rotated a token refuses it at once (`src/server.ts:849-851`), although the
  grace period is there for "in-flight requests with the old token" (`src/session_rotator.ts:125-126`): the cache
  entry is deleted, and what is read back does not compare equal. `NoLocalReplay` is the sharper statement.
* Two writers that pass the check together exceed the quota (`blind_quota_manager.js:10`,
  "5GB limit"): `OverrunBounded` says by how much. Two compactions give the bytes of one
  block back twice; the run has one.
* An outage of Redis releases an update hold (`updateManifest.ts:74` against `:10`); the
  run and the theorem assume that reads do not fail.
* A trail edited to a sequence of -1 passes for intact, because -1 is also the answer
  "nothing tampered" (`auditTrail.ts:71`, `:82`); records cut from the end are not noticed.
* While the client reconnects, the readiness probe is queued rather than answered
  (`gatewayServer.ts:128` against `:124`); a fresh proof can be challenged again
  (`sessionMiddleware.ts:48`, `policyEngine.ts:61`).
* An idle process shows its lifetime tally where a window is promised
  (`metricsCounters.ts:175` against `:132`); routes of latencies grow without bound
  (`gatewayServer.ts:23`).
* Two drains that overlap replay a record twice (`app.js:259`, `:304`); two tabs that
  generate a key at the same time leave records one of them cannot read, and such records
  are never removed (`offline-cache.js:106`, `:110`, `:121`).
* Replicas that receive two edits with one timestamp may differ for good, and of two
  replicas that invite people at the same time one loses its guests, although the tests
  speak of merging by last-writer-wins sets
  (`tests/unit/cyphertube-core.test.ts:372`, `:402`).
* Stops that overlap, or a start during a stop, leave a worker or an inspection loop behind
  to which nothing refers and beside which another is started (`core/nodes.py:188`,
  `core/telemetry.py:64`: what is forgotten after the await need not be what was awaited).
  `OneOfEach` therefore speaks of calls that do not overlap.
* A job that raises CancelledError ends the queue worker for good: `_loop_task` stays, so that
  a later start does nothing (`core/nodes.py:174`, `:164`). A job that swallows it leaves
  whoever stops the worker waiting (`core/nodes.py:189`).
* The comment on parallel branches says the input is passed "as 'input'" (`orchestrator.ts:74`),
  but an action gets `step.params || step` (`orchestrator.ts:151`): one that has parameters gets
  no input, as the stage `buildattackgraph` of `predator.yml`. A branch's own `from` is
  overwritten by its stage's.
* A parameter that starts with one reference and ends with another is taken for a single one
  and resolves to undefined; `SinglePass` says so. Only a key with a brace in it would lead such
  a text to a value.
* A message above some 2.4 kB is encrypted, but its ciphertext with its tubes exceeds the 10 kB
  of a body, so that decrypting it is answered 413; more than 100 tubes are answered 500
  rather than 400.
* The signatures of the manifest verifier cover neither the node a document names nor who may
  revoke a key: any trusted node revokes any. Keys that cannot be imported end in an error
  whatever they signed, and tickets under a replaced key are refused until the node is
  registered again.
* A node of the signaling ring verifies every frame with the key pair of its *own* window, so
  that none obeys or forwards another's frame; `FailoverIsFreshAndOwn` says so. Key pairs of
  past windows are never removed.
* Within the length of a window a client gets up to twice the limit, as fixed windows allow,
  and `SeasonalEngine.transition`, which the limits hang on, is not called by the server itself.
* The page's timer starts when the page is loaded, not when the session is created, and only an
  extension resets it; the server answers an extension with success although it was throttled
  (`src/server.ts:890`). `WarnedInTime` says by how much the warning may come late.
* A copy that is kept late makes a deleted cache of the service worker again, and assets the
  installation does not fetch, as `offline-cache.js`, may stay old until the next release.
* A listener of the transformer behind one that transforms hears of the later form first, and
  one that is registered during a broadcast hears that broadcast too. What a listener throws
  is taken to be an Error: the catch block reads its `message`, which null has not.

## 8. What is not modelled

`PROJECT.json` lists every component with the reason. In short:

* Cryptography (proofs, envelopes, tubes, sealed containers, signatures) is abstracted to
  whether a check succeeds and to what opens with what.
* The knowledge indexer is sequential and is left to a later module. The governance
  registries, the policies and the rest of the Sovereign OS are single calls on tables, or
  accept every transition, and have no order of events to get wrong. The averages of peer
  selection are kept for callers the repository does not contain.
* The engine's registered actions return fixed results. The wizard, the plugin, the scripts
  and the shells read and print; the pin check of the desktop shell is one promise per window
  and its token store single synchronous calls on files.
* Express, express-rate-limit, node-redis, FastAPI, SQLite, IndexedDB and the browser are
  external: modelled by what the code relies on.

Of the modelled components, left out: validation of headers and bodies and `/mcp/packet` of
`server.ts`; artifact links and versions of the update manifest; `segment_count`; the encrypted
record store of the web client, previews, copying and shortcuts of its page, and failing
IndexedDB transactions; `pipeline_execute`, the processing of payloads, latencies, the log of
anomalies and the metadata of nodes; nested parameters of a step, and handlers that throw
before their first await or change the state they are given; the branch of the signaling ring
without a database; `tri-shift.ts`, which computes a text.
