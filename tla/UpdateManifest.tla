---------------------------- MODULE UpdateManifest ----------------------------
(***************************************************************************)
(* The update manifest of src/governance/updateManifest.ts and the         *)
(* endpoint of src/gatewayServer.ts that serves it: operators change the   *)
(* rollout in Redis, a process caches what it read for CacheTTL, and       *)
(* requests that find the cache stale read Redis side by side.             *)
(***************************************************************************)
EXTENDS Integers

CONSTANTS
  Requests,
  Stages,        \* the stages there are, percents of the audience
  BadStages,     \* what an operator may set by mistake
  EnvStage,      \* CIPHERTUBE_UPDATE_STAGE
  EnvHold,       \* CIPHERTUBE_UPDATE_HOLD
  Bucket,        \* the client's bucket: SHA-256 modulo 100
  Codes,         \* the version codes of clients
  MinCode,       \* CIPHERTUBE_MIN_VERSION_CODE
  None,
  CacheTTL,      \* OVERRIDE_CACHE_MS
  MaxLag,        \* bound: ticks the two reads of Redis may take
  MaxTime,       \* bound: the last tick
  MaxSettings,   \* bound: how often operators set something
  MayFail        \* whether Redis may be unreachable

ASSUME ManifestAssumption ==
  /\ {EnvStage, MinCode, CacheTTL, MaxLag, MaxTime, MaxSettings, Bucket} \subseteq Nat
  /\ Codes \cup Stages \cup BadStages \subseteq Nat
  /\ CacheTTL > 0
  /\ None \notin Nat \cup BOOLEAN
  /\ {EnvHold, MayFail} \subseteq BOOLEAN

VARIABLES
  override,   \* ct:update:stage and ct:update:hold
  heldSince,  \* history: since when ct:update:hold is set, or None
  past,       \* history: the overrides of the last CacheTTL + MaxLag ticks
  cached,     \* overrideCache: what was read and when it was stored
  req,        \* the local state of each request
  settings,   \* how often operators set something
  now

vars == <<override, heldSince, past, cached, req, settings, now>>

Override == [stage: Stages \cup {None}, hold: BOOLEAN \cup {None}]
RawOverride == [stage: Stages \cup BadStages \cup {None}, hold: BOOLEAN \cup {None}]
NoOverride == [stage |-> None, hold |-> None]
NotCached == [at |-> None, read |-> NoOverride]

Request == [step: {"idle", "stage", "hold", "store", "answered"}, code: Codes,
            read: Override, since: Nat, status: {"none", "live", "hold"}, eligible: BOOLEAN]

Init ==
  /\ override = NoOverride
  /\ heldSince = None
  /\ past = {[at |-> 0, read |-> NoOverride]}
  /\ cached = NotCached
  /\ \E code \in [Requests -> Codes] :
       req = [r \in Requests |-> [step |-> "idle", code |-> code[r], read |-> NoOverride,
                                  since |-> 0, status |-> "none", eligible |-> FALSE]]
  /\ settings = 0
  /\ now = 0

-----------------------------------------------------------------------------
Or(value, default) == IF value = None THEN default ELSE value

(* currentManifest: an override wins over the environment. *)
Held(read) == Or(read.hold, EnvHold)

(* isAudienceEnabled: a client below the floor always, the others by their bucket. *)
IsAudienceEnabled(code, percent) == code < MinCode \/ Bucket < percent

(* GET /update-manifest from overrides that were read or cached. *)
Answered(q, read) ==
  [q EXCEPT !.step = "answered", !.read = read,
            !.status = IF Held(read) THEN "hold" ELSE "live",
            !.eligible = IsAudienceEnabled(q.code,
                           IF Held(read) THEN 0 ELSE Or(read.stage, EnvStage))]

(* Mutant: the cache is good for one tick more than its age allows. *)
StaysFresh == cached.at # None /\ now - cached.at <= CacheTTL

IsFresh == cached.at # None /\ now - cached.at < CacheTTL

(* A request is answered from a fresh cache at once. *)
ArriveFresh(r) ==
  /\ req[r].step = "idle"
  /\ IsFresh
  /\ req' = [req EXCEPT ![r] = Answered([req[r] EXCEPT !.since = now], cached.read)]
  /\ UNCHANGED <<override, heldSince, past, cached, settings, now>>

(* Otherwise it sends both reads; a client that is not open reads nothing, and the
   absence of overrides is cached like any other result. *)
ArriveStale(r) ==
  /\ req[r].step = "idle"
  /\ ~IsFresh
  /\ \/ /\ req' = [req EXCEPT ![r].step = "stage", ![r].since = now]
        /\ UNCHANGED cached
     \/ /\ MayFail
        /\ cached' = [at |-> now, read |-> NoOverride]
        /\ req' = [req EXCEPT ![r] = Answered([req[r] EXCEPT !.since = now], NoOverride)]
  /\ UNCHANGED <<override, heldSince, past, settings, now>>

(* cache.get answers null when the command fails. *)
Replies(value) == {value} \cup (IF MayFail THEN {None} ELSE {})

(* A stage that is none of 10, 50 and 100 is ignored. *)
KnownStage(value) == IF value \in Stages THEN value ELSE None

(* Mutant: where nothing is set, the cached stage stays. *)
ReadStageSticky(r) ==
  /\ req[r].step = "stage"
  /\ \E v \in Replies(override.stage) :
       req' = [req EXCEPT ![r].step = "hold", ![r].read.stage = Or(KnownStage(v), cached.read.stage)]
  /\ UNCHANGED <<override, heldSince, past, cached, settings, now>>

ReadStage(r) ==
  /\ req[r].step = "stage"
  /\ \E v \in Replies(override.stage) :
       req' = [req EXCEPT ![r].step = "hold", ![r].read.stage = KnownStage(v)]
  /\ UNCHANGED <<override, heldSince, past, cached, settings, now>>

ReadHold(r) ==
  /\ req[r].step = "hold"
  /\ \E v \in Replies(override.hold) :
       req' = [req EXCEPT ![r].step = "store", ![r].read.hold = v]
  /\ UNCHANGED <<override, heldSince, past, cached, settings, now>>

(* Both replies are there: they are cached as of now, whoever stored what since. *)
Store(r) ==
  /\ req[r].step = "store"
  /\ cached' = [at |-> now, read |-> req[r].read]
  /\ req' = [req EXCEPT ![r] = Answered(@, req[r].read)]
  /\ UNCHANGED <<override, heldSince, past, settings, now>>

-----------------------------------------------------------------------------
Configure(changed) ==
  /\ settings < MaxSettings
  /\ settings' = settings + 1
  /\ override' = changed
  /\ past' = past \cup {[at |-> now, read |-> changed]}
  /\ UNCHANGED <<cached, req, now>>

(* An operator sets or removes an override. *)
SetHold ==
  \E h \in BOOLEAN \cup {None} :
    /\ Configure([override EXCEPT !.hold = h])
    /\ heldSince' = IF h = TRUE THEN Or(heldSince, now) ELSE None

SetStage ==
  /\ \E s \in Stages \cup BadStages \cup {None} : Configure([override EXCEPT !.stage = s])
  /\ UNCHANGED heldSince

(* Bound: a request waits for Redis for at most MaxLag ticks. *)
Tick ==
  /\ now < MaxTime
  /\ \A r \in Requests :
       req[r].step \in {"stage", "hold", "store"} => now - req[r].since < MaxLag
  /\ now' = now + 1
  /\ past' = {p \in past : now + 1 - p.at <= CacheTTL + MaxLag}
               \cup {[at |-> now + 1, read |-> override]}
  /\ UNCHANGED <<override, heldSince, cached, req, settings>>

Next ==
  \/ \E r \in Requests :
       ArriveFresh(r) \/ ArriveStale(r) \/ ReadStage(r) \/ ReadHold(r) \/ Store(r)
  \/ SetHold \/ SetStage \/ Tick

Spec == Init /\ [][Next]_vars

-----------------------------------------------------------------------------
TypeOK ==
  /\ override \in RawOverride
  /\ heldSince \in Nat \cup {None}
  /\ cached.at \in Nat \cup {None} /\ cached.read \in Override
  /\ req \in [Requests -> Request]
  /\ settings \in Nat
  /\ now \in Nat

IsAnswered(r) == req[r].step # "answered" /\ req'[r].step = "answered"

(* updateManifest.ts:10 "freezes distribution": once ct:update:hold has been set for
   as long as a cached value and a read under way may last, every manifest says hold,
   and only clients below the floor are offered an update. *)
HoldTakesEffect ==
  [][\A r \in Requests :
       IsAnswered(r) /\ heldSince # None /\ now - heldSince >= CacheTTL + MaxLag
         => req'[r].status = "hold" /\ (req'[r].eligible => req[r].code < MinCode)]_vars

(* While Redis answers, each of the two settings of a manifest was in force at some
   moment of the last CacheTTL + MaxLag ticks, although requests store what they read
   in any order. *)
AnswersAreRecent ==
  [][\A r \in Requests :
       IsAnswered(r) =>
         /\ \E p \in past : KnownStage(p.read.stage) = req'[r].read.stage
         /\ \E p \in past : p.read.hold = req'[r].read.hold]_vars

=============================================================================
