------------------------- MODULE UpdateManifestProofs -------------------------
(***************************************************************************)
(* The kill switch of the update manifest, and how old its answers are,    *)
(* proved for any number of requests, operators' changes and ticks, as     *)
(* long as Redis answers.                                                  *)
(***************************************************************************)
EXTENDS UpdateManifest, TLAPS

Reading(q) == q.step \in {"stage", "hold", "store"}

(* What a request has read of a hold that is in force, or read too early. *)
ReadInTime(q, held) == q.step = "store" /\ held # None /\ q.read.hold # TRUE => q.since <= held

(* The same for the cache: what it misses was stored soon after the hold. *)
CachedInTime(c, held) ==
  c.at # None /\ held # None /\ c.read.hold # TRUE => c.at <= held + MaxLag

HoldInv ==
  /\ TypeOK
  /\ heldSince # None => override.hold = TRUE /\ heldSince <= now
  /\ cached.at # None => cached.at <= now
  /\ CachedInTime(cached, heldSince)
  /\ \A r \in Requests :
       /\ Reading(req[r]) => req[r].since <= now /\ now - req[r].since <= MaxLag
       /\ ReadInTime(req[r], heldSince)

LEMMA Bounds ==
  /\ CacheTTL \in Nat /\ CacheTTL > 0 /\ MaxLag \in Nat
  /\ None \notin Nat
BY ManifestAssumption

LEMMA InitHold == Init => HoldInv
<1> SUFFICES ASSUME Init PROVE HoldInv
  OBVIOUS
<1>1. PICK code \in [Requests -> Codes] :
        req = [r \in Requests |-> [step |-> "idle", code |-> code[r], read |-> NoOverride,
                                   since |-> 0, status |-> "none", eligible |-> FALSE]]
  BY DEF Init
<1>2. NoOverride \in Override /\ NoOverride \in RawOverride
  BY DEF NoOverride, Override, RawOverride
<1>3. req \in [Requests -> Request]
  BY <1>1, <1>2 DEF Request
<1>4. \A r \in Requests : ~Reading(req[r]) /\ ReadInTime(req[r], heldSince)
  BY <1>1 DEF Reading, ReadInTime
<1> QED
  BY <1>2, <1>3, <1>4 DEF Init, HoldInv, TypeOK, NotCached, CachedInTime

(* A step of one request keeps the invariant when its new state does and   *)
(* the cache stays or is stored in time.                                   *)
LEMMA OneRequest ==
  ASSUME HoldInv, NEW r \in Requests, NEW q \in Request,
         req' = [req EXCEPT ![r] = q],
         Reading(q) => q.since <= now /\ now - q.since <= MaxLag,
         ReadInTime(q, heldSince),
         UNCHANGED <<override, heldSince, settings, now>>,
         cached'.at \in Nat \cup {None}, cached'.read \in Override,
         cached'.at # None => cached'.at <= now,
         CachedInTime(cached', heldSince)
  PROVE  HoldInv'
<1>1. \A s \in Requests : req'[s] = IF s = r THEN q ELSE req[s]
  BY DEF HoldInv, TypeOK
<1>2. req' \in [Requests -> Request]
  BY DEF HoldInv, TypeOK
<1>3. \A s \in Requests :
        /\ Reading(req'[s]) => req'[s].since <= now /\ now - req'[s].since <= MaxLag
        /\ ReadInTime(req'[s], heldSince)
  BY <1>1 DEF HoldInv
<1>4. TypeOK'
  BY <1>2 DEF HoldInv, TypeOK
<1> QED
  BY <1>3, <1>4 DEF HoldInv

LEMMA AnsweredShape ==
  ASSUME NEW q \in Request, NEW read \in Override
  PROVE  /\ Answered(q, read) \in Request
         /\ Answered(q, read).step = "answered"
         /\ Answered(q, read).code = q.code
         /\ Answered(q, read).status = IF Held(read) THEN "hold" ELSE "live"
         /\ Held(read) => Answered(q, read).eligible = IsAudienceEnabled(q.code, 0)
<1>1. Held(read) \in BOOLEAN
  BY ManifestAssumption DEF Held, Or, Override
<1>2. IsAudienceEnabled(q.code, 0) \in BOOLEAN
      /\ IsAudienceEnabled(q.code, Or(read.stage, EnvStage)) \in BOOLEAN
  BY DEF IsAudienceEnabled
<1> QED
  BY <1>1, <1>2 DEF Answered, Request

LEMMA FieldSteps ==
  ASSUME NEW q \in Request, NEW t \in Nat,
         NEW s \in Stages \cup {None}, NEW h \in BOOLEAN \cup {None}
  PROVE  /\ [q EXCEPT !.since = t] \in Request
         /\ [q EXCEPT !.step = "stage", !.since = t] \in Request
         /\ [q EXCEPT !.step = "hold", !.read.stage = s] \in Request
         /\ [q EXCEPT !.step = "store", !.read.hold = h] \in Request
         /\ [q EXCEPT !.step = "store", !.read.hold = h].read.hold = h
BY DEF Request, Override

(* An answered request constrains nothing any more.                        *)
LEMMA AnswerStep ==
  ASSUME HoldInv, NEW r \in Requests, NEW p \in Request, NEW read \in Override,
         req' = [req EXCEPT ![r] = Answered(p, read)],
         UNCHANGED <<override, heldSince, settings, now>>,
         cached'.at \in Nat \cup {None}, cached'.read \in Override,
         cached'.at # None => cached'.at <= now,
         CachedInTime(cached', heldSince)
  PROVE  HoldInv'
<1> DEFINE q == Answered(p, read)
<1>1. q \in Request /\ q.step = "answered"
  BY AnsweredShape
<1>2. req' = [req EXCEPT ![r] = q]
  OBVIOUS
<1> HIDE DEF q
<1>3. ~Reading(q) /\ ReadInTime(q, heldSince)
  BY <1>1 DEF Reading, ReadInTime
<1> QED
  BY <1>1, <1>2, <1>3, OneRequest

LEMMA FreshHold ==
  ASSUME HoldInv, NEW r \in Requests, ArriveFresh(r)
  PROVE  HoldInv'
<1>1. req[r] \in Request /\ now \in Nat /\ cached.read \in Override /\ cached.at \in Nat \cup {None}
  BY DEF HoldInv, TypeOK
<1> DEFINE p == [req[r] EXCEPT !.since = now]
<1>2. p \in Request
  BY <1>1, FieldSteps, None \in Stages \cup {None}, None \in BOOLEAN \cup {None}
<1>3. /\ req' = [req EXCEPT ![r] = Answered(p, cached.read)]
      /\ UNCHANGED <<override, heldSince, cached, settings, now>>
  BY DEF ArriveFresh
<1> HIDE DEF p
<1> QED
  BY <1>1, <1>2, <1>3, AnswerStep DEF HoldInv

LEMMA StaleHold ==
  ASSUME HoldInv, ~MayFail, NEW r \in Requests, ArriveStale(r)
  PROVE  HoldInv'
<1>1. req[r] \in Request /\ now \in Nat
  BY DEF HoldInv, TypeOK
<1> DEFINE q == [req[r] EXCEPT !.step = "stage", !.since = now]
<1>2. q \in Request
  BY <1>1, FieldSteps, None \in Stages \cup {None}, None \in BOOLEAN \cup {None}
<1>3. q.step = "stage" /\ q.since = now
  BY <1>1 DEF Request
<1>4. /\ req' = [req EXCEPT ![r] = q]
      /\ UNCHANGED <<override, heldSince, cached, settings, now>>
  BY DEF ArriveStale
<1> HIDE DEF q
<1>5. now <= now /\ now - now <= MaxLag
  BY <1>1, ManifestAssumption
<1> QED
  BY <1>2, <1>3, <1>4, <1>5, OneRequest DEF HoldInv, TypeOK, ReadInTime

LEMMA ReadHoldInv ==
  ASSUME HoldInv, ~MayFail, NEW r \in Requests, ReadStage(r) \/ ReadHold(r)
  PROVE  HoldInv'
<1>1. /\ req[r] \in Request /\ override \in RawOverride
      /\ Reading(req[r]) => req[r].since <= now /\ now - req[r].since <= MaxLag
      /\ heldSince # None => override.hold = TRUE
  BY DEF HoldInv, TypeOK
<1>2. Reading(req[r]) /\ UNCHANGED <<override, heldSince, cached, settings, now>>
  BY DEF Reading, ReadStage, ReadHold
<1>3. CASE ReadStage(r)
  <2>1. PICK v : req' = [req EXCEPT ![r].step = "hold", ![r].read.stage = KnownStage(v)]
    BY <1>3 DEF ReadStage
  <2>2. KnownStage(v) \in Stages \cup {None}
    BY DEF KnownStage
  <2> DEFINE q == [req[r] EXCEPT !.step = "hold", !.read.stage = KnownStage(v)]
  <2>3. q \in Request
    BY <1>1, <2>2, FieldSteps, 0 \in Nat, None \in BOOLEAN \cup {None}
  <2>4. q.step = "hold" /\ q.since = req[r].since
    BY <1>1 DEF Request
  <2>5. req' = [req EXCEPT ![r] = q]
    BY <2>1
  <2> HIDE DEF q
  <2>6. ReadInTime(q, heldSince)
    BY <2>4 DEF ReadInTime
  <2> QED
    BY <1>1, <1>2, <2>3, <2>4, <2>5, <2>6, OneRequest DEF HoldInv, TypeOK
<1>4. CASE ReadHold(r)
  <2>1. req' = [req EXCEPT ![r].step = "store", ![r].read.hold = override.hold]
    BY <1>4 DEF ReadHold, Replies
  <2>2. override.hold \in BOOLEAN \cup {None}
    BY <1>1 DEF RawOverride
  <2> DEFINE q == [req[r] EXCEPT !.step = "store", !.read.hold = override.hold]
  <2>3. q \in Request /\ q.read.hold = override.hold
    BY <1>1, <2>2, FieldSteps, 0 \in Nat, None \in Stages \cup {None}
  <2>4. q.step = "store" /\ q.since = req[r].since
    BY <1>1 DEF Request
  <2>5. req' = [req EXCEPT ![r] = q]
    BY <2>1
  <2> HIDE DEF q
  <2>6. ReadInTime(q, heldSince)
    BY <1>1, <2>3 DEF ReadInTime
  <2> QED
    BY <1>1, <1>2, <2>3, <2>4, <2>5, <2>6, OneRequest DEF HoldInv, TypeOK
<1> QED
  BY <1>3, <1>4

LEMMA StoreHold ==
  ASSUME HoldInv, NEW r \in Requests, Store(r)
  PROVE  HoldInv'
<1>1. /\ req[r] \in Request /\ now \in Nat /\ req[r].step = "store"
      /\ req[r].since <= now /\ now - req[r].since <= MaxLag
      /\ ReadInTime(req[r], heldSince)
      /\ heldSince \in Nat \cup {None}
  BY DEF HoldInv, TypeOK, Store, Reading
<1>2. req[r].read \in Override /\ req[r].since \in Nat
  BY <1>1 DEF Request
<1>3. cached' = [at |-> now, read |-> req[r].read]
  BY DEF Store
<1>4. CachedInTime(cached', heldSince)
  <2> SUFFICES ASSUME heldSince # None, req[r].read.hold # TRUE
               PROVE  now <= heldSince + MaxLag
    BY <1>3 DEF CachedInTime
  <2>1. req[r].since <= heldSince
    BY <1>1 DEF ReadInTime
  <2>2. heldSince \in Nat
    BY <1>1
  <2> QED
    BY <1>1, <1>2, <2>1, <2>2, Bounds
<1>5. /\ req' = [req EXCEPT ![r] = Answered(req[r], req[r].read)]
      /\ UNCHANGED <<override, heldSince, settings, now>>
  BY DEF Store
<1>6. /\ cached'.at \in Nat \cup {None} /\ cached'.read \in Override
      /\ cached'.at # None => cached'.at <= now
  BY <1>1, <1>2, <1>3
<1> QED
  BY <1>1, <1>2, <1>4, <1>5, <1>6, AnswerStep

(* Operators and the clock.                                                *)
LEMMA ConfigureHold ==
  ASSUME HoldInv, SetHold \/ SetStage
  PROVE  HoldInv'
<1>1. UNCHANGED <<cached, req, now>> /\ settings' \in Nat
  BY DEF SetHold, SetStage, Configure, HoldInv, TypeOK
<1>2. CASE SetStage
  <2>1. /\ override' \in RawOverride /\ override'.hold = override.hold
        /\ heldSince' = heldSince
    BY <1>2 DEF SetStage, Configure, HoldInv, TypeOK, RawOverride
  <2> QED
    BY <1>1, <2>1 DEF HoldInv, TypeOK
<1>3. CASE SetHold
  <2>1. PICK h \in BOOLEAN \cup {None} :
          /\ override' = [override EXCEPT !.hold = h]
          /\ heldSince' = IF h = TRUE THEN Or(heldSince, now) ELSE None
    BY <1>3 DEF SetHold, Configure
  <2>2. override' \in RawOverride /\ override'.hold = h
    BY <2>1 DEF HoldInv, TypeOK, RawOverride
  <2>3. CASE h = TRUE /\ heldSince = None
    <3>1. heldSince' = now /\ now \in Nat
      BY <2>1, <2>3 DEF Or, HoldInv, TypeOK
    <3>2. CachedInTime(cached, now)
      BY <3>1, ManifestAssumption DEF HoldInv, TypeOK, CachedInTime
    <3>3. \A r \in Requests : ReadInTime(req[r], now)
      BY DEF HoldInv, ReadInTime, Reading
    <3> QED
      BY <1>1, <2>2, <2>3, <3>1, <3>2, <3>3 DEF HoldInv, TypeOK
  <2>4. CASE h = TRUE /\ heldSince # None
    BY <1>1, <2>1, <2>2, <2>4 DEF Or, HoldInv, TypeOK
  <2>5. CASE h # TRUE
    BY <1>1, <2>1, <2>2, <2>5 DEF HoldInv, TypeOK, CachedInTime, ReadInTime
  <2> QED
    BY <2>3, <2>4, <2>5
<1> QED
  BY <1>2, <1>3

LEMMA TickHold ==
  ASSUME HoldInv, Tick
  PROVE  HoldInv'
<1>1. /\ now \in Nat /\ now' = now + 1
      /\ UNCHANGED <<override, heldSince, cached, req, settings>>
      /\ heldSince \in Nat \cup {None} /\ cached.at \in Nat \cup {None}
      /\ req \in [Requests -> Request]
  BY DEF HoldInv, TypeOK, Tick
<1>2. \A r \in Requests :
        Reading(req[r]) => req[r].since <= now /\ now - req[r].since < MaxLag
  BY DEF HoldInv, Tick, Reading
<1>3. \A r \in Requests : req[r].since \in Nat
  BY <1>1 DEF Request
<1>4. \A r \in Requests :
        Reading(req'[r]) => req'[r].since <= now' /\ now' - req'[r].since <= MaxLag
  BY <1>1, <1>2, <1>3, ManifestAssumption
<1>5. /\ heldSince # None => heldSince <= now'
      /\ cached.at # None => cached.at <= now'
  BY <1>1 DEF HoldInv
<1> QED
  BY <1>1, <1>4, <1>5 DEF HoldInv, TypeOK

LEMMA NextHold ==
  ASSUME HoldInv, ~MayFail, [Next]_vars
  PROVE  HoldInv'
<1>1. CASE UNCHANGED vars
  BY <1>1 DEF vars, HoldInv, TypeOK
<1> QED
  BY <1>1, FreshHold, StaleHold, ReadHoldInv, StoreHold, ConfigureHold, TickHold DEF Next

-----------------------------------------------------------------------------
(* A manifest made from a hold that was read says so.                      *)
LEMMA HeldAnswer ==
  ASSUME NEW q \in Request, NEW read \in Override, read.hold = TRUE
  PROVE  /\ Answered(q, read).status = "hold"
         /\ Answered(q, read).eligible => q.code < MinCode
<1>1. Held(read) = TRUE
  BY ManifestAssumption DEF Held, Or
<1>2. ~(Bucket < 0)
  BY ManifestAssumption
<1> QED
  BY <1>1, <1>2, AnsweredShape DEF IsAudienceEnabled

HoldAnswers ==
  \A r \in Requests :
    IsAnswered(r) /\ heldSince # None /\ now - heldSince >= CacheTTL + MaxLag
      => req'[r].status = "hold" /\ (req'[r].eligible => req[r].code < MinCode)

(* Only who finds the cache fresh, or stores what it read, is answered.    *)
LEMMA WhoAnswers ==
  ASSUME HoldInv, ~MayFail, [Next]_vars, NEW r \in Requests, IsAnswered(r)
  PROVE  ArriveFresh(r) \/ Store(r)
<1>0. req[r] \in Request /\ req \in [Requests -> Request]
  BY DEF HoldInv, TypeOK
<1>1. \A s \in Requests : ReadStage(s) \/ ReadHold(s) \/ ArriveStale(s) => ~IsAnswered(r)
  <2>1. ASSUME NEW s \in Requests, NEW q, q.step # "answered", req' = [req EXCEPT ![s] = q]
        PROVE  ~IsAnswered(r)
    BY <1>0, <2>1 DEF IsAnswered
  <2>2. \A s \in Requests : req[s] \in Request
    BY <1>0
  <2>3. ASSUME NEW s \in Requests, ReadStage(s) PROVE ~IsAnswered(r)
    <3>1. PICK v : req' = [req EXCEPT ![s].step = "hold", ![s].read.stage = v]
      BY <2>3 DEF ReadStage
    <3> DEFINE q == [req[s] EXCEPT !.step = "hold", !.read.stage = v]
    <3>2. q.step = "hold" /\ req' = [req EXCEPT ![s] = q]
      BY <2>2, <3>1 DEF Request
    <3> HIDE DEF q
    <3> QED
      BY <2>1, <3>2
  <2>4. ASSUME NEW s \in Requests, ReadHold(s) PROVE ~IsAnswered(r)
    <3>1. PICK v : req' = [req EXCEPT ![s].step = "store", ![s].read.hold = v]
      BY <2>4 DEF ReadHold
    <3> DEFINE q == [req[s] EXCEPT !.step = "store", !.read.hold = v]
    <3>2. q.step = "store" /\ req' = [req EXCEPT ![s] = q]
      BY <2>2, <3>1 DEF Request
    <3> HIDE DEF q
    <3> QED
      BY <2>1, <3>2
  <2>5. ASSUME NEW s \in Requests, ArriveStale(s) PROVE ~IsAnswered(r)
    <3>1. req' = [req EXCEPT ![s].step = "stage", ![s].since = now]
      BY <2>5 DEF ArriveStale
    <3> DEFINE q == [req[s] EXCEPT !.step = "stage", !.since = now]
    <3>2. q.step = "stage" /\ req' = [req EXCEPT ![s] = q]
      BY <2>2, <3>1 DEF Request
    <3> HIDE DEF q
    <3> QED
      BY <2>1, <3>2
  <2> QED
    BY <2>3, <2>4, <2>5
<1>2. SetHold \/ SetStage \/ Tick \/ UNCHANGED vars => req' = req
  BY DEF SetHold, SetStage, Configure, Tick, vars
<1>3. ASSUME NEW s \in Requests, s # r, ArriveFresh(s) \/ Store(s)
      PROVE  req'[r] = req[r]
  BY <1>0, <1>3 DEF ArriveFresh, Store
<1> QED
  BY <1>1, <1>2, <1>3 DEF Next, IsAnswered

LEMMA LateAnswersHold ==
  ASSUME HoldInv, ~MayFail, [Next]_vars
  PROVE  HoldAnswers
<1> SUFFICES ASSUME NEW r \in Requests, IsAnswered(r), heldSince # None,
                    now - heldSince >= CacheTTL + MaxLag
             PROVE  req'[r].status = "hold" /\ (req'[r].eligible => req[r].code < MinCode)
  BY DEF HoldAnswers
<1>1. /\ req[r] \in Request /\ now \in Nat /\ heldSince \in Nat
      /\ cached.read \in Override /\ cached.at \in Nat \cup {None}
      /\ req \in [Requests -> Request] /\ CachedInTime(cached, heldSince)
      /\ Reading(req[r]) => req[r].since <= now /\ now - req[r].since <= MaxLag
      /\ ReadInTime(req[r], heldSince)
  BY DEF HoldInv, TypeOK
<1>2. ArriveFresh(r) \/ Store(r)
  BY WhoAnswers
<1>3. CASE ArriveFresh(r)
  <2>1. cached.read.hold = TRUE
    <3>1. cached.at \in Nat /\ now - cached.at < CacheTTL
      BY <1>1, <1>3 DEF ArriveFresh, IsFresh
    <3>2. ~(cached.at <= heldSince + MaxLag)
      BY <1>1, <3>1, Bounds
    <3>3. cached.at # None
      BY <3>1, Bounds
    <3> QED
      BY <1>1, <3>2, <3>3 DEF CachedInTime
  <2> DEFINE p == [req[r] EXCEPT !.since = now]
  <2>2. p \in Request /\ p.code = req[r].code
    BY <1>1 DEF Request
  <2>3. req'[r] = Answered(p, cached.read)
    BY <1>1, <1>3 DEF ArriveFresh
  <2> HIDE DEF p
  <2> QED
    BY <1>1, <2>1, <2>2, <2>3, HeldAnswer
<1>4. CASE Store(r)
  <2>1. req[r].step = "store" /\ req[r].since \in Nat /\ req[r].read \in Override
    BY <1>1, <1>4 DEF Store, Request
  <2>2. req[r].read.hold = TRUE
    <3>1. req[r].since <= now /\ now - req[r].since <= MaxLag
      BY <1>1, <2>1 DEF Reading
    <3>2. ~(req[r].since <= heldSince)
      BY <1>1, <2>1, <3>1, Bounds
    <3> QED
      BY <1>1, <2>1, <3>2 DEF ReadInTime
  <2>3. req'[r] = Answered(req[r], req[r].read)
    BY <1>1, <1>4 DEF Store
  <2> QED
    <3>1. /\ Answered(req[r], req[r].read).status = "hold"
          /\ Answered(req[r], req[r].read).eligible => req[r].code < MinCode
      BY <1>1, <2>1, <2>2, HeldAnswer
    <3> QED
      BY ONLY <2>3, <3>1
<1> QED
  BY <1>2, <1>3, <1>4

(* The kill switch: while Redis answers, no manifest is live, and nobody   *)
(* above the floor is offered an update, once ct:update:hold has been set  *)
(* for CacheTTL + MaxLag ticks.                                            *)
THEOREM KillSwitchHolds ==
  ASSUME ~MayFail
  PROVE  Spec => HoldTakesEffect
<1>1. HoldInv /\ [Next]_vars => HoldInv'
  BY NextHold
<1>2. HoldInv /\ [Next]_vars => [HoldAnswers]_vars
  BY LateAnswersHold
<1>3. HoldTakesEffect <=> [][HoldAnswers]_vars
  BY DEF HoldTakesEffect, HoldAnswers
<1> QED
  BY InitHold, <1>1, <1>2, <1>3, PTL DEF Spec

(* Type correctness of the update manifest while Redis answers: a stage that is stored is one
   updateManifest.ts:71 knows, whatever operators wrote. *)
THEOREM ManifestTypes ==
  ASSUME ~MayFail
  PROVE  Spec => []TypeOK
<1>1. HoldInv /\ [Next]_vars => HoldInv'
  BY NextHold
<1>2. HoldInv => TypeOK
  BY DEF HoldInv
<1> QED
  BY InitHold, <1>1, <1>2, PTL DEF Spec

-----------------------------------------------------------------------------
(* Among the overrides of P is, not before t, one with that stage, that hold. *)
StageSince(P, stage, t) == \E p \in P : p.at >= t /\ KnownStage(p.read.stage) = stage
HoldSince(P, hold, t) == \E p \in P : p.at >= t /\ p.read.hold = hold
BothSince(P, read, t) == StageSince(P, read.stage, t) /\ HoldSince(P, read.hold, t)

PastHolds(P, t) == \A p \in P : p.at \in Nat /\ p.at <= t

(* What a request has read was in force after it came.                     *)
ReadRecently(P, q) ==
  /\ q.step \in {"hold", "store"} => StageSince(P, q.read.stage, q.since)
  /\ q.step = "store" => HoldSince(P, q.read.hold, q.since)

(* What the cache holds was in force while the request that stored it was under way. *)
CachedLately(P, c, t) ==
  c.at # None /\ t - c.at <= CacheTTL => BothSince(P, c.read, c.at - MaxLag)

RecentInv ==
  /\ HoldInv
  /\ PastHolds(past, now) /\ [at |-> now, read |-> override] \in past
  /\ CachedLately(past, cached, now)
  /\ \A r \in Requests : ReadRecently(past, req[r])

LEMMA InitRecent == Init => RecentInv
<1> SUFFICES ASSUME Init PROVE RecentInv
  OBVIOUS
<1>1. HoldInv
  BY InitHold
<1>2. cached.at = None /\ now = 0 /\ past = {[at |-> 0, read |-> NoOverride]}
      /\ override = NoOverride
  BY DEF Init, NotCached
<1>3. \A r \in Requests : req[r].step = "idle"
  <2>1. PICK code \in [Requests -> Codes] :
          req = [r \in Requests |-> [step |-> "idle", code |-> code[r], read |-> NoOverride,
                                     since |-> 0, status |-> "none", eligible |-> FALSE]]
    BY DEF Init
  <2> QED
    BY <2>1
<1> QED
  BY <1>1, <1>2, <1>3 DEF RecentInv, PastHolds, CachedLately, ReadRecently

(* A step of one request that leaves the past alone.                       *)
LEMMA OneRecent ==
  ASSUME RecentInv, HoldInv', NEW r \in Requests, NEW q \in Request,
         req' = [req EXCEPT ![r] = q], ReadRecently(past, q),
         UNCHANGED <<past, override, now>>, CachedLately(past, cached', now)
  PROVE  RecentInv'
<1>1. \A s \in Requests : req'[s] = IF s = r THEN q ELSE req[s]
  BY DEF RecentInv, HoldInv, TypeOK
<1>2. \A s \in Requests : ReadRecently(past, req'[s])
  BY <1>1 DEF RecentInv
<1> QED
  BY <1>2 DEF RecentInv

LEMMA FreshRecent ==
  ASSUME RecentInv, ~MayFail, NEW r \in Requests, ArriveFresh(r)
  PROVE  RecentInv'
<1> DEFINE p == [req[r] EXCEPT !.since = now]
           q == Answered(p, cached.read)
<1>1. p \in Request /\ cached.read \in Override
  BY DEF RecentInv, HoldInv, TypeOK, Request
<1>2. req' = [req EXCEPT ![r] = q] /\ UNCHANGED <<past, override, now, cached>>
  BY DEF ArriveFresh
<1> HIDE DEF p
<1>3. q \in Request /\ q.step = "answered"
  BY <1>1, AnsweredShape
<1>4. HoldInv'
  BY FreshHold DEF RecentInv
<1> HIDE DEF q
<1>5. ReadRecently(past, q)
  BY <1>3 DEF ReadRecently
<1> QED
  BY <1>2, <1>3, <1>4, <1>5, OneRecent DEF RecentInv

LEMMA StaleRecent ==
  ASSUME RecentInv, ~MayFail, NEW r \in Requests, ArriveStale(r)
  PROVE  RecentInv'
<1> DEFINE q == [req[r] EXCEPT !.step = "stage", !.since = now]
<1>1. q \in Request /\ q.step = "stage"
  BY DEF RecentInv, HoldInv, TypeOK, Request
<1>2. req' = [req EXCEPT ![r] = q] /\ UNCHANGED <<past, override, now, cached>>
  BY DEF ArriveStale
<1>3. HoldInv'
  BY StaleHold DEF RecentInv
<1> HIDE DEF q
<1>4. ReadRecently(past, q)
  BY <1>1 DEF ReadRecently
<1> QED
  BY <1>1, <1>2, <1>3, <1>4, OneRecent DEF RecentInv

(* What is in force now is among the overrides of the past.                *)
LEMMA ReadNow ==
  ASSUME RecentInv, NEW t \in Nat, t <= now
  PROVE  StageSince(past, KnownStage(override.stage), t) /\ HoldSince(past, override.hold, t)
<1>1. PICK p \in past : p = [at |-> now, read |-> override]
  BY DEF RecentInv
<1>2. p.at >= t /\ p.read = override
  BY <1>1 DEF RecentInv, HoldInv, TypeOK
<1> QED
  BY <1>1, <1>2 DEF StageSince, HoldSince

LEMMA ReadStageRecent ==
  ASSUME RecentInv, ~MayFail, NEW r \in Requests, ReadStage(r)
  PROVE  RecentInv'
<1> DEFINE s == KnownStage(override.stage)
           q == [req[r] EXCEPT !.step = "hold", !.read.stage = s]
<1>1. req[r] \in Request /\ req[r].since \in Nat /\ req[r].since <= now
  BY DEF RecentInv, HoldInv, TypeOK, Request, ReadStage, Reading
<1>2. s \in Stages \cup {None}
  BY DEF KnownStage
<1>3. req' = [req EXCEPT ![r] = q] /\ UNCHANGED <<past, override, now, cached>>
  BY DEF ReadStage, Replies
<1>4. StageSince(past, s, req[r].since)
  BY <1>1, ReadNow
<1> HIDE DEF s
<1>5. q \in Request /\ q.step = "hold" /\ q.since = req[r].since /\ q.read.stage = s
  BY <1>1, <1>2 DEF Request, Override
<1>6. HoldInv'
  BY ReadHoldInv DEF RecentInv
<1> HIDE DEF q
<1>7. ReadRecently(past, q)
  BY <1>4, <1>5 DEF ReadRecently
<1> QED
  BY <1>3, <1>5, <1>6, <1>7, OneRecent DEF RecentInv

LEMMA ReadHoldRecent ==
  ASSUME RecentInv, ~MayFail, NEW r \in Requests, ReadHold(r)
  PROVE  RecentInv'
<1> DEFINE h == override.hold
           q == [req[r] EXCEPT !.step = "store", !.read.hold = h]
<1>1. req[r] \in Request /\ req[r].since \in Nat /\ req[r].since <= now /\ req[r].step = "hold"
  BY DEF RecentInv, HoldInv, TypeOK, Request, ReadHold, Reading
<1>2. h \in BOOLEAN \cup {None}
  BY DEF RecentInv, HoldInv, TypeOK, RawOverride
<1>3. req' = [req EXCEPT ![r] = q] /\ UNCHANGED <<past, override, now, cached>>
  BY DEF ReadHold, Replies
<1>4. HoldSince(past, h, req[r].since) /\ StageSince(past, req[r].read.stage, req[r].since)
  BY <1>1, ReadNow DEF RecentInv, ReadRecently
<1> HIDE DEF h
<1>5. /\ q \in Request /\ q.step = "store" /\ q.since = req[r].since /\ q.read.hold = h
      /\ q.read.stage = req[r].read.stage
  BY <1>1, <1>2 DEF Request, Override
<1>6. HoldInv'
  BY ReadHoldInv DEF RecentInv
<1> HIDE DEF q
<1>7. ReadRecently(past, q)
  BY <1>4, <1>5 DEF ReadRecently
<1> QED
  BY <1>3, <1>5, <1>6, <1>7, OneRecent DEF RecentInv

(* What holds since a time holds since an earlier one.                     *)
LEMMA SinceEarlier ==
  ASSUME NEW P, NEW now_ \in Nat, PastHolds(P, now_), NEW s \in Int, NEW t \in Int, s <= t
  PROVE  /\ \A v : StageSince(P, v, t) => StageSince(P, v, s)
         /\ \A v : HoldSince(P, v, t) => HoldSince(P, v, s)
<1>1. \A p \in P : p.at >= t => p.at >= s
  BY DEF PastHolds
<1> QED
  BY <1>1 DEF StageSince, HoldSince

LEMMA StoreRecent ==
  ASSUME RecentInv, ~MayFail, NEW r \in Requests, Store(r)
  PROVE  RecentInv'
<1> DEFINE q == Answered(req[r], req[r].read)
<1>1. /\ req[r] \in Request /\ req[r].since \in Nat /\ req[r].step = "store" /\ now \in Nat
      /\ req[r].since <= now /\ now - req[r].since <= MaxLag /\ req[r].read \in Override
  BY DEF RecentInv, HoldInv, TypeOK, Request, Store, Reading
<1>2. /\ req' = [req EXCEPT ![r] = q] /\ UNCHANGED <<past, override, now>>
      /\ cached' = [at |-> now, read |-> req[r].read]
  BY DEF Store
<1>3. q \in Request /\ q.step = "answered"
  BY <1>1, AnsweredShape
<1>4. BothSince(past, req[r].read, now - MaxLag)
  <2>1. now - MaxLag \in Int /\ now - MaxLag <= req[r].since
    BY <1>1, Bounds
  <2>2. StageSince(past, req[r].read.stage, req[r].since) /\ HoldSince(past, req[r].read.hold, req[r].since)
    BY <1>1 DEF RecentInv, ReadRecently
  <2>3. PastHolds(past, now)
    BY DEF RecentInv
  <2> QED
    BY <1>1, <2>1, <2>2, <2>3, SinceEarlier DEF BothSince
<1>5. HoldInv'
  BY StoreHold DEF RecentInv
<1> HIDE DEF q
<1>6. ReadRecently(past, q)
  BY <1>3 DEF ReadRecently
<1>7. CachedLately(past, cached', now)
  BY <1>2, <1>4 DEF CachedLately
<1> QED
  BY <1>2, <1>3, <1>5, <1>6, <1>7, OneRecent

(* Of the past what is of a time is kept: all of it, or all from t on.     *)
LEMMA PastKept ==
  ASSUME NEW P, NEW Q, NEW t, \A p \in P : p.at >= t => p \in Q
  PROVE  /\ \A v : StageSince(P, v, t) => StageSince(Q, v, t)
         /\ \A v : HoldSince(P, v, t) => HoldSince(Q, v, t)
BY DEF StageSince, HoldSince

LEMMA ConfigureRecent ==
  ASSUME RecentInv, SetHold \/ SetStage
  PROVE  RecentInv'
<1>1. PICK o : /\ override' = o /\ past' = past \cup {[at |-> now, read |-> o]}
               /\ UNCHANGED <<cached, req, now>>
  BY DEF SetHold, SetStage, Configure
<1>2. \A t : /\ \A v : StageSince(past, v, t) => StageSince(past', v, t)
             /\ \A v : HoldSince(past, v, t) => HoldSince(past', v, t)
  BY <1>1, PastKept
<1>3. CachedLately(past', cached', now') /\ \A r \in Requests : ReadRecently(past', req'[r])
  BY <1>1, <1>2 DEF RecentInv, CachedLately, ReadRecently, BothSince
<1>4. PastHolds(past', now') /\ [at |-> now', read |-> override'] \in past'
  BY <1>1 DEF RecentInv, PastHolds, HoldInv, TypeOK
<1>5. HoldInv'
  BY ConfigureHold DEF RecentInv
<1> QED
  BY <1>3, <1>4, <1>5 DEF RecentInv

LEMMA TickRecent ==
  ASSUME RecentInv, Tick
  PROVE  RecentInv'
<1>1. /\ now \in Nat /\ now' = now + 1 /\ UNCHANGED <<override, cached, req>>
      /\ past' = {p \in past : now + 1 - p.at <= CacheTTL + MaxLag}
                   \cup {[at |-> now + 1, read |-> override]}
      /\ req \in [Requests -> Request] /\ cached.at \in Nat \cup {None}
      /\ PastHolds(past, now)
  BY DEF Tick, RecentInv, HoldInv, TypeOK
<1>2. ASSUME NEW t \in Int, now + 1 - t <= CacheTTL + MaxLag
      PROVE  /\ \A v : StageSince(past, v, t) => StageSince(past', v, t)
             /\ \A v : HoldSince(past, v, t) => HoldSince(past', v, t)
  <2>1. \A p \in past : p.at >= t => p \in past'
    BY <1>1, <1>2, Bounds DEF PastHolds
  <2> QED
    BY <2>1, PastKept
<1>3. ASSUME NEW r \in Requests
      PROVE  ReadRecently(past', req[r])
  <2>1. CASE req[r].step \in {"hold", "store"}
    <3>1. req[r].since \in Nat /\ now - req[r].since < MaxLag
      BY <1>1, <2>1 DEF Request, Tick
    <3>2. now + 1 - req[r].since <= CacheTTL + MaxLag
      BY <1>1, <3>1, Bounds
    <3>3. ReadRecently(past, req[r])
      BY DEF RecentInv
    <3> QED
      BY <1>2, <3>1, <3>2, <3>3 DEF ReadRecently
  <2>2. CASE req[r].step \notin {"hold", "store"}
    BY <2>2 DEF ReadRecently
  <2> QED
    BY <2>1, <2>2
<1>4. CachedLately(past', cached, now')
  <2>1. ASSUME cached.at # None, now + 1 - cached.at <= CacheTTL
        PROVE  BothSince(past', cached.read, cached.at - MaxLag)
    <3>1. cached.at \in Nat
      BY <1>1, <2>1
    <3>2. now - cached.at <= CacheTTL
      BY <1>1, <2>1, <3>1, Bounds
    <3>3. BothSince(past, cached.read, cached.at - MaxLag)
      BY <2>1, <3>2 DEF RecentInv, CachedLately
    <3>4. cached.at - MaxLag \in Int /\ now + 1 - (cached.at - MaxLag) <= CacheTTL + MaxLag
      BY <1>1, <2>1, <3>1, Bounds
    <3> QED
      BY <1>2, <3>3, <3>4 DEF BothSince
  <2> QED
    BY <1>1, <2>1 DEF CachedLately, BothSince
<1>5. PastHolds(past', now') /\ [at |-> now', read |-> override'] \in past'
  BY <1>1 DEF PastHolds
<1>6. HoldInv'
  BY TickHold DEF RecentInv
<1> QED
  BY <1>1, <1>3, <1>4, <1>5, <1>6 DEF RecentInv

LEMMA NextRecent ==
  ASSUME RecentInv, ~MayFail, [Next]_vars
  PROVE  RecentInv'
<1>1. CASE UNCHANGED vars
  <2>1. HoldInv'
    BY NextHold DEF RecentInv
  <2> QED
    BY <1>1, <2>1 DEF vars, RecentInv
<1> QED
  BY <1>1, FreshRecent, StaleRecent, ReadStageRecent, ReadHoldRecent, StoreRecent,
     ConfigureRecent, TickRecent DEF Next

RecentAnswers ==
  \A r \in Requests :
    IsAnswered(r) =>
      /\ \E p \in past : KnownStage(p.read.stage) = req'[r].read.stage
      /\ \E p \in past : p.read.hold = req'[r].read.hold

LEMMA AnswersAreOfThePast ==
  ASSUME RecentInv, ~MayFail, [Next]_vars
  PROVE  RecentAnswers
<1> SUFFICES ASSUME NEW r \in Requests, IsAnswered(r)
             PROVE  \E t : BothSince(past, req'[r].read, t)
  BY DEF RecentAnswers, BothSince, StageSince, HoldSince
<1>1. /\ req[r] \in Request /\ now \in Nat /\ req \in [Requests -> Request]
      /\ cached.read \in Override /\ cached.at \in Nat \cup {None}
  BY DEF RecentInv, HoldInv, TypeOK
<1>2. CASE ArriveFresh(r)
  <2> DEFINE p == [req[r] EXCEPT !.since = now]
  <2>1. p \in Request
    BY <1>1 DEF Request
  <2>2. req'[r] = Answered(p, cached.read)
    BY <1>1, <1>2 DEF ArriveFresh
  <2>3. cached.at # None /\ cached.at \in Nat /\ now - cached.at < CacheTTL
    BY <1>1, <1>2 DEF ArriveFresh, IsFresh
  <2> HIDE DEF p
  <2>4. req'[r].read = cached.read
    BY <1>1, <2>1, <2>2 DEF Answered, Request
  <2>5. BothSince(past, cached.read, cached.at - MaxLag)
    BY <1>1, <2>3, Bounds DEF RecentInv, CachedLately
  <2> QED
    BY <2>4, <2>5
<1>3. CASE Store(r)
  <2>1. req'[r] = Answered(req[r], req[r].read)
    BY <1>1, <1>3 DEF Store
  <2>2. req'[r].read = req[r].read
    BY <1>1, <2>1 DEF Answered, Request
  <2>3. BothSince(past, req[r].read, req[r].since)
    BY <1>3 DEF RecentInv, ReadRecently, BothSince, Store
  <2> QED
    BY <2>2, <2>3
<1> QED
  BY <1>2, <1>3, WhoAnswers DEF RecentInv

(* While Redis answers, each of the two settings of an answer was in force *)
(* at some moment of the last CacheTTL + MaxLag ticks, in whatever order   *)
(* the requests store what they read.                                      *)
THEOREM AnswersNameThePast ==
  ASSUME ~MayFail
  PROVE  Spec => AnswersAreRecent
<1>1. RecentInv /\ [Next]_vars => RecentInv'
  BY NextRecent
<1>2. RecentInv /\ [Next]_vars => [RecentAnswers]_vars
  BY AnswersAreOfThePast
<1>3. AnswersAreRecent <=> [][RecentAnswers]_vars
  BY DEF AnswersAreRecent, RecentAnswers
<1> QED
  BY InitRecent, <1>1, <1>2, <1>3, PTL DEF Spec
=============================================================================
