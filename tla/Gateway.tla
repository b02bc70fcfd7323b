------------------------------- MODULE Gateway -------------------------------
(***************************************************************************)
(* The gateway: gateway/sessionMiddleware.ts in front of the cache pool    *)
(* cache/redisPool.ts, the proof check crypto/verifier.ts, the governance  *)
(* guard governance/gatewayGuard.ts with governance/policyEngine.ts, and   *)
(* the readiness probe of gatewayServer.ts.                                *)
(*                                                                         *)
(* Requests of one process interleave at every await, which are the        *)
(* commands of the cache pool.  The Redis client keeps commands in a queue *)
(* while it is not connected and rejects the ones already sent when the    *)
(* connection breaks; the pool turns a rejection into null.                *)
(***************************************************************************)
EXTENDS Integers

CONSTANTS
  Request,     \* the requests of a behaviour
  Hash,        \* the values of x-cipher-hash
  NoState,     \* null
  Salts,       \* the instants for which clients make proofs
  Window,      \* performanceWindow, verifier.ts:53
  StateTTL,    \* the 3600 seconds of state:<hash>
  MaxAge,      \* the 12 hours of baseline.session-age
  Baseline,    \* CT_GOVERNANCE_RULES = baseline
  Horizon      \* bound: the last instant of the clock

ASSUME GatewayAssumption ==
  /\ Salts \subseteq Nat
  /\ {Window, StateTTL, MaxAge, Horizon} \subseteq Nat
  /\ StateTTL > 0
  /\ Baseline \in BOOLEAN

VARIABLES
  entry,    \* state:<hash> in Redis: [Hash -> [origin, left] or NoState]
  conn,     \* the Redis client
  now,      \* Date.now()
  req,      \* the requests
  audit,    \* governanceAudit, as the requests its records are about
  proven    \* history: for which hash a proof was accepted, and when

vars == <<entry, conn, now, req, audit, proven>>

Proofs == [hash: Hash, salt: Salts, sound: BOOLEAN]
Entries == [origin: 0..Horizon, left: 1..StateTTL]
Steps == {"idle", "get", "got", "expire", "setex", "guard", "ping", "done"}
NoAnswer == 0
Challenged == 1      \* 401 with status challenge_required
Answers == {NoAnswer, Challenged, 200, 400, 401, 403, 503}
NoOrigin == -1

Instants == {NoOrigin} \cup 0..Horizon
Requests == [step: Steps, hash: Hash \cup {NoState}, proof: Proofs \cup {NoState},
             state: Entries \cup {NoState}, origin: Instants, answer: Answers, at: Instants]

ASSUME NoStateAssumption == NoState \notin Entries

NewRequest == [step |-> "idle", hash |-> NoState, proof |-> NoState, state |-> NoState,
               origin |-> NoOrigin, answer |-> NoAnswer, at |-> NoOrigin]

(* The client connects when it is loaded; under NODE_ENV = "test" it never does. *)
Init ==
  /\ entry = [h \in Hash |-> NoState]
  /\ conn \in {"connecting", "closed"}
  /\ now = 0
  /\ req = [r \in Request |-> NewRequest]
  /\ audit = {}
  /\ proven = {}

-----------------------------------------------------------------------------
IsOpen == conn # "closed"     \* also true while the client is reconnecting

Become(r, q) == req' = [req EXCEPT ![r] = q]
Goto(r, step) == Become(r, [req[r] EXCEPT !.step = step])
Answer(r, status) ==
  Become(r, [req[r] EXCEPT !.step = "done", !.answer = status, !.at = now,
                           !.state = NoState, !.proof = NoState])

(* Mutant: the proof is not bound to the hash of the request. *)
VerifyUnbound(proof, hash, t) == proof.sound /\ t - proof.salt \in -Window..Window

(* verifier.ts:11-91.  A proof names the hash it was made for and the instant it
   was made at; "sound" is all the rest: it decodes, its fields have their types
   and lengths, its digest is right. *)
VerifyCryptographicProof(proof, hash, t) ==
  /\ proof.sound
  /\ proof.hash = hash
  /\ t - proof.salt \in -Window..Window

(* Mutant: the age is compared with the life of the entry. *)
ChallengeExpired(origin, t) == Baseline /\ t - origin > StateTTL

(* policyEngine.ts: first match wins, and the baseline has one rule. *)
MustChallenge(origin, t) == Baseline /\ t - origin > MaxAge

(* A request with both headers reaches the pool; with a missing or an overlong
   header it is answered at once. *)
Arrive(r) ==
  /\ req[r].step = "idle"
  /\ \/ \E h \in Hash, p \in Proofs :
          Become(r, [NewRequest EXCEPT !.step = "get", !.hash = h, !.proof = p])
     \/ \E status \in {400, 401} : Answer(r, status)
  /\ UNCHANGED <<entry, conn, now, audit, proven>>

(* GET /ready: a closed client is a 503 at once, an open one is sent a PING. *)
ArriveProbe(r) ==
  /\ req[r].step = "idle"
  /\ IF IsOpen THEN Goto(r, "ping") ELSE Answer(r, 503)
  /\ UNCHANGED <<entry, conn, now, audit, proven>>

-----------------------------------------------------------------------------
(* Commands, executed by Redis while the client is connected. *)

Got(r, state) == Become(r, [req[r] EXCEPT !.step = "got", !.state = state])

RedisGet(r) ==
  /\ req[r].step = "get"
  /\ conn = "ready"
  /\ Got(r, entry[req[r].hash])
  /\ UNCHANGED <<entry, conn, now, audit, proven>>

(* EXPIRE of a key that is gone does nothing; its answer is not looked at. *)
RedisExpire(r) ==
  /\ req[r].step = "expire"
  /\ conn = "ready"
  /\ entry' = IF entry[req[r].hash] = NoState THEN entry
              ELSE [entry EXCEPT ![req[r].hash].left = StateTTL]
  /\ Goto(r, "guard")
  /\ UNCHANGED <<conn, now, audit, proven>>

RedisSetEx(r) ==
  /\ req[r].step = "setex"
  /\ conn = "ready"
  /\ entry' = [entry EXCEPT ![req[r].hash] = [origin |-> req[r].origin, left |-> StateTTL]]
  /\ Goto(r, "guard")
  /\ UNCHANGED <<conn, now, audit, proven>>

RedisPing(r) ==
  /\ req[r].step = "ping"
  /\ conn = "ready"
  /\ Answer(r, 200)
  /\ UNCHANGED <<entry, conn, now, audit, proven>>

(* cache.get, cache.expire and cache.setEx of a closed client: null. *)
Unavailable(r) ==
  /\ ~IsOpen
  /\ \/ req[r].step = "get" /\ Got(r, NoState)
     \/ req[r].step = "setex" /\ Goto(r, "guard")
  /\ UNCHANGED <<entry, conn, now, audit, proven>>

(* The connection breaks: what was sent is rejected, which the pool turns into
   null and the probe into a 503. *)
Rejected(q) ==
  CASE q.step = "get" -> [q EXCEPT !.step = "got", !.state = NoState]
    [] q.step \in {"expire", "setex"} -> [q EXCEPT !.step = "guard"]
    [] q.step = "ping" -> [q EXCEPT !.step = "done", !.answer = 503, !.at = now]
    [] OTHER -> q

Disconnect ==
  /\ conn = "ready"
  /\ conn' = "connecting"
  /\ req' = [r \in Request |-> Rejected(req[r])]
  /\ UNCHANGED <<entry, now, audit, proven>>

(* reconnectStrategy never gives up. *)
Reconnect ==
  /\ conn = "connecting"
  /\ conn' = "ready"
  /\ UNCHANGED <<entry, now, req, audit, proven>>

-----------------------------------------------------------------------------
(* sessionMiddleware.ts after its GET.  A hit is admitted on what was stored, its
   proof is not looked at; a miss needs a proof bound to the hash. *)
Resume(r) ==
  LET q == req[r] IN
  /\ q.step = "got"
  /\ \/ /\ q.state # NoState
        /\ Become(r, [q EXCEPT !.step = "expire", !.origin = q.state.origin])
        /\ UNCHANGED proven
     \/ /\ q.state = NoState
        /\ VerifyCryptographicProof(q.proof, q.hash, now)
        /\ Become(r, [q EXCEPT !.step = "setex", !.origin = now])
        /\ proven' = proven \cup {[hash |-> q.proof.hash, at |-> now]}
     \/ /\ q.state = NoState
        /\ ~VerifyCryptographicProof(q.proof, q.hash, now)
        /\ Answer(r, 403)
        /\ UNCHANGED proven
  /\ UNCHANGED <<entry, conn, now, audit>>

(* Mutant: a challenge is neither answered nor passed on. *)
GuardSilent(r) ==
  /\ req[r].step = "guard"
  /\ ~MustChallenge(req[r].origin, now)
  /\ Answer(r, 200)
  /\ UNCHANGED <<entry, conn, now, audit, proven>>

(* governanceGuard and the route behind it, in one turn of the event loop: a
   challenge is put in the audit trail before it is answered. *)
GovernanceGuard(r) ==
  /\ req[r].step = "guard"
  /\ LET challenge == MustChallenge(req[r].origin, now) IN
     /\ Become(r, [req[r] EXCEPT !.step = "done", !.at = now, !.state = NoState,
                                 !.answer = IF challenge THEN Challenged ELSE 200])
     /\ audit' = IF challenge THEN audit \cup {r} ELSE audit
  /\ UNCHANGED <<entry, conn, now, proven>>

(* A key whose last instant has passed is gone. *)
Aged(e) == IF e = NoState \/ e.left = 1 THEN NoState ELSE [e EXCEPT !.left = @ - 1]

Tick ==
  /\ now < Horizon
  /\ now' = now + 1
  /\ entry' = [h \in Hash |-> Aged(entry[h])]
  /\ UNCHANGED <<conn, req, audit, proven>>

Handler(r) == Resume(r) \/ GovernanceGuard(r) \/ Unavailable(r)
Redis(r) == RedisGet(r) \/ RedisExpire(r) \/ RedisSetEx(r) \/ RedisPing(r)

Next ==
  \/ \E r \in Request : Arrive(r) \/ ArriveProbe(r) \/ Handler(r) \/ Redis(r)
  \/ Disconnect
  \/ Reconnect
  \/ Tick

Spec == Init /\ [][Next]_vars

(* The event loop runs what is ready, and a connected Redis answers. *)
FairSpec == Spec /\ \A r \in Request : WF_vars(Handler(r)) /\ WF_vars(Redis(r))

(* Redis comes back, as reconnectStrategy tries for ever. *)
ReturningSpec == FairSpec /\ WF_vars(Reconnect)

-----------------------------------------------------------------------------
TypeOK ==
  /\ entry \in [Hash -> Entries \cup {NoState}]
  /\ conn \in {"closed", "connecting", "ready"}
  /\ now \in 0..Horizon
  /\ req \in [Request -> Requests]
  /\ audit \subseteq Request
  /\ proven \subseteq [hash: Hash, at: 0..Horizon]

(* Whoever is let in uses a hash for which a proof was accepted at the very
   instant the session says it began, though most requests present no valid proof
   and Redis may forget, refuse or expire the entry between any two commands. *)
AdmittedWasProven ==
  \A r \in Request :
    req[r].step = "guard" \/ (req[r].answer = 200 /\ req[r].hash # NoState) =>
      [hash |-> req[r].hash, at |-> req[r].origin] \in proven

(* Under the baseline rules nobody is served on a proof older than MaxAge: rolling
   the expiry of the entry does not roll the age of the session. *)
ServedWithinMaxAge ==
  Baseline =>
    \A r \in Request : req[r].answer = 200 /\ req[r].hash # NoState =>
      \E p \in proven : p.hash = req[r].hash /\ req[r].at - p.at <= MaxAge

(* Every request is answered, the probe included. *)
EveryRequestAnswered ==
  \A r \in Request : req[r].step # "idle" ~> req[r].step = "done"
=============================================================================
