----------------------------- MODULE GatewayProofs -----------------------------
(***************************************************************************)
(* Theorems about Gateway, for any requests, hashes, proofs, windows and   *)
(* lifetimes, whether or not Redis is reachable.                           *)
(***************************************************************************)
EXTENDS Gateway, TLAPS

Proved(h, t, log) == [hash |-> h, at |-> t] \in log

(* What a request holds was proven, by the step it is at.                  *)
Sound(q, log) ==
  /\ q.step \in {"get", "got", "expire", "setex", "guard"} => q.hash \in Hash
  /\ q.step \in {"get", "got"} => q.proof \in Proofs
  /\ q.step = "got" /\ q.state # NoState => Proved(q.hash, q.state.origin, log)
  /\ q.step \in {"expire", "setex", "guard"} =>
       q.origin \in 0..Horizon /\ Proved(q.hash, q.origin, log)
  /\ q.step \in {"idle", "ping"} => q.hash = NoState
  /\ q.step # "done" => q.answer # 200
  /\ q.answer = 200 /\ q.hash # NoState =>
       Proved(q.hash, q.origin, log) /\ (Baseline => q.at - q.origin <= MaxAge)

EntriesProven(table, log) ==
  \A h \in Hash : table[h] # NoState => Proved(h, table[h].origin, log)

GatewayInv ==
  /\ TypeOK
  /\ EntriesProven(entry, proven)
  /\ \A r \in Request : Sound(req[r], proven)

-----------------------------------------------------------------------------
LEMMA SoundGrows ==
  ASSUME NEW q, NEW old, NEW new, old \subseteq new, Sound(q, old)
  PROVE  Sound(q, new)
BY DEF Sound, Proved

(* One request moves on: its own record and the entries it wrote decide.   *)
LEMMA Advance ==
  ASSUME GatewayInv, NEW r \in Request, NEW q \in Requests,
         Become(r, q), Sound(q, proven'), UNCHANGED <<conn, now>>,
         entry' \in [Hash -> Entries \cup {NoState}], EntriesProven(entry', proven'),
         audit' \subseteq Request,
         proven \subseteq proven', proven' \subseteq [hash: Hash, at: 0..Horizon]
  PROVE  GatewayInv'
<1>1. req' = [o \in Request |-> IF o = r THEN q ELSE req[o]]
  BY DEF GatewayInv, TypeOK, Become
<1>2. TypeOK'
  BY <1>1 DEF GatewayInv, TypeOK
<1>3. \A o \in Request : Sound(req'[o], proven')
  BY <1>1, SoundGrows DEF GatewayInv
<1> QED
  BY <1>2, <1>3 DEF GatewayInv

(* The steps that leave Redis and the history alone.                       *)
LEMMA AdvanceOnly ==
  ASSUME GatewayInv, NEW r \in Request, NEW q \in Requests,
         Become(r, q), Sound(q, proven), UNCHANGED <<entry, conn, now, proven>>,
         audit' \subseteq Request
  PROVE  GatewayInv'
<1>1. /\ entry' \in [Hash -> Entries \cup {NoState}]
      /\ EntriesProven(entry', proven')
      /\ proven \subseteq proven' /\ proven' \subseteq [hash: Hash, at: 0..Horizon]
  BY DEF GatewayInv, TypeOK
<1> QED
  BY <1>1, Advance

(* What Goto, Got and Answer make of a request.                            *)
LEMMA Went ==
  ASSUME GatewayInv, NEW r \in Request, NEW step \in Steps, Goto(r, step)
  PROVE  \E q \in Requests :
           /\ Become(r, q) /\ q.step = step
           /\ q.hash = req[r].hash /\ q.proof = req[r].proof /\ q.state = req[r].state
           /\ q.origin = req[r].origin /\ q.answer = req[r].answer /\ q.at = req[r].at
<1> DEFINE q == [req[r] EXCEPT !.step = step]
<1>1. req[r] \in Requests
  BY DEF GatewayInv, TypeOK
<1>2. /\ q \in Requests /\ q.step = step
      /\ q.hash = req[r].hash /\ q.proof = req[r].proof /\ q.state = req[r].state
      /\ q.origin = req[r].origin /\ q.answer = req[r].answer /\ q.at = req[r].at
  BY <1>1 DEF Requests
<1>3. Become(r, q)
  BY DEF Goto
<1> QED
  BY <1>2, <1>3

LEMMA WasGot ==
  ASSUME GatewayInv, NEW r \in Request, NEW state \in Entries \cup {NoState},
         Got(r, state)
  PROVE  \E q \in Requests :
           /\ Become(r, q) /\ q.step = "got" /\ q.state = state
           /\ q.hash = req[r].hash /\ q.proof = req[r].proof
           /\ q.origin = req[r].origin /\ q.answer = req[r].answer /\ q.at = req[r].at
<1> DEFINE q == [req[r] EXCEPT !.step = "got", !.state = state]
<1>1. req[r] \in Requests
  BY DEF GatewayInv, TypeOK
<1>2. /\ q \in Requests /\ q.step = "got" /\ q.state = state
      /\ q.hash = req[r].hash /\ q.proof = req[r].proof
      /\ q.origin = req[r].origin /\ q.answer = req[r].answer /\ q.at = req[r].at
  BY <1>1 DEF Requests, Steps
<1>3. Become(r, q)
  BY DEF Got
<1> QED
  BY <1>2, <1>3

LEMMA Answering ==
  ASSUME GatewayInv, NEW r \in Request, NEW status \in Answers, Answer(r, status),
         status = 200 => req[r].hash = NoState,
         UNCHANGED <<entry, conn, now, proven>>, audit' \subseteq Request
  PROVE  GatewayInv'
<1> DEFINE q == [req[r] EXCEPT !.step = "done", !.answer = status, !.at = now,
                               !.state = NoState, !.proof = NoState]
<1>1. req[r] \in Requests /\ now \in Instants
  BY DEF GatewayInv, TypeOK, Instants
<1>2. /\ q \in Requests /\ q.step = "done" /\ q.hash = req[r].hash /\ q.answer = status
  BY <1>1 DEF Requests, Steps
<1>3. Become(r, q)
  BY DEF Answer
<1> HIDE DEF q
<1>4. Sound(q, proven)
  BY <1>2 DEF Sound
<1> QED
  BY <1>2, <1>3, <1>4, AdvanceOnly

-----------------------------------------------------------------------------
LEMMA InitInv == Init => GatewayInv
<1> SUFFICES ASSUME Init PROVE GatewayInv
  OBVIOUS
<1>1. NewRequest \in Requests
  BY DEF NewRequest, Requests, Steps, Answers, NoAnswer, NoOrigin, Instants
<1>2. Sound(NewRequest, proven)
  BY DEF NewRequest, Sound, NoAnswer
<1>3. now \in 0..Horizon /\ conn \in {"closed", "connecting", "ready"}
  BY GatewayAssumption DEF Init
<1>4. TypeOK
  BY <1>1, <1>3 DEF Init, TypeOK
<1> QED
  BY <1>2, <1>4 DEF Init, GatewayInv, EntriesProven

LEMMA ArriveInv ==
  ASSUME GatewayInv, NEW r \in Request, Arrive(r) \/ ArriveProbe(r)
  PROVE  GatewayInv'
<1>a. /\ UNCHANGED <<entry, conn, now, proven>>
      /\ audit' = audit
      /\ req[r].step = "idle"
  BY DEF Arrive, ArriveProbe
<1>b. Sound(req[r], proven) /\ audit \subseteq Request /\ now \in Instants
  BY DEF GatewayInv, TypeOK, Instants
<1>c. req[r].hash = NoState
  BY <1>a, <1>b DEF Sound
<1>1. /\ UNCHANGED <<entry, conn, now, proven>>
      /\ audit' \subseteq Request
      /\ req[r].step = "idle" /\ Sound(req[r], proven) /\ req[r].hash = NoState
      /\ now \in Instants
  BY <1>a, <1>b, <1>c
<1>2. CASE \E status \in {400, 401, 503} : Answer(r, status)
  BY <1>1, <1>2, Answering DEF Answers
<1>3. CASE Goto(r, "ping")
  <2>1. PICK q \in Requests :
          /\ Become(r, q) /\ q.step = "ping"
          /\ q.hash = req[r].hash /\ q.proof = req[r].proof /\ q.state = req[r].state
          /\ q.origin = req[r].origin /\ q.answer = req[r].answer /\ q.at = req[r].at
    BY <1>3, Went DEF Steps
  <2>2. Sound(q, proven)
    BY <1>1, <2>1 DEF Sound
  <2> QED
    BY <1>1, <2>1, <2>2, AdvanceOnly
<1>4. CASE \E h \in Hash, p \in Proofs :
             Become(r, [NewRequest EXCEPT !.step = "get", !.hash = h, !.proof = p])
  <2>0. PICK h \in Hash, p \in Proofs :
          Become(r, [NewRequest EXCEPT !.step = "get", !.hash = h, !.proof = p])
    BY <1>4
  <2> DEFINE q == [NewRequest EXCEPT !.step = "get", !.hash = h, !.proof = p]
  <2>1. /\ q \in Requests /\ q.step = "get" /\ q.hash = h /\ q.proof = p
        /\ q.answer = NoAnswer
    <3>1. NewRequest \in Requests /\ NewRequest.answer = NoAnswer /\ "get" \in Steps
      BY <1>1 DEF NewRequest, Requests, Steps, Answers, NoAnswer, NoOrigin, Instants
    <3> QED
      BY ZenonT(60), <3>1 DEF Requests
  <2>2. Become(r, q)
    BY <2>0
  <2> HIDE DEF q
  <2>3. Sound(q, proven)
    BY <2>1 DEF Sound, NoAnswer
  <2> QED
    BY <1>1, <2>1, <2>2, <2>3, AdvanceOnly
<1>5. CASE Arrive(r)
  <2>1. \/ \E h \in Hash, p \in Proofs :
             Become(r, [NewRequest EXCEPT !.step = "get", !.hash = h, !.proof = p])
        \/ \E status \in {400, 401} : Answer(r, status)
    BY <1>5 DEF Arrive
  <2>2. CASE \E status \in {400, 401} : Answer(r, status)
    BY <1>2, <2>2
  <2> QED
    BY <2>1, <2>2, <1>4, Zenon
<1>6. CASE ArriveProbe(r)
  BY <1>2, <1>3, <1>6 DEF ArriveProbe
<1> QED
  BY <1>5, <1>6

LEMMA GetInv ==
  ASSUME GatewayInv, NEW r \in Request, RedisGet(r)
  PROVE  GatewayInv'
<1>1. /\ UNCHANGED <<entry, conn, now, proven>>
      /\ audit' = audit /\ audit \subseteq Request
      /\ req[r].step = "get" /\ Sound(req[r], proven) /\ req[r].hash \in Hash
      /\ EntriesProven(entry, proven)
      /\ entry[req[r].hash] \in Entries \cup {NoState}
  BY DEF RedisGet, GatewayInv, TypeOK, Sound
<1>2. PICK q \in Requests :
        /\ Become(r, q) /\ q.step = "got" /\ q.state = entry[req[r].hash]
        /\ q.hash = req[r].hash /\ q.proof = req[r].proof
        /\ q.origin = req[r].origin /\ q.answer = req[r].answer /\ q.at = req[r].at
  BY <1>1, WasGot DEF RedisGet
<1>3. Sound(q, proven)
  BY <1>1, <1>2 DEF Sound, EntriesProven
<1> QED
  BY <1>1, <1>2, <1>3, AdvanceOnly

(* EXPIRE, and a command that ends in null: the request goes on to the     *)
(* guard with the origin it has.                                           *)
LEMMA ToGuard ==
  ASSUME GatewayInv, NEW r \in Request, req[r].step \in {"expire", "setex"},
         Goto(r, "guard")
  PROVE  \E q \in Requests : Become(r, q) /\ Sound(q, proven)
<1>1. PICK q \in Requests :
        /\ Become(r, q) /\ q.step = "guard"
        /\ q.hash = req[r].hash /\ q.proof = req[r].proof /\ q.state = req[r].state
        /\ q.origin = req[r].origin /\ q.answer = req[r].answer /\ q.at = req[r].at
  BY Went DEF Steps
<1>2. Sound(req[r], proven)
  BY DEF GatewayInv
<1>3. Sound(q, proven)
  BY <1>1, <1>2 DEF Sound
<1> QED
  BY <1>1, <1>3

LEMMA ExpireInv ==
  ASSUME GatewayInv, NEW r \in Request, RedisExpire(r)
  PROVE  GatewayInv'
<1> DEFINE h == req[r].hash
<1>1. /\ UNCHANGED <<conn, now, proven>>
      /\ audit' = audit /\ audit \subseteq Request
      /\ req[r].step = "expire" /\ h \in Hash
      /\ EntriesProven(entry, proven)
      /\ entry \in [Hash -> Entries \cup {NoState}]
      /\ proven \subseteq [hash: Hash, at: 0..Horizon]
  BY DEF RedisExpire, GatewayInv, TypeOK, Sound
<1>2. PICK q \in Requests : Become(r, q) /\ Sound(q, proven)
  BY <1>1, ToGuard DEF RedisExpire
<1>3. CASE entry[h] = NoState
  BY <1>1, <1>2, <1>3, AdvanceOnly DEF RedisExpire
<1>4. CASE entry[h] # NoState
  <2> DEFINE e == [entry[h] EXCEPT !.left = StateTTL]
  <2>1. e \in Entries /\ e.origin = entry[h].origin
    BY <1>1, <1>4, GatewayAssumption DEF Entries
  <2>2. entry' = [entry EXCEPT ![h] = e]
    BY <1>4 DEF RedisExpire
  <2> HIDE DEF e
  <2>3. /\ entry' \in [Hash -> Entries \cup {NoState}]
        /\ \A x \in Hash : entry'[x] = IF x = h THEN e ELSE entry[x]
    BY <1>1, <2>1, <2>2
  <2>4. EntriesProven(entry', proven)
    BY <1>1, <1>4, <2>1, <2>3 DEF EntriesProven
  <2> QED
    BY <1>1, <1>2, <2>3, <2>4, Advance
<1> QED
  BY <1>3, <1>4

LEMMA SetExInv ==
  ASSUME GatewayInv, NEW r \in Request, RedisSetEx(r)
  PROVE  GatewayInv'
<1> DEFINE h == req[r].hash
           e == [origin |-> req[r].origin, left |-> StateTTL]
<1>1. /\ UNCHANGED <<conn, now, proven>>
      /\ audit' = audit /\ audit \subseteq Request
      /\ req[r].step = "setex" /\ h \in Hash
      /\ req[r].origin \in 0..Horizon /\ Proved(h, req[r].origin, proven)
      /\ EntriesProven(entry, proven)
      /\ entry \in [Hash -> Entries \cup {NoState}]
      /\ proven \subseteq [hash: Hash, at: 0..Horizon]
  BY DEF RedisSetEx, GatewayInv, TypeOK, Sound
<1>2. PICK q \in Requests : Become(r, q) /\ Sound(q, proven)
  BY <1>1, ToGuard DEF RedisSetEx
<1>3. e \in Entries /\ e.origin = req[r].origin
  BY <1>1, GatewayAssumption DEF Entries
<1>4. entry' = [entry EXCEPT ![h] = e]
  BY DEF RedisSetEx
<1> HIDE DEF e
<1>5. /\ entry' \in [Hash -> Entries \cup {NoState}]
      /\ \A x \in Hash : entry'[x] = IF x = h THEN e ELSE entry[x]
  BY <1>1, <1>3, <1>4
<1>6. EntriesProven(entry', proven)
  BY <1>1, <1>3, <1>5 DEF EntriesProven
<1> QED
  BY <1>1, <1>2, <1>5, <1>6, Advance

LEMMA PingInv ==
  ASSUME GatewayInv, NEW r \in Request, RedisPing(r)
  PROVE  GatewayInv'
<1>1. /\ req[r].step = "ping" /\ Sound(req[r], proven)
      /\ UNCHANGED <<entry, conn, now, proven>>
      /\ audit' \subseteq Request
  BY DEF RedisPing, GatewayInv, TypeOK
<1>2. req[r].hash = NoState
  BY <1>1 DEF Sound
<1> QED
  BY <1>1, <1>2, Answering DEF RedisPing, Answers

LEMMA UnavailableInv ==
  ASSUME GatewayInv, NEW r \in Request, Unavailable(r)
  PROVE  GatewayInv'
<1>1. /\ UNCHANGED <<entry, conn, now, proven>>
      /\ audit' \subseteq Request
      /\ Sound(req[r], proven)
  BY DEF Unavailable, GatewayInv, TypeOK
<1>2. CASE req[r].step = "get" /\ Got(r, NoState)
  <2>1. PICK q \in Requests :
          /\ Become(r, q) /\ q.step = "got" /\ q.state = NoState
          /\ q.hash = req[r].hash /\ q.proof = req[r].proof
          /\ q.origin = req[r].origin /\ q.answer = req[r].answer /\ q.at = req[r].at
    BY <1>2, WasGot
  <2>2. Sound(q, proven)
    BY <1>1, <1>2, <2>1 DEF Sound
  <2> QED
    BY <1>1, <2>1, <2>2, AdvanceOnly
<1>3. CASE req[r].step = "setex" /\ Goto(r, "guard")
  <2>1. PICK q \in Requests : Become(r, q) /\ Sound(q, proven)
    BY <1>3, ToGuard
  <2> QED
    BY <1>1, <2>1, AdvanceOnly
<1> QED
  BY <1>2, <1>3 DEF Unavailable

LEMMA ResumeInv ==
  ASSUME GatewayInv, NEW r \in Request, Resume(r)
  PROVE  GatewayInv'
<1>1. /\ UNCHANGED <<entry, conn, now>>
      /\ audit' \subseteq Request
      /\ req[r].step = "got" /\ req[r] \in Requests /\ Sound(req[r], proven)
      /\ req[r].hash \in Hash /\ now \in 0..Horizon
      /\ EntriesProven(entry, proven)
      /\ entry \in [Hash -> Entries \cup {NoState}]
      /\ proven \subseteq [hash: Hash, at: 0..Horizon]
  BY DEF Resume, GatewayInv, TypeOK, Sound
<1>2. CASE Answer(r, 403) /\ UNCHANGED proven
  BY <1>1, <1>2, Answering DEF Answers
<1>3. CASE /\ req[r].state # NoState
           /\ Become(r, [req[r] EXCEPT !.step = "expire", !.origin = req[r].state.origin])
           /\ UNCHANGED proven
  <2> DEFINE t == req[r].state.origin
             q == [req[r] EXCEPT !.step = "expire", !.origin = t]
  <2>1. t \in 0..Horizon /\ Proved(req[r].hash, t, proven)
    BY <1>1, <1>3 DEF Sound, Requests, Entries
  <2>2. /\ q \in Requests /\ q.step = "expire" /\ q.origin = t
        /\ q.hash = req[r].hash /\ q.answer = req[r].answer
    BY <1>1, <2>1 DEF Requests, Steps, Instants
  <2>3. Become(r, q)
    BY <1>3
  <2> HIDE DEF q
  <2>4. Sound(q, proven)
    BY <1>1, <2>1, <2>2 DEF Sound
  <2> QED
    BY <1>1, <1>3, <2>2, <2>3, <2>4, AdvanceOnly
<1>4. CASE /\ VerifyCryptographicProof(req[r].proof, req[r].hash, now)
           /\ Become(r, [req[r] EXCEPT !.step = "setex", !.origin = now])
           /\ proven' = proven \cup {[hash |-> req[r].proof.hash, at |-> now]}
  <2> DEFINE q == [req[r] EXCEPT !.step = "setex", !.origin = now]
  <2>1. req[r].proof.hash = req[r].hash
    BY <1>4 DEF VerifyCryptographicProof
  <2>2. /\ q \in Requests /\ q.step = "setex" /\ q.origin = now
        /\ q.hash = req[r].hash /\ q.answer = req[r].answer
    BY <1>1 DEF Requests, Steps, Instants
  <2>3. Become(r, q)
    BY <1>4
  <2> HIDE DEF q
  <2>4. /\ proven \subseteq proven' /\ proven' \subseteq [hash: Hash, at: 0..Horizon]
        /\ Proved(req[r].hash, now, proven')
    BY <1>1, <1>4, <2>1 DEF Proved
  <2>5. Sound(q, proven')
    BY <1>1, <2>2, <2>4 DEF Sound
  <2>6. EntriesProven(entry', proven')
    BY <1>1, <2>4 DEF EntriesProven, Proved
  <2> QED
    BY <1>1, <2>2, <2>3, <2>4, <2>5, <2>6, Advance
<1> QED
  BY <1>2, <1>3, <1>4 DEF Resume

LEMMA GuardInv ==
  ASSUME GatewayInv, NEW r \in Request, GovernanceGuard(r)
  PROVE  GatewayInv'
<1> DEFINE challenge == MustChallenge(req[r].origin, now)
           status == IF challenge THEN Challenged ELSE 200
           q == [req[r] EXCEPT !.step = "done", !.at = now, !.state = NoState,
                               !.answer = status]
<1>1. /\ UNCHANGED <<entry, conn, now, proven>>
      /\ req[r].step = "guard" /\ req[r] \in Requests /\ Sound(req[r], proven)
      /\ now \in 0..Horizon /\ now \in Instants /\ audit \subseteq Request
  BY DEF GovernanceGuard, GatewayInv, TypeOK, Instants
<1>2. audit' \subseteq Request
  BY <1>1 DEF GovernanceGuard
<1>3. status \in Answers
  BY DEF Answers
<1>4. Become(r, q)
  BY DEF GovernanceGuard
<1>5. /\ status = 200 => (Baseline => ~(now - req[r].origin > MaxAge))
  BY DEF MustChallenge, Challenged
<1> HIDE DEF status
<1>6. /\ q \in Requests /\ q.step = "done" /\ q.at = now /\ q.answer = status
      /\ q.hash = req[r].hash /\ q.origin = req[r].origin
  BY <1>1, <1>3 DEF Requests, Steps
<1>7. /\ req[r].origin \in 0..Horizon /\ Proved(req[r].hash, req[r].origin, proven)
  BY <1>1 DEF Sound
<1>8. status = 200 => (Baseline => now - req[r].origin <= MaxAge)
  BY <1>1, <1>5, <1>7, GatewayAssumption
<1> HIDE DEF q
<1>9. Sound(q, proven)
  BY <1>6, <1>7, <1>8 DEF Sound
<1> QED
  BY <1>1, <1>2, <1>4, <1>6, <1>9, AdvanceOnly

LEMMA DisconnectInv ==
  ASSUME GatewayInv, Disconnect
  PROVE  GatewayInv'
<1>1. UNCHANGED <<entry, now, audit, proven>> /\ conn' = "connecting"
  BY DEF Disconnect
<1>2. ASSUME NEW r \in Request
      PROVE  Rejected(req[r]) \in Requests /\ Sound(Rejected(req[r]), proven)
  <2> DEFINE old == req[r]
  <2>1. old \in Requests /\ Sound(old, proven) /\ now \in Instants
    BY DEF GatewayInv, TypeOK, Instants
  <2>2. CASE old.step = "get"
    <3> DEFINE q == [old EXCEPT !.step = "got", !.state = NoState]
    <3>1. /\ q \in Requests /\ q.step = "got" /\ q.state = NoState
          /\ q.hash = old.hash /\ q.proof = old.proof /\ q.answer = old.answer
      BY <2>1 DEF Requests, Steps
    <3>2. Rejected(old) = q
      BY <2>2 DEF Rejected
    <3> HIDE DEF q
    <3> QED
      BY <2>1, <2>2, <3>1, <3>2 DEF Sound
  <2>3. CASE old.step \in {"expire", "setex"}
    <3> DEFINE q == [old EXCEPT !.step = "guard"]
    <3>1. /\ q \in Requests /\ q.step = "guard" /\ q.origin = old.origin
          /\ q.hash = old.hash /\ q.answer = old.answer
      BY <2>1 DEF Requests, Steps
    <3>2. Rejected(old) = q
      BY <2>3 DEF Rejected
    <3> HIDE DEF q
    <3> QED
      BY <2>1, <2>3, <3>1, <3>2 DEF Sound
  <2>4. CASE old.step = "ping"
    <3> DEFINE status == 503
               q == [old EXCEPT !.step = "done", !.answer = status, !.at = now]
    <3>0. status \in Answers /\ status # 200
      BY DEF Answers
    <3>2. Rejected(old) = q
      BY <2>4 DEF Rejected
    <3> HIDE DEF status
    <3>1. q \in Requests /\ q.step = "done" /\ q.answer = status
      BY <2>1, <3>0 DEF Requests, Steps
    <3> HIDE DEF q
    <3> QED
      BY <3>0, <3>1, <3>2 DEF Sound
  <2>5. CASE old.step \notin {"get", "expire", "setex", "ping"}
    BY <2>1, <2>5 DEF Rejected
  <2> QED
    BY <2>2, <2>3, <2>4, <2>5
<1>3. TypeOK'
  BY <1>1, <1>2 DEF GatewayInv, TypeOK, Disconnect
<1>4. \A r \in Request : Sound(req'[r], proven')
  BY <1>1, <1>2 DEF Disconnect
<1> QED
  BY <1>1, <1>3, <1>4 DEF GatewayInv

LEMMA WorldInv ==
  ASSUME GatewayInv, Reconnect \/ Tick \/ UNCHANGED vars
  PROVE  GatewayInv'
<1>1. UNCHANGED <<req, audit, proven>>
  BY DEF Reconnect, Tick, vars
<1>2. CASE UNCHANGED <<entry, now>>
  BY <1>1, <1>2 DEF Reconnect, Tick, vars, GatewayInv, TypeOK
<1>3. CASE Tick
  <2>1. ASSUME NEW e \in Entries \cup {NoState}
        PROVE  /\ Aged(e) \in Entries \cup {NoState}
               /\ Aged(e) # NoState => e # NoState /\ Aged(e).origin = e.origin
    <3>1. CASE e = NoState \/ e.left = 1
      BY <3>1 DEF Aged
    <3>2. CASE e # NoState /\ e.left # 1
      BY <3>2, GatewayAssumption DEF Aged, Entries
    <3> QED
      BY <3>1, <3>2
  <2>2. now' \in 0..Horizon
    BY <1>3, GatewayAssumption DEF Tick, GatewayInv, TypeOK
  <2>3. /\ entry \in [Hash -> Entries \cup {NoState}]
        /\ entry' = [h \in Hash |-> Aged(entry[h])]
        /\ UNCHANGED conn
    BY <1>3 DEF Tick, GatewayInv, TypeOK
  <2>4. TypeOK'
    BY <1>1, <2>1, <2>2, <2>3 DEF GatewayInv, TypeOK
  <2>5. EntriesProven(entry', proven')
    BY <1>1, <2>1, <2>3 DEF GatewayInv, EntriesProven
  <2> QED
    BY <1>1, <2>4, <2>5 DEF GatewayInv
<1> QED
  BY <1>2, <1>3 DEF Reconnect, vars

LEMMA NextInv ==
  ASSUME GatewayInv, [Next]_vars
  PROVE  GatewayInv'
BY ArriveInv, GetInv, ExpireInv, SetExInv, PingInv, UnavailableInv, ResumeInv, GuardInv,
   DisconnectInv, WorldInv
   DEF Next, Handler, Redis

-----------------------------------------------------------------------------
(* GatewayInv is inductive.                                                *)
THEOREM GatewayInvariance == Spec => []GatewayInv
<1>1. GatewayInv /\ [Next]_vars => GatewayInv'
  BY NextInv
<1> QED
  BY InitInv, <1>1, PTL DEF Spec

(* Type correctness of the entries, the client, the requests and the trail *)
(* in every state of the gateway.                                          *)
THEOREM GatewayTypes == Spec => []TypeOK
<1>1. GatewayInv => TypeOK
  BY DEF GatewayInv
<1> QED
  BY GatewayInvariance, <1>1, PTL

(* sessionMiddleware.ts: a request that reaches the guard, or was served,  *)
(* has a hash for which a proof was accepted when its session began.       *)
THEOREM AdmissionIsProven == Spec => []AdmittedWasProven
<1>1. GatewayInv => AdmittedWasProven
  BY DEF GatewayInv, Sound, Proved, AdmittedWasProven
<1> QED
  BY GatewayInvariance, <1>1, PTL

(* gatewayGuard.ts with the baseline rules: nobody is served on a proof    *)
(* older than MaxAge.                                                      *)
THEOREM AgeIsEnforced == Spec => []ServedWithinMaxAge
<1>1. GatewayInv => ServedWithinMaxAge
  <2> SUFFICES ASSUME GatewayInv, Baseline, NEW r \in Request,
                      req[r].answer = 200, req[r].hash # NoState
               PROVE  \E p \in proven : p.hash = req[r].hash /\ req[r].at - p.at <= MaxAge
    BY DEF ServedWithinMaxAge
  <2>1. Proved(req[r].hash, req[r].origin, proven) /\ req[r].at - req[r].origin <= MaxAge
    BY DEF GatewayInv, Sound
  <2> QED
    BY <2>1 DEF Proved
<1> QED
  BY GatewayInvariance, <1>1, PTL
-----------------------------------------------------------------------------
(* The safety half of EveryRequestAnswered: nobody waits for a client that *)
(* will not answer, and every step of a request is one towards its answer. *)

(* A client that was never connected has answered nobody, so nobody waits  *)
(* for a command that only a connected client executes.                    *)
ClosedAwaitsNobody ==
  conn = "closed" =>
    \A r \in Request : req[r].step \notin {"expire", "ping"} /\ req[r].state = NoState

LEMMA RecordSteps ==
  ASSUME GatewayInv, NEW r \in Request, NEW q, Become(r, q)
  PROVE  req'[r] = q /\ \A o \in Request \ {r} : req'[o] = req[o]
BY DEF Become, GatewayInv, TypeOK

LEMMA NobodyAwaits ==
  ASSUME GatewayInv, ClosedAwaitsNobody, [Next]_vars
  PROVE  ClosedAwaitsNobody'
<1> SUFFICES ASSUME conn' = "closed"
             PROVE  \A r \in Request : req'[r].step \notin {"expire", "ping"}
                                       /\ req'[r].state = NoState
  BY DEF ClosedAwaitsNobody
<1>1. conn = "closed" /\ ~Disconnect /\ ~Reconnect
  BY DEF Next, vars, Arrive, ArriveProbe, Handler, Redis, Resume, GovernanceGuard, Unavailable,
         RedisGet, RedisExpire, RedisSetEx, RedisPing, Disconnect, Reconnect, Tick
<1>2. \A r \in Request : req[r].step \notin {"expire", "ping"} /\ req[r].state = NoState
  BY <1>1 DEF ClosedAwaitsNobody
<1>3. ASSUME NEW r \in Request, NEW q, Become(r, q), q.step \notin {"expire", "ping"},
             q.state = NoState
      PROVE  \A o \in Request : req'[o].step \notin {"expire", "ping"} /\ req'[o].state = NoState
  BY <1>2, <1>3, RecordSteps
<1>4. ASSUME NEW r \in Request, NEW step, step \notin {"expire", "ping"}, Goto(r, step)
      PROVE  \A o \in Request : req'[o].step \notin {"expire", "ping"} /\ req'[o].state = NoState
  <2>1. req[r] \in Requests /\ req[r].state = NoState
    BY <1>2 DEF GatewayInv, TypeOK
  <2> PICK q : q = [req[r] EXCEPT !.step = step]
    OBVIOUS
  <2>2. q.step = step /\ q.state = NoState
    BY <2>1 DEF Requests
  <2>3. Become(r, q)
    BY <1>4 DEF Goto
  <2> QED
    BY <1>3, <1>4, <2>2, <2>3
<1>5. ASSUME NEW r \in Request, NEW status, Answer(r, status)
      PROVE  \A o \in Request : req'[o].step \notin {"expire", "ping"} /\ req'[o].state = NoState
  <2>1. req[r] \in Requests
    BY DEF GatewayInv, TypeOK
  <2> PICK q : q = [req[r] EXCEPT !.step = "done", !.answer = status, !.at = now,
                                  !.state = NoState, !.proof = NoState]
    OBVIOUS
  <2>2. q.step = "done" /\ q.state = NoState
    BY <2>1 DEF Requests
  <2>3. Become(r, q)
    BY <1>5 DEF Answer
  <2> QED
    BY <1>3, <2>2, <2>3
<1>6. ASSUME NEW r \in Request, Arrive(r) \/ ArriveProbe(r)
      PROVE  \A o \in Request : req'[o].step \notin {"expire", "ping"} /\ req'[o].state = NoState
  <2>1. CASE \E h \in Hash, p \in Proofs :
               Become(r, [NewRequest EXCEPT !.step = "get", !.hash = h, !.proof = p])
    <3>1. PICK h \in Hash, p \in Proofs :
                 Become(r, [NewRequest EXCEPT !.step = "get", !.hash = h, !.proof = p])
      BY <2>1
    <3> QED
      BY <1>3, <3>1 DEF NewRequest
  <2>2. CASE \E status : Answer(r, status)
    BY <1>5, <2>2
  <2>3. CASE Arrive(r)
    BY <2>1, <2>2, <2>3 DEF Arrive
  <2>4. CASE ArriveProbe(r)
    BY <1>1, <2>2, <2>4 DEF ArriveProbe, IsOpen
  <2> QED
    BY <1>6, <2>3, <2>4
<1>7. ASSUME NEW r \in Request, Resume(r)
      PROVE  \A o \in Request : req'[o].step \notin {"expire", "ping"} /\ req'[o].state = NoState
  <2>1. CASE Become(r, [req[r] EXCEPT !.step = "setex", !.origin = now])
    <3>1. req[r] \in Requests /\ req[r].state = NoState
      BY <1>2 DEF GatewayInv, TypeOK
    <3> PICK q : q = [req[r] EXCEPT !.step = "setex", !.origin = now]
      OBVIOUS
    <3>2. q.step = "setex" /\ q.state = NoState
      BY <3>1 DEF Requests
    <3> QED
      BY <1>3, <2>1, <3>2
  <2> QED
    BY <1>2, <1>5, <1>7, <2>1 DEF Resume
<1>8. ASSUME NEW r \in Request, GovernanceGuard(r)
      PROVE  \A o \in Request : req'[o].step \notin {"expire", "ping"} /\ req'[o].state = NoState
  <2> DEFINE status == IF MustChallenge(req[r].origin, now) THEN Challenged ELSE 200
  <2>1. req[r] \in Requests
    BY DEF GatewayInv, TypeOK
  <2>2. Become(r, [req[r] EXCEPT !.step = "done", !.at = now, !.state = NoState,
                                 !.answer = status])
    BY <1>8 DEF GovernanceGuard
  <2> HIDE DEF status
  <2> PICK q : q = [req[r] EXCEPT !.step = "done", !.at = now, !.state = NoState,
                                  !.answer = status]
    OBVIOUS
  <2>3. q.step = "done" /\ q.state = NoState
    BY <2>1 DEF Requests
  <2> QED
    BY <1>3, <2>2, <2>3
<1>9. ASSUME NEW r \in Request, Unavailable(r)
      PROVE  \A o \in Request : req'[o].step \notin {"expire", "ping"} /\ req'[o].state = NoState
  <2>1. CASE Got(r, NoState)
    <3>1. req[r] \in Requests
      BY DEF GatewayInv, TypeOK
    <3> PICK q : q = [req[r] EXCEPT !.step = "got", !.state = NoState]
      OBVIOUS
    <3>2. q.step = "got" /\ q.state = NoState
      BY <3>1 DEF Requests
    <3> QED
      BY <1>3, <2>1, <3>2 DEF Got
  <2>2. CASE Goto(r, "guard")
    BY <1>4, <2>2
  <2> QED
    BY <1>9, <2>1, <2>2 DEF Unavailable
<1>10. ASSUME Tick \/ UNCHANGED vars
       PROVE  \A o \in Request : req'[o].step \notin {"expire", "ping"} /\ req'[o].state = NoState
  BY <1>2, <1>10 DEF Tick, vars
<1>11. \A r \in Request : ~Redis(r)
  BY <1>1 DEF Redis, RedisGet, RedisExpire, RedisSetEx, RedisPing
<1> QED
  BY <1>1, <1>6, <1>7, <1>8, <1>9, <1>10, <1>11 DEF Next, Handler

(* redisPool.ts: a request that waits for an EXPIRE or a PING waits for a  *)
(* client that is connected or keeps reconnecting; where the client was    *)
(* never connected, get and setEx answer null at once, and the two other   *)
(* commands are not reached.                                               *)
THEOREM ClosedClientAwaitedByNobody == Spec => []ClosedAwaitsNobody
<1>1. Init => ClosedAwaitsNobody
  <2>1. NewRequest.step = "idle" /\ NewRequest.state = NoState
    BY DEF NewRequest
  <2> QED
    BY <2>1 DEF Init, ClosedAwaitsNobody
<1>2. GatewayInv /\ ClosedAwaitsNobody /\ [Next]_vars => ClosedAwaitsNobody'
  BY NobodyAwaits
<1> QED
  BY GatewayInvariance, <1>1, <1>2, PTL DEF Spec

(* The steps a request has before it.                                      *)
Ahead == [s \in Steps |-> CASE s = "done" -> 0 [] s \in {"guard", "ping"} -> 1
                            [] s \in {"expire", "setex"} -> 2
                            [] s = "got" -> 3 [] s = "get" -> 4 [] s = "idle" -> 5]

LEMMA AheadValues ==
  /\ Ahead["done"] = 0 /\ Ahead["guard"] = 1 /\ Ahead["ping"] = 1 /\ Ahead["expire"] = 2
  /\ Ahead["setex"] = 2 /\ Ahead["got"] = 3 /\ Ahead["get"] = 4 /\ Ahead["idle"] = 5
BY DEF Ahead, Steps

Descends(r) == req'[r] = req[r] \/ Ahead[req'[r].step] < Ahead[req[r].step]

LEMMA BecomeDescends ==
  ASSUME GatewayInv, NEW r \in Request, NEW q, Become(r, q), Ahead[q.step] < Ahead[req[r].step]
  PROVE  \A o \in Request : Descends(o)
BY RecordSteps DEF Descends

LEMMA GotoDescends ==
  ASSUME GatewayInv, NEW r \in Request, NEW s \in Steps, Goto(r, s), Ahead[s] < Ahead[req[r].step]
  PROVE  \A o \in Request : Descends(o)
BY Went, BecomeDescends

LEMMA AnswerDescends ==
  ASSUME GatewayInv, NEW r \in Request, NEW status, Answer(r, status), req[r].step # "done"
  PROVE  \A o \in Request : Descends(o)
<1> PICK q : q = [req[r] EXCEPT !.step = "done", !.answer = status, !.at = now,
                                !.state = NoState, !.proof = NoState]
  OBVIOUS
<1>1. req[r] \in Requests
  BY DEF GatewayInv, TypeOK
<1>2. q.step = "done" /\ req[r].step \in Steps
  BY <1>1 DEF Requests
<1>3. Ahead[q.step] < Ahead[req[r].step]
  BY <1>2, AheadValues DEF Steps
<1>4. Become(r, q)
  BY DEF Answer
<1> QED
  BY <1>3, <1>4, BecomeDescends

LEMMA StepDescends ==
  ASSUME GatewayInv, [Next]_vars
  PROVE  \A o \in Request : Descends(o)
<1>0. \A r \in Request : req[r] \in Requests
  BY DEF GatewayInv, TypeOK
<1>1. ASSUME NEW r \in Request, Arrive(r) \/ ArriveProbe(r)
      PROVE  \A o \in Request : Descends(o)
  <2>1. req[r].step = "idle"
    BY <1>1 DEF Arrive, ArriveProbe
  <2>2. CASE \E h \in Hash, p \in Proofs :
               Become(r, [NewRequest EXCEPT !.step = "get", !.hash = h, !.proof = p])
    <3>1. PICK h \in Hash, p \in Proofs :
                 Become(r, [NewRequest EXCEPT !.step = "get", !.hash = h, !.proof = p])
      BY <2>2
    <3> PICK q : q = [NewRequest EXCEPT !.step = "get", !.hash = h, !.proof = p]
      OBVIOUS
    <3>2. q.step = "get"
      BY DEF NewRequest
    <3>3. Become(r, q) /\ Ahead[q.step] < Ahead[req[r].step]
      BY <2>1, <3>1, <3>2, AheadValues
    <3> QED
      BY <3>3, BecomeDescends
  <2>3. CASE Goto(r, "ping")
    BY <2>1, <2>3, AheadValues, GotoDescends DEF Steps
  <2>4. CASE \E status : Answer(r, status)
    BY <2>1, <2>4, AnswerDescends
  <2> QED
    BY <1>1, <2>2, <2>3, <2>4 DEF Arrive, ArriveProbe
<1>2. ASSUME NEW r \in Request, NEW state, Got(r, state), req[r].step = "get"
      PROVE  \A o \in Request : Descends(o)
  <2> PICK q : q = [req[r] EXCEPT !.step = "got", !.state = state]
    OBVIOUS
  <2>1. q.step = "got" /\ Become(r, q)
    BY <1>0, <1>2 DEF Got, Requests
  <2>2. Ahead[q.step] < Ahead[req[r].step]
    BY <1>2, <2>1, AheadValues
  <2> QED
    BY <2>1, <2>2, BecomeDescends
<1>3. ASSUME NEW r \in Request, Resume(r) PROVE \A o \in Request : Descends(o)
  <2>1. req[r].step = "got" /\ req[r] \in Requests
    BY <1>0, <1>3 DEF Resume
  <2>2. ASSUME NEW s \in {"expire", "setex"}, NEW t,
               Become(r, [req[r] EXCEPT !.step = s, !.origin = t])
        PROVE  \A o \in Request : Descends(o)
    <3> PICK q : q = [req[r] EXCEPT !.step = s, !.origin = t]
      OBVIOUS
    <3>1. q.step = s /\ Become(r, q)
      BY <2>1, <2>2 DEF Requests
    <3>2. Ahead[q.step] < Ahead[req[r].step]
      BY <2>1, <3>1, AheadValues
    <3> QED
      BY <3>1, <3>2, BecomeDescends
  <2> QED
    BY <1>3, <2>1, <2>2, AnswerDescends DEF Resume
<1>4. ASSUME NEW r \in Request, GovernanceGuard(r) PROVE \A o \in Request : Descends(o)
  <2> DEFINE status == IF MustChallenge(req[r].origin, now) THEN Challenged ELSE 200
  <2>1. /\ req[r].step = "guard" /\ req[r] \in Requests
        /\ Become(r, [req[r] EXCEPT !.step = "done", !.at = now, !.state = NoState,
                                    !.answer = status])
    BY <1>0, <1>4 DEF GovernanceGuard
  <2> HIDE DEF status
  <2> PICK q : q = [req[r] EXCEPT !.step = "done", !.at = now, !.state = NoState,
                                  !.answer = status]
    OBVIOUS
  <2>2. q.step = "done" /\ Become(r, q)
    BY <2>1 DEF Requests
  <2>3. Ahead[q.step] < Ahead[req[r].step]
    BY <2>1, <2>2, AheadValues
  <2> QED
    BY <2>2, <2>3, BecomeDescends
<1>5. ASSUME NEW r \in Request, Unavailable(r) \/ Redis(r) PROVE \A o \in Request : Descends(o)
  <2>1. CASE req[r].step = "get" /\ \E state : Got(r, state)
    BY <1>2, <2>1
  <2>2. CASE req[r].step \in {"expire", "setex"} /\ Goto(r, "guard")
    BY <2>2, AheadValues, GotoDescends DEF Steps
  <2>3. CASE req[r].step = "ping" /\ Answer(r, 200)
    BY <2>3, AnswerDescends
  <2> QED
    BY <1>5, <2>1, <2>2, <2>3
       DEF Unavailable, Redis, RedisGet, RedisExpire, RedisSetEx, RedisPing
<1>6. CASE Disconnect
  <2> SUFFICES ASSUME NEW r \in Request PROVE Descends(r)
    OBVIOUS
  <2>1. req'[r] = Rejected(req[r]) /\ req[r] \in Requests
    BY <1>0, <1>6 DEF Disconnect
  <2>2. CASE req[r].step = "get"
    <3>1. req'[r].step = "got"
      BY <2>1, <2>2 DEF Rejected, Requests
    <3> QED
      BY <2>2, <3>1, AheadValues DEF Descends
  <2>3. CASE req[r].step \in {"expire", "setex"}
    <3>1. req'[r].step = "guard"
      BY <2>1, <2>3 DEF Rejected, Requests
    <3> QED
      BY <2>3, <3>1, AheadValues DEF Descends
  <2>4. CASE req[r].step = "ping"
    <3>1. req'[r].step = "done"
      BY <2>1, <2>4 DEF Rejected, Requests
    <3> QED
      BY <2>4, <3>1, AheadValues DEF Descends
  <2>5. CASE req[r].step \notin {"get", "expire", "setex", "ping"}
    BY <2>1, <2>5 DEF Rejected, Descends
  <2> QED
    BY <2>2, <2>3, <2>4, <2>5
<1>7. CASE UNCHANGED req
  BY <1>7 DEF Descends
<1> QED
  BY <1>1, <1>3, <1>4, <1>5, <1>6, <1>7 DEF Next, Handler, Reconnect, Tick, vars

(* An answer is given once and stands, and until then every step a request *)
(* takes is one of at most five: a connection that breaks, again and again,*)
(* sends no request back to a command it has left behind.                  *)
THEOREM RequestsDescend == Spec => [][\A r \in Request : Descends(r)]_vars
<1>1. GatewayInv /\ [Next]_vars => [\A r \in Request : Descends(r)]_vars
  BY StepDescends
<1> QED
  BY GatewayInvariance, <1>1, PTL DEF Spec
=============================================================================
