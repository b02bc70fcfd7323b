------------------------ MODULE SessionServerProofs -------------------------
(***************************************************************************)
(* Theorems about SessionServer, for any number of processes, requests,    *)
(* users and tokens and any lifetimes: type correctness first, then the    *)
(* safety of the session layer, which is proved from it.                   *)
(***************************************************************************)
EXTENDS SessionServer, SequenceTheorems, TLAPS

Integer == [form : {"integer"}, seconds : Int]

(* What a waiting request carries, by the command it waits for.            *)
Shape(q) ==
  /\ q.pc \in WaitingPCs \cup {"done"} => q.user \in UserIds
  /\ q.pc \in WaitingPCs \ {"create.set"} => q.token \in Tokens
  /\ q.pc \in {"create.set", "rotate.set", "rotate.expire"} => q.new \in Tokens
  /\ q.pc \in {"create.set", "rotate.set", "rotate.expire", "read.ttl", "read.set"} =>
       q.payload \in Payloads
  /\ q.pc \in {"owner.get", "read.get"} => q.res \in RawValues \cup {Null, Pending, Error}
  /\ q.pc = "read.ttl" =>
       \/ q.res \in {Pending, Error}
       \/ q.res \in Integer /\ q.res.seconds <= SessionTTL
  /\ q.pc = "read.set" => q.ttl \in 1 .. SessionTTL

TypeInv == TypeOK /\ \A r \in Reqs : Shape(req[r])

-----------------------------------------------------------------------------
(* Payloads and stored values.                                             *)

LEMMA SerializeType ==
  ASSUME NEW p \in Payloads
  PROVE  Serialize(p) \in RawValues
BY DEF Payloads, Serialize, RawValues, Documents

LEMMA MigrateType ==
  ASSUME NEW raw \in RawValues
  PROVE  MigrateLegacy(raw) \in Payloads
BY DEF Payloads, MigrateLegacy, RawValues, Documents, Texts, Text, CurrentVersion

LEMMA DeserializeType ==
  ASSUME NEW raw \in RawValues, IsPayload(raw)
  PROVE  Deserialize(raw) \in Payloads
<1>1. raw \in Documents
  BY DEF IsPayload, IsVersioned, RawValues, Documents, Texts, Text
<1>2. /\ raw.v \in Int
      /\ raw.userId \in UserIds \cup {DocText}
      /\ raw.scopes \in SUBSET Scopes
      /\ raw.rotatedFrom \in Tokens \cup {NoParent}
      /\ raw.rotationCount \in Nat
  BY <1>1 DEF IsPayload, IsUnsupported, IsVersioned, Documents
<1> QED
  BY <1>2 DEF Payloads, Deserialize

LEMMA FirstType ==
  ASSUME NEW u \in UserIds
  PROVE  FirstPayload(u, {}) \in Payloads
BY DEF Payloads, FirstPayload, CurrentVersion

LEMMA RotatedType ==
  ASSUME NEW p \in Payloads, NEW t \in Tokens
  PROVE  RotatedPayload(p, t) \in Payloads
BY DEF Payloads, RotatedPayload, CurrentVersion

(* Writing a payload and reading it back gives the payload, for every      *)
(* version this code can read.                                             *)
LEMMA RoundTrip ==
  ASSUME NEW p \in Payloads, p.v \in Int \ {Invalid}
  PROVE  Interpret(Serialize(p)) = p
BY DEF Interpret, IsLegacy, IsVersioned, Serialize, Deserialize, Payloads

-----------------------------------------------------------------------------
(* Requests.                                                               *)

Replied(q, res) == [q EXCEPT !.res = res]
Sent(q, pc)     == [q EXCEPT !.pc = pc, !.res = Pending]

LEMMA ResultUpdate ==
  ASSUME NEW q \in Requests, NEW res \in Results
  PROVE  LET n == Replied(q, res) IN
         /\ n \in Requests /\ n.res = res
         /\ n.pc = q.pc /\ n.proc = q.proc /\ n.op = q.op /\ n.user = q.user
         /\ n.token = q.token /\ n.new = q.new /\ n.payload = q.payload
         /\ n.ttl = q.ttl /\ n.age = q.age /\ n.status = q.status
BY DEF Requests, Replied

LEMMA SendUpdate ==
  ASSUME NEW q \in Requests, NEW pc \in WaitingPCs
  PROVE  LET n == Sent(q, pc) IN
         /\ n \in Requests /\ n.pc = pc /\ n.res = Pending
         /\ n.proc = q.proc /\ n.op = q.op /\ n.user = q.user
         /\ n.token = q.token /\ n.new = q.new /\ n.payload = q.payload
         /\ n.ttl = q.ttl /\ n.age = q.age /\ n.status = q.status
BY DEF Requests, Results, Sent

LEMMA NewRequestType ==
  ASSUME NEW p \in Procs, NEW op \in {"create", "check", "rotate"},
         NEW u \in UserIds, NEW t \in Tokens \cup {Null}
  PROVE  LET n == NewRequest(p, op, u, t) IN
         /\ n \in Requests /\ n.pc = "idle" /\ n.op = op /\ n.user = u /\ n.token = t
         /\ n.new = Null /\ n.status = 0
BY ConfigAssumption DEF Requests, NewRequest, Results

LEMMA DoneType ==
  ASSUME NEW q \in Requests, NEW status \in Nat
  PROVE  LET n == Done(q, status) IN
         /\ n \in Requests /\ n.pc = "done" /\ n.status = status
         /\ n.op = q.op /\ n.user = q.user /\ n.token = q.token /\ n.new = Null
<1> DEFINE base == NewRequest(q.proc, q.op, q.user, q.token)
<1>1. /\ base \in Requests /\ base.op = q.op /\ base.user = q.user
      /\ base.token = q.token /\ base.new = Null
  BY ConfigAssumption DEF Requests, NewRequest, Results
<1> HIDE DEF base
<1>2. LET n == [base EXCEPT !.pc = "done", !.status = status] IN
      /\ n \in Requests /\ n.pc = "done" /\ n.status = status /\ n.op = base.op
      /\ n.user = base.user /\ n.token = base.token /\ n.new = base.new
  BY ZenonT(60), <1>1 DEF Requests
<1> QED
  BY <1>1, <1>2 DEF Done, base

(* What the three ways to move a request leave behind.                     *)
LEMMA AnswerEffect ==
  ASSUME NEW r \in Reqs, NEW q \in Requests, NEW status \in Nat,
         req \in [Reqs -> Requests], Answer(r, q, status)
  PROVE  /\ req' \in [Reqs -> Requests]
         /\ req'[r] = Done(q, status)
         /\ \A s \in Reqs \ {r} : req'[s] = req[s]
         /\ wire' = wire
BY DoneType DEF Answer

LEMMA SendEffect ==
  ASSUME NEW p \in Procs, NEW r \in Reqs, NEW q \in Requests, NEW pc \in WaitingPCs,
         req \in [Reqs -> Requests], wire \in [Procs -> Seq(Reqs)], Send(p, r, q, pc)
  PROVE  /\ req' \in [Reqs -> Requests]
         /\ req'[r] = Sent(q, pc)
         /\ \A s \in Reqs \ {r} : req'[s] = req[s]
         /\ wire' \in [Procs -> Seq(Reqs)]
<1>1. Sent(q, pc) \in Requests
  BY SendUpdate
<1>2. Append(wire[p], r) \in Seq(Reqs)
  BY AppendProperties
<1> QED
  BY <1>1, <1>2 DEF Send, Sent

LEMMA ExecuteEffect ==
  ASSUME NEW p \in Procs, NEW r \in Reqs, NEW pcs, NEW res \in Results,
         req \in [Reqs -> Requests], wire \in [Procs -> Seq(Reqs)],
         replies \in [Procs -> Seq(Reqs)], Execute(p, r, pcs, res)
  PROVE  /\ req[r].pc \in pcs /\ req[r].res = Pending
         /\ req' \in [Reqs -> Requests]
         /\ req'[r] = Replied(req[r], res)
         /\ \A s \in Reqs \ {r} : req'[s] = req[s]
         /\ wire' \in [Procs -> Seq(Reqs)]
         /\ replies' \in [Procs -> Seq(Reqs)]
         /\ cache' = cache /\ throttle' = throttle /\ known' = known
<1>1. Replied(req[r], res) \in Requests
  BY ResultUpdate
<1>2. Append(replies[p], r) \in Seq(Reqs)
  BY AppendProperties
<1>3. Tail(wire[p]) \in Seq(Reqs)
  BY HeadTailProperties DEF Execute
<1> QED
  BY <1>1, <1>2, <1>3 DEF Execute, local, Replied

LEMMA ReceiveEffect ==
  ASSUME NEW p \in Procs, NEW r \in Reqs, NEW pc, replies \in [Procs -> Seq(Reqs)],
         Receive(p, r, pc)
  PROVE  /\ req[r].pc = pc /\ req[r].res \notin {Pending, Error}
         /\ replies' \in [Procs -> Seq(Reqs)]
BY HeadTailProperties DEF Receive

-----------------------------------------------------------------------------
(* Types.                                                                  *)

LEMMA ShapeKept ==
  ASSUME TypeInv, NEW r \in Reqs,
         \A s \in Reqs \ {r} : req'[s] = req[s], Shape(req'[r])
  PROVE  \A s \in Reqs : Shape(req[s])'
BY DEF TypeInv

LEMMA EntryType ==
  ASSUME NEW vals, NEW val \in vals, NEW cap \in Nat, NEW ttl \in 1 .. cap
  PROVE  Entry(val, ttl) \in LiveEntries(vals, cap)
BY DEF Entry, LiveEntries

LEMMA DeadCapType == DeadCap \in Nat
BY TTLAssumption, ConfigAssumption DEF DeadCap

LEMMA ExpireType ==
  ASSUME NEW t \in Tokens, NEW ttl \in 1 .. SessionTTL,
         redis \in [Tokens -> LiveEntries(RawValues, SessionTTL) \cup {Absent}],
         ExpireKey(t, ttl)
  PROVE  redis' \in [Tokens -> LiveEntries(RawValues, SessionTTL) \cup {Absent}]
<1>1. CASE redis[t] = Absent
  BY <1>1 DEF ExpireKey
<1>2. CASE redis[t] # Absent
  <2>1. redis[t].val \in RawValues
    BY <1>2 DEF LiveEntries
  <2>2. Entry(redis[t].val, ttl) \in LiveEntries(RawValues, SessionTTL)
    BY <2>1, EntryType, TTLAssumption
  <2> QED
    BY <1>2, <2>2 DEF ExpireKey
<1> QED
  BY <1>1, <1>2

LEMMA SetCacheType ==
  ASSUME NEW p \in Procs, NEW t \in Tokens, NEW val \in RawValues \cup {NotFound},
         TypeOK, SetCache(p, t, val)
  PROVE  cache' \in [Procs -> [Tokens ->
           LiveEntries(RawValues \cup {NotFound}, CacheTTL) \cup {Absent}]]
<1>1. CacheTTL \in 1 .. CacheTTL
  BY TTLAssumption
<1>2. Entry(val, CacheTTL) \in LiveEntries(RawValues \cup {NotFound}, CacheTTL)
  BY <1>1 DEF Entry, LiveEntries
<1> QED
  BY <1>2 DEF TypeOK, SetCache

(* A request moved by an answer or a command keeps the shape its pc needs. *)
LEMMA AnswerType ==
  ASSUME TypeInv, NEW r \in Reqs, NEW q \in Requests, NEW status \in Nat,
         q.user \in UserIds, Answer(r, q, status)
  PROVE  req' \in [Reqs -> Requests] /\ wire' = wire /\ \A s \in Reqs : Shape(req[s])'
<1>1. /\ req' \in [Reqs -> Requests] /\ wire' = wire /\ req'[r] = Done(q, status)
      /\ \A s \in Reqs \ {r} : req'[s] = req[s]
  BY AnswerEffect DEF TypeInv, TypeOK
<1>2. Shape(req'[r])
  BY <1>1, DoneType DEF Shape, WaitingPCs
<1> QED
  BY <1>1, <1>2, ShapeKept

LEMMA SendType ==
  ASSUME TypeInv, NEW p \in Procs, NEW r \in Reqs, NEW q \in Requests,
         NEW pc \in WaitingPCs, Send(p, r, q, pc),
         Shape(Sent(q, pc))
  PROVE  /\ req' \in [Reqs -> Requests] /\ wire' \in [Procs -> Seq(Reqs)]
         /\ \A s \in Reqs : Shape(req[s])'
<1>0. req \in [Reqs -> Requests] /\ wire \in [Procs -> Seq(Reqs)]
  BY DEF TypeInv, TypeOK
<1>1. /\ req' \in [Reqs -> Requests] /\ wire' \in [Procs -> Seq(Reqs)]
      /\ req'[r] = Sent(q, pc)
      /\ \A s \in Reqs \ {r} : req'[s] = req[s]
  BY <1>0, SendEffect
<1>2. Shape(req'[r])
  BY <1>1
<1> QED
  BY <1>1, <1>2, ShapeKept

LEMMA HandleType ==
  ASSUME TypeInv, NEW p \in Procs, NEW r \in Reqs, NEW q \in Requests,
         q.user \in UserIds, q.token \in Tokens, Handle(p, r, q)
  PROVE  /\ req' \in [Reqs -> Requests] /\ wire' \in [Procs -> Seq(Reqs)]
         /\ \A s \in Reqs : Shape(req[s])'
<1>1. CASE Answer(r, q, 200)
  BY ZenonT(60), <1>1, AnswerType DEF TypeInv, TypeOK
<1>2. CASE Send(p, r, q, "read.get")
  <2>1. "read.get" \in WaitingPCs
    BY DEF WaitingPCs
  <2>2. Shape(Sent(q, "read.get"))
    BY <2>1, SendUpdate DEF Shape, WaitingPCs
  <2> QED
    BY <1>2, <2>1, <2>2, SendType
<1> QED
  BY <1>1, <1>2 DEF Handle

LEMMA AuthoriseType ==
  ASSUME TypeInv, NEW p \in Procs, NEW r \in Reqs, NEW q \in Requests, NEW ownerId,
         q.user \in UserIds, q.token \in Tokens, Authorise(p, r, q, ownerId)
  PROVE  /\ req' \in [Reqs -> Requests] /\ wire' \in [Procs -> Seq(Reqs)]
         /\ \A s \in Reqs : Shape(req[s])'
<1>1. CASE \E status \in Nat : Answer(r, q, status)
  BY <1>1, AnswerType DEF TypeInv, TypeOK
<1>2. CASE Send(p, r, q, "owner.expire")
  <2>1. "owner.expire" \in WaitingPCs
    BY DEF WaitingPCs
  <2>2. Shape(Sent(q, "owner.expire"))
    BY <2>1, SendUpdate DEF Shape, WaitingPCs
  <2> QED
    BY <1>2, <2>1, <2>2, SendType
<1>3. CASE Handle(p, r, q)
  BY <1>3, HandleType
<1> QED
  BY <1>1, <1>2, <1>3 DEF Authorise

LEMMA ExecuteType ==
  ASSUME TypeInv, NEW p \in Procs, NEW r \in Reqs, NEW pcs, NEW res \in Results,
         Execute(p, r, pcs, res), Shape(Replied(req[r], res))
  PROVE  /\ req' \in [Reqs -> Requests] /\ \A s \in Reqs : Shape(req[s])'
         /\ wire' \in [Procs -> Seq(Reqs)] /\ replies' \in [Procs -> Seq(Reqs)]
         /\ UNCHANGED <<cache, throttle, known>>
<1>0. /\ req \in [Reqs -> Requests] /\ wire \in [Procs -> Seq(Reqs)]
      /\ replies \in [Procs -> Seq(Reqs)]
  BY DEF TypeInv, TypeOK
<1>1. /\ req' \in [Reqs -> Requests] /\ req'[r] = Replied(req[r], res)
      /\ \A s \in Reqs \ {r} : req'[s] = req[s]
      /\ wire' \in [Procs -> Seq(Reqs)] /\ replies' \in [Procs -> Seq(Reqs)]
      /\ cache' = cache /\ throttle' = throttle /\ known' = known
  BY <1>0, ExecuteEffect
<1>2. Shape(req'[r])
  BY <1>1
<1> QED
  BY <1>1, <1>2, ShapeKept

LEMMA RedisTypes ==
  ASSUME TypeInv, NEW p \in Procs, NEW r \in Reqs, Redis(p, r)
  PROVE  TypeInv'
<1> DEFINE q == req[r]
<1>0. /\ q \in Requests /\ Shape(q)
      /\ redis \in [Tokens -> LiveEntries(RawValues, SessionTTL) \cup {Absent}]
  BY DEF TypeInv, TypeOK
<1>1. CASE RedisGet(p, r)
  <2> DEFINE key == redis[q.token]
             res == IF key = Absent THEN Null ELSE key.val
  <2>1. Execute(p, r, {"owner.get", "read.get"}, res) /\ UNCHANGED <<redis, history>>
    BY <1>1 DEF RedisGet
  <2>2. q.pc \in {"owner.get", "read.get"}
    BY <2>1 DEF Execute
  <2>3. q.token \in Tokens
    BY <1>0, <2>2 DEF Shape, WaitingPCs
  <2>4. res \in RawValues \cup {Null}
    BY <1>0, <2>3 DEF LiveEntries
  <2>5. res \in Results
    BY <2>4 DEF Results, Replies
  <2>6. Shape(Replied(q, res))
    <3> PICK n : n = Replied(q, res)
      OBVIOUS
    <3>1. /\ n.pc = q.pc /\ n.user = q.user /\ n.token = q.token /\ n.res = res
      BY <1>0, <2>5, ResultUpdate
    <3>2. q.user \in UserIds /\ q.token \in Tokens
      BY <1>0, <2>2, <2>3 DEF Shape, WaitingPCs
    <3> HIDE DEF q, res
    <3>3. Shape(n)
      BY ONLY <2>2, <2>4, <3>1, <3>2 DEF Shape
    <3> QED
      BY <3>3
  <2> HIDE DEF res
  <2>7. /\ req' \in [Reqs -> Requests] /\ \A s \in Reqs : Shape(req[s])'
        /\ wire' \in [Procs -> Seq(Reqs)] /\ replies' \in [Procs -> Seq(Reqs)]
        /\ UNCHANGED <<cache, throttle, known>>
    BY <2>1, <2>5, <2>6, ExecuteType
  <2> QED
    BY <2>1, <2>7 DEF TypeInv, TypeOK, history
<1>2. CASE RedisTtl(p, r)
  <2>1. q.pc = "read.ttl"
    BY <1>2 DEF RedisTtl
  <2>2. PICK left \in IF redis[q.token] = Absent THEN {-2}
                       ELSE {redis[q.token].ttl, redis[q.token].ttl - 1} :
          Execute(p, r, {"read.ttl"}, Seconds(left))
    BY <1>2 DEF RedisTtl
  <2>3. q.token \in Tokens
    BY <1>0, <2>1 DEF Shape, WaitingPCs
  <2>4. left \in Int /\ left <= SessionTTL
    BY <1>0, <2>2, <2>3, TTLAssumption DEF LiveEntries
  <2>5. Seconds(left) \in Results /\ Seconds(left) \in Integer /\ Seconds(left).seconds = left
    BY <2>4 DEF Results, Replies, Seconds, Integer
  <2>6. Shape(Replied(q, Seconds(left)))
    BY <1>0, <2>1, <2>4, <2>5, ResultUpdate DEF Shape
  <2>7. /\ req' \in [Reqs -> Requests] /\ \A s \in Reqs : Shape(req[s])'
        /\ wire' \in [Procs -> Seq(Reqs)] /\ replies' \in [Procs -> Seq(Reqs)]
        /\ UNCHANGED <<cache, throttle, known>>
    BY <2>2, <2>5, <2>6, ExecuteType
  <2> QED
    BY <1>2, <2>7 DEF RedisTtl, TypeInv, TypeOK, history
<1>3. ASSUME NEW res \in {Null, Error}, NEW pcs,
             Execute(p, r, pcs, res), pcs \subseteq WaitingPCs,
             res = Error \/ pcs \cap {"owner.get", "read.get", "read.ttl"} = {}
      PROVE  /\ req' \in [Reqs -> Requests] /\ \A s \in Reqs : Shape(req[s])'
             /\ wire' \in [Procs -> Seq(Reqs)] /\ replies' \in [Procs -> Seq(Reqs)]
             /\ UNCHANGED <<cache, throttle, known>> /\ q.pc \in pcs
  <2>1. q.pc \in pcs /\ q.pc \in WaitingPCs
    BY <1>3 DEF Execute
  <2>2. res \in Results
    BY DEF Results
  <2>3. Shape(Replied(q, res))
    BY <1>0, <1>3, <2>1, <2>2, ResultUpdate DEF Shape
  <2> QED
    BY <1>3, <2>1, <2>2, <2>3, ExecuteType
<1>4. CASE RedisRefresh(p, r)
  <2>1. Execute(p, r, {"owner.expire"}, Null) /\ ExpireKey(q.token, SessionTTL)
        /\ UNCHANGED history
    BY <1>4 DEF RedisRefresh, RefreshTTL
  <2>2. {"owner.expire"} \subseteq WaitingPCs
    BY DEF WaitingPCs
  <2>3. /\ req' \in [Reqs -> Requests] /\ \A s \in Reqs : Shape(req[s])'
        /\ wire' \in [Procs -> Seq(Reqs)] /\ replies' \in [Procs -> Seq(Reqs)]
        /\ UNCHANGED <<cache, throttle, known>> /\ q.pc = "owner.expire"
    BY <1>3, <2>1, <2>2
  <2>4. q.token \in Tokens
    BY <1>0, <2>3 DEF Shape, WaitingPCs
  <2>5. redis' \in [Tokens -> LiveEntries(RawValues, SessionTTL) \cup {Absent}]
    BY <1>0, <2>1, <2>4, ExpireType, TTLAssumption
  <2> QED
    BY <2>1, <2>3, <2>5 DEF TypeInv, TypeOK, history
<1>5. CASE RedisBurn(p, r)
  <2>1. Execute(p, r, {"rotate.expire"}, Null) /\ ExpireKey(q.token, GraceTTL)
        /\ burned' \in {burned, burned \cup {q.token}}
        /\ UNCHANGED <<ledger, rotatedBy, deadFor>>
    BY <1>5 DEF RedisBurn
  <2>2. {"rotate.expire"} \subseteq WaitingPCs
    BY DEF WaitingPCs
  <2>3. /\ req' \in [Reqs -> Requests] /\ \A s \in Reqs : Shape(req[s])'
        /\ wire' \in [Procs -> Seq(Reqs)] /\ replies' \in [Procs -> Seq(Reqs)]
        /\ UNCHANGED <<cache, throttle, known>> /\ q.pc = "rotate.expire"
    BY <1>3, <2>1, <2>2
  <2>4. q.token \in Tokens
    BY <1>0, <2>3 DEF Shape, WaitingPCs
  <2>5. redis' \in [Tokens -> LiveEntries(RawValues, SessionTTL) \cup {Absent}]
    BY <1>0, <2>1, <2>4, ExpireType, TTLAssumption
  <2> QED
    BY <2>1, <2>3, <2>4, <2>5 DEF TypeInv, TypeOK
<1>6. CASE RedisStore(p, r)
  <2>1. Execute(p, r, {"create.set", "rotate.set"}, Null)
        /\ redis'  = [redis EXCEPT ![q.new] = Entry(Serialize(q.payload), SessionTTL)]
        /\ ledger' = [ledger EXCEPT ![q.new] = q.payload]
        /\ UNCHANGED <<burned, rotatedBy, deadFor>>
    BY <1>6 DEF RedisStore
  <2>2. {"create.set", "rotate.set"} \subseteq WaitingPCs
    BY DEF WaitingPCs
  <2>3. /\ req' \in [Reqs -> Requests] /\ \A s \in Reqs : Shape(req[s])'
        /\ wire' \in [Procs -> Seq(Reqs)] /\ replies' \in [Procs -> Seq(Reqs)]
        /\ UNCHANGED <<cache, throttle, known>> /\ q.pc \in {"create.set", "rotate.set"}
    BY <1>3, <2>1, <2>2
  <2>4. q.payload \in Payloads
    BY <1>0, <2>3 DEF Shape
  <2>5. Entry(Serialize(q.payload), SessionTTL) \in LiveEntries(RawValues, SessionTTL)
    BY <2>4, SerializeType, EntryType, TTLAssumption
  <2>6. redis' \in [Tokens -> LiveEntries(RawValues, SessionTTL) \cup {Absent}]
    BY <1>0, <2>1, <2>5
  <2> QED
    BY <2>1, <2>3, <2>4, <2>6 DEF TypeInv, TypeOK
<1>7. CASE RedisMigrate(p, r)
  <2>1. Execute(p, r, {"read.set"}, Null)
        /\ redis' = [redis EXCEPT ![q.token] = Entry(Serialize(q.payload), q.ttl)]
        /\ deadFor' = [deadFor EXCEPT ![q.token] = 0]
        /\ UNCHANGED <<ledger, burned, rotatedBy>>
    BY <1>7 DEF RedisMigrate
  <2>2. {"read.set"} \subseteq WaitingPCs
    BY DEF WaitingPCs
  <2>3. /\ req' \in [Reqs -> Requests] /\ \A s \in Reqs : Shape(req[s])'
        /\ wire' \in [Procs -> Seq(Reqs)] /\ replies' \in [Procs -> Seq(Reqs)]
        /\ UNCHANGED <<cache, throttle, known>> /\ q.pc = "read.set"
    BY <1>3, <2>1, <2>2
  <2>4. q.payload \in Payloads /\ q.ttl \in 1 .. SessionTTL
    BY <1>0, <2>3 DEF Shape
  <2>5. Entry(Serialize(q.payload), q.ttl) \in LiveEntries(RawValues, SessionTTL)
    BY <2>4, SerializeType, EntryType, TTLAssumption
  <2>6. redis' \in [Tokens -> LiveEntries(RawValues, SessionTTL) \cup {Absent}]
    BY <1>0, <2>1, <2>5
  <2>7. deadFor' \in [Tokens -> 0 .. DeadCap]
    <3>1. 0 \in 0 .. DeadCap
      BY DeadCapType
    <3> QED
      BY <2>1, <3>1 DEF TypeInv, TypeOK
  <2> QED
    BY <2>1, <2>3, <2>6, <2>7 DEF TypeInv, TypeOK
<1>8. CASE RedisRefuse(p, r)
  <2>1. Execute(p, r, WaitingPCs, Error) /\ UNCHANGED <<redis, history>>
    BY <1>8 DEF RedisRefuse
  <2>2. /\ req' \in [Reqs -> Requests] /\ \A s \in Reqs : Shape(req[s])'
        /\ wire' \in [Procs -> Seq(Reqs)] /\ replies' \in [Procs -> Seq(Reqs)]
        /\ UNCHANGED <<cache, throttle, known>>
    BY <1>3, <2>1
  <2> QED
    BY <2>1, <2>2 DEF TypeInv, TypeOK, history
<1> QED
  BY <1>1, <1>2, <1>4, <1>5, <1>6, <1>7, <1>8 DEF Redis

LEMMA FreshTokensType == FreshTokens \subseteq Tokens
BY DEF FreshTokens

LEMMA SuccessorType ==
  ASSUME TypeInv, NEW p \in Procs, NEW r \in Reqs, NEW payload \in Payloads,
         req[r].user \in UserIds, req[r].token \in Tokens, StoreSuccessor(p, r, payload)
  PROVE  /\ req' \in [Reqs -> Requests] /\ wire' \in [Procs -> Seq(Reqs)]
         /\ \A s \in Reqs : Shape(req[s])'
<1> DEFINE q == req[r]
           next(t) == [q EXCEPT !.new = t, !.payload = RotatedPayload(payload, q.token)]
<1>1. PICK t \in FreshTokens : Send(p, r, next(t), "rotate.set")
  BY DEF StoreSuccessor
<1>2. RotatedPayload(payload, q.token) \in Payloads
  BY RotatedType
<1>3. q \in Requests /\ t \in Tokens
  BY FreshTokensType DEF TypeInv, TypeOK
<1>4. /\ next(t) \in Requests /\ next(t).user = q.user /\ next(t).token = q.token
      /\ next(t).new = t /\ next(t).payload = RotatedPayload(payload, q.token)
  BY <1>2, <1>3 DEF Requests
<1> HIDE DEF next
<1>5. "rotate.set" \in WaitingPCs
  BY DEF WaitingPCs
<1>6. Shape(Sent(next(t), "rotate.set"))
  BY <1>2, <1>3, <1>4, <1>5, SendUpdate DEF Shape, WaitingPCs
<1> QED
  BY <1>1, <1>4, <1>5, <1>6, SendType

LEMMA ReceiveType ==
  ASSUME TypeInv, NEW p \in Procs, NEW r \in Reqs, NEW pc, Receive(p, r, pc)
  PROVE  /\ req[r].pc = pc /\ req[r].res \notin {Pending, Error}
         /\ replies' \in [Procs -> Seq(Reqs)]
         /\ req[r] \in Requests /\ Shape(req[r])
BY ReceiveEffect DEF TypeInv, TypeOK

LEMMA HandlerTypes ==
  ASSUME TypeInv, NEW p \in Procs, NEW r \in Reqs, Handler(p, r)
  PROVE  TypeInv'
<1> DEFINE q == req[r]
<1> USE DEF history, local
<1>1. CASE OwnerGot(p, r)
  <2>1. Receive(p, r, "owner.get") /\ UNCHANGED <<redis, throttle, known, history>>
    BY <1>1 DEF OwnerGot
  <2>2. /\ q.pc = "owner.get" /\ q.res \notin {Pending, Error}
        /\ replies' \in [Procs -> Seq(Reqs)] /\ q \in Requests /\ Shape(q)
    BY <2>1, ReceiveType
  <2>3. q.user \in UserIds /\ q.token \in Tokens /\ q.res \in RawValues \cup {Null}
    BY <2>2 DEF Shape, WaitingPCs
  <2>4. PICK val \in RawValues \cup {NotFound} : SetCache(p, q.token, val)
    BY <1>1, <2>3 DEF OwnerGot
  <2>5. cache' \in [Procs -> [Tokens ->
          LiveEntries(RawValues \cup {NotFound}, CacheTTL) \cup {Absent}]]
    BY <2>3, <2>4, SetCacheType DEF TypeInv
  <2>6. Answer(r, q, 404) \/ Authorise(p, r, q, q.res)
    BY <1>1 DEF OwnerGot
  <2>7. /\ req' \in [Reqs -> Requests] /\ wire' \in [Procs -> Seq(Reqs)]
        /\ \A s \in Reqs : Shape(req[s])'
    <3>1. wire \in [Procs -> Seq(Reqs)] /\ 404 \in Nat
      BY DEF TypeInv, TypeOK
    <3> QED
      BY <2>2, <2>3, <2>6, <3>1, AnswerType, AuthoriseType
  <2> QED
    BY <2>1, <2>2, <2>5, <2>7 DEF TypeInv, TypeOK
<1>2. CASE OwnerRefreshed(p, r)
  <2>1. Receive(p, r, "owner.expire") /\ UNCHANGED <<redis, cache, known, history>>
        /\ throttle' = [throttle EXCEPT ![p][q.token] = ThrottleTTL] /\ Handle(p, r, q)
    BY <1>2 DEF OwnerRefreshed
  <2>2. /\ q.pc = "owner.expire" /\ replies' \in [Procs -> Seq(Reqs)]
        /\ q \in Requests /\ Shape(q)
    BY <2>1, ReceiveType
  <2>3. q.user \in UserIds /\ q.token \in Tokens
    BY <2>2 DEF Shape, WaitingPCs
  <2>4. /\ req' \in [Reqs -> Requests] /\ wire' \in [Procs -> Seq(Reqs)]
        /\ \A s \in Reqs : Shape(req[s])'
    BY <2>1, <2>2, <2>3, HandleType
  <2>5. throttle' \in [Procs -> [Tokens -> 0 .. ThrottleTTL]]
    <3>1. ThrottleTTL \in 0 .. ThrottleTTL
      BY TTLAssumption
    <3> QED
      BY <2>1, <3>1 DEF TypeInv, TypeOK
  <2> QED
    BY <2>1, <2>2, <2>4, <2>5 DEF TypeInv, TypeOK
<1>3. CASE SessionCreated(p, r)
  <2>1. Receive(p, r, "create.set") /\ UNCHANGED <<redis, throttle, history>>
        /\ SetCache(p, q.new, Text(q.user)) /\ known' = known \cup {q.new}
        /\ Answer(r, q, 201)
    BY <1>3 DEF SessionCreated
  <2>2. /\ q.pc = "create.set" /\ replies' \in [Procs -> Seq(Reqs)]
        /\ q \in Requests /\ Shape(q)
    BY <2>1, ReceiveType
  <2>3. q.user \in UserIds /\ q.new \in Tokens
    BY <2>2 DEF Shape, WaitingPCs
  <2>4. Text(q.user) \in RawValues
    BY <2>3 DEF RawValues, Texts
  <2>5. cache' \in [Procs -> [Tokens ->
          LiveEntries(RawValues \cup {NotFound}, CacheTTL) \cup {Absent}]]
    BY <2>1, <2>3, <2>4, SetCacheType DEF TypeInv
  <2>6. /\ req' \in [Reqs -> Requests] /\ wire' = wire /\ \A s \in Reqs : Shape(req[s])'
    BY <2>1, <2>2, <2>3, AnswerType
  <2> QED
    BY <2>1, <2>2, <2>3, <2>5, <2>6 DEF TypeInv, TypeOK
<1>4. CASE SessionRead(p, r)
  <2>1. Receive(p, r, "read.get") /\ UNCHANGED <<redis, local, known, history>>
    BY <1>4 DEF SessionRead
  <2>2. /\ q.pc = "read.get" /\ q.res \notin {Pending, Error}
        /\ replies' \in [Procs -> Seq(Reqs)] /\ q \in Requests /\ Shape(q)
    BY <2>1, ReceiveType
  <2>3. q.user \in UserIds /\ q.token \in Tokens /\ q.res \in RawValues \cup {Null}
    BY <2>2 DEF Shape, WaitingPCs
  <2>4. /\ req' \in [Reqs -> Requests] /\ wire' \in [Procs -> Seq(Reqs)]
        /\ \A s \in Reqs : Shape(req[s])'
    <3>0. wire \in [Procs -> Seq(Reqs)] /\ 401 \in Nat
      BY DEF TypeInv, TypeOK
    <3>1. CASE Answer(r, q, 401)
      BY <2>2, <2>3, <3>0, <3>1, AnswerType
    <3>2. CASE Readable(q.res) /\ Send(p, r, [q EXCEPT !.payload = MigrateLegacy(q.res)], "read.ttl")
      <4> DEFINE n == [q EXCEPT !.payload = MigrateLegacy(q.res)]
      <4>1. MigrateLegacy(q.res) \in Payloads
        BY <2>3, <3>2, MigrateType DEF Readable
      <4>2. /\ n \in Requests /\ n.user = q.user /\ n.token = q.token
            /\ n.payload \in Payloads
        BY <2>2, <4>1 DEF Requests
      <4> HIDE DEF n
      <4>3. "read.ttl" \in WaitingPCs
        BY DEF WaitingPCs
      <4>4. Shape(Sent(n, "read.ttl"))
        BY <2>3, <4>2, <4>3, SendUpdate DEF Shape, WaitingPCs
      <4>5. Send(p, r, n, "read.ttl")
        BY <3>2 DEF n
      <4> QED
        BY <4>2, <4>3, <4>4, <4>5, SendType
    <3>3. CASE Readable(q.res) /\ IsPayload(q.res) /\ StoreSuccessor(p, r, Deserialize(q.res))
      <4>1. Deserialize(q.res) \in Payloads
        BY <2>3, <3>3, DeserializeType DEF Readable
      <4> QED
        BY <2>3, <3>3, <4>1, SuccessorType
    <3> QED
      BY <1>4, <3>1, <3>2, <3>3 DEF SessionRead
  <2> QED
    BY <2>1, <2>2, <2>4 DEF TypeInv, TypeOK
<1>5. CASE TtlRead(p, r)
  <2>1. Receive(p, r, "read.ttl") /\ UNCHANGED <<redis, local, known, history>>
    BY <1>5 DEF TtlRead
  <2>2. /\ q.pc = "read.ttl" /\ q.res \notin {Pending, Error}
        /\ replies' \in [Procs -> Seq(Reqs)] /\ q \in Requests /\ Shape(q)
    BY <2>1, ReceiveType
  <2>3. /\ q.user \in UserIds /\ q.token \in Tokens /\ q.payload \in Payloads
        /\ q.res \in Integer /\ q.res.seconds <= SessionTTL
    BY <2>2 DEF Shape, WaitingPCs
  <2>4. /\ req' \in [Reqs -> Requests] /\ wire' \in [Procs -> Seq(Reqs)]
        /\ \A s \in Reqs : Shape(req[s])'
    <3>1. CASE q.res.seconds > 0 /\ Send(p, r, [q EXCEPT !.ttl = q.res.seconds], "read.set")
      <4> DEFINE n == [q EXCEPT !.ttl = q.res.seconds]
      <4>1. q.res.seconds \in 1 .. SessionTTL /\ q.res.seconds \in Nat
        BY <2>3, <3>1, TTLAssumption DEF Integer
      <4>2. /\ n \in Requests /\ n.user = q.user /\ n.token = q.token
            /\ n.payload = q.payload /\ n.ttl = q.res.seconds
        BY <2>2, <4>1 DEF Requests
      <4> HIDE DEF n
      <4>3. "read.set" \in WaitingPCs
        BY DEF WaitingPCs
      <4>4. Shape(Sent(n, "read.set"))
        BY <2>3, <4>1, <4>2, <4>3, SendUpdate DEF Shape, WaitingPCs
      <4>5. Send(p, r, n, "read.set")
        BY <3>1 DEF n
      <4> QED
        BY <4>2, <4>3, <4>4, <4>5, SendType
    <3>2. CASE StoreSuccessor(p, r, q.payload)
      BY <2>3, <3>2, SuccessorType
    <3> QED
      BY <1>5, <3>1, <3>2 DEF TtlRead
  <2> QED
    BY <2>1, <2>2, <2>4 DEF TypeInv, TypeOK
<1>6. CASE SessionMigrated(p, r)
  <2>1. Receive(p, r, "read.set") /\ StoreSuccessor(p, r, q.payload)
        /\ UNCHANGED <<redis, local, known, history>>
    BY <1>6 DEF SessionMigrated
  <2>2. /\ q.pc = "read.set" /\ replies' \in [Procs -> Seq(Reqs)]
        /\ q \in Requests /\ Shape(q)
    BY <2>1, ReceiveType
  <2>3. q.user \in UserIds /\ q.token \in Tokens /\ q.payload \in Payloads
    BY <2>2 DEF Shape, WaitingPCs
  <2>4. /\ req' \in [Reqs -> Requests] /\ wire' \in [Procs -> Seq(Reqs)]
        /\ \A s \in Reqs : Shape(req[s])'
    BY <2>1, <2>3, SuccessorType
  <2> QED
    BY <2>1, <2>2, <2>4 DEF TypeInv, TypeOK
<1>7. CASE SuccessorStored(p, r)
  <2>1. Receive(p, r, "rotate.set") /\ Send(p, r, q, "rotate.expire")
        /\ UNCHANGED <<redis, local, known, history>>
    BY <1>7 DEF SuccessorStored
  <2>2. /\ q.pc = "rotate.set" /\ replies' \in [Procs -> Seq(Reqs)]
        /\ q \in Requests /\ Shape(q)
    BY <2>1, ReceiveType
  <2>3. "rotate.expire" \in WaitingPCs
    BY DEF WaitingPCs
  <2>4. Shape(Sent(q, "rotate.expire"))
    BY <2>2, <2>3, SendUpdate DEF Shape, WaitingPCs
  <2>5. /\ req' \in [Reqs -> Requests] /\ wire' \in [Procs -> Seq(Reqs)]
        /\ \A s \in Reqs : Shape(req[s])'
    BY <2>1, <2>2, <2>3, <2>4, SendType
  <2> QED
    BY <2>1, <2>2, <2>5 DEF TypeInv, TypeOK
<1>8. CASE RotationDone(p, r)
  <2>1. Receive(p, r, "rotate.expire") /\ UNCHANGED <<redis, throttle, ledger, burned, deadFor>>
        /\ ReplaceOwner(p, q) /\ known' = known \cup {q.new}
        /\ rotatedBy' = rotatedBy \cup {<<p, q.token>>} /\ Answer(r, q, 200)
    BY <1>8 DEF RotationDone
  <2>2. /\ q.pc = "rotate.expire" /\ replies' \in [Procs -> Seq(Reqs)]
        /\ q \in Requests /\ Shape(q)
    BY <2>1, ReceiveType
  <2>3. q.user \in UserIds /\ q.new \in Tokens /\ q.token \in Tokens
    BY <2>2 DEF Shape, WaitingPCs
  <2>4. Text(q.user) \in RawValues
    BY <2>3 DEF RawValues, Texts
  <2>5. CacheTTL \in 1 .. CacheTTL
    BY TTLAssumption
  <2>6. Entry(Text(q.user), CacheTTL) \in LiveEntries(RawValues \cup {NotFound}, CacheTTL)
    BY <2>4, <2>5 DEF Entry, LiveEntries
  <2>7. cache' \in [Procs -> [Tokens ->
          LiveEntries(RawValues \cup {NotFound}, CacheTTL) \cup {Absent}]]
    BY <2>1, <2>6 DEF ReplaceOwner, TypeInv, TypeOK
  <2>8. /\ req' \in [Reqs -> Requests] /\ wire' = wire /\ \A s \in Reqs : Shape(req[s])'
    BY <2>1, <2>2, <2>3, AnswerType
  <2>9. rotatedBy' \subseteq Procs \X Tokens
    BY <2>1, <2>3 DEF TypeInv, TypeOK
  <2> QED
    BY <2>1, <2>2, <2>3, <2>7, <2>8, <2>9 DEF TypeInv, TypeOK
<1>9. CASE CommandFailed(p, r)
  <2>1. /\ replies[p] # <<>> /\ replies' = [replies EXCEPT ![p] = Tail(@)]
        /\ UNCHANGED <<redis, local, known, history>>
    BY <1>9 DEF CommandFailed
  <2>2. PICK status \in {500, 401} : Answer(r, q, status)
    BY <1>9 DEF CommandFailed
  <2>3. q \in Requests /\ status \in Nat /\ q.user \in UserIds
    BY <1>9 DEF CommandFailed, Waiting, Shape, TypeInv, TypeOK
  <2>4. /\ req' \in [Reqs -> Requests] /\ wire' = wire /\ \A s \in Reqs : Shape(req[s])'
    BY <2>2, <2>3, AnswerType
  <2>5. replies' \in [Procs -> Seq(Reqs)]
    BY <2>1, HeadTailProperties DEF TypeInv, TypeOK
  <2> QED
    BY <2>1, <2>4, <2>5 DEF TypeInv, TypeOK
<1> QED
  BY <1>1, <1>2, <1>3, <1>4, <1>5, <1>6, <1>7, <1>8, <1>9 DEF Handler

LEMMA ClientTypes ==
  ASSUME TypeInv, NEW p \in Procs, NEW r \in Reqs, Client(p, r)
  PROVE  TypeInv'
<1> USE DEF history, local
<1>1. ASSUME NEW u \in UserIds, CreateRequest(p, r, u)
      PROVE  TypeInv'
  <2>1. PICK t \in FreshTokens :
          Send(p, r, [NewRequest(p, "create", u, Null) EXCEPT
                        !.new = t, !.payload = FirstPayload(u, {})], "create.set")
    BY <1>1 DEF CreateRequest
  <2> DEFINE base == NewRequest(p, "create", u, Null)
             n    == [base EXCEPT !.new = t, !.payload = FirstPayload(u, {})]
  <2>2. base \in Requests /\ base.user = u
    BY NewRequestType
  <2>3. t \in Tokens /\ FirstPayload(u, {}) \in Payloads
    BY FreshTokensType, FirstType
  <2> HIDE DEF base
  <2>4. /\ n \in Requests /\ n.user = u /\ n.new = t /\ n.payload = FirstPayload(u, {})
    BY <2>2, <2>3 DEF Requests
  <2>5. Send(p, r, n, "create.set")
    BY <2>1 DEF base
  <2> HIDE DEF n
  <2>6. "create.set" \in WaitingPCs
    BY DEF WaitingPCs
  <2>7. Shape(Sent(n, "create.set"))
    BY <2>3, <2>4, <2>6, SendUpdate DEF Shape, WaitingPCs
  <2>8. /\ req' \in [Reqs -> Requests] /\ wire' \in [Procs -> Seq(Reqs)]
        /\ \A s \in Reqs : Shape(req[s])'
    BY <2>4, <2>5, <2>6, <2>7, SendType
  <2>9. UNCHANGED <<redis, cache, throttle, replies, known, history>>
    BY <1>1 DEF CreateRequest
  <2> QED
    BY <2>8, <2>9 DEF TypeInv, TypeOK
<1>2. ASSUME NEW u \in UserIds, NEW t \in Tokens, NEW op \in {"check", "rotate"},
             OwnerRequest(p, r, op, u, t)
      PROVE  TypeInv'
  <2> DEFINE n == NewRequest(p, op, u, t)
  <2>1. n \in Requests /\ n.user = u /\ n.token = t
    BY NewRequestType
  <2>2. Authorise(p, r, n, cache[p][t].val) \/ Send(p, r, n, "owner.get")
    BY <1>2 DEF OwnerRequest
  <2> HIDE DEF n
  <2>3. "owner.get" \in WaitingPCs
    BY DEF WaitingPCs
  <2>4. Shape(Sent(n, "owner.get"))
    BY <2>1, <2>3, SendUpdate DEF Shape, WaitingPCs
  <2>5. /\ req' \in [Reqs -> Requests] /\ wire' \in [Procs -> Seq(Reqs)]
        /\ \A s \in Reqs : Shape(req[s])'
    BY <2>1, <2>2, <2>3, <2>4, SendType, AuthoriseType
  <2>6. UNCHANGED <<redis, cache, throttle, replies, known, history>>
    BY <1>2 DEF OwnerRequest
  <2> QED
    BY <2>5, <2>6 DEF TypeInv, TypeOK
<1> QED
  BY <1>1, <1>2 DEF Client

LEMMA AgedType ==
  ASSUME NEW vals, NEW cap \in Nat, NEW e \in LiveEntries(vals, cap) \cup {Absent}
  PROVE  Aged(e) \in LiveEntries(vals, cap) \cup {Absent}
BY DEF Aged, LiveEntries, Entry

LEMMA EnvironmentTypes ==
  ASSUME TypeInv, Environment
  PROVE  TypeInv'
<1> USE DEF history, local
<1>1. CASE Tick
  <2>1. \A r \in Reqs : req'[r] = IF Waiting(r) THEN [req[r] EXCEPT !.age = @ + 1] ELSE req[r]
    BY <1>1 DEF Tick
  <2>2. ASSUME NEW r \in Reqs
        PROVE  req'[r] \in Requests /\ Shape(req'[r])
    <3>1. req[r] \in Requests /\ Shape(req[r])
      BY DEF TypeInv, TypeOK
    <3>2. CASE Waiting(r)
      <4> DEFINE n == [req[r] EXCEPT !.age = @ + 1]
      <4>1. req[r].age + 1 \in 0 .. MaxLag
        BY <1>1, <3>1, <3>2, ConfigAssumption DEF Tick, Requests
      <4>2. /\ n \in Requests /\ n.pc = req[r].pc /\ n.user = req[r].user
            /\ n.token = req[r].token /\ n.new = req[r].new /\ n.payload = req[r].payload
            /\ n.ttl = req[r].ttl /\ n.res = req[r].res
        BY <3>1, <4>1 DEF Requests
      <4>3. req'[r] = n
        BY <2>1, <3>2
      <4> HIDE DEF n
      <4>4. Shape(n)
        BY <3>1, <4>2 DEF Shape
      <4> QED
        BY <4>2, <4>3, <4>4
    <3>3. CASE ~Waiting(r)
      BY <2>1, <3>1, <3>3
    <3> QED
      BY <3>2, <3>3
  <2>3. req' \in [Reqs -> Requests]
    BY <1>1, <2>2 DEF Tick
  <2>4. redis' \in [Tokens -> LiveEntries(RawValues, SessionTTL) \cup {Absent}]
    BY <1>1, AgedType, TTLAssumption DEF Tick, TypeInv, TypeOK
  <2>5. cache' \in [Procs -> [Tokens ->
          LiveEntries(RawValues \cup {NotFound}, CacheTTL) \cup {Absent}]]
    <3>1. ASSUME NEW p \in Procs, NEW t \in Tokens
          PROVE  Aged(cache[p][t]) \in
                   LiveEntries(RawValues \cup {NotFound}, CacheTTL) \cup {Absent}
      <4>1. cache[p][t] \in LiveEntries(RawValues \cup {NotFound}, CacheTTL) \cup {Absent}
        <5>1. cache \in [Procs -> [Tokens ->
                LiveEntries(RawValues \cup {NotFound}, CacheTTL) \cup {Absent}]]
          BY DEF TypeInv, TypeOK
        <5> QED
          BY <5>1
      <4> QED
        BY <4>1, TTLAssumption DEF Aged, LiveEntries, Entry
    <3> QED
      BY <1>1, <3>1 DEF Tick
  <2>6. throttle' \in [Procs -> [Tokens -> 0 .. ThrottleTTL]]
    <3>1. ASSUME NEW p \in Procs, NEW t \in Tokens
          PROVE  (IF throttle[p][t] = 0 THEN 0 ELSE throttle[p][t] - 1) \in 0 .. ThrottleTTL
      BY TTLAssumption DEF TypeInv, TypeOK
    <3> QED
      BY <1>1, <3>1 DEF Tick
  <2>7. deadFor' \in [Tokens -> 0 .. DeadCap]
    <3>1. ASSUME NEW t \in Tokens
          PROVE  (IF redis[t] = Absent /\ ledger[t] # Null /\ deadFor[t] < DeadCap
                    THEN deadFor[t] + 1 ELSE deadFor[t]) \in 0 .. DeadCap
      <4>1. deadFor[t] \in 0 .. DeadCap
        BY DEF TypeInv, TypeOK
      <4> QED
        BY <4>1, DeadCapType
    <3> QED
      BY <1>1, <3>1 DEF Tick
  <2>8. UNCHANGED <<wire, replies, known, ledger, burned, rotatedBy>>
    BY <1>1 DEF Tick
  <2> QED
    BY <2>2, <2>3, <2>4, <2>5, <2>6, <2>7, <2>8 DEF TypeInv, TypeOK
<1>2. ASSUME NEW t \in Tokens, Revoke(t)
      PROVE  TypeInv'
  BY <1>2 DEF Revoke, TypeInv, TypeOK
<1>3. ASSUME NEW p \in Procs, Crash(p)
      PROVE  TypeInv'
  <2>1. \A r \in Reqs : \/ req'[r] = req[r]
                        \/ Waiting(r) /\ req'[r] = Done(req[r], 0)
    BY <1>3 DEF Crash, Outstanding
  <2>2. \A r \in Reqs : req'[r] \in Requests /\ Shape(req'[r])
    <3>1. ASSUME NEW r \in Reqs
          PROVE  /\ req[r] \in Requests /\ Shape(req[r])
                 /\ Done(req[r], 0) \in Requests /\ Done(req[r], 0).pc = "done"
                 /\ Done(req[r], 0).user = req[r].user
      BY DoneType DEF TypeInv, TypeOK
    <3>2. \A r \in Reqs : Waiting(r) => Shape(Done(req[r], 0))
      BY <3>1 DEF Shape, Waiting, WaitingPCs
    <3> QED
      BY <2>1, <3>1, <3>2
  <2>3. req' \in [Reqs -> Requests]
    BY <1>3, <2>2 DEF Crash
  <2>4. <<>> \in Seq(Reqs)
    BY EmptySeq
  <2>5. /\ wire' \in [Procs -> Seq(Reqs)] /\ replies' \in [Procs -> Seq(Reqs)]
    BY <1>3, <2>4 DEF Crash, TypeInv, TypeOK
  <2>6. cache' \in [Procs -> [Tokens ->
          LiveEntries(RawValues \cup {NotFound}, CacheTTL) \cup {Absent}]]
    BY <1>3 DEF Crash, TypeInv, TypeOK
  <2>7. throttle' \in [Procs -> [Tokens -> 0 .. ThrottleTTL]]
    <3>1. 0 \in 0 .. ThrottleTTL
      BY TTLAssumption
    <3> QED
      BY <1>3, <3>1 DEF Crash, TypeInv, TypeOK
  <2>8. rotatedBy' \subseteq rotatedBy /\ UNCHANGED <<redis, known, ledger, burned, deadFor>>
    BY <1>3 DEF Crash
  <2> QED
    BY <2>2, <2>3, <2>5, <2>6, <2>7, <2>8 DEF TypeInv, TypeOK
<1>4. ASSUME NEW p \in Procs, NEW t \in Tokens, EvictOwner(p, t)
      PROVE  TypeInv'
  <2>1. cache' \in [Procs -> [Tokens ->
          LiveEntries(RawValues \cup {NotFound}, CacheTTL) \cup {Absent}]]
    BY <1>4 DEF EvictOwner, TypeInv, TypeOK
  <2> QED
    BY <1>4, <2>1 DEF EvictOwner, TypeInv, TypeOK
<1>5. ASSUME NEW p \in Procs, NEW t \in Tokens, EvictThrottle(p, t)
      PROVE  TypeInv'
  <2>1. 0 \in 0 .. ThrottleTTL
    BY TTLAssumption
  <2>2. throttle' \in [Procs -> [Tokens -> 0 .. ThrottleTTL]]
    BY <1>5, <2>1 DEF EvictThrottle, TypeInv, TypeOK
  <2> QED
    BY <1>5, <2>2 DEF EvictThrottle, TypeInv, TypeOK
<1> QED
  BY <1>1, <1>2, <1>3, <1>4, <1>5 DEF Environment

LEMMA InitTypes == Init => TypeInv
<1> SUFFICES ASSUME Init PROVE TypeInv
  OBVIOUS
<1>1. PICK owner \in [LegacyTokens -> UserIds], ttl \in [LegacyTokens -> 1 .. SessionTTL] :
        /\ redis  = [t \in Tokens |-> IF t \in LegacyTokens
                                         THEN Entry(Text(owner[t]), ttl[t]) ELSE Absent]
        /\ ledger = [t \in Tokens |-> IF t \in LegacyTokens
                                         THEN MigrateLegacy(Text(owner[t])) ELSE Null]
  BY DEF Init
<1>2. \A t \in LegacyTokens : Text(owner[t]) \in RawValues
  BY DEF RawValues, Texts
<1>3. \A t \in LegacyTokens : Entry(Text(owner[t]), ttl[t]) \in LiveEntries(RawValues, SessionTTL)
  BY <1>2, EntryType, TTLAssumption
<1>4. \A t \in LegacyTokens : MigrateLegacy(Text(owner[t])) \in Payloads
  BY <1>2, MigrateType
<1>5. redis \in [Tokens -> LiveEntries(RawValues, SessionTTL) \cup {Absent}]
  BY <1>1, <1>3
<1>6. ledger \in [Tokens -> Payloads \cup {Null}]
  BY <1>1, <1>4
<1>7. IdleRequest \in Requests /\ IdleRequest.pc = "idle"
  BY ConfigAssumption DEF IdleRequest, NewRequest, Requests, Results
<1>8. Shape(IdleRequest)
  BY <1>7 DEF Shape, WaitingPCs
<1>9. <<>> \in Seq(Reqs) /\ 0 \in 0 .. ThrottleTTL /\ 0 \in 0 .. DeadCap
  BY EmptySeq, TTLAssumption, DeadCapType
<1> QED
  BY <1>5, <1>6, <1>7, <1>8, <1>9, ConfigAssumption DEF Init, TypeInv, TypeOK

LEMMA TypeStep == TypeInv /\ [Next]_vars => TypeInv'
<1> SUFFICES ASSUME TypeInv, [Next]_vars PROVE TypeInv'
  OBVIOUS
<1>1. CASE UNCHANGED vars
  BY <1>1 DEF vars, TypeInv, TypeOK
<1>2. CASE Next
  BY <1>2, ClientTypes, RedisTypes, HandlerTypes, EnvironmentTypes DEF Next
<1> QED
  BY <1>1, <1>2

(* Every variable keeps its type: keys and cache entries expire instead of *)
(* outliving their lifetime, and a command waits with all it needs.        *)
THEOREM TypeCorrect == Spec => []TypeOK
<1>1. TypeInv => TypeOK
  BY DEF TypeInv
<1> QED
  BY InitTypes, TypeStep, <1>1, PTL DEF Spec

-----------------------------------------------------------------------------
(* Safety: the stored values stay faithful, nobody is let into a session   *)
(* of another, the lineage of tokens is sound, and the server implements   *)
(* the session ledger.                                                     *)
(*                                                                         *)
(* None of these is inductive by itself: what a handler stores or caches   *)
(* is what it read some commands ago.  The invariant below says of every   *)
(* request, by the command it waits for, how what it holds in its hands    *)
(* relates to the payload the token was issued with.                       *)

(* A request past ensureSessionOwner, as Admitted says it of a slot.       *)
Inside(q) ==
  \/ q.pc \in WaitingPCs \ {"owner.get", "create.set"}
  \/ q.pc = "done" /\ q.status = 200

(* L is the ledger.                                                        *)
Facts(q, L) ==
  /\ q.pc \in {"owner.get", "read.get"} /\ q.res \notin {Null, Pending, Error} =>
       L[q.token] # Null /\ Interpret(q.res) = L[q.token]
  /\ Inside(q) => q.token \in Tokens /\ L[q.token] # Null /\ L[q.token].userId = q.user
  /\ q.pc \in {"read.ttl", "read.set"} => q.payload = L[q.token]
  /\ q.pc \in {"rotate.set", "rotate.expire"} =>
       q.payload = RotatedPayload(L[q.token], q.token)
  /\ q.pc = "create.set" => q.payload = FirstPayload(q.user, {})
  /\ q.pc \in {"create.set", "rotate.set"} /\ q.res \notin {Pending, Error} =>
       L[q.new] = q.payload
  /\ q.pc = "rotate.expire" => L[q.new] = q.payload

Storing(q) == q.pc \in {"create.set", "rotate.set"} /\ q.res = Pending

(* A token about to be stored is nobody else's and was never issued.       *)
UnusedTokens   == \A r \in Reqs : Storing(req[r]) => ledger[req[r].new] = Null
DistinctTokens == \A r, s \in Reqs :
                    r # s /\ req[r].new # Null => req[s].new # req[r].new

CachedOwners ==
  \A p \in Procs, t \in Tokens, u \in UserIds :
    cache[p][t] # Absent /\ cache[p][t].val = Text(u) =>
      ledger[t] # Null /\ ledger[t].userId = u

VersionsIssued == \A t \in Tokens : ledger[t] # Null => ledger[t].v = CurrentVersion

SafetyInv ==
  /\ StoredSessionsFaithful
  /\ CachedOwners
  /\ LineageConsistent
  /\ SuccessorBeforeBurn
  /\ VersionsIssued
  /\ UnusedTokens
  /\ DistinctTokens
  /\ \A r \in Reqs : Facts(req[r], ledger)

-----------------------------------------------------------------------------
(* The ledger only grows, and what a request knows of it stays true.       *)

Grows(L, M) == \A t \in Tokens : L[t] # Null => M[t] = L[t]

LEMMA FactsKept ==
  ASSUME NEW L \in [Tokens -> Payloads \cup {Null}], NEW M, Grows(L, M),
         NEW q \in Requests, Shape(q), Facts(q, L)
  PROVE  Facts(q, M)
<1>1. Null \notin Payloads
  BY SpecialAssumption
<1>2. /\ q.pc \in WaitingPCs \ {"create.set"} => q.token \in Tokens
      /\ q.pc \in {"create.set", "rotate.set", "rotate.expire"} => q.new \in Tokens
      /\ q.pc \in {"create.set", "rotate.set", "rotate.expire", "read.ttl", "read.set"} =>
           q.payload \in Payloads
  BY DEF Shape
<1>3. q.pc \in {"owner.get", "read.get", "read.ttl", "read.set", "rotate.set", "rotate.expire"} =>
        q.token \in Tokens
  BY <1>2 DEF WaitingPCs
<1>4. Inside(q) => M[q.token] = L[q.token]
  BY DEF Facts, Grows
<1>5. q.pc \in {"read.ttl", "read.set", "rotate.set", "rotate.expire"} => Inside(q)
  BY DEF Inside, WaitingPCs
<1> QED
  BY <1>1, <1>2, <1>3, <1>4, <1>5 DEF Facts, Grows

(* A step in which at most request r moves, the ledger staying as it is.   *)
Moves(r) ==
  /\ \A s \in Reqs \ {r} : req'[s] = req[s]
  /\ Facts(req'[r], ledger)
  /\ req'[r].new \in {Null, req[r].new} \cup FreshTokens
  /\ Storing(req'[r]) => ledger[req'[r].new] = Null

Quiet(r) == Moves(r) /\ ledger' = ledger

LEMMA MoveKeeps ==
  ASSUME TypeInv, SafetyInv, NEW r \in Reqs, Moves(r), ledger' = ledger
  PROVE  UnusedTokens' /\ DistinctTokens' /\ \A s \in Reqs : Facts(req[s], ledger)'
<1>1. \A s \in Reqs : Facts(req'[s], ledger)
  BY DEF Moves, SafetyInv
<1>2. UnusedTokens'
  BY DEF Moves, SafetyInv, UnusedTokens
<1>3. DistinctTokens'
  BY DEF Moves, SafetyInv, DistinctTokens, FreshTokens
<1> QED
  BY <1>1, <1>2, <1>3

(* The owner of the token a request presents.                              *)
Owned(q) == q.token \in Tokens /\ ledger[q.token] # Null /\ ledger[q.token].userId = q.user

LEMMA AnswerMoves ==
  ASSUME TypeInv, SafetyInv, NEW r \in Reqs, NEW q \in Requests, NEW status \in Nat,
         Answer(r, q, status), status = 200 => Owned(q)
  PROVE  Moves(r)
<1>0. req \in [Reqs -> Requests]
  BY DEF TypeInv, TypeOK
<1>1. /\ req'[r] = Done(q, status) /\ \A s \in Reqs \ {r} : req'[s] = req[s]
  BY <1>0, AnswerEffect
<1> DEFINE n == Done(q, status)
<1>2. /\ n.pc = "done" /\ n.status = status /\ n.user = q.user /\ n.token = q.token
      /\ n.new = Null
  BY DoneType
<1> HIDE DEF n
<1>3. Facts(n, ledger)
  BY <1>2 DEF Facts, Inside, WaitingPCs, Owned
<1>4. ~Storing(n)
  BY <1>2 DEF Storing
<1> QED
  BY <1>1, <1>2, <1>3, <1>4 DEF Moves, n

LEMMA SendMoves ==
  ASSUME TypeInv, SafetyInv, NEW p \in Procs, NEW r \in Reqs, NEW q \in Requests,
         NEW pc \in WaitingPCs, Send(p, r, q, pc), Facts(Sent(q, pc), ledger),
         q.new \in {Null, req[r].new} \cup FreshTokens,
         pc \in {"create.set", "rotate.set"} => ledger[q.new] = Null
  PROVE  Moves(r)
<1>0. req \in [Reqs -> Requests] /\ wire \in [Procs -> Seq(Reqs)]
  BY DEF TypeInv, TypeOK
<1>1. /\ req'[r] = Sent(q, pc) /\ \A s \in Reqs \ {r} : req'[s] = req[s]
  BY <1>0, SendEffect
<1>2. Sent(q, pc).pc = pc /\ Sent(q, pc).new = q.new
  BY SendUpdate
<1> QED
  BY <1>1, <1>2 DEF Moves, Storing

LEMMA HandleMoves ==
  ASSUME TypeInv, SafetyInv, NEW p \in Procs, NEW r \in Reqs, NEW q \in Requests,
         Owned(q), q.new \in {Null, req[r].new}, Handle(p, r, q)
  PROVE  Moves(r)
<1>1. CASE Answer(r, q, 200)
  BY <1>1, AnswerMoves
<1>2. CASE Send(p, r, q, "read.get")
  <2>1. "read.get" \in WaitingPCs
    BY DEF WaitingPCs
  <2>2. Facts(Sent(q, "read.get"), ledger)
    BY <2>1, SendUpdate DEF Facts, Inside, Owned
  <2> QED
    BY <1>2, <2>1, <2>2, SendMoves
<1> QED
  BY <1>1, <1>2 DEF Handle

LEMMA AuthoriseMoves ==
  ASSUME TypeInv, SafetyInv, NEW p \in Procs, NEW r \in Reqs, NEW q \in Requests,
         NEW ownerId, ownerId = Text(q.user) => Owned(q),
         q.new \in {Null, req[r].new}, Authorise(p, r, q, ownerId)
  PROVE  Moves(r)
<1>1. CASE Answer(r, q, 404) \/ Answer(r, q, 403)
  BY <1>1, AnswerMoves
<1>2. CASE IsOwner(ownerId, q.user) /\ Send(p, r, q, "owner.expire")
  <2>1. "owner.expire" \in WaitingPCs
    BY DEF WaitingPCs
  <2>2. Owned(q)
    BY <1>2 DEF IsOwner
  <2>3. Facts(Sent(q, "owner.expire"), ledger)
    BY <2>1, <2>2, SendUpdate DEF Facts, Inside, Owned
  <2> QED
    BY <1>2, <2>1, <2>3, SendMoves
<1>3. CASE IsOwner(ownerId, q.user) /\ Handle(p, r, q)
  BY <1>3, HandleMoves DEF IsOwner
<1> QED
  BY <1>1, <1>2, <1>3 DEF Authorise

LEMMA SuccessorMoves ==
  ASSUME TypeInv, SafetyInv, NEW p \in Procs, NEW r \in Reqs, Owned(req[r]),
         StoreSuccessor(p, r, ledger[req[r].token])
  PROVE  Moves(r)
<1> DEFINE q == req[r]
           payload == RotatedPayload(ledger[q.token], q.token)
           next(t) == [q EXCEPT !.new = t, !.payload = payload]
<1>1. PICK t \in FreshTokens : Send(p, r, next(t), "rotate.set")
  BY DEF StoreSuccessor
<1>2. q \in Requests /\ t \in Tokens /\ ledger[q.token] \in Payloads /\ q.token \in Tokens
  BY FreshTokensType DEF TypeInv, TypeOK, Owned
<1>3. payload \in Payloads
  BY <1>2, RotatedType
<1> HIDE DEF payload
<1>4. /\ next(t) \in Requests /\ next(t).user = q.user /\ next(t).token = q.token
      /\ next(t).new = t /\ next(t).payload = payload
  BY <1>2, <1>3 DEF Requests
<1> HIDE DEF next
<1>5. "rotate.set" \in WaitingPCs
  BY DEF WaitingPCs
<1>6. ledger[t] = Null
  BY DEF FreshTokens
<1>7. Facts(Sent(next(t), "rotate.set"), ledger)
  BY <1>4, <1>5, SendUpdate DEF Facts, Inside, Owned, payload
<1> QED
  BY <1>1, <1>4, <1>5, <1>6, <1>7, SendMoves

(* The reply of a command that leaves the ledger alone.                    *)
LEMMA ReplyMoves ==
  ASSUME TypeInv, SafetyInv, NEW p \in Procs, NEW r \in Reqs, NEW pcs, NEW res \in Results,
         Execute(p, r, pcs, res), Facts(Replied(req[r], res), ledger)
  PROVE  Moves(r)
<1>0. /\ req \in [Reqs -> Requests] /\ wire \in [Procs -> Seq(Reqs)]
      /\ replies \in [Procs -> Seq(Reqs)]
  BY DEF TypeInv, TypeOK
<1>1. /\ req'[r] = Replied(req[r], res) /\ \A s \in Reqs \ {r} : req'[s] = req[s]
      /\ req[r].res = Pending
  BY <1>0, ExecuteEffect
<1>2. /\ Replied(req[r], res).new = req[r].new /\ Replied(req[r], res).pc = req[r].pc
  BY <1>0, ResultUpdate
<1>3. Storing(req'[r]) => ledger[req'[r].new] = Null
  BY <1>1, <1>2 DEF SafetyInv, UnusedTokens, Storing
<1> QED
  BY <1>1, <1>2, <1>3 DEF Moves

-----------------------------------------------------------------------------
(* The steps.                                                              *)

(* What only depends on the ledger, Redis' values, the caches and burned.  *)
LEMMA SameLedger ==
  ASSUME SafetyInv, ledger' = ledger
  PROVE  /\ LineageConsistent' /\ VersionsIssued'
         /\ redis' = redis => StoredSessionsFaithful'
         /\ cache' = cache => CachedOwners'
         /\ burned' = burned => SuccessorBeforeBurn'
BY DEF SafetyInv, LineageConsistent, VersionsIssued, StoredSessionsFaithful,
       CachedOwners, SuccessorBeforeBurn, Successors

(* A step that moves one request and touches nothing the others rest on.   *)
LEMMA PlainMove ==
  ASSUME TypeInv, SafetyInv, NEW r \in Reqs, Moves(r),
         UNCHANGED <<redis, cache, ledger, burned>>
  PROVE  SafetyInv' /\ Quiet(r)
BY MoveKeeps, SameLedger DEF SafetyInv, Quiet

LEMMA ExpireFaithful ==
  ASSUME TypeInv, SafetyInv, NEW t \in Tokens, NEW ttl, ExpireKey(t, ttl), ledger' = ledger
  PROVE  StoredSessionsFaithful'
<1> SUFFICES ASSUME NEW k \in Tokens, redis'[k] # Absent
             PROVE  ledger[k] # Null /\ Interpret(redis'[k].val) = ledger[k]
  BY DEF StoredSessionsFaithful
<1>1. redis[k] # Absent /\ redis'[k].val = redis[k].val
  BY DEF ExpireKey, Entry, TypeInv, TypeOK
<1> QED
  BY <1>1 DEF SafetyInv, StoredSessionsFaithful

LEMMA PayloadVersion ==
  /\ \A u, scopes : FirstPayload(u, scopes).v = CurrentVersion
  /\ \A p, t : RotatedPayload(p, t).v = CurrentVersion
  /\ CurrentVersion \in Int \ {Invalid}
BY InvalidAssumption DEF FirstPayload, RotatedPayload, CurrentVersion

(* A new session is stored: the one step in which the ledger grows.        *)
LEMMA StoreSafe ==
  ASSUME TypeInv, SafetyInv, NEW p \in Procs, NEW r \in Reqs, RedisStore(p, r)
  PROVE  SafetyInv'
<1> DEFINE q == req[r]
<1>1. /\ Execute(p, r, {"create.set", "rotate.set"}, Null)
      /\ redis'  = [redis EXCEPT ![q.new] = Entry(Serialize(q.payload), SessionTTL)]
      /\ ledger' = [ledger EXCEPT ![q.new] = q.payload]
      /\ burned' = burned
  BY DEF RedisStore
<1>2. /\ req \in [Reqs -> Requests] /\ wire \in [Procs -> Seq(Reqs)]
      /\ replies \in [Procs -> Seq(Reqs)] /\ ledger \in [Tokens -> Payloads \cup {Null}]
      /\ redis \in [Tokens -> LiveEntries(RawValues, SessionTTL) \cup {Absent}]
      /\ \A s \in Reqs : Shape(req[s])
  BY DEF TypeInv, TypeOK
<1>3. Null \in Results
  BY DEF Results
<1>4. /\ q.pc \in {"create.set", "rotate.set"} /\ q.res = Pending
      /\ req'[r] = Replied(q, Null) /\ \A s \in Reqs \ {r} : req'[s] = req[s]
      /\ cache' = cache
  BY <1>1, <1>2, <1>3, ExecuteEffect
<1>5. /\ q \in Requests /\ q.new \in Tokens /\ q.payload \in Payloads
      /\ ledger[q.new] = Null /\ ledger'[q.new] = q.payload
  BY <1>1, <1>2, <1>4 DEF Shape, SafetyInv, UnusedTokens, Storing
<1>6. q.payload # Null /\ q.new # Null
  BY <1>5, SpecialAssumption
<1>7. Grows(ledger, ledger')
  BY <1>1, <1>2, <1>5 DEF Grows
<1>8. \A t \in Tokens \ {q.new} : ledger'[t] = ledger[t] /\ redis'[t] = redis[t]
  BY <1>1, <1>2
<1>9. q.payload.v = CurrentVersion
  BY <1>4, PayloadVersion DEF SafetyInv, Facts
<1>10. StoredSessionsFaithful'
  <2>1. Interpret(Serialize(q.payload)) = q.payload
    BY <1>5, <1>9, PayloadVersion, RoundTrip
  <2>2. redis'[q.new].val = Serialize(q.payload)
    BY <1>1, <1>2, <1>5 DEF Entry
  <2> QED
    BY <2>1, <2>2, <1>5, <1>6, <1>8 DEF SafetyInv, StoredSessionsFaithful
<1>11. CachedOwners'
  BY <1>4, <1>7 DEF SafetyInv, CachedOwners, Grows
<1>12. VersionsIssued'
  BY <1>5, <1>8, <1>9 DEF SafetyInv, VersionsIssued
<1>13. LineageConsistent'
  <2> SUFFICES ASSUME NEW c \in Tokens, ledger'[c] # Null, ledger'[c].rotatedFrom # NoParent
               PROVE  LET old == ledger'[ledger'[c].rotatedFrom] IN
                      /\ old # Null
                      /\ ledger'[c].userId = old.userId
                      /\ ledger'[c].scopes = old.scopes
                      /\ ledger'[c].rotationCount = old.rotationCount + 1
    BY DEF LineageConsistent
  <2>1. CASE c # q.new
    <3>1. ledger'[c] = ledger[c]
      BY <1>8, <2>1
    <3>2. ledger[c].rotatedFrom \in Tokens
      BY <1>2, <3>1 DEF Payloads
    <3> QED
      BY <1>7, <3>1, <3>2 DEF SafetyInv, LineageConsistent, Grows
  <2>2. CASE c = q.new
    <3>1. q.pc = "rotate.set"
      <4>1. q.pc = "create.set" => q.payload = FirstPayload(q.user, {})
        BY DEF SafetyInv, Facts
      <4>2. q.payload.rotatedFrom # NoParent
        BY <1>5, <2>2
      <4> QED
        BY <1>4, <4>1, <4>2 DEF FirstPayload
    <3>2. q.payload = RotatedPayload(ledger[q.token], q.token)
      BY <3>1 DEF SafetyInv, Facts
    <3>3. q.token \in Tokens /\ ledger[q.token] # Null
      BY <3>1 DEF SafetyInv, Facts, Inside, WaitingPCs
    <3>4. ledger'[q.token] = ledger[q.token]
      BY <1>7, <3>3 DEF Grows
    <3> QED
      BY <1>5, <2>2, <3>2, <3>3, <3>4 DEF RotatedPayload
  <2> QED
    BY <2>1, <2>2
<1>14. SuccessorBeforeBurn'
  <2>1. \A t : Successors(t) \subseteq Successors(t)'
    BY <1>7 DEF Successors, Grows
  <2> QED
    BY <1>1, <2>1 DEF SafetyInv, SuccessorBeforeBurn
<1>15. /\ Replied(q, Null).pc = q.pc /\ Replied(q, Null).res = Null
       /\ Replied(q, Null).user = q.user /\ Replied(q, Null).token = q.token
       /\ Replied(q, Null).new = q.new /\ Replied(q, Null).payload = q.payload
       /\ Replied(q, Null).status = q.status
  BY <1>3, <1>5, ResultUpdate
<1>16. UnusedTokens'
  <2> SUFFICES ASSUME NEW s \in Reqs, Storing(req'[s])
               PROVE  ledger'[req'[s].new] = Null
    BY DEF UnusedTokens
  <2>1. Null # Pending
    BY SpecialAssumption
  <2>2. s # r /\ req'[s] = req[s]
    BY <1>4, <1>15, <2>1 DEF Storing
  <2>3. req[s].new \in Tokens /\ req[s].new # q.new
    BY <1>2, <1>6, <2>2 DEF Storing, Shape, SafetyInv, DistinctTokens
  <2> QED
    BY <1>8, <2>2, <2>3 DEF SafetyInv, UnusedTokens
<1>17. DistinctTokens'
  <2>1. \A s \in Reqs : req'[s].new = req[s].new
    BY <1>4, <1>15
  <2> QED
    BY <2>1 DEF SafetyInv, DistinctTokens
<1>18. \A s \in Reqs : Facts(req'[s], ledger')
  <2>1. \A s \in Reqs : Facts(req[s], ledger')
    BY <1>2, <1>7, FactsKept DEF SafetyInv
  <2>2. Facts(q, ledger')
    BY <2>1
  <2>3. Facts(Replied(q, Null), ledger')
    BY <1>4, <1>5, <1>15, <2>2 DEF Facts, Inside
  <2> QED
    BY <1>4, <2>1, <2>3
<1> QED
  BY <1>10, <1>11, <1>12, <1>13, <1>14, <1>16, <1>17, <1>18 DEF SafetyInv

LEMMA RedisSafe ==
  ASSUME TypeInv, SafetyInv, NEW p \in Procs, NEW r \in Reqs, Redis(p, r)
  PROVE  SafetyInv' /\ (RedisStore(p, r) \/ Quiet(r))
<1> DEFINE q == req[r]
<1>0. /\ q \in Requests /\ Shape(q) /\ Facts(q, ledger) /\ Pending # Null /\ Error # Null
      /\ redis \in [Tokens -> LiveEntries(RawValues, SessionTTL) \cup {Absent}]
      /\ ledger \in [Tokens -> Payloads \cup {Null}]
  BY SpecialAssumption DEF TypeInv, TypeOK, SafetyInv
<1> USE DEF history
<1>1. CASE RedisGet(p, r)
  <2> DEFINE key == redis[q.token]
             res == IF key = Absent THEN Null ELSE key.val
  <2>1. Execute(p, r, {"owner.get", "read.get"}, res) /\ UNCHANGED <<redis, history>>
    BY <1>1 DEF RedisGet
  <2>2. q.pc \in {"owner.get", "read.get"} /\ cache' = cache
    BY <2>1 DEF Execute, local
  <2>3. q.token \in Tokens
    BY <1>0, <2>2 DEF Shape, WaitingPCs
  <2>4. res \in RawValues \cup {Null}
    BY <1>0, <2>3 DEF LiveEntries
  <2>5. res \in Results
    BY <2>4 DEF Results, Replies
  <2>6. res # Null => ledger[q.token] # Null /\ Interpret(res) = ledger[q.token]
    BY <2>3 DEF SafetyInv, StoredSessionsFaithful
  <2> HIDE DEF res
  <2>7. Facts(Replied(q, res), ledger)
    BY <1>0, <2>2, <2>5, <2>6, ResultUpdate DEF Facts, Inside
  <2> QED
    BY <2>1, <2>2, <2>5, <2>7, ReplyMoves, PlainMove
<1>2. ASSUME NEW res \in Results, NEW pcs, Execute(p, r, pcs, res),
             pcs \subseteq WaitingPCs, ledger' = ledger,
             res = Error \/ pcs \cap {"owner.get", "read.get", "create.set", "rotate.set"} = {}
      PROVE  Moves(r) /\ q.pc \in pcs /\ cache' = cache
  <2>1. q.pc \in pcs /\ cache' = cache
    BY <1>2 DEF Execute, local
  <2>2. Facts(Replied(q, res), ledger)
    BY <1>0, <1>2, <2>1, ResultUpdate DEF Facts, Inside
  <2> QED
    BY <1>2, <2>1, <2>2, ReplyMoves
<1>3. CASE RedisTtl(p, r)
  <2>1. PICK left \in IF redis[q.token] = Absent THEN {-2}
                       ELSE {redis[q.token].ttl, redis[q.token].ttl - 1} :
          Execute(p, r, {"read.ttl"}, Seconds(left))
    BY <1>3 DEF RedisTtl
  <2>2. q.token \in Tokens /\ {"read.ttl"} \subseteq WaitingPCs
    BY <1>0, <1>3 DEF RedisTtl, Shape, WaitingPCs
  <2>3. Seconds(left) \in Results
    BY <1>0, <2>1, <2>2, TTLAssumption DEF LiveEntries, Results, Replies, Seconds
  <2>4. UNCHANGED <<redis, ledger, burned>>
    BY <1>3 DEF RedisTtl
  <2> QED
    BY <1>2, <2>1, <2>2, <2>3, <2>4, PlainMove
<1>4. CASE RedisRefresh(p, r)
  <2>1. /\ Execute(p, r, {"owner.expire"}, Null) /\ ExpireKey(q.token, SessionTTL)
        /\ UNCHANGED <<ledger, burned>>
    BY <1>4 DEF RedisRefresh, RefreshTTL
  <2>2. Null \in Results /\ {"owner.expire"} \subseteq WaitingPCs
    BY DEF Results, WaitingPCs
  <2>3. Moves(r) /\ q.pc = "owner.expire" /\ cache' = cache
    BY <1>2, <2>1, <2>2
  <2>4. q.token \in Tokens
    BY <1>0, <2>3 DEF Shape, WaitingPCs
  <2> QED
    BY <2>1, <2>3, <2>4, ExpireFaithful, MoveKeeps, SameLedger DEF SafetyInv, Quiet
<1>5. CASE RedisBurn(p, r)
  <2>1. /\ Execute(p, r, {"rotate.expire"}, Null) /\ ExpireKey(q.token, GraceTTL)
        /\ burned' \in {burned, burned \cup {q.token}} /\ ledger' = ledger
    BY <1>5 DEF RedisBurn
  <2>2. Null \in Results /\ {"rotate.expire"} \subseteq WaitingPCs
    BY DEF Results, WaitingPCs
  <2>3. Moves(r) /\ q.pc = "rotate.expire" /\ cache' = cache
    BY <1>2, <2>1, <2>2
  <2>4. q.token \in Tokens /\ q.new \in Tokens /\ q.payload \in Payloads
    BY <1>0, <2>3 DEF Shape, WaitingPCs
  <2>5. q.new \in Successors(q.token)
    BY <1>0, <2>3, <2>4, SpecialAssumption DEF Facts, Successors, RotatedPayload
  <2>6. SuccessorBeforeBurn'
    BY <2>1, <2>5 DEF SafetyInv, SuccessorBeforeBurn, Successors
  <2> QED
    BY <2>1, <2>3, <2>4, <2>6, ExpireFaithful, MoveKeeps, SameLedger DEF SafetyInv, Quiet
<1>6. CASE RedisMigrate(p, r)
  <2>1. /\ Execute(p, r, {"read.set"}, Null) /\ UNCHANGED <<ledger, burned>>
        /\ redis' = [redis EXCEPT ![q.token] = Entry(Serialize(q.payload), q.ttl)]
    BY <1>6 DEF RedisMigrate
  <2>2. Null \in Results /\ {"read.set"} \subseteq WaitingPCs
    BY DEF Results, WaitingPCs
  <2>3. Moves(r) /\ q.pc = "read.set" /\ cache' = cache
    BY <1>2, <2>1, <2>2
  <2>4. q.token \in Tokens /\ q.payload \in Payloads
    BY <1>0, <2>3 DEF Shape, WaitingPCs
  <2>5. q.payload = ledger[q.token] /\ ledger[q.token] # Null
    BY <1>0, <2>3, <2>4, SpecialAssumption DEF Facts
  <2>6. Interpret(Serialize(q.payload)) = q.payload
    BY <2>4, <2>5, PayloadVersion, RoundTrip DEF SafetyInv, VersionsIssued
  <2>7. redis'[q.token].val = Serialize(q.payload)
    BY <1>0, <2>1, <2>4 DEF Entry
  <2>8. StoredSessionsFaithful'
    BY <1>0, <2>1, <2>5, <2>6, <2>7 DEF SafetyInv, StoredSessionsFaithful
  <2> QED
    BY <2>1, <2>3, <2>8, MoveKeeps, SameLedger DEF SafetyInv, Quiet
<1>7. CASE RedisRefuse(p, r)
  <2>1. Execute(p, r, WaitingPCs, Error) /\ UNCHANGED <<redis, ledger, burned>>
    BY <1>7 DEF RedisRefuse
  <2>2. Error \in Results
    BY DEF Results
  <2> QED
    BY <1>2, <2>1, <2>2, PlainMove
<1> QED
  BY <1>1, <1>3, <1>4, <1>5, <1>6, <1>7, StoreSafe DEF Redis

LEMMA SetCacheOwner ==
  ASSUME TypeInv, SafetyInv, NEW p \in Procs, NEW t \in Tokens, NEW val, SetCache(p, t, val),
         \A u \in UserIds : val = Text(u) => ledger[t] # Null /\ ledger[t].userId = u,
         ledger' = ledger
  PROVE  CachedOwners'
<1> SUFFICES ASSUME NEW p1 \in Procs, NEW t1 \in Tokens, NEW u \in UserIds,
                    cache'[p1][t1] # Absent, cache'[p1][t1].val = Text(u)
             PROVE  ledger[t1] # Null /\ ledger[t1].userId = u
  BY DEF CachedOwners
<1>1. cache \in [Procs -> [Tokens ->
        LiveEntries(RawValues \cup {NotFound}, CacheTTL) \cup {Absent}]]
  BY DEF TypeInv, TypeOK
<1>2. CASE p1 = p /\ t1 = t
  <2>1. cache'[p1][t1] = Entry(val, CacheTTL)
    BY <1>1, <1>2 DEF SetCache
  <2> QED
    BY <1>2, <2>1 DEF Entry
<1>3. CASE ~(p1 = p /\ t1 = t)
  <2>1. cache'[p1][t1] = cache[p1][t1]
    BY <1>1, <1>3 DEF SetCache
  <2> QED
    BY <2>1 DEF SafetyInv, CachedOwners
<1> QED
  BY <1>2, <1>3

(* A value read for a token that is its owner's bare id names the owner.   *)
LEMMA TextOwner ==
  ASSUME NEW u \in UserIds, NEW payload, Interpret(Text(u)) = payload
  PROVE  payload.userId = u
BY DEF Interpret, IsLegacy, IsVersioned, MigrateLegacy, Text

LEMMA TextOwns ==
  ASSUME NEW u, NEW w, Text(u) = Text(w)
  PROVE  u = w
BY DEF Text

LEMMA HandlerSafe ==
  ASSUME TypeInv, SafetyInv, NEW p \in Procs, NEW r \in Reqs, Handler(p, r)
  PROVE  SafetyInv' /\ Quiet(r)
<1> DEFINE q == req[r]
<1>0. /\ q \in Requests /\ Shape(q) /\ Facts(q, ledger)
      /\ ledger \in [Tokens -> Payloads \cup {Null}]
      /\ 404 \in Nat /\ 401 \in Nat /\ 201 \in Nat /\ 200 \in Nat
  BY DEF TypeInv, TypeOK, SafetyInv
<1> USE DEF history, local
<1>1. CASE OwnerGot(p, r)
  <2>1. /\ q.pc = "owner.get" /\ q.res \notin {Pending, Error}
        /\ UNCHANGED <<redis, ledger, burned>>
    BY <1>1 DEF OwnerGot, Receive
  <2>2. q.user \in UserIds /\ q.token \in Tokens /\ q.res \in RawValues \cup {Null} /\ q.new \in {Null, q.new}
    BY <1>0, <2>1 DEF Shape, WaitingPCs
  <2>3. q.res # Null => ledger[q.token] # Null /\ Interpret(q.res) = ledger[q.token]
    BY <1>0, <2>1 DEF Facts
  <2>4. CASE q.res = Null
    <3>1. SetCache(p, q.token, NotFound) /\ Answer(r, q, 404)
      BY <1>1, <2>4 DEF OwnerGot
    <3>2. \A u \in UserIds : NotFound # Text(u)
      BY SpecialAssumption DEF RawValues, Texts
    <3>3. CachedOwners'
      BY <2>1, <2>2, <3>1, <3>2, SetCacheOwner
    <3>4. Moves(r)
      BY <1>0, <3>1, AnswerMoves
    <3> QED
      BY <2>1, <3>3, <3>4, MoveKeeps, SameLedger DEF SafetyInv, Quiet
  <2>5. CASE q.res # Null
    <3>1. SetCache(p, q.token, q.res) /\ Authorise(p, r, q, q.res)
      BY <1>1, <2>5 DEF OwnerGot
    <3>2. \A u \in UserIds : q.res = Text(u) => ledger[q.token] # Null /\ ledger[q.token].userId = u
      BY <2>3, <2>5, TextOwner
    <3>3. CachedOwners'
      BY <2>1, <2>2, <3>1, <3>2, SetCacheOwner
    <3>4. q.res = Text(q.user) => Owned(q)
      BY <2>2, <3>2 DEF Owned
    <3>5. Moves(r)
      BY <1>0, <3>1, <3>4, AuthoriseMoves
    <3> QED
      BY <2>1, <3>3, <3>5, MoveKeeps, SameLedger DEF SafetyInv, Quiet
  <2> QED
    BY <2>4, <2>5
<1>2. CASE OwnerRefreshed(p, r)
  <2>1. /\ q.pc = "owner.expire" /\ Handle(p, r, q)
        /\ UNCHANGED <<redis, cache, ledger, burned>>
    BY <1>2 DEF OwnerRefreshed, Receive
  <2>2. Owned(q)
    BY <1>0, <2>1 DEF Facts, Inside, WaitingPCs, Owned
  <2>3. Moves(r)
    BY <1>0, <2>1, <2>2, HandleMoves
  <2> QED
    BY <2>1, <2>3, PlainMove
<1>3. CASE SessionCreated(p, r)
  <2>1. /\ q.pc = "create.set" /\ q.res \notin {Pending, Error}
        /\ SetCache(p, q.new, Text(q.user)) /\ Answer(r, q, 201)
        /\ UNCHANGED <<redis, ledger, burned>>
    BY <1>3 DEF SessionCreated, Receive
  <2>2. q.new \in Tokens /\ q.payload \in Payloads
    BY <1>0, <2>1 DEF Shape
  <2>3. ledger[q.new] = FirstPayload(q.user, {}) /\ ledger[q.new] # Null
    BY <1>0, <2>1, <2>2, SpecialAssumption DEF Facts
  <2>4. \A u \in UserIds : Text(q.user) = Text(u) => ledger[q.new] # Null /\ ledger[q.new].userId = u
    BY <2>3, TextOwns DEF FirstPayload
  <2>5. CachedOwners'
    BY <2>1, <2>2, <2>4, SetCacheOwner
  <2>6. Moves(r)
    BY <1>0, <2>1, AnswerMoves
  <2> QED
    BY <2>1, <2>5, <2>6, MoveKeeps, SameLedger DEF SafetyInv, Quiet
<1>4. CASE SessionRead(p, r)
  <2>1. /\ q.pc = "read.get" /\ q.res \notin {Pending, Error}
        /\ UNCHANGED <<redis, cache, ledger, burned>>
    BY <1>4 DEF SessionRead, Receive
  <2>2. Owned(q)
    BY <1>0, <2>1 DEF Facts, Inside, WaitingPCs, Owned
  <2>3. q.res # Null => Interpret(q.res) = ledger[q.token]
    BY <1>0, <2>1 DEF Facts
  <2>4. CASE Answer(r, q, 401)
    BY <1>0, <2>1, <2>4, AnswerMoves, PlainMove
  <2>5. CASE /\ Readable(q.res) /\ IsLegacy(q.res)
             /\ Send(p, r, [q EXCEPT !.payload = MigrateLegacy(q.res)], "read.ttl")
    <3> DEFINE n == [q EXCEPT !.payload = MigrateLegacy(q.res)]
    <3>1. MigrateLegacy(q.res) = ledger[q.token]
      BY <2>3, <2>5 DEF Readable, Interpret
    <3>2. ledger[q.token] \in Payloads
      BY <1>0, <2>2 DEF Owned
    <3>3. /\ n \in Requests /\ n.user = q.user /\ n.token = q.token /\ n.new = q.new
          /\ n.payload = ledger[q.token]
      BY <1>0, <3>1, <3>2 DEF Requests
    <3>4. Send(p, r, n, "read.ttl")
      BY <2>5
    <3> HIDE DEF n
    <3>5. "read.ttl" \in WaitingPCs
      BY DEF WaitingPCs
    <3>6. Facts(Sent(n, "read.ttl"), ledger)
      BY <2>2, <3>3, <3>5, SendUpdate DEF Facts, Inside, Owned
    <3>7. Moves(r)
      BY <3>3, <3>4, <3>5, <3>6, SendMoves
    <3> QED
      BY <2>1, <3>7, PlainMove
  <2>6. CASE /\ Readable(q.res) /\ IsPayload(q.res)
             /\ StoreSuccessor(p, r, Deserialize(q.res))
    <3>1. Deserialize(q.res) = ledger[q.token]
      BY <2>3, <2>6 DEF Readable, Interpret, IsPayload, IsLegacy
    <3>2. Moves(r)
      BY <2>2, <2>6, <3>1, SuccessorMoves
    <3> QED
      BY <2>1, <3>2, PlainMove
  <2> QED
    BY <1>4, <2>4, <2>5, <2>6 DEF SessionRead
<1>5. CASE TtlRead(p, r)
  <2>1. q.pc = "read.ttl" /\ UNCHANGED <<redis, cache, ledger, burned>>
        /\ q.res \notin {Pending, Error}
    BY <1>5 DEF TtlRead, Receive
  <2>2. Owned(q) /\ q.payload = ledger[q.token]
    BY <1>0, <2>1 DEF Facts, Inside, WaitingPCs, Owned
  <2>3. CASE q.res.seconds > 0 /\ Send(p, r, [q EXCEPT !.ttl = q.res.seconds], "read.set")
    <3> DEFINE n == [q EXCEPT !.ttl = q.res.seconds]
    <3>1. q.res.seconds \in Nat
      BY <1>0, <2>1, <2>3 DEF Shape, Integer
    <3>2. /\ n \in Requests /\ n.user = q.user /\ n.token = q.token /\ n.new = q.new
          /\ n.payload = ledger[q.token]
      BY <1>0, <2>2, <3>1 DEF Requests
    <3>3. Send(p, r, n, "read.set")
      BY <2>3
    <3> HIDE DEF n
    <3>4. "read.set" \in WaitingPCs
      BY DEF WaitingPCs
    <3>5. Facts(Sent(n, "read.set"), ledger)
      BY <2>2, <3>2, <3>4, SendUpdate DEF Facts, Inside, Owned
    <3>6. Moves(r)
      BY <3>2, <3>3, <3>4, <3>5, SendMoves
    <3> QED
      BY <2>1, <3>6, PlainMove
  <2>4. CASE StoreSuccessor(p, r, q.payload)
    BY <2>1, <2>2, <2>4, SuccessorMoves, PlainMove
  <2> QED
    BY <1>5, <2>3, <2>4 DEF TtlRead
<1>6. CASE SessionMigrated(p, r)
  <2>1. /\ q.pc = "read.set" /\ StoreSuccessor(p, r, q.payload)
        /\ UNCHANGED <<redis, cache, ledger, burned>>
    BY <1>6 DEF SessionMigrated, Receive
  <2>2. Owned(q) /\ q.payload = ledger[q.token]
    BY <1>0, <2>1 DEF Facts, Inside, WaitingPCs, Owned
  <2> QED
    BY <2>1, <2>2, SuccessorMoves, PlainMove
<1>7. CASE SuccessorStored(p, r)
  <2>1. /\ q.pc = "rotate.set" /\ q.res \notin {Pending, Error}
        /\ Send(p, r, q, "rotate.expire") /\ UNCHANGED <<redis, cache, ledger, burned>>
    BY <1>7 DEF SuccessorStored, Receive
  <2>2. "rotate.expire" \in WaitingPCs
    BY DEF WaitingPCs
  <2>3. Facts(Sent(q, "rotate.expire"), ledger)
    BY <1>0, <2>1, <2>2, SendUpdate DEF Facts, Inside, WaitingPCs
  <2>4. Moves(r)
    BY <1>0, <2>1, <2>2, <2>3, SendMoves
  <2> QED
    BY <2>1, <2>4, PlainMove
<1>8. CASE RotationDone(p, r)
  <2>1. /\ q.pc = "rotate.expire" /\ ReplaceOwner(p, q) /\ Answer(r, q, 200)
        /\ UNCHANGED <<redis, ledger, burned>>
    BY <1>8 DEF RotationDone, Receive
  <2>2. /\ Owned(q) /\ q.payload = RotatedPayload(ledger[q.token], q.token)
        /\ ledger[q.new] = q.payload
    BY <1>0, <2>1 DEF Facts, Inside, WaitingPCs, Owned
  <2>3. q.new \in Tokens /\ q.payload \in Payloads
    BY <1>0, <2>1 DEF Shape
  <2>4. ledger[q.new] # Null /\ ledger[q.new].userId = q.user
    BY <2>2, <2>3, SpecialAssumption DEF Owned, RotatedPayload
  <2>5. CachedOwners'
    <3> SUFFICES ASSUME NEW p1 \in Procs, NEW t1 \in Tokens, NEW u \in UserIds,
                        cache'[p1][t1] # Absent, cache'[p1][t1].val = Text(u)
                 PROVE  ledger[t1] # Null /\ ledger[t1].userId = u
      BY <2>1 DEF CachedOwners
    <3>1. cache \in [Procs -> [Tokens ->
            LiveEntries(RawValues \cup {NotFound}, CacheTTL) \cup {Absent}]]
      BY DEF TypeInv, TypeOK
    <3>2. CASE p1 = p /\ t1 = q.new
      <4>1. cache'[p1][t1] = Entry(Text(q.user), CacheTTL)
        BY <2>1, <3>1, <3>2 DEF ReplaceOwner
      <4> QED
        BY <2>4, <3>2, <4>1, TextOwns DEF Entry
    <3>3. CASE ~(p1 = p /\ t1 = q.new)
      <4>1. cache'[p1][t1] \in {cache[p1][t1], Absent}
        BY <2>1, <3>1, <3>3 DEF ReplaceOwner
      <4> QED
        BY <4>1 DEF SafetyInv, CachedOwners
    <3> QED
      BY <3>2, <3>3
  <2>6. Moves(r)
    BY <1>0, <2>1, <2>2, AnswerMoves
  <2> QED
    BY <2>1, <2>5, <2>6, MoveKeeps, SameLedger DEF SafetyInv, Quiet
<1>9. CASE CommandFailed(p, r)
  <2>1. UNCHANGED <<redis, cache, ledger, burned>>
    BY <1>9 DEF CommandFailed
  <2>2. PICK status \in {500, 401} : Answer(r, q, status)
    BY <1>9 DEF CommandFailed
  <2>3. status \in Nat /\ status # 200
    OBVIOUS
  <2>4. Moves(r)
    BY <1>0, <2>2, <2>3, AnswerMoves
  <2> QED
    BY <2>1, <2>4, PlainMove
<1> QED
  BY <1>1, <1>2, <1>3, <1>4, <1>5, <1>6, <1>7, <1>8, <1>9 DEF Handler

LEMMA ClientSafe ==
  ASSUME TypeInv, SafetyInv, NEW p \in Procs, NEW r \in Reqs, Client(p, r)
  PROVE  SafetyInv' /\ Quiet(r)
<1> USE DEF history, local
<1>1. ASSUME NEW u \in UserIds, CreateRequest(p, r, u)
      PROVE  SafetyInv' /\ Quiet(r)
  <2>1. PICK t \in FreshTokens :
          Send(p, r, [NewRequest(p, "create", u, Null) EXCEPT
                        !.new = t, !.payload = FirstPayload(u, {})], "create.set")
    BY <1>1 DEF CreateRequest
  <2> DEFINE base == NewRequest(p, "create", u, Null)
             n    == [base EXCEPT !.new = t, !.payload = FirstPayload(u, {})]
  <2>2. base \in Requests /\ base.user = u
    BY NewRequestType
  <2>3. t \in Tokens /\ FirstPayload(u, {}) \in Payloads /\ ledger[t] = Null
    BY FirstType DEF FreshTokens
  <2> HIDE DEF base
  <2>4. /\ n \in Requests /\ n.user = u /\ n.new = t /\ n.payload = FirstPayload(u, {})
    BY ZenonT(60), <2>2, <2>3 DEF Requests
  <2>5. Send(p, r, n, "create.set")
    BY <2>1 DEF base
  <2> HIDE DEF n
  <2>6. "create.set" \in WaitingPCs
    BY DEF WaitingPCs
  <2>7. Facts(Sent(n, "create.set"), ledger)
    BY <2>4, <2>6, SendUpdate DEF Facts, Inside
  <2>8. Moves(r)
    BY <2>3, <2>4, <2>5, <2>6, <2>7, SendMoves
  <2>9. UNCHANGED <<redis, cache, ledger, burned>>
    BY <1>1 DEF CreateRequest
  <2> QED
    BY <2>8, <2>9, PlainMove
<1>2. ASSUME NEW u \in UserIds, NEW t \in Tokens, NEW op \in {"check", "rotate"},
             OwnerRequest(p, r, op, u, t)
      PROVE  SafetyInv' /\ Quiet(r)
  <2> DEFINE n == NewRequest(p, op, u, t)
  <2>1. n \in Requests /\ n.user = u /\ n.token = t /\ n.new = Null
    BY NewRequestType
  <2>2. \/ cache[p][t] # Absent /\ Authorise(p, r, n, cache[p][t].val)
        \/ Send(p, r, n, "owner.get")
    BY <1>2 DEF OwnerRequest
  <2> HIDE DEF n
  <2>3. ASSUME cache[p][t] # Absent, Authorise(p, r, n, cache[p][t].val)
        PROVE  Moves(r)
    <3>1. cache[p][t].val = Text(n.user) => Owned(n)
      BY <2>1, <2>3 DEF Owned, SafetyInv, CachedOwners
    <3> QED
      BY <2>1, <2>3, <3>1, AuthoriseMoves
  <2>4. ASSUME Send(p, r, n, "owner.get")
        PROVE  Moves(r)
    <3>1. "owner.get" \in WaitingPCs
      BY DEF WaitingPCs
    <3>2. Facts(Sent(n, "owner.get"), ledger)
      BY <2>1, <3>1, SendUpdate DEF Facts, Inside
    <3> QED
      BY <2>1, <2>4, <3>1, <3>2, SendMoves
  <2>5. Moves(r)
    BY <2>2, <2>3, <2>4
  <2>6. UNCHANGED <<redis, cache, ledger, burned>>
    BY <1>2 DEF OwnerRequest
  <2> QED
    BY <2>5, <2>6, PlainMove
<1> QED
  BY <1>1, <1>2 DEF Client

LEMMA EnvironmentSafe ==
  ASSUME TypeInv, SafetyInv, Environment
  PROVE  SafetyInv'
<1> USE DEF history, local
<1>0. /\ req \in [Reqs -> Requests] /\ \A r \in Reqs : Facts(req[r], ledger)
      /\ redis \in [Tokens -> LiveEntries(RawValues, SessionTTL) \cup {Absent}]
      /\ cache \in [Procs -> [Tokens ->
           LiveEntries(RawValues \cup {NotFound}, CacheTTL) \cup {Absent}]]
  BY DEF TypeInv, TypeOK, SafetyInv
<1>1. CASE Tick
  <2>1. UNCHANGED <<ledger, burned>>
    BY <1>1 DEF Tick
  <2>2. \A t \in Tokens : redis'[t] # Absent => redis[t] # Absent /\ redis'[t].val = redis[t].val
    BY <1>0, <1>1 DEF Tick, Aged, Entry
  <2>3. StoredSessionsFaithful'
    BY <2>1, <2>2 DEF SafetyInv, StoredSessionsFaithful
  <2>4. \A p \in Procs, t \in Tokens :
          cache'[p][t] # Absent => cache[p][t] # Absent /\ cache'[p][t].val = cache[p][t].val
    BY <1>0, <1>1 DEF Tick, Aged, Entry
  <2>5. CachedOwners'
    BY <2>1, <2>4 DEF SafetyInv, CachedOwners
  <2>6. ASSUME NEW r \in Reqs
        PROVE  /\ Facts(req'[r], ledger) /\ req'[r].new = req[r].new
               /\ Storing(req'[r]) <=> Storing(req[r])
    <3> DEFINE n == [req[r] EXCEPT !.age = @ + 1]
    <3>1. req'[r] \in {n, req[r]}
      BY <1>1 DEF Tick
    <3>2. /\ n.pc = req[r].pc /\ n.user = req[r].user /\ n.token = req[r].token
          /\ n.new = req[r].new /\ n.payload = req[r].payload /\ n.res = req[r].res
          /\ n.status = req[r].status
      BY <1>0 DEF Requests
    <3> HIDE DEF n
    <3>3. Facts(n, ledger)
      BY <1>0, <3>2 DEF Facts, Inside
    <3> QED
      BY <1>0, <3>1, <3>2, <3>3 DEF Storing
  <2>7. UnusedTokens'
    BY <2>1, <2>6 DEF SafetyInv, UnusedTokens
  <2>8. DistinctTokens'
    BY <2>6 DEF SafetyInv, DistinctTokens
  <2> QED
    BY <2>1, <2>3, <2>5, <2>6, <2>7, <2>8, SameLedger DEF SafetyInv
<1>2. ASSUME NEW t \in Tokens, Revoke(t)
      PROVE  SafetyInv'
  <2>1. UNCHANGED <<cache, ledger, burned, req>>
    BY <1>2 DEF Revoke
  <2>2. StoredSessionsFaithful'
    BY <1>0, <1>2, <2>1 DEF Revoke, SafetyInv, StoredSessionsFaithful
  <2> QED
    BY <2>1, <2>2, SameLedger DEF SafetyInv, UnusedTokens, DistinctTokens
<1>3. ASSUME NEW p \in Procs, Crash(p)
      PROVE  SafetyInv'
  <2>1. UNCHANGED <<redis, ledger, burned>>
    BY <1>3 DEF Crash
  <2>2. CachedOwners'
    BY <1>0, <1>3, <2>1 DEF Crash, SafetyInv, CachedOwners
  <2>3. ASSUME NEW r \in Reqs
        PROVE  /\ Facts(req'[r], ledger) /\ req'[r].new \in {req[r].new, Null}
               /\ Storing(req'[r]) => req'[r] = req[r]
    <3>1. req'[r] \in {Done(req[r], 0), req[r]}
      BY <1>3 DEF Crash
    <3>2. /\ Done(req[r], 0).pc = "done" /\ Done(req[r], 0).status = 0
          /\ Done(req[r], 0).new = Null
      BY <1>0, DoneType
    <3>3. Facts(Done(req[r], 0), ledger)
      BY <3>2 DEF Facts, Inside, WaitingPCs
    <3> QED
      BY <1>0, <3>1, <3>2, <3>3 DEF Storing
  <2>4. UnusedTokens'
    BY <2>1, <2>3 DEF SafetyInv, UnusedTokens
  <2>5. DistinctTokens'
    BY <2>3 DEF SafetyInv, DistinctTokens
  <2> QED
    BY <2>1, <2>2, <2>3, <2>4, <2>5, SameLedger DEF SafetyInv
<1>4. ASSUME NEW p \in Procs, NEW t \in Tokens, EvictOwner(p, t)
      PROVE  SafetyInv'
  <2>1. UNCHANGED <<redis, ledger, burned, req>>
    BY <1>4 DEF EvictOwner
  <2>2. CachedOwners'
    BY <1>0, <1>4, <2>1 DEF EvictOwner, SafetyInv, CachedOwners
  <2> QED
    BY <2>1, <2>2, SameLedger DEF SafetyInv, UnusedTokens, DistinctTokens
<1>5. ASSUME NEW p \in Procs, NEW t \in Tokens, EvictThrottle(p, t)
      PROVE  SafetyInv'
  <2>1. UNCHANGED <<redis, cache, ledger, burned, req>>
    BY <1>5 DEF EvictThrottle
  <2> QED
    BY <2>1, SameLedger DEF SafetyInv, UnusedTokens, DistinctTokens
<1> QED
  BY <1>1, <1>2, <1>3, <1>4, <1>5 DEF Environment

LEMMA InitSafe == Init => SafetyInv
<1> SUFFICES ASSUME Init PROVE SafetyInv
  OBVIOUS
<1>1. PICK owner \in [LegacyTokens -> UserIds], ttl \in [LegacyTokens -> 1 .. SessionTTL] :
        /\ redis  = [t \in Tokens |-> IF t \in LegacyTokens
                                         THEN Entry(Text(owner[t]), ttl[t]) ELSE Absent]
        /\ ledger = [t \in Tokens |-> IF t \in LegacyTokens
                                         THEN MigrateLegacy(Text(owner[t])) ELSE Null]
  BY DEF Init
<1>2. \A t \in LegacyTokens : /\ MigrateLegacy(Text(owner[t])) \in Payloads
                             /\ MigrateLegacy(Text(owner[t])) # Null
  BY MigrateType, SpecialAssumption DEF RawValues, Texts
<1>3. StoredSessionsFaithful
  BY <1>1, <1>2 DEF StoredSessionsFaithful, Entry, Interpret, IsLegacy, IsVersioned, Text
<1>4. CachedOwners /\ SuccessorBeforeBurn
  BY DEF Init, CachedOwners, SuccessorBeforeBurn
<1>5. LineageConsistent /\ VersionsIssued
  BY <1>1 DEF LineageConsistent, VersionsIssued, MigrateLegacy
<1>6. \A r \in Reqs : /\ req[r].pc = "idle" /\ req[r].new = Null
  BY DEF Init, IdleRequest, NewRequest
<1>7. UnusedTokens /\ DistinctTokens /\ \A r \in Reqs : Facts(req[r], ledger)
  BY <1>6 DEF UnusedTokens, DistinctTokens, Storing, Facts, Inside, WaitingPCs
<1> QED
  BY <1>3, <1>4, <1>5, <1>7 DEF SafetyInv

LEMMA SafetyStep == TypeInv /\ SafetyInv /\ [Next]_vars => SafetyInv'
<1> SUFFICES ASSUME TypeInv, SafetyInv, [Next]_vars PROVE SafetyInv'
  OBVIOUS
<1>1. CASE UNCHANGED vars
  <2>1. UNCHANGED <<redis, cache, ledger, burned, req>>
    BY <1>1 DEF vars
  <2> QED
    BY <2>1, SameLedger DEF SafetyInv, UnusedTokens, DistinctTokens
<1>2. CASE Next
  BY <1>2, ClientSafe, RedisSafe, HandlerSafe, EnvironmentSafe DEF Next
<1> QED
  BY <1>1, <1>2

LEMMA Safety == Spec => [](TypeInv /\ SafetyInv)
BY InitTypes, InitSafe, TypeStep, SafetyStep, PTL DEF Spec

(* Write-backs, rotations and creations leave under every token the        *)
(* payload it was issued with.                                             *)
THEOREM StoredFaithfully == Spec => []StoredSessionsFaithful
<1>1. TypeInv /\ SafetyInv => StoredSessionsFaithful
  BY DEF SafetyInv
<1> QED
  BY Safety, <1>1, PTL

(* Nobody is let into, or cached for, another user's session.              *)
THEOREM OwnersIsolated == Spec => []OwnerIsolation
<1>1. TypeInv /\ SafetyInv => OwnerIsolation
  BY DEF SafetyInv, OwnerIsolation, CachedOwners, Admitted, OwnerOf, Facts, Inside
<1> QED
  BY Safety, <1>1, PTL

(* A session continues the one it names as its predecessor.                *)
THEOREM LineageSound == Spec => []LineageConsistent
<1>1. TypeInv /\ SafetyInv => LineageConsistent
  BY DEF SafetyInv
<1> QED
  BY Safety, <1>1, PTL

(* No token is burned before its successor is stored.                      *)
THEOREM BurnHasSuccessor == Spec => []SuccessorBeforeBurn
<1>1. TypeInv /\ SafetyInv => SuccessorBeforeBurn
  BY DEF SafetyInv
<1> QED
  BY Safety, <1>1, PTL

-----------------------------------------------------------------------------
(* The server implements the ledger.                                       *)

ServedAs(q) == IF Inside(q) THEN <<q.user, q.token>> ELSE Null

LEMMA ServingValue == serving = [r \in Reqs |-> ServedAs(req[r])]
BY DEF serving, ServedAs, Admitted, Inside

LEMMA ServingNext == serving' = [r \in Reqs |-> ServedAs(req'[r])]
BY DEF serving, ServedAs, Admitted, Inside

LEMMA QuietRefines ==
  ASSUME TypeInv', NEW r \in Reqs, Quiet(r)
  PROVE  Ledger!Next
<1>1. /\ ledger' = ledger /\ \A s \in Reqs \ {r} : req'[s] = req[s]
      /\ Facts(req'[r], ledger)
  BY DEF Quiet, Moves
<1>2. \A s \in Reqs \ {r} : serving'[s] = serving[s]
  BY <1>1, ServingValue, ServingNext
<1>3. CASE Inside(req'[r])
  <2> DEFINE u == req'[r].user  t == req'[r].token
  <2>1. /\ t \in Tokens /\ ledger[t] # Null /\ ledger[t].userId = u
    BY <1>1, <1>3 DEF Facts
  <2>2. u \in UserIds
    BY <1>3 DEF TypeInv, Shape, Inside
  <2>3. serving'[r] = <<u, t>>
    BY <1>3, ServingNext DEF ServedAs
  <2>4. serving' = [serving EXCEPT ![r] = <<u, t>>]
    BY <1>2, <2>3, ServingValue, ServingNext
  <2>5. Ledger!Admit(r, u, t)
    BY <1>1, <2>1, <2>4 DEF Ledger!Admit
  <2> QED
    BY <2>1, <2>2, <2>5 DEF Ledger!Next
<1>4. CASE ~Inside(req'[r])
  <2>1. serving'[r] = Null
    BY <1>4, ServingNext DEF ServedAs
  <2>2. serving' = [s \in Reqs |-> IF s \in {r} THEN Null ELSE serving[s]]
    BY <1>2, <2>1, ServingNext
  <2>3. Ledger!Leave({r}) /\ {r} \in SUBSET Reqs
    BY <1>1, <2>2 DEF Ledger!Leave
  <2> QED
    BY <2>3 DEF Ledger!Next
<1> QED
  BY <1>3, <1>4

LEMMA StoreRefines ==
  ASSUME TypeInv, SafetyInv, NEW p \in Procs, NEW r \in Reqs, RedisStore(p, r)
  PROVE  Ledger!Next
<1> DEFINE q == req[r]
<1>1. /\ Execute(p, r, {"create.set", "rotate.set"}, Null)
      /\ ledger' = [ledger EXCEPT ![q.new] = q.payload]
  BY DEF RedisStore
<1>2. /\ req \in [Reqs -> Requests] /\ wire \in [Procs -> Seq(Reqs)]
      /\ replies \in [Procs -> Seq(Reqs)] /\ Null \in Results
  BY DEF TypeInv, TypeOK, Results
<1>3. /\ q.pc \in {"create.set", "rotate.set"} /\ q.res = Pending
      /\ req'[r] = Replied(q, Null) /\ \A s \in Reqs \ {r} : req'[s] = req[s]
  BY <1>1, <1>2, ExecuteEffect
<1>4. /\ Replied(q, Null).pc = q.pc /\ Replied(q, Null).user = q.user
      /\ Replied(q, Null).token = q.token /\ Replied(q, Null).status = q.status
  BY <1>2, ResultUpdate
<1>5. \A s \in Reqs : ServedAs(req'[s]) = ServedAs(req[s])
  BY <1>3, <1>4 DEF ServedAs, Inside
<1>6. serving' = serving
  BY <1>5, ServingValue, ServingNext
<1>7. /\ q.user \in UserIds /\ q.new \in Tokens /\ ledger[q.new] = Null /\ Facts(q, ledger)
  BY <1>3 DEF TypeInv, Shape, WaitingPCs, SafetyInv, UnusedTokens, Storing
<1>8. CASE q.pc = "create.set"
  <2>1. q.payload = FirstPayload(q.user, {})
    BY <1>7, <1>8 DEF Facts
  <2>2. Ledger!Open(q.user, q.new)
    BY <1>1, <1>6, <1>7, <2>1 DEF Ledger!Open, FirstPayload, Ledger!FirstPayload,
       CurrentVersion, Ledger!CurrentVersion
  <2> QED
    BY <1>7, <2>2 DEF Ledger!Next
<1>9. CASE q.pc = "rotate.set"
  <2>1. q.payload = RotatedPayload(ledger[q.token], q.token) /\ q.token \in Tokens
    BY <1>7, <1>9 DEF Facts, Inside, WaitingPCs
  <2>2. serving[r] = <<q.user, q.token>>
    BY <1>9, ServingValue DEF ServedAs, Inside, WaitingPCs
  <2>3. Ledger!Continue(r, q.user, q.token, q.new)
    BY <1>1, <1>6, <1>7, <2>1, <2>2 DEF Ledger!Continue, RotatedPayload,
       Ledger!RotatedPayload, CurrentVersion, Ledger!CurrentVersion
  <2> QED
    BY <1>7, <2>1, <2>3 DEF Ledger!Next
<1> QED
  BY <1>3, <1>8, <1>9

LEMMA EnvironmentRefines ==
  ASSUME TypeInv, TypeInv', Environment
  PROVE  [Ledger!Next]_<<ledger, serving>>
<1>1. ASSUME ledger' = ledger, \A r \in Reqs : ServedAs(req'[r]) = ServedAs(req[r])
      PROVE  UNCHANGED <<ledger, serving>>
  BY <1>1, ServingValue, ServingNext
<1>2. CASE Tick
  <2>1. ASSUME NEW r \in Reqs
        PROVE  ServedAs(req'[r]) = ServedAs(req[r])
    <3> DEFINE n == [req[r] EXCEPT !.age = @ + 1]
    <3>1. req'[r] \in {n, req[r]}
      BY <1>2 DEF Tick
    <3>2. /\ n.pc = req[r].pc /\ n.user = req[r].user /\ n.token = req[r].token
          /\ n.status = req[r].status
      BY DEF TypeInv, TypeOK, Requests
    <3> HIDE DEF n
    <3> QED
      BY <3>1, <3>2 DEF ServedAs, Inside
  <2>2. ledger' = ledger
    BY <1>2 DEF Tick
  <2> QED
    BY <1>1, <2>1, <2>2
<1>3. ASSUME NEW p \in Procs, Crash(p)
      PROVE  Ledger!Next
  <2>1. ledger' = ledger
    BY <1>3 DEF Crash
  <2>2. \A r \in Reqs : IF r \in Outstanding(p) THEN req'[r] = Done(req[r], 0)
                                               ELSE req'[r] = req[r]
    BY <1>3 DEF Crash
  <2>3. ASSUME NEW r \in Reqs
        PROVE  ServedAs(Done(req[r], 0)) = Null
    <3>1. Done(req[r], 0).pc = "done" /\ Done(req[r], 0).status = 0
      BY ZenonT(60), DoneType DEF TypeInv, TypeOK
    <3> QED
      BY <3>1 DEF ServedAs, Inside, WaitingPCs
  <2>4. serving' = [r \in Reqs |-> IF r \in Outstanding(p) THEN Null ELSE serving[r]]
    BY <2>2, <2>3, ServingValue, ServingNext
  <2>5. Ledger!Leave(Outstanding(p)) /\ Outstanding(p) \in SUBSET Reqs
    BY <2>1, <2>4 DEF Ledger!Leave, Outstanding
  <2> QED
    BY <2>5 DEF Ledger!Next
<1>4. CASE \/ \E t \in Tokens : Revoke(t)
           \/ \E p \in Procs, t \in Tokens : EvictOwner(p, t) \/ EvictThrottle(p, t)
  <2>1. ledger' = ledger /\ req' = req
    BY <1>4 DEF Revoke, EvictOwner, EvictThrottle, history
  <2> QED
    BY <1>1, <2>1
<1> QED
  BY <1>2, <1>3, <1>4 DEF Environment

LEMMA InitRefines ==
  ASSUME Init
  PROVE  Ledger!Init
<1>1. PICK owner \in [LegacyTokens -> UserIds] :
        ledger = [t \in Tokens |-> IF t \in LegacyTokens
                                     THEN MigrateLegacy(Text(owner[t])) ELSE Null]
  BY DEF Init
<1>2. \A t \in LegacyTokens : MigrateLegacy(Text(owner[t]))
                              \in {Ledger!MigrateLegacy(Ledger!Text(u)) : u \in UserIds}
  BY DEF MigrateLegacy, Text, CurrentVersion, Ledger!MigrateLegacy, Ledger!Text,
     Ledger!CurrentVersion
<1>3. \A r \in Reqs : ServedAs(req[r]) = Null
  BY DEF Init, IdleRequest, NewRequest, ServedAs, Inside, WaitingPCs
<1>4. serving = [r \in Reqs |-> Null]
  BY <1>3, ServingValue
<1> QED
  BY <1>1, <1>2, <1>4 DEF Ledger!Init

(* Whatever the caches, write-backs, refused commands and crashes between  *)
(* them do, creations, rotations and checks are those of the ledger.       *)
THEOREM ImplementsLedger == Spec => LedgerSpec
<1>1. Init => Ledger!Init
  BY InitRefines
<1>2. TypeInv /\ TypeInv' /\ SafetyInv /\ [Next]_vars => [Ledger!Next]_<<ledger, serving>>
  <2> SUFFICES ASSUME TypeInv, TypeInv', SafetyInv, [Next]_vars
               PROVE  [Ledger!Next]_<<ledger, serving>>
    OBVIOUS
  <2>1. CASE UNCHANGED vars
    <3>1. ledger' = ledger /\ req' = req
      BY <2>1 DEF vars
    <3> QED
      BY <3>1, ServingValue, ServingNext
  <2>2. CASE Environment
    BY <2>2, EnvironmentRefines
  <2>3. ASSUME NEW p \in Procs, NEW r \in Reqs,
               Client(p, r) \/ Redis(p, r) \/ Handler(p, r)
        PROVE  Ledger!Next
    <3>1. RedisStore(p, r) \/ Quiet(r)
      BY <2>3, ClientSafe, RedisSafe, HandlerSafe
    <3> QED
      BY <3>1, QuietRefines, StoreRefines
  <2> QED
    BY <2>1, <2>2, <2>3 DEF Next
<1> QED
  BY <1>1, <1>2, Safety, PTL DEF Spec, LedgerSpec, Ledger!Spec
-----------------------------------------------------------------------------
(* Time: how long a cached owner is honoured, what the throttle promises,  *)
(* and what a process that has rotated a token remembers of it.  The       *)
(* invariants below relate clocks of different owners, so what they need   *)
(* of a step is first told once, for all of them.                          *)

Answered(q) == q.res \notin {Pending, Error}
Storers     == {"create.set", "rotate.set", "rotate.expire"}

CachedOwner(p, t, u) == cache[p][t] # Absent /\ cache[p][t].val = Text(u)

Ended(n) == n.pc = "done" /\ n.new = Null

(* The command n that a handler leaves behind, q being what it resumed.    *)
Launched(q, n) ==
  /\ n.res = Pending
  /\ \/ n.pc = "create.set" /\ n.new \in FreshTokens /\ n.age = 0
     \/ /\ n.pc \in {"owner.get", "owner.expire", "read.get"}
        /\ n.token \in known /\ n.age = 0
        /\ n.pc = "owner.expire" => \E p \in Procs, u \in UserIds : CachedOwner(p, n.token, u)
     \/ /\ n.age = q.age /\ n.token = q.token
        /\ \/ n.pc = "owner.expire" /\ q.pc = "owner.get" /\ \E u \in UserIds : q.res = Text(u)
           \/ n.pc = "read.get" /\ q.pc \in {"owner.get", "owner.expire"}
           \/ n.pc = "read.ttl" /\ q.pc = "read.get" /\ q.res # Null /\ Answered(q) /\ IsLegacy(q.res)
           \/ n.pc = "read.set" /\ q.pc = "read.ttl"
           \/ n.pc = "rotate.set" /\ q.pc \in {"read.get", "read.ttl", "read.set"}
                /\ n.new \in FreshTokens
           \/ n.pc = "rotate.expire" /\ q.pc = "rotate.set" /\ Answered(q) /\ n.new = q.new

(* What it does to the state of its process and to what the clients know.  *)
Effect(p, q) ==
  \/ UNCHANGED <<cache, throttle, known, rotatedBy>>
  \/ /\ q.pc = "owner.get" /\ Answered(q)
     /\ \/ SetCache(p, q.token, NotFound)
        \/ q.res # Null /\ SetCache(p, q.token, q.res)
     /\ UNCHANGED <<throttle, known, rotatedBy>>
  \/ /\ q.pc = "owner.expire" /\ Answered(q)
     /\ throttle' = [throttle EXCEPT ![p][q.token] = ThrottleTTL]
     /\ UNCHANGED <<cache, known, rotatedBy>>
  \/ /\ q.pc = "create.set" /\ Answered(q)
     /\ SetCache(p, q.new, Text(q.user))
     /\ known' = known \cup {q.new}
     /\ UNCHANGED <<throttle, rotatedBy>>
  \/ /\ q.pc = "rotate.expire" /\ Answered(q)
     /\ ReplaceOwner(p, q)
     /\ known' = known \cup {q.new}
     /\ rotatedBy' = rotatedBy \cup {<<p, q.token>>}
     /\ UNCHANGED throttle

Resumed(p, r) ==
  /\ \A s \in Reqs \ {r} : req'[s] = req[s]
  /\ Ended(req'[r]) \/ Launched(req[r], req'[r])
  /\ Effect(p, req[r])
  /\ UNCHANGED <<redis, ledger, burned, deadFor>>

LEMMA AnswerEnds ==
  ASSUME TypeInv, NEW r \in Reqs, NEW q \in Requests, NEW status \in Nat, Answer(r, q, status)
  PROVE  /\ \A s \in Reqs \ {r} : req'[s] = req[s]
         /\ Ended(req'[r])
<1>1. req \in [Reqs -> Requests]
  BY DEF TypeInv, TypeOK
<1> QED
  BY <1>1, AnswerEffect, DoneType DEF Ended

LEMMA SendLeaves ==
  ASSUME TypeInv, NEW p \in Procs, NEW r \in Reqs, NEW q \in Requests,
         NEW pc \in WaitingPCs, Send(p, r, q, pc)
  PROVE  /\ \A s \in Reqs \ {r} : req'[s] = req[s]
         /\ req'[r].pc = pc /\ req'[r].res = Pending /\ req'[r].new = q.new
         /\ req'[r].token = q.token /\ req'[r].age = q.age
<1>1. req \in [Reqs -> Requests] /\ wire \in [Procs -> Seq(Reqs)]
  BY DEF TypeInv, TypeOK
<1> QED
  BY <1>1, SendEffect, SendUpdate

LEMMA HandleLeaves ==
  ASSUME TypeInv, NEW p \in Procs, NEW r \in Reqs, NEW q \in Requests, Handle(p, r, q)
  PROVE  /\ \A s \in Reqs \ {r} : req'[s] = req[s]
         /\ \/ Ended(req'[r])
            \/ /\ req'[r].pc = "read.get" /\ req'[r].res = Pending
               /\ req'[r].token = q.token /\ req'[r].age = q.age
<1>1. CASE Answer(r, q, 200)
  BY <1>1, AnswerEnds
<1>2. CASE Send(p, r, q, "read.get")
  <2>1. "read.get" \in WaitingPCs
    BY DEF WaitingPCs
  <2> QED
    BY <1>2, <2>1, SendLeaves
<1> QED
  BY <1>1, <1>2 DEF Handle

LEMMA AuthoriseLeaves ==
  ASSUME TypeInv, NEW p \in Procs, NEW r \in Reqs, NEW q \in Requests, NEW ownerId,
         Authorise(p, r, q, ownerId)
  PROVE  /\ \A s \in Reqs \ {r} : req'[s] = req[s]
         /\ \/ Ended(req'[r])
            \/ /\ req'[r].pc = "read.get" /\ req'[r].res = Pending
               /\ req'[r].token = q.token /\ req'[r].age = q.age
            \/ /\ req'[r].pc = "owner.expire" /\ req'[r].res = Pending
               /\ req'[r].token = q.token /\ req'[r].age = q.age
               /\ ownerId = Text(q.user)
<1>1. CASE \E status \in Nat : Answer(r, q, status)
  BY <1>1, AnswerEnds
<1>2. CASE IsOwner(ownerId, q.user) /\ Send(p, r, q, "owner.expire")
  <2>1. "owner.expire" \in WaitingPCs
    BY DEF WaitingPCs
  <2> QED
    BY <1>2, <2>1, SendLeaves DEF IsOwner
<1>3. CASE Handle(p, r, q)
  BY <1>3, HandleLeaves
<1> QED
  BY <1>1, <1>2, <1>3 DEF Authorise

LEMMA SuccessorLeaves ==
  ASSUME TypeInv, NEW p \in Procs, NEW r \in Reqs, NEW payload \in Payloads,
         req[r].token \in Tokens, StoreSuccessor(p, r, payload)
  PROVE  /\ \A s \in Reqs \ {r} : req'[s] = req[s]
         /\ req'[r].pc = "rotate.set" /\ req'[r].res = Pending /\ req'[r].new \in FreshTokens
         /\ req'[r].token = req[r].token /\ req'[r].age = req[r].age
<1> DEFINE q == req[r]
           stored == RotatedPayload(payload, q.token)
           next(t) == [q EXCEPT !.new = t, !.payload = stored]
<1>1. PICK t \in FreshTokens : Send(p, r, next(t), "rotate.set")
  BY DEF StoreSuccessor
<1>2. q \in Requests /\ t \in Tokens /\ q.token \in Tokens
  BY FreshTokensType DEF TypeInv, TypeOK
<1>3. stored \in Payloads
  BY <1>2, RotatedType
<1> HIDE DEF stored
<1>4. /\ next(t) \in Requests /\ next(t).token = q.token /\ next(t).new = t
      /\ next(t).age = q.age
  BY <1>2, <1>3 DEF Requests
<1> HIDE DEF next
<1>5. "rotate.set" \in WaitingPCs
  BY DEF WaitingPCs
<1> QED
  BY <1>1, <1>4, <1>5, SendLeaves

LEMMA HandlerResumed ==
  ASSUME TypeInv, SafetyInv, NEW p \in Procs, NEW r \in Reqs, Handler(p, r)
  PROVE  Resumed(p, r)
<1> DEFINE q == req[r]
<1>0. /\ q \in Requests /\ Shape(q) /\ Facts(q, ledger)
      /\ ledger \in [Tokens -> Payloads \cup {Null}] /\ Null \notin Payloads
      /\ 404 \in Nat /\ 401 \in Nat /\ 201 \in Nat /\ 200 \in Nat /\ 500 \in Nat
  BY SpecialAssumption DEF TypeInv, TypeOK, SafetyInv
<1> USE DEF history, local
<1>1. CASE OwnerGot(p, r)
  <2>1. /\ q.pc = "owner.get" /\ Answered(q)
        /\ UNCHANGED <<redis, throttle, known, ledger, burned, rotatedBy, deadFor>>
    BY <1>1 DEF OwnerGot, Receive, Answered
  <2>2. q.user \in UserIds
    BY <1>0, <2>1 DEF Shape, WaitingPCs
  <2>3. CASE SetCache(p, q.token, NotFound) /\ Answer(r, q, 404)
    BY <1>0, <2>1, <2>3, AnswerEnds DEF Resumed, Effect
  <2>4. CASE q.res # Null /\ SetCache(p, q.token, q.res) /\ Authorise(p, r, q, q.res)
    <3>1. Launched(q, req'[r]) \/ Ended(req'[r])
      BY <1>0, <2>1, <2>2, <2>4, AuthoriseLeaves DEF Launched
    <3>2. \A s \in Reqs \ {r} : req'[s] = req[s]
      BY <1>0, <2>4, AuthoriseLeaves
    <3> QED
      BY <2>1, <2>4, <3>1, <3>2 DEF Resumed, Effect
  <2> QED
    BY <1>1, <2>3, <2>4 DEF OwnerGot
<1>2. CASE OwnerRefreshed(p, r)
  <2>1. /\ q.pc = "owner.expire" /\ Answered(q) /\ Handle(p, r, q)
        /\ throttle' = [throttle EXCEPT ![p][q.token] = ThrottleTTL]
        /\ UNCHANGED <<redis, cache, known, ledger, burned, rotatedBy, deadFor>>
    BY <1>2 DEF OwnerRefreshed, Receive, Answered
  <2>2. Launched(q, req'[r]) \/ Ended(req'[r])
    BY <1>0, <2>1, HandleLeaves DEF Launched
  <2>3. \A s \in Reqs \ {r} : req'[s] = req[s]
    BY <1>0, <2>1, HandleLeaves
  <2> QED
    BY <2>1, <2>2, <2>3 DEF Resumed, Effect
<1>3. CASE SessionCreated(p, r)
  <2>1. /\ q.pc = "create.set" /\ Answered(q) /\ Answer(r, q, 201)
        /\ SetCache(p, q.new, Text(q.user)) /\ known' = known \cup {q.new}
        /\ UNCHANGED <<redis, throttle, ledger, burned, rotatedBy, deadFor>>
    BY <1>3 DEF SessionCreated, Receive, Answered
  <2> QED
    BY <1>0, <2>1, AnswerEnds DEF Resumed, Effect
<1>4. CASE SessionRead(p, r)
  <2>1. /\ q.pc = "read.get" /\ Answered(q)
        /\ UNCHANGED <<redis, cache, throttle, known, ledger, burned, rotatedBy, deadFor>>
    BY <1>4 DEF SessionRead, Receive, Answered
  <2>2. q.token \in Tokens /\ q.res \in RawValues \cup {Null}
    BY <1>0, <2>1 DEF Shape, WaitingPCs, Answered
  <2>3. CASE Answer(r, q, 401)
    BY <1>0, <2>1, <2>3, AnswerEnds DEF Resumed, Effect
  <2>4. CASE /\ q.res # Null /\ IsLegacy(q.res)
             /\ Send(p, r, [q EXCEPT !.payload = MigrateLegacy(q.res)], "read.ttl")
    <3> DEFINE n == [q EXCEPT !.payload = MigrateLegacy(q.res)]
    <3>1. MigrateLegacy(q.res) \in Payloads
      BY <2>2, <2>4, MigrateType
    <3>2. n \in Requests /\ n.token = q.token /\ n.age = q.age
      BY <1>0, <3>1 DEF Requests
    <3>3. "read.ttl" \in WaitingPCs /\ Send(p, r, n, "read.ttl")
      BY <2>4 DEF WaitingPCs
    <3> HIDE DEF n
    <3>4. Launched(q, req'[r]) /\ \A s \in Reqs \ {r} : req'[s] = req[s]
      BY <2>1, <2>4, <3>2, <3>3, SendLeaves DEF Launched
    <3> QED
      BY <2>1, <3>4 DEF Resumed, Effect
  <2>5. CASE IsPayload(q.res) /\ q.res # Null /\ StoreSuccessor(p, r, Deserialize(q.res))
    <3>1. Deserialize(q.res) \in Payloads
      BY <2>2, <2>5, DeserializeType
    <3>2. Launched(q, req'[r]) /\ \A s \in Reqs \ {r} : req'[s] = req[s]
      BY <2>1, <2>2, <2>5, <3>1, SuccessorLeaves DEF Launched
    <3> QED
      BY <2>1, <3>2 DEF Resumed, Effect
  <2> QED
    BY <1>4, <2>3, <2>4, <2>5 DEF SessionRead, Readable
<1>5. CASE TtlRead(p, r)
  <2>1. /\ q.pc = "read.ttl" /\ Answered(q)
        /\ UNCHANGED <<redis, cache, throttle, known, ledger, burned, rotatedBy, deadFor>>
    BY <1>5 DEF TtlRead, Receive, Answered
  <2>2. q.token \in Tokens /\ q.payload \in Payloads /\ q.res \in Integer
    BY <1>0, <2>1 DEF Shape, WaitingPCs, Answered
  <2>3. CASE q.res.seconds > 0 /\ Send(p, r, [q EXCEPT !.ttl = q.res.seconds], "read.set")
    <3> DEFINE n == [q EXCEPT !.ttl = q.res.seconds]
    <3>1. q.res.seconds \in Nat
      BY <2>2, <2>3 DEF Integer
    <3>2. n \in Requests /\ n.token = q.token /\ n.age = q.age
      BY <1>0, <3>1 DEF Requests
    <3>3. "read.set" \in WaitingPCs /\ Send(p, r, n, "read.set")
      BY <2>3 DEF WaitingPCs
    <3> HIDE DEF n
    <3>4. Launched(q, req'[r]) /\ \A s \in Reqs \ {r} : req'[s] = req[s]
      BY <2>1, <3>2, <3>3, SendLeaves DEF Launched
    <3> QED
      BY <2>1, <3>4 DEF Resumed, Effect
  <2>4. CASE StoreSuccessor(p, r, q.payload)
    <3>1. Launched(q, req'[r]) /\ \A s \in Reqs \ {r} : req'[s] = req[s]
      BY <2>1, <2>2, <2>4, SuccessorLeaves DEF Launched
    <3> QED
      BY <2>1, <3>1 DEF Resumed, Effect
  <2> QED
    BY <1>5, <2>3, <2>4 DEF TtlRead
<1>6. CASE SessionMigrated(p, r)
  <2>1. /\ q.pc = "read.set" /\ StoreSuccessor(p, r, q.payload)
        /\ UNCHANGED <<redis, cache, throttle, known, ledger, burned, rotatedBy, deadFor>>
    BY <1>6 DEF SessionMigrated, Receive
  <2>2. q.token \in Tokens /\ q.payload \in Payloads
    BY <1>0, <2>1 DEF Shape, WaitingPCs
  <2>3. Launched(q, req'[r]) /\ \A s \in Reqs \ {r} : req'[s] = req[s]
    BY <2>1, <2>2, SuccessorLeaves DEF Launched
  <2> QED
    BY <2>1, <2>3 DEF Resumed, Effect
<1>7. CASE SuccessorStored(p, r)
  <2>1. /\ q.pc = "rotate.set" /\ Answered(q) /\ Send(p, r, q, "rotate.expire")
        /\ UNCHANGED <<redis, cache, throttle, known, ledger, burned, rotatedBy, deadFor>>
    BY <1>7 DEF SuccessorStored, Receive, Answered
  <2>2. "rotate.expire" \in WaitingPCs
    BY DEF WaitingPCs
  <2>3. Launched(q, req'[r]) /\ \A s \in Reqs \ {r} : req'[s] = req[s]
    BY <1>0, <2>1, <2>2, SendLeaves DEF Launched
  <2> QED
    BY <2>1, <2>3 DEF Resumed, Effect
<1>8. CASE RotationDone(p, r)
  <2>1. /\ q.pc = "rotate.expire" /\ Answered(q) /\ Answer(r, q, 200)
        /\ ReplaceOwner(p, q) /\ known' = known \cup {q.new}
        /\ rotatedBy' = rotatedBy \cup {<<p, q.token>>}
        /\ UNCHANGED <<redis, throttle, ledger, burned, deadFor>>
    BY <1>8 DEF RotationDone, Receive, Answered
  <2> QED
    BY <1>0, <2>1, AnswerEnds DEF Resumed, Effect
<1>9. CASE CommandFailed(p, r)
  <2>1. /\ \E status \in {500, 401} : Answer(r, q, status)
        /\ UNCHANGED <<redis, cache, throttle, known, ledger, burned, rotatedBy, deadFor>>
    BY <1>9 DEF CommandFailed
  <2> QED
    BY <1>0, <2>1, AnswerEnds DEF Resumed, Effect
<1> QED
  BY <1>1, <1>2, <1>3, <1>4, <1>5, <1>6, <1>7, <1>8, <1>9 DEF Handler

LEMMA ClientResumed ==
  ASSUME TypeInv, NEW p \in Procs, NEW r \in Reqs, Client(p, r)
  PROVE  Resumed(p, r)
<1> USE DEF history, local
<1>1. ASSUME NEW u \in UserIds, CreateRequest(p, r, u)
      PROVE  Resumed(p, r)
  <2> DEFINE base == NewRequest(p, "create", u, Null)
             next(t) == [base EXCEPT !.new = t, !.payload = FirstPayload(u, {})]
  <2>1. PICK t \in FreshTokens : Send(p, r, next(t), "create.set")
    BY <1>1 DEF CreateRequest
  <2>2. base \in Requests /\ base.age = 0 /\ t \in Tokens
    BY NewRequestType, FreshTokensType DEF NewRequest
  <2>3. FirstPayload(u, {}) \in Payloads /\ "create.set" \in WaitingPCs
    BY FirstType DEF WaitingPCs
  <2> HIDE DEF base
  <2>4. next(t) \in Requests /\ next(t).new = t /\ next(t).age = 0
    BY <2>2, <2>3 DEF Requests
  <2> HIDE DEF next
  <2>5. Launched(req[r], req'[r]) /\ \A s \in Reqs \ {r} : req'[s] = req[s]
    BY <2>1, <2>3, <2>4, SendLeaves DEF Launched
  <2> QED
    BY <1>1, <2>5 DEF Resumed, Effect, CreateRequest
<1>2. ASSUME NEW u \in UserIds, NEW t \in Tokens, NEW op \in {"check", "rotate"},
             OwnerRequest(p, r, op, u, t)
      PROVE  Resumed(p, r)
  <2> DEFINE q == NewRequest(p, op, u, t)
             hit == cache[p][t]
  <2>1. /\ q \in Requests /\ q.age = 0 /\ q.token = t /\ q.user = u
        /\ t \in known
    BY <1>2, NewRequestType DEF NewRequest, OwnerRequest
  <2>2. CASE hit # Absent /\ Authorise(p, r, q, hit.val)
    <3> HIDE DEF q
    <3>1. \A s \in Reqs \ {r} : req'[s] = req[s]
      BY <2>1, <2>2, AuthoriseLeaves
    <3>2. Launched(req[r], req'[r]) \/ Ended(req'[r])
      BY <2>1, <2>2, AuthoriseLeaves DEF Launched, CachedOwner
    <3> QED
      BY <1>2, <3>1, <3>2 DEF Resumed, Effect, OwnerRequest
  <2>3. CASE Send(p, r, q, "owner.get")
    <3>1. "owner.get" \in WaitingPCs
      BY DEF WaitingPCs
    <3> HIDE DEF q
    <3>2. Launched(req[r], req'[r]) /\ \A s \in Reqs \ {r} : req'[s] = req[s]
      BY <2>1, <2>3, <3>1, SendLeaves DEF Launched
    <3> QED
      BY <1>2, <3>2 DEF Resumed, Effect, OwnerRequest
  <2> QED
    BY <1>2, <2>2, <2>3 DEF OwnerRequest
<1> QED
  BY <1>1, <1>2 DEF Client

-----------------------------------------------------------------------------
(* Where a value that a process has just cached for t comes from.          *)
Source(q, t, val) ==
  \/ val = NotFound
  \/ q.pc = "owner.get" /\ Answered(q) /\ q.res # Null /\ t = q.token /\ val = q.res
  \/ q.pc \in {"create.set", "rotate.expire"} /\ Answered(q) /\ t = q.new

LEMMA CacheCells ==
  ASSUME TypeInv, NEW p \in Procs, NEW q, Effect(p, q), NEW p1 \in Procs, NEW t \in Tokens
  PROVE  \/ cache'[p1][t] \in {cache[p1][t], Absent}
         \/ cache'[p1][t].ttl = CacheTTL /\ Source(q, t, cache'[p1][t].val)
<1>0. \A a \in Procs : DOMAIN cache[a] = Tokens
  BY DEF TypeInv, TypeOK
<1>1. DOMAIN cache = Procs
  BY DEF TypeInv, TypeOK
<1>2. ASSUME NEW k, NEW val, SetCache(p, k, val), Source(q, k, val)
      PROVE  \/ cache'[p1][t] \in {cache[p1][t], Absent}
             \/ cache'[p1][t].ttl = CacheTTL /\ Source(q, t, cache'[p1][t].val)
  <2>1. cache'[p1][t] = IF p1 = p /\ t = k THEN Entry(val, CacheTTL) ELSE cache[p1][t]
    BY <1>0, <1>1, <1>2 DEF SetCache
  <2> QED
    BY <1>2, <2>1 DEF Entry
<1>3. CASE q.pc = "rotate.expire" /\ Answered(q) /\ ReplaceOwner(p, q)
  <2> DEFINE row == [cache[p] EXCEPT ![q.token] = Absent]
             new == Entry(Text(q.user), CacheTTL)
  <2>1. cache'[p1] = IF p1 = p THEN [row EXCEPT ![q.new] = new] ELSE cache[p1]
    BY <1>1, <1>3 DEF ReplaceOwner
  <2>2. DOMAIN row = Tokens /\ row[t] \in {cache[p][t], Absent}
    BY <1>0
  <2>3. [row EXCEPT ![q.new] = new][t] = IF t = q.new THEN new ELSE row[t]
    BY <2>2
  <2>4. \/ cache'[p1][t] \in {cache[p1][t], Absent}
        \/ cache'[p1][t] = new /\ t = q.new
    BY <2>1, <2>2, <2>3
  <2> QED
    BY <1>3, <2>4 DEF Source, Entry
<1>4. CASE cache' = cache
  BY <1>4
<1>5. \/ cache' = cache
      \/ q.pc = "rotate.expire" /\ Answered(q) /\ ReplaceOwner(p, q)
      \/ \E k, val : SetCache(p, k, val) /\ Source(q, k, val)
  BY DEF Effect, Source
<1> QED
  BY <1>2, <1>3, <1>4, <1>5

(* A command that Redis executes changes one request, in its result only.  *)
LEMMA ExecuteLeaves ==
  ASSUME TypeInv, NEW p \in Procs, NEW r \in Reqs, NEW pcs, NEW res \in Results,
         Execute(p, r, pcs, res)
  PROVE  /\ req[r].pc \in pcs /\ req[r].res = Pending
         /\ \A s \in Reqs \ {r} : req'[s] = req[s]
         /\ req'[r].pc = req[r].pc /\ req'[r].token = req[r].token
         /\ req'[r].new = req[r].new /\ req'[r].age = req[r].age /\ req'[r].res = res
         /\ UNCHANGED <<cache, throttle, known>>
<1>1. /\ req \in [Reqs -> Requests] /\ wire \in [Procs -> Seq(Reqs)]
      /\ replies \in [Procs -> Seq(Reqs)]
  BY DEF TypeInv, TypeOK
<1>2. req[r] \in Requests
  BY <1>1
<1>3. /\ req[r].pc \in pcs /\ req[r].res = Pending /\ req'[r] = Replied(req[r], res)
      /\ \A s \in Reqs \ {r} : req'[s] = req[s]
      /\ cache' = cache /\ throttle' = throttle /\ known' = known
  BY <1>1, ExecuteEffect
<1>4. /\ Replied(req[r], res).pc = req[r].pc /\ Replied(req[r], res).token = req[r].token
      /\ Replied(req[r], res).new = req[r].new /\ Replied(req[r], res).age = req[r].age
      /\ Replied(req[r], res).res = res
  BY <1>2, ResultUpdate
<1> QED
  BY <1>3, <1>4

(* The clocks are numbers.                                                 *)
LEMMA Clocks ==
  ASSUME TypeInv
  PROVE  /\ deadFor \in [Tokens -> Nat]
         /\ CacheTTL \in Nat /\ MaxLag \in Nat /\ SessionTTL \in Nat /\ ThrottleTTL \in Nat
<1>1. deadFor \in [Tokens -> 0 .. DeadCap] /\ DeadCap \in Nat
  BY DeadCapType DEF TypeInv, TypeOK
<1>2. \A t \in Tokens : deadFor[t] \in Nat
  BY <1>1
<1> QED
  BY <1>1, <1>2, TTLAssumption, ConfigAssumption

(* The tokens a request names, and the clock of the request.               *)
LEMMA RequestTokens ==
  ASSUME TypeInv, NEW r \in Reqs
  PROVE  /\ req[r].pc \in WaitingPCs \ {"create.set"} => req[r].token \in Tokens
         /\ req[r].pc \in Storers => req[r].new \in Tokens
         /\ req[r].age \in 0 .. MaxLag /\ req[r].age \in Nat
         /\ req[r].pc \in WaitingPCs \cup {"idle", "done"}
  BY ConfigAssumption DEF TypeInv, TypeOK, Requests, Shape, Storers

-----------------------------------------------------------------------------
(* Revocation.  A key that is there, or was never issued, has not been     *)
(* gone; an owner on its way to a cache was read while the key was there,  *)
(* and the request that carries it has aged at least as much since.        *)
GoneCounted ==
  \A t \in Tokens : redis[t] # Absent \/ ledger[t] = Null => deadFor[t] = 0

Recent(q, gone) ==
  /\ q.pc = "owner.get" /\ Answered(q) /\ q.res # Null => gone[q.token] <= q.age
  /\ q.pc \in Storers => gone[q.new] <= q.age

CachedRecently ==
  \A p \in Procs, t \in Tokens :
    cache[p][t] # Absent /\ cache[p][t].val # NotFound =>
      cache[p][t].ttl + deadFor[t] <= CacheTTL + MaxLag

GoneInv == GoneCounted /\ CachedRecently /\ \A r \in Reqs : Recent(req[r], deadFor)

LEMMA InitGone == Init => GoneInv
<1> SUFFICES ASSUME Init PROVE GoneInv
  OBVIOUS
<1>1. /\ \A p \in Procs, t \in Tokens : cache[p][t] = Absent
      /\ \A t \in Tokens : deadFor[t] = 0
      /\ \A r \in Reqs : req[r].pc = "idle"
  BY DEF Init, IdleRequest, NewRequest
<1> QED
  BY <1>1 DEF GoneInv, GoneCounted, CachedRecently, Recent, Storers

LEMMA ResumedGone ==
  ASSUME TypeInv, GoneInv, NEW p \in Procs, NEW r \in Reqs, Resumed(p, r)
  PROVE  GoneInv'
<1> DEFINE q == req[r]  n == req'[r]
<1>1. /\ deadFor \in [Tokens -> Nat] /\ CacheTTL \in Nat /\ MaxLag \in Nat
      /\ q.age \in 0 .. MaxLag
  BY Clocks, RequestTokens
<1>2. GoneCounted'
  BY DEF Resumed, GoneInv, GoneCounted
<1>3. Recent(n, deadFor)
  <2>1. \A t \in FreshTokens : t \in Tokens /\ deadFor[t] = 0
    BY FreshTokensType DEF FreshTokens, GoneInv, GoneCounted
  <2>2. CASE Ended(n)
    BY <2>2 DEF Ended, Recent, Storers
  <2>3. CASE Launched(q, n)
    <3>1. ~Answered(n)
      BY <2>3 DEF Launched, Answered
    <3>2. CASE n.pc = "create.set"
      BY <2>1, <2>3, <3>1, <3>2 DEF Launched, Recent, Storers
    <3>3. CASE n.pc = "rotate.set"
      BY <1>1, <2>1, <2>3, <3>1, <3>3 DEF Launched, Recent, Storers
    <3>4. CASE n.pc = "rotate.expire"
      BY <2>3, <3>1, <3>4 DEF Launched, Recent, Storers, GoneInv
    <3> QED
      BY <3>1, <3>2, <3>3, <3>4 DEF Recent, Storers
  <2> QED
    BY <2>2, <2>3 DEF Resumed
<1>4. CachedRecently'
  <2> SUFFICES ASSUME NEW p1 \in Procs, NEW t \in Tokens,
                      cache'[p1][t] # Absent, cache'[p1][t].val # NotFound
               PROVE  cache'[p1][t].ttl + deadFor[t] <= CacheTTL + MaxLag
    BY DEF CachedRecently, Resumed
  <2>1. CASE cache'[p1][t] = cache[p1][t]
    BY <2>1 DEF GoneInv, CachedRecently
  <2>2. CASE cache'[p1][t].ttl = CacheTTL /\ Source(q, t, cache'[p1][t].val)
    <3>1. deadFor[t] <= q.age
      BY <2>2 DEF Source, GoneInv, Recent, Storers
    <3> QED
      BY <1>1, <2>2, <3>1
  <2> QED
    BY <2>1, <2>2, CacheCells DEF Resumed
<1>5. \A s \in Reqs : Recent(req'[s], deadFor')
  BY <1>3 DEF Resumed, GoneInv
<1> QED
  BY <1>2, <1>4, <1>5 DEF GoneInv

LEMMA RedisGone ==
  ASSUME TypeInv, SafetyInv, GoneInv, NEW p \in Procs, NEW r \in Reqs, Redis(p, r)
  PROVE  GoneInv'
<1> DEFINE q == req[r]
<1>0. /\ redis \in [Tokens -> LiveEntries(RawValues, SessionTTL) \cup {Absent}]
      /\ ledger \in [Tokens -> Payloads \cup {Null}] /\ Null \notin Payloads
      /\ deadFor \in [Tokens -> Nat] /\ q.age \in Nat
      /\ {Null, Pending, Error} \subseteq Results
  BY Clocks, SpecialAssumption, RequestTokens DEF TypeInv, TypeOK, Results
(* What is the same for all: one reply, and a count that is not higher.    *)
<1>1. ASSUME NEW pcs, NEW res \in Results, Execute(p, r, pcs, res),
             \A t \in Tokens : deadFor'[t] \in Nat /\ deadFor'[t] <= deadFor[t],
             q.pc = "owner.get" /\ res \notin {Null, Pending, Error} =>
               deadFor'[q.token] = 0,
             GoneCounted'
      PROVE  GoneInv'
  <2>1. /\ q.res = Pending /\ \A s \in Reqs \ {r} : req'[s] = req[s]
        /\ req'[r].pc = q.pc /\ req'[r].token = q.token
        /\ req'[r].new = q.new /\ req'[r].age = q.age /\ req'[r].res = res
        /\ cache' = cache
    BY <1>1, ExecuteLeaves
  <2>2. CachedRecently'
    <3> SUFFICES ASSUME NEW p1 \in Procs, NEW t \in Tokens,
                        cache[p1][t] # Absent, cache[p1][t].val # NotFound
                 PROVE  cache[p1][t].ttl + deadFor'[t] <= CacheTTL + MaxLag
      BY <2>1 DEF CachedRecently
    <3>1. cache[p1][t].ttl \in Nat /\ deadFor[t] \in Nat
      BY <1>0, TTLAssumption DEF TypeInv, TypeOK, LiveEntries
    <3>2. cache[p1][t].ttl + deadFor[t] <= CacheTTL + MaxLag
      BY DEF GoneInv, CachedRecently
    <3> QED
      BY <1>1, <3>1, <3>2, TTLAssumption, ConfigAssumption
  <2>3. \A s \in Reqs : Recent(req[s], deadFor')
    <3> SUFFICES ASSUME NEW s \in Reqs PROVE Recent(req[s], deadFor')
      OBVIOUS
    <3>1. /\ Recent(req[s], deadFor) /\ req[s].age \in Nat
          /\ req[s].pc = "owner.get" => req[s].token \in Tokens
          /\ req[s].pc \in Storers => req[s].new \in Tokens
      BY RequestTokens DEF GoneInv, WaitingPCs
    <3> QED
      BY <1>0, <1>1, <3>1 DEF Recent
  <2>4. Recent(req'[r], deadFor')
    BY <1>0, <1>1, <2>1, <2>3 DEF Recent, Answered
  <2> QED
    BY <1>1, <2>1, <2>2, <2>3, <2>4 DEF GoneInv
<1> USE DEF history
<1>2. CASE RedisGet(p, r)
  <2> DEFINE key == redis[q.token]
             res == IF key = Absent THEN Null ELSE key.val
  <2>1. Execute(p, r, {"owner.get", "read.get"}, res) /\ UNCHANGED <<redis, ledger, deadFor>>
    BY <1>2 DEF RedisGet
  <2>2. q.token \in Tokens
    BY <2>1, RequestTokens DEF Execute, WaitingPCs
  <2>3. res \in Results
    BY <1>0, <2>2 DEF LiveEntries, Results, Replies
  <2>4. res # Null => deadFor[q.token] = 0
    BY <2>2 DEF GoneInv, GoneCounted
  <2> HIDE DEF res
  <2>5. GoneCounted'
    BY <2>1 DEF GoneInv, GoneCounted
  <2>6. \A t \in Tokens : deadFor'[t] \in Nat /\ deadFor'[t] <= deadFor[t]
    BY <1>0, <2>1
  <2> QED
    BY <1>1, <2>1, <2>3, <2>4, <2>5, <2>6
<1>3. CASE RedisTtl(p, r)
  <2>1. PICK left \in IF redis[q.token] = Absent THEN {-2}
                       ELSE {redis[q.token].ttl, redis[q.token].ttl - 1} :
          Execute(p, r, {"read.ttl"}, Seconds(left))
    BY <1>3 DEF RedisTtl
  <2>2. q.token \in Tokens /\ q.pc # "owner.get"
    BY <1>3, RequestTokens DEF RedisTtl, WaitingPCs
  <2>3. Seconds(left) \in Results
    BY <1>0, <2>1, <2>2, TTLAssumption DEF LiveEntries, Results, Replies, Seconds
  <2>4. UNCHANGED <<redis, ledger, deadFor>>
    BY <1>3 DEF RedisTtl
  <2>5. GoneCounted'
    BY <2>4 DEF GoneInv, GoneCounted
  <2>6. \A t \in Tokens : deadFor'[t] \in Nat /\ deadFor'[t] <= deadFor[t]
    BY <1>0, <2>4
  <2> QED
    BY <1>1, <2>1, <2>2, <2>3, <2>5, <2>6
<1>4. ASSUME NEW pcs, NEW ttl \in Nat, Execute(p, r, pcs, Null), ExpireKey(q.token, ttl),
             UNCHANGED <<ledger, deadFor>>
      PROVE  GoneInv'
  <2>1. ExpireKey(q.token, ttl)
    BY <1>4
  <2>2. UNCHANGED <<ledger, deadFor>>
    BY <1>4
  <2>3. \A t \in Tokens : redis'[t] # Absent => redis[t] # Absent
    BY <1>0, <2>1 DEF ExpireKey
  <2>4. GoneCounted'
    BY <2>2, <2>3 DEF GoneInv, GoneCounted
  <2>5. \A t \in Tokens : deadFor'[t] \in Nat /\ deadFor'[t] <= deadFor[t]
    BY <1>0, <2>2
  <2> QED
    BY <1>0, <1>1, <1>4, <2>4, <2>5
<1>8. CASE RedisRefresh(p, r)
  BY <1>4, <1>8, TTLAssumption DEF RedisRefresh, RefreshTTL
<1>9. CASE RedisBurn(p, r)
  BY <1>4, <1>9, TTLAssumption DEF RedisBurn
<1>5. CASE RedisStore(p, r)
  <2>1. /\ Execute(p, r, {"create.set", "rotate.set"}, Null)
        /\ redis' = [redis EXCEPT ![q.new] = Entry(Serialize(q.payload), SessionTTL)]
        /\ ledger' = [ledger EXCEPT ![q.new] = q.payload] /\ deadFor' = deadFor
    BY <1>5 DEF RedisStore
  <2>2. /\ q.pc \in {"create.set", "rotate.set"} /\ q.res = Pending
        /\ q.new \in Tokens /\ q.payload \in Payloads
    BY <2>1 DEF Execute, TypeInv, Shape
  <2>3. deadFor[q.new] = 0
    BY <2>2 DEF SafetyInv, UnusedTokens, Storing, GoneInv, GoneCounted
  <2>4. \A t \in Tokens \ {q.new} : redis'[t] = redis[t] /\ ledger'[t] = ledger[t]
    BY <1>0, <2>1
  <2>5. GoneCounted'
    BY <2>1, <2>3, <2>4 DEF GoneInv, GoneCounted
  <2>6. \A t \in Tokens : deadFor'[t] \in Nat /\ deadFor'[t] <= deadFor[t]
    BY <1>0, <2>1
  <2> QED
    BY <1>0, <1>1, <2>1, <2>5, <2>6
<1>6. CASE RedisMigrate(p, r)
  <2>1. /\ Execute(p, r, {"read.set"}, Null) /\ ledger' = ledger
        /\ redis' = [redis EXCEPT ![q.token] = Entry(Serialize(q.payload), q.ttl)]
        /\ deadFor' = [deadFor EXCEPT ![q.token] = 0]
    BY <1>6 DEF RedisMigrate
  <2>2. q.token \in Tokens
    BY <2>1, RequestTokens DEF Execute, WaitingPCs
  <2>3. \A t \in Tokens : deadFor'[t] \in Nat /\ deadFor'[t] <= deadFor[t]
    BY <1>0, <2>1
  <2>4. GoneCounted'
    BY <1>0, <2>1, <2>2 DEF GoneInv, GoneCounted
  <2> QED
    BY <1>0, <1>1, <2>1, <2>3, <2>4
<1>7. CASE RedisRefuse(p, r)
  <2>1. Execute(p, r, WaitingPCs, Error) /\ UNCHANGED <<redis, ledger, deadFor>>
    BY <1>7 DEF RedisRefuse
  <2>2. GoneCounted'
    BY <2>1 DEF GoneInv, GoneCounted
  <2>3. \A t \in Tokens : deadFor'[t] \in Nat /\ deadFor'[t] <= deadFor[t]
    BY <1>0, <2>1
  <2> QED
    BY <1>0, <1>1, <2>1, <2>2, <2>3
<1> QED
  BY <1>2, <1>3, <1>5, <1>6, <1>7, <1>8, <1>9 DEF Redis

LEMMA AgedEntry ==
  ASSUME NEW e, e # Absent, Aged(e) # Absent, e.ttl \in Nat
  PROVE  Aged(e).val = e.val /\ Aged(e).ttl = e.ttl - 1 /\ e.ttl # 1
  BY DEF Aged, Entry

LEMMA TickGone ==
  ASSUME TypeInv, GoneInv, Tick
  PROVE  GoneInv'
<1>0. /\ deadFor \in [Tokens -> Nat] /\ CacheTTL \in Nat /\ MaxLag \in Nat /\ DeadCap \in Nat
      /\ req \in [Reqs -> Requests]
  BY DeadCapType, Clocks DEF TypeInv, TypeOK
<1>1. ASSUME NEW t \in Tokens
      PROVE  /\ deadFor'[t] \in {deadFor[t], deadFor[t] + 1}
             /\ redis[t] # Absent \/ ledger[t] = Null => deadFor'[t] = deadFor[t]
             /\ redis'[t] # Absent => redis[t] # Absent
  BY <1>0 DEF Tick, Aged
<1>2. GoneCounted'
  BY <1>1 DEF GoneInv, GoneCounted, Tick
<1>3. ASSUME NEW p \in Procs, NEW t \in Tokens,
             cache'[p][t] # Absent, cache'[p][t].val # NotFound
      PROVE  cache'[p][t].ttl + deadFor'[t] <= CacheTTL + MaxLag
  <2>1. cache'[p][t] = Aged(cache[p][t])
    BY DEF Tick
  <2>2. cache[p][t] # Absent
    BY <1>3, <2>1 DEF Aged
  <2>3. cache[p][t].ttl \in Nat
    BY <1>0, <2>2 DEF TypeInv, TypeOK, LiveEntries
  <2>4. cache[p][t].val # NotFound /\ cache'[p][t].ttl = cache[p][t].ttl - 1
    BY <1>3, <2>1, <2>2, <2>3, AgedEntry
  <2>5. cache[p][t].ttl + deadFor[t] <= CacheTTL + MaxLag
    BY <2>2, <2>4 DEF GoneInv, CachedRecently
  <2> QED
    BY <1>0, <1>1, <2>3, <2>4, <2>5
<1>4. ASSUME NEW r \in Reqs PROVE Recent(req'[r], deadFor')
  <2>1. CASE Waiting(r)
    <3>1. /\ req'[r].pc = req[r].pc /\ req'[r].res = req[r].res
          /\ req'[r].token = req[r].token /\ req'[r].new = req[r].new
          /\ req'[r].age = req[r].age + 1
      BY <1>0, <2>1 DEF Tick, Requests
    <3>2. /\ Recent(req[r], deadFor) /\ req[r].age \in Nat
          /\ req[r].pc = "owner.get" => req[r].token \in Tokens
          /\ req[r].pc \in Storers => req[r].new \in Tokens
      BY RequestTokens DEF GoneInv, WaitingPCs
    <3> QED
      BY <1>0, <1>1, <3>1, <3>2 DEF Recent, Answered
  <2>2. CASE ~Waiting(r)
    BY <2>2 DEF Tick, Waiting, WaitingPCs, Recent, Storers
  <2> QED
    BY <2>1, <2>2
<1> QED
  BY <1>2, <1>3, <1>4 DEF GoneInv, CachedRecently

(* A crash ends the requests of the process and leaves the others alone.   *)
LEMMA CrashLeaves ==
  ASSUME TypeInv, NEW p \in Procs, Crash(p), NEW r \in Reqs
  PROVE  req'[r] = req[r] \/ Ended(req'[r])
<1>1. req[r] \in Requests /\ 0 \in Nat
  BY DEF TypeInv, TypeOK
<1> QED
  BY <1>1, DoneType DEF Crash, Ended

LEMMA EnvironmentGone ==
  ASSUME TypeInv, GoneInv, Environment
  PROVE  GoneInv'
<1> USE DEF history, local
<1>1. ASSUME UNCHANGED <<ledger, deadFor>>,
             \A t \in Tokens : redis'[t] # Absent => redis[t] # Absent,
             \A p \in Procs, t \in Tokens : cache'[p][t] \in {cache[p][t], Absent},
             \A r \in Reqs : req'[r] = req[r] \/ Ended(req'[r])
      PROVE  GoneInv'
  <2>1. \A r \in Reqs : Recent(req'[r], deadFor')
    BY <1>1 DEF GoneInv, Recent, Ended, Storers
  <2>2. CachedRecently' /\ GoneCounted'
    BY <1>1 DEF GoneInv, CachedRecently, GoneCounted
  <2> QED
    BY <2>1, <2>2 DEF GoneInv
<1>2. CASE Tick
  BY <1>2, TickGone
<1>3. ASSUME NEW t \in Tokens, Revoke(t) PROVE GoneInv'
  <2>1. \A k \in Tokens : redis'[k] # Absent => redis[k] # Absent
    BY <1>3 DEF Revoke
  <2> QED
    BY <1>1, <1>3, <2>1 DEF Revoke
<1>4. ASSUME NEW p \in Procs, Crash(p) PROVE GoneInv'
  <2>1. \A a \in Procs, t \in Tokens : cache'[a][t] \in {cache[a][t], Absent}
    BY <1>4 DEF Crash, TypeInv, TypeOK
  <2> QED
    BY <1>1, <1>4, <2>1, CrashLeaves DEF Crash
<1>5. ASSUME NEW p \in Procs, NEW t \in Tokens, EvictOwner(p, t) \/ EvictThrottle(p, t)
      PROVE  GoneInv'
  <2>1. \A a \in Procs, k \in Tokens : cache'[a][k] \in {cache[a][k], Absent}
    <3>1. cache' \in {cache, [cache EXCEPT ![p][t] = Absent]}
      BY <1>5 DEF EvictOwner, EvictThrottle
    <3>2. \A a \in Procs : DOMAIN cache[a] = Tokens
      BY DEF TypeInv, TypeOK
    <3>3. DOMAIN cache = Procs
      BY DEF TypeInv, TypeOK
    <3> QED
      BY <3>1, <3>2, <3>3
  <2>2. UNCHANGED <<redis, ledger, deadFor, req>>
    BY <1>5 DEF EvictOwner, EvictThrottle
  <2> QED
    BY <1>1, <2>1, <2>2
<1> QED
  BY <1>2, <1>3, <1>4, <1>5 DEF Environment

LEMMA GoneStep == TypeInv /\ SafetyInv /\ GoneInv /\ [Next]_vars => GoneInv'
<1> SUFFICES ASSUME TypeInv, SafetyInv, GoneInv, [Next]_vars PROVE GoneInv'
  OBVIOUS
<1>1. CASE UNCHANGED vars
  BY <1>1 DEF vars, GoneInv, GoneCounted, CachedRecently
<1>2. CASE Next
  BY <1>2, ResumedGone, RedisGone, HandlerResumed, ClientResumed, EnvironmentGone DEF Next
<1> QED
  BY <1>1, <1>2

(* Once a key is gone from Redis, however it went, no process honours a    *)
(* cached owner for longer than CacheTTL and the time a lookup was on its  *)
(* way (server.ts 407, 740-760).                                           *)
THEOREM RevocationsArrive == Spec => []RevocationPropagates
<1>1. TypeInv /\ GoneInv => RevocationPropagates
  <2> SUFFICES ASSUME GoneInv, NEW p \in Procs, NEW t \in Tokens, NEW u \in UserIds,
                      cache[p][t] # Absent, cache[p][t].val = Text(u)
               PROVE  cache[p][t].ttl + deadFor[t] <= CacheTTL + MaxLag
    BY DEF RevocationPropagates
  <2>1. Text(u) # NotFound
    BY SpecialAssumption DEF RawValues, Texts
  <2> QED
    BY <2>1 DEF GoneInv, CachedRecently
<1> QED
  BY InitGone, GoneStep, Safety, <1>1, PTL DEF Spec

-----------------------------------------------------------------------------
(* What a process that has rotated a token remembers of it, once no v0     *)
(* session is left.  Then a lookup only finds documents, which no user id  *)
(* compares equal to: an owner gets into a cache by being told, with the   *)
(* new token, and a new token is nobody's yet.                             *)
Modern(q) ==
  /\ q.pc \notin {"read.ttl", "read.set"}
  /\ q.pc \in {"owner.get", "read.get"} /\ Answered(q) /\ q.res # Null => ~IsLegacy(q.res)

ModernInv ==
  /\ \A t \in Tokens : redis[t] # Absent => ~IsLegacy(redis[t].val)
  /\ \A r \in Reqs : Modern(req[r])

(* The token a request presents is known to a client, the one it is about  *)
(* to hand out is not.                                                     *)
Names(q, told) ==
  /\ q.pc \in WaitingPCs \ {"create.set"} => q.token \in told
  /\ q.pc \in Storers => q.new \notin told

ReplayInv ==
  /\ ModernInv
  /\ \A t \in known : ledger[t] # Null
  /\ \A r \in Reqs : Names(req[r], known)
  /\ \A pt \in rotatedBy : pt[2] \in known
  /\ NoLocalReplay

LEMMA TextIsLegacy == \A u : IsLegacy(Text(u))
  BY DEF IsLegacy, IsVersioned, Text

LEMMA DocumentIsModern ==
  ASSUME NEW p \in Payloads
  PROVE  ~IsLegacy(Serialize(p))
  BY InvalidAssumption DEF Payloads, IsLegacy, IsVersioned, Serialize

LEMMA InitReplay ==
  ASSUME LegacyTokens = {}, Init
  PROVE  ReplayInv
<1>1. /\ \A t \in Tokens : redis[t] = Absent
      /\ \A r \in Reqs : req[r].pc = "idle"
      /\ known = {} /\ rotatedBy = {}
  BY DEF Init, IdleRequest, NewRequest
<1>2. ModernInv
  BY <1>1 DEF ModernInv, Modern
<1>3. \A r \in Reqs : Names(req[r], known)
  BY <1>1 DEF Names, WaitingPCs, Storers
<1> QED
  BY <1>1, <1>2, <1>3 DEF ReplayInv, NoLocalReplay

LEMMA ResumedReplay ==
  ASSUME TypeInv, SafetyInv, ReplayInv, NEW p \in Procs, NEW r \in Reqs, Resumed(p, r)
  PROVE  ReplayInv'
<1> DEFINE q == req[r]  n == req'[r]
<1>0. /\ Modern(q) /\ Names(q, known) /\ Facts(q, ledger) /\ Null \notin Payloads
      /\ q.pc \in Storers => q.new \in Tokens /\ q.payload \in Payloads
  BY SpecialAssumption DEF ReplayInv, ModernInv, SafetyInv, TypeInv, Shape, Storers
(* A token that a handler gives away has been stored.                      *)
<1>1. q.pc \in {"create.set", "rotate.expire"} /\ Answered(q) => ledger[q.new] # Null
  BY <1>0 DEF Facts, Answered, Storers
<1>2. \/ known' = known
      \/ /\ known' = known \cup {q.new} /\ Answered(q)
         /\ q.pc \in {"create.set", "rotate.expire"}
  BY DEF Resumed, Effect
<1>3. \A t \in known' : ledger'[t] # Null
  BY <1>1, <1>2 DEF Resumed, ReplayInv
<1>4. ModernInv'
  <2>1. CASE Ended(n)
    BY <2>1 DEF Ended, Modern, Resumed, ReplayInv, ModernInv
  <2>2. CASE Launched(q, n)
    <3>1. n.pc \notin {"read.ttl", "read.set"} /\ ~Answered(n)
      BY <1>0, <2>2 DEF Launched, Modern, Answered
    <3> QED
      BY <3>1 DEF Modern, Resumed, ReplayInv, ModernInv
  <2> QED
    BY <2>1, <2>2 DEF Resumed
<1>5. \A s \in Reqs : Names(req'[s], known')
  <2>1. ASSUME NEW s \in Reqs, s # r PROVE Names(req'[s], known')
    <3>1. req[s].pc \in Storers => req[s].new \in Tokens
      BY RequestTokens
    <3>2. q.pc \in Storers /\ req[s].pc \in Storers => req[s].new # q.new
      BY <1>0, <3>1, <2>1, SpecialAssumption DEF SafetyInv, DistinctTokens
    <3> QED
      BY <1>2, <2>1, <3>2 DEF Resumed, ReplayInv, Names, Storers
  <2>2. ASSUME Ended(n) PROVE Names(n, known')
    BY <2>2 DEF Ended, Names, WaitingPCs, Storers
  <2>3. ASSUME Launched(q, n) PROVE Names(n, known')
    <3>1. \A t \in FreshTokens : t \notin known'
      BY <1>3, FreshTokensType DEF FreshTokens, Resumed
    <3>2. n.pc \in Storers => n.new \notin known'
      <4>1. CASE n.pc = "rotate.expire"
        BY <1>0, <1>2, <2>3, <4>1 DEF Launched, Names, Storers
      <4>2. CASE n.pc \in {"create.set", "rotate.set"}
        BY <2>3, <3>1, <4>2 DEF Launched
      <4> QED
        BY <4>1, <4>2 DEF Storers
    <3>3. n.pc \in WaitingPCs \ {"create.set"} => n.token \in known
      BY <1>0, <2>3 DEF Launched, Names, WaitingPCs
    <3> QED
      BY <1>2, <3>2, <3>3 DEF Names
  <2> QED
    BY <2>1, <2>2, <2>3 DEF Resumed
<1>6. \A pt \in rotatedBy' : pt[2] \in known'
  BY <1>0, <1>2 DEF Resumed, Effect, ReplayInv, Names, WaitingPCs
<1>7. NoLocalReplay'
  <2> SUFFICES ASSUME NEW pt \in rotatedBy', cache'[pt[1]][pt[2]] # Absent, NEW u \in UserIds
               PROVE  cache'[pt[1]][pt[2]].val # Text(u)
    BY DEF NoLocalReplay
  <2>0. rotatedBy \subseteq Procs \X Tokens /\ \A a \in Procs : DOMAIN cache[a] = Tokens
    BY DEF TypeInv, TypeOK
  <2>1. CASE pt \in rotatedBy
    <3>1. pt[1] \in Procs /\ pt[2] \in Tokens /\ pt[2] \in known
      BY <2>0, <2>1 DEF ReplayInv
    <3>2. CASE cache'[pt[1]][pt[2]] = cache[pt[1]][pt[2]]
      BY <2>1, <3>2 DEF ReplayInv, NoLocalReplay
    <3>3. CASE Source(q, pt[2], cache'[pt[1]][pt[2]].val)
      <4>1. NotFound # Text(u)
        BY SpecialAssumption DEF RawValues, Texts
      <4>2. pt[2] # q.new \/ q.pc \notin {"create.set", "rotate.expire"}
        BY <1>0, <3>1 DEF Names, Storers
      <4>3. q.pc = "owner.get" /\ Answered(q) /\ q.res # Null => q.res # Text(u)
        BY <1>0, TextIsLegacy DEF Modern
      <4> QED
        BY <3>3, <4>1, <4>2, <4>3 DEF Source
    <3> QED
      BY <3>1, <3>2, <3>3, CacheCells DEF Resumed
  <2>2. CASE pt \notin rotatedBy
    <3>1. q.pc = "rotate.expire" /\ ReplaceOwner(p, q) /\ pt = <<p, q.token>>
      BY <2>2 DEF Resumed, Effect
    <3>2. q.token \in Tokens /\ q.token # q.new
      BY <1>0, <3>1, RequestTokens DEF Names, Storers, WaitingPCs
    <3> DEFINE row == [cache[p] EXCEPT ![q.token] = Absent]
               new == Entry(Text(q.user), CacheTTL)
    <3>3. cache'[p] = [row EXCEPT ![q.new] = new]
      BY <3>1 DEF ReplaceOwner, TypeInv, TypeOK
    <3>4. DOMAIN row = Tokens /\ row[q.token] = Absent
      BY <2>0, <3>2
    <3>5. cache'[p][q.token] = Absent
      BY <3>2, <3>3, <3>4
    <3> QED
      BY <3>1, <3>5
  <2> QED
    BY <2>1, <2>2
<1> QED
  BY <1>3, <1>4, <1>5, <1>6, <1>7 DEF ReplayInv

LEMMA RedisReplay ==
  ASSUME TypeInv, SafetyInv, ReplayInv, NEW p \in Procs, NEW r \in Reqs, Redis(p, r)
  PROVE  ReplayInv'
<1> DEFINE q == req[r]
<1>0. /\ redis \in [Tokens -> LiveEntries(RawValues, SessionTTL) \cup {Absent}]
      /\ ledger \in [Tokens -> Payloads \cup {Null}] /\ Null \notin Payloads
      /\ {Null, Pending, Error} \subseteq Results /\ Modern(q) /\ Shape(q)
      /\ known \subseteq Tokens
  BY SpecialAssumption DEF TypeInv, TypeOK, Results, ReplayInv, ModernInv
<1>1. ASSUME NEW pcs, NEW res \in Results, Execute(p, r, pcs, res), rotatedBy' = rotatedBy,
             \A t \in Tokens : redis'[t] # Absent => ~IsLegacy(redis'[t].val),
             \A t \in Tokens : ledger[t] # Null => ledger'[t] # Null,
             q.pc \in {"owner.get", "read.get"} /\ res \notin {Null, Pending, Error} =>
               ~IsLegacy(res)
      PROVE  ReplayInv'
  <2>1. /\ \A s \in Reqs \ {r} : req'[s] = req[s]
        /\ req'[r].pc = q.pc /\ req'[r].token = q.token
        /\ req'[r].new = q.new /\ req'[r].res = res
        /\ UNCHANGED <<cache, known>>
    BY <1>1, ExecuteLeaves
  <2>2. Modern(req'[r]) /\ Names(req'[r], known)
    BY <1>0, <1>1, <2>1 DEF Modern, Names, Answered, ReplayInv
  <2>3. \A s \in Reqs : Modern(req'[s]) /\ Names(req'[s], known')
    BY <2>1, <2>2 DEF ReplayInv, ModernInv
  <2>4. NoLocalReplay'
    BY <1>1, <2>1 DEF ReplayInv, NoLocalReplay
  <2> QED
    BY <1>0, <1>1, <2>1, <2>3, <2>4 DEF ReplayInv, ModernInv
<1>2. \A t \in Tokens : redis[t] # Absent => ~IsLegacy(redis[t].val)
  BY DEF ReplayInv, ModernInv
<1> USE DEF history
<1>3. CASE RedisGet(p, r)
  <2> DEFINE key == redis[q.token]
             res == IF key = Absent THEN Null ELSE key.val
  <2>1. Execute(p, r, {"owner.get", "read.get"}, res) /\ UNCHANGED <<redis, ledger, rotatedBy>>
    BY <1>3 DEF RedisGet
  <2>2. q.token \in Tokens
    BY <2>1, RequestTokens DEF Execute, WaitingPCs
  <2>3. res \in Results
    BY <1>0, <2>2 DEF LiveEntries, Results, Replies
  <2>4. res # Null => ~IsLegacy(res)
    BY <1>2, <2>2
  <2> HIDE DEF res
  <2> QED
    BY <1>1, <1>2, <2>1, <2>3, <2>4
<1>4. CASE RedisTtl(p, r) \/ RedisMigrate(p, r)
  <2>1. q.pc \in {"read.ttl", "read.set"}
    BY <1>4 DEF RedisTtl, RedisMigrate, Execute
  <2> QED
    BY <1>0, <2>1 DEF Modern
<1>5. ASSUME NEW pcs, NEW ttl, Execute(p, r, pcs, Null), ExpireKey(q.token, ttl),
             UNCHANGED <<ledger, rotatedBy>>
      PROVE  ReplayInv'
  <2>1. \A t \in Tokens : redis'[t] # Absent =>
          redis[t] # Absent /\ redis'[t].val = redis[t].val
    BY <1>0, <1>5 DEF ExpireKey, Entry
  <2> QED
    BY <1>0, <1>1, <1>2, <1>5, <2>1
<1>6. CASE RedisRefresh(p, r)
  BY <1>5, <1>6 DEF RedisRefresh
<1>7. CASE RedisBurn(p, r)
  BY <1>5, <1>7 DEF RedisBurn
<1>8. CASE RedisStore(p, r)
  <2>1. /\ Execute(p, r, {"create.set", "rotate.set"}, Null)
        /\ redis' = [redis EXCEPT ![q.new] = Entry(Serialize(q.payload), SessionTTL)]
        /\ ledger' = [ledger EXCEPT ![q.new] = q.payload] /\ rotatedBy' = rotatedBy
    BY <1>8 DEF RedisStore
  <2>2. q.new \in Tokens /\ q.payload \in Payloads
    BY <1>0, <2>1 DEF Execute, Shape
  <2>3. \A t \in Tokens : redis'[t] # Absent => ~IsLegacy(redis'[t].val)
    BY <1>0, <1>2, <2>1, <2>2, DocumentIsModern DEF Entry
  <2>4. \A t \in Tokens : ledger[t] # Null => ledger'[t] # Null
    BY <1>0, <2>1, <2>2
  <2> QED
    BY <1>0, <1>1, <2>1, <2>3, <2>4
<1>9. CASE RedisRefuse(p, r)
  <2>1. Execute(p, r, WaitingPCs, Error) /\ UNCHANGED <<redis, ledger, rotatedBy>>
    BY <1>9 DEF RedisRefuse
  <2> QED
    BY <1>0, <1>1, <1>2, <2>1
<1> QED
  BY <1>3, <1>4, <1>6, <1>7, <1>8, <1>9 DEF Redis

LEMMA EnvironmentReplay ==
  ASSUME TypeInv, ReplayInv, Environment
  PROVE  ReplayInv'
<1> USE DEF history, local
<1>1. ASSUME UNCHANGED <<ledger, known>>, rotatedBy' \subseteq rotatedBy,
             \A t \in Tokens : redis'[t] # Absent =>
               redis[t] # Absent /\ redis'[t].val = redis[t].val,
             \A p \in Procs, t \in Tokens : cache'[p][t] # Absent =>
               cache[p][t] # Absent /\ cache'[p][t].val = cache[p][t].val,
             \A r \in Reqs : Modern(req'[r]) /\ Names(req'[r], known)
      PROVE  ReplayInv'
  <2>1. ModernInv'
    BY <1>1 DEF ReplayInv, ModernInv
  <2>2. \A pt \in rotatedBy : pt[1] \in Procs /\ pt[2] \in Tokens
    BY DEF TypeInv, TypeOK
  <2>3. NoLocalReplay'
    BY <1>1, <2>2 DEF ReplayInv, NoLocalReplay
  <2> QED
    BY <1>1, <2>1, <2>3 DEF ReplayInv
<1>2. ASSUME NEW r \in Reqs
      PROVE  /\ Modern(req[r]) /\ Names(req[r], known)
             /\ \A n : Ended(n) => Modern(n) /\ Names(n, known)
  BY DEF ReplayInv, ModernInv, Ended, Modern, Names, WaitingPCs, Storers
<1>3. CASE Tick
  <2>1. \A t \in Tokens : redis'[t] # Absent => redis[t] # Absent /\ redis'[t].val = redis[t].val
    BY <1>3 DEF Tick, Aged, Entry
  <2>2. \A p \in Procs, t \in Tokens : cache'[p][t] # Absent =>
          cache[p][t] # Absent /\ cache'[p][t].val = cache[p][t].val
    BY <1>3 DEF Tick, Aged, Entry
  <2>3. ASSUME NEW r \in Reqs PROVE Modern(req'[r]) /\ Names(req'[r], known)
    <3>1. req[r] \in Requests
      BY DEF TypeInv, TypeOK
    <3>2. /\ req'[r].pc = req[r].pc /\ req'[r].res = req[r].res
          /\ req'[r].token = req[r].token /\ req'[r].new = req[r].new
      BY <1>3, <3>1 DEF Tick, Requests
    <3> QED
      BY <1>2, <3>2 DEF Modern, Names, Answered
  <2> QED
    BY <1>1, <1>3, <2>1, <2>2, <2>3 DEF Tick
<1>4. ASSUME NEW t \in Tokens, Revoke(t) PROVE ReplayInv'
  <2>1. \A k \in Tokens : redis'[k] # Absent => redis[k] # Absent /\ redis'[k].val = redis[k].val
    BY <1>4 DEF Revoke, TypeInv, TypeOK
  <2> QED
    BY <1>1, <1>2, <1>4, <2>1 DEF Revoke
<1>5. ASSUME NEW p \in Procs, Crash(p) PROVE ReplayInv'
  <2>1. \A a \in Procs, t \in Tokens : cache'[a][t] # Absent =>
          cache[a][t] # Absent /\ cache'[a][t].val = cache[a][t].val
    BY <1>5 DEF Crash, TypeInv, TypeOK
  <2> QED
    BY <1>1, <1>2, <1>5, <2>1, CrashLeaves DEF Crash
<1>6. ASSUME NEW p \in Procs, NEW t \in Tokens, EvictOwner(p, t) \/ EvictThrottle(p, t)
      PROVE  ReplayInv'
  <2>1. \A a \in Procs, k \in Tokens : cache'[a][k] # Absent =>
          cache[a][k] # Absent /\ cache'[a][k].val = cache[a][k].val
    <3>1. cache' \in {cache, [cache EXCEPT ![p][t] = Absent]}
      BY <1>6 DEF EvictOwner, EvictThrottle
    <3>2. \A a \in Procs : DOMAIN cache[a] = Tokens
      BY DEF TypeInv, TypeOK
    <3>3. DOMAIN cache = Procs
      BY DEF TypeInv, TypeOK
    <3> QED
      BY <3>1, <3>2, <3>3
  <2>2. UNCHANGED <<redis, ledger, known, rotatedBy, req>>
    BY <1>6 DEF EvictOwner, EvictThrottle
  <2> QED
    BY <1>1, <1>2, <2>1, <2>2
<1> QED
  BY <1>3, <1>4, <1>5, <1>6 DEF Environment

LEMMA ReplayStep == TypeInv /\ SafetyInv /\ ReplayInv /\ [Next]_vars => ReplayInv'
<1> SUFFICES ASSUME TypeInv, SafetyInv, ReplayInv, [Next]_vars PROVE ReplayInv'
  OBVIOUS
<1>1. CASE UNCHANGED vars
  BY <1>1 DEF vars, ReplayInv, ModernInv, NoLocalReplay
<1>2. CASE Next
  BY <1>2, ResumedReplay, RedisReplay, HandlerResumed, ClientResumed, EnvironmentReplay DEF Next
<1> QED
  BY <1>1, <1>2

(* Once the sessions of v0 are gone, a process that has completed the      *)
(* rotation of a token never honours that token from its cache again.      *)
THEOREM RotatedIsForgotten ==
  ASSUME LegacyTokens = {}
  PROVE  Spec => []NoLocalReplay
<1>1. Init => ReplayInv
  BY InitReplay
<1>2. ReplayInv => NoLocalReplay
  BY DEF ReplayInv
<1> QED
  BY Safety, ReplayStep, <1>1, <1>2, PTL DEF Spec

-----------------------------------------------------------------------------
(* The sliding session.  EXPIRE does nothing to a key that has gone, so    *)
(* the throttle only tells of a key that was there when EXPIRE reached     *)
(* Redis.  It was: who asked for it had been told the owner by the         *)
(* creation or the rotation, not longer than CacheTTL ago.                 *)

(* The time a key has left: Ttl, of any content of Redis.                  *)
Life(keys, t) == IF keys[t] = Absent THEN 0 ELSE keys[t].ttl

(* The successor, or the new session, is in Redis.                         *)
Stored(q) ==
  \/ q.pc = "rotate.expire"
  \/ q.pc \in {"create.set", "rotate.set"} /\ Answered(q)

(* What is left of SESSION_TTL for the tokens that are not burnt.          *)
Slack(q, keys, burnt) ==
  /\ q.pc = "owner.expire" /\ q.token \notin burnt =>
       Life(keys, q.token) >= IF Answered(q)
         THEN SessionTTL - q.age
         ELSE SessionTTL - CacheTTL + 1 - MaxLag - q.age
  /\ Stored(q) /\ q.new \notin burnt => Life(keys, q.new) >= SessionTTL - q.age

ThrottleHolds ==
  \A p \in Procs, t \in Tokens : throttle[p][t] > 0 /\ t \notin burned =>
    Life(redis, t) >= SessionTTL - (ThrottleTTL - throttle[p][t]) - MaxLag

CacheHolds ==
  \A p \in Procs, t \in Tokens :
    cache[p][t] # Absent /\ cache[p][t].val \in Texts /\ t \notin burned =>
      Life(redis, t) >= SessionTTL - (CacheTTL - cache[p][t].ttl) - MaxLag

SlideInv ==
  /\ ThrottleHolds
  /\ CacheHolds
  /\ \A r \in Reqs : Slack(req[r], redis, burned)

(* Nobody deletes keys, and a cached owner does not outlive its session.   *)
SlideHypotheses ==
  /\ LegacyTokens = {}
  /\ "revoke" \notin Faults
  /\ CacheTTL + 2 * MaxLag <= SessionTTL

LEMMA LifeType ==
  ASSUME TypeInv, NEW t \in Tokens
  PROVE  /\ Life(redis, t) \in 0 .. SessionTTL
         /\ redis[t] # Absent <=> Life(redis, t) > 0
<1>1. redis[t] \in LiveEntries(RawValues, SessionTTL) \cup {Absent}
  BY DEF TypeInv, TypeOK
<1> QED
  BY <1>1, TTLAssumption DEF Life, LiveEntries

LEMMA CellTypes ==
  ASSUME TypeInv, NEW p \in Procs, NEW t \in Tokens
  PROVE  /\ throttle[p][t] \in 0 .. ThrottleTTL
         /\ cache[p][t] # Absent => cache[p][t].ttl \in 1 .. CacheTTL
<1> DEFINE Cells == LiveEntries(RawValues \cup {NotFound}, CacheTTL) \cup {Absent}
<1>1. cache[p][t] \in Cells
  <2>1. cache \in [Procs -> [Tokens -> Cells]]
    BY DEF TypeInv, TypeOK
  <2> HIDE DEF Cells
  <2> QED
    BY <2>1
<1> QED
  BY <1>1 DEF TypeInv, TypeOK, LiveEntries

LEMMA InitSlide == Init => SlideInv
<1> SUFFICES ASSUME Init PROVE SlideInv
  OBVIOUS
<1>1. /\ \A p \in Procs, t \in Tokens : cache[p][t] = Absent /\ throttle[p][t] = 0
      /\ \A r \in Reqs : req[r].pc = "idle"
  BY DEF Init, IdleRequest, NewRequest
<1> QED
  BY <1>1 DEF SlideInv, ThrottleHolds, CacheHolds, Slack, Stored, Storers

(* The life of keys that are not burnt does not shorten but by the clock.  *)
Lasting == /\ burned \subseteq burned'
           /\ \A t \in Tokens \ burned' : Life(redis', t) >= Life(redis, t)

LEMMA SlackLasts ==
  ASSUME TypeInv, TypeInv', Lasting, NEW r \in Reqs, Slack(req[r], redis, burned)
  PROVE  Slack(req[r], redis', burned')
<1> DEFINE q == req[r]
<1>1. /\ q.pc = "owner.expire" => q.token \in Tokens
      /\ q.pc \in Storers => q.new \in Tokens
      /\ q.age \in Nat
  BY RequestTokens DEF WaitingPCs
<1>2. ASSUME NEW t \in Tokens, NEW x \in Int, t \notin burned', Life(redis, t) >= x
      PROVE  t \notin burned /\ Life(redis', t) >= x
  <2>1. Life(redis, t) \in Int /\ Life(redis', t) \in Int
    <3>1. redis'[t] \in LiveEntries(RawValues, SessionTTL) \cup {Absent}
      BY DEF TypeInv, TypeOK
    <3> QED
      BY <3>1, LifeType, TTLAssumption DEF Life, LiveEntries
  <2> QED
    BY <1>2, <2>1 DEF Lasting
<1>3. SessionTTL - q.age \in Int /\ SessionTTL - CacheTTL + 1 - MaxLag - q.age \in Int
  BY <1>1, Clocks
<1>4. burned \subseteq burned'
  BY DEF Lasting
<1> QED
  BY <1>1, <1>2, <1>3, <1>4 DEF Slack, Stored, Storers

LEMMA ResumedSlide ==
  ASSUME TypeInv, TypeInv', ModernInv, SlideInv, NEW p \in Procs, NEW r \in Reqs, Resumed(p, r)
  PROVE  SlideInv'
<1> DEFINE q == req[r]  n == req'[r]
<1>0. /\ Modern(q) /\ Slack(q, redis, burned) /\ q.age \in 0 .. MaxLag
      /\ UNCHANGED <<redis, burned>>
      /\ SessionTTL \in Nat /\ CacheTTL \in Nat /\ MaxLag \in Nat /\ ThrottleTTL \in Nat
      /\ q.pc \in WaitingPCs \ {"create.set"} => q.token \in Tokens
      /\ q.pc \in Storers => q.new \in Tokens
  BY Clocks, RequestTokens DEF ModernInv, SlideInv, Resumed
<1>1. ThrottleHolds'
  <2> SUFFICES ASSUME NEW a \in Procs, NEW t \in Tokens, throttle'[a][t] > 0, t \notin burned
               PROVE  Life(redis, t) >= SessionTTL - (ThrottleTTL - throttle'[a][t]) - MaxLag
    BY <1>0 DEF ThrottleHolds
  <2>1. CASE throttle'[a][t] = throttle[a][t]
    BY <2>1 DEF SlideInv, ThrottleHolds
  <2>2. CASE q.pc = "owner.expire" /\ Answered(q) /\ t = q.token /\ throttle'[a][t] = ThrottleTTL
    <3>1. Life(redis, t) >= SessionTTL - q.age /\ Life(redis, t) \in Int
      BY <1>0, <2>2, LifeType DEF Slack
    <3> QED
      BY <1>0, <2>2, <3>1
  <2>3. \/ throttle'[a][t] = throttle[a][t]
        \/ q.pc = "owner.expire" /\ Answered(q) /\ t = q.token /\ throttle'[a][t] = ThrottleTTL
    <3>1. DOMAIN throttle = Procs /\ \A b \in Procs : DOMAIN throttle[b] = Tokens
      BY DEF TypeInv, TypeOK
    <3> QED
      BY <3>1 DEF Resumed, Effect
  <2> QED
    BY <2>1, <2>2, <2>3
<1>2. CacheHolds'
  <2> SUFFICES ASSUME NEW a \in Procs, NEW t \in Tokens, cache'[a][t] # Absent,
                      cache'[a][t].val \in Texts, t \notin burned
               PROVE  Life(redis, t) >= SessionTTL - (CacheTTL - cache'[a][t].ttl) - MaxLag
    BY <1>0 DEF CacheHolds
  <2>1. CASE cache'[a][t] = cache[a][t]
    BY <2>1 DEF SlideInv, CacheHolds
  <2>2. CASE cache'[a][t].ttl = CacheTTL /\ Source(q, t, cache'[a][t].val)
    <3>1. q.pc \in {"create.set", "rotate.expire"} /\ Answered(q) /\ t = q.new
      BY <1>0, <2>2, TextIsLegacy, SpecialAssumption DEF Source, Modern, Texts, RawValues
    <3>2. Life(redis, t) >= SessionTTL - q.age /\ Life(redis, t) \in Int
      BY <1>0, <3>1, LifeType DEF Slack, Stored, Storers
    <3> QED
      BY <1>0, <2>2, <3>2
  <2> QED
    BY <2>1, <2>2, CacheCells DEF Resumed
<1>3. ASSUME Launched(q, n) PROVE Slack(n, redis, burned)
  <2>1. ~Answered(n) /\ n.age \in 0 .. MaxLag
    BY <1>3, RequestTokens DEF Launched, Answered, TypeInv, TypeOK, Requests
  <2>2. CASE n.pc = "owner.expire"
    <3> SUFFICES ASSUME n.token \notin burned
                 PROVE  Life(redis, n.token) >= SessionTTL - CacheTTL + 1 - MaxLag - n.age
      BY <2>1, <2>2 DEF Slack, Stored, Storers
    <3>1. ~(q.pc = "owner.get" /\ \E u \in UserIds : q.res = Text(u))
      <4>1. \A u \in UserIds : Text(u) \notin {Null, Pending, Error}
        BY SpecialAssumption DEF RawValues, Texts, Replies
      <4> QED
        BY <1>0, <4>1, TextIsLegacy DEF Modern, Answered
    <3>2. PICK a \in Procs, u \in UserIds : CachedOwner(a, n.token, u)
      BY <1>3, <2>2, <3>1 DEF Launched
    <3>3. n.token \in Tokens /\ n.age = 0
      BY <1>3, <2>2, <3>1 DEF Launched, TypeInv, TypeOK
    <3>4. Life(redis, n.token) >= SessionTTL - (CacheTTL - cache[a][n.token].ttl) - MaxLag
      BY <3>2, <3>3 DEF CachedOwner, SlideInv, CacheHolds, Texts
    <3>5. cache[a][n.token].ttl \in 1 .. CacheTTL /\ Life(redis, n.token) \in Int
      BY <3>2, <3>3, CellTypes, LifeType DEF CachedOwner
    <3> QED
      BY <1>0, <3>3, <3>4, <3>5
  <2>3. CASE n.pc = "rotate.expire"
    <3>1. q.pc = "rotate.set" /\ Answered(q) /\ n.new = q.new /\ n.age = q.age
      BY <1>3, <2>3 DEF Launched
    <3> QED
      BY <1>0, <2>1, <2>3, <3>1 DEF Slack, Stored, Storers
  <2>4. CASE n.pc \notin {"owner.expire", "rotate.expire"}
    BY <2>1, <2>4 DEF Slack, Stored, Storers
  <2> QED
    BY <2>2, <2>3, <2>4
<1>4. ASSUME Ended(n) PROVE Slack(n, redis, burned)
  BY <1>4 DEF Ended, Slack, Stored, Storers
<1>5. \A s \in Reqs : Slack(req'[s], redis', burned')
  BY <1>0, <1>3, <1>4 DEF Resumed, SlideInv
<1> QED
  BY <1>1, <1>2, <1>5 DEF SlideInv

(* A step that shortens no life and leaves the clocks of processes alone.  *)
LEMMA LastingKeeps ==
  ASSUME TypeInv, TypeInv', SlideInv, Lasting,
         \A p \in Procs, t \in Tokens : /\ cache'[p][t] \in {cache[p][t], Absent}
                                        /\ throttle'[p][t] \in {throttle[p][t], 0}
  PROVE  ThrottleHolds' /\ CacheHolds'
<1>0. /\ SessionTTL \in Nat /\ CacheTTL \in Nat /\ MaxLag \in Nat /\ ThrottleTTL \in Nat
  BY Clocks
<1>1. ASSUME NEW t \in Tokens, t \notin burned'
      PROVE  /\ t \notin burned /\ Life(redis', t) >= Life(redis, t)
             /\ Life(redis, t) \in Int /\ Life(redis', t) \in Int
  <2>1. redis'[t] \in LiveEntries(RawValues, SessionTTL) \cup {Absent}
    BY DEF TypeInv, TypeOK
  <2> QED
    BY <1>1, <2>1, LifeType, TTLAssumption DEF Lasting, Life, LiveEntries
<1>2. ThrottleHolds'
  <2> SUFFICES ASSUME NEW p \in Procs, NEW t \in Tokens, throttle'[p][t] > 0, t \notin burned'
               PROVE  Life(redis', t) >= SessionTTL - (ThrottleTTL - throttle'[p][t]) - MaxLag
    BY DEF ThrottleHolds
  <2>1. throttle'[p][t] = throttle[p][t] /\ throttle[p][t] \in Int
    BY CellTypes
  <2>2. Life(redis, t) >= SessionTTL - (ThrottleTTL - throttle[p][t]) - MaxLag
    BY <1>1, <2>1 DEF SlideInv, ThrottleHolds
  <2> QED
    BY <1>0, <1>1, <2>1, <2>2
<1>3. CacheHolds'
  <2> SUFFICES ASSUME NEW p \in Procs, NEW t \in Tokens, cache'[p][t] # Absent,
                      cache'[p][t].val \in Texts, t \notin burned'
               PROVE  Life(redis', t) >= SessionTTL - (CacheTTL - cache'[p][t].ttl) - MaxLag
    BY DEF CacheHolds
  <2>1. cache'[p][t] = cache[p][t]
    OBVIOUS
  <2>2. Life(redis, t) >= SessionTTL - (CacheTTL - cache[p][t].ttl) - MaxLag
    BY <1>1, <2>1 DEF SlideInv, CacheHolds
  <2>3. cache[p][t].ttl \in Int
    BY <2>1, CellTypes
  <2> QED
    BY <1>0, <1>1, <2>1, <2>2, <2>3
<1> QED
  BY <1>2, <1>3

LEMMA RedisSlide ==
  ASSUME SlideHypotheses, TypeInv, TypeInv', ModernInv, SlideInv,
         NEW p \in Procs, NEW r \in Reqs, Redis(p, r)
  PROVE  SlideInv'
<1> DEFINE q == req[r]
<1>0. /\ redis \in [Tokens -> LiveEntries(RawValues, SessionTTL) \cup {Absent}]
      /\ {Null, Pending, Error} \subseteq Results /\ Null \notin {Pending, Error}
      /\ Modern(q) /\ Slack(q, redis, burned) /\ q.age \in 0 .. MaxLag
      /\ SessionTTL \in Nat /\ CacheTTL \in Nat /\ MaxLag \in Nat
      /\ q.pc \in WaitingPCs \ {"create.set"} => q.token \in Tokens
      /\ q.pc \in Storers => q.new \in Tokens
  BY Clocks, RequestTokens, SpecialAssumption
     DEF TypeInv, TypeOK, Results, ModernInv, SlideInv
<1>1. ASSUME NEW pcs, NEW res \in Results, Execute(p, r, pcs, res), Lasting,
             res \notin {Pending, Error} =>
               /\ q.pc = "owner.expire" /\ q.token \notin burned' =>
                    Life(redis', q.token) >= SessionTTL - q.age
               /\ q.pc \in {"create.set", "rotate.set"} =>
                    Life(redis', q.new) >= SessionTTL - q.age
      PROVE  SlideInv'
  <2>1. /\ \A s \in Reqs \ {r} : req'[s] = req[s]
        /\ req'[r].pc = q.pc /\ req'[r].token = q.token /\ req'[r].age = q.age
        /\ req'[r].new = q.new /\ req'[r].res = res /\ q.res = Pending
        /\ UNCHANGED <<cache, throttle>>
    BY <1>1, ExecuteLeaves
  <2>2. ThrottleHolds' /\ CacheHolds'
    BY <1>1, <2>1, LastingKeeps
  <2>3. \A s \in Reqs : Slack(req[s], redis', burned')
    BY <1>1, SlackLasts DEF SlideInv
  <2>4. Slack(req'[r], redis', burned')
    <3>1. Slack(q, redis', burned') /\ ~Answered(q)
      BY <2>1, <2>3 DEF Answered
    <3> QED
      BY <1>1, <2>1, <3>1 DEF Slack, Stored, Answered, Storers
  <2> QED
    BY <2>1, <2>2, <2>3, <2>4 DEF SlideInv
<1>2. UNCHANGED <<redis, burned>> => Lasting
  BY LifeType DEF Lasting
<1> USE DEF history
<1>3. CASE RedisGet(p, r)
  <2> DEFINE key == redis[q.token]
             res == IF key = Absent THEN Null ELSE key.val
  <2>1. Execute(p, r, {"owner.get", "read.get"}, res) /\ UNCHANGED <<redis, burned>>
    BY <1>3 DEF RedisGet
  <2>2. q.token \in Tokens /\ q.pc \in {"owner.get", "read.get"}
    BY <1>0, <2>1 DEF Execute, WaitingPCs
  <2>3. res \in Results
    BY <1>0, <2>2 DEF LiveEntries, Results, Replies
  <2> HIDE DEF res
  <2> QED
    BY <1>1, <1>2, <2>1, <2>2, <2>3
<1>4. CASE RedisTtl(p, r) \/ RedisMigrate(p, r)
  <2>1. q.pc \in {"read.ttl", "read.set"}
    BY <1>4 DEF RedisTtl, RedisMigrate, Execute
  <2> QED
    BY <1>0, <2>1 DEF Modern
<1>5. CASE RedisRefresh(p, r)
  <2>1. /\ Execute(p, r, {"owner.expire"}, Null) /\ ExpireKey(q.token, SessionTTL)
        /\ burned' = burned
    BY <1>5 DEF RedisRefresh, RefreshTTL
  <2>2. /\ q.pc = "owner.expire" /\ q.token \in Tokens /\ ~Answered(q)
    BY <1>0, <2>1 DEF Execute, WaitingPCs, Answered
  <2>3. ASSUME NEW t \in Tokens
        PROVE  /\ Life(redis', t) >= Life(redis, t)
               /\ t = q.token /\ redis[t] # Absent => Life(redis', t) = SessionTTL
    <3>1. Life(redis, t) \in 0 .. SessionTTL
      BY LifeType
    <3>2. CASE t = q.token /\ redis[t] # Absent
      <4>1. redis'[t] = Entry(redis[t].val, SessionTTL) /\ redis[t].val \in RawValues
        BY <1>0, <2>1, <3>2 DEF ExpireKey, LiveEntries
      <4>2. redis'[t] # Absent /\ redis'[t].ttl = SessionTTL
        BY <1>0, <4>1, SpecialAssumption DEF Entry
      <4> QED
        BY <1>0, <3>1, <4>2 DEF Life
    <3>3. CASE ~(t = q.token /\ redis[t] # Absent)
      <4>1. redis'[t] = redis[t]
        BY <1>0, <2>1, <3>3 DEF ExpireKey
      <4> QED
        BY <3>1, <3>3, <4>1 DEF Life
    <3> QED
      BY <3>2, <3>3
  <2>4. q.token \notin burned => redis[q.token] # Absent
    <3>1. q.token \notin burned =>
            Life(redis, q.token) >= SessionTTL - CacheTTL + 1 - MaxLag - q.age
      BY <1>0, <2>2 DEF Slack
    <3>2. Life(redis, q.token) \in Int /\ (Life(redis, q.token) > 0 <=> redis[q.token] # Absent)
      BY <2>2, LifeType
    <3> QED
      BY <1>0, <3>1, <3>2 DEF SlideHypotheses
  <2>5. Lasting
    BY <2>1, <2>3 DEF Lasting
  <2>6. q.token \notin burned' => Life(redis', q.token) >= SessionTTL - q.age
    BY <1>0, <2>1, <2>2, <2>3, <2>4
  <2> QED
    BY <1>0, <1>1, <2>1, <2>2, <2>5, <2>6
<1>6. CASE RedisBurn(p, r)
  <2>1. /\ Execute(p, r, {"rotate.expire"}, Null) /\ ExpireKey(q.token, GraceTTL)
        /\ burned' = IF redis[q.token] = Absent THEN burned ELSE burned \cup {q.token}
    BY <1>6 DEF RedisBurn
  <2>2. q.pc = "rotate.expire" /\ q.token \in Tokens
    BY <1>0, <2>1 DEF Execute, WaitingPCs
  <2>3. ASSUME NEW t \in Tokens \ burned'
        PROVE  Life(redis', t) >= Life(redis, t)
    <3>1. Life(redis, t) \in Int /\ redis'[t] = redis[t]
      BY <1>0, <2>1, <2>3, LifeType DEF ExpireKey
    <3> QED
      BY <3>1 DEF Life
  <2>4. Lasting
    BY <2>1, <2>3 DEF Lasting
  <2> QED
    BY <1>0, <1>1, <2>1, <2>2, <2>4
<1>7. CASE RedisStore(p, r)
  <2>1. /\ Execute(p, r, {"create.set", "rotate.set"}, Null)
        /\ redis' = [redis EXCEPT ![q.new] = Entry(Serialize(q.payload), SessionTTL)]
        /\ burned' = burned
    BY <1>7 DEF RedisStore
  <2>2. q.new \in Tokens /\ q.pc \in {"create.set", "rotate.set"}
    BY <1>0, <2>1 DEF Execute, Storers
  <2>3. redis'[q.new] = Entry(Serialize(q.payload), SessionTTL)
    BY <1>0, <2>1, <2>2
  <2>4. redis'[q.new] # Absent
    <3>1. Serialize(q.payload) \in RawValues
      BY <2>2, SerializeType DEF TypeInv, Shape
    <3> QED
      BY <1>0, <2>3, <3>1, SpecialAssumption DEF Entry
  <2>5. Life(redis', q.new) = SessionTTL
    BY <2>3, <2>4 DEF Life, Entry
  <2>6. ASSUME NEW t \in Tokens
        PROVE  Life(redis', t) >= Life(redis, t)
    <3>1. Life(redis, t) \in 0 .. SessionTTL
      BY LifeType
    <3>2. t # q.new => redis'[t] = redis[t]
      BY <1>0, <2>1
    <3> QED
      BY <1>0, <2>5, <3>1, <3>2 DEF Life
  <2>7. Lasting
    BY <2>1, <2>6 DEF Lasting
  <2>8. Life(redis', q.new) >= SessionTTL - q.age
    BY <1>0, <2>5
  <2> QED
    BY <1>0, <1>1, <2>1, <2>2, <2>7, <2>8
<1>8. CASE RedisRefuse(p, r)
  <2>1. Execute(p, r, WaitingPCs, Error) /\ UNCHANGED <<redis, burned>>
    BY <1>8 DEF RedisRefuse
  <2> QED
    BY <1>0, <1>1, <1>2, <2>1
<1> QED
  BY <1>3, <1>4, <1>5, <1>6, <1>7, <1>8 DEF Redis

LEMMA TickSlide ==
  ASSUME TypeInv, TypeInv', SlideInv, Tick
  PROVE  SlideInv'
<1>0. /\ SessionTTL \in Nat /\ CacheTTL \in Nat /\ MaxLag \in Nat /\ ThrottleTTL \in Nat
      /\ burned' = burned
  BY Clocks DEF Tick
<1>1. ASSUME NEW t \in Tokens
      PROVE  /\ Life(redis', t) >= Life(redis, t) - 1
             /\ Life(redis, t) \in Int /\ Life(redis', t) \in Int
  <2>1. Life(redis, t) \in Int /\ (redis[t] # Absent => redis[t].ttl \in Nat)
    BY LifeType DEF Life
  <2>2. redis'[t] = Aged(redis[t])
    BY DEF Tick
  <2>3. redis'[t] # Absent => redis'[t].ttl \in Nat
    BY TTLAssumption DEF TypeInv, TypeOK, LiveEntries
  <2> QED
    <3>1. CASE redis'[t] = Absent
      <4>1. redis[t] = Absent \/ redis[t].ttl = 1
        BY <2>1, <2>2, <3>1, SpecialAssumption DEF Aged, Entry, TypeInv, TypeOK, LiveEntries
      <4> QED
        BY <2>1, <3>1, <4>1 DEF Life
    <3>2. CASE redis'[t] # Absent
      <4>1. redis[t] # Absent
        BY <2>2, <3>2 DEF Aged
      <4>2. redis'[t].ttl = redis[t].ttl - 1
        BY <2>1, <2>2, <3>2, <4>1, AgedEntry
      <4> QED
        BY <2>1, <3>2, <4>1, <4>2 DEF Life
    <3> QED
      BY <3>1, <3>2
<1>2. ThrottleHolds'
  <2> SUFFICES ASSUME NEW p \in Procs, NEW t \in Tokens, throttle'[p][t] > 0, t \notin burned
               PROVE  Life(redis', t) >= SessionTTL - (ThrottleTTL - throttle'[p][t]) - MaxLag
    BY <1>0 DEF ThrottleHolds
  <2>1. throttle[p][t] \in Int /\ throttle[p][t] > 0 /\ throttle'[p][t] = throttle[p][t] - 1
    BY CellTypes DEF Tick
  <2>2. Life(redis, t) >= SessionTTL - (ThrottleTTL - throttle[p][t]) - MaxLag
    BY <2>1 DEF SlideInv, ThrottleHolds
  <2> QED
    BY <1>0, <1>1, <2>1, <2>2
<1>3. CacheHolds'
  <2> SUFFICES ASSUME NEW p \in Procs, NEW t \in Tokens, cache'[p][t] # Absent,
                      cache'[p][t].val \in Texts, t \notin burned
               PROVE  Life(redis', t) >= SessionTTL - (CacheTTL - cache'[p][t].ttl) - MaxLag
    BY <1>0 DEF CacheHolds
  <2>1. cache'[p][t] = Aged(cache[p][t]) /\ cache[p][t] # Absent
    BY DEF Tick, Aged
  <2>2. cache[p][t].ttl \in Nat
    BY <2>1, CellTypes
  <2>3. cache'[p][t].ttl = cache[p][t].ttl - 1 /\ cache'[p][t].val = cache[p][t].val
    BY <2>1, <2>2, AgedEntry
  <2>4. Life(redis, t) >= SessionTTL - (CacheTTL - cache[p][t].ttl) - MaxLag
    BY <2>1, <2>3 DEF SlideInv, CacheHolds
  <2> QED
    BY <1>0, <1>1, <2>2, <2>3, <2>4
<1>4. ASSUME NEW r \in Reqs PROVE Slack(req'[r], redis', burned)
  <2>1. req[r] \in Requests /\ Slack(req[r], redis, burned)
    BY DEF TypeInv, TypeOK, SlideInv
  <2>2. CASE Waiting(r)
    <3>1. /\ req'[r].pc = req[r].pc /\ req'[r].res = req[r].res
          /\ req'[r].token = req[r].token /\ req'[r].new = req[r].new
          /\ req'[r].age = req[r].age + 1
      BY <2>1, <2>2 DEF Tick, Requests
    <3>2. /\ req[r].age \in Nat
          /\ req[r].pc = "owner.expire" => req[r].token \in Tokens
          /\ req[r].pc \in Storers => req[r].new \in Tokens
      BY RequestTokens DEF WaitingPCs
    <3>3. ASSUME NEW t \in Tokens, NEW x \in Int, Life(redis, t) >= x - req[r].age
          PROVE  Life(redis', t) >= x - req'[r].age
      BY <1>1, <3>1, <3>2, <3>3
    <3>4. SessionTTL \in Int /\ SessionTTL - CacheTTL + 1 - MaxLag \in Int
      BY <1>0
    <3>5. Answered(req'[r]) <=> Answered(req[r])
      BY <3>1 DEF Answered
    <3>6. Stored(req'[r]) => Stored(req[r]) /\ req[r].new \in Tokens
      BY <3>1, <3>2, <3>5 DEF Stored, Storers
    <3> PICK n, q, keys, later : n = req'[r] /\ q = req[r] /\ keys = redis /\ later = redis'
      OBVIOUS
    <3>7. n.pc = "owner.expire" /\ n.token \notin burned =>
            Life(later, n.token) >= IF Answered(n)
              THEN SessionTTL - n.age
              ELSE SessionTTL - CacheTTL + 1 - MaxLag - n.age
      <4> SUFFICES ASSUME n.pc = "owner.expire", n.token \notin burned
                   PROVE  Life(later, n.token) >= IF Answered(n)
                            THEN SessionTTL - n.age
                            ELSE SessionTTL - CacheTTL + 1 - MaxLag - n.age
        OBVIOUS
      <4>1. q.token \in Tokens /\ q.token = n.token /\ (Answered(n) <=> Answered(q))
        BY <3>1, <3>2, <3>5
      <4>2. Life(keys, q.token) >= IF Answered(q)
              THEN SessionTTL - q.age
              ELSE SessionTTL - CacheTTL + 1 - MaxLag - q.age
        BY <2>1, <3>1, <4>1 DEF Slack
      <4>3. CASE Answered(n)
        BY <3>3, <3>4, <4>1, <4>2, <4>3
      <4>4. CASE ~Answered(n)
        <5>1. PICK x \in Int : x = SessionTTL - CacheTTL + 1 - MaxLag
          BY <3>4
        <5>2. Life(redis, q.token) >= x - req[r].age
          BY <1>0, <3>2, <4>1, <4>2, <4>4, <5>1
        <5>3. Life(redis', q.token) >= x - req'[r].age
          BY <3>3, <4>1, <5>2
        <5> QED
          BY <1>0, <3>1, <3>2, <4>1, <4>4, <5>1, <5>3
      <4> QED
        BY <4>3, <4>4
    <3>8. Stored(n) /\ n.new \notin burned => Life(later, n.new) >= SessionTTL - n.age
      BY <2>1, <3>1, <3>3, <3>4, <3>6 DEF Slack
    <3> QED
      BY <3>7, <3>8 DEF Slack
  <2>3. CASE ~Waiting(r)
    BY <2>3 DEF Tick, Waiting, WaitingPCs, Slack, Stored, Storers
  <2> QED
    BY <2>2, <2>3
<1> QED
  BY <1>0, <1>2, <1>3, <1>4 DEF SlideInv

LEMMA EnvironmentSlide ==
  ASSUME SlideHypotheses, TypeInv, TypeInv', SlideInv, Environment
  PROVE  SlideInv'
<1> USE DEF history, local
<1>1. ASSUME UNCHANGED <<redis, burned>>,
             \A p \in Procs, t \in Tokens : /\ cache'[p][t] \in {cache[p][t], Absent}
                                            /\ throttle'[p][t] \in {throttle[p][t], 0},
             \A r \in Reqs : req'[r] = req[r] \/ Ended(req'[r])
      PROVE  SlideInv'
  <2>1. Lasting
    BY <1>1, LifeType DEF Lasting
  <2>2. \A r \in Reqs : Slack(req'[r], redis', burned')
    BY <1>1 DEF SlideInv, Ended, Slack, Stored
  <2> QED
    BY <1>1, <2>1, <2>2, LastingKeeps DEF SlideInv
<1>2. CASE Tick
  BY <1>2, TickSlide
<1>3. ASSUME NEW t \in Tokens, Revoke(t) PROVE SlideInv'
  BY <1>3 DEF Revoke, SlideHypotheses
<1>4. ASSUME NEW p \in Procs, Crash(p) PROVE SlideInv'
  <2>1. \A a \in Procs, t \in Tokens : /\ cache'[a][t] \in {cache[a][t], Absent}
                                       /\ throttle'[a][t] \in {throttle[a][t], 0}
    BY <1>4 DEF Crash, TypeInv, TypeOK
  <2> QED
    BY <1>1, <1>4, <2>1, CrashLeaves DEF Crash
<1>5. ASSUME NEW p \in Procs, NEW t \in Tokens, EvictOwner(p, t) \/ EvictThrottle(p, t)
      PROVE  SlideInv'
  <2>1. /\ cache' \in {cache, [cache EXCEPT ![p][t] = Absent]}
        /\ throttle' \in {throttle, [throttle EXCEPT ![p][t] = 0]}
        /\ UNCHANGED <<redis, burned, req>>
    BY <1>5 DEF EvictOwner, EvictThrottle
  <2>2. /\ DOMAIN cache = Procs /\ \A a \in Procs : DOMAIN cache[a] = Tokens
        /\ DOMAIN throttle = Procs /\ \A a \in Procs : DOMAIN throttle[a] = Tokens
    BY DEF TypeInv, TypeOK
  <2>3. \A a \in Procs, k \in Tokens : /\ cache'[a][k] \in {cache[a][k], Absent}
                                       /\ throttle'[a][k] \in {throttle[a][k], 0}
    BY <2>1, <2>2
  <2> QED
    BY <1>1, <2>1, <2>3
<1> QED
  BY <1>2, <1>3, <1>4, <1>5 DEF Environment

LEMMA SlideStep ==
  ASSUME SlideHypotheses
  PROVE  TypeInv /\ TypeInv' /\ SafetyInv /\ ReplayInv /\ SlideInv /\ [Next]_vars => SlideInv'
<1> SUFFICES ASSUME TypeInv, TypeInv', SafetyInv, ModernInv, SlideInv, [Next]_vars
             PROVE  SlideInv'
  BY DEF ReplayInv
<1>1. CASE UNCHANGED vars
  BY <1>1 DEF vars, SlideInv, ThrottleHolds, CacheHolds
<1>2. CASE Next
  BY <1>2, ResumedSlide, RedisSlide, HandlerResumed, ClientResumed, EnvironmentSlide DEF Next
<1> QED
  BY <1>1, <1>2

(* While EXPIRE is held back for a token that was not rotated, its key is  *)
(* there with almost all of SESSION_TTL left (server.ts 771-780).          *)
THEOREM ExpirySlides ==
  ASSUME SlideHypotheses
  PROVE  Spec => []SlidingExpiry
<1>1. Init => ReplayInv
  BY InitReplay DEF SlideHypotheses
<1>2. TypeInv /\ SlideInv => SlidingExpiry
  <2> SUFFICES ASSUME TypeInv, SlideInv, NEW p \in Procs, NEW t \in Tokens,
                      throttle[p][t] > 0, t \notin burned
               PROVE  /\ redis[t] # Absent
                      /\ redis[t].ttl >= SessionTTL - (ThrottleTTL - throttle[p][t]) - MaxLag
    BY DEF SlidingExpiry
  <2>1. Life(redis, t) >= SessionTTL - (ThrottleTTL - throttle[p][t]) - MaxLag
    BY DEF SlideInv, ThrottleHolds
  <2>2. /\ Life(redis, t) \in Int /\ (redis[t] # Absent <=> Life(redis, t) > 0)
        /\ throttle[p][t] \in Int
    BY LifeType, CellTypes
  <2>3. redis[t] # Absent
    BY <2>1, <2>2, Clocks, TTLAssumption
  <2> QED
    BY <2>1, <2>3 DEF Life
<1>3. TypeInv /\ SafetyInv /\ ReplayInv /\ [Next]_vars => TypeInv' /\ ReplayInv'
  BY TypeStep, ReplayStep
<1>4. SlideHypotheses
  OBVIOUS
<1> QED
  BY Safety, InitSlide, SlideStep, ReplayStep, TypeStep, <1>1, <1>2, <1>3, PTL DEF Spec

-----------------------------------------------------------------------------
(* The burn of a single process.  A refresh of a token that somebody is    *)
(* rotating would stand behind the rotation's commands, and might reach    *)
(* Redis after the burn.  It does not: whoever rotates has seen the        *)
(* throttle closed, the throttle stays closed for longer than the owner is *)
(* cached, and a refresh sent before it was closed is ahead of everything  *)
(* the rotation sends.                                                     *)
Pends(q) == q.pc \in WaitingPCs /\ q.res = Pending

Turning     == {"read.get", "read.ttl", "read.set", "rotate.set", "rotate.expire"}
Turns(q, t) == q.token = t /\ q.pc \in Turning

(* The requests Q on the connection w wait there, each once.               *)
InLine(w, Q) ==
  /\ \A i \in DOMAIN w : Pends(Q[w[i]])
  /\ \A i, j \in DOMAIN w : w[i] = w[j] => i = j

(* A refresh on its way comes before all that rotates its token.           *)
RefreshFirst(w, Q, burnt) ==
  \A i \in DOMAIN w : Q[w[i]].pc = "owner.expire" =>
    /\ Q[w[i]].token \notin burnt
    /\ \A s \in Reqs : Turns(Q[s], Q[w[i]].token) => \E j \in DOMAIN w : i < j /\ w[j] = s

Committed(t) == t \in burned \/ \E r \in Reqs : Turns(req[r], t)

OwnerKnown(p, t) == cache[p][t] # Absent /\ cache[p][t].val \in Texts

(* The throttle outlasts the owner, and is closed where somebody rotates.  *)
HeldBack ==
  \A p \in Procs, t \in Tokens : OwnerKnown(p, t) =>
    /\ throttle[p][t] = 0 \/ throttle[p][t] >= cache[p][t].ttl
    /\ Committed(t) => throttle[p][t] # 0

ThrottleNames == \A p \in Procs, t \in Tokens : throttle[p][t] # 0 => t \in known

Lines(w, Q, burnt) == \A p \in Procs : InLine(w[p], Q) /\ RefreshFirst(w[p], Q, burnt)

BurnInv == Lines(wire, req, burned) /\ HeldBack /\ ThrottleNames /\ burned \subseteq known

(* One process, whose LRU of 1000 tokens does not overflow.                *)
BurnHypotheses ==
  /\ \A p, q \in Procs : p = q
  /\ LegacyTokens = {}
  /\ "forget" \notin Faults
  /\ CacheTTL <= ThrottleTTL

LEMMA InitBurn == Init => BurnInv
<1> SUFFICES ASSUME Init PROVE BurnInv
  OBVIOUS
<1>1. /\ \A p \in Procs, t \in Tokens : cache[p][t] = Absent /\ throttle[p][t] = 0
      /\ \A p \in Procs : wire[p] = <<>> /\ DOMAIN wire[p] = {}
      /\ burned = {}
  BY DEF Init
<1> QED
  BY <1>1 DEF BurnInv, Lines, InLine, RefreshFirst, HeldBack, OwnerKnown, ThrottleNames

-----------------------------------------------------------------------------
(* What a handler that goes on leaves on the connection.                   *)
Queued(p, r) ==
  \/ wire' = wire /\ Ended(req'[r])
  \/ /\ wire' = [wire EXCEPT ![p] = Append(wire[p], r)]
     /\ Pends(req'[r])
     /\ req'[r].pc = "owner.expire" => throttle'[p][req'[r].token] = 0
     /\ req'[r].pc = "read.get" => throttle'[p][req'[r].token] # 0

LEMMA AnswerQueues ==
  ASSUME TypeInv, NEW p, NEW r \in Reqs, NEW q \in Requests, NEW status \in Nat, Answer(r, q, status)
  PROVE  Queued(p, r)
BY AnswerEnds DEF Queued, Answer

LEMMA SendQueues ==
  ASSUME TypeInv, NEW p \in Procs, NEW r \in Reqs, NEW q \in Requests,
         NEW pc \in WaitingPCs \ {"owner.expire", "read.get"}, Send(p, r, q, pc)
  PROVE  Queued(p, r)
<1>1. req'[r].pc = pc /\ req'[r].res = Pending
  BY SendLeaves
<1> QED
  BY <1>1 DEF Queued, Send, Pends

LEMMA HandleQueues ==
  ASSUME TypeInv, NEW p \in Procs, NEW r \in Reqs, NEW q \in Requests, Handle(p, r, q),
         throttle'[p][q.token] # 0
  PROVE  Queued(p, r)
<1>1. CASE Answer(r, q, 200)
  BY <1>1, AnswerQueues
<1>2. CASE Send(p, r, q, "read.get")
  <2>1. /\ "read.get" \in WaitingPCs
        /\ req'[r].pc = "read.get" /\ req'[r].res = Pending /\ req'[r].token = q.token
    BY <1>2, SendLeaves DEF WaitingPCs
  <2> QED
    BY <1>2, <2>1 DEF Queued, Send, Pends
<1> QED
  BY <1>1, <1>2 DEF Handle

LEMMA AuthoriseQueues ==
  ASSUME TypeInv, NEW p \in Procs, NEW r \in Reqs, NEW q \in Requests, NEW ownerId,
         Authorise(p, r, q, ownerId), throttle' = throttle
  PROVE  Queued(p, r)
<1>1. CASE \E status \in {404, 403} : Answer(r, q, status)
  BY <1>1, AnswerQueues
<1>2. CASE ~Throttled(p, q.token) /\ Send(p, r, q, "owner.expire")
  <2>1. /\ "owner.expire" \in WaitingPCs
        /\ req'[r].pc = "owner.expire" /\ req'[r].res = Pending /\ req'[r].token = q.token
    BY <1>2, SendLeaves DEF WaitingPCs
  <2> QED
    BY <1>2, <2>1 DEF Queued, Send, Pends, Throttled
<1>3. CASE Throttled(p, q.token) /\ Handle(p, r, q)
  BY <1>3, HandleQueues DEF Throttled
<1> QED
  BY <1>1, <1>2, <1>3 DEF Authorise

LEMMA SuccessorQueues ==
  ASSUME TypeInv, NEW p \in Procs, NEW r \in Reqs, NEW payload \in Payloads,
         req[r].token \in Tokens, StoreSuccessor(p, r, payload)
  PROVE  Queued(p, r)
<1> DEFINE next(t) == [req[r] EXCEPT !.new = t, !.payload = RotatedPayload(payload, req[r].token)]
<1>1. PICK t \in FreshTokens : Send(p, r, next(t), "rotate.set")
  BY DEF StoreSuccessor
<1>2. wire' = [wire EXCEPT ![p] = Append(wire[p], r)]
  BY <1>1 DEF Send
<1>3. req'[r].pc = "rotate.set" /\ req'[r].res = Pending
  BY SuccessorLeaves
<1> QED
  BY <1>2, <1>3 DEF Queued, Pends, WaitingPCs

(* A handler is resumed with a reply, and a client has an idle slot.       *)
LEMMA HandlerQueued ==
  ASSUME TypeInv, SafetyInv, NEW p \in Procs, NEW r \in Reqs, Handler(p, r)
  PROVE  Queued(p, r) /\ ~Pends(req[r])
<1> DEFINE q == req[r]
<1>0. /\ q \in Requests /\ Shape(q) /\ Pending # Error
      /\ 404 \in Nat /\ 401 \in Nat /\ 201 \in Nat /\ 200 \in Nat /\ 500 \in Nat
  BY SpecialAssumption DEF TypeInv, TypeOK
<1> USE DEF history, local
<1>1. CASE OwnerGot(p, r)
  <2>1. q.pc = "owner.get" /\ q.res \notin {Pending, Error} /\ throttle' = throttle
    BY <1>1 DEF OwnerGot, Receive
  <2>2. CASE Answer(r, q, 404)
    BY <1>0, <2>1, <2>2, AnswerQueues DEF Pends
  <2>3. CASE Authorise(p, r, q, q.res)
    BY <1>0, <2>1, <2>3, AuthoriseQueues DEF Pends
  <2> QED
    BY <1>1, <2>2, <2>3 DEF OwnerGot
<1>2. CASE OwnerRefreshed(p, r)
  <2>1. /\ q.pc = "owner.expire" /\ q.res \notin {Pending, Error} /\ Handle(p, r, q)
        /\ throttle' = [throttle EXCEPT ![p][q.token] = ThrottleTTL]
    BY <1>2 DEF OwnerRefreshed, Receive
  <2>2. q.token \in Tokens /\ throttle \in [Procs -> [Tokens -> 0 .. ThrottleTTL]]
    BY <1>0, <2>1 DEF Shape, WaitingPCs, TypeInv, TypeOK
  <2>3. throttle'[p][q.token] # 0
    BY <2>1, <2>2, TTLAssumption
  <2> QED
    BY <1>0, <2>1, <2>3, HandleQueues DEF Pends
<1>3. CASE SessionCreated(p, r)
  <2>1. q.res # Pending /\ Answer(r, q, 201)
    BY <1>3 DEF SessionCreated, Receive
  <2> QED
    BY <1>0, <2>1, AnswerQueues DEF Pends
<1>4. CASE SessionRead(p, r)
  <2>1. q.pc = "read.get" /\ q.res \notin {Pending, Error}
    BY <1>4 DEF SessionRead, Receive
  <2>2. q.token \in Tokens /\ q.res \in RawValues \cup {Null}
    BY <1>0, <2>1 DEF Shape, WaitingPCs
  <2>3. CASE Answer(r, q, 401)
    BY <1>0, <2>1, <2>3, AnswerQueues DEF Pends
  <2>4. CASE q.res # Null /\ Send(p, r, [q EXCEPT !.payload = MigrateLegacy(q.res)], "read.ttl")
    <3>1. MigrateLegacy(q.res) \in Payloads
      BY <2>2, <2>4, MigrateType
    <3>2. [q EXCEPT !.payload = MigrateLegacy(q.res)] \in Requests
      BY <1>0, <3>1 DEF Requests
    <3>3. "read.ttl" \in WaitingPCs \ {"owner.expire", "read.get"}
      BY DEF WaitingPCs
    <3> QED
      BY <2>1, <2>4, <3>2, <3>3, SendQueues DEF Pends
  <2>5. CASE IsPayload(q.res) /\ q.res # Null /\ StoreSuccessor(p, r, Deserialize(q.res))
    <3>1. Deserialize(q.res) \in Payloads
      BY <2>2, <2>5, DeserializeType
    <3> QED
      BY <2>1, <2>2, <2>5, <3>1, SuccessorQueues DEF Pends
  <2> QED
    BY <1>4, <2>3, <2>4, <2>5 DEF SessionRead, Readable
<1>5. CASE TtlRead(p, r)
  <2>1. q.pc = "read.ttl" /\ q.res \notin {Pending, Error}
    BY <1>5 DEF TtlRead, Receive
  <2>2. q.token \in Tokens /\ q.payload \in Payloads /\ q.res \in Integer
    BY <1>0, <2>1 DEF Shape, WaitingPCs
  <2>3. CASE q.res.seconds > 0 /\ Send(p, r, [q EXCEPT !.ttl = q.res.seconds], "read.set")
    <3>1. q.res.seconds \in Nat
      BY <2>2, <2>3 DEF Integer
    <3>2. [q EXCEPT !.ttl = q.res.seconds] \in Requests
      BY <1>0, <3>1 DEF Requests
    <3>3. "read.set" \in WaitingPCs \ {"owner.expire", "read.get"}
      BY DEF WaitingPCs
    <3> QED
      BY <2>1, <2>3, <3>2, <3>3, SendQueues DEF Pends
  <2>4. CASE StoreSuccessor(p, r, q.payload)
    BY <2>1, <2>2, <2>4, SuccessorQueues DEF Pends
  <2> QED
    BY <1>5, <2>3, <2>4 DEF TtlRead
<1>6. CASE SessionMigrated(p, r)
  <2>1. q.pc = "read.set" /\ q.res # Pending /\ StoreSuccessor(p, r, q.payload)
    BY <1>6 DEF SessionMigrated, Receive
  <2>2. q.token \in Tokens /\ q.payload \in Payloads
    BY <1>0, <2>1 DEF Shape, WaitingPCs
  <2> QED
    BY <2>1, <2>2, SuccessorQueues DEF Pends
<1>7. CASE SuccessorStored(p, r)
  <2>1. q.res # Pending /\ Send(p, r, q, "rotate.expire")
    BY <1>7 DEF SuccessorStored, Receive
  <2>2. "rotate.expire" \in WaitingPCs \ {"owner.expire", "read.get"}
    BY DEF WaitingPCs
  <2> QED
    BY <1>0, <2>1, <2>2, SendQueues DEF Pends
<1>8. CASE RotationDone(p, r)
  <2>1. q.res # Pending /\ Answer(r, q, 200)
    BY <1>8 DEF RotationDone, Receive
  <2> QED
    BY <1>0, <2>1, AnswerQueues DEF Pends
<1>9. CASE CommandFailed(p, r)
  <2>1. q.res = Error /\ \E status \in {500, 401} : Answer(r, q, status)
    BY <1>9 DEF CommandFailed
  <2> QED
    BY <1>0, <2>1, AnswerQueues DEF Pends
<1> QED
  BY <1>1, <1>2, <1>3, <1>4, <1>5, <1>6, <1>7, <1>8, <1>9 DEF Handler

LEMMA ClientQueued ==
  ASSUME TypeInv, NEW p \in Procs, NEW r \in Reqs, Client(p, r)
  PROVE  Queued(p, r) /\ ~Pends(req[r])
<1> USE DEF history, local
<1>1. ASSUME NEW u \in UserIds, CreateRequest(p, r, u)
      PROVE  Queued(p, r) /\ ~Pends(req[r])
  <2> DEFINE base == NewRequest(p, "create", u, Null)
             next(t) == [base EXCEPT !.new = t, !.payload = FirstPayload(u, {})]
  <2>1. PICK t \in FreshTokens : Send(p, r, next(t), "create.set")
    BY <1>1 DEF CreateRequest
  <2>2. base \in Requests /\ t \in Tokens
    BY NewRequestType, FreshTokensType
  <2>3. FirstPayload(u, {}) \in Payloads
    BY FirstType
  <2>4. "create.set" \in WaitingPCs \ {"owner.expire", "read.get"}
    BY DEF WaitingPCs
  <2> HIDE DEF base
  <2>5. next(t) \in Requests
    BY <2>2, <2>3 DEF Requests
  <2> HIDE DEF next
  <2>6. ~Pends(req[r])
    BY <1>1 DEF CreateRequest, Free, Waiting, Pends
  <2> QED
    BY <2>1, <2>4, <2>5, <2>6, SendQueues
<1>2. ASSUME NEW u \in UserIds, NEW t \in Tokens, NEW op \in {"check", "rotate"},
             OwnerRequest(p, r, op, u, t)
      PROVE  Queued(p, r) /\ ~Pends(req[r])
  <2> DEFINE q == NewRequest(p, op, u, t)
             hit == cache[p][t]
  <2>1. q \in Requests /\ throttle' = throttle /\ ~Pends(req[r])
    BY <1>2, NewRequestType DEF OwnerRequest, Free, Waiting, Pends
  <2>2. CASE Authorise(p, r, q, hit.val)
    <3> HIDE DEF q
    <3> QED
      BY <2>1, <2>2, AuthoriseQueues
  <2>3. CASE Send(p, r, q, "owner.get")
    <3>1. "owner.get" \in WaitingPCs \ {"owner.expire", "read.get"}
      BY DEF WaitingPCs
    <3> HIDE DEF q
    <3> QED
      BY <2>1, <2>3, <3>1, SendQueues
  <2> QED
    BY <1>2, <2>2, <2>3 DEF OwnerRequest
<1> QED
  BY <1>1, <1>2 DEF Client

-----------------------------------------------------------------------------
(* A connection keeps its order, when a request that is not on it ends or  *)
(* joins it, and when the command at its head is executed.                 *)
LEMMA LineKept ==
  ASSUME NEW w \in Seq(Reqs), NEW Q, NEW N, NEW B, NEW r \in Reqs,
         InLine(w, Q), RefreshFirst(w, Q, B), ~Pends(Q[r]),
         \A s \in Reqs \ {r} : N[s] = Q[s], N[r].pc \notin Turning
  PROVE  InLine(w, N) /\ RefreshFirst(w, N, B)
<1>1. \A i \in DOMAIN w : w[i] \in Reqs /\ w[i] # r /\ N[w[i]] = Q[w[i]]
  BY DEF InLine
<1>2. \A s \in Reqs : \A t : Turns(N[s], t) => Turns(Q[s], t)
  BY DEF Turns
<1> QED
  BY <1>1, <1>2 DEF InLine, RefreshFirst

LEMMA LineGrows ==
  ASSUME NEW w \in Seq(Reqs), NEW Q, NEW N, NEW B, NEW r \in Reqs,
         InLine(w, Q), RefreshFirst(w, Q, B), ~Pends(Q[r]), Pends(N[r]),
         \A s \in Reqs \ {r} : N[s] = Q[s],
         N[r].pc = "owner.expire" =>
           N[r].token \notin B /\ \A s \in Reqs : ~Turns(Q[s], N[r].token)
  PROVE  InLine(Append(w, r), N) /\ RefreshFirst(Append(w, r), N, B)
<1> DEFINE v == Append(w, r)
<1>1. PICK n \in Nat : n = Len(w) /\ DOMAIN w = 1..n
  OBVIOUS
<1>2. DOMAIN v = 1..n + 1 /\ v[n + 1] = r /\ \A i \in 1..n : v[i] = w[i]
  BY <1>1
<1>3. \A i \in 1..n : w[i] \in Reqs /\ w[i] # r /\ N[w[i]] = Q[w[i]] /\ Pends(Q[w[i]])
  BY <1>1 DEF InLine
<1> HIDE DEF v
<1>4. InLine(v, N)
  <2>1. ASSUME NEW i \in DOMAIN v PROVE Pends(N[v[i]])
    BY <1>1, <1>2, <1>3
  <2>2. ASSUME NEW i \in DOMAIN v, NEW j \in DOMAIN v, v[i] = v[j] PROVE i = j
    BY <1>1, <1>2, <1>3, <2>2 DEF InLine
  <2> QED
    BY <2>1, <2>2 DEF InLine
<1>5. ASSUME NEW i \in DOMAIN v, N[v[i]].pc = "owner.expire"
      PROVE  /\ N[v[i]].token \notin B
             /\ \A s \in Reqs : Turns(N[s], N[v[i]].token) => \E j \in DOMAIN v : i < j /\ v[j] = s
  <2>1. CASE i = n + 1
    <3>1. v[i] = r /\ ~Turns(N[r], N[r].token)
      BY <1>2, <1>5, <2>1 DEF Turns, Turning
    <3> QED
      BY <1>5, <3>1
  <2>2. CASE i \in 1..n
    <3>1. /\ v[i] = w[i] /\ N[v[i]] = Q[w[i]] /\ Q[w[i]].pc = "owner.expire" /\ i \in DOMAIN w
      BY <1>1, <1>2, <1>3, <1>5, <2>2
    <3>2. ASSUME NEW s \in Reqs, Turns(N[s], N[v[i]].token)
          PROVE  \E j \in DOMAIN v : i < j /\ v[j] = s
      <4>1. CASE s = r
        <5>1. n + 1 \in DOMAIN v /\ i < n + 1 /\ v[n + 1] = r
          BY <1>2, <2>2
        <5> QED
          BY <4>1, <5>1
      <4>2. CASE s # r
        <5>1. PICK j \in DOMAIN w : i < j /\ w[j] = s
          BY <3>1, <3>2, <4>2 DEF RefreshFirst
        <5> QED
          BY <1>1, <1>2, <5>1
      <4> QED
        BY <4>1, <4>2
    <3> QED
      BY <3>1, <3>2 DEF RefreshFirst
  <2> QED
    BY <1>2, <2>1, <2>2
<1> QED
  BY <1>4, <1>5 DEF v, RefreshFirst

LEMMA LineShrinks ==
  ASSUME NEW w \in Seq(Reqs), w # <<>>, NEW Q, NEW N, NEW B, NEW C, NEW r, r = Head(w),
         InLine(w, Q), RefreshFirst(w, Q, B),
         \A s \in Reqs \ {r} : N[s] = Q[s], N[r].pc = Q[r].pc, N[r].token = Q[r].token,
         C \subseteq B \/ (Q[r].pc = "rotate.expire" /\ C \subseteq B \cup {Q[r].token})
  PROVE  InLine(Tail(w), N) /\ RefreshFirst(Tail(w), N, C)
<1> DEFINE v == Tail(w)
<1>1. PICK n \in Nat : n + 1 = Len(w) /\ DOMAIN w = 1..n + 1 /\ r \in Reqs /\ w[1] = r
  BY HeadTailProperties, EmptySeq
<1>2. DOMAIN v = 1..n /\ \A i \in 1..n : v[i] = w[i + 1] /\ i + 1 \in DOMAIN w
  BY <1>1
<1>3. \A i \in 1..n : v[i] \in Reqs /\ v[i] # r /\ N[v[i]] = Q[w[i + 1]]
  BY <1>1, <1>2 DEF InLine
<1> HIDE DEF v
<1>4. InLine(v, N)
  <2>1. ASSUME NEW i \in DOMAIN v PROVE Pends(N[v[i]])
    <3>1. i \in 1..n /\ i + 1 \in DOMAIN w
      BY <1>2, <2>1
    <3>2. Pends(Q[w[i + 1]])
      BY <3>1 DEF InLine
    <3> QED
      BY ONLY <1>3, <3>1, <3>2
  <2>2. ASSUME NEW i \in DOMAIN v, NEW j \in DOMAIN v, v[i] = v[j] PROVE i = j
    <3>1. i + 1 = j + 1
      BY <1>2, <2>2 DEF InLine
    <3> QED
      BY <1>2, <3>1
  <2> QED
    BY <2>1, <2>2 DEF InLine
<1>5. \A s \in Reqs : \A t : Turns(N[s], t) <=> Turns(Q[s], t)
  BY DEF Turns
<1>6. ASSUME NEW i \in DOMAIN v, N[v[i]].pc = "owner.expire"
      PROVE  /\ N[v[i]].token \notin C
             /\ \A s \in Reqs : Turns(N[s], N[v[i]].token) => \E j \in DOMAIN v : i < j /\ v[j] = s
  <2>1. /\ i + 1 \in DOMAIN w /\ i \in 1..n /\ N[v[i]] = Q[w[i + 1]]
        /\ Q[w[i + 1]].pc = "owner.expire"
    BY <1>2, <1>3, <1>6
  <2>2. ASSUME NEW s \in Reqs, Turns(Q[s], N[v[i]].token)
        PROVE  \E j \in DOMAIN w : i + 1 < j /\ w[j] = s
    BY <2>1, <2>2 DEF RefreshFirst
  <2>3. N[v[i]].token \notin C
    <3>1. SUFFICES ASSUME Q[r].pc = "rotate.expire", N[v[i]].token = Q[r].token
                   PROVE  FALSE
      BY <2>1 DEF RefreshFirst
    <3>2. Turns(Q[r], N[v[i]].token)
      BY <3>1 DEF Turns, Turning
    <3>3. PICK j \in DOMAIN w : i + 1 < j /\ w[j] = r
      BY <1>1, <2>2, <3>2
    <3>4. j = 1
      BY <1>1, <3>3 DEF InLine
    <3> QED
      BY <2>1, <3>3, <3>4
  <2>4. ASSUME NEW s \in Reqs, Turns(N[s], N[v[i]].token)
        PROVE  \E j \in DOMAIN v : i < j /\ v[j] = s
    <3>1. PICK j \in DOMAIN w : i + 1 < j /\ w[j] = s
      BY <1>5, <2>2, <2>4
    <3>2. j - 1 \in 1..n /\ i < j - 1 /\ (j - 1) + 1 = j
      BY <1>1, <2>1, <3>1
    <3>3. v[j - 1] = s
      BY <1>2, <3>1, <3>2
    <3> QED
      BY <1>2, <3>2, <3>3
  <2> QED
    BY <2>3, <2>4
<1> QED
  BY <1>4, <1>6 DEF v, RefreshFirst

-----------------------------------------------------------------------------
LEMMA ThrottleCells ==
  ASSUME TypeInv, NEW p \in Procs, NEW q, Effect(p, q), NEW a \in Procs, NEW t \in Tokens
  PROVE  \/ throttle'[a][t] = throttle[a][t]
         \/ /\ q.pc = "owner.expire" /\ t = q.token /\ throttle'[a][t] = ThrottleTTL
            /\ cache' = cache
<1>1. DOMAIN throttle = Procs /\ \A b \in Procs : DOMAIN throttle[b] = Tokens
  BY DEF TypeInv, TypeOK
<1> QED
  BY <1>1 DEF Effect

(* A refresh that sets out finds the throttle open, so nobody rotates.     *)
LEMMA RefreshIsEarly ==
  ASSUME BurnHypotheses, TypeInv, ModernInv, BurnInv, NEW p \in Procs, NEW r \in Reqs,
         Resumed(p, r), Queued(p, r), req'[r].pc = "owner.expire"
  PROVE  ~Committed(req'[r].token)
<1> DEFINE q == req[r]  n == req'[r]
<1>1. Launched(q, n) /\ throttle'[p][n.token] = 0
  BY DEF Resumed, Queued, Ended
<1>2. ~(q.pc = "owner.get" /\ \E u \in UserIds : q.res = Text(u))
  <2>1. \A u \in UserIds : Text(u) \notin {Null, Pending, Error}
    BY SpecialAssumption DEF RawValues, Texts, Replies
  <2> QED
    BY <2>1, TextIsLegacy DEF ModernInv, Modern, Answered
<1>3. PICK a \in Procs, u \in UserIds : n.token \in known /\ CachedOwner(a, n.token, u)
  BY <1>1, <1>2 DEF Launched
<1>4. n.token \in Tokens /\ a = p
  BY <1>3 DEF BurnHypotheses, TypeInv, TypeOK
<1>5. OwnerKnown(p, n.token)
  BY <1>3, <1>4 DEF OwnerKnown, CachedOwner, Texts
<1>6. throttle[p][n.token] = 0
  <2>1. throttle'[p][n.token] = throttle[p][n.token] \/ throttle'[p][n.token] = ThrottleTTL
    BY <1>4, ThrottleCells DEF Resumed
  <2> QED
    BY <1>1, <2>1, TTLAssumption
<1> QED
  BY <1>4, <1>5, <1>6 DEF BurnInv, HeldBack

LEMMA ResumedLines ==
  ASSUME BurnHypotheses, TypeInv, ModernInv, BurnInv, NEW p \in Procs, NEW r \in Reqs,
         Resumed(p, r), Queued(p, r), ~Pends(req[r])
  PROVE  Lines(wire', req', burned')
<1>1. /\ \A s \in Reqs \ {r} : req'[s] = req[s]
      /\ burned' = burned /\ wire \in [Procs -> Seq(Reqs)]
      /\ InLine(wire[p], req) /\ RefreshFirst(wire[p], req, burned) /\ wire[p] \in Seq(Reqs)
      /\ \A a \in Procs : a = p
  BY DEF Resumed, TypeInv, TypeOK, BurnInv, Lines, BurnHypotheses
<1>2. InLine(wire'[p], req') /\ RefreshFirst(wire'[p], req', burned)
  <2>1. CASE wire' = wire /\ Ended(req'[r])
    <3>1. req'[r].pc \notin Turning
      BY <2>1 DEF Ended, Turning
    <3> QED
      BY <1>1, <2>1, <3>1, LineKept
  <2>2. CASE Pends(req'[r]) /\ wire' = [wire EXCEPT ![p] = Append(wire[p], r)]
    <3>1. req'[r].pc = "owner.expire" =>
            /\ req'[r].token \notin burned
            /\ \A s \in Reqs : ~Turns(req[s], req'[r].token)
      BY RefreshIsEarly DEF Committed
    <3>2. wire'[p] = Append(wire[p], r)
      BY <1>1, <2>2
    <3> QED
      BY <1>1, <2>2, <3>1, <3>2, LineGrows
  <2> QED
    BY <2>1, <2>2 DEF Queued
<1> QED
  BY <1>1, <1>2 DEF Lines

(* A token that comes to be rotated finds the throttle closed.             *)
LEMMA CommittedBefore ==
  ASSUME TypeInv, NEW p \in Procs, NEW r \in Reqs, Resumed(p, r), Queued(p, r),
         NEW t \in Tokens, Committed(t)'
  PROVE  Committed(t) \/ throttle'[p][t] # 0
<1> DEFINE q == req[r]  n == req'[r]
<1>1. CASE t \in burned'
  BY <1>1 DEF Resumed, Committed
<1>2. ASSUME NEW s \in Reqs, Turns(req'[s], t)
      PROVE  Committed(t) \/ throttle'[p][t] # 0
  <2>1. CASE s # r
    BY <1>2, <2>1 DEF Resumed, Committed
  <2>2. CASE s = r
    <3>1. Launched(q, n) /\ n.pc \in Turning /\ n.token = t
      BY <1>2, <2>2 DEF Turns, Resumed, Ended, Turning
    <3>2. CASE n.pc = "read.get"
      BY <3>1, <3>2 DEF Queued, Ended
    <3>3. CASE n.pc # "read.get"
      <4>1. Turns(q, t)
        BY <3>1, <3>3 DEF Launched, Turns, Turning
      <4> QED
        BY <4>1 DEF Committed
    <3> QED
      BY <3>2, <3>3
  <2> QED
    BY <2>1, <2>2
<1> QED
  BY <1>1, <1>2 DEF Committed

LEMMA ResumedHeld ==
  ASSUME BurnHypotheses, TypeInv, TypeInv', SafetyInv, ReplayInv, BurnInv,
         NEW p \in Procs, NEW r \in Reqs, Resumed(p, r), Queued(p, r)
  PROVE  HeldBack'
<1> DEFINE q == req[r]  n == req'[r]
<1>0. /\ Modern(q) /\ Names(q, known) /\ \A s \in Reqs : Names(req[s], known)
      /\ q.pc \in Storers => q.new \in Tokens
      /\ CacheTTL \in Nat /\ ThrottleTTL \in Nat /\ CacheTTL <= ThrottleTTL /\ ThrottleTTL # 0
  BY Clocks, RequestTokens, TTLAssumption DEF ReplayInv, ModernInv, BurnHypotheses
<1> SUFFICES ASSUME NEW t \in Tokens, OwnerKnown(p, t)'
             PROVE  /\ throttle'[p][t] = 0 \/ throttle'[p][t] >= cache'[p][t].ttl
                    /\ Committed(t)' => throttle'[p][t] # 0
  BY DEF HeldBack, BurnHypotheses
<1>1. cache'[p][t] # Absent /\ cache'[p][t].val \in Texts
  BY DEF OwnerKnown
<1>2. CASE cache'[p][t] = cache[p][t]
  <2>1. /\ throttle[p][t] = 0 \/ throttle[p][t] >= cache[p][t].ttl
        /\ Committed(t) => throttle[p][t] # 0
    BY <1>1, <1>2 DEF BurnInv, HeldBack, OwnerKnown
  <2>2. cache[p][t].ttl \in 1 .. CacheTTL
    BY <1>1, <1>2, CellTypes
  <2>3. throttle'[p][t] = throttle[p][t] \/ throttle'[p][t] = ThrottleTTL
    BY ThrottleCells DEF Resumed
  <2>4. throttle'[p][t] = 0 \/ throttle'[p][t] >= cache'[p][t].ttl
    BY <1>0, <1>2, <2>1, <2>2, <2>3
  <2>5. Committed(t)' => throttle'[p][t] # 0
    BY <1>0, <2>1, <2>3, CommittedBefore
  <2> QED
    BY <2>4, <2>5
<1>3. CASE Source(q, t, cache'[p][t].val) /\ cache'[p][t] # cache[p][t]
  <2>1. q.pc \in {"create.set", "rotate.expire"} /\ Answered(q) /\ t = q.new
    <3>1. NotFound \notin Texts
      BY SpecialAssumption DEF RawValues
    <3>2. q.pc = "owner.get" /\ Answered(q) /\ q.res # Null => q.res \notin Texts
      BY <1>0, TextIsLegacy DEF Modern, Texts
    <3> QED
      BY <1>1, <1>3, <3>1, <3>2 DEF Source
  <2>2. t \notin known
    BY <1>0, <2>1 DEF Names, Storers
  <2>3. throttle[p][t] = 0 /\ throttle'[p][t] = throttle[p][t]
    BY <1>3, <2>1, <2>2, ThrottleCells DEF BurnInv, ThrottleNames, Resumed
  <2>4. ~Committed(t)
    <3>1. \A s \in Reqs : ~Turns(req[s], t)
      BY <1>0, <2>2 DEF Names, Turns, Turning, WaitingPCs
    <3> QED
      BY <2>2, <3>1 DEF Committed, BurnInv
  <2>5. Committed(t)' => FALSE
    <3>1. SUFFICES ASSUME Committed(t)' PROVE FALSE
      OBVIOUS
    <3>2. Committed(t) \/ throttle'[p][t] # 0
      BY <3>1, CommittedBefore
    <3> QED
      BY <2>3, <2>4, <3>2
  <2> QED
    BY <2>3, <2>5
<1> QED
  BY <1>1, <1>2, <1>3, CacheCells DEF Resumed

LEMMA ResumedBurn ==
  ASSUME BurnHypotheses, TypeInv, TypeInv', SafetyInv, ReplayInv, BurnInv,
         NEW p \in Procs, NEW r \in Reqs, Resumed(p, r), Queued(p, r), ~Pends(req[r])
  PROVE  BurnInv'
<1> DEFINE q == req[r]
<1>1. Lines(wire, req, burned)'
  BY ResumedLines DEF ReplayInv
<1>2. HeldBack'
  BY ResumedHeld
<1>3. known \subseteq known' /\ burned' = burned
  BY DEF Resumed, Effect
<1>4. ThrottleNames'
  <2> SUFFICES ASSUME NEW a \in Procs, NEW t \in Tokens, throttle'[a][t] # 0
               PROVE  t \in known'
    BY DEF ThrottleNames
  <2>1. CASE throttle'[a][t] = throttle[a][t]
    BY <1>3, <2>1 DEF BurnInv, ThrottleNames
  <2>2. CASE q.pc = "owner.expire" /\ t = q.token
    BY <1>3, <2>2 DEF ReplayInv, Names, WaitingPCs
  <2> QED
    BY <2>1, <2>2, ThrottleCells DEF Resumed
<1> QED
  BY <1>1, <1>2, <1>3, <1>4 DEF BurnInv

-----------------------------------------------------------------------------
(* What a command that Redis executes does to the connection, and whom it  *)
(* burns.                                                                  *)
LEMMA RedisExecutes ==
  ASSUME TypeInv, NEW p \in Procs, NEW r \in Reqs, Redis(p, r)
  PROVE  /\ wire[p] # <<>> /\ r = Head(wire[p]) /\ wire' = [wire EXCEPT ![p] = Tail(wire[p])]
         /\ \A s \in Reqs \ {r} : req'[s] = req[s]
         /\ req'[r].pc = req[r].pc /\ req'[r].token = req[r].token
         /\ UNCHANGED <<cache, throttle, known>>
         /\ \/ burned' = burned
            \/ req[r].pc = "rotate.expire" /\ burned' \subseteq burned \cup {req[r].token}
<1>1. req \in [Reqs -> Requests] /\ req[r] \in Requests
  BY DEF TypeInv, TypeOK
<1>2. ASSUME NEW pcs, NEW res, Execute(p, r, pcs, res)
      PROVE  /\ wire[p] # <<>> /\ r = Head(wire[p]) /\ wire' = [wire EXCEPT ![p] = Tail(wire[p])]
             /\ \A s \in Reqs \ {r} : req'[s] = req[s]
             /\ req'[r].pc = req[r].pc /\ req'[r].token = req[r].token
             /\ UNCHANGED <<cache, throttle, known>>
  BY <1>1, <1>2 DEF Execute, local, Requests
<1>3. \E pcs, res : Execute(p, r, pcs, res)
  BY DEF Redis, RedisGet, RedisTtl, RedisRefresh, RedisBurn, RedisStore, RedisMigrate, RedisRefuse
<1>4. \/ burned' = burned
      \/ req[r].pc = "rotate.expire" /\ burned' \subseteq burned \cup {req[r].token}
  BY DEF Redis, RedisGet, RedisTtl, RedisRefresh, RedisBurn, RedisStore, RedisMigrate, RedisRefuse,
         history, Execute
<1> QED
  BY <1>2, <1>3, <1>4

LEMMA RedisKeepsBurn ==
  ASSUME BurnHypotheses, TypeInv, ReplayInv, BurnInv, NEW p \in Procs, NEW r \in Reqs, Redis(p, r)
  PROVE  BurnInv'
<1> DEFINE q == req[r]
<1>0. /\ wire[p] # <<>> /\ r = Head(wire[p]) /\ wire' = [wire EXCEPT ![p] = Tail(wire[p])]
      /\ \A s \in Reqs \ {r} : req'[s] = req[s]
      /\ req'[r].pc = q.pc /\ req'[r].token = q.token
      /\ UNCHANGED <<cache, throttle, known>>
  BY RedisExecutes
<1>1. \/ burned' = burned
      \/ q.pc = "rotate.expire" /\ burned' \subseteq burned \cup {q.token}
  BY RedisExecutes
<1>2. Lines(wire', req', burned')
  <2>1. /\ wire[p] \in Seq(Reqs) /\ InLine(wire[p], req) /\ RefreshFirst(wire[p], req, burned)
        /\ wire'[p] = Tail(wire[p]) /\ \A a \in Procs : a = p
    BY <1>0 DEF TypeInv, TypeOK, BurnInv, Lines, BurnHypotheses
  <2>2. InLine(wire'[p], req') /\ RefreshFirst(wire'[p], req', burned')
    <3>1. \/ burned' \subseteq burned
          \/ req[r].pc = "rotate.expire" /\ burned' \subseteq burned \cup {req[r].token}
      BY <1>1
    <3>2. wire'[p] = Tail(wire[p]) /\ r = Head(wire[p]) /\ wire[p] # <<>>
      BY <1>0, <2>1
    <3> HIDE DEF q
    <3>3. InLine(Tail(wire[p]), req') /\ RefreshFirst(Tail(wire[p]), req', burned')
      BY <1>0, <2>1, <3>1, <3>2, LineShrinks DEF q
    <3> QED
      BY <3>2, <3>3
  <2> QED
    BY <2>1, <2>2 DEF Lines
<1>3. ASSUME NEW t \in Tokens, Committed(t)' PROVE Committed(t)
  <2>1. CASE t \in burned' /\ t \notin burned
    BY <1>1, <2>1 DEF Committed, Turns, Turning
  <2>2. CASE \E s \in Reqs : Turns(req'[s], t)
    BY <1>0, <2>2 DEF Committed, Turns
  <2> QED
    BY <1>3, <2>1, <2>2 DEF Committed
<1>4. HeldBack'
  BY <1>0, <1>3 DEF BurnInv, HeldBack, OwnerKnown
<1>5. burned' \subseteq known'
  BY <1>0, <1>1 DEF BurnInv, ReplayInv, Names, WaitingPCs
<1> QED
  BY <1>0, <1>2, <1>4, <1>5 DEF BurnInv, ThrottleNames

LEMMA TickKeepsBurn ==
  ASSUME TypeInv, BurnInv, Tick
  PROVE  BurnInv'
<1>0. UNCHANGED <<wire, known, burned>>
  BY DEF Tick
<1>1. ASSUME NEW s \in Reqs
      PROVE  /\ req'[s].pc = req[s].pc /\ req'[s].token = req[s].token
             /\ req'[s].res = req[s].res
  <2>1. req[s] \in Requests
    BY DEF TypeInv, TypeOK
  <2> QED
    BY <2>1 DEF Tick, Requests
<1>2. Lines(wire', req', burned')
  <2> SUFFICES ASSUME NEW p \in Procs
               PROVE  InLine(wire[p], req') /\ RefreshFirst(wire[p], req', burned)
    BY <1>0 DEF Lines
  <2>1. wire[p] \in Seq(Reqs) /\ InLine(wire[p], req) /\ RefreshFirst(wire[p], req, burned)
    BY DEF BurnInv, Lines, TypeInv, TypeOK
  <2>2. \A i \in DOMAIN wire[p] : wire[p][i] \in Reqs
    BY <2>1
  <2> QED
    BY <1>1, <2>1, <2>2 DEF InLine, RefreshFirst, Pends, Turns
<1>3. \A t \in Tokens : Committed(t)' => Committed(t)
  BY <1>0, <1>1 DEF Committed, Turns
<1>4. HeldBack'
  <2> SUFFICES ASSUME NEW p \in Procs, NEW t \in Tokens, OwnerKnown(p, t)'
               PROVE  /\ throttle'[p][t] = 0 \/ throttle'[p][t] >= cache'[p][t].ttl
                      /\ Committed(t)' => throttle'[p][t] # 0
    BY DEF HeldBack
  <2>1. cache'[p][t] = Aged(cache[p][t]) /\ cache[p][t] # Absent /\ cache'[p][t] # Absent
    BY DEF OwnerKnown, Tick, Aged
  <2>2. cache[p][t].ttl \in Nat /\ throttle[p][t] \in Nat /\ cache[p][t].ttl > 1
    <3>1. cache[p][t].ttl \in 1 .. CacheTTL /\ throttle[p][t] \in 0 .. ThrottleTTL
      BY <2>1, CellTypes
    <3> QED
      BY <2>1, <3>1, Clocks DEF Aged
  <2>3. cache'[p][t].ttl = cache[p][t].ttl - 1 /\ cache'[p][t].val = cache[p][t].val
    BY <2>1, <2>2, AgedEntry
  <2>4. /\ throttle[p][t] = 0 \/ throttle[p][t] >= cache[p][t].ttl
        /\ Committed(t) => throttle[p][t] # 0
    BY <2>1, <2>3 DEF BurnInv, HeldBack, OwnerKnown
  <2>5. throttle'[p][t] = IF throttle[p][t] = 0 THEN 0 ELSE throttle[p][t] - 1
    BY DEF Tick
  <2>6. throttle'[p][t] = 0 \/ throttle'[p][t] >= cache'[p][t].ttl
    BY <2>2, <2>3, <2>4, <2>5
  <2>7. throttle[p][t] # 0 => throttle'[p][t] # 0
    BY <2>2, <2>4, <2>5
  <2> QED
    BY <1>3, <2>4, <2>6, <2>7
<1>5. ThrottleNames'
  <2>1. \A p \in Procs, t \in Tokens : throttle'[p][t] # 0 => throttle[p][t] # 0
    BY DEF Tick
  <2> QED
    BY <1>0, <2>1 DEF BurnInv, ThrottleNames
<1> QED
  BY <1>0, <1>2, <1>4, <1>5 DEF BurnInv

LEMMA EnvironmentKeepsBurn ==
  ASSUME BurnHypotheses, TypeInv, BurnInv, Environment
  PROVE  BurnInv'
<1> USE DEF history, local
<1>1. CASE Tick
  BY <1>1, TickKeepsBurn
<1>2. ASSUME NEW t \in Tokens, Revoke(t) PROVE BurnInv'
  <2>1. UNCHANGED <<cache, throttle, wire, req, known, burned>>
    BY <1>2 DEF Revoke
  <2> QED
    BY <2>1 DEF BurnInv, Lines, InLine, RefreshFirst, Pends, HeldBack, OwnerKnown, Committed,
                ThrottleNames
<1>3. ASSUME NEW p \in Procs, Crash(p) PROVE BurnInv'
  <2>1. /\ \A a \in Procs : a = p
        /\ wire'[p] = <<>> /\ UNCHANGED <<known, burned>>
        /\ \A t \in Tokens : cache'[p][t] = Absent /\ throttle'[p][t] = 0
    BY <1>3 DEF Crash, BurnHypotheses, TypeInv, TypeOK
  <2>2. DOMAIN wire'[p] = {}
    BY <2>1
  <2>3. Lines(wire', req', burned')
    BY <2>1, <2>2 DEF Lines, InLine, RefreshFirst
  <2> QED
    BY <2>1, <2>3 DEF BurnInv, HeldBack, OwnerKnown, ThrottleNames
<1>4. ASSUME NEW p \in Procs, NEW t \in Tokens, EvictOwner(p, t) \/ EvictThrottle(p, t)
      PROVE  BurnInv'
  <2>1. /\ cache' = [cache EXCEPT ![p][t] = Absent]
        /\ UNCHANGED <<throttle, wire, req, known, burned>>
    BY <1>4 DEF EvictOwner, EvictThrottle, BurnHypotheses
  <2>2. /\ DOMAIN cache = Procs /\ \A a \in Procs : DOMAIN cache[a] = Tokens
    BY DEF TypeInv, TypeOK
  <2>3. \A a \in Procs, k \in Tokens : cache'[a][k] \in {cache[a][k], Absent}
    BY <2>1, <2>2
  <2>4. \A k \in Tokens : Committed(k)' => Committed(k)
    BY <2>1 DEF Committed
  <2>5. HeldBack'
    <3> SUFFICES ASSUME NEW a \in Procs, NEW k \in Tokens, OwnerKnown(a, k)'
                 PROVE  /\ throttle'[a][k] = 0 \/ throttle'[a][k] >= cache'[a][k].ttl
                        /\ Committed(k)' => throttle'[a][k] # 0
      BY DEF HeldBack
    <3>1. cache'[a][k] = cache[a][k] /\ OwnerKnown(a, k)
      BY <2>3 DEF OwnerKnown
    <3> QED
      BY <2>1, <2>4, <3>1 DEF BurnInv, HeldBack
  <2> QED
    BY <2>1, <2>5 DEF BurnInv, Lines, ThrottleNames
<1> QED
  BY <1>1, <1>2, <1>3, <1>4 DEF Environment

LEMMA BurnStep ==
  ASSUME BurnHypotheses
  PROVE  TypeInv /\ TypeInv' /\ SafetyInv /\ ReplayInv /\ BurnInv /\ [Next]_vars => BurnInv'
<1> SUFFICES ASSUME TypeInv, TypeInv', SafetyInv, ReplayInv, BurnInv, [Next]_vars
             PROVE  BurnInv'
  OBVIOUS
<1>1. CASE UNCHANGED vars
  <2>1. UNCHANGED <<cache, throttle, wire, req, known, burned>>
    BY <1>1 DEF vars
  <2> QED
    BY <2>1 DEF BurnInv, Lines, HeldBack, OwnerKnown, Committed, ThrottleNames
<1>2. ASSUME NEW p \in Procs, NEW r \in Reqs, Client(p, r) \/ Handler(p, r)
      PROVE  BurnInv'
  <2>1. Resumed(p, r)
    BY <1>2, HandlerResumed, ClientResumed
  <2>2. Queued(p, r) /\ ~Pends(req[r])
    BY <1>2, HandlerQueued, ClientQueued
  <2> QED
    BY <2>1, <2>2, ResumedBurn
<1>3. ASSUME NEW p \in Procs, NEW r \in Reqs, Redis(p, r)
      PROVE  BurnInv'
  BY <1>3, RedisKeepsBurn
<1>4. CASE Environment
  BY <1>4, EnvironmentKeepsBurn
<1> QED
  BY <1>1, <1>2, <1>3, <1>4 DEF Next

-----------------------------------------------------------------------------
(* No step but a burn gives a burned token more time.                      *)
NoMoreTime == \A t \in burned : Ttl(t)' <= Ttl(t) \/ BurnedAgain(t)

LEMMA TtlIsLife == \A t \in Tokens : /\ Ttl(t) = Life(redis, t)
                                    /\ Ttl(t)' = Life(redis', t)
BY DEF Ttl, Life

LEMMA RedisGivesNoTime ==
  ASSUME BurnHypotheses, TypeInv, SafetyInv, ReplayInv, BurnInv,
         NEW p \in Procs, NEW r \in Reqs, Redis(p, r), NEW t \in burned
  PROVE  redis'[t] = redis[t] \/ BurnedAgain(t)
<1> DEFINE q == req[r]
<1>0. /\ redis \in [Tokens -> LiveEntries(RawValues, SessionTTL) \cup {Absent}]
      /\ Modern(q) /\ t \in Tokens /\ ledger[t] # Null /\ Shape(q)
  BY DEF TypeInv, TypeOK, ReplayInv, ModernInv, BurnInv
<1>1. CASE RedisGet(p, r) \/ RedisRefuse(p, r)
  BY <1>1 DEF RedisGet, RedisRefuse
<1>2. CASE RedisTtl(p, r) \/ RedisMigrate(p, r)
  <2>1. q.pc \in {"read.ttl", "read.set"}
    BY <1>2 DEF RedisTtl, RedisMigrate, Execute
  <2> QED
    BY <1>0, <2>1 DEF Modern
<1>3. CASE RedisRefresh(p, r)
  <2>1. /\ wire[p] # <<>> /\ r = Head(wire[p]) /\ q.pc = "owner.expire"
        /\ ExpireKey(q.token, SessionTTL)
    BY <1>3 DEF RedisRefresh, Execute, RefreshTTL
  <2>2. wire[p] \in Seq(Reqs) /\ RefreshFirst(wire[p], req, burned)
    BY DEF TypeInv, TypeOK, BurnInv, Lines
  <2>3. 1 \in DOMAIN wire[p] /\ wire[p][1] = r
    BY <2>1, <2>2, HeadTailProperties, EmptySeq
  <2>4. q.token \notin burned
    BY <2>1, <2>2, <2>3 DEF RefreshFirst
  <2> QED
    BY <1>0, <2>1, <2>4 DEF ExpireKey
<1>4. CASE RedisBurn(p, r)
  <2>1. ExpireKey(q.token, GraceTTL)
    BY <1>4 DEF RedisBurn
  <2> QED
    BY <1>0, <1>4, <2>1 DEF ExpireKey, BurnedAgain
<1>5. CASE RedisStore(p, r)
  <2>1. /\ Storing(q)
        /\ redis' = [redis EXCEPT ![q.new] = Entry(Serialize(q.payload), SessionTTL)]
    BY <1>5 DEF RedisStore, Execute, Storing
  <2>2. ledger[q.new] = Null
    BY <2>1 DEF SafetyInv, UnusedTokens
  <2> QED
    BY <1>0, <2>1, <2>2
<1> QED
  BY <1>1, <1>2, <1>3, <1>4, <1>5 DEF Redis

LEMMA NoStepGivesTime ==
  ASSUME BurnHypotheses
  PROVE  TypeInv /\ TypeInv' /\ SafetyInv /\ ReplayInv /\ BurnInv /\ [Next]_vars
           => [NoMoreTime]_vars
<1> SUFFICES ASSUME TypeInv, TypeInv', SafetyInv, ReplayInv, BurnInv, Next, NEW t \in burned
             PROVE  Ttl(t)' <= Ttl(t) \/ BurnedAgain(t)
  BY DEF NoMoreTime
<1>1. t \in Tokens /\ Life(redis, t) \in Nat
  <2>1. t \in Tokens
    BY DEF TypeInv, TypeOK
  <2>2. Life(redis, t) \in 0 .. SessionTTL
    BY <2>1, LifeType
  <2> QED
    BY <2>1, <2>2, Clocks
<1>2. redis'[t] = redis[t] => Ttl(t)' <= Ttl(t)
  BY <1>1, TtlIsLife DEF Life
<1>3. ASSUME NEW p \in Procs, NEW r \in Reqs, Client(p, r) \/ Handler(p, r)
      PROVE  redis'[t] = redis[t]
  <2>1. Resumed(p, r)
    BY <1>3, HandlerResumed, ClientResumed
  <2> QED
    BY <2>1 DEF Resumed
<1>4. ASSUME NEW p \in Procs, NEW r \in Reqs, Redis(p, r)
      PROVE  redis'[t] = redis[t] \/ BurnedAgain(t)
  BY <1>4, RedisGivesNoTime
<1>5. CASE Tick
  <2>1. redis[t] = Absent \/ redis[t].ttl \in Nat
    BY <1>1 DEF Life
  <2>2. redis'[t] = Aged(redis[t])
    BY <1>1, <1>5 DEF Tick
  <2>3. CASE redis[t] = Absent
    BY <1>2, <2>2, <2>3 DEF Aged
  <2>4. CASE redis[t] # Absent /\ redis'[t] # Absent
    <3>1. redis'[t].ttl = redis[t].ttl - 1
      BY <2>1, <2>2, <2>4, AgedEntry
    <3> QED
      BY <1>1, <2>1, <2>4, <3>1, TtlIsLife DEF Life
  <2>5. CASE redis'[t] = Absent
    BY <1>1, <2>5, TtlIsLife DEF Life
  <2> QED
    BY <2>3, <2>4, <2>5
<1>6. ASSUME NEW k \in Tokens, Revoke(k)
      PROVE  Ttl(t)' <= Ttl(t)
  <2>1. redis'[t] \in {redis[t], Absent}
    BY <1>1, <1>6 DEF Revoke, TypeInv, TypeOK
  <2>2. redis'[t] = Absent => Ttl(t)' <= Ttl(t)
    BY <1>1, TtlIsLife DEF Life
  <2> QED
    BY <1>2, <2>1, <2>2
<1>7. CASE \E p \in Procs : Crash(p) \/ \E k \in Tokens : EvictOwner(p, k) \/ EvictThrottle(p, k)
  <2>1. redis' = redis
    BY <1>7 DEF Crash, EvictOwner, EvictThrottle
  <2> QED
    BY <1>2, <2>1
<1> QED
  BY <1>2, <1>3, <1>4, <1>5, <1>6, <1>7 DEF Next, Environment

(* "burns the old one" (server.ts 825): in a single process, whatever      *)
(* checks, extensions and rotations of a token overlap, and whoever is     *)
(* answered late, the throttle keeps every refresh away from a token that  *)
(* is burned: only another burn touches its grace period.                  *)
THEOREM BurnsAreFinal ==
  ASSUME BurnHypotheses
  PROVE  Spec => BurnIsFinal
<1>1. Init => ReplayInv
  BY InitReplay DEF BurnHypotheses
<1>2. TypeInv /\ SafetyInv /\ ReplayInv /\ [Next]_vars => TypeInv' /\ ReplayInv'
  BY TypeStep, ReplayStep
<1>3. TypeInv /\ TypeInv' /\ SafetyInv /\ ReplayInv /\ BurnInv /\ [Next]_vars
        => BurnInv' /\ [NoMoreTime]_vars
  BY BurnStep, NoStepGivesTime
<1>4. BurnIsFinal <=> [][NoMoreTime]_vars
  BY DEF BurnIsFinal, NoMoreTime
<1> QED
  BY Safety, InitBurn, <1>1, <1>2, <1>3, <1>4, PTL DEF Spec
-----------------------------------------------------------------------------
(* No request is lost, and none is served twice.                           *)

(* The connection w carries the requests S, each once.                     *)
Carries(w, S) ==
  /\ {w[i] : i \in DOMAIN w} = S
  /\ \A i, j \in DOMAIN w : w[i] = w[j] => i = j

Unexecuted(Q, p) == {r \in Reqs : Q[r].pc \in WaitingPCs /\ Q[r].res = Pending /\ Q[r].proc = p}
Executed(Q, p)   == {r \in Reqs : Q[r].pc \in WaitingPCs /\ Q[r].res # Pending /\ Q[r].proc = p}

(* Whatever waits is on its way to Redis or on its way back, once.         *)
FlightInv ==
  /\ \A r \in Reqs : Waiting(r) => req[r].proc \in Procs
  /\ \A p \in Procs : /\ Carries(wire[p], Unexecuted(req, p))
                      /\ Carries(replies[p], Executed(req, p))

(* The commands a request may still issue, the one it waits for included.  *)
Left == [pc \in WaitingPCs |->
           CASE pc = "create.set"    -> 1
             [] pc = "owner.get"     -> 7
             [] pc = "owner.expire"  -> 6
             [] pc = "read.get"      -> 5
             [] pc = "read.ttl"      -> 4
             [] pc = "read.set"      -> 3
             [] pc = "rotate.set"    -> 2
             [] pc = "rotate.expire" -> 1]

LEMMA LeftValues ==
  /\ Left["create.set"] = 1 /\ Left["owner.get"] = 7 /\ Left["owner.expire"] = 6
  /\ Left["read.get"] = 5   /\ Left["read.ttl"] = 4  /\ Left["read.set"] = 3
  /\ Left["rotate.set"] = 2 /\ Left["rotate.expire"] = 1
BY DEF Left, WaitingPCs

LEMMA CarriesNone == Carries(<<>>, {})
BY DEF Carries

LEMMA CarriesMore ==
  ASSUME NEW w \in Seq(Reqs), NEW S, Carries(w, S), NEW r \in Reqs, r \notin S
  PROVE  Carries(Append(w, r), S \cup {r})
<1>1. PICK n \in Nat : n = Len(w) /\ DOMAIN w = 1..n
  OBVIOUS
<1> PICK v : v = Append(w, r)
  OBVIOUS
<1>2. DOMAIN v = 1..n + 1 /\ v[n + 1] = r /\ \A i \in 1..n : v[i] = w[i]
  BY <1>1
<1>3. \A i \in 1..n : w[i] \in S /\ w[i] # r
  BY <1>1 DEF Carries
<1>4. {v[i] : i \in DOMAIN v} = S \cup {r}
  <2>1. ASSUME NEW s \in S PROVE \E i \in DOMAIN v : v[i] = s
    <3>1. PICK i \in 1..n : w[i] = s
      BY <1>1 DEF Carries
    <3> QED
      BY ONLY <1>1, <1>2, <3>1
  <2>2. n + 1 \in DOMAIN v
    BY <1>1, <1>2
  <2>3. \A i \in DOMAIN v : v[i] \in S \cup {r}
    BY <1>1, <1>2, <1>3
  <2> QED
    BY <1>2, <2>1, <2>2, <2>3
<1>5. ASSUME NEW i \in DOMAIN v, NEW j \in DOMAIN v, v[i] = v[j] PROVE i = j
  <2>1. CASE i \in 1..n /\ j \in 1..n
    BY <1>1, <1>2, <1>5, <2>1 DEF Carries
  <2> QED
    BY <1>1, <1>2, <1>3, <1>5, <2>1
<1> QED
  BY <1>4, <1>5 DEF Carries

LEMMA CarriesLess ==
  ASSUME NEW w \in Seq(Reqs), NEW S, Carries(w, S), w # <<>>
  PROVE  Head(w) \in S /\ Carries(Tail(w), S \ {Head(w)})
<1>1. PICK n \in Nat : n + 1 = Len(w) /\ DOMAIN w = 1..n + 1 /\ w[1] = Head(w)
  BY HeadTailProperties, EmptySeq
<1> PICK v : v = Tail(w)
  OBVIOUS
<1>2. DOMAIN v = 1..n /\ \A i \in 1..n : v[i] = w[i + 1]
  BY <1>1
<1>3. Head(w) \in S
  BY <1>1 DEF Carries
<1>4. {v[i] : i \in DOMAIN v} = S \ {Head(w)}
  <2>1. ASSUME NEW i \in DOMAIN v PROVE v[i] \in S \ {Head(w)}
    <3>1. i + 1 \in DOMAIN w /\ 1 \in DOMAIN w /\ i + 1 # 1 /\ v[i] = w[i + 1]
      BY <1>1, <1>2, <2>1
    <3> QED
      BY <1>1, <3>1 DEF Carries
  <2>2. ASSUME NEW s \in S \ {Head(w)} PROVE \E i \in DOMAIN v : v[i] = s
    <3>1. PICK k \in 1..n + 1 : w[k] = s
      BY <1>1 DEF Carries
    <3>2. k # 1
      BY <1>1, <3>1
    <3>3. k - 1 \in 1..n /\ (k - 1) + 1 = k
      BY <3>1, <3>2
    <3> QED
      BY <1>2, <3>1, <3>3
  <2> QED
    BY <2>1, <2>2
<1>5. ASSUME NEW i \in DOMAIN v, NEW j \in DOMAIN v, v[i] = v[j] PROVE i = j
  <2>1. i \in 1..n /\ j \in 1..n /\ i + 1 \in DOMAIN w /\ j + 1 \in DOMAIN w /\ w[i + 1] = w[j + 1]
    BY <1>1, <1>2, <1>5
  <2>2. i + 1 = j + 1
    BY <2>1 DEF Carries
  <2> QED
    BY <2>1, <2>2
<1> QED
  BY <1>3, <1>4, <1>5 DEF Carries

LEMMA InitFlight == Init => FlightInv
<1> SUFFICES ASSUME Init PROVE FlightInv
  OBVIOUS
<1>1. \A r \in Reqs : req[r].pc \notin WaitingPCs
  BY DEF Init, IdleRequest, NewRequest, WaitingPCs
<1>2. \A p \in Procs : /\ wire[p] = <<>> /\ replies[p] = <<>>
                       /\ Unexecuted(req, p) = {} /\ Executed(req, p) = {}
  BY <1>1 DEF Init, Unexecuted, Executed
<1> QED
  BY <1>1, <1>2, CarriesNone DEF FlightInv, Waiting

(* A handler that goes on stays in its process and comes nearer to its end. *)
Nearer(q, n) == n.pc = "done" \/ Left[n.pc] < Left[q.pc]

LEMMA AnswerStays ==
  ASSUME TypeInv, NEW r \in Reqs, NEW q \in Requests, NEW status \in Nat, Answer(r, q, status)
  PROVE  req'[r].proc = q.proc /\ req'[r].pc = "done"
<1>1. req \in [Reqs -> Requests]
  BY DEF TypeInv, TypeOK
<1>2. req'[r] = Done(q, status)
  BY <1>1, AnswerEffect
<1>3. req'[r].proc = q.proc
  BY <1>2 DEF Done, NewRequest
<1>4. req'[r].pc = "done"
  BY <1>2, DoneType
<1> QED
  BY <1>3, <1>4

LEMMA SendStays ==
  ASSUME TypeInv, NEW p \in Procs, NEW r \in Reqs, NEW q \in Requests, NEW pc \in WaitingPCs,
         Send(p, r, q, pc)
  PROVE  req'[r].proc = q.proc /\ req'[r].pc = pc
<1>1. req \in [Reqs -> Requests] /\ wire \in [Procs -> Seq(Reqs)]
  BY DEF TypeInv, TypeOK
<1>2. req'[r] = Sent(q, pc)
  BY <1>1, SendEffect
<1> QED
  BY <1>2, SendUpdate

LEMMA HandleStays ==
  ASSUME TypeInv, NEW p \in Procs, NEW r \in Reqs, NEW q \in Requests, Handle(p, r, q)
  PROVE  req'[r].proc = q.proc /\ req'[r].pc \in {"done", "read.get"}
<1>1. "read.get" \in WaitingPCs /\ 200 \in Nat
  BY DEF WaitingPCs
<1> QED
  BY <1>1, AnswerStays, SendStays DEF Handle

LEMMA AuthoriseStays ==
  ASSUME TypeInv, NEW p \in Procs, NEW r \in Reqs, NEW q \in Requests, NEW ownerId,
         Authorise(p, r, q, ownerId)
  PROVE  req'[r].proc = q.proc /\ req'[r].pc \in {"done", "owner.expire", "read.get"}
<1>1. "owner.expire" \in WaitingPCs /\ 404 \in Nat /\ 403 \in Nat
  BY DEF WaitingPCs
<1> QED
  BY <1>1, AnswerStays, SendStays, HandleStays DEF Authorise

LEMMA SuccessorStays ==
  ASSUME TypeInv, NEW p \in Procs, NEW r \in Reqs, req[r].token \in Tokens,
         NEW payload \in Payloads, StoreSuccessor(p, r, payload)
  PROVE  req'[r].proc = req[r].proc /\ req'[r].pc = "rotate.set"
<1> DEFINE next(t) == [req[r] EXCEPT !.new = t, !.payload = RotatedPayload(payload, req[r].token)]
<1>1. PICK t \in FreshTokens : Send(p, r, next(t), "rotate.set")
  BY DEF StoreSuccessor
<1>2. req[r] \in Requests /\ t \in Tokens /\ RotatedPayload(payload, req[r].token) \in Payloads
  BY FreshTokensType, RotatedType DEF TypeInv, TypeOK
<1>3. next(t) \in Requests /\ next(t).proc = req[r].proc
  BY <1>2 DEF Requests
<1>4. "rotate.set" \in WaitingPCs
  BY DEF WaitingPCs
<1> HIDE DEF next
<1> QED
  BY <1>1, <1>3, <1>4, SendStays

(* What the reply at the head of a connection does: its handler goes on,   *)
(* in the same process.                                                    *)
LEMMA HandlerStays ==
  ASSUME TypeInv, NEW p \in Procs, NEW r \in Reqs, Handler(p, r)
  PROVE  req'[r].proc = req[r].proc /\ Nearer(req[r], req'[r])
<1> DEFINE q == req[r]
<1>0. /\ q \in Requests /\ Shape(q)
      /\ 404 \in Nat /\ 401 \in Nat /\ 201 \in Nat /\ 200 \in Nat /\ 500 \in Nat
  BY DEF TypeInv, TypeOK
<1>10. TypeInv /\ p \in Procs /\ r \in Reqs
  OBVIOUS
<1> SUFFICES /\ req'[r].proc = q.proc
             /\ req'[r].pc = "done" \/ Left[req'[r].pc] < Left[q.pc]
  BY DEF Nearer
<1>1. CASE OwnerGot(p, r)
  <2>1. q.pc = "owner.get" /\ (Answer(r, q, 404) \/ Authorise(p, r, q, q.res))
    BY <1>1 DEF OwnerGot, Receive
  <2>2. req'[r].proc = q.proc /\ req'[r].pc \in {"done", "owner.expire", "read.get"}
    BY <1>0, <2>1, AnswerStays, AuthoriseStays
  <2> QED
    BY <2>1, <2>2, LeftValues
<1>2. CASE OwnerRefreshed(p, r)
  <2>1. q.pc = "owner.expire" /\ Handle(p, r, q)
    BY <1>2 DEF OwnerRefreshed, Receive
  <2>2. req'[r].proc = q.proc /\ req'[r].pc \in {"done", "read.get"}
    BY <1>0, <2>1, HandleStays
  <2> QED
    BY <2>1, <2>2, LeftValues
<1>3. CASE SessionCreated(p, r)
  BY <1>0, <1>3, AnswerStays DEF SessionCreated
<1>4. CASE SessionRead(p, r)
  <2>1. q.pc = "read.get" /\ q.res \notin {Pending, Error}
    BY <1>4 DEF SessionRead, Receive
  <2>2. q.token \in Tokens /\ q.res \in RawValues \cup {Null}
    BY <1>0, <2>1 DEF Shape, WaitingPCs
  <2>3. CASE Answer(r, q, 401)
    BY <1>0, <2>3, AnswerStays
  <2>4. CASE q.res # Null /\ Send(p, r, [q EXCEPT !.payload = MigrateLegacy(q.res)], "read.ttl")
    <3>1. MigrateLegacy(q.res) \in Payloads
      BY <2>2, <2>4, MigrateType
    <3> PICK n : n = [q EXCEPT !.payload = MigrateLegacy(q.res)]
      OBVIOUS
    <3>2. n \in Requests /\ n.proc = q.proc
      BY <1>0, <3>1 DEF Requests
    <3>3. "read.ttl" \in WaitingPCs /\ Send(p, r, n, "read.ttl")
      BY <2>4 DEF WaitingPCs
    <3>4. req'[r].proc = n.proc /\ req'[r].pc = "read.ttl"
      BY ONLY <1>10, <3>2, <3>3, SendStays
    <3> QED
      BY <2>1, <3>2, <3>4, LeftValues
  <2>5. CASE IsPayload(q.res) /\ q.res # Null /\ StoreSuccessor(p, r, Deserialize(q.res))
    <3>1. Deserialize(q.res) \in Payloads
      BY <2>2, <2>5, DeserializeType
    <3>2. req'[r].proc = q.proc /\ req'[r].pc = "rotate.set"
      BY <2>2, <2>5, <3>1, SuccessorStays
    <3> QED
      BY <2>1, <3>2, LeftValues
  <2> QED
    BY <1>4, <2>3, <2>4, <2>5 DEF SessionRead, Readable
<1>5. CASE TtlRead(p, r)
  <2>1. q.pc = "read.ttl" /\ q.res \notin {Pending, Error}
    BY <1>5 DEF TtlRead, Receive
  <2>2. q.token \in Tokens /\ q.payload \in Payloads /\ q.res \in Integer
    BY <1>0, <2>1 DEF Shape, WaitingPCs
  <2>3. CASE q.res.seconds > 0 /\ Send(p, r, [q EXCEPT !.ttl = q.res.seconds], "read.set")
    <3>1. q.res.seconds \in Nat
      BY <2>2, <2>3 DEF Integer
    <3> PICK n : n = [q EXCEPT !.ttl = q.res.seconds]
      OBVIOUS
    <3>2. n \in Requests /\ n.proc = q.proc
      BY <1>0, <3>1 DEF Requests
    <3>3. "read.set" \in WaitingPCs /\ Send(p, r, n, "read.set")
      BY <2>3 DEF WaitingPCs
    <3>4. req'[r].proc = n.proc /\ req'[r].pc = "read.set"
      BY ONLY <1>10, <3>2, <3>3, SendStays
    <3> QED
      BY <2>1, <3>2, <3>4, LeftValues
  <2>4. CASE StoreSuccessor(p, r, q.payload)
    <3>1. req'[r].proc = q.proc /\ req'[r].pc = "rotate.set"
      BY <2>2, <2>4, SuccessorStays
    <3> QED
      BY <2>1, <3>1, LeftValues
  <2> QED
    BY <1>5, <2>3, <2>4 DEF TtlRead
<1>6. CASE SessionMigrated(p, r)
  <2>1. q.pc = "read.set" /\ StoreSuccessor(p, r, q.payload)
    BY <1>6 DEF SessionMigrated, Receive
  <2>2. q.token \in Tokens /\ q.payload \in Payloads
    BY <1>0, <2>1 DEF Shape, WaitingPCs
  <2>3. req'[r].proc = q.proc /\ req'[r].pc = "rotate.set"
    BY <2>1, <2>2, SuccessorStays
  <2> QED
    BY <2>1, <2>3, LeftValues
<1>7. CASE SuccessorStored(p, r)
  <2>1. "rotate.expire" \in WaitingPCs /\ q.pc = "rotate.set" /\ Send(p, r, q, "rotate.expire")
    BY <1>7 DEF SuccessorStored, Receive, WaitingPCs
  <2>2. req'[r].proc = q.proc /\ req'[r].pc = "rotate.expire"
    BY <1>0, <2>1, SendStays
  <2> QED
    BY <2>1, <2>2, LeftValues
<1>8. CASE RotationDone(p, r)
  BY <1>0, <1>8, AnswerStays DEF RotationDone
<1>9. CASE CommandFailed(p, r)
  <2>1. \E status \in {500, 401} : Answer(r, q, status)
    BY <1>9 DEF CommandFailed
  <2> QED
    BY <1>0, <2>1, AnswerStays
<1> QED
  BY <1>1, <1>2, <1>3, <1>4, <1>5, <1>6, <1>7, <1>8, <1>9 DEF Handler

(* It was at the head of its connection, and leaves it.                    *)
LEMMA HandlerReceives ==
  ASSUME NEW p \in Procs, NEW r \in Reqs, Handler(p, r)
  PROVE  /\ replies[p] # <<>> /\ r = Head(replies[p])
         /\ replies' = [replies EXCEPT ![p] = Tail(replies[p])]
BY DEF Handler, OwnerGot, OwnerRefreshed, SessionCreated, SessionRead, TtlRead, SessionMigrated,
       SuccessorStored, RotationDone, CommandFailed, Receive

(* A request that comes in belongs to the process it comes in at.          *)
LEMMA ClientStays ==
  ASSUME TypeInv, NEW p \in Procs, NEW r \in Reqs, Client(p, r)
  PROVE  req'[r].proc = p /\ ~Waiting(r) /\ replies' = replies
<1>1. ASSUME NEW u \in UserIds, CreateRequest(p, r, u)
      PROVE  req'[r].proc = p
  <2> DEFINE base == NewRequest(p, "create", u, Null)
             next(t) == [base EXCEPT !.new = t, !.payload = FirstPayload(u, {})]
  <2>1. PICK t \in FreshTokens : Send(p, r, next(t), "create.set")
    BY <1>1 DEF CreateRequest
  <2>2. base \in Requests /\ t \in Tokens /\ base.proc = p
    BY NewRequestType, FreshTokensType DEF NewRequest
  <2>3. FirstPayload(u, {}) \in Payloads
    BY FirstType
  <2>4. "create.set" \in WaitingPCs
    BY DEF WaitingPCs
  <2> HIDE DEF base
  <2>5. next(t) \in Requests /\ next(t).proc = p
    BY <2>2, <2>3 DEF Requests
  <2> HIDE DEF next
  <2> QED
    BY <2>1, <2>4, <2>5, SendStays
<1>2. ASSUME NEW u \in UserIds, NEW t \in Tokens, NEW op \in {"check", "rotate"},
             OwnerRequest(p, r, op, u, t)
      PROVE  req'[r].proc = p
  <2> DEFINE q == NewRequest(p, op, u, t)
             hit == cache[p][t]
  <2>1. q \in Requests /\ q.proc = p /\ "owner.get" \in WaitingPCs
    BY NewRequestType DEF NewRequest, WaitingPCs
  <2>2. Authorise(p, r, q, hit.val) \/ Send(p, r, q, "owner.get")
    BY <1>2 DEF OwnerRequest
  <2> HIDE DEF q
  <2> QED
    BY <2>1, <2>2, AuthoriseStays, SendStays
<1>3. ~Waiting(r) /\ replies' = replies
  BY DEF Client, CreateRequest, OwnerRequest, Free
<1> QED
  BY <1>1, <1>2, <1>3 DEF Client

(* A request that comes in, or goes on, leaves the connections in order.   *)
LEMMA ResumedFlight ==
  ASSUME TypeInv, FlightInv, NEW p \in Procs, NEW r \in Reqs, Queued(p, r),
         req[r].pc \in WaitingPCs => req[r].res # Pending /\ req[r].proc = p,
         req'[r].proc = p, \A s \in Reqs \ {r} : req'[s] = req[s],
         Carries(replies'[p], Executed(req, p) \ {r}),
         \A a \in Procs \ {p} : replies'[a] = replies[a]
  PROVE  FlightInv'
<1>1. wire \in [Procs -> Seq(Reqs)] /\ "done" \notin WaitingPCs
  BY DEF TypeInv, TypeOK, WaitingPCs
<1>2. req'[r].pc \in WaitingPCs => req'[r].res = Pending
  BY <1>1 DEF Queued, Ended, Pends
<1>3. ASSUME NEW a \in Procs PROVE Executed(req', a) = Executed(req, a) \ {r}
  BY <1>2 DEF Executed
<1>4. ASSUME NEW a \in Procs PROVE Carries(replies'[a], Executed(req', a))
  <2>1. CASE a = p
    BY <1>3, <2>1
  <2>2. CASE a # p
    <3>1. Executed(req', a) = Executed(req, a)
      BY <1>3, <2>2 DEF Executed
    <3> QED
      BY <2>2, <3>1 DEF FlightInv
  <2> QED
    BY <2>1, <2>2
<1>5. ASSUME NEW a \in Procs PROVE Carries(wire'[a], Unexecuted(req', a))
  <2>1. r \notin Unexecuted(req, a) /\ Carries(wire[a], Unexecuted(req, a))
    BY DEF Unexecuted, FlightInv
  <2>2. CASE a = p /\ Pends(req'[r]) /\ wire' = [wire EXCEPT ![p] = Append(wire[p], r)]
    <3>1. Unexecuted(req', a) = Unexecuted(req, a) \cup {r}
      BY <2>2 DEF Unexecuted, Pends
    <3>2. wire'[a] = Append(wire[a], r) /\ wire[a] \in Seq(Reqs)
      BY <1>1, <2>2
    <3> QED
      BY <2>1, <3>1, <3>2, CarriesMore
  <2>3. CASE a # p \/ Ended(req'[r])
    <3>1. Unexecuted(req', a) = Unexecuted(req, a)
      BY <1>1, <2>1, <2>3 DEF Unexecuted, Ended
    <3>2. wire'[a] = wire[a]
      BY <1>1, <2>3 DEF Queued, Ended, Pends
    <3> QED
      BY <2>1, <3>1, <3>2
  <2> QED
    BY <2>2, <2>3 DEF Queued
<1>6. \A s \in Reqs : Waiting(s)' => req'[s].proc \in Procs
  BY DEF FlightInv, Waiting
<1> QED
  BY <1>4, <1>5, <1>6 DEF FlightInv

LEMMA HandlerFlight ==
  ASSUME TypeInv, SafetyInv, FlightInv, NEW p \in Procs, NEW r \in Reqs, Handler(p, r)
  PROVE  FlightInv'
<1>1. /\ replies[p] # <<>> /\ r = Head(replies[p])
      /\ replies' = [replies EXCEPT ![p] = Tail(replies[p])]
  BY HandlerReceives
<1>2. replies \in [Procs -> Seq(Reqs)] /\ replies[p] \in Seq(Reqs)
  BY DEF TypeInv, TypeOK
<1>3. Carries(replies[p], Executed(req, p))
  BY DEF FlightInv
<1>4. r \in Executed(req, p) /\ Carries(Tail(replies[p]), Executed(req, p) \ {r})
  BY <1>1, <1>2, <1>3, CarriesLess
<1>5. req[r].proc = p /\ req[r].res # Pending
  BY <1>4 DEF Executed
<1>6. req'[r].proc = p
  BY <1>5, HandlerStays
<1>7. Queued(p, r) /\ \A s \in Reqs \ {r} : req'[s] = req[s]
  BY HandlerQueued, HandlerResumed DEF Resumed
<1>8. replies'[p] = Tail(replies[p]) /\ \A a \in Procs \ {p} : replies'[a] = replies[a]
  BY <1>1, <1>2
<1> QED
  BY <1>4, <1>5, <1>6, <1>7, <1>8, ResumedFlight

LEMMA ClientFlight ==
  ASSUME TypeInv, FlightInv, NEW p \in Procs, NEW r \in Reqs, Client(p, r)
  PROVE  FlightInv'
<1>1. req'[r].proc = p /\ ~Waiting(r) /\ replies' = replies
  BY ClientStays
<1>2. Queued(p, r) /\ \A s \in Reqs \ {r} : req'[s] = req[s]
  BY ClientQueued, ClientResumed DEF Resumed
<1>3. Executed(req, p) \ {r} = Executed(req, p)
  BY <1>1 DEF Executed, Waiting
<1>4. Carries(replies'[p], Executed(req, p) \ {r})
  BY <1>1, <1>3 DEF FlightInv
<1> QED
  BY <1>1, <1>2, <1>4, ResumedFlight DEF Waiting

(* A command that is executed turns round.                                 *)
LEMMA ExecuteTurns ==
  ASSUME TypeInv, NEW p \in Procs, NEW r \in Reqs, Redis(p, r)
  PROVE  /\ req'[r].proc = req[r].proc /\ req'[r].res # Pending
         /\ replies' = [replies EXCEPT ![p] = Append(replies[p], r)]
<1>1. /\ req \in [Reqs -> Requests] /\ req[r] \in Requests /\ Shape(req[r])
  BY DEF TypeInv, TypeOK
<1>2. ASSUME NEW pcs, NEW res, res # Pending, Execute(p, r, pcs, res)
      PROVE  /\ req'[r].proc = req[r].proc /\ req'[r].res # Pending
             /\ replies' = [replies EXCEPT ![p] = Append(replies[p], r)]
  BY <1>1, <1>2 DEF Execute, Requests
<1>3. Null # Pending /\ Error # Pending /\ \A n \in Int : Seconds(n) # Pending
  BY SpecialAssumption DEF Replies, Seconds
<1>4. ASSUME RedisGet(p, r) PROVE \E pcs, res : res # Pending /\ Execute(p, r, pcs, res)
  <2>1. req[r].pc \in {"owner.get", "read.get"}
    BY <1>4 DEF RedisGet, Execute
  <2>2. req[r].token \in Tokens
    BY <1>1, <2>1 DEF Shape, WaitingPCs
  <2>3. redis[req[r].token] = Absent \/ redis[req[r].token].val \in RawValues
    BY <2>2 DEF TypeInv, TypeOK, LiveEntries
  <2>4. (IF redis[req[r].token] = Absent THEN Null ELSE redis[req[r].token].val) # Pending
    BY <1>3, <2>3, SpecialAssumption DEF Replies
  <2> QED
    BY <1>4, <2>4 DEF RedisGet
<1>5. ASSUME RedisTtl(p, r) PROVE \E pcs, res : res # Pending /\ Execute(p, r, pcs, res)
  <2> DEFINE key == redis[req[r].token]
  <2>1. PICK left \in IF key = Absent THEN {-2} ELSE {key.ttl, key.ttl - 1} :
               Execute(p, r, {"read.ttl"}, Seconds(left))
    BY <1>5 DEF RedisTtl
  <2>2. req[r].token \in Tokens
    BY <1>1, <1>5 DEF RedisTtl, Shape, WaitingPCs
  <2>3. key = Absent \/ key.ttl \in Nat
    BY <2>2, TTLAssumption DEF TypeInv, TypeOK, LiveEntries
  <2>4. left \in Int
    BY <2>1, <2>3
  <2> QED
    BY <1>3, <2>1, <2>4
<1>6. ASSUME ~RedisGet(p, r), ~RedisTtl(p, r)
      PROVE  \E pcs, res : res # Pending /\ Execute(p, r, pcs, res)
  BY <1>3, <1>6 DEF Redis, RedisRefresh, RedisBurn, RedisStore, RedisMigrate, RedisRefuse
<1> QED
  BY <1>2, <1>4, <1>5, <1>6

LEMMA RedisFlight ==
  ASSUME TypeInv, FlightInv, NEW p \in Procs, NEW r \in Reqs, Redis(p, r)
  PROVE  FlightInv'
<1>1. /\ wire[p] # <<>> /\ r = Head(wire[p]) /\ wire' = [wire EXCEPT ![p] = Tail(wire[p])]
      /\ \A s \in Reqs \ {r} : req'[s] = req[s]
      /\ req'[r].pc = req[r].pc
  BY RedisExecutes
<1>2. /\ req'[r].proc = req[r].proc /\ req'[r].res # Pending
      /\ replies' = [replies EXCEPT ![p] = Append(replies[p], r)]
  BY ExecuteTurns
<1>3. /\ wire \in [Procs -> Seq(Reqs)] /\ replies \in [Procs -> Seq(Reqs)]
      /\ wire[p] \in Seq(Reqs) /\ replies[p] \in Seq(Reqs)
  BY DEF TypeInv, TypeOK
<1>4. r \in Unexecuted(req, p) /\ Carries(Tail(wire[p]), Unexecuted(req, p) \ {r})
  BY <1>1, <1>3, CarriesLess DEF FlightInv
<1>5. r \notin Executed(req, p) /\ Carries(Append(replies[p], r), Executed(req, p) \cup {r})
  <2>1. r \notin Executed(req, p)
    BY <1>4 DEF Executed, Unexecuted
  <2> QED
    BY <1>3, <2>1, CarriesMore DEF FlightInv
<1>6. ASSUME NEW a \in Procs
      PROVE  /\ Carries(wire'[a], Unexecuted(req', a))
             /\ Carries(replies'[a], Executed(req', a))
  <2>1. CASE a = p
    <3>1. wire'[a] = Tail(wire[p]) /\ replies'[a] = Append(replies[p], r)
      BY <1>1, <1>2, <1>3, <2>1
    <3>2. /\ Unexecuted(req', a) = Unexecuted(req, p) \ {r}
          /\ Executed(req', a) = Executed(req, p) \cup {r}
      BY <1>1, <1>2, <1>4, <2>1 DEF Unexecuted, Executed
    <3> QED
      BY <1>4, <1>5, <3>1, <3>2
  <2>2. CASE a # p
    <3>1. wire'[a] = wire[a] /\ replies'[a] = replies[a]
      BY <1>1, <1>2, <1>3, <2>2
    <3>2. Unexecuted(req', a) = Unexecuted(req, a) /\ Executed(req', a) = Executed(req, a)
      BY <1>1, <1>2, <1>4, <2>2 DEF Unexecuted, Executed
    <3> QED
      BY <3>1, <3>2 DEF FlightInv
  <2> QED
    BY <2>1, <2>2
<1>7. \A s \in Reqs : Waiting(s)' => req'[s].proc \in Procs
  BY <1>1, <1>2 DEF FlightInv, Waiting
<1> QED
  BY <1>6, <1>7 DEF FlightInv

LEMMA EnvironmentFlight ==
  ASSUME TypeInv, FlightInv, Environment
  PROVE  FlightInv'
<1>1. ASSUME UNCHANGED <<wire, replies>>,
             \A s \in Reqs : /\ req'[s].pc = req[s].pc /\ req'[s].res = req[s].res
                             /\ req'[s].proc = req[s].proc
      PROVE  FlightInv'
  <2>1. \A a \in Procs : /\ Unexecuted(req', a) = Unexecuted(req, a)
                         /\ Executed(req', a) = Executed(req, a)
    BY <1>1 DEF Unexecuted, Executed
  <2> QED
    BY <1>1, <2>1 DEF FlightInv, Waiting
<1>2. CASE Tick
  <2>1. ASSUME NEW s \in Reqs
        PROVE  /\ req'[s].pc = req[s].pc /\ req'[s].res = req[s].res
               /\ req'[s].proc = req[s].proc
    <3>1. req[s] \in Requests
      BY DEF TypeInv, TypeOK
    <3> QED
      BY <1>2, <3>1 DEF Tick, Requests
  <2> QED
    BY <1>1, <1>2, <2>1 DEF Tick
<1>3. ASSUME NEW t \in Tokens, Revoke(t) PROVE FlightInv'
  BY <1>1, <1>3 DEF Revoke
<1>4. ASSUME NEW p \in Procs, NEW t \in Tokens, EvictOwner(p, t) \/ EvictThrottle(p, t)
      PROVE  FlightInv'
  BY <1>1, <1>4 DEF EvictOwner, EvictThrottle
<1>5. ASSUME NEW p \in Procs, Crash(p) PROVE FlightInv'
  <2>1. wire \in [Procs -> Seq(Reqs)] /\ replies \in [Procs -> Seq(Reqs)]
    BY DEF TypeInv, TypeOK
  <2>2. ASSUME NEW s \in Reqs
        PROVE  \/ req'[s] = req[s] /\ s \notin Outstanding(p)
               \/ req'[s].pc \notin WaitingPCs /\ req[s].proc = p
    <3>1. CASE s \in Outstanding(p)
      <4>1. req[s] \in Requests /\ 0 \in Nat /\ "done" \notin WaitingPCs
        BY DEF TypeInv, TypeOK, WaitingPCs
      <4>2. Done(req[s], 0).pc \notin WaitingPCs
        BY <4>1, DoneType
      <4> QED
        BY <1>5, <3>1, <4>2 DEF Crash, Outstanding
    <3> QED
      BY <1>5, <3>1 DEF Crash
  <2>3. ASSUME NEW a \in Procs
        PROVE  /\ Carries(wire'[a], Unexecuted(req', a))
               /\ Carries(replies'[a], Executed(req', a))
    <3>1. CASE a = p
      <4>1. wire'[a] = <<>> /\ replies'[a] = <<>>
        BY <1>5, <2>1, <3>1 DEF Crash
      <4>2. Unexecuted(req', a) = {} /\ Executed(req', a) = {}
        BY <2>2, <3>1 DEF Unexecuted, Executed, Outstanding, Waiting
      <4> QED
        BY <4>1, <4>2, CarriesNone
    <3>2. CASE a # p
      <4>1. wire'[a] = wire[a] /\ replies'[a] = replies[a]
        BY <1>5, <2>1, <3>2 DEF Crash
      <4>2. Unexecuted(req', a) = Unexecuted(req, a) /\ Executed(req', a) = Executed(req, a)
        BY <2>2, <3>2 DEF Unexecuted, Executed
      <4> QED
        BY <4>1, <4>2 DEF FlightInv
    <3> QED
      BY <3>1, <3>2
  <2>4. \A s \in Reqs : Waiting(s)' => req'[s].proc \in Procs
    BY <2>2 DEF FlightInv, Waiting
  <2> QED
    BY <2>3, <2>4 DEF FlightInv
<1> QED
  BY <1>2, <1>3, <1>4, <1>5 DEF Environment

LEMMA FlightStep == TypeInv /\ SafetyInv /\ FlightInv /\ [Next]_vars => FlightInv'
<1> SUFFICES ASSUME TypeInv, SafetyInv, FlightInv, [Next]_vars PROVE FlightInv'
  OBVIOUS
<1>1. CASE UNCHANGED vars
  <2>1. UNCHANGED <<wire, replies, req>>
    BY <1>1 DEF vars
  <2> QED
    BY <2>1 DEF FlightInv, Waiting, Unexecuted, Executed
<1> QED
  BY <1>1, ClientFlight, HandlerFlight, RedisFlight, EnvironmentFlight DEF Next
(* Nothing that waits is lost on the way, and nothing is served twice:     *)
(* however requests, refusals, revocations and crashes interleave, every   *)
(* request of a live process is in exactly one place, once, on the         *)
(* connection of its own process: on its way to Redis while its command    *)
(* is not executed, on its way back when it is (ioredis keeps the order of *)
(* one connection).  So the command or the reply at the head of a          *)
(* connection is always one that somebody waits for.                       *)
THEOREM NothingIsLost == Spec => []FlightInv
BY Safety, InitFlight, FlightStep, PTL DEF Spec

(* A request that waits either stays at its command, whose reply is not    *)
(* taken back, or goes on to one that comes later.                         *)
Advances ==
  \A r \in Reqs : Waiting(r) /\ Waiting(r)' =>
    \/ req'[r].pc = req[r].pc /\ req[r].res \in {Pending, req'[r].res}
    \/ req[r].res # Pending /\ Left[req'[r].pc] < Left[req[r].pc]

LEMMA StepAdvances == TypeInv /\ SafetyInv /\ FlightInv /\ [Next]_vars => [Advances]_vars
<1> SUFFICES ASSUME TypeInv, SafetyInv, FlightInv, Next PROVE Advances
  OBVIOUS
<1>1. "done" \notin WaitingPCs
  BY DEF WaitingPCs
<1>2. ASSUME NEW p \in Procs, NEW r \in Reqs, Client(p, r) PROVE Advances
  <2>1. ~Waiting(r) /\ \A s \in Reqs \ {r} : req'[s] = req[s]
    BY <1>2, ClientStays, ClientResumed DEF Resumed
  <2> QED
    BY <2>1 DEF Advances
<1>3. ASSUME NEW p \in Procs, NEW r \in Reqs, Handler(p, r) PROVE Advances
  <2>1. /\ \A s \in Reqs \ {r} : req'[s] = req[s]
        /\ Nearer(req[r], req'[r])
    BY <1>3, HandlerStays, HandlerResumed DEF Resumed
  <2>2. Waiting(r) => req[r].res # Pending
    BY <1>3, HandlerQueued DEF Pends, Waiting
  <2> QED
    BY <1>1, <2>1, <2>2 DEF Advances, Nearer, Waiting
<1>4. ASSUME NEW p \in Procs, NEW r \in Reqs, Redis(p, r) PROVE Advances
  <2>1. /\ \A s \in Reqs \ {r} : req'[s] = req[s]
        /\ req'[r].pc = req[r].pc /\ r = Head(wire[p]) /\ wire[p] # <<>>
    BY <1>4, RedisExecutes
  <2>2. r \in Unexecuted(req, p)
    BY <2>1, CarriesLess DEF FlightInv, TypeInv, TypeOK
  <2> QED
    BY <2>1, <2>2 DEF Advances, Unexecuted
<1>5. CASE Environment
  <2> SUFFICES ASSUME NEW r \in Reqs, Waiting(r) /\ Waiting(r)'
               PROVE  req'[r].pc = req[r].pc /\ req'[r].res = req[r].res
    BY DEF Advances
  <2>1. CASE Tick
    <3>1. req[r] \in Requests
      BY DEF TypeInv, TypeOK
    <3> QED
      BY <2>1, <3>1 DEF Tick, Requests
  <2>2. CASE \E p \in Procs : Crash(p)
    BY <1>1, <2>2, CrashLeaves DEF Ended, Waiting
  <2>3. CASE \E t \in Tokens : Revoke(t) \/ \E p \in Procs : EvictOwner(p, t) \/ EvictThrottle(p, t)
    BY <2>3 DEF Revoke, EvictOwner, EvictThrottle
  <2> QED
    BY <1>5, <2>1, <2>2, <2>3 DEF Environment
<1> QED
  BY <1>2, <1>3, <1>4, <1>5 DEF Next

(* A request is at most seven commands from its answer and never goes      *)
(* back: no handler repeats a command that was refused, came late or found *)
(* nothing (ensureSessionOwner 712-790, readSession, rotateSession), so    *)
(* each reply that NothingIsLost says is still to come brings its request  *)
(* nearer to the end.                                                      *)
THEOREM RequestsAdvance == Spec => [][Advances]_vars
BY Safety, NothingIsLost, StepAdvances, PTL DEF Spec

-----------------------------------------------------------------------------
(* What the ledger promises, and the server with it.  A request that is let in is the owner's
   of its session. *)
ServesOwners ==
  /\ ledger \in [Tokens -> Payloads \cup {Null}]
  /\ serving \in [Reqs -> (UserIds \X Tokens) \cup {Null}]
  /\ \A r \in Reqs, u \in UserIds, t \in Tokens :
       serving[r] = <<u, t>> => ledger[t] # Null /\ ledger[t].userId = u

(* What was issued stays, and what is issued begins a session or continues one for a request
   of its owner that is being served. *)
IssuedToOwners ==
  \A t \in Tokens :
    /\ ledger[t] # Null => ledger'[t] = ledger[t]
    /\ ledger[t] = Null /\ ledger'[t] # Null =>
         \/ ledger'[t].rotatedFrom = NoParent
         \/ \E r \in Reqs, s \in Tokens :
              /\ serving[r] = <<ledger[s].userId, s>>
              /\ ledger'[t] = RotatedPayload(ledger[s], s)

LEMMA LedgerInit ==
  ASSUME Ledger!Init, Null \notin UserIds \X Tokens
  PROVE  ServesOwners
<1>1. \A u \in UserIds : Ledger!MigrateLegacy(Ledger!Text(u)) \in Payloads
  BY DEF Ledger!MigrateLegacy, Ledger!Text, Ledger!CurrentVersion, Payloads
<1> QED
  BY <1>1 DEF Ledger!Init, ServesOwners

LEMMA LedgerOpen ==
  ASSUME ServesOwners, NEW u \in UserIds, NEW t \in Tokens, Ledger!Open(u, t)
  PROVE  ServesOwners' /\ IssuedToOwners
<1> DEFINE new == Ledger!FirstPayload(u, {})
<1>1. new \in Payloads /\ new.rotatedFrom = NoParent
  BY DEF Ledger!FirstPayload, Ledger!CurrentVersion, Payloads
<1> HIDE DEF new
<1>2. ledger[t] = Null /\ ledger' = [ledger EXCEPT ![t] = new] /\ serving' = serving
  BY DEF Ledger!Open, new
<1>3. \A s \in Tokens : ledger'[s] = IF s = t THEN new ELSE ledger[s]
  BY <1>2 DEF ServesOwners
<1>4. ledger' \in [Tokens -> Payloads \cup {Null}]
  BY <1>1, <1>2 DEF ServesOwners
<1> QED
  BY ONLY ServesOwners, <1>1, <1>2, <1>3, <1>4 DEF ServesOwners, IssuedToOwners

LEMMA LedgerAdmit ==
  ASSUME ServesOwners, NEW r \in Reqs, NEW u \in UserIds, NEW t \in Tokens, Ledger!Admit(r, u, t),
         Null \notin UserIds \X Tokens
  PROVE  ServesOwners' /\ IssuedToOwners
<1>1. /\ ledger[t] # Null /\ ledger[t].userId = u /\ ledger' = ledger
      /\ serving' = [serving EXCEPT ![r] = <<u, t>>]
  BY DEF Ledger!Admit
<1>2. serving' \in [Reqs -> (UserIds \X Tokens) \cup {Null}]
  BY <1>1 DEF ServesOwners
<1>3. \A q \in Reqs : serving'[q] = IF q = r THEN <<u, t>> ELSE serving[q]
  BY <1>1 DEF ServesOwners
<1> QED
  BY <1>1, <1>2, <1>3 DEF ServesOwners, IssuedToOwners

LEMMA LedgerContinue ==
  ASSUME ServesOwners, NEW r \in Reqs, NEW u \in UserIds, NEW t \in Tokens, NEW c \in Tokens,
         Ledger!Continue(r, u, t, c)
  PROVE  ServesOwners' /\ IssuedToOwners
<1> DEFINE new == RotatedPayload(ledger[t], t)
<1>1. serving[r] = <<u, t>> /\ ledger[c] = Null /\ serving' = serving
  BY DEF Ledger!Continue
<1>2. ledger[t] \in Payloads /\ ledger[t].userId = u
  BY <1>1 DEF ServesOwners
<1>3. new \in Payloads
  BY <1>2 DEF RotatedPayload, CurrentVersion, Payloads
<1>4. ledger' = [ledger EXCEPT ![c] = new]
  BY DEF Ledger!Continue, Ledger!RotatedPayload, Ledger!CurrentVersion, RotatedPayload, CurrentVersion
<1>5. serving[r] = <<ledger[t].userId, t>>
  BY <1>1, <1>2
<1>6. \A s \in Tokens : ledger'[s] = IF s = c THEN new ELSE ledger[s]
  BY <1>4 DEF ServesOwners
<1>7. ledger' \in [Tokens -> Payloads \cup {Null}]
  BY <1>3, <1>4 DEF ServesOwners
<1>8. ServesOwners'
  BY ONLY ServesOwners, <1>1, <1>6, <1>7 DEF ServesOwners
<1>9. IssuedToOwners
  BY ONLY <1>1, <1>5, <1>6 DEF IssuedToOwners
<1> QED
  BY <1>8, <1>9

LEMMA LedgerLeave ==
  ASSUME ServesOwners, NEW R \in SUBSET Reqs, Ledger!Leave(R), Null \notin UserIds \X Tokens
  PROVE  ServesOwners' /\ IssuedToOwners
<1>1. ledger' = ledger /\ serving' = [r \in Reqs |-> IF r \in R THEN Null ELSE serving[r]]
  BY DEF Ledger!Leave
<1> QED
  BY <1>1 DEF ServesOwners, IssuedToOwners

LEMMA LedgerStep ==
  ASSUME ServesOwners, [Ledger!Next]_<<ledger, serving>>, Null \notin UserIds \X Tokens
  PROVE  ServesOwners' /\ IssuedToOwners
<1>1. CASE UNCHANGED <<ledger, serving>>
  BY <1>1 DEF ServesOwners, IssuedToOwners
<1> QED
  BY <1>1, LedgerOpen, LedgerAdmit, LedgerContinue, LedgerLeave DEF Ledger!Next

(* createSession, checkSession and rotateSession together, through the ledger they implement:
   the payload a token was issued with never changes, and a session is continued under a new
   token only by a request of its owner that has been let in for it, with what the payload
   says; whatever is cached, refused, written back late or lost with a process. *)
THEOREM SessionsContinueTheirOwners ==
  ASSUME Null \notin UserIds \X Tokens
  PROVE  Spec => [][IssuedToOwners]_<<ledger, serving>>
<1>1. Ledger!Init => ServesOwners
  BY LedgerInit
<1>2. ServesOwners /\ [Ledger!Next]_<<ledger, serving>> => ServesOwners' /\ IssuedToOwners
  BY LedgerStep
<1> QED
  BY <1>1, <1>2, ImplementsLedger, PTL DEF LedgerSpec, Ledger!Spec
=============================================================================
