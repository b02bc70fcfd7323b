--------------------------- MODULE SessionServer ----------------------------
(***************************************************************************)
(* The session layer of the API server: the handlers of src/server.ts that *)
(* create, check, extend and rotate sessions, src/session_rotator.ts which *)
(* they call, and the Redis server the processes share.                    *)
(*                                                                         *)
(* Every process runs the same single-threaded program.  A handler runs    *)
(* from one await to the next without interruption; each await is a Redis  *)
(* command, so a request is a program counter naming the command it waits  *)
(* for.  A process has one connection: its commands execute, and their     *)
(* replies resume the handlers, in the order the commands were issued.     *)
(* Other handlers of the process, the other processes, the clock, refused  *)
(* commands and crashes interleave freely between those points.            *)
(*                                                                         *)
(* Time is counted in ticks; a TTL is the number of ticks left.            *)
(***************************************************************************)
EXTENDS SessionPayload, Sequences, FiniteSets

CONSTANTS
  Procs,          \* processes of the API server
  Reqs,           \* request slots: how many requests are in flight at once
  LegacyTokens,   \* tokens issued before v1: Redis holds the bare user id
  SessionTTL,     \* SESSION_TTL, in ticks
  GraceTTL,       \* the 5 seconds a rotated token is given
  CacheTTL,       \* ttl of sessionCache
  ThrottleTTL,    \* ttl of sessionUpdateCache
  MaxLag,         \* bound: ticks that may pass while a request is in flight
  Faults,         \* which of "crash", "refuse", "evict", "forget", "revoke" may happen
  NotFound,       \* SESSION_NOT_FOUND
  Absent,         \* no such key
  Null,           \* a nil reply, an unused field
  Pending,        \* the reply of a command that has not been executed yet
  Error           \* a rejected command

ASSUME TTLAssumption ==
  /\ {SessionTTL, GraceTTL, CacheTTL, ThrottleTTL} \subseteq Nat \ {0}
  /\ GraceTTL < SessionTTL
  /\ ThrottleTTL + MaxLag < SessionTTL

ASSUME ConfigAssumption ==
  /\ LegacyTokens \subseteq Tokens
  /\ MaxLag \in Nat
  /\ Faults \subseteq {"crash", "refuse", "evict", "forget", "revoke"}

VARIABLES
  redis,      \* redis[t]: the key of token t, or Absent
  cache,      \* cache[p]: sessionCache of process p
  throttle,   \* throttle[p][t]: ticks left of t's entry in sessionUpdateCache
  wire,       \* wire[p]: requests whose command is on its way to Redis
  replies,    \* replies[p]: requests whose reply is on its way back
  req,        \* req[r]: the request in slot r
  known,      \* tokens a client has been given
  ledger,     \* history: the payload each token was first stored with
  burned,     \* history: tokens a rotation has put on the grace period
  rotatedBy,  \* history: <<p, t>> when p has completed a rotation of t
  deadFor     \* history: ticks since the key of t vanished (capped)

vars == <<redis, cache, throttle, wire, replies, req, known,
          ledger, burned, rotatedBy, deadFor>>

local   == <<cache, throttle>>
history == <<ledger, burned, rotatedBy, deadFor>>

-----------------------------------------------------------------------------
(* A request.  op "check" stands for every endpoint that only runs         *)
(* ensureSessionOwner and then leaves the session alone.                   *)

WaitingPCs == {"owner.get", "owner.expire", "create.set", "read.get", "read.ttl",
               "read.set", "rotate.set", "rotate.expire"}

Seconds(n) == [form |-> "integer", seconds |-> n]

Replies == RawValues \cup [form : {"integer"}, seconds : Int]
Results == {Null, Pending, Error} \cup Replies

(* The special values are no ordinary ones.                                *)
ASSUME SpecialAssumption ==
  /\ NotFound \notin RawValues
  /\ Absent \notin [val : RawValues, ttl : Nat]
  /\ Absent \notin [val : RawValues \cup {NotFound}, ttl : Nat]
  /\ Null \notin Tokens \cup Payloads
  /\ NoParent \notin Tokens
  /\ {Pending, Error} \cap ({Null} \cup Replies) = {}
  /\ Null \notin Replies
  /\ Pending # Error

Requests ==
  [pc      : WaitingPCs \cup {"idle", "done"},
   proc    : Procs \cup {Null},
   op      : {"none", "create", "check", "rotate"},
   user    : UserIds \cup {Null},
   token   : Tokens \cup {Null},      \* x-session-token
   new     : Tokens \cup {Null},      \* crypto.randomUUID()
   payload : Payloads \cup {Null},    \* what is to be stored under new
   ttl     : Nat,                     \* remainingTtl in readSession
   res     : Results,                 \* the promise the handler awaits
   age     : 0 .. MaxLag,             \* ticks since it arrived
   status  : Nat]                     \* HTTP status of the answer

NewRequest(p, op, u, t) ==
  [pc |-> "idle", proc |-> p, op |-> op, user |-> u, token |-> t, new |-> Null,
   payload |-> Null, ttl |-> 0, res |-> Null, age |-> 0, status |-> 0]

Waiting(r) == req[r].pc \in WaitingPCs

(* Answered: only what was asked and the status are kept.                  *)
Done(q, status) ==
  [NewRequest(q.proc, q.op, q.user, q.token) EXCEPT !.pc = "done", !.status = status]

Answer(r, q, status) ==
  /\ req' = [req EXCEPT ![r] = Done(q, status)]
  /\ UNCHANGED wire

(* await redis.<command>: pc names the command.                            *)
Send(p, r, q, pc) ==
  /\ req'  = [req EXCEPT ![r] = [q EXCEPT !.pc = pc, !.res = Pending]]
  /\ wire' = [wire EXCEPT ![p] = Append(@, r)]

(* Mutant: a token generator that repeats itself.                          *)
RepeatedTokens ==
  {t \in Tokens : \A r \in Reqs : req[r].new # t}

(* Tokens crypto.randomUUID() may return: never seen before.               *)
FreshTokens ==
  {t \in Tokens : ledger[t] = Null /\ \A r \in Reqs : req[r].new # t}

-----------------------------------------------------------------------------
(* Redis.                                                                  *)

Entry(val, ttl) == [val |-> val, ttl |-> ttl]

(* The head command of p's connection is executed with result res.         *)
Execute(p, r, pcs, res) ==
  /\ wire[p] # <<>>
  /\ r = Head(wire[p])
  /\ req[r].pc \in pcs
  /\ req[r].res = Pending
  /\ req'     = [req EXCEPT ![r].res = res]
  /\ wire'    = [wire EXCEPT ![p] = Tail(@)]
  /\ replies' = [replies EXCEPT ![p] = Append(@, r)]
  /\ UNCHANGED <<local, known>>

RedisGet(p, r) ==
  LET key == redis[req[r].token] IN
  /\ Execute(p, r, {"owner.get", "read.get"}, IF key = Absent THEN Null ELSE key.val)
  /\ UNCHANGED <<redis, history>>

(* TTL rounds to whole units, -2 when the key does not exist.              *)
RedisTtl(p, r) ==
  LET key == redis[req[r].token] IN
  /\ req[r].pc = "read.ttl"
  /\ \E left \in IF key = Absent THEN {-2} ELSE {key.ttl, key.ttl - 1} :
       Execute(p, r, {"read.ttl"}, Seconds(left))
  /\ UNCHANGED <<redis, history>>

(* EXPIRE does nothing to a key that does not exist.                       *)
ExpireKey(t, ttl) ==
  redis' = [redis EXCEPT ![t] = IF @ = Absent THEN Absent ELSE Entry(@.val, ttl)]

(* Mutant: the wrong constant.                                             *)
ThrottleAsRefresh == ThrottleTTL

RefreshTTL == SessionTTL

RedisRefresh(p, r) ==
  /\ Execute(p, r, {"owner.expire"}, Null)
  /\ ExpireKey(req[r].token, RefreshTTL)
  /\ UNCHANGED history

RedisBurn(p, r) ==
  LET t == req[r].token IN
  /\ Execute(p, r, {"rotate.expire"}, Null)
  /\ ExpireKey(t, GraceTTL)
  /\ burned' = IF redis[t] = Absent THEN burned ELSE burned \cup {t}
  /\ UNCHANGED <<ledger, rotatedBy, deadFor>>

(* SET key value EX ttl, of a new session.                                 *)
RedisStore(p, r) ==
  LET t == req[r].new IN
  /\ Execute(p, r, {"create.set", "rotate.set"}, Null)
  /\ redis'  = [redis EXCEPT ![t] = Entry(Serialize(req[r].payload), SessionTTL)]
  /\ ledger' = [ledger EXCEPT ![t] = req[r].payload]
  /\ UNCHANGED <<burned, rotatedBy, deadFor>>

(* SET key value EX remainingTtl, of a migrated session.                   *)
RedisMigrate(p, r) ==
  LET t == req[r].token IN
  /\ Execute(p, r, {"read.set"}, Null)
  /\ redis'   = [redis EXCEPT ![t] = Entry(Serialize(req[r].payload), req[r].ttl)]
  /\ deadFor' = [deadFor EXCEPT ![t] = 0]
  /\ UNCHANGED <<ledger, burned, rotatedBy>>

(* Redis refuses the command: out of memory, loading, demoted to a replica.*)
RedisRefuse(p, r) ==
  /\ "refuse" \in Faults
  /\ Execute(p, r, WaitingPCs, Error)
  /\ UNCHANGED <<redis, history>>

-----------------------------------------------------------------------------
(* The handlers.                                                           *)

(* Mutant: a cached owner lives as long as its session.                    *)
CacheForSession(p, t, val) == cache' = [cache EXCEPT ![p][t] = Entry(val, SessionTTL)]

SetCache(p, t, val) == cache' = [cache EXCEPT ![p][t] = Entry(val, CacheTTL)]

(* The endpoint behind ensureSessionOwner: next().                         *)
Handle(p, r, q) ==
  \/ q.op = "check"  /\ Answer(r, q, 200)
  \/ q.op = "rotate" /\ Send(p, r, q, "read.get")

(* Mutant: the comparison with x-user-id is lost.                          *)
AnyOwner(ownerId, u) == ownerId # NotFound

IsOwner(ownerId, u) == ownerId = Text(u)

(* Mutant: EXPIRE is never held back.                                      *)
NeverThrottled(p, t) == FALSE

Throttled(p, t) == throttle[p][t] # 0

(* ensureSessionOwner once it has an ownerId.                              *)
Authorise(p, r, q, ownerId) ==
  \/ /\ ownerId = NotFound
     /\ Answer(r, q, 404)
  \/ /\ ownerId # NotFound
     /\ ~IsOwner(ownerId, q.user)
     /\ Answer(r, q, 403)
  \/ /\ IsOwner(ownerId, q.user)
     /\ ~Throttled(p, q.token)
     /\ Send(p, r, q, "owner.expire")
  \/ /\ IsOwner(ownerId, q.user)
     /\ Throttled(p, q.token)
     /\ Handle(p, r, q)

Free(r) == ~Waiting(r)

(* The supply of tokens bounds the model: a request that will need a fresh *)
(* token is only taken in while one is left for it.                        *)
TokensLeft ==
  Cardinality({r \in Reqs : Waiting(r) /\ req[r].op = "rotate" /\ req[r].new = Null})
    < Cardinality(FreshTokens)

(* POST /mcp: createSession with SESSION_TTL and no scopes.                *)
CreateRequest(p, r, u) ==
  /\ Free(r) /\ TokensLeft
  /\ \E t \in FreshTokens :
       Send(p, r, [NewRequest(p, "create", u, Null) EXCEPT
                     !.new = t, !.payload = FirstPayload(u, {})], "create.set")
  /\ UNCHANGED <<redis, local, replies, known, history>>

(* A request that passes ensureSessionOwner first.  The client presents a  *)
(* token that it has been given.                                          *)
OwnerRequest(p, r, op, u, t) ==
  LET q == NewRequest(p, op, u, t)  hit == cache[p][t] IN
  /\ Free(r)
  /\ t \in known
  /\ op = "rotate" => TokensLeft
  /\ \/ hit # Absent /\ Authorise(p, r, q, hit.val)
     \/ hit = Absent /\ Send(p, r, q, "owner.get")
  /\ UNCHANGED <<redis, local, replies, known, history>>

(* The reply at the head of p's connection resumes its handler.            *)
Receive(p, r, pc) ==
  /\ replies[p] # <<>>
  /\ r = Head(replies[p])
  /\ req[r].pc = pc
  /\ req[r].res \notin {Pending, Error}
  /\ replies' = [replies EXCEPT ![p] = Tail(@)]

OwnerGot(p, r) ==
  LET q == req[r] IN
  /\ Receive(p, r, "owner.get")
  /\ \/ /\ q.res = Null
        /\ SetCache(p, q.token, NotFound)
        /\ Answer(r, q, 404)
     \/ /\ q.res # Null
        /\ SetCache(p, q.token, q.res)
        /\ Authorise(p, r, q, q.res)
  /\ UNCHANGED <<redis, throttle, known, history>>

OwnerRefreshed(p, r) ==
  /\ Receive(p, r, "owner.expire")
  /\ throttle' = [throttle EXCEPT ![p][req[r].token] = ThrottleTTL]
  /\ Handle(p, r, req[r])
  /\ UNCHANGED <<redis, cache, known, history>>

SessionCreated(p, r) ==
  /\ Receive(p, r, "create.set")
  /\ SetCache(p, req[r].new, Text(req[r].user))
  /\ known' = known \cup {req[r].new}
  /\ Answer(r, req[r], 201)
  /\ UNCHANGED <<redis, throttle, history>>

(* Mutant: the old token is burned before its successor is stored.         *)
BurnFirst(p, r, payload) ==
  \E t \in FreshTokens :
    Send(p, r, [req[r] EXCEPT !.new = t,
                  !.payload = RotatedPayload(payload, req[r].token)], "rotate.expire")

(* rotateSession: the successor of the payload that was read.              *)
StoreSuccessor(p, r, payload) ==
  \E t \in FreshTokens :
    Send(p, r, [req[r] EXCEPT !.new = t,
                  !.payload = RotatedPayload(payload, req[r].token)], "rotate.set")

(* deserializePayload returns, or throws LegacySessionError.               *)
Readable(res) == res # Null /\ ~IsUnsupported(res)

SessionRead(p, r) ==
  LET q == req[r] IN
  /\ Receive(p, r, "read.get")
  /\ \/ /\ ~Readable(q.res)
        /\ Answer(r, q, 401)
     \/ /\ Readable(q.res) /\ IsLegacy(q.res)
        /\ Send(p, r, [q EXCEPT !.payload = MigrateLegacy(q.res)], "read.ttl")
     \/ /\ Readable(q.res) /\ IsPayload(q.res)
        /\ StoreSuccessor(p, r, Deserialize(q.res))
  /\ UNCHANGED <<redis, local, known, history>>

TtlRead(p, r) ==
  LET q == req[r] IN
  /\ Receive(p, r, "read.ttl")
  /\ \/ q.res.seconds > 0  /\ Send(p, r, [q EXCEPT !.ttl = q.res.seconds], "read.set")
     \/ q.res.seconds <= 0 /\ StoreSuccessor(p, r, q.payload)
  /\ UNCHANGED <<redis, local, known, history>>

SessionMigrated(p, r) ==
  /\ Receive(p, r, "read.set")
  /\ StoreSuccessor(p, r, req[r].payload)
  /\ UNCHANGED <<redis, local, known, history>>

SuccessorStored(p, r) ==
  /\ Receive(p, r, "rotate.set")
  /\ Send(p, r, req[r], "rotate.expire")
  /\ UNCHANGED <<redis, local, known, history>>

(* Mutant: the cache entry of the old token stays.                         *)
KeepOldOwner(p, q) ==
  cache' = [cache EXCEPT ![p][q.new] = Entry(Text(q.user), CacheTTL)]

ReplaceOwner(p, q) ==
  cache' = [cache EXCEPT ![p][q.token] = Absent,
                         ![p][q.new] = Entry(Text(q.user), CacheTTL)]

RotationDone(p, r) ==
  LET q == req[r] IN
  /\ Receive(p, r, "rotate.expire")
  /\ ReplaceOwner(p, q)
  /\ known'     = known \cup {q.new}
  /\ rotatedBy' = rotatedBy \cup {<<p, q.token>>}
  /\ Answer(r, q, 200)
  /\ UNCHANGED <<redis, throttle, ledger, burned, deadFor>>

(* Mutant: a rejection nobody catches.                                     *)
FailureIgnored(p, r) ==
  /\ replies[p] # <<>>
  /\ r = Head(replies[p])
  /\ Waiting(r) /\ req[r].res = Error
  /\ replies' = [replies EXCEPT ![p] = Tail(@)]
  /\ UNCHANGED <<redis, local, wire, req, known, history>>

(* A rejected command: ensureSessionOwner and POST /mcp answer 500, the    *)
(* rotation endpoint answers 401 whatever went wrong.                      *)
CommandFailed(p, r) ==
  LET q == req[r] IN
  /\ replies[p] # <<>>
  /\ r = Head(replies[p])
  /\ Waiting(r) /\ q.res = Error
  /\ replies' = [replies EXCEPT ![p] = Tail(@)]
  /\ Answer(r, q, IF q.pc \in {"owner.get", "owner.expire", "create.set"}
                    THEN 500 ELSE 401)
  /\ UNCHANGED <<redis, local, known, history>>

-----------------------------------------------------------------------------
(* The environment.                                                        *)

Aged(e)    == IF e = Absent \/ e.ttl = 1 THEN Absent ELSE Entry(e.val, e.ttl - 1)
DeadCap    == CacheTTL + MaxLag + 1

Tick ==
  /\ \A r \in Reqs : Waiting(r) => req[r].age < MaxLag
  /\ req'      = [r \in Reqs |-> IF Waiting(r) THEN [req[r] EXCEPT !.age = @ + 1]
                                               ELSE req[r]]
  /\ redis'    = [t \in Tokens |-> Aged(redis[t])]
  /\ cache'    = [p \in Procs |-> [t \in Tokens |-> Aged(cache[p][t])]]
  /\ throttle' = [p \in Procs |-> [t \in Tokens |->
                    IF throttle[p][t] = 0 THEN 0 ELSE throttle[p][t] - 1]]
  /\ deadFor'  = [t \in Tokens |->
                    IF redis[t] = Absent /\ ledger[t] # Null /\ deadFor[t] < DeadCap
                      THEN deadFor[t] + 1 ELSE deadFor[t]]
  /\ UNCHANGED <<wire, replies, known, ledger, burned, rotatedBy>>

(* lru-cache drops its oldest entry when it is full (max 1000).            *)
EvictOwner(p, t) ==
  /\ "evict" \in Faults
  /\ cache[p][t] # Absent
  /\ cache' = [cache EXCEPT ![p][t] = Absent]
  /\ UNCHANGED <<redis, throttle, wire, replies, req, known, history>>

EvictThrottle(p, t) ==
  /\ "forget" \in Faults
  /\ throttle[p][t] # 0
  /\ throttle' = [throttle EXCEPT ![p][t] = 0]
  /\ UNCHANGED <<redis, cache, wire, replies, req, known, history>>

(* A key is deleted by an operator, or evicted by Redis.                   *)
Revoke(t) ==
  /\ "revoke" \in Faults
  /\ redis[t] # Absent
  /\ redis' = [redis EXCEPT ![t] = Absent]
  /\ UNCHANGED <<local, wire, replies, req, known, history>>

Outstanding(p) == {r \in Reqs : Waiting(r) /\ req[r].proc = p}

(* The process dies and starts again with empty caches; its clients see    *)
(* their connections reset.  Losing the connection to Redis is one way to  *)
(* die: nothing listens for the error event of redisClient.                *)
Crash(p) ==
  /\ "crash" \in Faults
  /\ req'      = [r \in Reqs |-> IF r \in Outstanding(p)
                                   THEN Done(req[r], 0) ELSE req[r]]
  /\ wire'     = [wire EXCEPT ![p] = <<>>]
  /\ replies'  = [replies EXCEPT ![p] = <<>>]
  /\ cache'    = [cache EXCEPT ![p] = [t \in Tokens |-> Absent]]
  /\ throttle' = [throttle EXCEPT ![p] = [t \in Tokens |-> 0]]
  /\ rotatedBy' = {pt \in rotatedBy : pt[1] # p}
  /\ UNCHANGED <<redis, known, ledger, burned, deadFor>>

-----------------------------------------------------------------------------
IdleRequest == NewRequest(Null, "none", Null, Null)

Init ==
  /\ \E owner \in [LegacyTokens -> UserIds], ttl \in [LegacyTokens -> 1 .. SessionTTL] :
       /\ redis  = [t \in Tokens |-> IF t \in LegacyTokens
                                       THEN Entry(Text(owner[t]), ttl[t]) ELSE Absent]
       /\ ledger = [t \in Tokens |-> IF t \in LegacyTokens
                                       THEN MigrateLegacy(Text(owner[t])) ELSE Null]
  /\ cache     = [p \in Procs |-> [t \in Tokens |-> Absent]]
  /\ throttle  = [p \in Procs |-> [t \in Tokens |-> 0]]
  /\ wire      = [p \in Procs |-> <<>>]
  /\ replies   = [p \in Procs |-> <<>>]
  /\ req       = [r \in Reqs |-> IdleRequest]
  /\ known     = LegacyTokens
  /\ burned    = {}
  /\ rotatedBy = {}
  /\ deadFor   = [t \in Tokens |-> 0]

Client(p, r) ==
  \/ \E u \in UserIds : CreateRequest(p, r, u)
  \/ \E u \in UserIds, t \in Tokens, op \in {"check", "rotate"} :
       OwnerRequest(p, r, op, u, t)

Redis(p, r) ==
  \/ RedisGet(p, r)   \/ RedisTtl(p, r)   \/ RedisRefresh(p, r)
  \/ RedisBurn(p, r)  \/ RedisStore(p, r) \/ RedisMigrate(p, r)
  \/ RedisRefuse(p, r)

Handler(p, r) ==
  \/ OwnerGot(p, r)      \/ OwnerRefreshed(p, r) \/ SessionCreated(p, r)
  \/ SessionRead(p, r)   \/ TtlRead(p, r)        \/ SessionMigrated(p, r)
  \/ SuccessorStored(p, r) \/ RotationDone(p, r) \/ CommandFailed(p, r)

Environment ==
  \/ Tick
  \/ \E t \in Tokens : Revoke(t)
  \/ \E p \in Procs : Crash(p)
  \/ \E p \in Procs, t \in Tokens : EvictOwner(p, t) \/ EvictThrottle(p, t)

Next ==
  \/ \E p \in Procs, r \in Reqs : Client(p, r) \/ Redis(p, r) \/ Handler(p, r)
  \/ Environment

Spec == Init /\ [][Next]_vars

(* Redis answers and the event loop runs; clients, the clock and faults    *)
(* owe nothing.                                                            *)
Fairness ==
  \A p \in Procs : /\ WF_vars(\E r \in Reqs : Redis(p, r))
                   /\ WF_vars(\E r \in Reqs : Handler(p, r))

FairSpec == Spec /\ Fairness

-----------------------------------------------------------------------------
(* Types of the variables.                                                 *)

LiveEntries(vals, ttl) == [val : vals, ttl : 1 .. ttl]

TypeOK ==
  /\ redis \in [Tokens -> LiveEntries(RawValues, SessionTTL) \cup {Absent}]
  /\ cache \in [Procs -> [Tokens -> LiveEntries(RawValues \cup {NotFound}, CacheTTL)
                                     \cup {Absent}]]
  /\ throttle \in [Procs -> [Tokens -> 0 .. ThrottleTTL]]
  /\ wire \in [Procs -> Seq(Reqs)]
  /\ replies \in [Procs -> Seq(Reqs)]
  /\ req \in [Reqs -> Requests]
  /\ known \subseteq Tokens
  /\ ledger \in [Tokens -> Payloads \cup {Null}]
  /\ burned \subseteq Tokens
  /\ rotatedBy \subseteq Procs \X Tokens
  /\ deadFor \in [Tokens -> 0 .. DeadCap]

(* Requests that have passed ensureSessionOwner.                           *)
Admitted(r) ==
  \/ req[r].pc \in WaitingPCs \ {"owner.get", "create.set"}
  \/ req[r].pc = "done" /\ req[r].status = 200

OwnerOf(t) == ledger[t].userId

(* The abstract state: the tokens issued, and the requests let in.         *)
serving == [r \in Reqs |-> IF Admitted(r) THEN <<req[r].user, req[r].token>> ELSE Null]

Ledger == INSTANCE SessionLedger
LedgerSpec == Ledger!Spec

(* Whatever mixture of creations, rotations and lazy migrations wrote it,  *)
(* the value Redis holds for a token reads as the payload the token was    *)
(* issued with: a write-back never changes whose session it is, nor its    *)
(* place in the lineage (readSession 85-90, rotateSession 115-123).        *)
StoredSessionsFaithful ==
  \A t \in Tokens : redis[t] # Absent =>
    ledger[t] # Null /\ Interpret(redis[t].val) = ledger[t]

(* No user is ever let into another user's session, by Redis or by the     *)
(* cache of any process: every user id cached for a token, and every       *)
(* request past ensureSessionOwner, is the owner's.  The rotation handler  *)
(* caches the header of the request, Redis the payload it read; they agree.*)
OwnerIsolation ==
  /\ \A p \in Procs, t \in Tokens, u \in UserIds :
       cache[p][t] # Absent /\ cache[p][t].val = Text(u) =>
         ledger[t] # Null /\ OwnerOf(t) = u
  /\ \A r \in Reqs : Admitted(r) =>
       ledger[req[r].token] # Null /\ OwnerOf(req[r].token) = req[r].user

(* A session that names a predecessor continues it: same owner, same       *)
(* scopes, one rotation more (rotateSession 115-122), whichever reads and  *)
(* migrations of the predecessor were in flight.                           *)
LineageConsistent ==
  \A c \in Tokens : ledger[c] # Null /\ ledger[c].rotatedFrom # NoParent =>
    LET old == ledger[ledger[c].rotatedFrom] IN
    /\ old # Null
    /\ ledger[c].userId = old.userId
    /\ ledger[c].scopes = old.scopes
    /\ ledger[c].rotationCount = old.rotationCount + 1

Successors(t) == {c \in Tokens : ledger[c] # Null /\ ledger[c].rotatedFrom = t}

(* A rotation that fails half way never burns a token without having       *)
(* stored its successor first (rotateSession 123-128).                     *)
SuccessorBeforeBurn == \A t \in burned : Successors(t) # {}

(* "Immediately invalidate old token in local LRU cache" (server.ts        *)
(* 849-851): a process that has completed the rotation of a token never    *)
(* again holds an owner for it in its cache, not even through a lookup     *)
(* that was under way during the rotation.                                 *)
NoLocalReplay ==
  \A pt \in rotatedBy : LET hit == cache[pt[1]][pt[2]] IN
    hit # Absent => \A u \in UserIds : hit.val # Text(u)

(* "Fast propagation" of revocations (server.ts 407): once a key is gone   *)
(* from Redis, the time a process still honours the cached owner is what   *)
(* is left of CacheTTL since it vanished, plus the time a lookup may have  *)
(* been on its way.                                                        *)
RevocationPropagates ==
  \A p \in Procs, t \in Tokens, u \in UserIds :
    cache[p][t] # Absent /\ cache[p][t].val = Text(u) /\ redis[t] = Absent =>
      cache[p][t].ttl + deadFor[t] <= CacheTTL + MaxLag

(* The sliding session (server.ts 771-780): while the throttle of some     *)
(* process holds back EXPIRE for a token that was not rotated, the key is  *)
(* there and has all but the throttled time of SESSION_TTL left.           *)
SlidingExpiry ==
  \A p \in Procs, t \in Tokens : throttle[p][t] > 0 /\ t \notin burned =>
    /\ redis[t] # Absent
    /\ redis[t].ttl >= SessionTTL - (ThrottleTTL - throttle[p][t]) - MaxLag

Ttl(t) == IF redis[t] = Absent THEN 0 ELSE redis[t].ttl

BurnedAgain(t) == \E p \in Procs, r \in Reqs : RedisBurn(p, r) /\ req[r].token = t

(* "Rotates the current session token to a fresh one and burns the old     *)
(* one" (server.ts 825): after a rotation has put a token on its grace     *)
(* period nothing gives it more time, unless another rotation of it, which *)
(* was under way already, starts the grace period again.                   *)
BurnIsFinal ==
  [][\A t \in burned : Ttl(t)' <= Ttl(t) \/ BurnedAgain(t)]_vars

ForbiddenOwner(r) ==
  /\ req[r].pc = "done" /\ req[r].status = 403
  /\ OwnerOf(req[r].token) = req[r].user
  /\ redis[req[r].token] # Absent

(* The owner of a live session is not answered 403.                        *)
OwnerNotForbidden == \A r \in Reqs : ~ForbiddenOwner(r)

(* Every request is answered, also when commands are rejected.             *)
EveryRequestAnswered == \A r \in Reqs : Waiting(r) ~> ~Waiting(r)
=============================================================================
