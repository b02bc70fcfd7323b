------------------------------ MODULE ShareLinks ------------------------------
(***************************************************************************)
(* The file sharing service: routes/share.py, share_service.py, models.py, *)
(* auth.py and telemetry_notifier.py.                                      *)
(*                                                                         *)
(* The endpoints are plain functions, which FastAPI runs on threads of a   *)
(* pool; each request has a database session of its own.  A request reads  *)
(* the row of a link, decides in Python on what it read, and writes in a   *)
(* later statement: SQLite makes each statement atomic, never the pair.    *)
(* A request stands for one use of a slot: it begins once, and its answer  *)
(* is kept.                                                                *)
(***************************************************************************)
EXTENDS Integers, FiniteSets

CONSTANTS
  Request,      \* the requests of a behaviour
  Token,        \* the share tokens secrets.token_urlsafe may produce
  NoLink,       \* what a query for an unknown token returns
  Limits,       \* the max_views a caller may ask for, Unlimited among them
  Lifetimes,    \* the expire_hours a caller may ask for
  Horizon,      \* bound: the last instant of the clock
  Threads,      \* how many requests the pool serves at once
  MayCrash      \* whether the process may be killed and started again

Unlimited == -1

ASSUME LinkAssumption ==
  /\ Limits \subseteq Int
  /\ Lifetimes \subseteq Int
  /\ Horizon \in Nat
  /\ Threads \in Nat \ {0}
  /\ MayCrash \in BOOLEAN

VARIABLES
  link,     \* the table shared_files: [Token -> row or NoLink]
  now,      \* datetime.now(timezone.utc)
  req,      \* the requests, each with the local variables of its handler
  events    \* TelemetryNotifier.dispatched_events, as the requests that put them there

vars == <<link, now, req, events>>

Row == [active: BOOLEAN, views: Int, limit: Int, expires: Int]
Ops == {"create", "access", "revoke"}
Steps == {"idle", "begin", "insert", "judge", "count", "unset", "refresh",
          "send", "notify", "done", "killed"}
NoAnswer == 0
Lost == 1     \* the connection broke before an answer
Answers == {NoAnswer, Lost, 200, 201, 401, 403, 404, 500}

Table == [Token -> Row \cup {NoLink}]
Requests == [op: Ops, token: Token \cup {NoLink}, step: Steps, seen: Row \cup {NoLink},
             answer: Answers, late: BOOLEAN, alone: BOOLEAN]

ASSUME NoLinkAssumption == NoLink \notin Row

NewRequest == [op |-> "access", token |-> NoLink, step |-> "idle", seen |-> NoLink,
               answer |-> NoAnswer, late |-> FALSE, alone |-> TRUE]

(* Mutant: the limit itself is still below the limit. *)
IsValidOnce(row, t) ==
  /\ row.active
  /\ t <= row.expires
  /\ row.limit = Unlimited \/ row.views <= row.limit

(* models.py:33-46.  The clock is read after the row was. *)
IsValid(row, t) ==
  /\ row.active
  /\ t <= row.expires
  /\ row.limit = Unlimited \/ row.views < row.limit

Init ==
  /\ link = [t \in Token |-> NoLink]
  /\ now = 0
  /\ req = [r \in Request |-> NewRequest]
  /\ events = {}

-----------------------------------------------------------------------------
Running == {r \in Request : req[r].step \notin {"idle", "done", "killed"}}

(* Revoked(t): the revocation of t is committed. *)
Revoked(t) == link[t] # NoLink /\ ~link[t].active

Become(r, q) == req' = [req EXCEPT ![r] = q]
Answer(r, status) ==
  Become(r, [req[r] EXCEPT !.step = "done", !.seen = NoLink, !.answer = status])
Goto(r, step) == Become(r, [req[r] EXCEPT !.step = step])
Keep(r, step, row) == Become(r, [req[r] EXCEPT !.step = step, !.seen = row])

(* A token no link has and no running request is about to give to one. *)
Fresh(t) == link[t] = NoLink /\ \A r \in Running : req[r].op = "create" => req[r].token # t

(* A request arrives; a create is given here the random token it will draw.
   "late" remembers that the link was already revoked, "alone" that no other request
   was running. *)
Begin(r) ==
  /\ req[r].step = "idle"
  /\ Cardinality(Running) < Threads
  /\ \E op \in Ops, t \in Token :
       /\ op = "create" => Fresh(t)
       /\ Become(r, [op |-> op, token |-> t, step |-> "begin", seen |-> NoLink,
                     answer |-> NoAnswer, late |-> Revoked(t), alone |-> Running = {}])
  /\ UNCHANGED <<link, now, events>>

(* auth.verify_api_key, a dependency of create and revoke, not of access:
   no key is a 401, another key a 403. *)
Unauthorised(r) ==
  /\ req[r].step = "begin"
  /\ req[r].op # "access"
  /\ \E status \in {401, 403} : Answer(r, status)
  /\ UNCHANGED <<link, now, events>>

(* create_share_link up to db.add: the file exists or the request is refused, then
   the expiry is computed from the clock. *)
PrepareLink(r) ==
  /\ req[r].step = "begin"
  /\ req[r].op = "create"
  /\ \/ Answer(r, 404)
     \/ \E n \in Limits, h \in Lifetimes :
          Keep(r, "insert", [active |-> TRUE, views |-> 0, limit |-> n, expires |-> now + h])
  /\ UNCHANGED <<link, now, events>>

(* db.commit of the new row; share_token is unique and random. *)
InsertLink(r) ==
  /\ req[r].step = "insert"
  /\ link' = [link EXCEPT ![req[r].token] = req[r].seen]
  /\ Goto(r, "refresh")
  /\ UNCHANGED <<now, events>>

(* The query of access and of revoke.  An unknown token is a 403 of the one and
   a 404 of the other. *)
Select(r) ==
  /\ req[r].step = "begin"
  /\ req[r].op # "create"
  /\ LET row == link[req[r].token] IN
     IF row = NoLink
     THEN Answer(r, IF req[r].op = "access" THEN 403 ELSE 404)
     ELSE Keep(r, IF req[r].op = "access" THEN "judge" ELSE "unset", row)
  /\ UNCHANGED <<link, now, events>>

(* Mutant: the active flag is looked at only by the query's caller. *)
JudgeActive(r) ==
  /\ req[r].step = "judge"
  /\ IF IsValid([req[r].seen EXCEPT !.active = TRUE], now)
     THEN Goto(r, "count")
     ELSE Answer(r, 403)
  /\ UNCHANGED <<link, now, events>>

(* validate_and_record_access: is_valid on the row that was read. *)
Judge(r) ==
  /\ req[r].step = "judge"
  /\ IF IsValid(req[r].seen, now) THEN Goto(r, "count") ELSE Answer(r, 403)
  /\ UNCHANGED <<link, now, events>>

(* Mutant: the UPDATE writes every column of the row that was read. *)
CountWholeRow(r) ==
  /\ req[r].step = "count"
  /\ link' = [link EXCEPT ![req[r].token] = [req[r].seen EXCEPT !.views = @ + 1]]
  /\ Goto(r, "refresh")
  /\ UNCHANGED <<now, events>>

(* Mutant: the commit is forgotten. *)
CountUncommitted(r) ==
  /\ req[r].step = "count"
  /\ Goto(r, "refresh")
  /\ UNCHANGED <<link, now, events>>

(* views_count += 1; db.commit().  The UPDATE sets the one column that changed,
   to the value computed from the row that was read. *)
Count(r) ==
  /\ req[r].step = "count"
  /\ link' = [link EXCEPT ![req[r].token].views = req[r].seen.views + 1]
  /\ Goto(r, "refresh")
  /\ UNCHANGED <<now, events>>

(* revoke_share_link after its query: is_active = False; db.commit().  No UPDATE
   is sent for a column that keeps its value. *)
Unset(r) ==
  /\ req[r].step = "unset"
  /\ link' = IF req[r].seen.active
             THEN [link EXCEPT ![req[r].token].active = FALSE]
             ELSE link
  /\ Goto(r, "refresh")
  /\ UNCHANGED <<now, events>>

(* db.refresh reads the row again; the event of the request is built from it. *)
Refresh(r) ==
  /\ req[r].step = "refresh"
  /\ Keep(r, "send", link[req[r].token])
  /\ UNCHANGED <<link, now, events>>

(* The response.  FileResponse looks for the file only now: when it has gone in the
   meantime the response fails, and the background task with it. *)
Send(r) ==
  /\ req[r].step = "send"
  /\ \/ Become(r, [req[r] EXCEPT !.step = "notify",
                     !.answer = IF req[r].op = "create" THEN 201 ELSE 200])
     \/ req[r].op = "access" /\ Answer(r, 500)
  /\ UNCHANGED <<link, now, events>>

(* TelemetryNotifier.dispatch_alert, run as a background task after the response. *)
Notify(r) ==
  /\ req[r].step = "notify"
  /\ events' = events \cup {r}
  /\ Answer(r, req[r].answer)
  /\ UNCHANGED <<link, now>>

(* Any statement may give up on a locked database: a 500, and the session is
   closed.  What an earlier statement committed stays. *)
Locked(r) ==
  /\ \/ req[r].step = "begin" /\ req[r].op # "create"
     \/ req[r].step \in {"insert", "count", "refresh"}
     \/ req[r].step = "unset" /\ req[r].seen.active
  /\ Answer(r, 500)
  /\ UNCHANGED <<link, now, events>>

Handle(r) ==
  \/ Unauthorised(r) \/ PrepareLink(r) \/ InsertLink(r) \/ Select(r) \/ Judge(r)
  \/ Count(r) \/ Unset(r) \/ Refresh(r) \/ Send(r) \/ Notify(r) \/ Locked(r)

(* The process is killed and started again: the table stays, the requests and
   the recorded events are gone. *)
Crash ==
  /\ MayCrash
  /\ req' = [r \in Request |->
               IF r \in Running
               THEN [req[r] EXCEPT !.step = "killed", !.seen = NoLink,
                       !.answer = IF req[r].step = "notify" THEN @ ELSE Lost]
               ELSE req[r]]
  /\ events' = {}
  /\ UNCHANGED <<link, now>>

Tick == now < Horizon /\ now' = now + 1 /\ UNCHANGED <<link, req, events>>

Next ==
  \/ \E r \in Request : Begin(r) \/ Handle(r)
  \/ Crash
  \/ Tick

Spec == Init /\ [][Next]_vars

-----------------------------------------------------------------------------
TypeOK ==
  /\ link \in Table
  /\ now \in 0..Horizon
  /\ req \in [Request -> Requests]
  /\ events \subseteq Request

Served(t) == {r \in Request : req[r].op = "access" /\ req[r].token = t /\ req[r].answer = 200}

(* The recorded views of a link never pass its limit, whatever requests overlap:
   each writer adds one to a count that was below the limit when it was read. *)
CounterWithinLimit ==
  \A t \in Token : link[t] # NoLink /\ link[t].limit >= 0 => link[t].views <= link[t].limit

(* A link serves its file at most max_views times: models.py:34, is_valid "within
   view limits", and the third access of tests/test_share_system.py. *)
ServedWithinLimit ==
  \A t \in Token :
    link[t] # NoLink /\ link[t].limit # Unlimited =>
      Cardinality(Served(t)) <= (IF link[t].limit > 0 THEN link[t].limit ELSE 0)

Sequential == \A r \in Request : req[r].alone

(* As long as no two requests overlapped, no view is served that was not counted first,
   and with CounterWithinLimit a link then serves no more than its limit, even if the
   database is locked, the file is gone or the process is killed between any two
   statements. *)
EveryViewCounted ==
  Sequential =>
    \A t \in Token : link[t] # NoLink => Cardinality(Served(t)) <= link[t].views

(* A link that was already revoked when a request arrived is not served to it,
   though other requests may be between their query and their update. *)
RevokedBeforeIsRefused ==
  \A r \in Request : req[r].op = "access" /\ req[r].late => req[r].answer # 200

(* Revocation is final: an access that read the row before it was revoked does
   not make the link active again when it writes its count. *)
RevocationIsFinal ==
  [][\A t \in Token : Revoked(t) => Revoked(t)']_vars
=============================================================================
