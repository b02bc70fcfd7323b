--------------------------- MODULE ShareLinksProofs ---------------------------
(***************************************************************************)
(* Theorems about ShareLinks, for any requests, tokens, limits, lifetimes  *)
(* and number of threads, with or without crashes.                         *)
(***************************************************************************)
EXTENDS ShareLinks, FiniteSetTheorems, TLAPS

(* What a handler holds, by the step it is at.                             *)
Shape(q) ==
  /\ q.step # "idle" => q.token \in Token
  /\ q.step = "insert" => q.op = "create" /\ q.seen \in Row /\ q.seen.views = 0
  /\ q.step \in {"judge", "count"} => q.op = "access" /\ q.seen \in Row
  /\ q.step = "unset" => q.op = "revoke" /\ q.seen \in Row

(* How what it holds relates to the table.                                 *)
Follows(q, table) ==
  /\ q.step \in {"judge", "count", "unset", "refresh"} => table[q.token] # NoLink
  /\ q.step \in {"judge", "count"} => q.seen.limit = table[q.token].limit
  /\ q.step = "count" => (q.seen.limit >= 0 => q.seen.views < q.seen.limit)
  /\ q.op = "access" /\ q.late =>
       /\ q.token \in Token
       /\ table[q.token] # NoLink /\ ~table[q.token].active
       /\ q.step \in {"begin", "judge", "done", "killed"}
       /\ q.step = "judge" => ~q.seen.active
       /\ q.answer # 200

(* A running create owns the token it has drawn.                           *)
Claims(q) == q.op = "create" /\ q.step \in {"begin", "insert"}

WithinLimit(row) == row # NoLink /\ row.limit >= 0 => row.views <= row.limit

(* What any statement may do to a row that exists.                         *)
Grows(old, new) ==
  \A t \in Token : old[t] # NoLink =>
    /\ new[t] # NoLink
    /\ new[t].limit = old[t].limit
    /\ ~old[t].active => ~new[t].active

Owned == \A r \in Request : Claims(req[r]) => link[req[r].token] = NoLink
Distinct ==
  \A r1, r2 \in Request :
    Claims(req[r1]) /\ Claims(req[r2]) /\ r1 # r2 => req[r1].token # req[r2].token

LinkInv ==
  /\ TypeOK
  /\ \A r \in Request : Shape(req[r]) /\ Follows(req[r], link)
  /\ \A t \in Token : WithinLimit(link[t])
  /\ Owned
  /\ Distinct

-----------------------------------------------------------------------------
LEMMA FollowsGrown ==
  ASSUME NEW q \in Requests, NEW old, NEW new, Shape(q), Follows(q, old), Grows(old, new)
  PROVE  Follows(q, new)
BY DEF Shape, Follows, Grows, Requests, Steps

LEMMA GrowsReflexive == ASSUME NEW table PROVE Grows(table, table)
BY DEF Grows

(* One handler moves on: it is enough to look at its own record and at the *)
(* rows it wrote.                                                          *)
LEMMA Advance ==
  ASSUME LinkInv, NEW r \in Request, NEW q \in Requests,
         Become(r, q),
         link' \in Table, now' \in 0..Horizon, events' \subseteq Request,
         Grows(link, link'),
         \A t \in Token : WithinLimit(link'[t]),
         \A t \in Token : link[t] = NoLink /\ link'[t] # NoLink =>
           Claims(req[r]) /\ req[r].token = t,
         Shape(q), Follows(q, link'),
         Claims(q) => /\ link'[q.token] = NoLink
                      /\ \A o \in Request \ {r} : Claims(req[o]) => req[o].token # q.token
  PROVE  LinkInv'
<1>1. req' = [o \in Request |-> IF o = r THEN q ELSE req[o]]
  BY DEF LinkInv, TypeOK, Become
<1>2. TypeOK'
  BY <1>1 DEF LinkInv, TypeOK
<1>3. ASSUME NEW o \in Request PROVE Shape(req'[o]) /\ Follows(req'[o], link')
  <2>1. CASE o = r
    BY <1>1, <2>1
  <2>2. CASE o # r
    <3>1. req'[o] = req[o] /\ req[o] \in Requests
      BY <1>1, <2>2 DEF LinkInv, TypeOK
    <3>2. Shape(req[o]) /\ Follows(req[o], link)
      BY DEF LinkInv
    <3> QED
      BY <3>1, <3>2, FollowsGrown
  <2> QED
    BY <2>1, <2>2
<1>4. Owned'
  <2> SUFFICES ASSUME NEW o \in Request, Claims(req'[o])
               PROVE  link'[req'[o].token] = NoLink
    BY DEF Owned
  <2>1. CASE o = r
    BY <1>1, <2>1
  <2>2. CASE o # r
    <3>1. req'[o] = req[o] /\ Claims(req[o]) /\ req[o].token \in Token
      BY <1>1, <2>2 DEF LinkInv, Shape, Claims
    <3>2. link[req[o].token] = NoLink
      BY <3>1 DEF LinkInv, Owned
    <3>3. Claims(req[r]) => req[r].token # req[o].token
      BY <3>1, <2>2 DEF LinkInv, Distinct
    <3> QED
      BY <3>1, <3>2, <3>3
  <2> QED
    BY <2>1, <2>2
<1>5. Distinct'
  <2> SUFFICES ASSUME NEW r1 \in Request, NEW r2 \in Request,
                      Claims(req'[r1]), Claims(req'[r2]), r1 # r2
               PROVE  req'[r1].token # req'[r2].token
    BY DEF Distinct
  <2>1. CASE r1 # r /\ r2 # r
    BY <1>1, <2>1 DEF LinkInv, Distinct
  <2>2. CASE r1 = r
    BY <1>1, <2>2
  <2>3. CASE r2 = r
    BY <1>1, <2>3
  <2> QED
    BY <2>1, <2>2, <2>3
<1> QED
  BY <1>2, <1>3, <1>4, <1>5 DEF LinkInv

(* The steps that leave the table alone.                                   *)
LEMMA AdvanceSame ==
  ASSUME LinkInv, NEW r \in Request, NEW q \in Requests,
         Become(r, q), UNCHANGED <<link, now>>, events' \subseteq Request,
         Shape(q), Follows(q, link),
         Claims(q) => Claims(req[r]) /\ q.token = req[r].token
  PROVE  LinkInv'
<1>1. /\ link' \in Table
      /\ now' \in 0..Horizon
      /\ Grows(link, link')
      /\ \A t \in Token : WithinLimit(link'[t])
  BY GrowsReflexive DEF LinkInv, TypeOK
<1>2. ASSUME Claims(q)
      PROVE  /\ link'[q.token] = NoLink
             /\ \A o \in Request \ {r} : Claims(req[o]) => req[o].token # q.token
  BY <1>2 DEF LinkInv, Owned, Distinct
<1> QED
  BY <1>1, <1>2, Advance

(* A request that is answered holds nothing any more.                      *)
LEMMA Answering ==
  ASSUME LinkInv, NEW r \in Request, NEW status \in Answers,
         req[r].step # "idle", Answer(r, status), UNCHANGED <<link, now>>,
         events' \subseteq Request,
         req[r].op = "access" /\ req[r].late => status # 200
  PROVE  LinkInv'
<1> DEFINE q == [req[r] EXCEPT !.step = "done", !.seen = NoLink, !.answer = status]
<1>1. req[r] \in Requests /\ Shape(req[r]) /\ Follows(req[r], link)
  BY DEF LinkInv, TypeOK
<1>2. /\ q \in Requests
      /\ q.step = "done" /\ q.answer = status /\ q.op = req[r].op
      /\ q.token = req[r].token /\ q.late = req[r].late
  BY <1>1 DEF Requests, Steps
<1>3. Become(r, q)
  BY DEF Answer
<1> HIDE DEF q
<1>4. Shape(q) /\ Follows(q, link) /\ ~Claims(q)
  BY <1>1, <1>2 DEF Shape, Follows, Claims
<1> QED
  BY <1>2, <1>3, <1>4, AdvanceSame

(* The handler's next step, with what it holds left alone.                 *)
LEMMA Moved ==
  ASSUME LinkInv, NEW r \in Request, NEW step \in Steps,
         Goto(r, step)
  PROVE  \E q \in Requests :
           /\ Become(r, q)
           /\ q.step = step
           /\ q.op = req[r].op /\ q.token = req[r].token /\ q.seen = req[r].seen
           /\ q.answer = req[r].answer /\ q.late = req[r].late /\ q.alone = req[r].alone
<1> DEFINE q == [req[r] EXCEPT !.step = step]
<1>1. req[r] \in Requests
  BY DEF LinkInv, TypeOK
<1>2. /\ q \in Requests
      /\ q.step = step
      /\ q.op = req[r].op /\ q.token = req[r].token /\ q.seen = req[r].seen
      /\ q.answer = req[r].answer /\ q.late = req[r].late /\ q.alone = req[r].alone
  BY <1>1 DEF Requests
<1>3. Become(r, q)
  BY DEF Goto
<1> QED
  BY <1>2, <1>3

(* The handler's next step with a row it has just read or built.           *)
LEMMA Kept ==
  ASSUME LinkInv, NEW r \in Request, NEW step \in Steps, NEW row \in Row \cup {NoLink},
         Keep(r, step, row)
  PROVE  \E q \in Requests :
           /\ Become(r, q)
           /\ q.step = step /\ q.seen = row
           /\ q.op = req[r].op /\ q.token = req[r].token
           /\ q.answer = req[r].answer /\ q.late = req[r].late /\ q.alone = req[r].alone
<1> DEFINE q == [req[r] EXCEPT !.step = step, !.seen = row]
<1>1. req[r] \in Requests
  BY DEF LinkInv, TypeOK
<1>2. /\ q \in Requests
      /\ q.step = step /\ q.seen = row
      /\ q.op = req[r].op /\ q.token = req[r].token
      /\ q.answer = req[r].answer /\ q.late = req[r].late /\ q.alone = req[r].alone
  BY <1>1 DEF Requests
<1>3. Become(r, q)
  BY DEF Keep
<1> QED
  BY <1>2, <1>3

-----------------------------------------------------------------------------
LEMMA InitInv == Init => LinkInv
<1> SUFFICES ASSUME Init PROVE LinkInv
  OBVIOUS
<1>1. NewRequest \in Requests /\ NewRequest.step = "idle" /\ NewRequest.op = "access"
      /\ ~NewRequest.late
  BY DEF NewRequest, Requests, Ops, Steps, Answers, NoAnswer
<1>2. \A r \in Request : req[r] = NewRequest
  BY DEF Init
<1>3. TypeOK
  BY <1>1, LinkAssumption DEF Init, TypeOK, Table
<1>4. \A r \in Request : Shape(req[r]) /\ Follows(req[r], link) /\ ~Claims(req[r])
  BY <1>1, <1>2 DEF Shape, Follows, Claims
<1>5. \A t \in Token : WithinLimit(link[t])
  BY DEF Init, WithinLimit
<1> QED
  BY <1>3, <1>4, <1>5 DEF LinkInv, Owned, Distinct

LEMMA BeginInv ==
  ASSUME LinkInv, NEW r \in Request, Begin(r)
  PROVE  LinkInv'
<1>1. PICK op \in Ops, t \in Token :
        /\ op = "create" => Fresh(t)
        /\ Become(r, [op |-> op, token |-> t, step |-> "begin", seen |-> NoLink,
                      answer |-> NoAnswer, late |-> Revoked(t), alone |-> Running = {}])
  BY DEF Begin
<1> DEFINE alone == Running = {}
           q == [op |-> op, token |-> t, step |-> "begin", seen |-> NoLink,
                 answer |-> NoAnswer, late |-> Revoked(t), alone |-> alone]
<1>2. Revoked(t) \in BOOLEAN /\ alone \in BOOLEAN
  BY DEF Revoked, LinkInv, TypeOK, Table, Row
<1>3. /\ q \in Requests
      /\ q.op = op /\ q.token = t /\ q.step = "begin" /\ q.late = Revoked(t)
      /\ q.answer = NoAnswer
  <2> HIDE DEF alone
  <2>1. "begin" \in Steps /\ NoAnswer \in Answers
    BY DEF Steps, Answers, NoAnswer
  <2>2. q \in Requests
    BY <1>2, <2>1 DEF Requests
  <2> QED
    BY <2>2
<1>4. Become(r, q)
  BY <1>1
<1> HIDE DEF q
<1>5. Shape(q) /\ Follows(q, link)
  <2>1. q.late => link[t] # NoLink /\ ~link[t].active
    BY <1>3 DEF Revoked
  <2> QED
    BY <1>3, <2>1 DEF Shape, Follows, NoAnswer
<1>6. ASSUME Claims(q)
      PROVE  /\ link[q.token] = NoLink
             /\ \A o \in Request \ {r} : Claims(req[o]) => req[o].token # q.token
  <2>1. Fresh(t)
    BY <1>1, <1>3, <1>6 DEF Claims
  <2> QED
    BY <2>1, <1>3 DEF Fresh, Running, Claims
<1>7. /\ UNCHANGED <<link, now, events>>
      /\ link' \in Table /\ now' \in 0..Horizon /\ events' \subseteq Request
      /\ Grows(link, link')
      /\ \A x \in Token : WithinLimit(link'[x])
  BY GrowsReflexive DEF Begin, LinkInv, TypeOK
<1> QED
  BY <1>3, <1>4, <1>5, <1>6, <1>7, Advance

LEMMA PrepareInv ==
  ASSUME LinkInv, NEW r \in Request, PrepareLink(r)
  PROVE  LinkInv'
<1>1. /\ UNCHANGED <<link, now, events>>
      /\ events' \subseteq Request
      /\ req[r].step = "begin" /\ req[r].op = "create"
      /\ Shape(req[r])
  BY DEF PrepareLink, LinkInv, TypeOK
<1>2. CASE Answer(r, 404)
  BY <1>1, <1>2, Answering DEF Answers
<1>3. ASSUME NEW n \in Limits, NEW h \in Lifetimes,
             Keep(r, "insert", [active |-> TRUE, views |-> 0, limit |-> n, expires |-> now + h])
      PROVE  LinkInv'
  <2> DEFINE row == [active |-> TRUE, views |-> 0, limit |-> n, expires |-> now + h]
  <2>1. row \in Row /\ row.views = 0
    BY LinkAssumption DEF Row, LinkInv, TypeOK
  <2>2. Keep(r, "insert", row)
    BY <1>3
  <2> HIDE DEF row
  <2>3. PICK q \in Requests :
          /\ Become(r, q)
          /\ q.step = "insert" /\ q.seen = row
          /\ q.op = req[r].op /\ q.token = req[r].token
          /\ q.answer = req[r].answer /\ q.late = req[r].late /\ q.alone = req[r].alone
    BY <2>1, <2>2, Kept DEF Steps
  <2>4. Shape(q) /\ Follows(q, link)
    BY <1>1, <2>1, <2>3 DEF Shape, Follows
  <2>5. Claims(req[r])
    BY <1>1 DEF Claims
  <2> QED
    BY <1>1, <2>3, <2>4, <2>5, AdvanceSame
<1> QED
  BY <1>2, <1>3 DEF PrepareLink

LEMMA InsertInv ==
  ASSUME LinkInv, NEW r \in Request, InsertLink(r)
  PROVE  LinkInv' /\ Grows(link, link')
<1>1. /\ req[r].step = "insert" /\ req[r].op = "create"
      /\ req[r].token \in Token /\ req[r].seen \in Row /\ req[r].seen.views = 0
      /\ link[req[r].token] = NoLink
  BY DEF InsertLink, LinkInv, Shape, Owned, Claims
<1>2. /\ link' = [link EXCEPT ![req[r].token] = req[r].seen]
      /\ link \in Table
      /\ UNCHANGED <<now, events>>
      /\ now' \in 0..Horizon /\ events' \subseteq Request
  BY DEF InsertLink, LinkInv, TypeOK
<1>3. link' \in Table /\ link'[req[r].token] = req[r].seen
      /\ \A t \in Token : t # req[r].token => link'[t] = link[t]
  BY <1>1, <1>2 DEF Table
<1>4. Grows(link, link')
  BY <1>1, <1>3 DEF Grows
<1>5. \A t \in Token : WithinLimit(link'[t])
  BY <1>1, <1>3 DEF LinkInv, WithinLimit, Row
<1>6. PICK q \in Requests :
        /\ Become(r, q)
        /\ q.step = "refresh"
        /\ q.op = req[r].op /\ q.token = req[r].token /\ q.seen = req[r].seen
        /\ q.answer = req[r].answer /\ q.late = req[r].late /\ q.alone = req[r].alone
  BY Moved DEF InsertLink, Steps
<1>7. Shape(q) /\ Follows(q, link') /\ ~Claims(q)
  BY <1>1, <1>3, <1>6, NoLinkAssumption DEF Shape, Follows, Claims
<1>8. Claims(req[r])
  BY <1>1 DEF Claims
<1>9. \A t \in Token : link[t] = NoLink /\ link'[t] # NoLink =>
        Claims(req[r]) /\ req[r].token = t
  BY <1>3, <1>8
<1>10. LinkInv'
  BY <1>2, <1>3, <1>4, <1>5, <1>6, <1>7, <1>9, Advance
<1> QED
  BY <1>4, <1>10

LEMMA SelectInv ==
  ASSUME LinkInv, NEW r \in Request, Select(r)
  PROVE  LinkInv'
<1>1. /\ UNCHANGED <<link, now, events>> /\ UNCHANGED <<link, now>>
      /\ events' \subseteq Request
      /\ req[r].step = "begin" /\ req[r].op # "create"
      /\ req[r] \in Requests /\ Shape(req[r]) /\ Follows(req[r], link)
      /\ req[r].token \in Token
  BY DEF Select, LinkInv, TypeOK, Shape
<1> DEFINE row == link[req[r].token]
<1>2. row \in Row \cup {NoLink}
  BY <1>1 DEF LinkInv, TypeOK, Table
<1>3. CASE row = NoLink
  BY <1>1, <1>3, Answering DEF Select, Answers
<1>4. CASE row # NoLink
  <2>1. CASE req[r].op = "access"
    <3>1. PICK q \in Requests :
            /\ Become(r, q)
            /\ q.step = "judge" /\ q.seen = row
            /\ q.op = req[r].op /\ q.token = req[r].token
            /\ q.answer = req[r].answer /\ q.late = req[r].late /\ q.alone = req[r].alone
      BY <1>2, <1>4, <2>1, Kept DEF Select, Steps
    <3>2. Shape(q) /\ Follows(q, link) /\ ~Claims(q)
      BY <1>1, <1>2, <1>4, <2>1, <3>1 DEF Shape, Follows, Claims
    <3> QED
      BY <1>1, <3>1, <3>2, AdvanceSame
  <2>2. CASE req[r].op # "access"
    <3>1. PICK q \in Requests :
            /\ Become(r, q)
            /\ q.step = "unset" /\ q.seen = row
            /\ q.op = req[r].op /\ q.token = req[r].token
            /\ q.answer = req[r].answer /\ q.late = req[r].late /\ q.alone = req[r].alone
      BY <1>2, <1>4, <2>2, Kept DEF Select, Steps
    <3>2. req[r].op = "revoke"
      BY <1>1, <2>2 DEF Requests, Ops
    <3>3. Shape(q) /\ Follows(q, link) /\ ~Claims(q)
      BY <1>1, <1>2, <1>4, <3>1, <3>2 DEF Shape, Follows, Claims
    <3> QED
      BY <1>1, <3>1, <3>3, AdvanceSame
  <2> QED
    BY <2>1, <2>2
<1> QED
  BY <1>3, <1>4

LEMMA JudgeInv ==
  ASSUME LinkInv, NEW r \in Request, Judge(r)
  PROVE  LinkInv'
<1>1. /\ UNCHANGED <<link, now, events>> /\ UNCHANGED <<link, now>>
      /\ events' \subseteq Request
      /\ req[r].step = "judge" /\ req[r].op = "access" /\ req[r].seen \in Row
      /\ Shape(req[r]) /\ Follows(req[r], link)
  BY DEF Judge, LinkInv, TypeOK, Shape
<1>2. CASE Answer(r, 403)
  BY <1>1, <1>2, Answering DEF Answers
<1>3. CASE IsValid(req[r].seen, now) /\ Goto(r, "count")
  <2>1. PICK q \in Requests :
          /\ Become(r, q)
          /\ q.step = "count"
          /\ q.op = req[r].op /\ q.token = req[r].token /\ q.seen = req[r].seen
          /\ q.answer = req[r].answer /\ q.late = req[r].late /\ q.alone = req[r].alone
    BY <1>3, Moved DEF Steps
  <2>2. req[r].seen.active /\ (req[r].seen.limit >= 0 => req[r].seen.views < req[r].seen.limit)
    BY <1>1, <1>3 DEF IsValid, Unlimited, Row
  <2>3. ~req[r].late
    BY <1>1, <2>2 DEF Follows
  <2>4. Shape(q) /\ Follows(q, link) /\ ~Claims(q)
    BY <1>1, <2>1, <2>2, <2>3 DEF Shape, Follows, Claims
  <2> QED
    BY <1>1, <2>1, <2>4, AdvanceSame
<1> QED
  BY <1>2, <1>3 DEF Judge

LEMMA CountInv ==
  ASSUME LinkInv, NEW r \in Request, Count(r)
  PROVE  LinkInv' /\ Grows(link, link')
<1>1. /\ req[r].step = "count" /\ req[r].op = "access"
      /\ req[r].token \in Token /\ req[r].seen \in Row
      /\ Shape(req[r]) /\ Follows(req[r], link)
  BY DEF Count, LinkInv, Shape
<1> DEFINE t == req[r].token
           row == link[t]
           n == req[r].seen.views + 1
<1>2. /\ link[t] \in Row /\ n \in Int
      /\ link[t] # NoLink
      /\ link[t].limit \in Int
      /\ link[t].limit >= 0 => n <= link[t].limit
  BY <1>1 DEF Follows, LinkInv, TypeOK, Table, Row
<1> DEFINE new == [link[t] EXCEPT !.views = n]
<1>3. new \in Row /\ new.limit = link[t].limit /\ new.active = link[t].active /\ new.views = n
  BY <1>2 DEF Row
<1>4. /\ link' = [link EXCEPT ![t] = new]
      /\ link \in Table
      /\ UNCHANGED <<now, events>>
      /\ now' \in 0..Horizon /\ events' \subseteq Request
  BY DEF Count, LinkInv, TypeOK
<1> HIDE DEF new, n
<1>5. link' \in Table /\ link'[t] = new
      /\ \A x \in Token : x # t => link'[x] = link[x]
  BY <1>1, <1>3, <1>4 DEF Table
<1>6. new # NoLink
  BY <1>3, NoLinkAssumption
<1>7. Grows(link, link')
  BY <1>1, <1>2, <1>3, <1>5, <1>6 DEF Grows
<1>8. \A x \in Token : WithinLimit(link'[x])
  BY <1>1, <1>2, <1>3, <1>5 DEF LinkInv, WithinLimit
<1>9. PICK q \in Requests :
        /\ Become(r, q)
        /\ q.step = "refresh"
        /\ q.op = req[r].op /\ q.token = req[r].token /\ q.seen = req[r].seen
        /\ q.answer = req[r].answer /\ q.late = req[r].late /\ q.alone = req[r].alone
  BY Moved DEF Count, Steps
<1>10. Shape(q) /\ Follows(q, link') /\ ~Claims(q)
  BY <1>1, <1>5, <1>6, <1>9 DEF Shape, Follows, Claims
<1>11. \A x \in Token : link[x] = NoLink /\ link'[x] # NoLink =>
         Claims(req[r]) /\ req[r].token = x
  BY <1>2, <1>5
<1>12. LinkInv'
  BY <1>4, <1>5, <1>7, <1>8, <1>9, <1>10, <1>11, Advance
<1> QED
  BY <1>7, <1>12

LEMMA UnsetInv ==
  ASSUME LinkInv, NEW r \in Request, Unset(r)
  PROVE  LinkInv' /\ Grows(link, link')
<1>1. /\ req[r].step = "unset" /\ req[r].op = "revoke"
      /\ req[r].token \in Token
      /\ link[req[r].token] # NoLink
      /\ link \in Table
  BY DEF Unset, LinkInv, Shape, Follows, TypeOK
<1> DEFINE t == req[r].token
           new == [link[t] EXCEPT !.active = FALSE]
<1>2. link[t] \in Row
  BY <1>1 DEF Table
<1>3. new \in Row /\ new.limit = link[t].limit /\ new.active = FALSE /\ new.views = link[t].views
  BY <1>2 DEF Row
<1>4. /\ link' = link \/ link' = [link EXCEPT ![t] = new]
      /\ UNCHANGED <<now, events>>
      /\ now' \in 0..Horizon /\ events' \subseteq Request
  BY DEF Unset, LinkInv, TypeOK
<1> HIDE DEF new
<1>5. /\ link' \in Table
      /\ link'[t] = link[t] \/ link'[t] = new
      /\ \A x \in Token : x # t => link'[x] = link[x]
  BY <1>1, <1>3, <1>4 DEF Table
<1>6. new # NoLink
  BY <1>3, NoLinkAssumption
<1>7. Grows(link, link')
  BY <1>1, <1>3, <1>5, <1>6 DEF Grows
<1>8. \A x \in Token : WithinLimit(link'[x])
  BY <1>1, <1>3, <1>5 DEF LinkInv, WithinLimit
<1>9. PICK q \in Requests :
        /\ Become(r, q)
        /\ q.step = "refresh"
        /\ q.op = req[r].op /\ q.token = req[r].token /\ q.seen = req[r].seen
        /\ q.answer = req[r].answer /\ q.late = req[r].late /\ q.alone = req[r].alone
  BY Moved DEF Unset, Steps
<1>10. Shape(q) /\ Follows(q, link') /\ ~Claims(q)
  BY <1>1, <1>5, <1>6, <1>9 DEF Shape, Follows, Claims
<1>11. \A x \in Token : link[x] = NoLink /\ link'[x] # NoLink =>
         Claims(req[r]) /\ req[r].token = x
  BY <1>1, <1>5
<1>12. LinkInv'
  BY <1>4, <1>5, <1>7, <1>8, <1>9, <1>10, <1>11, Advance
<1> QED
  BY <1>7, <1>12

LEMMA RefreshInv ==
  ASSUME LinkInv, NEW r \in Request, Refresh(r)
  PROVE  LinkInv'
<1>1. /\ UNCHANGED <<link, now>>
      /\ events' \subseteq Request
      /\ req[r].step = "refresh" /\ req[r].token \in Token
      /\ Shape(req[r]) /\ Follows(req[r], link)
      /\ link[req[r].token] \in Row \cup {NoLink}
  BY DEF Refresh, LinkInv, TypeOK, Shape, Table
<1>2. PICK q \in Requests :
        /\ Become(r, q)
        /\ q.step = "send" /\ q.seen = link[req[r].token]
        /\ q.op = req[r].op /\ q.token = req[r].token
        /\ q.answer = req[r].answer /\ q.late = req[r].late /\ q.alone = req[r].alone
  BY <1>1, Kept DEF Refresh, Steps
<1>3. Shape(q) /\ Follows(q, link) /\ ~Claims(q)
  BY <1>1, <1>2 DEF Shape, Follows, Claims
<1> QED
  BY <1>1, <1>2, <1>3, AdvanceSame

LEMMA SendInv ==
  ASSUME LinkInv, NEW r \in Request, Send(r)
  PROVE  LinkInv'
<1>1. /\ UNCHANGED <<link, now>>
      /\ events' \subseteq Request
      /\ req[r].step = "send" /\ req[r] \in Requests
      /\ Shape(req[r]) /\ Follows(req[r], link)
  BY DEF Send, LinkInv, TypeOK
<1>2. CASE Answer(r, 500)
  BY <1>1, <1>2, Answering DEF Answers
<1>3. ASSUME NEW status \in {200, 201},
             Become(r, [req[r] EXCEPT !.step = "notify", !.answer = status])
      PROVE  LinkInv'
  <2> DEFINE q == [req[r] EXCEPT !.step = "notify", !.answer = status]
  <2>0. status \in Answers
    BY <1>3 DEF Answers
  <2>1. /\ q \in Requests
        /\ q.step = "notify" /\ q.op = req[r].op /\ q.token = req[r].token
        /\ q.late = req[r].late
    BY <1>1, <2>0 DEF Requests, Steps
  <2>2. Become(r, q)
    BY <1>3
  <2> HIDE DEF q
  <2>3. Shape(q) /\ Follows(q, link) /\ ~Claims(q)
    BY <1>1, <2>1 DEF Shape, Follows, Claims
  <2> QED
    BY <1>1, <2>1, <2>2, <2>3, AdvanceSame
<1> QED
  BY <1>2, <1>3 DEF Send

LEMMA NotifyInv ==
  ASSUME LinkInv, NEW r \in Request, Notify(r)
  PROVE  LinkInv'
<1>1. /\ UNCHANGED <<link, now>>
      /\ events' \subseteq Request
      /\ req[r].step = "notify"
      /\ req[r].answer \in Answers
      /\ req[r].op = "access" /\ req[r].late => req[r].answer # 200
  BY DEF Notify, LinkInv, TypeOK, Requests, Follows
<1> QED
  BY <1>1, Answering DEF Notify

LEMMA RefusedInv ==
  ASSUME LinkInv, NEW r \in Request, Unauthorised(r) \/ Locked(r)
  PROVE  LinkInv'
<1>1. /\ UNCHANGED <<link, now>>
      /\ events' \subseteq Request
      /\ req[r].step # "idle"
      /\ \E status \in {401, 403, 500} : Answer(r, status)
  BY DEF Unauthorised, Locked, LinkInv, TypeOK
<1> QED
  BY <1>1, Answering DEF Answers

LEMMA CrashInv ==
  ASSUME LinkInv, Crash
  PROVE  LinkInv'
<1> DEFINE Ended(q) == [q EXCEPT !.step = "killed", !.seen = NoLink,
                          !.answer = IF q.step = "notify" THEN q.answer ELSE Lost]
<1>1. ASSUME NEW q \in Requests, Shape(q), Follows(q, link), q.step # "idle"
      PROVE  /\ Ended(q) \in Requests
             /\ Shape(Ended(q)) /\ Follows(Ended(q), link) /\ ~Claims(Ended(q))
  <2> DEFINE e == Ended(q)
             answer == IF q.step = "notify" THEN q.answer ELSE Lost
  <2>0. answer \in Answers /\ (answer = q.answer \/ answer = Lost)
    BY <1>1 DEF Requests, Answers
  <2>a. e = [q EXCEPT !.step = "killed", !.seen = NoLink, !.answer = answer]
    OBVIOUS
  <2> HIDE DEF answer, Ended
  <2>1. /\ e \in Requests
        /\ e.step = "killed" /\ e.op = q.op /\ e.token = q.token /\ e.late = q.late
        /\ e.answer = q.answer \/ e.answer = Lost
    BY <1>1, <2>0, <2>a DEF Requests, Steps
  <2> HIDE DEF e
  <2>2. Shape(e) /\ Follows(e, link) /\ ~Claims(e)
    BY <1>1, <2>1 DEF Shape, Follows, Claims, Lost
  <2> QED
    BY <2>1, <2>2 DEF e
<1>2. ASSUME NEW r \in Request
      PROVE  /\ req'[r] \in Requests /\ Shape(req'[r]) /\ Follows(req'[r], link)
             /\ Claims(req'[r]) => req'[r] = req[r]
  <2>1. req'[r] = IF r \in Running THEN Ended(req[r]) ELSE req[r]
    BY DEF Crash
  <2>2. req[r] \in Requests /\ Shape(req[r]) /\ Follows(req[r], link)
    BY DEF LinkInv, TypeOK
  <2> HIDE DEF Ended
  <2> QED
    BY <1>1, <2>1, <2>2 DEF Running
<1>3. TypeOK'
  <2>1. req' \in [Request -> Requests]
    <3>1. req' = [r \in Request |-> req'[r]]
      BY DEF Crash
    <3> HIDE DEF Ended
    <3> QED
      BY <1>2, <3>1
  <2> QED
    BY <2>1 DEF Crash, LinkInv, TypeOK
<1>4. UNCHANGED link
  BY DEF Crash
<1> HIDE DEF Ended
<1>5. Owned' /\ Distinct'
  BY <1>2, <1>4 DEF LinkInv, Owned, Distinct
<1> QED
  BY <1>2, <1>3, <1>4, <1>5 DEF LinkInv

LEMMA WorldInv ==
  ASSUME LinkInv, Tick \/ UNCHANGED vars
  PROVE  LinkInv'
<1>1. UNCHANGED <<link, req>> /\ UNCHANGED events
  BY DEF Tick, vars
<1>2. TypeOK'
  <2>1. now' \in 0..Horizon
    BY LinkAssumption DEF LinkInv, TypeOK, Tick, vars
  <2> QED
    BY <1>1, <2>1 DEF LinkInv, TypeOK
<1> QED
  BY <1>1, <1>2 DEF LinkInv, Owned, Distinct

LEMMA NextInv ==
  ASSUME LinkInv, [Next]_vars
  PROVE  LinkInv'
BY BeginInv, PrepareInv, InsertInv, SelectInv, JudgeInv, CountInv, UnsetInv, RefreshInv,
   SendInv, NotifyInv, RefusedInv, CrashInv, WorldInv
   DEF Next, Handle

LEMMA NextGrows ==
  ASSUME LinkInv, [Next]_vars
  PROVE  Grows(link, link')
<1>1. CASE UNCHANGED link
  BY <1>1, GrowsReflexive
<1>2. CASE \E r \in Request : InsertLink(r) \/ Count(r) \/ Unset(r)
  BY <1>2, InsertInv, CountInv, UnsetInv
<1> QED
  BY <1>1, <1>2 DEF Next, Handle, Begin, Unauthorised, PrepareLink, Select, Judge, Refresh,
     Send, Notify, Locked, Crash, Tick, vars

-----------------------------------------------------------------------------
(* LinkInv is inductive: every step of the service preserves it.           *)
THEOREM LinkInvariance == Spec => []LinkInv
<1>1. LinkInv /\ [Next]_vars => LinkInv'
  BY NextInv
<1> QED
  BY InitInv, <1>1, PTL DEF Spec

(* Type correctness: the table, the requests and the events keep their     *)
(* shape through every handler, crash and change of the world.             *)
THEOREM LinkTypes == Spec => []TypeOK
<1>1. LinkInv => TypeOK
  BY DEF LinkInv
<1> QED
  BY LinkInvariance, <1>1, PTL

(* The recorded views of a link never pass its limit: share_service.py:67  *)
(* adds one to a count that was below the limit when it was read.          *)
THEOREM CounterBounded == Spec => []CounterWithinLimit
<1>1. LinkInv => CounterWithinLimit
  BY DEF LinkInv, WithinLimit, CounterWithinLimit
<1> QED
  BY LinkInvariance, <1>1, PTL

(* An access that arrives after the revocation of its link was committed   *)
(* is never served: share_service.py:82 and the query of every access.     *)
THEOREM LateAccessRefused == Spec => []RevokedBeforeIsRefused
<1>1. LinkInv => RevokedBeforeIsRefused
  BY DEF LinkInv, Follows, RevokedBeforeIsRefused
<1> QED
  BY LinkInvariance, <1>1, PTL

(* A revoked link stays revoked: an access in flight updates its count     *)
(* only, and no token is given to a second link.                           *)
THEOREM RevocationLasts == Spec => RevocationIsFinal
<1>1. LinkInv /\ [Next]_vars => [\A t \in Token : Revoked(t) => Revoked(t)']_vars
  <2> SUFFICES ASSUME LinkInv, [Next]_vars
               PROVE  \A t \in Token : Revoked(t) => Revoked(t)'
    OBVIOUS
  <2> QED
    BY NextGrows DEF Grows, Revoked
<1> QED
  BY LinkInvariance, <1>1, PTL DEF Spec, RevocationIsFinal

-----------------------------------------------------------------------------
(* A view is owed to the counter from the commit that adds it on: the      *)
(* request has passed Count, and is about to be answered or was served.    *)
Counted(q) == q.op = "access" /\ (q.answer = 200 \/ q.step \in {"refresh", "send"})
Owed(t) == {r \in Request : Counted(req[r]) /\ req[r].token = t}

Covered(owed, row) ==
  /\ row = NoLink => owed = {}
  /\ row # NoLink => IsFiniteSet(owed) /\ Cardinality(owed) <= row.views

AtMostOneRuns == \A r1, r2 \in Running : r1 = r2

(* What a lone access has read of the row is still what the row says.      *)
UpToDate(q, table) == q.step \in {"judge", "count"} => table[q.token].views = q.seen.views

ViewInv ==
  /\ \A r \in Request : req[r].step = "idle" => req[r].alone
  /\ Sequential =>
       /\ AtMostOneRuns
       /\ \A r \in Request : UpToDate(req[r], link)
       /\ \A t \in Token : Covered(Owed(t), link[t])

LEMMA CoveredBySubset ==
  ASSUME NEW A, NEW B, B \subseteq A, NEW row \in Row \cup {NoLink},
         NEW new \in Row \cup {NoLink}, Covered(A, row),
         row = NoLink /\ new # NoLink => new.views = 0,
         row # NoLink => new # NoLink /\ new.views >= row.views
  PROVE  Covered(B, new)
<1>1. CASE row = NoLink
  <2>1. B = {}
    BY <1>1 DEF Covered
  <2>2. IsFiniteSet({}) /\ Cardinality({}) = 0
    BY FS_EmptySet
  <2> QED
    BY <1>1, <2>1, <2>2 DEF Covered
<1>2. CASE row # NoLink
  <2>1. IsFiniteSet(A) /\ Cardinality(A) <= row.views
    BY <1>2 DEF Covered
  <2>2. IsFiniteSet(B) /\ Cardinality(B) <= Cardinality(A)
    BY <2>1, FS_Subset
  <2>3. Cardinality(A) \in Nat /\ Cardinality(B) \in Nat
    BY <2>1, <2>2, FS_CardinalityType
  <2>4. row.views \in Int /\ new.views \in Int /\ new # NoLink /\ new.views >= row.views
    BY <1>2 DEF Row
  <2> QED
    BY <2>1, <2>2, <2>3, <2>4 DEF Covered
<1> QED
  BY <1>1, <1>2

LEMMA CoveredByOneMore ==
  ASSUME NEW A, NEW r, NEW B, B \subseteq A \cup {r},
         NEW row \in Row, NEW new \in Row, Covered(A, row), row # NoLink,
         new # NoLink, new.views = row.views + 1
  PROVE  Covered(B, new)
<1>1. IsFiniteSet(A) /\ Cardinality(A) <= row.views
  BY DEF Covered
<1>2. /\ IsFiniteSet(A \cup {r})
      /\ Cardinality(A \cup {r}) = Cardinality(A) \/ Cardinality(A \cup {r}) = Cardinality(A) + 1
  BY <1>1, FS_AddElement
<1>3. IsFiniteSet(B) /\ Cardinality(B) <= Cardinality(A \cup {r})
  BY <1>2, FS_Subset
<1>4. Cardinality(A) \in Nat /\ Cardinality(B) \in Nat
  BY <1>1, <1>3, FS_CardinalityType
<1>5. row.views \in Int
  BY DEF Row
<1> QED
  BY <1>1, <1>2, <1>3, <1>4, <1>5 DEF Covered

(* One running handler moves on.                                           *)
LEMMA ViewStep ==
  ASSUME LinkInv, ViewInv, NEW r \in Running, NEW q \in Requests, Become(r, q),
         q.step # "idle", q.alone = req[r].alone, q.token = req[r].token,
         link' \in Table,
         \A t \in Token : t # req[r].token => link'[t] = link[t],
         UpToDate(q, link'),
         Sequential => \A t \in Token :
           t = req[r].token => Covered(Owed(t)', link'[t])
  PROVE  ViewInv'
<1>1. r \in Request /\ req' = [o \in Request |-> IF o = r THEN q ELSE req[o]]
  BY DEF LinkInv, TypeOK, Become, Running
<1>2. (\A o \in Request : req[o].step = "idle" => req[o].alone)'
  BY <1>1 DEF ViewInv
<1> SUFFICES ASSUME Sequential'
             PROVE  (/\ AtMostOneRuns
                     /\ \A o \in Request : UpToDate(req[o], link)
                     /\ \A t \in Token : Covered(Owed(t), link[t]))'
  BY <1>2 DEF ViewInv
<1>3. Sequential
  BY <1>1 DEF Sequential
<1>4. AtMostOneRuns /\ \A t \in Token : Covered(Owed(t), link[t])
  BY <1>3 DEF ViewInv
<1>5. \A o \in Request : o # r => o \notin Running
  BY <1>4 DEF AtMostOneRuns
<1>6. AtMostOneRuns'
  BY <1>1, <1>5 DEF AtMostOneRuns, Running
<1>7. ASSUME NEW o \in Request PROVE UpToDate(req'[o], link')
  BY <1>1, <1>5 DEF UpToDate, Running
<1>8. ASSUME NEW t \in Token PROVE Covered(Owed(t)', link'[t])
  <2>1. CASE t = req[r].token
    BY <1>3, <2>1
  <2>2. CASE t # req[r].token
    <3>1. Owed(t)' = Owed(t)
      BY <1>1, <2>2 DEF Owed
    <3> QED
      BY <1>4, <2>2, <3>1
  <2> QED
    BY <2>1, <2>2
<1> QED
  BY <1>6, <1>7, <1>8

(* The steps that add no view and leave the row's count alone.             *)
LEMMA ViewKept ==
  ASSUME LinkInv, ViewInv, NEW r \in Running, NEW q \in Requests, Become(r, q),
         q.step # "idle", q.alone = req[r].alone, q.token = req[r].token,
         UNCHANGED link, Counted(q) => Counted(req[r]), UpToDate(q, link)
  PROVE  ViewInv'
<1>1. r \in Request /\ req' = [o \in Request |-> IF o = r THEN q ELSE req[o]]
      /\ link \in Table
  BY DEF LinkInv, TypeOK, Become, Running
<1>2. ASSUME Sequential, NEW t \in Token
      PROVE  Covered(Owed(t)', link'[t])
  <2>1. Owed(t)' \subseteq Owed(t)
    BY <1>1 DEF Owed
  <2>2. Covered(Owed(t), link[t])
    BY <1>2 DEF ViewInv
  <2>3. link[t] \in Row \cup {NoLink} /\ link'[t] = link[t]
    BY <1>1 DEF Table
  <2>4. link[t] # NoLink => link[t].views >= link[t].views
    BY <2>3 DEF Row
  <2> QED
    BY <2>1, <2>2, <2>3, <2>4, CoveredBySubset
<1> QED
  BY <1>1, <1>2, ViewStep

LEMMA ViewAnswered ==
  ASSUME LinkInv, ViewInv, NEW r \in Running, NEW status \in Answers,
         Answer(r, status), UNCHANGED link,
         status = 200 /\ req[r].op = "access" => Counted(req[r])
  PROVE  ViewInv'
<1> DEFINE q == [req[r] EXCEPT !.step = "done", !.seen = NoLink, !.answer = status]
<1>1. req[r] \in Requests
  BY DEF LinkInv, TypeOK, Running
<1>2. /\ q \in Requests
      /\ q.step = "done" /\ q.answer = status /\ q.op = req[r].op
      /\ q.token = req[r].token /\ q.alone = req[r].alone
  BY <1>1 DEF Requests, Steps
<1>3. Become(r, q)
  BY DEF Answer
<1> HIDE DEF q
<1>4. (Counted(q) => Counted(req[r])) /\ UpToDate(q, link) /\ q.step # "idle"
  BY <1>2 DEF Counted, UpToDate
<1> QED
  BY <1>2, <1>3, <1>4, ViewKept

LEMMA ViewBegun ==
  ASSUME LinkInv, ViewInv, NEW r \in Request, Begin(r)
  PROVE  ViewInv'
<1>1. PICK op \in Ops, t \in Token :
        Become(r, [op |-> op, token |-> t, step |-> "begin", seen |-> NoLink,
                   answer |-> NoAnswer, late |-> Revoked(t), alone |-> Running = {}])
  BY DEF Begin
<1> DEFINE alone == Running = {}
           late == Revoked(t)
           q == [op |-> op, token |-> t, step |-> "begin", seen |-> NoLink,
                 answer |-> NoAnswer, late |-> late, alone |-> alone]
<1>2. Become(r, q)
  BY <1>1
<1> HIDE DEF alone, late
<1>3. q.step = "begin" /\ q.answer = NoAnswer /\ q.alone = alone
  OBVIOUS
<1> HIDE DEF q
<1>4. /\ req' = [o \in Request |-> IF o = r THEN q ELSE req[o]]
      /\ link' = link /\ link \in Table
  BY <1>2 DEF LinkInv, TypeOK, Become, Begin
<1>5. ~Counted(q) /\ UpToDate(q, link)
  BY <1>3 DEF Counted, UpToDate, NoAnswer
<1>6. (\A o \in Request : req[o].step = "idle" => req[o].alone)'
  BY <1>3, <1>4 DEF ViewInv
<1> SUFFICES ASSUME Sequential'
             PROVE  (/\ AtMostOneRuns
                     /\ \A o \in Request : UpToDate(req[o], link)
                     /\ \A x \in Token : Covered(Owed(x), link[x]))'
  BY <1>6 DEF ViewInv
<1>7. Running = {}
  BY <1>3, <1>4 DEF Sequential, alone
<1>8. Sequential
  <2>1. req[r].alone
    BY DEF Begin, ViewInv
  <2> QED
    BY <2>1, <1>4 DEF Sequential
<1>9. AtMostOneRuns'
  BY <1>4, <1>7 DEF AtMostOneRuns, Running
<1>10. ASSUME NEW o \in Request PROVE UpToDate(req'[o], link')
  BY <1>4, <1>5, <1>8 DEF ViewInv
<1>11. ASSUME NEW x \in Token PROVE Covered(Owed(x)', link'[x])
  <2>1. Owed(x)' \subseteq Owed(x)
    BY <1>4, <1>5 DEF Owed
  <2>2. Covered(Owed(x), link[x])
    BY <1>8 DEF ViewInv
  <2>3. link[x] \in Row \cup {NoLink} /\ link'[x] = link[x]
    BY <1>4 DEF Table
  <2>4. link[x] # NoLink => link[x].views >= link[x].views
    BY <2>3 DEF Row
  <2> QED
    BY <2>1, <2>2, <2>3, <2>4, CoveredBySubset
<1> QED
  BY <1>9, <1>10, <1>11

(* The commit of the count: the view it adds is the one that becomes owed. *)
LEMMA ViewCount ==
  ASSUME LinkInv, ViewInv, NEW r \in Request, Count(r)
  PROVE  ViewInv'
<1>1. /\ r \in Running /\ req[r].step = "count" /\ req[r] \in Requests
      /\ req[r].token \in Token /\ req[r].seen \in Row
      /\ link \in Table /\ link[req[r].token] # NoLink
  BY DEF Count, Running, LinkInv, TypeOK, Shape, Follows
<1> DEFINE x == req[r].token
           n == req[r].seen.views + 1
           new == [link[x] EXCEPT !.views = n]
<1>2. link[x] \in Row /\ n \in Int
  BY <1>1 DEF Table, Row
<1>3. new \in Row /\ new.views = n
  BY <1>2 DEF Row
<1>4. link' = [link EXCEPT ![x] = new]
  BY DEF Count
<1> HIDE DEF new, n
<1>5. link' \in Table /\ link'[x] = new /\ \A t \in Token : t # x => link'[t] = link[t]
  BY <1>1, <1>3, <1>4 DEF Table
<1>6. PICK q \in Requests :
        /\ Become(r, q)
        /\ q.step = "refresh"
        /\ q.op = req[r].op /\ q.token = req[r].token /\ q.seen = req[r].seen
        /\ q.answer = req[r].answer /\ q.late = req[r].late /\ q.alone = req[r].alone
  BY Moved DEF Count, Steps
<1>7. req' = [o \in Request |-> IF o = r THEN q ELSE req[o]]
  BY <1>6 DEF Become, LinkInv, TypeOK
<1>8. ASSUME Sequential, NEW t \in Token, t = x
      PROVE  Covered(Owed(t)', link'[t])
  <2>1. Owed(t)' \subseteq Owed(t) \cup {r}
    BY <1>7 DEF Owed
  <2>2. Covered(Owed(t), link[t]) /\ link[x].views = req[r].seen.views
    BY <1>1, <1>8 DEF ViewInv, UpToDate
  <2>3. new.views = link[x].views + 1 /\ new # NoLink
    BY <1>3, <2>2, NoLinkAssumption DEF n
  <2> QED
    BY <1>1, <1>2, <1>3, <1>5, <1>8, <2>1, <2>2, <2>3, CoveredByOneMore
<1>9. UpToDate(q, link')
  BY <1>6 DEF UpToDate
<1> QED
  BY <1>1, <1>5, <1>6, <1>8, <1>9, ViewStep

(* A new link owes nothing, and an UPDATE of is_active writes no count.    *)
LEMMA ViewInsert ==
  ASSUME LinkInv, ViewInv, NEW r \in Request, InsertLink(r)
  PROVE  ViewInv'
<1>1. /\ r \in Running /\ req[r].step = "insert" /\ req[r].op = "create"
      /\ req[r].token \in Token /\ req[r].seen \in Row /\ req[r].seen.views = 0
      /\ link[req[r].token] = NoLink /\ link \in Table
  BY DEF InsertLink, LinkInv, TypeOK, Shape, Owned, Claims, Running
<1>2. link' = [link EXCEPT ![req[r].token] = req[r].seen]
  BY DEF InsertLink
<1>3. link' \in Table /\ link'[req[r].token] = req[r].seen
      /\ \A t \in Token : t # req[r].token => link'[t] = link[t]
  BY <1>1, <1>2 DEF Table
<1>4. PICK q \in Requests :
        /\ Become(r, q)
        /\ q.step = "refresh"
        /\ q.op = req[r].op /\ q.token = req[r].token /\ q.seen = req[r].seen
        /\ q.answer = req[r].answer /\ q.late = req[r].late /\ q.alone = req[r].alone
  BY Moved DEF InsertLink, Steps
<1>5. req' = [o \in Request |-> IF o = r THEN q ELSE req[o]]
  BY <1>4 DEF Become, LinkInv, TypeOK
<1>6. ~Counted(q) /\ UpToDate(q, link')
  BY <1>1, <1>4 DEF Counted, UpToDate
<1>7. ASSUME Sequential, NEW t \in Token, t = req[r].token
      PROVE  Covered(Owed(t)', link'[t])
  <2>1. Owed(t)' \subseteq Owed(t)
    BY <1>5, <1>6 DEF Owed
  <2>2. Covered(Owed(t), link[t])
    BY <1>7 DEF ViewInv
  <2> QED
    BY <1>1, <1>3, <1>7, <2>1, <2>2, CoveredBySubset
<1> QED
  BY <1>1, <1>3, <1>4, <1>6, <1>7, ViewStep

LEMMA ViewUnset ==
  ASSUME LinkInv, ViewInv, NEW r \in Request, Unset(r)
  PROVE  ViewInv'
<1>1. /\ r \in Running /\ req[r].step = "unset" /\ req[r].op = "revoke"
      /\ req[r].token \in Token /\ link[req[r].token] # NoLink /\ link \in Table
  BY DEF Unset, LinkInv, TypeOK, Shape, Follows, Running
<1> DEFINE x == req[r].token
           new == [link[x] EXCEPT !.active = FALSE]
<1>2. link[x] \in Row
  BY <1>1 DEF Table
<1>3. new \in Row /\ new.views = link[x].views
  BY <1>2 DEF Row
<1>4. link' = link \/ link' = [link EXCEPT ![x] = new]
  BY DEF Unset
<1> HIDE DEF new
<1>5. /\ link' \in Table
      /\ link'[x] \in Row /\ link'[x].views = link[x].views
      /\ \A t \in Token : t # x => link'[t] = link[t]
  BY <1>1, <1>2, <1>3, <1>4 DEF Table
<1>6. PICK q \in Requests :
        /\ Become(r, q)
        /\ q.step = "refresh"
        /\ q.op = req[r].op /\ q.token = req[r].token /\ q.seen = req[r].seen
        /\ q.answer = req[r].answer /\ q.late = req[r].late /\ q.alone = req[r].alone
  BY Moved DEF Unset, Steps
<1>7. req' = [o \in Request |-> IF o = r THEN q ELSE req[o]]
  BY <1>6 DEF Become, LinkInv, TypeOK
<1>8. ~Counted(q) /\ UpToDate(q, link')
  BY <1>1, <1>6 DEF Counted, UpToDate
<1>9. ASSUME Sequential, NEW t \in Token, t = x
      PROVE  Covered(Owed(t)', link'[t])
  <2>1. Owed(t)' \subseteq Owed(t)
    BY <1>7, <1>8 DEF Owed
  <2>2. Covered(Owed(t), link[t])
    BY <1>9 DEF ViewInv
  <2>3. link'[t] # NoLink /\ link'[t].views >= link[t].views
    BY <1>2, <1>5, <1>9, NoLinkAssumption DEF Row
  <2> QED
    BY <1>1, <1>2, <1>5, <1>9, <2>1, <2>2, <2>3, CoveredBySubset
<1> QED
  BY <1>1, <1>5, <1>6, <1>8, <1>9, ViewStep

(* The other statements of a handler.                                      *)
LEMMA ViewRefused ==
  ASSUME LinkInv, ViewInv, NEW r \in Request,
         Unauthorised(r) \/ Locked(r) \/ Notify(r)
  PROVE  ViewInv'
<1>1. r \in Running /\ UNCHANGED link /\ req[r] \in Requests
  BY DEF Unauthorised, Locked, Notify, LinkInv, TypeOK, Running
<1>2. CASE \E status \in {401, 403, 500} : Answer(r, status)
  BY <1>1, <1>2, ViewAnswered DEF Answers
<1>3. CASE Notify(r)
  <2>1. Answer(r, req[r].answer) /\ req[r].answer \in Answers
    BY <1>1, <1>3 DEF Notify, Requests
  <2>2. req[r].answer = 200 /\ req[r].op = "access" => Counted(req[r])
    BY DEF Counted
  <2> QED
    BY <1>1, <2>1, <2>2, ViewAnswered
<1> QED
  BY <1>2, <1>3 DEF Unauthorised, Locked

LEMMA ViewPrepare ==
  ASSUME LinkInv, ViewInv, NEW r \in Request, PrepareLink(r)
  PROVE  ViewInv'
<1>1. r \in Running /\ UNCHANGED link /\ req[r].op = "create"
  BY DEF PrepareLink, Running
<1>2. CASE Answer(r, 404)
  BY <1>1, <1>2, ViewAnswered DEF Answers
<1>3. ASSUME NEW n \in Limits, NEW h \in Lifetimes,
             Keep(r, "insert", [active |-> TRUE, views |-> 0, limit |-> n, expires |-> now + h])
      PROVE  ViewInv'
  <2> DEFINE row == [active |-> TRUE, views |-> 0, limit |-> n, expires |-> now + h]
  <2>1. row \in Row
    BY LinkAssumption DEF Row, LinkInv, TypeOK
  <2>2. Keep(r, "insert", row)
    BY <1>3
  <2> HIDE DEF row
  <2>3. PICK q \in Requests :
          /\ Become(r, q)
          /\ q.step = "insert" /\ q.seen = row
          /\ q.op = req[r].op /\ q.token = req[r].token
          /\ q.answer = req[r].answer /\ q.late = req[r].late /\ q.alone = req[r].alone
    BY <2>1, <2>2, Kept DEF Steps
  <2>4. ~Counted(q) /\ UpToDate(q, link)
    BY <1>1, <2>3 DEF Counted, UpToDate
  <2> QED
    BY <1>1, <2>3, <2>4, ViewKept
<1> QED
  BY <1>2, <1>3 DEF PrepareLink

LEMMA ViewSelect ==
  ASSUME LinkInv, ViewInv, NEW r \in Request, Select(r)
  PROVE  ViewInv'
<1>1. r \in Running /\ UNCHANGED link /\ req[r].step = "begin" /\ req[r].token \in Token
      /\ link \in Table
  BY DEF Select, Running, LinkInv, TypeOK, Shape
<1> DEFINE row == link[req[r].token]
           next == IF req[r].op = "access" THEN "judge" ELSE "unset"
<1>2. row \in Row \cup {NoLink} /\ next \in {"judge", "unset"} /\ next \in Steps
  BY <1>1 DEF Table, Steps
<1>3. CASE row = NoLink
  BY <1>1, <1>3, ViewAnswered DEF Select, Answers
<1>4. CASE row # NoLink
  <2>1. Keep(r, next, row)
    BY <1>4 DEF Select
  <2> HIDE DEF row, next
  <2>2. PICK q \in Requests :
          /\ Become(r, q)
          /\ q.step = next /\ q.seen = row
          /\ q.op = req[r].op /\ q.token = req[r].token
          /\ q.answer = req[r].answer /\ q.late = req[r].late /\ q.alone = req[r].alone
    BY <1>2, <2>1, Kept
  <2>3. Counted(q) => Counted(req[r])
    BY <1>2, <2>2 DEF Counted
  <2>4. UpToDate(q, link)
    BY <2>2 DEF UpToDate, row
  <2> QED
    BY <1>1, <1>2, <2>2, <2>3, <2>4, ViewKept
<1> QED
  BY <1>3, <1>4

LEMMA ViewJudge ==
  ASSUME LinkInv, ViewInv, NEW r \in Request, Judge(r)
  PROVE  ViewInv'
<1>1. r \in Running /\ UNCHANGED link /\ req[r].step = "judge"
  BY DEF Judge, Running
<1>2. CASE Answer(r, 403)
  BY <1>1, <1>2, ViewAnswered DEF Answers
<1>3. CASE Goto(r, "count")
  <2>1. PICK q \in Requests :
          /\ Become(r, q)
          /\ q.step = "count"
          /\ q.op = req[r].op /\ q.token = req[r].token /\ q.seen = req[r].seen
          /\ q.answer = req[r].answer /\ q.late = req[r].late /\ q.alone = req[r].alone
    BY <1>3, Moved DEF Steps
  <2>2. req' = [o \in Request |-> IF o = r THEN q ELSE req[o]] /\ r \in Request
    BY <2>1 DEF Become, LinkInv, TypeOK
  <2>3. CASE Sequential
    <3>1. UpToDate(q, link)
      BY <1>1, <2>1, <2>3 DEF ViewInv, UpToDate
    <3> QED
      BY <1>1, <2>1, <3>1, ViewKept DEF Counted
  <2>4. CASE ~Sequential
    <3>1. ~Sequential'
      BY <2>1, <2>2, <2>4 DEF Sequential
    <3>2. (\A o \in Request : req[o].step = "idle" => req[o].alone)'
      BY <2>1, <2>2 DEF ViewInv
    <3> QED
      BY <3>1, <3>2 DEF ViewInv
  <2> QED
    BY <2>3, <2>4
<1> QED
  BY <1>2, <1>3 DEF Judge

LEMMA ViewRefresh ==
  ASSUME LinkInv, ViewInv, NEW r \in Request, Refresh(r)
  PROVE  ViewInv'
<1>1. r \in Running /\ UNCHANGED link /\ req[r].step = "refresh" /\ req[r].token \in Token
      /\ link[req[r].token] \in Row \cup {NoLink}
  BY DEF Refresh, Running, LinkInv, TypeOK, Shape, Table
<1>2. PICK q \in Requests :
        /\ Become(r, q)
        /\ q.step = "send" /\ q.seen = link[req[r].token]
        /\ q.op = req[r].op /\ q.token = req[r].token
        /\ q.answer = req[r].answer /\ q.late = req[r].late /\ q.alone = req[r].alone
  BY <1>1, Kept DEF Refresh, Steps
<1>3. (Counted(q) => Counted(req[r])) /\ UpToDate(q, link)
  BY <1>1, <1>2 DEF Counted, UpToDate
<1> QED
  BY <1>1, <1>2, <1>3, ViewKept

LEMMA ViewSend ==
  ASSUME LinkInv, ViewInv, NEW r \in Request, Send(r)
  PROVE  ViewInv'
<1>1. r \in Running /\ UNCHANGED link /\ req[r].step = "send" /\ req[r] \in Requests
  BY DEF Send, Running, LinkInv, TypeOK
<1>2. CASE Answer(r, 500)
  BY <1>1, <1>2, ViewAnswered DEF Answers
<1>3. ASSUME NEW status \in {200, 201},
             Become(r, [req[r] EXCEPT !.step = "notify", !.answer = status])
      PROVE  ViewInv'
  <2> DEFINE q == [req[r] EXCEPT !.step = "notify", !.answer = status]
  <2>1. status \in Answers
    BY <1>3 DEF Answers
  <2>2. /\ q \in Requests /\ q.step = "notify" /\ q.op = req[r].op
        /\ q.token = req[r].token /\ q.alone = req[r].alone
    BY <1>1, <2>1 DEF Requests, Steps
  <2>3. Become(r, q)
    BY <1>3
  <2> HIDE DEF q
  <2>4. (Counted(q) => Counted(req[r])) /\ UpToDate(q, link)
    BY <1>1, <2>2 DEF Counted, UpToDate
  <2> QED
    BY <1>1, <2>2, <2>3, <2>4, ViewKept
<1> QED
  BY <1>2, <1>3 DEF Send

LEMMA ViewCrash ==
  ASSUME LinkInv, ViewInv, Crash
  PROVE  ViewInv'
<1>1. ASSUME NEW r \in Request
      PROVE  /\ req'[r].alone = req[r].alone /\ req'[r].token = req[r].token
             /\ Counted(req'[r]) => Counted(req[r])
             /\ req'[r].step = "killed" \/ (req'[r] = req[r] /\ r \notin Running)
  <2>1. req[r] \in Requests
    BY DEF LinkInv, TypeOK
  <2> DEFINE answer == IF req[r].step = "notify" THEN req[r].answer ELSE Lost
  <2>2. req'[r] = IF r \in Running
                  THEN [req[r] EXCEPT !.step = "killed", !.seen = NoLink, !.answer = answer]
                  ELSE req[r]
    BY DEF Crash
  <2>3. answer = req[r].answer \/ answer = Lost
    OBVIOUS
  <2> HIDE DEF answer
  <2> QED
    BY <2>1, <2>2, <2>3 DEF Requests, Counted, Lost
<1>2. UNCHANGED link /\ link \in Table
  BY DEF Crash, LinkInv, TypeOK
<1>3. (\A r \in Request : req[r].step = "idle" => req[r].alone)'
  BY <1>1 DEF ViewInv
<1>4. Running' = {}
  BY <1>1 DEF Running
<1>5. ASSUME NEW r \in Request PROVE UpToDate(req'[r], link')
  BY <1>1 DEF UpToDate, Running
<1>6. ASSUME Sequential, NEW t \in Token PROVE Covered(Owed(t)', link'[t])
  <2>1. Owed(t)' \subseteq Owed(t)
    BY <1>1 DEF Owed
  <2>2. Covered(Owed(t), link[t])
    BY <1>6 DEF ViewInv
  <2>3. link[t] \in Row \cup {NoLink} /\ link'[t] = link[t]
    BY <1>2 DEF Table
  <2>4. link[t] # NoLink => link[t].views >= link[t].views
    BY <2>3 DEF Row
  <2> QED
    BY <2>1, <2>2, <2>3, <2>4, CoveredBySubset
<1>7. Sequential' => Sequential
  BY <1>1 DEF Sequential
<1> QED
  BY <1>3, <1>4, <1>5, <1>6, <1>7 DEF ViewInv, AtMostOneRuns

LEMMA ViewWorld ==
  ASSUME ViewInv, Tick \/ UNCHANGED vars
  PROVE  ViewInv'
BY DEF Tick, vars, ViewInv, Sequential, AtMostOneRuns, Running, UpToDate, Owed

LEMMA ViewNext ==
  ASSUME LinkInv, ViewInv, [Next]_vars
  PROVE  ViewInv'
BY ViewBegun, ViewPrepare, ViewInsert, ViewSelect, ViewJudge, ViewCount, ViewUnset,
   ViewRefresh, ViewSend, ViewRefused, ViewCrash, ViewWorld
   DEF Next, Handle

LEMMA ViewInit == Init => ViewInv
<1> SUFFICES ASSUME Init PROVE ViewInv
  OBVIOUS
<1>1. \A r \in Request : req[r] = NewRequest
  BY DEF Init
<1>2. NewRequest.step = "idle" /\ NewRequest.alone /\ ~Counted(NewRequest)
  BY DEF NewRequest, Counted, NoAnswer
<1>3. Running = {} /\ \A t \in Token : Owed(t) = {} /\ link[t] = NoLink
  BY <1>1, <1>2 DEF Running, Owed, Init
<1> QED
  BY <1>1, <1>2, <1>3 DEF ViewInv, AtMostOneRuns, UpToDate, Covered

(* As long as requests come one after the other, no view is served that    *)
(* was not counted first, whatever fails between two statements: the       *)
(* commit of share_service.py:68 comes before the answer of share.py.      *)
THEOREM ViewsAreCounted == Spec => []EveryViewCounted
<1>1. LinkInv /\ ViewInv => EveryViewCounted
  <2> SUFFICES ASSUME LinkInv, ViewInv, Sequential, NEW t \in Token, link[t] # NoLink
               PROVE  Cardinality(Served(t)) <= link[t].views
    BY DEF EveryViewCounted
  <2>1. Covered(Owed(t), link[t]) /\ link[t] \in Row
    BY DEF ViewInv, LinkInv, TypeOK, Table
  <2>2. Served(t) \subseteq Owed(t)
    BY DEF Served, Owed, Counted
  <2>3. link[t].views >= link[t].views
    BY <2>1 DEF Row
  <2>4. Covered(Served(t), link[t])
    BY <2>1, <2>2, <2>3, CoveredBySubset
  <2> QED
    BY <2>4 DEF Covered
<1>2. LinkInv /\ ViewInv /\ [Next]_vars => ViewInv'
  BY ViewNext
<1>3. Spec => []ViewInv
  BY LinkInvariance, ViewInit, <1>2, PTL DEF Spec
<1> QED
  BY LinkInvariance, <1>1, <1>3, PTL

-----------------------------------------------------------------------------
(* A limit below zero, other than no limit at all, lets nobody in: the row is never counted up,
   because no view that was read is below it. *)
Barred(row) ==
  row # NoLink => row.views >= 0 /\ (row.limit < 0 /\ row.limit # Unlimited => row.views = 0)

Judged(q) ==
  /\ q.step \in {"judge", "count"} => Barred(q.seen)
  /\ q.step = "count" => q.seen.limit = Unlimited \/ q.seen.views < q.seen.limit

BarredInv ==
  /\ \A t \in Token : Barred(link[t])
  /\ \A r \in Request : Judged(req[r])

(* What is written to the table. *)
LEMMA BarredTable ==
  ASSUME LinkInv, BarredInv, [Next]_vars
  PROVE  \A t \in Token : Barred(link'[t])
<1>1. CASE UNCHANGED link
  BY <1>1 DEF BarredInv
<1>2. link \in [Token -> Row \cup {NoLink}]
  BY DEF LinkInv, TypeOK, Table
<1>3. ASSUME NEW r \in Request, NEW new, link' = [link EXCEPT ![req[r].token] = new], Barred(new)
      PROVE  \A t \in Token : Barred(link'[t])
  BY <1>2, <1>3 DEF BarredInv
<1>4. ASSUME NEW r \in Request, InsertLink(r)
      PROVE  \A t \in Token : Barred(link'[t])
  <2>1. link' = [link EXCEPT ![req[r].token] = req[r].seen] /\ req[r].seen.views = 0
    BY <1>4 DEF InsertLink, LinkInv, Shape
  <2>2. Barred(req[r].seen)
    BY <2>1 DEF Barred
  <2> QED
    BY <1>3, <2>1, <2>2
<1>5. ASSUME NEW r \in Request, Count(r)
      PROVE  \A t \in Token : Barred(link'[t])
  <2> PICK row, seen : row = link[req[r].token] /\ seen = req[r].seen
    OBVIOUS
  <2>1. /\ req[r].step = "count" /\ row \in Row /\ seen \in Row /\ row # NoLink /\ seen # NoLink
        /\ seen.limit = row.limit
    BY <1>2, <1>5, NoLinkAssumption DEF Count, LinkInv, Shape, Follows
  <2>2. seen.views >= 0 /\ (seen.limit = Unlimited \/ seen.views < seen.limit)
    BY <2>1 DEF BarredInv, Judged, Barred
  <2> PICK new : new = [row EXCEPT !.views = seen.views + 1]
    OBVIOUS
  <2>3. link' = [link EXCEPT ![req[r].token] = new]
    BY <1>5 DEF Count
  <2>4. new.limit = row.limit /\ new.views = seen.views + 1
    BY <2>1 DEF Row
  <2>5. Barred(new)
    BY <2>1, <2>2, <2>4 DEF Barred, Row
  <2> QED
    BY <1>3, <2>3, <2>5
<1>6. ASSUME NEW r \in Request, Unset(r), link' # link
      PROVE  \A t \in Token : Barred(link'[t])
  <2> PICK row : row = link[req[r].token]
    OBVIOUS
  <2>1. row \in Row /\ row # NoLink /\ req[r].token \in Token
    BY <1>2, <1>6 DEF Unset, LinkInv, Shape, Follows
  <2> PICK new : new = [row EXCEPT !.active = FALSE]
    OBVIOUS
  <2>2. link' = [link EXCEPT ![req[r].token] = new]
    BY <1>6 DEF Unset
  <2>3. new.limit = row.limit /\ new.views = row.views
    BY <2>1 DEF Row
  <2>4. Barred(new)
    BY <2>1, <2>3 DEF BarredInv, Barred
  <2> QED
    BY <1>3, <2>2, <2>4
<1> QED
  BY <1>1, <1>4, <1>5, <1>6 DEF Next, Handle, Begin, Unauthorised, PrepareLink, Select, Judge,
     Refresh, Send, Notify, Locked, Crash, Tick, vars

(* What the handlers hold of it. *)
LEMMA BarredHeld ==
  ASSUME LinkInv, BarredInv, [Next]_vars, NEW o \in Request
  PROVE  Judged(req'[o])
<1>1. req \in [Request -> Requests] /\ Judged(req[o])
  BY DEF LinkInv, TypeOK, BarredInv
<1>2. CASE req'[o] = req[o]
  BY <1>1, <1>2
<1>3. ASSUME NEW r \in Request, NEW q, Become(r, q), Judged(q)
      PROVE  Judged(req'[o])
  BY <1>1, <1>3 DEF Become
<1>4. ASSUME NEW r \in Request, NEW step, NEW row, step \notin {"judge", "count"}, Keep(r, step, row)
      PROVE  Judged(req'[o])
  <2> PICK q : q = [req[r] EXCEPT !.step = step, !.seen = row]
    OBVIOUS
  <2>1. q.step = step /\ Become(r, q)
    BY <1>1, <1>4 DEF Keep, Requests
  <2> QED
    BY <1>3, <1>4, <2>1 DEF Judged
<1>5. ASSUME NEW r \in Request, NEW step, step \notin {"judge", "count"}, Goto(r, step)
      PROVE  Judged(req'[o])
  <2> PICK q : q = [req[r] EXCEPT !.step = step]
    OBVIOUS
  <2>1. q.step = step /\ Become(r, q)
    BY <1>1, <1>5 DEF Goto, Requests
  <2> QED
    BY <1>3, <1>5, <2>1 DEF Judged
<1>6. ASSUME NEW r \in Request, NEW status, Answer(r, status)
      PROVE  Judged(req'[o])
  <2> PICK q : q = [req[r] EXCEPT !.step = "done", !.seen = NoLink, !.answer = status]
    OBVIOUS
  <2>1. q.step = "done" /\ Become(r, q)
    BY <1>1, <1>6 DEF Answer, Requests
  <2> QED
    BY <1>3, <2>1 DEF Judged
<1>7. ASSUME NEW r \in Request, Begin(r)
      PROVE  Judged(req'[o])
  <2>1. PICK q : Become(r, q) /\ q.step = "begin"
    BY <1>7 DEF Begin
  <2> QED
    BY <1>3, <2>1 DEF Judged
<1>8. ASSUME NEW r \in Request, Select(r)
      PROVE  Judged(req'[o])
  <2> PICK row : row = link[req[r].token]
    OBVIOUS
  <2>1. CASE Keep(r, "judge", row)
    <3> PICK q : q = [req[r] EXCEPT !.step = "judge", !.seen = row]
      OBVIOUS
    <3>1. q.step = "judge" /\ q.seen = row /\ Become(r, q)
      BY <1>1, <2>1 DEF Keep, Requests
    <3>2. Barred(row)
      BY <1>8 DEF Select, LinkInv, Shape, BarredInv
    <3> QED
      BY <1>3, <3>1, <3>2 DEF Judged
  <2>2. CASE Keep(r, "unset", row)
    BY <1>4, <2>2
  <2> QED
    BY <1>6, <1>8, <2>1, <2>2 DEF Select
<1>9. ASSUME NEW r \in Request, Judge(r)
      PROVE  Judged(req'[o])
  <2>1. CASE IsValid(req[r].seen, now) /\ Goto(r, "count")
    <3> PICK q : q = [req[r] EXCEPT !.step = "count"]
      OBVIOUS
    <3>1. q.step = "count" /\ q.seen = req[r].seen /\ Become(r, q)
      BY <1>1, <2>1 DEF Goto, Requests
    <3>2. Barred(q.seen)
      BY <1>9, <3>1 DEF Judge, BarredInv, Judged
    <3>3. q.seen.limit = Unlimited \/ q.seen.views < q.seen.limit
      BY <2>1, <3>1 DEF IsValid
    <3> QED
      BY <1>3, <3>1, <3>2, <3>3 DEF Judged
  <2> QED
    BY <1>6, <1>9, <2>1 DEF Judge
<1>10. ASSUME NEW r \in Request, PrepareLink(r)
       PROVE  Judged(req'[o])
  <2>1. Answer(r, 404) \/ \E row : Keep(r, "insert", row)
    BY <1>10 DEF PrepareLink
  <2> QED
    BY <1>4, <1>6, <2>1
<1>11. ASSUME NEW r \in Request, InsertLink(r) \/ Count(r) \/ Unset(r)
       PROVE  Judged(req'[o])
  BY <1>5, <1>11 DEF InsertLink, Count, Unset
<1>12. ASSUME NEW r \in Request, Refresh(r)
       PROVE  Judged(req'[o])
  BY <1>4, <1>12 DEF Refresh
<1>13. ASSUME NEW r \in Request, Send(r)
       PROVE  Judged(req'[o])
  <2>1. CASE \E status : Become(r, [req[r] EXCEPT !.step = "notify", !.answer = status])
    <3>1. PICK status, q : /\ q = [req[r] EXCEPT !.step = "notify", !.answer = status]
                           /\ Become(r, q)
      BY <2>1
    <3>2. q.step = "notify"
      BY <1>1, <3>1 DEF Requests
    <3> QED
      BY <1>3, <3>1, <3>2 DEF Judged
  <2>2. Answer(r, 500) \/ \E status : Become(r, [req[r] EXCEPT !.step = "notify", !.answer = status])
    BY <1>13 DEF Send
  <2> QED
    BY <1>6, <2>1, <2>2
<1>14. ASSUME NEW r \in Request, Unauthorised(r) \/ Notify(r) \/ Locked(r)
       PROVE  Judged(req'[o])
  BY <1>6, <1>14 DEF Unauthorised, Notify, Locked
<1>15. ASSUME Crash
       PROVE  Judged(req'[o])
  <2>1. CASE o \in Running
    <3>1. req'[o].step = "killed"
      BY <1>1, <1>15, <2>1 DEF Crash, Requests
    <3> QED
      BY <3>1 DEF Judged
  <2>2. CASE o \notin Running
    BY <1>1, <1>15, <2>2 DEF Crash
  <2> QED
    BY <2>1, <2>2
<1>16. CASE UNCHANGED req
  BY <1>2, <1>16
<1> QED
  BY <1>7, <1>8, <1>9, <1>10, <1>11, <1>12, <1>13, <1>14, <1>15, <1>16 DEF Next, Handle, Tick, vars

(* models.py:34 "within view limits": as long as no two requests overlapped, a link serves its
   file at most as often as its limit says, and one whose limit is below zero not at all;
   what the run share_overserved shows is the work of requests that overlap, and of nothing
   that fails. *)
THEOREM AloneServesWithinLimit == Spec => [](Sequential => ServedWithinLimit)
<1>1. Init => BarredInv
  <2> SUFFICES ASSUME Init PROVE BarredInv
    OBVIOUS
  <2>1. NewRequest.step = "idle"
    BY DEF NewRequest
  <2> QED
    BY <2>1 DEF Init, BarredInv, Barred, Judged
<1>2. LinkInv /\ BarredInv /\ [Next]_vars => BarredInv'
  BY BarredTable, BarredHeld DEF BarredInv
<1>3. LinkInv /\ BarredInv /\ ViewInv /\ EveryViewCounted /\ CounterWithinLimit
      => (Sequential => ServedWithinLimit)
  <2> SUFFICES ASSUME LinkInv, BarredInv, ViewInv, EveryViewCounted, CounterWithinLimit, Sequential,
                      NEW t \in Token, link[t] # NoLink, link[t].limit # Unlimited
               PROVE  Cardinality(Served(t)) <= (IF link[t].limit > 0 THEN link[t].limit ELSE 0)
    BY DEF ServedWithinLimit
  <2> PICK row, n : row = link[t] /\ n = Cardinality(Served(t))
    OBVIOUS
  <2>1. row \in Row /\ row # NoLink /\ row.limit # Unlimited
    BY DEF LinkInv, TypeOK, Table
  <2>2. n <= row.views /\ (row.limit >= 0 => row.views <= row.limit)
    BY <2>1 DEF EveryViewCounted, CounterWithinLimit
  <2>3. row.limit < 0 => row.views = 0
    BY <2>1 DEF BarredInv, Barred
  <2>4. n \in Int
    <3>1. IsFiniteSet(Owed(t)) /\ Served(t) \subseteq Owed(t)
      BY <2>1 DEF ViewInv, Covered, Served, Owed, Counted
    <3>2. IsFiniteSet(Served(t))
      BY <3>1, FS_Subset
    <3> QED
      BY <3>2, FS_CardinalityType
  <2> QED
    BY <2>1, <2>2, <2>3, <2>4 DEF Row
<1>4. Spec => []BarredInv
  BY <1>1, <1>2, LinkInvariance, PTL DEF Spec
<1>5. LinkInv /\ ViewInv /\ [Next]_vars => ViewInv'
  BY ViewNext
<1>6. Spec => []ViewInv
  BY <1>5, ViewInit, LinkInvariance, PTL DEF Spec
<1> QED
  BY <1>3, <1>4, <1>6, LinkInvariance, ViewsAreCounted, CounterBounded, PTL
=============================================================================
