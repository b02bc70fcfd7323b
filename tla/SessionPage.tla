----------------------------- MODULE SessionPage -----------------------------
(***************************************************************************)
(* The session of the web page: ui/public/app.js creates it, keeps its     *)
(* token, warns before it ends and extends it; src/server.ts answers, and  *)
(* refreshes the Redis key's time to live at most once per throttle.       *)
(*                                                                         *)
(* Time is counted in steps of Warning.  The five seconds for which a      *)
(* process remembers an owner do not matter here (SessionServer has them), *)
(* nor which process answers.  The network, the user and other clients     *)
(* that use the token are external.                                        *)
(***************************************************************************)
EXTENDS Integers

CONSTANTS
  Ttl,        \* SESSION_TTL and SESSION_DURATION
  Warning,    \* WARNING_TIME
  Throttle,   \* the ttl of sessionUpdateCache
  MaxDelay,   \* how long an answer may take
  MaxTokens, MaxTime   \* bounds

None == -1

VARIABLES
  now,
  token, banner,
  timer,      \* when timeoutWarning fires, or None
  create,     \* the request of create-session-btn
  extend,     \* the request of extend-session-btn
  expires,    \* when each token's key in Redis ends, None before it is made
  refreshed   \* when sessionUpdateCache was last set for it, or None

vars == <<now, token, banner, timer, create, extend, expires, refreshed>>

Tokens == 1..MaxTokens
NoToken == 0
Idle == [step |-> "idle", token |-> NoToken, since |-> 0]
Sent(t) == [step |-> "sent", token |-> t, since |-> now]
Answered(r, step, t) == [r EXCEPT !.step = step, !.token = t]

(* The page is loaded: resetTimer is called once. *)
Init ==
  /\ now = 0
  /\ token = NoToken /\ banner = FALSE /\ timer = Ttl - Warning
  /\ create = Idle /\ extend = Idle
  /\ expires = [t \in Tokens |-> None]
  /\ refreshed = [t \in Tokens |-> None]

ResetTimer == banner' = FALSE /\ timer' = now + Ttl - Warning

Reload ==
  /\ token # NoToken
  /\ token' = NoToken
  /\ ResetTimer
  /\ create' = Idle /\ extend' = Idle
  /\ UNCHANGED <<now, expires, refreshed>>

-----------------------------------------------------------------------------
(* The server. *)
Alive(t) == t # NoToken /\ now < expires[t]

(* ensureSessionOwner, once the owner is known to be the user. *)
Refresh(t) ==
  IF refreshed[t] # None /\ now - refreshed[t] <= Throttle
  THEN UNCHANGED <<expires, refreshed>>
  ELSE /\ expires' = [expires EXCEPT ![t] = now + Ttl]
       /\ refreshed' = [refreshed EXCEPT ![t] = now]

ServeCreate ==
  /\ create.step = "sent"
  /\ \E t \in Tokens :
       /\ expires[t] = None
       /\ \A u \in 1..(t - 1) : expires[u] # None
       /\ expires' = [expires EXCEPT ![t] = now + Ttl]
       /\ create' = Answered(create, "ok", t)
  /\ UNCHANGED <<now, token, banner, timer, extend, refreshed>>

(* Any request may be refused: by a limiter, as not the owner's (SessionServer shows when),
   as not there or by an error. *)
ServeExtend ==
  /\ extend.step = "sent"
  /\ extend.token # NoToken
  /\ \/ /\ Alive(extend.token)
        /\ Refresh(extend.token) /\ extend' = Answered(extend, "ok", extend.token)
     \/ extend' = Answered(extend, "failed", extend.token) /\ UNCHANGED <<expires, refreshed>>
  /\ UNCHANGED <<now, token, banner, timer, create>>

(* Another client presents the token. *)
Activity(t) ==
  /\ Alive(t)
  /\ Refresh(t)
  /\ UNCHANGED <<now, token, banner, timer, create, extend>>

-----------------------------------------------------------------------------
(* The page.  A button is disabled while its request is under way. *)
ClickCreate ==
  /\ create.step = "idle"
  /\ create' = Sent(NoToken)
  /\ UNCHANGED <<now, token, banner, timer, extend, expires, refreshed>>

(* The interceptor of window.fetch keeps the token; the timer goes on. *)
CreateReturns ==
  /\ create.step = "ok"
  /\ token' = create.token
  /\ create' = Idle
  /\ UNCHANGED <<now, banner, timer, extend, expires, refreshed>>

(* The button and its shortcut are there only with the banner. *)
ClickExtend ==
  /\ banner
  /\ extend.step = "idle"
  /\ extend' = Sent(token)
  /\ UNCHANGED <<now, token, banner, timer, create, expires, refreshed>>

(* Mutant: the timer is reset whatever the answer. *)
ResetWhateverAnswered ==
  /\ extend.step \in {"ok", "failed"}
  /\ ResetTimer
  /\ extend' = Idle
  /\ UNCHANGED <<now, token, create, expires, refreshed>>

(* The answer, or the half second of the simulation when there was no token. *)
ExtendReturns ==
  /\ extend.step \in {"ok", "failed"} \/ (extend.step = "sent" /\ extend.token = NoToken)
  /\ IF extend.step = "failed" THEN UNCHANGED <<banner, timer>> ELSE ResetTimer
  /\ extend' = Idle
  /\ UNCHANGED <<now, token, create, expires, refreshed>>

(* The request or its answer is lost; the server may have served it. *)
Fail ==
  /\ \/ create.step # "idle" /\ create' = Idle /\ UNCHANGED extend
     \/ extend.step # "idle" /\ extend.token # NoToken /\ extend' = Idle /\ UNCHANGED create
  /\ UNCHANGED <<now, token, banner, timer, expires, refreshed>>

Warn ==
  /\ timer # None /\ now >= timer
  /\ banner' = TRUE /\ timer' = None
  /\ UNCHANGED <<now, token, create, extend, expires, refreshed>>

(* Neither a timer that is due nor an answer waits any longer. *)
Tick ==
  /\ now < MaxTime
  /\ timer = None \/ now < timer
  /\ \A r \in {create, extend} : r.step # "idle" => now - r.since < MaxDelay
  /\ now' = now + 1
  /\ UNCHANGED <<token, banner, timer, create, extend, expires, refreshed>>

Next ==
  \/ ServeCreate \/ ServeExtend \/ (\E t \in Tokens : Activity(t))
  \/ ClickCreate \/ CreateReturns \/ ClickExtend \/ ExtendReturns
  \/ Fail \/ Warn \/ Tick \/ Reload

Spec == Init /\ [][Next]_vars

-----------------------------------------------------------------------------
Request == [step: {"idle", "sent", "ok", "failed"}, token: 0..MaxTokens, since: 0..MaxTime]

TypeOK ==
  /\ now \in 0..MaxTime
  /\ token \in 0..MaxTokens /\ banner \in BOOLEAN
  /\ timer \in Nat \cup {None}
  /\ create \in Request /\ extend \in Request
  /\ expires \in [Tokens -> Nat \cup {None}]
  /\ refreshed \in [Tokens -> Nat \cup {None}]

(* app.js:184-197, server.ts:772-780: a page that shows no warning holds no session that
   ended longer ago than an answer takes, although an extension is answered with success when
   EXPIRE was throttled, answers overtake each other, and creating a session leaves the timer
   alone.  (So the warning may come with nothing left of its minute, or that much late; and
   an answer that is slower than the throttle adds its own delay instead.) *)
WarnedInTime ==
  LET lag == IF Throttle < MaxDelay THEN MaxDelay ELSE Throttle
  IN  token # NoToken /\ ~banner => now <= expires[token] + MaxDelay + (lag - Warning)
=============================================================================
