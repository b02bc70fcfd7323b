--------------------------- MODULE SessionLedger ----------------------------
(***************************************************************************)
(* What the session layer promises, whatever caches, write-backs, crashes  *)
(* and lost connections lie between a client and Redis: tokens are issued  *)
(* once, never change hands, and a session is continued under a new token  *)
(* only by a request of its owner.                                         *)
(***************************************************************************)
EXTENDS SessionPayload

CONSTANTS Reqs, Null

VARIABLES
  ledger,    \* ledger[t]: the payload token t was issued with, or Null
  serving    \* serving[r]: <<user, token>> of the request let in, or Null

Init ==
  /\ ledger \in [Tokens -> {MigrateLegacy(Text(u)) : u \in UserIds} \cup {Null}]
  /\ serving = [r \in Reqs |-> Null]

(* A user opens a session under a token nobody has seen.                   *)
Open(u, t) ==
  /\ ledger[t] = Null
  /\ ledger' = [ledger EXCEPT ![t] = FirstPayload(u, {})]
  /\ UNCHANGED serving

(* A request of the owner of t is let in.                                  *)
Admit(r, u, t) ==
  /\ ledger[t] # Null
  /\ ledger[t].userId = u
  /\ serving' = [serving EXCEPT ![r] = <<u, t>>]
  /\ UNCHANGED ledger

(* The owner continues session t under the new token c.                    *)
Continue(r, u, t, c) ==
  /\ serving[r] = <<u, t>>
  /\ ledger[c] = Null
  /\ ledger' = [ledger EXCEPT ![c] = RotatedPayload(ledger[t], t)]
  /\ UNCHANGED serving

(* Requests end: answered, rejected, or lost with their process.           *)
Leave(R) ==
  /\ serving' = [r \in Reqs |-> IF r \in R THEN Null ELSE serving[r]]
  /\ UNCHANGED ledger

Next ==
  \/ \E u \in UserIds, t \in Tokens : Open(u, t)
  \/ \E r \in Reqs, u \in UserIds, t \in Tokens : Admit(r, u, t)
  \/ \E r \in Reqs, u \in UserIds, t, c \in Tokens : Continue(r, u, t, c)
  \/ \E R \in SUBSET Reqs : Leave(R)

Spec == Init /\ [][Next]_<<ledger, serving>>
=============================================================================
