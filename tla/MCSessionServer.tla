-------------------------- MODULE MCSessionServer ---------------------------
(* Small instances of SessionServer for TLC.                               *)
EXTENDS SessionServer, TLC

CONSTANTS FreshIds   \* the tokens that randomUUID may return

(* Fresh tokens, request slots, processes and users are interchangeable.   *)
Symmetry ==
  Permutations(FreshIds) \cup Permutations(Reqs) \cup Permutations(Procs)
    \cup Permutations(UserIds)
=============================================================================
