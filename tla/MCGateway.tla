------------------------------ MODULE MCGateway ------------------------------
(* Gateway for TLC: clients make proofs at the first instant. *)
EXTENDS Gateway

EarlySalt == {0}
=============================================================================
