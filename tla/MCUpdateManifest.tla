--------------------------- MODULE MCUpdateManifest ---------------------------
(* UpdateManifest for TLC. *)
EXTENDS UpdateManifest, TLC

Interchangeable == Permutations(Requests)
=============================================================================
