--------------------------- MODULE MCCredentials ---------------------------
(* Two keys, requests of every kind, and a recovery's runner. *)
EXTENDS Credentials, TLC

CONSTANTS a, b, x, y, z, r

Symmetric == Permutations(Ops) \cup Permutations(Initial)
=============================================================================
