---------------------------- MODULE MCAccessGrants ----------------------------
(* One API and two requests of the same identity for it, with approvals and  *)
(* revocations that are interchangeable among themselves.                    *)
EXTENDS AccessGrants, TLC

CONSTANTS api, r1, r2, c1, c2, a1, v1, v2

MCApis == {api}
MCRequests == {r1, r2}
MCApiOf == [r \in Requests |-> api]
MCClients == {c1, c2}
MCSubmits == [c \in Clients |-> IF c = c1 THEN r1 ELSE r2]
MCRevokers == {v1, v2}
Symmetry == Permutations(Approvers) \cup Permutations(Revokers)
=============================================================================
