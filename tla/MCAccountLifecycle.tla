-------------------------- MODULE MCAccountLifecycle --------------------------
(* One API; the account is disabled and enabled while its request is        *)
(* approved, revoked and recovered.                                         *)
EXTENDS AccountLifecycle

CONSTANTS api, r1, r2, c1, c2

MCApis == {api}
MCApiOf == [r \in Requests |-> api]
MCSubmits == [c \in Clients |-> IF c = c1 THEN r1 ELSE r2]
=============================================================================
