------------------------ MODULE MCAccessGrantsTwoApis ------------------------
(* Two APIs with one request each: their approvals, revocations and         *)
(* recoveries meet only at the consumer they share.                         *)
EXTENDS AccessGrants, TLC

CONSTANTS apiA, apiB, rA, rB, cA, cB

MCApis == {apiA, apiB}
MCRequests == {rA, rB}
MCApiOf == rA :> apiA @@ rB :> apiB
MCClients == {cA, cB}
MCSubmits == cA :> rA @@ cB :> rB
=============================================================================
