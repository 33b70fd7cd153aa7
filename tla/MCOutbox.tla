------------------------------- MODULE MCOutbox -------------------------------
(* Two workers, a security mail bound to the account and an older row that  *)
(* names the address only, while the address is released.                   *)
EXTENDS Outbox

CONSTANTS reset, legacy

MCMessages == {reset, legacy}
MCPriority == [m \in Messages |-> IF m = reset THEN 2 ELSE 1]
=============================================================================
