----------------------------- MODULE MCAskQuery -----------------------------
(***************************************************************************)
(* GetAsks over three listed miners, two of them with power, and a        *)
(* throttle of one slot, so a launcher blocks until a worker releases.     *)
(***************************************************************************)
EXTENDS AskQuery

CONSTANTS m1, m2, m3

MCMinerList == <<m1, m2, m3>>
MCPowered == {m1, m2}

=============================================================================
