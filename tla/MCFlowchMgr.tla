---------------------------- MODULE MCFlowchMgr ----------------------------
(* Model-checking instance of FlowchMgr: two lanes, amounts up to 3.       *)
EXTENDS FlowchMgr

MCLanes == {0, 1}

\* Only the states a bounded behaviour can reach.
StateBound == lastMsg <= MaxRequests
=============================================================================
