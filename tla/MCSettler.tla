----------------------------- MODULE MCSettler -----------------------------
EXTENDS Settler

MCLanes == {0, 1}

\* The failures admitted by each run.
NoFaults == {}
PushFaults == {"push"}
WaitFaults == {"wait"}
AllFaults == {"push", "wait", "matcher"}
=============================================================================
