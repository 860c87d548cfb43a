----------------------------- MODULE MCDealFind -----------------------------
EXTENDS DealFind, TLC

CONSTANTS m1, m2, m3, bad

\* Two miners with asks the user may type; m2's ask admits a piece of size
\* 2, m1's does not.  m3 is listed by StateListMiners but has no power.
MCMiners == {m1, m2}
MCMinSize == (m1 :> 1) @@ (m2 :> 1)
MCMaxSize == (m1 :> 1) @@ (m2 :> 2)
MCMinerList == <<m1, m2, m3>>
MCPowered == {m1, m2}

\* Deal counts the user may sensibly type.
PositiveCounts == {1, 2, 3}
=============================================================================
