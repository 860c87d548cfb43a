---------------------------- MODULE MCBlockstore ----------------------------
EXTENDS Blockstore, TLC

CONSTANTS c1, c2, c3

MCCids == {c1, c2, c3}
\* One block with empty data.
OneEmptySize == (c1 :> 0) @@ (c2 :> 2) @@ (c3 :> 1)
=============================================================================
