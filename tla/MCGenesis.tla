----------------------------- MODULE MCGenesis -----------------------------
(***************************************************************************)
(* Small genesis allocations: three keys, preseal files of one and two     *)
(* miners, CSV files of multisigs, and the special multisigs of            *)
(* gen_actors.go (one signer, threshold 1) with balances scaled down.      *)
(***************************************************************************)
EXTENDS Genesis, TLC

CONSTANTS k1, k2, k3

MCKeys == {k1, k2, k3}

\* The specials all share one signer, as in gen_actors.go.
MCSpecial ==
    LET ms(b) == [type |-> "multisig", signers |-> <<k1>>, threshold |-> 1,
                  balance |-> b]
    IN [governor |-> ms(0), fundraising |-> ms(2), team |-> ms(1),
        foundation |-> ms(0)]

\* Preseal files holding the next miner ids, 1 and 2.
NextPreseals ==
    { {[id |-> 1, owner |-> k2]},
      {[id |-> 1, owner |-> k2], [id |-> 2, owner |-> k3]} }

\* Two miners of one owner, added one file at a time.
SharedOwnerPreseals ==
    { {[id |-> 1, owner |-> k2]}, {[id |-> 2, owner |-> k2]} }

\* Well-formed multisig rows, and one row whose N does not match.
GoodCsvs ==
    { <<[addrs |-> <<k1, k2>>, n |-> 2, m |-> 1, amount |-> 1]>>,
      <<[addrs |-> <<k3>>, n |-> 2, m |-> 1, amount |-> 1]>> }

\* A row asking for more approvals than it has signers.
HighThresholdCsvs ==
    { <<[addrs |-> <<k2>>, n |-> 1, m |-> 2, amount |-> 1]>> }
=============================================================================
