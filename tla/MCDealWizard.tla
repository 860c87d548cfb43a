---------------------------- MODULE MCDealWizard ----------------------------
(***************************************************************************)
(* Small instances of the deal wizard: two miners, one admitting only     *)
(* small pieces and one admitting both sizes, so the size filter matters.  *)
(***************************************************************************)
EXTENDS DealWizard, TLC

CONSTANTS m1, m2, bad

MCMiners == {m1, m2}
MCMinSize == (m1 :> 1) @@ (m2 :> 1)
MCMaxSize == (m1 :> 1) @@ (m2 :> 2)

\* Deal counts the user answers with.
PositiveCounts == {1, 2, 3}
AnyCounts == {0, 1, 3}

=============================================================================
