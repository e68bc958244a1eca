--------------------------- MODULE MCRiskCheckpoint ---------------------------
(* Two clients of one contract and one with another budget.                 *)
EXTENDS RiskCheckpoint, TLC

CONSTANTS owner, peer, stranger

Peers   == Permutations({owner, peer})
Budgets == (owner :> 200) @@ (peer :> 200) @@ (stranger :> 241)
=============================================================================
