--------------------------- MODULE MCRuntimeBridge ---------------------------
(* Requests and adjustments are interchangeable.                             *)
EXTENDS RuntimeBridge, TLC

Symmetry == Permutations(Ids) \cup Permutations(Patches)
=============================================================================
