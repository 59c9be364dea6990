------------------------------ MODULE MCRollout ------------------------------
(* Instances of Rollout for TLC. *)
EXTENDS RolloutRefinement, RolloutClaims, TLC

CONSTANTS c1, c2

Symmetry == Permutations(Requests)
==============================================================================
