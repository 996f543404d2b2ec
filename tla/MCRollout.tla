----------------------------- MODULE MCRollout -----------------------------
(* Small instances of Rollout for TLC: a good image besides the first one and
   a bad one. *)
EXTENDS Rollout, TLC

CONSTANTS a, b

OrderTwo == <<a, b>>

Symmetry == Permutations(Jobs)

=============================================================================
