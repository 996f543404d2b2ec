--------------------------- MODULE MCCloudAccess ---------------------------
EXTENDS CloudAccess, TLC

CONSTANTS a, b, t1, r1

(* Two edits at one instant, time to expire, or store calls that fail. *)
EditsTimeOrErrors ==
    {[now |-> 0, edits |-> 2, slips |-> 0],
     [now |-> 4, edits |-> 0, slips |-> 0],
     [now |-> 0, edits |-> 0, slips |-> 2]}

Symmetry == Permutations(Slugs)

=============================================================================
