--------------------------- MODULE MCProvisioner ---------------------------
(* Small instances of Provisioner for TLC. *)
EXTENDS ProvisionerLifecycle, TLC

(* Requests and instance IDs are interchangeable: no action compares them
   other than by equality.  Used by the safety runs only. *)
Symmetry == Permutations(Requests) \cup Permutations(Ids)

=============================================================================
