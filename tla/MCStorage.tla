----------------------------- MODULE MCStorage -----------------------------
(* Small instances of Storage for TLC. *)
EXTENDS Storage, TLC

CONSTANT events

OneStore == <<events>>

(* Processes that open any old registry at the same time, fail and crash; a   *)
(* backup and restores by the handbook with crashes between any two steps; a  *)
(* restore beside the running server.                                         *)
AllEnvironments == {
    [may |-> {"commands", "overlap", "busy", "crash"}, versions |-> {0, 1, 3, 6}],
    [may |-> {"commands", "backup", "crash", "short"}, versions |-> {6}],
    [may |-> {"backup", "live"}, versions |-> {6}]}

=============================================================================
