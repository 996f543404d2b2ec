------------------------------ MODULE MCPoller ------------------------------
(* A small instance of Poller for TLC. *)
EXTENDS Poller

CONSTANTS a, b

=============================================================================
