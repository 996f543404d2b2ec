----------------------------- MODULE EventFeed -----------------------------
(***************************************************************************)
(* What the in-memory event log of internal/events promises: the last     *)
(* Capacity events that were appended, oldest first; after a restart, the *)
(* last Capacity events that were persisted, or none when they cannot be  *)
(* read.                                                                  *)
(***************************************************************************)
EXTENDS Integers, Sequences

CONSTANTS Events, Capacity

VARIABLES
    feed,       \* what can be read
    persisted,  \* the table
    epoch       \* how often the process was started again

LastOf(s, n) == SubSeq(s, IF Len(s) > n THEN Len(s) - n + 1 ELSE 1, Len(s))

Init == feed = << >> /\ persisted = << >> /\ epoch = 0

Persist(e) == persisted' = Append(persisted, e) /\ UNCHANGED <<feed, epoch>>

Push(e) == feed' = LastOf(Append(feed, e), Capacity) /\ UNCHANGED <<persisted, epoch>>

Reload ==
    /\ epoch' = epoch + 1
    /\ feed' \in {LastOf(persisted, Capacity), << >>} /\ UNCHANGED persisted

Next == (\E e \in Events : Persist(e) \/ Push(e)) \/ Reload

Spec == Init /\ [][Next]_<<feed, persisted, epoch>>

=============================================================================
