----------------------------- MODULE Lifecycle -----------------------------
(* What the provisioner promises those who call it, instance by instance:    *)
(* an instance serves from the moment its create is done until a destroy     *)
(* stops it, and the answer a caller gets is the truth about it.             *)
CONSTANTS Requests, Ids, None

VARIABLES
    serving,   \* [Ids -> the create whose instance serves users, or None]
    stage,     \* [Requests -> "none", "create", "destroy", or how it ended]
    target     \* [Requests -> the instance it is about, or None]

vars == <<serving, stage, target>>

Init ==
    /\ serving = [i \in Ids |-> None]
    /\ stage = [r \in Requests |-> "none"]
    /\ target = [r \in Requests |-> None]

Ends(r, from, as) == stage[r] = from /\ stage' = [stage EXCEPT ![r] = as]

(* A request is taken up, or refused at once. *)
Accept(r, i) ==
    /\ \E s \in {"create", "destroy", "refused", "kept"} : Ends(r, "none", s)
    /\ target' = [target EXCEPT ![r] = i]
    /\ UNCHANGED serving

(* A create puts its instance into service where none is serving. *)
Launch(r) ==
    /\ stage[r] = "create" /\ serving[target[r]] = None
    /\ serving' = [serving EXCEPT ![target[r]] = r]
    /\ UNCHANGED <<stage, target>>

(* A destroy takes one out of service: nothing else does. *)
Retire(r) ==
    /\ stage[r] = "destroy" /\ serving[target[r]] # None
    /\ serving' = [serving EXCEPT ![target[r]] = None]
    /\ UNCHANGED <<stage, target>>

(* Success is reported of an instance that serves, failure of one that does   *)
(* not, destruction of one that no longer does; a destroy that fails may have *)
(* stopped it or not.                                                         *)
Answer(r) ==
    /\ \/ Ends(r, "create", "ok") /\ serving[target[r]] = r
       \/ Ends(r, "create", "refused") /\ serving[target[r]] # r
       \/ Ends(r, "destroy", "gone") /\ serving[target[r]] = None
       \/ Ends(r, "destroy", "kept")
    /\ UNCHANGED <<serving, target>>

(* A process ends and its requests are never answered. *)
Lose(S) ==
    /\ \A r \in S : stage[r] \in {"create", "destroy"}
    /\ stage' = [r \in Requests |-> IF r \in S THEN "lost" ELSE stage[r]]
    /\ UNCHANGED <<serving, target>>

Next ==
    \/ \E r \in Requests :
          Launch(r) \/ Retire(r) \/ Answer(r) \/ \E i \in Ids : Accept(r, i)
    \/ \E S \in SUBSET Requests : Lose(S)

Spec == Init /\ [][Next]_vars

=============================================================================
