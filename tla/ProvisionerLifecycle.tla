----------------------- MODULE ProvisionerLifecycle ------------------------
(* Provisioner implements Lifecycle. *)
EXTENDS Provisioner

(* The proxy reaches a user's instance when the row is running and the       *)
(* container that was made with it is up on the row's port.                  *)
Reachable(i) ==
    /\ row[i].status = "running" /\ con[i].state = "running"
    /\ con[i].port = row[i].port /\ con[i].token = row[i].token

StageOf(l) ==
    CASE l = "new" -> "none"
      [] l \in CreatePcs -> "create"
      [] l \in DestroyPcs -> "destroy"
      [] l = "ok" -> "ok"
      [] l \in {"rejected", "failed"} -> "refused"
      [] l = "gone" -> "gone"
      [] l = "dfailed" -> "kept"
      [] OTHER -> "lost"

L == INSTANCE Lifecycle WITH
        serving <- [i \in Ids |-> IF Reachable(i) THEN row[i].token ELSE None],
        stage <- [o \in Requests |-> StageOf(pc[o])],
        target <- [o \in Requests |-> req[o].id]

(* Provision and Destroy, call by call and with every failure, crash and      *)
(* graceful shutdown between two calls, keep the contract of Lifecycle: an    *)
(* instance comes into service by its own create and leaves it by a destroy,  *)
(* never because of another request, and every answer is true (the handlers   *)
(* of panel/api/handlers.go, service.Provision and service.Destroy), while    *)
(* operations on an instance take turns.                                      *)
RefinesLifecycle == L!Spec

=============================================================================
