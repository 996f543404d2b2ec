---------------------------- MODULE Provisioner ----------------------------
(***************************************************************************)
(* Provisioning and destroying Fox instances: internal/provisioner,       *)
(* the panel handlers that call it, the instance rows of                  *)
(* internal/registry and the calls of plugins/docker they make.           *)
(*                                                                         *)
(* Each request is one HTTP call or one CLI invocation and is used once;   *)
(* it also stands for the random tokens its Provision call generates, so  *)
(* a row, a container or a data directory that carries request o was made *)
(* by o.  One action is one call that another goroutine, another process  *)
(* or a crash can be ordered against: an SQL statement, a filesystem call *)
(* or a Docker API call.                                                  *)
(***************************************************************************)
EXTENDS Integers, FiniteSets

CONSTANTS
    Requests,         \* HTTP calls and CLI invocations
    Ids,              \* instance IDs
    Procs,            \* fox-control processes: the server, and one per CLI invocation
    Server,           \* the `fox-control serve` process
    None,             \* no token, no target, no lock holder
    PortRangeStart,   \* instances.port_start
    MaxPortScan,      \* ports allocatePort scans
    MaxInstances,     \* instances.max_instances
    RegistryRetries,  \* attempts of retryUpdateStatus
    Faults,           \* classes of failure the environment may inject
    Overlap           \* may operations on one instance overlap, other than panel creates?

FaultClasses == {"registry", "fs", "docker", "health", "cleanup", "crash"}

ASSUME ConstantsAssumption ==
    /\ IsFiniteSet(Procs)
    /\ IsFiniteSet(Ids)
    /\ Server \in Procs
    /\ None \notin Requests \cup Ids \cup Procs
    /\ {"absent", "present"} \cap Requests = {}
    /\ PortRangeStart \in Nat \ {0}
    /\ MaxPortScan \in Nat
    /\ MaxInstances \in Nat \ {0}
    /\ RegistryRetries \in Nat \ {0}
    /\ Faults \subseteq FaultClasses
    /\ Overlap \in BOOLEAN

VARIABLES
    row,       \* the instances table: id -> port, status, tokens
    con,       \* Docker's containers, by name fox-<id>
    dir,       \* instance data directories: absent, present, or holding o's secrets
    inFlight,  \* Server.inFlight: IDs with a panel create under way
    mu,        \* service.mu of each process: its holder
    phase,     \* the server process: up, draining, down
    pc,        \* where each request is
    req,       \* its target and its process
    port,      \* the port its Provision call allocated
    tries      \* failed attempts of its retryUpdateStatus

vars == <<row, con, dir, inFlight, mu, phase, pc, req, port, tries>>

-----------------------------------------------------------------------------
PortRange == PortRangeStart .. (PortRangeStart + MaxPortScan - 1)

Token == Requests \cup {None}
RowStatus == {"absent", "provisioning", "running"}
ConState == {"absent", "created", "running", "stopped"}

Row == [port : PortRange \cup {0}, status : RowStatus, token : Token]
Container == [port : PortRange \cup {0}, state : ConState, token : Token]
DataDir == {"absent", "present"} \cup Requests
Request == [id : Ids \cup {None}, proc : Procs \cup {None}, rm : BOOLEAN]

NoRow == [port |-> 0, status |-> "absent", token |-> None]
NoCon == [port |-> 0, state |-> "absent", token |-> None]

\* Provision before and inside the critical section, after it, in rollback; Destroy
HandlerPcs == {"get", "list"}
CriticalPcs == {"ports", "insert"}
DeployPcs == {"mkdir", "config", "create", "start", "health", "status"}
RollbackPcs == {"rbstop", "rbremove", "rbdir", "rbrow"}
ReturnPcs == {"okret", "errret"}
DestroyPcs == {"dstop", "dremove", "ddir", "drow"}
FinalPcs == {"rejected", "ok", "failed", "killed", "gone", "dfailed", "dkilled"}

\* The goroutine handleCreate spawns, counted by Server.wg
BackgroundPcs == {"spawned"} \cup CriticalPcs \cup DeployPcs \cup RollbackPcs \cup ReturnPcs
CreatePcs == HandlerPcs \cup BackgroundPcs
LivePcs == CreatePcs \cup DestroyPcs
Pcs == {"new"} \cup LivePcs \cup FinalPcs

Live(o) == pc[o] \in LivePcs

TypeOK ==
    /\ row \in [Ids -> Row]
    /\ con \in [Ids -> Container]
    /\ dir \in [Ids -> DataDir]
    /\ inFlight \subseteq Ids
    /\ mu \in [Procs -> Token]
    /\ phase \in {"up", "draining", "down"}
    /\ pc \in [Requests -> Pcs]
    /\ req \in [Requests -> Request]
    /\ port \in [Requests -> PortRange \cup {0}]
    /\ tries \in [Requests -> 0 .. RegistryRetries]

Init ==
    /\ row = [i \in Ids |-> NoRow]
    /\ con = [i \in Ids |-> NoCon]
    /\ dir = [i \in Ids |-> "absent"]
    /\ inFlight = {}
    /\ mu = [p \in Procs |-> None]
    /\ phase = "up"
    /\ pc = [o \in Requests |-> "new"]
    /\ req = [o \in Requests |-> [id |-> None, proc |-> None, rm |-> FALSE]]
    /\ port = [o \in Requests |-> 0]
    /\ tries = [o \in Requests |-> 0]

-----------------------------------------------------------------------------
(* The registry's queries *)

Present(i) == row[i].status # "absent"
Registered == {i \in Ids : Present(i)}
UsedPorts == {row[i].port : i \in Registered}

(* The lowest port of the scanned range that is not used, if there is one. *)
allocatePort(used) ==
    {p \in PortRange \ used : \A q \in PortRange : q < p => q \in used}

-----------------------------------------------------------------------------
(* Helpers on rows, containers and the state of a request *)

WithStatus(r, s) == [port |-> r.port, status |-> s, token |-> r.token]
WithState(c, s) == [port |-> c.port, state |-> s, token |-> c.token]

Goto(o, l) == pc' = [pc EXCEPT ![o] = l]
Target(o, i, p, rm) == req' = [req EXCEPT ![o] = [id |-> i, proc |-> p, rm |-> rm]]
Unlock(o) == mu' = [mu EXCEPT ![req[o].proc] = None]

(* A CLI command is a process of its own; the server takes requests while up. *)
CanSubmit(o, p) ==
    /\ pc[o] = "new"
    /\ IF p = Server THEN phase = "up"
                     ELSE \A x \in Requests : req[x].proc # p

LiveOn(i) == {o \in Requests : Live(o) /\ req[o].id = i}

(* Without Overlap an instance has one operation at a time, except that the *)
(* panel may receive several creates for it.                               *)
MayDestroy(i) == Overlap \/ LiveOn(i) = {}
MayCliCreate(i) == Overlap \/ LiveOn(i) = {}
MayPanelCreate(i) ==
    Overlap \/ \A o \in LiveOn(i) : pc[o] \in CreatePcs /\ req[o].proc = Server

-----------------------------------------------------------------------------
(* Creating an instance: the panel handler *)

NoInFlightCheck(i) == TRUE
NotInFlight(i) == i \notin inFlight

HandleCreate(o, i) ==
    /\ CanSubmit(o, Server) /\ MayPanelCreate(i)
    /\ Target(o, i, Server, FALSE)
    /\ \/ /\ NotInFlight(i)
          /\ inFlight' = inFlight \cup {i}
          /\ Goto(o, "get")
       \/ /\ ~NotInFlight(i)
          /\ Goto(o, "rejected")
          /\ UNCHANGED inFlight
    /\ UNCHANGED <<row, con, dir, mu, phase, port, tries>>

KeepInFlight(o) == UNCHANGED inFlight
ClearInFlight(o) ==
    inFlight' = IF req[o].proc = Server THEN inFlight \ {req[o].id} ELSE inFlight

(* registry.Get: only a row that is found rejects the request. *)
CheckExists(o) ==
    /\ pc[o] = "get"
    /\ \/ Present(req[o].id) /\ Goto(o, "rejected") /\ ClearInFlight(o)
       \/ /\ ~Present(req[o].id) \/ "registry" \in Faults
          /\ Goto(o, "list")
          /\ UNCHANGED inFlight
    /\ UNCHANGED <<row, con, dir, mu, phase, req, port, tries>>

AtMostCap == Cardinality(Registered) <= MaxInstances
UnderCap == Cardinality(Registered) < MaxInstances

(* registry.List and the cap, then the background goroutine. *)
CheckCap(o) ==
    /\ pc[o] = "list"
    /\ \/ UnderCap /\ Goto(o, "spawned") /\ UNCHANGED inFlight
       \/ /\ ~UnderCap \/ "registry" \in Faults
          /\ Goto(o, "rejected")
          /\ ClearInFlight(o)
    /\ UNCHANGED <<row, con, dir, mu, phase, req, port, tries>>

(* `fox-control provision` calls the provisioner directly. *)
CliProvision(o, i, p) ==
    /\ p # Server /\ CanSubmit(o, p) /\ MayCliCreate(i)
    /\ Target(o, i, p, FALSE)
    /\ Goto(o, "spawned")
    /\ UNCHANGED <<row, con, dir, inFlight, mu, phase, port, tries>>

-----------------------------------------------------------------------------
(* provisioner.Provision: the critical section under service.mu *)

NoLock(p) == TRUE
LockFree(p) == mu[p] = None

NeverTaken(i) == FALSE
IdTaken(i) == Present(i)

(* Before the row is reserved an error returns as it is, with no rollback. *)
RollbackOnRefusal == "rbrow"
Refusal == "errret"

LockAndList(o) ==
    /\ pc[o] = "spawned" /\ LockFree(req[o].proc)
    /\ \/ /\ UnderCap /\ ~IdTaken(req[o].id)
          /\ mu' = [mu EXCEPT ![req[o].proc] = o]
          /\ Goto(o, "ports")
       \/ /\ ~UnderCap \/ IdTaken(req[o].id) \/ "registry" \in Faults
          /\ Goto(o, Refusal)
          /\ UNCHANGED mu
    /\ UNCHANGED <<row, con, dir, inFlight, phase, req, port, tries>>

AllocatePort(o) ==
    /\ pc[o] = "ports"
    /\ \/ /\ \E p \in allocatePort(UsedPorts) : port' = [port EXCEPT ![o] = p]
          /\ Goto(o, "insert")
          /\ UNCHANGED mu
       \/ /\ allocatePort(UsedPorts) = {} \/ "registry" \in Faults
          /\ Goto(o, "errret")
          /\ Unlock(o)
          /\ UNCHANGED port
    /\ UNCHANGED <<row, con, dir, inFlight, phase, req, tries>>

(* The UNIQUE constraint on port; the row of the same id is overwritten. *)
PortTaken(i, p) == \E j \in Registered \ {i} : row[j].port = p

(* registry.Create, an upsert, and the unlock. *)
ReserveRow(o) ==
    /\ pc[o] = "insert"
    /\ \/ /\ ~PortTaken(req[o].id, port[o])
          /\ row' = [row EXCEPT ![req[o].id] =
                        [port |-> port[o], status |-> "provisioning", token |-> o]]
          /\ Goto(o, "mkdir")
       \/ /\ PortTaken(req[o].id, port[o]) \/ "registry" \in Faults
          /\ Goto(o, "errret")
          /\ UNCHANGED row
    /\ Unlock(o)
    /\ UNCHANGED <<con, dir, inFlight, phase, req, port, tries>>

-----------------------------------------------------------------------------
(* provisioner.Provision: deployment *)

(* Where rollback(destroyContainer) starts. *)
RollbackNoContainer(destroyContainer) == "rbdir"
RollbackNoDir(destroyContainer) == IF destroyContainer THEN "rbstop" ELSE "rbrow"
rollback(destroyContainer) == IF destroyContainer THEN "rbstop" ELSE "rbdir"

MakeDir(o) ==
    /\ pc[o] = "mkdir"
    /\ \/ /\ dir' = [dir EXCEPT ![req[o].id] = IF @ = "absent" THEN "present" ELSE @]
          /\ Goto(o, "config")
       \/ /\ "fs" \in Faults
          /\ Goto(o, rollback(FALSE))
          /\ UNCHANGED dir
    /\ UNCHANGED <<row, con, inFlight, mu, phase, req, port, tries>>

(* Skillset copy, config.Inject and MarkOnboardingComplete: the secrets are *)
(* written first, so a failure may come before or after them.               *)
InjectConfig(o) ==
    /\ pc[o] = "config"
    /\ \/ /\ dir' = [dir EXCEPT ![req[o].id] = o]
          /\ Goto(o, "create")
       \/ /\ "fs" \in Faults
          /\ Goto(o, rollback(FALSE))
          /\ dir' \in {dir, [dir EXCEPT ![req[o].id] = o]}
    /\ UNCHANGED <<row, con, inFlight, mu, phase, req, port, tries>>

ReuseContainer == "health"
OnNameConflict == rollback(TRUE)

(* Docker: pull, and create under a name that must be free. *)
DockerCreate(o) ==
    /\ pc[o] = "create"
    /\ \/ /\ con[req[o].id].state = "absent"
          /\ con' = [con EXCEPT ![req[o].id] =
                        [port |-> port[o], state |-> "created", token |-> o]]
          /\ Goto(o, "start")
       \/ /\ con[req[o].id].state # "absent"
          /\ Goto(o, OnNameConflict)
          /\ UNCHANGED con
       \/ "docker" \in Faults /\ Goto(o, rollback(TRUE)) /\ UNCHANGED con
    /\ UNCHANGED <<row, dir, inFlight, mu, phase, req, port, tries>>

(* Docker binds 127.0.0.1:port when the container starts. *)
Bound(p) == \E j \in Ids : con[j].state = "running" /\ con[j].port = p

(* Docker: start the container created, by its Docker ID; a missing bind   *)
(* source is made by the daemon.                                           *)
DockerStart(o) ==
    /\ pc[o] = "start"
    /\ \/ /\ con[req[o].id].token = o /\ con[req[o].id].state # "running"
          /\ ~Bound(port[o])
          /\ con' = [con EXCEPT ![req[o].id] = WithState(@, "running")]
          /\ dir' = [dir EXCEPT ![req[o].id] = IF @ = "absent" THEN "present" ELSE @]
          /\ Goto(o, "health")
       \/ /\ \/ con[req[o].id].token # o
             \/ Bound(port[o])
             \/ "docker" \in Faults
          /\ Goto(o, rollback(TRUE))
          /\ UNCHANGED <<con, dir>>
    /\ UNCHANGED <<row, inFlight, mu, phase, req, port, tries>>

(* pollHealth probes the port, whichever container answers there. *)
PollHealth(o) ==
    /\ pc[o] = "health"
    /\ \/ Bound(port[o]) /\ Goto(o, "status")
       \/ (~Bound(port[o]) \/ "health" \in Faults) /\ Goto(o, rollback(TRUE))
    /\ UNCHANGED <<row, con, dir, inFlight, mu, phase, req, port, tries>>

MoreRetries(n) == n + 1 < RegistryRetries

(* retryUpdateStatus("running"): by id, up to RegistryRetries attempts. *)
SetRunning(o) ==
    /\ pc[o] = "status"
    /\ \/ /\ Present(req[o].id)
          /\ row' = [row EXCEPT ![req[o].id] = WithStatus(@, "running")]
          /\ Goto(o, "okret")
          /\ UNCHANGED tries
       \/ /\ ~Present(req[o].id) \/ "registry" \in Faults
          /\ tries' = [tries EXCEPT ![o] = @ + 1]
          /\ Goto(o, IF MoreRetries(tries[o]) THEN "status" ELSE rollback(TRUE))
          /\ UNCHANGED row
    /\ UNCHANGED <<con, dir, inFlight, mu, phase, req, port>>

(* Provision returns and the deferred clearInFlight runs. *)
Return(o) ==
    /\ pc[o] \in ReturnPcs
    /\ Goto(o, IF pc[o] = "okret" THEN "ok" ELSE "failed")
    /\ ClearInFlight(o)
    /\ UNCHANGED <<row, con, dir, mu, phase, req, port, tries>>

-----------------------------------------------------------------------------
(* plugin.Destroy is a stop and then a remove without force; both take a    *)
(* container that is not there for done.                                    *)

Stopped(c) == IF c.state = "running" THEN WithState(c, "stopped") ELSE c
Removable(c) == c.state # "running"

(* provisioner.rollback: every error is ignored. *)
RollbackStop(o) ==
    /\ pc[o] = "rbstop"
    /\ \/ /\ con' = [con EXCEPT ![req[o].id] = Stopped(@)]
          /\ Goto(o, "rbremove")
       \/ "cleanup" \in Faults /\ Goto(o, "rbdir") /\ UNCHANGED con
    /\ UNCHANGED <<row, dir, inFlight, mu, phase, req, port, tries>>

RollbackRemove(o) ==
    /\ pc[o] = "rbremove"
    /\ Goto(o, "rbdir")
    /\ \/ Removable(con[req[o].id]) /\ con' = [con EXCEPT ![req[o].id] = NoCon]
       \/ (~Removable(con[req[o].id]) \/ "cleanup" \in Faults) /\ UNCHANGED con
    /\ UNCHANGED <<row, dir, inFlight, mu, phase, req, port, tries>>

RollbackDir(o) ==
    /\ pc[o] = "rbdir"
    /\ Goto(o, "rbrow")
    /\ \/ dir' = [dir EXCEPT ![req[o].id] = "absent"]
       \/ "cleanup" \in Faults /\ UNCHANGED dir
    /\ UNCHANGED <<row, con, inFlight, mu, phase, req, port, tries>>

RollbackRow(o) ==
    /\ pc[o] = "rbrow"
    /\ Goto(o, "errret")
    /\ \/ row' = [row EXCEPT ![req[o].id] = NoRow]
       \/ "cleanup" \in Faults /\ UNCHANGED row
    /\ UNCHANGED <<con, dir, inFlight, mu, phase, req, port, tries>>

-----------------------------------------------------------------------------
(* provisioner.Destroy, from the panel or from `fox-control destroy`: no    *)
(* lock and no in-flight check.                                             *)

BeginDestroy(o, i, p, rm) ==
    /\ CanSubmit(o, p) /\ MayDestroy(i)
    /\ Target(o, i, p, rm)
    /\ \/ Present(i) /\ Goto(o, "dstop")
       \/ (~Present(i) \/ "registry" \in Faults) /\ Goto(o, "dfailed")
    /\ UNCHANGED <<row, con, dir, inFlight, mu, phase, port, tries>>

DestroyStop(o) ==
    /\ pc[o] = "dstop"
    /\ \/ /\ con' = [con EXCEPT ![req[o].id] = Stopped(@)]
          /\ Goto(o, "dremove")
       \/ "docker" \in Faults /\ Goto(o, "dfailed") /\ UNCHANGED con
    /\ UNCHANGED <<row, dir, inFlight, mu, phase, req, port, tries>>

DestroyRemove(o) ==
    /\ pc[o] = "dremove"
    /\ \/ /\ Removable(con[req[o].id])
          /\ con' = [con EXCEPT ![req[o].id] = NoCon]
          /\ Goto(o, IF req[o].rm THEN "ddir" ELSE "drow")
       \/ /\ ~Removable(con[req[o].id]) \/ "docker" \in Faults
          /\ Goto(o, "dfailed")
          /\ UNCHANGED con
    /\ UNCHANGED <<row, dir, inFlight, mu, phase, req, port, tries>>

DestroyDir(o) ==
    /\ pc[o] = "ddir"
    /\ \/ dir' = [dir EXCEPT ![req[o].id] = "absent"] /\ Goto(o, "drow")
       \/ "fs" \in Faults /\ Goto(o, "dfailed") /\ UNCHANGED dir
    /\ UNCHANGED <<row, con, inFlight, mu, phase, req, port, tries>>

DestroyRow(o) ==
    /\ pc[o] = "drow"
    /\ \/ /\ Present(req[o].id)
          /\ row' = [row EXCEPT ![req[o].id] = NoRow]
          /\ Goto(o, "gone")
       \/ /\ ~Present(req[o].id) \/ "registry" \in Faults
          /\ Goto(o, "dfailed")
          /\ UNCHANGED row
    /\ UNCHANGED <<con, dir, inFlight, mu, phase, req, port, tries>>

-----------------------------------------------------------------------------
(* Processes: graceful shutdown, crash, restart *)

OfProc(p) == {o \in Requests : Live(o) /\ req[o].proc = p}

Kill(p) ==
    /\ pc' = [o \in Requests |->
                 IF o \notin OfProc(p) THEN pc[o]
                 ELSE IF pc[o] \in DestroyPcs THEN "dkilled" ELSE "killed"]
    /\ mu' = [mu EXCEPT ![p] = None]

(* SIGTERM: the listener closes. *)
Shutdown ==
    /\ phase = "up"
    /\ phase' = "draining"
    /\ UNCHANGED <<row, con, dir, inFlight, mu, pc, req, port, tries>>

NoWait == {}
Background == {o \in OfProc(Server) : pc[o] \in BackgroundPcs}

(* ListenAndServe returns as soon as Shutdown is called, so the process ends *)
(* when Server.wg is empty; handlers that are still running are lost.        *)
Exit ==
    /\ phase = "draining"
    /\ Background = {}
    /\ phase' = "down"
    /\ inFlight' = {}
    /\ Kill(Server)
    /\ UNCHANGED <<row, con, dir, req, port, tries>>

Crash(p) ==
    /\ "crash" \in Faults
    /\ p = Server => phase # "down"
    /\ OfProc(p) # {}
    /\ phase' = IF p = Server THEN "down" ELSE phase
    /\ inFlight' = IF p = Server THEN {} ELSE inFlight
    /\ Kill(p)
    /\ UNCHANGED <<row, con, dir, req, port, tries>>

(* `fox-control serve` again: nothing reconciles rows left behind. *)
Restart ==
    /\ phase = "down"
    /\ phase' = "up"
    /\ UNCHANGED <<row, con, dir, inFlight, mu, pc, req, port, tries>>

-----------------------------------------------------------------------------
Submit(o) ==
    \/ \E i \in Ids : HandleCreate(o, i)
    \/ \E i \in Ids, p \in Procs : CliProvision(o, i, p)
    \/ \E i \in Ids, p \in Procs, rm \in BOOLEAN : BeginDestroy(o, i, p, rm)

(* The next call a request that has been submitted makes. *)
Step(o) ==
    \/ CheckExists(o) \/ CheckCap(o)
    \/ LockAndList(o) \/ AllocatePort(o) \/ ReserveRow(o)
    \/ MakeDir(o) \/ InjectConfig(o)
    \/ DockerCreate(o) \/ DockerStart(o) \/ PollHealth(o) \/ SetRunning(o)
    \/ RollbackStop(o) \/ RollbackRemove(o) \/ RollbackDir(o) \/ RollbackRow(o)
    \/ Return(o)
    \/ DestroyStop(o) \/ DestroyRemove(o) \/ DestroyDir(o) \/ DestroyRow(o)

Next ==
    \/ \E o \in Requests : Submit(o) \/ Step(o)
    \/ \E p \in Procs : Crash(p)
    \/ Shutdown \/ Exit \/ Restart

Spec == Init /\ [][Next]_vars

(* Goroutines that can run are run: every call returns, and a mutex that    *)
(* stays free is acquired.  Requests, faults and signals are not promised.  *)
FairSpec == Spec /\ \A o \in Requests : WF_vars(Step(o))

-----------------------------------------------------------------------------
(* Properties *)

(* The cap (provisioner.go: cap check and registry reserve under service.mu):
   the registry never holds more than max_instances rows.  Holds when the
   server is the only process that provisions. *)
CapRespected == Cardinality(Registered) <= MaxInstances

(* The same with CLI processes, each with a service.mu of its own: each of
   them can push the registry at most one row over the cap. *)
CapBound == Cardinality(Registered) <= MaxInstances + Cardinality(Procs) - 1

(* The port read from UsedPorts is still free when registry.Create inserts it:
   under one service.mu the UNIQUE constraint on port is never hit. *)
FreshPort == \A o \in Requests : pc[o] = "insert" => port[o] \notin UsedPorts

(* inFlight and the exists-check make one panel create the owner of an
   instance: no two goroutines are ever deploying or rolling back the same id,
   whatever destroys, failures and restarts they meet. *)
Owning == DeployPcs \cup RollbackPcs
SoleOwner ==
    \A o, x \in Requests :
        pc[o] \in Owning /\ pc[x] \in Owning /\ req[o].id = req[x].id => o = x

(* What Provision's success promises: as long as no destroy of the instance
   was asked for, its row is running and the container it names is up on the
   row's port with the row's tokens and configuration. *)
DestroyAsked(i) ==
    \E d \in Requests : req[d].id = i /\ pc[d] \in DestroyPcs \cup {"gone", "dfailed", "dkilled"}
Served(o, i) ==
    /\ row[i] = [port |-> port[o], status |-> "running", token |-> o]
    /\ con[i] = [port |-> port[o], state |-> "running", token |-> o]
    /\ dir[i] = o
SuccessMeansServed ==
    \A o \in Requests :
        pc[o] = "ok" /\ ~DestroyAsked(req[o].id) => Served(o, req[o].id)

(* "If provisioning fails at any stage after the data directory is created ...
   No secret material persists after a failed provision": a Provision call that
   returned an error has left no row, container or secrets of its own. *)
FailedLeavesNothing ==
    \A o \in Requests : pc[o] = "failed" =>
        \A i \in Ids : row[i].token # o /\ con[i].token # o /\ dir[i] # o

(* No leak: a container exists only for a registered instance or while an
   operation on the instance is under way, so the ports the registry counts
   as free are free. *)
NoOrphan ==
    \A i \in Ids : con[i].state # "absent" => Present(i) \/ LiveOn(i) # {}

(* The proxy sends a user, with the row's plane token, to the port of a
   running row: if the instance has a container at all it is the one that row
   was made with, whatever races and failures came before. *)
RowMatchesContainer ==
    \A i \in Ids :
        row[i].status = "running" /\ con[i].state # "absent" =>
            con[i].port = row[i].port /\ con[i].token = row[i].token

(* An accepted create ends: its goroutine returns and the in-flight mark of
   its id is cleared (the deferred clearInFlight), or the process is gone. *)
InFlightCleared == \A i \in Ids : (i \in inFlight) ~> (i \notin inFlight)

(* A reserved row does not stay "provisioning": it becomes running or goes
   away, graceful shutdowns included (Server.Wait). *)
ProvisioningResolves ==
    \A i \in Ids : (row[i].status = "provisioning") ~> (row[i].status # "provisioning")

=============================================================================
