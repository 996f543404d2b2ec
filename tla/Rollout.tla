------------------------------ MODULE Rollout ------------------------------
(***************************************************************************)
(* Moving instances to another image: the rolling update of               *)
(* rollout.Orchestrator (`fox-control rollout`), the single upgrade of    *)
(* panel/api handleUpgrade, and the Docker calls of plugin.Rollout they   *)
(* share.  Rollback is Rollout with the previous image.                   *)
(*                                                                         *)
(* One action is one call another job, the health poller's auto-restart   *)
(* or a cancelled context can come between.                               *)
(***************************************************************************)
EXTENDS Integers, Sequences, FiniteSets, SequencesExt

CONSTANTS
    Jobs,       \* `rollout` commands and upgrade requests, each used once
    Order,      \* the instances, in the order registry.List returns them
    Images,     \* image digests
    BadImages,  \* images whose /health never answers 200
    First,      \* the image every instance starts with
    Unknown,    \* the digest recorded for an upgrade by tag
    Empty,      \* the digest recorded for an instance provisioned by tag
    Faults,     \* classes of failure the environment may inject
    Tags,       \* may upgrades name a tag instead of a digest?
    Tagged,     \* instances provisioned while docker.image was a tag
    Failing     \* instances whose health fails at times: the poller restarts them

FaultClasses == {"docker", "registry", "flaky", "cancel"}

ASSUME RolloutAssumption ==
    /\ IsFiniteSet(Jobs) /\ Order \in Seq(Range(Order)) /\ IsInjective(Order)
    /\ First \in Images \ BadImages /\ {Unknown, Empty} \cap Images = {} /\ Unknown # Empty
    /\ Faults \subseteq FaultClasses
    /\ Tags \in BOOLEAN /\ Tagged \subseteq Range(Order) /\ Failing \subseteq Range(Order)

Ids == Range(Order)

VARIABLES
    dig,        \* image_digest of each instance's row
    con,        \* its container: state and image
    inFlight,   \* Server.inFlight, as far as upgrades mark it
    restarting, \* plugin.Restart: stopped the container, or failed to start it again
    pc, kind,   \* each job: where it is; "all" (rollout) or "one" (upgrade)
    queue,      \* instances left, the current one first
    target,     \* the image asked for and whether by tag
    prev,       \* digests read when the job began
    img, undo,  \* argument of the plugin call under way; is it a Rollback?
    res,        \* the report
    cancelled,  \* context cancelled: client gone, signal or timeout
    mixed       \* history: a rollout has met another job on an instance

jobVars == <<pc, kind, queue, target, prev, img, undo, res, cancelled, mixed>>
vars == <<dig, con, inFlight, restarting, jobVars>>

CallPcs == {"inspect", "pull", "stop", "remove", "create", "start", "health"}
WorkPcs == CallPcs \cup {"verify", "record"}
LivePcs == WorkPcs \cup {"get", "next"}
FinalPcs == {"done", "upgraded", "current", "failed", "rejected"}
Digest == Images \cup {Unknown, Empty}
Container == [state : {"absent", "created", "running", "stopped"}, image : Digest]

TypeOK ==
    /\ dig \in [Ids -> Digest]
    /\ con \in [Ids -> Container]
    /\ inFlight \subseteq Ids
    /\ restarting \in [Ids -> {"none", "stopped", "failed"}]
    /\ pc \in [Jobs -> {"idle"} \cup LivePcs \cup FinalPcs]
    /\ kind \in [Jobs -> {"none", "all", "one"}]
    /\ queue \in [Jobs -> Seq(Ids)]
    /\ target \in [Jobs -> [image : Images, tag : BOOLEAN]]
    /\ prev \in [Jobs -> [Ids -> Digest]]
    /\ img \in [Jobs -> Digest]
    /\ undo \in [Jobs -> BOOLEAN]
    /\ res \in [Jobs -> [Ids -> {"none", "rolled_out", "rolled_back", "skipped"}]]
    /\ cancelled \in [Jobs -> BOOLEAN] /\ mixed \in BOOLEAN

Init ==
    /\ dig = [i \in Ids |-> IF i \in Tagged THEN Empty ELSE First]
    /\ con = [i \in Ids |-> [state |-> "running", image |-> First]]
    /\ inFlight = {}
    /\ restarting = [i \in Ids |-> "none"]
    /\ pc = [j \in Jobs |-> "idle"]
    /\ kind = [j \in Jobs |-> "none"]
    /\ queue = [j \in Jobs |-> << >>]
    /\ target = [j \in Jobs |-> [image |-> First, tag |-> FALSE]]
    /\ prev = [j \in Jobs |-> dig]
    /\ img = [j \in Jobs |-> First]
    /\ undo = [j \in Jobs |-> FALSE]
    /\ res = [j \in Jobs |-> [i \in Ids |-> "none"]]
    /\ cancelled = [j \in Jobs |-> FALSE] /\ mixed = FALSE

-----------------------------------------------------------------------------
Live(j) == pc[j] \in LivePcs
Cur(j) == Head(queue[j])
Goto(j, l) == pc' = [pc EXCEPT ![j] = l]
At(i) == {j \in Jobs : Live(j) /\ Contains(queue[j], i)}

(* The orchestrator rolls back under context.WithoutCancel; the upgrade      *)
(* handler rolls back under the request's context.                           *)
CtxDead(j) == cancelled[j] /\ ~(kind[j] = "all" /\ undo[j])

-----------------------------------------------------------------------------
(* Starting a job *)

(* Orchestrator.Execute: registry.List fixes the instances and their digests. *)
StartRollout(j, t) ==
    /\ pc[j] = "idle"
    /\ Goto(j, "next")
    /\ kind' = [kind EXCEPT ![j] = "all"]
    /\ queue' = [queue EXCEPT ![j] = Order]
    /\ target' = [target EXCEPT ![j] = [image |-> t, tag |-> FALSE]]
    /\ prev' = [prev EXCEPT ![j] = dig]
    /\ mixed' = (mixed \/ \E i \in Ids : At(i) # {})
    /\ UNCHANGED <<dig, con, inFlight, restarting, img, undo, res, cancelled>>

NoInFlightCheck(i) == TRUE
NotInFlight(i) == i \notin inFlight

(* handleUpgrade: the in-flight mark. *)
HandleUpgrade(j, i, t, tag) ==
    /\ pc[j] = "idle"
    /\ mixed' = (mixed \/ \E x \in At(i) : kind[x] = "all")
    /\ kind' = [kind EXCEPT ![j] = "one"]
    /\ queue' = [queue EXCEPT ![j] = <<i>>]
    /\ target' = [target EXCEPT ![j] = [image |-> t, tag |-> tag]]
    /\ \/ NotInFlight(i) /\ inFlight' = inFlight \cup {i} /\ Goto(j, "get")
       \/ ~NotInFlight(i) /\ Goto(j, "rejected") /\ UNCHANGED inFlight
    /\ UNCHANGED <<dig, con, restarting, prev, img, undo, res, cancelled>>

ClearInFlight(j) == inFlight' = inFlight \ {Cur(j)}

(* registry.Get, and nothing to do when the digest is the one recorded. *)
UpgradeGet(j) ==
    LET i == Cur(j) IN
    /\ pc[j] = "get"
    /\ prev' = [prev EXCEPT ![j] = dig]
    /\ \/ /\ target[j].tag \/ dig[i] # target[j].image
          /\ img' = [img EXCEPT ![j] = target[j].image]
          /\ Goto(j, "inspect")
          /\ UNCHANGED inFlight
       \/ /\ ~target[j].tag /\ dig[i] = target[j].image
          /\ Goto(j, "current")
          /\ ClearInFlight(j)
          /\ UNCHANGED img
       \/ "registry" \in Faults /\ Goto(j, "rejected") /\ ClearInFlight(j) /\ UNCHANGED img
    /\ UNCHANGED <<dig, con, restarting, mixed, kind, queue, target, undo, res, cancelled>>

(* The report when the loop ends early: s for the current instance, and the  *)
(* instances after it skipped.                                               *)
AbortReport(j, s) ==
    [i \in Ids |-> IF i = Cur(j) THEN s
                   ELSE IF Contains(queue[j], i) THEN "skipped" ELSE res[j][i]]

(* The head of Execute's loop. *)
NextInstance(j) ==
    /\ pc[j] = "next"
    /\ \/ queue[j] = << >> /\ Goto(j, "done") /\ UNCHANGED <<res, img>>
       \/ /\ queue[j] # << >> /\ cancelled[j]
          /\ Goto(j, "done")
          /\ res' = [res EXCEPT ![j] = AbortReport(j, "skipped")]
          /\ UNCHANGED img
       \/ /\ queue[j] # << >> /\ ~cancelled[j]
          /\ Goto(j, "inspect")
          /\ img' = [img EXCEPT ![j] = target[j].image]
          /\ UNCHANGED res
    /\ UNCHANGED <<dig, con, inFlight, restarting, mixed, kind, queue, target, prev, undo, cancelled>>

-----------------------------------------------------------------------------
(* plugin.Rollout, and what its caller does with the outcome *)

(* The instances Execute goes on with after a failure: break. *)
ContinueAfterFailure(q) == Tail(q)
AfterFailure(q) == << >>

(* The job ends without the target: a rollout reports the instance as rolled *)
(* back whatever the plugin did, an upgrade answers 500.                      *)
GiveUp(j) ==
    /\ \/ /\ kind[j] = "all"
          /\ Goto(j, "next")
          /\ res' = [res EXCEPT ![j] = AbortReport(j, "rolled_back")]
          /\ queue' = [queue EXCEPT ![j] = AfterFailure(@)]
          /\ UNCHANGED inFlight
       \/ /\ kind[j] = "one"
          /\ Goto(j, "failed")
          /\ ClearInFlight(j)
          /\ UNCHANGED <<queue, res>>
    /\ undo' = [undo EXCEPT ![j] = FALSE]
    /\ UNCHANGED img

(* The reference of a rollback is the target's repository with the recorded  *)
(* digest.  Without one refString is the repository alone: a tag is kept in   *)
(* it, so that it names the target again; else it means the latest image.    *)
RollbackImages(j) ==
    LET d == prev[j][Cur(j)]
    IN  IF d # Empty THEN {d} ELSE IF target[j].tag THEN {target[j].image} ELSE Images

StartRollback(j) ==
    /\ \E g \in RollbackImages(j) : img' = [img EXCEPT ![j] = g]
    /\ undo' = [undo EXCEPT ![j] = TRUE]
    /\ Goto(j, "inspect")
    /\ UNCHANGED <<queue, res, inFlight>>

(* An upgrade rolls back when plugin.Rollout fails; the orchestrator does not. *)
NoUpgradeRollback(j) == FALSE
RollsBackOnError(j) == kind[j] = "one" /\ ~undo[j]

CallFails(j) ==
    \/ RollsBackOnError(j) /\ StartRollback(j)
    \/ ~RollsBackOnError(j) /\ GiveUp(j)

CallReturns(j) ==
    \/ undo[j] /\ GiveUp(j)
    \/ /\ ~undo[j]
       /\ Goto(j, IF kind[j] = "all" THEN "verify" ELSE "record")
       /\ UNCHANGED <<queue, img, undo, res, inFlight>>

(* One Docker call: it needs its context and its precondition, may fail all  *)
(* the same under "docker", and turns the container into c.                  *)
Call(j, here, ok, c, there) ==
    /\ pc[j] = here
    /\ \/ /\ ~CtxDead(j) /\ ok
          /\ con' = [con EXCEPT ![Cur(j)] = c]
          /\ Goto(j, there)
          /\ UNCHANGED <<queue, img, undo, res, inFlight>>
       \/ /\ CtxDead(j) \/ ~ok \/ "docker" \in Faults
          /\ CallFails(j)
          /\ UNCHANGED con
    /\ UNCHANGED <<dig, restarting, mixed, kind, target, prev, cancelled>>

In(j, s) == [state |-> s, image |-> con[Cur(j)].image]
Exists(j) == con[Cur(j)].state # "absent"

InspectCon(j) == Call(j, "inspect", Exists(j), con[Cur(j)], "pull")
PullImage(j) == Call(j, "pull", img[j] # Unknown, con[Cur(j)], "stop")
StopCon(j) == Call(j, "stop", Exists(j),
                   IF con[Cur(j)].state = "running" THEN In(j, "stopped") ELSE con[Cur(j)], "remove")
RemoveCon(j) == Call(j, "remove", con[Cur(j)].state \in {"created", "stopped"},
                     In(j, "absent"), "create")

(* The new container's spec: the old one's with the image replaced. *)
OldSpec(j) == In(j, "created")
NewSpec(j) == [state |-> "created", image |-> img[j]]
CreateCon(j) == Call(j, "create", ~Exists(j), NewSpec(j), "start")
StartCon(j) == Call(j, "start", Exists(j), In(j, "running"), "health")

Answers(i) == con[i].state = "running" /\ con[i].image \notin BadImages

(* pollHealth inside plugin.Rollout *)
Health(j) ==
    /\ pc[j] = "health"
    /\ \/ ~CtxDead(j) /\ Answers(Cur(j)) /\ CallReturns(j)
       \/ (CtxDead(j) \/ ~Answers(Cur(j)) \/ "flaky" \in Faults) /\ CallFails(j)
    /\ UNCHANGED <<dig, con, restarting, mixed, kind, target, prev, cancelled>>

(* Orchestrator.waitHealthy, and the rollback when it fails *)
WaitHealthy(j) ==
    /\ pc[j] = "verify"
    /\ \/ ~CtxDead(j) /\ Answers(Cur(j)) /\ Goto(j, "record") /\ UNCHANGED <<queue, img, undo, res, inFlight>>
       \/ (CtxDead(j) \/ ~Answers(Cur(j)) \/ "flaky" \in Faults) /\ StartRollback(j)
    /\ UNCHANGED <<dig, con, restarting, mixed, kind, target, prev, cancelled>>

AfterSuccess(q) == Tail(q)

NewDigest(j) == IF target[j].tag THEN Unknown ELSE target[j].image

(* registry.UpdateImageDigest: the orchestrator rolls back when it fails,    *)
(* the upgrade handler goes on.                                              *)
RecordDigest(j) ==
    LET i == Cur(j) IN
    /\ pc[j] = "record"
    /\ \/ /\ dig' = [dig EXCEPT ![i] = NewDigest(j)]
          /\ \/ /\ kind[j] = "all"
                /\ res' = [res EXCEPT ![j][i] = "rolled_out"]
                /\ queue' = [queue EXCEPT ![j] = AfterSuccess(@)]
                /\ Goto(j, "next")
                /\ UNCHANGED inFlight
             \/ /\ kind[j] = "one"
                /\ Goto(j, "upgraded")
                /\ ClearInFlight(j)
                /\ UNCHANGED <<queue, res>>
          /\ UNCHANGED <<img, undo>>
       \/ /\ "registry" \in Faults
          /\ \/ kind[j] = "all" /\ StartRollback(j)
             \/ kind[j] = "one" /\ Goto(j, "upgraded") /\ ClearInFlight(j) /\ UNCHANGED <<queue, img, undo, res>>
          /\ UNCHANGED dig
    /\ UNCHANGED <<con, restarting, mixed, kind, target, prev, cancelled>>

-----------------------------------------------------------------------------
(* The environment: a client that goes away, a signal or the timeout; and the *)
(* poller's auto-restart, plugin.Restart.                                     *)
Cancel(j) ==
    /\ "cancel" \in Faults /\ Live(j) /\ ~cancelled[j]
    /\ cancelled' = [cancelled EXCEPT ![j] = TRUE]
    /\ UNCHANGED <<dig, con, inFlight, restarting, mixed, pc, kind, queue, target, prev, img, undo, res>>

RestartStop(i) ==
    /\ i \in Failing /\ restarting[i] # "stopped" /\ con[i].state # "absent"
    /\ restarting' = [restarting EXCEPT ![i] = "stopped"]
    /\ con' = [con EXCEPT ![i].state = IF @ = "running" THEN "stopped" ELSE @]
    /\ UNCHANGED <<dig, inFlight, jobVars>>

(* A start that fails leaves the container stopped until the poller tries    *)
(* again.                                                                    *)
RestartStart(i) ==
    /\ restarting[i] = "stopped"
    /\ \/ /\ con[i].state # "absent"
          /\ con' = [con EXCEPT ![i].state = "running"]
          /\ restarting' = [restarting EXCEPT ![i] = "none"]
       \/ /\ con[i].state = "absent" \/ "docker" \in Faults
          /\ restarting' = [restarting EXCEPT ![i] = "failed"]
          /\ UNCHANGED con
    /\ UNCHANGED <<dig, inFlight, jobVars>>

-----------------------------------------------------------------------------
Step(j) ==
    \/ UpgradeGet(j) \/ NextInstance(j)
    \/ InspectCon(j) \/ PullImage(j) \/ StopCon(j) \/ RemoveCon(j) \/ CreateCon(j) \/ StartCon(j) \/ Health(j)
    \/ WaitHealthy(j) \/ RecordDigest(j)

Next ==
    \/ \E j \in Jobs :
          \/ \E t \in Images : StartRollout(j, t)
          \/ \E i \in Ids, t \in Images, tag \in BOOLEAN : (tag => Tags) /\ HandleUpgrade(j, i, t, tag)
          \/ Step(j) \/ Cancel(j)
    \/ \E i \in Ids : RestartStop(i) \/ RestartStart(i)
    \/ (\A j \in Jobs : pc[j] \in FinalPcs) /\ UNCHANGED vars

Spec == Init /\ [][Next]_vars

-----------------------------------------------------------------------------
(* Properties *)

(* A rollout touches one instance at a time and stops at the first failure:
   however calls fail, contexts are cancelled and restarts intervene, no more
   instances are damaged than there are jobs now working on an instance or
   ended otherwise than in success (an upgrade answers with success even if the
   digest was not recorded), as long as no rollout has shared an instance with
   another job.  Damaged is an instance whose container is gone, of another
   image than the registry records, or down.  Down for a restart is not damage:
   the poller's plugin.Restart stopped the container and has not started it
   yet, or its start failed, and no job is to blame. *)
Restarted(i) == restarting[i] # "none" /\ con[i].state # "absent"
Sound(i) ==
    /\ con[i].state = "running" \/ Restarted(i)
    /\ dig[i] \in {con[i].image, Unknown, Empty}
Suspects ==
    {j \in Jobs : \/ pc[j] \in WorkPcs \cup {"failed", "upgraded"}
                  \/ \E i \in Ids : res[j][i] = "rolled_back"}
BlastRadius == ~mixed => Cardinality({i \in Ids : ~Sound(i)}) <= Cardinality(Suspects)

(* The report of Execute is whole and true: when the rollout ends, aborted or
   not, every instance it listed is accounted for, and "rolled_out" means that
   the instance's container was made from the target image and that the
   registry records it, as long as no rollout has shared an instance with
   another job. *)
ReportTruthful ==
    [][\A j \in Jobs, i \in Ids :
          /\ kind[j] = "all" /\ pc'[j] = "done" => res'[j][i] # "none"
          /\ ~mixed /\ res[j][i] # "rolled_out" /\ res'[j][i] = "rolled_out" =>
                con[i].image = target[j].image /\ dig'[i] = target[j].image]_vars

(* Two panel upgrades of one instance never interleave their Docker calls:
   the in-flight mark covers the handler to its end, and is cleared on every
   path out of it (the deferred clearInFlight), so that an instance is neither
   left unprotected nor locked for good. *)
UpgradesExclusive ==
    LET upgrades == {j \in Jobs : kind[j] = "one" /\ Live(j)}
    IN  /\ \A j, x \in upgrades : Cur(j) = Cur(x) => j = x
        /\ inFlight = {Cur(j) : j \in upgrades}

(* "automatic rollback on failure" (upgrade API): an upgrade answers with an
   error only after a rollback, and a rollback that ended with a healthy
   container has put back the image the registry records, if it records a
   digest: without one there is nothing to go back to, and after an upgrade by
   tag the container is of the target again.  A rollback that fails in its turn
   (a Docker error, the cancelled request, the digest "unknown") is not
   repeated. *)
UpgradeRollsBack ==
    [][\A j \in Jobs :
          pc[j] # "failed" /\ pc'[j] = "failed" =>
              /\ undo[j]
              /\ ~mixed /\ pc[j] = "health" /\ con[Cur(j)].state = "running" =>
                    con[Cur(j)].image = (IF prev[j][Cur(j)] # Empty THEN prev[j][Cur(j)]
                                         ELSE IF target[j].tag THEN target[j].image
                                         ELSE con[Cur(j)].image)]_vars

(* "If an instance fails health checks after the update, it rolls back
   automatically": an instance reported "rolled_back" runs its previous image. *)
RolledBackIsPrevious ==
    [][\A j \in Jobs, i \in Ids :
          res[j][i] # "rolled_back" /\ res'[j][i] = "rolled_back" =>
              con'[i].state = "running" /\ con'[i].image = prev[j][i]]_vars

=============================================================================
