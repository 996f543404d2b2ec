-------------------------- MODULE Rollout_proofs --------------------------
(***************************************************************************)
(* Theorems about Rollout: the damage overlapping jobs can do, the in-flight *)
(* marks of upgrades, the report of Execute and the rollback of an upgrade. *)
(*                                                                         *)
(* The steps of a job between registry.Get (or the head of the loop) and   *)
(* the last write fall into three kinds, whatever call they are: the job   *)
(* moves on, starts a rollback or gives up.  Work and WorkEffect say so    *)
(* once, and the invariants are proved about the three kinds.              *)
(***************************************************************************)
EXTENDS Rollout, FiniteSetTheorems, TLAPS

-----------------------------------------------------------------------------
(* Sequences *)

(* What Tail leaves of the elements of a sequence. *)
LEMMA TailContains ==
    ASSUME NEW S, NEW q \in Seq(S), q # << >>, NEW e
    PROVE  /\ Tail(q) \in Seq(S) /\ Head(q) \in S
           /\ Contains(Tail(q), e) => Contains(q, e)
           /\ Contains(q, e) /\ e # Head(q) => Contains(Tail(q), e)
           /\ Contains(q, Head(q))
<1>1. /\ Len(q) \in Nat /\ Len(q) >= 1 /\ Head(q) = q[1]
      /\ Tail(q) \in Seq(S) /\ Len(Tail(q)) = Len(q) - 1
      /\ \A n \in 1 .. Len(q) - 1 : Tail(q)[n] = q[n + 1]
  OBVIOUS
<1>2. Head(q) \in S
  OBVIOUS
<1>3. Contains(Tail(q), e) => Contains(q, e)
  BY <1>1 DEF Contains
<1>4. ASSUME Contains(q, e), e # Head(q)
      PROVE  Contains(Tail(q), e)
  <2>1. PICK n \in 1 .. Len(q) : q[n] = e
    BY <1>4 DEF Contains
  <2>2. n - 1 \in 1 .. Len(q) - 1 /\ Tail(q)[n - 1] = e
    BY <1>1, <1>4, <2>1
  <2> QED BY <1>1, <2>2 DEF Contains
<1>5. Contains(q, Head(q))
  BY <1>1 DEF Contains
<1> QED BY <1>1, <1>2, <1>3, <1>4, <1>5

(* The queue of an upgrade, one instance, and the empty queue of a rollout   *)
(* that gave up.                                                             *)
LEMMA SingleContains ==
    ASSUME NEW S, NEW i \in S
    PROVE  /\ <<i>> \in Seq(S) /\ <<i>> # << >> /\ Head(<<i>>) = i /\ Len(<<i>>) = 1
           /\ \A e : Contains(<<i>>, e) <=> e = i
           /\ \A e : ~Contains(<< >>, e)
BY DEF Contains

(* The order of registry.List is a sequence of the instances, all of them. *)
LEMMA OrderType == Order \in Seq(Ids) /\ \A i \in Ids : Contains(Order, i)
<1>1. Order \in Seq(Range(Order))
  BY RolloutAssumption
<1>2. DOMAIN Order = 1 .. Len(Order)
  BY <1>1
<1> QED BY <1>1, <1>2 DEF Ids, Range, Contains

-----------------------------------------------------------------------------
(* What every step does *)

Moves(j, l) == Goto(j, l) /\ UNCHANGED <<queue, img, undo, res, inFlight>>

(* The Docker calls and the waits for health. *)
Work(j) ==
    \/ InspectCon(j) \/ PullImage(j) \/ StopCon(j) \/ RemoveCon(j) \/ CreateCon(j) \/ StartCon(j)
    \/ Health(j) \/ WaitHealthy(j)

(* Where a job is fixes what it knows: an upgrade has its instance, a rollout *)
(* at an instance has a queue, and the image of the call under way is the     *)
(* target's, or one the rollback's reference may name.                        *)
Shape(j) ==
    /\ pc[j] = "idle" <=> kind[j] = "none"
    /\ kind[j] = "one" => /\ queue[j] # << >>
                          /\ \A i \in Ids : Contains(queue[j], i) => i = Cur(j)
                          /\ pc[j] \notin {"next", "verify", "done"}
    /\ kind[j] = "all" => /\ pc[j] \notin {"get", "upgraded", "current", "failed", "rejected"}
                          /\ ~target[j].tag
    /\ kind[j] # "all" => \A i \in Ids : res[j][i] = "none"
    /\ pc[j] \in WorkPcs => queue[j] # << >>
    /\ undo[j] => pc[j] \in CallPcs /\ img[j] \in RollbackImages(j)
    /\ ~undo[j] /\ pc[j] \in WorkPcs => img[j] = target[j].image
JobShape == \A j \in Jobs : Shape(j)

(* The three kinds of a working step. *)
Kinds(j) ==
    \/ \E l \in WorkPcs : /\ Moves(j, l)
                          /\ l \notin CallPcs => ~undo[j] /\ (l = "verify" => kind[j] = "all")
    \/ StartRollback(j)
    \/ GiveUp(j) /\ (kind[j] = "one" => undo[j])

(* A call that fails starts a rollback or gives up. *)
LEMMA FailKinds ==
    ASSUME NEW j \in Jobs, CallFails(j)
    PROVE  Kinds(j)
BY DEF CallFails, Kinds, RollsBackOnError

(* A Docker call: what it does to the container, and where the job goes. *)
LEMMA CallKinds ==
    ASSUME NEW j \in Jobs, NEW here \in CallPcs, NEW there \in CallPcs, NEW ok, NEW c,
           Call(j, here, ok, c, there)
    PROVE  /\ pc[j] = here
           /\ UNCHANGED <<dig, restarting, mixed, kind, target, prev, cancelled>>
           /\ Kinds(j)
           /\ \/ ok /\ con' = [con EXCEPT ![Cur(j)] = c] /\ Moves(j, there)
              \/ CallFails(j) /\ con' = con
<1>1. /\ pc[j] = here
      /\ UNCHANGED <<dig, restarting, mixed, kind, target, prev, cancelled>>
      /\ \/ ok /\ con' = [con EXCEPT ![Cur(j)] = c] /\ Moves(j, there)
         \/ CallFails(j) /\ con' = con
  BY DEF Call, Moves
<1>2. CASE Moves(j, there)
  BY <1>1, <1>2 DEF Kinds, WorkPcs
<1>3. CASE CallFails(j)
  BY <1>1, <1>3, FailKinds
<1> QED BY <1>1, <1>2, <1>3

(* The container a call leaves, and where the job goes: only CreateCon leads  *)
(* to "start" and only StartCon to "health".                                  *)
LEMMA CallsEffect ==
    ASSUME TypeOK, JobShape, NEW j \in Jobs,
           InspectCon(j) \/ PullImage(j) \/ StopCon(j) \/ RemoveCon(j) \/ CreateCon(j) \/ StartCon(j)
    PROVE  /\ pc[j] \in CallPcs
           /\ UNCHANGED <<dig, restarting, mixed, kind, target, prev, cancelled>>
           /\ Kinds(j)
           /\ \/ CallFails(j) /\ con' = con
              \/ \E l \in CallPcs, c \in Container :
                    /\ Moves(j, l)
                    /\ con' = [con EXCEPT ![Cur(j)] = c]
                    /\ l = "start" => c.state # "absent" /\ c.image = img[j]
                    /\ l = "health" => /\ pc[j] = "start" /\ c.state = "running"
                                      /\ c.image = con[Cur(j)].image
<1> DEFINE i == Cur(j)
<1>0. ASSUME pc[j] \in CallPcs
      PROVE  i \in Ids /\ con[i] \in Container /\ con[i].image \in Digest /\ img[j] \in Digest
  <2>1. queue[j] \in Seq(Ids) /\ queue[j] # << >>
    BY <1>0 DEF TypeOK, JobShape, Shape, WorkPcs
  <2>2. i \in Ids
    BY <2>1, TailContains DEF Cur
  <2> QED BY <2>2 DEF TypeOK, Container
<1>c. ASSUME NEW s \in {"absent", "created", "running", "stopped"}, pc[j] \in CallPcs
      PROVE  In(j, s) \in Container /\ In(j, s).state = s /\ In(j, s).image = con[i].image
  BY <1>0, <1>c DEF In, Container
<1>1. CASE InspectCon(j)
  <2>1. Call(j, "inspect", Exists(j), con[i], "pull")
    BY <1>1 DEF InspectCon
  <2> QED BY <2>1, <1>0, CallKinds, "inspect" \in CallPcs, "pull" \in CallPcs DEF CallPcs
<1>2. CASE PullImage(j)
  <2>1. Call(j, "pull", img[j] # Unknown, con[i], "stop")
    BY <1>2 DEF PullImage
  <2> QED BY <2>1, <1>0, CallKinds DEF CallPcs
<1>3. CASE StopCon(j)
  <2> DEFINE c == IF con[i].state = "running" THEN In(j, "stopped") ELSE con[i]
  <2>1. Call(j, "stop", Exists(j), c, "remove")
    BY <1>3 DEF StopCon
  <2>2. pc[j] = "stop" => c \in Container
    BY <1>0, <1>c DEF CallPcs
  <2> HIDE DEF c
  <2> QED BY <2>1, <2>2, CallKinds DEF CallPcs
<1>4. CASE RemoveCon(j)
  <2>1. Call(j, "remove", con[i].state \in {"created", "stopped"}, In(j, "absent"), "create")
    BY <1>4 DEF RemoveCon
  <2> QED BY <2>1, <1>c, CallKinds DEF CallPcs
<1>5. CASE CreateCon(j)
  <2>1. Call(j, "create", ~Exists(j), NewSpec(j), "start")
    BY <1>5 DEF CreateCon
  <2>2. pc[j] = "create" => /\ NewSpec(j) \in Container
                            /\ NewSpec(j).state # "absent" /\ NewSpec(j).image = img[j]
    BY <1>0 DEF NewSpec, CallPcs, Container
  <2> QED BY <2>1, <2>2, CallKinds DEF CallPcs
<1>6. CASE StartCon(j)
  <2>1. Call(j, "start", Exists(j), In(j, "running"), "health")
    BY <1>6 DEF StartCon
  <2> QED BY <2>1, <1>c, CallKinds DEF CallPcs
<1> QED BY <1>1, <1>2, <1>3, <1>4, <1>5, <1>6

(* pollHealth and waitHealthy touch nothing but the job; the job moves on     *)
(* only from a container that answers.                                        *)
LEMMA WaitsEffect ==
    ASSUME TypeOK, JobShape, NEW j \in Jobs, Health(j) \/ WaitHealthy(j)
    PROVE  /\ pc[j] \in {"health", "verify"}
           /\ UNCHANGED <<dig, con, restarting, mixed, kind, target, prev, cancelled>>
           /\ Kinds(j)
           /\ \/ StartRollback(j) \/ GiveUp(j)
              \/ \E l \in {"verify", "record"} : Moves(j, l) /\ con[Cur(j)].state = "running"
<1>1. CASE Health(j)
  <2>1. /\ pc[j] = "health"
        /\ UNCHANGED <<dig, con, restarting, mixed, kind, target, prev, cancelled>>
        /\ CallFails(j) \/ (Answers(Cur(j)) /\ CallReturns(j))
    BY <1>1 DEF Health
  <2>2. CASE CallFails(j)
    BY <2>1, <2>2, FailKinds DEF CallFails
  <2>3. CASE Answers(Cur(j)) /\ CallReturns(j)
    <3>1. con[Cur(j)].state = "running"
      BY <2>3 DEF Answers
    <3>2. CASE undo[j] /\ GiveUp(j)
      BY <2>1, <3>2 DEF Kinds
    <3>3. CASE ~undo[j] /\ kind[j] = "all" /\ Moves(j, "verify")
      BY <2>1, <3>1, <3>3 DEF Kinds, WorkPcs, CallPcs
    <3>4. CASE ~undo[j] /\ kind[j] # "all" /\ Moves(j, "record")
      BY <2>1, <3>1, <3>4 DEF Kinds, WorkPcs, CallPcs
    <3> QED BY <2>3, <3>2, <3>3, <3>4 DEF CallReturns, Moves
  <2> QED BY <2>1, <2>2, <2>3
<1>2. CASE WaitHealthy(j)
  <2>1. /\ pc[j] = "verify"
        /\ UNCHANGED <<dig, con, restarting, mixed, kind, target, prev, cancelled>>
        /\ StartRollback(j) \/ (con[Cur(j)].state = "running" /\ Moves(j, "record"))
    BY <1>2 DEF WaitHealthy, Answers, Moves
  <2>2. ~undo[j]
    BY <2>1 DEF JobShape, Shape, TypeOK, CallPcs
  <2> QED BY <2>1, <2>2 DEF Kinds, WorkPcs, CallPcs
<1> QED BY <1>1, <1>2

(* Every working step is of one of the three kinds, at the job's instance. *)
LEMMA WorkKinds ==
    ASSUME TypeOK, JobShape, NEW j \in Jobs, Work(j)
    PROVE  /\ pc[j] \in WorkPcs
           /\ UNCHANGED <<dig, restarting, mixed, kind, target, prev, cancelled>>
           /\ Kinds(j)
           /\ con' = con \/ \E c \in Container : con' = [con EXCEPT ![Cur(j)] = c]
<1>1. CASE Health(j) \/ WaitHealthy(j)
  BY <1>1, WaitsEffect DEF WorkPcs, CallPcs
<1>2. CASE InspectCon(j) \/ PullImage(j) \/ StopCon(j) \/ RemoveCon(j) \/ CreateCon(j) \/ StartCon(j)
  BY <1>2, CallsEffect DEF WorkPcs
<1> QED BY <1>1, <1>2 DEF Work

-----------------------------------------------------------------------------
(* Types and shapes *)

(* A job at an instance: the instance is one of the fleet. *)
LEMMA CurType ==
    ASSUME TypeOK, NEW j \in Jobs, queue[j] # << >>
    PROVE  /\ queue[j] \in Seq(Ids) /\ Cur(j) \in Ids /\ Tail(queue[j]) \in Seq(Ids)
           /\ Contains(queue[j], Cur(j))
<1>1. queue[j] \in Seq(Ids)
  BY DEF TypeOK
<1> QED BY <1>1, TailContains DEF Cur

(* The reports are reports. *)
LEMMA AbortType ==
    ASSUME TypeOK, NEW j \in Jobs, NEW s \in {"none", "rolled_out", "rolled_back", "skipped"}
    PROVE  AbortReport(j, s) \in [Ids -> {"none", "rolled_out", "rolled_back", "skipped"}]
<1>1. res[j] \in [Ids -> {"none", "rolled_out", "rolled_back", "skipped"}]
  BY DEF TypeOK
<1> QED BY <1>1 DEF AbortReport

(* A step of the three kinds keeps the types of what it writes. *)
LEMMA KindsType ==
    ASSUME TypeOK, NEW j \in Jobs, queue[j] # << >>, Kinds(j)
    PROVE  /\ pc' \in [Jobs -> {"idle"} \cup LivePcs \cup FinalPcs]
           /\ queue' \in [Jobs -> Seq(Ids)]
           /\ img' \in [Jobs -> Digest]
           /\ undo' \in [Jobs -> BOOLEAN]
           /\ res' \in [Jobs -> [Ids -> {"none", "rolled_out", "rolled_back", "skipped"}]]
           /\ inFlight' \subseteq Ids
<1>0. Cur(j) \in Ids /\ RollbackImages(j) \subseteq Digest /\ << >> \in Seq(Ids)
  BY CurType DEF TypeOK, RollbackImages, Digest
<1>1. CASE \E l \in WorkPcs : Moves(j, l)
  BY <1>1 DEF TypeOK, Moves, Goto, LivePcs
<1>2. CASE StartRollback(j)
  BY <1>0, <1>2 DEF TypeOK, StartRollback, Goto, LivePcs, WorkPcs, CallPcs
<1>3. CASE GiveUp(j)
  <2>1. AbortReport(j, "rolled_back") \in [Ids -> {"none", "rolled_out", "rolled_back", "skipped"}]
    BY AbortType
  <2>2. /\ img' = img /\ undo' = [undo EXCEPT ![j] = FALSE]
        /\ \/ /\ pc' = [pc EXCEPT ![j] = "next"] /\ inFlight' = inFlight
              /\ res' = [res EXCEPT ![j] = AbortReport(j, "rolled_back")]
              /\ queue' = [queue EXCEPT ![j] = << >>]
           \/ /\ pc' = [pc EXCEPT ![j] = "failed"] /\ UNCHANGED <<queue, res>>
              /\ inFlight' = inFlight \ {Cur(j)}
    BY <1>3 DEF GiveUp, Goto, AfterFailure, ClearInFlight
  <2>3. pc' \in [Jobs -> {"idle"} \cup LivePcs \cup FinalPcs]
    BY <2>2 DEF TypeOK, LivePcs, FinalPcs
  <2>4. res' \in [Jobs -> [Ids -> {"none", "rolled_out", "rolled_back", "skipped"}]]
    BY <2>1, <2>2 DEF TypeOK
  <2>5. queue' \in [Jobs -> Seq(Ids)]
    BY <1>0, <2>2 DEF TypeOK
  <2>6. inFlight' \subseteq Ids /\ undo' \in [Jobs -> BOOLEAN] /\ img' \in [Jobs -> Digest]
    BY <2>2 DEF TypeOK
  <2> QED BY <2>3, <2>4, <2>5, <2>6
<1> QED BY <1>1, <1>2, <1>3 DEF Kinds

(* RecordDigest: the write, and how the job goes on. *)
Ends(j, l) == Goto(j, l) /\ ClearInFlight(j) /\ UNCHANGED <<queue, img, undo, res>>

(* The three outcomes of UpdateImageDigest. *)
LEMMA RecordEffect ==
    ASSUME NEW j \in Jobs, RecordDigest(j)
    PROVE  /\ pc[j] = "record"
           /\ UNCHANGED <<con, restarting, mixed, kind, target, prev, cancelled>>
           /\ \/ /\ dig' = [dig EXCEPT ![Cur(j)] = NewDigest(j)]
                 /\ kind[j] = "all" /\ Goto(j, "next")
                 /\ res' = [res EXCEPT ![j] = [@ EXCEPT ![Cur(j)] = "rolled_out"]]
                 /\ queue' = [queue EXCEPT ![j] = Tail(@)]
                 /\ UNCHANGED <<inFlight, img, undo>>
              \/ /\ dig' = [dig EXCEPT ![Cur(j)] = NewDigest(j)] \/ dig' = dig
                 /\ kind[j] = "one" /\ Ends(j, "upgraded")
              \/ dig' = dig /\ kind[j] = "all" /\ StartRollback(j)
BY DEF RecordDigest, Ends, AfterSuccess

(* registry.Get: the upgrade goes on, or ends and clears its mark. *)
LEMMA UpgradeGetEffect ==
    ASSUME NEW j \in Jobs, UpgradeGet(j)
    PROVE  /\ pc[j] = "get"
           /\ prev' = [prev EXCEPT ![j] = dig]
           /\ UNCHANGED <<dig, con, restarting, mixed, kind, queue, target, undo, res, cancelled>>
           /\ \/ /\ img' = [img EXCEPT ![j] = target[j].image]
                 /\ Goto(j, "inspect") /\ UNCHANGED inFlight
              \/ \E l \in {"current", "rejected"} : Goto(j, l) /\ ClearInFlight(j) /\ UNCHANGED img
BY DEF UpgradeGet

(* The head of the loop: done, aborted or on to the next instance. *)
LEMMA NextInstanceEffect ==
    ASSUME NEW j \in Jobs, NextInstance(j)
    PROVE  /\ pc[j] = "next"
           /\ UNCHANGED <<dig, con, inFlight, restarting, mixed, kind, queue, target, prev, undo, cancelled>>
           /\ \/ queue[j] = << >> /\ Goto(j, "done") /\ UNCHANGED <<res, img>>
              \/ /\ queue[j] # << >> /\ Goto(j, "done") /\ UNCHANGED img
                 /\ res' = [res EXCEPT ![j] = AbortReport(j, "skipped")]
              \/ /\ queue[j] # << >> /\ Goto(j, "inspect") /\ UNCHANGED res
                 /\ img' = [img EXCEPT ![j] = target[j].image]
BY DEF NextInstance

(* The poller's restart leaves the image, and a container that is gone. *)
LEMMA RestartEffect ==
    ASSUME TypeOK, NEW i \in Ids, RestartStop(i) \/ RestartStart(i)
    PROVE  /\ UNCHANGED <<dig, inFlight, pc, kind, queue, target, prev, img, undo, res, cancelled, mixed>>
           /\ \E c \in Container :
                /\ con' = [con EXCEPT ![i] = c]
                /\ c.image = con[i].image
                /\ c.state = "absent" <=> con[i].state = "absent"
                /\ \E r \in {"none", "stopped", "failed"} :
                      /\ restarting' = [restarting EXCEPT ![i] = r]
                      /\ r # "none" \/ c.state = "running"
<1>0. con[i] \in Container
  BY DEF TypeOK
<1>1. CASE RestartStop(i)
  <2> DEFINE c == [con[i] EXCEPT !.state = IF @ = "running" THEN "stopped" ELSE @]
  <2>1. con' = [con EXCEPT ![i] = c] /\ con[i].state # "absent" /\ restarting' = [restarting EXCEPT ![i] = "stopped"]
    BY <1>1 DEF RestartStop
  <2>2. c \in Container /\ c.image = con[i].image /\ (c.state = "absent" <=> con[i].state = "absent")
    BY <1>0 DEF Container
  <2> HIDE DEF c
  <2> QED BY <1>1, <2>1, <2>2 DEF RestartStop, jobVars
<1>2. CASE RestartStart(i)
  <2>0. UNCHANGED <<dig, inFlight, pc, kind, queue, target, prev, img, undo, res, cancelled, mixed>>
    BY <1>2 DEF RestartStart, jobVars
  <2>1. CASE con' = con /\ restarting' = [restarting EXCEPT ![i] = "failed"]
    <3>1. con' = [con EXCEPT ![i] = con[i]]
      BY <2>1 DEF TypeOK
    <3> QED BY <1>0, <2>0, <2>1, <3>1
  <2>2. CASE /\ con[i].state # "absent" /\ con' = [con EXCEPT ![i].state = "running"]
             /\ restarting' = [restarting EXCEPT ![i] = "none"]
    <3> DEFINE c == [con[i] EXCEPT !.state = "running"]
    <3>1. c \in Container /\ c.image = con[i].image /\ c.state = "running" /\ con' = [con EXCEPT ![i] = c]
      BY <1>0, <2>2 DEF Container
    <3> HIDE DEF c
    <3> QED BY <2>0, <2>2, <3>1
  <2> QED BY <1>2, <2>1, <2>2 DEF RestartStart
<1> QED BY <1>1, <1>2

(* The type invariant is inductive with the shape of the jobs. *)
LEMMA TypeStep ==
    ASSUME TypeOK, JobShape, [Next]_vars
    PROVE  TypeOK'
<1>1. ASSUME NEW j \in Jobs, NEW t \in Images, StartRollout(j, t) PROVE TypeOK'
  BY <1>1, OrderType DEF StartRollout, TypeOK, Goto, LivePcs
<1>2. ASSUME NEW j \in Jobs, NEW i \in Ids, NEW t \in Images, NEW tag \in BOOLEAN, HandleUpgrade(j, i, t, tag)
      PROVE  TypeOK'
  <2>1. <<i>> \in Seq(Ids)
    OBVIOUS
  <2> QED BY <1>2, <2>1 DEF HandleUpgrade, TypeOK, Goto, LivePcs, FinalPcs
<1>3. ASSUME NEW j \in Jobs, UpgradeGet(j) PROVE TypeOK'
  <2>1. target[j].image \in Digest
    BY DEF TypeOK, Digest
  <2>2. pc' \in [Jobs -> {"idle"} \cup LivePcs \cup FinalPcs]
    <3>1. \E l \in {"inspect", "current", "rejected"} : Goto(j, l)
      BY <1>3, UpgradeGetEffect
    <3> QED BY <3>1 DEF TypeOK, Goto, LivePcs, WorkPcs, CallPcs, FinalPcs
  <2>3. inFlight' \subseteq Ids /\ img' \in [Jobs -> Digest]
    BY <1>3, <2>1, UpgradeGetEffect DEF TypeOK, ClearInFlight
  <2>4. /\ prev' = [prev EXCEPT ![j] = dig]
        /\ UNCHANGED <<dig, con, restarting, mixed, kind, queue, target, undo, res, cancelled>>
    BY <1>3, UpgradeGetEffect
  <2> QED BY <2>2, <2>3, <2>4 DEF TypeOK
<1>4. ASSUME NEW j \in Jobs, NextInstance(j) PROVE TypeOK'
  <2>1. target[j].image \in Digest
    BY DEF TypeOK, Digest
  <2>2. AbortReport(j, "skipped") \in [Ids -> {"none", "rolled_out", "rolled_back", "skipped"}]
    BY AbortType
  <2>3. pc' \in [Jobs -> {"idle"} \cup LivePcs \cup FinalPcs]
    <3>1. \E l \in {"inspect", "done"} : Goto(j, l)
      BY <1>4, NextInstanceEffect
    <3> QED BY <3>1 DEF TypeOK, Goto, LivePcs, WorkPcs, CallPcs, FinalPcs
  <2>4. res' \in [Jobs -> [Ids -> {"none", "rolled_out", "rolled_back", "skipped"}]]
    <3>1. res' = res \/ res' = [res EXCEPT ![j] = AbortReport(j, "skipped")]
      BY <1>4, NextInstanceEffect
    <3> QED BY <2>2, <3>1 DEF TypeOK
  <2>5. img' \in [Jobs -> Digest]
    <3>1. img' = img \/ img' = [img EXCEPT ![j] = target[j].image]
      BY <1>4, NextInstanceEffect
    <3> QED BY <2>1, <3>1 DEF TypeOK
  <2>6. UNCHANGED <<dig, con, inFlight, restarting, mixed, kind, queue, target, prev, undo, cancelled>>
    BY <1>4, NextInstanceEffect
  <2> QED BY <2>3, <2>4, <2>5, <2>6 DEF TypeOK
<1>5. ASSUME NEW j \in Jobs, Work(j) PROVE TypeOK'
  <2>1. queue[j] # << >> /\ Cur(j) \in Ids
    BY <1>5, WorkKinds, CurType DEF JobShape, Shape
  <2>2. con' \in [Ids -> Container]
    BY <1>5, <2>1, WorkKinds DEF TypeOK
  <2>3. UNCHANGED <<dig, restarting, mixed, kind, target, prev, cancelled>> /\ Kinds(j)
    BY <1>5, WorkKinds
  <2> QED BY <2>1, <2>2, <2>3, KindsType DEF TypeOK
<1>6. ASSUME NEW j \in Jobs, RecordDigest(j) PROVE TypeOK'
  <2>0. /\ pc[j] = "record"
        /\ UNCHANGED <<con, restarting, mixed, kind, target, prev, cancelled>>
    BY <1>6, RecordEffect
  <2>1. queue[j] # << >> /\ Cur(j) \in Ids /\ Tail(queue[j]) \in Seq(Ids)
    BY <2>0, CurType DEF JobShape, Shape, WorkPcs
  <2>2. NewDigest(j) \in Digest
    BY DEF NewDigest, TypeOK, Digest
  <2>3. dig' \in [Ids -> Digest]
    BY <1>6, <2>1, <2>2, RecordEffect DEF TypeOK
  <2>4. CASE StartRollback(j)
    BY <2>0, <2>1, <2>3, <2>4, KindsType DEF TypeOK, Kinds
  <2>5. CASE Ends(j, "upgraded")
    BY <2>0, <2>3, <2>5 DEF TypeOK, Ends, Goto, ClearInFlight, FinalPcs
  <2>6. CASE /\ Goto(j, "next") /\ UNCHANGED <<inFlight, img, undo>>
             /\ res' = [res EXCEPT ![j] = [@ EXCEPT ![Cur(j)] = "rolled_out"]]
             /\ queue' = [queue EXCEPT ![j] = Tail(@)]
    <3>1. [res[j] EXCEPT ![Cur(j)] = "rolled_out"] \in [Ids -> {"none", "rolled_out", "rolled_back", "skipped"}]
      BY DEF TypeOK
    <3> QED BY <2>0, <2>1, <2>3, <2>6, <3>1 DEF TypeOK, Goto, LivePcs
  <2> QED BY <1>6, <2>4, <2>5, <2>6, RecordEffect
<1>7. ASSUME NEW j \in Jobs, Cancel(j) PROVE TypeOK'
  BY <1>7 DEF Cancel, TypeOK
<1>8. ASSUME NEW i \in Ids, RestartStop(i) \/ RestartStart(i) PROVE TypeOK'
  <2>1. con' \in [Ids -> Container] /\ restarting' \in [Ids -> {"none", "stopped", "failed"}]
    <3>1. PICK c \in Container, r \in {"none", "stopped", "failed"} :
            con' = [con EXCEPT ![i] = c] /\ restarting' = [restarting EXCEPT ![i] = r]
      BY <1>8, RestartEffect
    <3> QED BY <3>1 DEF TypeOK
  <2> QED BY <1>8, <2>1, RestartEffect DEF TypeOK
<1>10. CASE UNCHANGED vars
  BY <1>10 DEF TypeOK, vars, jobVars
<1>11. ASSUME NEW j \in Jobs, Step(j) PROVE TypeOK'
  BY <1>3, <1>4, <1>5, <1>6, <1>11 DEF Step, Work
<1> QED BY <1>1, <1>2, <1>7, <1>8, <1>10, <1>11 DEF Next

(* What Shape(x) speaks of. *)
LEMMA ShapeFrame ==
    ASSUME NEW x \in Jobs, Shape(x), pc'[x] = pc[x], kind'[x] = kind[x], queue'[x] = queue[x],
           target'[x] = target[x], prev'[x] = prev[x], img'[x] = img[x], undo'[x] = undo[x], res'[x] = res[x]
    PROVE  Shape(x)'
BY DEF Shape, RollbackImages, Cur

(* A step of one kind keeps the shape of its job. *)
LEMMA KindsShape ==
    ASSUME TypeOK, NEW j \in Jobs, Shape(j), pc[j] \in WorkPcs, Kinds(j), UNCHANGED <<kind, target, prev>>
    PROVE  Shape(j)'
<1>0. /\ kind[j] \in {"all", "one"} /\ queue[j] # << >> /\ undo[j] \in BOOLEAN
      /\ pc[j] # "idle" /\ kind[j] # "none"
  BY DEF Shape, TypeOK, WorkPcs, CallPcs
<1>1. ASSUME NEW l \in WorkPcs, Moves(j, l), l \notin CallPcs => ~undo[j] /\ (l = "verify" => kind[j] = "all")
      PROVE  Shape(j)'
  <2>1. pc'[j] = l /\ queue'[j] = queue[j] /\ img'[j] = img[j] /\ undo'[j] = undo[j] /\ res'[j] = res[j]
    BY <1>1 DEF Moves, Goto, TypeOK
  <2>2. /\ l \notin {"idle", "next", "done", "get", "upgraded", "current", "failed", "rejected"}
        /\ "verify" \notin CallPcs
    BY DEF WorkPcs, CallPcs
  <2>3. RollbackImages(j)' = RollbackImages(j)
    BY <2>1 DEF RollbackImages, Cur
  <2> QED BY <1>0, <1>1, <2>1, <2>2, <2>3 DEF Shape, Cur
<1>2. CASE StartRollback(j)
  <2>1. /\ pc'[j] = "inspect" /\ queue'[j] = queue[j] /\ img'[j] \in RollbackImages(j) /\ undo'[j] = TRUE
        /\ res'[j] = res[j]
    BY <1>2 DEF StartRollback, Goto, TypeOK
  <2>2. RollbackImages(j)' = RollbackImages(j)
    BY <2>1 DEF RollbackImages, Cur
  <2> QED BY <1>0, <2>1, <2>2 DEF Shape, Cur, WorkPcs, CallPcs
<1>3. CASE GiveUp(j) /\ kind[j] = "all"
  <2>1. pc'[j] = "next" /\ undo'[j] = FALSE
    BY <1>3 DEF GiveUp, Goto, TypeOK
  <2> QED BY <1>0, <1>3, <2>1 DEF Shape, Cur, WorkPcs, CallPcs
<1>4. CASE GiveUp(j) /\ kind[j] = "one"
  <2>1. pc'[j] = "failed" /\ undo'[j] = FALSE /\ queue'[j] = queue[j] /\ res'[j] = res[j]
    BY <1>4 DEF GiveUp, Goto, TypeOK
  <2> QED BY <1>0, <1>4, <2>1 DEF Shape, Cur, WorkPcs, CallPcs
<1> QED BY <1>0, <1>1, <1>2, <1>3, <1>4 DEF Kinds

(* ... and leaves the other jobs alone. *)
LEMMA KindsOthers ==
    ASSUME TypeOK, NEW j \in Jobs, Kinds(j), NEW x \in Jobs, x # j
    PROVE  /\ pc'[x] = pc[x] /\ queue'[x] = queue[x] /\ img'[x] = img[x] /\ undo'[x] = undo[x]
           /\ res'[x] = res[x]
<1>1. ASSUME NEW l, Moves(j, l)
      PROVE  /\ pc'[x] = pc[x] /\ queue'[x] = queue[x] /\ img'[x] = img[x] /\ undo'[x] = undo[x]
             /\ res'[x] = res[x]
  BY <1>1 DEF Moves, Goto, TypeOK
<1>2. CASE StartRollback(j)
  BY <1>2 DEF StartRollback, Goto, TypeOK
<1>3. CASE GiveUp(j)
  BY <1>3 DEF GiveUp, Goto, TypeOK
<1> QED BY <1>1, <1>2, <1>3 DEF Kinds

(* Every action keeps what a job knows where it is. *)
LEMMA ShapeStep ==
    ASSUME TypeOK, JobShape, [Next]_vars
    PROVE  JobShape'
<1> SUFFICES ASSUME NEW x \in Jobs PROVE Shape(x)'
  BY DEF JobShape
<1>0. Shape(x)
  BY DEF JobShape
<1>1. ASSUME NEW j \in Jobs, NEW t \in Images, StartRollout(j, t) PROVE Shape(x)'
  <2>1. CASE x = j
    <3>1. /\ pc[j] = "idle" /\ pc'[j] = "next" /\ kind'[j] = "all" /\ target'[j] = [image |-> t, tag |-> FALSE]
          /\ undo'[j] = undo[j]
      BY <1>1 DEF StartRollout, Goto, TypeOK
    <3> QED BY <1>0, <2>1, <3>1 DEF Shape, WorkPcs, CallPcs
  <2>2. CASE x # j
    BY <1>0, <1>1, <2>2, ShapeFrame DEF StartRollout, Goto, TypeOK
  <2> QED BY <2>1, <2>2
<1>2. ASSUME NEW j \in Jobs, NEW i \in Ids, NEW t \in Images, NEW tag \in BOOLEAN, HandleUpgrade(j, i, t, tag)
      PROVE  Shape(x)'
  <2>1. CASE x = j
    <3>1. /\ pc[j] = "idle" /\ pc'[j] \in {"get", "rejected"} /\ kind'[j] = "one" /\ queue'[j] = <<i>>
          /\ undo'[j] = undo[j] /\ res'[j] = res[j]
      BY <1>2 DEF HandleUpgrade, Goto, TypeOK
    <3>2. queue'[j] # << >> /\ \A e \in Ids : Contains(queue'[j], e) => e = Head(queue'[j])
      BY <3>1, SingleContains
    <3> QED BY <1>0, <2>1, <3>1, <3>2 DEF Shape, Cur, WorkPcs, CallPcs
  <2>2. CASE x # j
    BY <1>0, <1>2, <2>2, ShapeFrame DEF HandleUpgrade, Goto, TypeOK
  <2> QED BY <2>1, <2>2
<1>3. ASSUME NEW j \in Jobs, UpgradeGet(j) PROVE Shape(x)'
  <2>1. CASE x = j
    <3>1. /\ pc[j] = "get" /\ pc'[j] \in {"inspect", "current", "rejected"}
          /\ pc'[j] = "inspect" => img'[j] = target[j].image
          /\ UNCHANGED <<kind, queue, target, undo, res>>
      BY <1>3, UpgradeGetEffect DEF Goto, TypeOK
    <3>2. kind[j] = "one"
      BY <1>0, <2>1, <3>1 DEF Shape, TypeOK
    <3> QED BY <1>0, <2>1, <3>1, <3>2 DEF Shape, Cur, WorkPcs, CallPcs
  <2>2. CASE x # j
    <3>1. /\ pc'[x] = pc[x] /\ img'[x] = img[x] /\ prev'[x] = prev[x]
          /\ UNCHANGED <<kind, queue, target, undo, res>>
      <4>1. /\ prev' = [prev EXCEPT ![j] = dig]
            /\ UNCHANGED <<kind, queue, target, undo, res>>
            /\ img' = img \/ img' = [img EXCEPT ![j] = target[j].image]
            /\ \E l : Goto(j, l)
        BY <1>3, UpgradeGetEffect
      <4>2. pc'[x] = pc[x]
        BY <2>2, <4>1 DEF Goto, TypeOK
      <4>3. img'[x] = img[x] /\ prev'[x] = prev[x]
        BY <2>2, <4>1 DEF TypeOK
      <4> QED BY <4>1, <4>2, <4>3
    <3> QED BY <1>0, <3>1, ShapeFrame
  <2> QED BY <2>1, <2>2
<1>4. ASSUME NEW j \in Jobs, NextInstance(j) PROVE Shape(x)'
  <2>1. CASE x = j
    <3>1. /\ pc[j] = "next" /\ pc'[j] \in {"inspect", "done"}
          /\ pc'[j] = "inspect" => img'[j] = target[j].image /\ queue[j] # << >>
          /\ UNCHANGED <<kind, queue, target, undo>>
      BY <1>4, NextInstanceEffect DEF Goto, TypeOK
    <3>2. kind[j] = "all"
      BY <1>0, <2>1, <3>1 DEF Shape, TypeOK
    <3> QED BY <1>0, <2>1, <3>1, <3>2 DEF Shape, Cur, WorkPcs, CallPcs
  <2>2. CASE x # j
    <3>1. /\ pc'[x] = pc[x] /\ img'[x] = img[x] /\ res'[x] = res[x]
          /\ UNCHANGED <<kind, queue, target, undo, prev>>
      <4>1. \E r : res' = res \/ res' = [res EXCEPT ![j] = r]
        BY <1>4, NextInstanceEffect
      <4>2. \E g : img' = img \/ img' = [img EXCEPT ![j] = g]
        BY <1>4, NextInstanceEffect
      <4>3. (\E l : Goto(j, l)) /\ UNCHANGED <<kind, queue, target, undo, prev>>
        BY <1>4, NextInstanceEffect
      <4> QED BY <2>2, <4>1, <4>2, <4>3 DEF Goto, TypeOK
    <3> QED BY <1>0, <3>1, ShapeFrame
  <2> QED BY <2>1, <2>2
<1>5. ASSUME NEW j \in Jobs, Work(j) PROVE Shape(x)'
  <2>0. pc[j] \in WorkPcs /\ Kinds(j) /\ UNCHANGED <<kind, target, prev>>
    BY <1>5, WorkKinds
  <2>1. CASE x = j
    BY <1>0, <2>0, <2>1, KindsShape
  <2>2. CASE x # j
    BY <1>0, <2>0, <2>2, KindsOthers, ShapeFrame
  <2> QED BY <2>1, <2>2
<1>6. ASSUME NEW j \in Jobs, RecordDigest(j) PROVE Shape(x)'
  <2>0. pc[j] = "record" /\ UNCHANGED <<kind, target, prev>>
    BY <1>6, RecordEffect
  <2>1. CASE StartRollback(j)
    <3>1. Kinds(j) /\ pc[j] \in WorkPcs
      BY <2>0, <2>1 DEF Kinds, WorkPcs
    <3>2. CASE x = j
      BY <1>0, <2>0, <3>1, <3>2, KindsShape
    <3>3. CASE x # j
      BY <1>0, <2>0, <3>1, <3>3, KindsOthers, ShapeFrame
    <3> QED BY <3>2, <3>3
  <2>2. CASE kind[j] = "one" /\ Ends(j, "upgraded")
    <3>1. pc'[j] = "upgraded" /\ UNCHANGED <<queue, img, undo, res>> /\ (x # j => pc'[x] = pc[x])
      BY <2>2 DEF Ends, Goto, TypeOK
    <3>2. CASE x = j
      BY <1>0, <2>0, <2>2, <3>1, <3>2 DEF Shape, Cur, WorkPcs, CallPcs
    <3>3. CASE x # j
      BY <1>0, <2>0, <3>1, <3>3, ShapeFrame
    <3> QED BY <3>2, <3>3
  <2>3. CASE /\ kind[j] = "all" /\ Goto(j, "next")
             /\ res' = [res EXCEPT ![j] = [@ EXCEPT ![Cur(j)] = "rolled_out"]]
             /\ queue' = [queue EXCEPT ![j] = Tail(@)]
             /\ UNCHANGED <<inFlight, img, undo>>
    <3>1. pc'[j] = "next" /\ UNCHANGED undo
      BY <2>3 DEF Goto, TypeOK
    <3>2. CASE x = j
      BY <1>0, <2>0, <2>3, <3>1, <3>2 DEF Shape, Cur, WorkPcs, CallPcs
    <3>3. CASE x # j
      <4>1. pc'[x] = pc[x] /\ queue'[x] = queue[x] /\ res'[x] = res[x] /\ UNCHANGED <<img, undo>>
        BY <2>3, <3>3 DEF Goto, TypeOK
      <4> QED BY <1>0, <2>0, <4>1, ShapeFrame
    <3> QED BY <3>2, <3>3
  <2> QED BY <1>6, <2>1, <2>2, <2>3, RecordEffect
<1>7. ASSUME NEW j \in Jobs, Cancel(j) PROVE Shape(x)'
  BY <1>0, <1>7, ShapeFrame DEF Cancel
<1>8. ASSUME NEW i \in Ids, RestartStop(i) \/ RestartStart(i) PROVE Shape(x)'
  BY <1>0, <1>8, RestartEffect, ShapeFrame
<1>9. CASE UNCHANGED vars
  BY <1>0, <1>9, ShapeFrame DEF vars, jobVars
<1>10. ASSUME NEW j \in Jobs, Step(j) PROVE Shape(x)'
  BY <1>3, <1>4, <1>5, <1>6, <1>10 DEF Step, Work
<1> QED BY <1>1, <1>2, <1>7, <1>8, <1>9, <1>10 DEF Next

-----------------------------------------------------------------------------
(* The in-flight marks, and jobs that keep apart *)

Upgrading(j) == kind[j] = "one" /\ Live(j)

(* While no rollout has met another job, one job at most has an instance      *)
(* before it.                                                                 *)
Apart == ~mixed => \A i \in Ids : \A j, x \in At(i) : j = x

(* A step of a job leaves the others alone, adds nothing to its queue, and    *)
(* clears the mark of an upgrade exactly when it ends it.                     *)
StepMarks(j) ==
    /\ mixed' = mixed /\ kind' = kind
    /\ \A x \in Jobs \ {j} : pc'[x] = pc[x] /\ queue'[x] = queue[x]
    /\ Live(j)
    /\ \A i \in Ids : Contains(queue'[j], i) => Contains(queue[j], i)
    /\ kind[j] = "one" => queue'[j] = queue[j]
    /\ \/ inFlight' = inFlight /\ (kind[j] = "one" => Live(j)')
       \/ kind[j] = "one" /\ ~Live(j)' /\ inFlight' = inFlight \ {Cur(j)}

(* A step of the three kinds treats the marks as StepMarks says. *)
LEMMA KindsMarks ==
    ASSUME TypeOK, JobShape, NEW j \in Jobs, pc[j] \in WorkPcs, Kinds(j), UNCHANGED <<mixed, kind>>
    PROVE  StepMarks(j)
<1>0. Live(j) /\ \A x \in Jobs \ {j} : pc'[x] = pc[x] /\ queue'[x] = queue[x]
  BY KindsOthers DEF Live, LivePcs
<1>1. ASSUME NEW l \in WorkPcs, Moves(j, l)
      PROVE  StepMarks(j)
  <2>1. pc'[j] = l /\ UNCHANGED <<queue, inFlight>>
    BY <1>1 DEF Moves, Goto, TypeOK
  <2> QED BY <1>0, <2>1 DEF StepMarks, Live, LivePcs
<1>2. CASE StartRollback(j)
  <2>1. pc'[j] = "inspect" /\ UNCHANGED <<queue, inFlight>>
    BY <1>2 DEF StartRollback, Goto, TypeOK
  <2> QED BY <1>0, <2>1 DEF StepMarks, Live, LivePcs, WorkPcs, CallPcs
<1>3. CASE GiveUp(j) /\ kind[j] = "all"
  <2>1. pc'[j] = "next" /\ UNCHANGED inFlight /\ queue'[j] = << >>
    BY <1>3 DEF GiveUp, Goto, TypeOK, AfterFailure
  <2>2. \A i \in Ids : ~Contains(queue'[j], i)
    BY <2>1 DEF Contains
  <2> QED BY <1>0, <1>3, <2>1, <2>2 DEF StepMarks
<1>4. CASE GiveUp(j) /\ kind[j] = "one"
  <2>1. pc'[j] = "failed" /\ inFlight' = inFlight \ {Cur(j)} /\ queue' = queue
    BY <1>4 DEF GiveUp, Goto, TypeOK, ClearInFlight
  <2>2. ~Live(j)'
    BY <2>1 DEF Live, LivePcs, WorkPcs, CallPcs
  <2> QED BY <1>0, <1>4, <2>1, <2>2 DEF StepMarks
<1>5. kind[j] \in {"all", "one"}
  BY DEF JobShape, Shape, TypeOK, WorkPcs, CallPcs
<1> QED BY <1>1, <1>2, <1>3, <1>4, <1>5 DEF Kinds

(* So does every step of a job. *)
LEMMA StepsMark ==
    ASSUME TypeOK, JobShape, NEW j \in Jobs, Step(j)
    PROVE  StepMarks(j)
<1>1. CASE UpgradeGet(j)
  <2>1. pc[j] = "get" /\ UNCHANGED <<mixed, kind, queue>>
    BY <1>1, UpgradeGetEffect
  <2>2. Live(j) /\ kind[j] = "one"
    BY <2>1 DEF Live, LivePcs, JobShape, Shape, TypeOK
  <2>3. CASE Goto(j, "inspect") /\ UNCHANGED inFlight
    BY <2>1, <2>2, <2>3 DEF StepMarks, Goto, TypeOK, Live, LivePcs, WorkPcs, CallPcs
  <2>4. ASSUME NEW l \in {"current", "rejected"}, Goto(j, l), ClearInFlight(j)
        PROVE  StepMarks(j)
    <3>1. ~Live(j)'
      BY <2>4 DEF Goto, TypeOK, Live, LivePcs, WorkPcs, CallPcs
    <3> QED BY <2>1, <2>2, <2>4, <3>1 DEF StepMarks, Goto, TypeOK, ClearInFlight
  <2> QED BY <1>1, <2>3, <2>4, UpgradeGetEffect
<1>2. CASE NextInstance(j)
  <2>1. pc[j] = "next" /\ UNCHANGED <<mixed, kind, queue, inFlight>> /\ \E l : Goto(j, l)
    BY <1>2, NextInstanceEffect
  <2>2. Live(j) /\ kind[j] # "one"
    BY <2>1 DEF Live, LivePcs, JobShape, Shape
  <2> QED BY <2>1, <2>2 DEF StepMarks, Goto, TypeOK
<1>3. CASE Work(j)
  BY <1>3, WorkKinds, KindsMarks
<1>4. CASE RecordDigest(j)
  <2>1. pc[j] = "record" /\ UNCHANGED <<mixed, kind>> /\ Live(j) /\ pc[j] \in WorkPcs
    BY <1>4, RecordEffect DEF Live, LivePcs, WorkPcs
  <2>2. CASE StartRollback(j)
    BY <2>1, <2>2, KindsMarks DEF Kinds
  <2>3. CASE kind[j] = "one" /\ Ends(j, "upgraded")
    <3>1. ~Live(j)' /\ UNCHANGED queue /\ inFlight' = inFlight \ {Cur(j)}
      BY <2>3 DEF Ends, Goto, TypeOK, Live, LivePcs, WorkPcs, CallPcs, ClearInFlight
    <3>2. \A x \in Jobs \ {j} : pc'[x] = pc[x]
      BY <2>3 DEF Ends, Goto, TypeOK
    <3> QED BY <2>1, <2>3, <3>1, <3>2 DEF StepMarks
  <2>4. CASE kind[j] = "all" /\ Goto(j, "next") /\ queue' = [queue EXCEPT ![j] = Tail(@)] /\ UNCHANGED inFlight
    <3>1. queue[j] \in Seq(Ids) /\ queue[j] # << >> /\ queue'[j] = Tail(queue[j])
      BY <2>1, <2>4 DEF TypeOK, JobShape, Shape
    <3>2. \A i \in Ids : Contains(queue'[j], i) => Contains(queue[j], i)
      BY <3>1, TailContains
    <3>3. \A x \in Jobs \ {j} : pc'[x] = pc[x] /\ queue'[x] = queue[x]
      BY <2>4 DEF Goto, TypeOK
    <3> QED BY <2>1, <2>4, <3>2, <3>3 DEF StepMarks
  <2> QED BY <1>4, <2>2, <2>3, <2>4, RecordEffect
<1> QED BY <1>1, <1>2, <1>3, <1>4 DEF Step, Work

(* The marks, pointwise. *)
LEMMA MarksPointwise ==
    UpgradesExclusive <=>
        /\ \A j, x \in Jobs : Upgrading(j) /\ Upgrading(x) /\ Cur(j) = Cur(x) => j = x
        /\ \A i : i \in inFlight <=> \E j \in Jobs : Upgrading(j) /\ Cur(j) = i
BY DEF UpgradesExclusive, Upgrading

(* The same for the next state. *)
LEMMA MarksPointwiseNext ==
    UpgradesExclusive' <=>
        /\ \A j, x \in Jobs : Upgrading(j)' /\ Upgrading(x)' /\ Cur(j)' = Cur(x)' => j = x
        /\ \A i : i \in inFlight' <=> \E j \in Jobs : Upgrading(j)' /\ Cur(j)' = i
BY DEF UpgradesExclusive, Upgrading, Live, Cur

(* Nothing that Live, queue, kind and marks depend on changes. *)
LEMMA StandStill ==
    ASSUME UpgradesExclusive, Apart, UNCHANGED <<pc, kind, queue, inFlight, mixed>>
    PROVE  UpgradesExclusive' /\ Apart'
<1>1. \A j : (Upgrading(j)' <=> Upgrading(j)) /\ Cur(j)' = Cur(j)
  BY DEF Upgrading, Live, Cur
<1>2. UpgradesExclusive'
  BY <1>1, MarksPointwise, MarksPointwiseNext
<1>3. \A i : At(i)' = At(i)
  BY DEF At, Live
<1> QED BY <1>2, <1>3 DEF Apart

(* Every action keeps the marks exact and the jobs apart. *)
LEMMA MarksStep ==
    ASSUME TypeOK, JobShape, UpgradesExclusive, Apart, [Next]_vars
    PROVE  UpgradesExclusive' /\ Apart'
<1>1. ASSUME NEW j \in Jobs, NEW t \in Images, StartRollout(j, t) PROVE UpgradesExclusive' /\ Apart'
  <2>1. /\ pc[j] = "idle" /\ kind'[j] = "all" /\ UNCHANGED inFlight /\ pc'[j] = "next"
        /\ \A x \in Jobs \ {j} : pc'[x] = pc[x] /\ queue'[x] = queue[x] /\ kind'[x] = kind[x]
        /\ mixed' = (mixed \/ \E i \in Ids : At(i) # {})
    BY <1>1 DEF StartRollout, Goto, TypeOK
  <2>2. ~Upgrading(j) /\ ~Upgrading(j)'
    BY <2>1 DEF Upgrading, Live, LivePcs, WorkPcs, CallPcs
  <2>3. \A x \in Jobs : (Upgrading(x)' <=> Upgrading(x)) /\ (Upgrading(x) => Cur(x)' = Cur(x))
    BY <2>1, <2>2 DEF Upgrading, Live, Cur
  <2>4. UpgradesExclusive'
    BY <2>1, <2>3, MarksPointwise, MarksPointwiseNext
  <2>5. \A x \in Jobs \ {j}, i \in Ids : x \in At(i)' => x \in At(i)
    BY <2>1 DEF At, Live
  <2>6. ASSUME ~mixed' PROVE \A i \in Ids : \A x \in At(i)' : x = j
    <3>1. \A i \in Ids : At(i) = {}
      BY <2>1, <2>6
    <3>2. \A i \in Ids : \A x \in At(i)' : x \in Jobs
      BY DEF At
    <3> QED BY <2>5, <3>1, <3>2
  <2> QED BY <2>4, <2>6 DEF Apart
<1>2. ASSUME NEW j \in Jobs, NEW i \in Ids, NEW t \in Images, NEW tag \in BOOLEAN, HandleUpgrade(j, i, t, tag)
      PROVE  UpgradesExclusive' /\ Apart'
  <2>1. /\ pc[j] = "idle" /\ kind'[j] = "one" /\ queue'[j] = <<i>>
        /\ \A x \in Jobs \ {j} : pc'[x] = pc[x] /\ queue'[x] = queue[x] /\ kind'[x] = kind[x]
        /\ mixed' = (mixed \/ \E x \in At(i) : kind[x] = "all")
        /\ \/ i \notin inFlight /\ inFlight' = inFlight \cup {i} /\ pc'[j] = "get"
           \/ inFlight' = inFlight /\ pc'[j] = "rejected"
    BY <1>2 DEF HandleUpgrade, Goto, TypeOK, NotInFlight
  <2>2. ~Upgrading(j) /\ Cur(j)' = i /\ (Live(j)' <=> pc'[j] = "get") /\ (Upgrading(j)' <=> pc'[j] = "get")
    BY <2>1 DEF Upgrading, Live, LivePcs, WorkPcs, CallPcs, Cur
  <2>3. \A x \in Jobs \ {j} : (Upgrading(x)' <=> Upgrading(x)) /\ Cur(x)' = Cur(x)
    BY <2>1 DEF Upgrading, Live, Cur
  <2>4. UpgradesExclusive'
    <3>1. CASE pc'[j] = "get"
      BY <2>1, <2>2, <2>3, <3>1, MarksPointwise, MarksPointwiseNext
    <3>2. CASE pc'[j] = "rejected"
      BY <2>1, <2>2, <2>3, <3>2, MarksPointwise, MarksPointwiseNext
    <3> QED BY <2>1, <3>1, <3>2
  <2>5. \A x \in Jobs \ {j}, k \in Ids : x \in At(k)' => x \in At(k)
    BY <2>1 DEF At, Live
  <2>6. \A k \in Ids : j \in At(k)' => k = i /\ pc'[j] = "get"
    <3>1. \A e : Contains(queue'[j], e) <=> e = i
      BY <2>1, SingleContains
    <3> QED BY <2>2, <3>1 DEF At
  <2>7. ASSUME ~mixed', pc'[j] = "get" PROVE At(i) = {}
    <3> SUFFICES ASSUME NEW x \in At(i) PROVE FALSE
      OBVIOUS
    <3>1. x \in Jobs /\ Live(x) /\ Contains(queue[x], i) /\ kind[x] # "all"
      BY <2>1, <2>7 DEF At
    <3>2. kind[x] = "one" /\ Cur(x) = i
      BY <3>1 DEF JobShape, Shape, TypeOK, Live, LivePcs, WorkPcs, CallPcs
    <3>3. i \in inFlight
      BY <3>1, <3>2, MarksPointwise DEF Upgrading
    <3> QED BY <2>1, <2>7, <3>3
  <2>8. ASSUME ~mixed', NEW k \in Ids, NEW x \in At(k)', NEW y \in At(k)' PROVE x = y
    <3>1. x \in Jobs /\ y \in Jobs /\ ~mixed
      BY <2>1, <2>8 DEF At
    <3> QED BY <2>5, <2>6, <2>7, <2>8, <3>1 DEF Apart
  <2> QED BY <2>4, <2>8 DEF Apart
<1>3. ASSUME NEW j \in Jobs, Step(j) PROVE UpgradesExclusive' /\ Apart'
  <2>1. StepMarks(j)
    BY <1>3, StepsMark
  <2>2. \A x \in Jobs \ {j} : (Upgrading(x)' <=> Upgrading(x)) /\ Cur(x)' = Cur(x)
    BY <2>1 DEF StepMarks, Upgrading, Live, Cur
  <2>3. UpgradesExclusive'
    <3>1. CASE kind[j] # "one"
      <4>1. ~Upgrading(j) /\ ~Upgrading(j)' /\ inFlight' = inFlight
        BY <2>1, <3>1 DEF StepMarks, Upgrading
      <4> QED BY <2>2, <4>1, MarksPointwise, MarksPointwiseNext
    <3>2. CASE kind[j] = "one" /\ inFlight' = inFlight /\ Live(j)'
      <4>1. Upgrading(j) /\ Upgrading(j)' /\ Cur(j)' = Cur(j)
        BY <2>1, <3>2 DEF StepMarks, Upgrading, Cur
      <4> QED BY <2>2, <3>2, <4>1, MarksPointwise, MarksPointwiseNext
    <3>3. CASE kind[j] = "one" /\ ~Live(j)' /\ inFlight' = inFlight \ {Cur(j)}
      <4>1. Upgrading(j) /\ ~Upgrading(j)'
        BY <2>1, <3>3 DEF StepMarks, Upgrading
      <4> QED BY <2>2, <3>3, <4>1, MarksPointwise, MarksPointwiseNext
    <3> QED BY <2>1, <3>1, <3>2, <3>3 DEF StepMarks
  <2>4. \A i \in Ids : \A x \in At(i)' : x \in At(i)
    <3> SUFFICES ASSUME NEW i \in Ids, NEW x \in At(i)' PROVE x \in At(i)
      OBVIOUS
    <3>1. x \in Jobs /\ Live(x)' /\ Contains(queue'[x], i)
      BY DEF At
    <3>2. CASE x = j
      BY <2>1, <3>1, <3>2 DEF StepMarks, At
    <3>3. CASE x # j
      BY <2>1, <3>1, <3>3 DEF StepMarks, At, Live
    <3> QED BY <3>2, <3>3
  <2> QED BY <2>1, <2>3, <2>4 DEF Apart, StepMarks
<1>4. ASSUME NEW j \in Jobs, Cancel(j) PROVE UpgradesExclusive' /\ Apart'
  BY <1>4, StandStill DEF Cancel
<1>5. ASSUME NEW i \in Ids, RestartStop(i) \/ RestartStart(i) PROVE UpgradesExclusive' /\ Apart'
  BY <1>5, StandStill, RestartEffect
<1>6. CASE UNCHANGED vars
  BY <1>6, StandStill DEF vars, jobVars
<1> QED BY <1>1, <1>2, <1>3, <1>4, <1>5, <1>6 DEF Next

-----------------------------------------------------------------------------
(* The report *)

(* What a rollout has not reported yet is in its queue; the instance reported *)
(* as rolled back is one, and ends the queue.                                 *)
Report(j) ==
    /\ kind[j] = "all" /\ pc[j] # "done" => \A i \in Ids : res[j][i] = "none" => Contains(queue[j], i)
    /\ pc[j] = "done" => \A i \in Ids : res[j][i] # "none"
    /\ \A i \in Ids : res[j][i] = "rolled_back" => queue[j] = << >> /\ pc[j] \in {"next", "done"}
    /\ \A i, k \in Ids : res[j][i] = "rolled_back" /\ res[j][k] = "rolled_back" => i = k
Reports == \A j \in Jobs : Report(j)

(* What Report(x) speaks of. *)
LEMMA ReportFrame ==
    ASSUME NEW x \in Jobs, Report(x), pc'[x] = pc[x], kind'[x] = kind[x], queue'[x] = queue[x], res'[x] = res[x]
    PROVE  Report(x)'
BY DEF Report

(* The abort report, and the report of the digest that was recorded. *)
LEMMA AbortEntries ==
    ASSUME TypeOK, NEW j \in Jobs, queue[j] # << >>, NEW s
    PROVE  \A i \in Ids :
              AbortReport(j, s)[i] = IF i = Cur(j) THEN s
                                     ELSE IF Contains(queue[j], i) THEN "skipped" ELSE res[j][i]
BY DEF AbortReport

(* A step of the three kinds keeps the report of its job. *)
LEMMA KindsReport ==
    ASSUME TypeOK, NEW j \in Jobs, Shape(j), Report(j), pc[j] \in WorkPcs, Kinds(j), UNCHANGED kind
    PROVE  Report(j)'
<1>0. /\ pc[j] \notin {"next", "done", "idle"} /\ \A i \in Ids : res[j][i] # "rolled_back"
      /\ queue[j] # << >> /\ kind[j] \in {"all", "one"}
  BY DEF Report, WorkPcs, CallPcs, Shape, TypeOK
<1>1. ASSUME NEW l \in WorkPcs, Moves(j, l) PROVE Report(j)'
  <2>1. pc'[j] = l /\ queue'[j] = queue[j] /\ res'[j] = res[j] /\ l # "done"
    BY <1>1 DEF Moves, Goto, TypeOK, WorkPcs, CallPcs
  <2> QED BY <1>0, <2>1 DEF Report
<1>2. CASE StartRollback(j)
  <2>1. pc'[j] = "inspect" /\ queue'[j] = queue[j] /\ res'[j] = res[j]
    BY <1>2 DEF StartRollback, Goto, TypeOK
  <2> QED BY <1>0, <2>1 DEF Report
<1>3. CASE GiveUp(j) /\ kind[j] = "one"
  <2>1. pc'[j] = "failed" /\ queue'[j] = queue[j] /\ res'[j] = res[j]
    BY <1>3 DEF GiveUp, Goto, TypeOK
  <2> QED BY <1>0, <1>3, <2>1 DEF Report
<1>4. CASE GiveUp(j) /\ kind[j] = "all"
  <2>1. pc'[j] = "next" /\ queue'[j] = << >> /\ res'[j] = AbortReport(j, "rolled_back")
    BY <1>4 DEF GiveUp, Goto, TypeOK, AfterFailure
  <2>2. \A i \in Ids : res'[j][i] = IF i = Cur(j) THEN "rolled_back"
                                    ELSE IF Contains(queue[j], i) THEN "skipped" ELSE res[j][i]
    BY <1>0, <2>1, AbortEntries
  <2>3. \A i \in Ids : res'[j][i] = "rolled_back" => i = Cur(j)
    BY <1>0, <2>2
  <2>4. \A i \in Ids : res'[j][i] # "none"
    BY <1>0, <1>4, <2>2 DEF Report
  <2> QED BY <2>1, <2>3, <2>4 DEF Report
<1> QED BY <1>0, <1>1, <1>2, <1>3, <1>4 DEF Kinds

(* Every action keeps the reports. *)
LEMMA ReportStep ==
    ASSUME TypeOK, JobShape, Reports, [Next]_vars
    PROVE  Reports'
<1> SUFFICES ASSUME NEW x \in Jobs PROVE Report(x)'
  BY DEF Reports
<1>0. Report(x) /\ Shape(x)
  BY DEF Reports, JobShape
<1>1. ASSUME NEW j \in Jobs, NEW t \in Images, StartRollout(j, t) PROVE Report(x)'
  <2>1. CASE x = j
    <3>1. /\ pc[j] = "idle" /\ pc'[j] = "next" /\ queue'[j] = Order /\ res'[j] = res[j]
      BY <1>1 DEF StartRollout, Goto, TypeOK
    <3>2. \A i \in Ids : res[j][i] = "none"
      BY <1>0, <2>1, <3>1 DEF Shape
    <3> QED BY <2>1, <3>1, <3>2, OrderType DEF Report
  <2>2. CASE x # j
    BY <1>0, <1>1, <2>2, ReportFrame DEF StartRollout, Goto, TypeOK
  <2> QED BY <2>1, <2>2
<1>2. ASSUME NEW j \in Jobs, NEW i \in Ids, NEW t \in Images, NEW tag \in BOOLEAN, HandleUpgrade(j, i, t, tag)
      PROVE  Report(x)'
  <2>1. CASE x = j
    <3>1. /\ pc[j] = "idle" /\ pc'[j] \in {"get", "rejected"} /\ kind'[j] = "one" /\ res'[j] = res[j]
      BY <1>2 DEF HandleUpgrade, Goto, TypeOK
    <3>2. \A k \in Ids : res[j][k] = "none"
      BY <1>0, <2>1, <3>1 DEF Shape
    <3> QED BY <2>1, <3>1, <3>2 DEF Report
  <2>2. CASE x # j
    BY <1>0, <1>2, <2>2, ReportFrame DEF HandleUpgrade, Goto, TypeOK
  <2> QED BY <2>1, <2>2
<1>3. ASSUME NEW j \in Jobs, UpgradeGet(j) PROVE Report(x)'
  <2>0. pc[j] = "get" /\ UNCHANGED <<kind, queue, res>> /\ \E l \in {"inspect", "current", "rejected"} : Goto(j, l)
    BY <1>3, UpgradeGetEffect
  <2>1. CASE x = j
    <3>1. kind[j] = "one" /\ pc'[j] # "done" /\ \A k \in Ids : res[j][k] = "none"
      BY <1>0, <2>0, <2>1 DEF Shape, TypeOK, Goto
    <3> QED BY <2>0, <2>1, <3>1 DEF Report
  <2>2. CASE x # j
    BY <1>0, <2>0, <2>2, ReportFrame DEF Goto, TypeOK
  <2> QED BY <2>1, <2>2
<1>4. ASSUME NEW j \in Jobs, NextInstance(j) PROVE Report(x)'
  <2>0. pc[j] = "next" /\ UNCHANGED <<kind, queue>>
    BY <1>4, NextInstanceEffect
  <2>1. CASE x = j
    <3>0. kind[j] = "all" /\ \A i \in Ids : res[j][i] = "none" => Contains(queue[j], i)
      BY <1>0, <2>0, <2>1 DEF Shape, Report, TypeOK
    <3>1. CASE queue[j] = << >> /\ Goto(j, "done") /\ UNCHANGED res
      <4>1. \A i \in Ids : ~Contains(queue[j], i)
        BY <3>1 DEF Contains
      <4>2. pc'[j] = "done"
        BY <3>1 DEF Goto, TypeOK
      <4> QED BY <1>0, <2>0, <2>1, <3>0, <3>1, <4>1, <4>2 DEF Report
    <3>2. CASE queue[j] # << >> /\ Goto(j, "done") /\ res' = [res EXCEPT ![j] = AbortReport(j, "skipped")]
      <4>1. pc'[j] = "done" /\ res'[j] = AbortReport(j, "skipped")
        BY <3>2 DEF Goto, TypeOK
      <4>2. \A i \in Ids : res'[j][i] = IF i = Cur(j) THEN "skipped"
                                        ELSE IF Contains(queue[j], i) THEN "skipped" ELSE res[j][i]
        BY <3>2, <4>1, AbortEntries
      <4>3. \A i \in Ids : res'[j][i] \notin {"none", "rolled_back"}
        BY <1>0, <2>1, <3>0, <3>2, <4>2 DEF Report
      <4> QED BY <2>1, <4>1, <4>3 DEF Report
    <3>3. CASE queue[j] # << >> /\ Goto(j, "inspect") /\ UNCHANGED res
      <4>1. pc'[j] = "inspect"
        BY <3>3 DEF Goto, TypeOK
      <4> QED BY <1>0, <2>0, <2>1, <3>0, <3>3, <4>1 DEF Report
    <3> QED BY <1>4, <3>1, <3>2, <3>3, NextInstanceEffect
  <2>2. CASE x # j
    <3>1. \E r : res' = res \/ res' = [res EXCEPT ![j] = r]
      BY <1>4, NextInstanceEffect
    <3>2. \E l : Goto(j, l)
      BY <1>4, NextInstanceEffect
    <3>3. pc'[x] = pc[x] /\ res'[x] = res[x]
      BY <2>2, <3>1, <3>2 DEF Goto, TypeOK
    <3> QED BY <1>0, <2>0, <3>3, ReportFrame
  <2> QED BY <2>1, <2>2
<1>5. ASSUME NEW j \in Jobs, Work(j) PROVE Report(x)'
  <2>0. pc[j] \in WorkPcs /\ Kinds(j) /\ UNCHANGED kind
    BY <1>5, WorkKinds
  <2>1. CASE x = j
    BY <1>0, <2>0, <2>1, KindsReport
  <2>2. CASE x # j
    BY <1>0, <2>0, <2>2, KindsOthers, ReportFrame
  <2> QED BY <2>1, <2>2
<1>6. ASSUME NEW j \in Jobs, RecordDigest(j) PROVE Report(x)'
  <2>0. pc[j] = "record" /\ UNCHANGED kind /\ pc[j] \in WorkPcs
    BY <1>6, RecordEffect DEF WorkPcs
  <2>1. CASE StartRollback(j)
    <3>1. Kinds(j)
      BY <2>1 DEF Kinds
    <3>2. CASE x = j
      BY <1>0, <2>0, <3>1, <3>2, KindsReport
    <3>3. CASE x # j
      BY <1>0, <2>0, <3>1, <3>3, KindsOthers, ReportFrame
    <3> QED BY <3>2, <3>3
  <2>2. CASE kind[j] = "one" /\ Ends(j, "upgraded")
    <3>1. pc'[j] = "upgraded" /\ UNCHANGED <<queue, res>> /\ (x # j => pc'[x] = pc[x])
      BY <2>2 DEF Ends, Goto, TypeOK
    <3>2. CASE x = j
      <4>1. \A k \in Ids : res[j][k] = "none"
        BY <1>0, <2>2, <3>2 DEF Shape
      <4> QED BY <2>0, <2>2, <3>1, <3>2, <4>1 DEF Report
    <3>3. CASE x # j
      BY <1>0, <2>0, <3>1, <3>3, ReportFrame
    <3> QED BY <3>2, <3>3
  <2>3. CASE /\ kind[j] = "all" /\ Goto(j, "next")
             /\ res' = [res EXCEPT ![j] = [@ EXCEPT ![Cur(j)] = "rolled_out"]]
             /\ queue' = [queue EXCEPT ![j] = Tail(@)]
    <3>2. CASE x = j
      <4>0. queue[j] # << >> /\ queue[j] \in Seq(Ids) /\ Cur(j) \in Ids
        BY <1>0, <2>0, <3>2, CurType DEF Shape
      <4>1. /\ pc'[j] = "next" /\ queue'[j] = Tail(queue[j])
            /\ \A k \in Ids : res'[j][k] = IF k = Cur(j) THEN "rolled_out" ELSE res[j][k]
        BY <2>3, <4>0 DEF Goto, TypeOK
      <4>2. \A k \in Ids : Contains(queue[j], k) /\ k # Cur(j) => Contains(queue'[j], k)
        BY <4>0, <4>1, TailContains DEF Cur
      <4>3. \A k \in Ids : res[j][k] # "rolled_back"
        BY <1>0, <2>0, <3>2 DEF Report
      <4>4. \A k \in Ids : res[j][k] = "none" => Contains(queue[j], k)
        BY <1>0, <2>0, <2>3, <3>2 DEF Report
      <4> QED BY <3>2, <4>1, <4>2, <4>3, <4>4 DEF Report
    <3>3. CASE x # j
      <4>1. pc'[x] = pc[x] /\ queue'[x] = queue[x] /\ res'[x] = res[x]
        BY <2>3, <3>3 DEF Goto, TypeOK
      <4> QED BY <1>0, <2>0, <4>1, ReportFrame
    <3> QED BY <3>2, <3>3
  <2> QED BY <1>6, <2>1, <2>2, <2>3, RecordEffect
<1>7. ASSUME NEW j \in Jobs, Cancel(j) PROVE Report(x)'
  BY <1>0, <1>7, ReportFrame DEF Cancel
<1>8. ASSUME NEW i \in Ids, RestartStop(i) \/ RestartStart(i) PROVE Report(x)'
  BY <1>0, <1>8, RestartEffect, ReportFrame
<1>9. CASE UNCHANGED vars
  BY <1>0, <1>9, ReportFrame DEF vars, jobVars
<1>10. ASSUME NEW j \in Jobs, Step(j) PROVE Report(x)'
  BY <1>3, <1>4, <1>5, <1>6, <1>10 DEF Step, Work
<1> QED BY <1>1, <1>2, <1>7, <1>8, <1>9, <1>10 DEF Next

-----------------------------------------------------------------------------
(* Containers while jobs keep apart *)

(* From CreateCon on the container is the one of the call under way, and a    *)
(* job past pollHealth left it running, or in the hands of the poller.        *)
Fresh(j) ==
    /\ pc[j] \in {"start", "health", "verify", "record"} =>
          con[Cur(j)].state # "absent" /\ con[Cur(j)].image = img[j]
    /\ pc[j] \in {"verify", "record"} => restarting[Cur(j)] # "none" \/ con[Cur(j)].state = "running"
AllFresh == ~mixed => \A j \in Jobs : Fresh(j)

(* The job that answers for an instance that is not sound. *)
Responsible(j, i) ==
    \/ pc[j] \in WorkPcs \cup {"failed", "upgraded"} /\ Cur(j) = i
    \/ res[j][i] = "rolled_back"
Answered(i) == Sound(i) \/ \E j \in Jobs : Responsible(j, i)
Blame == ~mixed => \A i \in Ids : Answered(i)

(* What Fresh(x) speaks of. *)
LEMMA FreshFrame ==
    ASSUME NEW x \in Jobs, Fresh(x), pc'[x] = pc[x], queue'[x] = queue[x], img'[x] = img[x],
           con'[Cur(x)] = con[Cur(x)], restarting' = restarting
    PROVE  Fresh(x)'
BY DEF Fresh, Cur

(* Two jobs at work are at two instances. *)
LEMMA WorkApart ==
    ASSUME TypeOK, JobShape, Apart, ~mixed, NEW j \in Jobs, NEW x \in Jobs, x # j,
           pc[j] \in WorkPcs, pc[x] \in WorkPcs
    PROVE  Cur(x) # Cur(j)
<1>1. queue[j] # << >> /\ queue[x] # << >>
  BY DEF JobShape, Shape
<1>2. /\ Cur(j) \in Ids /\ Contains(queue[j], Cur(j))
      /\ Cur(x) \in Ids /\ Contains(queue[x], Cur(x))
  BY <1>1, CurType
<1>3. j \in At(Cur(j)) /\ x \in At(Cur(x))
  BY <1>2 DEF At, Live, LivePcs
<1> QED BY <1>2, <1>3 DEF Apart

(* Every action keeps the containers of jobs at work as they left them. *)
LEMMA FreshStep ==
    ASSUME TypeOK, JobShape, Apart, AllFresh, [Next]_vars
    PROVE  AllFresh'
<1> SUFFICES ASSUME ~mixed', NEW x \in Jobs PROVE Fresh(x)'
  BY DEF AllFresh
<1>1. ASSUME NEW j \in Jobs, NEW t \in Images, StartRollout(j, t) PROVE Fresh(x)'
  <2>0. Fresh(x)
    BY <1>1 DEF StartRollout, AllFresh
  <2>1. CASE x = j
    <3>1. pc'[j] = "next"
      BY <1>1 DEF StartRollout, Goto, TypeOK
    <3> QED BY <2>1, <3>1 DEF Fresh
  <2>2. CASE x # j
    BY <1>1, <2>0, <2>2, FreshFrame DEF StartRollout, Goto, TypeOK
  <2> QED BY <2>1, <2>2
<1>2. ASSUME NEW j \in Jobs, NEW i \in Ids, NEW t \in Images, NEW tag \in BOOLEAN, HandleUpgrade(j, i, t, tag)
      PROVE  Fresh(x)'
  <2>0. Fresh(x)
    BY <1>2 DEF HandleUpgrade, AllFresh
  <2>1. CASE x = j
    <3>1. pc'[j] \in {"get", "rejected"}
      BY <1>2 DEF HandleUpgrade, Goto, TypeOK
    <3> QED BY <2>1, <3>1 DEF Fresh
  <2>2. CASE x # j
    BY <1>2, <2>0, <2>2, FreshFrame DEF HandleUpgrade, Goto, TypeOK
  <2> QED BY <2>1, <2>2
<1>3. ASSUME NEW j \in Jobs, UpgradeGet(j) \/ NextInstance(j) PROVE Fresh(x)'
  <2>0. /\ UNCHANGED <<con, restarting, mixed, queue>>
        /\ \E l \in {"inspect", "current", "rejected", "done"} : Goto(j, l)
        /\ \E g : img' = img \/ img' = [img EXCEPT ![j] = g]
    BY <1>3, UpgradeGetEffect, NextInstanceEffect
  <2>1. CASE x = j
    <3>1. pc'[j] \in {"inspect", "current", "rejected", "done"}
      BY <2>0 DEF Goto, TypeOK
    <3> QED BY <2>1, <3>1 DEF Fresh
  <2>2. CASE x # j
    <3>1. Fresh(x) /\ pc'[x] = pc[x] /\ img'[x] = img[x]
      BY <2>0, <2>2 DEF AllFresh, Goto, TypeOK
    <3> QED BY <2>0, <3>1, FreshFrame
  <2> QED BY <2>1, <2>2
<1>4. ASSUME NEW j \in Jobs, Work(j) PROVE Fresh(x)'
  <2>0. /\ pc[j] \in WorkPcs /\ ~mixed /\ Fresh(x) /\ Fresh(j) /\ restarting' = restarting /\ Kinds(j)
        /\ con' = con \/ \E c \in Container : con' = [con EXCEPT ![Cur(j)] = c]
    BY <1>4, WorkKinds DEF AllFresh
  <2>a. queue[j] # << >> /\ Cur(j) \in Ids
    BY <2>0, CurType DEF JobShape, Shape
  <2>1. CASE x # j
    <3>1. pc'[x] = pc[x] /\ queue'[x] = queue[x] /\ img'[x] = img[x]
      BY <2>0, <2>1, KindsOthers
    <3>2. CASE pc[x] \in WorkPcs
      <4>1. Cur(x) # Cur(j) /\ Cur(x) \in Ids
        BY <2>0, <2>1, <3>2, WorkApart, CurType DEF JobShape, Shape
      <4>2. con'[Cur(x)] = con[Cur(x)]
        BY <2>0, <4>1 DEF TypeOK
      <4> QED BY <2>0, <3>1, <4>2, FreshFrame
    <3>3. CASE pc[x] \notin WorkPcs
      BY <3>1, <3>3 DEF Fresh, WorkPcs, CallPcs
    <3> QED BY <3>2, <3>3
  <2>2. ASSUME StartRollback(j) \/ GiveUp(j) PROVE Fresh(j)'
    <3>1. pc'[j] \in {"inspect", "next", "failed"}
      BY <2>2 DEF StartRollback, GiveUp, Goto, TypeOK
    <3> QED BY <3>1 DEF Fresh
  <2>3. CASE x = j /\ (Health(j) \/ WaitHealthy(j))
    <3>1. /\ con' = con /\ pc[j] \in {"health", "verify"}
          /\ \/ StartRollback(j) \/ GiveUp(j)
             \/ \E l \in {"verify", "record"} : Moves(j, l) /\ con[Cur(j)].state = "running"
      BY <2>3, WaitsEffect
    <3>2. ASSUME NEW l \in {"verify", "record"}, Moves(j, l), con[Cur(j)].state = "running"
          PROVE  Fresh(j)'
      <4>1. Cur(j)' = Cur(j) /\ img'[j] = img[j] /\ pc'[j] = l
        BY <3>2 DEF Moves, Goto, Cur, TypeOK
      <4>2. con[Cur(j)].image = img[j]
        BY <2>0, <3>1 DEF Fresh
      <4> QED BY <3>1, <3>2, <4>1, <4>2 DEF Fresh
    <3> QED BY <2>2, <2>3, <3>1, <3>2
  <2>4. CASE x = j /\ ~(Health(j) \/ WaitHealthy(j))
    <3>1. \/ CallFails(j) /\ con' = con
          \/ \E l \in CallPcs, c \in Container :
                /\ Moves(j, l)
                /\ con' = [con EXCEPT ![Cur(j)] = c]
                /\ l = "start" => c.state # "absent" /\ c.image = img[j]
                /\ l = "health" => /\ pc[j] = "start" /\ c.state = "running"
                                  /\ c.image = con[Cur(j)].image
      BY <1>4, <2>4, CallsEffect DEF Work
    <3>2. CASE CallFails(j)
      BY <2>2, <2>4, <3>2 DEF CallFails
    <3>3. ASSUME NEW l \in CallPcs, NEW c \in Container,
                 Moves(j, l), con' = [con EXCEPT ![Cur(j)] = c],
                 l = "start" => c.state # "absent" /\ c.image = img[j],
                 l = "health" => /\ pc[j] = "start" /\ c.state = "running"
                                 /\ c.image = con[Cur(j)].image
          PROVE  Fresh(j)'
      <4>1. /\ Cur(j)' = Cur(j) /\ img'[j] = img[j] /\ pc'[j] = l /\ con'[Cur(j)] = c
            /\ l \notin {"verify", "record"}
        BY <2>a, <3>3 DEF Moves, Goto, Cur, TypeOK, CallPcs
      <4>2. CASE l = "start"
        BY <3>3, <4>1, <4>2 DEF Fresh
      <4>3. CASE l = "health"
        <5>1. con[Cur(j)].image = img[j]
          BY <2>0, <3>3, <4>3 DEF Fresh
        <5> QED BY <3>3, <4>1, <4>3, <5>1 DEF Fresh
      <4>4. CASE l \notin {"start", "health"}
        BY <4>1, <4>4 DEF Fresh
      <4> QED BY <4>2, <4>3, <4>4
    <3> QED BY <2>4, <3>1, <3>2, <3>3
  <2> QED BY <2>1, <2>3, <2>4
<1>5. ASSUME NEW j \in Jobs, RecordDigest(j) PROVE Fresh(x)'
  <2>0. pc[j] = "record" /\ UNCHANGED <<con, restarting, mixed>>
    BY <1>5, RecordEffect
  <2>a. Fresh(x)
    BY <2>0 DEF AllFresh
  <2>1. CASE x = j
    <3>1. pc'[j] \in {"next", "upgraded", "inspect"}
      BY <1>5, RecordEffect DEF Goto, TypeOK, StartRollback, Ends
    <3> QED BY <2>1, <3>1 DEF Fresh
  <2>2. CASE x # j
    <3>1. \E l : Goto(j, l)
      BY <1>5, RecordEffect DEF StartRollback, Ends
    <3>2. \E q : queue' = queue \/ queue' = [queue EXCEPT ![j] = q]
      BY <1>5, RecordEffect DEF StartRollback, Ends
    <3>3. \E g : img' = img \/ img' = [img EXCEPT ![j] = g]
      BY <1>5, RecordEffect DEF StartRollback, Ends
    <3>4. pc'[x] = pc[x] /\ queue'[x] = queue[x] /\ img'[x] = img[x]
      BY <2>2, <3>1, <3>2, <3>3 DEF Goto, TypeOK
    <3> QED BY <2>0, <2>a, <3>4, FreshFrame
  <2> QED BY <2>1, <2>2
<1>6. ASSUME NEW j \in Jobs, Cancel(j) PROVE Fresh(x)'
  BY <1>6, FreshFrame DEF Cancel, AllFresh
<1>7. ASSUME NEW i \in Ids, RestartStop(i) \/ RestartStart(i) PROVE Fresh(x)'
  <2>0. UNCHANGED <<pc, queue, img, mixed>>
    BY <1>7, RestartEffect
  <2>1. PICK c \in Container, r \in {"none", "stopped", "failed"} :
            /\ con' = [con EXCEPT ![i] = c]
            /\ c.image = con[i].image
            /\ c.state = "absent" <=> con[i].state = "absent"
            /\ restarting' = [restarting EXCEPT ![i] = r]
            /\ r # "none" \/ c.state = "running"
    BY <1>7, RestartEffect
  <2>2. Fresh(x) /\ Cur(x)' = Cur(x)
    BY <2>0 DEF AllFresh, Cur
  <2>3. con'[i] = c /\ restarting'[i] = r
    BY <2>1 DEF TypeOK
  <2>4. CASE Cur(x) = i
    BY <2>0, <2>1, <2>2, <2>3, <2>4 DEF Fresh
  <2>5. CASE Cur(x) # i /\ pc[x] \in WorkPcs
    <3>1. Cur(x) \in Ids
      BY <2>5, CurType DEF JobShape, Shape
    <3>2. con'[Cur(x)] = con[Cur(x)] /\ restarting'[Cur(x)] = restarting[Cur(x)]
      BY <2>1, <2>5, <3>1 DEF TypeOK
    <3> QED BY <2>0, <2>2, <3>2 DEF Fresh
  <2>6. CASE pc[x] \notin WorkPcs
    BY <2>0, <2>6 DEF Fresh, WorkPcs, CallPcs
  <2> QED BY <2>4, <2>5, <2>6
<1>8. CASE UNCHANGED vars
  BY <1>8, FreshFrame DEF vars, jobVars, AllFresh
<1>9. ASSUME NEW j \in Jobs, Step(j) PROVE Fresh(x)'
  BY <1>3, <1>4, <1>5, <1>9 DEF Step, Work
<1> QED BY <1>1, <1>2, <1>6, <1>7, <1>8, <1>9 DEF Next

-----------------------------------------------------------------------------
(* Who answers for an instance that is not sound *)

(* An instance nobody touches stays answered for. *)
LEMMA BlameFrame ==
    ASSUME NEW i \in Ids, Answered(i),
           con'[i] = con[i], dig'[i] = dig[i], restarting' = restarting,
           \A x \in Jobs : Responsible(x, i) => Responsible(x, i)'
    PROVE  Answered(i)'
BY DEF Sound, Restarted, Answered

(* What Responsible(x, i) speaks of. *)
LEMMA ResponsibleFrame ==
    ASSUME NEW x \in Jobs, NEW i \in Ids, Responsible(x, i),
           pc'[x] = pc[x], queue'[x] = queue[x], res'[x] = res[x]
    PROVE  Responsible(x, i)'
BY DEF Responsible, Cur

(* A working step of j keeps the answer for every instance: its own is j's,  *)
(* and the others it does not touch.                                         *)
LEMMA KindsBlame ==
    ASSUME TypeOK, JobShape, Reports, NEW j \in Jobs, pc[j] \in WorkPcs, Kinds(j), UNCHANGED kind
    PROVE  /\ \A i \in Ids : i = Cur(j) => Responsible(j, i)'
           /\ \A x \in Jobs, i \in Ids : i # Cur(j) /\ Responsible(x, i) => Responsible(x, i)'
<1>0. queue[j] # << >> /\ Cur(j) \in Ids /\ \A i \in Ids : res[j][i] # "rolled_back"
  <2>1. queue[j] # << >>
    BY DEF JobShape, Shape
  <2>2. \A i \in Ids : res[j][i] # "rolled_back"
    BY DEF Reports, Report, WorkPcs, CallPcs
  <2> QED BY <2>1, <2>2, CurType
<1>1. ASSUME NEW i \in Ids, i = Cur(j) PROVE Responsible(j, i)'
  <2>1. ASSUME NEW l \in WorkPcs, Moves(j, l) PROVE Responsible(j, i)'
    <3>1. pc'[j] = l /\ Cur(j)' = i
      BY <1>1, <2>1 DEF Moves, Goto, TypeOK, Cur
    <3> QED BY <3>1 DEF Responsible
  <2>2. CASE StartRollback(j)
    <3>1. pc'[j] = "inspect" /\ Cur(j)' = i
      BY <1>1, <2>2 DEF StartRollback, Goto, TypeOK, Cur
    <3> QED BY <3>1 DEF Responsible, WorkPcs, CallPcs
  <2>3. CASE GiveUp(j) /\ kind[j] = "one"
    <3>1. pc'[j] = "failed" /\ Cur(j)' = i
      BY <1>1, <2>3 DEF GiveUp, Goto, TypeOK, Cur
    <3> QED BY <3>1 DEF Responsible
  <2>4. CASE GiveUp(j) /\ kind[j] = "all"
    <3>1. res'[j] = AbortReport(j, "rolled_back")
      BY <2>4 DEF GiveUp, TypeOK
    <3>2. res'[j][i] = "rolled_back"
      BY <1>0, <1>1, <3>1, AbortEntries
    <3> QED BY <3>2 DEF Responsible
  <2>5. kind[j] \in {"all", "one"}
    BY DEF JobShape, Shape, TypeOK, WorkPcs, CallPcs
  <2> QED BY <2>1, <2>2, <2>3, <2>4, <2>5 DEF Kinds
<1>2. ASSUME NEW x \in Jobs, NEW i \in Ids, i # Cur(j), Responsible(x, i) PROVE Responsible(x, i)'
  <2>1. x # j
    BY <1>0, <1>2 DEF Responsible
  <2> QED BY <1>2, <2>1, KindsOthers, ResponsibleFrame
<1> QED BY <1>1, <1>2

(* Every action leaves each instance whole or answered for by a job. *)
LEMMA BlameStep ==
    ASSUME TypeOK, JobShape, Reports, AllFresh, Blame, [Next]_vars
    PROVE  Blame'
<1> SUFFICES ASSUME ~mixed', NEW i \in Ids
             PROVE  Answered(i)'
  BY DEF Blame
<1>1. ASSUME NEW j \in Jobs, NEW t \in Images, StartRollout(j, t) PROVE Answered(i)'
  <2>1. /\ ~mixed /\ pc[j] = "idle" /\ UNCHANGED <<con, dig, restarting, res>>
        /\ \A x \in Jobs \ {j} : pc'[x] = pc[x] /\ queue'[x] = queue[x]
    BY <1>1 DEF StartRollout, Goto, TypeOK
  <2>2. ~Responsible(j, i)
    BY <2>1 DEF Responsible, JobShape, Shape, WorkPcs, CallPcs
  <2>3. \A x \in Jobs : Responsible(x, i) => Responsible(x, i)'
    BY <2>1, <2>2, ResponsibleFrame
  <2> QED BY <2>1, <2>3, BlameFrame DEF Blame
<1>2. ASSUME NEW j \in Jobs, NEW k \in Ids, NEW t \in Images, NEW tag \in BOOLEAN, HandleUpgrade(j, k, t, tag)
      PROVE  Answered(i)'
  <2>1. /\ ~mixed /\ pc[j] = "idle" /\ UNCHANGED <<con, dig, restarting, res>>
        /\ \A x \in Jobs \ {j} : pc'[x] = pc[x] /\ queue'[x] = queue[x]
    BY <1>2 DEF HandleUpgrade, Goto, TypeOK
  <2>2. ~Responsible(j, i)
    BY <2>1 DEF Responsible, JobShape, Shape, WorkPcs, CallPcs
  <2>3. \A x \in Jobs : Responsible(x, i) => Responsible(x, i)'
    BY <2>1, <2>2, ResponsibleFrame
  <2> QED BY <2>1, <2>3, BlameFrame DEF Blame
<1>3. ASSUME NEW j \in Jobs, UpgradeGet(j) PROVE Answered(i)'
  <2>1. /\ pc[j] = "get" /\ UNCHANGED <<con, dig, restarting, mixed, res, queue>>
        /\ \E l : Goto(j, l)
    BY <1>3, UpgradeGetEffect
  <2>2. \A x \in Jobs \ {j} : pc'[x] = pc[x]
    BY <2>1 DEF Goto, TypeOK
  <2>3. Responsible(j, i) => Responsible(j, i)'
    BY <2>1 DEF Responsible, WorkPcs, CallPcs
  <2>4. \A x \in Jobs : Responsible(x, i) => Responsible(x, i)'
    BY <2>1, <2>2, <2>3, ResponsibleFrame
  <2> QED BY <2>1, <2>4, BlameFrame DEF Blame
<1>4. ASSUME NEW j \in Jobs, NextInstance(j) PROVE Answered(i)'
  <2>1. pc[j] = "next" /\ UNCHANGED <<con, dig, restarting, mixed, queue>>
    BY <1>4, NextInstanceEffect
  <2>2. \A x \in Jobs \ {j} : pc'[x] = pc[x] /\ res'[x] = res[x]
    <3>1. \E r : res' = res \/ res' = [res EXCEPT ![j] = r]
      BY <1>4, NextInstanceEffect
    <3>2. \E l : Goto(j, l)
      BY <1>4, NextInstanceEffect
    <3> QED BY <3>1, <3>2 DEF Goto, TypeOK
  <2>3. ASSUME Responsible(j, i) PROVE Responsible(j, i)'
    <3>1. res[j][i] = "rolled_back"
      BY <2>1, <2>3 DEF Responsible, WorkPcs, CallPcs
    <3>2. queue[j] = << >>
      BY <3>1 DEF Reports, Report
    <3>3. res' = res
      BY <1>4, <3>2, NextInstanceEffect
    <3> QED BY <3>1, <3>3 DEF Responsible
  <2>4. \A x \in Jobs : Responsible(x, i) => Responsible(x, i)'
    BY <2>1, <2>2, <2>3, ResponsibleFrame
  <2> QED BY <2>1, <2>4, BlameFrame DEF Blame
<1>5. ASSUME NEW j \in Jobs, Work(j) PROVE Answered(i)'
  <2>1. /\ pc[j] \in WorkPcs /\ Kinds(j) /\ UNCHANGED <<dig, restarting, mixed, kind>>
        /\ con' = con \/ \E c \in Container : con' = [con EXCEPT ![Cur(j)] = c]
    BY <1>5, WorkKinds
  <2>2. CASE i = Cur(j)
    BY <2>1, <2>2, KindsBlame DEF Answered
  <2>3. CASE i # Cur(j)
    <3>1. con'[i] = con[i]
      BY <2>1, <2>3 DEF TypeOK
    <3>2. \A x \in Jobs : Responsible(x, i) => Responsible(x, i)'
      BY <2>1, <2>3, KindsBlame
    <3> QED BY <2>1, <3>1, <3>2, BlameFrame DEF Blame
  <2> QED BY <2>2, <2>3
<1>6. ASSUME NEW j \in Jobs, RecordDigest(j) PROVE Answered(i)'
  <2>0. pc[j] = "record" /\ pc[j] \in WorkPcs /\ UNCHANGED <<con, restarting, mixed, kind, target>>
    BY <1>6, RecordEffect DEF WorkPcs
  <2>a. queue[j] # << >> /\ Cur(j) \in Ids /\ (i # Cur(j) => dig'[i] = dig[i])
    <3>1. queue[j] # << >> /\ Cur(j) \in Ids
      BY <2>0, CurType DEF JobShape, Shape
    <3> QED BY <1>6, <3>1, RecordEffect DEF TypeOK
  <2>1. CASE StartRollback(j) /\ dig' = dig
    <3>1. Kinds(j)
      BY <2>1 DEF Kinds
    <3>2. CASE i = Cur(j)
      BY <2>0, <3>1, <3>2, KindsBlame DEF Answered
    <3>3. CASE i # Cur(j)
      BY <2>0, <2>1, <3>1, <3>3, KindsBlame, BlameFrame DEF Blame
    <3> QED BY <3>2, <3>3
  <2>2. CASE kind[j] = "one" /\ Ends(j, "upgraded")
    <3>1. /\ pc'[j] = "upgraded" /\ UNCHANGED <<queue, res>>
          /\ \A x \in Jobs \ {j} : pc'[x] = pc[x]
      BY <2>2 DEF Ends, Goto, TypeOK
    <3>2. CASE i = Cur(j)
      BY <3>1, <3>2 DEF Responsible, Cur, Answered
    <3>3. CASE i # Cur(j)
      <4>1. Responsible(j, i) => Responsible(j, i)'
        BY <3>1, <3>3 DEF Responsible
      <4>2. \A x \in Jobs : Responsible(x, i) => Responsible(x, i)'
        BY <3>1, <4>1, ResponsibleFrame
      <4> QED BY <2>0, <2>a, <3>3, <4>2, BlameFrame DEF Blame
    <3> QED BY <3>2, <3>3
  <2>3. CASE /\ dig' = [dig EXCEPT ![Cur(j)] = NewDigest(j)]
             /\ kind[j] = "all" /\ Goto(j, "next")
             /\ res' = [res EXCEPT ![j] = [@ EXCEPT ![Cur(j)] = "rolled_out"]]
             /\ queue' = [queue EXCEPT ![j] = Tail(@)]
    <3>1. CASE i = Cur(j)
      <4>1. Fresh(j) /\ Shape(j)
        BY <2>0 DEF AllFresh, JobShape
      <4>2. con[i].image = img[j] /\ con[i].state # "absent" /\ (restarting[i] # "none" \/ con[i].state = "running")
        BY <2>0, <3>1, <4>1 DEF Fresh
      <4>3. ~undo[j] /\ ~target[j].tag /\ img[j] = target[j].image
        BY <2>0, <2>3, <4>1 DEF Shape, TypeOK, CallPcs
      <4>4. dig'[i] = con[i].image
        BY <2>3, <2>a, <3>1, <4>2, <4>3 DEF NewDigest, TypeOK
      <4> QED BY <2>0, <4>2, <4>4 DEF Sound, Restarted, Answered
    <3>2. CASE i # Cur(j)
      <4>1. \A x \in Jobs \ {j} : pc'[x] = pc[x] /\ queue'[x] = queue[x] /\ res'[x] = res[x]
        BY <2>3 DEF Goto, TypeOK
      <4>2. ~Responsible(j, i)
        BY <2>0, <3>2 DEF Responsible, Reports, Report
      <4>3. \A x \in Jobs : Responsible(x, i) => Responsible(x, i)'
        BY <4>1, <4>2, ResponsibleFrame
      <4> QED BY <2>0, <2>a, <3>2, <4>3, BlameFrame DEF Blame
    <3> QED BY <3>1, <3>2
  <2> QED BY <1>6, <2>1, <2>2, <2>3, RecordEffect
<1>7. ASSUME NEW j \in Jobs, Cancel(j) PROVE Answered(i)'
  BY <1>7, BlameFrame, ResponsibleFrame DEF Cancel, Blame
<1>8. ASSUME NEW k \in Ids, RestartStop(k) \/ RestartStart(k) PROVE Answered(i)'
  <2>0. UNCHANGED <<dig, pc, queue, res, mixed>>
    BY <1>8, RestartEffect
  <2>1. PICK c \in Container, r \in {"none", "stopped", "failed"} :
            /\ con' = [con EXCEPT ![k] = c]
            /\ c.image = con[k].image
            /\ c.state = "absent" <=> con[k].state = "absent"
            /\ restarting' = [restarting EXCEPT ![k] = r]
            /\ r # "none" \/ c.state = "running"
    BY <1>8, RestartEffect
  <2>2. \A x \in Jobs : Responsible(x, i) => Responsible(x, i)'
    BY <2>0, ResponsibleFrame
  <2>3. ASSUME Sound(i) PROVE Sound(i)'
    <3>1. CASE i = k
      <4>1. con'[i] = c /\ restarting'[i] = r
        BY <2>1, <3>1 DEF TypeOK
      <4>2. con[i].state # "absent"
        BY <2>3 DEF Sound, Restarted
      <4>3. con'[i].state = "running" \/ (restarting'[i] # "none" /\ con'[i].state # "absent")
        BY <2>1, <3>1, <4>1, <4>2
      <4> QED BY <2>0, <2>1, <2>3, <3>1, <4>1, <4>3 DEF Sound, Restarted
    <3>2. CASE i # k
      <4>1. con'[i] = con[i] /\ restarting'[i] = restarting[i]
        BY <2>1, <3>2 DEF TypeOK
      <4> QED BY <2>0, <2>3, <4>1 DEF Sound, Restarted
    <3> QED BY <3>1, <3>2
  <2> QED BY <2>0, <2>2, <2>3 DEF Blame, Answered
<1>9. CASE UNCHANGED vars
  <2>1. UNCHANGED <<con, dig, restarting, mixed, pc, queue, res>>
    BY <1>9 DEF vars, jobVars
  <2> QED BY <2>1, BlameFrame, ResponsibleFrame DEF Blame
<1>10. ASSUME NEW j \in Jobs, Step(j) PROVE Answered(i)'
  BY <1>3, <1>4, <1>5, <1>6, <1>10 DEF Step, Work
<1> QED BY <1>1, <1>2, <1>7, <1>8, <1>9, <1>10 DEF Next

-----------------------------------------------------------------------------
(* The inductive invariant and the theorems *)

Inv ==
    /\ TypeOK /\ JobShape /\ UpgradesExclusive /\ Apart
    /\ Reports /\ AllFresh /\ Blame

(* The invariant holds at the start. *)
LEMMA InitInv == Init => Inv
<1> SUFFICES ASSUME Init PROVE Inv
  OBVIOUS
<1> USE DEF Init
<1>1. /\ \A j \in Jobs : pc[j] = "idle" /\ kind[j] = "none" /\ undo[j] = FALSE
      /\ \A j \in Jobs : \A i \in Ids : res[j][i] = "none"
      /\ inFlight = {}
  OBVIOUS
<1>2. "idle" \notin LivePcs /\ "idle" \notin WorkPcs /\ "idle" \notin CallPcs
  BY DEF LivePcs, WorkPcs, CallPcs
<1>3. TypeOK
  <2>1. First \in Images /\ First \in Digest /\ Empty \in Digest /\ << >> \in Seq(Ids)
    BY RolloutAssumption DEF Digest
  <2>2. con \in [Ids -> Container]
    BY <2>1 DEF Container
  <2> QED BY <2>1, <2>2 DEF TypeOK
<1> USE DEF Init
<1>4. JobShape
  BY <1>1, <1>2 DEF JobShape, Shape
<1>5. UpgradesExclusive
  BY <1>1, MarksPointwise DEF Upgrading
<1>6. Apart
  <2>1. \A i : At(i) = {}
    BY <1>1, <1>2 DEF At, Live
  <2> QED BY <2>1 DEF Apart
<1>7. Reports
  BY <1>1 DEF Reports, Report
<1>8. AllFresh
  BY <1>1 DEF AllFresh, Fresh
<1>9. Blame
  <2>1. \A i \in Ids : con[i].state = "running" /\ dig[i] \in {con[i].image, Empty}
    OBVIOUS
  <2> QED BY <2>1 DEF Blame, Answered, Sound
<1> QED BY <1>3, <1>4, <1>5, <1>6, <1>7, <1>8, <1>9 DEF Inv

(* Every step keeps the invariant. *)
LEMMA InvStep == Inv /\ [Next]_vars => Inv'
<1> SUFFICES ASSUME Inv, [Next]_vars PROVE Inv'
  OBVIOUS
<1>0. TypeOK /\ JobShape /\ UpgradesExclusive /\ Apart /\ Reports /\ AllFresh /\ Blame
  BY DEF Inv
<1>1. TypeOK' /\ JobShape'
  BY <1>0, TypeStep, ShapeStep
<1>2. UpgradesExclusive' /\ Apart'
  BY <1>0, MarksStep
<1>3. Reports' /\ AllFresh' /\ Blame'
  BY <1>0, ReportStep, FreshStep, BlameStep
<1> QED BY <1>1, <1>2, <1>3 DEF Inv

(* The inductive invariant holds in every reachable state. *)
THEOREM Invariant == Spec => []Inv
BY InitInv, InvStep, PTL DEF Spec

(* The variables of the model keep their types. *)
THEOREM TypeCorrect == Spec => []TypeOK
<1>1. Inv => TypeOK
  BY DEF Inv
<1> QED BY <1>1, Invariant, PTL

(* Two upgrades of one instance never run at once, and the in-flight marks   *)
(* are those of the upgrades under way: handleUpgrade clears its own on every *)
(* path out.                                                                  *)
THEOREM UpgradesExclude == Spec => []UpgradesExclusive
<1>1. Inv => UpgradesExclusive
  BY DEF Inv
<1> QED BY <1>1, Invariant, PTL

(* A job answers for one instance at most. *)
LEMMA OneInstance ==
    ASSUME Inv, NEW j \in Jobs, NEW i \in Ids, NEW k \in Ids, Responsible(j, i), Responsible(j, k)
    PROVE  i = k
<1>1. Report(j)
  BY DEF Inv, Reports
<1>2. CASE pc[j] \in WorkPcs \cup {"failed", "upgraded"}
  BY <1>1, <1>2 DEF Responsible, Report, WorkPcs, CallPcs
<1>3. CASE pc[j] \notin WorkPcs \cup {"failed", "upgraded"}
  BY <1>1, <1>3 DEF Responsible, Report
<1> QED BY <1>2, <1>3

(* Each damaged instance has a suspect of its own: an injection of the ones into the others. *)
LEMMA InvBlast == Inv => BlastRadius
<1> SUFFICES ASSUME Inv, ~mixed
             PROVE  Cardinality({i \in Ids : ~Sound(i)}) <= Cardinality(Suspects)
  BY DEF BlastRadius
<1> DEFINE U == {i \in Ids : ~Sound(i)}
           f == [i \in U |-> CHOOSE j \in Jobs : Responsible(j, i)]
<1>1. ASSUME NEW i \in U PROVE \E j \in Jobs : Responsible(j, i)
  <2>1. ~Sound(i)
    OBVIOUS
  <2> QED BY <2>1 DEF Inv, Blame, Answered
<1>2. ASSUME NEW i \in U PROVE f[i] \in Jobs /\ Responsible(f[i], i)
  BY <1>1
<1>3. ASSUME NEW i \in U PROVE f[i] \in Suspects
  <2>1. f[i] \in Jobs /\ Responsible(f[i], i) /\ i \in Ids
    BY <1>2
  <2> HIDE DEF f
  <2> QED BY <2>1 DEF Suspects, Responsible
<1>4. ASSUME NEW i \in U, NEW k \in U, f[i] = f[k] PROVE i = k
  <2>1. f[i] \in Jobs /\ Responsible(f[i], i) /\ Responsible(f[i], k) /\ i \in Ids /\ k \in Ids
    BY <1>2, <1>4
  <2> HIDE DEF f
  <2> QED BY <2>1, OneInstance
<1>5. f \in [U -> Suspects]
  BY <1>3
<1> HIDE DEF f, U
<1>6. f \in Injection(U, Suspects)
  BY <1>4, <1>5 DEF Injection, IsInjective
<1>7. IsFiniteSet(Suspects)
  <2>1. Suspects \in SUBSET Jobs
    BY DEF Suspects
  <2> QED BY <2>1, RolloutAssumption, FS_Subset
<1>8. Cardinality(U) <= Cardinality(Suspects)
  BY <1>6, <1>7, FS_Injection
<1> QED BY <1>8 DEF U

(* However many jobs and instances there are, and whatever fails: as long as *)
(* no rollout has met another job, the instances that are down or run another *)
(* image than the registry records are no more than the jobs at work or ended *)
(* in failure.                                                                *)
THEOREM DamageIsBounded == Spec => []BlastRadius
BY InvBlast, Invariant, PTL

(* Every instance is in the report of a rollout that ended, and "rolled_out" *)
(* is said of an instance whose container and whose row have the target.     *)
LEMMA ReportStepTrue ==
    Inv /\ [Next]_vars =>
      [\A j \in Jobs, i \in Ids :
          /\ kind[j] = "all" /\ pc'[j] = "done" => res'[j][i] # "none"
          /\ ~mixed /\ res[j][i] # "rolled_out" /\ res'[j][i] = "rolled_out" =>
                con[i].image = target[j].image /\ dig'[i] = target[j].image]_vars
<1> SUFFICES ASSUME Inv, Next, NEW x \in Jobs, NEW i \in Ids
             PROVE  /\ kind[x] = "all" /\ pc'[x] = "done" => res'[x][i] # "none"
                    /\ ~mixed /\ res[x][i] # "rolled_out" /\ res'[x][i] = "rolled_out" =>
                          con[i].image = target[x].image /\ dig'[i] = target[x].image
  OBVIOUS
<1>0. TypeOK /\ JobShape /\ Reports /\ AllFresh /\ Inv'
  BY InvStep DEF Inv
<1>1. pc'[x] = "done" => res'[x][i] # "none"
  <2>1. Report(x)'
    BY <1>0 DEF Inv, Reports
  <2> QED BY <2>1 DEF Report
<1>2. ASSUME ~mixed, res[x][i] # "rolled_out", res'[x][i] = "rolled_out"
      PROVE  con[i].image = target[x].image /\ dig'[i] = target[x].image
  <2> DEFINE Goal == con[i].image = target[x].image /\ dig'[i] = target[x].image
  <2>1. CASE res' = res
    BY <1>2, <2>1
  <2>2. ASSUME NEW j \in Jobs, NextInstance(j) PROVE Goal
    <3>1. res' = [res EXCEPT ![j] = AbortReport(j, "skipped")] /\ queue[j] # << >>
      BY <1>2, <2>2, NextInstanceEffect
    <3>2. x = j /\ res'[j] = AbortReport(j, "skipped")
      BY <1>0, <1>2, <3>1 DEF TypeOK
    <3>3. AbortReport(j, "skipped")[i] = "rolled_out" => res[j][i] = "rolled_out"
      BY <1>0, <3>1, AbortEntries
    <3> QED BY <1>2, <3>2, <3>3
  <2>3. ASSUME NEW j \in Jobs, Work(j) PROVE Goal
    <3>1. pc[j] \in WorkPcs /\ Kinds(j)
      BY <1>0, <2>3, WorkKinds
    <3>2. GiveUp(j) /\ kind[j] = "all"
      BY <1>2, <3>1 DEF Kinds, Moves, StartRollback, GiveUp
    <3>3. queue[j] # << >> /\ res' = [res EXCEPT ![j] = AbortReport(j, "rolled_back")]
      BY <1>0, <3>1, <3>2 DEF JobShape, Shape, GiveUp
    <3>4. x = j /\ res'[j] = AbortReport(j, "rolled_back")
      BY <1>0, <1>2, <3>3 DEF TypeOK
    <3>5. AbortReport(j, "rolled_back")[i] = "rolled_out" => res[j][i] = "rolled_out"
      BY <1>0, <3>3, AbortEntries
    <3> QED BY <1>2, <3>4, <3>5
  <2>4. ASSUME NEW j \in Jobs, RecordDigest(j) PROVE Goal
    <3>1. /\ pc[j] = "record"
          /\ dig' = [dig EXCEPT ![Cur(j)] = NewDigest(j)]
          /\ kind[j] = "all"
          /\ res' = [res EXCEPT ![j] = [@ EXCEPT ![Cur(j)] = "rolled_out"]]
      BY <1>2, <2>4, RecordEffect DEF StartRollback, Ends
    <3>2. x = j /\ i = Cur(j)
      BY <1>0, <1>2, <3>1 DEF TypeOK
    <3>3. Fresh(j) /\ Shape(j)
      BY <1>0, <1>2 DEF AllFresh, JobShape
    <3>4. con[i].image = img[j] /\ ~undo[j] /\ ~target[j].tag
      BY <1>0, <3>1, <3>2, <3>3 DEF Fresh, Shape, TypeOK, CallPcs
    <3>5. img[j] = target[j].image
      BY <3>1, <3>3, <3>4 DEF Shape, WorkPcs
    <3>6. dig'[i] = target[j].image
      BY <1>0, <3>1, <3>2, <3>4 DEF NewDigest, TypeOK
    <3> QED BY <3>2, <3>4, <3>5, <3>6
  <2>5. ASSUME NEW j \in Jobs, Step(j), ~NextInstance(j), ~Work(j), ~RecordDigest(j) PROVE res' = res
    BY <2>5, UpgradeGetEffect DEF Step, Work
  <2>6. ASSUME NEW k \in Ids, RestartStop(k) \/ RestartStart(k) PROVE res' = res
    BY <1>0, <2>6, RestartEffect
  <2>7. (\E j \in Jobs, t \in Images : StartRollout(j, t)) => res' = res
    BY DEF StartRollout
  <2>8. (\E j \in Jobs, k \in Ids, t \in Images, tag \in BOOLEAN : HandleUpgrade(j, k, t, tag)) => res' = res
    BY DEF HandleUpgrade
  <2>9. (\E j \in Jobs : Cancel(j)) => res' = res
    BY DEF Cancel
  <2>10. UNCHANGED vars => res' = res
    BY DEF vars, jobVars
  <2>11. res' = res \/ \E j \in Jobs : NextInstance(j) \/ Work(j) \/ RecordDigest(j)
    BY <2>5, <2>6, <2>7, <2>8, <2>9, <2>10 DEF Next
  <2> QED BY <2>1, <2>2, <2>3, <2>4, <2>11
<1> QED BY <1>1, <1>2

(* The report of Execute is whole, and true while jobs keep apart. *)
THEOREM ReportIsTrue == Spec => ReportTruthful
BY ReportStepTrue, Invariant, PTL DEF ReportTruthful, Spec

(* Where a job's counter goes to "failed": a working step that gives up. *)
LEMMA FailsFrom ==
    ASSUME Inv, Next, NEW x \in Jobs, pc[x] # "failed", pc'[x] = "failed"
    PROVE  /\ undo[x]
           /\ ~mixed /\ pc[x] = "health" => con[Cur(x)].image \in RollbackImages(x)
<1>0. TypeOK /\ JobShape /\ AllFresh
  BY DEF Inv
<1>1. ASSUME NEW j \in Jobs, NEW l, Goto(j, l) PROVE j = x /\ l = "failed"
  BY <1>0, <1>1 DEF Goto, TypeOK
<1>2. ~\E j \in Jobs, t \in Images : StartRollout(j, t)
  BY <1>1 DEF StartRollout
<1>3. ~\E j \in Jobs, k \in Ids, t \in Images, tag \in BOOLEAN : HandleUpgrade(j, k, t, tag)
  BY <1>1 DEF HandleUpgrade
<1>4. ~\E j \in Jobs : UpgradeGet(j) \/ NextInstance(j)
  BY <1>1, UpgradeGetEffect, NextInstanceEffect
<1>5. ~\E j \in Jobs : RecordDigest(j)
  BY <1>1, RecordEffect DEF StartRollback, Ends
<1>6. (\E j \in Jobs : Cancel(j)) => pc' = pc
  BY DEF Cancel
<1>7. (\E k \in Ids : RestartStop(k) \/ RestartStart(k)) => pc' = pc
  BY <1>0, RestartEffect
<1>8. UNCHANGED vars => pc' = pc
  BY DEF vars, jobVars
<1>9. \E j \in Jobs : Work(j)
  BY <1>2, <1>3, <1>4, <1>5, <1>6, <1>7, <1>8 DEF Next, Step, Work
<1>10. PICK j \in Jobs : Work(j)
  BY <1>9
<1>11. pc[j] \in WorkPcs /\ Kinds(j)
  BY <1>0, <1>10, WorkKinds
<1>12. j = x /\ GiveUp(j) /\ (kind[j] = "one" => undo[j])
  BY <1>1, <1>11 DEF Kinds, Moves, StartRollback, GiveUp, WorkPcs, CallPcs
<1>13. kind[x] = "one"
  BY <1>1, <1>12 DEF GiveUp
<1>14. undo[x] /\ img[x] \in RollbackImages(x)
  BY <1>0, <1>12, <1>13 DEF JobShape, Shape
<1>15. ASSUME ~mixed, pc[x] = "health" PROVE con[Cur(x)].image \in RollbackImages(x)
  BY <1>0, <1>14, <1>15 DEF AllFresh, Fresh
<1> QED BY <1>14, <1>15

(* The same as an action. *)
LEMMA FailureStep ==
    Inv /\ [Next]_vars =>
      [\A j \in Jobs :
          pc[j] # "failed" /\ pc'[j] = "failed" =>
              /\ undo[j]
              /\ ~mixed /\ pc[j] = "health" /\ con[Cur(j)].state = "running" =>
                    con[Cur(j)].image = (IF prev[j][Cur(j)] # Empty THEN prev[j][Cur(j)]
                                         ELSE IF target[j].tag THEN target[j].image
                                         ELSE con[Cur(j)].image)]_vars
BY FailsFrom DEF RollbackImages

(* An upgrade that answers with an error has been through its rollback, and  *)
(* where that found the container running it is of the previous image.       *)
THEOREM FailureRollsBack == Spec => UpgradeRollsBack
BY FailureStep, Invariant, PTL DEF UpgradeRollsBack, Spec
=============================================================================
