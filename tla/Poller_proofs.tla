--------------------------- MODULE Poller_proofs ---------------------------
(***************************************************************************)
(* Theorems about Poller, for any fleet, threshold and cooldown.           *)
(***************************************************************************)
EXTENDS Poller, TLAPS

(* Types are kept by every step of a poll and of the environment. *)
LEMMA TypeStep ==
    ASSUME TypeOK, [Next]_vars
    PROVE  TypeOK'
<1> USE PollerAssumption DEF TypeOK, Health, Up
<1>1. CASE PollBegin
  BY <1>1 DEF PollBegin, fleet, restarts
<1>2. CASE Stop
  BY <1>2 DEF Stop, fleet, restarts
<1>3. CASE BreakLoop
  BY <1>3 DEF BreakLoop, fleet, restarts
<1>4. CASE UpdateCache
  BY <1>4 DEF UpdateCache, Seen, fleet, restarts
<1>5. ASSUME NEW i \in Ids, Check(i)
      PROVE  TypeOK'
  BY <1>5 DEF Check, fleet, restarts
<1>6. ASSUME NEW i \in Ids, SawHealthy(i)
      PROVE  TypeOK'
  BY <1>6 DEF SawHealthy, ResultDone, NoResults, RunsWhenHealthy, fleet
<1>7. ASSUME NEW i \in Ids, CountUnhealthy(i)
      PROVE  TypeOK'
  BY <1>7 DEF CountUnhealthy, ResultDone, NoResults, Runs, Streak, fleet
<1>8. ASSUME NEW i \in Ids, RestartInstance(i)
      PROVE  TypeOK'
  BY <1>8 DEF RestartInstance, Restartable, ResultDone, NoResults
<1>9. ASSUME NEW i \in Ids, RestartFails(i)
      PROVE  TypeOK'
  BY <1>9 DEF RestartFails, ResultDone, NoResults, Runs, Streak
<1>10. CASE Tick
  BY <1>10 DEF Tick, fleet, poll
<1>11. CASE Cancel
  BY <1>11 DEF Cancel, poll, restarts
<1>12. ASSUME NEW i \in Ids, Break(i) \/ Recover(i)
       PROVE  TypeOK'
  BY <1>12 DEF Break, Recover, poll, restarts
<1>13. ASSUME NEW i \in Ids, Destroy(i)
       PROVE  TypeOK'
  BY <1>13 DEF Destroy, poll
<1>14. ASSUME NEW i \in Ids, Provision(i)
       PROVE  TypeOK'
  BY <1>14 DEF Provision, poll, restarts
<1>15. CASE UNCHANGED vars
  BY <1>15 DEF vars, fleet, poll, restarts
<1> HIDE DEF TypeOK
<1>16. QED
  BY <1>1, <1>2, <1>3, <1>4, <1>5, <1>6, <1>7, <1>8, <1>9, <1>10, <1>11, <1>12, <1>13, <1>14, <1>15
     DEF Next, Work, Environment, Attempt

(* The variables keep their types: in particular the counters never pass the
   threshold and the cooldown they are capped at. *)
THEOREM TypeCorrect == Spec => []TypeOK
<1>1. Init => TypeOK
  <2> SUFFICES ASSUME Init PROVE TypeOK
    OBVIOUS
  <2>1. /\ results \in [Ids -> Health] /\ cache \in [Ids -> Health] /\ shown \in [Ids -> Health]
        /\ unhealthyRuns \in [Ids -> 0 .. Threshold] /\ streak \in [Ids -> 0 .. Threshold]
        /\ since \in [Ids -> 0 .. Cooldown]
    BY PollerAssumption DEF Init, Health
  <2>2. QED
    BY <2>1 DEF Init, TypeOK
<1>2. QED
  BY <1>1, TypeStep, PTL DEF Spec

-----------------------------------------------------------------------------
(* Events and the cache *)

(* Only UpdateCache changes what the panel caches or has announced. *)
LEMMA CacheChanges ==
    ASSUME [Next]_vars
    PROVE  UpdateCache \/ UNCHANGED <<cache, shown>>
BY DEF Next, Work, Environment, Attempt, PollBegin, Stop, BreakLoop, Check, SawHealthy,
       CountUnhealthy, RestartInstance, RestartFails, Tick, Cancel, Break, Recover, Destroy,
       Provision, vars

(* After every poll the last event announced of an instance tells the health
   that is cached for it: UpdateCache compares with the cache it replaces, so
   an instance that vanished from the cache and comes back is announced anew. *)
THEOREM EventsTellHealth == Spec => []FeedShowsHealth
<1>1. Init => FeedShowsHealth
  BY DEF Init, FeedShowsHealth
<1>2. FeedShowsHealth /\ [Next]_vars => FeedShowsHealth'
  <2> SUFFICES ASSUME FeedShowsHealth, [Next]_vars
               PROVE  FeedShowsHealth'
    OBVIOUS
  <2>1. CASE UpdateCache
    BY <2>1 DEF UpdateCache, FeedShowsHealth, Seen, Announce
  <2>2. CASE UNCHANGED <<cache, shown>>
    BY <2>2 DEF FeedShowsHealth
  <2>3. QED
    BY <2>1, <2>2, CacheChanges
<1>3. QED
  BY <1>1, <1>2, PTL DEF Spec

-----------------------------------------------------------------------------
(* Restarts *)

(* The counter of an id that has stood for one instance only is the number of
   polls in a row that instance has failed. *)
RunsAreStreak == \A i \in Ids \ reborn : unhealthyRuns[i] = streak[i]

(* Every action keeps the counters at the number of failed checks in a row. *)
LEMMA RunsAreStreakStep ==
    ASSUME TypeOK, RunsAreStreak, [Next]_vars
    PROVE  RunsAreStreak'
<1> USE DEF TypeOK, RunsAreStreak
<1>1. ASSUME NEW i \in Ids, SawHealthy(i)
      PROVE  RunsAreStreak'
  BY <1>1 DEF SawHealthy, RunsWhenHealthy, fleet
<1>2. ASSUME NEW i \in Ids, CountUnhealthy(i)
      PROVE  RunsAreStreak'
  BY <1>2 DEF CountUnhealthy, Runs, Streak, fleet
<1>3. ASSUME NEW i \in Ids, RestartInstance(i)
      PROVE  RunsAreStreak'
  BY <1>3 DEF RestartInstance
<1>4. ASSUME NEW i \in Ids, RestartFails(i)
      PROVE  RunsAreStreak'
  BY <1>4 DEF RestartFails, Runs, Streak
<1>5. ASSUME NEW i \in Ids, Destroy(i)
      PROVE  RunsAreStreak'
  BY <1>5 DEF Destroy
<1>6. CASE UNCHANGED <<reborn, unhealthyRuns, streak>>
  BY <1>6
<1> HIDE DEF TypeOK, RunsAreStreak
<1>7. QED
  BY <1>1, <1>2, <1>3, <1>4, <1>5, <1>6
     DEF Next, Work, Environment, Attempt, PollBegin, Stop, BreakLoop, UpdateCache, Check, Tick,
         Cancel, Break, Recover, Provision, vars, fleet, restarts

(* checkAutoRestart restarts an instance only after it has failed Threshold
   polls in a row: no failed restart, cooldown or interrupted poll lets the
   counter run ahead of the instance. *)
THEOREM ThresholdIsRespected == Spec => ThresholdRespected
<1>1. Init => RunsAreStreak
  BY DEF Init, RunsAreStreak
<1>2. RunsAreStreak /\ [Next]_vars =>
         [\A i \in Ids : RestartInstance(i) /\ i \notin reborn => Streak(i) >= Threshold]_vars
  BY DEF RunsAreStreak, RestartInstance, Due, Runs, Streak
<1>3. QED
  BY <1>1, <1>2, RunsAreStreakStep, TypeCorrect, PTL DEF Spec, ThresholdRespected

=============================================================================
