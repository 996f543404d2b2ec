------------------------------- MODULE Poller -------------------------------
(***************************************************************************)
(* The health poller of panel/api: one goroutine that polls every         *)
(* registered instance, caches what it saw, announces changes in the      *)
(* event log and restarts instances that stay unhealthy.                  *)
(*                                                                         *)
(* Instances fail, recover, are destroyed and provisioned again between   *)
(* any two steps of a poll.  A poll whose registry.List fails changes     *)
(* nothing and is not an action.                                          *)
(***************************************************************************)
EXTENDS Integers, FiniteSets

CONSTANTS
    Ids,        \* instance IDs
    Threshold,  \* auto_restart.threshold
    Cooldown    \* auto_restart.cooldown_seconds, in ticks

ASSUME PollerAssumption ==
    /\ IsFiniteSet(Ids)
    /\ Threshold \in Nat \ {0} /\ Cooldown \in Nat \ {0}

VARIABLES
    registered,     \* instances of the registry
    up,             \* instances whose /health answers 200
    cancelled,      \* the poller's context: the server is shutting down
    stage,          \* idle, checking, restarting, stopped
    snap,           \* instances of this poll not checked yet
    results,        \* what this poll saw
    todo,           \* results checkAutoRestart has not looked at yet
    cache,          \* HealthPoller.cache
    unhealthyRuns,  \* HealthPoller.unhealthyRuns; beyond Threshold nothing differs
    since,          \* ticks since lastRestart, Cooldown when long ago or never
    shown,          \* the last health event emitted for each instance
    streak,         \* history: unhealthy polls in a row of the instance as it now is
    reborn          \* history: ids that have stood for more than one instance

fleet == <<registered, up, cancelled, reborn>>
poll == <<stage, snap, results, todo>>
restarts == <<unhealthyRuns, since, streak>>
vars == <<fleet, poll, cache, restarts, shown>>

Health == {"none", "ok", "bad"}

TypeOK ==
    /\ registered \subseteq Ids /\ up \subseteq registered /\ cancelled \in BOOLEAN
    /\ stage \in {"idle", "checking", "restarting", "stopped"}
    /\ snap \subseteq Ids /\ todo \subseteq Ids
    /\ results \in [Ids -> Health] /\ cache \in [Ids -> Health] /\ shown \in [Ids -> Health]
    /\ reborn \subseteq Ids
    /\ unhealthyRuns \in [Ids -> 0 .. Threshold] /\ streak \in [Ids -> 0 .. Threshold]
    /\ since \in [Ids -> 0 .. Cooldown]

Init ==
    /\ registered = Ids /\ up = Ids /\ cancelled = FALSE
    /\ stage = "idle" /\ snap = {} /\ todo = {}
    /\ results = [i \in Ids |-> "none"]
    /\ cache = [i \in Ids |-> "none"] /\ shown = [i \in Ids |-> "none"]
    /\ reborn = {}
    /\ unhealthyRuns = [i \in Ids |-> 0] /\ streak = [i \in Ids |-> 0]
    /\ since = [i \in Ids |-> Cooldown]

NoResults == [i \in Ids |-> "none"]
Up(n, max) == IF n < max THEN n + 1 ELSE max

-----------------------------------------------------------------------------
(* One poll *)

(* The ticker fires; a context that is done may lose the select to it. *)
PollBegin ==
    /\ stage = "idle"
    /\ stage' = "checking"
    /\ snap' = registered
    /\ UNCHANGED <<fleet, results, todo, cache, restarts, shown>>

Stop ==
    /\ stage = "idle" /\ cancelled
    /\ stage' = "stopped"
    /\ UNCHANGED <<fleet, snap, results, todo, cache, restarts, shown>>

(* HealthCheck of one instance; an error counts as unhealthy. *)
Check(i) ==
    /\ stage = "checking" /\ i \in snap
    /\ snap' = snap \ {i}
    /\ results' = [results EXCEPT ![i] = IF i \in up /\ ~cancelled THEN "ok" ELSE "bad"]
    /\ UNCHANGED <<fleet, stage, todo, cache, restarts, shown>>

(* The loop ends early: the rest has no result. *)
BreakLoop ==
    /\ stage = "checking" /\ cancelled /\ snap # {}
    /\ snap' = {}
    /\ UNCHANGED <<fleet, stage, results, todo, cache, restarts, shown>>

Seen == {i \in Ids : results[i] # "none"}

ChangedOnly(i) == cache[i] # "none" /\ cache[i] # results[i]
Announce(i) == cache[i] = "none" \/ cache[i] # results[i]

(* The new cache replaces the old one, and what changed is emitted. *)
UpdateCache ==
    /\ stage = "checking" /\ snap = {}
    /\ cache' = results
    /\ shown' = [i \in Ids |-> IF i \in Seen /\ Announce(i) THEN results[i] ELSE shown[i]]
    /\ todo' = Seen
    /\ stage' = IF Seen = {} THEN "idle" ELSE "restarting"
    /\ UNCHANGED <<fleet, snap, results, restarts>>

-----------------------------------------------------------------------------
(* checkAutoRestart, one result *)

ResultDone(i) ==
    /\ stage = "restarting" /\ i \in todo
    /\ todo' = todo \ {i}
    /\ IF todo = {i} THEN stage' = "idle" /\ results' = NoResults
                     ELSE UNCHANGED <<stage, results>>

Runs(i) == Up(unhealthyRuns[i], Threshold)
Streak(i) == Up(streak[i], Threshold)

CooldownStuck(i) == since[i] <= Cooldown
InCooldown(i) == since[i] < Cooldown

Due(i) == results[i] = "bad" /\ Runs(i) >= Threshold /\ ~InCooldown(i)

KeepRuns(i) == unhealthyRuns[i]
RunsWhenHealthy(i) == 0

SawHealthy(i) ==
    /\ ResultDone(i) /\ results[i] = "ok"
    /\ unhealthyRuns' = [unhealthyRuns EXCEPT ![i] = RunsWhenHealthy(i)]
    /\ streak' = [streak EXCEPT ![i] = 0]
    /\ UNCHANGED <<fleet, snap, cache, since, shown>>

CountUnhealthy(i) ==
    /\ ResultDone(i) /\ results[i] = "bad" /\ ~Due(i)
    /\ unhealthyRuns' = [unhealthyRuns EXCEPT ![i] = Runs(i)]
    /\ streak' = [streak EXCEPT ![i] = Streak(i)]
    /\ UNCHANGED <<fleet, snap, cache, since, shown>>

(* plugin.Restart stops and starts a container by name: it has to exist. *)
Restartable(i) == i \in registered

(* plugin.Restart worked: the container is back, healthy or not. *)
RestartInstance(i) ==
    /\ ResultDone(i) /\ Due(i)
    /\ Restartable(i) /\ ~cancelled
    /\ up' \in {up \cup {i}, up \ {i}}
    /\ unhealthyRuns' = [unhealthyRuns EXCEPT ![i] = 0]
    /\ since' = [since EXCEPT ![i] = 0]
    /\ streak' = [streak EXCEPT ![i] = 0]
    /\ UNCHANGED <<registered, cancelled, reborn, snap, cache, shown>>

(* It failed: neither the counter nor lastRestart changes hands; the stop may *)
(* have been done.                                                            *)
RestartFails(i) ==
    /\ ResultDone(i) /\ Due(i)
    /\ up' \in {up, up \ {i}}
    /\ unhealthyRuns' = [unhealthyRuns EXCEPT ![i] = Runs(i)]
    /\ streak' = [streak EXCEPT ![i] = Streak(i)]
    /\ UNCHANGED <<registered, cancelled, reborn, snap, cache, since, shown>>

-----------------------------------------------------------------------------
(* The environment *)

Tick ==
    /\ since' = [i \in Ids |-> Up(since[i], Cooldown)]
    /\ UNCHANGED <<fleet, poll, cache, unhealthyRuns, streak, shown>>

Break(i) ==
    /\ i \in up
    /\ up' = up \ {i}
    /\ UNCHANGED <<registered, cancelled, reborn, poll, cache, restarts, shown>>

Recover(i) ==
    /\ i \in registered \ up
    /\ up' = up \cup {i}
    /\ UNCHANGED <<registered, cancelled, reborn, poll, cache, restarts, shown>>

Destroy(i) ==
    /\ i \in registered
    /\ registered' = registered \ {i}
    /\ up' = up \ {i}
    /\ streak' = [streak EXCEPT ![i] = 0]
    /\ reborn' = reborn \cup {i}
    /\ UNCHANGED <<cancelled, poll, cache, unhealthyRuns, since, shown>>

(* The row is there before the instance answers. *)
Provision(i) ==
    /\ i \notin registered
    /\ registered' = registered \cup {i}
    /\ UNCHANGED <<up, cancelled, reborn, poll, cache, restarts, shown>>

Cancel ==
    /\ ~cancelled
    /\ cancelled' = TRUE
    /\ UNCHANGED <<registered, up, reborn, poll, cache, restarts, shown>>

-----------------------------------------------------------------------------
Attempt(i) == RestartInstance(i) \/ RestartFails(i)
Work == \/ PollBegin \/ Stop \/ BreakLoop \/ UpdateCache
        \/ \E i \in Ids : Check(i) \/ SawHealthy(i) \/ CountUnhealthy(i) \/ Attempt(i)
Environment == \/ Cancel
               \/ \E i \in Ids : Break(i) \/ Recover(i) \/ Destroy(i) \/ Provision(i)

Next == Work \/ Tick \/ Environment

Spec == Init /\ [][Next]_vars

(* The poller's goroutine runs and the clock goes on. *)
FairSpec == Spec /\ WF_vars(Work) /\ WF_vars(Tick)

-----------------------------------------------------------------------------
(* Once a poll has been applied, the last health event of every cached        *)
(* instance tells the health the panel shows for it, whichever instances      *)
(* disappeared and came back (poll, oldCache against results).                *)
FeedShowsHealth ==
    \A i \in Ids : cache[i] # "none" => shown[i] = cache[i]

(* "consecutive failures before restart": an instance is only restarted after *)
(* it failed Threshold polls in a row.  An id that was provisioned anew is    *)
(* excepted: its unhealthyRuns are those of its predecessor.                  *)
ThresholdRespected ==
    [][\A i \in Ids : RestartInstance(i) /\ i \notin reborn => Streak(i) >= Threshold]_vars

(* An instance that stays down is restarted again and again: counters,        *)
(* threshold, cooldown and restarts that fail never make the poller give up   *)
(* on it, until the server shuts down.                                        *)
Retried ==
    \A i \in Ids :
        \/ []<>(i \in up \/ i \notin registered \/ cancelled)
        \/ []<><<Attempt(i)>>_vars

=============================================================================
