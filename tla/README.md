# A TLA+ model of Fox Fleet

Fox Fleet (`fox-control`) runs Hermes/Fox instances as Docker containers on one host. A panel server
provisions, updates, heals and destroys them, streams events about them, proxies users to them in cloud
mode, and feeds a data plane (Qdrant) that they query. A command line does the same work in processes of its own, on the
same SQLite file and the same Docker daemon. This directory holds the specifications kept beside that code.
All source paths below are relative to `src/`.

Contents: [Inventory](#inventory), [Modules](#modules), [Runs](#runs), [Bounds](#bounds),
[Fairness](#fairness), [Proofs](#proofs), [Observations](#observations),
[Not modelled](#not-modelled), [Plan](#plan).

## Inventory

| Component | State it keeps | Operations | Interacts with |
|---|---|---|---|
| Provisioner (`internal/provisioner`, `panel/api/handlers.go`) | mutex `service.mu`, map `inFlight`, wait group | `Provision`, `Destroy`, `rollback`, `retryUpdateStatus`, `handleCreate`, `handleDestroy`, graceful `Wait` | registry rows, Docker, data directories |
| Registry (`internal/registry`) | `registry.db`: tables `instances`, `signing_keys`, `cloud_users`, `cloud_sessions`, `schema_version` | `Open` with migrations and backfill, `Create` (an upsert), `Get`, `List`, `UpdateStatus`, `UpdateImageDigest`, `Delete`, `UsedPorts`, `UpdateQueryToken`, `RotateSigningKey` | everything; one connection per process |
| Docker plugin (`plugins/docker`) | containers `fox-<id>` | `Provision`, `Rollout`, `Rollback`, `Destroy`, `Restart`, `HealthCheck` | Docker daemon |
| Rolling update (`rollout`) | the report and the digests read at the start | `Execute`, `rolloutInstance`, `waitHealthy` | plugin, registry |
| Upgrade (`panel/api/upgrade_handler.go`) | `inFlight` | `handleUpgrade` with rollback | plugin, registry, provisioner's marks |
| Event log (`internal/events`) | ring `buf/pos/full`, `seq`, `subs`, table `events` | `Emit`, `SinceID`, `Recent`, `Subscribe`, reload | SSE handler, webhooks |
| Event stream (`panel/api/sse_handler.go`) | `highID`, a channel of 16 | replay after `Last-Event-ID`, live loop | event log |
| Webhooks (`internal/events/webhook.go`) | a token bucket | `Dispatch`, `deliver` | event log |
| Health poller (`panel/api/poller.go`) | `cache`, `unhealthyRuns`, `lastRestart` | `poll`, `checkAutoRestart` | plugin, registry, events |
| Data plane (`data-plane/server`, `source`, `ingestion`, `chunker`, `embedding`, `qdrant`) | tables `sources`, `document_tracking`; points in Qdrant | create, ingest and delete a source; query | embedding service, Qdrant |
| Cloud (`internal/cloud`, `panel/api/cloud_*.go`, `provision_handler.go`, `user_handlers.go`) | users, bindings, sessions | login, validate, purge, provision for a user, bind, proxy | registry, provisioner |
| Storage (`cmd/fox-control/ops.go`, `registry.Open`, `serve`) | `registry.db` in WAL mode, `sources.db` and `events.db` with a rollback journal, a backup directory | open, migrate, backfill, commit, checkpoint; `backup`, `restore` | every process of `fox-control` |
| Credentials (`internal/sessiontoken`, `cmd/fox-control/main.go`) | signing keys, query tokens, `hermes.env` | `Generate`, `Validate`, `rotate-sse-key`, `rotate-query-token` | registry, data directories, data plane |

What makes this code hard to test:

* **Two kinds of mutual exclusion.** `service.mu` guards the cap and the port inside one process; the in-flight
  map guards an id among panel creates and upgrades. `Destroy` takes neither, the command line has a mutex of its own, and
  the orchestrator and the poller take none.
* **Long sequences of external calls** (make a directory, inject a configuration, create, start, probe, record) that can fail or be
  cut off at every point, with a rollback that ignores its own errors.
* **Values read and used later**: ports, previous digests, cached health, the signing key of the server's start,
  the user and instance a request looked up, hashes recorded after batches that failed.
* **Ids taken in one critical section and published in another** (`Emit`), met by readers in a third.
* **Times cut to seconds** on one side of a comparison and not on the other.
* **Files that outlive their process with a log beside them**: what a database holds is the file *and* its log, while a restore
  replaces only the file; every process migrates the registry when it opens it.

Correctness, component by component: the provisioner respects the cap, gives each instance a port and a container of its own,
serves what it reported and leaves nothing of what failed; a rollout damages no more than the instance it is at and
reports the truth; the event ring is the last *n* events, and a stream repeats and omits nothing; the poller restarts what
failed often enough and never gives up; what the data plane calls known is stored, what is gone is gone; a user reaches their own instance and
sessions end on time; a rotated credential works after a restart and a retired one never again; what was committed or restored
is what the next process finds, with a complete schema.

## Modules

One action is one call that another goroutine, another process or a crash can be ordered against: a SQL statement or
transaction, a filesystem or Docker call, a step between two critical sections. Payloads are model values; every token a
call draws is identified with that call.

| Module | Models | State and actions against the code |
|---|---|---|
| `Provisioner` | provisioning and destruction | `row`, `con`, `dir` are the table, Docker and the filesystem; `inFlight`, `mu`, `phase` belong to the processes. A request passes through `HandleCreate`, `CheckExists`, `CheckCap` (the handler), `LockAndList`, `AllocatePort`, `ReserveRow` (under `service.mu`), `MakeDir` … `SetRunning` (deployment), `Rollback*`, `Return`; a destroy through `DestroyStop` … `DestroyRow`. `Shutdown`, `Exit`, `Crash`, `Restart`, `Kill` end processes. |
| `Lifecycle` | what the provisioner promises | an instance comes into service by its create (`Launch`) and leaves by a destroy (`Retire`); `Answer` only ever tells the truth; `Lose` is a process that ends |
| `ProvisionerLifecycle` | `Provisioner` implements `Lifecycle` | `serving` is the create whose row is running and whose container answers on the row's port with the row's token (what `proxyToInstance` needs); `stage` is where the request is; `target` its id |
| `Rollout` | `Execute` and `handleUpgrade` over the plugin's `Rollout`/`Rollback` | `dig` is the recorded digest (`Empty` for an instance provisioned while `docker.image` was a tag, `Unknown` after an upgrade by tag), `con` the container; a job calls inspect, pull, stop, remove, create, start and health one by one, and `GiveUp`, `StartRollback`, `AfterFailure` are what the callers do with the answer. `RollbackImages` is the plugin's `refString` of the target's repository and the recorded digest. `Cancel` ends a context; `RestartStop` and `RestartStart`, which may fail, are the poller's `plugin.Restart` beside it. |
| `EventFeed` | what the log promises | a table that only grows and a feed of the newest *Capacity* events |
| `EventLog` | `Emit`, ring, table, streams, webhook bucket | `Insert`, `SetSeq`, `PushRing`, `FanOut`, `Dispatch` are the separate critical sections of `Emit`; a client `Connect`s, gets a `Replay`, then `Receive`s. `Refill` adds the token of a tenth of a second to the bucket, up to its cap; `Dispatch` ends with the event handed to `deliver`, which posts once and is external. `RingIsFeed` is the refinement: `feed` is the ring read from its oldest slot, `persisted` the table. |
| `Poller` | `Run`, `poll`, `checkAutoRestart` | `Check` fills `results`, `UpdateCache` swaps the cache and emits, then each result is counted, left alone or restarted. Instances break, recover, are destroyed and recreated at any moment. |
| `Ingestion` | one source of the data plane | the row (`status`, `kind`, `chunkCount`), `points` in Qdrant by connector, document and chunk, `hash` in `document_tracking`. An ingest is `Connect`, `Scan`, a `StoreBatch` for each batch, a `RecordHash` for each document, `ListDocs`, `SweepPoints` and `SweepRow` for each document that is gone, `FinishIngest`, `UpdateCounts`; a deletion is `DeletePoints`, `DeleteRow`, `DeleteTracking`: one action per statement or Qdrant request (of a batch's `Upsert`, 100 points a request, any part may be stored). |
| `CloudAccess` | users, bindings, sessions, proxy | tables `users`, `rows`, `sessions` with the foreign keys and unique index of the schema; jobs of `POST /api/instances` and `/provision`; the administrator's edits; a browser's login and request, one lookup per action. The four store calls of a job whose error goes no further can fail: `registry.Get` of the handler (any error reads as "not there"), `registry.Delete` of the provisioner's rollback, `SetInstanceID` and the `Delete` of `rollbackUser`; `slips` remembers which. |
| `Credentials` | signing keys and query tokens | `keys` and the `signer` a server holds, on a host whose clock is `Zone` seconds ahead of UTC; `rows` against `files` (`hermes.env`), rotated by `RotateGet`, `UpdateQueryToken`, `ReInject` in processes of their own. `ProvisionFails` and `Rollback` are the two calls of the provisioner's rollback, `Destroy`, `DestroyData`, `DestroyRow` a destroy, with or without the directory and at any moment of a provisioning; each call may fail, and `RemoveAll` with the file or without. |
| `Storage` | databases, migrations, backup and restore | `size`, `file` and `log` are a database on disk, three pages each (catalog, version, rows); `View` is what a process reads. A registry starts as a file of any release (`Past`), one from before `schema_version` included: it is empty, has the table of migration 1 or all that the first three make, and no version. `OpenFile`, `ReadVersion`, `Migrate`, `Backfill` are `registry.Open`, then `OpenStore` and `Serve`; `BeginTx`, `CommitTx`, `Checkpoint`, `Stop`, `Crash` are work and its ends. `BackupStart`, `VacuumInto`, `BackupNext` are `backup`; `RestoreStart`, `CheckLocked`, `Truncate`, `Fill`, `RestoreNext` are `restore`. SQLite is external and modelled from how it is used: a log counts before the file, the last connection to close folds it in, a hot journal restores the old page. |
| `*_proofs` | | theorems about `Provisioner`, `Rollout`, `EventLog`, `Poller`, `CloudAccess`, `Credentials`, `Storage` and `Ingestion`, each with the inductive invariant and the lemmas they need |
| `MC*` | | the constants, symmetries and small orders of the runs |

Conventions. An operator that stands directly above a definition, has its parameters and is used by nothing (such as
`NoLock` above `LockFree`) is a plausible mistake in that definition; substituting it breaks a property of a run,
which shows that the property depends on the code. Some
variables are history, written and never read by the modelled code: `mixed` (`Rollout`: a rollout shared an instance with
another job), `raced` (`EventLog`: two `Emit` calls overlapped, or the table failed), `since` and `credits` (`EventLog`: events dispatched and tokens added since the bucket was last full), `reborn` and `streak` (`Poller`), `clash`, `everBound` and `slips` (`CloudAccess`), `torn` (`Ingestion`: documents of which a call failed or was cut short),
`disturbed` and `dead` (`Credentials`), `committed`, `undermined` and `raced` (`Storage`). Properties that hold only without such interference say so in their antecedent, and the
run still explores the interference for the others. `env` in `Ingestion` (with the `Bounds` of each) and `Storage` and `limit` in `CloudAccess` are chosen
in `Init` and never change: one run covers several environments, each with the bounds it affords.

Abstractions worth knowing: requests refused before any lock is taken (bad ids, bad JSON) change nothing and are left
out; a poll whose `List` fails is no action; a REST source's pages are fetched in one step, with any of them missing or none at all;
passwords are right or the login does not happen; a port freed by Docker may be taken by another container, and the token check
inside the instance is what keeps a stale proxied request out (external code).

## Runs

| Run | Shows |
|---|---|
| `prov_server` | Panel requests, destroys that overlap them, every failure, a failing rollback and crashes: the cap holds (`CapRespected`), one goroutine at a time deploys or rolls back an id (`SoleOwner`), a port picked is still free when inserted (`FreshPort`), and a running row names its own container (`RowMatchesContainer`). |
| `prov_serial` | Server and command line taking turns on an instance: `NoOrphan`, `SuccessMeansServed`, `FailedLeavesNothing`, and `RefinesLifecycle`, the refinement of `Lifecycle`. |
| `prov_live` | `InFlightCleared` and `ProvisioningResolves` under fairness, graceful shutdowns included. |
| `prov_orphan` (violated) | `NoOrphan` with a destroy overlapping a create: see finding 1. |
| `rollout_all` | An instance provisioned by digest and one by tag, restarts whose stop and start may fail, every fault: `BlastRadius` (jobs that shared no instance damage no more instances than there are jobs to blame; down for a restart of the poller is nobody's damage), `UpgradesExclusive`; `ReportTruthful` (the report is whole, and true for jobs that shared no instance), `UpgradeRollsBack` (an error is answered after a rollback only, and what that left running is the recorded image or, without a recorded digest, the target of an upgrade by tag). |
| `rollout_rolledback` (violated) | `RolledBackIsPrevious`: finding 2. |
| `events` | `RingIsFeed` (refinement of `EventFeed`, and the agreement of `Recent` with `SinceID`), `NoDuplicate`, `NoGap` without racing emits and a failing table; `BurstAllowed`: counted from a moment at which the bucket was full, a burst that fits is handed to `deliver` whole, and never more than a bucket and the tokens added since. |
| `poller` | `FeedShowsHealth`, `ThresholdRespected` (ids never recreated), `Retried`. |
| `ingest` | `StoredWhenTracked` under every failure and crash: the documents that are skipped though they are not stored are those of which a call failed themselves, and only until they are next stored or deleted. `NoGhosts`, `RemovedSwept`, `ListedKept` (an unreadable file is not a removed one), `IngestingEnds`, each in every environment of the run that can keep it. |
| `cloud` | `References`, `SessionLifetime`, `PurgedWasExpired` always; `ServedOwn`, `OnlyOwnUser` while operations on a slug take turns, and `ProvisionOutcome`: user and instance, or neither, and if a store call of the job failed unnoticed, what that very call accounts for. |
| `cred` | `RevokedAtRestart`, `SSELifetime` (the announced `expires_at` included, by the host's wall clock), `NoRevival` always; `RestartSuffices` after an operation that was alone and succeeded, whatever came before it. |
| `storage` | `Durable`: through crashes, checkpoints, backups and restores, what was committed or restored last is what the next process reads. `VersionTellsSchema` and `OpenedComplete`: however processes interleave, fail and crash while migrating a file of any release or of none, the version claims nothing that is missing (and in turn, nothing is ahead of it that the next migration cannot take), and `Open` returns a complete schema with usable tokens. `BackupFaithful`: a copy made beside a running server is one committed state, and a backup that reports success has every database. |

Every module of a component states its `TypeOK`, and the theorem `TypeCorrect` of its proof module proves it; no run spends a property on it.

Findings (a run that is violated by what the code does):

1. **Orphaned container** (`internal/provisioner/provisioner.go:280`). `Destroy` takes no lock. While a create has
   reserved its row, the destroy's stop and remove find no container; the create then succeeds; the destroy deletes the row. A
   container runs that no row names, and both callers were told of success.
2. **"rolled_back" without a rollback** (`rollout/rollout.go:162`). `plugin.Rollout` waits for health itself and returns an error when
   the new image is unhealthy. The orchestrator reports `rolled_back` on that error and calls `Rollback` only when its own later wait fails.

## Bounds

Every bound is a constant of the module or of its configuration.

* `Provisioner`: three requests over two ids are enough for a create, a second create or a destroy of the same id and one of
  another; a cap of 1 and a port range of two put each limit between two of them; two registry attempts exercise retry and giving up.
  `prov_live` has two requests and no crash, because a crash ends what the property is about.
* `Rollout`: two instances (one done, one at risk), two jobs (rollout and upgrade, two rollouts, two upgrades), two images, an unknown
  and an empty digest and upgrades by tag; restarts of one instance; every class of fault. `rollout_rolledback` has one job and a bad image and no other fault.
* `EventLog`: three events against a ring and a channel of two, so that both overflow and the ring wraps; two emits at a time; a bucket of two tokens, so that a burst
  can be whole, cut and refilled; one lost connection and one restart.
* `Poller`: two instances, threshold and cooldown of two; counters saturate at these bounds, nothing else is bounded.
* `Ingestion`: versions of one, two and no chunks against batches of two, so that documents share a batch and a second batch follows a full one; any content at the start. Five environments, each with bounds of its own:
  unreadable files and lost pages, requests in turn (two documents, three requests, two changes: long, short, removed); crashes (two documents, two requests); failing services and registry (two documents, two requests); requests that
  overlap (one document, three requests); every failure and crash at once (one document, three requests, one change).
* `CloudAccess`: two slugs, two accounts and two containers (a name deleted and created again), a browser and a session; two edits at one instant, or four half
  seconds with none, or two store calls that fail. Times are in half seconds, the session time is one second: the clock passes the expiry by one whole second from either half.
* `Credentials`: one instance, two processes that rotate or destroy, four query tokens, three signing keys, a session token, a clock of four half seconds on a host two seconds off UTC.

* `Storage`: the server and one command, the registry and one other database, one transaction on each; every migration from files without a version (empty, with the table of migration 1, with all of the first three) and of
  versions 1, 3 and 6 (before tokens, before hashes, before the columns that cannot be added twice). Three environments: processes opening an old registry at once, with errors and crashes; backups and restores as the handbook
  orders them, with crashes and short writes between any two steps; a restore beside the running server. Backups and restores can be repeated without bound.

Symmetry is used for safety only, over sets the specification treats alike.

## Fairness

* `Provisioner`: weak fairness of each request's own steps. Docker and SQLite calls return (they run under timeouts, retries are
  bounded) and a free mutex is acquired. New requests, faults and signals are not promised.
* `Poller`: weak fairness of the poller's goroutine and of the clock. Nothing is assumed of instances, and restarts may always fail.
* `Ingestion`: weak fairness of each request's steps: calls have timeouts, retries are bounded.

`Rollout`, `CloudAccess`, `Credentials` and `Storage` state no liveness: their jobs are bounded sequences of calls that end by themselves, and what they leave behind is safety.
`EventLog` states none either: that a client reconnects is the browser's doing, and that a channel is read follows from nothing but the scheduling of one loop.

## Proofs

Each module `M_proofs` is checked by TLAPS for every value of the constants of `M`: any number of requests, jobs, events, clients, processes,
databases and instances, any set of faults, any size of a ring, a bucket or a range. What is assumed of the constants stands in the `ASSUME`s of `M`, which TLC evaluates on every run: sets
that the code can only have finitely many members of are finite, the model's own words ("absent", "present") name no request, numbers are natural and the ones that must be positive are, and (`NoneAssumption`) the model's stand-in for SQL's NULL is none of the values it stands beside.
Every invariant, every action property and both refinements that a passing run checks are stated by a theorem; only liveness is not.

### Provisioner

| Theorem | States | Argument |
|---|---|---|
| `TypeCorrect` | `TypeOK` | with `RequestOK`: where a request is fixes what it knows (its id, its process, how many attempts it has made). Without it `tries` is not bounded. |
| `CapBounded` | `CapBound`: rows exceed the cap by at most one for each process beside the first | `MutexHeld` (who is in the critical section holds the mutex of their process) and `CapInv`: rows plus busy mutexes never exceed cap plus processes less one. A check adds a busy mutex, an insertion turns it into a row. |
| `CapHolds` | `CapRespected` when the server is the only process | from `CapBounded`. |
| `PanelOwnership` | past the in-flight check there is one panel create of an id, and the id is marked | induction on `PanelOwner` itself. |
| `OneOwner` | `SoleOwner`, the server alone | from `PanelOwnership`. |
| `PortStaysFresh` | `FreshPort`, the server alone | the holder of the mutex is the only one to insert; others only delete. |
| `RowsMatchContainers` | `RowMatchesContainer`, the server alone | the least obvious one. `RowOrigin` and `ConOrigin` say which request made a row and a container and with which port; `OwnsRow` and `OwnsContainer` say what the request now deploying finds; `RunningMatch` follows because a name conflict in Docker fails the create instead of adopting the container. Destroys, failed cleanups and crashes are all included. |
| `NothingOrphaned` | `NoOrphan`, under `Serial` | `SerialInv`, part `Tidy`: a container has a row, at every moment. |
| `SuccessIsServed` | `SuccessMeansServed`, under `Serial` | part `Progress`: what row, container and secrets hold at each step of a request (`AtStep`), up to and past its answer. |
| `FailureLeavesNothing` | `FailedLeavesNothing`, under `Serial` | part `Trace`: only a create that is deploying, rolling back, served or killed has left anything. |
| `ImplementsLifecycle` | `RefinesLifecycle`, under `Serial` | step simulation: `StepSimulates`, `SubmitSimulates` and `KillSimulates` give the step of `Lifecycle` that each step of `Provisioner` is, or show that `serving`, `stage` and `target` stay as they are. |

`Serial` is the hypothesis of the last four: operations on one instance take turns (`~Overlap`, for any number of processes) and the calls of a rollback succeed (`"cleanup" \notin Faults`;
the code logs their errors and goes on). Every other fault, a crash or a shutdown at any step, and operations on other instances are included. Without the first part `NoOrphan` is false
(finding 1), without the second a failed create leaves what it could not remove. `SerialInv` is `Named`, `Turns` (of the requests about an id one is under way at most), `Trace`, `Tidy` and `Progress`.
Its proof does not go through every action for every part: `StepAlters` shows once that a step changes its own request and its own instance only, and `StepEffect` what it does to them; the parts follow
from these two for the instance of the request, and are untouched for the others.

### Rollout

`Inv` is `TypeOK`, `JobShape`, `UpgradesExclusive`, `Apart`, `Reports`, `AllFresh` and `Blame`. The steps of a job between its first read and its last write are of three kinds, whatever call they stand for: it moves on, starts a rollback
or gives up (`WorkEffect`); each part is proved about the kinds.

| Theorem | States | Argument |
|---|---|---|
| `UpgradesExclude` | `UpgradesExclusive` | inductive: a mark is set by the upgrade that begins and cleared by the one that ends. |
| `DamageIsBounded` | `BlastRadius` | `Blame`: while no rollout has met another job, every instance that is neither whole nor down for a restart has a job that answers for it (at work on it, or ended in failure at it). `Apart` makes that job unique, so instances inject into jobs; the cardinalities follow. `AllFresh` is what lets a job leave an instance behind: its container is the one it has just made. |
| `ReportIsTrue` | `ReportTruthful` | `Reports`: what has no result yet is still in the queue, and there is one "rolled_back" at most, the last. |
| `FailureRollsBack` | `UpgradeRollsBack` | `JobShape`: a job that undoes works with one of `RollbackImages`, which the recorded digest and the target determine, and an upgrade gives up only when it undoes; `Fresh`: the container it started is of that image. |
| `TypeCorrect` | `TypeOK` | part of `Inv`. |

### EventLog

| Theorem | States | Argument |
|---|---|---|
| `RingRefinesFeed` | `RingIsFeed`: `EventLog` implements `EventFeed`, and `Recent` agrees with `SinceID` | one lemma per step that touches the ring. `Index` and `SlotOf` turn the modular index of the code into a position before or after the turn; `PushEntries` and `RestartEntries` say what every entry is afterwards, `PushSimulates` and `RestartSimulates` that this is the feed's step. |
| `NothingTwice` | `NoDuplicate` | `InvA`: ids name calls (`StoredOK`), the ring and a channel hold an event once (`RingOK`, `Chan`), and what was written on a connection has an id up to `highID` or came through the channel and has left it (`Got`). Racing emits are included: the id order of ring and channel is not used. |
| `NothingOmitted` | `NoGap` | `InvB`, which holds while calls follow each other. `InTurn`: one call is under way at most and it has the last row, so the ring is exactly the ids `Low + 1 .. Top`. `Kept`: the client has, or its channel had no room for, everything between its first event and its last id that the ring still has. `Open`: the channel is in id order, each entry is past the last id or up to `highID`, and nothing is missing behind its first entry; on a live stream nothing is missing past the last id. `Open` needs "behind its first entry" because between `Subscribe` and the replay a channel fills that does not yet join up with what the client has; the replay closes the distance, and `Receive` moves along. |
| `BurstsAllowed` | `BurstAllowed` | `Bucket`: the tokens left, and the events handed on since the bucket was full, make up the bucket and the tokens added since; as long as nothing was refused, everything since has been handed on. |
| `TypeCorrect` | `TypeOK` | the table is injective because an id is a row's position. |

`SinceID` is a loop over the ring. What it returns is proved without induction over data: the set of positions at which the claim fails would have a least element (`LeastNat`, from the well-foundedness of the naturals).

### Poller, CloudAccess, Credentials, Storage

| Theorem | States | Argument |
|---|---|---|
| `Poller`: `EventsTellHealth` | `FeedShowsHealth` | inductive with the types: cache and feed are written in one step. |
| `ThresholdIsRespected` | `ThresholdRespected` | `RunsAreStreak`: for an id that was never recreated the counter is the number of unhealthy polls since the last healthy one. |
| `CloudAccess`: `ReferencesHold` | `References` | inductive with `JobShape` (only the job of an instance inserts its row) and `BoundEver`. |
| `SessionsEnd`, `PurgeIsSafe` | `SessionLifetime`, `PurgedWasExpired` | `ExpiryBound`: formatting drops at most half a second, never adds. |
| `ProxyServesOwn`, `RollbackIsOwn`, `ProvisionIsOneOperation` | `ServedOwn`, `OnlyOwnUser`, `ProvisionOutcome` | `Turns`, while operations on a slug take turns: a job and a request are never about one user (`RequestsApart`), the row and the user a job made are still its own (`RowIsOurs`, `UserIsOurs`; a failed `registry.Get` or rollback is what makes an exception of a row), and a session and a request keep the account they began with (`SessionAccount`, `RequestAccount`). |
| `Credentials`: `RotationRevokes`, `TokenLifetime` | `RevokedAtRestart`, `SSELifetime` | `KeyInv`: only the newest key is active, a server holds the newest one of its start, a token carries the expiry of its issue and the text announced is that expiry on the host's clock. |
| `TokensStayDead`, `RestartPutsTokenToUse` | `NoRevival`, `RestartSuffices` | `QueryInv`: no token is held twice and one about to be stored is fresh; an operation that has an instance for itself knows what row and file hold at each of its steps (`Alone`), and one that fails leaves the instance among the `disturbed`. |
| `Storage`: `CommittedIsRead` | `Durable` | `Sound`: a whole file read through its log is what was committed; a file that is not whole or is being restored has neither log nor users; a journal holds the rows of the open transaction. |
| `VersionIsTrue`, `OpenIsComplete` | `VersionTellsSchema`, `OpenedComplete` | `Schema` and `Opener`: a process that is migrating has everything below its next migration, and nothing beyond it but what files without a version had. It has to hold of a backup too, since a restore brings it back. |
| `BackupIsFaithful` | `BackupFaithful` | `Progress`: what a running backup has passed has been copied whole. |
| `TypeCorrect` of each | `TypeOK` | part of the invariants above. |

### Ingestion

| Theorem | States | Argument |
|---|---|---|
| `TypeCorrect` | `TypeOK` | that a queued chunk has a place needs the longest version to bound every version (`Bounded`, `Greatest`, `PlaceOf`). |
| `DeletedHasNoPoints` | `NoGhosts` | `Unghosted`, unless requests overlap: no row, no points; a request under way finds the row it began with, and one about to delete the row has deleted the points. |
| `IngestSweeps` | `RemovedSwept` | `Covered`: in a directory every document with points is tracked, or the request that stored them has still to record it (`Noted`); a request that sweeps has listed what is tracked and was not seen. |
| `ListedStays` | `ListedKept` | `Aside`: what a request is to sweep it has not seen, and only a request that sweeps has anything to. |
| `SkippedIsStored` | `StoredWhenTracked` | `Laid`: a chunk of a document whose hash will be recorded is stored or still queued unless a batch of that document failed (`torn`), so that nothing is missing when the queue is empty. `Tracked`: outside `torn` the chunks of a recorded version are stored, unless a request is about to record the document anew or to drop its row. |

`IndInv` joins these with `TypeOK` and `Solo` (one request at a time). `Unghosted`, `Laid` and `Tracked` hold unless requests may overlap (`Alone`), `Covered` in the environments its property names (`Reliable`); `Settled` is what lets the condition be carried along.
The documents, their order, the chunks of a version and the size of a batch are arbitrary. That `Scan` queues every chunk of every changed document and nothing else is proved of the lists themselves: `Batched` of the
cutting into batches (`Cut` has the division), `Flattened` of the concatenation. `FlattenSeq` is a recursive function; `RunningExists` shows that there is one, `RunningRange` what it holds, both by the
least position at which the claim would fail.

### Only model-checked

* Liveness (`InFlightCleared`, `ProvisioningResolves`, `Retried`, `IngestingEnds`): out of the prover's reach.
* The two violated runs: they show a counterexample, and there is nothing to prove.

## Observations

Places where the code does something other than a document says, met while modelling and confirmed on the model, that no run keeps:

* The cap is checked under a mutex of one process; `fox-control provision` beside the server can exceed `max_instances` by one (`CapBound` says by
  no more). `docs/configuration.md:112`: "Maximum number of concurrent instances".
* An upgrade's rollback runs under the context of the request (`panel/api/upgrade_handler.go:97`): a client that goes away leaves the instance on the new image, or without a container. `CHANGELOG.md:49` promises "automatic rollback on failure".
* An instance provisioned while `docker.image` was a tag has no recorded digest (`cmd/fox-control/main.go:224`, `internal/provisioner/provisioner.go:186`). Its rollback is built of the target's repository and nothing else (`panel/api/upgrade_handler.go:96`, `plugins/docker/plugin.go:390`): after
  an upgrade by tag that is the target once more, after one by digest whatever the registry calls latest. `UpgradeRollsBack` states what such a rollback leaves; "automatic rollback on failure" it is not.
* A rollout rolls back to the digests it read at its start (`rollout/rollout.go:102`): an instance that was upgraded in between goes back to the image from before that upgrade. `mixed` sets this apart in `BlastRadius` and `ReportTruthful`.
* `plugin.Restart` stops and starts; when the start fails (`plugins/docker/plugin.go:304`) a container that was up and unhealthy is left stopped until the next poll tries again. `BlastRadius` blames no job for it.
* Two rollouts that run at once and meet at an instance can leave more instances damaged than there are rollouts (TLC finds it with three instances). `BlastRadius` is therefore about jobs that shared no instance.
* Two concurrent `Emit` calls can reach the ring out of id order; a replay that holds the later id raises `highID` and the earlier event is skipped when it arrives
  (`panel/api/sse_handler.go:64`). `NoGap` therefore has `~raced` in its antecedent.
* A server that cannot read the events table starts with an empty ring (`internal/events/events.go:46`). A client then goes on from a newer event, and a later start that can read the table brings back the ones between, which that client never asks for. `raced` covers that as well.
* `unhealthyRuns` and `lastRestart` survive the instance (`panel/api/poller.go:154`): a recreated id is restarted early. `docs/configuration.md:71` speaks of "consecutive failures before restart".
* A restart that fails starts no cooldown (`panel/api/poller.go:164`); `docs/configuration.md:72`: "seconds between restart attempts".
* The poller's restart emits no event, though `docs/operator/handbook.md:594-595` describes one.
* Batches that fail to embed or upsert are passed over, the hashes of all documents are recorded (`data-plane/ingestion/file/connector.go:211`), and later ingests skip them:
  `docs/architecture/APACHE_ROADMAP_v1.x.md:151` says "skips unchanged documents, re-embeds modified ones". A skipped document without its chunks is therefore possible; `StoredWhenTracked` bounds it to the documents of the failed batch (`torn`), and to the time until their content changes or the source is deleted.
* A source deleted during an ingest keeps the points stored after `DeleteByFilter` (`data-plane/server/server.go:412`); hence `overlap` in `NoGhosts`.
* A document that became shorter keeps the trailing chunks of the longer version (`data-plane/ingestion/file/connector.go:191`), and queries find both, until it is removed (`RemovedSwept` takes all of them). One whose new version has no text keeps all its old chunks.
* A crash leaves the source in status "ingesting" (`data-plane/server/server.go:454`) until somebody ingests it again.
* A failure between the deletion of a source's points and of its row or tracking leaves hashes without points: a later ingest skips every document. `torn` covers these documents too.
* `handleCreate` and `PUT /api/users/{id}` bind any instance to any user (`panel/api/handlers.go:223`), against "the slug = username invariant" of `docs/DEPLOYMENT.md:335`. What the code does enforce is in `References`.
* A user deleted and created again between `Authenticate` and the insertion of the session gives the new account a session of the old login; `rollbackUser` deletes by name.
  `ServedOwn` and `OnlyOwnUser` are stated for operations that take turns. A slug that is bound to another instance between two lookups of the proxy is the same case: that request still goes where the first lookup led.
* `handleCheckSlug` looks at instances only: the slug of an existing user is reported as available.
* The server keeps the signing key it started with (`cmd/fox-control/main.go:193`), while `rotate-sse-key` prints "All active session tokens are now invalid." (`:615`). `RevokedAtRestart` is what holds.
* `POST /api/auth/session` formats local time with a literal `Z` (`panel/api/session_handler.go:50`). `openapi.yaml:988` calls the field RFC 3339 and ADR 0012 (line 74) ISO-8601, where `Z` means UTC: a client east of Greenwich renews too late, one west of it too early. `SSELifetime` holds by the host's wall clock.
* When the store fails at `SetInstanceID` (`panel/api/provision_handler.go:189`), the provisioning reports success and nobody is bound; when it fails at the `Delete` of `rollbackUser` (`:209`), an account without an instance is left and its name is taken. Both are only logged; an error of
  `registry.Get` (`:117`) is taken for "no such instance", and the job then fails on the row that is there.
* The provisioner's rollback and a destroy ignore or stop at their errors (`internal/provisioner/provisioner.go:291`, `:316`): a row may be left whose directory is gone, with a query token that stays valid. `RestartSuffices` excepts it until the next operation that succeeds.
* Two rotations of a query token, or one during a provisioning, can leave registry and `hermes.env` with different tokens (`cmd/fox-control/main.go:650`); `RestartSuffices` excepts them until the next undisturbed operation.
* `rotate-query-token` re-injects the fleet's admin secret where provisioning had put the instance's own plane token (`cmd/fox-control/main.go:658`), against `CHANGELOG.md:128`.
* A registry from before 1.1.0 has tables and no `schema_version`: the first migrations meet what they would create. That they can is the `IF NOT EXISTS` and the ignored "duplicate column" of `internal/registry/registry.go:94` and `:108`; `VersionTellsSchema` names the three migrations that need it.
* Two processes that open a new registry at once both count on from the version they read (`internal/registry/registry.go:198`); the slower one sets the version back, and dies on the columns of migration 7, which the
  other has added. Every later `Open` then fails with "duplicate column". `docs/architecture/APACHE_BACKLOG_v1.md:614`: "Each migration is a numbered function (1, 2, 3...) that runs exactly once". Hence `~raced` in the second half of `VersionTellsSchema`; TLC finds the lasting form of the race in fifteen steps from a new data directory.
* `isLocked` passes beside a server that is running and idle (`cmd/fox-control/ops.go:131`), and the file is then replaced under its log. `docs/architecture/APACHE_BACKLOG_v1.md:334`: "Restore refuses to overwrite if databases are locked by running server". Hence `undermined` in `Durable`.
* The opposite also happens: a file left half written by an interrupted restore fails `BEGIN EXCLUSIVE`, is taken for locked by a server, and the restore cannot be repeated until it is removed by hand. One cut off just after the truncation leaves an empty file, which the next start takes for a new registry.
* `restore` goes database by database: an error at the second leaves the first one replaced. `backup` into a directory that has a copy already fails; of a missing registry it makes an empty one and reports success.
* Restoring an older registry revives the query tokens and signing keys that were retired since. `docs/DEVELOPER.md:424` says "All databases use WAL mode with a 5-second busy timeout"; only the registry does.
* A backfill reads the instances without a token and then writes one by one (`internal/registry/registry.go:401`); beside another process the token that is written last counts. The model takes it as one step.
* ADR 0013 (lines 88–91) says that rotation restarts the container; the command asks the operator to.

## Not modelled

Skillsets: validation of a manifest is a pure function, and the handlers write or remove one file in one call and keep nothing between two requests. The panel's rate limiter is one bucket under
one mutex, and the webhook bucket of `EventLog` has the same form. The Qdrant manager (`data-plane/qdrant/qdrant.go`) is constructed by its tests only; `serve` uses a Qdrant that somebody else runs. Pages, metrics, output
formatting, TOML parsing, the safe dialer, the web application and the conformance suites have no state of their own worth a model; `PROJECT.json` gives the reason for each. Of
the poller the Qdrant flag is left out, of the query endpoint everything but the acceptance of a token (it only reads).

## Plan

The order follows the damage a mistake would do: the lifecycle of an instance first, then what acts on it (updates, healing), then what tells of it (events), then data, users and credentials.

1. Done: `Provisioner` with proofs, `Rollout`, `EventFeed`/`EventLog`, `Poller`, `Ingestion`, `CloudAccess`, `Credentials`.
2. Done: `Storage` (databases, migrations, backup and restore); `Lifecycle`, the contract that `Provisioner` refines; ingestion after a crash.
3. Done: proofs of `Rollout`, `EventLog` with its refinement of `EventFeed`, `Poller`, `CloudAccess`, `Credentials` and `Storage`. Two properties turned out too strong when their invariants were
   written down (`BlastRadius` with two overlapping rollouts over three instances, `NoGap` after a restart that could not read the table) and were restated; both cases are among the observations.
4. Done: `NoOrphan`, `SuccessMeansServed`, `FailedLeavesNothing` and the refinement of `Lifecycle` for processes that take turns; `NoGhosts`, `StoredWhenTracked` and `RemovedSwept` of `Ingestion`.
5. If the code grows there: crashes of the server during cloud provisioning, and a composition of `Provisioner` with the poller, whose restarts meet a deployment.
