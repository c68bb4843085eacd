# Verification of YUB WPanel

YUB WPanel is a server panel for WordPress, one Go process that runs as root
beside nginx, MariaDB, PHP-FPM and Redis and keeps its records in one SQLite
database.  This directory holds TLA+ models of the parts of it whose
correctness depends on the order of events: what several goroutines, requests,
panels and crashes may do to the same site.  Each model is translated from the
Go source (`src/executor/...`); TLC checks it on small instances, and TLAPS
proves the safety properties of the runs for every value of the constants - some
of them under a hypothesis about when things happen, which section 5 names.

| Module | Models | Checked by | Proved in |
| --- | --- | --- | --- |
| `TaskQueue` | the serial task queue, `executor/queue.go` | `TaskQueue.cfg` | `TaskQueueProofs` |
| `SerialExecutor` | what the queue promises its callers | as a PROPERTY of `TaskQueue` | `TaskQueueProofs` |
| `Maintenance` | maintenance window, site operation lock, permanent file lock | `Maintenance.cfg` | `MaintenanceProofs` |
| `MaintenancePassword` | the password record of the window | `MaintenancePassword.cfg` | `MaintenancePasswordProofs` |
| `MigrationTarget` | one migration task on the receiving panel (B) | `MigrationTarget*.cfg` | `MigrationTargetProofs` |
| `TargetTask` | what B's task promises the sending panel | as a PROPERTY of `MigrationTarget` | `MigrationTargetProofs` |
| `SiteMigration` | the sending panel (A), composed with `TargetTask` and the calls between the panels | `SiteMigration*.cfg` | `SiteMigrationProofs`, `SiteMigrationCopyProofs` |
| `WpUpdate` | WordPress updates of a site: store, worker, executors, batch, rollback decisions | `WpUpdate*.cfg` | `WpUpdateProofs`, `WpUpdateSiteProofs` |

The `MC...` modules add only what an instance needs: symmetry sets, sets of
operations, the order of a batch.

To repeat a check: `tlc -config TaskQueue.cfg MCTaskQueue`, and likewise for
the other configurations; to repeat a proof: `tlapm TaskQueueProofs.tla`.

## 1. The system

### 1.1 How the parts interact

An HTTP handler (`handlers/`) checks the session, reads rows through
`database/`, and either works on the site itself under the site operation lock
or hands a function to the task queue and waits for its result.  The long
operations - migrations, WordPress updates, inventory scans, panel updates,
image batches - have durable task rows and workers of their own that poll the
database.  All of them meet on four things:

* **the task queue** (`executor/queue.go`): one worker goroutine, everything
  that reloads nginx or touches system accounts goes through it;
* **the site operation lock** (`executor/site_lock.go`): an in-memory slot per
  site, taken without waiting, released by a `defer`; lost when the process
  ends;
* **durable claims** in the database, which outlive the slot: a maintenance
  window, an unfinished update task, an active migration lock, an AI access
  grant.  Who takes the slot has to look at them, and who creates one has to
  hold the slot while it does;
* **the server itself**: files, users, databases, nginx configuration.  No
  transaction covers these and the database together, so every operation is a
  sequence of "record the intention - change the server - record the outcome",
  and a crash may fall between any two.

A site migration adds a second panel: A freezes and packs the site, B receives
and activates it, and each calls the other over HTTP; a call may be lost, or
carried out after its caller has given up.

### 1.2 Components

State, operations, what is hard, and what makes each part correct.  The status
of each is in `PROJECT.json`.

**Task queue** (`executor/queue.go`).  State: the buffered channel, the map of
polling records, `taskCount`, the admission semaphore, the worker's current
task.  Operations: `EnqueueContext` (fast path, admission slot, blocked send
with context and timer, last attempt), the worker (`execute`, `finalizeTask`,
`deliverTaskResult`), `GetTask` and the janitor (pruning).  Hard: three-way
race of send, context and timer; records created before the send; a counter
incremented and decremented in several places; panicking tasks.  Correct when
it is a serial executor with bounded memory in which refused work never runs
and accepted work is answered once.

**Maintenance window** (`executor/maintenance.go`), **site operation lock**
(`executor/site_lock.go`), **permanent file lock**
(`executor/site_permissions.go`).  State: the row `maintenance_security`, the
columns `file_lock_enabled` and `file_lock_apply_status`, the latches
`uncertain`/`retry`/`alerted`/`restarting` in memory, the modes of the files.
Operations: `Unlock` with compensation, `Extend`, `Relock`, `Tick`, `Start`,
`Configure`, `Status`, `executeSetFileLock`.  Hard: the row, the files and the
memory can each fail separately; the window outlives the slot; Tick, requests
and the restart write concurrently.  Correct when the reported status is true,
nothing left open by a crash is forgotten, no other writer works inside a
window, and every window closes.

**Site migration** (`executor/site_migration_*.go`).  State: batches, sites
(the tasks), locks, the resource ledger, events, pairing and request nonces;
staging directories; on B the new user, database, files, configuration,
website record; on A the frozen site.  Operations on B: the worker's stages,
activation, rollback, deletion, requests of administrators and of A; on A:
freeze, prepare, database dump, certificates, transfer, abandon, complete;
between them: pairing, queueing, progress, deletion.  Hard: every step can be
cut short; a lease decides who works; requests act on the same row without the
lease; an answer of the other panel can be lost.  Correct when what a task made
is never forgotten, an abandoned task leaves nothing, a live site is never
removed, and exactly one panel serves the site.

**WordPress updates** (`executor/wp_core_update_*`, `wp_plugin_*`,
`wp_theme_*`, `wp_update_store.go`).  State: tasks with stage, lease and
recovery disposition, confirmations, sealed artifacts, backups, the journal on
disk.  Operations: precheck, confirm (single use), seal, claim, backup, unlock,
apply, health check, relock, automatic rollback, manual rollback, disposal,
recovery after a restart.  Hard: the update runs as an external unit that
survives the panel; a lost heartbeat leaves the outcome unknown.  Correct when
one unfinished task per site exists, files are written only after the backups,
a failed update is rolled back or reported as unknown, and the file lock is
restored.

**WordPress plugin batch**: an ordered set of plugin updates over the same
store.  **WordPress inventory**: jobs with leases, deduplicated per site, a
scheduler and a worker.  Correct when a job runs once at a time and a site is
not scanned twice at once.

**Panel self update and panel database restore** (`panel_update*.go`,
`panel_db_restore.go`): a state file and a detached runner that replaces the
binary and survives the restart.  Correct when an interrupted update ends with
the old or the new binary and a database of the same version.

**AI development access** (`ai_development_access.go`): a grant with expiry, a
system account and a file unlock; revoked by the user, by time or after a
crash.  Correct when no account outlives its grant.  **AI diagnostics**: a
bounded conversation with an external model and read-only tools.

**Website lifecycle** (`website_tasks.go`, `handlers/website.go`): creation,
copy, change of domains, deletion, each a sequence with compensations.
**Configuration templates and nginx**: write, syntax test, reload, restore.
**Software and service settings** (`safe_apply_config.go`,
`handlers/software.go`): the same for MariaDB, Redis, PHP; the caller reads the
old content before the mutex is taken.  Correct when a failed change leaves the
running configuration on disk.  **Certificates**: issue, renewal, upload.

**Backup, restore, remote copies** (`backup.go`, `file_backup.go`,
`remote_sync.go`): retention after success, uploads with retries.  **Cron**:
rows exported to the crontab, run-now.  **File manager**: chunked uploads,
imports, archives; under the file variant of the site operation lock.  **File
integrity and permissions**: baselines and scans.

**Login, sessions, request guards** (`middleware/`): counters with expiry under
a mutex.  **Monitoring and alerts**: cool-down and recovery of alerts, process
guard with a restart budget.  **fail2ban and bans**, **log analysis and
security reports**, **database manager**, **image optimiser**, **database
schema and upgrades**, **router and start-up**, and the parts outside Go: the
WordPress plugin, the installer, templates, locales, workers.

### 1.3 What is hard to test

`PROJECT.json` lists the hazards with their lines.  They fall into four groups:
races of requests with a background worker on the same row; a crash or failure
between the intention, the effect and its record; values read before a lock or
transaction and used inside a later one; retries of what may have been done.

## 2. Plan

1. `TaskQueue`, `SerialExecutor` and proofs. *Done.*
2. `Maintenance`, `MaintenancePassword` and their proofs. *Done.*
3. `MigrationTarget` and its proofs, the refinement of `TargetTask` included.
   *Done*; open: what holds when scopes age.
4. `TargetTask`, the abstract specification of `MigrationTarget`, and
   `SiteMigration`, which composes the sending panel with it over lossy calls,
   and its proofs. *Done*; open: pairing and the nonces of machine requests.
5. `WpUpdate`: store, worker, executors and batch with automatic and manual
   rollback, restart and disposal, and its proofs. *Done*; open: the inventory
   and the confirmation token of a preview.
6. `ServiceConfig`: the configuration writers with the value read before the
   mutex.
7. Then, one at a time: inventory jobs, panel update, AI development access,
   website lifecycle, backup and remote copies, guards and counters of
   `middleware/`, alerts, cron, uploads, bans.

Every module keeps one action per step of the code and no recursive operator,
so that it can be proved about; parameters are constants with a named
assumption; invariants are conjunctions of named parts.

## 3. The modules

Common conventions.  A step is what the code does without anything else being
able to act in between: one critical section, one SQL statement or
transaction, one operation on the server.  A function that performs several is
several actions, joined by a program counter.  Definitions whose names say how
they differ from a neighbour and whose comment says "Mutant" are plausible bugs
of that neighbour; no specification uses them, they show that a property would
notice.

### 3.1 `TaskQueue` and `SerialExecutor`

| TLA+ | Go (`executor/queue.go`) |
| --- | --- |
| `queue`, `Capacity` | the channel `q.queue` and `taskQueueCapacity` |
| `tasks`, `status`, `updatedAt`, `expired`, `taskCount` | `q.tasks`, `Task.Status`, `Task.UpdatedAt` as a rank, older than `completedTaskTTL`, `q.taskCount` |
| `admissionSlots`, `MaxWaiters` | the semaphore `q.admissionSlots`, `maxTaskAdmissionWaiters` |
| `wpc`, `wtask`, `wresult`, `running`, `resultCh` | the worker goroutine, `q.running`, `Task.ResultCh` |
| `pc`, `cancelled` | where each caller is inside `EnqueueContext`, whether its context is done |
| `EnqueueContext`, `FastPath`, `SelectAdmissionSlot`, `RegisterWaiting`, `BlockedSend`, `GiveUpSend`, `RemoveUnqueuedTask`, `FinalTry`, `AwaitResult` | the stretches of `EnqueueContext` between two points where another goroutine can run, and the handler that waits |
| `WorkerReceive` ... `DeliverTaskResult` | `worker`, `execute` with its `recover`, `finalizeTask`, `deliverTaskResult` |
| `ReachTTL`, `PruneTick` | time; the janitor and `GetTask` |

`SerialExecutor` has no channel, semaphore or records: a submission is refused
or accepted once, accepted work runs alone, in the order of acceptance, once.
`ImplementsSerialExecutor` maps each task to its fate and the channel to the
line.

A task that panics is one that fails; what a task does is not modelled.  The
clock is the order in which tasks finish.

### 3.2 `Maintenance` and `MaintenancePassword`

| TLA+ | Go (`executor/maintenance.go`, `site_lock.go`, `site_permissions.go`) |
| --- | --- |
| `window`, `closed` | the JSON columns of `maintenance_security` |
| `lockEnabled`, `applyStatus`, `root` | `websites.file_lock_enabled`, `file_lock_apply_status`, `web_root` |
| `claimed` | some unfinished update task, migration lock or AI grant, as `conflicts` asks for |
| `fs` | the modes of the files: locked, open, or something between |
| `uncertain`, `retry`, `alerted`, `restarting` | the maps of `MaintenanceManager` |
| `holder` | the slot of the site in `wpSiteOpBusy` |
| `mem`, `began`, `stale`, `absorb`, `target` | locals of the operation that holds the slot; `stale` stands for the comparison of the raw row in `save` |
| `UnlockBegin` ... `UnlockDone`, `CompensateLock`, `CompensateVerify` | `Unlock`, `compensateUnlock` |
| `RelockOwned`, `SaveRelocking`, `LockFs`, `VerifyFs`, `CommitLocked`, `SaveFailed` | `relockOwned` |
| `ExtendBegin`, `ExtendCheck`, `SaveExtend` | `Extend` |
| `PersistRestart`, `TickVisit`, `Crash` | `Start`, `Tick`, the end of the process |
| `WriterBegin`, `WriterEnd`, `ClaimEnd`, `FileOpBegin`, `FileOpEnd` | any other user of `TryAcquireSiteOpLock`, and of its file variant |
| `SetFileLockBegin` ... `SetFailed` | `executeSetFileLock` |

Every database write and every pass over the files may fail; a pass that fails
or is cut short leaves the files as they were or partly changed.  Modes,
owners and the contents of the integrity baseline are not modelled, only the
decision whether it may absorb changes.

`MaintenancePassword` is the part of the record that counts failures.  Both of
its users hold the site operation lock, so that one verification is one step.
The list `Failures` of time stamps is a set here, of which the code only uses the
length: the request's id tells two failures of one instant apart.

### 3.3 `MigrationTarget`

| TLA+ | Go (`executor/site_migration_*.go`) |
| --- | --- |
| `row` | the row of `site_migration_sites`: status, stage, lease owner and lease, whether `target_site_id` is set |
| `lock` | the row of `site_migration_locks` |
| `ledger`, `exists` | `site_migration_resources` and what is really on the server |
| `website` | `websites` and `cron_jobs`: absent, quiet (monitoring and cron off), live |
| `proc` | the worker and every request being handled: its next step and what it has read |
| `ClaimNext`, `Loop`, `HeartbeatRefused`, `ReleaseClaim` | `site_migration_worker.go`, `site_migration_store.go` |
| `TransferBegin`, `PrepareFiles`, `Finalize`, `TransferFails` | `site_migration_target.go`, `site_migration_transfer.go` |
| `BeginCreation`, `RecordIntent`, `Make`, `MakeFails`, `MarkPublished` | `createAndRecord`, `beginPublishStep`, `completePublishStep` |
| `PublishBegin`, `PublishCommit`, `ConfigureBegin`, `InsertWebsite`, `HealthFails`, `HealthCommit` | `site_migration_publish.go`, `site_migration_configure.go` |
| `Await`, `BeginActivation`, `ResumeActivation`, `CommitActivation`, `RuntimeSync`, `FinishActivation`, `ActivationFails` | `site_migration_cutover.go` |
| `LoadRollbackScope`, `BeginRollback`, `RemoveResource`, `MarkRemoved`, `RemoveRecords`, `RemoveFails`, `FinishRollback` | `site_migration_rollback.go` |
| `HandleFailure`, `ReleaseReferences`, `RemoveRuntimeFiles`, `ForgetTask` | `site_migration_task_cleanup.go` |
| `Retry`, `Confirm`, `Abandon`, `Delete`, `QueueTarget` | the handlers, `site_migration_control.go` |
| `LeaseExpires`, `LeaseLapses`, `Crash`, `Restart` | time, a heartbeat that comes too late, the end and the start of the process (`recoverExpired`) |

The sixteen resource types of the ledger are grouped into the six kinds that
one pass creates and removes together.  A kind that fails half-way may be there
or not; the ledger entry of the group is that of its weakest member.  Left out:
chunks and checksums of the transfer, the marker file and the decision events
of the activation, the clean-up of certificates (removed with the
configuration), the deletion of the finished website as an ordinary one, a
second declaration of a task that was forgotten, and the calls to the other
panel.

Two constants describe the environment.  `MaxFaults` bounds crashes and lapses
of the lease together.  `ScopeMayAge` says whether others may act between the
moment a deletion or rollback reads what it will remove and the transaction
that relies on it.  With `FALSE` the checks say what the code guarantees once
that window is not hit; with `TRUE` they say what is left when it is - and the
run `migration_stale_delete` shows what is not.  The history variable `lapsed`
marks behaviours in which a lease expired under its running worker:
`LedgerCovers` and `AbandonedIsClean` are promises of the lease and are stated
for the others, while `ActivationAtomic` and `LiveSiteKept` hold in all.

### 3.4 `TargetTask` and `SiteMigration`

`TargetTask` says what the sending panel may rely on, with three variables:
the phase of B's task, whether B has received everything, and whether B shows
the website.  `ImplementsTargetTask` maps `MigrationTarget` to it (`Phase`,
`Received`, `website = "live"`); `SiteMigration` extends it, so that the panel
checked in one run is the panel assumed in the other.

| TLA+ | Go (A's panel, `executor/site_migration_*.go`) |
| --- | --- |
| `row`, `lock`, `owned` | `site_migration_sites`, `site_migration_locks`, the resource `source_maintenance_config` |
| `link`, `file`, `loaded` | the enabled link of the site, the maintenance file, and what nginx has loaded: three things no transaction joins |
| `site` | `websites.status`: active, paused, migrated |
| `dump` | the exported database: current, or older than the last write of a visitor |
| `net` | calls under way: a caller that gave up leaves its call there |
| `proc` | the worker, the task queue's worker and every request |
| `Start`, `DeclareBatch`, `QueueBatch`, `Retry`, `DeleteTask`, `Abandon`, `CompleteSource` | `site_migration_workflow.go`, `_source_prepare.go`, `_control.go`, `_task_cleanup.go` |
| `Prepare`, `FreezeSource`, `WriteMaintenance`, `SwapLink`, `Reload`, `Verify`, `UndoLink`, `UndoRows`, `MarkFrozen` | `site_migration_freeze.go` |
| `BuildManifest`, `BuildDatabase`, `MarkPrepared`, `QueueFails` | `site_migration_files.go`, `_database.go`, `_processor.go` |
| `LoadAbandon`, `CancelSource`, `RestoreLink`, `BackToMaintenance`, `RestoreReload`, `RestoreFile`, `RestoreRows`, `AlreadyRestored` | `AbandonSource` |
| `LoadTaskCleanupScope`, `ReleaseReferences`, `ForgetTask` | `deleteSourceTask` |
| `Deliver`, `Lose`, `DeliverQueue`, `DeliverAbandon`, `DeliverDelete`, `DeliverToSource` | the machine requests between the panels |
| `TargetStep` | any step of B that `TargetTask` allows |
| `PauseSite`, `PauseApply`, `EnableSite`, `EnableStatus`, `EnableLink` | pause and enable of the website, in the task queue |
| `Visit`, `OtherReload` | a visitor writes; nginx is reloaded on behalf of another website (external) |

One step stands for the manifest, the certificates, the settings and the reading
of chunks.  `ScopeMayAge` means what it means in 3.3; `Handlers` bounds the
requests handled at once, `MaxFaults` the crashes and lapses.

### 3.5 `WpUpdate`

| TLA+ | Go (`executor/wp_*.go`) |
| --- | --- |
| `task` | `wp_update_tasks`: status, component, batch, backup source, failure, rollback status, attention, disposition, lease owner; the backup of files and database it has made |
| `batch`, `item` | `wp_update_batches`, `wp_update_batch_items` |
| `site` | the files of each component, the plugins whose migrations the database has seen, the file lock, the maintenance page |
| `units` | the transient systemd units a plugin is updated in; they outlive the panel |
| `dirs` | runtime directories: `Prepare` demands that a task has none |
| `worker`, `request`, `batcher`, `roller` | the goroutine of `runOwned`, a request that confirms a single update, the orchestrator, the requests of `Rollback` |
| `Confirm`, `Download`, `CreatePlan`, `SealPlan`, `FailPreparingPlan` | the services and the store |
| `CreatePluginBatch` ... `CompleteBatchIfExhausted` | `wp_plugin_batch.go` |
| `Claim`, `PrepareBackups`, `PrepareUpdate`, `Unlock`, `FailBeforeWrite`, `StartApply`, `Apply`, `CheckTargetHealth`, `RestoreFileLock`, `MarkSuccess` | `execute` of the core's and a plugin's executor |
| `BeginAutomaticRollback`, `HaltForManualRollback`, `AutomaticRollback`, `FinishAutomaticRollback` | `rollbackOrHalt`, `runRollbackSequence` |
| `BeginManualRollback`, `PrepareManualRollback`, `ManualRollback`, `FinishManualRollback`, `ClaimExpires` | `ManualRollback`, the claim of a failed task |
| `SupervisionUncertain`, `UnitEndsAlone`, `HeartbeatFails`, `InterruptIfOwned`, `RecoverExpired`, `Restart` | `wp_plugin_update_scope.go`, the worker's sweep and start |
| `Ignore` | `disposeFailedTaskIgnored`, `disposeInterrupted` |

A theme goes through the plugin's executor in no batch.  A step that goes wrong
costs one of `MaxFaults`; the health check of an update that failed is decided
by the files, not by a choice.  `Singles` are the components updated outside
the batch.  `Overlap = FALSE` stands for an administrator who waits until
nothing else works on the site before a rollback is requested or an ignored
task's unit is forgotten; the code demands it nowhere, see section 6.
Not modelled are other sites, the preview with its single-use token, the
contents of packages, archives and dumps.

## 4. What is checked

Runs without liveness properties use symmetry where callers, requests or
administrators are interchangeable.  `queue` and `maintenance` check safety and
liveness on one graph and do without.  Every run terminates on the
complete state graph of its instance.  `CHECK_DEADLOCK FALSE` everywhere: all
calls answered, the last instant reached or the task forgotten are legitimate
ends.

| Run | Instance | Properties |
| --- | --- | --- |
| `queue` | 3 calls, capacity, waiters and retention 1, fair callers | `TypeOK`, `TaskCountExact`, `RefusedNeverRuns`, `AcceptedIsPollable`, `AdmissionBounded`, `ImplementsSerialExecutor`, `CallReturns`, `AcceptedIsAnswered` |
| `maintenance` | 2 requests, 2 roots, 4 instants, 2 faults, 1 crash, fair | `TypeOK`, `StatusHonest`, `ReadyMeansLocked`, `WindowExcludesClaims`, `WindowKeepsRoot`, `VerifiedCoversWindow`, `AbsorbOnlyClean`, `RelockIsFinal`, `WindowCloses`, `LatchClears` |
| `maintenance_password` | 4 requests, 2 passwords, limit 3, freeze 3, 8 instants | `RollingLimit`, `ReplayNotCounted` |
| `migration_target` | 2 administrators, all requests, 1 fault, scopes stay fresh | `LedgerCovers`, `AbandonedIsClean`, `ActivationAtomic`, `LiveSiteKept`, `ImplementsTargetTask` |
| `migration_target_races` | 1 administrator, all requests, 1 fault, scopes age, fair | `TaskIsSettled` |
| `migration_stuck_cleanup` | no request, no fault | violates `FailedIsRemovable` |
| `migration_stale_delete` | 1 administrator, no fault, scopes age | violates `LiveSiteKept` |
| `site_migration` | 2 requests at once, pause and enable, 1 crash or lapse, scopes stay fresh | `FrozenWhileCopying`, `DecidedCopyIsCurrent`, `MaintenanceIsOwned`, `EnabledFileExists`, `AbandonHidesTargetFirst` |
| `site_migration_interrupted` | 1 request, 1 crash | violates `InterruptedCanBeAbandoned` |
| `wp_update` | a batch of 2 plugins, single updates of the core and a plugin, 3 tasks, 2 rollback requests, 2 faults, 1 restart | `TypeOK`, `DamageIsInSight`, `IgnoredIsLeftAlone`, `BatchItemOnce`, `CompletedIsDecided`, `RollbackIsAlone`, `OutcomeIsTrue` |
| `wp_update_liveness` | the same batch, single updates of the core, 1 rollback request, 1 fault, 1 restart, tasks overlap, fair | `BatchEnds`, `EveryTaskEnds` |
| `wp_update_manual_rollback` | 1 rollback request, 1 fault | violates `ManualRollbackIsRecorded` |

Each property is checked once, in the run whose instance makes it hardest.  The
type invariants of `MaintenancePassword`, `MigrationTarget` and `SiteMigration`
document the states and are part of no run.

**Why the bounds are enough.**  *Queue*: with all limits at 1, three calls are
one with the worker, one in the channel and one that waits in the only slot or
is refused for the want of it, so that every branch of `EnqueueContext` is
taken; the bound of admission is stated beside the worker's task and reached
(`SelectAdmissionSlotOneMore` exceeds it), and two finished tasks exceed the
retention.  The proofs cover any number.  *Maintenance*: the second request tells a
repeated window from a new one, the second root lets the site move, three ticks
of the clock hold a window, its extension and a retry; two faults let a relock
and the record of its failure fail together, the crash may come before, between
or after them.  Failures and crashes without a bound are covered by the proofs.
*Password*: four requests exceed the limit of three, and seven ticks cover a
freeze and the whole window after it.  *Migration*: two administrators and the
worker give every pair of operations, a crash or a lapse falls anywhere;
failures of single steps are not bounded at all, since each leads out of the
stage and back only through a request.  On the sending panel every step, call
and reload may fail without a bound, and two requests with the worker give
abandonment against deletion, retry and completion.  *Updates*: two plugins are
the least batch with an item before and one after a failure; the third task is
a single update, which may stand before, between or behind them; two faults let
an update and its rollback fail together.

**What the properties are for.**  `StatusHonest` relates what the API says to
the files, through any failure; `ReadyMeansLocked` is what makes a crash
recoverable; `WindowExcludesClaims` and `WindowKeepsRoot` are the two sides of
a lock that is half in memory and half in the database.  `RefusedNeverRuns` is the outcome of the race of send, context and timer;
`TaskCountExact` concerns the five places that change the counter.
`LedgerCovers` is the promise of intention-first bookkeeping, `AbandonedIsClean`
that of the repeated rollback, `ImplementsTargetTask` what the other panel
builds on.  `FrozenWhileCopying` and `DecidedCopyIsCurrent` say that the copy
which becomes the site misses no write of a visitor, over interrupted freezes,
kept exports and lost answers; `MaintenanceIsOwned` and `EnabledFileExists` that
the site left behind can be shown again.  `OutcomeIsTrue` compares what an
update or rollback records with the files, the database and the lock;
`DamageIsInSight` says that what was left half done is somebody's matter.

**Fairness.**  *Queue*: every caller inside `EnqueueContext` is a goroutine the
Go scheduler runs, and its timer fires (`CallerFairness`).  The worker is given
no fairness in `FairSpec`, because what it executes may hang for ever:
`CallReturns` holds even then.  `AcceptedIsAnswered` needs a worker that goes
on and says so (`WorkerFairness =>`).  *Maintenance*: an operation that holds
the slot finishes; the ticker fires for ever; the clock runs.  The visit of a
site is skipped while the slot is taken, so it needs strong fairness: not every
tick finds the site busy.  Without it the panel could be kept from relocking by
file operations that follow each other without a gap.  *Migration*: a process
with a step takes it, a lease that nobody renews expires, a stopped panel is
started.  A failure that repeats needs a new request, so fairness of the
requests is neither given nor needed.  *Updates*: the worker polls, the sweep
ticks, the orchestrator runs, a unit has `RuntimeMaxSec` and ends, and a request
in hand runs to its end; heartbeats, restarts and decisions are nobody's duty.
`BatchEnds` therefore ends in a completed batch or in one that waits for a
decision.  Nothing obliges a client, a user or a
crash to act.

## 5. What is proved

Every safety property of the passing runs is a theorem.  Assumed of the
constants is only what the modules state: `TaskQueueAssumption` and
`MaintenanceAssumption` - finiteness of the set of calls, positive limits, no
window longer than a verification; `MaintenancePasswordAssumption` - a positive
limit and a positive span; `MigrationTargetAssumption` and
`SiteMigrationAssumption` - requests are not the worker, bounds are numbers; and,
for `WpUpdate`, `BatchAssumption`, `OwnerAssumption` and `BoundsAssumption`: the
batch is a non-empty sequence of plugins, the requests are none of the words a
claim is marked with.  None bounds the number of calls, requests, tasks, faults
or crashes, and time has no bound but `MaxTime`, which may be any number.

Three groups of theorems have a hypothesis of their own, since the code does not
keep most of these properties without it.  `~ScopeMayAge` (all of
`MigrationTargetProofs`, four theorems of `SiteMigrationProofs`): nobody acts
between what an operation has read and the statement that relies on it.
`~Overlap` (`OutcomesAreTrue`): no rollback is requested while something else
works on the site.  Both are constants, and for the other value TLC shows
`LedgerCovers`, `ActivationAtomic`, `LiveSiteKept`, `ImplementsTargetTask`,
`FrozenWhileCopying`, `MaintenanceIsOwned`, `EnabledFileExists` and
`OutcomeIsTrue` violated.  The third is written into the properties: `~lapsed`,
in `LedgerCovers`, `AbandonedIsClean`, `MaintenanceIsOwned` and
`EnabledFileExists`, says that no lease has expired under its running worker.

`TaskQueueProofs` - the inductive invariant `IndInv` says that a task is in one
place.  `PlaceInv` lists, for each point of a call, where its task may be;
`WorkerInv` does the same for the worker; `QueueInv` says that the channel has
no repetitions and holds only accepted, waiting tasks with a record; `CountInv`
ties `taskCount` and `admissionSlots` to the sets they count.  None of the
properties is inductive alone: that a timed-out task never runs needs that the
channel holds accepted tasks only, which needs that a record exists before the
send.  From it: `TypeCorrect`, `CountExact`, `RefusedIsWithdrawn`,
`RecordsHaveOwners`, `AcceptedHasRecord`, `AdmissionIsBounded`, and
`QueueIsSerialExecutor`, the refinement, with one lemma per action that says
which step of the abstract executor it is.  The lemmas about appending to and
taking from a sequence without repetitions are stated once and cited.

`MaintenanceProofs` - the operation that holds the slot is the only one to
change the row, the files and its own copy of the window; the one exception is
the restart intention, which can only turn a window to "relocking" and makes
every later save of that operation fail (`StaleInv`).  So each control point
fixes what the row says (`LockInv`, `RowInv`) and what the files are (`FsInv`);
`VerifiedInv`, `CleanInv` and `AlertInv` add the history that three of the
properties need.  There is one lemma per action.  From it: `TypeCorrect`,
`StatusIsHonest`, `ReadyIsLocked`, `WindowsExcludeClaims`, `WindowsKeepRoot`,
`WindowIsVerified`, `AbsorbsOnlyClean`, `AlertsOnce` and the action property
`RelocksAreFinal`.

`MaintenancePasswordProofs` - two facts carry the rest.  The row remembers every
refusal that is still within the window, both as a failure that counts and as an
id that is not compared again (`Remembered`).  And a full window is frozen
(`FullIsFrozen`), by a freeze that ends no earlier than the failures it was set
for (`FreezeOutlives`), so that whoever is compared again finds room for one
more.  From it: `TypeCorrect`, `ReplaysAreNotCounted` and `RefusalsAreLimited`,
which counts refusals in every past span by the cardinality of a set; its lemmas
are about sets to which one element is added.

`WpUpdateProofs` - a task goes through its statuses in one direction.  `Moves`
says what any step may do to a task it does not plan; one lemma each shows that
such steps keep who owns a task (`OwnerInv`) and what plans and batch items say
of theirs (`PlanInv`, `OnceInv`, `ItemInv`).  So each process may rely on a
status nobody else takes away: a plan on `preparing`, the worker and a unit on
`running` or, after the sweep, `interrupted`, a request that rolls back on
`failed` (`UnitInv`).  That an ignored task is left alone and that no rollback
meets a writer are not inductive: the first needs that a claim exists on
undecided failures only, the second that a task with an active unit never
becomes failed.  A step of the worker is one of `WorkerEffect`, a step of a
request or of the environment one of `OutsideEffect`; plans and the batch have
lemmas of their own.  From it: `TypeCorrect`, `IgnoredStaysIgnored`,
`RollbackHasTheSite`, `ItemHasOneTask`, `BatchIsDecided` - also when tasks and
rollbacks overlap, which the run `wp_update` leaves out for size.

`WpUpdateSiteProofs` - the worker is alone with the site (`Solo`) as long as no
task has been shown to the administrator or nothing overlaps; then what one of
its steps has left is still so at the next (`StageInv`, `CalmInv`).  Once a task
is shown it stays so (`Seen`), which is why `DamageStaysInSight` needs no
hypothesis: damage that others may do comes with a task that was shown before.
For `OutcomesAreTrue`, all steps but `MarkSuccess` and `FinishAutomaticRollback`
are `Mild`: they claim nothing; these two come after `StageInv` has seen what
they claim.

`MigrationTargetProofs` - `DataInv` relates row, ledger, server and website.
What keeps it is what each process may rely on at its next step, and why the
others do not take it away, a different reason for each: the worker's assertions
(`WorkerInv`) hold because its lease keeps the others from the row, those of a
removal that has begun (`RemovalAt`) because a task that has ended stays ended,
those of an operation that has decided (`DecidingAt`) because nobody acts
before it does, which is the hypothesis.  From it: `TypeCorrect`,
`LedgerCoversAll`, `AbandonedLeavesNothing`, `ActivationIsAtomic`, the action
property `LiveSitesStay`, and `TargetKeepsItsPromise`: `PhaseTable` says what
`Phase` is in each group of states, and one lemma per action names the step of
`TargetTask`, or the stutter, that it is.  (With overlapping arms of `Phase`, as
they once were, that proof fails: an arm was chosen by its place.)

`SiteMigrationProofs` - two layers.  `TypeInv` has no hypothesis: besides types
it says which process may be at which step and (`HiddenInv`) that B has ended
its task before an abandonment goes on here, which no loss, delay or repetition
of a call can undo, because the phases of B in which nothing is shown and
nothing will be are never left.  From it `TypeCorrect` and
`TargetIsHiddenFirst`.  The second layer, under `~ScopeMayAge`, says which
of the link, the file and what nginx has loaded may differ at which step of a
freeze (`FrozenInv`), which status the website may have (`SiteInv`), and, while no
lease has lapsed, who owns the maintenance page (`OwnInv`).  `FreshInv` is the state
before a task is declared; without it a website marked as migrated could be
declared again.  `Over` - declared, and the lock no longer active - is the state
that nothing leaves: it lets a straggling worker or a late pause do harm no
more.  From it: `SiteIsFrozen`, `MaintenanceHasOwner`,
`FileIsThere`.  The proof needs no fact about B but `TargetTask`, which
`TargetKeepsItsPromise` justifies.  (The attempt showed that `LoadAbandon`, once
counted among the steps that rely on an older reading, repeats its reading, so
that the run excluded interleavings that the code allows; it no longer does.)

`SiteMigrationCopyProofs` - `CopyIsCurrent` has no hypothesis: others may act
between any reading and the statement that relies on it.  A copy becomes stale
when visitors reach the site, so the invariant says when they cannot: as long as
there is a copy of a task that owns the website, or of a site that has been moved
(`HideInv`: link and loaded configuration are not those of the site).  A freeze
starts without a copy and ends with the site hidden (`EmptyInv`, `MarkInv`); a
cancellation deletes the copy before it shows the site again (`EmptyInv`);
and while a task that looked at the lock before the migration was declared
enables a paused website, there is no link, without which no freeze starts
(`WaitInv`).  `Ended` and `Over` are states nothing leaves.
`CalmStep` and `PlainStep` handle every step that starts none of these, so the
lemmas of the actions deal only with what each of them starts.

The inductive invariants were checked by TLC on the instances of the runs, and
with two faults for `SiteMigration`, before they were proved.

**Only model-checked** are the liveness properties (`CallReturns`,
`AcceptedIsAnswered`, `WindowCloses`, `LatchClears`, `TaskIsSettled`,
`BatchEnds`, `EveryTaskEnds`): fairness and ENABLED are out of the prover's
reach.

## 6. Where the code and its words disagree

**`migration_stuck_cleanup`** (`site_migration_rollback.go:173`).  The
configuration stage publishes the ledger entry of the website record before the
health check and writes `target_site_id` only after it
(`site_migration_configure.go:226-238`).  When the health check fails the
ledger owns a record and the row names no site.  `validateWebsiteOwnership`
demands that the two agree, so every rollback - the automatic one, an abandon,
a delete - is refused with "target rollback website resource mismatch", while
`site_migration_rollback.go:256` says that the ledger remains authoritative.
TLC finds it with no request and no fault but the failed health check.

**`migration_stale_delete`** (`site_migration_task_cleanup.go:129`).
`deleteTargetTask` decides from a scope it read earlier whether the site is
already an ordinary one, and then calls the rollback with the permission to
remove an activated one.  A `Confirm` that commits in between is undone
together with the live website; the comment two lines above says that such a
website is never deleted there.

**`site_migration_interrupted`** (`site_migration_freeze.go:410`).  The freeze
records its intention - stage `source_freezing` and the resource - before it
swaps the link.  After a crash in between, recovery marks the task
`interrupted_unknown`: `Retry` does not take it up, and `AbandonSource` refuses
it because the link still points to the website and the stage is not
`cancelling`.  Neither abandonment nor deletion can release the lock on the
website, while `site_migration_workflow.go:171` says "Unknown external outcomes
must be abandoned instead."

**`wp_update_manual_rollback`** (`wp_update_store.go:877`).  A rollback ends with
`Finalize`, which writes the runner's journal through
`recordPluginRunnerJournal`; that accepts only a task with status `running`, and
a manual rollback works on one with status `failed`.  So a manual rollback whose
steps all went well is recorded as failed, needs attention, and leaves its
session and directory, on which the next attempt fails in `Prepare`; the comment
in `wp_plugin_batch_service.go:87` and the executor's test
(`wp_plugin_update_executor_test.go:279`, over a stub of `Finalize`) expect it
to succeed.

Observations that the model reaches and that contradict no statement found.

*The receiving panel*:

* a crash during an activation leaves the task running or
  `interrupted_unknown` in an activation stage; `RetryTarget` takes up only
  `failed_retryable` ones (`site_migration_cutover.go:293-294`), so nothing
  finishes it and what is left is the rollback;
* `recoverExpired` runs once, when the panel starts: a task in
  `awaiting_cutover` whose lease has not expired at that moment is not queued
  again (`site_migration_store.go:231-236`);
* deletion releases the lease in one transaction and forgets the row in a later
  one (`site_migration_task_cleanup.go:172-179`); a queued task can be claimed
  in between and loses its row while it runs;
* a worker that lost its lease goes on until it next looks, also after a
  rollback has reported that nothing is left;
* the retry path of `Create` (`prepareCreationRetry`,
  `site_migration_resources.go:216-242`) is never entered by the worker, which
  sends the stage `publishing` to the publisher.

*The sending panel*:

* with `ScopeMayAge = TRUE`, `FrozenWhileCopying`, `MaintenanceIsOwned` and
  `EnabledFileExists` fail (`DecidedCopyIsCurrent` does not: `CopyIsCurrent`).
  A pause that looked at the migration lock before the freeze took it removes
  the maintenance link (`website_tasks.go:744`); of two abandonments at once,
  the slower one may fail its reload and point the link back to a file the
  faster one removed (`site_migration_freeze.go:439`); a deletion with an old
  scope leaves a maintenance page without a task;
* while a task is being cancelled the link may dangle: the file is removed
  after the link was pointed back, and a crash can separate the two;
* deletion restores A first and ignores B's answer
  (`site_migration_task_cleanup.go:121`).  When B has everything, its worker may
  still bring the website up: `StoppedIsStopped`, defined in the module and part
  of no run, fails;
* `CompleteSource` marks the website as migrated without asking B for its state;
* requests in flight when nginx reloads gracefully may write after the freeze.

*Updates*:

* the backup a batch has fixed is validated again with the policy for a choice
  (`wp_plugin_update_artifacts.go:124`): once its task needs attention, has a
  failed rollback or is older than six hours, every later item fails in its
  backup;
* a failed task needs attention but does not occupy the site: with
  `Overlap = TRUE`, `OutcomeIsTrue` fails, since a manual rollback may run beside
  another task or restore a dump from before later updates
  (`wp_plugin_update_executor.go:273`), and the unit of a task that was
  interrupted and then ignored may still write;
* a restart during a download leaves the task in `preparing`; no recovery looks
  at it and it blocks the site (`wp_update_store.go:321`); `BatchEnds` excludes
  it by `Abandoned`;
* an interrupted task outside a batch cannot be disposed of, and blocks the site;
* the retry of a download that failed in a batch adopts the failed task instead;
* one candidate of each component type is taken over all sites: an observation
  that fails for one site keeps the others' tasks waiting
  (`wp_update_store.go:514-546`);
* a halted task that is ignored leaves the file lock off; the lease of a crashed
  rollback blocks `Ignore` until another rollback claims the task; a single
  update confirmed between the look at the site and the plan of an item fails
  the item for good.

## 7. What is not modelled

* *Planned* (section 2): pairing and the nonces of machine requests, the
  configuration writers, and the components after them.
* *Outside the reach of a model of this kind*: rendering of templates, parsing
  and aggregation of logs, pages and forms, the installer, translations: pure
  computation or input and output without shared state.
* *Abstracted inside the modelled parts*: real time (instants and ranks),
  passwords and hashes (model values), the permissions of single files (one
  value for the tree), the members of a resource kind, SQL errors outside the
  steps that the code treats specially.
