------------------------------ MODULE WpUpdate ------------------------------
(***************************************************************************)
(* Updates of one WordPress site: executor/wp_update_store.go (the tasks), *)
(* wp_core_update_worker.go (the worker and its sweep), the executors of   *)
(* the core and of a plugin, the batch of wp_plugin_batch.go and the       *)
(* decisions of wp_plugin_batch_service.go.                                *)
(*                                                                         *)
(* Concurrent: a request that confirms a single update, the worker, its    *)
(* sweep, the transient systemd unit a plugin is updated in (it outlives   *)
(* the panel), the batch orchestrator, the administrator's decisions and   *)
(* the requests that roll a failed batch task back.                        *)
(*                                                                         *)
(* A theme goes through the executor and the store like a plugin that is   *)
(* in no batch.  Reactivation after the update is part of the update: it   *)
(* fails the same way.  A lease is not a clock: the lease of a task is     *)
(* late when nobody renews it.                                             *)
(***************************************************************************)
EXTENDS Naturals, Sequences, FiniteSets

CONSTANTS
  BatchKeys,        \* the plugins of the batch, in the order of the request
  Singles,          \* the components an administrator updates on their own
  MaxTasks,         \* tasks that are ever created
  DispatchRetries,  \* wpPluginBatchMaxDispatchRetries
  Rollbacks,        \* concurrent requests to roll a task back
  Overlap,          \* whether the administrator lets two tasks work on the site
  MaxFaults,        \* steps that go wrong
  MaxCrashes        \* restarts of the panel

Plugins == {BatchKeys[i] : i \in 1..Len(BatchKeys)}
Components == {"core"} \cup Plugins
Tasks == 1..MaxTasks
NoTask == 0

ASSUME BatchAssumption ==
  /\ BatchKeys \in Seq(Plugins) /\ Plugins # {}
  /\ "core" \notin Plugins /\ Singles \subseteq Components
ASSUME OwnerAssumption == {"none", "worker", "gone"} \cap Rollbacks = {}
ASSUME BoundsAssumption ==
  MaxTasks \in Nat /\ DispatchRetries \in Nat /\ MaxFaults \in Nat /\ MaxCrashes \in Nat
  /\ Overlap \in BOOLEAN

VARIABLES
  task,     \* wp_update_tasks
  batch,    \* wp_update_batches: status and database_backup_source_id
  item,     \* wp_update_batch_items of each plugin
  site,     \* the files of each component, the plugins the database was migrated for, lock and maintenance
  units,    \* the tasks whose transient unit is active
  dirs,     \* tasks whose runtime directory exists
  worker,   \* the goroutine of runOwned
  request,  \* the request that confirms a single update: the task it downloads for
  batcher,  \* the orchestrator, under the lock of the batch
  roller,   \* the requests of Rollback
  alone,    \* history: nobody else has been at the site since the worker claimed its task
  faults, crashes

vars == <<task, batch, item, site, units, dirs, worker, request, batcher, roller, alone, faults, crashes>>
budget == <<faults, crashes>>

Absent == [status |-> "none", comp |-> "core", batch |-> FALSE, source |-> NoTask, ready |-> FALSE,
           db |-> {}, files |-> "old", failure |-> "none", rollback |-> "not_required", attention |-> FALSE,
           disposition |-> "none", owner |-> "none"]
Resting == [pc |-> "idle", task |-> NoTask, cancelled |-> FALSE, bad |-> FALSE]
NotDispatched == [status |-> "none", task |-> NoTask, tries |-> 0]

TaskRecords ==
  [status : {"none", "preparing", "queued", "running", "success", "failed", "interrupted"},
   comp : Components, batch : BOOLEAN, source : {NoTask} \cup Tasks, ready : BOOLEAN,
   db : SUBSET Components, files : {"old", "partial", "new"},
   failure : {"none", "package", "precheck", "backup", "unlock", "update", "health", "lock"},
   rollback : {"not_required", "pending", "success", "failed"}, attention : BOOLEAN,
   disposition : {"none", "rolled_back", "ignored", "escalated"},
   owner : {"none", "worker", "gone"} \cup Rollbacks]
BatchRecords == [status : {"none", "running", "completed"}, source : {NoTask} \cup Tasks]
ItemRecords == [status : {"none", "pending", "dispatched", "failed"}, task : {NoTask} \cup Tasks,
                tries : 0..DispatchRetries]
BatcherRecords == [pc : {"idle", "preview", "download", "mark"}, key : Plugins, task : {NoTask} \cup Tasks]
SiteRecords == [files : [Components -> {"old", "partial", "new"}], db : SUBSET Components,
                locked : BOOLEAN, maintenance : BOOLEAN]
RollbackSteps == {"roll_maintenance", "roll_db", "roll_files", "roll_reopen", "roll_lock"}
RunRecords == [pc : RollbackSteps \cup {"idle", "backup", "prepare", "unlock", "keep", "apply", "applying", "health",
                                        "relock", "finish", "roll_finish", "returned"},
               task : {NoTask} \cup Tasks, cancelled : BOOLEAN, bad : BOOLEAN]

TaskTypes  == task \in [Tasks -> TaskRecords]
BatchTypes == batch \in BatchRecords /\ item \in [Plugins -> ItemRecords] /\ batcher \in BatcherRecords
SiteTypes  == site \in SiteRecords /\ units \subseteq Tasks /\ dirs \subseteq Tasks
RunTypes   == worker \in RunRecords /\ roller \in [Rollbacks -> RunRecords] /\ request \in {NoTask} \cup Tasks
BoundTypes == faults \in 0..MaxFaults /\ crashes \in 0..MaxCrashes

StateTypes == TaskTypes /\ BatchTypes /\ SiteTypes /\ RunTypes /\ BoundTypes
TypeOK == StateTypes /\ alone \in BOOLEAN

Init ==
  /\ task = [t \in Tasks |-> Absent]
  /\ batch = [status |-> "none", source |-> NoTask]
  /\ item = [p \in Plugins |-> NotDispatched]
  /\ site = [files |-> [c \in Components |-> "old"], db |-> {}, locked |-> TRUE, maintenance |-> FALSE]
  /\ units = {} /\ dirs = {}
  /\ worker = Resting
  /\ request = NoTask
  /\ batcher = [pc |-> "idle", key |-> BatchKeys[1], task |-> NoTask]
  /\ roller = [r \in Rollbacks |-> Resting]
  /\ alone = TRUE
  /\ faults = 0 /\ crashes = 0

Fault == faults < MaxFaults /\ faults' = faults + 1 /\ UNCHANGED crashes
(* a step that may go well, or wrong at the price of a fault *)
MayFail(ok) == \/ ok /\ UNCHANGED budget
               \/ ~ok /\ Fault

-----------------------------------------------------------------------------
(* Plans.  The candidates come from the inventory, which may be older than *)
(* the files, so any component can be planned; the claim compares versions.*)

Undisposed(t) == task[t].status = "interrupted" /\ task[t].disposition = "none"
SiteHasBlockingTask ==
  \E t \in Tasks : task[t].status \in {"preparing", "queued", "running"} \/ Undisposed(t)

Unused == {t \in Tasks : task[t].status = "none"}
NextId == CHOOSE t \in Unused : \A u \in Unused : t <= u

CreatePlan(t, c, inBatch, source) ==
  task' = [task EXCEPT ![t] = [Absent EXCEPT !.status = "preparing", !.comp = c, !.batch = inBatch, !.source = source]]

(* the bound on the tasks must not stop a batch *)
ReservedForBatch == Len(BatchKeys) - Cardinality({t \in Tasks : task[t].batch})

ValidateDatabaseBackupChoice(source) ==
  task[source].ready /\ ~task[source].attention /\ task[source].rollback # "failed"

(* backupMode: a fresh backup of the database (NoTask), or the one that the *)
(* preview offered is used again                                           *)
BackupChoices ==
  {NoTask} \cup {s \in Tasks : task[s].source = s /\ ValidateDatabaseBackupChoice(s)}

Confirm(c) ==
  /\ request = NoTask /\ ~SiteHasBlockingTask /\ Unused # {} /\ Cardinality(Unused) > ReservedForBatch
  /\ \E source \in BackupChoices : CreatePlan(NextId, c, FALSE, source)
  /\ request' = NextId
  /\ UNCHANGED <<batch, item, site, units, dirs, worker, batcher, roller, alone, budget>>

SealPlan(t) == task' = [task EXCEPT ![t].status = "queued"]
FailPreparingPlan(t) == task' = [task EXCEPT ![t].status = "failed", ![t].failure = "package"]

Download ==
  /\ request # NoTask
  /\ \/ SealPlan(request) /\ UNCHANGED budget
     \/ FailPreparingPlan(request) /\ Fault
  /\ request' = NoTask
  /\ UNCHANGED <<batch, item, site, units, dirs, worker, batcher, roller, alone>>

-----------------------------------------------------------------------------
(* The batch. *)

CreatePluginBatch ==
  /\ batch.status = "none" /\ ~SiteHasBlockingTask
  /\ batch' = [batch EXCEPT !.status = "running"]
  /\ item' = [p \in Plugins |-> [NotDispatched EXCEPT !.status = "pending"]]
  /\ UNCHANGED <<task, site, units, dirs, worker, request, batcher, roller, alone, budget>>

Pending == {i \in 1..Len(BatchKeys) : item[BatchKeys[i]].status = "pending"}
NextPending == BatchKeys[CHOOSE i \in Pending : \A j \in Pending : i <= j]
ExistingTasks(p) == {t \in Tasks : task[t].status # "none" /\ task[t].batch /\ task[t].comp = p}

Unresolved(t) ==
  \/ task[t].status \in {"preparing", "queued", "running"}
  \/ Undisposed(t)
  \/ task[t].status = "failed" /\ task[t].attention

CompleteBatchWhenDispatched ==
  /\ batcher.pc = "idle" /\ batch.status = "running" /\ Pending = {}
  /\ batch' = [batch EXCEPT !.status = "completed"]
  /\ UNCHANGED <<task, item, site, units, dirs, worker, request, batcher, roller, alone, budget>>
CompleteBatchIfExhausted ==
  /\ batcher.pc = "idle" /\ batch.status = "running" /\ Pending = {}
  /\ \A p \in Plugins : item[p].status = "dispatched" => ~Unresolved(item[p].task)
  /\ batch' = [batch EXCEPT !.status = "completed"]
  /\ UNCHANGED <<task, item, site, units, dirs, worker, request, batcher, roller, alone, budget>>

(* the task of an item whose dispatch was not recorded *)
AdoptExistingTask ==
  /\ batcher.pc = "idle" /\ batch.status = "running" /\ Pending # {}
  /\ \E t \in ExistingTasks(NextPending) :
       item' = [item EXCEPT ![NextPending].status = "dispatched", ![NextPending].task = t]
  /\ UNCHANGED <<task, batch, site, units, dirs, worker, request, batcher, roller, alone, budget>>

StartDispatchAgain ==
  /\ batcher.pc = "idle" /\ batch.status = "running" /\ Pending # {} /\ ~SiteHasBlockingTask
  /\ batcher' = [batcher EXCEPT !.pc = "preview", !.key = NextPending]
  /\ UNCHANGED <<task, batch, item, site, units, dirs, worker, request, roller, alone, budget>>
StartDispatch ==
  /\ batcher.pc = "idle" /\ batch.status = "running" /\ Pending # {}
  /\ ExistingTasks(NextPending) = {} /\ ~SiteHasBlockingTask
  /\ batcher' = [batcher EXCEPT !.pc = "preview", !.key = NextPending]
  /\ UNCHANGED <<task, batch, item, site, units, dirs, worker, request, roller, alone, budget>>

MarkBatchItemFailed(p) == item' = [item EXCEPT ![p].status = "failed"]
RejectBatchItemAlwaysRetries(p, retryable) ==
  IF retryable THEN item' = [item EXCEPT ![p].tries = @ + 1] ELSE MarkBatchItemFailed(p)
RejectBatchItem(p, retryable) ==
  IF retryable /\ item[p].tries < DispatchRetries
  THEN item' = [item EXCEPT ![p].tries = @ + 1]
  ELSE MarkBatchItemFailed(p)

PreviewFails ==
  /\ batcher.pc = "preview" /\ Fault
  /\ \E retryable \in BOOLEAN : RejectBatchItem(batcher.key, retryable)
  /\ batcher' = [batcher EXCEPT !.pc = "idle"]
  /\ UNCHANGED <<task, batch, site, units, dirs, worker, request, roller, alone>>

(* the first item, in the order of the batch, that has a database backup *)
BackedUp == {i \in 1..Len(BatchKeys) :
               LET t == item[BatchKeys[i]].task IN t # NoTask /\ task[t].ready /\ task[t].source = t}
FirstBackup == item[BatchKeys[CHOOSE i \in BackedUp : \A j \in BackedUp : i <= j]].task
EnsureBatchDatabaseBackupSource ==
  IF batch.source # NoTask \/ BackedUp = {} THEN batch.source ELSE FirstBackup

(* a plan of another request may have come first: then the item has failed for good *)
ConfirmForBatch ==
  /\ batcher.pc = "preview" /\ Unused # {}
  /\ batch' = [batch EXCEPT !.source = EnsureBatchDatabaseBackupSource]
  /\ IF SiteHasBlockingTask
     THEN /\ RejectBatchItem(batcher.key, FALSE)
          /\ batcher' = [batcher EXCEPT !.pc = "idle"]
          /\ UNCHANGED task
     ELSE /\ CreatePlan(NextId, batcher.key, TRUE, batch'.source)
          /\ batcher' = [batcher EXCEPT !.pc = "download", !.task = NextId]
          /\ UNCHANGED item
  /\ UNCHANGED <<site, units, dirs, worker, request, roller, alone, budget>>

DownloadForBatch ==
  /\ batcher.pc = "download"
  /\ \/ SealPlan(batcher.task) /\ batcher' = [batcher EXCEPT !.pc = "mark"] /\ UNCHANGED <<item, budget>>
     \/ /\ FailPreparingPlan(batcher.task) /\ Fault
        /\ RejectBatchItem(batcher.key, TRUE)
        /\ batcher' = [batcher EXCEPT !.pc = "idle", !.task = NoTask]
  /\ UNCHANGED <<batch, site, units, dirs, worker, request, roller, alone>>

MarkBatchItemDispatched ==
  /\ batcher.pc = "mark"
  /\ item' = [item EXCEPT ![batcher.key].status = "dispatched", ![batcher.key].task = batcher.task]
  /\ batcher' = [batcher EXCEPT !.pc = "idle", !.task = NoTask]
  /\ UNCHANGED <<task, batch, site, units, dirs, worker, request, roller, alone, budget>>

-----------------------------------------------------------------------------
(* The worker: one task at a time. *)

W == worker.task
IsCore(t) == task[t].comp = "core"
Owned(t) == task[t].status = "running" /\ task[t].owner = "worker"
At(pc) == worker.pc = pc
Goto(pc) == worker' = [worker EXCEPT !.pc = pc]

(* markSuccess, markFailure, interruptOwned and the two ends of a rollback *)
Finished(t, status) == [task[t] EXCEPT !.status = status, !.owner = "none"]
MarkFailureQuietly(t, why, attention) ==
  task' = [task EXCEPT ![t] = [Finished(t, "failed") EXCEPT !.failure = why]]
MarkFailure(t, why, attention) ==
  task' = [task EXCEPT ![t] = [Finished(t, "failed") EXCEPT !.failure = why, !.attention = attention]]
InterruptOwned(t) ==
  task' = [task EXCEPT ![t] = [Finished(t, "interrupted") EXCEPT !.attention = TRUE]]

(* the core's store calls carry the context of the run, a plugin's do not *)
CanRecord == Owned(W) /\ (IsCore(W) => ~worker.cancelled)

(* The code does not exclude that a task runs while another one is rolled  *)
(* back, or while the unit of one the administrator has ignored goes on;   *)
(* without Overlap the administrator waits.                                *)
NobodyElse(t) ==
  Overlap \/ (W \in {NoTask, t} /\ units = {} /\ \A r \in Rollbacks : roller[r].task \in {NoTask, t})

Claim ==
  /\ At("idle")
  /\ \E t \in Tasks :
       /\ task[t].status = "queued" /\ NobodyElse(t)
       /\ \/ /\ site.files[task[t].comp] # "new"
             /\ task' = [task EXCEPT ![t].status = "running", ![t].owner = "worker"]
             /\ worker' = [Resting EXCEPT !.pc = "backup", !.task = t]
             /\ alone' = (units = {} /\ \A r \in Rollbacks : roller[r].pc = "idle")
          \/ /\ site.files[task[t].comp] # "old"
             /\ MarkFailure(t, "precheck", FALSE)
             /\ UNCHANGED <<worker, alone>>
  /\ UNCHANGED <<batch, item, site, units, dirs, request, batcher, roller, budget>>

PrepareBackups ==
  /\ At("backup")
  /\ LET fresh == task[W].source = NoTask
         usable == IF fresh THEN TRUE ELSE ValidateDatabaseBackupChoice(task[W].source)
     IN \/ /\ usable /\ Owned(W) /\ UNCHANGED budget
           /\ task' = [task EXCEPT ![W].ready = TRUE, ![W].files = site.files[task[W].comp],
                                   ![W].db = IF fresh THEN site.db ELSE {}, ![W].source = IF fresh THEN W ELSE @]
           /\ Goto("prepare")
        \/ /\ IF usable /\ Owned(W) THEN Fault ELSE UNCHANGED budget
           /\ IF worker.cancelled \/ ~Owned(W) THEN UNCHANGED task ELSE MarkFailure(W, "backup", FALSE)
           /\ Goto("returned")
  /\ UNCHANGED <<batch, item, site, units, dirs, request, batcher, roller, alone>>

(* ops.Prepare and the step to "unlocking" *)
PrepareUpdate ==
  /\ At("prepare")
  /\ \/ /\ ~worker.cancelled /\ UNCHANGED budget
        /\ dirs' = IF IsCore(W) THEN dirs ELSE dirs \cup {W}
        /\ Goto(IF Owned(W) THEN "unlock" ELSE "returned")
        /\ UNCHANGED task
     \/ /\ IF worker.cancelled THEN UNCHANGED budget ELSE Fault
        /\ IF CanRecord THEN MarkFailure(W, "precheck", FALSE) ELSE UNCHANGED task
        /\ Goto("returned")
        /\ UNCHANGED dirs
  /\ UNCHANGED <<batch, item, site, units, request, batcher, roller, alone>>

(* stage: the core restores the lock when it cannot record the next stage, *)
(* a plugin's run that was cancelled records it and interrupts its task    *)
Advance(next, s) ==
  IF CanRecord /\ ~worker.cancelled
  THEN /\ Goto(next) /\ site' = s /\ UNCHANGED <<task, budget>>
  ELSE /\ Goto("returned")
       /\ IF Owned(W) /\ ~IsCore(W) THEN InterruptOwned(W) ELSE UNCHANGED task
       /\ \/ IsCore(W) /\ site' = [s EXCEPT !.locked = TRUE] /\ UNCHANGED budget
          \/ IsCore(W) /\ site' = s /\ Fault
          \/ ~IsCore(W) /\ site' = s /\ UNCHANGED budget

Unlock ==
  /\ At("unlock")
  /\ \/ Advance("apply", [site EXCEPT !.locked = FALSE])
     \/ /\ IF IsCore(W) /\ worker.cancelled THEN UNCHANGED budget ELSE Fault
        /\ Goto("keep")
        /\ \E l \in BOOLEAN : site' = [site EXCEPT !.locked = l]
        /\ UNCHANGED task
  /\ UNCHANGED <<batch, item, units, dirs, request, batcher, roller, alone>>

(* failBeforeCoreWrite, failBeforePluginWrite *)
FailBeforeWrite ==
  /\ At("keep")
  /\ IF ~IsCore(W) /\ ~Owned(W)
     THEN UNCHANGED <<task, site, dirs, budget>>
     ELSE \E restored \in BOOLEAN :
            /\ MayFail(restored)
            /\ site' = IF restored THEN [site EXCEPT !.locked = TRUE] ELSE site
            /\ IF CanRecord THEN MarkFailure(W, "unlock", ~restored) ELSE UNCHANGED task
            /\ dirs' = IF restored THEN dirs \ {W} ELSE dirs
  /\ Goto("returned")
  /\ UNCHANGED <<batch, item, units, request, batcher, roller, alone>>

Written(c, level, migrated) ==
  [site EXCEPT !.files[c] = level, !.db = IF migrated THEN @ \cup {c} ELSE @]

(* A plugin is updated by a transient unit.  It can only write while the   *)
(* files are unlocked.                                                     *)
StartApply ==
  /\ At("apply")
  /\ units' = IF IsCore(W) THEN units ELSE units \cup {W}
  /\ site' = IF site.locked THEN site ELSE Written(task[W].comp, "partial", FALSE)
  /\ Goto("applying")
  /\ UNCHANGED <<task, batch, item, dirs, request, batcher, roller, alone, budget>>

BeginAutomaticRollback(why) ==
  IF CanRecord
  THEN /\ task' = [task EXCEPT ![W].rollback = "pending", ![W].failure = why]
       /\ Goto("roll_maintenance")
       /\ UNCHANGED dirs
  ELSE Goto("returned") /\ UNCHANGED <<task, dirs>>
(* Finalize comes first: when the journal of the runner cannot be written, *)
(* as also before the end of a success, the task is interrupted.           *)
HaltForManualRollback(why) ==
  /\ Goto("returned")
  /\ \/ /\ Owned(W)
        /\ task' = [task EXCEPT ![W] = [Finished(W, "failed") EXCEPT !.rollback = "pending", !.failure = why,
                                                                     !.attention = TRUE]]
        /\ dirs' = dirs \ {W}
     \/ UNCHANGED <<task, dirs>>
RollbackOrHalt(why) == IF task[W].batch THEN HaltForManualRollback(why) ELSE BeginAutomaticRollback(why)

Apply ==
  /\ At("applying") /\ (~IsCore(W) => W \in units)
  /\ units' = units \ {W}
  /\ LET c == task[W].comp
         writable == site.files[c] = "partial" /\ ~site.locked
     IN \/ writable /\ Advance("health", Written(c, "new", TRUE)) /\ UNCHANGED dirs
        \/ /\ IF writable /\ ~worker.cancelled THEN Fault ELSE UNCHANGED budget
           /\ \E migrated \in BOOLEAN : site' = Written(c, site.files[c], migrated)
           /\ RollbackOrHalt("update")
  /\ UNCHANGED <<batch, item, request, batcher, roller, alone>>

UnitEndsAlone ==
  /\ \E t \in units :
       /\ ~(At("applying") /\ W = t)
       /\ units' = units \ {t}
       /\ \/ /\ site.files[task[t].comp] = "partial" /\ ~site.locked
             /\ site' = Written(task[t].comp, "new", TRUE)
          \/ UNCHANGED site
  /\ UNCHANGED <<task, batch, item, dirs, worker, request, batcher, roller, alone, budget>>

CheckTargetHealth ==
  /\ At("health")
  /\ LET good == site.files[task[W].comp] = "new" /\ ~site.maintenance
     IN \/ good /\ Advance("relock", site) /\ UNCHANGED dirs
        \/ /\ IF good THEN Fault ELSE UNCHANGED budget
           /\ RollbackOrHalt("health") /\ UNCHANGED site
  /\ UNCHANGED <<batch, item, units, request, batcher, roller, alone>>

RestoreFileLockIgnored ==
  /\ At("relock")
  /\ \/ site' = [site EXCEPT !.locked = TRUE] /\ UNCHANGED budget
     \/ Fault /\ UNCHANGED site
  /\ Goto("finish")
  /\ UNCHANGED <<task, batch, item, units, dirs, request, batcher, roller, alone>>
RestoreFileLock ==
  /\ At("relock")
  /\ \/ site' = [site EXCEPT !.locked = TRUE] /\ Goto("finish") /\ UNCHANGED <<task, dirs, budget>>
     \/ Fault /\ RollbackOrHalt("lock") /\ UNCHANGED site
  /\ UNCHANGED <<batch, item, units, request, batcher, roller, alone>>

MarkSuccess ==
  /\ At("finish")
  /\ \/ /\ CanRecord
        /\ task' = [task EXCEPT ![W] = Finished(W, "success")]
        /\ dirs' = dirs \ {W}
     \/ (IsCore(W) => ~CanRecord) /\ UNCHANGED <<task, dirs>>
  /\ Goto("returned")
  /\ UNCHANGED <<batch, item, site, units, request, batcher, roller, alone, budget>>

-----------------------------------------------------------------------------
(* The rollback sequence, run by the worker on a running task and by a     *)
(* request on a failed one.  A step leads to a new site and may go wrong;  *)
(* the site is only shown again when nothing has.                          *)

StepAfter(pc) ==
  CASE pc = "roll_maintenance" -> "roll_db"     [] pc = "roll_db"   -> "roll_files"
    [] pc = "roll_files"       -> "roll_reopen" [] pc = "roll_reopen" -> "roll_lock"
    [] pc = "roll_lock"        -> "roll_finish"
RollingBack(p) == p.pc \in RollbackSteps

StepDone(p) ==
  LET t == p.task
      c == task[t].comp
  IN CASE p.pc = "roll_maintenance" -> [site EXCEPT !.maintenance = TRUE]
       [] p.pc = "roll_db" -> IF task[t].source = t THEN [site EXCEPT !.db = task[t].db] ELSE site
       [] p.pc = "roll_files" -> [site EXCEPT !.files[c] = task[t].files]
       [] p.pc = "roll_reopen" -> IF p.bad THEN site ELSE [site EXCEPT !.maintenance = FALSE]
       [] p.pc = "roll_lock" -> [site EXCEPT !.locked = TRUE]

(* CheckRollbackHealth comes with the reopening: the version must be the old one *)
Unhealthy(p, bad) ==
  p.pc = "roll_reopen" /\ ~p.bad /\ LET now == site.files[task[p.task].comp]
                                   IN now = "new" \/ (now = "partial" /\ bad)
StepGoes(p, bad) ==
  /\ bad = (p.bad \/ Unhealthy(p, bad))
  /\ site' = StepDone(p) /\ UNCHANGED budget
StepFails(p, bad) ==
  /\ bad /\ Fault /\ ~(p.pc = "roll_reopen" /\ p.bad)
  /\ site' \in {site} \cup (IF p.pc = "roll_reopen" THEN {StepDone(p)} ELSE {})
                        \cup (IF p.pc = "roll_files" THEN {Written(task[p.task].comp, "partial", FALSE)} ELSE {})
RollbackStep(p, bad) == StepGoes(p, bad) \/ StepFails(p, bad)

AutomaticRollback ==
  /\ RollingBack(worker)
  /\ IF IsCore(W) \/ Owned(W)
     THEN \E bad \in BOOLEAN : /\ RollbackStep(worker, bad)
                              /\ worker' = [worker EXCEPT !.pc = StepAfter(@), !.bad = bad]
     ELSE Goto("returned") /\ UNCHANGED <<site, budget>>
  /\ UNCHANGED <<task, batch, item, units, dirs, request, batcher, roller, alone>>

FinishAutomaticRollback ==
  /\ At("roll_finish")
  /\ \E bad \in {worker.bad} \cup (IF IsCore(W) THEN {} ELSE {TRUE}) :
       /\ task' = IF CanRecord
                  THEN [task EXCEPT ![W] = [Finished(W, "failed") EXCEPT !.rollback = IF bad THEN "failed" ELSE "success",
                                                                         !.attention = bad]]
                  ELSE task
       /\ dirs' = IF bad THEN dirs ELSE dirs \ {W}
  /\ Goto("returned")
  /\ UNCHANGED <<batch, item, site, units, request, batcher, roller, alone, budget>>

ForgetTask ==
  /\ At("returned")
  /\ worker' = Resting
  /\ UNCHANGED <<task, batch, item, site, units, dirs, request, batcher, roller, alone, budget>>
(* The supervision of a unit is lost: the one that updates goes on, the    *)
(* ones that observe and check only read.                                  *)
SupervisionUncertainRollsBack ==
  /\ At("applying") /\ W \in units /\ Fault
  /\ RollbackOrHalt("update")
  /\ UNCHANGED <<batch, item, site, units, request, batcher, roller, alone>>
SupervisionUncertain ==
  /\ W # NoTask /\ ~IsCore(W) /\ Fault
  /\ \/ At("prepare") /\ dirs' = dirs \cup {W} /\ UNCHANGED site
     \/ (At("applying") \/ At("health")) /\ UNCHANGED <<site, dirs>>
     \/ At("roll_reopen") /\ ~worker.bad /\ site' = StepDone(worker) /\ UNCHANGED dirs
  /\ IF Owned(W) THEN InterruptOwned(W) ELSE UNCHANGED task
  /\ Goto("returned")
  /\ UNCHANGED <<batch, item, units, request, batcher, roller, alone>>

(* interruptIfOwned, after every return of an executor *)
InterruptIfOwned ==
  /\ At("returned")
  /\ IF Owned(W) THEN InterruptOwned(W) ELSE UNCHANGED task
  /\ worker' = Resting
  /\ UNCHANGED <<batch, item, site, units, dirs, request, batcher, roller, alone, budget>>

(* a heartbeat fails or the panel is told to stop: the run is cancelled and awaited *)
HeartbeatFails ==
  /\ worker.pc \notin {"idle", "returned"} /\ ~worker.cancelled /\ Fault
  /\ worker' = [worker EXCEPT !.cancelled = TRUE]
  /\ UNCHANGED <<task, batch, item, site, units, dirs, request, batcher, roller, alone>>

-----------------------------------------------------------------------------
(* Recovery: the sweep looks at late leases, a restart at every running    *)
(* task; a plugin's only once its unit is not active.                      *)

LateOfThisWorker(t) == Owned(t) /\ W = t /\ worker.cancelled
Late(t) == task[t].owner = "gone" \/ (Owned(t) /\ W = t /\ worker.cancelled)
Recoverable(t) == task[t].status = "running" /\ t \notin units

RecoverExpired ==
  /\ \E t \in Tasks : Late(t) /\ Recoverable(t) /\ InterruptOwned(t)
  /\ UNCHANGED <<batch, item, site, units, dirs, worker, request, batcher, roller, alone, budget>>

Restart ==
  /\ crashes < MaxCrashes /\ crashes' = crashes + 1
  /\ task' = [t \in Tasks |->
                IF Recoverable(t) THEN [Finished(t, "interrupted") EXCEPT !.attention = TRUE]
                ELSE IF task[t].owner # "none" THEN [task[t] EXCEPT !.owner = "gone"] ELSE task[t]]
  /\ worker' = Resting /\ request' = NoTask
  /\ batcher' = [batcher EXCEPT !.pc = "idle", !.task = NoTask]
  /\ roller' = [r \in Rollbacks |-> Resting]
  /\ UNCHANGED <<batch, item, site, units, dirs, alone, faults>>

-----------------------------------------------------------------------------
(* The decisions on a failed task of a batch. *)

Decidable(t) ==
  task[t].batch /\ task[t].status = "failed" /\ task[t].attention /\ task[t].disposition = "none"

BeginManualRollback(r) ==
  /\ roller[r].pc = "idle"
  /\ \E t \in Tasks : /\ Decidable(t) /\ task[t].owner \in {"none", "gone"} /\ NobodyElse(t)
                      /\ task' = [task EXCEPT ![t].owner = r]
                      /\ roller' = [roller EXCEPT ![r] = [Resting EXCEPT !.pc = "prepare", !.task = t]]
  /\ alone' = FALSE
  /\ UNCHANGED <<batch, item, site, units, dirs, worker, request, batcher, budget>>

Holds(r) == task[roller[r].task].status = "failed" /\ task[roller[r].task].owner = r

(* Prepare makes the runtime directory: it must not be there.  When it     *)
(* fails the claim is given up.                                            *)
PrepareManualRollback(r) ==
  /\ roller[r].pc = "prepare"
  /\ LET t == roller[r].task
     IN \/ /\ t \notin dirs /\ UNCHANGED <<task, budget>>
           /\ dirs' = dirs \cup {t}
           /\ roller' = [roller EXCEPT ![r].pc = "roll_maintenance"]
        \/ /\ IF t \in dirs THEN UNCHANGED budget ELSE Fault
           /\ task' = IF Holds(r) THEN [task EXCEPT ![t].owner = "none"] ELSE task
           /\ roller' = [roller EXCEPT ![r] = Resting]
           /\ UNCHANGED dirs
  /\ UNCHANGED <<batch, item, site, units, worker, request, batcher, alone>>

ManualRollback(r) ==
  /\ RollingBack(roller[r])
  /\ IF Holds(r)
     THEN \E bad \in BOOLEAN : /\ RollbackStep(roller[r], bad)
                              /\ roller' = [roller EXCEPT ![r].pc = StepAfter(@), ![r].bad = bad]
     ELSE roller' = [roller EXCEPT ![r] = Resting] /\ UNCHANGED <<site, budget>>
  /\ UNCHANGED <<task, batch, item, units, dirs, worker, request, batcher, alone>>

(* Finalize writes the journal of the runner, which the store accepts of a *)
(* running task only: with it a rollback that went well has failed, and    *)
(* the session, with its directory, stays.                                 *)
FinalizeFails(t) == task[t].status # "running"

FinishManualRollback(r) ==
  /\ roller[r].pc = "roll_finish"
  /\ LET t == roller[r].task
         bad == roller[r].bad \/ FinalizeFails(t)
     IN /\ task' = IF ~Holds(r) THEN task
                   ELSE [task EXCEPT ![t].owner = "none", ![t].attention = bad,
                                     ![t].rollback = IF bad THEN "failed" ELSE "success",
                                     ![t].disposition = IF bad THEN "none" ELSE "rolled_back"]
        /\ dirs' = IF bad THEN dirs ELSE dirs \ {t}
  /\ roller' = [roller EXCEPT ![r] = Resting]
  /\ UNCHANGED <<batch, item, site, units, worker, request, batcher, alone, budget>>

(* the heartbeats and renewals of a rollback fail for as long as a lease *)
ClaimExpires(r) ==
  /\ roller[r].pc # "idle" /\ Holds(r) /\ Fault
  /\ task' = [task EXCEPT ![roller[r].task].owner = "gone"]
  /\ UNCHANGED <<batch, item, site, units, dirs, worker, request, batcher, roller, alone>>

DisposeFailedTaskIgnoredClaimed(t) ==
  /\ Decidable(t)
  /\ task' = [task EXCEPT ![t].disposition = "ignored", ![t].attention = FALSE]
DisposeFailedTaskIgnored(t) ==
  /\ Decidable(t) /\ task[t].owner = "none"
  /\ task' = [task EXCEPT ![t].disposition = "ignored", ![t].attention = FALSE]

DisposeInterrupted(t) ==
  /\ task[t].batch /\ Undisposed(t)
  /\ task' = [task EXCEPT ![t].disposition = "escalated"]

Ignore ==
  /\ \E t \in Tasks : DisposeFailedTaskIgnored(t) \/ DisposeInterrupted(t)
  /\ UNCHANGED <<batch, item, site, units, dirs, worker, request, batcher, roller, alone, budget>>

-----------------------------------------------------------------------------
BatchStep ==
  \/ CompleteBatchIfExhausted \/ AdoptExistingTask \/ StartDispatch \/ PreviewFails
  \/ ConfirmForBatch \/ DownloadForBatch \/ MarkBatchItemDispatched
WorkerStep ==
  \/ Claim \/ PrepareBackups \/ PrepareUpdate \/ Unlock \/ FailBeforeWrite \/ StartApply \/ Apply
  \/ SupervisionUncertain \/ CheckTargetHealth \/ RestoreFileLock \/ MarkSuccess
  \/ AutomaticRollback \/ FinishAutomaticRollback \/ InterruptIfOwned
RollbackRequest(r) ==
  \/ PrepareManualRollback(r) \/ ManualRollback(r) \/ FinishManualRollback(r)

Next ==
  \/ \E c \in Singles : Confirm(c)
  \/ CreatePluginBatch \/ Ignore \/ \E r \in Rollbacks : BeginManualRollback(r)
  \/ Download \/ BatchStep \/ WorkerStep \/ UnitEndsAlone \/ RecoverExpired
  \/ \E r \in Rollbacks : RollbackRequest(r)
  \/ HeartbeatFails \/ Restart \/ \E r \in Rollbacks : ClaimExpires(r)

(* The worker polls, the sweep ticks, a unit has RuntimeMaxSec, a request  *)
(* runs to its end; nobody has to decide anything.                         *)
Fairness ==
  /\ WF_vars(Download) /\ WF_vars(BatchStep) /\ WF_vars(WorkerStep)
  /\ WF_vars(UnitEndsAlone) /\ WF_vars(RecoverExpired)
  /\ \A r \in Rollbacks : WF_vars(RollbackRequest(r))

Spec == Init /\ [][Next]_vars
FairSpec == Spec /\ Fairness

-----------------------------------------------------------------------------
(* Properties *)

(* What a task says of the site is so, unless somebody else has been at it *)
(* since the claim: a success left the new version and the files locked; a *)
(* rollback that succeeded left the files of before, no maintenance page   *)
(* and the files locked, and the database of before if the task has made a *)
(* backup of it (one that uses the backup of another task restores none).  *)
Succeeds(t) == task[t].status # "success" /\ task'[t].status = "success"
RolledBack(t) == task[t].rollback # "success" /\ task'[t].rollback = "success"
OutcomeIsTrue ==
  [][alone => \A t \in Tasks :
       /\ Succeeds(t) => site'.files[task[t].comp] = "new" /\ site'.locked
       /\ RolledBack(t) => /\ site'.files[task[t].comp] = task[t].files
                          /\ (task[t].source = t => site'.db = task[t].db)
                          /\ site'.locked /\ ~site'.maintenance]_vars

(* A site that an update has left open, in maintenance or half written is  *)
(* the matter of a task that runs or that an administrator has seen or is  *)
(* told to look at.                                                        *)
InSight(t) == \/ task[t].status \in {"running", "interrupted"}
              \/ task[t].status = "failed" /\ (task[t].attention \/ task[t].disposition # "none")
DamageIsInSight ==
  (site.maintenance \/ ~site.locked \/ \E c \in Components : site.files[c] = "partial")
    => \E t \in Tasks : InSight(t)

(* The administrator either ignores a failed task or has it rolled back: a *)
(* request that has claimed it does not go on once it is ignored.          *)
IgnoredIsLeftAlone ==
  \A r \in Rollbacks : RollingBack(roller[r]) /\ Holds(r) => task[roller[r].task].disposition = "none"

(* No plugin of a batch is updated by two tasks of it, whatever stops      *)
(* between the creation of the task and the record of its dispatch.        *)
BatchItemOnce == \A p \in Plugins : Cardinality(ExistingTasks(p)) <= 1

(* A completed batch waits for nobody. *)
CompletedIsDecided ==
  batch.status = "completed" =>
    \A p \in Plugins : /\ item[p].status \in {"dispatched", "failed"}
                       /\ \A t \in ExistingTasks(p) : ~Unresolved(t)

(* Nothing is put back while the unit of the same task may still write:    *)
(* an update whose outcome is unknown is not rolled back.                  *)
RollbackIsAlone ==
  /\ RollingBack(worker) => worker.task \notin units
  /\ \A r \in Rollbacks : RollingBack(roller[r]) => roller[r].task \notin units

(* A task that was handed to the worker ends, whatever stops in between: a *)
(* unit that outlives the panel ends, and then the sweep finds its task.   *)
EveryTaskEnds ==
  \A t \in Tasks : task[t].status \in {"queued", "running"} ~> task[t].status \in {"success", "failed", "interrupted"}

(* A batch ends or somebody has to decide something; a task whose download *)
(* died with the panel stays in preparation for ever.                      *)
AwaitsDecision == \E t \in Tasks : Undisposed(t) \/ Decidable(t)
Abandoned == \E t \in Tasks : task[t].status = "preparing" /\ t # request /\ t # batcher.task
BatchEnds == batch.status = "running" ~> (batch.status = "completed" \/ AwaitsDecision \/ Abandoned)

(* "a rollback that failed may be tried again" and a test expects success  *)
(* of it: a rollback whose steps all went well is recorded as a success.   *)
ManualRollbackIsRecorded ==
  [][\A r \in Rollbacks : FinishManualRollback(r) /\ Holds(r) /\ ~roller[r].bad
       => task'[roller[r].task].rollback = "success"]_vars
=============================================================================
