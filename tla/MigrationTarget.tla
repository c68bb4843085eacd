--------------------------- MODULE MigrationTarget ---------------------------
(***************************************************************************)
(* One task of a site migration on the panel that receives the site        *)
(* (executor/site_migration_*.go): the worker that drives it through its   *)
(* stages under a lease, the activation that makes the new website an      *)
(* ordinary one, the rollback that removes whatever the task created, and  *)
(* the handlers of the administrators and of the sending panel that act on *)
(* the same row at the same time.                                          *)
(*                                                                         *)
(* The database row, the ledger of resources and what really exists on the *)
(* server are separate: every step below is one database statement or      *)
(* transaction, or one operation on the server, and the panel may stop     *)
(* between any two of them.  The sixteen resource types of the ledger are  *)
(* grouped by the pass that creates and removes them.                      *)
(***************************************************************************)
EXTENDS Naturals, FiniteSets

CONSTANTS
  Admins,         \* requests handled at the same time, of users and of the peer
  Requested,      \* which operations they ask for
  ScopeMayAge,    \* others may act between the reading of a task and its deletion
  MaxFaults       \* bound: crashes of the panel and lapses of a lease

Operations == {"retry", "confirm", "abandon", "abandonActivated", "delete"}

ASSUME MigrationTargetAssumption ==
  /\ "worker" \notin Admins
  /\ Requested \subseteq Operations
  /\ ScopeMayAge \in BOOLEAN
  /\ MaxFaults \in Nat

Worker == "worker"
Procs  == Admins \cup {Worker}

VARIABLES
  row,      \* site_migration_sites: the task; its status is "gone" when there is none
  lock,     \* site_migration_locks: the task's lock on the domain
  ledger,   \* site_migration_resources: the status of each kind of resource
  exists,   \* the kinds that are on the server
  website,  \* websites and cron_jobs: "quiet" with monitoring and cron off
  panel,    \* the panel runs or is down
  proc,     \* each process: its next step, its operation, what that has read of the task
  faults,
  lapsed    \* a lease has expired while its worker was running the task

dbVars   == <<row, lock, ledger, website>>
history  == <<faults, lapsed>>
vars     == <<dbVars, exists, panel, proc, history>>

-----------------------------------------------------------------------------
\* The row, the ledger and the resources.

Statuses == {"gone", "draft", "queued", "running", "awaiting_cutover", "completed",
             "failed_retryable", "interrupted_unknown", "cancelling", "cleanup_failed", "abandoned"}
Stages   == {"preflight_passed", "transferring", "preparing_target", "publishing",
             "configuring_target", "awaiting_cutover", "activating_target",
             "activation_runtime_sync", "completed", "interrupted_unknown", "cancelling", "abandoned"}

\* The order in which a rollback removes what the task owns.
Kinds == {"config", "record", "data", "staging", "user", "database"}
Rank  == [config |-> 1, record |-> 2, data |-> 3, staging |-> 4, database |-> 5, user |-> 6]
NextKind(S) == CHOOSE k \in S : \A j \in S : Rank[k] <= Rank[j]

\* What makes deleteTargetTask roll back, and what it leaves to the staging directory.
RuntimeKinds == {"user", "database", "data", "config", "record"}

Owned == {"created", "published", "remove_failed"}
OwnedKinds == {k \in Kinds : ledger[k] \in Owned}

NoTask  == [status |-> "gone", stage |-> "preflight_passed", owner |-> "none", lease |-> "null", site |-> FALSE]
NewTask == [NoTask EXCEPT !.status = "draft"]
Idle    == [step |-> "idle", op |-> "none", site |-> FALSE, left |-> {}]

Exists    == row.status # "gone"
LeaseFree == row.owner = "none" \/ row.lease # "live"
Mine      == row.owner = "me" /\ row.lease = "live"
HasLease  == Mine /\ row.status \in {"running", "awaiting_cutover"}

SetRow(status, stage) == row' = [row EXCEPT !.status = status, !.stage = stage]
\* UPDATE ... SET status WHERE stage: nothing happens in another stage.
SetStatusIn(stages, status) ==
  row' = IF Exists /\ row.stage \in stages THEN [row EXCEPT !.status = status] ELSE row
Mark(k, status) == ledger' = [ledger EXCEPT ![k] = status]


At(p, step) == proc[p].step = step
Goto(p, step) == proc' = [proc EXCEPT ![p].step = step]
Begin(p, step, operation) == proc' = [proc EXCEPT ![p] = [Idle EXCEPT !.step = step, !.op = operation]]
Stop(p, step) == proc' = [proc EXCEPT ![p] = [Idle EXCEPT !.step = step]]
\* The processor returns to the worker's loop over the stages, or gives an
\* error to the worker, which releases the task; a handler answers its request.
Fails(p) == Stop(p, IF p = Worker THEN "release_failed" ELSE "idle")
Returns(p) == Stop(p, IF p = Worker THEN "release" ELSE "idle")

-----------------------------------------------------------------------------
Init ==
  /\ row = NewTask
  /\ lock = "none"
  /\ ledger = [k \in Kinds |-> "none"]
  /\ exists = {}
  /\ website = "none"
  /\ panel = "up"
  /\ proc = [p \in Procs |-> Idle]
  /\ faults = 0
  /\ lapsed = FALSE

-----------------------------------------------------------------------------
\* The worker: claim, the loop over the stages, release.

\* The sending panel queues the task it declared.
QueueTarget ==
  /\ row.status = "draft"
  /\ SetRow("queued", row.stage)
  /\ UNCHANGED <<lock, ledger, exists, website, panel, proc, history>>

ClaimNext ==
  /\ At(Worker, "idle") /\ row.status = "queued" /\ row.lease # "live"
  /\ row' = [row EXCEPT !.status = "running", !.owner = "me", !.lease = "live"]
  /\ Goto(Worker, "loop")
  /\ UNCHANGED <<lock, ledger, exists, website, panel, history>>

\* Every turn checks the lease; a stage without a branch is an error.
StageStep(stage) ==
  CASE stage \in {"preflight_passed", "transferring"} -> "transfer"
    [] stage = "preparing_target"   -> "prepare"
    [] stage = "publishing"         -> "publish"
    [] stage = "configuring_target" -> "configure"
    [] stage = "awaiting_cutover"   -> "await"
    [] OTHER                        -> "release_failed"
Loop ==
  /\ At(Worker, "loop")
  /\ Goto(Worker, IF HasLease THEN StageStep(row.stage) ELSE "release_failed")
  /\ UNCHANGED <<dbVars, exists, panel, history>>

\* The processor returned an error, or a heartbeat was refused meanwhile: it is
\* accepted only while the status is running and the lease alive.
HeartbeatRefused ==
  /\ At(Worker, "release")
  /\ Goto(Worker, "release_failed")
  /\ UNCHANGED <<dbVars, exists, panel, history>>

\* Mutant: a failure is recorded, the lease is kept.
ReleaseClaimKeepsLease ==
  /\ proc[Worker].step \in {"release", "release_failed"}
  /\ row' = IF row.owner = "me" /\ row.status = "running"
            THEN [row EXCEPT !.status = "failed_retryable"] ELSE row
  /\ Goto(Worker, IF At(Worker, "release_failed") THEN "handle" ELSE "idle")
  /\ UNCHANGED <<lock, ledger, exists, website, panel, history>>

ReleaseClaim ==
  /\ proc[Worker].step \in {"release", "release_failed"}
  /\ LET failed   == At(Worker, "release_failed")
         unproven == row.status = "running"
         waiting  == row.status = "awaiting_cutover" /\ row.stage = "awaiting_cutover"
     IN  /\ row' = CASE row.owner # "me" \/ (unproven /\ ~failed) -> row
                     [] row.owner = "me" /\ failed /\ (unproven \/ waiting) ->
                          [row EXCEPT !.status = "failed_retryable", !.owner = "none", !.lease = "null"]
                     [] OTHER -> [row EXCEPT !.owner = "none", !.lease = "null"]
         /\ Goto(Worker, IF failed THEN "handle" ELSE "idle")
  /\ UNCHANGED <<lock, ledger, exists, website, panel, history>>

-----------------------------------------------------------------------------
\* The stages of the receiving panel.

\* The lock and the first stage in one transaction; Prepare then makes the
\* directories before it enters them in the ledger.
TransferBegin ==
  /\ At(Worker, "transfer")
  /\ \/ /\ Mine /\ row.status = "running" /\ row.stage = "preflight_passed" /\ lock = "none"
        /\ SetRow("running", "transferring")
        /\ lock' = "active"
        /\ Goto(Worker, "receive")
     \/ /\ Mine /\ row.status = "running" /\ row.stage = "transferring"
        /\ UNCHANGED <<row, lock>>
        /\ Goto(Worker, "receive")
     \/ /\ ~(Mine /\ row.status = "running" /\ row.stage \in {"preflight_passed", "transferring"}
              /\ (row.stage = "preflight_passed" => lock = "none"))
        /\ UNCHANGED <<row, lock>>
        /\ Fails(Worker)
  /\ UNCHANGED <<ledger, exists, website, panel, history>>

TransferFails ==
  /\ proc[Worker].step \in {"receive", "staged"}
  /\ row' = IF row.owner = "me" /\ row.status = "running" /\ row.stage = "transferring"
            THEN [row EXCEPT !.status = "failed_retryable"] ELSE row
  /\ Fails(Worker)
  /\ UNCHANGED <<lock, ledger, exists, website, panel, history>>

Authorized == Exists /\ lock = "active" /\ row.stage = "transferring"
PrepareFiles ==
  /\ At(Worker, "receive") /\ Authorized
  /\ exists' = exists \cup {"staging"}
  /\ Goto(Worker, "staged")
  /\ UNCHANGED <<dbVars, panel, history>>

\* The ledger row, the artifacts and, when all of them are verified, Finalize.
Finalize ==
  /\ At(Worker, "staged") /\ Authorized
  /\ Mark("staging", "created")
  /\ SetRow(row.status, "preparing_target")
  /\ Goto(Worker, "loop")
  /\ UNCHANGED <<lock, exists, website, panel, history>>

\* Settings, plan and EnsureAvailable: nothing is changed when they fail.
PrepareFails ==
  /\ proc[Worker].step \in {"prepare", "publish", "configure", "await"}
  /\ Fails(Worker)
  /\ UNCHANGED <<dbVars, exists, panel, history>>

\* No status and no lease, only the stage and the lock decide.
BeginCreation ==
  /\ At(Worker, "prepare")
  /\ lock = "active" /\ row.stage = "preparing_target" /\ ledger["staging"] = "created"
  /\ SetRow("running", "publishing")
  /\ Begin(Worker, "intent", "user")
  /\ UNCHANGED <<lock, ledger, exists, website, panel, history>>

\* resumeFailedStage takes a failed stage up again: before its scope is loaded.
Resumable(stage) == row.stage = stage /\ row.status \in {"running", "failed_retryable"}
PublishBegin ==
  /\ At(Worker, "publish") /\ Resumable("publishing")
  /\ SetRow("running", "publishing")
  /\ IF lock = "active" /\ ledger["staging"] = "created" /\ ledger["database"] \in {"created", "published"}
     THEN Begin(Worker, "intent", "data")
     ELSE Fails(Worker)
  /\ UNCHANGED <<lock, ledger, exists, website, panel, history>>

ConfigureBegin ==
  /\ At(Worker, "configure") /\ Resumable("configuring_target")
  /\ SetRow("running", "configuring_target")
  /\ IF lock = "active" /\ ledger["staging"] = "created" /\ ledger["database"] \in {"created", "published"}
     THEN Begin(Worker, "intent", "config")
     ELSE Fails(Worker)
  /\ UNCHANGED <<lock, ledger, exists, website, panel, history>>

-----------------------------------------------------------------------------
\* A resource: its intention in the ledger, the resource, the mark.

Created   == {"user", "database"}        \* by createAndRecord
Published == {"data", "config"}          \* by beginPublishStep and completePublishStep
StageOf   == [user |-> "publishing", database |-> "publishing", data |-> "publishing",
              config |-> "configuring_target"]

\* publishUnknown and handleCreationError: whatever the row says.
Unknown == row' = IF Exists THEN [row EXCEPT !.status = "interrupted_unknown", !.stage = "interrupted_unknown"]
                  ELSE row

\* What follows a resource that is in place.
Proceed(k) ==
  CASE k = "user"     -> Begin(Worker, "intent", "database")
    [] k = "database" -> Stop(Worker, "loop")
    [] k = "data"     -> Stop(Worker, "published")
    [] k = "config"   -> Stop(Worker, "record")

RecordIntent ==
  /\ At(Worker, "intent")
  /\ LET k == proc[Worker].op IN
     \/ /\ (Exists /\ ledger[k] = "none") \/ (k \in Created /\ ledger[k] = "removed")
        /\ Mark(k, "created") /\ Goto(Worker, "make") /\ UNCHANGED row
     \/ /\ k \in Published /\ ledger[k] = "created"
        /\ Goto(Worker, "make") /\ UNCHANGED <<row, ledger>>
     \/ ledger[k] = "published" /\ Proceed(k) /\ UNCHANGED <<row, ledger>>
     \/ /\ k \in Created /\ ledger[k] \in {"created", "remove_failed"}
        /\ Unknown /\ Fails(Worker) /\ UNCHANGED ledger
     \/ /\ (~Exists /\ ledger[k] = "none") \/ (k \in Published /\ ledger[k] \in {"removed", "remove_failed"})
        /\ Fails(Worker) /\ UNCHANGED <<row, ledger>>
  /\ UNCHANGED <<lock, exists, website, panel, history>>

Make ==
  /\ At(Worker, "make")
  /\ exists' = exists \cup {proc[Worker].op}
  /\ Goto(Worker, "mark")
  /\ UNCHANGED <<dbVars, panel, history>>

\* A publication that fails leaves any part of the resource.  A creation is
\* undone, unless earlier resources of its kind are complete and stay; when
\* undoing fails too, the outcome is unknown.
MakeFails ==
  /\ At(Worker, "make")
  /\ LET k == proc[Worker].op IN
     \/ /\ k \in Published
        /\ exists' \in {exists, exists \cup {k}}
        /\ SetStatusIn({StageOf[k]}, "failed_retryable")
        /\ UNCHANGED ledger
     \/ /\ k \in Created /\ ledger[k] = "created"
        /\ \/ exists' = exists \ {k} /\ Mark(k, "removed")
           \/ exists' = exists \cup {k} /\ Mark(k, "published")
        /\ SetStatusIn({"publishing"}, "failed_retryable")
     \/ /\ k \in Created /\ ledger[k] # "created"
        /\ exists' = exists \ {k}
        /\ SetStatusIn({"publishing"}, "failed_retryable")
        /\ UNCHANGED ledger
     \/ /\ k \in Created
        /\ exists' \in {exists, exists \cup {k}}
        /\ Unknown /\ UNCHANGED ledger
  /\ Fails(Worker)
  /\ UNCHANGED <<lock, website, panel, history>>

MarkPublished ==
  /\ At(Worker, "mark")
  /\ LET k == proc[Worker].op IN
     \/ ledger[k] = "created" /\ Mark(k, "published") /\ Proceed(k) /\ UNCHANGED row
     \/ ledger[k] # "created" /\ Unknown /\ Fails(Worker) /\ UNCHANGED ledger
  /\ UNCHANGED <<lock, exists, website, panel, history>>

PublishCommit ==
  /\ At(Worker, "published")
  /\ IF row.status = "running" /\ row.stage = "publishing"
     THEN SetRow("running", "configuring_target") /\ Goto(Worker, "loop")
     ELSE Unknown /\ Fails(Worker)
  /\ UNCHANGED <<lock, ledger, exists, website, panel, history>>

-----------------------------------------------------------------------------
\* The website record, the health check, and the cutover.

\* insertTargetWebsite, one transaction; the row does not learn of the website
\* before the health check has passed.
InsertWebsite ==
  /\ At(Worker, "record")
  /\ IF ledger["record"] = "published" /\ website # "none"
     THEN Goto(Worker, "health") /\ UNCHANGED <<row, ledger, website>>
     ELSE IF Exists /\ ledger["record"] = "none" /\ lock = "active" /\ website = "none"
     THEN /\ website' = "quiet"
          /\ Mark("record", "published")
          /\ Goto(Worker, "health")
          /\ UNCHANGED row
     ELSE SetStatusIn({"configuring_target"}, "failed_retryable") /\ Fails(Worker) /\ UNCHANGED <<ledger, website>>
  /\ UNCHANGED <<lock, exists, panel, history>>

HealthFails ==
  /\ At(Worker, "record") \/ At(Worker, "health")
  /\ SetStatusIn({"configuring_target"}, "failed_retryable")
  /\ Fails(Worker)
  /\ UNCHANGED <<lock, ledger, exists, website, panel, history>>

HealthCommit ==
  /\ At(Worker, "health")
  /\ IF row.status = "running" /\ row.stage = "configuring_target"
     THEN /\ row' = [row EXCEPT !.status = "awaiting_cutover", !.stage = "awaiting_cutover", !.site = TRUE]
          /\ Goto(Worker, "loop")
     ELSE Unknown /\ Fails(Worker)
  /\ UNCHANGED <<lock, ledger, exists, website, panel, history>>

\* A task that a restart queued again is put back into awaiting_cutover first.
Await ==
  /\ At(Worker, "await")
  /\ IF row.status # "running" THEN Goto(Worker, "activate") /\ UNCHANGED row
     ELSE IF Mine /\ row.stage = "awaiting_cutover"
     THEN SetRow("awaiting_cutover", row.stage) /\ Goto(Worker, "activate")
     ELSE Fails(Worker) /\ UNCHANGED row
  /\ UNCHANGED <<lock, ledger, exists, website, panel, history>>

\* loadCutoverState: the website, its lock and its staging directory.
CutoverState(stage) ==
  /\ row.stage = stage /\ row.site /\ website # "none"
  /\ lock = "active" /\ ledger["staging"] = "created"

\* ActivateAfterHealth of the worker and Confirm of an administrator: neither
\* the transaction nor what follows it looks at the lease.
BeginActivation(p) ==
  /\ At(p, "activate")
  /\ IF row.status = "awaiting_cutover" /\ CutoverState("awaiting_cutover")
     THEN SetRow("running", "activating_target") /\ Goto(p, "resume")
     ELSE Fails(p) /\ UNCHANGED row
  /\ UNCHANGED <<lock, ledger, exists, website, panel, history>>

ResumeActivation(p) ==
  /\ At(p, "resume")
  /\ \/ row.stage = "activation_runtime_sync" /\ Goto(p, "runtime") /\ UNCHANGED row
     \/ /\ CutoverState("activating_target")
        /\ row' = IF row.status = "failed_retryable" THEN [row EXCEPT !.status = "running"] ELSE row
        /\ Goto(p, "commit")
     \/ /\ row.stage # "activation_runtime_sync" /\ ~CutoverState("activating_target")
        /\ Fails(p) /\ UNCHANGED row
  /\ UNCHANGED <<lock, ledger, exists, website, panel, history>>

\* The WordPress cron, the marker, the decision or the commit fails.
ActivationFails(p) ==
  /\ At(p, "commit")
  /\ SetStatusIn({"activating_target"}, "failed_retryable")
  /\ Fails(p)
  /\ UNCHANGED <<lock, ledger, exists, website, panel, history>>

\* Mutants: the lock is kept; the stage is not compared.
CommitActivationKeepsLock(p) ==
  /\ At(p, "commit")
  /\ row.stage = "activating_target" /\ lock = "active" /\ website # "none"
  /\ website' = "live"
  /\ SetRow("running", "activation_runtime_sync")
  /\ Goto(p, "runtime")
  /\ UNCHANGED <<lock, ledger, exists, panel, history>>
CommitActivationAnyStage(p) ==
  /\ At(p, "commit")
  /\ lock = "active" /\ website # "none"
  /\ website' = "live"
  /\ lock' = "released"
  /\ SetRow("running", "activation_runtime_sync")
  /\ Goto(p, "runtime")
  /\ UNCHANGED <<ledger, exists, panel, history>>

\* The site becomes an ordinary one: monitoring, cron, lock and stage at once.
CommitActivation(p) ==
  /\ At(p, "commit")
  /\ row.stage = "activating_target" /\ lock = "active" /\ website # "none"
  /\ website' = "live"
  /\ lock' = "released"
  /\ SetRow("running", "activation_runtime_sync")
  /\ Goto(p, "runtime")
  /\ UNCHANGED <<ledger, exists, panel, history>>

RuntimeSync(p) ==
  /\ At(p, "runtime")
  /\ row' = IF row.stage = "activation_runtime_sync" /\ row.status = "failed_retryable"
            THEN [row EXCEPT !.status = "running"] ELSE row
  /\ Goto(p, "finish")
  /\ UNCHANGED <<lock, ledger, exists, website, panel, history>>

FinishActivation(p) ==
  /\ At(p, "finish")
  /\ \/ /\ row.stage = "activation_runtime_sync" /\ row.site
        /\ SetRow("completed", "completed")
        /\ Returns(p)
     \/ SetStatusIn({"activation_runtime_sync"}, "failed_retryable") /\ Fails(p)
  /\ UNCHANGED <<lock, ledger, exists, website, panel, history>>

-----------------------------------------------------------------------------
\* Deletion: by the worker after a failure, by an administrator, by the peer.

\* loadTaskCleanupScope: what to do is decided here, for the rest of the deletion.
Activated  == lock = "released" \/ row.stage \in {"activation_runtime_sync", "completed"}
HasRuntime == RuntimeKinds \cap OwnedKinds # {}
\* Mutant: a site that is already an ordinary one is rolled back like any other.
DeletionStepIgnoresActivation == IF HasRuntime \/ row.site THEN "rollback" ELSE "references"

DeletionStep == IF ~Activated /\ row.status # "completed" /\ (HasRuntime \/ row.site)
                THEN "rollback" ELSE "references"

\* HandleFailure keeps an activated task, so that its activation can be resumed.
HandleFailure ==
  /\ At(Worker, "handle")
  /\ IF Exists /\ ~Activated THEN Begin(Worker, DeletionStep, "delete") ELSE Stop(Worker, "idle")
  /\ UNCHANGED <<dbVars, exists, panel, history>>

ReleaseReferences(p) ==
  /\ At(p, "references")
  /\ IF Exists /\ LeaseFree
     THEN /\ row' = [row EXCEPT !.site = FALSE, !.owner = "none", !.lease = "null"]
          /\ lock' = IF lock = "none" THEN "none" ELSE "released"
          /\ Goto(p, "files")
     ELSE Stop(p, "idle") /\ UNCHANGED <<row, lock>>
  /\ UNCHANGED <<ledger, exists, website, panel, history>>

\* Mutant: the row is forgotten although the files could not be removed.
RemoveRuntimeFilesIgnoresFailure(p) ==
  /\ At(p, "files")
  /\ exists' \in {exists, exists \ {"staging"}} /\ Goto(p, "forget")
  /\ UNCHANGED <<dbVars, panel, history>>

RemoveRuntimeFiles(p) ==
  /\ At(p, "files")
  /\ \/ exists' = exists \ {"staging"} /\ Goto(p, "forget")
     \/ exists' = exists /\ Stop(p, "idle")
  /\ UNCHANGED <<dbVars, panel, history>>

\* Deleting the row deletes its lock and its ledger.
ForgetTask(p) ==
  /\ At(p, "forget")
  /\ row' = NoTask
  /\ lock' = "none"
  /\ ledger' = [k \in Kinds |-> "none"]
  /\ Stop(p, "idle")
  /\ UNCHANGED <<exists, website, panel, history>>

-----------------------------------------------------------------------------
\* Rollback: by a deletion or by itself.

MayForce(p) == proc[p].op \in {"delete", "abandonActivated"}
RollbackStages == {"publishing", "configuring_target", "awaiting_cutover", "activating_target",
                   "activation_runtime_sync", "completed", "interrupted_unknown"}
CleanedUp == lock = "released" /\ \A k \in Kinds : ledger[k] \in {"none", "removed"}
Recorded  == "record" \in OwnedKinds
InScope   == /\ Exists /\ lock # "none" /\ row.stage # "abandoned"
             /\ row.status \in {"cancelling", "cleanup_failed"} \/ row.stage \in RollbackStages

\* rollbackAlreadyComplete, loadScope, the risk acceptance and validateWebsiteOwnership.
LoadRollbackScope(p) ==
  /\ At(p, "rollback")
  /\ IF row.status = "abandoned"
     THEN IF CleanedUp /\ proc[p].op = "delete" THEN Goto(p, "files") ELSE Stop(p, "idle")
     ELSE IF /\ InScope /\ (Activated => MayForce(p))
             /\ row.site = Recorded /\ (row.site => website # "none")
     THEN proc' = [proc EXCEPT ![p] = [@ EXCEPT !.step = "begin_rollback", !.site = row.site, !.left = OwnedKinds]]
     ELSE Stop(p, "idle")
  /\ UNCHANGED <<dbVars, exists, panel, history>>

BeginRollback(p) ==
  /\ At(p, "begin_rollback")
  /\ IF Exists /\ LeaseFree /\ lock # "none" /\ (proc[p].site => website # "none")
     THEN /\ website' = IF proc[p].site THEN "quiet" ELSE website
          /\ lock' = "active"
          /\ SetRow("cancelling", "cancelling")
          /\ Goto(p, "remove")
     ELSE Stop(p, "idle") /\ UNCHANGED <<row, lock, website>>
  /\ UNCHANGED <<ledger, exists, panel, history>>

\* Each kind the scope names is taken from the server, then from the ledger; the
\* records of the website and its cron jobs in one transaction.
RemoveResource(p) ==
  /\ At(p, "remove") /\ proc[p].left # {}
  /\ NextKind(proc[p].left) # "record"
  /\ exists' = exists \ {NextKind(proc[p].left)}
  /\ Goto(p, "mark_removed")
  /\ UNCHANGED <<dbVars, panel, history>>

MarkRemoved(p) ==
  /\ At(p, "mark_removed")
  /\ LET k == NextKind(proc[p].left) IN
     /\ ledger' = IF ledger[k] \in Owned THEN [ledger EXCEPT ![k] = "removed"] ELSE ledger
     /\ proc' = [proc EXCEPT ![p].step = "remove", ![p].left = @ \ {k}]
  /\ UNCHANGED <<row, lock, exists, website, panel, history>>

RemoveRecords(p) ==
  /\ At(p, "remove") /\ proc[p].left # {}
  /\ NextKind(proc[p].left) = "record"
  /\ Exists /\ website # "none"
  /\ website' = "none"
  /\ row' = [row EXCEPT !.site = FALSE]
  /\ ledger' = IF ledger["record"] \in Owned THEN [ledger EXCEPT !["record"] = "removed"] ELSE ledger
  /\ proc' = [proc EXCEPT ![p].left = @ \ {"record"}]
  /\ UNCHANGED <<lock, exists, panel, history>>

\* Mutant: the error is ignored and the resource marked as removed.
RemoveFailsIsIgnored(p) ==
  /\ At(p, "remove") /\ proc[p].left # {}
  /\ NextKind(proc[p].left) # "record"
  /\ Goto(p, "mark_removed")
  /\ UNCHANGED <<dbVars, exists, panel, history>>

RemoveFails(p) ==
  /\ At(p, "remove") /\ proc[p].left # {}
  /\ LET k == NextKind(proc[p].left) IN
     ledger' = IF k \notin {"config", "record"} /\ ledger[k] \in {"created", "published"}
               THEN [ledger EXCEPT ![k] = "remove_failed"] ELSE ledger
  /\ SetStatusIn({"cancelling"}, "cleanup_failed")
  /\ Stop(p, "idle")
  /\ UNCHANGED <<lock, exists, website, panel, history>>

FinishRollback(p) ==
  /\ At(p, "remove") /\ proc[p].left = {}
  /\ IF /\ \A k \in Kinds : ledger[k] \in {"none", "removed"}
        /\ lock = "active" /\ row.status = "cancelling"
     THEN /\ lock' = "released"
          /\ SetRow("abandoned", "abandoned")
          /\ IF proc[p].op = "delete" THEN Goto(p, "files") ELSE Stop(p, "idle")
     ELSE /\ SetStatusIn({"cancelling"}, "cleanup_failed")
          /\ Stop(p, "idle")
          /\ UNCHANGED lock
  /\ UNCHANGED <<ledger, exists, website, panel, history>>

-----------------------------------------------------------------------------
\* The requests.

\* RetryTarget: an activation is resumed by the request itself.
Retry(a) ==
  /\ At(a, "idle") /\ "retry" \in Requested /\ row.status = "failed_retryable"
  /\ IF row.stage \in {"activating_target", "activation_runtime_sync"}
     THEN Begin(a, "resume", "retry") /\ UNCHANGED row
     ELSE /\ row.owner = "none" /\ row.lease = "null"
          /\ SetRow("queued", row.stage)
          /\ UNCHANGED proc
  /\ UNCHANGED <<lock, ledger, exists, website, panel, history>>

Confirm(a) ==
  /\ At(a, "idle") /\ "confirm" \in Requested /\ CutoverState("awaiting_cutover")
  /\ Begin(a, "activate", "confirm")
  /\ UNCHANGED <<dbVars, exists, panel, history>>

Abandon(a) ==
  /\ At(a, "idle") /\ Exists
  /\ \E o \in Requested \cap {"abandon", "abandonActivated"} : Begin(a, "rollback", o)
  /\ UNCHANGED <<dbVars, exists, panel, history>>

Delete(a) ==
  /\ At(a, "idle") /\ "delete" \in Requested /\ Exists
  /\ Begin(a, DeletionStep, "delete")
  /\ UNCHANGED <<dbVars, exists, panel, history>>

-----------------------------------------------------------------------------
\* Time, crashes and restarts.

\* The heartbeat renews the lease of a running task of this process.
LeaseExpires ==
  /\ row.lease = "live"
  /\ row.owner = "former" \/ row.status \notin {"running", "awaiting_cutover"}
  /\ row' = [row EXCEPT !.lease = "expired"]
  /\ UNCHANGED <<lock, ledger, exists, website, panel, proc, history>>

\* A heartbeat that comes too late, or finds the database blocked: the worker
\* only notices at its next look at the lease.
LeaseLapses ==
  /\ HasLease /\ faults < MaxFaults
  /\ row' = [row EXCEPT !.lease = "expired"]
  /\ faults' = faults + 1 /\ lapsed' = TRUE
  /\ UNCHANGED <<lock, ledger, exists, website, panel, proc>>

Crash ==
  /\ panel = "up" /\ faults < MaxFaults
  /\ panel' = "down"
  /\ faults' = faults + 1
  /\ proc' = [p \in Procs |-> Idle]
  /\ row' = IF row.owner = "me" THEN [row EXCEPT !.owner = "former"] ELSE row
  /\ UNCHANGED <<lock, ledger, exists, website, lapsed>>

\* Start calls recoverExpired, once.
Restart ==
  /\ panel = "down"
  /\ panel' = "up"
  /\ row' = CASE row.status = "awaiting_cutover" /\ row.stage = "awaiting_cutover" /\ row.lease # "live"
                   -> [row EXCEPT !.status = "queued", !.owner = "none", !.lease = "null"]
              [] row.status = "running" /\ row.lease = "expired"
                   -> [row EXCEPT !.status = "interrupted_unknown", !.owner = "none", !.lease = "null"]
              [] OTHER -> row
  /\ UNCHANGED <<lock, ledger, exists, website, proc, history>>

-----------------------------------------------------------------------------
WorkerStep ==
  \/ ClaimNext \/ Loop \/ HeartbeatRefused \/ ReleaseClaim
  \/ TransferBegin \/ TransferFails \/ PrepareFiles \/ Finalize
  \/ PrepareFails \/ BeginCreation \/ PublishBegin \/ ConfigureBegin
  \/ RecordIntent \/ Make \/ MakeFails \/ MarkPublished \/ PublishCommit
  \/ InsertWebsite \/ HealthFails \/ HealthCommit \/ Await \/ HandleFailure

ActivationStep(p) ==
  BeginActivation(p) \/ ResumeActivation(p) \/ ActivationFails(p) \/ CommitActivation(p)
  \/ RuntimeSync(p) \/ FinishActivation(p)
RollbackStep(p) ==
  LoadRollbackScope(p) \/ BeginRollback(p) \/ RemoveResource(p) \/ MarkRemoved(p) \/ RemoveRecords(p)
  \/ RemoveFails(p) \/ FinishRollback(p)
DeletionStepOf(p) == ReleaseReferences(p) \/ RemoveRuntimeFiles(p) \/ ForgetTask(p)

Request(a) == Retry(a) \/ Confirm(a) \/ Abandon(a) \/ Delete(a)

\* With ScopeMayAge FALSE nobody acts between what an operation has read and the
\* transaction that relies on it.
Deciding == {"rollback", "begin_rollback", "references", "files", "forget"}
Undisturbed(p) == ScopeMayAge \/ \A q \in Procs \ {p} : proc[q].step \notin Deciding

Step(p) ==
  /\ panel = "up" /\ Undisturbed(p)
  /\ (p = Worker /\ WorkerStep) \/ ActivationStep(p) \/ RollbackStep(p) \/ DeletionStepOf(p)
AdminRequests == panel = "up" /\ \E a \in Admins : Undisturbed(a) /\ Request(a)

Next == QueueTarget \/ AdminRequests \/ (\E p \in Procs : Step(p)) \/ LeaseExpires \/ LeaseLapses \/ Crash \/ Restart

Spec == Init /\ [][Next]_vars
FairSpec == Spec /\ (\A p \in Procs : WF_vars(Step(p))) /\ WF_vars(LeaseExpires) /\ WF_vars(Restart)

-----------------------------------------------------------------------------
Steps == {"idle", "loop", "transfer", "prepare", "publish", "configure", "await", "release", "release_failed",
          "handle", "receive", "staged", "intent", "make", "mark", "published", "record", "health", "activate",
          "resume", "commit", "runtime", "finish", "references", "files", "forget", "rollback",
          "begin_rollback", "remove", "mark_removed"}

\* Types, and the bookkeeping of a row: no lease without an owner, no owner
\* without a status that a claim reaches; an operation has a scope only between
\* the reading of it and its end.
TypeOK ==
  /\ row \in [status : Statuses, stage : Stages, owner : {"none", "me", "former"},
              lease : {"null", "live", "expired"}, site : BOOLEAN]
  /\ lock \in {"none", "active", "released"}
  /\ ledger \in [Kinds -> {"none", "created", "published", "remove_failed", "removed"}]
  /\ exists \subseteq Kinds
  /\ website \in {"none", "quiet", "live"}
  /\ panel \in {"up", "down"}
  /\ proc \in [Procs -> [step : Steps, op : Operations \cup Kinds \cup {"none"}, site : BOOLEAN, left : SUBSET Kinds]]
  /\ faults \in 0..MaxFaults /\ lapsed \in BOOLEAN
  /\ (row.owner = "none") = (row.lease = "null")
  /\ \A p \in Procs : proc[p].left # {} => proc[p].step \in {"begin_rollback", "remove", "mark_removed"}

Working == {"transfer", "prepare", "publish", "configure", "receive", "staged", "intent", "make", "mark",
            "published", "record", "health"}
Removing == {"files", "forget", "remove", "mark_removed"}

\* Whatever a task left on the server can be found again: while its row is there
\* the ledger owns it, and when the row is forgotten nothing is left but what
\* belongs to a website that went live.  The staging directory is found by its name.
\* (This and the next two rely on the lease: a worker that outlives it goes on
\* creating resources until it notices.)
LedgerCovers ==
  ~lapsed => IF Exists THEN exists \cap RuntimeKinds \subseteq OwnedKinds
             ELSE exists = {} \/ (website = "live" /\ exists \subseteq RuntimeKinds)

\* An abandoned task, whatever failed or was repeated on the way, has left nothing
\* on the server, no record of a website, nothing in the ledger and no lock.
AbandonedIsClean ==
  row.status = "abandoned" /\ ~lapsed
    => exists = {} /\ website = "none" /\ OwnedKinds = {} /\ lock = "released"

\* A live website is an ordinary one, and only a live one is: the domain is locked
\* as long as the task prepares it, and free, with the stage that says so, since.
ActivationAtomic ==
  /\ website = "quiet" => lock = "active" /\ Recorded
  /\ Exists /\ website = "live" => lock = "released" /\ row.stage \in {"activation_runtime_sync", "completed"}
  /\ row.stage \in {"activation_runtime_sync", "completed"} => website = "live" /\ lock = "released"

\* A website that went live is never taken away again, unless an administrator
\* accepted exactly that.
LiveSiteKept ==
  [][website = "live" /\ website' # "live" =>
       \E p \in Procs : proc[p].step = "begin_rollback" /\ proc[p].op = "abandonActivated"]_vars

\* A claimed task is released by its worker, or orphaned by a crash: it does not stay claimed.
TaskIsSettled == row.owner = "me" ~> row.owner # "me"

\* A failed task whose operations have ended can be cleaned up: its rollback is not refused.
FailedIsRemovable ==
  (\A p \in Procs : proc[p].step = "idle") /\ row.status = "failed_retryable" /\ DeletionStep = "rollback"
    => row.site = Recorded

-----------------------------------------------------------------------------
\* What the sending panel may rely on: TargetTask, seen through the row.  (The
\* declaration of the task is before Init.)
Phase ==
  CASE row.status = "gone"      -> "gone"
    [] row.status = "draft"     -> "draft"
    [] row.status = "abandoned" -> "abandoned"
    [] row.stage = "cancelling" -> "removing"
    [] row.stage \in {"activation_runtime_sync", "completed"}    -> "live"
    [] /\ row.status \in {"failed_retryable", "interrupted_unknown"}
       /\ row.stage \notin {"activation_runtime_sync", "completed"}  -> "stopped"
    [] OTHER                    -> "working"
Received == Exists /\ row.stage \notin {"preflight_passed", "transferring", "preparing_target"}

Promise == INSTANCE TargetTask WITH phase <- Phase, received <- Received, shown <- website = "live"

\* As long as no lease lapses, every step of the panel is one the sending panel
\* reckons with: an abandoned task stays abandoned, a live site is taken back only
\* on request, a task goes live only with everything it needs.
ImplementsTargetTask == [][Promise!NextTarget \/ lapsed']_(Promise!targetVars)

=============================================================================
