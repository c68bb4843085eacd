----------------------------- MODULE SiteMigration -----------------------------
(***************************************************************************)
(* A site migration as the panel that sends the site (A) drives it         *)
(* (executor/site_migration_freeze.go, _source_prepare.go, _processor.go,  *)
(* _worker.go, _control.go, _task_cleanup.go, _workflow.go), composed with *)
(* the receiving panel (B), of which TargetTask says what A may rely on,   *)
(* and with the calls between the two panels, which may be lost, refused,  *)
(* or carried out after the caller has given up.                           *)
(*                                                                         *)
(* What visitors of A get is decided by three things no transaction joins: *)
(* the link that enables a configuration, the maintenance file it may      *)
(* point to, and the configuration nginx has loaded.                       *)
(***************************************************************************)
EXTENDS TargetTask, Naturals

CONSTANTS
  Handlers,       \* requests handled at the same time on A
  SiteActions,    \* what users ask of the website itself: "pause", "enable"
  ScopeMayAge,    \* others may act between what an operation reads and the statement that relies on it
  MaxFaults       \* bound: crashes of A's panel and lapses of a lease

ASSUME SiteMigrationAssumption ==
  /\ {"worker", "tasks"} \cap Handlers = {}
  /\ SiteActions \subseteq {"pause", "enable"}
  /\ ScopeMayAge \in BOOLEAN
  /\ MaxFaults \in Nat

Worker == "worker"      \* SiteMigrationWorker
Tasks  == "tasks"       \* the executor of the panel's task queue
Procs  == Handlers \cup {Worker, Tasks}

VARIABLES
  row,      \* site_migration_sites: A's task
  lock,     \* site_migration_locks: its lock on the website
  owned,    \* site_migration_resources: source_maintenance_config
  link,     \* the enabled nginx link: to the site, to the maintenance file, absent
  file,     \* the maintenance file exists
  loaded,   \* what nginx has loaded for the domain
  site,     \* websites.status
  dump,     \* the exported copy: none, as the site is, or older than its last write
  panel,    \* A's panel runs or is down
  proc,     \* the next step and the operation of each process
  net,      \* calls under way between the panels
  faults,
  lapsed    \* a lease has expired while its worker was at the task

dbVars  == <<row, lock, owned, site>>
nginx   == <<link, file, loaded>>
others  == <<panel, faults, lapsed>>
vars    == <<dbVars, nginx, dump, others, proc, net, targetVars>>

-----------------------------------------------------------------------------
Statuses == {"gone", "draft", "queued", "running", "awaiting_cutover", "failed_retryable",
             "interrupted_unknown", "cancelling", "cleanup_failed", "abandoned"}
Stages   == {"preflight_passed", "source_freezing", "source_frozen", "manifest_ready",
             "transferring_database", "cancelling", "abandoned"}

NoTask == [status |-> "gone", stage |-> "preflight_passed", lease |-> "none"]
Idle   == [step |-> "idle", op |-> "none", undone |-> FALSE]
Exists == row.status # "gone"

SetRow(status, stage) == row' = [row EXCEPT !.status = status, !.stage = stage]
At(p, step)   == proc[p].step = step
Goto(p, step) == proc' = [proc EXCEPT ![p].step = step]
Begin(p, step, op) == proc' = [proc EXCEPT ![p] = [Idle EXCEPT !.step = step, !.op = op]]
Ends(p)       == proc' = [proc EXCEPT ![p] = Idle]

\* nginx takes a configuration only when every enabled link has its file.
Loadable(l) == l = "maintenance" => file
Call(type, p) == [type |-> type, from |-> p]
Send(type, p) == net' = net \cup {Call(type, p)}

Init ==
  /\ row = NoTask /\ lock = "none" /\ owned = "none" /\ site = "active"
  /\ link = "site" /\ file = FALSE /\ loaded = "site"
  /\ dump = "none"
  /\ panel = "up" /\ faults = 0 /\ lapsed = FALSE
  /\ proc = [p \in Procs |-> Idle]
  /\ net = {}
  /\ InitTarget

-----------------------------------------------------------------------------
\* Start: B is asked to create its task, A declares and queues its own.

Start(h) ==
  /\ At(h, "idle") /\ phase = "none" /\ ~Exists /\ site = "active"
  /\ CreateTarget
  /\ \/ Begin(h, "declare", "start")
     \/ Ends(h)                          \* the answer is lost
  /\ UNCHANGED <<dbVars, nginx, dump, others, net>>

\* The task, its lock, and in a second transaction its place in the queue.
DeclareBatch(h) ==
  /\ At(h, "declare")
  /\ \/ row' = [NoTask EXCEPT !.status = "draft"] /\ lock' = "active" /\ Goto(h, "queue") /\ UNCHANGED net
     \/ Send("delete", h) /\ Ends(h) /\ UNCHANGED <<row, lock>>
  /\ UNCHANGED <<owned, site, nginx, dump, others, targetVars>>
QueueBatch(h) ==
  /\ At(h, "queue")
  /\ IF row.status = "draft" THEN SetRow("queued", row.stage) ELSE UNCHANGED row
  /\ Ends(h)
  /\ UNCHANGED <<lock, owned, site, nginx, dump, others, net, targetVars>>

\* Retry of a failed task; of a task of B it is B's own step.
Retry(h) ==
  /\ At(h, "idle") /\ row.status = "failed_retryable" /\ row.lease = "none"
  /\ SetRow("queued", row.stage)
  /\ UNCHANGED <<lock, owned, site, nginx, dump, others, proc, net, targetVars>>

-----------------------------------------------------------------------------
\* The worker: claim, Prepare, the call that queues B's task, release.

ClaimNext ==
  /\ At(Worker, "idle") /\ row.status = "queued" /\ row.lease # "live"
  /\ row' = [row EXCEPT !.status = "running", !.lease = "live"]
  /\ Goto(Worker, "prepare")
  /\ UNCHANGED <<lock, owned, site, nginx, dump, others, net, targetVars>>

PrepareStep(stage) ==
  CASE stage \in {"preflight_passed", "source_freezing"}        -> "freeze"
    [] stage = "source_frozen"                                  -> "manifest"
    [] stage \in {"manifest_ready", "transferring_database"}    -> "database"
    [] OTHER                                                    -> "release_failed"
Prepare ==
  /\ At(Worker, "prepare")
  /\ Goto(Worker, IF lock = "active" /\ row.status = "running" /\ row.lease = "live"
                  THEN PrepareStep(row.stage) ELSE "release_failed")
  /\ UNCHANGED <<dbVars, nginx, dump, others, net, targetVars>>

\* prepareFailed: any step of the preparation, with what the step leaves.
PrepareFailed ==
  /\ row' = IF row.status = "running" THEN [row EXCEPT !.status = "failed_retryable"] ELSE row
  /\ Goto(Worker, "release_failed")

\* Mutant: a link that is already in place is taken for a configuration in use.
FreezeSourceTrustsLink ==
  /\ At(Worker, "freeze") /\ lock = "active" /\ row.stage \in {"preflight_passed", "source_freezing"}
  /\ SetRow(row.status, "source_freezing") /\ owned' = "created"
  /\ proc' = [proc EXCEPT ![Worker] = [step |-> IF link = "site" THEN "write" ELSE "mark",
                                       op |-> row.stage, undone |-> FALSE]]
  /\ UNCHANGED <<lock, site, nginx, dump, others, net, targetVars>>

\* FreezeSource loads the task, looks at the link, records what it is about to do.
FreezeSource ==
  /\ At(Worker, "freeze")
  /\ LET loadable == lock = "active" /\ row.stage \in {"preflight_passed", "source_freezing"} IN
     \/ /\ loadable /\ link = "maintenance" /\ row.stage = "source_freezing" /\ owned # "none"
        /\ Goto(Worker, "reload_again") /\ UNCHANGED <<row, owned>>
     \/ /\ loadable /\ link = "site"
        /\ SetRow(row.status, "source_freezing") /\ owned' = "created"
        /\ proc' = [proc EXCEPT ![Worker] = [step |-> "write", op |-> row.stage, undone |-> FALSE]]
     \/ PrepareFailed /\ UNCHANGED owned
  /\ UNCHANGED <<lock, site, nginx, dump, others, net, targetVars>>

WriteMaintenance ==
  /\ At(Worker, "write")
  /\ \/ file' = TRUE /\ Goto(Worker, "swap")
     \/ UNCHANGED file /\ Goto(Worker, "undo_rows")
  /\ UNCHANGED <<dbVars, link, loaded, dump, others, net, targetVars>>
SwapLink ==
  /\ At(Worker, "swap")
  /\ \/ link' = "maintenance" /\ Goto(Worker, "reload")
     \/ UNCHANGED link /\ Goto(Worker, "undo_rows")
  /\ UNCHANGED <<dbVars, file, loaded, dump, others, net, targetVars>>

\* Test and Reload, then Verify; the runtime is put back only when it was changed.
Reload ==
  /\ proc[Worker].step \in {"reload", "reload_again"}
  /\ \/ /\ Loadable(link) /\ loaded' = link
        /\ Goto(Worker, IF At(Worker, "reload") THEN "verify" ELSE "verify_again")
        /\ UNCHANGED <<link, row>>
     \/ At(Worker, "reload") /\ link' = "site" /\ Goto(Worker, "undo_rows") /\ UNCHANGED <<loaded, row>>
     \/ At(Worker, "reload_again") /\ PrepareFailed /\ UNCHANGED <<link, loaded>>
  /\ UNCHANGED <<lock, owned, site, file, dump, others, net, targetVars>>

Verify ==
  /\ proc[Worker].step \in {"verify", "verify_again"}
  /\ \/ loaded = "maintenance" /\ Goto(Worker, "mark")
     \/ Goto(Worker, IF At(Worker, "verify") THEN "undo_link" ELSE "restore_again")
  /\ UNCHANGED <<dbVars, nginx, dump, others, net, targetVars>>

\* Mutant: the file goes even when nginx could not be reloaded without it.
UndoLinkIgnoresReload ==
  /\ At(Worker, "undo_link") /\ Goto(Worker, "undo_rows")
  /\ \/ link' = "site" /\ loaded' = "site"
     \/ link' = "maintenance" /\ UNCHANGED loaded
  /\ UNCHANGED <<row, lock, owned, site, file, dump, others, net, targetVars>>

\* The link goes back and nginx is reloaded; when that fails it stays in maintenance.
UndoLink ==
  /\ proc[Worker].step \in {"undo_link", "restore_again"}
  /\ \/ /\ link' = "site" /\ loaded' = "site"
        /\ IF At(Worker, "undo_link") THEN Goto(Worker, "undo_rows") /\ UNCHANGED row ELSE PrepareFailed
     \/ link' = "maintenance" /\ PrepareFailed /\ UNCHANGED loaded
  /\ UNCHANGED <<lock, owned, site, file, dump, others, net, targetVars>>

UndoRows ==
  /\ At(Worker, "undo_rows")
  /\ file' = FALSE /\ owned' = "none"
  /\ row' = [row EXCEPT !.stage  = IF @ = "source_freezing" THEN proc[Worker].op ELSE @,
                        !.status = IF @ = "running" THEN "failed_retryable" ELSE @]
  /\ Begin(Worker, "release_failed", "none")
  /\ UNCHANGED <<lock, site, link, loaded, dump, others, net, targetVars>>

MarkFrozen ==
  /\ At(Worker, "mark")
  /\ IF row.stage = "source_freezing"
     THEN SetRow(row.status, "source_frozen") /\ Begin(Worker, "manifest", "none")
     ELSE Goto(Worker, IF proc[Worker].op = "none" THEN "release_failed" ELSE "undo_link") /\ UNCHANGED row
  /\ UNCHANGED <<lock, owned, site, nginx, dump, others, net, targetVars>>

-----------------------------------------------------------------------------
BuildManifest ==
  /\ At(Worker, "manifest")
  /\ \/ lock = "active" /\ row.stage = "source_frozen" /\ SetRow(row.status, "manifest_ready") /\ Goto(Worker, "database")
     \/ PrepareFailed
  /\ UNCHANGED <<lock, owned, site, nginx, dump, others, net, targetVars>>

\* The stage is written whatever it has become; an artifact that is ready is kept.
BuildDatabase ==
  /\ At(Worker, "database")
  /\ \/ /\ lock = "active" /\ row.stage \in {"manifest_ready", "transferring_database"}
        /\ SetRow(row.status, "transferring_database")
        /\ dump' = IF dump = "none" THEN "current" ELSE dump
        /\ Goto(Worker, "prepared")
     \/ /\ lock = "active" /\ row.stage \in {"manifest_ready", "transferring_database"}
        /\ row' = [row EXCEPT !.stage = "transferring_database",
                              !.status = IF @ = "running" THEN "failed_retryable" ELSE @]
        /\ Goto(Worker, "release_failed") /\ UNCHANGED dump
     \/ PrepareFailed /\ UNCHANGED dump
  /\ UNCHANGED <<lock, owned, site, nginx, others, net, targetVars>>

\* Certificates and settings, then markPrepared: the task waits for the cutover.
MarkPrepared ==
  /\ At(Worker, "prepared")
  /\ \/ /\ row.status = "running" /\ row.stage = "transferring_database"
        /\ SetRow("awaiting_cutover", row.stage) /\ Send("queue", Worker) /\ Goto(Worker, "await_queue")
     \/ PrepareFailed /\ UNCHANGED net
  /\ UNCHANGED <<lock, owned, site, nginx, dump, others, targetVars>>

\* RemoteQueueTargetSite: an error, whatever B has made of the call.
QueueFails ==
  /\ At(Worker, "await_queue")
  /\ row' = IF row.status \in {"running", "awaiting_cutover"} /\ row.lease # "none"
            THEN [row EXCEPT !.status = "failed_retryable"] ELSE row
  /\ Goto(Worker, "release_failed")
  /\ UNCHANGED <<lock, owned, site, nginx, dump, others, net, targetVars>>

\* A tick of the heartbeat finds that the task is not running any more: the
\* processor is stopped, and what it did counts as failed.
HeartbeatRefused ==
  /\ proc[Worker].step \in {"await_queue", "release"} /\ row.status # "running"
  /\ Goto(Worker, "release_failed")
  /\ UNCHANGED <<dbVars, nginx, dump, others, net, targetVars>>

ReleaseClaim ==
  /\ proc[Worker].step \in {"release", "release_failed"}
  /\ row' = IF row.lease = "none" THEN row
            ELSE [row EXCEPT !.lease = "none", !.status = IF @ = "running" THEN "failed_retryable" ELSE @]
  /\ IF At(Worker, "release_failed") /\ Exists THEN Begin(Worker, "scope", "delete") ELSE Ends(Worker)
  /\ UNCHANGED <<lock, owned, site, nginx, dump, others, net, targetVars>>

-----------------------------------------------------------------------------
\* AbandonSource: the website gets its own configuration back.

\* Mutant: the stage, not the record of the resource, says whether there is one.
LoadTaskCleanupScopeByStage(p) ==
  /\ At(p, "scope")
  /\ IF ~Exists THEN Ends(p)
     ELSE Goto(p, IF row.stage \in {"source_frozen", "manifest_ready", "transferring_database", "cancelling"}
                  THEN "abandon" ELSE "references")
  /\ UNCHANGED <<dbVars, nginx, dump, others, net, targetVars>>

\* deleteSourceTask reads whether there is a maintenance configuration to undo.
LoadTaskCleanupScope(p) ==
  /\ At(p, "scope")
  /\ IF ~Exists THEN Ends(p) ELSE Goto(p, IF owned = "created" THEN "abandon" ELSE "references")
  /\ UNCHANGED <<dbVars, nginx, dump, others, net, targetVars>>

AlreadyRestored == link = "site" /\ row.stage = "cancelling"
Abandonable == lock = "active" /\ owned = "created" /\ (link = "maintenance" \/ AlreadyRestored)
LoadAbandon(p) ==
  /\ At(p, "abandon")
  /\ IF Exists /\ Abandonable
     THEN proc' = [proc EXCEPT ![p].step = "cancel", ![p].undone = AlreadyRestored]
     ELSE Ends(p)
  /\ UNCHANGED <<dbVars, nginx, dump, others, net, targetVars>>

\* Mutant: the task is looked at, and marked only with the last transaction.
CancelSourceOnlyLooks(p) ==
  /\ At(p, "cancel")
  /\ IF Exists /\ row.lease # "live" THEN Goto(p, IF proc[p].undone THEN "restore_reload" ELSE "restore_link") ELSE Ends(p)
  /\ UNCHANGED <<dbVars, nginx, dump, others, net, targetVars>>

\* Only the lease is a condition; the exports are deleted next, or cleanup fails.
CancelSource(p) ==
  /\ At(p, "cancel")
  /\ \/ /\ Exists /\ row.lease # "live"
        /\ SetRow("cancelling", "cancelling")
        /\ dump' = "none"
        /\ Goto(p, IF proc[p].undone THEN "restore_reload" ELSE "restore_link")
     \/ Exists /\ row.lease # "live" /\ SetRow("cleanup_failed", "cancelling") /\ Ends(p) /\ UNCHANGED dump
     \/ ~(Exists /\ row.lease # "live") /\ Ends(p) /\ UNCHANGED <<row, dump>>
  /\ UNCHANGED <<lock, owned, site, nginx, others, net, targetVars>>

RestoreLink(p) ==
  /\ At(p, "restore_link")
  /\ \/ link' = "site" /\ Goto(p, "restore_reload")
     \/ UNCHANGED link /\ Ends(p)
  /\ UNCHANGED <<dbVars, file, loaded, dump, others, net, targetVars>>

\* On any error from here to the removal of the file the link goes back to
\* maintenance and nginx is reloaded, if it can be.
BackToMaintenance(p) ==
  /\ link' = "maintenance"
  /\ loaded' \in {loaded} \cup (IF file THEN {"maintenance"} ELSE {})
  /\ Ends(p)
RestoreReload(p) ==
  /\ At(p, "restore_reload")
  /\ \/ Loadable(link) /\ loaded' = link /\ Goto(p, "restore_file") /\ UNCHANGED link
     \/ BackToMaintenance(p)
  /\ UNCHANGED <<dbVars, file, dump, others, net, targetVars>>
RestoreFile(p) ==
  /\ At(p, "restore_file")
  /\ \/ file' = FALSE /\ Goto(p, "restore_rows") /\ UNCHANGED <<link, loaded>>
     \/ file /\ BackToMaintenance(p) /\ UNCHANGED file
  /\ UNCHANGED <<dbVars, dump, others, net, targetVars>>

RestoreRows(p) ==
  /\ At(p, "restore_rows")
  /\ \/ /\ lock = "active" /\ row.status = "cancelling"
        /\ SetRow("abandoned", "abandoned") /\ lock' = "released"
        /\ owned' = IF owned = "created" THEN "removed" ELSE owned
        /\ IF proc[p].op \in {"delete", "delete_source"} THEN Goto(p, "forget") ELSE Ends(p)
     \/ Ends(p) /\ UNCHANGED <<row, lock, owned>>
  /\ UNCHANGED <<site, nginx, dump, others, net, targetVars>>

-----------------------------------------------------------------------------
\* The rest of a deletion.

ReleaseReferences(p) ==
  /\ At(p, "references")
  /\ IF Exists /\ row.lease # "live"
     THEN row' = [row EXCEPT !.lease = "none"] /\ lock' = "released" /\ Goto(p, "forget")
     ELSE Ends(p) /\ UNCHANGED <<row, lock>>
  /\ UNCHANGED <<owned, site, nginx, dump, others, net, targetVars>>

\* The row takes its lock and its resources with it; B is told, and whether it
\* is, or what it answers, does not matter.
Forgotten == row' = NoTask /\ lock' = "none" /\ owned' = "none"
ForgetTask(p) ==
  /\ At(p, "forget")
  /\ \/ Exists /\ Forgotten /\ (IF proc[p].op = "delete" THEN Send("delete", p) ELSE UNCHANGED net)
     \/ UNCHANGED <<row, lock, owned, net>>
  /\ Ends(p)
  /\ UNCHANGED <<site, nginx, dump, others, targetVars>>

DeleteTask(h) ==
  /\ At(h, "idle") /\ Exists /\ Begin(h, "scope", "delete")
  /\ UNCHANGED <<dbVars, nginx, dump, others, net, targetVars>>

\* Abandon asks B first and restores A when B has answered.
Abandon(h) ==
  /\ At(h, "idle") /\ Exists
  /\ Begin(h, "await_abandon", "abandon") /\ Send("abandon", h)
  /\ UNCHANGED <<dbVars, nginx, dump, others, targetVars>>
\* Mutant: A's website is restored whatever B says, as a deletion does.
AbandonIgnoresAnswer(h) ==
  /\ At(h, "await_abandon") /\ Goto(h, "abandon")
  /\ UNCHANGED <<dbVars, nginx, dump, others, net, targetVars>>
AbandonFails(h) ==
  /\ At(h, "await_abandon") /\ Ends(h)
  /\ UNCHANGED <<dbVars, nginx, dump, others, net, targetVars>>

\* The user decides that B's copy is the site; one transaction.
CompleteSource(h) ==
  /\ At(h, "idle")
  /\ row.status = "awaiting_cutover" /\ row.stage = "transferring_database" /\ row.lease # "live"
  /\ lock = "active" /\ owned = "created" /\ site = "active"
  /\ site' = "migrated" /\ Forgotten /\ Send("delete", h)
  /\ UNCHANGED <<nginx, dump, others, proc, targetVars>>

-----------------------------------------------------------------------------
\* Calls under way: B carries one out, or it never arrives.  The answer reaches
\* a caller that still waits, or it is lost.

Waiting(c) == proc[c.from].step = (IF c.type = "queue" THEN "await_queue" ELSE "await_abandon")
Answer(c, ok, step) ==
  \/ ok /\ Waiting(c) /\ Goto(c.from, step)
  \/ UNCHANGED proc
DeliverQueue(c) ==
  /\ c.type = "queue"
  /\ \/ QueueTarget /\ Answer(c, TRUE, "release")
     \/ phase \notin {"draft", "none", "gone"} /\ UNCHANGED targetVars /\ Answer(c, TRUE, "release")
     \/ phase \in {"none", "gone"} /\ UNCHANGED <<targetVars, proc>>
\* A rollback that succeeds, one that has been done before, one that is refused.
DeliverAbandon(c) ==
  /\ c.type = "abandon"
  /\ \/ /\ phase \in {"working", "stopped", "removing", "live"} /\ received
        /\ phase' = "abandoned" /\ shown' = FALSE /\ UNCHANGED received
        /\ Answer(c, TRUE, "abandon")
     \/ phase = "abandoned" /\ UNCHANGED targetVars /\ Answer(c, TRUE, "abandon")
     \/ phase # "abandoned" /\ UNCHANGED <<targetVars, proc>>
\* Refused while B's worker holds a lease; a live site is only forgotten.
DeliverDelete(c) ==
  /\ c.type = "delete"
  /\ \/ /\ phase \notin {"none", "gone"}
        /\ phase' = "gone" /\ received' = FALSE /\ UNCHANGED shown
     \/ phase \notin {"draft", "abandoned"} /\ UNCHANGED targetVars
  /\ UNCHANGED proc
\* B asks A to delete its task, or only to restore the site.
DeliverToSource(c) ==
  /\ c.type \in {"delete_source", "abandon_source"} /\ panel = "up"
  /\ \E h \in Handlers : /\ At(h, "idle") /\ Exists
                         /\ Begin(h, IF c.type = "delete_source" THEN "scope" ELSE "abandon", c.type)
  /\ UNCHANGED targetVars
Deliver(c) ==
  /\ net' = net \ {c}
  /\ DeliverQueue(c) \/ DeliverAbandon(c) \/ DeliverDelete(c) \/ DeliverToSource(c)
  /\ UNCHANGED <<dbVars, nginx, dump, others>>
Lose(c) ==
  /\ net' = net \ {c}
  /\ UNCHANGED <<dbVars, nginx, dump, others, proc, targetVars>>

-----------------------------------------------------------------------------
\* B by itself.

\* A gives its manifest, its files and its dump only to a task that is authorised.
Authorised == Exists /\ lock = "active" /\ row.stage = "transferring_database" /\ dump # "none"
TargetStep ==
  /\ \/ Authorised /\ ReceiveTarget /\ UNCHANGED net
     \/ StopTarget /\ (received' => received \/ Authorised) /\ UNCHANGED net
     \/ (RetryTarget \/ ActivateTarget) /\ UNCHANGED net
     \* its worker deletes a failed task, or an administrator abandons it; A is told.
     \/ /\ phase = "stopped"
        /\ phase' = "gone" /\ received' = FALSE /\ UNCHANGED shown
        /\ Send("delete_source", "target")
     \/ /\ phase \in {"working", "stopped", "removing", "live"} /\ received
        /\ phase' = "abandoned" /\ shown' = FALSE /\ UNCHANGED received
        /\ Send("abandon_source", "target")
  /\ UNCHANGED <<dbVars, nginx, dump, others, proc>>

-----------------------------------------------------------------------------
\* The website itself: pause, enable, restore_migrated, tasks of the queue.

PauseSite ==
  /\ At(Tasks, "idle") /\ "pause" \in SiteActions /\ site = "active" /\ lock # "active"
  /\ Begin(Tasks, "pause", "pause")
  /\ UNCHANGED <<dbVars, nginx, dump, others, net, targetVars>>
PauseApply ==
  /\ At(Tasks, "pause")
  /\ IF site # "active" THEN UNCHANGED <<site, link, loaded>>
     ELSE \/ site' = "paused" /\ link' = "none" /\ loaded' = "none"
          \/ UNCHANGED <<site, link, loaded>>        \* an error, undone
  /\ Ends(Tasks)
  /\ UNCHANGED <<row, lock, owned, file, dump, others, net, targetVars>>

\* The status first, then the link, the reload and the maintenance file.
EnableSite ==
  /\ At(Tasks, "idle") /\ "enable" \in SiteActions /\ lock # "active"
  /\ site = "paused" \/ (site = "migrated" /\ link # "none")
  /\ Begin(Tasks, "enable", site)
  /\ UNCHANGED <<dbVars, nginx, dump, others, net, targetVars>>
EnableStatus ==
  /\ At(Tasks, "enable")
  /\ IF site = proc[Tasks].op THEN site' = "active" /\ Goto(Tasks, "enable_link")
     ELSE UNCHANGED site /\ Ends(Tasks)
  /\ UNCHANGED <<row, lock, owned, nginx, dump, others, net, targetVars>>
EnableLink ==
  /\ At(Tasks, "enable_link")
  /\ \/ /\ link' = "site" /\ loaded' = "site" /\ UNCHANGED site
        /\ file' \in {file, IF link = "maintenance" THEN FALSE ELSE file}
     \/ site' = proc[Tasks].op /\ UNCHANGED nginx
  /\ Ends(Tasks)
  /\ UNCHANGED <<row, lock, owned, dump, others, net, targetVars>>

\* Visitors write; nginx is reloaded for another website.
Visit ==
  /\ loaded = "site" /\ dump = "current"
  /\ dump' = "stale"
  /\ UNCHANGED <<dbVars, nginx, others, proc, net, targetVars>>
OtherReload ==
  /\ Loadable(link) /\ loaded' = link
  /\ UNCHANGED <<dbVars, link, file, dump, others, proc, net, targetVars>>

-----------------------------------------------------------------------------
LeaseExpires ==
  /\ row.lease = "live" /\ (At(Worker, "idle") \/ row.status \notin {"running"})
  /\ row' = [row EXCEPT !.lease = "expired"]
  /\ UNCHANGED <<lock, owned, site, nginx, dump, others, proc, net, targetVars>>
LeaseLapses ==
  /\ row.lease = "live" /\ ~At(Worker, "idle") /\ faults < MaxFaults
  /\ row' = [row EXCEPT !.lease = "expired"] /\ faults' = faults + 1 /\ lapsed' = TRUE
  /\ UNCHANGED <<lock, owned, site, nginx, dump, panel, proc, net, targetVars>>

Crash ==
  /\ panel = "up" /\ faults < MaxFaults
  /\ panel' = "down" /\ faults' = faults + 1
  /\ proc' = [p \in Procs |-> Idle]
  /\ UNCHANGED <<dbVars, nginx, dump, lapsed, net, targetVars>>

\* recoverExpired and ReconcileMigratedWebsiteStatuses.
Restart ==
  /\ panel = "down" /\ panel' = "up"
  /\ row' = IF row.status = "running" /\ row.lease = "expired"
            THEN [row EXCEPT !.status = "interrupted_unknown", !.lease = "none"] ELSE row
  /\ site' = IF site = "active" /\ lock # "active" /\ link = "maintenance" THEN "migrated" ELSE site
  /\ UNCHANGED <<lock, owned, nginx, dump, faults, lapsed, proc, net, targetVars>>

-----------------------------------------------------------------------------
WorkerStep ==
  \/ ClaimNext \/ Prepare \/ FreezeSource \/ WriteMaintenance \/ SwapLink \/ Reload \/ Verify
  \/ UndoLink \/ UndoRows \/ MarkFrozen \/ BuildManifest \/ BuildDatabase \/ MarkPrepared
  \/ QueueFails \/ HeartbeatRefused \/ ReleaseClaim
CleanupStep(p) ==
  \/ LoadTaskCleanupScope(p) \/ LoadAbandon(p) \/ CancelSource(p) \/ RestoreLink(p) \/ RestoreReload(p)
  \/ RestoreFile(p) \/ RestoreRows(p) \/ ReleaseReferences(p) \/ ForgetTask(p)
Request(h) ==
  \/ Start(h) \/ DeclareBatch(h) \/ QueueBatch(h) \/ Retry(h) \/ DeleteTask(h)
  \/ Abandon(h) \/ AbandonFails(h) \/ CompleteSource(h)
\* Each of these steps follows a reading that the step itself does not repeat.
Deciding == {"references", "cancel", "restore_link", "restore_reload", "restore_file",
             "restore_rows", "pause", "enable"}
Undisturbed(S) == ScopeMayAge \/ \A p \in Procs \ S : proc[p].step \notin Deciding
WebsiteStep == PauseSite \/ PauseApply \/ EnableSite \/ EnableStatus \/ EnableLink

Next ==
  \/ /\ panel = "up"
     /\ \/ Undisturbed({Worker}) /\ WorkerStep
        \/ Undisturbed({Tasks}) /\ WebsiteStep
        \/ \E h \in Handlers : Undisturbed({h}) /\ Request(h)
        \/ \E p \in Procs : Undisturbed({p}) /\ CleanupStep(p)
  \/ \E c \in net : Deliver(c) \/ Lose(c)
  \/ TargetStep \/ Visit \/ OtherReload \/ LeaseExpires \/ LeaseLapses \/ Crash \/ Restart

Spec == Init /\ [][Next]_vars

-----------------------------------------------------------------------------
CallTypes == {"queue", "abandon", "delete", "delete_source", "abandon_source"}
Steps == {"idle", "declare", "queue", "prepare", "freeze", "write", "swap", "reload", "reload_again", "verify",
          "verify_again", "undo_link", "restore_again", "undo_rows", "mark", "manifest", "database", "prepared",
          "await_queue", "release", "release_failed", "scope", "abandon", "cancel", "restore_link",
          "restore_reload", "restore_file", "restore_rows", "references", "forget", "await_abandon",
          "pause", "enable", "enable_link"}

TypeOK ==
  /\ row \in [status : Statuses, stage : Stages, lease : {"none", "live", "expired"}]
  /\ lock \in {"none", "active", "released"}
  /\ owned \in {"none", "created", "removed"}
  /\ link \in {"site", "maintenance", "none"} /\ file \in BOOLEAN /\ loaded \in {"site", "maintenance", "none"}
  /\ site \in {"active", "paused", "migrated"}
  /\ dump \in {"none", "current", "stale"}
  /\ panel \in {"up", "down"} /\ faults \in 0..MaxFaults /\ lapsed \in BOOLEAN
  /\ \A p \in Procs : proc[p].step \in Steps
  /\ net \subseteq [type : CallTypes, from : Procs \cup {"target"}]
  /\ phase \in Phases /\ received \in BOOLEAN /\ shown \in BOOLEAN

Quiet == panel = "up" /\ \A p \in Procs : At(p, "idle")

\* Stages in which B may copy: visitors of A get the maintenance page.
FrozenWhileCopying ==
  row.stage \in {"source_frozen", "manifest_ready", "transferring_database"} => loaded = "maintenance"

\* The copy a user declares to be the site contains every write A has taken.
DecidedCopyIsCurrent == site = "migrated" => dump # "stale"

\* A site in maintenance belongs to a task that can restore it, or is marked.
MaintenanceIsOwned ==
  Quiet /\ ~lapsed /\ link = "maintenance" => Exists \/ site = "migrated"

\* The file of an enabled configuration exists, or the task is being undone.
EnabledFileExists == ~lapsed /\ link = "maintenance" => file \/ row.stage = "cancelling"

\* Abandon shows A's website again only when B's is not shown.
AbandonHidesTargetFirst ==
  \A p \in Procs : proc[p].op = "abandon" /\ proc[p].step \in {"restore_link", "restore_reload"} => ~shown

\* A task that an interruption has left in an unknown state can be abandoned.
InterruptedCanBeAbandoned ==
  Quiet /\ row.status = "interrupted_unknown" /\ owned = "created" => Abandonable

\* A task that A's user deletes does not bring the website up on B afterwards.
StoppedIsStopped == [][shown' /\ ~shown => Exists \/ site = "migrated"]_vars

=============================================================================
