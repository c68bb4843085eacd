------------------------------ MODULE TargetTask ------------------------------
(***************************************************************************)
(* What the panel that receives a site promises to the panel that sends it *)
(* (executor/site_migration_batch.go, _processor.go, _cutover.go,          *)
(* _rollback.go, _task_cleanup.go), whatever it does inside: MigrationTarget *)
(* implements this specification, and SiteMigration composes the sending   *)
(* panel with it.                                                          *)
(***************************************************************************)

VARIABLES
  phase,     \* of the task of the receiving panel
  received,  \* it has everything it needs of the sending panel
  shown      \* the received website is an ordinary, live one

targetVars == <<phase, received, shown>>

Phases == {"none", "draft", "working", "stopped", "live", "removing", "abandoned", "gone"}

InitTarget == phase = "none" /\ received = FALSE /\ shown = FALSE

\* The declaration of the task, and the call that queues it.
CreateTarget ==
  /\ phase = "none" /\ phase' = "draft"
  /\ UNCHANGED <<received, shown>>
QueueTarget ==
  /\ phase = "draft" /\ phase' = "working"
  /\ UNCHANGED <<received, shown>>

\* Manifest, files, database, certificates and settings: from here on the
\* sending panel is not asked any more.
ReceiveTarget ==
  /\ phase = "working" /\ ~received
  /\ received' = TRUE
  /\ UNCHANGED <<phase, shown>>

\* A failure, or an interruption whose outcome is unknown.
StopTarget ==
  /\ phase = "working" /\ phase' = "stopped"
  /\ received' \in {received, TRUE}
  /\ UNCHANGED shown
RetryTarget ==
  /\ phase = "stopped" /\ phase' = "working"
  /\ UNCHANGED <<received, shown>>

ActivateTarget ==
  /\ phase \in {"working", "stopped"} /\ received
  /\ phase' = "live" /\ shown' = TRUE
  /\ UNCHANGED received

\* A rollback: the website is taken back first.  A live one is touched only
\* by a request that says so.
RemoveTarget(force) ==
  /\ phase \in {"working", "stopped", "removing"} \/ (phase = "live" /\ force)
  /\ received
  /\ phase' = "removing" /\ shown' = FALSE
  /\ UNCHANGED received
FinishRemovalOfTarget ==
  /\ phase = "removing" /\ phase' = "abandoned"
  /\ UNCHANGED <<received, shown>>

\* The row is forgotten: after a rollback, while nothing has been created, or
\* when the website has become an ordinary one, which stays.
ForgetTarget ==
  /\ phase \notin {"none", "gone"}
  /\ phase' = "gone" /\ received' = FALSE
  /\ UNCHANGED shown

NextTarget ==
  \/ CreateTarget \/ QueueTarget \/ ReceiveTarget \/ StopTarget \/ RetryTarget \/ ActivateTarget
  \/ (\E force \in BOOLEAN : RemoveTarget(force)) \/ FinishRemovalOfTarget \/ ForgetTarget

=============================================================================
