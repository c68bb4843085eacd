------------------------ MODULE SiteMigrationCopyProofs ------------------------
(***************************************************************************)
(* The copy a user decides for is current, proved with no hypothesis on    *)
(* what other processes do between a reading of A's panel and the          *)
(* statement that relies on it (SiteMigrationProofs assumes ~ScopeMayAge   *)
(* for the properties of the maintenance configuration), and for any       *)
(* number of crashes and lapsed leases.                                    *)
(*                                                                         *)
(* A copy becomes stale when visitors reach the site, so the invariant     *)
(* says when they cannot: as long as there is a copy of a task that owns   *)
(* the website, or of a site that has been moved (HideInv).  It holds      *)
(* because a freeze starts without a copy and ends with the site hidden    *)
(* (EmptyInv, MarkInv), because a cancellation deletes the copy before it  *)
(* shows the site again (EmptyInv), and because a task of the website that *)
(* was started before the migration was declared keeps the migration from  *)
(* freezing until it is done (WaitInv).                                    *)
(***************************************************************************)
EXTENDS SiteMigrationProofs

Enables == proc[Tasks].step \in {"enable", "enable_link"}
Undoes  == \E p \in Procs : proc[p].step \in Restoring
Ended   == Declared /\ (~Exists \/ row.stage \in {"cancelling", "abandoned"})
Loading == {"reload", "verify", "reload_again", "verify_again", "mark"}
\* No visitor reaches the site, nor will after a reload; nobody has since the copy.
Hidden  == link # "site" /\ loaded # "site" /\ dump # "stale"

TaskInv ==
  /\ ~Exists => row = NoTask /\ lock = "none"
  /\ Undoes => Ended
  /\ site = "migrated" \/ Enabling("migrated") => Over
  /\ At(Tasks, "enable_link") => site = "active"
WaitInv ==
  /\ ~Declared /\ (site = "paused" \/ Enables) => link = "none"
  /\ Enables /\ ~Over => /\ link = "none" /\ ~Freezes /\ row.stage = "preflight_passed"
                         /\ \A p \in Procs : proc[p].step \notin {"cancel"} \cup Restoring
EmptyInv ==
  Freezes \/ Undoes \/ (lock = "active" /\ row.stage \in Tries \cup {"source_frozen"}) => dump = "none"
HideInv ==
  /\ Copying => ~Freezes
  /\ lock = "active" /\ (Copying \/ dump # "none") => Hidden
  /\ dump # "none" /\ (link = "maintenance" \/ site = "migrated" \/ Enabling("migrated")) => Hidden
MarkInv ==
  lock = "active" /\ IsFreezing => /\ proc[Worker].step \in Loading => link # "site"
                                   /\ At(Worker, "mark") => loaded # "site"

Claims     == TaskInv /\ WaitInv /\ EmptyInv /\ HideInv /\ MarkInv
CurrentInv == FreshInv /\ Claims

-----------------------------------------------------------------------------
\* Steps that start nothing.

\* Nobody starts to cancel, to restore, to freeze, or to enable the website.
Calm ==
  /\ \A q \in Procs : /\ proc'[q].step \in Restoring => proc[q].step \in Restoring
                      /\ proc'[q].step = "cancel" => proc[q].step = "cancel"
  /\ proc'[Worker].step \in FreezeSteps => proc[Worker].step \in FreezeSteps
  /\ proc'[Worker].step \in Loading => proc[Worker].step \in Loading
  /\ At(Worker, "mark")' => At(Worker, "mark")
  /\ Enables' => Enables
  /\ Enabling("migrated")' => Enabling("migrated")
  /\ At(Tasks, "enable_link")' => At(Tasks, "enable_link")
Plain == Steps \ ({"declare", "cancel", "enable", "enable_link"} \cup Restoring \cup FreezeSteps)

\* What a calm step leaves false.
LEMMA CalmFacts ==
  ASSUME Calm
  PROVE  (Freezes' => Freezes) /\ (Undoes' => Undoes)
BY DEF Calm, Freezes, Undoes

\* A step that changes neither what visitors get nor the copy nor the stage.
LEMMA CalmStep ==
  ASSUME Claims, Calm, UNCHANGED <<lock, site, link, loaded, dump>>,
         row'.stage = row.stage, row' = row \/ (Exists /\ Exists'), Declared => Declared'
  PROVE  Claims'
<1>1. (Freezes' => Freezes) /\ (Undoes' => Undoes) BY CalmFacts
<1>2. (Exists' <=> Exists) /\ (Copying' <=> Copying) /\ (IsFreezing' <=> IsFreezing) BY DEF Exists, Copying, IsFreezing
<1>3. (Over => Over') /\ (Ended => Ended') BY <1>2 DEF Over, Ended
<1>4. (Hidden' <=> Hidden) BY DEF Hidden
<1>5. TaskInv' BY <1>1, <1>2, <1>3 DEF Claims, TaskInv, Calm
<1>6. WaitInv'
  <2>1. ~Declared' /\ (site' = "paused" \/ Enables') => link' = "none" BY DEF Claims, WaitInv, Calm
  <2>2. ASSUME Enables', ~Over'
        PROVE  /\ link' = "none" /\ ~Freezes' /\ row'.stage = "preflight_passed"
               /\ \A p \in Procs : proc'[p].step \notin {"cancel"} \cup Restoring
    BY <1>1, <1>3, <2>2 DEF Claims, WaitInv, Calm
  <2>3. QED BY <2>1, <2>2 DEF WaitInv
<1>7. EmptyInv' BY <1>1 DEF Claims, EmptyInv
<1>8. HideInv' BY <1>1, <1>2, <1>4 DEF Claims, HideInv, Calm
<1>9. MarkInv' BY <1>2 DEF Claims, MarkInv, Calm
<1>10. QED BY <1>5, <1>6, <1>7, <1>8, <1>9 DEF Claims

\* A turn to a plain step is calm.
LEMMA PlainIsCalm ==
  ASSUME NEW p \in Procs, Turn(p), proc'[p].step \in Plain
  PROVE  Calm
<1>1. \A q \in Procs : proc'[q] = proc[q] \/ proc'[q].step \in Plain BY DEF Turn
<1>2. Plain \cap ({"declare", "cancel", "enable", "enable_link"} \cup Restoring \cup FreezeSteps) = {} BY DEF Plain
<1>3. Loading \subseteq FreezeSteps /\ "mark" \in FreezeSteps BY DEF Loading, FreezeSteps, FirstTry, Again
<1>4. QED BY <1>1, <1>2, <1>3, ProcNames DEF Calm, Enables, Enabling, At

\* A turn after which the task is declared.
LEMMA TurnDeclared ==
  ASSUME Declared, NEW p \in Procs, Turn(p), proc'[p].step # "declare", phase' # "none"
  PROVE  Declared' /\ FreshInv'
<1>1. Declared' BY StaysDeclared DEF Turn
<1>2. QED BY <1>1 DEF FreshInv

\* A plain turn of a process of a declared task.
LEMMA PlainStep ==
  ASSUME CurrentInv, Declared, NEW p \in Procs, Turn(p), proc'[p].step \in Plain,
         UNCHANGED <<lock, site, link, loaded, dump>>,
         row'.stage = row.stage, row' = row \/ (Exists /\ Exists'), phase' # "none"
  PROVE  CurrentInv'
<1>1. proc'[p].step # "declare" BY DEF Plain
<1>2. Declared' /\ FreshInv' BY <1>1, TurnDeclared
<1>3. Claims' BY <1>2, CalmStep, PlainIsCalm DEF CurrentInv
<1>4. QED BY <1>2, <1>3 DEF CurrentInv

\* Whoever is at a step of the task finds it declared.
LEMMA AtTask ==
  ASSUME CurrentInv, NEW p \in Procs, Exists \/ (p # Tasks /\ proc[p].step \notin {"idle", "declare"})
  PROVE  Declared /\ phase # "none"
<1>1. Declared BY DEF CurrentInv, FreshInv
<1>2. QED BY <1>1 DEF Declared

\* A task that holds its lock exists.
LEMMA LockedExists ==
  ASSUME CurrentInv, lock = "active"
  PROVE  Exists /\ Declared /\ ~Over
<1>1. Exists BY DEF CurrentInv, Claims, TaskInv
<1>2. QED BY <1>1 DEF CurrentInv, FreshInv, Over

-----------------------------------------------------------------------------
\* The steps of the worker that freeze nothing.

\* A failure of the preparation.
LEMMA FailsOn ==
  ASSUME TypeInv, CurrentInv, PrepareFailed, proc[Worker].step # "idle", UNCHANGED <<lock, site, link, loaded, dump, targetVars>>
  PROVE  CurrentInv'
<1>1. /\ Worker \in Procs /\ Worker # Tasks /\ proc \in [Procs -> ProcRecords] /\ row \in RowRecords
      /\ proc[Worker].step # "declare"
  BY ProcNames, Typed DEF DataTypes, WorkerShape, WorkerSteps, CleanupSteps, FreezeSteps, FirstTry, Again, Restoring
<1>2. "release_failed" \in Plain /\ "release_failed" \in Steps
  BY DEF Plain, Steps, Restoring, FreezeSteps, FirstTry, Again
<1>3. Turn(Worker) /\ proc'[Worker].step = "release_failed" BY <1>1, <1>2, GotoEffect DEF PrepareFailed
<1>4. Declared /\ phase # "none" BY <1>1, AtTask
<1>5. row'.stage = row.stage /\ (row' = row \/ (Exists /\ Exists')) BY <1>1 DEF PrepareFailed, Exists, RowRecords
<1>6. QED BY <1>1, <1>2, <1>3, <1>4, <1>5, PlainStep DEF targetVars

\* Another step of the worker that changes at most the status and the lease.
LEMMA WorkerPlain ==
  ASSUME TypeInv, CurrentInv, Exists \/ proc[Worker].step # "idle", Turn(Worker), proc'[Worker].step \in Plain,
         UNCHANGED <<lock, site, link, loaded, dump, targetVars>>,
         row'.stage = row.stage, row' = row \/ (Exists /\ Exists')
  PROVE  CurrentInv'
<1>1. Worker \in Procs /\ Worker # Tasks /\ proc[Worker].step # "declare"
  BY ProcNames, Typed DEF WorkerShape, WorkerSteps, CleanupSteps, FreezeSteps, FirstTry, Again, Restoring
<1>2. Declared /\ phase # "none" BY <1>1, AtTask
<1>3. QED BY <1>1, <1>2, PlainStep DEF targetVars

\* Claim, Prepare, the end of the preparation, the call that queues B's task, release.
LEMMA WorkerQuiet ==
  ASSUME TypeInv, CurrentInv, ClaimNext \/ Prepare \/ MarkPrepared \/ QueueFails \/ HeartbeatRefused \/ ReleaseClaim
  PROVE  CurrentInv'
<1>1. Worker \in Procs /\ proc \in [Procs -> ProcRecords] /\ row \in RowRecords BY ProcNames, Typed DEF DataTypes
<1>2. {"prepare", "freeze", "manifest", "database", "release_failed", "await_queue", "scope", "idle"} \subseteq Plain
  BY DEF Plain, Steps, Restoring, FreezeSteps, FirstTry, Again
<1>3. \A s \in Plain : s \in Steps BY DEF Plain
<1>4. ASSUME NEW s \in {"prepare", "freeze", "manifest", "database", "release_failed", "await_queue"}, Goto(Worker, s)
      PROVE  Turn(Worker) /\ proc'[Worker].step \in Plain
  BY <1>1, <1>2, <1>3, <1>4, GotoEffect
<1>5. UNCHANGED <<lock, site, link, loaded, dump, targetVars>>
  BY DEF ClaimNext, Prepare, MarkPrepared, QueueFails, HeartbeatRefused, ReleaseClaim, dbVars, nginx, PrepareFailed
<1>6. Exists \/ proc[Worker].step # "idle"
  BY DEF ClaimNext, Prepare, MarkPrepared, QueueFails, HeartbeatRefused, ReleaseClaim, At, Exists
<1>7. row'.stage = row.stage
  BY <1>1 DEF ClaimNext, Prepare, MarkPrepared, QueueFails, HeartbeatRefused, ReleaseClaim, PrepareFailed, SetRow,
              dbVars, RowRecords
<1>8. row' = row \/ (Exists /\ Exists')
  <2>1. ~Exists => row.lease = "none" BY DEF CurrentInv, Claims, TaskInv, NoTask
  <2>2. QED BY <1>1, <2>1 DEF ClaimNext, Prepare, MarkPrepared, QueueFails, HeartbeatRefused, ReleaseClaim,
                               PrepareFailed, SetRow, dbVars, RowRecords, Exists
<1>9. CASE ClaimNext BY <1>4, <1>5, <1>6, <1>7, <1>8, <1>9, WorkerPlain DEF ClaimNext
<1>10. CASE Prepare
  <2>1. PICK s \in {"freeze", "manifest", "database", "release_failed"} : Goto(Worker, s)
    BY <1>10 DEF Prepare, PrepareStep
  <2>2. QED BY <1>4, <1>5, <1>6, <1>7, <1>8, <2>1, WorkerPlain
<1>11. CASE MarkPrepared BY <1>4, <1>5, <1>6, <1>7, <1>8, <1>11, WorkerPlain DEF MarkPrepared, PrepareFailed
<1>12. CASE QueueFails BY <1>4, <1>5, <1>6, <1>7, <1>8, <1>12, WorkerPlain DEF QueueFails
<1>13. CASE HeartbeatRefused BY <1>4, <1>5, <1>6, <1>7, <1>8, <1>13, WorkerPlain DEF HeartbeatRefused
<1>14. CASE ReleaseClaim
  <2>1. Turn(Worker) /\ proc'[Worker].step \in {"scope", "idle"}
    BY <1>1, <1>2, <1>3, <1>14, BeginEffect, EndsEffect DEF ReleaseClaim, Ops
  <2>2. QED BY <1>2, <1>5, <1>6, <1>7, <1>8, <2>1, WorkerPlain
<1>15. QED BY <1>9, <1>10, <1>11, <1>12, <1>13, <1>14

-----------------------------------------------------------------------------
\* The steps that freeze the site.  There is no copy while they run.

\* What the worker finds at a step of a freeze.
LEMMA FreezeFacts ==
  ASSUME TypeInv, CurrentInv, Freezes
  PROVE  /\ Worker \in Procs /\ Worker # Tasks /\ proc \in [Procs -> ProcRecords] /\ row \in RowRecords
         /\ proc[Worker].step \notin {"idle", "declare"} /\ Declared /\ phase # "none"
         /\ dump = "none" /\ ~Copying /\ (Enables => Over)
<1>1. Worker \in Procs /\ Worker # Tasks /\ proc \in [Procs -> ProcRecords] /\ row \in RowRecords
  BY ProcNames, Typed DEF DataTypes
<1>2. proc[Worker].step \notin {"idle", "declare"} BY DEF Freezes, FreezeSteps, FirstTry, Again
<1>3. Declared /\ phase # "none" BY <1>1, <1>2, AtTask
<1>4. dump = "none" /\ ~Copying /\ (Enables => Over) BY DEF CurrentInv, Claims, EmptyInv, HideInv, WaitInv
<1>5. QED BY <1>1, <1>2, <1>3, <1>4

\* A step of a freeze leaves a site without a copy; what it does to the link
\* and to nginx matters only to the mark.
LEMMA FreezeMoves ==
  ASSUME TypeInv, CurrentInv, Freezes, Turn(Worker), proc'[Worker].step \in FreezeSteps \cup Plain,
         UNCHANGED <<lock, site, dump, targetVars>>, row' \in RowRecords, row'.status = "gone" <=> row.status = "gone",
         row' = row \/ Exists, row'.stage = row.stage \/ (IsFreezing /\ row'.stage \in Tries), MarkInv'
  PROVE  CurrentInv'
<1>1. /\ Worker \in Procs /\ Worker # Tasks /\ Declared /\ phase # "none" /\ Tasks \in Procs
      /\ dump = "none" /\ ~Copying /\ (Enables => Over)
  BY FreezeFacts, ProcNames
<1>2. \A q \in Procs : proc'[q].step \in Restoring => proc[q].step \in Restoring
  BY DEF Turn, Plain, FreezeSteps, FirstTry, Again, Restoring
<1>3. proc'[Worker].step # "declare" /\ proc'[Tasks] = proc[Tasks] BY <1>1 DEF Turn, Plain, FreezeSteps, FirstTry, Again
<1>4. Declared' /\ FreshInv' BY <1>1, <1>3, TurnDeclared DEF targetVars
<1>5. (Exists' <=> Exists) /\ ~Copying' BY <1>1 DEF Exists, Copying, CopyStages, Tries
<1>6. TaskInv'
  <2>1. Over => Over' BY <1>4 DEF Over
  <2>2. Undoes' => Undoes BY <1>2 DEF Undoes
  <2>3. Ended => Ended' BY <1>4, <1>5 DEF Ended, IsFreezing
  <2>4. ~Exists' => row' = NoTask /\ lock' = "none" BY <1>5 DEF CurrentInv, Claims, TaskInv
  <2>5. QED BY <1>3, <2>1, <2>2, <2>3, <2>4 DEF CurrentInv, Claims, TaskInv, Enabling, At
<1>7. WaitInv' BY <1>1, <1>3, <1>4 DEF WaitInv, Enables, Over
<1>8. EmptyInv' BY <1>1 DEF EmptyInv
<1>9. HideInv' BY <1>1, <1>5 DEF HideInv
<1>10. QED BY <1>4, <1>6, <1>7, <1>8, <1>9 DEF CurrentInv, Claims

\* A step of a freeze whose next step is s.
LEMMA FreezeGoesTo ==
  ASSUME TypeInv, CurrentInv, Freezes, NEW s \in FreezeSteps \cup {"release_failed", "manifest"}, Goto(Worker, s)
  PROVE  Turn(Worker) /\ proc'[Worker].step = s /\ s \in FreezeSteps \cup Plain
<1>1. s \in Steps BY FreezeStepsAreSteps DEF Steps
<1>2. s \in FreezeSteps \cup Plain BY <1>1 DEF Plain, FreezeSteps, FirstTry, Again, Restoring
<1>3. QED BY <1>1, <1>2, FreezeFacts, GotoEffect

\* The steps up to the mark, and the ones that undo them.
LEMMA FreezeWorks ==
  ASSUME TypeInv, CurrentInv, WriteMaintenance \/ SwapLink \/ Reload \/ Verify \/ UndoLink
  PROVE  CurrentInv'
<1>1. Freezes
  BY DEF WriteMaintenance, SwapLink, Reload, Verify, UndoLink, At, Freezes, FreezeSteps, FirstTry, Again
<1>2. UNCHANGED <<lock, site, dump, targetVars>>
  BY DEF WriteMaintenance, SwapLink, Reload, Verify, UndoLink, dbVars, nginx
<1>3. row' = row \/ PrepareFailed
  BY DEF WriteMaintenance, SwapLink, Reload, Verify, UndoLink, dbVars
<1>4. /\ row' \in RowRecords /\ (row'.status = "gone" <=> row.status = "gone") /\ (row' = row \/ Exists)
      /\ row'.stage = row.stage
  <2>1. row \in RowRecords BY <1>1, FreezeFacts
  <2>2. QED BY <1>3, <2>1, PrepareFailedTypes DEF PrepareFailed, Exists, RowRecords
<1>5. MarkInv BY DEF CurrentInv, Claims
<1>6. (IsFreezing' <=> IsFreezing) BY <1>4 DEF IsFreezing
<1>7. PICK s \in {"swap", "undo_rows", "reload", "verify", "verify_again", "mark", "undo_link", "restore_again", "release_failed"} :
        Goto(Worker, s) /\ (s \in Loading /\ lock = "active" /\ IsFreezing => link' # "site" /\ (s = "mark" => loaded' # "site"))
  <2>1. CASE WriteMaintenance BY <2>1 DEF WriteMaintenance, Loading
  <2>2. CASE SwapLink BY <2>2 DEF SwapLink, Loading
  <2>3. CASE Reload BY <1>5, <2>3 DEF Reload, Loading, MarkInv, PrepareFailed
  <2>4. CASE Verify BY <1>5, <2>4 DEF Verify, Loading, MarkInv, nginx
  <2>5. CASE UndoLink BY <2>5 DEF UndoLink, Loading, PrepareFailed
  <2>6. QED BY <2>1, <2>2, <2>3, <2>4, <2>5
<1>8. s \in FreezeSteps \cup {"release_failed", "manifest"} BY DEF FreezeSteps, FirstTry, Again
<1>9. Turn(Worker) /\ proc'[Worker].step = s /\ s \in FreezeSteps \cup Plain BY <1>1, <1>7, <1>8, FreezeGoesTo
<1>10. MarkInv' BY <1>2, <1>6, <1>7, <1>9 DEF MarkInv, At, Loading
<1>11. QED BY <1>1, <1>2, <1>4, <1>9, <1>10, FreezeMoves

\* UndoRows, and a mark that finds another stage.
LEMMA FreezeEnds ==
  ASSUME TypeInv, CurrentInv, UndoRows \/ (MarkFrozen /\ ~IsFreezing)
  PROVE  CurrentInv'
<1>1. Freezes BY DEF UndoRows, MarkFrozen, At, Freezes, FreezeSteps, FirstTry, Again
<1>2. /\ Worker \in Procs /\ proc \in [Procs -> ProcRecords] /\ row \in RowRecords /\ WorkerShape /\ TypeInv
  BY <1>1, FreezeFacts, Typed
<1>3. CASE UndoRows
  <2>1. Turn(Worker) /\ proc'[Worker].step = "release_failed"
    BY <1>2, <1>3, BeginEffect DEF UndoRows, Steps, Ops
  <2>2. "release_failed" \in Plain BY DEF Plain, Steps, Restoring, FreezeSteps, FirstTry, Again
  <2>3. MarkInv' BY <2>1 DEF MarkInv, Loading, At
  <2>4. proc[Worker].op \in Tries BY <1>2, <1>3 DEF UndoRows, At, WorkerShape, FirstTry
  <2>5. Tries \subseteq Stages BY DEF Tries, Stages
  <2>6. /\ row' \in RowRecords /\ (row'.status = "gone" <=> row.status = "gone")
        /\ row'.stage = row.stage \/ (IsFreezing /\ row'.stage \in Tries)
    BY <1>2, <1>3, <2>4, <2>5 DEF UndoRows, RowRecords, IsFreezing, Statuses
  <2>7. row' = row \/ Exists
    <3>1. ~Exists => row.stage = "preflight_passed" /\ row.status = "gone" BY DEF CurrentInv, Claims, TaskInv, NoTask
    <3>2. row.stage = "preflight_passed" /\ row.status = "gone" => row' = row BY <1>2, <1>3 DEF UndoRows, RowRecords
    <3>3. QED BY <3>1, <3>2
  <2>8. QED BY <1>1, <1>3, <2>1, <2>2, <2>3, <2>6, <2>7, FreezeMoves DEF UndoRows
<1>4. CASE MarkFrozen /\ ~IsFreezing
  <2>1. PICK s \in {"release_failed", "undo_link"} : Goto(Worker, s) BY <1>4 DEF MarkFrozen, IsFreezing
  <2>2. s \in FreezeSteps \cup {"release_failed", "manifest"} BY DEF FreezeSteps, FirstTry, Again
  <2>3. Turn(Worker) /\ proc'[Worker].step = s /\ s \in FreezeSteps \cup Plain BY <1>1, <2>1, <2>2, FreezeGoesTo
  <2>4. row' = row BY <1>4 DEF MarkFrozen, IsFreezing
  <2>5. MarkInv' BY <1>4, <2>4 DEF MarkInv, IsFreezing
  <2>6. QED BY <1>1, <1>2, <1>4, <2>3, <2>4, <2>5, FreezeMoves DEF MarkFrozen, nginx
<1>5. QED BY <1>3, <1>4

\* A task with its lock that is not ended: nobody restores the site, no task of
\* the website waits for it unless it has not been touched.
LEMMA Working ==
  ASSUME CurrentInv, lock = "active", row.stage \notin {"cancelling", "abandoned"}
  PROVE  Exists /\ Declared /\ ~Over /\ phase # "none" /\ ~Undoes /\ site # "migrated" /\ ~Enabling("migrated")
         /\ (row.stage # "preflight_passed" => ~Enables)
<1>1. Exists /\ Declared /\ ~Over BY LockedExists
<1>2. ~Undoes BY <1>1 DEF CurrentInv, Claims, TaskInv, Ended
<1>3. QED BY <1>1, <1>2 DEF CurrentInv, Claims, TaskInv, WaitInv, Declared

\* FreezeSource: a freeze starts without a copy.
LEMMA FreezeStarts ==
  ASSUME TypeInv, CurrentInv, FreezeSource
  PROVE  CurrentInv'
<1>1. /\ Worker \in Procs /\ Worker # Tasks /\ Tasks \in Procs /\ proc \in [Procs -> ProcRecords] /\ row \in RowRecords
  BY ProcNames, Typed DEF DataTypes
<1>2. proc[Worker].step = "freeze" /\ UNCHANGED <<lock, site, link, loaded, dump, targetVars>>
  BY DEF FreezeSource, At, nginx
<1>3. CASE PrepareFailed BY <1>2, <1>3, FailsOn
<1>4. CASE ~PrepareFailed
  <2>1. /\ lock = "active" /\ row.stage \in Tries /\ link # "none"
        /\ row'.stage = "source_freezing" /\ row'.status = row.status
        /\ Turn(Worker) /\ proc'[Worker].step \in {"reload_again", "write"}
        /\ proc'[Worker].step = "reload_again" => link = "maintenance"
    <3>1. CASE link = "maintenance" /\ row.stage = "source_freezing" /\ Goto(Worker, "reload_again") /\ row' = row
               /\ lock = "active"
      BY <1>1, <3>1, GotoEffect DEF Tries, Steps
    <3>2. CASE /\ link = "site" /\ SetRow(row.status, "source_freezing") /\ row.stage \in {"preflight_passed", "source_freezing"}
               /\ proc' = [proc EXCEPT ![Worker] = [step |-> "write", op |-> row.stage, undone |-> FALSE]]
               /\ lock = "active"
      <4>1. [step |-> "write", op |-> row.stage, undone |-> FALSE] \in ProcRecords BY <3>2 DEF ProcRecords, Steps, Ops, Tries
      <4>2. Turn(Worker) /\ proc'[Worker] = [step |-> "write", op |-> row.stage, undone |-> FALSE]
        BY <1>1, <3>2, <4>1 DEF Turn
      <4>3. proc'[Worker].step = "write" BY <4>2
      <4>4. QED BY <1>1, <3>2, <4>2, <4>3 DEF SetRow, RowRecords, Tries
    <3>3. QED BY <1>4, <3>1, <3>2 DEF FreezeSource
  <2>2. Exists /\ Declared /\ phase # "none" /\ ~Undoes /\ site # "migrated" /\ ~Enabling("migrated") /\ ~Over
    BY <2>1, Working DEF Tries
  <2>3. dump = "none" /\ ~Enables BY <2>1, <2>2 DEF CurrentInv, Claims, EmptyInv, WaitInv
  <2>4. Declared' /\ FreshInv' BY <1>1, <1>2, <2>1, <2>2, TurnDeclared DEF targetVars
  <2>5. proc'[Tasks] = proc[Tasks] BY <1>1, <2>1 DEF Turn
  <2>6. ~Undoes' BY <2>1, <2>2 DEF Undoes, Turn, Restoring
  <2>7. Exists' /\ ~Enables' /\ ~Enabling("migrated")' BY <2>1, <2>2, <2>3, <2>5 DEF Exists, Enables, Enabling
  <2>8. TaskInv' BY <1>2, <2>2, <2>5, <2>6, <2>7 DEF TaskInv, CurrentInv, Claims, At
  <2>9. WaitInv' BY <2>4, <2>7 DEF WaitInv
  <2>10. EmptyInv' BY <1>2, <2>3 DEF EmptyInv
  <2>11. HideInv' BY <1>2, <2>1, <2>3 DEF HideInv, Copying, CopyStages
  <2>12. MarkInv' BY <1>2, <2>1 DEF MarkInv, Loading, At
  <2>13. QED BY <2>4, <2>8, <2>9, <2>10, <2>11, <2>12 DEF CurrentInv, Claims
<1>5. QED BY <1>3, <1>4

\* MarkFrozen: the site is hidden from now on, if the task still owns it.
LEMMA FreezeMarks ==
  ASSUME TypeInv, CurrentInv, MarkFrozen, IsFreezing
  PROVE  CurrentInv'
<1>1. Freezes BY DEF MarkFrozen, At, Freezes, FreezeSteps
<1>2. /\ Worker \in Procs /\ Worker # Tasks /\ Tasks \in Procs /\ proc \in [Procs -> ProcRecords] /\ row \in RowRecords
      /\ Declared /\ phase # "none" /\ dump = "none" /\ (Enables => Over)
  BY <1>1, FreezeFacts, ProcNames
<1>3. UNCHANGED <<lock, site, link, loaded, dump, targetVars>> BY DEF MarkFrozen, nginx
<1>4. row'.stage = "source_frozen" /\ row'.status = row.status BY <1>2 DEF MarkFrozen, IsFreezing, SetRow, RowRecords
<1>5. Turn(Worker) /\ proc'[Worker].step = "manifest" BY <1>2, BeginEffect DEF MarkFrozen, IsFreezing, Steps, Ops
<1>6. "manifest" \in Plain BY DEF Plain, Steps, Restoring, FreezeSteps, FirstTry, Again
<1>7. Exists BY DEF CurrentInv, Claims, TaskInv, NoTask, IsFreezing
<1>8. ~Undoes BY <1>7 DEF CurrentInv, Claims, TaskInv, Ended, IsFreezing
<1>9. lock = "active" => Hidden BY <1>2 DEF CurrentInv, Claims, MarkInv, MarkFrozen, At, Loading, Hidden
<1>10. Declared' /\ FreshInv' BY <1>2, <1>3, <1>5, TurnDeclared DEF targetVars
<1>11. Calm /\ proc'[Tasks] = proc[Tasks] BY <1>2, <1>5, <1>6, PlainIsCalm DEF Turn
<1>12. ~Undoes' /\ ~Freezes' BY <1>5, <1>6, <1>8, <1>11, CalmFacts DEF Freezes, Plain
<1>13. (Over => Over') /\ Exists' BY <1>3, <1>4, <1>7, <1>10 DEF Over, Exists
<1>14. TaskInv' BY <1>3, <1>11, <1>12, <1>13 DEF CurrentInv, Claims, TaskInv, Enabling, At
<1>15. WaitInv' BY <1>2, <1>10, <1>11, <1>13 DEF WaitInv, Enables
<1>16. EmptyInv' BY <1>2, <1>3 DEF EmptyInv
<1>17. HideInv' BY <1>2, <1>3, <1>9, <1>12 DEF HideInv, Hidden
<1>18. MarkInv' BY <1>4 DEF MarkInv, IsFreezing
<1>19. QED BY <1>10, <1>14, <1>15, <1>16, <1>17, <1>18 DEF CurrentInv, Claims

-----------------------------------------------------------------------------
\* The steps that copy.  The site is hidden when they start and stays so.

\* The task goes on to copy.
LEMMA CopyMoves ==
  ASSUME TypeInv, CurrentInv, lock = "active", row.stage \in CopyStages, Hidden, Hidden',
         Turn(Worker), proc'[Worker].step \in Plain, Exists', row'.stage \in CopyStages \ {"source_frozen"},
         UNCHANGED <<lock, site, targetVars>>
  PROVE  CurrentInv'
<1>1. Worker \in Procs /\ Worker # Tasks /\ Tasks \in Procs BY ProcNames
<1>2. /\ Declared /\ phase # "none" /\ ~Undoes /\ site # "migrated" /\ ~Enabling("migrated") /\ ~Enables
  BY Working DEF CopyStages
<1>3. proc'[Tasks] = proc[Tasks] BY <1>1 DEF Turn
<1>4. Declared' /\ FreshInv' BY <1>1, <1>2, TurnDeclared DEF targetVars, Plain
<1>5. ~Freezes' /\ ~Undoes' BY <1>2 DEF Freezes, Undoes, Turn, Plain
<1>6. ~Enables' /\ ~Enabling("migrated")' BY <1>2, <1>3 DEF Enables, Enabling
<1>7. TaskInv' BY <1>2, <1>3, <1>5, <1>6 DEF TaskInv, CurrentInv, Claims, At
<1>8. WaitInv' BY <1>4, <1>6 DEF WaitInv
<1>9. EmptyInv' BY <1>5 DEF EmptyInv, CopyStages, Tries
<1>10. HideInv' BY <1>5 DEF HideInv
<1>11. MarkInv' BY DEF MarkInv, IsFreezing, CopyStages
<1>12. QED BY <1>4, <1>7, <1>8, <1>9, <1>10, <1>11 DEF CurrentInv, Claims

\* BuildManifest and BuildDatabase, and what the database leaves when it fails.
LEMMA Builds ==
  ASSUME TypeInv, CurrentInv, BuildManifest \/ BuildDatabase
  PROVE  CurrentInv'
<1>1. Worker \in Procs /\ proc \in [Procs -> ProcRecords] /\ row \in RowRecords BY ProcNames, Typed DEF DataTypes
<1>2. UNCHANGED <<lock, site, link, loaded, targetVars>> /\ proc[Worker].step # "idle"
  BY DEF BuildManifest, BuildDatabase, nginx, At
<1>3. CASE PrepareFailed /\ UNCHANGED dump BY <1>2, <1>3, FailsOn
<1>4. CASE ~(PrepareFailed /\ UNCHANGED dump)
  <2>1. /\ lock = "active" /\ row.stage \in CopyStages /\ row'.stage \in CopyStages \ {"source_frozen"}
        /\ row'.status = row.status \/ row'.status = "failed_retryable"
    BY <1>1, <1>4 DEF BuildManifest, BuildDatabase, SetRow, CopyStages, RowRecords
  <2>2. dump' \in {dump, "current"} BY <1>4 DEF BuildManifest, BuildDatabase
  <2>3. Hidden /\ Hidden'
    <3>1. Hidden BY <2>1 DEF CurrentInv, Claims, HideInv, Copying
    <3>2. QED BY <1>2, <2>2, <3>1 DEF Hidden
  <2>4. Exists' BY <2>1, LockedExists DEF Exists
  <2>5. PICK s \in {"database", "prepared", "release_failed"} : Goto(Worker, s)
    BY <1>4 DEF BuildManifest, BuildDatabase
  <2>6. s \in Plain /\ s \in Steps BY DEF Plain, Steps, Restoring, FreezeSteps, FirstTry, Again
  <2>7. Turn(Worker) /\ proc'[Worker].step \in Plain BY <1>1, <2>5, <2>6, GotoEffect
  <2>8. QED BY <1>2, <2>1, <2>3, <2>4, <2>7, CopyMoves
<1>5. QED BY <1>3, <1>4

\* Every step of the worker.
LEMMA WorkerStepCurrent ==
  ASSUME TypeInv, CurrentInv, WorkerStep
  PROVE  CurrentInv'
BY WorkerQuiet, FreezeWorks, FreezeEnds, FreezeStarts, FreezeMarks, Builds DEF WorkerStep

-----------------------------------------------------------------------------
\* The steps of a cancellation.  There is no copy while the site is restored.

\* The rest of what may be asked of a cleanup.
LEMMA CleanupFacts ==
  ASSUME TypeInv, CurrentInv, NEW p \in Procs, proc[p].step \in CleanupSteps
  PROVE  /\ p # Tasks /\ Declared /\ phase # "none" /\ proc \in [Procs -> ProcRecords] /\ row \in RowRecords
         /\ Worker \in Procs /\ Tasks \in Procs /\ Worker # Tasks
<1>1. p # Tasks BY DEF TypeInv, ProcTypes, TasksShape, TaskSteps, CleanupSteps, Restoring
<1>2. proc[p].step \notin {"idle", "declare"} BY DEF CleanupSteps, Restoring
<1>3. Declared /\ phase # "none" BY <1>1, <1>2, AtTask
<1>4. QED BY <1>1, <1>3, ProcNames, Typed DEF DataTypes

\* The steps of a cleanup that are not the restoration itself.
LEMMA PlainCleanup == {"idle", "scope", "abandon", "references", "forget"} \subseteq Plain
BY DEF Plain, Steps, Restoring, FreezeSteps, FirstTry, Again

\* LoadTaskCleanupScope, LoadAbandon: the site can be restored only when it is
\* in maintenance or being cancelled, and no task of the website waits then.
LEMMA LoadsCurrent ==
  ASSUME TypeInv, CurrentInv, NEW p \in Procs, LoadTaskCleanupScope(p) \/ LoadAbandon(p)
  PROVE  CurrentInv'
<1>1. proc[p].step \in CleanupSteps BY DEF LoadTaskCleanupScope, LoadAbandon, At, CleanupSteps
<1>2. /\ p # Tasks /\ Declared /\ phase # "none" /\ proc \in [Procs -> ProcRecords]
      /\ Worker \in Procs /\ Tasks \in Procs /\ Worker # Tasks
  BY <1>1, CleanupFacts
<1>3. UNCHANGED <<row, lock, site, link, loaded, dump, targetVars>>
  BY DEF LoadTaskCleanupScope, LoadAbandon, dbVars, nginx
<1>4. CASE Ends(p) \/ Goto(p, "abandon") \/ Goto(p, "references")
  <2>1. Turn(p) /\ proc'[p].step \in {"idle", "abandon", "references"}
    BY <1>2, <1>4, EndsEffect, GotoEffect DEF Steps
  <2>2. QED BY <1>2, <1>3, <2>1, PlainStep, PlainCleanup DEF targetVars
<1>5. CASE /\ Exists /\ Abandonable
           /\ proc' = [proc EXCEPT ![p].step = "cancel", ![p].undone = AlreadyRestored]
  <2>1. Turn(p) /\ proc'[p].step = "cancel" BY <1>2, <1>5, CancelEffect
  <2>2. lock = "active" /\ (link = "maintenance" \/ row.stage = "cancelling")
    BY <1>5 DEF Abandonable, AlreadyRestored
  <2>3. ~Over /\ ~Enables
    <3>1. ~Over BY <2>2 DEF Over
    <3>2. QED BY <2>2, <3>1 DEF CurrentInv, Claims, WaitInv
  <2>4. proc'[Tasks] = proc[Tasks] BY <1>2, <2>1 DEF Turn
  <2>5. \A q \in Procs : proc'[q] = proc[q] \/ (q = p /\ proc'[q].step = "cancel") BY <2>1 DEF Turn
  <2>6. Declared' /\ FreshInv' BY <1>2, <1>3, <2>1, TurnDeclared DEF targetVars
  <2>7. (Undoes' => Undoes) /\ (Freezes' => Freezes)
    BY <1>2, <2>5 DEF Undoes, Restoring, Freezes, FreezeSteps, FirstTry, Again
  <2>8. TaskInv' BY <1>3, <2>4, <2>6, <2>7 DEF CurrentInv, Claims, TaskInv, Ended, Exists, Over, Enabling, At
  <2>9. WaitInv' BY <2>3, <2>4, <2>6 DEF WaitInv, Enables
  <2>10. EmptyInv' BY <1>3, <2>7 DEF CurrentInv, Claims, EmptyInv
  <2>11. HideInv' BY <1>3, <2>4, <2>7 DEF CurrentInv, Claims, HideInv, Copying, Hidden, Enabling
  <2>12. MarkInv' BY <1>2, <1>3, <2>5 DEF CurrentInv, Claims, MarkInv, IsFreezing, Loading, At
  <2>13. QED BY <2>6, <2>8, <2>9, <2>10, <2>11, <2>12 DEF CurrentInv, Claims
<1>6. QED BY <1>4, <1>5 DEF LoadTaskCleanupScope, LoadAbandon

\* A cancellation at work: the task is ended and there is no copy, so that
\* what visitors get does not matter.
LEMMA UndoMoves ==
  ASSUME CurrentInv, NEW p \in Procs, p # Tasks, Declared, phase # "none", dump' = "none", Enables => Over,
         Turn(p), proc'[p].step \in Restoring \cup {"idle"}, UNCHANGED <<lock, site, targetVars>>,
         ~Exists' => row' = NoTask /\ lock' = "none", ~Exists' \/ row'.stage \in {"cancelling", "abandoned"}
  PROVE  CurrentInv'
<1>1. Tasks \in Procs /\ proc'[Tasks] = proc[Tasks] BY ProcNames DEF Turn
<1>2. proc'[p].step # "declare" BY DEF Restoring
<1>3. Declared' /\ FreshInv' BY <1>2, TurnDeclared DEF targetVars
<1>4. Ended' /\ (Over => Over') BY <1>3 DEF Ended, Over
<1>5. row'.stage \notin CopyStages \cup Tries \/ (row'.stage = "preflight_passed" /\ lock' = "none")
  BY DEF NoTask, CopyStages, Tries
<1>6. TaskInv' BY <1>1, <1>4 DEF CurrentInv, Claims, TaskInv, Enabling, At
<1>7. WaitInv' BY <1>1, <1>3, <1>4 DEF WaitInv, Enables
<1>8. EmptyInv' BY DEF EmptyInv
<1>9. HideInv' BY <1>5 DEF HideInv, Copying, CopyStages
<1>10. MarkInv' BY <1>5 DEF MarkInv, IsFreezing, Tries
<1>11. QED BY <1>3, <1>6, <1>7, <1>8, <1>9, <1>10 DEF CurrentInv, Claims

\* RestoreLink, RestoreReload, RestoreFile.
LEMMA RestoresCurrent ==
  ASSUME TypeInv, CurrentInv, NEW p \in Procs, RestoreLink(p) \/ RestoreReload(p) \/ RestoreFile(p)
  PROVE  CurrentInv'
<1>1. proc[p].step \in Restoring /\ proc[p].step \in CleanupSteps
  BY DEF RestoreLink, RestoreReload, RestoreFile, At, Restoring, CleanupSteps
<1>2. p # Tasks /\ Declared /\ phase # "none" /\ proc \in [Procs -> ProcRecords] BY <1>1, CleanupFacts
<1>3. UNCHANGED <<row, lock, site, dump, targetVars>> BY DEF RestoreLink, RestoreReload, RestoreFile, dbVars
<1>4. Undoes BY <1>1 DEF Undoes
<1>5. dump = "none" /\ Ended /\ (Enables => Over) BY <1>1, <1>4 DEF CurrentInv, Claims, EmptyInv, TaskInv, WaitInv
<1>6. Ends(p) \/ \E s \in {"restore_reload", "restore_file", "restore_rows"} : Goto(p, s)
  BY DEF RestoreLink, RestoreReload, RestoreFile, BackToMaintenance
<1>7. Turn(p) /\ proc'[p].step \in Restoring \cup {"idle"}
  BY <1>2, <1>6, EndsEffect, GotoEffect DEF Steps, Restoring
<1>8. /\ ~Exists' => row' = NoTask /\ lock' = "none"
      /\ ~Exists' \/ row'.stage \in {"cancelling", "abandoned"}
  BY <1>3, <1>5 DEF CurrentInv, Claims, TaskInv, Ended, Exists
<1>9. QED BY <1>2, <1>3, <1>5, <1>7, <1>8, UndoMoves

\* CancelSource: the copy goes before the site is shown again.
LEMMA CancelCurrent ==
  ASSUME TypeInv, CurrentInv, NEW p \in Procs, CancelSource(p)
  PROVE  CurrentInv'
<1>1. proc[p].step \in CleanupSteps /\ proc[p].step = "cancel" BY DEF CancelSource, At, CleanupSteps
<1>2. /\ p # Tasks /\ Declared /\ phase # "none" /\ proc \in [Procs -> ProcRecords] /\ row \in RowRecords
      /\ Worker \in Procs /\ Tasks \in Procs /\ Worker # Tasks
  BY <1>1, CleanupFacts
<1>3. UNCHANGED <<lock, site, link, loaded, targetVars>> BY DEF CancelSource, nginx
<1>4. Enables => Over BY <1>1 DEF CurrentInv, Claims, WaitInv
<1>5. CASE SetRow("cancelling", "cancelling") /\ dump' = "none"
           /\ Goto(p, IF proc[p].undone THEN "restore_reload" ELSE "restore_link")
  <2>1. Exists' /\ row'.stage = "cancelling" BY <1>2, <1>5 DEF SetRow, RowRecords, Exists
  <2>2. Turn(p) /\ proc'[p].step \in Restoring BY <1>2, <1>5, GotoEffect DEF Steps, Restoring
  <2>3. QED BY <1>2, <1>3, <1>4, <1>5, <2>1, <2>2, UndoMoves
<1>6. CASE Ends(p) /\ dump' = dump /\ (row' = row \/ (Exists /\ SetRow("cleanup_failed", "cancelling")))
  <2>1. Turn(p) /\ proc'[p].step = "idle" /\ "idle" \in Plain BY <1>2, <1>6, EndsEffect, PlainCleanup
  <2>2. CASE row' = row BY <1>2, <1>3, <1>6, <2>1, <2>2, PlainStep DEF targetVars
  <2>3. CASE Exists /\ SetRow("cleanup_failed", "cancelling")
    <3>1. Exists' /\ row'.stage = "cancelling" BY <1>2, <2>3 DEF SetRow, RowRecords, Exists
    <3>2. Calm /\ proc'[Tasks] = proc[Tasks] BY <1>2, <2>1, PlainIsCalm DEF Turn
    <3>3. (Freezes' => Freezes) /\ (Undoes' => Undoes) BY <3>2, CalmFacts
    <3>4. Declared' /\ FreshInv' BY <1>2, <1>3, <2>1, TurnDeclared DEF targetVars
    <3>5. Ended' /\ (Over => Over') BY <1>3, <3>1, <3>4 DEF Ended, Over
    <3>6. TaskInv' BY <1>3, <3>1, <3>2, <3>5 DEF CurrentInv, Claims, TaskInv, Enabling, At
    <3>7. WaitInv' BY <1>4, <3>2, <3>4, <3>5 DEF WaitInv, Enables
    <3>8. EmptyInv' BY <1>3, <1>6, <3>1, <3>3 DEF CurrentInv, Claims, EmptyInv, Tries
    <3>9. HideInv' BY <1>3, <1>6, <3>1, <3>2 DEF CurrentInv, Claims, HideInv, Hidden, Copying, CopyStages, Enabling
    <3>10. MarkInv' BY <3>1 DEF MarkInv, IsFreezing
    <3>11. QED BY <3>4, <3>6, <3>7, <3>8, <3>9, <3>10 DEF CurrentInv, Claims
  <2>4. QED BY <1>6, <2>2, <2>3
<1>7. QED BY <1>5, <1>6 DEF CancelSource

\* The task gives the website back, or is forgotten, or is completed: the copy
\* stays only for a site that is hidden.
LEMMA LockGoes ==
  ASSUME CurrentInv, Declared', FreshInv', Calm, lock' # "active", UNCHANGED <<link, loaded, dump>>,
         ~Exists' => row' = NoTask /\ lock' = "none", Undoes' => Ended', Copying' => Copying,
         site' = site \/ (site' = "migrated" /\ Hidden /\ ~At(Tasks, "enable_link"))
  PROVE  CurrentInv'
<1>1. Over' /\ (Hidden' <=> Hidden) BY DEF Over, Hidden
<1>2. (Freezes' => Freezes) /\ (Undoes' => Undoes) BY CalmFacts
<1>3. TaskInv' BY <1>1 DEF CurrentInv, Claims, TaskInv, Calm
<1>4. WaitInv' BY <1>1 DEF WaitInv
<1>5. EmptyInv' BY <1>2 DEF CurrentInv, Claims, EmptyInv
<1>6. HideInv' BY <1>1, <1>2 DEF CurrentInv, Claims, HideInv, Calm
<1>7. MarkInv' BY DEF MarkInv
<1>8. QED BY <1>3, <1>4, <1>5, <1>6, <1>7 DEF CurrentInv, Claims

\* The row of a task that is forgotten.
LEMMA ForgottenRow ==
  ASSUME Forgotten
  PROVE  ~Exists' /\ row' = NoTask /\ lock' = "none" /\ ~Copying'
BY DEF Forgotten, Exists, NoTask, Copying, CopyStages

\* RestoreRows, ReleaseReferences, ForgetTask.
LEMMA ReleasesCurrent ==
  ASSUME TypeInv, CurrentInv, NEW p \in Procs, RestoreRows(p) \/ ReleaseReferences(p) \/ ForgetTask(p)
  PROVE  CurrentInv'
<1>1. proc[p].step \in CleanupSteps
  BY DEF RestoreRows, ReleaseReferences, ForgetTask, At, CleanupSteps, Restoring
<1>2. /\ p # Tasks /\ Declared /\ phase # "none" /\ proc \in [Procs -> ProcRecords] /\ row \in RowRecords
  BY <1>1, CleanupFacts
<1>3. UNCHANGED <<site, link, loaded, dump, targetVars>> BY DEF RestoreRows, ReleaseReferences, ForgetTask, nginx
<1>4. Turn(p) /\ proc'[p].step \in {"idle", "forget"}
  <2>1. Ends(p) \/ Goto(p, "forget") BY DEF RestoreRows, ReleaseReferences, ForgetTask
  <2>2. QED BY <1>2, <2>1, EndsEffect, GotoEffect DEF Steps
<1>5. Calm /\ proc'[p].step \in Plain /\ proc'[p].step # "declare" BY <1>4, PlainCleanup, PlainIsCalm
<1>6. Declared' /\ FreshInv' BY <1>2, <1>3, <1>4, <1>5, TurnDeclared DEF targetVars
<1>7. CASE row' = row /\ lock' = lock
  BY <1>2, <1>3, <1>4, <1>5, <1>7, PlainStep DEF targetVars
<1>8. CASE SetRow("abandoned", "abandoned") /\ lock' = "released"
  <2>1. Exists' /\ row'.stage = "abandoned" BY <1>2, <1>8 DEF SetRow, RowRecords, Exists
  <2>2. Ended' /\ ~Copying' BY <1>6, <2>1 DEF Ended, Copying, CopyStages
  <2>3. QED BY <1>3, <1>5, <1>6, <1>8, <2>1, <2>2, LockGoes
<1>9. CASE Exists /\ row' = [row EXCEPT !.lease = "none"] /\ lock' = "released"
  <2>1. Exists' /\ row'.stage = row.stage BY <1>2, <1>9 DEF RowRecords, Exists
  <2>2. Undoes => row.stage \in {"cancelling", "abandoned"} BY <1>9 DEF CurrentInv, Claims, TaskInv, Ended
  <2>3. Undoes' => Ended' BY <1>5, <1>6, <2>1, <2>2, CalmFacts DEF Ended
  <2>4. Copying' => Copying BY <2>1 DEF Copying
  <2>5. QED BY <1>3, <1>5, <1>6, <1>9, <2>1, <2>3, <2>4, LockGoes
<1>10. CASE Forgotten
  <2>1. ~Exists' /\ row' = NoTask /\ lock' = "none" /\ ~Copying' BY <1>10, ForgottenRow
  <2>2. Ended' BY <1>6, <2>1 DEF Ended
  <2>3. QED BY <1>3, <1>5, <1>6, <2>1, <2>2, LockGoes
<1>11. QED BY <1>7, <1>8, <1>9, <1>10 DEF RestoreRows, ReleaseReferences, ForgetTask

\* Every step of a cleanup.
LEMMA CleanupStepCurrent ==
  ASSUME TypeInv, CurrentInv, NEW p \in Procs, CleanupStep(p)
  PROVE  CurrentInv'
BY LoadsCurrent, CancelCurrent, RestoresCurrent, ReleasesCurrent DEF CleanupStep

-----------------------------------------------------------------------------
\* Requests.

\* What a handler is not.
LEMMA HandlerFacts ==
  ASSUME TypeInv, CurrentInv, NEW h \in Handlers
  PROVE  /\ h \in Procs /\ h # Tasks /\ h # Worker /\ proc \in [Procs -> ProcRecords] /\ row \in RowRecords
         /\ Worker \in Procs /\ Tasks \in Procs /\ Worker # Tasks
         /\ (proc[h].step \notin {"idle", "declare"} => Declared /\ phase # "none")
         /\ (Exists => Declared /\ phase # "none")
<1>1. h \in Procs /\ h # Tasks /\ h # Worker /\ Worker \in Procs /\ Tasks \in Procs /\ Worker # Tasks
  BY ProcNames, SiteMigrationAssumption DEF Worker, Tasks
<1>2. QED BY <1>1, Typed, AtTask DEF DataTypes

\* The steps of a request.
LEMMA PlainRequest == {"idle", "queue", "scope", "await_abandon", "abandon", "release"} \subseteq Plain
BY DEF Plain, Steps, Restoring, FreezeSteps, FirstTry, Again

\* Start: from here on there is a task of B; one request declares that of A.
LEMMA StartCurrent ==
  ASSUME TypeInv, CurrentInv, NEW h \in Handlers, Start(h)
  PROVE  CurrentInv'
<1>1. /\ h \in Procs /\ h # Tasks /\ h # Worker /\ proc \in [Procs -> ProcRecords]
      /\ Worker \in Procs /\ Tasks \in Procs /\ Worker # Tasks
  BY HandlerFacts
<1>2. phase = "none" /\ ~Declared /\ phase' # "none" BY DEF Start, CreateTarget, Declared
<1>3. UNCHANGED <<row, lock, site, link, loaded, dump>> BY DEF Start, dbVars, nginx
<1>4. Turn(h) /\ proc'[h].step \in {"idle", "declare"}
  BY <1>1, BeginEffect, EndsEffect DEF Start, Steps, Ops
<1>5. \A q \in Procs : proc'[q] = proc[q] \/ (q = h /\ proc'[q].step \in {"idle", "declare"}) BY <1>4 DEF Turn
<1>6. Calm
  BY <1>1, <1>5 DEF Calm, Enables, Enabling, At, Restoring, FreezeSteps, FirstTry, Again, Loading
<1>7. Claims' BY <1>2, <1>3, <1>6, CalmStep DEF CurrentInv
<1>8. FreshInv'
  <2>1. /\ ~Exists /\ dump = "none" /\ link # "maintenance" /\ loaded # "maintenance"
        /\ site # "migrated" /\ ~Enabling("migrated")
        /\ \A p \in Procs \ {Tasks} : proc[p].step \in {"idle", "declare"}
        /\ \A p \in Procs : ~At(p, "declare")
    BY <1>2 DEF CurrentInv, FreshInv
  <2>2. \A p \in Procs \ {Tasks} : proc'[p].step \in {"idle", "declare"} BY <1>5, <2>1
  <2>3. \A p \in Procs : At(p, "declare")' => p = h BY <1>5, <2>1 DEF At
  <2>4. proc'[Tasks] = proc[Tasks] BY <1>1, <1>5
  <2>5. QED BY <1>2, <1>3, <2>1, <2>2, <2>3, <2>4 DEF FreshInv, Exists, Enabling
<1>9. QED BY <1>7, <1>8 DEF CurrentInv

\* DeclareBatch: a task of the website that waits found no maintenance page.
LEMMA DeclareCurrent ==
  ASSUME TypeInv, CurrentInv, NEW h \in Handlers, DeclareBatch(h)
  PROVE  CurrentInv'
<1>1. /\ h \in Procs /\ h # Tasks /\ h # Worker /\ proc \in [Procs -> ProcRecords]
      /\ Worker \in Procs /\ Tasks \in Procs /\ Worker # Tasks
  BY HandlerFacts
<1>2. At(h, "declare") /\ UNCHANGED <<site, link, loaded, dump, targetVars>> BY DEF DeclareBatch, nginx
<1>3. ~Declared BY <1>1, <1>2 DEF Declared
<1>4. /\ ~Exists /\ dump = "none" /\ link # "maintenance" /\ loaded # "maintenance"
      /\ site # "migrated" /\ ~Enabling("migrated") /\ phase # "none"
      /\ \A p \in Procs \ {Tasks} : proc[p].step \in {"idle", "declare"}
      /\ \A p \in Procs : At(p, "declare") => p = h
  BY <1>1, <1>2, <1>3 DEF CurrentInv, FreshInv
<1>5. Turn(h) /\ proc'[h].step \in {"idle", "queue"}
  BY <1>1, GotoEffect, EndsEffect DEF DeclareBatch, Steps
<1>6. \A q \in Procs : proc'[q] = proc[q] \/ (q = h /\ proc'[q].step \in {"idle", "queue"}) BY <1>5 DEF Turn
<1>7. Declared' /\ FreshInv' BY <1>2, <1>4, <1>5, <1>6 DEF Declared, FreshInv, targetVars, At
<1>8. Calm BY <1>1, <1>5, PlainIsCalm, PlainRequest
<1>9. row = NoTask /\ lock = "none" BY <1>4 DEF CurrentInv, Claims, TaskInv
<1>10. CASE row' = row /\ lock' = lock
  BY <1>2, <1>7, <1>8, <1>10, CalmStep DEF CurrentInv
<1>11. CASE row' = [NoTask EXCEPT !.status = "draft"] /\ lock' = "active"
  <2>1. Exists' /\ row'.stage = "preflight_passed" BY <1>11 DEF NoTask, Exists
  <2>2. \A p \in Procs : proc'[p].step \notin {"cancel"} \cup Restoring \cup FreezeSteps
    <3>1. \A p \in Procs : p # Tasks => proc'[p].step \in {"idle", "declare", "queue"} BY <1>4, <1>6
    <3>2. proc'[Tasks].step \in {"idle"} \cup TaskSteps BY <1>1, <1>6 DEF TypeInv, ProcTypes, TasksShape
    <3>3. QED BY <3>1, <3>2 DEF TaskSteps, Restoring, FreezeSteps, FirstTry, Again
  <2>3. ~Undoes' /\ ~Freezes' BY <1>1, <2>2 DEF Undoes, Freezes
  <2>4. proc'[Tasks] = proc[Tasks] BY <1>1, <1>6
  <2>5. TaskInv' BY <1>2, <1>4, <2>1, <2>3, <2>4 DEF CurrentInv, Claims, TaskInv, Enabling, At
  <2>6. WaitInv' BY <1>2, <1>3, <1>7, <2>1, <2>2, <2>3, <2>4 DEF CurrentInv, Claims, WaitInv, Enables
  <2>7. EmptyInv' BY <1>2, <1>4 DEF EmptyInv
  <2>8. HideInv' BY <1>2, <1>4, <2>1 DEF HideInv, Copying, CopyStages
  <2>9. MarkInv' BY <2>1 DEF MarkInv, IsFreezing
  <2>10. QED BY <1>7, <2>5, <2>6, <2>7, <2>8, <2>9 DEF CurrentInv, Claims
<1>12. QED BY <1>10, <1>11 DEF DeclareBatch

\* The requests that change neither what visitors get nor the copy.
LEMMA RequestQuiet ==
  ASSUME TypeInv, CurrentInv, NEW h \in Handlers,
         QueueBatch(h) \/ Retry(h) \/ DeleteTask(h) \/ Abandon(h) \/ AbandonFails(h)
  PROVE  CurrentInv'
<1>1. h \in Procs /\ h # Tasks /\ proc \in [Procs -> ProcRecords] /\ row \in RowRecords BY HandlerFacts
<1>2. UNCHANGED <<lock, site, link, loaded, dump, targetVars>>
  BY DEF QueueBatch, Retry, DeleteTask, Abandon, AbandonFails, dbVars, nginx
<1>3. row'.stage = row.stage /\ (row' = row \/ (Exists /\ Exists'))
  BY <1>1 DEF QueueBatch, Retry, DeleteTask, Abandon, AbandonFails, dbVars, SetRow, Exists, RowRecords
<1>4. Declared /\ phase # "none"
  BY HandlerFacts DEF QueueBatch, Retry, DeleteTask, Abandon, AbandonFails, At, Exists
<1>5. Turn(h) /\ proc'[h].step \in {"idle", "scope", "await_abandon"}
  BY <1>1, BeginEffect, EndsEffect DEF QueueBatch, Retry, DeleteTask, Abandon, AbandonFails, Steps, Ops, Turn, At
<1>6. QED BY <1>1, <1>2, <1>3, <1>4, <1>5, PlainStep, PlainRequest DEF targetVars

\* CompleteSource: the site that is decided for B is hidden on A.
LEMMA CompleteCurrent ==
  ASSUME TypeInv, CurrentInv, NEW h \in Handlers, CompleteSource(h)
  PROVE  CurrentInv'
<1>1. lock = "active" /\ row.stage = "transferring_database" /\ site' = "migrated" /\ Forgotten
      /\ UNCHANGED <<link, loaded, dump, proc, targetVars>>
  BY DEF CompleteSource, nginx
<1>2. Copying BY <1>1 DEF Copying, CopyStages
<1>3. Hidden BY <1>1, <1>2 DEF CurrentInv, Claims, HideInv
<1>4. Declared /\ ~Enables BY <1>1, Working
<1>5. Declared' /\ FreshInv' BY <1>1, <1>4 DEF Declared, FreshInv, targetVars, At
<1>6. Calm BY <1>1 DEF Calm, Enables, Enabling, At
<1>7. ~Exists' /\ row' = NoTask /\ lock' = "none" /\ ~Copying' BY <1>1, ForgottenRow
<1>8. Ended' BY <1>5, <1>7 DEF Ended
<1>9. ~At(Tasks, "enable_link") BY <1>4 DEF Enables, At
<1>10. QED BY <1>1, <1>3, <1>5, <1>6, <1>7, <1>8, <1>9, LockGoes

\* Every step of a request.
LEMMA RequestCurrent ==
  ASSUME TypeInv, CurrentInv, NEW h \in Handlers, Request(h)
  PROVE  CurrentInv'
BY StartCurrent, DeclareCurrent, RequestQuiet, CompleteCurrent DEF Request

-----------------------------------------------------------------------------
\* The website itself.

\* A task of the website leaves the migration where it is.
LEMMA WebsiteFrame ==
  ASSUME TypeInv, CurrentInv, Turn(Tasks), proc'[Tasks].step \in {"idle"} \cup TaskSteps,
         UNCHANGED <<row, lock, dump, targetVars>>,
         ~Declared => /\ link' # "maintenance" /\ loaded' # "maintenance" /\ site' # "migrated"
                      /\ ~Enabling("migrated")'
  PROVE  /\ FreshInv' /\ (Declared' <=> Declared) /\ (Over' <=> Over) /\ (Exists' <=> Exists) /\ (Ended' <=> Ended)
         /\ (Freezes' <=> Freezes) /\ (Undoes' => Undoes) /\ proc'[Worker] = proc[Worker]
         /\ \A q \in Procs : proc'[q].step \in {"cancel"} \cup Restoring => proc[q].step \in {"cancel"} \cup Restoring
<1>1. Worker \in Procs /\ Tasks \in Procs /\ Worker # Tasks BY ProcNames
<1>2. \A q \in Procs \ {Tasks} : proc'[q] = proc[q] BY DEF Turn
<1>3. proc'[Tasks].step \notin {"declare", "cancel"} \cup Restoring BY DEF TaskSteps, Restoring
<1>4. proc[Tasks].step # "declare" BY DEF TypeInv, ProcTypes, TasksShape, TaskSteps
<1>5. \A q \in Procs : At(q, "declare")' <=> At(q, "declare") BY <1>2, <1>3, <1>4 DEF At
<1>6. (Declared' <=> Declared) /\ (Exists' <=> Exists) BY <1>5 DEF Declared, targetVars, Exists
<1>7. (Over' <=> Over) /\ (Ended' <=> Ended) BY <1>6 DEF Over, Ended
<1>8. proc'[Worker] = proc[Worker] BY <1>1, <1>2
<1>9. (Freezes' <=> Freezes) /\ (Undoes' => Undoes) BY <1>1, <1>2, <1>3, <1>8 DEF Freezes, Undoes
<1>10. FreshInv'
  <2>1. \A p \in Procs \ {Tasks} : proc'[p].step = proc[p].step BY <1>2
  <2>2. SUFFICES ASSUME ~Declared' PROVE FreshInv' BY DEF FreshInv
  <2>3. ~Declared BY <1>6, <2>2
  <2>4. QED BY <1>5, <1>6, <2>1, <2>3 DEF CurrentInv, FreshInv, targetVars
<1>11. QED BY <1>2, <1>3, <1>6, <1>7, <1>8, <1>9, <1>10

\* Pause, and what ends without a change.
LEMMA PauseCurrent ==
  ASSUME TypeInv, CurrentInv, PauseSite \/ PauseApply
  PROVE  CurrentInv'
<1>1. Tasks \in Procs /\ proc \in [Procs -> ProcRecords] BY ProcNames, Typed
<1>2. Turn(Tasks) /\ proc'[Tasks].step \in {"idle", "pause"}
  BY <1>1, BeginEffect, EndsEffect DEF PauseSite, PauseApply, Steps, Ops
<1>3. UNCHANGED <<row, lock, dump, targetVars>> BY DEF PauseSite, PauseApply, dbVars
<1>4. "pause" \in Plain /\ "idle" \in Plain BY DEF Plain, Steps, Restoring, FreezeSteps, FirstTry, Again
<1>5. Calm /\ ~Enables' /\ ~Enabling("migrated")' /\ ~At(Tasks, "enable_link")'
  BY <1>1, <1>2, <1>4, PlainIsCalm DEF Enables, Enabling, At
<1>6. \/ UNCHANGED <<site, link, loaded>>
      \/ site' = "paused" /\ link' = "none" /\ loaded' = "none"
  BY DEF PauseSite, PauseApply, dbVars, nginx
<1>7. /\ FreshInv' /\ (Declared' <=> Declared) /\ (Over' <=> Over) /\ (Exists' <=> Exists) /\ (Ended' <=> Ended)
      /\ (Freezes' <=> Freezes) /\ (Undoes' => Undoes) /\ proc'[Worker] = proc[Worker]
  <2>1. ~Declared => link # "maintenance" /\ loaded # "maintenance" /\ site # "migrated" BY DEF CurrentInv, FreshInv
  <2>2. QED BY <1>2, <1>3, <1>5, <1>6, <2>1, WebsiteFrame DEF TaskSteps
<1>8. CASE UNCHANGED <<site, link, loaded>>
  BY <1>3, <1>5, <1>7, <1>8, CalmStep DEF CurrentInv
<1>9. CASE site' = "paused" /\ link' = "none" /\ loaded' = "none"
  <2>1. TaskInv' BY <1>3, <1>5, <1>7, <1>9 DEF CurrentInv, Claims, TaskInv
  <2>2. WaitInv' BY <1>5, <1>9 DEF WaitInv
  <2>3. EmptyInv' BY <1>3, <1>7 DEF CurrentInv, Claims, EmptyInv
  <2>4. HideInv' BY <1>3, <1>5, <1>7, <1>9 DEF CurrentInv, Claims, HideInv, Hidden, Copying
  <2>5. MarkInv' BY <1>9 DEF MarkInv
  <2>6. QED BY <1>7, <2>1, <2>2, <2>3, <2>4, <2>5 DEF CurrentInv, Claims
<1>10. QED BY <1>6, <1>8, <1>9

\* EnableSite: a website with the lock of a migration is left alone.
LEMMA EnableCurrent ==
  ASSUME TypeInv, CurrentInv, EnableSite
  PROVE  CurrentInv'
<1>1. Tasks \in Procs /\ Worker \in Procs /\ Worker # Tasks /\ proc \in [Procs -> ProcRecords] BY ProcNames, Typed
<1>2. site \in Ops /\ lock # "active" /\ site \in {"paused", "migrated"} BY DEF EnableSite, Ops
<1>3. Turn(Tasks) /\ proc'[Tasks].step = "enable" /\ proc'[Tasks].op = site
  BY <1>1, <1>2, BeginEffect DEF EnableSite, Steps
<1>4. UNCHANGED <<row, lock, site, link, loaded, dump, targetVars>> BY DEF EnableSite, dbVars, nginx
<1>5. Enabling("migrated")' => site = "migrated" BY <1>3 DEF Enabling
<1>6. site = "migrated" => Over BY DEF CurrentInv, Claims, TaskInv
<1>7. /\ FreshInv' /\ (Declared' <=> Declared) /\ (Over' <=> Over) /\ (Exists' <=> Exists) /\ (Ended' <=> Ended)
      /\ (Freezes' <=> Freezes) /\ (Undoes' => Undoes) /\ proc'[Worker] = proc[Worker]
      /\ \A q \in Procs : proc'[q].step \in {"cancel"} \cup Restoring => proc[q].step \in {"cancel"} \cup Restoring
  <2>1. ~Declared => link # "maintenance" /\ loaded # "maintenance" /\ site # "migrated" BY DEF CurrentInv, FreshInv
  <2>2. QED BY <1>3, <1>4, <1>5, <2>1, WebsiteFrame DEF TaskSteps
<1>8. TaskInv' BY <1>3, <1>4, <1>5, <1>6, <1>7 DEF CurrentInv, Claims, TaskInv, At
<1>9. WaitInv'
  <2>1. ~Declared => link = "none" BY <1>2, <1>6 DEF CurrentInv, Claims, WaitInv, Over
  <2>2. ~Declared => row.stage = "preflight_passed" BY DEF CurrentInv, Claims, FreshInv, TaskInv, NoTask
  <2>3. ~Declared => ~Freezes
    BY <1>1 DEF CurrentInv, FreshInv, Freezes, FreezeSteps, FirstTry, Again
  <2>4. ~Declared => \A q \in Procs : proc[q].step \notin {"cancel"} \cup Restoring
    BY DEF CurrentInv, FreshInv, Restoring, EnableSite, At
  <2>5. ~Over => ~Declared BY <1>2 DEF Over
  <2>6. QED BY <1>4, <1>7, <2>1, <2>2, <2>3, <2>4, <2>5 DEF WaitInv
<1>10. EmptyInv' BY <1>4, <1>7 DEF CurrentInv, Claims, EmptyInv
<1>11. HideInv' BY <1>4, <1>5, <1>7 DEF CurrentInv, Claims, HideInv, Hidden, Copying
<1>12. MarkInv' BY <1>4, <1>7 DEF CurrentInv, Claims, MarkInv, IsFreezing, At
<1>13. QED BY <1>7, <1>8, <1>9, <1>10, <1>11, <1>12 DEF CurrentInv, Claims

\* EnableStatus, and an EnableLink that is undone: only the status changes, to
\* the one the operation found or to active.
LEMMA StatusCurrent ==
  ASSUME TypeInv, CurrentInv, EnableStatus \/ (EnableLink /\ UNCHANGED nginx)
  PROVE  CurrentInv'
<1>1. Tasks \in Procs /\ Worker \in Procs /\ Worker # Tasks /\ proc \in [Procs -> ProcRecords] BY ProcNames, Typed
<1>2. Enables /\ proc[Tasks].op \in {"paused", "migrated"}
  BY Typed DEF EnableStatus, EnableLink, At, Enables, TypeInv, ProcTypes, TasksShape
<1>3. UNCHANGED <<row, lock, link, loaded, dump, targetVars>> BY DEF EnableStatus, EnableLink, nginx
<1>4. /\ Turn(Tasks)
      /\ \/ proc'[Tasks].step = "enable_link" /\ proc'[Tasks].op = proc[Tasks].op /\ site' = "active"
         \/ proc'[Tasks].step = "idle" /\ (site' = site \/ site' = proc[Tasks].op \/ site' = "active")
  BY <1>1, GotoEffect, EndsEffect DEF EnableStatus, EnableLink, Steps
<1>5. Enables' => proc'[Tasks].step = "enable_link" /\ site' = "active" /\ proc'[Tasks].op = proc[Tasks].op
  BY <1>4 DEF Enables
<1>6. (Enabling("migrated")' => Enabling("migrated")) /\ (site' = "migrated" => site = "migrated" \/ Enabling("migrated"))
  BY <1>2, <1>4 DEF Enabling, Enables
<1>7. /\ FreshInv' /\ (Declared' <=> Declared) /\ (Over' <=> Over) /\ (Exists' <=> Exists) /\ (Ended' <=> Ended)
      /\ (Freezes' <=> Freezes) /\ (Undoes' => Undoes) /\ proc'[Worker] = proc[Worker]
      /\ \A q \in Procs : proc'[q].step \in {"cancel"} \cup Restoring => proc[q].step \in {"cancel"} \cup Restoring
  <2>1. ~Declared => /\ link # "maintenance" /\ loaded # "maintenance" /\ site # "migrated" /\ ~Enabling("migrated")
    BY DEF CurrentInv, FreshInv
  <2>2. QED BY <1>3, <1>4, <1>6, <2>1, WebsiteFrame DEF TaskSteps
<1>8. TaskInv' BY <1>3, <1>4, <1>6, <1>7 DEF CurrentInv, Claims, TaskInv, At
<1>9. WaitInv' BY <1>2, <1>3, <1>7 DEF CurrentInv, Claims, WaitInv
<1>10. EmptyInv' BY <1>3, <1>7 DEF CurrentInv, Claims, EmptyInv
<1>11. HideInv' BY <1>3, <1>6, <1>7 DEF CurrentInv, Claims, HideInv, Hidden, Copying
<1>12. MarkInv' BY <1>3, <1>7 DEF CurrentInv, Claims, MarkInv, IsFreezing, At
<1>13. QED BY <1>7, <1>8, <1>9, <1>10, <1>11, <1>12 DEF CurrentInv, Claims

\* EnableLink: the migration of a site that is shown again is over, or has
\* frozen nothing yet.
LEMMA LinkCurrent ==
  ASSUME TypeInv, CurrentInv, EnableLink, link' = "site", loaded' = "site", UNCHANGED site
  PROVE  CurrentInv'
<1>1. Tasks \in Procs /\ Worker \in Procs /\ Worker # Tasks /\ proc \in [Procs -> ProcRecords] BY ProcNames, Typed
<1>2. Enables /\ site = "active" BY DEF EnableLink, At, Enables, CurrentInv, Claims, TaskInv
<1>3. UNCHANGED <<row, lock, dump, targetVars>> BY DEF EnableLink
<1>4. Turn(Tasks) /\ proc'[Tasks].step = "idle" BY <1>1, EndsEffect DEF EnableLink
<1>5. ~Enables' /\ ~Enabling("migrated")' /\ ~At(Tasks, "enable_link")' BY <1>4 DEF Enables, Enabling, At
<1>6. /\ FreshInv' /\ (Declared' <=> Declared) /\ (Over' <=> Over) /\ (Exists' <=> Exists) /\ (Ended' <=> Ended)
      /\ (Freezes' <=> Freezes) /\ (Undoes' => Undoes) /\ proc'[Worker] = proc[Worker]
  BY <1>2, <1>3, <1>4, <1>5, WebsiteFrame DEF TaskSteps
<1>7. lock = "active" => row.stage = "preflight_passed" /\ dump = "none"
  BY <1>2 DEF CurrentInv, Claims, WaitInv, EmptyInv, Over, Tries
<1>8. TaskInv' BY <1>2, <1>3, <1>5, <1>6 DEF CurrentInv, Claims, TaskInv
<1>9. WaitInv' BY <1>2, <1>5 DEF WaitInv
<1>10. EmptyInv' BY <1>3, <1>6 DEF CurrentInv, Claims, EmptyInv
<1>11. HideInv' BY <1>2, <1>3, <1>5, <1>6, <1>7 DEF CurrentInv, Claims, HideInv, Copying, CopyStages
<1>12. MarkInv' BY <1>3, <1>7 DEF MarkInv, IsFreezing
<1>13. QED BY <1>6, <1>8, <1>9, <1>10, <1>11, <1>12 DEF CurrentInv, Claims

\* Every step of a task of the website.
LEMMA WebsiteCurrent ==
  ASSUME TypeInv, CurrentInv, WebsiteStep
  PROVE  CurrentInv'
<1>1. CASE EnableLink BY <1>1, StatusCurrent, LinkCurrent DEF EnableLink
<1>2. QED BY <1>1, PauseCurrent, EnableCurrent, StatusCurrent DEF WebsiteStep

-----------------------------------------------------------------------------
\* Calls, panel B, visitors, leases, crashes.

\* A step that starts nothing and changes nothing A has but the lease.
LEMMA OutsideStep ==
  ASSUME CurrentInv, UNCHANGED <<lock, site, link, loaded, dump, proc>>,
         row'.stage = row.stage, row' = row \/ (Exists /\ Exists'),
         phase' = phase \/ (phase # "none" /\ phase' # "none")
  PROVE  CurrentInv'
<1>1. Calm BY DEF Calm, Enables, Enabling, At
<1>2. (Declared' <=> Declared) /\ (Exists' <=> Exists) BY DEF Declared, At, Exists
<1>3. Claims' BY <1>1, <1>2, CalmStep DEF CurrentInv
<1>4. FreshInv' BY <1>2 DEF CurrentInv, FreshInv, Enabling, At
<1>5. QED BY <1>3, <1>4 DEF CurrentInv

\* Deliver: an answer, or a request of B, sets a process to a step that decides nothing.
LEMMA DeliverCurrent ==
  ASSUME TypeInv, CurrentInv, NEW c \in net, Deliver(c)
  PROVE  CurrentInv'
<1>1. UNCHANGED <<row, lock, site, link, loaded, dump>> BY DEF Deliver, dbVars, nginx
<1>2. proc \in [Procs -> ProcRecords] /\ NetTypes BY Typed
<1>3. phase' = phase \/ (phase # "none" /\ phase' # "none")
  BY DEF Deliver, DeliverQueue, DeliverAbandon, DeliverDelete, DeliverToSource, QueueTarget, targetVars
<1>4. CASE UNCHANGED proc BY <1>1, <1>3, <1>4, OutsideStep
<1>5. ASSUME NEW p \in Procs, Turn(p), proc'[p].step \in {"release", "abandon", "scope"}, Declared, phase # "none"
      PROVE  CurrentInv'
  BY <1>1, <1>3, <1>5, PlainStep, PlainRequest
<1>6. CASE \/ c.type = "queue" /\ Waiting(c) /\ Goto(c.from, "release")
           \/ c.type = "abandon" /\ Waiting(c) /\ Goto(c.from, "abandon")
  <2>1. PICK s \in {"release", "abandon"} : Goto(c.from, s) BY <1>6
  <2>2. s \in Steps BY DEF Steps
  <2>3. c.from \in Procs /\ c.from # Tasks /\ proc[c.from].step \in {"await_queue", "await_abandon"}
    BY <1>2, <1>6, ProcNames DEF NetTypes, Waiting
  <2>4. Turn(c.from) /\ proc'[c.from].step = s BY <1>2, <2>1, <2>2, <2>3, GotoEffect
  <2>5. Declared /\ phase # "none" BY <2>3, AtTask
  <2>6. QED BY <1>5, <2>3, <2>4, <2>5
<1>7. CASE DeliverToSource(c)
  <2>1. PICK h \in Handlers, s \in {"scope", "abandon"}, o \in {"delete_source", "abandon_source"} :
          Exists /\ Begin(h, s, o)
    BY <1>7 DEF DeliverToSource
  <2>2. s \in Steps /\ o \in Ops /\ h \in Procs BY ProcNames DEF Steps, Ops
  <2>3. Turn(h) /\ proc'[h].step = s BY <1>2, <2>1, <2>2, BeginEffect
  <2>4. Declared /\ phase # "none" BY <2>1, <2>2, AtTask
  <2>5. QED BY <1>5, <2>2, <2>3, <2>4
<1>8. QED BY <1>4, <1>6, <1>7 DEF Deliver, DeliverQueue, DeliverAbandon, DeliverDelete, Answer

\* B by itself, calls that are lost, leases.
LEMMA RemoteCurrent ==
  ASSUME TypeInv, CurrentInv, TargetStep \/ (\E c \in net : Lose(c)) \/ LeaseExpires \/ LeaseLapses
  PROVE  CurrentInv'
<1>1. UNCHANGED <<lock, site, link, loaded, dump, proc>>
  BY DEF TargetStep, Lose, LeaseExpires, LeaseLapses, dbVars, nginx
<1>2. phase' = phase \/ (phase # "none" /\ phase' # "none")
  BY DEF TargetStep, Lose, LeaseExpires, LeaseLapses, ReceiveTarget, StopTarget, RetryTarget, ActivateTarget, targetVars
<1>3. row \in RowRecords BY Typed DEF DataTypes
<1>4. ~Exists => row.lease = "none" BY DEF CurrentInv, Claims, TaskInv, NoTask
<1>5. row'.stage = row.stage /\ (row' = row \/ (Exists /\ Exists'))
  BY <1>3, <1>4 DEF TargetStep, Lose, LeaseExpires, LeaseLapses, dbVars, RowRecords, Exists
<1>6. QED BY <1>1, <1>2, <1>5, OutsideStep

\* Visit: whoever can write reaches a site whose copy nobody will take for it.
LEMMA VisitCurrent ==
  ASSUME CurrentInv, Visit
  PROVE  CurrentInv'
<1>1. UNCHANGED <<row, lock, site, link, loaded, proc, phase>> /\ loaded = "site" /\ dump = "current"
  BY DEF Visit, dbVars, nginx, targetVars
<1>2. ~Hidden BY <1>1 DEF Hidden
<1>3. Declared BY <1>1 DEF CurrentInv, FreshInv
<1>4. (Declared' <=> Declared) /\ (Exists' <=> Exists) BY <1>1 DEF Declared, At, Exists
<1>5. FreshInv' BY <1>3, <1>4 DEF FreshInv
<1>6. TaskInv' BY <1>1, <1>4 DEF CurrentInv, Claims, TaskInv, Undoes, Ended, Enabling, Over, At
<1>7. WaitInv' BY <1>1, <1>4 DEF CurrentInv, Claims, WaitInv, Enables, Over, Freezes
<1>8. EmptyInv' BY <1>1 DEF CurrentInv, Claims, EmptyInv, Freezes, Undoes
<1>9. HideInv' BY <1>1, <1>2 DEF CurrentInv, Claims, HideInv, Copying, Freezes, Enabling
<1>10. MarkInv' BY <1>1 DEF CurrentInv, Claims, MarkInv, IsFreezing, At
<1>11. QED BY <1>5, <1>6, <1>7, <1>8, <1>9, <1>10 DEF CurrentInv, Claims

\* A reload for another website shows what the link says.
LEMMA OtherReloadCurrent ==
  ASSUME CurrentInv, OtherReload
  PROVE  CurrentInv'
<1>1. UNCHANGED <<row, lock, site, link, dump, proc, phase>> /\ loaded' = link
  BY DEF OtherReload, dbVars, targetVars
<1>2. Hidden => Hidden' BY <1>1 DEF Hidden
<1>3. (Declared' <=> Declared) /\ (Exists' <=> Exists) BY <1>1 DEF Declared, At, Exists
<1>4. FreshInv' BY <1>1, <1>3 DEF CurrentInv, FreshInv, Enabling, At
<1>5. TaskInv' BY <1>1, <1>3 DEF CurrentInv, Claims, TaskInv, Undoes, Ended, Enabling, Over, At
<1>6. WaitInv' BY <1>1, <1>3 DEF CurrentInv, Claims, WaitInv, Enables, Over, Freezes
<1>7. EmptyInv' BY <1>1 DEF CurrentInv, Claims, EmptyInv, Freezes, Undoes
<1>8. HideInv' BY <1>1, <1>2 DEF CurrentInv, Claims, HideInv, Copying, Freezes, Enabling
<1>9. MarkInv' BY <1>1 DEF CurrentInv, Claims, MarkInv, IsFreezing, At, Loading
<1>10. QED BY <1>4, <1>5, <1>6, <1>7, <1>8, <1>9 DEF CurrentInv, Claims

\* What nobody at work means.
LEMMA NobodyWorks ==
  ASSUME AllIdle
  PROVE  /\ ~Freezes /\ ~Undoes /\ ~Enables /\ ~Enabling("migrated") /\ ~At(Tasks, "enable_link")
         /\ proc[Worker].step \notin Loading /\ ~At(Worker, "mark") /\ (Declared <=> phase # "none")
<1>1. proc[Worker].step = "idle" /\ proc[Tasks].step = "idle" BY ProcNames DEF AllIdle
<1>2. ~Undoes BY DEF AllIdle, Undoes, Restoring
<1>3. QED BY <1>1, <1>2 DEF Freezes, FreezeSteps, FirstTry, Again, Enables, Enabling, At, Loading, Declared, AllIdle

\* Crash: the rows, the files and nginx stay.
LEMMA CrashCurrent ==
  ASSUME CurrentInv, Crash
  PROVE  CurrentInv'
<1>1. UNCHANGED <<row, lock, site, link, loaded, dump, phase>> BY DEF Crash, dbVars, nginx, targetVars
<1>2. \A p \in Procs : proc'[p].step = "idle" BY DEF Crash, Idle
<1>3. Calm BY <1>2, ProcNames DEF Calm, Enables, Enabling, At, Restoring, FreezeSteps, FirstTry, Again, Loading
<1>4. Declared => Declared' BY <1>1, <1>2 DEF Declared, At
<1>5. Claims' BY <1>1, <1>3, <1>4, CalmStep DEF CurrentInv
<1>6. FreshInv'
  <2>1. SUFFICES ASSUME ~Declared' PROVE FreshInv' BY DEF FreshInv
  <2>2. ~Declared BY <1>4, <2>1
  <2>3. ~Enabling("migrated")' BY <1>2, ProcNames DEF Enabling
  <2>4. QED BY <1>1, <1>2, <2>2, <2>3 DEF CurrentInv, FreshInv, Exists, At
<1>7. QED BY <1>5, <1>6 DEF CurrentInv

\* Restart: a site in maintenance without a task is taken for one that was moved.
LEMMA RestartCurrent ==
  ASSUME TypeInv, CurrentInv, Restart
  PROVE  CurrentInv'
<1>1. AllIdle /\ UNCHANGED <<lock, link, loaded, dump, proc, phase>>
  BY DEF TypeInv, ProcTypes, Restart, AllIdle, nginx, targetVars
<1>2. row \in RowRecords BY Typed DEF DataTypes
<1>3. row'.stage = row.stage /\ (row' = row \/ (Exists /\ Exists')) BY <1>2 DEF Restart, RowRecords, Exists
<1>4. CASE site' = site BY <1>1, <1>3, <1>4, OutsideStep
<1>5. CASE site = "active" /\ lock # "active" /\ link = "maintenance" /\ site' = "migrated"
  <2>1. Declared /\ Over BY <1>5 DEF CurrentInv, FreshInv, Over
  <2>2. Declared' /\ FreshInv' BY <1>1, <2>1 DEF Declared, FreshInv, At
  <2>3. /\ ~Undoes' /\ ~Freezes' /\ ~Enables' /\ ~Enabling("migrated")' /\ ~At(Tasks, "enable_link")'
    BY <1>1, NobodyWorks DEF Undoes, Freezes, Enables, Enabling, At
  <2>4. Over' BY <1>1, <1>5, <2>2 DEF Over
  <2>5. TaskInv' BY <1>1, <1>3, <2>3, <2>4 DEF CurrentInv, Claims, TaskInv, Exists
  <2>6. WaitInv' BY <2>2, <2>3 DEF WaitInv
  <2>7. EmptyInv' BY <1>1, <1>5, <2>3 DEF EmptyInv
  <2>8. HideInv' BY <1>1, <1>5, <2>3 DEF CurrentInv, Claims, HideInv, Hidden
  <2>9. MarkInv' BY <1>1, <1>5 DEF MarkInv
  <2>10. QED BY <2>2, <2>5, <2>6, <2>7, <2>8, <2>9 DEF CurrentInv, Claims
<1>6. QED BY <1>4, <1>5 DEF Restart

-----------------------------------------------------------------------------
\* The theorem.

\* Initially there is no task, no copy, and nobody at work.
LEMMA InitCurrent == Init => CurrentInv
<1> SUFFICES ASSUME Init PROVE CurrentInv OBVIOUS
<1>1. AllIdle BY DEF Init, AllIdle, Idle
<1>2. /\ ~Freezes /\ ~Undoes /\ ~Enables /\ ~Enabling("migrated") /\ ~At(Tasks, "enable_link")
  BY <1>1, NobodyWorks
<1>3. row = NoTask /\ lock = "none" /\ site = "active" /\ link = "site" /\ loaded = "site" /\ dump = "none"
  BY DEF Init
<1>4. ~Exists /\ ~Copying BY <1>3 DEF NoTask, Exists, Copying, CopyStages
<1>5. TaskInv BY <1>2, <1>3 DEF TaskInv
<1>6. WaitInv BY <1>2, <1>3 DEF WaitInv
<1>7. EmptyInv /\ HideInv /\ MarkInv BY <1>3, <1>4 DEF EmptyInv, HideInv, MarkInv
<1>8. FreshInv BY <1>1, <1>2, <1>3, <1>4 DEF FreshInv, AllIdle, At
<1>9. QED BY <1>5, <1>6, <1>7, <1>8 DEF CurrentInv, Claims

\* Every step preserves the invariant, whatever comes between two others.
LEMMA NextCurrent == TypeInv /\ CurrentInv /\ [Next]_vars => CurrentInv'
<1> SUFFICES ASSUME TypeInv, CurrentInv, [Next]_vars PROVE CurrentInv' OBVIOUS
<1>1. CASE UNCHANGED vars BY <1>1, OutsideStep DEF vars, dbVars, nginx, targetVars
<1>2. CASE WorkerStep BY <1>2, WorkerStepCurrent
<1>3. CASE WebsiteStep BY <1>3, WebsiteCurrent
<1>4. CASE \E h \in Handlers : Request(h) BY <1>4, RequestCurrent
<1>5. CASE \E p \in Procs : CleanupStep(p) BY <1>5, CleanupStepCurrent
<1>6. CASE \E c \in net : Deliver(c) BY <1>6, DeliverCurrent
<1>7. CASE TargetStep \/ (\E c \in net : Lose(c)) \/ LeaseExpires \/ LeaseLapses BY <1>7, RemoteCurrent
<1>8. CASE Visit \/ OtherReload BY <1>8, VisitCurrent, OtherReloadCurrent
<1>9. CASE Crash \/ Restart BY <1>9, CrashCurrent, RestartCurrent
<1>10. QED BY <1>1, <1>2, <1>3, <1>4, <1>5, <1>6, <1>7, <1>8, <1>9 DEF Next

\* The copy that a user declares to be the site, or that a restart takes for it,
\* contains every write the site of A has taken (CompleteSource,
\* ReconcileMigratedWebsiteStatuses, restore_migrated): however the requests,
\* the worker and the tasks of the website come between each other's steps.
THEOREM CopyIsCurrent == Spec => []DecidedCopyIsCurrent
<1>1. TypeInv /\ CurrentInv /\ [Next]_vars => CurrentInv' BY NextCurrent
<1>2. CurrentInv => DecidedCopyIsCurrent
  BY DEF CurrentInv, Claims, HideInv, Hidden, DecidedCopyIsCurrent
<1>3. Spec => []CurrentInv BY <1>1, InitCurrent, TypeInvariant, PTL DEF Spec
<1>4. QED BY <1>2, <1>3, PTL

==============================================================================
