------------------------- MODULE SiteMigrationProofs -------------------------
(***************************************************************************)
(* Proofs about a site migration as the sending panel drives it: while the  *)
(* receiving panel may copy, visitors get the maintenance page; a website   *)
(* in maintenance belongs to someone; an enabled configuration has its      *)
(* file; an abandonment hides the website of the receiving panel before it  *)
(* shows that of the sending one.                                           *)
(*                                                                         *)
(* The argument has two layers.  TypeInv needs no hypothesis: besides the   *)
(* types it says which process may be at which step, and that B has         *)
(* abandoned its task before A goes on with an abandonment, which no loss   *)
(* or repetition of a call undoes.  DataInv relates the row, its lock, the  *)
(* recorded resource, the link, the file, what nginx has loaded and the     *)
(* status of the website.  It is inductive only with the state before a     *)
(* task is declared (FreshInv) and with what each process relies on at      *)
(* its next step (DecidingAt).  That another process does not come between  *)
(* a reading and the statement that relies on it is the hypothesis          *)
(* ~ScopeMayAge; the code has no lock that ensures it.  While no lease has  *)
(* lapsed the lease keeps a cancellation from the row of a task at work     *)
(* (OwnInv).                                                               *)
(***************************************************************************)
EXTENDS SiteMigration, TLAPS

RowRecords  == [status : Statuses, stage : Stages, lease : {"none", "live", "expired"}]
Tries == {"preflight_passed", "source_freezing"}
Ops == {"none", "start", "delete", "delete_source", "abandon", "abandon_source", "pause", "paused", "migrated"} \cup Tries
ProcRecords == [step : Steps, op : Ops, undone : BOOLEAN]
Calls == [type : CallTypes, from : Procs \cup {"target"}]

FirstTry    == {"write", "swap", "reload", "verify", "undo_link", "undo_rows"}
Again       == {"reload_again", "verify_again", "restore_again"}
FreezeSteps == FirstTry \cup Again \cup {"mark"}
WorkerSteps == FreezeSteps \cup {"prepare", "freeze", "manifest", "database", "prepared", "await_queue",
                                 "release", "release_failed"}
Restoring    == {"restore_link", "restore_reload", "restore_file", "restore_rows"}
CleanupSteps == {"scope", "abandon", "cancel", "references", "forget"} \cup Restoring
HandlerSteps == {"declare", "queue", "await_abandon"}
TaskSteps    == {"pause", "enable", "enable_link"}

-----------------------------------------------------------------------------
\* The types, and which process does what.

DataTypes ==
  /\ row \in RowRecords
  /\ lock \in {"none", "active", "released"}
  /\ owned \in {"none", "created", "removed"}
  /\ link \in {"site", "maintenance", "none"} /\ file \in BOOLEAN /\ loaded \in {"site", "maintenance", "none"}
  /\ site \in {"active", "paused", "migrated"}
  /\ dump \in {"none", "current", "stale"}
  /\ panel \in {"up", "down"} /\ faults \in 0..MaxFaults /\ lapsed \in BOOLEAN

NetTypes ==
  /\ net \subseteq Calls
  /\ \A c \in net : /\ c.type = "queue" => c.from = Worker
                    /\ c.type = "abandon" => c.from \in Handlers
TargetTypes == phase \in Phases /\ received \in BOOLEAN /\ shown \in BOOLEAN

WorkerShape ==
  LET s == proc[Worker].step
      o == proc[Worker].op
  IN  /\ s \in {"idle"} \cup WorkerSteps \cup CleanupSteps
      /\ o # "abandon"
      /\ s \in FirstTry => o \in Tries
      /\ s \in {"idle", "prepare", "freeze"} \cup Again => o = "none"
      /\ s = "mark" => o \in Tries \cup {"none"}
TasksShape ==
  LET s == proc[Tasks].step
      o == proc[Tasks].op
  IN  /\ s \in {"idle"} \cup TaskSteps
      /\ o # "abandon"
      /\ s \in {"enable", "enable_link"} => o \in {"paused", "migrated"}
HandlerShape(h) ==
  /\ proc[h].step \in {"idle"} \cup HandlerSteps \cup CleanupSteps
  /\ proc[h].step = "idle" => proc[h].op # "abandon"

ProcTypes ==
  /\ proc \in [Procs -> ProcRecords]
  /\ panel = "down" => \A p \in Procs : proc[p].step = "idle"
  /\ WorkerShape /\ TasksShape /\ \A h \in Handlers : HandlerShape(h)

\* B has abandoned its task before A goes on with an abandonment.
HiddenAt(p) == proc[p].op = "abandon" /\ proc[p].step # "await_abandon" => phase \in {"abandoned", "gone"} /\ ~shown
HiddenInv ==
  /\ shown => phase \in {"live", "gone"}
  /\ \A p \in Procs : HiddenAt(p)

TypeInv == DataTypes /\ NetTypes /\ TargetTypes /\ ProcTypes /\ HiddenInv

-----------------------------------------------------------------------------
\* What the steps do to a process.

Turn(p) == proc' \in [Procs -> ProcRecords] /\ \A q \in Procs \ {p} : proc'[q] = proc[q]

\* The worker, the tasks of the website and the requests are different processes.
LEMMA ProcNames == Worker \in Procs /\ Tasks \in Procs /\ Worker # Tasks
                   /\ Handlers \subseteq Procs /\ Worker \notin Handlers /\ Tasks \notin Handlers
                   /\ \A p \in Procs : p \in Handlers \/ p = Worker \/ p = Tasks
BY SiteMigrationAssumption DEF Procs, Worker, Tasks

\* A process without an operation has its type.
LEMMA IdleType == Idle \in ProcRecords
BY DEF Idle, ProcRecords, Steps, Ops

\* A process moves to another step and keeps its operation.
LEMMA GotoEffect ==
  ASSUME proc \in [Procs -> ProcRecords], NEW p \in Procs, NEW s \in Steps, Goto(p, s)
  PROVE  Turn(p) /\ proc'[p].step = s /\ proc'[p].op = proc[p].op /\ proc'[p].undone = proc[p].undone
<1>1. proc[p] \in ProcRecords OBVIOUS
<1>2. [proc[p] EXCEPT !.step = s] \in ProcRecords BY <1>1 DEF ProcRecords
<1>3. proc' = [proc EXCEPT ![p] = [proc[p] EXCEPT !.step = s]] BY DEF Goto
<1>4. proc'[p] = [proc[p] EXCEPT !.step = s] BY <1>3
<1>5. proc'[p].step = s /\ proc'[p].op = proc[p].op /\ proc'[p].undone = proc[p].undone
  BY <1>1, <1>4 DEF ProcRecords
<1>6. QED BY <1>2, <1>3, <1>5 DEF Turn

\* A process begins an operation.
LEMMA BeginEffect ==
  ASSUME proc \in [Procs -> ProcRecords], NEW p \in Procs, NEW s \in Steps, NEW o \in Ops, Begin(p, s, o)
  PROVE  Turn(p) /\ proc'[p].step = s /\ proc'[p].op = o
<1>1. [Idle EXCEPT !.step = s, !.op = o] \in ProcRecords BY IdleType DEF ProcRecords, Idle
<1>2. proc' = [proc EXCEPT ![p] = [Idle EXCEPT !.step = s, !.op = o]] BY DEF Begin
<1>3. proc'[p] = [Idle EXCEPT !.step = s, !.op = o] BY <1>2
<1>4. proc'[p].step = s /\ proc'[p].op = o BY <1>3 DEF Idle
<1>5. QED BY <1>1, <1>2, <1>4 DEF Turn

\* A process ends its operation.
LEMMA EndsEffect ==
  ASSUME proc \in [Procs -> ProcRecords], NEW p \in Procs, Ends(p)
  PROVE  Turn(p) /\ proc'[p].step = "idle" /\ proc'[p].op = "none"
<1>1. proc' = [proc EXCEPT ![p] = Idle] BY DEF Ends
<1>2. proc'[p] = Idle BY <1>1
<1>3. proc'[p].step = "idle" /\ proc'[p].op = "none" BY <1>2 DEF Idle
<1>4. QED BY <1>1, <1>3, IdleType DEF Turn

\* A statement that sets status and stage leaves the lease.
LEMMA SetRowEffect ==
  ASSUME row \in RowRecords, NEW s \in Statuses, NEW g \in Stages, SetRow(s, g)
  PROVE  row' \in RowRecords /\ row'.status = s /\ row'.stage = g /\ row'.lease = row.lease
BY DEF SetRow, RowRecords

\* A process takes its turn.
LEMMA TurnTypes ==
  ASSUME TypeInv, NEW p \in Procs, Turn(p), panel = "up", panel' = panel, UNCHANGED targetVars,
         DataTypes', NetTypes',
         p = Worker => WorkerShape', p = Tasks => TasksShape', p \in Handlers => HandlerShape(p)',
         HiddenAt(p)'
  PROVE  TypeInv'
<1>1. TargetTypes' BY DEF TypeInv, TargetTypes, targetVars
<1>2. HiddenInv'
  <2>1. \A q \in Procs \ {p} : HiddenAt(q)' BY DEF TypeInv, HiddenInv, HiddenAt, targetVars, Turn
  <2>2. QED BY <2>1 DEF TypeInv, HiddenInv, targetVars
<1>3. ProcTypes'
  <2>1. WorkerShape' BY ProcNames DEF TypeInv, ProcTypes, WorkerShape, Turn
  <2>2. TasksShape' BY ProcNames DEF TypeInv, ProcTypes, TasksShape, Turn
  <2>3. \A h \in Handlers : HandlerShape(h)' BY ProcNames DEF TypeInv, ProcTypes, HandlerShape, Turn
  <2>4. QED BY <2>1, <2>2, <2>3 DEF ProcTypes, Turn
<1>4. QED BY <1>1, <1>2, <1>3 DEF TypeInv

-----------------------------------------------------------------------------
\* The worker, typed.

\* A turn of p leaves the calls and B, and the types of the rest.
Local == panel = "up" /\ panel' = panel /\ UNCHANGED targetVars /\ DataTypes' /\ NetTypes'

ShapeOf(s, o) ==
  /\ s \in WorkerSteps \cup CleanupSteps
  /\ s \in FirstTry => o \in Tries
  /\ s \in {"prepare", "freeze"} \cup Again => o = "none"
  /\ s = "mark" => o \in Tries \cup {"none"}

\* A turn of the worker that leaves it at a step of its own.
LEMMA WorkerTurn ==
  ASSUME TypeInv, Local, Turn(Worker), proc'[Worker].op # "abandon",
         \/ proc'[Worker].step = "idle" /\ proc'[Worker].op = "none"
         \/ ShapeOf(proc'[Worker].step, proc'[Worker].op)
  PROVE  TypeInv'
<1>1. WorkerShape' BY DEF WorkerShape, ShapeOf, WorkerSteps, CleanupSteps, Restoring, FirstTry, Again, FreezeSteps
<1>2. HiddenAt(Worker)' BY DEF HiddenAt
<1>3. QED BY <1>1, <1>2, ProcNames, TurnTypes DEF Local

\* The worker moves to another step.
LEMMA WorkerGoes ==
  ASSUME TypeInv, Local, NEW s \in Steps, Goto(Worker, s), ShapeOf(s, proc[Worker].op)
  PROVE  TypeInv'
<1>1. proc \in [Procs -> ProcRecords] /\ proc[Worker].op # "abandon" BY DEF TypeInv, ProcTypes, WorkerShape
<1>2. Turn(Worker) /\ proc'[Worker].step = s /\ proc'[Worker].op = proc[Worker].op
  BY <1>1, GotoEffect, ProcNames
<1>3. QED BY <1>1, <1>2, WorkerTurn

\* The worker moves to its release.
LEMMA WorkerFailsOn ==
  ASSUME TypeInv, Local, Goto(Worker, "release_failed") \/ Goto(Worker, "release")
  PROVE  TypeInv'
<1>1. {"release_failed", "release"} \subseteq Steps BY DEF Steps
<1>2. \A s \in {"release_failed", "release"} : ShapeOf(s, proc[Worker].op)
  BY DEF ShapeOf, WorkerSteps, FreezeSteps, FirstTry, Again
<1>3. QED BY <1>1, <1>2, WorkerGoes

\* The types that every action needs.
LEMMA Typed == ASSUME TypeInv PROVE DataTypes /\ NetTypes /\ WorkerShape /\ proc \in [Procs -> ProcRecords]
BY DEF TypeInv, ProcTypes

\* Statements that set a status, a stage, or a lease.
LEMMA RowTypes ==
  ASSUME row \in RowRecords, NEW s \in Statuses, NEW g \in Stages, NEW l \in {"none", "live", "expired"}
  PROVE  /\ [row EXCEPT !.status = s] \in RowRecords
         /\ [row EXCEPT !.status = s, !.stage = g] \in RowRecords
         /\ [row EXCEPT !.status = s, !.lease = l] \in RowRecords
         /\ [row EXCEPT !.lease = l] \in RowRecords
BY DEF RowRecords

\* A failure of the preparation leaves a row.
LEMMA PrepareFailedTypes ==
  ASSUME TypeInv, PrepareFailed
  PROVE  row' \in RowRecords
<1>1. row \in RowRecords /\ "failed_retryable" \in Statuses /\ row.stage \in Stages
  BY DEF TypeInv, DataTypes, Statuses, RowRecords
<1>2. QED BY <1>1, RowTypes DEF PrepareFailed

\* ClaimNext and Prepare.
LEMMA PrepareTypes ==
  ASSUME TypeInv, panel = "up", ClaimNext \/ Prepare
  PROVE  TypeInv'
<1>1. DataTypes /\ NetTypes /\ WorkerShape /\ proc \in [Procs -> ProcRecords] BY Typed
<1>2. NetTypes' /\ panel' = panel /\ UNCHANGED targetVars
  BY <1>1 DEF ClaimNext, Prepare, others, NetTypes
<1>3. CASE ClaimNext
  <2>1. row' \in RowRecords BY <1>1, <1>3 DEF ClaimNext, DataTypes, Statuses, RowRecords
  <2>2. DataTypes' BY <1>1, <1>3, <2>1 DEF ClaimNext, DataTypes, nginx, others
  <2>3. ShapeOf("prepare", proc[Worker].op) /\ "prepare" \in Steps
    BY <1>1, <1>3 DEF WorkerShape, ClaimNext, At, ShapeOf, WorkerSteps, FirstTry, Again, Steps
  <2>4. QED BY <1>2, <1>3, <2>2, <2>3, WorkerGoes DEF ClaimNext, Local
<1>4. CASE Prepare
  <2>1. DataTypes' BY <1>1, <1>4 DEF Prepare, DataTypes, dbVars, nginx, others
  <2>2. PICK s \in {"freeze", "manifest", "database", "release_failed"} : Goto(Worker, s)
    BY <1>4 DEF Prepare, PrepareStep
  <2>3. ShapeOf(s, proc[Worker].op) /\ s \in Steps
    BY <1>1, <1>4 DEF WorkerShape, Prepare, At, ShapeOf, WorkerSteps, FreezeSteps, FirstTry, Again, Steps
  <2>4. QED BY <1>2, <2>1, <2>2, <2>3, WorkerGoes DEF Local
<1>5. QED BY <1>3, <1>4

\* The steps of a freeze.
LEMMA FreezeTypes ==
  ASSUME TypeInv, panel = "up", FreezeSource
  PROVE  TypeInv'
<1>1. DataTypes /\ NetTypes /\ WorkerShape /\ proc \in [Procs -> ProcRecords] BY Typed
<1>2. NetTypes' /\ panel' = panel /\ UNCHANGED targetVars
  BY <1>1 DEF FreezeSource, others, NetTypes
<1>3. CASE PrepareFailed /\ UNCHANGED owned
  <2>1. DataTypes' BY <1>1, <1>3, PrepareFailedTypes DEF FreezeSource, DataTypes, nginx, others
  <2>2. QED BY <1>2, <1>3, <2>1, WorkerFailsOn DEF Local, PrepareFailed
<1>4. CASE Goto(Worker, "reload_again") /\ UNCHANGED <<row, owned>>
  <2>1. DataTypes' BY <1>1, <1>4 DEF FreezeSource, DataTypes, nginx, others
  <2>2. ShapeOf("reload_again", proc[Worker].op) /\ "reload_again" \in Steps
    BY <1>1 DEF WorkerShape, FreezeSource, At, ShapeOf, WorkerSteps, FreezeSteps, FirstTry, Again, Steps
  <2>3. QED BY <1>2, <1>4, <2>1, <2>2, WorkerGoes DEF Local
<1>5. CASE /\ row.stage \in {"preflight_passed", "source_freezing"}
           /\ SetRow(row.status, "source_freezing") /\ owned' = "created"
           /\ proc' = [proc EXCEPT ![Worker] = [step |-> "write", op |-> row.stage, undone |-> FALSE]]
  <2>1. row' \in RowRecords
    <3>1. row \in RowRecords /\ row.status \in Statuses /\ "source_freezing" \in Stages
      BY <1>1 DEF DataTypes, RowRecords, Stages
    <3>2. QED BY <1>5, <3>1, SetRowEffect
  <2>2. DataTypes' BY <1>1, <1>5, <2>1 DEF FreezeSource, DataTypes, nginx, others
  <2>3. [step |-> "write", op |-> row.stage, undone |-> FALSE] \in ProcRecords
    BY <1>5 DEF ProcRecords, Steps, Ops, Tries
  <2>4. Turn(Worker) /\ proc'[Worker] = [step |-> "write", op |-> row.stage, undone |-> FALSE]
    BY <1>1, <1>5, <2>3, ProcNames DEF Turn
  <2>5. proc'[Worker].step = "write" /\ proc'[Worker].op = row.stage BY <2>4
  <2>6. ShapeOf("write", row.stage) /\ row.stage # "abandon"
    BY <1>5 DEF ShapeOf, WorkerSteps, FreezeSteps, FirstTry, Again, Tries
  <2>7. QED BY <1>2, <2>2, <2>4, <2>5, <2>6, WorkerTurn DEF Local
<1>6. QED BY <1>3, <1>4, <1>5 DEF FreezeSource

\* Between the steps of a freeze the operation stays.
LEMMA FreezeGoes ==
  ASSUME TypeInv, Local,
         \/ /\ proc[Worker].step \in FirstTry \/ (proc[Worker].step = "mark" /\ proc[Worker].op # "none")
            /\ \E s \in FirstTry \cup {"mark"} : Goto(Worker, s)
         \/ proc[Worker].step \in Again /\ \E s \in Again \cup {"mark"} : Goto(Worker, s)
  PROVE  TypeInv'
<1>1. WorkerShape BY Typed
<1>2. PICK s \in FreezeSteps : Goto(Worker, s) /\ ShapeOf(s, proc[Worker].op)
  BY <1>1 DEF WorkerShape, ShapeOf, WorkerSteps, FreezeSteps, FirstTry, Again
<1>3. s \in Steps BY DEF FreezeSteps, FirstTry, Again, Steps
<1>4. QED BY <1>2, <1>3, WorkerGoes

\* The steps that write, link, load, verify and undo the maintenance configuration.
LEMMA MaintenanceTypes ==
  ASSUME TypeInv, panel = "up", WriteMaintenance \/ SwapLink \/ Reload \/ Verify \/ UndoLink
  PROVE  TypeInv'
<1>1. DataTypes /\ NetTypes /\ WorkerShape /\ proc \in [Procs -> ProcRecords] BY Typed
<1>2. NetTypes' /\ panel' = panel /\ UNCHANGED targetVars
  BY <1>1 DEF WriteMaintenance, SwapLink, Reload, Verify, UndoLink, others, NetTypes
<1>3. row' \in RowRecords
  <2>1. row \in RowRecords BY <1>1 DEF DataTypes
  <2>2. row' = row \/ PrepareFailed
    BY DEF WriteMaintenance, SwapLink, Reload, Verify, UndoLink, dbVars
  <2>3. QED BY <2>1, <2>2, PrepareFailedTypes
<1>4. DataTypes'
  BY <1>1, <1>3 DEF WriteMaintenance, SwapLink, Reload, Verify, UndoLink, DataTypes, dbVars, nginx, others
<1>5. Local BY <1>2, <1>4 DEF Local
<1>6. CASE Goto(Worker, "release_failed") BY <1>5, <1>6, WorkerFailsOn
<1>7. CASE ~Goto(Worker, "release_failed")
  <2>1. CASE proc[Worker].step \in FirstTry
    BY <1>5, <1>7, <2>1, FreezeGoes DEF WriteMaintenance, SwapLink, Reload, Verify, UndoLink, PrepareFailed, At, FirstTry
  <2>2. CASE proc[Worker].step \notin FirstTry
    BY <1>5, <1>7, <2>2, FreezeGoes
       DEF WriteMaintenance, SwapLink, Reload, Verify, UndoLink, PrepareFailed, At, FirstTry, Again
  <2>3. QED BY <2>1, <2>2
<1>8. QED BY <1>6, <1>7

\* UndoRows and MarkFrozen.
LEMMA MarkTypes ==
  ASSUME TypeInv, panel = "up", UndoRows \/ MarkFrozen
  PROVE  TypeInv'
<1>1. DataTypes /\ NetTypes /\ WorkerShape /\ proc \in [Procs -> ProcRecords] BY Typed
<1>2. NetTypes' /\ panel' = panel /\ UNCHANGED targetVars BY <1>1 DEF UndoRows, MarkFrozen, others, NetTypes
<1>3. {"release_failed", "manifest"} \subseteq Steps /\ {"none"} \subseteq Ops BY DEF Steps, Ops
<1>4. \A s \in {"release_failed", "manifest"} : ShapeOf(s, "none")
  BY DEF ShapeOf, WorkerSteps, FreezeSteps, FirstTry, Again
<1>5. ASSUME NEW s \in {"release_failed", "manifest"}, Begin(Worker, s, "none"), DataTypes' PROVE TypeInv'
  <2>1. Turn(Worker) /\ proc'[Worker].step = s /\ proc'[Worker].op = "none"
    BY <1>1, <1>3, <1>5, BeginEffect, ProcNames
  <2>2. QED BY <1>2, <1>4, <1>5, <2>1, WorkerTurn DEF Local
<1>6. CASE UndoRows
  <2>1. row' \in RowRecords
    <3>1. row \in RowRecords /\ proc[Worker].op \in Tries
      BY <1>1, <1>6 DEF UndoRows, DataTypes, WorkerShape, At, FirstTry
    <3>2. Tries \subseteq Stages /\ "failed_retryable" \in Statuses BY DEF Tries, Stages, Statuses
    <3>3. /\ (IF row.stage = "source_freezing" THEN proc[Worker].op ELSE row.stage) \in Stages
          /\ (IF row.status = "running" THEN "failed_retryable" ELSE row.status) \in Statuses
      BY <3>1, <3>2 DEF RowRecords
    <3>4. row' = [row EXCEPT !.stage = IF row.stage = "source_freezing" THEN proc[Worker].op ELSE row.stage,
                             !.status = IF row.status = "running" THEN "failed_retryable" ELSE row.status]
      BY <1>6 DEF UndoRows
    <3>5. QED BY <3>1, <3>3, <3>4 DEF RowRecords
  <2>2. DataTypes' BY <1>1, <1>6, <2>1 DEF UndoRows, DataTypes, others
  <2>3. QED BY <1>5, <1>6, <2>2 DEF UndoRows
<1>7. CASE MarkFrozen
  <2>1. row' \in RowRecords
    <3>1. row \in RowRecords /\ row.status \in Statuses /\ "source_frozen" \in Stages
      BY <1>1 DEF DataTypes, RowRecords, Stages
    <3>2. QED BY <1>7, <3>1, SetRowEffect DEF MarkFrozen
  <2>2. DataTypes' BY <1>1, <1>7, <2>1 DEF MarkFrozen, DataTypes, nginx, others
  <2>3. Local BY <1>2, <2>2 DEF Local
  <2>4. CASE Begin(Worker, "manifest", "none") BY <1>5, <2>2, <2>4
  <2>5. CASE Goto(Worker, "release_failed") BY <2>3, <2>5, WorkerFailsOn
  <2>6. CASE proc[Worker].op # "none" /\ Goto(Worker, "undo_link")
    BY <1>7, <2>3, <2>6, FreezeGoes DEF MarkFrozen, At, FirstTry
  <2>7. QED BY <1>7, <2>4, <2>5, <2>6 DEF MarkFrozen
<1>8. QED BY <1>6, <1>7

\* The worker moves past the freeze.
LEMMA LateGoes ==
  ASSUME TypeInv, Local, NEW s \in {"database", "prepared", "await_queue", "release", "release_failed"}, Goto(Worker, s)
  PROVE  TypeInv'
<1>1. s \in Steps BY DEF Steps
<1>2. ShapeOf(s, proc[Worker].op) BY DEF ShapeOf, WorkerSteps, FreezeSteps, FirstTry, Again
<1>3. QED BY <1>1, <1>2, WorkerGoes

\* The exports, and the call that queues the task of B.
LEMMA BuildTypes ==
  ASSUME TypeInv, panel = "up", BuildManifest \/ BuildDatabase \/ MarkPrepared \/ QueueFails \/ HeartbeatRefused
  PROVE  TypeInv'
<1>1. DataTypes /\ NetTypes /\ WorkerShape /\ proc \in [Procs -> ProcRecords] /\ row \in RowRecords
  BY Typed DEF DataTypes
<1>2. panel' = panel /\ UNCHANGED targetVars
  BY DEF BuildManifest, BuildDatabase, MarkPrepared, QueueFails, HeartbeatRefused, others
<1>3. NetTypes'
  <2>1. CASE UNCHANGED net BY <1>1, <2>1 DEF NetTypes
  <2>2. CASE Send("queue", Worker)
    <3>1. Call("queue", Worker) \in Calls BY ProcNames DEF Call, Calls, CallTypes
    <3>2. Call("queue", Worker).type = "queue" /\ Call("queue", Worker).from = Worker BY DEF Call
    <3>3. QED BY <1>1, <2>2, <3>1, <3>2 DEF Send, NetTypes
  <2>3. QED BY <2>1, <2>2 DEF BuildManifest, BuildDatabase, MarkPrepared, QueueFails, HeartbeatRefused
<1>4. row' \in RowRecords
  <2>1. CASE PrepareFailed BY <2>1, PrepareFailedTypes
  <2>2. CASE row' = row BY <1>1, <2>2
  <2>3. row.status \in Statuses /\ row.stage \in Stages BY <1>1 DEF RowRecords
  <2>4. CASE BuildManifest /\ ~PrepareFailed
    BY <1>1, <2>3, <2>4, SetRowEffect DEF BuildManifest, Stages
  <2>5. CASE BuildDatabase /\ ~PrepareFailed
    <3>1. {"transferring_database"} \subseteq Stages /\ "failed_retryable" \in Statuses BY DEF Stages, Statuses
    <3>2. CASE SetRow(row.status, "transferring_database") BY <1>1, <2>3, <3>1, <3>2, SetRowEffect
    <3>3. CASE row' = [row EXCEPT !.stage = "transferring_database",
                                  !.status = IF row.status = "running" THEN "failed_retryable" ELSE row.status]
      BY <1>1, <2>3, <3>1, <3>3 DEF RowRecords
    <3>4. QED BY <2>5, <3>2, <3>3 DEF BuildDatabase
  <2>6. CASE MarkPrepared /\ ~PrepareFailed
    <3>1. "awaiting_cutover" \in Statuses BY DEF Statuses
    <3>2. QED BY <1>1, <2>3, <2>6, <3>1, SetRowEffect DEF MarkPrepared
  <2>7. CASE QueueFails
    <3>1. "failed_retryable" \in Statuses BY DEF Statuses
    <3>2. QED BY <1>1, <2>3, <2>7, <3>1, RowTypes DEF QueueFails
  <2>8. QED BY <2>1, <2>2, <2>4, <2>5, <2>6, <2>7 DEF HeartbeatRefused, dbVars
<1>5. DataTypes'
  BY <1>1, <1>4 DEF BuildManifest, BuildDatabase, MarkPrepared, QueueFails, HeartbeatRefused, PrepareFailed,
     DataTypes, dbVars, nginx, others
<1>6. Local BY <1>2, <1>3, <1>5 DEF Local
<1>7. QED
  BY <1>6, LateGoes DEF BuildManifest, BuildDatabase, MarkPrepared, QueueFails, HeartbeatRefused, PrepareFailed

\* ReleaseClaim, which may begin a deletion.
LEMMA ReleaseTypes ==
  ASSUME TypeInv, panel = "up", ReleaseClaim
  PROVE  TypeInv'
<1>1. DataTypes /\ NetTypes /\ WorkerShape /\ proc \in [Procs -> ProcRecords] /\ row \in RowRecords
  BY Typed DEF DataTypes
<1>2. row' \in RowRecords
  <2>1. "failed_retryable" \in Statuses /\ row.status \in Statuses BY <1>1 DEF RowRecords, Statuses
  <2>2. CASE row' = row BY <1>1, <2>2
  <2>3. CASE row' = [row EXCEPT !.lease = "none", !.status = IF row.status = "running" THEN "failed_retryable" ELSE row.status]
    BY <1>1, <2>1, <2>3 DEF RowRecords
  <2>4. QED BY <2>2, <2>3 DEF ReleaseClaim
<1>3. DataTypes' BY <1>1, <1>2 DEF ReleaseClaim, DataTypes, nginx, others
<1>4. Local BY <1>1, <1>3 DEF ReleaseClaim, Local, others, NetTypes
<1>5. CASE Begin(Worker, "scope", "delete")
  <2>1. "scope" \in Steps /\ "delete" \in Ops BY DEF Steps, Ops
  <2>2. Turn(Worker) /\ proc'[Worker].step = "scope" /\ proc'[Worker].op = "delete"
    BY <1>1, <1>5, <2>1, BeginEffect, ProcNames
  <2>3. ShapeOf("scope", "delete")
    BY DEF ShapeOf, WorkerSteps, FreezeSteps, FirstTry, Again, CleanupSteps
  <2>4. QED BY <1>4, <2>2, <2>3, WorkerTurn
<1>6. CASE Ends(Worker)
  <2>1. Turn(Worker) /\ proc'[Worker].step = "idle" /\ proc'[Worker].op = "none"
    BY <1>1, <1>6, EndsEffect, ProcNames
  <2>2. QED BY <1>4, <2>1, WorkerTurn
<1>7. QED BY <1>5, <1>6 DEF ReleaseClaim

\* Every step of the worker.
LEMMA WorkerTypes ==
  ASSUME TypeInv, panel = "up", WorkerStep
  PROVE  TypeInv'
BY PrepareTypes, FreezeTypes, MaintenanceTypes, MarkTypes, BuildTypes, ReleaseTypes DEF WorkerStep

-----------------------------------------------------------------------------
\* Cleanups and requests, typed.

\* LoadAbandon keeps what it has seen of an earlier restoration.
LEMMA CancelEffect ==
  ASSUME proc \in [Procs -> ProcRecords], NEW p \in Procs,
         proc' = [proc EXCEPT ![p].step = "cancel", ![p].undone = AlreadyRestored]
  PROVE  Turn(p) /\ proc'[p].step = "cancel" /\ proc'[p].op = proc[p].op /\ proc'[p].undone = AlreadyRestored
<1>1. proc[p] \in ProcRecords OBVIOUS
<1>2. AlreadyRestored \in BOOLEAN BY DEF AlreadyRestored
<1>3. proc' = [proc EXCEPT ![p] = [proc[p] EXCEPT !.step = "cancel", !.undone = AlreadyRestored]] OBVIOUS
<1>4. [proc[p] EXCEPT !.step = "cancel", !.undone = AlreadyRestored] \in ProcRecords
  BY <1>1, <1>2 DEF ProcRecords, Steps
<1>5. proc'[p] = [proc[p] EXCEPT !.step = "cancel", !.undone = AlreadyRestored] BY <1>3
<1>6. proc'[p].step = "cancel" /\ proc'[p].op = proc[p].op /\ proc'[p].undone = AlreadyRestored
  BY <1>1, <1>5 DEF ProcRecords
<1>7. QED BY <1>3, <1>4, <1>6 DEF Turn

\* A turn within a cleanup.
LEMMA CleanupTurn ==
  ASSUME TypeInv, Local, NEW p \in Procs, proc[p].step \in CleanupSteps, Turn(p),
         \/ proc'[p].step = "idle" /\ proc'[p].op = "none"
         \/ proc'[p].step \in CleanupSteps /\ proc'[p].op = proc[p].op
  PROVE  TypeInv'
<1>1. p # Tasks BY DEF TypeInv, ProcTypes, TasksShape, CleanupSteps, Restoring, TaskSteps
<1>2. HiddenAt(p)'
  BY DEF TypeInv, HiddenInv, HiddenAt, Local, targetVars, CleanupSteps, Restoring
<1>3. p = Worker => WorkerShape'
  BY DEF TypeInv, ProcTypes, WorkerShape, WorkerSteps, FreezeSteps, FirstTry, Again, CleanupSteps, Restoring
<1>4. p \in Handlers => HandlerShape(p)' BY DEF HandlerShape, CleanupSteps, Restoring
<1>5. QED BY <1>1, <1>2, <1>3, <1>4, TurnTypes DEF Local

\* A cleanup goes on or ends.
LEMMA CleanupGoes ==
  ASSUME TypeInv, Local, NEW p \in Procs, proc[p].step \in CleanupSteps,
         Ends(p) \/ \E s \in CleanupSteps : Goto(p, s)
  PROVE  TypeInv'
<1>1. proc \in [Procs -> ProcRecords] /\ CleanupSteps \subseteq Steps
  BY Typed DEF CleanupSteps, Restoring, Steps
<1>2. CASE Ends(p) BY <1>1, <1>2, EndsEffect, CleanupTurn
<1>3. ASSUME NEW s \in CleanupSteps, Goto(p, s) PROVE TypeInv'
  <2>1. s \in Steps BY <1>1
  <2>2. Turn(p) /\ proc'[p].step = s /\ proc'[p].op = proc[p].op BY <1>1, <1>3, <2>1, GotoEffect
  <2>3. QED BY <2>2, <1>3, CleanupTurn
<1>4. QED BY <1>2, <1>3

\* A call is under way.
LEMMA Sent ==
  ASSUME NetTypes, NEW type \in {"delete", "abandon", "delete_source", "abandon_source"},
         NEW p \in Procs \cup {"target"}, Send(type, p), type = "abandon" => p \in Handlers
  PROVE  NetTypes'
<1>1. Call(type, p) \in Calls /\ Call(type, p).type = type /\ Call(type, p).from = p
  BY DEF Call, Calls, CallTypes
<1>2. QED BY <1>1 DEF Send, NetTypes

\* A row that has been forgotten.
LEMMA NoTaskType == NoTask \in RowRecords
BY DEF NoTask, RowRecords, Statuses, Stages

\* Every step of a cleanup.
LEMMA CleanupTypes ==
  ASSUME TypeInv, panel = "up", NEW p \in Procs, CleanupStep(p)
  PROVE  TypeInv'
<1>1. DataTypes /\ NetTypes /\ proc \in [Procs -> ProcRecords] /\ row \in RowRecords
  BY Typed DEF DataTypes
<1>2. proc[p].step \in CleanupSteps
  BY DEF CleanupStep, LoadTaskCleanupScope, LoadAbandon, CancelSource, RestoreLink, RestoreReload, RestoreFile,
     RestoreRows, ReleaseReferences, ForgetTask, At, CleanupSteps, Restoring
<1>3. panel' = panel /\ UNCHANGED <<targetVars, faults, lapsed>>
  BY DEF CleanupStep, LoadTaskCleanupScope, LoadAbandon, CancelSource, RestoreLink, RestoreReload, RestoreFile,
     RestoreRows, ReleaseReferences, ForgetTask, others
<1>4. NetTypes'
  <2>1. CASE UNCHANGED net BY <1>1, <2>1 DEF NetTypes
  <2>2. CASE Send("delete", p) BY <1>1, <2>2, Sent
  <2>3. QED
    BY <2>1, <2>2 DEF CleanupStep, LoadTaskCleanupScope, LoadAbandon, CancelSource, RestoreLink, RestoreReload,
       RestoreFile, RestoreRows, ReleaseReferences, ForgetTask
<1>5. row' \in RowRecords
  <2>1. CASE row' = row BY <1>1, <2>1
  <2>2. CASE row' = NoTask BY <2>2, NoTaskType
  <2>3. CASE SetRow("cancelling", "cancelling") \/ SetRow("cleanup_failed", "cancelling") \/ SetRow("abandoned", "abandoned")
    <3>1. {"cancelling", "cleanup_failed", "abandoned"} \subseteq Statuses /\ {"cancelling", "abandoned"} \subseteq Stages
      BY DEF Statuses, Stages
    <3>2. QED BY <1>1, <2>3, <3>1, SetRowEffect
  <2>4. CASE row' = [row EXCEPT !.lease = "none"] BY <1>1, <2>4 DEF RowRecords
  <2>5. QED
    BY <2>1, <2>2, <2>3, <2>4 DEF CleanupStep, LoadTaskCleanupScope, LoadAbandon, CancelSource, RestoreLink,
       RestoreReload, RestoreFile, RestoreRows, ReleaseReferences, ForgetTask, Forgotten, dbVars
<1>6. DataTypes'
  <2>1. CASE LoadTaskCleanupScope(p) \/ LoadAbandon(p) \/ CancelSource(p)
    BY <1>1, <1>5, <2>1 DEF LoadTaskCleanupScope, LoadAbandon, CancelSource, DataTypes, dbVars, nginx, others
  <2>2. CASE RestoreLink(p) \/ RestoreReload(p) \/ RestoreFile(p)
    BY <1>1, <1>5, <2>2 DEF RestoreLink, RestoreReload, RestoreFile, BackToMaintenance, DataTypes, dbVars, nginx, others
  <2>3. CASE RestoreRows(p) \/ ReleaseReferences(p) \/ ForgetTask(p)
    BY <1>1, <1>5, <2>3 DEF RestoreRows, ReleaseReferences, ForgetTask, Forgotten, DataTypes, dbVars, nginx, others
  <2>4. QED BY <2>1, <2>2, <2>3 DEF CleanupStep
<1>7. Local BY <1>3, <1>4, <1>6 DEF Local
<1>8. CASE LoadAbandon(p) /\ ~Ends(p)
  <2>1. proc' = [proc EXCEPT ![p].step = "cancel", ![p].undone = AlreadyRestored] BY <1>8 DEF LoadAbandon
  <2>2. QED BY <1>1, <1>2, <1>7, <2>1, CancelEffect, CleanupTurn DEF CleanupSteps
<1>9. CASE ~LoadAbandon(p) \/ Ends(p)
  <2>1. Ends(p) \/ \E s \in CleanupSteps : Goto(p, s)
    BY <1>9 DEF CleanupStep, LoadTaskCleanupScope, CancelSource, RestoreLink, RestoreReload, RestoreFile,
       RestoreRows, ReleaseReferences, ForgetTask, BackToMaintenance, CleanupSteps, Restoring
  <2>2. QED BY <1>2, <1>7, <2>1, CleanupGoes
<1>10. QED BY <1>8, <1>9

\* A turn of a request.
LEMMA HandlerTurn ==
  ASSUME TypeInv, panel = "up", panel' = panel, DataTypes', NetTypes', UNCHANGED targetVars,
         NEW h \in Handlers, Turn(h), HandlerShape(h)', HiddenAt(h)'
  PROVE  TypeInv'
BY ProcNames, TurnTypes

\* A request ends.
LEMMA HandlerEnds ==
  ASSUME TypeInv, Local, NEW h \in Handlers, Ends(h)
  PROVE  TypeInv'
<1>1. Turn(h) /\ proc'[h].step = "idle" /\ proc'[h].op = "none" BY Typed, EndsEffect, ProcNames
<1>2. HandlerShape(h)' /\ HiddenAt(h)' BY <1>1 DEF HandlerShape, HiddenAt
<1>3. QED BY <1>1, <1>2, HandlerTurn DEF Local

\* A request begins a deletion or an abandonment.
LEMMA HandlerBegins ==
  ASSUME TypeInv, Local, NEW h \in Handlers,
         \/ Begin(h, "scope", "delete") \/ Begin(h, "await_abandon", "abandon")
         \/ Begin(h, "scope", "delete_source") \/ Begin(h, "abandon", "abandon_source")
  PROVE  TypeInv'
<1>1. PICK s \in {"scope", "await_abandon", "abandon"}, o \in {"delete", "abandon", "delete_source", "abandon_source"} :
        Begin(h, s, o) /\ (o = "abandon" => s = "await_abandon")
  OBVIOUS
<1>2. s \in Steps /\ o \in Ops BY DEF Steps, Ops
<1>3. Turn(h) /\ proc'[h].step = s /\ proc'[h].op = o BY <1>1, <1>2, Typed, BeginEffect, ProcNames
<1>4. HandlerShape(h)' BY <1>3 DEF HandlerShape, HandlerSteps, CleanupSteps
<1>5. HiddenAt(h)' BY <1>1, <1>3 DEF HiddenAt
<1>6. QED BY <1>3, <1>4, <1>5, HandlerTurn DEF Local

-----------------------------------------------------------------------------
\* Requests and the tasks of the website, typed.

\* B moves: what it has abandoned, and what it does not show, stays so.
Stays == phase \in {"abandoned", "gone"} /\ ~shown => phase' \in {"abandoned", "gone"} /\ ~shown'

\* A step in which B moves.
LEMMA TargetMoves ==
  ASSUME TypeInv, DataTypes', NetTypes', TargetTypes', ProcTypes', Stays,
         shown' => phase' \in {"live", "gone"},
         \A p \in Procs : proc'[p] = proc[p] \/ HiddenAt(p)'
  PROVE  TypeInv'
<1>1. \A p \in Procs : HiddenAt(p)' BY DEF TypeInv, HiddenInv, HiddenAt, Stays
<1>2. QED BY <1>1 DEF TypeInv, HiddenInv

\* A process at a step of its own leaves the shapes of the others.
LEMMA TurnShapes ==
  ASSUME TypeInv, NEW p \in Procs, Turn(p), panel = "up", panel' = panel,
         p = Worker => WorkerShape', p = Tasks => TasksShape', p \in Handlers => HandlerShape(p)'
  PROVE  ProcTypes'
<1>1. WorkerShape' BY ProcNames DEF TypeInv, ProcTypes, WorkerShape, Turn
<1>2. TasksShape' BY ProcNames DEF TypeInv, ProcTypes, TasksShape, Turn
<1>3. \A h \in Handlers : HandlerShape(h)' BY ProcNames DEF TypeInv, ProcTypes, HandlerShape, Turn
<1>4. QED BY <1>1, <1>2, <1>3 DEF ProcTypes, Turn

\* A request begins a declaration, or ends.
LEMMA HandlerStarts ==
  ASSUME TypeInv, NEW h \in Handlers, Ends(h) \/ Begin(h, "declare", "start")
  PROVE  Turn(h) /\ HandlerShape(h)' /\ proc'[h].op # "abandon"
<1>1. proc \in [Procs -> ProcRecords] /\ h \in Procs BY Typed, ProcNames
<1>2. CASE Ends(h)
  <2>1. Turn(h) /\ proc'[h].step = "idle" /\ proc'[h].op = "none" BY <1>1, <1>2, EndsEffect
  <2>2. QED BY <2>1 DEF HandlerShape
<1>3. CASE Begin(h, "declare", "start")
  <2>1. "declare" \in Steps /\ "start" \in Ops BY DEF Steps, Ops
  <2>2. Turn(h) /\ proc'[h].step = "declare" /\ proc'[h].op = "start" BY <1>1, <1>3, <2>1, BeginEffect
  <2>3. QED BY <2>2 DEF HandlerShape, HandlerSteps
<1>4. QED BY <1>2, <1>3

\* Start.
LEMMA StartTypes ==
  ASSUME TypeInv, panel = "up", NEW h \in Handlers, Start(h)
  PROVE  TypeInv'
<1>1. DataTypes /\ NetTypes /\ TargetTypes /\ HiddenInv BY DEF TypeInv
<1>2. DataTypes' /\ NetTypes' BY <1>1 DEF Start, DataTypes, NetTypes, dbVars, nginx, others
<1>3. TargetTypes' BY <1>1 DEF Start, CreateTarget, TargetTypes, Phases
<1>4. Ends(h) \/ Begin(h, "declare", "start") BY DEF Start
<1>5. Turn(h) /\ HandlerShape(h)' /\ proc'[h].op # "abandon" BY <1>4, HandlerStarts
<1>6. panel' = panel BY DEF Start, others
<1>7. ProcTypes' BY <1>5, <1>6, TurnShapes, ProcNames
<1>8. Stays /\ (shown' => phase' \in {"live", "gone"}) BY <1>1 DEF Start, CreateTarget, Stays, HiddenInv
<1>9. \A p \in Procs : proc'[p] = proc[p] \/ HiddenAt(p)' BY <1>5 DEF Turn, HiddenAt
<1>10. QED BY <1>2, <1>3, <1>7, <1>8, <1>9, TargetMoves

\* A step that moves no process.
LEMMA SameProcs ==
  ASSUME TypeInv, DataTypes', NetTypes', UNCHANGED <<targetVars, proc>>,
         panel' = "down" => panel = "down"
  PROVE  TypeInv'
<1>1. ProcTypes' BY DEF TypeInv, ProcTypes, WorkerShape, TasksShape, HandlerShape
<1>2. TargetTypes' /\ HiddenInv' BY DEF TypeInv, TargetTypes, HiddenInv, HiddenAt, targetVars
<1>3. QED BY <1>1, <1>2 DEF TypeInv

\* DeclareBatch and QueueBatch.
LEMMA DeclareTypes ==
  ASSUME TypeInv, panel = "up", NEW h \in Handlers, DeclareBatch(h) \/ QueueBatch(h)
  PROVE  TypeInv'
<1>1. DataTypes /\ NetTypes /\ proc \in [Procs -> ProcRecords] /\ row \in RowRecords /\ h \in Procs
  BY Typed, ProcNames DEF DataTypes
<1>2. row' \in RowRecords
  <2>1. {"draft", "queued"} \subseteq Statuses /\ row.stage \in Stages BY <1>1 DEF RowRecords, Statuses
  <2>2. CASE DeclareBatch(h)
    <3>1. [NoTask EXCEPT !.status = "draft"] \in RowRecords BY <2>1, NoTaskType DEF RowRecords, NoTask
    <3>2. row' = row \/ row' = [NoTask EXCEPT !.status = "draft"] BY <2>2 DEF DeclareBatch
    <3>3. QED BY <1>1, <3>1, <3>2
  <2>3. CASE QueueBatch(h)
    <3>1. row' = row \/ SetRow("queued", row.stage) BY <2>3 DEF QueueBatch
    <3>2. QED BY <1>1, <2>1, <3>1, SetRowEffect
  <2>4. QED BY <2>2, <2>3
<1>3. NetTypes'
  <2>1. net' = net \/ Send("delete", h) BY DEF DeclareBatch, QueueBatch
  <2>2. QED BY <1>1, <2>1, Sent DEF NetTypes
<1>4. DataTypes' BY <1>1, <1>2 DEF DeclareBatch, QueueBatch, DataTypes, nginx, others
<1>5. Local BY <1>3, <1>4 DEF Local, DeclareBatch, QueueBatch, others
<1>6. CASE Ends(h) BY <1>5, <1>6, HandlerEnds
<1>7. CASE Goto(h, "queue")
  <2>1. "queue" \in Steps BY DEF Steps
  <2>2. Turn(h) /\ proc'[h].step = "queue" /\ proc'[h].op = proc[h].op BY <1>1, <1>7, <2>1, GotoEffect
  <2>3. HandlerShape(h)' BY <2>2 DEF HandlerShape, HandlerSteps
  <2>4. QED
    <3>1. CASE DeclareBatch(h)
      <4>1. proc[h].step = "declare" BY <1>7, <3>1 DEF DeclareBatch, At
      <4>2. HiddenAt(h)'
        BY <1>1, <2>2, <4>1, <1>5 DEF Local, targetVars, HiddenAt, TypeInv, HiddenInv
      <4>3. QED BY <1>5, <2>2, <2>3, <4>2, HandlerTurn DEF Local
    <3>2. CASE QueueBatch(h) BY <1>6, <3>2 DEF QueueBatch
    <3>3. QED BY <3>1, <3>2
<1>8. QED BY <1>6, <1>7 DEF DeclareBatch, QueueBatch

\* Every request.
LEMMA RequestTypes ==
  ASSUME TypeInv, panel = "up", NEW h \in Handlers, Request(h)
  PROVE  TypeInv'
<1>1. DataTypes /\ NetTypes /\ row \in RowRecords BY Typed DEF DataTypes
<1>2. CASE Start(h) BY <1>2, StartTypes
<1>3. CASE DeclareBatch(h) \/ QueueBatch(h) BY <1>3, DeclareTypes
<1>4. CASE Retry(h)
  <2>1. "queued" \in Statuses /\ row.stage \in Stages BY <1>1 DEF RowRecords, Statuses
  <2>2. row' \in RowRecords BY <1>1, <1>4, <2>1, SetRowEffect DEF Retry
  <2>3. DataTypes' /\ NetTypes' BY <1>1, <1>4, <2>2 DEF Retry, DataTypes, NetTypes, nginx, others
  <2>4. QED BY <1>4, <2>3, SameProcs DEF Retry, others
<1>5. CASE DeleteTask(h) \/ AbandonFails(h)
  <2>1. DataTypes' /\ NetTypes' BY <1>1, <1>5 DEF DeleteTask, AbandonFails, DataTypes, NetTypes, dbVars, nginx, others
  <2>2. Local BY <1>5, <2>1 DEF Local, DeleteTask, AbandonFails, others
  <2>3. QED BY <1>5, <2>2, HandlerBegins, HandlerEnds DEF DeleteTask, AbandonFails
<1>6. CASE Abandon(h)
  <2>1. NetTypes' BY <1>1, <1>6, Sent, ProcNames DEF Abandon
  <2>2. DataTypes' BY <1>1, <1>6 DEF Abandon, DataTypes, dbVars, nginx, others
  <2>3. Local BY <1>6, <2>1, <2>2 DEF Local, Abandon, others
  <2>4. QED BY <1>6, <2>3, HandlerBegins DEF Abandon
<1>7. CASE CompleteSource(h)
  <2>1. NetTypes' BY <1>1, <1>7, Sent, ProcNames DEF CompleteSource
  <2>2. DataTypes' BY <1>1, <1>7, NoTaskType DEF CompleteSource, Forgotten, DataTypes, nginx, others
  <2>3. QED BY <1>7, <2>1, <2>2, SameProcs DEF CompleteSource, others
<1>8. QED BY <1>2, <1>3, <1>4, <1>5, <1>6, <1>7 DEF Request

\* The tasks of the website.
LEMMA WebsiteTypes ==
  ASSUME TypeInv, panel = "up", WebsiteStep
  PROVE  TypeInv'
<1>1. DataTypes /\ NetTypes /\ TasksShape /\ proc \in [Procs -> ProcRecords] /\ Tasks \in Procs
  BY Typed, ProcNames DEF TypeInv, ProcTypes
<1>2. NetTypes' /\ panel' = panel /\ UNCHANGED targetVars
  BY <1>1 DEF WebsiteStep, PauseSite, PauseApply, EnableSite, EnableStatus, EnableLink, NetTypes, others
<1>3. DataTypes'
  <2>1. CASE PauseSite \/ EnableSite BY <1>1, <2>1 DEF PauseSite, EnableSite, DataTypes, dbVars, nginx, others
  <2>2. CASE PauseApply BY <1>1, <2>2 DEF PauseApply, DataTypes, others
  <2>3. CASE EnableStatus BY <1>1, <2>3 DEF EnableStatus, DataTypes, nginx, others
  <2>4. CASE EnableLink
    <3>1. proc[Tasks].op \in {"paused", "migrated"} BY <1>1, <2>4 DEF TasksShape, EnableLink, At
    <3>2. QED BY <1>1, <2>4, <3>1 DEF EnableLink, DataTypes, nginx, others
  <2>5. QED BY <2>1, <2>2, <2>3, <2>4 DEF WebsiteStep
<1>4. Turn(Tasks) /\ TasksShape'
  <2>1. CASE Ends(Tasks)
    <3>1. Turn(Tasks) /\ proc'[Tasks].step = "idle" /\ proc'[Tasks].op = "none" BY <1>1, <2>1, EndsEffect
    <3>2. QED BY <3>1 DEF TasksShape
  <2>2. CASE Begin(Tasks, "pause", "pause")
    <3>1. "pause" \in Steps /\ "pause" \in Ops BY DEF Steps, Ops
    <3>2. Turn(Tasks) /\ proc'[Tasks].step = "pause" /\ proc'[Tasks].op = "pause" BY <1>1, <2>2, <3>1, BeginEffect
    <3>3. QED BY <3>2 DEF TasksShape, TaskSteps
  <2>3. CASE EnableSite
    <3>1. site \in {"paused", "migrated"} /\ "enable" \in Steps /\ {"paused", "migrated"} \subseteq Ops
      BY <2>3 DEF EnableSite, Steps, Ops
    <3>2. Begin(Tasks, "enable", site) BY <2>3 DEF EnableSite
    <3>3. Turn(Tasks) /\ proc'[Tasks].step = "enable" /\ proc'[Tasks].op = site BY <1>1, <3>1, <3>2, BeginEffect
    <3>4. QED BY <3>1, <3>3 DEF TasksShape, TaskSteps
  <2>4. CASE EnableStatus /\ Goto(Tasks, "enable_link")
    <3>1. "enable_link" \in Steps BY DEF Steps
    <3>2. Turn(Tasks) /\ proc'[Tasks].step = "enable_link" /\ proc'[Tasks].op = proc[Tasks].op
      BY <1>1, <2>4, <3>1, GotoEffect
    <3>3. proc[Tasks].op \in {"paused", "migrated"} BY <1>1, <2>4 DEF TasksShape, EnableStatus, At
    <3>4. QED BY <3>2, <3>3 DEF TasksShape, TaskSteps
  <2>5. QED BY <2>1, <2>2, <2>3, <2>4 DEF WebsiteStep, PauseSite, PauseApply, EnableStatus, EnableLink
<1>5. HiddenAt(Tasks)' BY <1>4 DEF HiddenAt, TasksShape
<1>6. Tasks # Worker /\ Tasks \notin Handlers BY ProcNames
<1>7. QED BY <1>1, <1>2, <1>3, <1>4, <1>5, <1>6, TurnTypes

-----------------------------------------------------------------------------
\* Calls, B, time and crashes, typed.

\* Calls.
LEMMA AnswerTypes ==
  ASSUME TypeInv, panel' = panel, NEW c \in net, NEW s \in Steps, Goto(c.from, s), Waiting(c),
         \/ c.type = "queue" /\ s = "release"
         \/ c.type = "abandon" /\ s = "abandon"
  PROVE  /\ ProcTypes' /\ c.from \in Procs /\ Turn(c.from)
         /\ c.type = "queue" => HiddenAt(c.from)'
<1>1. proc \in [Procs -> ProcRecords] /\ NetTypes /\ panel \in {"up", "down"} BY Typed DEF DataTypes
<1>2. c.type = "queue" => c.from = Worker BY <1>1 DEF NetTypes
<1>3. c.type = "abandon" => c.from \in Handlers BY <1>1 DEF NetTypes
<1>4. c.from \in Procs BY <1>2, <1>3, ProcNames
<1>5. Turn(c.from) /\ proc'[c.from].step = s /\ proc'[c.from].op = proc[c.from].op BY <1>1, <1>4, GotoEffect
<1>6. panel = "up" BY <1>1, <1>4 DEF Waiting, TypeInv, ProcTypes
<1>7. CASE c.type = "queue"
  <2>1. c.from = Worker /\ s = "release" BY <1>2, <1>7
  <2>2. WorkerShape' BY <1>5, <2>1 DEF TypeInv, ProcTypes, WorkerShape, WorkerSteps, FirstTry, Again
  <2>3. HiddenAt(Worker)' BY <2>2 DEF HiddenAt, WorkerShape
  <2>4. ProcTypes' BY <1>4, <1>5, <1>6, <2>1, <2>2, ProcNames, TurnShapes
  <2>5. QED BY <1>4, <1>5, <2>1, <2>3, <2>4
<1>8. CASE c.type = "abandon"
  <2>1. c.from \in Handlers /\ s = "abandon" BY <1>3, <1>8
  <2>2. HandlerShape(c.from)' BY <1>5, <2>1 DEF HandlerShape, CleanupSteps
  <2>3. ProcTypes' BY <1>4, <1>5, <1>6, <2>1, <2>2, ProcNames, TurnShapes
  <2>4. QED BY <1>4, <1>5, <1>8, <2>3
<1>9. QED BY <1>7, <1>8

\* B carries a call out: it has abandoned its task before the caller learns it.
LEMMA DeliverTypes ==
  ASSUME TypeInv, NEW c \in net, Deliver(c)
  PROVE  TypeInv'
<1>1. DataTypes /\ NetTypes /\ TargetTypes /\ ProcTypes /\ HiddenInv BY DEF TypeInv
<1>2. NetTypes' BY <1>1 DEF Deliver, NetTypes
<1>3. DataTypes' BY <1>1 DEF Deliver, DataTypes, dbVars, nginx, others
<1>4. panel' = panel BY DEF Deliver, others
<1>5. {"release", "abandon"} \subseteq Steps BY DEF Steps
<1>6. CASE UNCHANGED proc
  <2>1. ProcTypes' BY <1>1, <1>4, <1>6 DEF ProcTypes, WorkerShape, TasksShape, HandlerShape
  <2>2. CASE UNCHANGED targetVars BY <1>2, <1>3, <1>4, <1>6, <2>2, SameProcs
  <2>3. CASE QueueTarget
    <3>1. TargetTypes' /\ Stays /\ (shown' => phase' \in {"live", "gone"})
      BY <1>1, <2>3 DEF QueueTarget, TargetTypes, Phases, Stays, HiddenInv
    <3>2. QED BY <1>2, <1>3, <1>6, <2>1, <3>1, TargetMoves
  <2>4. CASE phase' = "abandoned" /\ shown' = FALSE /\ UNCHANGED received
    <3>1. TargetTypes' /\ Stays /\ (shown' => phase' \in {"live", "gone"})
      BY <1>1, <2>4 DEF TargetTypes, Phases, Stays
    <3>2. QED BY <1>2, <1>3, <1>6, <2>1, <3>1, TargetMoves
  <2>5. CASE phase' = "gone" /\ received' = FALSE /\ UNCHANGED shown
    <3>1. TargetTypes' /\ Stays /\ (shown' => phase' \in {"live", "gone"})
      BY <1>1, <2>5 DEF TargetTypes, Phases, Stays
    <3>2. QED BY <1>2, <1>3, <1>6, <2>1, <3>1, TargetMoves
  <2>6. QED
    BY <2>2, <2>3, <2>4, <2>5 DEF Deliver, DeliverQueue, DeliverAbandon, DeliverDelete, DeliverToSource, targetVars
<1>7. CASE DeliverQueue(c) /\ Waiting(c) /\ Goto(c.from, "release")
  <2>1. c.type = "queue" BY <1>7 DEF DeliverQueue
  <2>2. ProcTypes' /\ Turn(c.from) /\ c.from \in Procs /\ HiddenAt(c.from)' BY <1>4, <1>5, <1>7, <2>1, AnswerTypes
  <2>3. TargetTypes' /\ Stays /\ (shown' => phase' \in {"live", "gone"})
    <3>1. CASE QueueTarget BY <1>1, <3>1 DEF QueueTarget, TargetTypes, Phases, Stays, HiddenInv
    <3>2. CASE UNCHANGED targetVars BY <1>1, <3>2 DEF TargetTypes, Stays, HiddenInv, targetVars
    <3>3. QED BY <1>7, <3>1, <3>2 DEF DeliverQueue, Answer, targetVars
  <2>4. \A p \in Procs : proc'[p] = proc[p] \/ HiddenAt(p)' BY <2>2 DEF Turn
  <2>5. QED BY <1>2, <1>3, <2>2, <2>3, <2>4, TargetMoves
<1>8. CASE DeliverAbandon(c) /\ Waiting(c) /\ Goto(c.from, "abandon") /\ phase' = "abandoned"
  <2>1. c.type = "abandon" BY <1>8 DEF DeliverAbandon
  <2>2. ProcTypes' /\ Turn(c.from) /\ c.from \in Procs BY <1>4, <1>5, <1>8, <2>1, AnswerTypes
  <2>3. TargetTypes' /\ shown' = FALSE
    BY <1>1, <1>8 DEF DeliverAbandon, TargetTypes, Phases, HiddenInv, targetVars
  <2>4. HiddenAt(c.from)' BY <1>8, <2>3 DEF HiddenAt
  <2>5. \A p \in Procs : proc'[p] = proc[p] \/ HiddenAt(p)' BY <2>2, <2>4 DEF Turn
  <2>6. Stays BY <1>8, <2>3 DEF Stays
  <2>7. QED BY <1>2, <1>3, <2>2, <2>3, <2>5, <2>6, TargetMoves
<1>9. CASE DeliverToSource(c)
  <2>1. Local BY <1>2, <1>3, <1>4, <1>9 DEF Local, DeliverToSource
  <2>2. PICK h \in Handlers : Begin(h, IF c.type = "delete_source" THEN "scope" ELSE "abandon", c.type)
    BY <1>9 DEF DeliverToSource
  <2>3. Begin(h, "scope", "delete_source") \/ Begin(h, "abandon", "abandon_source")
    BY <1>9, <2>2 DEF DeliverToSource
  <2>4. QED BY <2>1, <2>3, HandlerBegins
<1>10. QED
  <2>1. CASE DeliverQueue(c)
    <3>1. UNCHANGED proc \/ (Waiting(c) /\ Goto(c.from, "release")) BY <2>1 DEF DeliverQueue, Answer
    <3>2. QED BY <1>6, <1>7, <2>1, <3>1
  <2>2. CASE DeliverAbandon(c)
    <3>1. UNCHANGED proc \/ (Waiting(c) /\ Goto(c.from, "abandon") /\ phase' = "abandoned")
      BY <2>2 DEF DeliverAbandon, Answer, targetVars
    <3>2. QED BY <1>6, <1>8, <2>2, <3>1
  <2>3. CASE DeliverDelete(c) BY <1>6, <2>3 DEF DeliverDelete
  <2>4. QED BY <1>9, <2>1, <2>2, <2>3 DEF Deliver

\* B by itself.
LEMMA TargetStepTypes ==
  ASSUME TypeInv, TargetStep
  PROVE  TypeInv'
<1>1. DataTypes /\ NetTypes /\ TargetTypes /\ ProcTypes /\ HiddenInv BY DEF TypeInv
<1>2. NetTypes'
  <2>1. net' = net \/ Send("delete_source", "target") \/ Send("abandon_source", "target") BY DEF TargetStep
  <2>2. QED BY <1>1, <2>1, Sent DEF NetTypes
<1>3. DataTypes' BY <1>1 DEF TargetStep, DataTypes, dbVars, nginx, others
<1>4. ProcTypes' BY <1>1 DEF TargetStep, ProcTypes, WorkerShape, TasksShape, HandlerShape, others
<1>5. TargetTypes' /\ Stays /\ (shown' => phase' \in {"live", "gone"})
  <2>1. CASE ReceiveTarget \/ StopTarget \/ RetryTarget
    <3>1. phase \in {"working", "stopped"} /\ phase' \in {"working", "stopped"} /\ UNCHANGED shown /\ received' \in {received, TRUE}
      BY <2>1 DEF ReceiveTarget, StopTarget, RetryTarget
    <3>2. QED BY <1>1, <3>1 DEF TargetTypes, Phases, Stays, HiddenInv
  <2>2. CASE ActivateTarget BY <1>1, <2>2 DEF ActivateTarget, TargetTypes, Phases, Stays
  <2>3. CASE phase' = "gone" /\ received' = FALSE /\ UNCHANGED shown BY <1>1, <2>3 DEF TargetTypes, Phases, Stays
  <2>4. CASE phase' = "abandoned" /\ shown' = FALSE /\ UNCHANGED received BY <1>1, <2>4 DEF TargetTypes, Phases, Stays
  <2>5. QED BY <2>1, <2>2, <2>3, <2>4 DEF TargetStep
<1>6. QED BY <1>2, <1>3, <1>4, <1>5, TargetMoves DEF TargetStep

\* Lost calls, visitors, leases and a restart.
LEMMA QuietTypes ==
  ASSUME TypeInv, (\E c \in net : Lose(c)) \/ Visit \/ OtherReload \/ LeaseExpires \/ LeaseLapses \/ Restart
  PROVE  TypeInv'
<1>1. DataTypes /\ NetTypes /\ row \in RowRecords BY DEF TypeInv, DataTypes
<1>2. row' \in RowRecords
  <2>1. "interrupted_unknown" \in Statuses /\ row.status \in Statuses /\ row.stage \in Stages
    BY <1>1 DEF RowRecords, Statuses
  <2>2. row' = row \/ row' = [row EXCEPT !.lease = "expired"]
        \/ row' = [row EXCEPT !.status = "interrupted_unknown", !.lease = "none"]
    BY DEF Lose, Visit, OtherReload, LeaseExpires, LeaseLapses, Restart, dbVars
  <2>3. QED BY <1>1, <2>1, <2>2, RowTypes
<1>3. faults' \in 0..MaxFaults /\ lapsed' \in BOOLEAN
  <2>1. UNCHANGED <<faults, lapsed>> \/ (faults < MaxFaults /\ faults' = faults + 1 /\ lapsed' = TRUE)
    BY DEF Lose, Visit, OtherReload, LeaseExpires, LeaseLapses, Restart, others
  <2>2. faults \in 0..MaxFaults /\ MaxFaults \in Nat /\ lapsed \in BOOLEAN BY <1>1, SiteMigrationAssumption DEF DataTypes
  <2>3. lapsed' \in BOOLEAN BY <2>1, <2>2
  <2>4. faults' = faults \/ (faults < MaxFaults /\ faults' = faults + 1) BY <2>1
  <2>5. faults' \in 0..MaxFaults BY <2>2, <2>4
  <2>6. QED BY <2>3, <2>5
<1>4. /\ lock' = lock /\ owned' = owned /\ link' = link /\ file' = file
      /\ site' \in {site, "migrated"} /\ loaded' \in {loaded, link} /\ dump' \in {dump, "stale"} /\ panel' \in {panel, "up"}
      /\ net' \subseteq net /\ UNCHANGED <<targetVars, proc>>
  BY DEF Lose, Visit, OtherReload, LeaseExpires, LeaseLapses, Restart, dbVars, nginx, others
<1>5. DataTypes' BY <1>1, <1>2, <1>3, <1>4 DEF DataTypes
<1>6. NetTypes' BY <1>1, <1>4 DEF NetTypes
<1>7. panel' = "down" => panel = "down" BY <1>4
<1>8. QED BY <1>4, <1>5, <1>6, <1>7, SameProcs

\* A crash.
LEMMA CrashTypes ==
  ASSUME TypeInv, Crash
  PROVE  TypeInv'
<1>1. DataTypes /\ NetTypes /\ TargetTypes /\ HiddenInv BY DEF TypeInv
<1>2. DataTypes' /\ NetTypes'
  BY <1>1, SiteMigrationAssumption DEF Crash, DataTypes, NetTypes, dbVars, nginx
<1>3. proc' \in [Procs -> ProcRecords] /\ \A p \in Procs : proc'[p].step = "idle" /\ proc'[p].op = "none"
  <2>1. proc' = [p \in Procs |-> Idle] BY DEF Crash
  <2>2. Idle.step = "idle" /\ Idle.op = "none" BY DEF Idle
  <2>3. QED BY <2>1, <2>2, IdleType
<1>4. ProcTypes' BY <1>3, ProcNames DEF ProcTypes, WorkerShape, TasksShape, HandlerShape, FirstTry, Again
<1>5. TargetTypes' /\ Stays /\ (shown' => phase' \in {"live", "gone"})
  BY <1>1 DEF Crash, TargetTypes, Stays, HiddenInv, targetVars
<1>6. \A p \in Procs : HiddenAt(p)' BY <1>3 DEF HiddenAt
<1>7. QED BY <1>2, <1>4, <1>5, <1>6, TargetMoves

\* The types hold initially.
LEMMA InitTypes == Init => TypeInv
<1> SUFFICES ASSUME Init PROVE TypeInv OBVIOUS
<1>1. DataTypes
  <2>1. 0 \in 0..MaxFaults BY SiteMigrationAssumption
  <2>2. QED BY <2>1, NoTaskType DEF Init, DataTypes
<1>2. NetTypes BY DEF Init, NetTypes
<1>3. TargetTypes /\ (shown => phase \in {"live", "gone"}) BY DEF Init, InitTarget, TargetTypes, Phases
<1>4. proc \in [Procs -> ProcRecords] /\ \A p \in Procs : proc[p].step = "idle" /\ proc[p].op = "none"
  <2>1. proc = [p \in Procs |-> Idle] BY DEF Init
  <2>2. Idle.step = "idle" /\ Idle.op = "none" BY DEF Idle
  <2>3. QED BY <2>1, <2>2, IdleType
<1>5. ProcTypes BY <1>4, ProcNames DEF ProcTypes, WorkerShape, TasksShape, HandlerShape, FirstTry, Again
<1>6. HiddenInv BY <1>3, <1>4 DEF HiddenInv, HiddenAt
<1>7. QED BY <1>1, <1>2, <1>3, <1>5, <1>6 DEF TypeInv

\* Every step preserves the types.
LEMMA NextTypes == TypeInv /\ [Next]_vars => TypeInv'
<1> SUFFICES ASSUME TypeInv, [Next]_vars PROVE TypeInv' OBVIOUS
<1>1. CASE UNCHANGED vars
  <2>1. DataTypes' /\ NetTypes' BY <1>1 DEF TypeInv, DataTypes, NetTypes, vars, dbVars, nginx, others
  <2>2. UNCHANGED <<targetVars, proc>> /\ panel' = panel BY <1>1 DEF vars, others
  <2>3. QED BY <2>1, <2>2, SameProcs
<1>2. CASE panel = "up" /\ WorkerStep BY <1>2, WorkerTypes
<1>3. CASE panel = "up" /\ WebsiteStep BY <1>3, WebsiteTypes
<1>4. CASE panel = "up" /\ \E h \in Handlers : Request(h) BY <1>4, RequestTypes
<1>5. CASE panel = "up" /\ \E p \in Procs : CleanupStep(p) BY <1>5, CleanupTypes
<1>6. CASE \E c \in net : Deliver(c) BY <1>6, DeliverTypes
<1>7. CASE (\E c \in net : Lose(c)) \/ Visit \/ OtherReload \/ LeaseExpires \/ LeaseLapses \/ Restart
  BY <1>7, QuietTypes
<1>8. CASE TargetStep BY <1>8, TargetStepTypes
<1>9. CASE Crash BY <1>9, CrashTypes
<1>10. QED BY <1>1, <1>2, <1>3, <1>4, <1>5, <1>6, <1>7, <1>8, <1>9 DEF Next

\* Types, the steps that each process may be at, and what B has abandoned before
\* A goes on with an abandonment, hold of every behaviour.
THEOREM TypeInvariant == Spec => []TypeInv
BY InitTypes, NextTypes, PTL DEF Spec

\* Every variable has its type, and every call under way is one that its sender
\* makes.
THEOREM TypeCorrect == Spec => []TypeOK
<1>1. TypeInv => TypeOK
  <2>1. TypeInv => \A p \in Procs : proc[p].step \in Steps BY DEF TypeInv, ProcTypes, ProcRecords
  <2>2. QED BY <2>1 DEF TypeInv, DataTypes, NetTypes, TargetTypes, TypeOK, RowRecords, Calls
<1>2. QED BY <1>1, TypeInvariant, PTL

\* Abandon shows the website of A again only when that of B is not shown, however
\* calls and answers are lost, late or repeated (Abandon, restoreAfterRemote).
THEOREM TargetIsHiddenFirst == Spec => []AbandonHidesTargetFirst
<1>1. TypeInv => AbandonHidesTargetFirst BY DEF TypeInv, HiddenInv, HiddenAt, AbandonHidesTargetFirst
<1>2. QED BY <1>1, TypeInvariant, PTL

-----------------------------------------------------------------------------
\* The website and the task.

CopyStages == {"source_frozen", "manifest_ready", "transferring_database"}
Copying    == row.stage \in CopyStages
IsFreezing == row.stage = "source_freezing"
Freezes    == proc[Worker].step \in FreezeSteps
Claimed    == proc[Worker].step \in FreezeSteps \cup {"prepare", "freeze"}
Declared   == phase # "none" /\ \A p \in Procs : ~At(p, "declare")
Over       == lock # "active" /\ Declared
Enabling(op) == proc[Tasks].step \in {"enable", "enable_link"} /\ proc[Tasks].op = op

RowInv ==
  /\ ~Exists => row = NoTask /\ lock = "none" /\ owned = "none"
  /\ row.status = "abandoned" <=> row.stage = "abandoned"
  /\ row.status \in {"cancelling", "cleanup_failed"} <=> row.stage = "cancelling"
  /\ row.status = "abandoned" => lock = "released"

\* Before the task is declared.
FreshInv ==
  ~Declared =>
    /\ ~Exists /\ dump = "none"
    /\ link # "maintenance" /\ loaded # "maintenance"
    /\ site # "migrated" /\ ~Enabling("migrated")
    /\ \A p \in Procs \ {Tasks} : proc[p].step \in {"idle", "declare"}
    /\ \A p, q \in Procs : At(p, "declare") /\ At(q, "declare") => p = q
    /\ phase = "none" => \A p \in Procs : ~At(p, "declare")

FreezeAt(s) ==
  /\ s \in {"write", "swap", "undo_rows"} => link = "site"
  /\ s \notin {"write", "swap", "undo_rows"} => link = "maintenance"
  /\ s \notin {"write", "undo_rows"} => file
  /\ s = "mark" => loaded = "maintenance"
FrozenInv ==
  /\ Copying => /\ lock = "active" /\ owned = "created"
                /\ link = "maintenance" /\ loaded = "maintenance" /\ file /\ ~Freezes
  /\ IsFreezing /\ link = "maintenance" => lock = "active" /\ owned = "created" /\ file
  /\ Freezes => Declared /\ (Over \/ (lock = "active" /\ site = "active"))
  /\ Freezes /\ IsFreezing => lock = "active" /\ owned = "created" /\ FreezeAt(proc[Worker].step)

SiteInv ==
  /\ site = "migrated" \/ Enabling("migrated") => Over
  /\ site = "paused" \/ Enabling("paused") => Over \/ (link = "none" /\ ~Freezes)
  /\ At(Tasks, "enable_link") => site = "active"

\* While no lease has lapsed.
OwnInv ==
  ~lapsed =>
    /\ link = "maintenance" /\ Exists => lock = "active" /\ owned = "created"
    /\ link = "maintenance" /\ ~Exists => \/ site = "migrated"
                                          \/ At(Tasks, "enable_link") /\ Enabling("migrated")
                                          \/ panel = "down" /\ site = "active"
    /\ link = "maintenance" => file \/ row.stage = "cancelling"
    /\ row.stage = "cancelling" => lock = "active" /\ owned = "created"
    /\ Claimed /\ lock = "active" => row.status = "running" /\ row.lease = "live"
    /\ Freezes => IsFreezing

\* What a process relies on at its next step.
DecidingAt(p) ==
  LET s == proc[p].step IN
  /\ s = "references" => Exists /\ owned # "created"
  /\ s \in {"cancel"} \cup Restoring => Exists /\ lock = "active" /\ owned = "created"
  /\ s \in Restoring /\ ~lapsed => ~Freezes
  /\ s = "cancel" => IF proc[p].undone THEN link = "site" /\ row.stage = "cancelling" ELSE link = "maintenance"
  /\ s \in Restoring => row.status = "cancelling"
  /\ s = "restore_link" => link = "maintenance"
  /\ s \in {"restore_reload", "restore_file", "restore_rows"} => link = "site"
  /\ s = "forget" => Over /\ owned # "created"
  /\ s \in {"pause", "enable"} => lock # "active"
OneDecides == \A p, q \in Procs : proc[p].step \in Deciding /\ proc[q].step \in Deciding => p = q

DataInv == RowInv /\ FrozenInv /\ SiteInv /\ OwnInv
Inv == DataInv /\ FreshInv /\ OneDecides /\ \A p \in Procs : DecidingAt(p)

\* The turn of p, and what it knows.
Ctx(p) == /\ Inv /\ TypeInv /\ TypeInv' /\ ~ScopeMayAge /\ panel = "up" /\ panel' = panel /\ lapsed' = lapsed
          /\ Undisturbed({p})

\* What a turn starts from.
LEMMA CtxFacts ==
  ASSUME NEW p \in Procs, Ctx(p)
  PROVE  /\ RowInv /\ FrozenInv /\ SiteInv /\ OwnInv /\ FreshInv /\ DecidingAt(p)
         /\ DataTypes /\ DataTypes' /\ proc \in [Procs -> ProcRecords] /\ panel = "up" /\ panel' = panel /\ lapsed' = lapsed
         /\ row \in RowRecords /\ row' \in RowRecords
BY DEF Ctx, Inv, DataInv, TypeInv, DataTypes, ProcTypes

\* Whoever is at a step of the task finds it declared.
LEMMA DeclaredAt ==
  ASSUME NEW p \in Procs, Ctx(p), Exists \/ (p # Tasks /\ proc[p].step \notin {"idle", "declare"})
  PROVE  Declared
BY CtxFacts DEF FreshInv

\* A task that is declared stays so.
LEMMA StaysDeclared ==
  ASSUME Declared, NEW p \in Procs, \A q \in Procs \ {p} : proc'[q] = proc[q],
         proc'[p].step # "declare", phase' # "none"
  PROVE  Declared'
BY DEF Declared, At

\* The others keep what they rely on: only a process that is about to forget
\* the task relies on anything here.
LEMMA OthersStay ==
  ASSUME NEW p \in Procs, Ctx(p), \A q \in Procs \ {p} : proc'[q] = proc[q],
         Over => Over' /\ (owned' = "created" => owned = "created"), DecidingAt(p)'
  PROVE  OneDecides' /\ \A q \in Procs : DecidingAt(q)'
<1>1. \A q \in Procs \ {p} : proc[q].step \notin Deciding BY DEF Ctx, Undisturbed
<1>2. OneDecides' BY <1>1 DEF OneDecides
<1>3. ASSUME NEW q \in Procs \ {p} PROVE DecidingAt(q)'
  <2>1. proc'[q].step = proc[q].step /\ proc[q].step \notin Deciding BY <1>1, <1>3
  <2>2. proc[q].step = "forget" => Over /\ owned # "created" BY <1>3 DEF Ctx, Inv, DecidingAt
  <2>3. QED BY <2>1, <2>2 DEF DecidingAt, Deciding, Restoring
<1>4. QED BY <1>2, <1>3

\* A step of a process, not a request, of a task that is declared.
LEMMA TaskMoves ==
  ASSUME NEW p \in Procs, Ctx(p), Declared, Turn(p) \/ UNCHANGED proc, proc'[p].step # "declare", phase' # "none",
         lock' = "active" => lock = "active",
         owned' = "created" => owned = "created" \/ lock = "active",
         Declared' => DataInv' /\ DecidingAt(p)'
  PROVE  Inv'
<1>1. \A q \in Procs \ {p} : proc'[q] = proc[q] BY DEF Turn
<1>2. Declared' BY <1>1, StaysDeclared
<1>3. Over => Over' /\ (owned' = "created" => owned = "created") BY <1>2 DEF Over
<1>4. OneDecides' /\ \A q \in Procs : DecidingAt(q)' BY <1>1, <1>2, <1>3, OthersStay
<1>5. QED BY <1>2, <1>4 DEF Inv, FreshInv

-----------------------------------------------------------------------------
\* The steps of the worker.

\* The worker's own steps.
LEMMA WorkerMoves ==
  ASSUME Ctx(Worker), Exists \/ proc[Worker].step # "idle", proc[Worker].step # "declare",
         Turn(Worker), proc'[Worker].step \in {"idle", "scope"} \cup WorkerSteps,
         UNCHANGED targetVars, lock' = lock, owned' = "created" => owned = "created" \/ lock = "active",
         Declared /\ Declared' /\ proc'[Tasks] = proc[Tasks] => DataInv'
  PROVE  Inv'
<1>1. Worker \in Procs /\ Tasks \in Procs /\ Worker # Tasks BY ProcNames
<1>2. Declared BY <1>1, DeclaredAt
<1>3. phase' # "none" BY <1>2 DEF Declared, targetVars
<1>4. DecidingAt(Worker)' BY DEF DecidingAt, WorkerSteps, FreezeSteps, FirstTry, Again, Restoring
<1>5. proc'[Worker].step # "declare" BY DEF WorkerSteps, FreezeSteps, FirstTry, Again
<1>6. proc'[Tasks] = proc[Tasks] BY <1>1 DEF Turn
<1>7. QED BY <1>1, <1>2, <1>3, <1>4, <1>5, <1>6, TaskMoves

\* A step that changes nothing but the lease and the status, and ends no freeze.
Ordinary == Statuses \ {"gone", "abandoned", "cancelling", "cleanup_failed"}
Resting  == UNCHANGED <<lock, owned, site, link, file, loaded, dump, panel, lapsed>>
            /\ proc'[Tasks] = proc[Tasks] /\ Declared /\ Declared'

\* What such a step preserves.
LEMMA StatusData ==
  ASSUME RowInv, FrozenInv, SiteInv, OwnInv, Resting, row \in RowRecords, row' \in RowRecords,
         row'.stage = row.stage, row'.status = row.status \/ (row.status \in Ordinary /\ row'.status \in Ordinary),
         row' = row \/ Exists,
         Freezes' => Freezes /\ proc'[Worker].step = proc[Worker].step,
         Claimed' => \/ Claimed /\ row'.status = row.status /\ row'.lease = row.lease
                     \/ lock # "active" \/ lapsed
                     \/ row'.status = "running" /\ row'.lease = "live"
  PROVE  DataInv'
<1>1. Exists' <=> Exists BY DEF Exists, Ordinary
<1>2. Copying' <=> Copying BY DEF Copying
<1>3. IsFreezing' <=> IsFreezing BY DEF IsFreezing
<1>4. RowInv' BY <1>1 DEF RowInv, Resting, Ordinary, Exists
<1>5. FrozenInv' BY <1>2, <1>3 DEF FrozenInv, Resting, Over, FreezeAt
<1>6. SiteInv' BY DEF SiteInv, Resting, Over, Enabling, At
<1>7. OwnInv' BY <1>1, <1>3 DEF OwnInv, Resting, Enabling, At
<1>8. QED BY <1>4, <1>5, <1>6, <1>7 DEF DataInv

\* The worker goes on, or gives up; the data is as it was.
LEMMA WorkerPasses ==
  ASSUME Ctx(Worker), Exists \/ proc[Worker].step # "idle", proc[Worker].step # "declare",
         Turn(Worker), proc'[Worker].step \in {"idle", "scope"} \cup WorkerSteps,
         UNCHANGED <<lock, owned, site, link, file, loaded, dump, targetVars>>,
         row'.stage = row.stage, row'.status = row.status \/ (row.status \in Ordinary /\ row'.status \in Ordinary),
         row' = row \/ Exists,
         Freezes' => Freezes /\ proc'[Worker].step = proc[Worker].step,
         Claimed' => \/ Claimed /\ row'.status = row.status /\ row'.lease = row.lease
                     \/ row'.status = "running" /\ row'.lease = "live"
  PROVE  Inv'
<1>1. /\ RowInv /\ FrozenInv /\ SiteInv /\ OwnInv
      /\ panel' = panel /\ lapsed' = lapsed /\ row \in RowRecords /\ row' \in RowRecords
  BY CtxFacts, ProcNames
<1>2. ASSUME Declared, Declared', proc'[Tasks] = proc[Tasks] PROVE DataInv'
  <2>1. Resting BY <1>1, <1>2 DEF Resting
  <2>2. QED BY <1>1, <2>1, StatusData
<1>3. QED BY <1>2, WorkerMoves

\* A failure of the preparation that leaves website and resources.
LEMMA PrepareFailedInv ==
  ASSUME Ctx(Worker), proc[Worker].step \in WorkerSteps, PrepareFailed,
         UNCHANGED <<lock, owned, site, link, file, loaded, dump, targetVars>>
  PROVE  Inv'
<1>1. proc \in [Procs -> ProcRecords] /\ row \in RowRecords /\ row' \in RowRecords /\ RowInv /\ Worker \in Procs
  BY CtxFacts, ProcNames
<1>2. "release_failed" \in Steps BY DEF Steps
<1>3. Turn(Worker) /\ proc'[Worker].step = "release_failed" BY <1>1, <1>2, GotoEffect DEF PrepareFailed
<1>4. row'.stage = row.stage /\ (row' = row \/ (row.status = "running" /\ row'.status = "failed_retryable"))
  BY <1>1 DEF PrepareFailed, RowRecords
<1>5. row.status = "running" => Exists /\ row.status \in Ordinary /\ "failed_retryable" \in Ordinary
  BY DEF Exists, Ordinary, Statuses
<1>6. proc[Worker].step \notin {"idle", "declare"} BY DEF WorkerSteps, FreezeSteps, FirstTry, Again
<1>7. ~Freezes' /\ ~Claimed' /\ "release_failed" \in WorkerSteps
  BY <1>3 DEF Freezes, Claimed, FreezeSteps, FirstTry, Again, WorkerSteps
<1>8. QED BY <1>3, <1>4, <1>5, <1>6, <1>7, WorkerPasses

-----------------------------------------------------------------------------
\* The freeze.

\* A process moves to another step.
LEMMA Going ==
  ASSUME NEW p \in Procs, Ctx(p), NEW s \in Steps, Goto(p, s)
  PROVE  Turn(p) /\ proc'[p].step = s /\ proc'[p].op = proc[p].op /\ proc'[p].undone = proc[p].undone
BY CtxFacts, GotoEffect

\* ClaimNext and Prepare preserve the invariant.
LEMMA ClaimInv ==
  ASSUME Ctx(Worker), ClaimNext \/ Prepare
  PROVE  Inv'
<1>1. RowInv /\ Worker \in Procs /\ row \in RowRecords /\ row' \in RowRecords BY CtxFacts, ProcNames
<1>2. CASE ClaimNext
  <2>1. "prepare" \in Steps BY DEF Steps
  <2>2. Turn(Worker) /\ proc'[Worker].step = "prepare" BY <1>1, <1>2, <2>1, Going DEF ClaimNext
  <2>3. row'.stage = row.stage /\ row.status = "queued" /\ row'.status = "running" /\ row'.lease = "live"
    BY <1>1, <1>2 DEF ClaimNext, RowRecords
  <2>4. Exists /\ {"queued", "running"} \subseteq Ordinary BY <2>3 DEF Exists, Ordinary, Statuses
  <2>5. ~Freezes' /\ "prepare" \in WorkerSteps BY <2>2 DEF Freezes, FreezeSteps, FirstTry, Again, WorkerSteps
  <2>6. QED BY <1>2, <2>2, <2>3, <2>4, <2>5, WorkerPasses DEF ClaimNext, At, nginx
<1>3. CASE Prepare
  <2>1. PICK s \in {"freeze", "manifest", "database", "release_failed"} : Goto(Worker, s)
    BY <1>3 DEF Prepare, PrepareStep
  <2>2. s \in Steps BY DEF Steps
  <2>3. Turn(Worker) /\ proc'[Worker].step = s BY <1>1, <2>1, <2>2, Going
  <2>4. row' = row BY <1>3 DEF Prepare, dbVars
  <2>5. ~Freezes' /\ s \in WorkerSteps /\ Claimed BY <1>3, <2>3 DEF Freezes, FreezeSteps, FirstTry, Again, WorkerSteps, Claimed, Prepare, At
  <2>6. proc[Worker].step = "prepare" BY <1>3 DEF Prepare, At
  <2>7. QED BY <1>3, <2>3, <2>4, <2>5, <2>6, WorkerPasses DEF Prepare, dbVars, nginx
<1>4. QED BY <1>2, <1>3

\* FreezeSource preserves the invariant: it records what it will do before it does it.
LEMMA FreezeSourceInv ==
  ASSUME Ctx(Worker), FreezeSource
  PROVE  Inv'
<1>1. /\ RowInv /\ FrozenInv /\ SiteInv /\ OwnInv /\ Worker \in Procs /\ row \in RowRecords
      /\ row' \in RowRecords /\ panel' = panel /\ lapsed' = lapsed /\ site \in {"active", "paused", "migrated"}
      /\ proc \in [Procs -> ProcRecords] /\ owned \in {"none", "created", "removed"}
  BY CtxFacts, ProcNames DEF DataTypes
<1>2. proc[Worker].step = "freeze" /\ UNCHANGED <<lock, site, link, file, loaded, dump, targetVars>>
  BY DEF FreezeSource, At, nginx
<1>3. CASE PrepareFailed /\ UNCHANGED owned BY <1>2, <1>3, PrepareFailedInv DEF WorkerSteps
<1>4. CASE /\ lock = "active" /\ link = "maintenance" /\ row.stage = "source_freezing"
           /\ Goto(Worker, "reload_again") /\ UNCHANGED <<row, owned>>
  <2>1. "reload_again" \in Steps /\ "reload_again" \in WorkerSteps BY DEF Steps, WorkerSteps, FreezeSteps, Again
  <2>2. Turn(Worker) /\ proc'[Worker].step = "reload_again" BY <1>1, <1>4, <2>1, Going
  <2>3. ASSUME Declared, Declared', proc'[Tasks] = proc[Tasks] PROVE DataInv'
    <3>1. Exists /\ owned = "created" /\ file /\ ~Over BY <1>1, <1>4 DEF RowInv, FrozenInv, IsFreezing, NoTask, Over
    <3>2. site = "active" BY <1>1, <1>4, <3>1 DEF SiteInv
    <3>3. RowInv' BY <1>1, <1>2, <1>4 DEF RowInv, Exists
    <3>4. FrozenInv' BY <1>1, <1>2, <1>4, <2>2, <2>3, <3>1, <3>2 DEF FrozenInv, Copying, CopyStages, IsFreezing, FreezeAt
    <3>5. SiteInv' BY <1>1, <1>2, <1>4, <2>2, <2>3, <3>1 DEF SiteInv, Enabling, Over, At
    <3>6. OwnInv' BY <1>1, <1>2, <1>4, <2>2, <2>3, <3>1 DEF OwnInv, Enabling, At, Exists, Claimed, IsFreezing
    <3>7. QED BY <3>3, <3>4, <3>5, <3>6 DEF DataInv
  <2>4. QED BY <1>2, <1>4, <2>1, <2>2, <2>3, WorkerMoves
<1>5. CASE /\ lock = "active" /\ link = "site" /\ row.stage \in {"preflight_passed", "source_freezing"}
           /\ SetRow(row.status, "source_freezing") /\ owned' = "created"
           /\ proc' = [proc EXCEPT ![Worker] = [step |-> "write", op |-> row.stage, undone |-> FALSE]]
  <2>1. [step |-> "write", op |-> row.stage, undone |-> FALSE] \in ProcRecords
    BY <1>5 DEF ProcRecords, Steps, Ops, Tries
  <2>2. Turn(Worker) /\ proc'[Worker] = [step |-> "write", op |-> row.stage, undone |-> FALSE]
    BY <1>1, <1>5, <2>1 DEF Turn
  <2>3. proc'[Worker].step = "write" /\ "write" \in WorkerSteps BY <2>2 DEF WorkerSteps, FreezeSteps, FirstTry
  <2>4. row.status \in Statuses /\ "source_freezing" \in Stages BY <1>1 DEF RowRecords, Stages
  <2>5. row'.status = row.status /\ row'.stage = "source_freezing" /\ row'.lease = row.lease
    BY <1>1, <1>5, <2>4, SetRowEffect
  <2>6. ASSUME Declared, Declared', proc'[Tasks] = proc[Tasks] PROVE DataInv'
    <3>1. Exists /\ Exists' /\ ~Over BY <1>1, <1>5, <2>5 DEF RowInv, Over, Exists
    <3>2. site = "active" BY <1>1, <1>5, <3>1 DEF SiteInv
    <3>3. RowInv' BY <1>1, <1>2, <1>5, <2>5, <3>1 DEF RowInv
    <3>4. FrozenInv' BY <1>2, <1>5, <2>3, <2>5, <2>6, <3>1, <3>2 DEF FrozenInv, Copying, CopyStages, IsFreezing, FreezeAt
    <3>5. SiteInv' BY <1>1, <1>2, <1>5, <2>3, <2>6, <3>1, <3>2 DEF SiteInv, Enabling, Over, At
    <3>6. OwnInv' BY <1>1, <1>2, <1>5, <2>3, <2>5, <2>6, <3>1 DEF OwnInv, Claimed, IsFreezing
    <3>7. QED BY <3>3, <3>4, <3>5, <3>6 DEF DataInv
  <2>7. QED BY <1>2, <1>5, <2>2, <2>3, <2>6, WorkerMoves
<1>6. QED BY <1>3, <1>4, <1>5 DEF FreezeSource

\* While the worker freezes the site nothing has been copied.
LEMMA Freezing ==
  ASSUME Ctx(Worker), Freezes
  PROVE  /\ ~Copying /\ Declared
         /\ site = "paused" \/ Enabling("paused") => Over
         /\ Over \/ (lock = "active" /\ site = "active")
         /\ IsFreezing => lock = "active" /\ owned = "created" /\ FreezeAt(proc[Worker].step) /\ Exists
         /\ ~lapsed => IsFreezing
BY CtxFacts, ProcNames DEF FrozenInv, SiteInv, OwnInv, IsFreezing, RowInv, NoTask

\* A step of the freeze that leaves the rows.
LEMMA FreezeData ==
  ASSUME Ctx(Worker), Freezes, Turn(Worker), proc'[Worker].step \in FreezeSteps,
         UNCHANGED <<row, lock, owned, site, dump, targetVars>>,
         \* the worker is where the link and the file say
         FreezeAt(proc[Worker].step) => FreezeAt(proc[Worker].step)',
         IsFreezing /\ FreezeAt(proc[Worker].step) => (link' = "maintenance" => file')
  PROVE  Inv'
<1>1. /\ RowInv /\ FrozenInv /\ SiteInv /\ OwnInv /\ panel' = panel /\ lapsed' = lapsed
      /\ proc[Worker].step \notin {"idle", "declare"} /\ proc'[Worker].step \in WorkerSteps
  BY CtxFacts, ProcNames DEF Freezes, FreezeSteps, FirstTry, Again, WorkerSteps
<1>2. /\ ~Copying
      /\ site = "paused" \/ Enabling("paused") => Over
      /\ Over \/ (lock = "active" /\ site = "active")
      /\ IsFreezing => lock = "active" /\ owned = "created" /\ FreezeAt(proc[Worker].step) /\ Exists
      /\ ~lapsed => IsFreezing
  BY Freezing
<1>3. ASSUME Declared, Declared', proc'[Tasks] = proc[Tasks] PROVE DataInv'
  <2>1. Freezes' /\ Claimed' /\ Claimed BY DEF Freezes, Claimed
  <2>2. (Copying' <=> Copying) /\ (IsFreezing' <=> IsFreezing) /\ (Exists' <=> Exists) /\ (Over' <=> Over)
    BY <1>3 DEF Copying, IsFreezing, Exists, Over
  <2>3. RowInv' BY <1>1, <2>2 DEF RowInv
  <2>4. FrozenInv' BY <1>1, <1>2, <1>3, <2>1, <2>2 DEF FrozenInv
  <2>5. SiteInv' BY <1>1, <1>2, <1>3, <2>2 DEF SiteInv, Enabling, At
  <2>6. OwnInv' BY <1>1, <1>2, <1>3, <2>1, <2>2 DEF OwnInv
  <2>7. QED BY <2>3, <2>4, <2>5, <2>6 DEF DataInv
<1>4. QED BY <1>1, <1>3, WorkerMoves

\* The steps of a freeze are steps of the worker.
LEMMA FreezeStepsAreSteps == FreezeSteps \subseteq Steps /\ FreezeSteps \subseteq WorkerSteps
BY DEF FreezeSteps, FirstTry, Again, Steps, WorkerSteps

\* WriteMaintenance and SwapLink preserve the invariant: the file comes before the link.
LEMMA WriteInv ==
  ASSUME Ctx(Worker), WriteMaintenance \/ SwapLink
  PROVE  Inv'
<1>1. Worker \in Procs BY ProcNames
<1>2. PICK s \in FreezeSteps : Goto(Worker, s)
  BY DEF WriteMaintenance, SwapLink, FreezeSteps, FirstTry
<1>3. s \in Steps BY FreezeStepsAreSteps
<1>4. Turn(Worker) /\ proc'[Worker].step = s BY <1>1, <1>2, <1>3, Going
<1>5. Freezes BY DEF WriteMaintenance, SwapLink, At, Freezes, FreezeSteps, FirstTry
<1>6. UNCHANGED <<row, lock, owned, site, dump, targetVars>> BY DEF WriteMaintenance, SwapLink, dbVars
<1>7. CASE WriteMaintenance
  <2>1. CASE file' = TRUE /\ Goto(Worker, "swap")
    <3>1. proc'[Worker].step = "swap" BY <1>1, <2>1, Going DEF Steps
    <3>2. proc[Worker].step = "write" /\ link' = link BY <1>7 DEF WriteMaintenance, At
    <3>3. FreezeAt(proc[Worker].step) => FreezeAt(proc[Worker].step)' BY <2>1, <3>1, <3>2 DEF FreezeAt
    <3>4. QED BY <1>2, <1>4, <1>5, <1>6, <2>1, <3>3, FreezeData
  <2>2. CASE UNCHANGED file /\ Goto(Worker, "undo_rows")
    <3>1. proc'[Worker].step = "undo_rows" BY <1>1, <2>2, Going DEF Steps
    <3>2. proc[Worker].step = "write" /\ link' = link BY <1>7 DEF WriteMaintenance, At
    <3>3. FreezeAt(proc[Worker].step) => FreezeAt(proc[Worker].step)' BY <3>1, <3>2 DEF FreezeAt
    <3>4. FreezeAt(proc[Worker].step) => link' = "site" BY <3>2 DEF FreezeAt
    <3>5. QED BY <1>2, <1>4, <1>5, <1>6, <3>3, <3>4, FreezeData
  <2>3. QED BY <1>7, <2>1, <2>2 DEF WriteMaintenance
<1>8. CASE SwapLink
  <2>1. proc[Worker].step = "swap" /\ file' = file BY <1>8 DEF SwapLink, At
  <2>2. CASE link' = "maintenance" /\ Goto(Worker, "reload")
    <3>1. proc'[Worker].step = "reload" BY <1>1, <2>2, Going DEF Steps
    <3>2. FreezeAt(proc[Worker].step) => FreezeAt(proc[Worker].step)' /\ file' BY <2>1, <2>2, <3>1 DEF FreezeAt
    <3>3. QED BY <1>2, <1>4, <1>5, <1>6, <3>2, FreezeData
  <2>3. CASE UNCHANGED link /\ Goto(Worker, "undo_rows")
    <3>1. proc'[Worker].step = "undo_rows" BY <1>1, <2>3, Going DEF Steps
    <3>2. FreezeAt(proc[Worker].step) => FreezeAt(proc[Worker].step)' /\ file' BY <2>1, <2>3, <3>1 DEF FreezeAt
    <3>3. QED BY <1>2, <1>4, <1>5, <1>6, <3>2, FreezeData
  <2>4. QED BY <1>8, <2>2, <2>3 DEF SwapLink
<1>9. QED BY <1>7, <1>8

\* Reload preserves the invariant.
LEMMA ReloadInv ==
  ASSUME Ctx(Worker), Reload
  PROVE  Inv'
<1>1. Worker \in Procs BY ProcNames
<1>2. Freezes /\ proc[Worker].step \in {"reload", "reload_again"} BY DEF Reload, Freezes, FreezeSteps, FirstTry, Again
<1>3. UNCHANGED <<lock, owned, site, file, dump, targetVars>> BY DEF Reload
<1>4. CASE PrepareFailed /\ UNCHANGED <<link, loaded>>
  <2>1. proc[Worker].step \in WorkerSteps BY <1>2, FreezeStepsAreSteps DEF Freezes
  <2>2. QED BY <1>3, <1>4, <2>1, PrepareFailedInv
<1>5. CASE /\ loaded' = link /\ UNCHANGED <<link, row>>
           /\ Goto(Worker, IF At(Worker, "reload") THEN "verify" ELSE "verify_again")
  <2>1. PICK s \in {"verify", "verify_again"} : Goto(Worker, s) BY <1>5
  <2>2. s \in Steps /\ s \in FreezeSteps BY DEF Steps, FreezeSteps, FirstTry, Again
  <2>3. Turn(Worker) /\ proc'[Worker].step = s BY <1>1, <2>1, <2>2, Going
  <2>4. FreezeAt(proc[Worker].step) => FreezeAt(proc[Worker].step)' /\ file' BY <1>2, <1>3, <1>5, <2>3 DEF FreezeAt
  <2>5. QED BY <1>2, <1>3, <1>5, <2>2, <2>3, <2>4, FreezeData
<1>6. CASE link' = "site" /\ Goto(Worker, "undo_rows") /\ UNCHANGED <<loaded, row>>
  <2>1. "undo_rows" \in Steps /\ "undo_rows" \in FreezeSteps BY DEF Steps, FreezeSteps, FirstTry
  <2>2. Turn(Worker) /\ proc'[Worker].step = "undo_rows" BY <1>1, <1>6, <2>1, Going
  <2>3. FreezeAt(proc[Worker].step) => FreezeAt(proc[Worker].step)' BY <1>6, <2>2 DEF FreezeAt
  <2>4. QED BY <1>2, <1>3, <1>6, <2>1, <2>2, <2>3, FreezeData
<1>7. QED BY <1>4, <1>5, <1>6 DEF Reload

\* Verify preserves the invariant: the worker goes on only when nginx has loaded the maintenance page.
LEMMA VerifyInv ==
  ASSUME Ctx(Worker), Verify
  PROVE  Inv'
<1>1. Worker \in Procs BY ProcNames
<1>2. Freezes /\ proc[Worker].step \in {"verify", "verify_again"} BY DEF Verify, Freezes, FreezeSteps, FirstTry, Again
<1>3. UNCHANGED <<row, lock, owned, site, link, file, loaded, dump, targetVars>> BY DEF Verify, dbVars, nginx
<1>4. PICK s \in {"mark", "undo_link", "restore_again"} : Goto(Worker, s) /\ (s = "mark" => loaded = "maintenance")
  BY DEF Verify
<1>5. s \in Steps /\ s \in FreezeSteps BY DEF Steps, FreezeSteps, FirstTry, Again
<1>6. Turn(Worker) /\ proc'[Worker].step = s BY <1>1, <1>4, <1>5, Going
<1>7. FreezeAt(proc[Worker].step) => FreezeAt(proc[Worker].step)' /\ file' BY <1>2, <1>3, <1>4, <1>6 DEF FreezeAt
<1>8. QED BY <1>2, <1>3, <1>5, <1>6, <1>7, FreezeData

\* The worker gives up a freeze: the link is put where it says, the task fails.
LEMMA GivesUpInv ==
  ASSUME Ctx(Worker), Freezes, PrepareFailed, UNCHANGED <<lock, owned, site, file, dump, targetVars>>,
         proc[Worker].step \in {"undo_link", "restore_again"},
         \/ link' = "site" /\ loaded' = "site"
         \/ link' = "maintenance" /\ UNCHANGED loaded
  PROVE  Inv'
<1>1. /\ RowInv /\ FrozenInv /\ SiteInv /\ OwnInv /\ Worker \in Procs /\ row \in RowRecords /\ row' \in RowRecords
      /\ panel' = panel /\ lapsed' = lapsed
  BY CtxFacts, ProcNames
<1>2. /\ ~Copying
      /\ site = "paused" \/ Enabling("paused") => Over
      /\ IsFreezing => lock = "active" /\ owned = "created" /\ FreezeAt(proc[Worker].step) /\ Exists
      /\ ~lapsed => IsFreezing
  BY Freezing
<1>3. "release_failed" \in Steps /\ "release_failed" \in WorkerSteps BY DEF Steps, WorkerSteps
<1>4. Turn(Worker) /\ proc'[Worker].step = "release_failed" BY <1>1, <1>3, Going DEF PrepareFailed
<1>5. row'.stage = row.stage /\ (row' = row \/ (row.status = "running" /\ row'.status = "failed_retryable"))
  BY <1>1 DEF PrepareFailed, RowRecords
<1>6. (Copying' <=> Copying) /\ (IsFreezing' <=> IsFreezing) /\ (Exists' <=> Exists)
  BY <1>5 DEF Copying, IsFreezing, Exists
<1>7. ~Freezes' /\ ~Claimed' BY <1>4 DEF Freezes, Claimed, FreezeSteps, FirstTry, Again
<1>8. ASSUME Declared, Declared', proc'[Tasks] = proc[Tasks] PROVE DataInv'
  <2>1. RowInv'
    <3>1. CASE row' = row BY <1>1, <1>6, <3>1 DEF RowInv
    <3>2. CASE row.status = "running" /\ row'.status = "failed_retryable"
      <4>1. Exists' BY <3>2 DEF Exists
      <4>2. QED BY <1>1, <1>5, <3>2, <4>1 DEF RowInv
    <3>3. QED BY <1>5, <3>1, <3>2
  <2>2. IsFreezing => file BY <1>2 DEF FreezeAt
  <2>3. FrozenInv' BY <1>2, <1>6, <1>7, <2>2 DEF FrozenInv
  <2>4. SiteInv' BY <1>1, <1>2, <1>8 DEF SiteInv, Enabling, Over, At
  <2>5. ~lapsed => row.stage # "cancelling" BY <1>2 DEF IsFreezing
  <2>6. OwnInv' BY <1>1, <1>2, <1>5, <1>6, <1>7, <2>2, <2>5 DEF OwnInv
  <2>7. QED BY <2>1, <2>3, <2>4, <2>6 DEF DataInv
<1>9. proc[Worker].step \notin {"idle", "declare"} OBVIOUS
<1>10. QED BY <1>3, <1>4, <1>8, <1>9, WorkerMoves

\* UndoLink preserves the invariant: with the link in maintenance the file stays.
LEMMA UndoLinkInv ==
  ASSUME Ctx(Worker), UndoLink
  PROVE  Inv'
<1>1. Worker \in Procs BY ProcNames
<1>2. Freezes /\ proc[Worker].step \in {"undo_link", "restore_again"}
  BY DEF UndoLink, Freezes, FreezeSteps, FirstTry, Again
<1>3. UNCHANGED <<lock, owned, site, file, dump, targetVars>> BY DEF UndoLink
<1>4. CASE link' = "site" /\ loaded' = "site" /\ Goto(Worker, "undo_rows") /\ UNCHANGED row
  <2>1. "undo_rows" \in Steps /\ "undo_rows" \in FreezeSteps BY DEF Steps, FreezeSteps, FirstTry
  <2>2. Turn(Worker) /\ proc'[Worker].step = "undo_rows" BY <1>1, <1>4, <2>1, Going
  <2>3. FreezeAt(proc[Worker].step) => FreezeAt(proc[Worker].step)' BY <1>4, <2>2 DEF FreezeAt
  <2>4. QED BY <1>2, <1>3, <1>4, <2>1, <2>2, <2>3, FreezeData
<1>5. CASE PrepareFailed BY <1>2, <1>3, <1>5, GivesUpInv DEF UndoLink
<1>6. QED BY <1>4, <1>5 DEF UndoLink

\* UndoRows preserves the invariant: the file goes after the link.
LEMMA UndoRowsInv ==
  ASSUME Ctx(Worker), UndoRows
  PROVE  Inv'
<1>1. /\ RowInv /\ FrozenInv /\ SiteInv /\ OwnInv /\ Worker \in Procs /\ row \in RowRecords
      /\ panel' = panel /\ lapsed' = lapsed /\ proc \in [Procs -> ProcRecords] /\ WorkerShape
  BY CtxFacts, ProcNames DEF Ctx, TypeInv, ProcTypes
<1>2. proc[Worker].step = "undo_rows" /\ Freezes BY DEF UndoRows, At, Freezes, FreezeSteps, FirstTry
<1>3. /\ ~Copying
      /\ site = "paused" \/ Enabling("paused") => Over
      /\ IsFreezing => FreezeAt(proc[Worker].step)
      /\ ~lapsed => IsFreezing
  BY <1>2, Freezing
<1>4. proc[Worker].op \in {"preflight_passed", "source_freezing"} BY <1>1, <1>2 DEF WorkerShape, FirstTry, Tries
<1>5. /\ row'.stage = (IF row.stage = "source_freezing" THEN proc[Worker].op ELSE row.stage)
      /\ row'.status = (IF row.status = "running" THEN "failed_retryable" ELSE row.status)
      /\ row'.lease = row.lease
  BY <1>1 DEF UndoRows, RowRecords
<1>6. "release_failed" \in Steps /\ "none" \in Ops /\ "release_failed" \in WorkerSteps BY DEF Steps, Ops, WorkerSteps
<1>7. Turn(Worker) /\ proc'[Worker].step = "release_failed" BY <1>1, <1>6, BeginEffect DEF UndoRows
<1>8. ~Freezes' /\ ~Claimed' BY <1>7 DEF Freezes, Claimed, FreezeSteps, FirstTry, Again
<1>9. UNCHANGED <<lock, site, link, dump, targetVars>> /\ file' = FALSE /\ owned' = "none" BY DEF UndoRows
<1>10. Exists' <=> Exists BY <1>5 DEF Exists
<1>11. IsFreezing => link = "site" BY <1>2, <1>3 DEF FreezeAt
<1>12. ~Copying' /\ (IsFreezing' => IsFreezing) BY <1>3, <1>4, <1>5 DEF Copying, CopyStages, IsFreezing
<1>13. ASSUME Declared, Declared', proc'[Tasks] = proc[Tasks] PROVE DataInv'
  <2>1. RowInv'
    <3>1. Exists' => (row'.status = "abandoned" <=> row'.stage = "abandoned")
                     /\ (row'.status \in {"cancelling", "cleanup_failed"} <=> row'.stage = "cancelling")
      BY <1>1, <1>4, <1>5 DEF RowInv
    <3>2. row.status = "gone" => row = NoTask BY <1>1 DEF RowInv, Exists
    <3>3. ~Exists' => row' = row
      <4>1. ~Exists' => row = NoTask BY <1>1, <1>10 DEF RowInv
      <4>2. row = NoTask => row.stage # "source_freezing" /\ row.status # "running" BY DEF NoTask
      <4>3. row.stage # "source_freezing" /\ row.status # "running" => row' = row BY <1>1 DEF UndoRows, RowRecords
      <4>4. QED BY <4>1, <4>2, <4>3
    <3>4. row'.status = "abandoned" => row.status = "abandoned" BY <1>5
    <3>5. QED BY <1>1, <1>9, <1>10, <3>1, <3>3, <3>4 DEF RowInv
  <2>2. FrozenInv' BY <1>8, <1>9, <1>11, <1>12 DEF FrozenInv
  <2>3. SiteInv' BY <1>1, <1>3, <1>9, <1>13 DEF SiteInv, Enabling, Over, At
  <2>4. ~lapsed => link = "site" /\ row'.stage # "cancelling" BY <1>3, <1>4, <1>5, <1>11 DEF IsFreezing
  <2>5. OwnInv' BY <1>1, <1>8, <1>9, <2>4 DEF OwnInv
  <2>6. QED BY <2>1, <2>2, <2>3, <2>5 DEF DataInv
<1>14. proc[Worker].step \notin {"idle", "declare"} BY <1>2
<1>15. QED BY <1>6, <1>7, <1>9, <1>13, <1>14, WorkerMoves

-----------------------------------------------------------------------------
\* The exports and the release.

\* The export of a site that is frozen: from here until the task is cancelled B may copy.
LEMMA CopyInv ==
  ASSUME Ctx(Worker), Turn(Worker), proc[Worker].step \in {"mark", "manifest", "database"},
         proc'[Worker].step \in {"manifest", "database", "prepared", "release_failed"},
         UNCHANGED <<lock, owned, site, link, file, loaded, targetVars>>,
         Copying \/ (Freezes /\ IsFreezing /\ proc[Worker].step = "mark"),
         Copying', row'.status = row.status \/ (row.status \in Ordinary /\ row'.status \in Ordinary)
  PROVE  Inv'
<1>1. /\ RowInv /\ FrozenInv /\ SiteInv /\ OwnInv /\ Worker \in Procs /\ row \in RowRecords
      /\ panel' = panel /\ lapsed' = lapsed
  BY CtxFacts, ProcNames
<1>2. ~Freezes' /\ ~Claimed' /\ proc'[Worker].step \in WorkerSteps
  BY DEF Freezes, Claimed, FreezeSteps, FirstTry, Again, WorkerSteps
<1>3. /\ lock = "active" /\ owned = "created" /\ link = "maintenance" /\ loaded = "maintenance" /\ file
  <2>1. CASE Copying BY <1>1, <2>1 DEF FrozenInv
  <2>2. CASE Freezes /\ IsFreezing /\ proc[Worker].step = "mark" BY <1>1, <2>2 DEF FrozenInv, FreezeAt
  <2>3. QED BY <2>1, <2>2
<1>4. Exists /\ Exists' /\ ~IsFreezing'
  BY <1>1, <1>3 DEF RowInv, Exists, Ordinary, Copying, IsFreezing, CopyStages
<1>5. ASSUME Declared, Declared', proc'[Tasks] = proc[Tasks] PROVE DataInv'
  <2>1. RowInv'
    <3>1. row.stage \in CopyStages \cup {"source_freezing"} /\ row'.stage \in CopyStages BY DEF Copying, IsFreezing
    <3>2. row.status \notin {"abandoned", "cancelling", "cleanup_failed"} BY <1>1, <3>1 DEF RowInv, CopyStages
    <3>3. row'.status \notin {"abandoned", "cancelling", "cleanup_failed"} BY <3>2 DEF Ordinary
    <3>4. QED BY <1>4, <3>1, <3>3 DEF RowInv, CopyStages
  <2>2. FrozenInv' BY <1>2, <1>3, <1>4 DEF FrozenInv
  <2>3. SiteInv' BY <1>1, <1>2, <1>3, <1>5 DEF SiteInv, Enabling, Over, At
  <2>4. OwnInv' BY <1>1, <1>2, <1>3, <1>4 DEF OwnInv
  <2>5. QED BY <2>1, <2>2, <2>3, <2>4 DEF DataInv
<1>6. proc[Worker].step \notin {"idle", "declare"} OBVIOUS
<1>7. QED BY <1>2, <1>3, <1>5, <1>6, WorkerMoves

\* MarkFrozen preserves the invariant: the task is frozen when the website is.
LEMMA MarkFrozenInv ==
  ASSUME Ctx(Worker), MarkFrozen
  PROVE  Inv'
<1>1. Worker \in Procs /\ row \in RowRecords /\ proc \in [Procs -> ProcRecords] BY CtxFacts, ProcNames
<1>2. Freezes /\ proc[Worker].step = "mark" /\ UNCHANGED <<lock, owned, site, link, file, loaded, dump, targetVars>>
  BY DEF MarkFrozen, At, Freezes, FreezeSteps, nginx
<1>3. CASE row.stage = "source_freezing"
  <2>1. SetRow(row.status, "source_frozen") /\ Begin(Worker, "manifest", "none") BY <1>3 DEF MarkFrozen
  <2>2. "manifest" \in Steps /\ "none" \in Ops /\ row.status \in Statuses /\ "source_frozen" \in Stages
    BY <1>1 DEF Steps, Ops, RowRecords, Stages
  <2>3. Turn(Worker) /\ proc'[Worker].step = "manifest" BY <1>1, <2>1, <2>2, BeginEffect
  <2>4. row'.status = row.status /\ row'.stage = "source_frozen" BY <1>1, <2>1, <2>2, SetRowEffect
  <2>5. IsFreezing /\ Copying' BY <1>3, <2>4 DEF IsFreezing, Copying, CopyStages
  <2>6. QED BY <1>2, <2>3, <2>4, <2>5, CopyInv
<1>4. CASE row.stage # "source_freezing"
  <2>1. PICK s \in {"release_failed", "undo_link"} : Goto(Worker, s) /\ UNCHANGED row BY <1>4 DEF MarkFrozen
  <2>2. s \in Steps BY DEF Steps
  <2>3. Turn(Worker) /\ proc'[Worker].step = s BY <1>1, <2>1, <2>2, Going
  <2>4. CASE s = "undo_link"
    <3>1. FreezeAt(proc[Worker].step) => FreezeAt(proc[Worker].step)' BY <1>2, <2>3, <2>4 DEF FreezeAt
    <3>2. ~IsFreezing /\ s \in FreezeSteps BY <1>4, <2>4 DEF IsFreezing, FreezeSteps, FirstTry
    <3>3. QED BY <1>2, <2>1, <2>3, <3>1, <3>2, FreezeData
  <2>5. CASE s = "release_failed"
    <3>1. ~Freezes' /\ ~Claimed' /\ s \in WorkerSteps
      BY <2>3, <2>5 DEF Freezes, Claimed, FreezeSteps, FirstTry, Again, WorkerSteps
    <3>2. QED BY <1>2, <2>1, <2>3, <3>1, WorkerPasses
  <2>6. QED BY <2>4, <2>5
<1>5. QED BY <1>3, <1>4

\* BuildManifest and BuildDatabase preserve the invariant: they export a frozen website.
LEMMA BuildInv ==
  ASSUME Ctx(Worker), BuildManifest \/ BuildDatabase
  PROVE  Inv'
<1>1. Worker \in Procs /\ row \in RowRecords /\ {"manifest_ready", "transferring_database"} \subseteq Stages
  BY CtxFacts, ProcNames DEF Stages
<1>2. /\ proc[Worker].step \in {"manifest", "database"}
      /\ UNCHANGED <<lock, owned, site, link, file, loaded, targetVars>>
  BY DEF BuildManifest, BuildDatabase, At, nginx
<1>3. CASE PrepareFailed /\ UNCHANGED dump BY <1>2, <1>3, PrepareFailedInv DEF WorkerSteps
<1>4. CASE /\ row.stage \in CopyStages
           /\ \E g \in {"manifest_ready", "transferring_database"} : SetRow(row.status, g)
           /\ \E s \in {"database", "prepared"} : Goto(Worker, s)
           /\ dump' = dump \/ (dump = "none" /\ dump' = "current")
  <2>1. PICK g \in {"manifest_ready", "transferring_database"} : SetRow(row.status, g) BY <1>4
  <2>2. row.status \in Statuses /\ g \in Stages BY <1>1 DEF RowRecords
  <2>3. row'.status = row.status /\ row'.stage = g BY <1>1, <2>1, <2>2, SetRowEffect
  <2>4. PICK s \in {"database", "prepared"} : Goto(Worker, s) BY <1>4
  <2>5. s \in Steps BY DEF Steps
  <2>6. Turn(Worker) /\ proc'[Worker].step = s BY <1>1, <2>4, <2>5, Going
  <2>7. Copying /\ Copying' BY <1>4, <2>3 DEF Copying, CopyStages
  <2>8. QED BY <1>2, <1>4, <2>3, <2>6, <2>7, CopyInv
<1>5. CASE /\ row.stage \in CopyStages /\ UNCHANGED dump /\ Goto(Worker, "release_failed")
           /\ row' = [row EXCEPT !.stage = "transferring_database",
                                 !.status = IF @ = "running" THEN "failed_retryable" ELSE @]
  <2>1. row'.stage = "transferring_database" /\ row'.status = (IF row.status = "running" THEN "failed_retryable" ELSE row.status)
    BY <1>1, <1>5 DEF RowRecords
  <2>2. {"running", "failed_retryable"} \subseteq Ordinary BY DEF Ordinary, Statuses
  <2>3. Turn(Worker) /\ proc'[Worker].step = "release_failed" BY <1>1, <1>5, Going DEF Steps
  <2>4. Copying /\ Copying' BY <1>5, <2>1 DEF Copying, CopyStages
  <2>5. QED BY <1>2, <1>5, <2>1, <2>2, <2>3, <2>4, CopyInv
<1>6. QED
  <2>1. CASE BuildManifest BY <1>3, <1>4, <2>1 DEF BuildManifest, CopyStages
  <2>2. CASE BuildDatabase BY <1>3, <1>4, <1>5, <2>2 DEF BuildDatabase, CopyStages
  <2>3. QED BY <2>1, <2>2

\* The call to B and the release preserve the invariant.
LEMMA FinishInv ==
  ASSUME Ctx(Worker), MarkPrepared \/ QueueFails \/ HeartbeatRefused \/ ReleaseClaim
  PROVE  Inv'
<1>1. Worker \in Procs /\ RowInv /\ row \in RowRecords /\ row' \in RowRecords /\ proc \in [Procs -> ProcRecords]
  BY CtxFacts, ProcNames
<1>2. /\ proc[Worker].step \in {"prepared", "await_queue", "release", "release_failed"}
      /\ UNCHANGED <<lock, owned, site, link, file, loaded, dump, targetVars>>
  BY DEF MarkPrepared, QueueFails, HeartbeatRefused, ReleaseClaim, At, dbVars, nginx
<1>3. CASE PrepareFailed BY <1>2, <1>3, PrepareFailedInv DEF WorkerSteps
<1>4. CASE ~PrepareFailed
  <2>1. /\ row'.stage = row.stage
        /\ \/ row' = row
           \/ row'.status = row.status /\ row.lease # "none"
           \/ row.status \in {"running", "awaiting_cutover"} /\ row'.status \in {"failed_retryable", "awaiting_cutover"}
    <3>1. CASE MarkPrepared
      <4>1. SetRow("awaiting_cutover", row.stage) /\ row.status = "running" BY <1>4, <3>1 DEF MarkPrepared
      <4>2. "awaiting_cutover" \in Statuses /\ row.stage \in Stages BY <1>1 DEF RowRecords, Statuses
      <4>3. QED BY <1>1, <4>1, <4>2, SetRowEffect
    <3>2. CASE QueueFails BY <1>1, <3>2 DEF QueueFails, RowRecords
    <3>3. CASE HeartbeatRefused BY <3>3 DEF HeartbeatRefused, dbVars
    <3>4. CASE ReleaseClaim BY <1>1, <3>4 DEF ReleaseClaim, RowRecords
    <3>5. QED BY <3>1, <3>2, <3>3, <3>4
  <2>2. {"running", "awaiting_cutover", "failed_retryable"} \subseteq Ordinary BY DEF Ordinary, Statuses
  <2>3. row' = row \/ Exists
    <3>1. row.lease # "none" => Exists BY <1>1 DEF RowInv, NoTask
    <3>2. row.status \in {"running", "awaiting_cutover"} => Exists BY DEF Exists
    <3>3. QED BY <2>1, <3>1, <3>2
  <2>4. Turn(Worker) /\ proc'[Worker].step \in {"idle", "scope", "await_queue", "release_failed"}
    <3>1. CASE Ends(Worker) BY <1>1, <3>1, EndsEffect
    <3>2. CASE Begin(Worker, "scope", "delete") BY <1>1, <3>2, BeginEffect DEF Steps, Ops
    <3>3. CASE \E s \in {"await_queue", "release_failed"} : Goto(Worker, s)
      <4>1. PICK s \in {"await_queue", "release_failed"} : Goto(Worker, s) BY <3>3
      <4>2. s \in Steps BY DEF Steps
      <4>3. QED BY <1>1, <4>1, <4>2, Going
    <3>4. QED BY <1>4, <3>1, <3>2, <3>3 DEF MarkPrepared, QueueFails, HeartbeatRefused, ReleaseClaim
  <2>5. ~Freezes' /\ ~Claimed' /\ proc'[Worker].step \in {"idle", "scope"} \cup WorkerSteps
    BY <2>4 DEF Freezes, Claimed, FreezeSteps, FirstTry, Again, WorkerSteps
  <2>6. row'.status = row.status \/ (row.status \in Ordinary /\ row'.status \in Ordinary) BY <2>1, <2>2
  <2>7. proc[Worker].step \notin {"idle", "declare"} BY <1>2
  <2>8. QED BY <1>2, <2>1, <2>3, <2>4, <2>5, <2>6, <2>7, WorkerPasses
<1>5. QED BY <1>3, <1>4

\* Every step of the worker preserves the invariant.
LEMMA WorkerStepInv ==
  ASSUME Ctx(Worker), WorkerStep
  PROVE  Inv'
BY ClaimInv, FreezeSourceInv, WriteInv, ReloadInv, VerifyInv, UndoLinkInv, UndoRowsInv, MarkFrozenInv, BuildInv, FinishInv
   DEF WorkerStep

-----------------------------------------------------------------------------
\* Cleanups.

\* The steps of a cleanup, by the worker or by a request.
Beside(p) == /\ Turn(p) /\ Declared /\ Declared' /\ (Freezes' <=> Freezes) /\ (Claimed' <=> Claimed)
             /\ (Freezes => proc'[Worker].step = proc[Worker].step)
             /\ proc'[Tasks] = proc[Tasks] /\ UNCHANGED <<site, panel, lapsed>>

\* What a step of a cleanup has to preserve.
LEMMA CleanupMoves ==
  ASSUME NEW p \in Procs, Ctx(p), proc[p].step \in CleanupSteps, Turn(p), proc'[p].step \in CleanupSteps \cup {"idle"},
         UNCHANGED <<site, targetVars>>, lock' = "active" => lock = "active",
         owned' = "created" => owned = "created",
         Beside(p) => DataInv' /\ DecidingAt(p)'
  PROVE  Inv'
<1>1. p # Tasks BY DEF Ctx, TypeInv, ProcTypes, TasksShape, CleanupSteps, Restoring, TaskSteps
<1>2. proc[p].step \notin {"idle", "declare"} /\ proc'[p].step # "declare" BY DEF CleanupSteps, Restoring
<1>3. Declared BY <1>1, <1>2, DeclaredAt
<1>4. phase' # "none" BY <1>3 DEF Declared, targetVars
<1>5. ASSUME Declared' PROVE Beside(p)
  <2>1. proc'[Tasks] = proc[Tasks] BY <1>1, ProcNames DEF Turn
  <2>2. CASE p = Worker
    <3>1. ~Freezes /\ ~Freezes' /\ ~Claimed /\ ~Claimed'
      BY <2>2 DEF Freezes, Claimed, FreezeSteps, FirstTry, Again, CleanupSteps, Restoring
    <3>2. QED BY <1>3, <1>5, <2>1, <3>1 DEF Beside, Ctx
  <2>3. CASE p # Worker
    <3>1. proc'[Worker] = proc[Worker] BY <2>3, ProcNames DEF Turn
    <3>2. QED BY <1>3, <1>5, <2>1, <3>1 DEF Beside, Ctx, Freezes, Claimed
  <2>4. QED BY <2>2, <2>3
<1>6. QED BY <1>2, <1>3, <1>4, <1>5, TaskMoves

\* The steps of a cleanup are steps.
LEMMA CleanupStepsAreSteps == CleanupSteps \subseteq Steps
BY DEF CleanupSteps, Restoring, Steps

\* The data stay, and so does their invariant.
LEMMA QuietData ==
  ASSUME DataInv, UNCHANGED <<row, lock, owned, site, link, file, loaded, dump, panel, lapsed>>,
         Declared' <=> Declared, Freezes' <=> Freezes, Claimed' <=> Claimed,
         Freezes => proc'[Worker].step = proc[Worker].step, proc'[Tasks] = proc[Tasks]
  PROVE  DataInv'
<1>1. RowInv /\ FrozenInv /\ SiteInv /\ OwnInv BY DEF DataInv
<1>2. /\ (Copying' <=> Copying) /\ (IsFreezing' <=> IsFreezing) /\ (Exists' <=> Exists) /\ (Over' <=> Over)
      /\ \A op \in {"paused", "migrated"} : Enabling(op)' <=> Enabling(op)
  BY DEF Copying, IsFreezing, Exists, Over, Enabling
<1>3. RowInv' BY <1>1, <1>2 DEF RowInv
<1>4. FrozenInv' BY <1>1, <1>2 DEF FrozenInv, FreezeAt
<1>5. SiteInv' BY <1>1, <1>2 DEF SiteInv, At
<1>6. OwnInv' BY <1>1, <1>2 DEF OwnInv, At
<1>7. QED BY <1>3, <1>4, <1>5, <1>6 DEF DataInv

\* Only p moves.
LEMMA SameData ==
  ASSUME NEW p \in Procs, Ctx(p), Beside(p), UNCHANGED <<row, lock, owned, link, file, loaded, dump>>
  PROVE  DataInv'
BY QuietData DEF Ctx, Inv, Beside

\* LoadTaskCleanupScope preserves the invariant: what it has read is so when it decides.
LEMMA ScopeInv ==
  ASSUME NEW p \in Procs, Ctx(p), LoadTaskCleanupScope(p)
  PROVE  Inv'
<1>1. UNCHANGED <<row, lock, owned, site, link, file, loaded, dump, targetVars>> /\ proc[p].step = "scope"
  BY DEF LoadTaskCleanupScope, dbVars, nginx, At
<1>2. PICK s \in {"abandon", "references"} :
        (Goto(p, s) /\ Exists /\ (s = "references" => owned # "created")) \/ Ends(p)
  BY DEF LoadTaskCleanupScope
<1>3. s \in CleanupSteps /\ proc[p].step \in CleanupSteps BY <1>1 DEF CleanupSteps
<1>4. Turn(p) /\ (proc'[p].step = "idle" \/ (proc'[p].step = s /\ Exists /\ (s = "references" => owned # "created")))
  BY <1>2, <1>3, CtxFacts, CleanupStepsAreSteps, Going, EndsEffect
<1>5. DecidingAt(p)' BY <1>1, <1>4 DEF DecidingAt, Exists, Restoring
<1>6. QED BY <1>1, <1>3, <1>4, <1>5, SameData, CleanupMoves

\* LoadAbandon preserves the invariant.
LEMMA LoadAbandonInv ==
  ASSUME NEW p \in Procs, Ctx(p), LoadAbandon(p)
  PROVE  Inv'
<1>1. UNCHANGED <<row, lock, owned, site, link, file, loaded, dump, targetVars>> /\ proc[p].step = "abandon"
  BY DEF LoadAbandon, dbVars, nginx, At
<1>2. proc[p].step \in CleanupSteps /\ "cancel" \in CleanupSteps BY <1>1 DEF CleanupSteps
<1>3. CASE Ends(p)
  <2>1. Turn(p) /\ proc'[p].step = "idle" BY <1>3, CtxFacts, EndsEffect
  <2>2. DecidingAt(p)' BY <2>1 DEF DecidingAt, Restoring
  <2>3. QED BY <1>1, <1>2, <2>1, <2>2, SameData, CleanupMoves
<1>4. CASE Exists /\ Abandonable /\ proc' = [proc EXCEPT ![p].step = "cancel", ![p].undone = AlreadyRestored]
  <2>1. Turn(p) /\ proc'[p].step = "cancel" /\ proc'[p].undone = AlreadyRestored BY <1>4, CtxFacts, CancelEffect
  <2>2. CASE AlreadyRestored
    <3>1. proc'[p].undone BY <2>1, <2>2
    <3>2. DecidingAt(p)' BY <1>1, <1>4, <2>1, <2>2, <3>1 DEF DecidingAt, Restoring, Abandonable, AlreadyRestored, Exists
    <3>3. QED BY <1>1, <1>2, <2>1, <3>2, SameData, CleanupMoves
  <2>3. CASE ~AlreadyRestored
    <3>1. ~proc'[p].undone BY <2>1, <2>3
    <3>2. DecidingAt(p)' BY <1>1, <1>4, <2>1, <2>3, <3>1 DEF DecidingAt, Restoring, Abandonable, Exists
    <3>3. QED BY <1>1, <1>2, <2>1, <3>2, SameData, CleanupMoves
  <2>4. QED BY <2>2, <2>3
<1>5. QED BY <1>3, <1>4 DEF LoadAbandon

\* The transaction of CancelSource.
LEMMA CancelInv ==
  ASSUME NEW p \in Procs, Ctx(p), CancelSource(p)
  PROVE  Inv'
<1>1. UNCHANGED <<lock, owned, site, link, file, loaded, targetVars>> /\ proc[p].step = "cancel"
  BY DEF CancelSource, nginx, At
<1>2. /\ RowInv /\ FrozenInv /\ SiteInv /\ OwnInv /\ row \in RowRecords /\ DecidingAt(p)
      /\ proc \in [Procs -> ProcRecords]
  BY CtxFacts
<1>3. /\ Exists /\ lock = "active" /\ owned = "created"
      /\ IF proc[p].undone THEN link = "site" /\ row.stage = "cancelling" ELSE link = "maintenance"
  BY <1>1, <1>2 DEF DecidingAt, Restoring
<1>4. proc[p].step \in CleanupSteps /\ {"restore_reload", "restore_link"} \subseteq CleanupSteps
  BY <1>1 DEF CleanupSteps, Restoring
<1>5. CASE Ends(p) /\ UNCHANGED <<row, dump>>
  <2>1. Turn(p) /\ proc'[p].step = "idle" BY <1>2, <1>5, EndsEffect
  <2>2. DecidingAt(p)' BY <2>1 DEF DecidingAt, Restoring
  <2>3. QED BY <1>1, <1>4, <1>5, <2>1, <2>2, SameData, CleanupMoves
<1>6. ASSUME row.lease # "live", NEW st \in {"cancelling", "cleanup_failed"}, SetRow(st, "cancelling"), Beside(p)
      PROVE  DataInv' /\ row'.status = st /\ Exists' /\ (~lapsed => ~Freezes)
  <2>1. row'.status = st /\ row'.stage = "cancelling" /\ row'.lease = row.lease
    <3>1. st \in Statuses /\ "cancelling" \in Stages BY DEF Statuses, Stages
    <3>2. QED BY <1>2, <1>6, <3>1, SetRowEffect
  <2>2. Exists' /\ ~Copying' /\ ~IsFreezing' BY <2>1 DEF Exists, Copying, CopyStages, IsFreezing
  <2>3. ~lapsed => ~Claimed /\ ~Freezes BY <1>2, <1>3, <1>6 DEF OwnInv, Claimed, Freezes
  <2>4. RowInv' BY <2>1, <2>2 DEF RowInv
  <2>5. FrozenInv' BY <1>1, <1>2, <1>6, <2>2 DEF FrozenInv, Over, Beside
  <2>6. SiteInv' BY <1>1, <1>2, <1>6 DEF SiteInv, Over, Beside, Enabling, At
  <2>7. OwnInv' BY <1>1, <1>2, <1>3, <1>6, <2>1, <2>2, <2>3 DEF OwnInv, Beside
  <2>8. QED BY <2>1, <2>2, <2>3, <2>4, <2>5, <2>6, <2>7 DEF DataInv
<1>7. CASE /\ row.lease # "live" /\ SetRow("cancelling", "cancelling") /\ dump' = "none"
           /\ Goto(p, IF proc[p].undone THEN "restore_reload" ELSE "restore_link")
  <2>1. PICK s \in {"restore_reload", "restore_link"} :
          Goto(p, s) /\ (s = "restore_reload" <=> proc[p].undone)
    BY <1>7
  <2>2. Turn(p) /\ proc'[p].step = s BY <1>4, <2>1, CleanupStepsAreSteps, Going
  <2>3. ASSUME Beside(p) PROVE DataInv' /\ DecidingAt(p)'
    <3>1. DataInv' /\ row'.status = "cancelling" /\ Exists' /\ (~lapsed => ~Freezes) BY <1>6, <1>7, <2>3
    <3>2. s = "restore_link" => link = "maintenance" BY <1>3, <2>1
    <3>3. s = "restore_reload" => link = "site" BY <1>3, <2>1
    <3>4. DecidingAt(p)' BY <1>1, <1>3, <1>7, <2>2, <2>3, <3>1, <3>2, <3>3 DEF DecidingAt, Restoring, Beside
    <3>5. QED BY <3>1, <3>4
  <2>4. QED BY <1>1, <1>4, <2>2, <2>3, CleanupMoves
<1>8. CASE row.lease # "live" /\ SetRow("cleanup_failed", "cancelling") /\ Ends(p) /\ UNCHANGED dump
  <2>1. Turn(p) /\ proc'[p].step = "idle" BY <1>2, <1>8, EndsEffect
  <2>2. DecidingAt(p)' BY <2>1 DEF DecidingAt, Restoring
  <2>3. QED BY <1>1, <1>4, <1>6, <1>8, <2>1, <2>2, CleanupMoves
<1>9. QED BY <1>5, <1>7, <1>8 DEF CancelSource

\* While the website gets its own configuration back the rows say so.
LEMMA RestoringData ==
  ASSUME NEW p \in Procs, Ctx(p), proc[p].step \in Restoring, Beside(p),
         UNCHANGED <<row, lock, owned, dump>>, link' \in {"site", "maintenance"}
  PROVE  DataInv'
<1>1. RowInv /\ FrozenInv /\ SiteInv /\ OwnInv /\ DecidingAt(p) BY CtxFacts
<1>2. /\ Exists /\ lock = "active" /\ owned = "created" /\ row.status = "cancelling"
      /\ link \in {"site", "maintenance"}
  BY <1>1 DEF DecidingAt, Restoring
<1>3. row.stage = "cancelling" BY <1>1, <1>2 DEF RowInv
<1>4. Exists' /\ ~Copying' /\ ~IsFreezing' /\ ~IsFreezing /\ ~Over BY <1>2, <1>3 DEF Exists, Copying, CopyStages, IsFreezing, Over
<1>5. RowInv' BY <1>1, <1>4 DEF RowInv
<1>6. FrozenInv' BY <1>1, <1>2, <1>4 DEF FrozenInv, Over, Beside
<1>7. site # "paused" /\ ~Enabling("paused") BY <1>1, <1>2, <1>4 DEF SiteInv
<1>8. SiteInv' BY <1>1, <1>7 DEF SiteInv, Over, Beside, Enabling, At
<1>9. OwnInv' BY <1>1, <1>2, <1>3, <1>4 DEF OwnInv, Beside
<1>10. QED BY <1>5, <1>6, <1>8, <1>9 DEF DataInv

\* The restoration moves the link, and goes on or gives up.
LEMMA RestoringMoves ==
  ASSUME NEW p \in Procs, Ctx(p), proc[p].step \in Restoring, UNCHANGED <<row, lock, owned, site, dump, targetVars>>,
         NEW s \in {"restore_reload", "restore_file", "restore_rows"},
         \/ Goto(p, s) /\ link' = "site"
         \/ Ends(p) /\ link' \in {"site", "maintenance"}
  PROVE  Inv'
<1>1. DecidingAt(p) /\ proc \in [Procs -> ProcRecords] BY CtxFacts
<1>2. s \in CleanupSteps /\ proc[p].step \in CleanupSteps BY DEF CleanupSteps, Restoring
<1>3. Turn(p) /\ (proc'[p].step = "idle" \/ (proc'[p].step = s /\ link' = "site")) /\ link' \in {"site", "maintenance"}
  BY <1>1, <1>2, CleanupStepsAreSteps, Going, EndsEffect
<1>4. ASSUME Beside(p) PROVE DataInv' /\ DecidingAt(p)'
  <2>1. DataInv' BY <1>3, <1>4, RestoringData
  <2>2. Exists /\ lock = "active" /\ owned = "created" /\ row.status = "cancelling" /\ (~lapsed => ~Freezes)
    BY <1>1 DEF DecidingAt, Restoring
  <2>3. DecidingAt(p)' BY <1>3, <1>4, <2>2 DEF DecidingAt, Restoring, Beside, Exists
  <2>4. QED BY <2>1, <2>3
<1>5. QED BY <1>2, <1>3, <1>4, CleanupMoves

\* RestoreLink, RestoreReload and RestoreFile preserve the invariant.
LEMMA RestoreInv ==
  ASSUME NEW p \in Procs, Ctx(p), RestoreLink(p) \/ RestoreReload(p) \/ RestoreFile(p)
  PROVE  Inv'
<1>1. proc[p].step \in Restoring /\ UNCHANGED <<row, lock, owned, site, dump, targetVars>>
  BY DEF RestoreLink, RestoreReload, RestoreFile, At, Restoring, dbVars
<1>2. DecidingAt(p) BY CtxFacts
<1>3. CASE RestoreLink(p)
  <2>1. link = "maintenance" BY <1>2, <1>3 DEF RestoreLink, At, DecidingAt
  <2>2. (Goto(p, "restore_reload") /\ link' = "site") \/ (Ends(p) /\ link' \in {"site", "maintenance"})
    BY <1>3, <2>1 DEF RestoreLink
  <2>3. QED BY <1>1, <2>2, RestoringMoves
<1>4. CASE RestoreReload(p) \/ RestoreFile(p)
  <2>1. link = "site" BY <1>2, <1>4 DEF RestoreReload, RestoreFile, At, DecidingAt
  <2>2. \/ Goto(p, "restore_file") /\ link' = "site"
        \/ Goto(p, "restore_rows") /\ link' = "site"
        \/ Ends(p) /\ link' \in {"site", "maintenance"}
    BY <1>4, <2>1 DEF RestoreReload, RestoreFile, BackToMaintenance
  <2>3. QED BY <1>1, <2>2, RestoringMoves
<1>5. QED BY <1>3, <1>4

\* Ends without having changed anything.
LEMMA GivesUp ==
  ASSUME NEW p \in Procs, Ctx(p), proc[p].step \in CleanupSteps, Ends(p),
         UNCHANGED <<row, lock, owned, site, link, file, loaded, dump, targetVars>>
  PROVE  Inv'
<1>1. Turn(p) /\ proc'[p].step = "idle" BY CtxFacts, EndsEffect
<1>2. DecidingAt(p)' BY <1>1 DEF DecidingAt, Restoring
<1>3. QED BY <1>1, <1>2, SameData, CleanupMoves

\* RestoreRows preserves the invariant: the lock goes when the website is itself again.
LEMMA RestoreRowsInv ==
  ASSUME NEW p \in Procs, Ctx(p), RestoreRows(p)
  PROVE  Inv'
<1>1. /\ UNCHANGED <<site, link, file, loaded, dump, targetVars>> /\ proc[p].step = "restore_rows"
      /\ proc[p].step \in CleanupSteps /\ "forget" \in CleanupSteps
  BY DEF RestoreRows, nginx, At, CleanupSteps, Restoring
<1>2. /\ RowInv /\ FrozenInv /\ SiteInv /\ OwnInv /\ row \in RowRecords /\ DecidingAt(p)
      /\ proc \in [Procs -> ProcRecords]
  BY CtxFacts
<1>3. CASE Ends(p) /\ UNCHANGED <<row, lock, owned>> BY <1>1, <1>3, GivesUp
<1>4. CASE /\ SetRow("abandoned", "abandoned") /\ lock' = "released" /\ (Goto(p, "forget") \/ Ends(p))
           /\ owned' = IF owned = "created" THEN "removed" ELSE owned
  <2>1. /\ Exists /\ lock = "active" /\ owned = "created" /\ row.status = "cancelling" /\ link = "site"
        /\ ~lapsed => ~Freezes
    BY <1>1, <1>2 DEF DecidingAt, Restoring
  <2>2. Turn(p) /\ proc'[p].step \in {"forget", "idle"} BY <1>1, <1>2, <1>4, CleanupStepsAreSteps, Going, EndsEffect
  <2>3. owned' = "removed" BY <1>4, <2>1
  <2>4. row'.status = "abandoned" /\ row'.stage = "abandoned"
    <3>1. "abandoned" \in Statuses /\ "abandoned" \in Stages BY DEF Statuses, Stages
    <3>2. QED BY <1>2, <1>4, <3>1, SetRowEffect
  <2>5. ASSUME Beside(p) PROVE DataInv' /\ DecidingAt(p)'
    <3>1. Exists' /\ ~Copying' /\ ~IsFreezing' /\ Over'
      BY <1>4, <2>4, <2>5 DEF Exists, Copying, CopyStages, IsFreezing, Over, Beside
    <3>2. RowInv' BY <1>4, <2>4, <3>1 DEF RowInv
    <3>3. FrozenInv' BY <3>1, <2>5 DEF FrozenInv, Beside
    <3>4. SiteInv' BY <1>2, <2>5, <3>1 DEF SiteInv, Beside, At
    <3>5. OwnInv' BY <1>1, <1>4, <2>1, <2>4, <2>5, <3>1 DEF OwnInv, Beside
    <3>6. DecidingAt(p)' BY <2>2, <2>3, <3>1 DEF DecidingAt, Restoring
    <3>7. QED BY <3>2, <3>3, <3>4, <3>5, <3>6 DEF DataInv
  <2>6. QED BY <1>1, <1>4, <2>2, <2>3, <2>5, CleanupMoves
<1>5. QED BY <1>3, <1>4 DEF RestoreRows

\* ReleaseReferences preserves the invariant: there is no configuration to restore.
LEMMA ReferencesInv ==
  ASSUME NEW p \in Procs, Ctx(p), ReleaseReferences(p)
  PROVE  Inv'
<1>1. /\ UNCHANGED <<owned, site, link, file, loaded, dump, targetVars>> /\ proc[p].step = "references"
      /\ proc[p].step \in CleanupSteps /\ "forget" \in CleanupSteps
  BY DEF ReleaseReferences, nginx, At, CleanupSteps
<1>2. /\ RowInv /\ FrozenInv /\ SiteInv /\ OwnInv /\ row \in RowRecords /\ DecidingAt(p)
      /\ proc \in [Procs -> ProcRecords]
  BY CtxFacts
<1>3. CASE Ends(p) /\ UNCHANGED <<row, lock>> BY <1>1, <1>3, GivesUp
<1>4. CASE row' = [row EXCEPT !.lease = "none"] /\ lock' = "released" /\ Goto(p, "forget")
  <2>1. Exists /\ owned # "created" BY <1>1, <1>2 DEF DecidingAt
  <2>2. Turn(p) /\ proc'[p].step = "forget" BY <1>1, <1>4, CleanupStepsAreSteps, Going
  <2>3. row'.status = row.status /\ row'.stage = row.stage BY <1>2, <1>4 DEF RowRecords
  <2>4. ASSUME Beside(p) PROVE DataInv' /\ DecidingAt(p)'
    <3>1. ~Copying /\ ~(IsFreezing /\ link = "maintenance") /\ ~(Freezes /\ IsFreezing) BY <1>2, <2>1 DEF FrozenInv
    <3>2. /\ Exists' /\ Over' /\ ~Copying' /\ (IsFreezing' <=> IsFreezing)
      BY <1>4, <2>1, <2>3, <2>4, <3>1 DEF Exists, Copying, IsFreezing, Over, Beside
    <3>3. RowInv' BY <1>2, <1>4, <2>3, <3>2 DEF RowInv
    <3>4. FrozenInv' BY <1>1, <2>4, <3>1, <3>2 DEF FrozenInv, Beside
    <3>5. SiteInv' BY <1>2, <2>4, <3>2 DEF SiteInv, Beside, At
    <3>6. OwnInv' BY <1>1, <1>2, <1>4, <2>1, <2>3, <2>4, <3>2 DEF OwnInv, Beside
    <3>7. DecidingAt(p)' BY <1>1, <2>1, <2>2, <3>2 DEF DecidingAt, Restoring
    <3>8. QED BY <3>3, <3>4, <3>5, <3>6, <3>7 DEF DataInv
  <2>5. QED BY <1>1, <1>4, <2>2, <2>4, CleanupMoves
<1>5. QED BY <1>3, <1>4 DEF ReleaseReferences

\* The row goes, and what belongs to it.
LEMMA ForgottenFacts ==
  ASSUME Forgotten
  PROVE  ~Exists' /\ ~Copying' /\ ~IsFreezing' /\ RowInv' /\ row'.stage # "cancelling" /\ lock' # "active" /\ owned' # "created"
<1>1. row' = NoTask /\ lock' = "none" /\ owned' = "none" BY DEF Forgotten
<1>2. NoTask.status = "gone" /\ NoTask.stage = "preflight_passed" BY DEF NoTask
<1>3. QED BY <1>1, <1>2 DEF RowInv, Exists, Copying, CopyStages, IsFreezing

\* ForgetTask preserves the invariant: what is forgotten owns nothing on the server.
LEMMA ForgetInv ==
  ASSUME NEW p \in Procs, Ctx(p), ForgetTask(p)
  PROVE  Inv'
<1>1. /\ UNCHANGED <<site, link, file, loaded, dump, targetVars>> /\ proc[p].step = "forget"
      /\ proc[p].step \in CleanupSteps /\ Ends(p)
  BY DEF ForgetTask, nginx, At, CleanupSteps
<1>2. /\ RowInv /\ FrozenInv /\ SiteInv /\ OwnInv /\ DecidingAt(p) /\ proc \in [Procs -> ProcRecords]
  BY CtxFacts
<1>3. CASE UNCHANGED <<row, lock, owned>> BY <1>1, <1>3, GivesUp
<1>4. CASE Exists /\ Forgotten
  <2>1. Over /\ lock # "active" /\ owned # "created" BY <1>1, <1>2 DEF DecidingAt, Over
  <2>2. Turn(p) /\ proc'[p].step = "idle" BY <1>1, <1>2, EndsEffect
  <2>3. /\ ~Exists' /\ ~Copying' /\ ~IsFreezing' /\ RowInv' /\ row'.stage # "cancelling" /\ lock' # "active" /\ owned' # "created"
    BY <1>4, ForgottenFacts
  <2>4. ASSUME Beside(p) PROVE DataInv' /\ DecidingAt(p)'
    <3>1. ~Copying /\ ~(IsFreezing /\ link = "maintenance") /\ ~(Freezes /\ IsFreezing) /\ Over'
      BY <1>2, <2>1, <2>3, <2>4 DEF FrozenInv, Over, Beside
    <3>2. FrozenInv' BY <2>3, <2>4, <3>1 DEF FrozenInv, Beside
    <3>3. SiteInv' BY <1>2, <2>4, <3>1 DEF SiteInv, Beside, At
    <3>4. ~lapsed => link # "maintenance" /\ ~Freezes BY <1>2, <1>4, <2>1, <3>1 DEF OwnInv
    <3>5. OwnInv' BY <1>1, <2>3, <2>4, <3>4 DEF OwnInv, Beside
    <3>6. DecidingAt(p)' BY <2>2 DEF DecidingAt, Restoring
    <3>7. QED BY <2>3, <3>2, <3>3, <3>5, <3>6 DEF DataInv
  <2>5. QED BY <1>1, <2>2, <2>3, <2>4, CleanupMoves
<1>5. QED BY <1>3, <1>4 DEF ForgetTask

\* Every step of a cleanup preserves the invariant.
LEMMA CleanupStepInv ==
  ASSUME NEW p \in Procs, Ctx(p), CleanupStep(p)
  PROVE  Inv'
BY ScopeInv, LoadAbandonInv, CancelInv, RestoreInv, RestoreRowsInv, ReferencesInv, ForgetInv DEF CleanupStep

-----------------------------------------------------------------------------
\* Requests.

\* Requests.  The worker and the tasks of the website stay where they are.
LEMMA HandlerFrame ==
  ASSUME NEW h \in Handlers, Turn(h) \/ UNCHANGED proc
  PROVE  /\ proc'[Worker] = proc[Worker] /\ proc'[Tasks] = proc[Tasks]
         /\ (Freezes' <=> Freezes) /\ (Claimed' <=> Claimed)
<1>1. proc'[Worker] = proc[Worker] /\ proc'[Tasks] = proc[Tasks] BY ProcNames DEF Turn
<1>2. QED BY <1>1 DEF Freezes, Claimed

\* Before the task is declared.
LEMMA Fresh ==
  ASSUME NEW p \in Procs, Ctx(p), ~Declared
  PROVE  /\ ~Exists /\ row = NoTask /\ lock = "none" /\ owned = "none" /\ dump = "none"
         /\ ~Copying /\ ~IsFreezing /\ row.stage # "cancelling" /\ ~Freezes /\ ~Claimed /\ ~Over
         /\ link # "maintenance" /\ loaded # "maintenance"
         /\ site # "migrated" /\ ~Enabling("migrated")
         /\ (site = "paused" \/ Enabling("paused") => link = "none")
         /\ (At(Tasks, "enable_link") => site = "active")
<1>1. RowInv /\ FreshInv /\ SiteInv /\ Worker \in Procs \ {Tasks} BY CtxFacts, ProcNames
<1>2. ~Exists /\ dump = "none" /\ link # "maintenance" /\ loaded # "maintenance" /\ site # "migrated" /\ ~Enabling("migrated")
      /\ proc[Worker].step \in {"idle", "declare"}
  BY <1>1 DEF FreshInv
<1>3. row = NoTask /\ lock = "none" /\ owned = "none" BY <1>1, <1>2 DEF RowInv
<1>4. row.stage = "preflight_passed" BY <1>3 DEF NoTask
<1>5. ~Copying /\ ~IsFreezing /\ row.stage # "cancelling" BY <1>4 DEF Copying, CopyStages, IsFreezing
<1>6. ~Freezes /\ ~Claimed BY <1>2 DEF Freezes, Claimed, FreezeSteps, FirstTry, Again
<1>7. ~Over BY DEF Over
<1>8. QED BY <1>1, <1>2, <1>3, <1>5, <1>6, <1>7 DEF SiteInv

\* A request that declares nothing leaves all of that.
LEMMA FreshStays ==
  ASSUME NEW h \in Handlers, Ctx(h), ~Declared, Turn(h),
         UNCHANGED <<row, lock, owned, site, link, file, loaded, dump>>
  PROVE  DataInv'
<1>1. h \in Procs BY ProcNames
<1>2. /\ ~Exists /\ row = NoTask /\ lock = "none" /\ owned = "none" /\ dump = "none"
      /\ ~Copying /\ ~IsFreezing /\ row.stage # "cancelling" /\ ~Freezes /\ ~Claimed /\ ~Over
      /\ link # "maintenance" /\ loaded # "maintenance"
      /\ site # "migrated" /\ ~Enabling("migrated")
      /\ (site = "paused" \/ Enabling("paused") => link = "none")
      /\ (At(Tasks, "enable_link") => site = "active")
  BY <1>1, Fresh
<1>3. RowInv BY <1>1, CtxFacts
<1>4. ~Freezes' /\ ~Claimed' /\ proc'[Tasks] = proc[Tasks] BY <1>2, HandlerFrame
<1>5. ~Exists' /\ ~Copying' /\ ~IsFreezing' BY <1>2 DEF Exists, Copying, IsFreezing
<1>6. RowInv' BY <1>2, <1>3, <1>5 DEF RowInv
<1>7. FrozenInv' BY <1>4, <1>5 DEF FrozenInv
<1>8. SiteInv' BY <1>2, <1>4 DEF SiteInv, Enabling, At
<1>9. OwnInv' BY <1>2, <1>4 DEF OwnInv
<1>10. QED BY <1>6, <1>7, <1>8, <1>9 DEF DataInv

\* Start preserves the invariant: one request declares the task.
LEMMA StartInv ==
  ASSUME NEW h \in Handlers, Ctx(h), Start(h)
  PROVE  Inv'
<1>1. h \in Procs /\ h # Tasks /\ proc \in [Procs -> ProcRecords] /\ FreshInv BY CtxFacts, ProcNames
<1>2. UNCHANGED <<row, lock, owned, site, link, file, loaded, dump>> /\ phase = "none" /\ phase' = "draft"
  BY DEF Start, CreateTarget, dbVars, nginx
<1>3. ~Declared BY <1>2 DEF Declared
<1>4. Turn(h) /\ (proc'[h].step = "declare" \/ proc'[h].step = "idle")
  <2>1. CASE Ends(h) BY <1>1, <2>1, EndsEffect
  <2>2. CASE Begin(h, "declare", "start") BY <1>1, <2>2, BeginEffect DEF Steps, Ops
  <2>3. QED BY <2>1, <2>2 DEF Start
<1>5. DataInv' BY <1>2, <1>3, <1>4, FreshStays
<1>6. DecidingAt(h)' BY <1>4 DEF DecidingAt, Restoring
<1>7. ~Over BY <1>3 DEF Over
<1>8. \A q \in Procs \ {h} : proc'[q] = proc[q] BY <1>4 DEF Turn
<1>9. OneDecides' /\ \A q \in Procs : DecidingAt(q)' BY <1>1, <1>6, <1>7, <1>8, OthersStay
<1>10. FreshInv'
  <2>1. /\ ~Exists /\ dump = "none" /\ link # "maintenance" /\ loaded # "maintenance"
        /\ site # "migrated" /\ ~Enabling("migrated")
        /\ \A p \in Procs \ {Tasks} : proc[p].step \in {"idle", "declare"}
        /\ \A p \in Procs : ~At(p, "declare")
    BY <1>1, <1>2, <1>3 DEF FreshInv
  <2>2. ~Exists' /\ dump' = "none" /\ link' # "maintenance" /\ loaded' # "maintenance" /\ site' # "migrated"
    BY <1>2, <2>1 DEF Exists
  <2>3. ~Enabling("migrated")' BY <2>1, <1>4, HandlerFrame DEF Enabling
  <2>4. \A p \in Procs \ {Tasks} : proc'[p].step \in {"idle", "declare"} BY <1>4, <1>8, <2>1
  <2>5. \A p \in Procs : proc'[p].step = "declare" => p = h BY <1>8, <2>1 DEF At
  <2>6. QED BY <1>2, <2>2, <2>3, <2>4, <2>5 DEF FreshInv, At
<1>11. QED BY <1>5, <1>9, <1>10 DEF Inv

\* DeclareBatch preserves the invariant: its lock finds the website as it should be.
LEMMA DeclareInv ==
  ASSUME NEW h \in Handlers, Ctx(h), DeclareBatch(h)
  PROVE  Inv'
<1>1. h \in Procs /\ h # Tasks /\ proc \in [Procs -> ProcRecords] /\ FreshInv BY CtxFacts, ProcNames
<1>2. proc[h].step = "declare" /\ UNCHANGED <<owned, site, link, file, loaded, dump, targetVars>>
  BY DEF DeclareBatch, At, nginx
<1>3. ~Declared BY <1>1, <1>2 DEF Declared, At
<1>4. \A q \in Procs : At(q, "declare") => q = h BY <1>1, <1>2, <1>3 DEF FreshInv, At
<1>5. phase # "none" BY <1>1, <1>2, <1>3 DEF FreshInv, At
<1>6. Turn(h) /\ (proc'[h].step = "queue" \/ proc'[h].step = "idle")
  <2>1. CASE Ends(h) BY <1>1, <2>1, EndsEffect
  <2>2. CASE Goto(h, "queue") BY <1>1, <2>2, GotoEffect DEF Steps
  <2>3. QED BY <2>1, <2>2 DEF DeclareBatch
<1>7. Declared' BY <1>2, <1>4, <1>5, <1>6 DEF Declared, At, Turn, targetVars
<1>8. DecidingAt(h)' BY <1>6 DEF DecidingAt, Restoring
<1>9. ~Over /\ \A q \in Procs \ {h} : proc'[q] = proc[q] BY <1>3, <1>6 DEF Over, Turn
<1>10. OneDecides' /\ \A q \in Procs : DecidingAt(q)' BY <1>1, <1>8, <1>9, OthersStay
<1>11. DataInv'
  <2>1. CASE UNCHANGED <<row, lock>> BY <1>2, <1>3, <1>6, <2>1, FreshStays
  <2>2. CASE row' = [NoTask EXCEPT !.status = "draft"] /\ lock' = "active"
    <3>1. /\ ~Freezes /\ ~Claimed /\ owned = "none" /\ dump = "none"
          /\ link # "maintenance" /\ site # "migrated" /\ ~Enabling("migrated")
          /\ (site = "paused" \/ Enabling("paused") => link = "none")
          /\ (At(Tasks, "enable_link") => site = "active")
      BY <1>1, <1>3, Fresh
    <3>2. ~Freezes' /\ ~Claimed' /\ proc'[Tasks] = proc[Tasks] BY <1>6, <3>1, HandlerFrame
    <3>3. row'.status = "draft" /\ row'.stage = "preflight_passed" BY <2>2 DEF NoTask
    <3>4. Exists' /\ ~Copying' /\ ~IsFreezing' BY <3>3 DEF Exists, Copying, CopyStages, IsFreezing
    <3>5. RowInv' BY <3>3, <3>4 DEF RowInv
    <3>6. FrozenInv' BY <3>2, <3>4 DEF FrozenInv
    <3>7. SiteInv' BY <1>2, <3>1, <3>2 DEF SiteInv, Enabling, At
    <3>8. OwnInv' BY <1>2, <3>1, <3>2, <3>3 DEF OwnInv
    <3>9. QED BY <3>5, <3>6, <3>7, <3>8 DEF DataInv
  <2>3. QED BY <2>1, <2>2 DEF DeclareBatch
<1>12. QED BY <1>7, <1>10, <1>11 DEF Inv, FreshInv

\* A request of a declared task that changes at most its status.
LEMMA RequestPasses ==
  ASSUME NEW h \in Handlers, Ctx(h), Exists \/ proc[h].step \notin {"idle", "declare"},
         Turn(h) \/ UNCHANGED proc, proc'[h].step \in {"idle", "scope", "await_abandon", "abandon"},
         UNCHANGED <<lock, owned, site, link, file, loaded, dump, targetVars>>,
         \/ row' = row
         \/ row.status \in {"draft", "failed_retryable"} /\ SetRow("queued", row.stage)
  PROVE  Inv'
<1>1. h \in Procs /\ h # Tasks BY ProcNames
<1>2. /\ RowInv /\ FrozenInv /\ SiteInv /\ OwnInv /\ row \in RowRecords /\ row' \in RowRecords
      /\ panel' = panel /\ lapsed' = lapsed
  BY <1>1, CtxFacts
<1>3. Declared BY <1>1, DeclaredAt
<1>4. phase' # "none" BY <1>3 DEF Declared, targetVars
<1>5. DecidingAt(h)' BY DEF DecidingAt, Restoring
<1>6. row'.stage = row.stage /\ (row' = row \/ (row.status \in {"draft", "failed_retryable"} /\ row'.status = "queued"))
  <2>1. "queued" \in Statuses /\ row.stage \in Stages BY <1>2 DEF RowRecords, Statuses
  <2>2. QED BY <1>2, <2>1, SetRowEffect
<1>7. {"draft", "failed_retryable", "queued"} \subseteq Ordinary /\ (row' = row \/ Exists) BY <1>6 DEF Ordinary, Statuses, Exists
<1>8. (Freezes' <=> Freezes) /\ (Claimed' <=> Claimed) /\ proc'[Worker] = proc[Worker] /\ proc'[Tasks] = proc[Tasks]
  BY HandlerFrame
<1>9. row' = row \/ ~Claimed \/ lock # "active" \/ lapsed BY <1>2, <1>6 DEF OwnInv
<1>10. ASSUME Declared' PROVE DataInv'
  <2>1. Resting BY <1>2, <1>3, <1>8, <1>10 DEF Resting
  <2>2. QED BY <1>2, <1>6, <1>7, <1>8, <1>9, <2>1, StatusData
<1>11. QED BY <1>1, <1>3, <1>4, <1>5, <1>10, TaskMoves

\* CompleteSource preserves the invariant: the copy it decides for is that of a frozen website.
LEMMA CompleteInv ==
  ASSUME NEW h \in Handlers, Ctx(h), CompleteSource(h)
  PROVE  Inv'
<1>1. h \in Procs /\ h # Tasks BY ProcNames
<1>2. /\ RowInv /\ FrozenInv /\ SiteInv /\ OwnInv /\ panel' = panel /\ lapsed' = lapsed
  BY <1>1, CtxFacts
<1>3. /\ UNCHANGED <<link, file, loaded, dump, proc, targetVars>> /\ Forgotten /\ site' = "migrated"
      /\ row.status = "awaiting_cutover" /\ Copying /\ lock = "active" /\ proc[h].step = "idle"
  BY DEF CompleteSource, nginx, Copying, CopyStages, At
<1>4. Exists BY <1>3 DEF Exists
<1>5. Declared BY <1>1, <1>4, DeclaredAt
<1>6. Declared' /\ phase' # "none" BY <1>3, <1>5 DEF Declared, targetVars, At
<1>7. /\ ~Exists' /\ ~Copying' /\ ~IsFreezing' /\ RowInv' /\ row'.stage # "cancelling" /\ lock' # "active" /\ owned' # "created"
  BY <1>3, ForgottenFacts
<1>8. link = "maintenance" /\ loaded = "maintenance" /\ file /\ ~Freezes /\ ~Over /\ Over'
  BY <1>2, <1>3, <1>6, <1>7 DEF FrozenInv, Over
<1>9. ~Freezes' /\ (Claimed' <=> Claimed) BY <1>3, <1>8 DEF Freezes, Claimed
<1>10. FrozenInv' BY <1>7, <1>9 DEF FrozenInv
<1>11. ~At(Tasks, "enable_link")
  <2>1. At(Tasks, "enable_link") => Enabling("paused") \/ Enabling("migrated")
    BY DEF Ctx, TypeInv, ProcTypes, TasksShape, At, Enabling
  <2>2. QED BY <1>2, <1>8, <2>1 DEF SiteInv
<1>12. SiteInv' BY <1>3, <1>8, <1>11 DEF SiteInv, At
<1>13. OwnInv' BY <1>3, <1>7, <1>8, <1>9 DEF OwnInv
<1>14. DecidingAt(h)' BY <1>3 DEF DecidingAt, Restoring
<1>15. proc'[h].step # "declare" BY <1>3
<1>16. DataInv' BY <1>7, <1>10, <1>12, <1>13 DEF DataInv
<1>17. QED BY <1>1, <1>3, <1>5, <1>6, <1>7, <1>14, <1>15, <1>16, TaskMoves

\* Every request preserves the invariant.
LEMMA RequestInv ==
  ASSUME NEW h \in Handlers, Ctx(h), Request(h)
  PROVE  Inv'
<1>1. h \in Procs /\ proc \in [Procs -> ProcRecords] BY CtxFacts, ProcNames
<1>2. {"scope", "await_abandon"} \subseteq Steps /\ {"delete", "abandon"} \subseteq Ops BY DEF Steps, Ops
<1>3. CASE QueueBatch(h)
  <2>1. Turn(h) /\ proc'[h].step = "idle" /\ proc[h].step = "queue" BY <1>1, <1>3, EndsEffect DEF QueueBatch, At
  <2>2. QED BY <1>3, <2>1, RequestPasses DEF QueueBatch, nginx
<1>4. CASE Retry(h)
  <2>1. Exists BY <1>4 DEF Retry, Exists
  <2>2. QED BY <1>4, <2>1, RequestPasses DEF Retry, nginx, At
<1>5. CASE DeleteTask(h)
  <2>1. Turn(h) /\ proc'[h].step = "scope" BY <1>1, <1>2, <1>5, BeginEffect DEF DeleteTask
  <2>2. QED BY <1>5, <2>1, RequestPasses DEF DeleteTask, dbVars, nginx
<1>6. CASE Abandon(h)
  <2>1. Turn(h) /\ proc'[h].step = "await_abandon" BY <1>1, <1>2, <1>6, BeginEffect DEF Abandon
  <2>2. QED BY <1>6, <2>1, RequestPasses DEF Abandon, dbVars, nginx
<1>7. CASE AbandonFails(h)
  <2>1. Turn(h) /\ proc'[h].step = "idle" /\ proc[h].step = "await_abandon" BY <1>1, <1>7, EndsEffect DEF AbandonFails, At
  <2>2. QED BY <1>7, <2>1, RequestPasses DEF AbandonFails, dbVars, nginx
<1>8. QED BY <1>3, <1>4, <1>5, <1>6, <1>7, StartInv, DeclareInv, CompleteInv DEF Request

-----------------------------------------------------------------------------
\* The tasks of the website.

\* The tasks of the website: the rows of the migration are as they were.
Apart == /\ (Copying' <=> Copying) /\ (IsFreezing' <=> IsFreezing) /\ (Exists' <=> Exists) /\ (Over' <=> Over)
         /\ (Declared' <=> Declared) /\ (Freezes' <=> Freezes) /\ (Claimed' <=> Claimed)
         /\ proc'[Worker] = proc[Worker] /\ UNCHANGED <<row, lock, owned, dump, panel, lapsed>>

\* What a task of the website has to preserve.
LEMMA WebsiteMoves ==
  ASSUME Ctx(Tasks), Turn(Tasks), proc[Tasks].step # "declare", proc'[Tasks].step \in {"idle"} \cup TaskSteps,
         UNCHANGED <<row, lock, owned, dump, targetVars>>,
         Apart => FrozenInv' /\ SiteInv' /\ OwnInv',
         proc'[Tasks].step \in {"pause", "enable"} => lock # "active",
         ~Declared => /\ link' # "maintenance" /\ loaded' # "maintenance" /\ site' # "migrated"
                      /\ ~Enabling("migrated")'
  PROVE  Inv'
<1>1. Tasks \in Procs /\ Worker \in Procs /\ Worker # Tasks BY ProcNames
<1>2. RowInv /\ FreshInv /\ panel' = panel /\ lapsed' = lapsed BY <1>1, CtxFacts
<1>3. \A q \in Procs \ {Tasks} : proc'[q] = proc[q] BY DEF Turn
<1>4. proc'[Tasks].step # "declare" BY DEF TaskSteps
<1>5. \A q \in Procs : At(q, "declare")' <=> At(q, "declare") BY <1>3, <1>4 DEF At
<1>6. (Declared' <=> Declared) BY <1>5 DEF Declared, targetVars
<1>7. Apart
  <2>1. proc'[Worker] = proc[Worker] BY <1>1, <1>3
  <2>2. (Freezes' <=> Freezes) /\ (Claimed' <=> Claimed) BY <2>1 DEF Freezes, Claimed
  <2>3. (Copying' <=> Copying) /\ (IsFreezing' <=> IsFreezing) /\ (Exists' <=> Exists) /\ (Over' <=> Over)
    BY <1>6 DEF Copying, IsFreezing, Exists, Over
  <2>4. QED BY <1>2, <1>6, <2>1, <2>2, <2>3 DEF Apart
<1>8. RowInv' BY <1>2, <1>7 DEF RowInv, Apart
<1>9. DataInv' BY <1>7, <1>8 DEF DataInv
<1>10. DecidingAt(Tasks)' BY DEF DecidingAt, TaskSteps, Restoring
<1>11. Over => Over' /\ (owned' = "created" => owned = "created") BY <1>7 DEF Apart
<1>12. OneDecides' /\ \A q \in Procs : DecidingAt(q)' BY <1>1, <1>3, <1>10, <1>11, OthersStay
<1>13. FreshInv'
  <2>1. \A q \in Procs \ {Tasks} : proc'[q].step = proc[q].step BY <1>3
  <2>2. SUFFICES ASSUME ~Declared' PROVE FreshInv' BY DEF FreshInv
  <2>3. /\ ~Exists /\ dump = "none" /\ \A p \in Procs \ {Tasks} : proc[p].step \in {"idle", "declare"}
        /\ \A p, q \in Procs : At(p, "declare") /\ At(q, "declare") => p = q
        /\ phase = "none" => \A p \in Procs : ~At(p, "declare")
    BY <1>2, <1>6, <2>2 DEF FreshInv
  <2>4. ~Exists' /\ dump' = "none" BY <1>7, <2>3 DEF Apart
  <2>5. \A p \in Procs \ {Tasks} : proc'[p].step \in {"idle", "declare"} BY <2>1, <2>3
  <2>6. /\ \A p, q \in Procs : At(p, "declare")' /\ At(q, "declare")' => p = q
        /\ phase' = "none" => \A p \in Procs : ~At(p, "declare")'
    BY <1>5, <2>3 DEF targetVars
  <2>7. ~Declared BY <1>6, <2>2
  <2>8. QED BY <2>4, <2>5, <2>6, <2>7 DEF FreshInv
<1>14. QED BY <1>9, <1>12, <1>13 DEF Inv

\* PauseSite and PauseApply preserve the invariant.
LEMMA PauseInv ==
  ASSUME Ctx(Tasks), PauseSite \/ PauseApply
  PROVE  Inv'
<1>1. /\ Tasks \in Procs /\ proc \in [Procs -> ProcRecords] /\ FrozenInv /\ SiteInv /\ OwnInv
      /\ DecidingAt(Tasks) /\ FreshInv
  BY CtxFacts, ProcNames
<1>2. "pause" \in Steps /\ "pause" \in Ops BY DEF Steps, Ops
<1>3. UNCHANGED <<row, lock, owned, file, dump, targetVars>> BY DEF PauseSite, PauseApply, dbVars, nginx
<1>4. CASE UNCHANGED <<site, link, loaded>>
  <2>1. /\ Turn(Tasks) /\ proc[Tasks].step \in {"idle", "pause"}
        /\ \/ proc'[Tasks].step = "idle"
           \/ proc'[Tasks].step = "pause" /\ lock # "active"
    <3>1. CASE PauseSite BY <1>1, <1>2, <3>1, BeginEffect DEF PauseSite, At
    <3>2. CASE PauseApply BY <1>1, <3>2, EndsEffect DEF PauseApply, At
    <3>3. QED BY <3>1, <3>2
  <2>2. ~Enabling("migrated")' /\ ~Enabling("paused")' /\ ~Enabling("migrated") /\ ~At(Tasks, "enable_link")
        /\ ~At(Tasks, "enable_link")'
    BY <2>1 DEF Enabling, At
  <2>3. ASSUME Apart PROVE FrozenInv' /\ SiteInv' /\ OwnInv'
    <3>1. FrozenInv' BY <1>1, <1>3, <1>4, <2>3 DEF FrozenInv, Apart, FreezeAt
    <3>2. SiteInv' BY <1>1, <1>4, <2>2, <2>3 DEF SiteInv, Apart
    <3>3. OwnInv' BY <1>1, <1>3, <1>4, <2>2, <2>3 DEF OwnInv, Apart
    <3>4. QED BY <3>1, <3>2, <3>3
  <2>4. ~Declared => link # "maintenance" /\ loaded # "maintenance" /\ site # "migrated" BY <1>1 DEF FreshInv
  <2>5. proc[Tasks].step # "declare" /\ proc'[Tasks].step \in {"idle"} \cup TaskSteps BY <2>1 DEF TaskSteps
  <2>6. QED BY <1>3, <1>4, <2>1, <2>2, <2>3, <2>4, <2>5, WebsiteMoves
<1>5. CASE PauseApply /\ site' = "paused" /\ link' = "none" /\ loaded' = "none"
  <2>1. Turn(Tasks) /\ proc[Tasks].step = "pause" /\ proc'[Tasks].step = "idle"
    BY <1>1, <1>5, EndsEffect DEF PauseApply, At
  <2>2. lock # "active" BY <1>1, <2>1 DEF DecidingAt
  <2>3. ~Enabling("migrated")' /\ ~Enabling("paused")' /\ ~At(Tasks, "enable_link")' BY <2>1 DEF Enabling, At
  <2>4. ASSUME Apart PROVE FrozenInv' /\ SiteInv' /\ OwnInv'
    <3>1. ~Copying /\ ~(Freezes /\ IsFreezing) /\ (Over \/ ~Freezes) BY <1>1, <2>2 DEF FrozenInv
    <3>2. FrozenInv' BY <1>1, <1>5, <2>4, <3>1 DEF FrozenInv, Apart
    <3>3. Over \/ ~Declared BY <2>2 DEF Over
    <3>4. SiteInv' BY <1>5, <2>3, <2>4, <3>1 DEF SiteInv, Apart
    <3>5. OwnInv' BY <1>1, <1>5, <2>4 DEF OwnInv, Apart
    <3>6. QED BY <3>2, <3>4, <3>5
  <2>5. proc[Tasks].step # "declare" /\ proc'[Tasks].step \in {"idle"} \cup TaskSteps BY <2>1
  <2>6. QED BY <1>3, <1>5, <2>1, <2>3, <2>4, <2>5, WebsiteMoves
<1>6. QED BY <1>4, <1>5 DEF PauseSite, PauseApply, dbVars, nginx

\* EnableSite and EnableStatus preserve the invariant.
LEMMA EnableInv ==
  ASSUME Ctx(Tasks), EnableSite \/ EnableStatus
  PROVE  Inv'
<1>1. /\ Tasks \in Procs /\ proc \in [Procs -> ProcRecords] /\ FrozenInv /\ SiteInv /\ OwnInv
      /\ DecidingAt(Tasks) /\ FreshInv /\ panel = "up"
  BY CtxFacts, ProcNames
<1>2. {"enable", "enable_link"} \subseteq Steps /\ {"paused", "migrated"} \subseteq Ops BY DEF Steps, Ops
<1>3. UNCHANGED <<row, lock, owned, link, file, loaded, dump, targetVars>> BY DEF EnableSite, EnableStatus, dbVars, nginx
<1>4. CASE EnableSite
  <2>1. /\ proc[Tasks].step = "idle" /\ site' = site /\ lock # "active" /\ site \in {"paused", "migrated"}
        /\ Begin(Tasks, "enable", site)
    BY <1>4 DEF EnableSite, At, dbVars
  <2>2. Turn(Tasks) /\ proc'[Tasks].step = "enable" /\ proc'[Tasks].op = site BY <1>1, <1>2, <2>1, BeginEffect
  <2>3. /\ Enabling("migrated")' <=> site = "migrated"
        /\ Enabling("paused")' <=> site = "paused"
        /\ ~Enabling("migrated") /\ ~At(Tasks, "enable_link") /\ ~At(Tasks, "enable_link")'
    BY <2>1, <2>2 DEF Enabling, At
  <2>4. ASSUME Apart PROVE FrozenInv' /\ SiteInv' /\ OwnInv'
    <3>1. FrozenInv' BY <1>1, <1>3, <2>1, <2>4 DEF FrozenInv, Apart, FreezeAt
    <3>2. SiteInv' BY <1>1, <1>3, <2>1, <2>3, <2>4 DEF SiteInv, Apart
    <3>3. OwnInv' BY <1>1, <1>3, <2>1, <2>3, <2>4 DEF OwnInv, Apart
    <3>4. QED BY <3>1, <3>2, <3>3
  <2>5. ~Declared => link # "maintenance" /\ loaded # "maintenance" /\ site # "migrated" BY <1>1 DEF FreshInv
  <2>6. proc[Tasks].step # "declare" /\ proc'[Tasks].step \in {"idle"} \cup TaskSteps BY <2>1, <2>2 DEF TaskSteps
  <2>7. QED BY <1>3, <2>1, <2>2, <2>3, <2>4, <2>5, <2>6, WebsiteMoves
<1>5. CASE EnableStatus /\ site = proc[Tasks].op /\ site' = "active" /\ Goto(Tasks, "enable_link")
  <2>1. proc[Tasks].step = "enable" BY <1>5 DEF EnableStatus, At
  <2>2. Turn(Tasks) /\ proc'[Tasks].step = "enable_link" /\ proc'[Tasks].op = site BY <1>1, <1>2, <1>5, GotoEffect
  <2>3. site \in {"paused", "migrated"} BY <1>5, <2>1 DEF Ctx, TypeInv, ProcTypes, TasksShape
  <2>4. /\ (Enabling("migrated")' <=> site = "migrated") /\ (Enabling("migrated") <=> site = "migrated")
        /\ (Enabling("paused")' <=> site = "paused") /\ (Enabling("paused") <=> site = "paused")
        /\ ~At(Tasks, "enable_link") /\ At(Tasks, "enable_link")'
    BY <1>5, <2>1, <2>2 DEF Enabling, At
  <2>5. ASSUME Apart PROVE FrozenInv' /\ SiteInv' /\ OwnInv'
    <3>1. FrozenInv' BY <1>1, <1>3, <1>5, <2>5 DEF FrozenInv, Apart, FreezeAt
    <3>2. SiteInv' BY <1>1, <1>3, <1>5, <2>3, <2>4, <2>5 DEF SiteInv, Apart
    <3>3. OwnInv' BY <1>1, <1>3, <1>5, <2>3, <2>4, <2>5 DEF OwnInv, Apart
    <3>4. QED BY <3>1, <3>2, <3>3
  <2>6. ~Declared => link # "maintenance" /\ loaded # "maintenance" /\ site # "migrated" BY <1>1 DEF FreshInv
  <2>7. proc[Tasks].step # "declare" /\ proc'[Tasks].step \in {"idle"} \cup TaskSteps BY <2>1, <2>2 DEF TaskSteps
  <2>8. QED BY <1>3, <1>5, <2>2, <2>4, <2>5, <2>6, <2>7, WebsiteMoves
<1>6. CASE EnableStatus /\ UNCHANGED site /\ Ends(Tasks)
  <2>1. Turn(Tasks) /\ proc[Tasks].step = "enable" /\ proc'[Tasks].step = "idle"
    BY <1>1, <1>6, EndsEffect DEF EnableStatus, At
  <2>2. /\ ~Enabling("migrated")' /\ ~Enabling("paused")' /\ ~At(Tasks, "enable_link") /\ ~At(Tasks, "enable_link")'
    BY <2>1 DEF Enabling, At
  <2>3. ASSUME Apart PROVE FrozenInv' /\ SiteInv' /\ OwnInv'
    <3>1. FrozenInv' BY <1>1, <1>3, <1>6, <2>3 DEF FrozenInv, Apart, FreezeAt
    <3>2. SiteInv' BY <1>1, <1>3, <1>6, <2>2, <2>3 DEF SiteInv, Apart
    <3>3. OwnInv' BY <1>1, <1>3, <1>6, <2>2, <2>3 DEF OwnInv, Apart
    <3>4. QED BY <3>1, <3>2, <3>3
  <2>4. ~Declared => link # "maintenance" /\ loaded # "maintenance" /\ site # "migrated" BY <1>1 DEF FreshInv
  <2>5. proc[Tasks].step # "declare" /\ proc'[Tasks].step \in {"idle"} \cup TaskSteps BY <2>1
  <2>6. QED BY <1>3, <1>6, <2>1, <2>2, <2>3, <2>4, <2>5, WebsiteMoves
<1>7. QED BY <1>4, <1>5, <1>6 DEF EnableStatus

\* EnableLink preserves the invariant: the website it enables belongs to no task.
LEMMA EnableLinkInv ==
  ASSUME Ctx(Tasks), EnableLink
  PROVE  Inv'
<1>1. /\ Tasks \in Procs /\ proc \in [Procs -> ProcRecords] /\ FrozenInv /\ SiteInv /\ OwnInv
      /\ FreshInv /\ panel = "up"
  BY CtxFacts, ProcNames
<1>2. UNCHANGED <<row, lock, owned, dump, targetVars>> /\ At(Tasks, "enable_link") /\ proc[Tasks].step = "enable_link"
  BY DEF EnableLink, At
<1>3. Turn(Tasks) /\ proc'[Tasks].step = "idle" BY <1>1, EndsEffect DEF EnableLink
<1>4. PICK op \in {"paused", "migrated"} : proc[Tasks].op = op
  BY <1>2 DEF Ctx, TypeInv, ProcTypes, TasksShape
<1>5. Enabling(op) /\ ~Enabling("migrated")' /\ ~Enabling("paused")' /\ ~At(Tasks, "enable_link")'
  BY <1>2, <1>3, <1>4 DEF Enabling, At
<1>6. Enabling("migrated") => op = "migrated" BY <1>4 DEF Enabling
<1>7. site = "active" /\ (op = "migrated" => Over) /\ (Over \/ (link = "none" /\ ~Freezes)) BY <1>1, <1>2, <1>4, <1>5 DEF SiteInv
<1>8. ~Copying /\ ~(Freezes /\ IsFreezing) BY <1>1, <1>7 DEF FrozenInv, Over
<1>9. ~Declared => link # "maintenance" /\ loaded # "maintenance" /\ op # "migrated" BY <1>1, <1>5 DEF FreshInv
<1>10. proc[Tasks].step # "declare" /\ proc'[Tasks].step \in {"idle"} \cup TaskSteps BY <1>2, <1>3
<1>11. CASE link' = "site" /\ loaded' = "site" /\ UNCHANGED site
  <2>1. ASSUME Apart PROVE FrozenInv' /\ SiteInv' /\ OwnInv'
    <3>1. FrozenInv' BY <1>1, <1>7, <1>8, <1>11, <2>1 DEF FrozenInv, Apart
    <3>2. SiteInv' BY <1>5, <1>7, <1>11 DEF SiteInv
    <3>3. OwnInv' BY <1>1, <1>11, <2>1 DEF OwnInv, Apart
    <3>4. QED BY <3>1, <3>2, <3>3
  <2>2. QED BY <1>2, <1>3, <1>5, <1>7, <1>10, <1>11, <2>1, WebsiteMoves
<1>12. CASE site' = op /\ UNCHANGED <<link, file, loaded>>
  <2>1. ASSUME Apart PROVE FrozenInv' /\ SiteInv' /\ OwnInv'
    <3>1. FrozenInv' BY <1>1, <1>7, <1>8, <1>12, <2>1 DEF FrozenInv, Apart
    <3>2. SiteInv' BY <1>4, <1>5, <1>7, <1>12, <2>1 DEF SiteInv, Apart
    <3>3. OwnInv' BY <1>1, <1>4, <1>6, <1>7, <1>12, <2>1 DEF OwnInv, Apart
    <3>4. QED BY <3>1, <3>2, <3>3
  <2>2. QED BY <1>2, <1>3, <1>4, <1>5, <1>9, <1>10, <1>12, <2>1, WebsiteMoves
<1>13. QED BY <1>4, <1>11, <1>12 DEF EnableLink, nginx

-----------------------------------------------------------------------------
\* What nobody decides.

\* What nobody decides: B, visitors, nginx for another website, clocks.
LEMMA InvFacts ==
  ASSUME Inv, TypeInv
  PROVE  /\ RowInv /\ FrozenInv /\ SiteInv /\ OwnInv /\ FreshInv /\ OneDecides
         /\ DataTypes /\ row \in RowRecords /\ proc \in [Procs -> ProcRecords]
         /\ (panel = "down" => \A p \in Procs : proc[p].step = "idle")
BY DEF Inv, DataInv, TypeInv, DataTypes, ProcTypes

\* What such a step has to preserve.
LEMMA EnvInv ==
  ASSUME Inv, UNCHANGED <<lock, owned, site, link, file, proc>>, row'.status = row.status, row'.stage = row.stage,
         Declared' <=> Declared, phase' = "none" => phase = "none", lapsed => lapsed',
         dump = "none" => dump' = "none", loaded' \in {loaded, link}, DataInv'
  PROVE  Inv'
<1>1. FreshInv /\ OneDecides BY DEF Inv
<1>2. (Exists' <=> Exists) /\ (Over' <=> Over) /\ (Freezes' <=> Freezes) BY DEF Exists, Over, Freezes
<1>3. FreshInv' BY <1>1, <1>2 DEF FreshInv, Enabling, At
<1>4. OneDecides' BY <1>1 DEF OneDecides
<1>5. ASSUME NEW p \in Procs PROVE DecidingAt(p)'
  <2>1. DecidingAt(p) BY DEF Inv
  <2>2. QED BY <1>2, <2>1 DEF DecidingAt, Restoring
<1>6. QED BY <1>3, <1>4, <1>5 DEF Inv

\* B moves, or nothing does.
LEMMA NothingInv ==
  ASSUME Inv, UNCHANGED <<row, lock, owned, site, link, file, loaded, dump, panel, lapsed, proc>>,
         phase' = phase \/ (phase # "none" /\ phase' # "none")
  PROVE  Inv'
<1>1. Declared' <=> Declared BY DEF Declared, At
<1>2. (Freezes' <=> Freezes) /\ (Claimed' <=> Claimed) BY DEF Freezes, Claimed
<1>3. DataInv' BY <1>1, <1>2, QuietData DEF Inv
<1>4. QED BY <1>1, <1>3, EnvInv

\* An answer, or a request of B, sets a process to work on a declared task.
LEMMA AnswerInv ==
  ASSUME Inv, NEW p \in Procs, p # Tasks, Turn(p), Declared, phase' # "none",
         UNCHANGED <<row, lock, owned, site, link, file, loaded, dump, panel, lapsed>>,
         p = Worker => proc[p].step = "await_queue", proc'[p].step \in {"release", "abandon", "scope"}
  PROVE  Inv'
<1>1. \A q \in Procs \ {p} : proc'[q] = proc[q] BY DEF Turn
<1>2. Declared' BY <1>1, StaysDeclared
<1>3. /\ (Freezes' <=> Freezes) /\ (Claimed' <=> Claimed) /\ (Freezes => proc'[Worker].step = proc[Worker].step)
  <2>1. CASE p = Worker BY <2>1 DEF Freezes, Claimed, FreezeSteps, FirstTry, Again
  <2>2. CASE p # Worker BY <1>1, <2>2, ProcNames DEF Freezes, Claimed
  <2>3. QED BY <2>1, <2>2
<1>4. proc'[Tasks] = proc[Tasks] BY <1>1, ProcNames
<1>5. DataInv' BY <1>2, <1>3, <1>4, QuietData DEF Inv
<1>6. proc'[p].step \notin Deciding BY DEF Deciding
<1>7. OneDecides' BY <1>1, <1>6 DEF Inv, OneDecides
<1>8. ASSUME NEW q \in Procs PROVE DecidingAt(q)'
  <2>1. CASE q = p BY <2>1 DEF DecidingAt, Restoring
  <2>2. CASE q # p
    <3>1. DecidingAt(q) /\ proc'[q] = proc[q] BY <1>1, <2>2 DEF Inv
    <3>2. Over' <=> Over BY <1>2 DEF Over
    <3>3. QED BY <1>3, <3>1, <3>2 DEF DecidingAt, Restoring, Exists
  <2>3. QED BY <2>1, <2>2
<1>9. QED BY <1>2, <1>5, <1>7, <1>8 DEF Inv, FreshInv

\* A process at work shows that the task is declared.
LEMMA DeclaredBy ==
  ASSUME Inv, Exists \/ \E p \in Procs : p # Tasks /\ proc[p].step \notin {"idle", "declare"}
  PROVE  Declared /\ phase # "none"
BY DEF Inv, FreshInv, Declared

\* Deliver preserves the invariant.
LEMMA DeliverInv ==
  ASSUME Inv, TypeInv, NEW c \in net, Deliver(c)
  PROVE  Inv'
<1>1. UNCHANGED <<row, lock, owned, site, link, file, loaded, dump, panel, lapsed>> BY DEF Deliver, dbVars, nginx, others
<1>2. proc \in [Procs -> ProcRecords] /\ NetTypes BY InvFacts DEF TypeInv
<1>3. phase' = phase \/ (phase # "none" /\ phase' # "none")
  BY DEF Deliver, DeliverQueue, DeliverAbandon, DeliverDelete, DeliverToSource, QueueTarget, targetVars
<1>4. CASE UNCHANGED proc BY <1>1, <1>3, <1>4, NothingInv
<1>5. CASE \/ c.type = "queue" /\ Waiting(c) /\ Goto(c.from, "release")
           \/ c.type = "abandon" /\ Waiting(c) /\ Goto(c.from, "abandon")
  <2>1. PICK s \in {"release", "abandon"} : Goto(c.from, s) BY <1>5
  <2>2. s \in Steps BY DEF Steps
  <2>3. c.from \in Procs /\ c.from # Tasks /\ (c.from = Worker => proc[c.from].step = "await_queue")
        /\ proc[c.from].step \in {"await_queue", "await_abandon"}
    BY <1>2, <1>5, ProcNames DEF NetTypes, Waiting
  <2>4. Turn(c.from) /\ proc'[c.from].step = s BY <1>2, <2>1, <2>2, <2>3, GotoEffect
  <2>5. Declared /\ phase # "none" BY <2>3, DeclaredBy
  <2>6. phase' # "none" BY <1>3, <2>5
  <2>7. QED BY <1>1, <2>3, <2>4, <2>5, <2>6, AnswerInv
<1>6. CASE DeliverToSource(c)
  <2>1. PICK h \in Handlers : /\ Exists
                              /\ Begin(h, IF c.type = "delete_source" THEN "scope" ELSE "abandon", c.type)
    BY <1>6 DEF DeliverToSource
  <2>2. PICK s \in {"scope", "abandon"}, o \in {"delete_source", "abandon_source"} : Begin(h, s, o)
    BY <1>6, <2>1 DEF DeliverToSource
  <2>3. s \in Steps /\ o \in Ops /\ h \in Procs /\ h # Tasks /\ h # Worker BY ProcNames DEF Steps, Ops
  <2>4. Turn(h) /\ proc'[h].step = s BY <1>2, <2>2, <2>3, BeginEffect
  <2>5. Declared /\ phase # "none" BY <2>1, DeclaredBy
  <2>6. phase' # "none" BY <1>3, <2>5
  <2>7. QED BY <1>1, <2>3, <2>4, <2>5, <2>6, AnswerInv
<1>7. QED BY <1>4, <1>5, <1>6 DEF Deliver, DeliverQueue, DeliverAbandon, DeliverDelete, Answer

\* B by itself, and calls that are lost, preserve the invariant.
LEMMA RemoteInv ==
  ASSUME Inv, TargetStep \/ \E c \in net : Lose(c)
  PROVE  Inv'
<1>1. UNCHANGED <<row, lock, owned, site, link, file, loaded, dump, panel, lapsed, proc>>
  BY DEF TargetStep, Lose, dbVars, nginx, others
<1>2. phase' = phase \/ (phase # "none" /\ phase' # "none")
  BY DEF TargetStep, Lose, ReceiveTarget, StopTarget, RetryTarget, ActivateTarget, targetVars
<1>3. QED BY <1>1, <1>2, NothingInv

\* Visitors and reloads preserve the invariant: a reload loads what the link says.
LEMMA VisitInv ==
  ASSUME Inv, TypeInv, Visit \/ OtherReload
  PROVE  Inv'
<1>1. RowInv /\ FrozenInv /\ SiteInv /\ OwnInv BY InvFacts
<1>2. UNCHANGED <<row, lock, owned, site, link, file, proc, panel, lapsed, phase>>
  BY DEF Visit, OtherReload, dbVars, nginx, others, targetVars
<1>3. Declared' <=> Declared BY <1>2 DEF Declared, At
<1>4. /\ (Freezes' <=> Freezes) /\ (Claimed' <=> Claimed) /\ (Copying' <=> Copying) /\ (IsFreezing' <=> IsFreezing)
      /\ (Exists' <=> Exists) /\ (Over' <=> Over) /\ \A op \in {"paused", "migrated"} : Enabling(op)' <=> Enabling(op)
  BY <1>2, <1>3 DEF Freezes, Claimed, Copying, IsFreezing, Exists, Over, Enabling
<1>5. CASE Visit
  <2>1. loaded = "site" /\ loaded' = loaded /\ dump = "current" /\ dump' = "stale" BY <1>5 DEF Visit, nginx
  <2>2. RowInv' /\ FrozenInv' /\ SiteInv' BY <1>1, <1>2, <1>3, <1>4, <2>1 DEF RowInv, FrozenInv, SiteInv, FreezeAt, At
  <2>3. OwnInv' BY <1>1, <1>2, <1>4 DEF OwnInv, At
  <2>4. QED BY <1>2, <1>3, <2>1, <2>2, <2>3, EnvInv DEF DataInv
<1>6. CASE OtherReload
  <2>1. loaded' = link /\ dump' = dump BY <1>6 DEF OtherReload
  <2>2. RowInv' /\ SiteInv' BY <1>1, <1>2, <1>4 DEF RowInv, SiteInv, At
  <2>3. FrozenInv' BY <1>1, <1>2, <1>3, <1>4, <2>1 DEF FrozenInv, FreezeAt
  <2>4. OwnInv' BY <1>1, <1>2, <1>4 DEF OwnInv, At
  <2>5. QED BY <1>2, <1>3, <2>1, <2>2, <2>3, <2>4, EnvInv DEF DataInv
<1>7. QED BY <1>5, <1>6

\* The end of a lease preserves the invariant: without a lapse it does not end during a freeze.
LEMMA LeaseInv ==
  ASSUME Inv, TypeInv, LeaseExpires \/ LeaseLapses
  PROVE  Inv'
<1>1. RowInv /\ FrozenInv /\ SiteInv /\ OwnInv /\ row \in RowRecords BY InvFacts
<1>2. UNCHANGED <<lock, owned, site, link, file, loaded, dump, proc, panel, phase>> /\ row.lease = "live"
  BY DEF LeaseExpires, LeaseLapses, dbVars, nginx, others, targetVars
<1>3. row'.status = row.status /\ row'.stage = row.stage BY <1>1 DEF LeaseExpires, LeaseLapses, RowRecords
<1>4. lapsed' \/ (lapsed' = lapsed /\ ~(Claimed /\ row.status = "running"))
  BY DEF LeaseExpires, LeaseLapses, others, Claimed, FreezeSteps, FirstTry, Again, At
<1>5. Declared' <=> Declared BY <1>2 DEF Declared, At
<1>6. /\ (Freezes' <=> Freezes) /\ (Claimed' <=> Claimed) /\ (Copying' <=> Copying) /\ (IsFreezing' <=> IsFreezing)
      /\ (Exists' <=> Exists) /\ (Over' <=> Over) /\ \A op \in {"paused", "migrated"} : Enabling(op)' <=> Enabling(op)
  BY <1>2, <1>3, <1>5 DEF Freezes, Claimed, Copying, IsFreezing, Exists, Over, Enabling
<1>7. Exists BY <1>1, <1>2 DEF RowInv, NoTask
<1>8. RowInv' BY <1>1, <1>2, <1>3, <1>6, <1>7 DEF RowInv
<1>9. FrozenInv' /\ SiteInv' BY <1>1, <1>2, <1>5, <1>6 DEF FrozenInv, SiteInv, FreezeAt, At
<1>10. OwnInv'
  <2>1. CASE lapsed' BY <2>1 DEF OwnInv
  <2>2. CASE lapsed' = lapsed /\ ~(Claimed /\ row.status = "running")
    BY <1>1, <1>2, <1>3, <1>6, <2>2 DEF OwnInv, At
  <2>3. QED BY <1>4, <2>1, <2>2
<1>11. lapsed => lapsed' BY DEF LeaseExpires, LeaseLapses, others
<1>12. QED BY <1>2, <1>3, <1>5, <1>8, <1>9, <1>10, <1>11, EnvInv DEF DataInv

\* A crash ends every process; a restart sets the interrupted task and the
\* status of a site that has been moved.
AllIdle == \A p \in Procs : proc[p].step = "idle"

Rested == /\ ~Freezes /\ ~Claimed /\ ~Enabling("paused") /\ ~Enabling("migrated") /\ ~At(Tasks, "enable_link")
          /\ (Declared <=> phase # "none") /\ OneDecides /\ \A p \in Procs : DecidingAt(p)

\* Nobody at work relies on anything.
LEMMA IdleFacts == AllIdle => Rested
<1> SUFFICES ASSUME AllIdle PROVE Rested OBVIOUS
<1>1. proc[Worker].step = "idle" /\ proc[Tasks].step = "idle" BY ProcNames DEF AllIdle
<1>2. ~Freezes /\ ~Claimed /\ ~Enabling("paused") /\ ~Enabling("migrated") /\ ~At(Tasks, "enable_link")
  BY <1>1 DEF Freezes, Claimed, FreezeSteps, FirstTry, Again, Enabling, At
<1>3. Declared <=> phase # "none" BY DEF AllIdle, Declared, At
<1>4. OneDecides BY DEF AllIdle, OneDecides, Deciding
<1>5. \A p \in Procs : DecidingAt(p) BY DEF AllIdle, DecidingAt, Restoring
<1>6. QED BY <1>2, <1>3, <1>4, <1>5 DEF Rested

\* A crash preserves the invariant.
LEMMA CrashInv ==
  ASSUME Inv, TypeInv, Crash
  PROVE  Inv'
<1>1. RowInv /\ FrozenInv /\ SiteInv /\ OwnInv /\ FreshInv BY InvFacts
<1>2. UNCHANGED <<row, lock, owned, site, link, file, loaded, dump, lapsed, phase>> /\ panel = "up" /\ panel' = "down"
  BY DEF Crash, dbVars, nginx, targetVars
<1>3. AllIdle'
  <2>1. proc' = [p \in Procs |-> Idle] BY DEF Crash
  <2>2. Idle.step = "idle" BY DEF Idle
  <2>3. QED BY <2>1, <2>2 DEF AllIdle
<1>4. Rested' BY <1>3, IdleFacts, PTL
<1>5. /\ ~Freezes' /\ ~Claimed' /\ ~Enabling("paused")' /\ ~Enabling("migrated")' /\ ~At(Tasks, "enable_link")'
      /\ (Declared' <=> phase' # "none") /\ OneDecides' /\ \A p \in Procs : DecidingAt(p)'
  BY <1>4 DEF Rested
<1>6. Declared => Declared' BY <1>2, <1>5 DEF Declared
<1>7. (Copying' <=> Copying) /\ (IsFreezing' <=> IsFreezing) /\ (Exists' <=> Exists) /\ (Over => Over')
  BY <1>2, <1>6 DEF Copying, IsFreezing, Exists, Over
<1>8. RowInv' BY <1>1, <1>2, <1>7 DEF RowInv
<1>9. FrozenInv' BY <1>1, <1>2, <1>5, <1>7 DEF FrozenInv
<1>10. SiteInv' BY <1>1, <1>2, <1>5, <1>7 DEF SiteInv
<1>11. OwnInv' BY <1>1, <1>2, <1>5, <1>7 DEF OwnInv, SiteInv
<1>12. FreshInv'
  <2>1. SUFFICES ASSUME ~Declared' PROVE FreshInv' BY DEF FreshInv
  <2>2. ~Exists /\ dump = "none" /\ link # "maintenance" /\ loaded # "maintenance" /\ site # "migrated"
    BY <1>1, <1>6, <2>1 DEF FreshInv
  <2>3. QED BY <1>2, <1>3, <1>5, <1>7, <2>2 DEF FreshInv, AllIdle, At
<1>13. QED BY <1>5, <1>8, <1>9, <1>10, <1>11, <1>12 DEF Inv, DataInv

\* A restart preserves the invariant: it marks the site that a completed migration left in maintenance.
LEMMA RestartInv ==
  ASSUME Inv, TypeInv, Restart
  PROVE  Inv'
<1>1. RowInv /\ FrozenInv /\ SiteInv /\ OwnInv /\ FreshInv /\ row \in RowRecords
      /\ site \in {"active", "paused", "migrated"}
  BY InvFacts DEF DataTypes
<1>2. UNCHANGED <<lock, owned, link, file, loaded, dump, lapsed, phase, proc>> /\ panel = "down" /\ panel' = "up"
  BY DEF Restart, nginx, targetVars
<1>3. AllIdle /\ AllIdle' BY <1>2, InvFacts DEF AllIdle
<1>4. Rested /\ Rested' BY <1>3, IdleFacts, PTL
<1>5. /\ ~Freezes /\ ~Enabling("migrated") /\ ~Enabling("paused") /\ ~At(Tasks, "enable_link") /\ (Declared <=> phase # "none")
      /\ ~Freezes' /\ ~Claimed' /\ ~Enabling("paused")' /\ ~Enabling("migrated")' /\ ~At(Tasks, "enable_link")'
      /\ (Declared' <=> phase' # "none") /\ OneDecides' /\ \A p \in Procs : DecidingAt(p)'
  BY <1>4 DEF Rested
<1>6. row'.stage = row.stage /\ (row' = row \/ (row.status = "running" /\ row'.status = "interrupted_unknown"))
  BY <1>1 DEF Restart, RowRecords
<1>7. (Copying' <=> Copying) /\ (IsFreezing' <=> IsFreezing) /\ (Exists' <=> Exists) /\ (Over' <=> Over) /\ (Declared' <=> Declared)
  BY <1>2, <1>5, <1>6 DEF Copying, IsFreezing, Exists, Over
<1>8. site' = site \/ (site' = "migrated" /\ site = "active" /\ lock # "active" /\ link = "maintenance") BY DEF Restart
<1>9. site = "active" /\ lock # "active" /\ link = "maintenance" => site' = "migrated" BY DEF Restart
<1>10. RowInv'
  <2>1. CASE row' = row BY <1>1, <1>2, <1>7, <2>1 DEF RowInv
  <2>2. CASE row.status = "running" /\ row'.status = "interrupted_unknown"
    <3>1. Exists' BY <2>2 DEF Exists
    <3>2. QED BY <1>1, <1>6, <2>2, <3>1 DEF RowInv
  <2>3. QED BY <1>6, <2>1, <2>2
<1>11. FrozenInv' BY <1>1, <1>2, <1>5, <1>7 DEF FrozenInv
<1>12. link = "maintenance" => Declared BY <1>1 DEF FreshInv
<1>13. SiteInv' BY <1>1, <1>2, <1>5, <1>7, <1>8, <1>12 DEF SiteInv, Over
<1>14. ~Exists => lock # "active" BY <1>1 DEF RowInv
<1>15. site = "migrated" => site' = "migrated" BY <1>8
<1>16. OwnInv' BY <1>1, <1>2, <1>5, <1>6, <1>7, <1>9, <1>14, <1>15 DEF OwnInv
<1>17. FreshInv'
  <2>1. SUFFICES ASSUME ~Declared' PROVE FreshInv' BY DEF FreshInv
  <2>2. ~Exists /\ dump = "none" /\ link # "maintenance" /\ loaded # "maintenance" /\ site # "migrated"
    BY <1>1, <1>7, <2>1 DEF FreshInv
  <2>3. site' = site BY <1>8, <2>2
  <2>4. QED BY <1>2, <1>3, <1>5, <1>7, <2>2, <2>3 DEF FreshInv, AllIdle, At
<1>18. QED BY <1>5, <1>10, <1>11, <1>13, <1>16, <1>17 DEF Inv, DataInv

\* The invariant holds initially.
LEMMA InitInv == Init => Inv
<1> SUFFICES ASSUME Init PROVE Inv OBVIOUS
<1>1. AllIdle
  <2>1. proc = [p \in Procs |-> Idle] BY DEF Init
  <2>2. Idle.step = "idle" BY DEF Idle
  <2>3. QED BY <2>1, <2>2 DEF AllIdle
<1>2. Rested BY <1>1, IdleFacts
<1>3. /\ ~Freezes /\ ~Claimed /\ ~Enabling("paused") /\ ~Enabling("migrated") /\ ~At(Tasks, "enable_link")
      /\ OneDecides /\ \A p \in Procs : DecidingAt(p)
  BY <1>2 DEF Rested
<1>4. row = NoTask /\ lock = "none" /\ owned = "none" /\ site = "active" /\ link = "site" /\ loaded = "site" /\ dump = "none"
  BY DEF Init
<1>5. row.status = "gone" /\ row.stage = "preflight_passed" BY <1>4 DEF NoTask
<1>6. ~Exists /\ ~Copying /\ ~IsFreezing BY <1>5 DEF Exists, Copying, CopyStages, IsFreezing
<1>7. RowInv BY <1>4, <1>5 DEF RowInv
<1>8. FrozenInv /\ SiteInv /\ OwnInv BY <1>3, <1>4, <1>5, <1>6 DEF FrozenInv, SiteInv, OwnInv
<1>9. FreshInv BY <1>1, <1>3, <1>4, <1>6 DEF FreshInv, AllIdle, At
<1>10. QED BY <1>3, <1>7, <1>8, <1>9 DEF Inv, DataInv

\* Every step preserves the invariant.
LEMMA NextInv == TypeInv /\ TypeInv' /\ Inv /\ ~ScopeMayAge /\ [Next]_vars => Inv'
<1> SUFFICES ASSUME TypeInv, TypeInv', Inv, ~ScopeMayAge, [Next]_vars PROVE Inv' OBVIOUS
<1>1. CASE UNCHANGED vars
  BY <1>1, NothingInv DEF vars, dbVars, nginx, others, targetVars
<1>2. CASE panel = "up" /\ Undisturbed({Worker}) /\ WorkerStep
  <2>1. panel' = panel /\ lapsed' = lapsed
    BY <1>2 DEF WorkerStep, ClaimNext, Prepare, FreezeSource, WriteMaintenance, SwapLink, Reload, Verify, UndoLink, UndoRows,
       MarkFrozen, BuildManifest, BuildDatabase, MarkPrepared, QueueFails, HeartbeatRefused, ReleaseClaim, others
  <2>2. QED BY <1>2, <2>1, WorkerStepInv DEF Ctx
<1>3. CASE panel = "up" /\ Undisturbed({Tasks}) /\ WebsiteStep
  <2>1. panel' = panel /\ lapsed' = lapsed
    BY <1>3 DEF WebsiteStep, PauseSite, PauseApply, EnableSite, EnableStatus, EnableLink, others
  <2>2. QED BY <1>3, <2>1, PauseInv, EnableInv, EnableLinkInv DEF Ctx, WebsiteStep
<1>4. ASSUME panel = "up", NEW h \in Handlers, Undisturbed({h}), Request(h) PROVE Inv'
  <2>1. panel' = panel /\ lapsed' = lapsed
    BY <1>4 DEF Request, Start, DeclareBatch, QueueBatch, Retry, DeleteTask, Abandon, AbandonFails, CompleteSource, others
  <2>2. QED BY <1>4, <2>1, RequestInv DEF Ctx
<1>5. ASSUME panel = "up", NEW p \in Procs, Undisturbed({p}), CleanupStep(p) PROVE Inv'
  <2>1. panel' = panel /\ lapsed' = lapsed
    BY <1>5 DEF CleanupStep, LoadTaskCleanupScope, LoadAbandon, CancelSource, RestoreLink, RestoreReload, RestoreFile,
       RestoreRows, ReleaseReferences, ForgetTask, others
  <2>2. QED BY <1>5, <2>1, CleanupStepInv DEF Ctx
<1>6. CASE \E c \in net : Deliver(c) BY <1>6, DeliverInv
<1>7. CASE TargetStep \/ \E c \in net : Lose(c) BY <1>7, RemoteInv
<1>8. CASE Visit \/ OtherReload BY <1>8, VisitInv
<1>9. CASE LeaseExpires \/ LeaseLapses BY <1>9, LeaseInv
<1>10. CASE Crash BY <1>10, CrashInv
<1>11. CASE Restart BY <1>11, RestartInv
<1>12. QED BY <1>1, <1>2, <1>3, <1>4, <1>5, <1>6, <1>7, <1>8, <1>9, <1>10, <1>11 DEF Next

\* The inductive invariant holds of every behaviour in which what an operation
\* has read is still so when it acts on it: crashes, lapses of a lease, failures
\* of every step and calls of B in any order included.
THEOREM InductiveInvariant ==
  ASSUME ~ScopeMayAge
  PROVE  Spec => []Inv
<1>1. Init => Inv BY InitInv
<1>2. TypeInv /\ TypeInv' /\ Inv /\ [Next]_vars => Inv' BY NextInv
<1>3. QED BY <1>1, <1>2, TypeInvariant, PTL DEF Spec

\* From the freeze until the task is cancelled or decided nginx serves the
\* maintenance page: what B copies does not change under it (FreezeSource,
\* markFrozen, AbandonSource).
THEOREM SiteIsFrozen ==
  ASSUME ~ScopeMayAge
  PROVE  Spec => []FrozenWhileCopying
<1>1. Inv => FrozenWhileCopying BY DEF Inv, DataInv, FrozenInv, Copying, CopyStages, FrozenWhileCopying
<1>2. QED BY <1>1, InductiveInvariant, PTL

\* As long as no lease has lapsed, a website in maintenance belongs to a task that
\* can restore it, or is marked as migrated (delete, abandon, complete, restart).
THEOREM MaintenanceHasOwner ==
  ASSUME ~ScopeMayAge
  PROVE  Spec => []MaintenanceIsOwned
<1>1. Inv => MaintenanceIsOwned
  <2>1. Quiet => ~At(Tasks, "enable_link") /\ panel # "down" BY ProcNames DEF Quiet, At
  <2>2. QED BY <2>1 DEF Inv, DataInv, OwnInv, MaintenanceIsOwned
<1>2. QED BY <1>1, InductiveInvariant, PTL

\* As long as no lease has lapsed, an enabled link has its file, unless the task is
\* being undone: nginx can be reloaded for any website (FreezeSource and its undo).
THEOREM FileIsThere ==
  ASSUME ~ScopeMayAge
  PROVE  Spec => []EnabledFileExists
<1>1. Inv => EnabledFileExists BY DEF Inv, DataInv, OwnInv, EnabledFileExists
<1>2. QED BY <1>1, InductiveInvariant, PTL

=============================================================================
