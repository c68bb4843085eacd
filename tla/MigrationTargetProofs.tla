------------------------ MODULE MigrationTargetProofs ------------------------
(***************************************************************************)
(* Proofs about one task of a site migration on the receiving panel: what   *)
(* it leaves on the server is in its ledger, an abandoned task has left     *)
(* nothing, a website goes live at once and stays, and the task keeps the   *)
(* promise TargetTask.                                                      *)
(*                                                                         *)
(* The argument: DataInv relates the row, the ledger, the server and the    *)
(* website.  It is inductive only with what each process relies on at its   *)
(* next step: the worker at work (WorkerInv), a removal that has begun      *)
(* (RemovalAt), an operation that has decided and not yet acted on it       *)
(* (DecidingAt).  The worker's assertions survive the others because its    *)
(* lease keeps them from the row (LeaseFree) as long as it has not lapsed;  *)
(* a removal's because a task that has ended stays so; a decision's because *)
(* nobody else acts while one is pending, which is ~ScopeMayAge.  Without   *)
(* that hypothesis a decision ages, and the code does remove a live website *)
(* (the run migration_stale_delete shows it).                               *)
(***************************************************************************)
EXTENDS MigrationTarget, TLAPS

RowRecords  == [status : Statuses, stage : Stages, owner : {"none", "me", "former"},
                lease : {"null", "live", "expired"}, site : BOOLEAN]
ProcRecords == [step : Steps, op : Operations \cup Kinds \cup {"none"}, site : BOOLEAN, left : SUBSET Kinds]
LedgerStatuses == {"none", "created", "published", "remove_failed", "removed"}

\* The stages of the cutover and after it; those of a removal.
LateStages  == {"awaiting_cutover", "activating_target", "activation_runtime_sync", "completed"}
LiveStages  == {"activation_runtime_sync", "completed"}
WorkerSteps == Working \cup {"loop", "await", "release", "release_failed", "handle"}

Ended == ~Exists \/ row.stage \in {"cancelling", "abandoned"} \/ (lapsed /\ row.stage = "interrupted_unknown")
Deletable == website = "live" \/ RuntimeKinds \cap OwnedKinds = {}

-----------------------------------------------------------------------------
\* The row, the ledger, the resources and the website.

DataTypes ==
  /\ row \in RowRecords
  /\ lock \in {"none", "active", "released"}
  /\ ledger \in [Kinds -> LedgerStatuses]
  /\ exists \subseteq Kinds
  /\ website \in {"none", "quiet", "live"}
  /\ panel \in {"up", "down"}
  /\ faults \in 0..MaxFaults /\ lapsed \in BOOLEAN
  /\ (row.owner = "none") = (row.lease = "null")

RowInv ==
  /\ ~Exists => row = NoTask /\ lock = "none" /\ \A k \in Kinds : ledger[k] = "none"
  /\ row.status = "draft" => row.stage = "preflight_passed"
  /\ row.status = "awaiting_cutover" => row.stage = "awaiting_cutover"
  /\ (row.status = "completed") = (row.stage = "completed")
  /\ (row.status \in {"cancelling", "cleanup_failed"}) = (row.stage = "cancelling")
  /\ (row.status = "abandoned") = (row.stage = "abandoned")
  /\ row.stage = "interrupted_unknown" => row.status = "interrupted_unknown"

WebsiteInv ==
  /\ Recorded = (Exists /\ website # "none")
  /\ ledger["record"] # "remove_failed"
  /\ ActivationAtomic

CoverInv ==
  /\ "record" \notin exists
  /\ LedgerCovers
  /\ ~lapsed /\ Exists /\ row.stage \notin {"preflight_passed", "transferring"} => exists \subseteq OwnedKinds
  /\ ~lapsed /\ Exists /\ lock # "active" => Deletable
  /\ AbandonedIsClean

DataInv == DataTypes /\ RowInv /\ WebsiteInv /\ CoverInv

-----------------------------------------------------------------------------
\* Where each process is: what holds at its next step.

ProcTypes ==
  /\ proc \in [Procs -> ProcRecords]
  /\ \A p \in Procs : proc[p].left # {} => proc[p].step \in {"begin_rollback", "remove", "mark_removed"}
  /\ \A p \in Procs : panel = "down" => proc[p].step = "idle"
  /\ \A a \in Admins : proc[a].step \notin WorkerSteps

AtResource == proc[Worker].step \in {"intent", "make", "mark"}
WorkerInv ==
  LET s == proc[Worker].step
      k == proc[Worker].op
  IN  /\ AtResource => k \in Created \cup Published
      /\ s \in Working => row.stage \notin LateStages
      /\ s \in Working /\ ~lapsed =>
           /\ row.owner = "me" /\ row.lease = "live" /\ row.status = "running"
           /\ s = "transfer" => row.stage \in {"preflight_passed", "transferring"}
           /\ s \in {"receive", "staged"} => row.stage = "transferring"
           /\ s = "prepare" => row.stage = "preparing_target"
           /\ s \in {"publish", "published"} => row.stage = "publishing"
           /\ s \in {"configure", "record", "health"} => row.stage = "configuring_target"
           /\ AtResource => row.stage = StageOf[k]
           /\ AtResource \/ s \in {"staged", "published", "record", "health"} => lock = "active"
           /\ s \in {"make", "mark"} => k \in OwnedKinds

RemovalAt(p) ==
  /\ proc[p].step \in {"remove", "mark_removed"} => Ended
  /\ proc[p].step = "mark_removed" =>
       /\ proc[p].left # {} /\ NextKind(proc[p].left) # "record"
       /\ ~lapsed => NextKind(proc[p].left) \notin exists

DecidingAt(p) ==
  /\ proc[p].step \in Deciding => Exists
  /\ proc[p].step \in {"rollback", "begin_rollback"} =>
       /\ proc[p].op \in {"delete", "abandon", "abandonActivated"}
       /\ proc[p].op = "delete" => ~Activated
  /\ proc[p].step = "begin_rollback" =>
       /\ InScope /\ (Activated => MayForce(p))
       /\ row.site = Recorded /\ proc[p].site = Recorded
  /\ proc[p].step \in {"references", "files", "forget"} =>
       website # "quiet" /\ (~lapsed => Deletable)
  /\ proc[p].step \in {"files", "forget"} =>
       lock # "active" /\ (~Mine \/ row.status = "abandoned")
  /\ proc[p].step = "forget" /\ ~lapsed => "staging" \notin exists

OneDecides ==
  \A p, q \in Procs : proc[p].step \in Deciding /\ proc[q].step \in Deciding => p = q

ProcInv ==
  /\ ProcTypes /\ WorkerInv /\ OneDecides
  /\ \A p \in Procs : RemovalAt(p) /\ DecidingAt(p)

Inv == DataInv /\ ProcInv

-----------------------------------------------------------------------------
\* What the steps do.

\* A process moves to another step and keeps its operation and its scope.
LEMMA GotoEffect ==
  ASSUME proc \in [Procs -> ProcRecords], NEW p \in Procs, NEW s \in Steps, Goto(p, s)
  PROVE  /\ proc' \in [Procs -> ProcRecords] /\ \A q \in Procs \ {p} : proc'[q] = proc[q]
         /\ proc'[p].step = s /\ proc'[p].op = proc[p].op
         /\ proc'[p].site = proc[p].site /\ proc'[p].left = proc[p].left
<1>1. proc[p] \in ProcRecords OBVIOUS
<1>2. [proc[p] EXCEPT !.step = s] \in ProcRecords BY <1>1 DEF ProcRecords
<1>3. proc' = [proc EXCEPT ![p] = [proc[p] EXCEPT !.step = s]] BY DEF Goto
<1>4. proc'[p] = [proc[p] EXCEPT !.step = s] BY <1>3
<1>5. /\ proc'[p].step = s /\ proc'[p].op = proc[p].op
      /\ proc'[p].site = proc[p].site /\ proc'[p].left = proc[p].left
  BY <1>1, <1>4 DEF ProcRecords
<1>6. QED BY <1>2, <1>3, <1>5

\* A process without an operation has its type.
LEMMA IdleType == Idle \in ProcRecords
BY DEF Idle, ProcRecords, Steps

\* A process begins an operation, without a scope.
LEMMA BeginEffect ==
  ASSUME proc \in [Procs -> ProcRecords], NEW p \in Procs, NEW s \in Steps,
         NEW o \in Operations \cup Kinds \cup {"none"}, Begin(p, s, o)
  PROVE  /\ proc' \in [Procs -> ProcRecords] /\ \A q \in Procs \ {p} : proc'[q] = proc[q]
         /\ proc'[p].step = s /\ proc'[p].op = o /\ proc'[p].left = {}
<1>1. [Idle EXCEPT !.step = s, !.op = o] \in ProcRecords BY IdleType DEF ProcRecords, Idle
<1>2. proc' = [proc EXCEPT ![p] = [Idle EXCEPT !.step = s, !.op = o]] BY DEF Begin
<1>3. proc'[p] = [Idle EXCEPT !.step = s, !.op = o] BY <1>2
<1>4. proc'[p].step = s /\ proc'[p].op = o /\ proc'[p].left = {} BY <1>3 DEF Idle
<1>5. QED BY <1>1, <1>2, <1>4

\* A process ends its operation and forgets its scope.
LEMMA StopEffect ==
  ASSUME proc \in [Procs -> ProcRecords], NEW p \in Procs, NEW s \in Steps, Stop(p, s)
  PROVE  /\ proc' \in [Procs -> ProcRecords] /\ \A q \in Procs \ {p} : proc'[q] = proc[q]
         /\ proc'[p].step = s /\ proc'[p].left = {}
<1>1. [Idle EXCEPT !.step = s] \in ProcRecords BY IdleType DEF ProcRecords, Idle
<1>2. proc' = [proc EXCEPT ![p] = [Idle EXCEPT !.step = s]] BY DEF Stop
<1>3. proc'[p] = [Idle EXCEPT !.step = s] BY <1>2
<1>4. proc'[p].step = s /\ proc'[p].left = {} BY <1>3 DEF Idle
<1>5. QED BY <1>1, <1>2, <1>4

\* A statement that sets status and stage leaves owner, lease and website.
LEMMA SetRowEffect ==
  ASSUME row \in RowRecords, NEW s \in Statuses, NEW g \in Stages, SetRow(s, g)
  PROVE  /\ row' \in RowRecords /\ row'.status = s /\ row'.stage = g
         /\ row'.owner = row.owner /\ row'.lease = row.lease /\ row'.site = row.site
BY DEF SetRow, RowRecords

\* A statement that sets the status leaves everything else.
LEMMA SetStatusEffect ==
  ASSUME row \in RowRecords, NEW s \in Statuses, row' = [row EXCEPT !.status = s]
  PROVE  /\ row' \in RowRecords /\ row'.status = s /\ row'.stage = row.stage
         /\ row'.owner = row.owner /\ row'.lease = row.lease /\ row'.site = row.site
BY DEF RowRecords

\* A mark in the ledger changes one kind, and with it what the task owns.
LEMMA MarkEffect ==
  ASSUME ledger \in [Kinds -> LedgerStatuses], NEW k \in Kinds, NEW s \in LedgerStatuses,
         ledger' = [ledger EXCEPT ![k] = s]
  PROVE  /\ ledger' \in [Kinds -> LedgerStatuses]
         /\ ledger'[k] = s /\ \A j \in Kinds \ {k} : ledger'[j] = ledger[j]
         /\ s \in Owned => OwnedKinds' = OwnedKinds \cup {k}
         /\ s \notin Owned => OwnedKinds' = OwnedKinds \ {k}
BY DEF OwnedKinds

\* The kind a rollback removes next is one of those it has to remove.
LEMMA NextKindIsLeft ==
  ASSUME NEW S \in SUBSET Kinds, S # {}
  PROVE  NextKind(S) \in S
<1>1. \E k \in S : \A j \in S : Rank[k] <= Rank[j]
  <2>1. CASE "config" \in S BY <2>1 DEF Kinds, Rank
  <2>2. CASE "config" \notin S /\ "record" \in S BY <2>2 DEF Kinds, Rank
  <2>3. CASE {"config", "record"} \cap S = {} /\ "data" \in S BY <2>3 DEF Kinds, Rank
  <2>4. CASE {"config", "record", "data"} \cap S = {} /\ "staging" \in S BY <2>4 DEF Kinds, Rank
  <2>5. CASE {"config", "record", "data", "staging"} \cap S = {} /\ "database" \in S BY <2>5 DEF Kinds, Rank
  <2>6. CASE {"config", "record", "data", "staging", "database"} \cap S = {}
    <3>1. S = {"user"} BY <2>6 DEF Kinds
    <3>2. QED BY <3>1 DEF Rank
  <2>7. QED BY <2>1, <2>2, <2>3, <2>4, <2>5, <2>6
<1>2. QED BY <1>1 DEF NextKind

-----------------------------------------------------------------------------
\* The type invariant is that of the data and that of the processes.
LEMMA TypeSplit == TypeOK <=> DataTypes /\ proc \in [Procs -> ProcRecords]
                              /\ \A p \in Procs : proc[p].left # {} => proc[p].step \in {"begin_rollback", "remove", "mark_removed"}
BY DEF TypeOK, DataTypes, RowRecords, ProcRecords, LedgerStatuses

-----------------------------------------------------------------------------
\* A step of one process, and what the others rely on.

\* A step of p: of the others, nobody is about to decide.
AfterStep(p) ==
  /\ panel = "up" /\ panel' = panel /\ lapsed' = lapsed
  /\ \A q \in Procs \ {p} : proc[q].step \notin Deciding

\* What a step of p may not do to the others.
Harmless(p) ==
  /\ Ended => Ended'
  /\ ~lapsed /\ Ended => exists' \subseteq exists
  /\ p # Worker /\ proc[Worker].step \in Working =>
       row'.stage \notin LateStages /\ (lapsed \/ UNCHANGED <<row, lock, ledger>>)

\* The turn of a process: the others stay where they are.
Turn(p) == proc' \in [Procs -> ProcRecords] /\ \A q \in Procs \ {p} : proc'[q] = proc[q]

\* The induction step: what a step of p leaves of its own assertions and of the data is enough.
LEMMA LocalStep ==
  ASSUME ProcInv, NEW p \in Procs, Turn(p), AfterStep(p), Harmless(p),
         proc'[p].left # {} => proc'[p].step \in {"begin_rollback", "remove", "mark_removed"},
         p # Worker => proc'[p].step \notin WorkerSteps,
         p = Worker => WorkerInv',
         RemovalAt(p)', DecidingAt(p)'
  PROVE  ProcInv'
<1>0. Worker \in Procs /\ Admins = Procs \ {Worker}
  BY MigrationTargetAssumption DEF Procs, Worker
<1>1. \A q \in Procs \ {p} : proc'[q] = proc[q] BY DEF Turn
<1>2. ProcTypes'
  <2>1. proc' \in [Procs -> ProcRecords] BY DEF Turn
  <2>2. \A q \in Procs : proc'[q].left # {} => proc'[q].step \in {"begin_rollback", "remove", "mark_removed"}
    BY <1>1 DEF ProcInv, ProcTypes
  <2>3. panel' # "down" BY DEF AfterStep
  <2>4. \A a \in Admins : proc'[a].step \notin WorkerSteps
    BY <1>0, <1>1 DEF ProcInv, ProcTypes
  <2>5. QED BY <2>1, <2>2, <2>3, <2>4 DEF ProcTypes
<1>3. WorkerInv'
  <2>1. SUFFICES ASSUME p # Worker PROVE WorkerInv' OBVIOUS
  <2>2. proc'[Worker] = proc[Worker] BY <1>0, <1>1, <2>1
  <2>3. AtResource' = AtResource BY <2>2 DEF AtResource
  <2>4. AtResource => proc[Worker].step \in Working BY DEF AtResource, Working
  <2>5. CASE lapsed
    BY <2>1, <2>2, <2>3, <2>5 DEF ProcInv, WorkerInv, Harmless, AfterStep
  <2>6. CASE ~lapsed /\ proc[Worker].step \in Working
    <3>1. row' = row /\ lock' = lock /\ ledger' = ledger /\ OwnedKinds' = OwnedKinds
      BY <2>1, <2>6 DEF Harmless, OwnedKinds
    <3>2. WorkerInv BY DEF ProcInv
    <3>3. lapsed' = lapsed BY DEF AfterStep
    <3>4. QED BY <2>2, <2>3, <3>1, <3>2, <3>3 DEF WorkerInv
  <2>7. CASE proc[Worker].step \notin Working
    BY <2>2, <2>3, <2>4, <2>7 DEF WorkerInv
  <2>8. QED BY <2>5, <2>6, <2>7
<1>4. ASSUME NEW q \in Procs PROVE RemovalAt(q)' /\ DecidingAt(q)'
  <2>1. SUFFICES ASSUME q # p PROVE RemovalAt(q)' /\ DecidingAt(q)' OBVIOUS
  <2>2. proc'[q] = proc[q] /\ proc[q].step \notin Deciding BY <1>1, <2>1 DEF AfterStep
  <2>3. DecidingAt(q)' BY <2>2 DEF DecidingAt, Deciding
  <2>4. RemovalAt(q) BY DEF ProcInv
  <2>5. RemovalAt(q)'
    BY <2>2, <2>4 DEF RemovalAt, Harmless, AfterStep
  <2>6. QED BY <2>3, <2>5
<1>5. OneDecides'
  <2>1. \A q \in Procs : proc'[q].step \in Deciding => q = p BY <1>1 DEF AfterStep
  <2>2. QED BY <2>1 DEF OneDecides
<1>6. QED BY <1>2, <1>3, <1>4, <1>5 DEF ProcInv

\* Steps at which nothing is relied on.
Plain == {"idle", "loop", "await", "release", "release_failed", "handle",
          "activate", "resume", "commit", "runtime", "finish"}
AdminPlain == {"idle", "activate", "resume", "commit", "runtime", "finish"}

\* A step after which p relies on nothing.
LEMMA PlainStep ==
  ASSUME ProcInv, NEW p \in Procs, Turn(p), AfterStep(p), Harmless(p),
         proc'[p].left = {}, proc'[p].step \in Plain,
         p # Worker => proc'[p].step \in AdminPlain
  PROVE  ProcInv'
<1>1. p # Worker => proc'[p].step \notin WorkerSteps BY DEF WorkerSteps, Working, AdminPlain
<1>2. p = Worker => WorkerInv' BY DEF WorkerInv, AtResource, Working, Plain
<1>3. RemovalAt(p)' BY DEF RemovalAt, Plain
<1>4. DecidingAt(p)' BY DEF DecidingAt, Deciding, Plain
<1>5. QED BY <1>1, <1>2, <1>3, <1>4, LocalStep

-----------------------------------------------------------------------------
\* The worker moves on.

\* What a step of p starts from.
Context(p) == Inv /\ ~ScopeMayAge /\ panel = "up" /\ Undisturbed(p)
SameData == UNCHANGED <<row, lock, ledger, exists, website, panel, faults, lapsed>>

\* The data stay, and so does their invariant.
LEMMA DataSame == ASSUME DataInv, SameData PROVE DataInv'
<1>1. Exists' = Exists /\ OwnedKinds' = OwnedKinds BY DEF SameData, Exists, OwnedKinds
<1>2. DataTypes' BY DEF DataInv, DataTypes, SameData
<1>3. RowInv' BY <1>1 DEF DataInv, RowInv, SameData
<1>4. WebsiteInv' BY <1>1 DEF DataInv, WebsiteInv, ActivationAtomic, Recorded, SameData
<1>5. CoverInv' BY <1>1 DEF DataInv, CoverInv, LedgerCovers, AbandonedIsClean, Deletable, SameData
<1>6. QED BY <1>2, <1>3, <1>4, <1>5 DEF DataInv

\* A step that changes no data is harmless.
LEMMA HarmlessSame == ASSUME ProcInv, SameData, NEW p \in Procs PROVE Harmless(p)
<1>1. Ended' = Ended BY DEF SameData, Ended, Exists
<1>2. QED BY <1>1 DEF Harmless, SameData, ProcInv, WorkerInv

\* What the step of p knows of the others.
LEMMA ContextFacts ==
  ASSUME NEW p, Context(p), UNCHANGED <<panel, lapsed>>
  PROVE  AfterStep(p) /\ DataInv /\ ProcInv
BY DEF Context, Undisturbed, AfterStep, Inv

\* What the type of the processes says of each.
LEMMA ProcFacts ==
  ASSUME ProcInv
  PROVE  /\ proc \in [Procs -> ProcRecords] /\ Worker \in Procs /\ Admins \subseteq Procs /\ Worker \notin Admins
         /\ \A p \in Procs : /\ p # Worker => p \in Admins /\ proc[p].step \notin WorkerSteps
                             /\ proc[p].op \in Operations \cup Kinds \cup {"none"} /\ proc[p].left \in SUBSET Kinds
                             /\ proc[p].step \notin {"begin_rollback", "remove", "mark_removed"} => proc[p].left = {}
<1>1. Worker \in Procs /\ Admins \subseteq Procs /\ Worker \notin Admins
  BY MigrationTargetAssumption DEF Procs, Worker
<1>2. proc \in [Procs -> ProcRecords] BY DEF ProcInv, ProcTypes
<1>3. ASSUME NEW p \in Procs
      PROVE  proc[p].op \in Operations \cup Kinds \cup {"none"} /\ proc[p].left \in SUBSET Kinds
  <2>1. proc[p] \in ProcRecords BY <1>2
  <2>2. QED BY <2>1 DEF ProcRecords
<1>4. QED BY <1>1, <1>2, <1>3 DEF ProcInv, ProcTypes, Procs

\* The loop sends the worker only to the step of the stage it has read.
LEMMA StageStepFacts ==
  ASSUME NEW g \in Stages
  PROVE  /\ StageStep(g) \in {"transfer", "prepare", "publish", "configure", "await", "release_failed"}
         /\ StageStep(g) = "transfer" => g \in {"preflight_passed", "transferring"}
         /\ StageStep(g) = "prepare" => g = "preparing_target"
         /\ StageStep(g) = "publish" => g = "publishing"
         /\ StageStep(g) = "configure" => g = "configuring_target"
BY DEF StageStep, Stages

\* Loop preserves the invariant: the worker at work has its lease and knows its stage.
LEMMA LoopStep ==
  ASSUME Context(Worker), Loop
  PROVE  Inv'
<1>1. SameData BY DEF Loop, SameData, dbVars, history
<1>2. AfterStep(Worker) /\ DataInv /\ ProcInv BY <1>1, ContextFacts DEF SameData
<1>3. proc \in [Procs -> ProcRecords] /\ Worker \in Procs /\ proc[Worker].left = {}
  BY <1>2, ProcFacts DEF Loop, At
<1>4. DataInv' /\ Harmless(Worker) BY <1>1, <1>2, <1>3, DataSame, HarmlessSame
<1>5. DataTypes /\ RowInv /\ row.stage \in Stages BY <1>2 DEF DataInv, DataTypes, RowRecords
<1>6. PICK s \in Steps : Goto(Worker, s) /\ s = IF HasLease THEN StageStep(row.stage) ELSE "release_failed"
  BY <1>5, StageStepFacts DEF Loop, Steps
<1>7. /\ Turn(Worker) /\ proc'[Worker].step = s /\ proc'[Worker].left = {}
  BY <1>3, <1>6, GotoEffect DEF Turn
<1>8. CASE s \in Plain BY <1>2, <1>3, <1>4, <1>7, <1>8, PlainStep DEF Inv
<1>9. CASE s \notin Plain
  <2>1. HasLease /\ s \in {"transfer", "prepare", "publish", "configure"}
    BY <1>5, <1>6, <1>9, StageStepFacts DEF Plain
  <2>2. /\ row.stage \notin LateStages /\ row.status = "running" /\ Mine
        /\ s = "transfer" => row.stage \in {"preflight_passed", "transferring"}
        /\ s = "prepare" => row.stage = "preparing_target"
        /\ s = "publish" => row.stage = "publishing"
        /\ s = "configure" => row.stage = "configuring_target"
    BY <1>5, <1>6, <2>1, StageStepFacts DEF HasLease, RowInv, LateStages
  <2>3. WorkerInv' BY <1>1, <1>7, <2>1, <2>2 DEF WorkerInv, AtResource, SameData, Mine
  <2>4. RemovalAt(Worker)' /\ DecidingAt(Worker)'
    BY <1>7, <2>1 DEF RemovalAt, DecidingAt, Deciding
  <2>5. QED BY <1>2, <1>3, <1>4, <1>7, <2>3, <2>4, LocalStep DEF Inv
<1>10. QED BY <1>8, <1>9

\* A process that only moves on, to a step at which nothing is relied on.
LEMMA PlainMove ==
  ASSUME NEW p \in Procs, Context(p), SameData, Turn(p),
         proc'[p].left = {}, proc'[p].step \in Plain, p # Worker => proc'[p].step \in AdminPlain
  PROVE  Inv'
<1>1. AfterStep(p) /\ DataInv /\ ProcInv BY ContextFacts DEF SameData
<1>2. DataInv' /\ Harmless(p) BY <1>1, DataSame, HarmlessSame
<1>3. QED BY <1>1, <1>2, PlainStep DEF Inv

\* A process that fails or returns relies on nothing.
LEMMA FailsEffect ==
  ASSUME proc \in [Procs -> ProcRecords], NEW p \in Procs, Fails(p) \/ Returns(p)
  PROVE  /\ Turn(p) /\ proc'[p].left = {} /\ proc'[p].step \in Plain
         /\ p # Worker => proc'[p].step \in AdminPlain
<1>1. PICK s \in {"idle", "release", "release_failed"} : Stop(p, s) /\ (p # Worker => s = "idle")
  BY DEF Fails, Returns
<1>2. s \in Steps BY DEF Steps
<1>3. QED BY <1>1, <1>2, StopEffect DEF Turn, Plain, AdminPlain

\* HeartbeatRefused and PrepareFails preserve the invariant.
LEMMA WorkerMoves ==
  ASSUME Context(Worker), HeartbeatRefused \/ PrepareFails
  PROVE  Inv'
<1>1. SameData BY DEF HeartbeatRefused, PrepareFails, SameData, dbVars, history
<1>2. ProcInv /\ Worker \in Procs /\ proc \in [Procs -> ProcRecords]
  BY <1>1, ContextFacts, ProcFacts DEF SameData
<1>3. Turn(Worker) /\ proc'[Worker].left = {} /\ proc'[Worker].step \in Plain
  <2>1. CASE HeartbeatRefused
    BY <1>2, <2>1, GotoEffect, ProcFacts DEF HeartbeatRefused, At, Turn, Plain, Steps
  <2>2. CASE PrepareFails BY <1>2, <2>2, FailsEffect DEF PrepareFails
  <2>3. QED BY <2>1, <2>2
<1>4. QED BY <1>1, <1>2, <1>3, PlainMove

-----------------------------------------------------------------------------
\* Requests and decisions: the data stay.

\* A deletion goes to the references only when there is nothing to roll back.
LEMMA DeletionStepFacts ==
  ASSUME DataInv
  PROVE  /\ DeletionStep \in {"rollback", "references"}
         /\ DeletionStep = "rollback" => ~Activated
         /\ DeletionStep = "references" => website # "quiet" /\ (~lapsed /\ Exists => Deletable)
<1>1. RowInv /\ WebsiteInv /\ CoverInv BY DEF DataInv
<1>2. DeletionStep \in {"rollback", "references"} /\ (DeletionStep = "rollback" => ~Activated)
  BY DEF DeletionStep
<1>3. ASSUME DeletionStep = "references" PROVE website # "quiet" /\ (~lapsed /\ Exists => Deletable)
  <2>1. Activated \/ row.status = "completed" \/ ~HasRuntime BY <1>3 DEF DeletionStep
  <2>2. row.stage \in LiveStages => website = "live" /\ lock = "released"
    BY <1>1 DEF WebsiteInv, ActivationAtomic, LiveStages
  <2>3. row.status = "completed" => row.stage \in LiveStages BY <1>1 DEF RowInv, LiveStages
  <2>4. Activated <=> lock = "released" \/ row.stage \in LiveStages BY DEF Activated, LiveStages
  <2>5. website = "quiet" => lock = "active" /\ HasRuntime
    BY <1>1 DEF WebsiteInv, ActivationAtomic, Recorded, HasRuntime, RuntimeKinds
  <2>6. ~HasRuntime => Deletable BY DEF HasRuntime, Deletable
  <2>7. lock = "released" /\ ~lapsed /\ Exists => Deletable BY <1>1 DEF CoverInv
  <2>8. website # "quiet" BY <2>1, <2>2, <2>3, <2>4, <2>5
  <2>9. ~lapsed /\ Exists => Deletable BY <2>1, <2>2, <2>3, <2>4, <2>6, <2>7 DEF Deletable
  <2>10. QED BY <2>8, <2>9
<1>4. QED BY <1>2, <1>3

\* The assertions of the state are those of the state before.
LEMMA SameFacts ==
  ASSUME SameData
  PROVE  /\ Exists' = Exists /\ Activated' = Activated /\ Deletable' = Deletable /\ InScope' = InScope
         /\ Recorded' = Recorded /\ OwnedKinds' = OwnedKinds /\ Mine' = Mine /\ Ended' = Ended
         /\ row' = row /\ lock' = lock /\ ledger' = ledger /\ exists' = exists /\ website' = website /\ lapsed' = lapsed
<1>1. OwnedKinds' = OwnedKinds /\ Exists' = Exists BY DEF SameData, OwnedKinds, Exists
<1>2. QED BY <1>1 DEF SameData, Activated, Deletable, InScope, Recorded, Mine, Ended

\* A deletion begins: its decision is right at the step it is taken.
LEMMA DeletionBegins ==
  ASSUME NEW p \in Procs, Context(p), SameData, Exists, Begin(p, DeletionStep, "delete")
  PROVE  Inv'
<1>1. AfterStep(p) /\ DataInv /\ ProcInv BY ContextFacts DEF SameData
<1>2. DataInv' /\ Harmless(p) BY <1>1, DataSame, HarmlessSame
<1>3. DeletionStep \in Steps /\ "delete" \in Operations \cup Kinds \cup {"none"}
  BY <1>1, DeletionStepFacts DEF Steps, Operations
<1>4. /\ Turn(p) /\ proc'[p].left = {} /\ proc'[p].op = "delete"
      /\ proc'[p].step = DeletionStep
  BY <1>1, <1>3, ProcFacts, BeginEffect DEF Turn
<1>5. RemovalAt(p)' BY <1>1, <1>4, DeletionStepFacts DEF RemovalAt
<1>6. DecidingAt(p)'
  BY <1>1, <1>4, SameFacts, DeletionStepFacts DEF DecidingAt, Deciding
<1>7. p = Worker => WorkerInv'
  BY <1>1, <1>4, DeletionStepFacts DEF WorkerInv, AtResource, Working
<1>8. p # Worker => proc'[p].step \notin WorkerSteps
  BY <1>1, <1>4, DeletionStepFacts DEF WorkerSteps, Working
<1>9. QED BY <1>1, <1>2, <1>4, <1>5, <1>6, <1>7, <1>8, LocalStep DEF Inv

\* HandleFailure preserves the invariant.
LEMMA HandleFailureStep ==
  ASSUME Context(Worker), HandleFailure
  PROVE  Inv'
<1>1. SameData BY DEF HandleFailure, SameData, dbVars, history
<1>2. ProcInv /\ Worker \in Procs /\ proc \in [Procs -> ProcRecords]
  BY <1>1, ContextFacts, ProcFacts DEF SameData
<1>3. CASE Exists /\ ~Activated BY <1>1, <1>2, <1>3, DeletionBegins DEF HandleFailure
<1>4. CASE ~(Exists /\ ~Activated)
  <2>1. Stop(Worker, "idle") /\ "idle" \in Steps BY <1>4 DEF HandleFailure, Steps
  <2>2. Turn(Worker) /\ proc'[Worker].left = {} /\ proc'[Worker].step \in Plain
    BY <1>2, <2>1, StopEffect DEF Turn, Plain
  <2>3. QED BY <1>1, <1>2, <2>2, PlainMove
<1>5. QED BY <1>3, <1>4

\* Delete preserves the invariant.
LEMMA DeleteStep ==
  ASSUME NEW a \in Admins, Context(a), Delete(a)
  PROVE  Inv'
<1>1. SameData BY DEF Delete, SameData, dbVars, history
<1>2. a \in Procs BY DEF Procs
<1>3. QED BY <1>1, <1>2, DeletionBegins DEF Delete

\* Abandon preserves the invariant.
LEMMA AbandonStep ==
  ASSUME NEW a \in Admins, Context(a), Abandon(a)
  PROVE  Inv'
<1>1. SameData BY DEF Abandon, SameData, dbVars, history
<1>2. AfterStep(a) /\ DataInv /\ ProcInv BY <1>1, ContextFacts DEF SameData
<1>3. a \in Procs /\ a # Worker BY <1>2, ProcFacts
<1>4. DataInv' /\ Harmless(a) BY <1>1, <1>2, <1>3, DataSame, HarmlessSame
<1>5. PICK o \in {"abandon", "abandonActivated"} : Begin(a, "rollback", o) BY DEF Abandon
<1>6. "rollback" \in Steps /\ o \in Operations \cup Kinds \cup {"none"} BY DEF Steps, Operations
<1>7. Turn(a) /\ proc'[a].left = {} /\ proc'[a].op = o /\ proc'[a].step = "rollback"
  BY <1>2, <1>3, <1>5, <1>6, ProcFacts, BeginEffect DEF Turn
<1>8. RemovalAt(a)' /\ proc'[a].step \notin WorkerSteps BY <1>7 DEF RemovalAt, WorkerSteps, Working
<1>9. DecidingAt(a)' BY <1>1, <1>7, SameFacts DEF DecidingAt, Deciding, Abandon
<1>10. QED BY <1>2, <1>3, <1>4, <1>7, <1>8, <1>9, LocalStep DEF Inv

\* Confirm preserves the invariant.
LEMMA ConfirmStep ==
  ASSUME NEW a \in Admins, Context(a), Confirm(a)
  PROVE  Inv'
<1>1. SameData BY DEF Confirm, SameData, dbVars, history
<1>2. ProcInv BY <1>1, ContextFacts DEF SameData
<1>3. a \in Procs /\ a # Worker BY <1>2, ProcFacts
<1>4. "activate" \in Steps /\ "confirm" \in Operations BY DEF Steps, Operations
<1>5. Turn(a) /\ proc'[a].left = {} /\ proc'[a].step = "activate"
  BY <1>2, <1>3, <1>4, ProcFacts, BeginEffect DEF Turn, Confirm
<1>6. QED BY <1>1, <1>3, <1>5, PlainMove DEF Plain, AdminPlain

\* LoadRollbackScope preserves the invariant: what it has read is so until the rollback begins.
LEMMA LoadRollbackScopeStep ==
  ASSUME NEW p \in Procs, Context(p), LoadRollbackScope(p)
  PROVE  Inv'
<1>1. SameData BY DEF LoadRollbackScope, SameData, dbVars, history
<1>2. AfterStep(p) /\ DataInv /\ ProcInv BY <1>1, ContextFacts DEF SameData
<1>3. DataInv' /\ Harmless(p) BY <1>1, <1>2, DataSame, HarmlessSame
<1>4. /\ proc \in [Procs -> ProcRecords] /\ proc[p].step = "rollback" /\ proc[p].left = {}
      /\ DecidingAt(p)
  BY <1>2, ProcFacts DEF LoadRollbackScope, At, ProcInv
<1>5. CASE Stop(p, "idle")
  <2>1. "idle" \in Steps BY DEF Steps
  <2>2. Turn(p) /\ proc'[p].left = {} /\ proc'[p].step = "idle"
    BY <1>4, <1>5, <2>1, StopEffect DEF Turn
  <2>3. QED BY <1>1, <2>2, PlainMove DEF Plain, AdminPlain
<1>6. CASE row.status = "abandoned" /\ CleanedUp /\ Goto(p, "files")
  <2>1. "files" \in Steps BY DEF Steps
  <2>2. Turn(p) /\ proc'[p].left = {} /\ proc'[p].step = "files"
    BY <1>4, <1>6, <2>1, GotoEffect DEF Turn
  <2>3. /\ lock = "released" /\ OwnedKinds = {}
    BY <1>6 DEF CleanedUp, OwnedKinds, Owned
  <2>4. website # "quiet" /\ Deletable /\ Exists
    BY <1>2, <1>6, <2>3 DEF DataInv, WebsiteInv, ActivationAtomic, Deletable, Exists
  <2>5. DecidingAt(p)' BY <1>1, <1>6, <2>2, <2>3, <2>4, SameFacts DEF DecidingAt
  <2>6. RemovalAt(p)' /\ proc'[p].step \notin WorkerSteps
    BY <2>2 DEF RemovalAt, WorkerSteps, Working
  <2>7. p = Worker => WorkerInv' BY <2>2 DEF Working, WorkerInv, AtResource
  <2>8. QED BY <1>2, <1>3, <2>2, <2>5, <2>6, <2>7, LocalStep DEF Inv
<1>7. CASE /\ InScope /\ (Activated => MayForce(p)) /\ row.site = Recorded
           /\ proc' = [proc EXCEPT ![p] = [@ EXCEPT !.step = "begin_rollback", !.site = row.site, !.left = OwnedKinds]]
  <2> DEFINE rec == [proc[p] EXCEPT !.step = "begin_rollback", !.site = row.site, !.left = OwnedKinds]
  <2>1. proc[p] \in ProcRecords /\ row.site \in BOOLEAN /\ OwnedKinds \in SUBSET Kinds
    BY <1>2, <1>4 DEF DataInv, DataTypes, RowRecords, OwnedKinds
  <2>2. rec \in ProcRecords BY <2>1 DEF ProcRecords, Steps
  <2>3. /\ rec.step = "begin_rollback" /\ rec.site = row.site /\ rec.left = OwnedKinds /\ rec.op = proc[p].op
    BY <2>1 DEF ProcRecords
  <2>4. proc' = [proc EXCEPT ![p] = rec] BY <1>7
  <2> HIDE DEF rec
  <2>5. Turn(p) /\ proc'[p] = rec BY <1>4, <2>2, <2>4 DEF Turn
  <2>6. MayForce(p)' = MayForce(p) BY <2>3, <2>5 DEF MayForce
  <2>7. DecidingAt(p)'
    BY <1>1, <1>4, <1>7, <2>3, <2>5, <2>6, SameFacts DEF DecidingAt, Deciding
  <2>8. RemovalAt(p)' /\ rec.step \notin WorkerSteps
    BY <2>3, <2>5 DEF RemovalAt, WorkerSteps, Working
  <2>9. p = Worker => WorkerInv' BY <2>3, <2>5 DEF Working, WorkerInv, AtResource
  <2>10. QED BY <1>2, <1>3, <2>3, <2>5, <2>7, <2>8, <2>9, LocalStep DEF Inv
<1>8. QED BY <1>5, <1>6, <1>7 DEF LoadRollbackScope

-----------------------------------------------------------------------------
\* The row alone.

\* Only the row changes; the stages before anything is in the ledger.
RowOnly == UNCHANGED <<lock, ledger, exists, website, panel, faults, lapsed>>
Early == {"preflight_passed", "transferring"}

\* The row changes within the stages that are alike for the ledger and for the website.
LEMMA RowMoves ==
  ASSUME DataInv, RowOnly, row' \in RowRecords, (row'.owner = "none") = (row'.lease = "null"),
         RowInv', Exists, row'.status # "gone",
         row'.stage \in LiveStages <=> row.stage \in LiveStages,
         ~lapsed /\ row.stage \in Early => row'.stage \in Early,
         row'.status = "abandoned" => row.status = "abandoned"
  PROVE  DataInv'
<1>1. Exists' /\ OwnedKinds' = OwnedKinds BY DEF Exists, RowOnly, OwnedKinds
<1>2. DataTypes' BY DEF DataInv, DataTypes, RowOnly
<1>3. WebsiteInv'
  BY <1>1 DEF DataInv, WebsiteInv, ActivationAtomic, Recorded, RowOnly, LiveStages
<1>4. CoverInv'
  BY <1>1 DEF DataInv, CoverInv, LedgerCovers, AbandonedIsClean, Deletable, RowOnly, Early
<1>5. QED BY <1>2, <1>3, <1>4 DEF DataInv

\* The row learns of a failure.
LEMMA FailureRecorded ==
  ASSUME DataInv, RowOnly, Exists, row.stage \notin {"completed", "cancelling", "abandoned", "interrupted_unknown"},
         row' = [row EXCEPT !.status = "failed_retryable"]
  PROVE  /\ DataInv' /\ Exists' /\ row'.status = "failed_retryable" /\ row'.stage = row.stage
         /\ row'.owner = row.owner /\ row'.lease = row.lease
<1>1. row \in RowRecords /\ "failed_retryable" \in Statuses BY DEF DataInv, DataTypes, Statuses
<1>2. /\ row' \in RowRecords /\ row'.status = "failed_retryable" /\ row'.stage = row.stage
      /\ row'.owner = row.owner /\ row'.lease = row.lease
  BY <1>1, SetStatusEffect
<1>3. Exists' BY <1>2 DEF Exists
<1>4. RowInv' BY <1>2, <1>3 DEF DataInv, RowInv
<1>5. DataInv' BY <1>2, <1>4, RowMoves DEF DataInv, DataTypes
<1>6. QED BY <1>2, <1>3, <1>5

\* The stages in which a failure is recorded without looking at the status.
FailableStages == {"publishing", "configuring_target", "activating_target", "activation_runtime_sync"}
\* A failure that is recorded only in its stage.
LEMMA SetStatusInEffect ==
  ASSUME DataInv, RowOnly, NEW st \in SUBSET FailableStages, SetStatusIn(st, "failed_retryable")
  PROVE  /\ DataInv' /\ Exists' = Exists /\ row'.stage = row.stage /\ Ended' = Ended
         /\ row'.owner = row.owner /\ row'.lease = row.lease
         /\ row' = row \/ (Exists /\ row.stage \in st)
<1>1. CASE Exists /\ row.stage \in st
  <2>1. row' = [row EXCEPT !.status = "failed_retryable"] BY <1>1 DEF SetStatusIn
  <2>2. row.stage \notin {"completed", "cancelling", "abandoned", "interrupted_unknown"}
    BY <1>1 DEF FailableStages
  <2>3. QED BY <1>1, <2>1, <2>2, FailureRecorded DEF Ended, RowOnly
<1>2. CASE ~(Exists /\ row.stage \in st)
  <2>1. row' = row BY <1>2 DEF SetStatusIn
  <2>2. SameData BY <2>1 DEF SameData, RowOnly
  <2>3. QED BY <2>1, <2>2, DataSame, SameFacts
<1>3. QED BY <1>1, <1>2

\* An outcome that is unknown is recorded whatever the row says.
LEMMA UnknownEffect ==
  ASSUME DataInv, RowOnly, Unknown, row.stage \notin LiveStages, ~lapsed => row.stage \notin Early
  PROVE  /\ DataInv' /\ Exists' = Exists
         /\ Exists => row'.status = "interrupted_unknown" /\ row'.stage = "interrupted_unknown"
         /\ ~Exists => row' = row
<1>1. CASE Exists
  <2>1. /\ row \in RowRecords /\ "interrupted_unknown" \in Statuses
        /\ "interrupted_unknown" \in Stages /\ SetRow("interrupted_unknown", "interrupted_unknown")
    BY <1>1 DEF DataInv, DataTypes, Statuses, Stages, Unknown, SetRow
  <2>2. /\ row' \in RowRecords /\ row'.status = "interrupted_unknown" /\ row'.stage = "interrupted_unknown"
        /\ row'.owner = row.owner /\ row'.lease = row.lease
    BY <2>1, SetRowEffect
  <2>3. Exists' BY <2>2 DEF Exists
  <2>4. RowInv' BY <2>2, <2>3 DEF RowInv
  <2>5. DataInv' BY <1>1, <2>2, <2>4, RowMoves DEF DataInv, DataTypes, LiveStages, Early
  <2>6. QED BY <1>1, <2>2, <2>3, <2>5
<1>2. CASE ~Exists
  <2>1. row' = row BY <1>2 DEF Unknown
  <2>2. SameData BY <2>1 DEF SameData, RowOnly
  <2>3. QED BY <1>2, <2>1, <2>2, DataSame, SameFacts
<1>3. QED BY <1>1, <1>2

-----------------------------------------------------------------------------
\* The worker.

\* What the worker, at work, knows of the row.
LEMMA WorkingFacts ==
  ASSUME Inv, proc[Worker].step \in Working
  PROVE  /\ row.stage \notin LateStages
         /\ ~lapsed => Exists /\ Mine /\ row.status = "running" /\ ~Ended
                       /\ row.stage \notin {"cancelling", "abandoned", "interrupted_unknown"}
<1>1. WorkerInv /\ RowInv BY DEF Inv, ProcInv, DataInv
<1>2. row.stage \notin LateStages /\ (~lapsed => Mine /\ row.status = "running") BY <1>1 DEF WorkerInv, Mine
<1>3. ~lapsed => Exists /\ row.stage \notin {"cancelling", "abandoned", "interrupted_unknown"}
  BY <1>1, <1>2 DEF RowInv, Exists
<1>4. QED BY <1>2, <1>3 DEF Ended

\* The worker goes on to a step at which nothing is relied on.
LEMMA WorkerEnds ==
  ASSUME Context(Worker), UNCHANGED <<panel, lapsed>>, DataInv', Turn(Worker),
         proc'[Worker].left = {}, proc'[Worker].step \in Plain,
         Ended => Ended', ~lapsed /\ Ended => exists' \subseteq exists
  PROVE  Inv'
<1>1. AfterStep(Worker) /\ ProcInv BY ContextFacts
<1>2. Harmless(Worker) BY DEF Harmless
<1>3. Worker \in Procs BY <1>1, ProcFacts
<1>4. QED BY <1>1, <1>2, <1>3, PlainStep DEF Inv

\* The worker goes on with its stage.
LEMMA WorkerGoesOn ==
  ASSUME Context(Worker), UNCHANGED <<panel, lapsed>>, DataInv', Turn(Worker),
         proc'[Worker].left = {}, proc'[Worker].step \in Working, WorkerInv',
         Ended => Ended', ~lapsed /\ Ended => exists' \subseteq exists
  PROVE  Inv'
<1>1. AfterStep(Worker) /\ ProcInv BY ContextFacts
<1>2. Harmless(Worker) BY DEF Harmless
<1>3. Worker \in Procs BY <1>1, ProcFacts
<1>4. RemovalAt(Worker)' /\ DecidingAt(Worker)' BY DEF RemovalAt, DecidingAt, Deciding, Working
<1>5. QED BY <1>1, <1>2, <1>3, <1>4, LocalStep DEF Inv

\* ClaimNext preserves the invariant.
LEMMA ClaimNextStep ==
  ASSUME Context(Worker), ClaimNext
  PROVE  Inv'
<1>1. DataInv /\ ProcInv /\ RowOnly /\ proc[Worker].left = {} /\ UNCHANGED <<panel, lapsed>>
  BY ProcFacts DEF Context, Inv, ClaimNext, RowOnly, history, At
<1>2. row \in RowRecords /\ row.status = "queued" BY <1>1 DEF DataInv, DataTypes, ClaimNext
<1>3. /\ row' \in RowRecords /\ row'.status = "running" /\ row'.stage = row.stage
      /\ row'.owner = "me" /\ row'.lease = "live"
  BY <1>2 DEF ClaimNext, RowRecords, Statuses
<1>4. Exists /\ Exists' BY <1>2, <1>3 DEF Exists
<1>5. RowInv' BY <1>1, <1>2, <1>3, <1>4 DEF DataInv, RowInv
<1>6. DataInv' BY <1>1, <1>3, <1>4, <1>5, RowMoves
<1>7. Turn(Worker) /\ proc'[Worker].left = {} /\ proc'[Worker].step = "loop"
  BY <1>1, GotoEffect, ProcFacts DEF ClaimNext, Turn, Steps
<1>8. Ended => Ended' BY <1>1, <1>3, <1>4 DEF Ended
<1>9. QED BY <1>1, <1>6, <1>7, <1>8, WorkerEnds DEF Plain, RowOnly

\* ReleaseClaim preserves the invariant.
LEMMA ReleaseClaimStep ==
  ASSUME Context(Worker), ReleaseClaim
  PROVE  Inv'
<1>1. DataInv /\ ProcInv /\ RowOnly /\ proc[Worker].left = {} /\ UNCHANGED <<panel, lapsed, exists>>
  BY ProcFacts DEF Context, Inv, ReleaseClaim, RowOnly, history
<1>2. /\ Turn(Worker) /\ proc'[Worker].left = {} /\ proc'[Worker].step \in {"handle", "idle"}
  BY <1>1, GotoEffect, ProcFacts DEF ReleaseClaim, Turn, Steps
<1>3. row \in RowRecords /\ RowInv BY <1>1 DEF DataInv, DataTypes
<1>4. DataInv' /\ (Ended => Ended')
  <2>1. CASE row' = row
    <3>1. SameData BY <1>1, <2>1 DEF SameData, RowOnly
    <3>2. QED BY <1>1, <3>1, DataSame, SameFacts
  <2>2. CASE /\ row.status = "running" \/ (row.status = "awaiting_cutover" /\ row.stage = "awaiting_cutover")
             /\ row' = [row EXCEPT !.status = "failed_retryable", !.owner = "none", !.lease = "null"]
    <3>1. /\ row' \in RowRecords /\ row'.status = "failed_retryable" /\ row'.stage = row.stage
          /\ row'.owner = "none" /\ row'.lease = "null"
      BY <1>3, <2>2 DEF RowRecords, Statuses
    <3>2. Exists /\ Exists' BY <2>2, <3>1 DEF Exists
    <3>3. RowInv' BY <1>3, <2>2, <3>1, <3>2 DEF RowInv
    <3>4. DataInv' BY <1>1, <3>1, <3>2, <3>3, RowMoves
    <3>5. QED BY <1>1, <3>1, <3>2, <3>4 DEF Ended
  <2>3. CASE row.owner = "me" /\ row' = [row EXCEPT !.owner = "none", !.lease = "null"]
    <3>1. /\ row' \in RowRecords /\ row'.status = row.status /\ row'.stage = row.stage
          /\ row'.owner = "none" /\ row'.lease = "null"
      BY <1>3, <2>3 DEF RowRecords
    <3>2. Exists /\ Exists' BY <1>3, <2>3, <3>1 DEF Exists, RowInv, NoTask
    <3>3. RowInv' BY <1>3, <3>1, <3>2 DEF RowInv
    <3>4. DataInv' BY <1>1, <3>1, <3>2, <3>3, RowMoves DEF Exists
    <3>5. QED BY <1>1, <3>1, <3>2, <3>4 DEF Ended
  <2>4. QED BY <2>1, <2>2, <2>3 DEF ReleaseClaim
<1>5. QED BY <1>1, <1>2, <1>4, WorkerEnds DEF Plain

-----------------------------------------------------------------------------
\* The transfer.

\* What every step of the worker at work starts from.
LEMMA WorkerFacts ==
  ASSUME Context(Worker)
  PROVE  /\ Inv /\ DataInv /\ DataTypes /\ RowInv /\ WebsiteInv /\ CoverInv /\ ProcInv /\ WorkerInv
         /\ row \in RowRecords /\ row.stage \in Stages /\ row.status \in Statuses
         /\ (row.owner = "none") = (row.lease = "null")
         /\ ledger \in [Kinds -> LedgerStatuses]
         /\ proc \in [Procs -> ProcRecords] /\ Worker \in Procs
         /\ proc[Worker].step \notin {"begin_rollback", "remove", "mark_removed"} => proc[Worker].left = {}
<1>1. Inv /\ DataInv /\ DataTypes /\ RowInv /\ WebsiteInv /\ CoverInv /\ ProcInv /\ WorkerInv
  BY DEF Context, Inv, DataInv, ProcInv
<1>2. row \in RowRecords /\ (row.owner = "none") = (row.lease = "null") /\ ledger \in [Kinds -> LedgerStatuses]
  BY <1>1 DEF DataTypes
<1>3. row.stage \in Stages /\ row.status \in Statuses BY <1>2 DEF RowRecords
<1>4. QED BY <1>1, <1>2, <1>3, ProcFacts

\* TransferBegin preserves the invariant.
LEMMA TransferBeginStep ==
  ASSUME Context(Worker), TransferBegin
  PROVE  Inv'
<1>1. /\ UNCHANGED <<panel, lapsed, ledger, exists, website, faults>> /\ proc[Worker].step = "transfer"
      /\ proc[Worker].left = {}
  BY WorkerFacts DEF TransferBegin, history, At
<1>2. CASE /\ Mine /\ row.status = "running" /\ row.stage = "preflight_passed" /\ lock = "none"
           /\ SetRow("running", "transferring") /\ lock' = "active" /\ Goto(Worker, "receive")
  <2>1. /\ row' \in RowRecords /\ row'.status = "running" /\ row'.stage = "transferring"
        /\ row'.owner = row.owner /\ row'.lease = row.lease
    BY <1>2, WorkerFacts, SetRowEffect DEF Statuses, Stages
  <2>2. Exists /\ Exists' /\ OwnedKinds' = OwnedKinds BY <1>1, <1>2, <2>1 DEF Exists, OwnedKinds
  <2>3. DataTypes' BY <1>1, <1>2, <2>1, WorkerFacts DEF DataTypes
  <2>4. RowInv' BY <2>1, <2>2 DEF RowInv
  <2>5. WebsiteInv' BY <1>1, <1>2, <2>1, <2>2, WorkerFacts DEF WebsiteInv, ActivationAtomic, Recorded
  <2>6. CoverInv' BY <1>1, <1>2, <2>1, <2>2, WorkerFacts DEF CoverInv, LedgerCovers, AbandonedIsClean
  <2>7. DataInv' BY <2>3, <2>4, <2>5, <2>6 DEF DataInv
  <2>8. Turn(Worker) /\ proc'[Worker].left = {} /\ proc'[Worker].step = "receive"
    BY <1>1, <1>2, WorkerFacts, GotoEffect DEF Turn, Steps
  <2>9. WorkerInv'
    BY <1>2, <2>1, <2>8 DEF WorkerInv, AtResource, LateStages, Working, Mine
  <2>10. ~Ended BY <1>2 DEF Ended, Exists
  <2>11. QED BY <1>1, <2>7, <2>8, <2>9, <2>10, WorkerGoesOn DEF Working
<1>3. CASE /\ Mine /\ row.status = "running" /\ row.stage = "transferring"
           /\ UNCHANGED <<row, lock>> /\ Goto(Worker, "receive")
  <2>1. SameData BY <1>1, <1>3 DEF SameData
  <2>2. DataInv' /\ Ended' = Ended BY <2>1, WorkerFacts, DataSame, SameFacts
  <2>3. Turn(Worker) /\ proc'[Worker].left = {} /\ proc'[Worker].step = "receive"
    BY <1>1, <1>3, WorkerFacts, GotoEffect DEF Turn, Steps
  <2>4. WorkerInv'
    BY <1>1, <1>3, <2>3 DEF WorkerInv, AtResource, LateStages, Working, Mine
  <2>5. QED BY <1>1, <2>2, <2>3, <2>4, WorkerGoesOn DEF Working
<1>4. CASE UNCHANGED <<row, lock>> /\ Fails(Worker)
  <2>1. SameData BY <1>1, <1>4 DEF SameData
  <2>2. QED BY <1>4, <2>1, WorkerFacts, FailsEffect, PlainMove
<1>5. QED BY <1>2, <1>3, <1>4 DEF TransferBegin

\* A stage ends with an error that its row learns of.
LEMMA StageFails ==
  ASSUME Context(Worker), RowOnly, NEW st \in SUBSET FailableStages,
         SetStatusIn(st, "failed_retryable"), Fails(Worker)
  PROVE  Inv'
<1>1. DataInv' /\ Ended' = Ended BY WorkerFacts, SetStatusInEffect
<1>2. Turn(Worker) /\ proc'[Worker].left = {} /\ proc'[Worker].step \in Plain
  BY WorkerFacts, FailsEffect
<1>3. QED BY <1>1, <1>2, WorkerEnds DEF RowOnly

\* A stage ends with an outcome nobody knows.
LEMMA StageIsUnknown ==
  ASSUME Context(Worker), RowOnly, Unknown, Fails(Worker), proc[Worker].step \in Working,
         ~lapsed => row.stage \notin Early
  PROVE  Inv'
<1>1. row.stage \notin LateStages /\ (~lapsed => ~Ended) BY WorkerFacts, WorkingFacts
<1>2. row.stage \notin LiveStages BY <1>1 DEF LiveStages, LateStages
<1>3. /\ DataInv' /\ Exists' = Exists
      /\ Exists => row'.stage = "interrupted_unknown"
  BY <1>2, WorkerFacts, UnknownEffect
<1>4. Ended => Ended' BY <1>1, <1>3 DEF Ended, RowOnly
<1>5. Turn(Worker) /\ proc'[Worker].left = {} /\ proc'[Worker].step \in Plain
  BY WorkerFacts, FailsEffect
<1>6. QED BY <1>3, <1>4, <1>5, WorkerEnds DEF RowOnly

\* TransferFails preserves the invariant.
LEMMA TransferFailsStep ==
  ASSUME Context(Worker), TransferFails
  PROVE  Inv'
<1>1. RowOnly BY DEF TransferFails, RowOnly, history
<1>2. DataInv' /\ (Ended => Ended')
  <2>1. CASE row.owner = "me" /\ row.status = "running" /\ row.stage = "transferring"
    <3>1. row' = [row EXCEPT !.status = "failed_retryable"] /\ Exists
      BY <2>1 DEF TransferFails, Exists
    <3>2. QED BY <1>1, <2>1, <3>1, WorkerFacts, FailureRecorded DEF Ended, RowOnly
  <2>2. CASE ~(row.owner = "me" /\ row.status = "running" /\ row.stage = "transferring")
    <3>1. SameData BY <1>1, <2>2 DEF SameData, RowOnly, TransferFails
    <3>2. QED BY <3>1, WorkerFacts, DataSame, SameFacts
  <2>3. QED BY <2>1, <2>2
<1>3. Turn(Worker) /\ proc'[Worker].left = {} /\ proc'[Worker].step \in Plain
  BY WorkerFacts, FailsEffect DEF TransferFails
<1>4. QED BY <1>1, <1>2, <1>3, WorkerEnds DEF RowOnly

\* PrepareFiles preserves the invariant: the staging directory comes before its ledger entry.
LEMMA PrepareFilesStep ==
  ASSUME Context(Worker), PrepareFiles
  PROVE  Inv'
<1>1. /\ UNCHANGED <<row, lock, ledger, website, panel, faults, lapsed>> /\ proc[Worker].step = "receive"
      /\ proc[Worker].left = {} /\ exists' = exists \cup {"staging"}
      /\ Exists /\ lock = "active" /\ row.stage = "transferring"
  BY WorkerFacts DEF PrepareFiles, history, dbVars, At, Authorized
<1>2. Exists' = Exists /\ OwnedKinds' = OwnedKinds BY <1>1 DEF Exists, OwnedKinds
<1>3. DataTypes' BY <1>1, WorkerFacts DEF DataTypes, Kinds
<1>4. RowInv' BY <1>1, <1>2, WorkerFacts DEF RowInv
<1>5. WebsiteInv' BY <1>1, <1>2, WorkerFacts DEF WebsiteInv, ActivationAtomic, Recorded
<1>6. "record" \notin exists' BY <1>1, WorkerFacts DEF CoverInv
<1>7. LedgerCovers' BY <1>1, <1>2, WorkerFacts DEF CoverInv, LedgerCovers, RuntimeKinds
<1>8. row.status # "abandoned" BY <1>1, WorkerFacts DEF RowInv
<1>9. CoverInv' BY <1>1, <1>2, <1>6, <1>7, <1>8 DEF CoverInv, AbandonedIsClean
<1>10. DataInv' BY <1>3, <1>4, <1>5, <1>9 DEF DataInv
<1>11. Turn(Worker) /\ proc'[Worker].left = {} /\ proc'[Worker].step = "staged"
  BY <1>1, WorkerFacts, GotoEffect DEF Turn, Steps, PrepareFiles
<1>12. WorkerInv'
  BY <1>1, <1>11, WorkerFacts DEF WorkerInv, AtResource, LateStages, Working, Mine
<1>13. Ended' = Ended /\ ~Ended BY <1>1 DEF Ended, Exists
<1>14. QED BY <1>1, <1>10, <1>11, <1>12, <1>13, WorkerGoesOn DEF Working

\* Finalize preserves the invariant: from here on the ledger owns the staging directory.
LEMMA FinalizeStep ==
  ASSUME Context(Worker), Finalize
  PROVE  Inv'
<1>1. /\ UNCHANGED <<lock, exists, website, panel, faults, lapsed>> /\ proc[Worker].step = "staged"
      /\ proc[Worker].left = {} /\ Exists /\ lock = "active" /\ row.stage = "transferring"
  BY WorkerFacts DEF Finalize, history, At, Authorized
<1>2. /\ ledger' \in [Kinds -> LedgerStatuses] /\ \A j \in Kinds \ {"staging"} : ledger'[j] = ledger[j]
      /\ OwnedKinds' = OwnedKinds \cup {"staging"}
  BY WorkerFacts, MarkEffect DEF Finalize, Mark, Kinds, LedgerStatuses, Owned
<1>3. /\ row' \in RowRecords /\ row'.status = row.status /\ row'.stage = "preparing_target"
      /\ row'.owner = row.owner /\ row'.lease = row.lease
  BY WorkerFacts, SetRowEffect DEF Stages, Finalize
<1>4. Exists' BY <1>1, <1>3 DEF Exists
<1>5. DataTypes' BY <1>1, <1>2, <1>3, WorkerFacts DEF DataTypes
<1>6. row.status \notin {"awaiting_cutover", "completed", "cancelling", "cleanup_failed", "abandoned"}
  BY <1>1, WorkerFacts DEF RowInv
<1>6a. row.status # "draft" BY <1>1, WorkerFacts DEF RowInv
<1>7. RowInv' BY <1>3, <1>4, <1>6, <1>6a DEF RowInv
<1>8. ledger'["record"] = ledger["record"] /\ Recorded' = Recorded
  BY <1>2 DEF Recorded, Kinds
<1>9. WebsiteInv' BY <1>1, <1>3, <1>4, <1>8, WorkerFacts DEF WebsiteInv, ActivationAtomic
<1>10. ~lapsed => exists \subseteq OwnedKinds \cup {"staging"}
  BY <1>1, WorkerFacts DEF CoverInv, LedgerCovers, RuntimeKinds, Kinds, DataTypes
<1>11. CoverInv'
  BY <1>1, <1>2, <1>3, <1>4, <1>6, <1>10, WorkerFacts DEF CoverInv, LedgerCovers, AbandonedIsClean
<1>12. DataInv' BY <1>5, <1>7, <1>9, <1>11 DEF DataInv
<1>13. Turn(Worker) /\ proc'[Worker].left = {} /\ proc'[Worker].step = "loop"
  BY <1>1, WorkerFacts, GotoEffect DEF Turn, Steps, Finalize
<1>14. ~Ended BY <1>1 DEF Ended
<1>15. QED BY <1>1, <1>12, <1>13, <1>14, WorkerEnds DEF Plain

-----------------------------------------------------------------------------
\* The stages and their resources.

\* A stage is begun, or begun again.
LEMMA StageTaken ==
  ASSUME DataInv, RowOnly, NEW g \in {"publishing", "configuring_target"}, SetRow("running", g),
         row.stage \in {"preparing_target", "publishing", "configuring_target"}
  PROVE  /\ DataInv' /\ ~Ended /\ row'.stage = g /\ row'.status = "running"
         /\ row'.owner = row.owner /\ row'.lease = row.lease
<1>1. row \in RowRecords /\ "running" \in Statuses /\ g \in Stages
  BY DEF DataInv, DataTypes, Statuses, Stages
<1>2. /\ row' \in RowRecords /\ row'.stage = g /\ row'.status = "running"
      /\ row'.owner = row.owner /\ row'.lease = row.lease
  BY <1>1, SetRowEffect
<1>3. Exists /\ Exists' BY <1>2 DEF DataInv, RowInv, Exists, NoTask
<1>4. RowInv' BY <1>2, <1>3 DEF RowInv
<1>5. DataInv' BY <1>2, <1>3, <1>4, RowMoves DEF LiveStages, Early, DataInv, DataTypes
<1>6. ~Ended BY <1>3 DEF Ended
<1>7. QED BY <1>2, <1>5, <1>6

\* The scope of a stage is loaded: the worker goes for its first resource.
LEMMA StageBegins ==
  ASSUME Context(Worker), RowOnly, NEW g \in {"publishing", "configuring_target"}, SetRow("running", g),
         row.stage \in {"preparing_target", "publishing", "configuring_target"},
         proc[Worker].step \in Working, lock = "active",
         NEW k \in Created \cup Published, StageOf[k] = g, Begin(Worker, "intent", k)
  PROVE  Inv'
<1>1. /\ DataInv' /\ ~Ended /\ row'.stage = g /\ row'.status = "running"
      /\ row'.owner = row.owner /\ row'.lease = row.lease
  BY WorkerFacts, StageTaken
<1>2. k \in Operations \cup Kinds \cup {"none"} /\ "intent" \in Steps BY DEF Created, Published, Kinds, Steps
<1>3. Turn(Worker) /\ proc'[Worker].left = {} /\ proc'[Worker].step = "intent" /\ proc'[Worker].op = k
  BY <1>2, WorkerFacts, BeginEffect DEF Turn
<1>4. ~lapsed => row.owner = "me" /\ row.lease = "live" BY WorkerFacts, WorkingFacts DEF Mine
<1>5. WorkerInv' BY <1>1, <1>3, <1>4 DEF WorkerInv, AtResource, LateStages, RowOnly
<1>6. QED BY <1>1, <1>3, <1>5, WorkerGoesOn DEF Working, RowOnly

\* A stage begun again fails before its first resource.
LEMMA BeginStageFails ==
  ASSUME Context(Worker), RowOnly, NEW g \in {"publishing", "configuring_target"}, SetRow("running", g),
         row.stage \in {"preparing_target", "publishing", "configuring_target"}, Fails(Worker)
  PROVE  Inv'
<1>1. DataInv' /\ ~Ended BY WorkerFacts, StageTaken
<1>2. Turn(Worker) /\ proc'[Worker].left = {} /\ proc'[Worker].step \in Plain
  BY WorkerFacts, FailsEffect
<1>3. QED BY <1>1, <1>2, WorkerEnds DEF RowOnly

\* BeginCreation, PublishBegin and ConfigureBegin preserve the invariant.
LEMMA BeginStep ==
  ASSUME Context(Worker), BeginCreation \/ PublishBegin \/ ConfigureBegin
  PROVE  Inv'
<1>1. RowOnly BY DEF BeginCreation, PublishBegin, ConfigureBegin, RowOnly, history
<1>2. CASE BeginCreation
  BY <1>1, <1>2, StageBegins DEF BeginCreation, At, Working, Created, StageOf
<1>3. CASE PublishBegin
  <2>1. SetRow("running", "publishing") /\ row.stage = "publishing" /\ proc[Worker].step \in Working
    BY <1>3 DEF PublishBegin, Resumable, At, Working
  <2>2. (lock = "active" /\ Begin(Worker, "intent", "data")) \/ Fails(Worker)
    BY <1>3 DEF PublishBegin
  <2>3. "data" \in Created \cup Published /\ StageOf["data"] = "publishing" BY DEF Published, StageOf
  <2>4. QED BY <1>1, <2>1, <2>2, <2>3, StageBegins, BeginStageFails
<1>4. CASE ConfigureBegin
  <2>1. SetRow("running", "configuring_target") /\ row.stage = "configuring_target" /\ proc[Worker].step \in Working
    BY <1>4 DEF ConfigureBegin, Resumable, At, Working
  <2>2. (lock = "active" /\ Begin(Worker, "intent", "config")) \/ Fails(Worker)
    BY <1>4 DEF ConfigureBegin
  <2>3. "config" \in Created \cup Published /\ StageOf["config"] = "configuring_target" BY DEF Published, StageOf
  <2>4. QED BY <1>1, <2>1, <2>2, <2>3, StageBegins, BeginStageFails
<1>5. QED BY <1>2, <1>3, <1>4

-----------------------------------------------------------------------------
\* A resource.

\* What the worker knows at a resource.
LEMMA ResourceFacts ==
  ASSUME Context(Worker), AtResource
  PROVE  /\ proc[Worker].step \in Working /\ proc[Worker].op \in Created \cup Published
         /\ proc[Worker].op \in Kinds \ {"record", "staging"} /\ proc[Worker].op \in Kinds /\ proc[Worker].left = {}
         /\ row.stage \notin LateStages
         /\ ~lapsed => /\ Exists /\ ~Ended /\ lock = "active" /\ row.stage = StageOf[proc[Worker].op]
                       /\ row.stage \in {"publishing", "configuring_target"} /\ row.status = "running"
<1>1. proc[Worker].step \in Working /\ proc[Worker].op \in Created \cup Published
  BY WorkerFacts DEF WorkerInv, AtResource, Working
<1>2. proc[Worker].op \in Kinds \ {"record", "staging"} /\ proc[Worker].op \in Kinds
  BY <1>1 DEF Created, Published, Kinds
<1>3. ~lapsed => lock = "active" /\ row.stage = StageOf[proc[Worker].op]
  BY <1>1, WorkerFacts DEF WorkerInv
<1>4. ~lapsed => row.stage \in {"publishing", "configuring_target"}
  BY <1>1, <1>3 DEF StageOf, Created, Published
<1>5. QED BY <1>1, <1>2, <1>3, <1>4, WorkerFacts, WorkingFacts DEF AtResource

\* What follows a resource that is in place.
LEMMA ProceedStep ==
  ASSUME Context(Worker), AtResource, UNCHANGED <<row, lock, panel, lapsed, exists>>, DataInv',
         Proceed(proc[Worker].op)
  PROVE  Inv'
<1> DEFINE k == proc[Worker].op
<1>1. k \in {"user", "database", "data", "config"} BY ResourceFacts DEF Created, Published
<1>2. ~lapsed => /\ row.owner = "me" /\ row.lease = "live" /\ row.status = "running"
                 /\ lock = "active" /\ row.stage = StageOf[k]
  BY ResourceFacts, WorkerFacts DEF WorkerInv
<1>3. row.stage \notin LateStages /\ Ended' = Ended
  BY ResourceFacts DEF Ended, Exists
<1> HIDE DEF k
<1>4. CASE k = "user"
  <2>1. Begin(Worker, "intent", "database") BY <1>4 DEF Proceed, k
  <2>2. Turn(Worker) /\ proc'[Worker].left = {} /\ proc'[Worker].step = "intent" /\ proc'[Worker].op = "database"
    BY <2>1, WorkerFacts, BeginEffect DEF Turn, Steps, Kinds
  <2>3. WorkerInv'
    BY <1>2, <1>3, <1>4, <2>2 DEF WorkerInv, AtResource, StageOf, Created, Working
  <2>4. QED BY <1>3, <2>2, <2>3, WorkerGoesOn DEF Working
<1>5. CASE k = "database"
  <2>1. Stop(Worker, "loop") /\ "loop" \in Steps BY <1>5 DEF Proceed, k, Steps
  <2>2. Turn(Worker) /\ proc'[Worker].left = {} /\ proc'[Worker].step = "loop"
    BY <2>1, WorkerFacts, StopEffect DEF Turn
  <2>3. QED BY <1>3, <2>2, WorkerEnds DEF Plain
<1>6. CASE k \in {"data", "config"}
  <2>1. PICK s \in {"published", "record"} : Stop(Worker, s) /\ (s = IF k = "data" THEN "published" ELSE "record")
    BY <1>6 DEF Proceed, k
  <2>2. Turn(Worker) /\ proc'[Worker].left = {} /\ proc'[Worker].step = s
    BY <2>1, WorkerFacts, StopEffect DEF Turn, Steps
  <2>3. WorkerInv'
    BY <1>2, <1>3, <1>6, <2>1, <2>2 DEF WorkerInv, AtResource, StageOf, Working
  <2>4. QED BY <1>3, <2>2, <2>3, WorkerGoesOn DEF Working
<1>7. QED BY <1>1, <1>4, <1>5, <1>6

\* A resource enters the ledger, or goes through it.
LEMMA LedgerMoves ==
  ASSUME DataInv, UNCHANGED <<row, lock, exists, website, panel, faults, lapsed>>, Exists,
         ledger' \in [Kinds -> LedgerStatuses], ledger'["record"] = ledger["record"],
         ~lapsed => OwnedKinds \subseteq OwnedKinds' /\ lock = "active" /\ row.status # "abandoned"
  PROVE  DataInv'
<1>1. Exists' /\ Recorded' = Recorded BY DEF Exists, Recorded, OwnedKinds, Kinds
<1>2. DataTypes' BY DEF DataInv, DataTypes
<1>3. RowInv' BY <1>1 DEF DataInv, RowInv
<1>4. WebsiteInv' BY <1>1 DEF DataInv, WebsiteInv, ActivationAtomic
<1>5. CoverInv' BY <1>1 DEF DataInv, CoverInv, LedgerCovers, AbandonedIsClean
<1>6. QED BY <1>2, <1>3, <1>4, <1>5 DEF DataInv

\* A mark of the worker.
LEMMA WorkerMarks ==
  ASSUME Context(Worker), AtResource, UNCHANGED <<row, lock, exists, website, panel, faults, lapsed>>, Exists,
         NEW s \in Owned, Mark(proc[Worker].op, s)
  PROVE  DataInv' /\ proc[Worker].op \in OwnedKinds'
<1>1. s \in LedgerStatuses BY DEF Owned, LedgerStatuses
<1>2. /\ ledger' \in [Kinds -> LedgerStatuses] /\ OwnedKinds' = OwnedKinds \cup {proc[Worker].op}
      /\ \A j \in Kinds \ {proc[Worker].op} : ledger'[j] = ledger[j]
  BY <1>1, WorkerFacts, ResourceFacts, MarkEffect DEF Mark
<1>3. "record" \in Kinds /\ ledger'["record"] = ledger["record"]
  BY <1>2, ResourceFacts DEF Kinds
<1>4. DataInv' BY <1>2, <1>3, WorkerFacts, ResourceFacts, LedgerMoves
<1>5. QED BY <1>2, <1>4

\* The worker may make a resource: the ledger owns it already.
LEMMA AtMake ==
  ASSUME Context(Worker), AtResource, UNCHANGED <<row, lock, lapsed>>,
         Goto(Worker, "make") \/ Goto(Worker, "mark"), ~lapsed => proc[Worker].op \in OwnedKinds'
  PROVE  Turn(Worker) /\ proc'[Worker].left = {} /\ proc'[Worker].step \in Working /\ WorkerInv'
<1>1. PICK s \in {"make", "mark"} : Goto(Worker, s) OBVIOUS
<1>2. /\ Turn(Worker) /\ proc'[Worker].left = {} /\ proc'[Worker].step = s
      /\ proc'[Worker].op = proc[Worker].op
  BY <1>1, WorkerFacts, ResourceFacts, GotoEffect DEF Turn, Steps
<1>3. WorkerInv'
  BY <1>2, WorkerFacts, ResourceFacts DEF WorkerInv, AtResource, Working
<1>4. QED BY <1>2, <1>3 DEF Working

\* RecordIntent preserves the invariant: the ledger comes before the resource.
LEMMA RecordIntentStep ==
  ASSUME Context(Worker), RecordIntent
  PROVE  Inv'
<1> DEFINE k == proc[Worker].op
<1>1. AtResource /\ UNCHANGED <<lock, exists, website, panel, faults, lapsed>>
  BY DEF RecordIntent, history, At, AtResource
<1> USE <1>1
<1>2. CASE /\ (Exists /\ ledger[k] = "none") \/ (k \in Created /\ ledger[k] = "removed")
           /\ Mark(k, "created") /\ Goto(Worker, "make") /\ UNCHANGED row
  <2>1. Exists BY <1>2, WorkerFacts, ResourceFacts DEF RowInv
  <2>2. DataInv' /\ k \in OwnedKinds' BY <1>2, <2>1, WorkerMarks DEF Owned
  <2>3. Turn(Worker) /\ proc'[Worker].left = {} /\ proc'[Worker].step \in Working /\ WorkerInv'
    BY <1>2, <2>2, AtMake
  <2>4. Ended' = Ended BY <1>2 DEF Ended, Exists
  <2>5. QED BY <2>2, <2>3, <2>4, WorkerGoesOn
<1>3. CASE k \in Published /\ ledger[k] = "created" /\ Goto(Worker, "make") /\ UNCHANGED <<row, ledger>>
  <2>1. SameData BY <1>3 DEF SameData
  <2>2. k \in OwnedKinds' BY <1>3, <2>1, ResourceFacts, SameFacts DEF OwnedKinds, Owned
  <2>3. Turn(Worker) /\ proc'[Worker].left = {} /\ proc'[Worker].step \in Working /\ WorkerInv'
    BY <1>3, <2>2, AtMake
  <2>4. QED BY <2>1, <2>3, WorkerFacts, DataSame, SameFacts, WorkerGoesOn
<1>4. CASE ledger[k] = "published" /\ Proceed(k) /\ UNCHANGED <<row, ledger>>
  <2>1. SameData BY <1>4 DEF SameData
  <2>2. QED BY <1>4, <2>1, WorkerFacts, DataSame, ProceedStep
<1>5. CASE Unknown /\ Fails(Worker) /\ UNCHANGED ledger
  <2>1. ~lapsed => row.stage \notin Early BY ResourceFacts DEF Early
  <2>2. QED BY <1>5, <2>1, ResourceFacts, StageIsUnknown DEF RowOnly
<1>6. CASE Fails(Worker) /\ UNCHANGED <<row, ledger>>
  <2>1. SameData BY <1>6 DEF SameData
  <2>2. QED BY <1>6, <2>1, WorkerFacts, FailsEffect, PlainMove
<1>7. QED BY <1>2, <1>3, <1>4, <1>5, <1>6 DEF RecordIntent

-----------------------------------------------------------------------------
\* The resources, the website record and the health check.

\* A resource the ledger owns comes or goes.
LEMMA ResourceMoves ==
  ASSUME DataInv, UNCHANGED <<lock, website, panel, faults, lapsed>>, NEW k \in Kinds \ {"record", "staging"},
         row' \in RowRecords, (row'.owner = "none") = (row'.lease = "null"), RowInv', Exists' = Exists,
         row'.stage \in LiveStages <=> row.stage \in LiveStages,
         row'.status = "abandoned" => row.status = "abandoned",
         ledger' \in [Kinds -> LedgerStatuses], \A j \in Kinds \ {k} : ledger'[j] = ledger[j],
         exists' \subseteq exists \cup {k},
         ~lapsed => /\ Exists /\ row.stage \notin Early /\ lock = "active" /\ row.status # "abandoned"
                    /\ k \in exists' => ledger'[k] \in Owned
  PROVE  DataInv'
<1>1. "record" \in Kinds \ {k} /\ ledger'["record"] = ledger["record"] /\ Recorded' = Recorded
  BY DEF Recorded, OwnedKinds, Kinds
<1>2. DataTypes' BY DEF DataInv, DataTypes
<1>3. WebsiteInv' BY <1>1 DEF DataInv, WebsiteInv, ActivationAtomic, LiveStages
<1>4. "record" \notin exists' BY DEF DataInv, CoverInv
<1>5. ~lapsed => exists \subseteq OwnedKinds BY DEF DataInv, CoverInv, Early
<1>6. ~lapsed => exists' \subseteq OwnedKinds'
  <2>1. SUFFICES ASSUME ~lapsed, NEW j \in exists' PROVE j \in OwnedKinds' OBVIOUS
  <2>2. CASE j = k BY <2>1, <2>2 DEF OwnedKinds
  <2>3. CASE j # k
    <3>1. j \in OwnedKinds BY <1>5, <2>1, <2>3
    <3>2. QED BY <2>3, <3>1 DEF OwnedKinds
  <2>4. QED BY <2>2, <2>3
<1>7. CoverInv'
  BY <1>4, <1>6 DEF CoverInv, LedgerCovers, AbandonedIsClean
<1>8. QED BY <1>2, <1>3, <1>7 DEF DataInv

\* What SetStatusIn does to the row alone.
LEMMA SetStatusInRow ==
  ASSUME DataInv, lock' = lock, ledger' = ledger \/ Exists, NEW st \in SUBSET FailableStages,
         SetStatusIn(st, "failed_retryable")
  PROVE  /\ row' \in RowRecords /\ (row'.owner = "none") = (row'.lease = "null") /\ RowInv' /\ Exists' = Exists
         /\ row'.stage = row.stage /\ (row'.status = "abandoned" => row.status = "abandoned")
<1>1. row \in RowRecords /\ (row.owner = "none") = (row.lease = "null") /\ RowInv
  BY DEF DataInv, DataTypes
<1>2. CASE Exists /\ row.stage \in st
  <2>1. row' = [row EXCEPT !.status = "failed_retryable"] BY <1>2 DEF SetStatusIn
  <2>2. row.stage \notin {"completed", "cancelling", "abandoned", "interrupted_unknown"}
    BY <1>2 DEF FailableStages
  <2>3. /\ row' \in RowRecords /\ row'.status = "failed_retryable" /\ row'.stage = row.stage
        /\ row'.owner = row.owner /\ row'.lease = row.lease
    BY <1>1, <2>1, SetStatusEffect DEF Statuses
  <2>4. Exists' /\ Exists BY <1>2, <2>3 DEF Exists
  <2>5. RowInv' BY <1>1, <2>2, <2>3, <2>4 DEF RowInv
  <2>6. QED BY <1>1, <2>3, <2>4, <2>5
<1>3. CASE ~(Exists /\ row.stage \in st)
  <2>1. row' = row BY <1>3 DEF SetStatusIn
  <2>2. Exists' = Exists BY <2>1 DEF Exists
  <2>3. RowInv' BY <1>1, <2>1, <2>2 DEF RowInv
  <2>4. QED BY <1>1, <2>1, <2>2, <2>3
<1>4. QED BY <1>2, <1>3

\* What Unknown does to the row alone.
LEMMA UnknownRow ==
  ASSUME DataInv, UNCHANGED <<lock, ledger>>, Unknown
  PROVE  /\ row' \in RowRecords /\ (row'.owner = "none") = (row'.lease = "null") /\ RowInv' /\ Exists' = Exists
         /\ Exists => row'.stage = "interrupted_unknown" /\ row'.status = "interrupted_unknown"
         /\ ~Exists => row' = row
<1>1. row \in RowRecords /\ (row.owner = "none") = (row.lease = "null") /\ RowInv
  BY DEF DataInv, DataTypes
<1>2. CASE Exists
  <2>1. SetRow("interrupted_unknown", "interrupted_unknown") BY <1>2 DEF Unknown, SetRow
  <2>2. /\ row' \in RowRecords /\ row'.status = "interrupted_unknown" /\ row'.stage = "interrupted_unknown"
        /\ row'.owner = row.owner /\ row'.lease = row.lease
    BY <1>1, <2>1, SetRowEffect DEF Statuses, Stages
  <2>3. Exists' BY <2>2 DEF Exists
  <2>4. RowInv' BY <2>2, <2>3 DEF RowInv
  <2>5. QED BY <1>1, <1>2, <2>2, <2>3, <2>4
<1>3. CASE ~Exists
  <2>1. row' = row BY <1>3 DEF Unknown
  <2>2. Exists' = Exists BY <2>1 DEF Exists
  <2>3. RowInv' BY <1>1, <2>1, <2>2 DEF RowInv
  <2>4. QED BY <1>1, <1>3, <2>1, <2>2, <2>3
<1>4. QED BY <1>2, <1>3

\* Make preserves the invariant.
LEMMA MakeStep ==
  ASSUME Context(Worker), Make
  PROVE  Inv'
<1> DEFINE k == proc[Worker].op
<1>1. /\ AtResource /\ UNCHANGED <<row, lock, ledger, website, panel, faults, lapsed>>
      /\ exists' = exists \cup {k}
  BY DEF Make, dbVars, history, At, AtResource
<1>2. k \in Kinds \ {"record", "staging"} /\ (~lapsed => k \in OwnedKinds)
  BY <1>1, WorkerFacts, ResourceFacts DEF WorkerInv, Working, Make, At
<1>3. Exists' = Exists /\ OwnedKinds' = OwnedKinds /\ RowInv' /\ Ended' = Ended
  BY <1>1, WorkerFacts DEF Exists, OwnedKinds, RowInv, Ended
<1>4. DataInv'
  <2>1. ~lapsed => Exists /\ row.stage \notin Early /\ lock = "active" /\ row.status # "abandoned" /\ ledger'[k] \in Owned
    BY <1>1, <1>2, ResourceFacts DEF Early, OwnedKinds
  <2>2. QED BY <1>1, <1>2, <1>3, <2>1, WorkerFacts, ResourceMoves
<1>5. Turn(Worker) /\ proc'[Worker].left = {} /\ proc'[Worker].step \in Working /\ WorkerInv'
  BY <1>1, <1>2, <1>3, AtMake DEF Make
<1>6. ~lapsed => ~Ended BY <1>1, ResourceFacts
<1>7. QED BY <1>1, <1>3, <1>4, <1>5, <1>6, WorkerGoesOn

\* MakeFails preserves the invariant: what it leaves is still in the ledger.
LEMMA MakeFailsStep ==
  ASSUME Context(Worker), MakeFails
  PROVE  Inv'
<1> DEFINE k == proc[Worker].op
<1>1. /\ AtResource /\ UNCHANGED <<lock, website, panel, faults, lapsed>> /\ Fails(Worker)
  BY DEF MakeFails, history, At, AtResource
<1>2. /\ k \in Kinds \ {"record", "staging"} /\ k \in Created \cup Published /\ (~lapsed => k \in OwnedKinds)
      /\ ledger[k] \in LedgerStatuses /\ row.stage \notin LateStages
  BY <1>1, WorkerFacts, ResourceFacts DEF WorkerInv, Working, MakeFails, At
<1>3. ~lapsed => /\ Exists /\ ~Ended /\ row.stage \notin Early /\ lock = "active" /\ row.status # "abandoned"
                 /\ ledger[k] \in Owned
  BY <1>1, <1>2, ResourceFacts DEF Early, OwnedKinds
<1>4. StageOf[k] \in FailableStages /\ "publishing" \in FailableStages
  BY <1>2 DEF StageOf, Created, Published, FailableStages
<1> HIDE DEF k
<1>5. CASE /\ exists' \subseteq exists \cup {k}
           /\ \E st \in SUBSET FailableStages : SetStatusIn(st, "failed_retryable")
           /\ \/ ledger' = ledger
              \/ Exists /\ \E s \in {"published", "removed"} : Mark(k, s) /\ (s = "removed" => k \notin exists')
  <2>1. PICK st \in SUBSET FailableStages : SetStatusIn(st, "failed_retryable") BY <1>5
  <2>2. /\ row' \in RowRecords /\ (row'.owner = "none") = (row'.lease = "null") /\ RowInv' /\ Exists' = Exists
        /\ row'.stage = row.stage /\ (row'.status = "abandoned" => row.status = "abandoned")
    BY <1>1, <1>5, <2>1, WorkerFacts, SetStatusInRow
  <2>3. /\ ledger' \in [Kinds -> LedgerStatuses] /\ \A j \in Kinds \ {k} : ledger'[j] = ledger[j]
        /\ ~lapsed /\ k \in exists' => ledger'[k] \in Owned
    <3>1. CASE ledger' = ledger BY <1>3, <3>1, WorkerFacts
    <3>2. CASE \E s \in {"published", "removed"} : Mark(k, s) /\ (s = "removed" => k \notin exists')
      <4>1. PICK s \in {"published", "removed"} : Mark(k, s) /\ (s = "removed" => k \notin exists') BY <3>2
      <4>2. s \in LedgerStatuses /\ (s = "published" => s \in Owned) BY DEF LedgerStatuses, Owned
      <4>3. QED BY <1>2, <4>1, <4>2, WorkerFacts, MarkEffect DEF Mark
    <3>3. QED BY <1>5, <3>1, <3>2
  <2>4. DataInv' BY <1>1, <1>2, <1>3, <1>5, <2>2, <2>3, WorkerFacts, ResourceMoves
  <2>5. Ended' = Ended BY <1>1, <2>2 DEF Ended
  <2>6. Turn(Worker) /\ proc'[Worker].left = {} /\ proc'[Worker].step \in Plain
    BY <1>1, WorkerFacts, FailsEffect
  <2>7. QED BY <1>1, <1>3, <2>4, <2>5, <2>6, WorkerEnds
<1>6. CASE exists' \in {exists, exists \cup {k}} /\ Unknown /\ UNCHANGED ledger
  <2>1. /\ row' \in RowRecords /\ (row'.owner = "none") = (row'.lease = "null") /\ RowInv' /\ Exists' = Exists
        /\ Exists => row'.stage = "interrupted_unknown" /\ row'.status = "interrupted_unknown"
        /\ ~Exists => row' = row
    BY <1>1, <1>6, WorkerFacts, UnknownRow
  <2>2. row'.stage \in LiveStages <=> row.stage \in LiveStages
    BY <1>2, <2>1 DEF LiveStages, LateStages
  <2>3. row'.status = "abandoned" => row.status = "abandoned" BY <2>1
  <2>4. DataInv'
    BY <1>1, <1>2, <1>3, <1>6, <2>1, <2>2, <2>3, WorkerFacts, ResourceMoves
  <2>5. Ended => Ended' BY <1>1, <1>3, <2>1, WorkerFacts DEF Ended, DataTypes
  <2>6. Turn(Worker) /\ proc'[Worker].left = {} /\ proc'[Worker].step \in Plain
    BY <1>1, WorkerFacts, FailsEffect
  <2>7. QED BY <1>1, <1>3, <2>4, <2>5, <2>6, WorkerEnds
<1>7. k \in Created /\ ledger[k] = "created" => Exists
  BY <1>2, WorkerFacts DEF RowInv
<1>8. QED
  <2>1. CASE k \in Published /\ exists' \in {exists, exists \cup {k}} /\ SetStatusIn({StageOf[k]}, "failed_retryable") /\ ledger' = ledger
    BY <1>4, <1>5, <2>1
  <2>2. CASE /\ k \in Created /\ ledger[k] = "created" /\ SetStatusIn({"publishing"}, "failed_retryable")
             /\ \/ exists' = exists \ {k} /\ Mark(k, "removed")
                \/ exists' = exists \cup {k} /\ Mark(k, "published")
    BY <1>4, <1>5, <1>7, <2>2
  <2>3. CASE exists' = exists \ {k} /\ SetStatusIn({"publishing"}, "failed_retryable") /\ ledger' = ledger
    BY <1>4, <1>5, <2>3
  <2>4. QED BY <1>6, <2>1, <2>2, <2>3 DEF MakeFails, k

\* MarkPublished preserves the invariant.
LEMMA MarkPublishedStep ==
  ASSUME Context(Worker), MarkPublished
  PROVE  Inv'
<1> DEFINE k == proc[Worker].op
<1>1. AtResource /\ UNCHANGED <<lock, exists, website, panel, faults, lapsed>>
  BY DEF MarkPublished, history, At, AtResource
<1>2. CASE ledger[k] = "created" /\ Mark(k, "published") /\ Proceed(k) /\ UNCHANGED row
  <2>1. Exists BY <1>1, <1>2, WorkerFacts, ResourceFacts DEF RowInv
  <2>2. DataInv' BY <1>1, <1>2, <2>1, WorkerMarks DEF Owned
  <2>3. QED BY <1>1, <1>2, <2>2, ProceedStep
<1>3. CASE Unknown /\ Fails(Worker) /\ UNCHANGED ledger
  <2>1. ~lapsed => row.stage \notin Early BY <1>1, ResourceFacts DEF Early
  <2>2. QED BY <1>1, <1>3, <2>1, ResourceFacts, StageIsUnknown DEF RowOnly
<1>4. QED BY <1>2, <1>3 DEF MarkPublished

\* PublishCommit preserves the invariant.
LEMMA PublishCommitStep ==
  ASSUME Context(Worker), PublishCommit
  PROVE  Inv'
<1>1. RowOnly /\ proc[Worker].step = "published" /\ proc[Worker].left = {}
  BY WorkerFacts DEF PublishCommit, RowOnly, history, At
<1>2. CASE row.stage = "publishing" /\ SetRow("running", "configuring_target") /\ Goto(Worker, "loop")
  <2>1. DataInv' /\ ~Ended BY <1>1, <1>2, WorkerFacts, StageTaken
  <2>2. Turn(Worker) /\ proc'[Worker].left = {} /\ proc'[Worker].step = "loop"
    BY <1>1, <1>2, WorkerFacts, GotoEffect DEF Turn, Steps
  <2>3. QED BY <1>1, <2>1, <2>2, WorkerEnds DEF RowOnly, Plain
<1>3. CASE Unknown /\ Fails(Worker)
  <2>1. ~lapsed => row.stage \notin Early BY <1>1, WorkerFacts DEF WorkerInv, Working, Early
  <2>2. QED BY <1>1, <1>3, <2>1, StageIsUnknown DEF Working
<1>4. QED BY <1>2, <1>3 DEF PublishCommit

\* InsertWebsite preserves the invariant: website and ledger in one transaction.
LEMMA InsertWebsiteStep ==
  ASSUME Context(Worker), InsertWebsite
  PROVE  Inv'
<1>1. /\ UNCHANGED <<lock, exists, panel, faults, lapsed>> /\ proc[Worker].step = "record"
      /\ proc[Worker].left = {} /\ proc[Worker].step \in Working
  BY WorkerFacts DEF InsertWebsite, history, At, Working
<1>2. row.stage \notin LateStages /\ (~lapsed => ~Ended /\ Mine /\ row.status = "running"
                                      /\ row.stage = "configuring_target" /\ lock = "active")
  BY <1>1, WorkerFacts, WorkingFacts DEF WorkerInv
<1>3. ASSUME Goto(Worker, "health"), row' = row
      PROVE  Turn(Worker) /\ proc'[Worker].left = {} /\ proc'[Worker].step = "health" /\ WorkerInv'
  <2>1. Turn(Worker) /\ proc'[Worker].left = {} /\ proc'[Worker].step = "health"
    BY <1>1, <1>3, WorkerFacts, GotoEffect DEF Turn, Steps
  <2>2. WorkerInv' BY <1>1, <1>2, <1>3, <2>1 DEF WorkerInv, AtResource, Mine
  <2>3. QED BY <2>1, <2>2
<1>4. CASE Goto(Worker, "health") /\ UNCHANGED <<row, ledger, website>>
  <2>1. SameData BY <1>1, <1>4 DEF SameData
  <2>2. QED BY <1>1, <1>3, <1>4, <2>1, WorkerFacts, DataSame, SameFacts, WorkerGoesOn DEF Working
<1>5. CASE /\ Exists /\ ledger["record"] = "none" /\ lock = "active" /\ website = "none"
           /\ website' = "quiet" /\ Mark("record", "published") /\ Goto(Worker, "health") /\ UNCHANGED row
  <2>1. /\ ledger' \in [Kinds -> LedgerStatuses] /\ OwnedKinds' = OwnedKinds \cup {"record"}
        /\ ledger'["record"] = "published"
    BY <1>5, WorkerFacts, MarkEffect DEF Mark, Kinds, LedgerStatuses, Owned
  <2>2. Exists' /\ Ended' = Ended BY <1>1, <1>5 DEF Exists, Ended
  <2>3. DataTypes' BY <1>1, <1>5, <2>1, WorkerFacts DEF DataTypes
  <2>4. RowInv' BY <1>1, <1>5, <2>2, WorkerFacts DEF RowInv
  <2>5. WebsiteInv'
    BY <1>1, <1>2, <1>5, <2>1, <2>2 DEF WebsiteInv, ActivationAtomic, Recorded, LateStages
  <2>6. CoverInv'
    BY <1>1, <1>2, <1>5, <2>1, <2>2, WorkerFacts DEF CoverInv, LedgerCovers, AbandonedIsClean
  <2>7. DataInv' BY <2>3, <2>4, <2>5, <2>6 DEF DataInv
  <2>8. QED BY <1>1, <1>3, <1>5, <2>2, <2>7, WorkerGoesOn DEF Working
<1>6. CASE SetStatusIn({"configuring_target"}, "failed_retryable") /\ Fails(Worker) /\ UNCHANGED <<ledger, website>>
  <2>1. RowOnly BY <1>1, <1>6 DEF RowOnly
  <2>2. QED BY <1>6, <2>1, StageFails DEF FailableStages
<1>7. QED BY <1>4, <1>5, <1>6 DEF InsertWebsite

\* HealthFails preserves the invariant.
LEMMA HealthFailsStep ==
  ASSUME Context(Worker), HealthFails
  PROVE  Inv'
<1>1. RowOnly BY DEF HealthFails, RowOnly, history
<1>2. QED BY <1>1, StageFails DEF HealthFails, FailableStages

\* HealthCommit preserves the invariant.
LEMMA HealthCommitStep ==
  ASSUME Context(Worker), HealthCommit
  PROVE  Inv'
<1>1. RowOnly /\ proc[Worker].step = "health" /\ proc[Worker].left = {}
  BY WorkerFacts DEF HealthCommit, RowOnly, history, At
<1>2. CASE /\ row.status = "running" /\ row.stage = "configuring_target"
           /\ row' = [row EXCEPT !.status = "awaiting_cutover", !.stage = "awaiting_cutover", !.site = TRUE]
           /\ Goto(Worker, "loop")
  <2>1. /\ row' \in RowRecords /\ row'.status = "awaiting_cutover" /\ row'.stage = "awaiting_cutover"
        /\ row'.owner = row.owner /\ row'.lease = row.lease
    BY <1>2, WorkerFacts DEF RowRecords, Statuses, Stages
  <2>2. Exists /\ Exists' BY <1>2, <2>1 DEF Exists
  <2>3. RowInv' BY <2>1, <2>2 DEF RowInv
  <2>4. DataInv' BY <1>1, <1>2, <2>1, <2>2, <2>3, WorkerFacts, RowMoves DEF LiveStages, Early
  <2>5. ~Ended BY <1>2, <2>2 DEF Ended
  <2>6. Turn(Worker) /\ proc'[Worker].left = {} /\ proc'[Worker].step = "loop"
    BY <1>1, <1>2, WorkerFacts, GotoEffect DEF Turn, Steps
  <2>7. QED BY <1>1, <2>4, <2>5, <2>6, WorkerEnds DEF RowOnly, Plain
<1>3. CASE Unknown /\ Fails(Worker)
  <2>1. ~lapsed => row.stage \notin Early BY <1>1, WorkerFacts DEF WorkerInv, Working, Early
  <2>2. QED BY <1>1, <1>3, <2>1, StageIsUnknown DEF Working
<1>4. QED BY <1>2, <1>3 DEF HealthCommit

\* Await preserves the invariant.
LEMMA AwaitStep ==
  ASSUME Context(Worker), Await
  PROVE  Inv'
<1>1. RowOnly /\ proc[Worker].step = "await" /\ proc[Worker].left = {}
  BY WorkerFacts DEF Await, RowOnly, history, At
<1>2. CASE row' = row /\ (Goto(Worker, "activate") \/ Fails(Worker))
  <2>1. SameData BY <1>1, <1>2 DEF SameData, RowOnly
  <2>2. Turn(Worker) /\ proc'[Worker].left = {} /\ proc'[Worker].step \in Plain
    <3>1. CASE Goto(Worker, "activate")
      BY <1>1, <3>1, WorkerFacts, GotoEffect DEF Turn, Steps, Plain
    <3>2. CASE Fails(Worker) BY <3>2, WorkerFacts, FailsEffect
    <3>3. QED BY <1>2, <3>1, <3>2
  <2>3. QED BY <2>1, <2>2, WorkerFacts, PlainMove
<1>3. CASE /\ Mine /\ row.stage = "awaiting_cutover" /\ SetRow("awaiting_cutover", row.stage)
           /\ Goto(Worker, "activate")
  <2>1. /\ row' \in RowRecords /\ row'.status = "awaiting_cutover" /\ row'.stage = "awaiting_cutover"
        /\ row'.owner = row.owner /\ row'.lease = row.lease
    BY <1>3, WorkerFacts, SetRowEffect DEF Statuses
  <2>2. Exists /\ Exists' BY <1>3, <2>1, WorkerFacts DEF Exists, RowInv, NoTask
  <2>3. RowInv' BY <2>1, <2>2 DEF RowInv
  <2>4. DataInv' BY <1>1, <1>3, <2>1, <2>2, <2>3, WorkerFacts, RowMoves
  <2>5. ~Ended BY <1>3, <2>2 DEF Ended
  <2>6. Turn(Worker) /\ proc'[Worker].left = {} /\ proc'[Worker].step = "activate"
    BY <1>1, <1>3, WorkerFacts, GotoEffect DEF Turn, Steps
  <2>7. QED BY <1>1, <2>4, <2>5, <2>6, WorkerEnds DEF RowOnly, Plain
<1>4. QED BY <1>2, <1>3 DEF Await

-----------------------------------------------------------------------------
\* The other steps of a process.

\* What every step of any process starts from.
LEMMA StepFacts ==
  ASSUME NEW p \in Procs, Context(p)
  PROVE  /\ Inv /\ DataInv /\ DataTypes /\ RowInv /\ WebsiteInv /\ CoverInv /\ ProcInv
         /\ row \in RowRecords /\ row.stage \in Stages /\ row.status \in Statuses
         /\ (row.owner = "none") = (row.lease = "null")
         /\ ledger \in [Kinds -> LedgerStatuses] /\ exists \subseteq Kinds
         /\ proc \in [Procs -> ProcRecords] /\ proc[p].left \in SUBSET Kinds
         /\ proc[p].step \notin {"begin_rollback", "remove", "mark_removed"} => proc[p].left = {}
         /\ RemovalAt(p) /\ DecidingAt(p)
<1>1. Inv /\ DataInv /\ DataTypes /\ RowInv /\ WebsiteInv /\ CoverInv /\ ProcInv
  BY DEF Context, Inv, DataInv
<1>2. /\ row \in RowRecords /\ (row.owner = "none") = (row.lease = "null")
      /\ ledger \in [Kinds -> LedgerStatuses] /\ exists \subseteq Kinds
  BY <1>1 DEF DataTypes
<1>3. row.stage \in Stages /\ row.status \in Statuses BY <1>2 DEF RowRecords
<1>4. RemovalAt(p) /\ DecidingAt(p) BY <1>1 DEF ProcInv
<1>5. QED BY <1>1, <1>2, <1>3, <1>4, ProcFacts

\* A process goes on to a step at which nothing is relied on.
LEMMA ProcessEnds ==
  ASSUME NEW p \in Procs, Context(p), UNCHANGED <<panel, lapsed>>, DataInv', Turn(p), Harmless(p),
         proc'[p].left = {}, proc'[p].step \in AdminPlain
  PROVE  Inv'
<1>1. AfterStep(p) /\ ProcInv BY ContextFacts
<1>2. QED BY <1>1, PlainStep DEF Inv, Plain, AdminPlain

\* A process goes on to a step of a removal.
LEMMA ProcessGoesOn ==
  ASSUME NEW p \in Procs, Context(p), UNCHANGED <<panel, lapsed>>, DataInv', Turn(p), Harmless(p),
         proc'[p].left # {} => proc'[p].step \in {"remove", "mark_removed"},
         proc'[p].step \in {"files", "forget", "remove", "mark_removed"}, RemovalAt(p)', DecidingAt(p)'
  PROVE  Inv'
<1>1. AfterStep(p) /\ ProcInv BY ContextFacts
<1>2. proc'[p].step \notin WorkerSteps BY DEF WorkerSteps, Working
<1>3. p = Worker => WorkerInv' BY DEF WorkerInv, AtResource, Working
<1>4. QED BY <1>1, <1>2, <1>3, LocalStep DEF Inv

\* A process that is idle next relies on nothing.
LEMMA IdleNext ==
  ASSUME NEW p \in Procs, Context(p), Stop(p, "idle")
  PROVE  Turn(p) /\ proc'[p].left = {} /\ proc'[p].step = "idle" /\ proc'[p].step \in AdminPlain
BY StepFacts, StopEffect DEF Turn, Steps, AdminPlain

\* A process ends without having changed the data.
LEMMA NothingDone ==
  ASSUME NEW p \in Procs, Context(p), SameData, Stop(p, "idle")
  PROVE  Inv'
BY IdleNext, PlainMove DEF Plain, AdminPlain

\* A process that fails relies on nothing next.
LEMMA FailsNext ==
  ASSUME NEW p \in Procs, Context(p), SameData, Fails(p)
  PROVE  Inv'
BY StepFacts, FailsEffect, PlainMove

-----------------------------------------------------------------------------
\* The activation: of the worker and of the administrators.

\* A step of the cutover is nobody else's: the worker is not at work.
LEMMA CutoverStep ==
  ASSUME NEW p \in Procs, Context(p), UNCHANGED <<panel, lapsed, exists>>, DataInv', Turn(p),
         proc'[p].left = {}, proc'[p].step \in Plain, p # Worker => proc'[p].step \in AdminPlain,
         Exists, row.stage \in LateStages
  PROVE  Inv'
<1>1. AfterStep(p) /\ ProcInv /\ Inv BY ContextFacts, StepFacts
<1>2. ~Ended BY DEF Ended, LateStages
<1>3. proc[Worker].step \notin Working BY <1>1, WorkingFacts
<1>4. Harmless(p) BY <1>2, <1>3 DEF Harmless
<1>5. QED BY <1>1, <1>4, PlainStep DEF Inv

\* A process moves to a step at which nothing is relied on.
LEMMA GotoPlain ==
  ASSUME NEW p \in Procs, Context(p), NEW s \in AdminPlain, Goto(p, s), proc[p].step \in AdminPlain
  PROVE  /\ Turn(p) /\ proc'[p].left = {} /\ proc'[p].step \in Plain
         /\ p # Worker => proc'[p].step \in AdminPlain
BY StepFacts, GotoEffect DEF Turn, Steps, AdminPlain, Plain

\* BeginActivation preserves the invariant.
LEMMA BeginActivationStep ==
  ASSUME NEW p \in Procs, Context(p), BeginActivation(p)
  PROVE  Inv'
<1>1. RowOnly /\ proc[p].step \in AdminPlain
  BY DEF BeginActivation, RowOnly, history, At, AdminPlain
<1>2. CASE /\ row.status = "awaiting_cutover" /\ CutoverState("awaiting_cutover")
           /\ SetRow("running", "activating_target") /\ Goto(p, "resume")
  <2>1. /\ row' \in RowRecords /\ row'.status = "running" /\ row'.stage = "activating_target"
        /\ row'.owner = row.owner /\ row'.lease = row.lease
    BY <1>2, StepFacts, SetRowEffect DEF Statuses, Stages
  <2>2. Exists /\ Exists' /\ row.stage = "awaiting_cutover" BY <1>2, <2>1 DEF Exists, CutoverState
  <2>3. RowInv' BY <2>1, <2>2 DEF RowInv
  <2>4. DataInv' BY <1>1, <2>1, <2>2, <2>3, StepFacts, RowMoves DEF LiveStages, Early
  <2>5. QED BY <1>1, <1>2, <2>2, <2>4, CutoverStep, GotoPlain DEF RowOnly, AdminPlain, LateStages
<1>3. CASE Fails(p) /\ UNCHANGED row
  <2>1. SameData BY <1>1, <1>3 DEF SameData, RowOnly
  <2>2. QED BY <1>3, <2>1, FailsNext
<1>4. QED BY <1>2, <1>3 DEF BeginActivation

\* A failed activation is taken up again.
LEMMA ResumedEffect ==
  ASSUME DataInv, RowOnly, row.status = "failed_retryable", row' = [row EXCEPT !.status = "running"]
  PROVE  DataInv'
<1>1. row \in RowRecords /\ (row.owner = "none") = (row.lease = "null") /\ RowInv
  BY DEF DataInv, DataTypes
<1>2. /\ row' \in RowRecords /\ row'.status = "running" /\ row'.stage = row.stage
      /\ row'.owner = row.owner /\ row'.lease = row.lease
  BY <1>1, SetStatusEffect DEF Statuses
<1>3. Exists /\ Exists' BY <1>2 DEF Exists
<1>4. RowInv' BY <1>1, <1>2, <1>3 DEF RowInv
<1>5. QED BY <1>1, <1>2, <1>3, <1>4, RowMoves

\* ResumeActivation preserves the invariant.
LEMMA ResumeActivationStep ==
  ASSUME NEW p \in Procs, Context(p), ResumeActivation(p)
  PROVE  Inv'
<1>1. RowOnly /\ proc[p].step \in AdminPlain
  BY DEF ResumeActivation, RowOnly, history, At, AdminPlain
<1>2. CASE Goto(p, "runtime") /\ UNCHANGED row
  <2>1. SameData BY <1>1, <1>2 DEF SameData, RowOnly
  <2>2. QED BY <1>1, <1>2, <2>1, GotoPlain, PlainMove DEF AdminPlain
<1>3. CASE /\ CutoverState("activating_target") /\ Goto(p, "commit")
           /\ row' = IF row.status = "failed_retryable" THEN [row EXCEPT !.status = "running"] ELSE row
  <2>1. row.stage = "activating_target" /\ Exists
    BY <1>3, StepFacts DEF CutoverState, RowInv, NoTask
  <2>2. DataInv'
    <3>1. CASE row.status = "failed_retryable" BY <1>1, <1>3, <3>1, StepFacts, ResumedEffect
    <3>2. CASE row.status # "failed_retryable"
      <4>1. SameData BY <1>1, <1>3, <3>2 DEF SameData, RowOnly
      <4>2. QED BY <4>1, StepFacts, DataSame
    <3>3. QED BY <3>1, <3>2
  <2>3. QED BY <1>1, <1>3, <2>1, <2>2, CutoverStep, GotoPlain DEF RowOnly, AdminPlain, LateStages
<1>4. CASE Fails(p) /\ UNCHANGED row
  <2>1. SameData BY <1>1, <1>4 DEF SameData, RowOnly
  <2>2. QED BY <1>4, <2>1, FailsNext
<1>5. QED BY <1>2, <1>3, <1>4 DEF ResumeActivation

\* A step of the activation fails, and its row learns of it.
LEMMA ActivationStepFails ==
  ASSUME NEW p \in Procs, Context(p), RowOnly, NEW st \in SUBSET {"activating_target", "activation_runtime_sync"},
         SetStatusIn(st, "failed_retryable"), Fails(p)
  PROVE  Inv'
<1>1. st \in SUBSET FailableStages BY DEF FailableStages
<1>2. DataInv' /\ (row' = row \/ (Exists /\ row.stage \in st)) BY <1>1, StepFacts, SetStatusInEffect
<1>3. CASE row' = row
  <2>1. SameData BY <1>3 DEF SameData, RowOnly
  <2>2. QED BY <2>1, FailsNext
<1>4. CASE Exists /\ row.stage \in st
  <2>1. row.stage \in LateStages BY <1>4 DEF LateStages
  <2>2. QED BY <1>2, <1>4, <2>1, StepFacts, FailsEffect, CutoverStep DEF RowOnly
<1>5. QED BY <1>2, <1>3, <1>4

\* ActivationFails preserves the invariant.
LEMMA ActivationFailsStep ==
  ASSUME NEW p \in Procs, Context(p), ActivationFails(p)
  PROVE  Inv'
<1>1. RowOnly BY DEF ActivationFails, RowOnly, history
<1>2. QED BY <1>1, ActivationStepFails DEF ActivationFails

\* CommitActivation preserves the invariant: the website, its lock and its stage at once.
LEMMA CommitActivationStep ==
  ASSUME NEW p \in Procs, Context(p), CommitActivation(p)
  PROVE  Inv'
<1>1. /\ UNCHANGED <<ledger, exists, panel, faults, lapsed>> /\ proc[p].step \in AdminPlain
      /\ row.stage = "activating_target" /\ website # "none" /\ website' = "live" /\ lock' = "released"
      /\ SetRow("running", "activation_runtime_sync") /\ Goto(p, "runtime")
  BY DEF CommitActivation, history, At, AdminPlain
<1>2. /\ row' \in RowRecords /\ row'.status = "running" /\ row'.stage = "activation_runtime_sync"
      /\ row'.owner = row.owner /\ row'.lease = row.lease
  BY <1>1, StepFacts, SetRowEffect DEF Statuses, Stages
<1>3. Exists /\ Exists' /\ OwnedKinds' = OwnedKinds
  BY <1>1, <1>2, StepFacts DEF Exists, OwnedKinds, RowInv, NoTask
<1>4. DataTypes' BY <1>1, <1>2, StepFacts DEF DataTypes
<1>5. RowInv' BY <1>2, <1>3 DEF RowInv
<1>6. WebsiteInv' BY <1>1, <1>2, <1>3, StepFacts DEF WebsiteInv, ActivationAtomic, Recorded
<1>7. CoverInv' BY <1>1, <1>2, <1>3, StepFacts DEF CoverInv, LedgerCovers, AbandonedIsClean, Deletable
<1>8. DataInv' BY <1>4, <1>5, <1>6, <1>7 DEF DataInv
<1>9. QED BY <1>1, <1>3, <1>8, CutoverStep, GotoPlain DEF AdminPlain, LateStages

\* RuntimeSync preserves the invariant.
LEMMA RuntimeSyncStep ==
  ASSUME NEW p \in Procs, Context(p), RuntimeSync(p)
  PROVE  Inv'
<1>1. RowOnly /\ proc[p].step \in AdminPlain /\ Goto(p, "finish")
  BY DEF RuntimeSync, RowOnly, history, At, AdminPlain
<1>2. CASE row' = row
  <2>1. SameData BY <1>1, <1>2 DEF SameData, RowOnly
  <2>2. QED BY <1>1, <2>1, GotoPlain, PlainMove DEF AdminPlain
<1>3. CASE /\ row.stage = "activation_runtime_sync" /\ row.status = "failed_retryable"
           /\ row' = [row EXCEPT !.status = "running"]
  <2>1. DataInv' /\ Exists BY <1>1, <1>3, StepFacts, ResumedEffect DEF Exists
  <2>2. QED BY <1>1, <1>3, <2>1, CutoverStep, GotoPlain DEF RowOnly, AdminPlain, LateStages
<1>4. QED BY <1>2, <1>3 DEF RuntimeSync

\* FinishActivation preserves the invariant.
LEMMA FinishActivationStep ==
  ASSUME NEW p \in Procs, Context(p), FinishActivation(p)
  PROVE  Inv'
<1>1. RowOnly BY DEF FinishActivation, RowOnly, history
<1>2. CASE row.stage = "activation_runtime_sync" /\ SetRow("completed", "completed") /\ Returns(p)
  <2>1. /\ row' \in RowRecords /\ row'.status = "completed" /\ row'.stage = "completed"
        /\ row'.owner = row.owner /\ row'.lease = row.lease
    BY <1>2, StepFacts, SetRowEffect DEF Statuses, Stages
  <2>2. Exists /\ Exists' BY <1>2, <2>1, StepFacts DEF Exists, RowInv, NoTask
  <2>3. RowInv' BY <2>1, <2>2 DEF RowInv
  <2>4. DataInv' BY <1>1, <1>2, <2>1, <2>2, <2>3, StepFacts, RowMoves DEF LiveStages, Early
  <2>5. QED BY <1>1, <1>2, <2>2, <2>4, StepFacts, FailsEffect, CutoverStep DEF RowOnly, LateStages
<1>3. CASE SetStatusIn({"activation_runtime_sync"}, "failed_retryable") /\ Fails(p)
  BY <1>1, <1>3, ActivationStepFails
<1>4. QED BY <1>2, <1>3 DEF FinishActivation

\* Retry preserves the invariant.
LEMMA RetryStep ==
  ASSUME NEW a \in Admins, Context(a), Retry(a)
  PROVE  Inv'
<1>0. a \in Procs BY DEF Procs
<1>1. RowOnly /\ proc[a].step = "idle" /\ row.status = "failed_retryable"
  BY DEF Retry, RowOnly, history, At
<1>2. CASE Begin(a, "resume", "retry") /\ UNCHANGED row
  <2>1. SameData BY <1>1, <1>2 DEF SameData, RowOnly
  <2>2. Turn(a) /\ proc'[a].left = {} /\ proc'[a].step = "resume"
    BY <1>0, <1>2, StepFacts, BeginEffect DEF Turn, Steps, Operations
  <2>3. QED BY <1>0, <2>1, <2>2, PlainMove DEF Plain, AdminPlain
<1>3. CASE row.owner = "none" /\ row.lease = "null" /\ SetRow("queued", row.stage) /\ UNCHANGED proc
  <2>1. /\ row' \in RowRecords /\ row'.status = "queued" /\ row'.stage = row.stage
        /\ row'.owner = row.owner /\ row'.lease = row.lease
    BY <1>0, <1>3, StepFacts, SetRowEffect DEF Statuses
  <2>2. Exists /\ Exists' BY <1>1, <2>1 DEF Exists
  <2>3. RowInv' BY <1>0, <1>1, <2>1, <2>2, StepFacts DEF RowInv
  <2>4. DataInv' BY <1>0, <1>1, <2>1, <2>2, <2>3, StepFacts, RowMoves
  <2>5. Turn(a) /\ proc'[a].left = {} /\ proc'[a].step = "idle"
    BY <1>0, <1>1, <1>3, StepFacts DEF Turn
  <2>6. ~Ended BY <1>0, <1>1, <2>2, StepFacts DEF Ended, RowInv
  <2>7. Harmless(a)
    BY <1>0, <1>3, <2>1, <2>6, StepFacts, WorkingFacts DEF Harmless, Mine
  <2>8. QED BY <1>0, <1>1, <2>4, <2>5, <2>7, ProcessEnds DEF RowOnly, AdminPlain
<1>4. QED BY <1>2, <1>3 DEF Retry

-----------------------------------------------------------------------------
\* The rollback.

\* What a step of a removal may do while the worker is at work, or not.
LEMMA RemovalHarmless ==
  ASSUME NEW p \in Procs, Context(p), Ended, Ended', row'.stage = row.stage \/ row'.stage \notin LateStages,
         exists' \subseteq exists, lapsed' = lapsed
  PROVE  Harmless(p)
<1>1. proc[Worker].step \in Working => lapsed BY StepFacts, WorkingFacts
<1>2. proc[Worker].step \in Working => row'.stage \notin LateStages BY StepFacts, WorkingFacts
<1>3. QED BY <1>1, <1>2 DEF Harmless

\* BeginRollback preserves the invariant: it ends the task, and takes a live website back only if it may.
LEMMA BeginRollbackStep ==
  ASSUME NEW p \in Procs, Context(p), BeginRollback(p)
  PROVE  Inv'
<1>1. /\ UNCHANGED <<ledger, exists, panel, faults, lapsed>> /\ proc[p].step = "begin_rollback"
  BY DEF BeginRollback, history, At
<1>2. /\ InScope /\ row.site = Recorded /\ proc[p].site = Recorded
  BY <1>1, StepFacts DEF DecidingAt
<1>3. CASE Stop(p, "idle") /\ UNCHANGED <<row, lock, website>>
  <2>1. SameData BY <1>1, <1>3 DEF SameData
  <2>2. QED BY <1>3, <2>1, NothingDone
<1>4. CASE /\ Exists /\ LeaseFree /\ lock # "none" /\ (proc[p].site => website # "none")
           /\ website' = (IF proc[p].site THEN "quiet" ELSE website)
           /\ lock' = "active" /\ SetRow("cancelling", "cancelling") /\ Goto(p, "remove")
  <2>1. /\ row' \in RowRecords /\ row'.status = "cancelling" /\ row'.stage = "cancelling"
        /\ row'.owner = row.owner /\ row'.lease = row.lease
    BY <1>4, StepFacts, SetRowEffect DEF Statuses, Stages
  <2>2. Exists' /\ OwnedKinds' = OwnedKinds /\ Recorded' = Recorded
    BY <1>1, <2>1 DEF Exists, OwnedKinds, Recorded
  <2>3. (website # "none") = Recorded /\ website \in {"none", "quiet", "live"}
    BY <1>4, StepFacts DEF WebsiteInv, DataTypes
  <2>4. website' = (IF Recorded THEN "quiet" ELSE "none") BY <1>2, <1>4, <2>3
  <2>5. DataTypes' BY <1>1, <1>4, <2>1, <2>4, StepFacts DEF DataTypes
  <2>6. RowInv' BY <2>1, <2>2 DEF RowInv
  <2>7. WebsiteInv'
    BY <1>1, <1>4, <2>1, <2>2, <2>4, StepFacts DEF WebsiteInv, ActivationAtomic
  <2>8. row.stage \notin Early BY <1>2, StepFacts DEF InScope, RowInv, Early, RollbackStages
  <2>9. CoverInv'
    BY <1>1, <1>4, <2>1, <2>2, <2>8, StepFacts DEF CoverInv, LedgerCovers, AbandonedIsClean, Early
  <2>10. DataInv' BY <2>5, <2>6, <2>7, <2>9 DEF DataInv
  <2>11. Turn(p) /\ proc'[p].step = "remove" BY <1>4, StepFacts, GotoEffect DEF Turn, Steps
  <2>12. Ended' BY <2>1 DEF Ended
  <2>13. Harmless(p)
    BY <1>1, <1>4, <2>1, <2>12, StepFacts, WorkingFacts DEF Harmless, LeaseFree, Mine, LateStages
  <2>14. RemovalAt(p)' /\ DecidingAt(p)' BY <2>11, <2>12 DEF RemovalAt, DecidingAt, Deciding
  <2>15. QED BY <1>1, <2>10, <2>11, <2>13, <2>14, ProcessGoesOn
<1>5. QED BY <1>3, <1>4 DEF BeginRollback

\* RemoveResource preserves the invariant: the resource goes before its mark.
LEMMA RemoveResourceStep ==
  ASSUME NEW p \in Procs, Context(p), RemoveResource(p)
  PROVE  Inv'
<1> DEFINE k == NextKind(proc[p].left)
<1>1. /\ UNCHANGED <<row, lock, ledger, website, panel, faults, lapsed>> /\ proc[p].step = "remove"
      /\ proc[p].left # {} /\ k # "record" /\ exists' = exists \ {k} /\ Goto(p, "mark_removed")
  BY DEF RemoveResource, dbVars, history, At
<1>2. Exists' = Exists /\ OwnedKinds' = OwnedKinds /\ Ended' = Ended /\ Ended
  BY <1>1, StepFacts DEF Exists, OwnedKinds, Ended, RemovalAt
<1>3. DataInv'
  <2>1. DataTypes' BY <1>1, StepFacts DEF DataTypes
  <2>2. RowInv' BY <1>1, <1>2, StepFacts DEF RowInv
  <2>3. WebsiteInv' BY <1>1, <1>2, StepFacts DEF WebsiteInv, ActivationAtomic, Recorded
  <2>4. CoverInv' BY <1>1, <1>2, StepFacts DEF CoverInv, LedgerCovers, AbandonedIsClean, Deletable
  <2>5. QED BY <2>1, <2>2, <2>3, <2>4 DEF DataInv
<1>4. Turn(p) /\ proc'[p].step = "mark_removed" /\ proc'[p].left = proc[p].left
  BY <1>1, StepFacts, GotoEffect DEF Turn, Steps
<1>5. RemovalAt(p)' BY <1>1, <1>2, <1>4 DEF RemovalAt
<1>6. DecidingAt(p)' BY <1>4 DEF DecidingAt, Deciding
<1>7. Harmless(p) BY <1>1, <1>2, RemovalHarmless
<1>8. QED BY <1>1, <1>3, <1>4, <1>5, <1>6, <1>7, ProcessGoesOn

\* The scope of a removal shrinks.
LEMMA LeftEffect ==
  ASSUME NEW p \in Procs, Context(p), NEW s \in Steps, NEW k,
         proc' = [proc EXCEPT ![p].step = s, ![p].left = @ \ {k}]
  PROVE  Turn(p) /\ proc'[p].step = s /\ proc'[p].left = proc[p].left \ {k}
<1> DEFINE rec == [proc[p] EXCEPT !.step = s, !.left = proc[p].left \ {k}]
<1>1. proc \in [Procs -> ProcRecords] /\ proc[p] \in ProcRecords BY StepFacts
<1>2. proc' = [proc EXCEPT ![p] = rec] OBVIOUS
<1>3. rec \in ProcRecords BY <1>1 DEF ProcRecords
<1>4. rec.step = s /\ rec.left = proc[p].left \ {k} BY <1>1 DEF ProcRecords
<1> HIDE DEF rec
<1>5. QED BY <1>1, <1>2, <1>3, <1>4 DEF Turn

\* MarkRemoved preserves the invariant: what it marks is gone.
LEMMA MarkRemovedStep ==
  ASSUME NEW p \in Procs, Context(p), MarkRemoved(p)
  PROVE  Inv'
<1> DEFINE k == NextKind(proc[p].left)
<1>1. /\ UNCHANGED <<row, lock, exists, website, panel, faults, lapsed>> /\ proc[p].step = "mark_removed"
      /\ ledger' = (IF ledger[k] \in Owned THEN [ledger EXCEPT ![k] = "removed"] ELSE ledger)
      /\ proc' = [proc EXCEPT ![p].step = "remove", ![p].left = @ \ {k}]
  BY DEF MarkRemoved, history, At
<1>2. proc[p].left # {} /\ k # "record" /\ (~lapsed => k \notin exists) /\ Ended /\ k \in Kinds
  BY <1>1, StepFacts, NextKindIsLeft DEF RemovalAt
<1> HIDE DEF k
<1>3. /\ ledger' \in [Kinds -> LedgerStatuses] /\ \A j \in Kinds \ {k} : ledger'[j] = ledger[j]
      /\ OwnedKinds' = OwnedKinds \ {k} /\ (~Exists => ledger' = ledger)
  <2>1. CASE ledger[k] \in Owned
    <3>1. ledger' = [ledger EXCEPT ![k] = "removed"] BY <1>1, <2>1
    <3>2. Exists BY <1>2, <2>1, StepFacts DEF RowInv, Owned
    <3>3. QED BY <1>2, <3>1, <3>2, StepFacts, MarkEffect DEF LedgerStatuses, Owned
  <2>2. CASE ledger[k] \notin Owned
    <3>1. ledger' = ledger /\ k \notin OwnedKinds BY <1>1, <2>2 DEF OwnedKinds
    <3>2. QED BY <3>1, StepFacts DEF OwnedKinds
  <2>3. QED BY <2>1, <2>2
<1>4. Exists' = Exists /\ Ended' = Ended /\ Recorded' = Recorded /\ ledger'["record"] = ledger["record"]
  BY <1>1, <1>2, <1>3 DEF Exists, Ended, Recorded, Kinds
<1>5. DataTypes' BY <1>1, <1>3, StepFacts DEF DataTypes
<1>6. RowInv' BY <1>1, <1>3, <1>4, StepFacts DEF RowInv
<1>7. WebsiteInv' BY <1>1, <1>4, StepFacts DEF WebsiteInv, ActivationAtomic
<1>8. CoverInv'
  BY <1>1, <1>2, <1>3, <1>4, StepFacts DEF CoverInv, LedgerCovers, AbandonedIsClean, Deletable
<1>9. DataInv' BY <1>5, <1>6, <1>7, <1>8 DEF DataInv
<1>10. Turn(p) /\ proc'[p].step = "remove" BY <1>1, LeftEffect DEF Steps
<1>11. RemovalAt(p)' /\ DecidingAt(p)' BY <1>2, <1>4, <1>10 DEF RemovalAt, DecidingAt, Deciding
<1>12. Harmless(p) BY <1>1, <1>2, <1>4, RemovalHarmless
<1>13. QED BY <1>1, <1>9, <1>10, <1>11, <1>12, ProcessGoesOn

\* RemoveRecords preserves the invariant: records, row and ledger in one transaction.
LEMMA RemoveRecordsStep ==
  ASSUME NEW p \in Procs, Context(p), RemoveRecords(p)
  PROVE  Inv'
<1>1. /\ UNCHANGED <<lock, exists, panel, faults, lapsed>> /\ proc[p].step = "remove"
      /\ Exists /\ website # "none" /\ website' = "none" /\ row' = [row EXCEPT !.site = FALSE]
      /\ ledger' = (IF ledger["record"] \in Owned THEN [ledger EXCEPT !["record"] = "removed"] ELSE ledger)
      /\ proc' = [proc EXCEPT ![p].left = @ \ {"record"}]
  BY DEF RemoveRecords, history, At
<1>2. Recorded /\ ledger["record"] \in Owned
  BY <1>1, StepFacts DEF WebsiteInv, Recorded, OwnedKinds
<1>3. /\ ledger' \in [Kinds -> LedgerStatuses] /\ OwnedKinds' = OwnedKinds \ {"record"}
      /\ ledger'["record"] = "removed"
  BY <1>1, <1>2, StepFacts, MarkEffect DEF LedgerStatuses, Owned, Kinds
<1>4. /\ row' \in RowRecords /\ row'.status = row.status /\ row'.stage = row.stage
      /\ row'.owner = row.owner /\ row'.lease = row.lease
  BY <1>1, StepFacts DEF RowRecords
<1>5. Exists' = Exists /\ Ended' = Ended /\ Ended /\ row.stage \notin LiveStages
  BY <1>1, <1>4, StepFacts DEF Exists, Ended, RemovalAt, LiveStages
<1>6. DataTypes' BY <1>1, <1>3, <1>4, StepFacts DEF DataTypes
<1>7. RowInv' BY <1>1, <1>4, <1>5, StepFacts DEF RowInv
<1>8. WebsiteInv' BY <1>1, <1>3, <1>4, <1>5 DEF WebsiteInv, ActivationAtomic, Recorded, LiveStages
<1>9. website # "live" BY <1>1, <1>5, StepFacts DEF WebsiteInv, ActivationAtomic, LiveStages
<1>10. CoverInv'
  BY <1>1, <1>3, <1>4, <1>5, <1>9, StepFacts DEF CoverInv, LedgerCovers, AbandonedIsClean, Deletable
<1>11. DataInv' BY <1>6, <1>7, <1>8, <1>10 DEF DataInv
<1>12. Turn(p) /\ proc'[p].step = "remove"
  <2>1. proc \in [Procs -> ProcRecords] /\ proc[p] \in ProcRecords BY StepFacts
  <2>2. proc' = [proc EXCEPT ![p].step = "remove", ![p].left = @ \ {"record"}]
    BY <1>1, <2>1 DEF ProcRecords
  <2>3. QED BY <2>2, LeftEffect DEF Steps
<1>13. RemovalAt(p)' /\ DecidingAt(p)' BY <1>5, <1>12 DEF RemovalAt, DecidingAt, Deciding
<1>14. Harmless(p) BY <1>1, <1>4, <1>5, RemovalHarmless
<1>15. QED BY <1>1, <1>11, <1>12, <1>13, <1>14, ProcessGoesOn

\* What the row learns of a removal that failed.
LEMMA CleanupFailedEffect ==
  ASSUME DataInv, lock' = lock, lapsed' = lapsed, ledger' = ledger \/ Exists,
         SetStatusIn({"cancelling"}, "cleanup_failed")
  PROVE  /\ row' \in RowRecords /\ (row'.owner = "none") = (row'.lease = "null") /\ RowInv'
         /\ Exists' = Exists /\ Ended' = Ended /\ row'.stage = row.stage
         /\ row'.status = "abandoned" => row.status = "abandoned"
<1>1. row \in RowRecords /\ (row.owner = "none") = (row.lease = "null") /\ RowInv
  BY DEF DataInv, DataTypes
<1>2. CASE Exists /\ row.stage = "cancelling"
  <2>1. row' = [row EXCEPT !.status = "cleanup_failed"] BY <1>2 DEF SetStatusIn
  <2>2. /\ row' \in RowRecords /\ row'.status = "cleanup_failed" /\ row'.stage = row.stage
        /\ row'.owner = row.owner /\ row'.lease = row.lease
    BY <1>1, <2>1, SetStatusEffect DEF Statuses
  <2>3. Exists' BY <2>2 DEF Exists
  <2>4. RowInv' BY <1>1, <1>2, <2>2, <2>3 DEF RowInv
  <2>5. QED BY <1>1, <1>2, <2>2, <2>3, <2>4 DEF Ended
<1>3. CASE ~(Exists /\ row.stage = "cancelling")
  <2>1. row' = row BY <1>3 DEF SetStatusIn
  <2>2. Exists' = Exists BY <2>1 DEF Exists
  <2>3. RowInv' BY <1>1, <2>1, <2>2 DEF RowInv
  <2>4. QED BY <1>1, <2>1, <2>2, <2>3 DEF Ended
<1>4. QED BY <1>2, <1>3

\* The row changes and what the ledger owns stays.
LEMMA OwnedStays ==
  ASSUME DataInv, UNCHANGED <<lock, exists, website, panel, faults, lapsed>>,
         row' \in RowRecords, (row'.owner = "none") = (row'.lease = "null"), RowInv', Exists' = Exists,
         row'.stage = row.stage, row'.status = "abandoned" => row.status = "abandoned",
         ledger' \in [Kinds -> LedgerStatuses], OwnedKinds' = OwnedKinds, ledger'["record"] = ledger["record"]
  PROVE  DataInv'
<1>1. Recorded' = Recorded BY DEF Recorded
<1>2. DataTypes' BY DEF DataInv, DataTypes
<1>3. WebsiteInv' BY <1>1 DEF DataInv, WebsiteInv, ActivationAtomic
<1>4. CoverInv' BY DEF DataInv, CoverInv, LedgerCovers, AbandonedIsClean, Deletable
<1>5. QED BY <1>2, <1>3, <1>4 DEF DataInv

\* RemoveFails preserves the invariant.
LEMMA RemoveFailsStep ==
  ASSUME NEW p \in Procs, Context(p), RemoveFails(p)
  PROVE  Inv'
<1> DEFINE k == NextKind(proc[p].left)
<1>1. /\ UNCHANGED <<lock, exists, website, panel, faults, lapsed>> /\ proc[p].step = "remove" /\ proc[p].left # {}
      /\ ledger' = (IF k \notin {"config", "record"} /\ ledger[k] \in {"created", "published"}
                    THEN [ledger EXCEPT ![k] = "remove_failed"] ELSE ledger)
      /\ SetStatusIn({"cancelling"}, "cleanup_failed") /\ Stop(p, "idle")
  BY DEF RemoveFails, history, At
<1>2. k \in Kinds /\ Ended BY <1>1, StepFacts, NextKindIsLeft DEF RemovalAt
<1> HIDE DEF k
<1>3. /\ ledger' \in [Kinds -> LedgerStatuses] /\ OwnedKinds' = OwnedKinds
      /\ ledger'["record"] = ledger["record"] /\ (ledger' = ledger \/ Exists)
  <2>1. CASE k \notin {"config", "record"} /\ ledger[k] \in {"created", "published"}
    <3>1. ledger' = [ledger EXCEPT ![k] = "remove_failed"] BY <1>1, <2>1
    <3>2. Exists BY <1>2, <2>1, StepFacts DEF RowInv
    <3>3. k \in OwnedKinds BY <1>2, <2>1 DEF OwnedKinds, Owned
    <3>4. /\ ledger' \in [Kinds -> LedgerStatuses] /\ OwnedKinds' = OwnedKinds \cup {k}
          /\ \A j \in Kinds \ {k} : ledger'[j] = ledger[j]
      BY <1>2, <3>1, StepFacts, MarkEffect DEF LedgerStatuses, Owned
    <3>5. "record" \in Kinds \ {k} BY <2>1 DEF Kinds
    <3>6. QED BY <3>2, <3>3, <3>4, <3>5
  <2>2. CASE ~(k \notin {"config", "record"} /\ ledger[k] \in {"created", "published"})
    <3>1. ledger' = ledger BY <1>1, <2>2
    <3>2. QED BY <3>1, StepFacts DEF OwnedKinds
  <2>3. QED BY <2>1, <2>2
<1>4. /\ row' \in RowRecords /\ (row'.owner = "none") = (row'.lease = "null") /\ RowInv'
      /\ Exists' = Exists /\ Ended' = Ended /\ row'.stage = row.stage
      /\ row'.status = "abandoned" => row.status = "abandoned"
  BY <1>1, <1>3, StepFacts, CleanupFailedEffect
<1>5. DataInv' BY <1>1, <1>3, <1>4, StepFacts, OwnedStays
<1>6. Harmless(p) BY <1>1, <1>2, <1>4, RemovalHarmless
<1>7. QED BY <1>1, <1>5, <1>6, IdleNext, ProcessEnds

\* FinishRollback preserves the invariant: it has nothing left to remove.
LEMMA FinishRollbackStep ==
  ASSUME NEW p \in Procs, Context(p), FinishRollback(p)
  PROVE  Inv'
<1>1. /\ UNCHANGED <<ledger, exists, website, panel, faults, lapsed>> /\ proc[p].step = "remove" /\ proc[p].left = {}
      /\ Ended
  BY StepFacts DEF FinishRollback, history, At, RemovalAt
<1>2. CASE /\ \A k \in Kinds : ledger[k] \in {"none", "removed"}
           /\ lock = "active" /\ row.status = "cancelling" /\ lock' = "released"
           /\ SetRow("abandoned", "abandoned") /\ (Goto(p, "files") \/ Stop(p, "idle"))
  <2>1. /\ row' \in RowRecords /\ row'.status = "abandoned" /\ row'.stage = "abandoned"
        /\ row'.owner = row.owner /\ row'.lease = row.lease
    BY <1>2, StepFacts, SetRowEffect DEF Statuses, Stages
  <2>2. /\ Exists /\ Exists' /\ OwnedKinds' = OwnedKinds /\ OwnedKinds = {} /\ ~Recorded /\ ~Recorded'
        /\ row.stage = "cancelling"
    BY <1>1, <1>2, <2>1, StepFacts DEF Exists, OwnedKinds, Owned, Recorded, RowInv
  <2>3. website = "none" /\ (~lapsed => exists = {})
    BY <1>1, <1>2, <2>2, StepFacts DEF WebsiteInv, CoverInv
  <2>4. DataTypes' BY <1>1, <1>2, <2>1, StepFacts DEF DataTypes
  <2>5. RowInv' BY <2>1, <2>2 DEF RowInv
  <2>6. WebsiteInv' BY <1>1, <2>1, <2>2, <2>3, StepFacts DEF WebsiteInv, ActivationAtomic, Recorded
  <2>7. CoverInv'
    BY <1>1, <1>2, <2>1, <2>2, <2>3, StepFacts DEF CoverInv, LedgerCovers, AbandonedIsClean, Deletable
  <2>8. DataInv' BY <2>4, <2>5, <2>6, <2>7 DEF DataInv
  <2>9. Ended' BY <2>1 DEF Ended
  <2>10. Harmless(p) BY <1>1, <2>1, <2>9, RemovalHarmless DEF LateStages
  <2>11. CASE Stop(p, "idle") BY <1>1, <2>8, <2>10, <2>11, IdleNext, ProcessEnds
  <2>12. CASE Goto(p, "files")
    <3>1. Turn(p) /\ proc'[p].step = "files" /\ proc'[p].left = {}
      BY <1>1, <2>12, StepFacts, GotoEffect DEF Turn, Steps
    <3>2. RemovalAt(p)' BY <3>1 DEF RemovalAt
    <3>3. Deletable' BY <2>2 DEF Deletable
    <3>4. DecidingAt(p)' BY <1>1, <1>2, <2>1, <2>2, <2>3, <3>1, <3>3 DEF DecidingAt, Deciding
    <3>5. QED BY <1>1, <2>8, <2>10, <3>1, <3>2, <3>4, ProcessGoesOn
  <2>13. QED BY <1>2, <2>11, <2>12
<1>3. CASE SetStatusIn({"cancelling"}, "cleanup_failed") /\ Stop(p, "idle") /\ UNCHANGED lock
  <2>1. /\ row' \in RowRecords /\ (row'.owner = "none") = (row'.lease = "null") /\ RowInv'
        /\ Exists' = Exists /\ Ended' = Ended /\ row'.stage = row.stage
        /\ row'.status = "abandoned" => row.status = "abandoned"
    BY <1>1, <1>3, StepFacts, CleanupFailedEffect
  <2>2. OwnedKinds' = OwnedKinds BY <1>1 DEF OwnedKinds
  <2>3. DataInv' BY <1>1, <1>3, <2>1, <2>2, StepFacts, OwnedStays
  <2>4. Harmless(p) BY <1>1, <2>1, RemovalHarmless
  <2>5. QED BY <1>1, <1>3, <2>3, <2>4, IdleNext, ProcessEnds
<1>4. QED BY <1>2, <1>3 DEF FinishRollback

-----------------------------------------------------------------------------
\* The deletion.

\* ReleaseReferences preserves the invariant.
LEMMA ReleaseReferencesStep ==
  ASSUME NEW p \in Procs, Context(p), ReleaseReferences(p)
  PROVE  Inv'
<1>1. /\ UNCHANGED <<ledger, exists, website, panel, faults, lapsed>> /\ proc[p].step = "references"
      /\ website # "quiet" /\ (~lapsed => Deletable) /\ proc[p].left = {}
  BY StepFacts DEF ReleaseReferences, history, At, DecidingAt
<1>2. CASE Stop(p, "idle") /\ UNCHANGED <<row, lock>>
  <2>1. SameData BY <1>1, <1>2 DEF SameData
  <2>2. QED BY <1>2, <2>1, NothingDone
<1>3. CASE /\ Exists /\ LeaseFree /\ row' = [row EXCEPT !.site = FALSE, !.owner = "none", !.lease = "null"]
           /\ lock' = (IF lock = "none" THEN "none" ELSE "released") /\ Goto(p, "files")
  <2>1. /\ row' \in RowRecords /\ row'.status = row.status /\ row'.stage = row.stage
        /\ row'.owner = "none" /\ row'.lease = "null"
    BY <1>3, StepFacts DEF RowRecords
  <2>2. /\ Exists' /\ OwnedKinds' = OwnedKinds /\ Recorded' = Recorded /\ Ended' = Ended /\ Deletable' = Deletable
    BY <1>1, <1>3, <2>1 DEF Exists, OwnedKinds, Recorded, Ended, Deletable
  <2>3. DataTypes' BY <1>1, <1>3, <2>1, StepFacts DEF DataTypes
  <2>4. RowInv' BY <2>1, <2>2, StepFacts DEF RowInv
  <2>5. WebsiteInv' BY <1>1, <1>3, <2>1, <2>2, StepFacts DEF WebsiteInv, ActivationAtomic
  <2>6. CoverInv'
    BY <1>1, <1>3, <2>1, <2>2, StepFacts DEF CoverInv, LedgerCovers, AbandonedIsClean
  <2>7. DataInv' BY <2>3, <2>4, <2>5, <2>6 DEF DataInv
  <2>8. Harmless(p) BY <1>1, <1>3, <2>1, <2>2, StepFacts, WorkingFacts DEF Harmless, LeaseFree, Mine
  <2>9. Turn(p) /\ proc'[p].step = "files" /\ proc'[p].left = {}
    BY <1>1, <1>3, StepFacts, GotoEffect DEF Turn, Steps
  <2>10. RemovalAt(p)' BY <2>9 DEF RemovalAt
  <2>11. lock' # "active" /\ ~Mine' BY <1>3, <2>1 DEF Mine
  <2>12. DecidingAt(p)' BY <1>1, <2>2, <2>9, <2>11 DEF DecidingAt, Deciding
  <2>13. QED BY <1>1, <2>7, <2>8, <2>9, <2>10, <2>12, ProcessGoesOn
<1>4. QED BY <1>2, <1>3 DEF ReleaseReferences

\* RemoveRuntimeFiles preserves the invariant.
LEMMA RemoveRuntimeFilesStep ==
  ASSUME NEW p \in Procs, Context(p), RemoveRuntimeFiles(p)
  PROVE  Inv'
<1>1. /\ UNCHANGED <<row, lock, ledger, website, panel, faults, lapsed>> /\ proc[p].step = "files"
      /\ proc[p].left = {} /\ DecidingAt(p)
  BY StepFacts DEF RemoveRuntimeFiles, dbVars, history, At
<1>2. CASE exists' = exists /\ Stop(p, "idle")
  <2>1. SameData BY <1>1, <1>2 DEF SameData
  <2>2. QED BY <1>2, <2>1, NothingDone
<1>3. CASE exists' = exists \ {"staging"} /\ Goto(p, "forget")
  <2>1. /\ Exists' = Exists /\ OwnedKinds' = OwnedKinds /\ Ended' = Ended /\ Deletable' = Deletable /\ Mine' = Mine
    BY <1>1 DEF Exists, OwnedKinds, Ended, Deletable, Mine
  <2>2. DataInv'
    <3>1. DataTypes' BY <1>1, <1>3, StepFacts DEF DataTypes
    <3>2. RowInv' BY <1>1, <2>1, StepFacts DEF RowInv
    <3>3. WebsiteInv' BY <1>1, <2>1, StepFacts DEF WebsiteInv, ActivationAtomic, Recorded
    <3>4. CoverInv' BY <1>1, <1>3, <2>1, StepFacts DEF CoverInv, LedgerCovers, AbandonedIsClean
    <3>5. QED BY <3>1, <3>2, <3>3, <3>4 DEF DataInv
  <2>3. Harmless(p) BY <1>1, <1>3, <2>1, StepFacts, WorkingFacts DEF Harmless
  <2>4. Turn(p) /\ proc'[p].step = "forget" /\ proc'[p].left = {}
    BY <1>1, <1>3, StepFacts, GotoEffect DEF Turn, Steps
  <2>5. RemovalAt(p)' BY <2>4 DEF RemovalAt
  <2>6. DecidingAt(p)' BY <1>1, <1>3, <2>1, <2>4 DEF DecidingAt, Deciding
  <2>7. QED BY <1>1, <2>2, <2>3, <2>4, <2>5, <2>6, ProcessGoesOn
<1>4. QED BY <1>2, <1>3 DEF RemoveRuntimeFiles

\* ForgetTask preserves the invariant: what is forgotten has nothing on the server.
LEMMA ForgetTaskStep ==
  ASSUME NEW p \in Procs, Context(p), ForgetTask(p)
  PROVE  Inv'
<1>1. /\ UNCHANGED <<exists, website, panel, faults, lapsed>> /\ proc[p].step = "forget" /\ DecidingAt(p)
      /\ row' = NoTask /\ lock' = "none" /\ ledger' = [k \in Kinds |-> "none"] /\ Stop(p, "idle")
  BY StepFacts DEF ForgetTask, history, At
<1>2. /\ Exists /\ website # "quiet" /\ (~lapsed => Deletable /\ "staging" \notin exists)
      /\ ~Mine \/ row.status = "abandoned"
  BY <1>1 DEF DecidingAt, Deciding
<1>3. /\ row' \in RowRecords /\ row'.status = "gone" /\ row'.stage = "preflight_passed"
      /\ row'.owner = "none" /\ row'.lease = "null"
  BY <1>1 DEF NoTask, RowRecords, Statuses, Stages
<1>4. ~Exists' /\ OwnedKinds' = {} /\ ~Recorded' BY <1>1, <1>3 DEF Exists, OwnedKinds, Owned, Recorded
<1>5. DataTypes' BY <1>1, <1>3, StepFacts DEF DataTypes, LedgerStatuses
<1>6. RowInv' BY <1>1, <1>3 DEF RowInv
<1>7. WebsiteInv' BY <1>1, <1>2, <1>3, <1>4 DEF WebsiteInv, ActivationAtomic, Recorded, Kinds
<1>8. ~lapsed => exists = {} \/ (website = "live" /\ exists \subseteq RuntimeKinds)
  <2>1. SUFFICES ASSUME ~lapsed PROVE exists = {} \/ (website = "live" /\ exists \subseteq RuntimeKinds) OBVIOUS
  <2>2. exists \subseteq RuntimeKinds BY <1>2, <2>1, StepFacts DEF CoverInv, Kinds, RuntimeKinds
  <2>3. exists \cap RuntimeKinds \subseteq OwnedKinds BY <1>2, <2>1, StepFacts DEF CoverInv, LedgerCovers
  <2>4. QED BY <1>2, <2>1, <2>2, <2>3 DEF Deletable
<1>9. CoverInv' BY <1>1, <1>3, <1>4, <1>8, StepFacts DEF CoverInv, LedgerCovers, AbandonedIsClean
<1>10. DataInv' BY <1>5, <1>6, <1>7, <1>9 DEF DataInv
<1>11. Ended' BY <1>4 DEF Ended
<1>12. Harmless(p)
  BY <1>1, <1>2, <1>3, <1>11, StepFacts, WorkingFacts DEF Harmless, LateStages
<1>13. QED BY <1>1, <1>10, <1>12, IdleNext, ProcessEnds

-----------------------------------------------------------------------------
\* Time, crashes and restarts.

\* The row changes, and the panel may.
LEMMA RowChanges ==
  ASSUME DataInv, UNCHANGED <<lock, ledger, exists, website>>, panel' \in {"up", "down"},
         faults' \in 0..MaxFaults, lapsed' \in BOOLEAN, lapsed => lapsed',
         row' \in RowRecords, (row'.owner = "none") = (row'.lease = "null"), RowInv', Exists' = Exists,
         row'.stage = row.stage, row'.status = "abandoned" => row.status = "abandoned"
  PROVE  DataInv'
<1>1. OwnedKinds' = OwnedKinds BY DEF OwnedKinds
<1>2. DataTypes' BY DEF DataInv, DataTypes
<1>3. WebsiteInv' BY <1>1 DEF DataInv, WebsiteInv, ActivationAtomic, Recorded
<1>4. lapsed \in BOOLEAN /\ (~lapsed' => ~lapsed) BY DEF DataInv, DataTypes
<1>5. CoverInv' BY <1>1, <1>4 DEF DataInv, CoverInv, LedgerCovers, AbandonedIsClean, Deletable
<1>6. QED BY <1>2, <1>3, <1>5 DEF DataInv

\* QueueTarget preserves the invariant.
LEMMA QueueTargetStep ==
  ASSUME Inv, QueueTarget
  PROVE  Inv'
<1>1. DataInv /\ DataTypes /\ RowInv /\ ProcInv /\ row \in RowRecords BY DEF Inv, DataInv, DataTypes
<1>2. UNCHANGED <<lock, ledger, exists, website, panel, proc, faults, lapsed>> /\ row.status = "draft"
  BY DEF QueueTarget, history
<1>3. /\ row' \in RowRecords /\ row'.status = "queued" /\ row'.stage = row.stage
      /\ row'.owner = row.owner /\ row'.lease = row.lease /\ row'.site = row.site
  BY <1>1, SetRowEffect DEF QueueTarget, Statuses, RowRecords
<1>4. Exists /\ Exists' /\ row.stage = "preflight_passed" BY <1>1, <1>2, <1>3 DEF Exists, RowInv
<1>5. RowInv' BY <1>3, <1>4 DEF RowInv
<1>6. DataInv' BY <1>1, <1>2, <1>3, <1>4, <1>5, RowChanges DEF DataTypes
<1>7. ~Ended /\ ~InScope /\ OwnedKinds' = OwnedKinds
  BY <1>2, <1>4 DEF Ended, InScope, OwnedKinds, RollbackStages
<1>8. ProcTypes' /\ OneDecides' BY <1>1, <1>2 DEF ProcInv, ProcTypes, OneDecides
<1>9. WorkerInv' BY <1>1, <1>2, <1>3 DEF ProcInv, WorkerInv, AtResource
<1>10. ASSUME NEW p \in Procs PROVE RemovalAt(p)' /\ DecidingAt(p)'
  <2>1. RemovalAt(p) /\ DecidingAt(p) BY <1>1 DEF ProcInv
  <2>2. RemovalAt(p)' BY <1>2, <1>7, <2>1 DEF RemovalAt
  <2>3. Activated' = Activated /\ Mine' = Mine /\ Deletable' = Deletable
    BY <1>2, <1>3, <1>7 DEF Activated, Mine, Deletable
  <2>4. DecidingAt(p)' BY <1>2, <1>3, <1>4, <1>7, <2>1, <2>3 DEF DecidingAt
  <2>5. QED BY <2>2, <2>4
<1>11. QED BY <1>6, <1>8, <1>9, <1>10 DEF Inv, ProcInv

\* A lease ends, of a worker at work or of nobody.
LEMMA LeaseEnds ==
  ASSUME Inv, LeaseExpires \/ LeaseLapses
  PROVE  Inv'
<1>1. DataInv /\ DataTypes /\ RowInv /\ ProcInv /\ row \in RowRecords BY DEF Inv, DataInv, DataTypes
<1>2. /\ UNCHANGED <<lock, ledger, exists, website, panel, proc>> /\ row.lease = "live"
      /\ row' = [row EXCEPT !.lease = "expired"]
  BY DEF LeaseExpires, LeaseLapses, history, HasLease, Mine
<1>3. faults' \in 0..MaxFaults /\ lapsed' \in BOOLEAN /\ (lapsed => lapsed')
  <2>1. CASE LeaseExpires BY <1>1, <2>1 DEF LeaseExpires, history, DataTypes
  <2>2. CASE LeaseLapses
    <3>1. faults \in 0..MaxFaults /\ faults < MaxFaults /\ faults' = faults + 1 /\ lapsed' = TRUE
      BY <1>1, <2>2 DEF LeaseLapses, DataTypes
    <3>2. faults' \in 0..MaxFaults BY <3>1, MigrationTargetAssumption
    <3>3. QED BY <3>1, <3>2
  <2>3. QED BY <2>1, <2>2
<1>4. /\ row' \in RowRecords /\ row'.status = row.status /\ row'.stage = row.stage
      /\ row'.owner = row.owner /\ row'.lease = "expired" /\ row'.site = row.site /\ row.owner # "none"
  BY <1>1, <1>2 DEF RowRecords, DataTypes
<1>5. Exists /\ Exists' BY <1>1, <1>2, <1>4 DEF Exists, RowInv, NoTask
<1>6. RowInv' BY <1>1, <1>4, <1>5 DEF RowInv
<1>7. DataInv' BY <1>1, <1>2, <1>3, <1>4, <1>5, <1>6, RowChanges DEF DataTypes
<1>8. OwnedKinds' = OwnedKinds /\ (Ended => Ended') /\ lapsed \in BOOLEAN /\ (~lapsed' => ~lapsed)
  BY <1>1, <1>2, <1>3, <1>4, <1>5 DEF OwnedKinds, Ended, DataTypes
<1>9. ProcTypes' /\ OneDecides' BY <1>1, <1>2 DEF ProcInv, ProcTypes, OneDecides
<1>10. WorkerInv'
  <2>1. WorkerInv /\ AtResource' = AtResource BY <1>1, <1>2 DEF ProcInv, AtResource
  <2>2. CASE lapsed' BY <1>2, <1>4, <2>1, <2>2 DEF WorkerInv
  <2>3. CASE ~lapsed'
    <3>1. LeaseExpires BY <2>3 DEF LeaseLapses
    <3>2. proc[Worker].step \notin Working BY <1>8, <2>1, <2>3, <3>1 DEF WorkerInv, LeaseExpires
    <3>3. ~AtResource BY <3>2 DEF AtResource, Working
    <3>4. QED BY <1>2, <2>1, <3>2, <3>3 DEF WorkerInv
  <2>4. QED BY <2>2, <2>3
<1>11. ASSUME NEW p \in Procs PROVE RemovalAt(p)' /\ DecidingAt(p)'
  <2>1. RemovalAt(p) /\ DecidingAt(p) BY <1>1 DEF ProcInv
  <2>2. RemovalAt(p)' BY <1>2, <1>8, <2>1 DEF RemovalAt
  <2>3. Activated' = Activated /\ ~Mine' /\ Deletable' = Deletable /\ InScope' = InScope /\ Recorded' = Recorded
    BY <1>2, <1>4, <1>5, <1>8 DEF Activated, Mine, Deletable, InScope, Recorded
  <2>4. MayForce(p)' = MayForce(p) BY <1>2 DEF MayForce
  <2>5. DecidingAt(p)' BY <1>2, <1>4, <1>5, <1>8, <2>1, <2>3, <2>4 DEF DecidingAt
  <2>6. QED BY <2>2, <2>5
<1>12. QED BY <1>7, <1>9, <1>10, <1>11 DEF Inv, ProcInv

\* Nothing is relied on by processes that are not there.
LEMMA AllIdle ==
  ASSUME proc' \in [Procs -> ProcRecords], \A p \in Procs : proc'[p].step = "idle" /\ proc'[p].left = {}
  PROVE  ProcInv'
<1>0. Worker \in Procs /\ Admins \subseteq Procs BY DEF Procs
<1>1. ProcTypes' BY <1>0 DEF ProcTypes, WorkerSteps, Working
<1>2. WorkerInv' BY <1>0 DEF WorkerInv, AtResource, Working
<1>3. OneDecides' BY DEF OneDecides, Deciding
<1>4. \A p \in Procs : RemovalAt(p)' /\ DecidingAt(p)' BY DEF RemovalAt, DecidingAt, Deciding
<1>5. QED BY <1>1, <1>2, <1>3, <1>4 DEF ProcInv

\* Crash preserves the invariant: a crash ends all processes and changes no resource.
LEMMA CrashStep ==
  ASSUME Inv, Crash
  PROVE  Inv'
<1>1. DataInv /\ DataTypes /\ RowInv /\ row \in RowRecords /\ (row.owner = "none") = (row.lease = "null")
  BY DEF Inv, DataInv, DataTypes
<1>2. /\ UNCHANGED <<lock, ledger, exists, website, lapsed>> /\ panel' = "down"
      /\ faults' \in 0..MaxFaults /\ proc' = [p \in Procs |-> Idle]
  BY <1>1, MigrationTargetAssumption DEF Crash, DataTypes
<1>3. /\ row' \in RowRecords /\ row'.status = row.status /\ row'.stage = row.stage
      /\ (row'.owner = "none") = (row'.lease = "null") /\ (row.owner = "none" => row' = row)
  BY <1>1 DEF Crash, RowRecords
<1>4. Exists' = Exists BY <1>3 DEF Exists
<1>5. RowInv' BY <1>1, <1>2, <1>3, <1>4 DEF RowInv, NoTask
<1>6. DataInv' BY <1>1, <1>2, <1>3, <1>4, <1>5, RowChanges DEF DataTypes
<1>7. \A p \in Procs : proc'[p] = Idle BY <1>2
<1>8. proc' \in [Procs -> ProcRecords] /\ \A p \in Procs : proc'[p].step = "idle" /\ proc'[p].left = {}
  BY <1>2, <1>7, IdleType DEF Idle
<1>9. QED BY <1>6, <1>8, AllIdle DEF Inv

\* Restart preserves the invariant.
LEMMA RestartStep ==
  ASSUME Inv, Restart
  PROVE  Inv'
<1>1. /\ DataInv /\ DataTypes /\ RowInv /\ ProcInv /\ row \in RowRecords
      /\ (row.owner = "none") = (row.lease = "null")
  BY DEF Inv, DataInv, DataTypes
<1>2. UNCHANGED <<lock, ledger, exists, website, proc, faults, lapsed>> /\ panel = "down" /\ panel' = "up"
  BY DEF Restart, history
<1>3. /\ row' \in RowRecords /\ row'.stage = row.stage /\ (row'.owner = "none") = (row'.lease = "null")
      /\ \/ row' = row
         \/ row.status = "awaiting_cutover" /\ row'.status = "queued"
         \/ row.status = "running" /\ row'.status = "interrupted_unknown"
  <2>1. CASE row' = row BY <1>1, <2>1
  <2>2. CASE /\ row.status = "awaiting_cutover"
             /\ row' = [row EXCEPT !.status = "queued", !.owner = "none", !.lease = "null"]
    BY <1>1, <2>2 DEF RowRecords, Statuses
  <2>3. CASE /\ row.status = "running"
             /\ row' = [row EXCEPT !.status = "interrupted_unknown", !.owner = "none", !.lease = "null"]
    BY <1>1, <2>3 DEF RowRecords, Statuses
  <2>4. QED BY <2>1, <2>2, <2>3 DEF Restart
<1>4. Exists' = Exists BY <1>3 DEF Exists
<1>5. RowInv'
  <2>1. CASE row' = row BY <1>1, <1>2, <1>4, <2>1 DEF RowInv
  <2>2. CASE row.status = "awaiting_cutover" /\ row'.status = "queued"
    BY <1>1, <1>3, <1>4, <2>2 DEF RowInv, Exists
  <2>3. CASE row.status = "running" /\ row'.status = "interrupted_unknown"
    BY <1>1, <1>3, <1>4, <2>3 DEF RowInv, Exists
  <2>4. QED BY <1>3, <2>1, <2>2, <2>3
<1>6. DataInv' BY <1>1, <1>2, <1>3, <1>4, <1>5, RowChanges DEF DataTypes
<1>7. proc' \in [Procs -> ProcRecords] /\ \A p \in Procs : proc'[p].step = "idle" /\ proc'[p].left = {}
  BY <1>1, <1>2 DEF ProcInv, ProcTypes
<1>8. QED BY <1>6, <1>7, AllIdle DEF Inv

\* A step that changes nothing preserves the invariant.
LEMMA Stutter ==
  ASSUME Inv, UNCHANGED vars
  PROVE  Inv'
<1>1. SameData /\ proc' = proc BY DEF vars, dbVars, history, SameData
<1>2. DataInv' BY <1>1, DataSame DEF Inv
<1>3. ASSUME NEW p \in Procs PROVE RemovalAt(p)' /\ DecidingAt(p)'
  <2>1. RemovalAt(p) /\ DecidingAt(p) BY DEF Inv, ProcInv
  <2>2. RemovalAt(p)' BY <1>1, <2>1, SameFacts DEF RemovalAt
  <2>3. MayForce(p)' = MayForce(p) BY <1>1 DEF MayForce
  <2>4. DecidingAt(p)' BY <1>1, <2>1, <2>3, SameFacts DEF DecidingAt
  <2>5. QED BY <2>2, <2>4
<1>4. ProcTypes' /\ OneDecides' BY <1>1 DEF Inv, ProcInv, ProcTypes, OneDecides, SameData
<1>5. WorkerInv' BY <1>1, SameFacts DEF Inv, ProcInv, WorkerInv, AtResource
<1>6. QED BY <1>2, <1>3, <1>4, <1>5 DEF Inv, ProcInv

-----------------------------------------------------------------------------
\* The invariant holds initially.
LEMMA InitInv == Init => Inv
<1> SUFFICES ASSUME Init PROVE Inv OBVIOUS
<1>1. NoTask \in RowRecords /\ "draft" \in Statuses BY DEF NoTask, RowRecords, Statuses, Stages
<1>2. row \in RowRecords /\ row.status = "draft" /\ row.stage = "preflight_passed" /\ row.owner = "none" /\ row.lease = "null"
  <2>1. row = [NoTask EXCEPT !.status = "draft"] BY DEF Init, NewTask
  <2>2. row \in RowRecords BY <1>1, <2>1 DEF RowRecords
  <2>3. QED BY <2>1, <2>2 DEF NoTask
<1>3. Exists /\ OwnedKinds = {} /\ ~Recorded BY <1>2 DEF Init, Exists, OwnedKinds, Owned, Recorded
<1>4. DataTypes
  <2>1. faults \in 0..MaxFaults BY MigrationTargetAssumption DEF Init
  <2>2. ledger \in [Kinds -> LedgerStatuses] BY DEF Init, LedgerStatuses
  <2>3. QED BY <1>2, <2>1, <2>2 DEF Init, DataTypes
<1>5. RowInv BY <1>2, <1>3 DEF RowInv
<1>6. WebsiteInv BY <1>2, <1>3 DEF Init, WebsiteInv, ActivationAtomic, Recorded, Kinds
<1>7. CoverInv BY <1>2, <1>3 DEF Init, CoverInv, LedgerCovers, AbandonedIsClean, Deletable
<1>8. \A p \in Procs : proc[p] = Idle BY DEF Init
<1>9. proc \in [Procs -> ProcRecords] /\ \A p \in Procs : proc[p].step = "idle" /\ proc[p].left = {}
  BY <1>8, IdleType DEF Idle, Init
<1>10. Worker \in Procs /\ Admins \subseteq Procs BY DEF Procs
<1>11. ProcTypes BY <1>9, <1>10 DEF ProcTypes, WorkerSteps, Working
<1>12. WorkerInv BY <1>9, <1>10 DEF WorkerInv, AtResource, Working
<1>13. OneDecides BY <1>9 DEF OneDecides, Deciding
<1>14. \A p \in Procs : RemovalAt(p) /\ DecidingAt(p) BY <1>9 DEF RemovalAt, DecidingAt, Deciding
<1>15. QED BY <1>4, <1>5, <1>6, <1>7, <1>11, <1>12, <1>13, <1>14 DEF Inv, DataInv, ProcInv

\* Every step of the worker preserves the invariant.
LEMMA WorkerStepInv ==
  ASSUME Context(Worker), WorkerStep
  PROVE  Inv'
BY LoopStep, WorkerMoves, ClaimNextStep, ReleaseClaimStep, TransferBeginStep, TransferFailsStep,
   PrepareFilesStep, FinalizeStep, BeginStep, RecordIntentStep, MakeStep, MakeFailsStep, MarkPublishedStep,
   PublishCommitStep, InsertWebsiteStep, HealthFailsStep, HealthCommitStep, AwaitStep, HandleFailureStep
   DEF WorkerStep

\* Every step of a process preserves the invariant.
LEMMA StepInv ==
  ASSUME Inv, ~ScopeMayAge, NEW p \in Procs, Step(p)
  PROVE  Inv'
<1>1. Context(p) BY DEF Context, Step
<1>2. CASE p = Worker /\ WorkerStep BY <1>1, <1>2, WorkerStepInv
<1>3. CASE ActivationStep(p)
  BY <1>1, <1>3, BeginActivationStep, ResumeActivationStep, ActivationFailsStep, CommitActivationStep,
     RuntimeSyncStep, FinishActivationStep DEF ActivationStep
<1>4. CASE RollbackStep(p)
  BY <1>1, <1>4, LoadRollbackScopeStep, BeginRollbackStep, RemoveResourceStep, MarkRemovedStep,
     RemoveRecordsStep, RemoveFailsStep, FinishRollbackStep DEF RollbackStep
<1>5. CASE DeletionStepOf(p)
  BY <1>1, <1>5, ReleaseReferencesStep, RemoveRuntimeFilesStep, ForgetTaskStep DEF DeletionStepOf
<1>6. QED BY <1>2, <1>3, <1>4, <1>5 DEF Step

\* Every request preserves the invariant.
LEMMA RequestInv ==
  ASSUME Inv, ~ScopeMayAge, AdminRequests
  PROVE  Inv'
<1>1. PICK a \in Admins : Context(a) /\ Request(a) BY DEF AdminRequests, Context
<1>2. QED BY <1>1, RetryStep, ConfirmStep, AbandonStep, DeleteStep DEF Request

\* Every step preserves the invariant.
LEMMA NextInv ==
  ASSUME Inv, ~ScopeMayAge, [Next]_vars
  PROVE  Inv'
BY QueueTargetStep, RequestInv, StepInv, LeaseEnds, CrashStep, RestartStep, Stutter DEF Next

\* The inductive invariant holds of every behaviour: whatever the worker, the
\* requests of both panels, crashes and lapses of the lease do in between, each
\* process finds at its next step what it relies on there.
THEOREM InductiveInvariant == ASSUME ~ScopeMayAge PROVE Spec => []Inv
<1>1. Init => Inv BY InitInv
<1>2. Inv /\ [Next]_vars => Inv' BY NextInv
<1>3. QED BY <1>1, <1>2, PTL DEF Spec

\* Every variable has its type; no row has a lease without an owner or an owner
\* without a lease, and no operation has a scope outside of its rollback.
THEOREM TypeCorrect == ASSUME ~ScopeMayAge PROVE Spec => []TypeOK
<1>1. Inv => TypeOK BY TypeSplit DEF Inv, ProcInv, ProcTypes, DataInv
<1>2. QED BY <1>1, InductiveInvariant, PTL

\* Whatever a task has left on the server can be found again: the ledger of a row
\* that is there owns it, and a row is forgotten only when nothing is left but
\* what belongs to a live website (createAndRecord, publish, cleanup, delete).
THEOREM LedgerCoversAll == ASSUME ~ScopeMayAge PROVE Spec => []LedgerCovers
<1>1. Inv => LedgerCovers BY DEF Inv, DataInv, CoverInv
<1>2. QED BY <1>1, InductiveInvariant, PTL

\* An abandoned task has left nothing: no resource, no record of a website, nothing
\* in the ledger, no lock (rollback, whatever failed or was repeated before).
THEOREM AbandonedLeavesNothing == ASSUME ~ScopeMayAge PROVE Spec => []AbandonedIsClean
<1>1. Inv => AbandonedIsClean BY DEF Inv, DataInv, CoverInv
<1>2. QED BY <1>1, InductiveInvariant, PTL

\* Website, lock and stage change at once: a quiet website is locked and in the
\* ledger, a live one is neither locked nor in a stage that prepares it (commit
\* of the activation, and the rollback of an activated task).
THEOREM ActivationIsAtomic == ASSUME ~ScopeMayAge PROVE Spec => []ActivationAtomic
<1>1. Inv => ActivationAtomic BY DEF Inv, DataInv, WebsiteInv
<1>2. QED BY <1>1, InductiveInvariant, PTL

-----------------------------------------------------------------------------
\* The website.

\* Only four steps touch the website.
LEMMA WebsiteSteps ==
  ASSUME [Next]_vars, website' # website
  PROVE  InsertWebsite \/ \E p \in Procs : CommitActivation(p) \/ BeginRollback(p) \/ RemoveRecords(p)
<1>1. ~QueueTarget /\ ~LeaseExpires /\ ~LeaseLapses /\ ~Crash /\ ~Restart
  BY DEF QueueTarget, LeaseExpires, LeaseLapses, Crash, Restart
<1>2. ~AdminRequests BY DEF AdminRequests, Request, Retry, Confirm, Abandon, Delete, dbVars
<1>3. Next BY DEF vars, dbVars
<1>4. PICK p \in Procs : Step(p) BY <1>1, <1>2, <1>3 DEF Next
<1>5. CASE WorkerStep
  BY <1>5 DEF WorkerStep, ClaimNext, Loop, HeartbeatRefused, ReleaseClaim, TransferBegin, TransferFails, PrepareFiles,
     Finalize, PrepareFails, BeginCreation, PublishBegin, ConfigureBegin, RecordIntent, Make, MakeFails, MarkPublished,
     PublishCommit, HealthFails, HealthCommit, Await, HandleFailure, dbVars
<1>6. CASE ActivationStep(p)
  BY <1>6 DEF ActivationStep, BeginActivation, ResumeActivation, ActivationFails, RuntimeSync, FinishActivation, dbVars
<1>7. CASE RollbackStep(p)
  BY <1>7 DEF RollbackStep, LoadRollbackScope, RemoveResource, MarkRemoved, RemoveFails, FinishRollback, dbVars
<1>8. CASE DeletionStepOf(p)
  BY <1>8 DEF DeletionStepOf, ReleaseReferences, RemoveRuntimeFiles, ForgetTask, dbVars
<1>9. QED BY <1>4, <1>5, <1>6, <1>7, <1>8 DEF Step

\* A removal that is under way has no live website before it.
LEMMA RemovedIsNotLive ==
  ASSUME Inv, NEW p \in Procs, RemoveRecords(p)
  PROVE  website # "live"
<1>1. Ended /\ Exists BY DEF Inv, ProcInv, RemovalAt, RemoveRecords, At
<1>2. row.stage \notin LiveStages BY <1>1 DEF Ended, LiveStages
<1>3. QED BY <1>1, <1>2 DEF Inv, DataInv, WebsiteInv, ActivationAtomic, LiveStages

\* A website that went live is taken back only by a rollback that an administrator
\* asked for knowing that it is live; no failure and no deletion does it.
THEOREM LiveSitesStay == ASSUME ~ScopeMayAge PROVE Spec => LiveSiteKept
<1>1. ASSUME Inv, [Next]_vars, website = "live", website' # "live"
      PROVE  \E p \in Procs : proc[p].step = "begin_rollback" /\ proc[p].op = "abandonActivated"
  <2>1. InsertWebsite \/ \E p \in Procs : CommitActivation(p) \/ BeginRollback(p) \/ RemoveRecords(p)
    BY <1>1, WebsiteSteps
  <2>2. ~InsertWebsite BY <1>1 DEF InsertWebsite
  <2>3. \A p \in Procs : ~CommitActivation(p) /\ ~RemoveRecords(p)
    BY <1>1, RemovedIsNotLive DEF CommitActivation
  <2>4. PICK p \in Procs : BeginRollback(p) BY <2>1, <2>2, <2>3
  <2>5. proc[p].step = "begin_rollback" /\ Exists BY <1>1, <2>4 DEF BeginRollback, At
  <2>6. Activated
    BY <1>1, <2>5 DEF Inv, DataInv, WebsiteInv, ActivationAtomic, Activated
  <2>7. MayForce(p) /\ proc[p].op # "delete" BY <1>1, <2>5, <2>6 DEF Inv, ProcInv, DecidingAt
  <2>8. QED BY <2>5, <2>7 DEF MayForce
<1>2. Inv /\ [Next]_vars => [website = "live" /\ website' # "live" =>
        \E p \in Procs : proc[p].step = "begin_rollback" /\ proc[p].op = "abandonActivated"]_vars
  BY <1>1
<1>3. QED BY <1>2, InductiveInvariant, PTL DEF Spec, LiveSiteKept

-----------------------------------------------------------------------------
\* The refinement: what the sending panel sees of a row.

AtWork  == {"queued", "running", "awaiting_cutover"}
Stopped == {"failed_retryable", "interrupted_unknown"}
Unready == {"preflight_passed", "transferring", "preparing_target"}

\* What the sending panel sees of a row.
PhaseTable ==
  /\ row.status = "gone" => Phase = "gone"
  /\ row.status = "draft" => Phase = "draft"
  /\ row.stage = "abandoned" => Phase = "abandoned"
  /\ row.stage = "cancelling" => Phase = "removing"
  /\ Exists /\ row.stage \in LiveStages => Phase = "live"
  /\ row.stage \notin LiveStages \cup {"cancelling", "abandoned"} =>
       /\ row.status \in Stopped => Phase = "stopped"
       /\ row.status \in AtWork => Phase = "working"

\* The table holds of every row of the invariant.
LEMMA PhaseIsTabulated == RowInv => PhaseTable
<1> SUFFICES ASSUME RowInv PROVE PhaseTable OBVIOUS
<1>1. row.stage = "abandoned" => Phase = "abandoned" BY DEF RowInv, Phase, Exists
<1>2. row.stage = "cancelling" => Phase = "removing" BY DEF RowInv, Phase, Exists
<1>3. ASSUME Exists, row.stage \in LiveStages PROVE Phase = "live"
  <2>1. row.status \notin {"gone", "draft", "abandoned"} /\ row.stage # "cancelling"
    BY <1>3 DEF RowInv, Exists, LiveStages
  <2>2. QED BY <1>3, <2>1 DEF Phase, LiveStages
<1>4. ASSUME row.stage \notin LiveStages \cup {"cancelling", "abandoned"}
      PROVE  /\ row.status \in Stopped => Phase = "stopped"
             /\ row.status \in AtWork => Phase = "working"
  BY <1>4 DEF RowInv, Phase, Exists, LiveStages, Stopped, AtWork
<1>5. (row.status = "gone" => Phase = "gone") /\ (row.status = "draft" => Phase = "draft")
  BY DEF RowInv, NoTask, Phase, Exists
<1>6. QED BY <1>1, <1>2, <1>3, <1>4, <1>5 DEF PhaseTable

\* A step that the sending panel expects, or does not see.
Expected == [Promise!NextTarget]_(Promise!targetVars)

\* The table holds before and after a step.
LEMMA Tables == ASSUME Inv, Inv' PROVE PhaseTable /\ PhaseTable' /\ RowInv /\ RowInv' /\ row \in RowRecords
<1>1. RowInv => PhaseTable BY PhaseIsTabulated
<1>2. (RowInv => PhaseTable)' BY PhaseIsTabulated, PTL
<1>3. RowInv /\ RowInv' /\ row \in RowRecords BY DEF Inv, DataInv, DataTypes
<1>4. QED BY <1>1, <1>2, <1>3

\* A step that keeps status, stage and liveness is not seen.
LEMMA Unseen ==
  ASSUME row'.status = row.status, row'.stage = row.stage, (website' = "live") = (website = "live")
  PROVE  Expected
<1>1. Phase' = Phase BY DEF Phase
<1>2. Received' = Received BY DEF Received, Exists
<1>3. QED BY <1>1, <1>2 DEF Expected, Promise!targetVars

\* A step that keeps row and website is not seen.
LEMMA UnseenRow ==
  ASSUME UNCHANGED <<row, website>>
  PROVE  Expected
BY Unseen

\* The task goes on in its stage, or in one that is seen like it.
LEMMA WorkGoesOn ==
  ASSUME Inv, Inv', website' = website, row.status \in AtWork, row'.status \in AtWork,
         row'.stage = row.stage \/ {row.stage, row'.stage} \cap (LiveStages \cup {"cancelling", "abandoned"}) = {},
         row.stage \in Unready <=> row'.stage \in Unready
  PROVE  Expected
<1>1. PhaseTable /\ PhaseTable' /\ RowInv /\ RowInv' BY Tables
<1>2. Exists /\ Exists' BY DEF Exists, AtWork
<1>3. Received' = Received BY <1>2 DEF Received, Unready
<1>4. row.stage \notin {"cancelling", "abandoned"} BY <1>1 DEF RowInv, AtWork
<1>5. Phase' = Phase
  <2>1. CASE row.stage \in LiveStages
    <3>1. row'.stage \in LiveStages BY <2>1
    <3>2. QED BY <1>1, <1>2, <2>1, <3>1 DEF PhaseTable
  <2>2. CASE row.stage \notin LiveStages
    <3>1. row'.stage \notin LiveStages \cup {"cancelling", "abandoned"} BY <1>4, <2>2
    <3>2. QED BY <1>1, <1>4, <2>2, <3>1 DEF PhaseTable
  <2>3. QED BY <2>1, <2>2
<1>6. QED BY <1>3, <1>5 DEF Expected, Promise!targetVars

\* A failure is recorded, or an interruption.
LEMMA TaskStops ==
  ASSUME Inv, Inv', website' = website, row.status \in AtWork \cup Stopped, row'.status \in Stopped,
         \/ row'.stage = row.stage
         \/ row.status \in AtWork /\ row.stage \notin LiveStages /\ row'.stage = "interrupted_unknown"
  PROVE  Expected
<1>1. PhaseTable /\ PhaseTable' /\ RowInv /\ RowInv' BY Tables
<1>2. Exists /\ Exists' BY DEF Exists, AtWork, Stopped
<1>3. row.stage \notin {"cancelling", "abandoned"} BY <1>1 DEF RowInv, AtWork, Stopped
<1>4. CASE row.stage \in LiveStages
  <2>1. row'.stage = row.stage BY <1>4
  <2>2. Phase' = Phase BY <1>1, <1>2, <1>4, <2>1 DEF PhaseTable
  <2>3. Received' = Received BY <1>2, <2>1 DEF Received
  <2>4. QED BY <2>2, <2>3 DEF Expected, Promise!targetVars
<1>5. CASE row.stage \notin LiveStages
  <2>1. row'.stage \notin LiveStages \cup {"cancelling", "abandoned"} BY <1>3, <1>5 DEF LiveStages
  <2>2. Phase' = "stopped" BY <1>1, <2>1 DEF PhaseTable
  <2>3. Received' = Received \/ Received'
    <3>1. CASE row'.stage = row.stage BY <1>2, <3>1 DEF Received
    <3>2. CASE row'.stage = "interrupted_unknown" BY <1>2, <3>2 DEF Received
    <3>3. QED BY <3>1, <3>2
  <2>4. CASE row.status \in AtWork
    <3>1. Phase = "working" BY <1>1, <1>3, <1>5, <2>4 DEF PhaseTable
    <3>2. Promise!StopTarget BY <2>2, <2>3, <3>1 DEF Promise!StopTarget, Received, Exists
    <3>3. QED BY <3>2 DEF Expected, Promise!NextTarget
  <2>5. CASE row.status \in Stopped
    <3>1. Phase = "stopped" BY <1>1, <1>3, <1>5, <2>5 DEF PhaseTable
    <3>2. row'.stage = row.stage BY <2>5 DEF AtWork, Stopped
    <3>3. Received' = Received BY <1>2, <3>2 DEF Received
    <3>4. QED BY <2>2, <3>1, <3>3 DEF Expected, Promise!targetVars
  <2>6. QED BY <2>4, <2>5
<1>6. QED BY <1>4, <1>5

\* A failed task is taken up again.
LEMMA TaskIsRetried ==
  ASSUME Inv, Inv', website' = website, row.status = "failed_retryable", row'.status \in {"queued", "running"},
         row'.stage = row.stage, row.stage \notin LiveStages
  PROVE  Expected
<1>1. PhaseTable /\ PhaseTable' /\ RowInv BY Tables
<1>2. row.stage \notin LiveStages \cup {"cancelling", "abandoned"} BY <1>1 DEF RowInv
<1>3. Phase = "stopped" /\ Phase' = "working" BY <1>1, <1>2 DEF PhaseTable, Stopped, AtWork
<1>4. Received' = Received BY DEF Received, Exists
<1>5. Promise!RetryTarget BY <1>3, <1>4 DEF Promise!RetryTarget
<1>6. QED BY <1>5 DEF Expected, Promise!NextTarget

\* A failure at the stages of a batch of statuses.
LEMMA StatusIsSet ==
  ASSUME Inv, Inv', website' = website, NEW st \in SUBSET FailableStages, SetStatusIn(st, "failed_retryable")
  PROVE  Expected
<1>1. CASE Exists /\ row.stage \in st
  <2>1. row \in RowRecords /\ RowInv BY Tables
  <2>2. row'.status = "failed_retryable" /\ row'.stage = row.stage
    BY <1>1, <2>1, SetStatusEffect DEF SetStatusIn, Statuses
  <2>3. row.stage \notin {"preflight_passed", "cancelling", "abandoned", "completed"} BY <1>1 DEF FailableStages
  <2>4. row.status \in AtWork \cup Stopped
    BY <1>1, <2>1, <2>3 DEF RowInv, RowRecords, Statuses, Exists, AtWork, Stopped
  <2>5. QED BY <2>2, <2>4, TaskStops DEF Stopped
<1>2. CASE ~(Exists /\ row.stage \in st) BY <1>2, UnseenRow DEF SetStatusIn
<1>3. QED BY <1>1, <1>2

\* The worker records an outcome it does not know.
LEMMA TaskIsUnknown ==
  ASSUME Inv, Inv', website' = website, Unknown, proc[Worker].step \in Working, ~lapsed
  PROVE  Expected
<1>1. Exists /\ row.status = "running" /\ row.stage \notin LateStages BY WorkingFacts
<1>2. row'.status = "interrupted_unknown" /\ row'.stage = "interrupted_unknown"
  BY <1>1, Tables DEF Unknown, RowRecords
<1>3. QED BY <1>1, <1>2, TaskStops DEF LateStages, LiveStages, AtWork, Stopped

\* A task that is live remains live.
LEMMA StaysLive ==
  ASSUME Inv, Inv', website' = website, row.stage \in LiveStages, row'.stage \in LiveStages, row'.status # "gone"
  PROVE  Expected
<1>1. PhaseTable /\ PhaseTable' /\ RowInv BY Tables
<1>2. Exists /\ Exists' BY <1>1 DEF RowInv, Exists, NoTask, LiveStages
<1>3. Phase' = Phase BY <1>1, <1>2 DEF PhaseTable
<1>4. Received' = Received BY <1>2 DEF Received, LiveStages
<1>5. QED BY <1>3, <1>4 DEF Expected, Promise!targetVars

-----------------------------------------------------------------------------
\* The steps of the worker and of an activation, as the sending panel sees them.

\* These steps are not seen.
LEMMA UnseenSteps ==
  ASSUME NEW p, \/ Loop \/ HeartbeatRefused \/ PrepareFiles \/ PrepareFails \/ Make \/ HandleFailure
                \/ LoadRollbackScope(p) \/ RemoveResource(p) \/ MarkRemoved(p) \/ RemoveRuntimeFiles(p)
                \/ Confirm(p) \/ Abandon(p) \/ Delete(p)
  PROVE  Expected
<1>1. UNCHANGED <<row, website>>
  BY DEF Loop, HeartbeatRefused, PrepareFiles, PrepareFails, Make, HandleFailure, LoadRollbackScope,
     RemoveResource, MarkRemoved, RemoveRuntimeFiles, Confirm, Abandon, Delete, dbVars
<1>2. QED BY <1>1, UnseenRow

\* QueueTarget is QueueTarget of the promise.
LEMMA QueueIsExpected ==
  ASSUME Inv, Inv', QueueTarget
  PROVE  Expected
<1>1. PhaseTable /\ PhaseTable' /\ RowInv /\ row \in RowRecords BY Tables
<1>2. /\ row.status = "draft" /\ row'.status = "queued" /\ row'.stage = row.stage /\ website' = website
      /\ row.stage = "preflight_passed"
  BY <1>1, SetRowEffect DEF QueueTarget, RowInv, RowRecords, Statuses
<1>3. Phase = "draft" /\ Phase' = "working" BY <1>1, <1>2 DEF PhaseTable, AtWork, LiveStages
<1>4. Received' = Received BY <1>2 DEF Received, Exists
<1>5. Promise!QueueTarget BY <1>2, <1>3, <1>4 DEF Promise!QueueTarget
<1>6. QED BY <1>5 DEF Expected, Promise!NextTarget

\* ClaimNext is not seen; ReleaseClaim is not seen or stops the task.
LEMMA ClaimsAreExpected ==
  ASSUME Inv, Inv', ClaimNext \/ ReleaseClaim
  PROVE  Expected
<1>1. website' = website /\ row \in RowRecords BY Tables DEF ClaimNext, ReleaseClaim
<1>2. CASE ClaimNext
  <2>1. row.status = "queued" /\ row'.status = "running" /\ row'.stage = row.stage
    BY <1>1, <1>2 DEF ClaimNext, RowRecords
  <2>2. QED BY <1>1, <2>1, WorkGoesOn DEF AtWork
<1>3. CASE ReleaseClaim
  <2>1. \/ row'.status = row.status /\ row'.stage = row.stage
        \/ row.status \in AtWork /\ row'.status = "failed_retryable" /\ row'.stage = row.stage
    BY <1>1, <1>3 DEF ReleaseClaim, RowRecords, AtWork
  <2>2. QED BY <1>1, <2>1, Unseen, TaskStops DEF Stopped
<1>4. QED BY <1>2, <1>3

\* The steps of the transfer are not seen, or stop the task.
LEMMA TransferIsExpected ==
  ASSUME Inv, Inv', ~lapsed, TransferBegin \/ TransferFails \/ Finalize
  PROVE  Expected
<1>1. website' = website /\ row \in RowRecords BY Tables DEF TransferBegin, TransferFails, Finalize
<1>2. CASE TransferBegin
  <2>1. CASE UNCHANGED row BY <1>1, <2>1, UnseenRow
  <2>2. CASE row.status = "running" /\ row.stage = "preflight_passed" /\ SetRow("running", "transferring")
    <3>1. row'.status = "running" /\ row'.stage = "transferring"
      BY <1>1, <2>2, SetRowEffect DEF Statuses, Stages
    <3>2. QED BY <1>1, <2>2, <3>1, WorkGoesOn DEF AtWork, Unready, LiveStages
  <2>3. QED BY <1>2, <2>1, <2>2 DEF TransferBegin
<1>3. CASE TransferFails
  <2>1. \/ UNCHANGED row
        \/ row.status = "running" /\ row'.status = "failed_retryable" /\ row'.stage = row.stage
    BY <1>1, <1>3 DEF TransferFails, RowRecords
  <2>2. QED BY <1>1, <2>1, UnseenRow, TaskStops DEF AtWork, Stopped
<1>4. CASE Finalize
  <2>1. row.status = "running"
    BY <1>4, WorkingFacts DEF Finalize, At, Working
  <2>2. row.stage = "transferring" /\ row'.status = "running" /\ row'.stage = "preparing_target"
    BY <1>1, <1>4, <2>1 DEF Finalize, Authorized, SetRow, RowRecords
  <2>3. QED BY <1>1, <2>1, <2>2, WorkGoesOn DEF AtWork, Unready, LiveStages
<1>5. QED BY <1>2, <1>3, <1>4

\* BeginCreation is ReceiveTarget: the sending panel is not asked any more.
LEMMA CreationIsExpected ==
  ASSUME Inv, Inv', ~lapsed, BeginCreation
  PROVE  Expected
<1>1. /\ website' = website /\ row \in RowRecords /\ RowInv /\ PhaseTable /\ PhaseTable' /\ row.status = "running"
  BY Tables, WorkingFacts DEF BeginCreation, At, Working
<1>2. row.stage = "preparing_target" /\ row'.status = "running" /\ row'.stage = "publishing"
  BY <1>1, SetRowEffect DEF BeginCreation, Statuses, Stages
<1>3. Phase = "working" /\ Phase' = "working" BY <1>1, <1>2 DEF PhaseTable, AtWork, LiveStages
<1>4. Received = FALSE /\ Received' = TRUE BY <1>2 DEF Received, Exists
<1>5. Promise!ReceiveTarget BY <1>1, <1>3, <1>4 DEF Promise!ReceiveTarget
<1>6. QED BY <1>5 DEF Expected, Promise!NextTarget

\* Without a lapse PublishBegin and ConfigureBegin find their stage running, and are not seen.
LEMMA StagesAreExpected ==
  ASSUME Inv, Inv', ~lapsed, PublishBegin \/ ConfigureBegin
  PROVE  Expected
<1>1. /\ website' = website /\ row \in RowRecords /\ row.status = "running"
  BY Tables, WorkingFacts DEF PublishBegin, ConfigureBegin, At, Working
<1>2. row'.status = row.status /\ row'.stage = row.stage
  BY <1>1, SetRowEffect DEF PublishBegin, ConfigureBegin, Resumable, RowRecords
<1>3. QED BY <1>1, <1>2, Unseen

\* A resource.
LEMMA ResourcesAreExpected ==
  ASSUME Inv, Inv', ~lapsed, RecordIntent \/ MakeFails \/ MarkPublished \/ PublishCommit
  PROVE  Expected
<1>1. website' = website /\ row \in RowRecords
  BY Tables DEF RecordIntent, MakeFails, MarkPublished, PublishCommit
<1>2. proc[Worker].step \in Working BY DEF RecordIntent, MakeFails, MarkPublished, PublishCommit, At, Working
<1>3. CASE UNCHANGED row BY <1>1, <1>3, UnseenRow
<1>4. CASE Unknown BY <1>1, <1>2, <1>4, TaskIsUnknown
<1>5. CASE MakeFails
  <2>1. \/ Unknown \/ SetStatusIn({"publishing"}, "failed_retryable")
        \/ proc[Worker].op \in Published /\ SetStatusIn({StageOf[proc[Worker].op]}, "failed_retryable")
    BY <1>5 DEF MakeFails
  <2>2. proc[Worker].op \in Published => StageOf[proc[Worker].op] \in FailableStages
    BY DEF Published, StageOf, FailableStages
  <2>3. "publishing" \in FailableStages BY DEF FailableStages
  <2>4. QED BY <1>1, <1>4, <2>1, <2>2, <2>3, StatusIsSet
<1>6. CASE PublishCommit
  <2>1. CASE row.status = "running" /\ row.stage = "publishing" /\ SetRow("running", "configuring_target")
    <3>1. row'.status = "running" /\ row'.stage = "configuring_target"
      BY <1>1, <2>1, SetRowEffect DEF Statuses, Stages
    <3>2. QED BY <1>1, <2>1, <3>1, WorkGoesOn DEF AtWork, Unready, LiveStages
  <2>2. QED BY <1>4, <1>6, <2>1 DEF PublishCommit
<1>7. QED BY <1>3, <1>4, <1>5, <1>6 DEF RecordIntent, MarkPublished

\* The steps up to the cutover are not seen, or stop the task.
LEMMA WebsiteIsExpected ==
  ASSUME Inv, Inv', ~lapsed, InsertWebsite \/ HealthFails \/ HealthCommit \/ Await
  PROVE  Expected
<1>1. row \in RowRecords BY Tables
<1>2. "configuring_target" \in FailableStages BY DEF FailableStages
<1>3. CASE InsertWebsite
  <2>1. CASE UNCHANGED <<row, website>> BY <2>1, UnseenRow
  <2>2. CASE UNCHANGED row /\ website = "none" /\ website' = "quiet" BY <2>2, Unseen
  <2>3. CASE website' = website /\ SetStatusIn({"configuring_target"}, "failed_retryable")
    BY <1>2, <2>3, StatusIsSet
  <2>4. QED BY <1>3, <2>1, <2>2, <2>3 DEF InsertWebsite
<1>4. CASE HealthFails BY <1>2, <1>4, StatusIsSet DEF HealthFails
<1>5. CASE HealthCommit
  <2>1. website' = website /\ proc[Worker].step \in Working BY <1>5 DEF HealthCommit, At, Working
  <2>2. CASE Unknown BY <2>1, <2>2, TaskIsUnknown
  <2>3. CASE /\ row.status = "running" /\ row.stage = "configuring_target"
             /\ row' = [row EXCEPT !.status = "awaiting_cutover", !.stage = "awaiting_cutover", !.site = TRUE]
    <3>1. row'.status = "awaiting_cutover" /\ row'.stage = "awaiting_cutover" BY <1>1, <2>3 DEF RowRecords
    <3>2. QED BY <2>1, <2>3, <3>1, WorkGoesOn DEF AtWork, Unready, LiveStages
  <2>4. QED BY <1>5, <2>2, <2>3 DEF HealthCommit
<1>6. CASE Await
  <2>1. website' = website BY <1>6 DEF Await
  <2>2. CASE UNCHANGED row BY <2>1, <2>2, UnseenRow
  <2>3. CASE row.status = "running" /\ SetRow("awaiting_cutover", row.stage)
    <3>1. row'.status = "awaiting_cutover" /\ row'.stage = row.stage
      BY <1>1, <2>3 DEF SetRow, RowRecords
    <3>2. QED BY <2>1, <2>3, <3>1, WorkGoesOn DEF AtWork
  <2>4. QED BY <1>6, <2>2, <2>3 DEF Await
<1>7. QED BY <1>3, <1>4, <1>5, <1>6

\* CommitActivation is ActivateTarget; the steps around it are not seen, stop the task or retry it.
LEMMA ActivationIsExpected ==
  ASSUME Inv, Inv', NEW p \in Procs, ActivationStep(p)
  PROVE  Expected
<1>1. row \in RowRecords /\ RowInv /\ PhaseTable /\ PhaseTable' BY Tables
<1>2. CASE BeginActivation(p)
  <2>1. website' = website BY <1>2 DEF BeginActivation
  <2>2. CASE UNCHANGED row BY <2>1, <2>2, UnseenRow
  <2>3. CASE row.status = "awaiting_cutover" /\ row.stage = "awaiting_cutover" /\ SetRow("running", "activating_target")
    <3>1. row'.status = "running" /\ row'.stage = "activating_target"
      BY <1>1, <2>3, SetRowEffect DEF Statuses, Stages
    <3>2. QED BY <2>1, <2>3, <3>1, WorkGoesOn DEF AtWork, Unready, LiveStages
  <2>4. QED BY <1>2, <2>2, <2>3 DEF BeginActivation, CutoverState
<1>3. CASE ResumeActivation(p)
  <2>1. website' = website BY <1>3 DEF ResumeActivation
  <2>2. CASE UNCHANGED row BY <2>1, <2>2, UnseenRow
  <2>3. CASE /\ row.stage = "activating_target" /\ row.status = "failed_retryable"
             /\ row' = [row EXCEPT !.status = "running"]
    <3>1. row'.status = "running" /\ row'.stage = row.stage BY <1>1, <2>3 DEF RowRecords
    <3>2. QED BY <2>1, <2>3, <3>1, TaskIsRetried DEF LiveStages
  <2>4. QED BY <1>3, <2>2, <2>3 DEF ResumeActivation, CutoverState
<1>4. CASE ActivationFails(p)
  BY <1>4, StatusIsSet DEF ActivationFails, FailableStages
<1>5. CASE CommitActivation(p)
  <2>1. /\ row.stage = "activating_target" /\ website' = "live"
        /\ row'.status = "running" /\ row'.stage = "activation_runtime_sync"
    BY <1>1, <1>5, SetRowEffect DEF CommitActivation, Statuses, Stages
  <2>2. row.status \in AtWork \cup Stopped
    BY <1>1, <2>1 DEF RowInv, RowRecords, Statuses, AtWork, Stopped, Exists, NoTask
  <2>3. Phase \in {"working", "stopped"} BY <1>1, <2>1, <2>2 DEF PhaseTable, LiveStages
  <2>4. Exists /\ Exists' BY <2>1, <2>2 DEF Exists, AtWork, Stopped
  <2>5. Phase' = "live" BY <1>1, <2>1, <2>4 DEF PhaseTable, LiveStages
  <2>6. Received /\ Received' BY <2>1, <2>4 DEF Received
  <2>7. Promise!ActivateTarget BY <2>1, <2>3, <2>5, <2>6 DEF Promise!ActivateTarget, Received
  <2>8. QED BY <2>7 DEF Expected, Promise!NextTarget
<1>6. CASE RuntimeSync(p)
  <2>1. website' = website BY <1>6 DEF RuntimeSync
  <2>2. CASE UNCHANGED row BY <2>1, <2>2, UnseenRow
  <2>3. CASE /\ row.stage = "activation_runtime_sync" /\ row.status = "failed_retryable"
             /\ row' = [row EXCEPT !.status = "running"]
    <3>1. row'.status = "running" /\ row'.stage = row.stage BY <1>1, <2>3 DEF RowRecords
    <3>2. QED BY <1>1, <2>1, <2>3, <3>1, StaysLive DEF LiveStages
  <2>4. QED BY <1>6, <2>2, <2>3 DEF RuntimeSync
<1>7. CASE FinishActivation(p)
  <2>1. website' = website BY <1>7 DEF FinishActivation
  <2>2. CASE SetStatusIn({"activation_runtime_sync"}, "failed_retryable")
    BY <2>1, <2>2, StatusIsSet DEF FailableStages
  <2>3. CASE row.stage = "activation_runtime_sync" /\ SetRow("completed", "completed")
    <3>1. row'.status = "completed" /\ row'.stage = "completed"
      BY <1>1, <2>3, SetRowEffect DEF Statuses, Stages
    <3>2. QED BY <1>1, <2>1, <2>3, <3>1, StaysLive DEF LiveStages
  <2>4. QED BY <1>7, <2>2, <2>3 DEF FinishActivation
<1>8. QED BY <1>2, <1>3, <1>4, <1>5, <1>6, <1>7 DEF ActivationStep

-----------------------------------------------------------------------------
\* Rollback, deletion, requests and time, as the sending panel sees them.

\* BeginRollback is RemoveTarget.
LEMMA RollbackIsExpected ==
  ASSUME Inv, Inv', NEW p \in Procs, BeginRollback(p)
  PROVE  Expected
<1>1. row \in RowRecords /\ RowInv /\ PhaseTable /\ PhaseTable' /\ WebsiteInv /\ DecidingAt(p)
  BY Tables DEF Inv, ProcInv, DataInv
<1>2. CASE UNCHANGED <<row, website>> BY <1>2, UnseenRow
<1>3. CASE /\ SetRow("cancelling", "cancelling") /\ website' = IF proc[p].site THEN "quiet" ELSE website
  <2>1. row'.status = "cancelling" /\ row'.stage = "cancelling"
    BY <1>1, <1>3, SetRowEffect DEF Statuses, Stages
  <2>2. InScope /\ proc[p].site = Recorded BY <1>1 DEF BeginRollback, At, DecidingAt
  <2>3. row.stage = "cancelling" \/ row.stage \in RollbackStages BY <1>1, <2>2 DEF InScope, RowInv
  <2>4. row.stage \notin Unready \cup {"abandoned"} BY <2>2, <2>3 DEF InScope, RollbackStages, Unready
  <2>5. Exists /\ row.status \notin {"gone", "draft", "abandoned"}
    BY <1>1, <2>2, <2>4 DEF RowInv, InScope, Exists, Unready
  <2>6. Phase \in {"working", "stopped", "removing", "live"}
    <3>1. row.status \in AtWork \cup Stopped \/ row.stage \in LiveStages \cup {"cancelling"}
      BY <1>1, <2>5 DEF RowInv, RowRecords, Statuses, AtWork, Stopped, LiveStages
    <3>2. QED BY <1>1, <2>4, <2>5, <3>1 DEF PhaseTable
  <2>7. Phase' = "removing" BY <1>1, <2>1 DEF PhaseTable
  <2>8. Received /\ Received' BY <2>1, <2>4, <2>5 DEF Received, Exists, Unready
  <2>9. website' # "live" BY <1>1, <1>3, <2>2, <2>5 DEF WebsiteInv
  <2>10. Promise!RemoveTarget(TRUE)
    BY <2>6, <2>7, <2>8, <2>9 DEF Promise!RemoveTarget, Received
  <2>11. QED BY <2>10 DEF Expected, Promise!NextTarget
<1>4. QED BY <1>2, <1>3 DEF BeginRollback

\* FinishRollback is FinishRemovalOfTarget; the removals before it are not seen.
LEMMA RemovalIsExpected ==
  ASSUME Inv, Inv', NEW p \in Procs, RemoveRecords(p) \/ RemoveFails(p) \/ FinishRollback(p)
  PROVE  Expected
<1>1. row \in RowRecords /\ RowInv /\ PhaseTable /\ PhaseTable' BY Tables
<1>2. CASE RemoveRecords(p)
  <2>1. row'.status = row.status /\ row'.stage = row.stage BY <1>1, <1>2 DEF RemoveRecords, RowRecords
  <2>2. website # "live" /\ website' # "live" BY <1>2, RemovedIsNotLive DEF RemoveRecords
  <2>3. QED BY <2>1, <2>2, Unseen
<1>3. ASSUME SetStatusIn({"cancelling"}, "cleanup_failed"), website' = website PROVE Expected
  <2>1. CASE Exists /\ row.stage = "cancelling"
    <3>1. row'.status = "cleanup_failed" /\ row'.stage = "cancelling"
      BY <1>1, <1>3, <2>1, SetStatusEffect DEF SetStatusIn, Statuses
    <3>2. Phase = "removing" /\ Phase' = "removing" BY <1>1, <2>1, <3>1 DEF PhaseTable
    <3>3. Received' = Received BY <2>1, <3>1 DEF Received, Exists
    <3>4. QED BY <1>3, <3>2, <3>3 DEF Expected, Promise!targetVars
  <2>2. CASE ~(Exists /\ row.stage = "cancelling") BY <1>3, <2>2, UnseenRow DEF SetStatusIn
  <2>3. QED BY <2>1, <2>2
<1>4. CASE RemoveFails(p) BY <1>3, <1>4 DEF RemoveFails
<1>5. CASE FinishRollback(p)
  <2>1. website' = website BY <1>5 DEF FinishRollback
  <2>2. CASE row.status = "cancelling" /\ SetRow("abandoned", "abandoned")
    <3>1. row'.status = "abandoned" /\ row'.stage = "abandoned"
      BY <1>1, <2>2, SetRowEffect DEF Statuses, Stages
    <3>2. row.stage = "cancelling" BY <1>1, <2>2 DEF RowInv
    <3>3. Phase = "removing" /\ Phase' = "abandoned" BY <1>1, <3>1, <3>2 DEF PhaseTable
    <3>4. Received' = Received BY <2>2, <3>1, <3>2 DEF Received, Exists
    <3>5. Promise!FinishRemovalOfTarget BY <2>1, <3>3, <3>4 DEF Promise!FinishRemovalOfTarget
    <3>6. QED BY <3>5 DEF Expected, Promise!NextTarget
  <2>3. QED BY <1>3, <1>5, <2>1, <2>2 DEF FinishRollback
<1>6. QED BY <1>2, <1>4, <1>5

\* ForgetTask is ForgetTarget; ReleaseReferences is not seen.
LEMMA DeletionIsExpected ==
  ASSUME Inv, Inv', NEW p \in Procs, ReleaseReferences(p) \/ ForgetTask(p)
  PROVE  Expected
<1>1. row \in RowRecords /\ RowInv /\ PhaseTable /\ PhaseTable' BY Tables
<1>2. CASE ReleaseReferences(p)
  <2>1. row'.status = row.status /\ row'.stage = row.stage /\ website' = website
    BY <1>1, <1>2 DEF ReleaseReferences, RowRecords
  <2>2. QED BY <2>1, Unseen
<1>3. CASE ForgetTask(p)
  <2>1. Exists BY <1>3 DEF Inv, ProcInv, DecidingAt, ForgetTask, At, Deciding
  <2>2. row'.status = "gone" /\ website' = website BY <1>3 DEF ForgetTask, NoTask
  <2>3. Phase' = "gone" /\ Received' = FALSE BY <1>1, <2>2 DEF PhaseTable, Received, Exists
  <2>4. Phase \notin {"none", "gone"}
    <3>1. \/ row.status \in AtWork \cup Stopped \cup {"draft"}
          \/ row.stage \in LiveStages \cup {"cancelling", "abandoned"}
      BY <1>1, <2>1 DEF RowInv, RowRecords, Statuses, AtWork, Stopped, LiveStages, Exists
    <3>2. QED BY <1>1, <2>1, <3>1 DEF PhaseTable
  <2>5. Promise!ForgetTarget BY <2>2, <2>3, <2>4 DEF Promise!ForgetTarget
  <2>6. QED BY <2>5 DEF Expected, Promise!NextTarget
<1>4. QED BY <1>2, <1>3

\* Retry is RetryTarget, or is not seen.
LEMMA RetryIsExpected ==
  ASSUME Inv, Inv', NEW a, Retry(a)
  PROVE  Expected
<1>1. row \in RowRecords /\ RowInv BY Tables
<1>2. website' = website /\ row.status = "failed_retryable" BY DEF Retry
<1>3. CASE UNCHANGED row BY <1>2, <1>3, UnseenRow
<1>4. CASE row.stage \notin {"activating_target", "activation_runtime_sync"} /\ SetRow("queued", row.stage)
  <2>1. row'.status = "queued" /\ row'.stage = row.stage BY <1>1, <1>4 DEF SetRow, RowRecords
  <2>2. row.stage \notin LiveStages BY <1>1, <1>2, <1>4 DEF RowInv, LiveStages
  <2>3. QED BY <1>2, <2>1, <2>2, TaskIsRetried
<1>5. QED BY <1>3, <1>4 DEF Retry

\* Time, crashes and restarts are not seen, or stop the task.
LEMMA SystemIsExpected ==
  ASSUME Inv, Inv', LeaseExpires \/ Crash \/ Restart
  PROVE  Expected
<1>1. row \in RowRecords /\ website' = website BY Tables DEF LeaseExpires, Crash, Restart
<1>2. \/ row'.status = row.status /\ row'.stage = row.stage
      \/ row.status = "awaiting_cutover" /\ row'.status = "queued" /\ row'.stage = row.stage
      \/ row.status = "running" /\ row'.status = "interrupted_unknown" /\ row'.stage = row.stage
  <2>1. CASE LeaseExpires BY <1>1, <2>1 DEF LeaseExpires, RowRecords
  <2>2. CASE Crash BY <1>1, <2>2 DEF Crash, RowRecords
  <2>3. CASE Restart BY <1>1, <2>3 DEF Restart, RowRecords
  <2>4. QED BY <2>1, <2>2, <2>3
<1>3. QED BY <1>1, <1>2, Unseen, WorkGoesOn, TaskStops DEF AtWork, Stopped

\* Every step of a process is expected, as long as no lease has lapsed.
LEMMA StepIsExpected ==
  ASSUME Inv, Inv', ~lapsed, NEW p \in Procs, Step(p)
  PROVE  Expected
<1>1. CASE WorkerStep
  BY <1>1, UnseenSteps, ClaimsAreExpected, TransferIsExpected, CreationIsExpected, StagesAreExpected,
     ResourcesAreExpected, WebsiteIsExpected DEF WorkerStep
<1>2. CASE ActivationStep(p) BY <1>2, ActivationIsExpected
<1>3. CASE RollbackStep(p)
  BY <1>3, UnseenSteps, RollbackIsExpected, RemovalIsExpected DEF RollbackStep
<1>4. CASE DeletionStepOf(p)
  BY <1>4, UnseenSteps, DeletionIsExpected DEF DeletionStepOf
<1>5. QED BY <1>1, <1>2, <1>3, <1>4 DEF Step

\* A lapse is remembered.
LEMMA LapseStays == ASSUME [Next]_vars, lapsed PROVE lapsed'
<1>1. CASE LeaseLapses BY <1>1 DEF LeaseLapses
<1>2. CASE QueueTarget \/ LeaseExpires \/ Crash \/ Restart \/ UNCHANGED vars
  BY <1>2 DEF QueueTarget, LeaseExpires, Crash, Restart, vars, history
<1>3. CASE AdminRequests
  BY <1>3 DEF AdminRequests, Request, Retry, Confirm, Abandon, Delete, history
<1>4. ASSUME NEW p \in Procs, Step(p) PROVE lapsed'
  <2>1. CASE WorkerStep
    BY <2>1 DEF WorkerStep, ClaimNext, Loop, HeartbeatRefused, ReleaseClaim, TransferBegin, TransferFails,
       PrepareFiles, Finalize, PrepareFails, BeginCreation, PublishBegin, ConfigureBegin, RecordIntent, Make, MakeFails,
       MarkPublished, PublishCommit, InsertWebsite, HealthFails, HealthCommit, Await, HandleFailure, history
  <2>2. CASE ActivationStep(p)
    BY <2>2 DEF ActivationStep, BeginActivation, ResumeActivation, ActivationFails, CommitActivation, RuntimeSync,
       FinishActivation, history
  <2>3. CASE RollbackStep(p)
    BY <2>3 DEF RollbackStep, LoadRollbackScope, BeginRollback, RemoveResource, MarkRemoved, RemoveRecords,
       RemoveFails, FinishRollback, history
  <2>4. CASE DeletionStepOf(p)
    BY <2>4 DEF DeletionStepOf, ReleaseReferences, RemoveRuntimeFiles, ForgetTask, history
  <2>5. QED BY <1>4, <2>1, <2>2, <2>3, <2>4 DEF Step
<1>5. QED BY <1>1, <1>2, <1>3, <1>4 DEF Next

\* Every step is expected, as long as no lease has lapsed.
LEMMA NextIsExpected ==
  ASSUME Inv, Inv', [Next]_vars, ~lapsed'
  PROVE  Expected
<1>1. ~lapsed BY LapseStays
<1>2. CASE UNCHANGED vars BY <1>2, UnseenRow DEF vars, dbVars
<1>3. CASE AdminRequests
  BY <1>3, UnseenSteps, RetryIsExpected DEF AdminRequests, Request
<1>4. ~LeaseLapses BY DEF LeaseLapses
<1>5. QED BY <1>1, <1>2, <1>3, <1>4, QueueIsExpected, StepIsExpected, SystemIsExpected DEF Next

\* The refinement: seen through its row, the task on the receiving panel takes only
\* the steps that TargetTask, and with it the sending panel, reckons with, as
\* long as no lease lapses.
THEOREM TargetKeepsItsPromise == ASSUME ~ScopeMayAge PROVE Spec => ImplementsTargetTask
<1>1. Inv /\ Inv' /\ [Next]_vars => [Promise!NextTarget \/ lapsed']_(Promise!targetVars)
  BY NextIsExpected DEF Expected
<1>2. QED BY <1>1, InductiveInvariant, PTL DEF Spec, ImplementsTargetTask

=============================================================================
