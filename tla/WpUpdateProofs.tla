--------------------------- MODULE WpUpdateProofs ---------------------------
(***************************************************************************)
(* Proofs about the updates of a site, for any batch, any components that  *)
(* are updated on their own, and any number of tasks, of requests to roll  *)
(* back, of failing steps and of restarts, whether they overlap or not.    *)
(*                                                                         *)
(* The argument: a task goes through its statuses in one direction (Moves),*)
(* and each process may rely on the status of the task it works on:        *)
(* who plans, on "preparing"; the worker, on "running" or, once the sweep  *)
(* has been there, "interrupted"; a request that rolls back, on "failed".  *)
(***************************************************************************)
EXTENDS WpUpdate, FiniteSetTheorems, WellFoundedInduction, TLAPS

\* A claim for a rollback is one on an undecided failure; a plan belongs to nobody.
OwnerInv ==
  \A t \in Tasks :
    /\ task[t].owner \in Rollbacks
         => task[t].status = "failed" /\ task[t].attention /\ task[t].disposition = "none"
    /\ task[t].status \in {"none", "preparing", "queued"} => task[t].owner = "none" /\ ~task[t].attention

\* Who downloads a package has the plan it is for.
PlanInv ==
  /\ request # NoTask => task[request].status = "preparing" /\ ~task[request].batch
  /\ batcher.pc = "download" => task[batcher.task].status = "preparing"
  /\ batcher.pc \in {"download", "mark"} => batcher.task \in ExistingTasks(batcher.key)

\* One task for each plugin of the batch, and none yet while its plan is considered.
OnceInv ==
  /\ \A p \in Plugins : \A t, u \in ExistingTasks(p) : t = u
  /\ batcher.pc = "preview" => ExistingTasks(batcher.key) = {}

\* What an item says of its task.
ItemInv ==
  /\ batcher.pc # "idle" => batch.status = "running" /\ item[batcher.key].status = "pending"
  /\ \A p \in Plugins :
       /\ batch.status # "none" => item[p].status # "none"
       /\ item[p].status = "dispatched" => item[p].task \in ExistingTasks(p)
       /\ item[p].status = "failed"
            => \A t \in ExistingTasks(p) : task[t].status = "failed" /\ ~task[t].attention

\* A unit writes for a task that runs or whose outcome is unknown; the worker and
\* the requests are at tasks they may work on.
UnitInv ==
  /\ \A t \in units : task[t].status \in {"running", "interrupted"}
  /\ worker.task \in units => worker.pc \in {"applying", "returned"}
  /\ worker.pc # "idle" => worker.task \in Tasks
  /\ worker.pc \notin {"idle", "returned"} => task[worker.task].status \in {"running", "interrupted"}
  /\ \A r \in Rollbacks :
       roller[r].pc # "idle" => roller[r].task \in Tasks /\ task[roller[r].task].status = "failed"

Inv == StateTypes /\ OwnerInv /\ PlanInv /\ OnceInv /\ ItemInv /\ CompletedIsDecided /\ UnitInv

-----------------------------------------------------------------------------
\* What a step may do to a task that it does not plan.
Moves(t) ==
  \/ task'[t] = task[t]
  \/ /\ task'[t].comp = task[t].comp /\ task'[t].batch = task[t].batch
     /\ \/ /\ task[t].status = "queued" /\ task'[t].status \in {"running", "failed"}
           /\ task'[t].owner \in {"none", "worker"}
        \/ /\ task[t].status = "running"
           /\ task'[t].status \in {"running", "success", "failed", "interrupted"}
           /\ task'[t].owner \in {"none", "worker", "gone"}
        \/ /\ task[t].status = "interrupted" /\ task'[t].status = "interrupted"
           /\ task'[t].owner = task[t].owner
           /\ task[t].disposition # "none" => task'[t].disposition # "none"
        \/ /\ task[t].status = "failed" /\ task'[t].status = "failed"
           /\ task'[t].attention => task[t].attention
           /\ task'[t].owner \in Rollbacks => task'[t].attention /\ task'[t].disposition = "none"
        \/ /\ task[t].status \notin {"none", "preparing", "queued"} /\ task'[t].status = task[t].status
           /\ task'[t].attention = task[t].attention /\ task'[t].disposition = task[t].disposition
           /\ task'[t].owner = "gone"

LEMMA TaskFacts == NoTask \notin Tasks /\ Tasks \subseteq Nat
BY BoundsAssumption DEF NoTask, Tasks

LEMMA LeastIsMember ==
  ASSUME NEW S \in SUBSET Nat, S # {}
  PROVE  (CHOOSE i \in S : \A j \in S : i <= j) \in S
<1>1. \E i \in S : \A j \in S : ~(<<j, i>> \in OpToRel(<, Nat))
  BY NatLessThanWellFounded, WFMin
<1>2. \E i \in S : \A j \in S : i <= j
  <2>1. PICK i \in S : \A j \in S : ~(<<j, i>> \in OpToRel(<, Nat))
    BY <1>1
  <2>2. \A j \in S : ~(j < i)
    BY <2>1 DEF OpToRel
  <2>3. QED BY <2>2
<1>3. QED BY <1>2

LEMMA NextIdFacts ==
  ASSUME Unused # {}
  PROVE  NextId \in Tasks /\ task[NextId].status = "none"
<1>1. Unused \in SUBSET Nat BY TaskFacts DEF Unused
<1>2. NextId \in Unused BY <1>1, LeastIsMember DEF NextId
<1>3. QED BY <1>2 DEF Unused

LEMMA BatchKeysFacts ==
  /\ Len(BatchKeys) \in Nat
  /\ \A i \in 1..Len(BatchKeys) : BatchKeys[i] \in Plugins
BY BatchAssumption DEF Plugins

LEMMA NextPendingFacts ==
  ASSUME Pending # {}
  PROVE  NextPending \in Plugins /\ item[NextPending].status = "pending"
<1>1. Pending \in SUBSET Nat BY BatchKeysFacts DEF Pending
<1>2. (CHOOSE i \in Pending : \A j \in Pending : i <= j) \in Pending
  BY <1>1, LeastIsMember
<1>3. QED BY <1>2, BatchKeysFacts DEF NextPending, Pending

LEMMA FirstBackupFacts ==
  ASSUME BatchTypes, BackedUp # {}
  PROVE  FirstBackup \in Tasks
<1>1. BackedUp \in SUBSET Nat BY BatchKeysFacts DEF BackedUp
<1>2. (CHOOSE i \in BackedUp : \A j \in BackedUp : i <= j) \in BackedUp
  BY <1>1, LeastIsMember
<1>3. QED BY <1>2, BatchKeysFacts DEF FirstBackup, BackedUp, BatchTypes, ItemRecords

LEMMA PendingCovers ==
  ASSUME NEW p \in Plugins, item[p].status = "pending"
  PROVE  Pending # {}
BY DEF Plugins, Pending

-----------------------------------------------------------------------------
(* What a move of every task preserves *)

LEMMA ExistingStay ==
  ASSUME \A t \in Tasks : Moves(t)
  PROVE  \A p \in Plugins : ExistingTasks(p)' = ExistingTasks(p)
BY DEF Moves, ExistingTasks

LEMMA OwnersKeep ==
  ASSUME OwnerInv, \A t \in Tasks : Moves(t)
  PROVE  OwnerInv'
BY OwnerAssumption DEF OwnerInv, Moves

LEMMA BatchKeeps ==
  ASSUME Inv, \A t \in Tasks : Moves(t), UNCHANGED <<batch, item>>,
         batcher' = batcher \/ (batcher'.pc = "idle" /\ batcher'.key \in Plugins),
         request' \in {request, NoTask}
  PROVE  PlanInv' /\ OnceInv' /\ ItemInv' /\ CompletedIsDecided'
<1>0. OwnerInv /\ PlanInv /\ OnceInv /\ ItemInv /\ CompletedIsDecided /\ batcher.key \in Plugins /\ request \in {NoTask} \cup Tasks
  BY DEF Inv, StateTypes, BatchTypes, BatcherRecords, RunTypes
<1>1. \A p \in Plugins : ExistingTasks(p)' = ExistingTasks(p)
  BY ExistingStay
<1>2. \A t \in Tasks : task[t].status = "preparing" => task'[t] = task[t]
  BY DEF Moves
<1>3. PlanInv'
  <2>1. request' # NoTask => task'[request'].status = "preparing" /\ ~task'[request'].batch
    BY <1>0, <1>2, TaskFacts DEF PlanInv
  <2>2. CASE batcher' = batcher
    BY <1>0, <1>1, <1>2, <2>1, <2>2 DEF PlanInv, ExistingTasks
  <2>3. CASE batcher'.pc = "idle"
    BY <2>1, <2>3 DEF PlanInv
  <2>4. QED BY <2>2, <2>3
<1>4. OnceInv'
  BY <1>0, <1>1 DEF OnceInv
<1>5. ItemInv'
  <2>1. \A p \in Plugins : \A t \in ExistingTasks(p) :
          task[t].status = "failed" /\ ~task[t].attention => task'[t].status = "failed" /\ ~task'[t].attention
    BY DEF Moves, ExistingTasks
  <2>2. QED BY <1>0, <1>1, <2>1 DEF ItemInv
<1>6. CompletedIsDecided'
  <2>1. \A p \in Plugins : \A t \in ExistingTasks(p) : ~Unresolved(t) => ~Unresolved(t)'
    BY DEF Moves, ExistingTasks, Unresolved, Undisposed
  <2>2. QED BY <1>0, <1>1, <2>1 DEF CompletedIsDecided
<1>7. QED BY <1>3, <1>4, <1>5, <1>6

\* A step of the worker: its own task only.
WorkerEffect ==
  /\ W \in Tasks
  /\ \A t \in Tasks \ {W} : task'[t] = task[t]
  /\ Moves(W)
  /\ UNCHANGED <<batch, item, request, batcher, roller>>
  /\ units' \subseteq units \cup {W}
  /\ W \in units' => worker' = Resting \/ worker'.pc \in {"applying", "returned"}
  /\ W \in units' => task'[W].status \in {"running", "interrupted"}
  /\ \/ worker' = Resting
     \/ /\ worker'.task = W /\ worker'.pc # "idle"
        /\ worker'.pc # "returned" => task'[W].status \in {"running", "interrupted"}

LEMMA WorkerEffectInv ==
  ASSUME Inv, WorkerEffect, TaskTypes', SiteTypes', RunTypes', BoundTypes'
  PROVE  Inv'
<1>0. OwnerInv /\ UnitInv /\ BatchTypes BY DEF Inv, StateTypes
<1>1. \A t \in Tasks : Moves(t) BY DEF WorkerEffect, Moves
<1>2. PlanInv' /\ OnceInv' /\ ItemInv' /\ CompletedIsDecided'
  BY <1>1, BatchKeeps DEF WorkerEffect
<1>3. OwnerInv' BY <1>0, <1>1, OwnersKeep
<1>4. UnitInv'
  <2>1. \A t \in units' : task'[t].status \in {"running", "interrupted"}
    <3>1. units' \subseteq Tasks BY DEF SiteTypes
    <3>2. QED BY <1>0, <3>1 DEF UnitInv, WorkerEffect
  <2>2. worker'.task \in units' => worker'.pc \in {"applying", "returned"}
    <3>1. CASE worker' = Resting
      BY <3>1, TaskFacts DEF Resting, SiteTypes
    <3>2. CASE worker'.task = W
      <4>1. W \in units' => worker'.pc \in {"applying", "returned"} \/ worker' = Resting
        BY DEF WorkerEffect
      <4>2. QED BY <3>1, <3>2, <4>1
    <3>3. QED BY <3>1, <3>2 DEF WorkerEffect
  <2>3. worker'.pc # "idle" => worker'.task \in Tasks
    BY DEF WorkerEffect, Resting
  <2>4. worker'.pc \notin {"idle", "returned"} => task'[worker'.task].status \in {"running", "interrupted"}
    BY DEF WorkerEffect, Resting
  <2>5. \A r \in Rollbacks :
          roller'[r].pc # "idle" => roller'[r].task \in Tasks /\ task'[roller'[r].task].status = "failed"
    <3>1. SUFFICES ASSUME NEW r \in Rollbacks, roller[r].pc # "idle"
                   PROVE  roller[r].task \in Tasks /\ task'[roller[r].task].status = "failed"
      BY DEF WorkerEffect
    <3>2. roller[r].task \in Tasks /\ task[roller[r].task].status = "failed"
      BY <1>0, <3>1 DEF UnitInv
    <3>3. Moves(roller[r].task) BY <1>1, <3>2
    <3>4. QED BY <3>2, <3>3 DEF Moves
  <2>6. QED BY <2>1, <2>2, <2>3, <2>4, <2>5 DEF UnitInv
<1>5. BatchTypes' BY <1>0 DEF WorkerEffect, BatchTypes
<1>6. QED BY <1>2, <1>3, <1>4, <1>5 DEF Inv, StateTypes

\* A step of a request or of the environment that changes no status.
OutsideEffect ==
  /\ \A t \in Tasks : Moves(t) /\ task'[t].status = task[t].status
  /\ UNCHANGED <<batch, item, request, batcher>>
  /\ units' \subseteq units
  /\ worker'.task = worker.task /\ worker'.pc = worker.pc
  /\ \A r \in Rollbacks :
       roller'[r].pc # "idle" => roller'[r].task \in Tasks /\ task[roller'[r].task].status = "failed"

LEMMA OutsideEffectInv ==
  ASSUME Inv, OutsideEffect, TaskTypes', SiteTypes', RunTypes', BoundTypes'
  PROVE  Inv'
<1>0. OwnerInv /\ UnitInv /\ BatchTypes /\ SiteTypes BY DEF Inv, StateTypes
<1>1. \A t \in Tasks : Moves(t) BY DEF OutsideEffect
<1>2. PlanInv' /\ OnceInv' /\ ItemInv' /\ CompletedIsDecided'
  BY <1>1, BatchKeeps DEF OutsideEffect
<1>3. OwnerInv' BY <1>0, <1>1, OwnersKeep
<1>4. UnitInv' BY <1>0 DEF UnitInv, OutsideEffect, SiteTypes
<1>5. BatchTypes' BY <1>0 DEF OutsideEffect, BatchTypes
<1>6. QED BY <1>2, <1>3, <1>4, <1>5 DEF Inv, StateTypes

-----------------------------------------------------------------------------
(* What the store calls and the other helpers do *)

Failures == {"none", "package", "precheck", "backup", "unlock", "update", "health", "lock"}
Ends == {"running", "success", "failed", "interrupted"}
StepTypes == TaskTypes /\ SiteTypes /\ RunTypes /\ BoundTypes

\* The worker's task is as it was, or was running and has moved to a status of S.
OwnTask(S) ==
  /\ TaskTypes'
  /\ \A u \in Tasks \ {W} : task'[u] = task[u]
  /\ \/ task'[W] = task[W]
     \/ /\ task[W].status = "running" /\ task'[W].status \in S /\ task'[W].owner \in {"none", "worker"}
        /\ task'[W].comp = task[W].comp /\ task'[W].batch = task[W].batch

LEMMA ActiveFacts ==
  ASSUME Inv, worker.pc # "idle"
  PROVE  /\ W \in Tasks /\ task[W] \in TaskRecords /\ task[W].comp \in Components
         /\ worker.pc # "returned" => task[W].status \in {"running", "interrupted"}
         /\ worker.pc \notin {"applying", "returned"} => W \notin units
BY DEF Inv, StateTypes, TaskTypes, UnitInv, W, TaskRecords

LEMMA SameTask ==
  ASSUME TaskTypes, task' = task, NEW S
  PROVE  OwnTask(S)
BY DEF OwnTask, TaskTypes

LEMMA FinishedFacts ==
  ASSUME TaskTypes, NEW t \in Tasks, NEW status \in Ends
  PROVE  /\ Finished(t, status) \in TaskRecords
         /\ Finished(t, status).status = status /\ Finished(t, status).owner = "none"
         /\ Finished(t, status).comp = task[t].comp /\ Finished(t, status).batch = task[t].batch
<1>1. task[t] \in TaskRecords BY DEF TaskTypes
<1>2. QED BY <1>1 DEF Finished, TaskRecords, Ends

\* What is left of a task after one record of it has been replaced.
LEMMA ReplaceFacts ==
  ASSUME TaskTypes, NEW t \in Tasks, NEW rec \in TaskRecords, task' = [task EXCEPT ![t] = rec]
  PROVE  TaskTypes' /\ task'[t] = rec /\ \A u \in Tasks \ {t} : task'[u] = task[u]
BY DEF TaskTypes

LEMMA MarkFailureFacts ==
  ASSUME TaskTypes, NEW t \in Tasks, NEW why \in Failures, NEW attention \in BOOLEAN,
         MarkFailure(t, why, attention)
  PROVE  /\ TaskTypes' /\ \A u \in Tasks \ {t} : task'[u] = task[u]
         /\ task'[t].status = "failed" /\ task'[t].owner = "none" /\ task'[t].attention = attention
         /\ task'[t].comp = task[t].comp /\ task'[t].batch = task[t].batch
<1> DEFINE base == Finished(t, "failed")
           ended == [base EXCEPT !.failure = why, !.attention = attention]
<1>1. /\ base \in TaskRecords /\ base.status = "failed" /\ base.owner = "none"
      /\ base.comp = task[t].comp /\ base.batch = task[t].batch
  BY FinishedFacts DEF Ends
<1>2. task' = [task EXCEPT ![t] = ended] BY DEF MarkFailure
<1>3. ended = [base EXCEPT !.failure = why, !.attention = attention] OBVIOUS
<1> HIDE DEF base, ended
<1>4. /\ ended \in TaskRecords /\ ended.attention = attention
      /\ ended.status = base.status /\ ended.owner = base.owner
      /\ ended.comp = base.comp /\ ended.batch = base.batch
  <2>1. base \in TaskRecords BY <1>1
  <2>2. ended \in TaskRecords BY <1>3, <2>1 DEF TaskRecords, Failures
  <2>3. ended.attention = attention BY <1>3, <2>1 DEF TaskRecords
  <2>4. /\ ended.status = base.status /\ ended.owner = base.owner
        /\ ended.comp = base.comp /\ ended.batch = base.batch
    BY <1>3, <2>1 DEF TaskRecords
  <2>5. QED BY <2>2, <2>3, <2>4
<1>5. QED BY <1>1, <1>2, <1>4, ReplaceFacts

LEMMA InterruptFacts ==
  ASSUME TaskTypes, NEW t \in Tasks, InterruptOwned(t)
  PROVE  /\ TaskTypes' /\ \A u \in Tasks \ {t} : task'[u] = task[u]
         /\ task'[t].status = "interrupted" /\ task'[t].owner = "none"
         /\ task'[t].comp = task[t].comp /\ task'[t].batch = task[t].batch
<1> DEFINE base == Finished(t, "interrupted")
           ended == [base EXCEPT !.attention = TRUE]
<1>1. /\ base \in TaskRecords /\ base.status = "interrupted" /\ base.owner = "none"
      /\ base.comp = task[t].comp /\ base.batch = task[t].batch
  BY FinishedFacts DEF Ends
<1>2. task' = [task EXCEPT ![t] = ended] BY DEF InterruptOwned
<1> HIDE DEF base
<1>3. /\ ended \in TaskRecords /\ ended.status = "interrupted" /\ ended.owner = "none"
      /\ ended.comp = task[t].comp /\ ended.batch = task[t].batch
  BY <1>1 DEF TaskRecords
<1> HIDE DEF ended
<1>4. QED BY <1>2, <1>3, ReplaceFacts

LEMMA OwnFailure ==
  ASSUME TaskTypes, W \in Tasks, Owned(W), NEW why \in Failures, NEW attention \in BOOLEAN,
         MarkFailure(W, why, attention)
  PROVE  OwnTask({"failed"})
BY MarkFailureFacts DEF OwnTask, Owned

LEMMA OwnInterruption ==
  ASSUME TaskTypes, W \in Tasks, Owned(W), InterruptOwned(W)
  PROVE  OwnTask({"interrupted"})
BY InterruptFacts DEF OwnTask, Owned

Pcs == RollbackSteps \cup {"idle", "backup", "prepare", "unlock", "keep", "apply", "applying", "health",
                           "relock", "finish", "roll_finish", "returned"}

LEMMA GotoFacts ==
  ASSUME RunTypes, NEW pc \in Pcs, Goto(pc), UNCHANGED <<roller, request>>
  PROVE  RunTypes' /\ worker'.task = W /\ worker'.pc = pc
BY DEF RunTypes, Goto, RunRecords, W, Pcs

LEMMA BudgetFacts ==
  ASSUME BoundTypes, Fault \/ UNCHANGED budget
  PROVE  BoundTypes'
BY BoundsAssumption DEF BoundTypes, Fault, budget

LEMMA LockFacts ==
  ASSUME NEW s \in SiteRecords, NEW l \in BOOLEAN
  PROVE  [s EXCEPT !.locked = l] \in SiteRecords
BY DEF SiteRecords

LEMMA WrittenFacts ==
  ASSUME SiteTypes, NEW c \in Components, NEW level \in {"old", "partial", "new"}, NEW migrated \in BOOLEAN
  PROVE  Written(c, level, migrated) \in SiteRecords
BY DEF SiteTypes, SiteRecords, Written

LEMMA EffectOfStep ==
  ASSUME Inv, worker.pc # "idle", NEW S \in SUBSET Ends, OwnTask(S),
         UNCHANGED <<batch, item, request, batcher, roller>>,
         units' \subseteq units \cup {W},
         worker'.task = W, worker'.pc # "idle",
         worker'.pc # "returned" => worker.pc # "returned" /\ S \subseteq {"running", "interrupted"},
         W \in units' => /\ worker'.pc \in {"applying", "returned"} /\ worker.pc # "returned"
                         /\ S \subseteq {"running", "interrupted"}
  PROVE  WorkerEffect
<1>1. W \in Tasks /\ (worker.pc # "returned" => task[W].status \in {"running", "interrupted"})
  BY ActiveFacts
<1>2. Moves(W) BY DEF OwnTask, Moves, Ends
<1>3. worker.pc # "returned" /\ S \subseteq {"running", "interrupted"}
        => task'[W].status \in {"running", "interrupted"}
  BY <1>1 DEF OwnTask
<1>4. QED BY <1>1, <1>2, <1>3 DEF WorkerEffect, OwnTask

LEMMA WorkerStepInv ==
  ASSUME Inv, worker.pc # "idle", NEW S \in SUBSET Ends, OwnTask(S),
         UNCHANGED <<batch, item, request, batcher, roller>>,
         units' \subseteq units \cup {W},
         worker'.task = W, worker'.pc # "idle",
         worker'.pc # "returned" => worker.pc # "returned" /\ S \subseteq {"running", "interrupted"},
         W \in units' => /\ worker'.pc \in {"applying", "returned"} /\ worker.pc # "returned"
                         /\ S \subseteq {"running", "interrupted"},
         SiteTypes', RunTypes', BoundTypes'
  PROVE  Inv'
<1>1. WorkerEffect BY EffectOfStep
<1>2. TaskTypes' BY DEF OwnTask
<1>3. QED BY <1>1, <1>2, WorkerEffectInv

-----------------------------------------------------------------------------
(* The steps of the worker *)

LEMMA PrepareBackupsInv ==
  ASSUME Inv, PrepareBackups
  PROVE  Inv'
<1>0. StateTypes /\ StepTypes /\ worker.pc = "backup" BY DEF Inv, StateTypes, StepTypes, PrepareBackups, At
<1>1. W \in Tasks /\ task[W] \in TaskRecords /\ task[W].comp \in Components /\ W \notin units
  BY <1>0, ActiveFacts
<1>2. /\ UNCHANGED <<batch, item, site, units, dirs, request, batcher, roller>>
      /\ Fault \/ UNCHANGED budget
  BY DEF PrepareBackups
<1>3. SiteTypes' /\ BoundTypes' BY <1>0, <1>2, BudgetFacts DEF StepTypes, SiteTypes
<1>4. CASE /\ Owned(W) /\ Goto("prepare")
           /\ task' = [task EXCEPT ![W].ready = TRUE, ![W].files = site.files[task[W].comp],
                                   ![W].db = IF task[W].source = NoTask THEN site.db ELSE {},
                                   ![W].source = IF task[W].source = NoTask THEN W ELSE @]
  <2>1. OwnTask({"running"})
    <3> DEFINE rec == [task[W] EXCEPT !.ready = TRUE, !.files = site.files[task[W].comp],
                                     !.db = IF task[W].source = NoTask THEN site.db ELSE {},
                                     !.source = IF task[W].source = NoTask THEN W ELSE @]
    <3>1. site.files[task[W].comp] \in {"old", "partial", "new"} /\ site.db \in SUBSET Components
      BY <1>0, <1>1 DEF StepTypes, SiteTypes, SiteRecords
    <3>2. /\ rec \in TaskRecords /\ rec.status = task[W].status /\ rec.owner = task[W].owner
          /\ rec.comp = task[W].comp /\ rec.batch = task[W].batch
      BY <1>1, <3>1 DEF TaskRecords
    <3>3. task' = [task EXCEPT ![W] = rec] BY <1>0, <1>1, <1>4 DEF StepTypes, TaskTypes
    <3> HIDE DEF rec
    <3>4. QED BY <1>0, <1>1, <1>4, <3>2, <3>3, ReplaceFacts DEF StepTypes, OwnTask, Owned
  <2>2. RunTypes' /\ worker'.pc = "prepare" /\ worker'.task = W
    BY <1>0, <1>2, <1>4, GotoFacts DEF StepTypes, Pcs
  <2>3. QED BY <1>0, <1>1, <1>2, <1>3, <2>1, <2>2, WorkerStepInv DEF Ends
<1>5. CASE Goto("returned") /\ (task' = task \/ (Owned(W) /\ MarkFailure(W, "backup", FALSE)))
  <2>1. OwnTask({"failed"})
    BY <1>0, <1>1, <1>5, SameTask, OwnFailure DEF StepTypes, Failures
  <2>2. RunTypes' /\ worker'.pc = "returned" /\ worker'.task = W
    BY <1>0, <1>2, <1>5, GotoFacts DEF StepTypes, Pcs
  <2>3. QED BY <1>0, <1>1, <1>2, <1>3, <2>1, <2>2, WorkerStepInv DEF Ends
<1>6. QED BY <1>4, <1>5 DEF PrepareBackups

LEMMA PrepareUpdateInv ==
  ASSUME Inv, PrepareUpdate
  PROVE  Inv'
<1>0. StateTypes /\ StepTypes /\ worker.pc = "prepare" BY DEF Inv, StateTypes, StepTypes, PrepareUpdate, At
<1>1. W \in Tasks /\ task[W] \in TaskRecords /\ W \notin units
  BY <1>0, ActiveFacts
<1>2. /\ UNCHANGED <<batch, item, site, units, request, batcher, roller>>
      /\ Fault \/ UNCHANGED budget
      /\ dirs' \subseteq dirs \cup {W}
  BY DEF PrepareUpdate
<1>3. SiteTypes' /\ BoundTypes' BY <1>0, <1>1, <1>2, BudgetFacts DEF StepTypes, SiteTypes
<1>4. CASE Goto(IF Owned(W) THEN "unlock" ELSE "returned") /\ UNCHANGED task
  <2>1. OwnTask({}) BY <1>0, <1>4, SameTask DEF StepTypes
  <2>2. RunTypes' /\ worker'.pc \in {"unlock", "returned"} /\ worker'.task = W
    BY <1>0, <1>2, <1>4, GotoFacts DEF StepTypes, Pcs
  <2>3. QED BY <1>0, <1>1, <1>2, <1>3, <2>1, <2>2, WorkerStepInv DEF Ends
<1>5. CASE Goto("returned") /\ (task' = task \/ (Owned(W) /\ MarkFailure(W, "precheck", FALSE)))
  <2>1. OwnTask({"failed"})
    BY <1>0, <1>1, <1>5, SameTask, OwnFailure DEF StepTypes, Failures
  <2>2. RunTypes' /\ worker'.pc = "returned" /\ worker'.task = W
    BY <1>0, <1>2, <1>5, GotoFacts DEF StepTypes, Pcs
  <2>3. QED BY <1>0, <1>1, <1>2, <1>3, <2>1, <2>2, WorkerStepInv DEF Ends
<1>6. QED BY <1>4, <1>5 DEF PrepareUpdate, CanRecord

\* The steps that record the next stage: the task runs on, or is interrupted.
LEMMA AdvanceFacts ==
  ASSUME StepTypes, W \in Tasks, NEW next \in Pcs, NEW s \in SiteRecords,
         Advance(next, s), UNCHANGED <<roller, request>>
  PROVE  /\ OwnTask({"interrupted"}) /\ RunTypes' /\ BoundTypes' /\ site' \in SiteRecords
         /\ worker'.task = W /\ worker'.pc \in {next, "returned"}
<1>1. CASE Goto(next) /\ site' = s /\ UNCHANGED <<task, budget>>
  BY <1>1, GotoFacts, SameTask, BudgetFacts DEF StepTypes
<1>2. CASE /\ Goto("returned")
           /\ task' = task \/ (Owned(W) /\ InterruptOwned(W))
           /\ site' = [s EXCEPT !.locked = TRUE] \/ site' = s
           /\ Fault \/ UNCHANGED budget
  <2>1. OwnTask({"interrupted"}) BY <1>2, SameTask, OwnInterruption DEF StepTypes
  <2>2. site' \in SiteRecords BY <1>2, LockFacts
  <2>3. QED BY <1>2, <2>1, <2>2, GotoFacts, BudgetFacts DEF StepTypes, Pcs
<1>3. QED BY <1>1, <1>2 DEF Advance

\* The steps that give up an update: a rollback begins, or the task has failed.
LEMMA RollbackOrHaltFacts ==
  ASSUME StepTypes, W \in Tasks, NEW why \in Failures,
         RollbackOrHalt(why), UNCHANGED <<roller, request>>
  PROVE  /\ RunTypes' /\ worker'.task = W /\ dirs' \subseteq dirs
         /\ \/ OwnTask({"running"}) /\ worker'.pc = "roll_maintenance"
            \/ OwnTask({"failed"}) /\ worker'.pc = "returned"
<1>0. TaskTypes /\ RunTypes /\ task[W] \in TaskRecords BY DEF StepTypes, TaskTypes
<1>1. CASE /\ Owned(W) /\ Goto("roll_maintenance") /\ UNCHANGED dirs
           /\ task' = [task EXCEPT ![W].rollback = "pending", ![W].failure = why]
  <2> DEFINE rec == [task[W] EXCEPT !.rollback = "pending", !.failure = why]
  <2>1. /\ rec \in TaskRecords /\ rec.status = task[W].status /\ rec.owner = task[W].owner
        /\ rec.comp = task[W].comp /\ rec.batch = task[W].batch
    BY <1>0 DEF TaskRecords, Failures
  <2>2. task' = [task EXCEPT ![W] = rec] BY <1>0, <1>1 DEF TaskTypes
  <2> HIDE DEF rec
  <2>3. OwnTask({"running"}) BY <1>0, <1>1, <2>1, <2>2, ReplaceFacts DEF OwnTask, Owned
  <2>4. QED BY <1>0, <1>1, <2>3, GotoFacts DEF Pcs, RollbackSteps
<1>2. CASE Goto("returned") /\ UNCHANGED <<task, dirs>>
  BY <1>0, <1>2, GotoFacts, SameTask DEF Pcs
<1>3. CASE /\ Goto("returned") /\ Owned(W) /\ dirs' = dirs \ {W}
           /\ task' = [task EXCEPT ![W] = [Finished(W, "failed") EXCEPT !.rollback = "pending", !.failure = why,
                                                                        !.attention = TRUE]]
  <2> DEFINE base == Finished(W, "failed")
             rec == [base EXCEPT !.rollback = "pending", !.failure = why, !.attention = TRUE]
  <2>1. /\ base \in TaskRecords /\ base.status = "failed" /\ base.owner = "none"
        /\ base.comp = task[W].comp /\ base.batch = task[W].batch
    BY <1>0, FinishedFacts DEF Ends
  <2>2. task' = [task EXCEPT ![W] = rec] BY <1>3
  <2> HIDE DEF base
  <2>3. /\ rec \in TaskRecords /\ rec.status = "failed" /\ rec.owner = "none"
        /\ rec.comp = task[W].comp /\ rec.batch = task[W].batch
    BY <2>1 DEF TaskRecords, Failures
  <2> HIDE DEF rec
  <2>4. OwnTask({"failed"}) BY <1>0, <1>3, <2>2, <2>3, ReplaceFacts DEF OwnTask, Owned
  <2>5. QED BY <1>0, <1>3, <2>4, GotoFacts DEF Pcs
<1>4. QED BY <1>1, <1>2, <1>3 DEF RollbackOrHalt, HaltForManualRollback, BeginAutomaticRollback, CanRecord

LEMMA UnlockInv ==
  ASSUME Inv, Unlock
  PROVE  Inv'
<1>0. StateTypes /\ StepTypes /\ site \in SiteRecords /\ worker.pc = "unlock"
  BY DEF Inv, StateTypes, StepTypes, SiteTypes, Unlock, At
<1>1. W \in Tasks /\ W \notin units BY <1>0, ActiveFacts
<1>2. UNCHANGED <<batch, item, units, dirs, request, batcher, roller>> BY DEF Unlock
<1>3. CASE Advance("apply", [site EXCEPT !.locked = FALSE])
  <2>1. [site EXCEPT !.locked = FALSE] \in SiteRecords BY <1>0, LockFacts
  <2>2. /\ OwnTask({"interrupted"}) /\ RunTypes' /\ BoundTypes' /\ site' \in SiteRecords
        /\ worker'.task = W /\ worker'.pc \in {"apply", "returned"}
    BY <1>0, <1>1, <1>2, <1>3, <2>1, AdvanceFacts DEF Pcs
  <2>3. SiteTypes' BY <1>0, <1>2, <2>2 DEF StepTypes, SiteTypes
  <2>4. QED BY <1>0, <1>1, <1>2, <2>2, <2>3, WorkerStepInv DEF Ends
<1>4. CASE Goto("keep") /\ UNCHANGED task /\ (Fault \/ UNCHANGED budget)
           /\ \E l \in BOOLEAN : site' = [site EXCEPT !.locked = l]
  <2>1. OwnTask({}) BY <1>0, <1>4, SameTask DEF StepTypes
  <2>2. RunTypes' /\ worker'.pc = "keep" /\ worker'.task = W
    BY <1>0, <1>2, <1>4, GotoFacts DEF StepTypes, Pcs
  <2>3. SiteTypes' /\ BoundTypes' BY <1>0, <1>2, <1>4, LockFacts, BudgetFacts DEF StepTypes, SiteTypes
  <2>4. QED BY <1>0, <1>1, <1>2, <2>1, <2>2, <2>3, WorkerStepInv DEF Ends
<1>5. QED BY <1>3, <1>4 DEF Unlock

LEMMA FailBeforeWriteInv ==
  ASSUME Inv, FailBeforeWrite
  PROVE  Inv'
<1>0. StateTypes /\ StepTypes /\ site \in SiteRecords /\ worker.pc = "keep"
  BY DEF Inv, StateTypes, StepTypes, SiteTypes, FailBeforeWrite, At
<1>1. W \in Tasks /\ W \notin units BY <1>0, ActiveFacts
<1>2. /\ UNCHANGED <<batch, item, units, request, batcher, roller>> /\ Goto("returned")
      /\ Fault \/ UNCHANGED budget
      /\ dirs' \subseteq dirs
      /\ site' \in {site, [site EXCEPT !.locked = TRUE]}
      /\ task' = task \/ \E restored \in BOOLEAN : Owned(W) /\ MarkFailure(W, "unlock", ~restored)
  BY DEF FailBeforeWrite, MayFail, CanRecord
<1>3. OwnTask({"failed"})
  <2>1. CASE task' = task BY <1>0, <2>1, SameTask DEF StepTypes
  <2>2. ASSUME NEW restored \in BOOLEAN, Owned(W), MarkFailure(W, "unlock", ~restored)
        PROVE  OwnTask({"failed"})
    <3>1. PICK attention \in BOOLEAN : attention = ~restored BY Zenon
    <3>2. MarkFailure(W, "unlock", attention) BY <2>2, <3>1
    <3>3. QED BY <1>0, <1>1, <2>2, <3>2, OwnFailure DEF StepTypes, Failures
  <2>3. QED BY <1>2, <2>1, <2>2
<1>4. RunTypes' /\ worker'.pc = "returned" /\ worker'.task = W
  BY <1>0, <1>2, GotoFacts DEF StepTypes, Pcs
<1>5. SiteTypes' /\ BoundTypes' BY <1>0, <1>2, LockFacts, BudgetFacts DEF StepTypes, SiteTypes
<1>6. QED BY <1>0, <1>1, <1>2, <1>3, <1>4, <1>5, WorkerStepInv DEF Ends

LEMMA StartApplyInv ==
  ASSUME Inv, StartApply
  PROVE  Inv'
<1>0. StateTypes /\ StepTypes /\ worker.pc = "apply" BY DEF Inv, StateTypes, StepTypes, StartApply, At
<1>1. W \in Tasks /\ task[W].comp \in Components BY <1>0, ActiveFacts
<1>2. /\ UNCHANGED <<task, batch, item, dirs, request, batcher, roller, budget>> /\ Goto("applying")
      /\ units' \subseteq units \cup {W}
      /\ site' \in {site, Written(task[W].comp, "partial", FALSE)}
  BY DEF StartApply
<1>3. OwnTask({}) BY <1>0, <1>2, SameTask DEF StepTypes
<1>4. RunTypes' /\ worker'.pc = "applying" /\ worker'.task = W
  BY <1>0, <1>2, GotoFacts DEF StepTypes, Pcs
<1>5. Written(task[W].comp, "partial", FALSE) \in SiteRecords
  BY <1>0, <1>1, WrittenFacts DEF StepTypes
<1>6. SiteTypes' /\ BoundTypes'
  BY <1>0, <1>1, <1>2, <1>5, BudgetFacts DEF StepTypes, SiteTypes
<1>7. QED BY <1>0, <1>1, <1>2, <1>3, <1>4, <1>6, WorkerStepInv DEF Ends

LEMMA ApplyInv ==
  ASSUME Inv, Apply
  PROVE  Inv'
<1>0. StateTypes /\ StepTypes /\ site \in SiteRecords /\ worker.pc = "applying"
  BY DEF Inv, StateTypes, StepTypes, SiteTypes, Apply, At
<1>1. W \in Tasks /\ task[W].comp \in Components BY <1>0, ActiveFacts
<1>2. UNCHANGED <<batch, item, request, batcher, roller>> /\ units' = units \ {W} BY DEF Apply
<1>3. site.files[task[W].comp] \in {"old", "partial", "new"} BY <1>0, <1>1 DEF SiteRecords
<1>4. \A level \in {"old", "partial", "new"}, migrated \in BOOLEAN : Written(task[W].comp, level, migrated) \in SiteRecords
  BY <1>0, <1>1, WrittenFacts DEF StepTypes
<1>5. CASE Advance("health", Written(task[W].comp, "new", TRUE)) /\ UNCHANGED dirs
  <2>1. /\ OwnTask({"interrupted"}) /\ RunTypes' /\ BoundTypes' /\ site' \in SiteRecords
        /\ worker'.task = W /\ worker'.pc \in {"health", "returned"}
    BY <1>0, <1>1, <1>2, <1>4, <1>5, AdvanceFacts DEF Pcs
  <2>2. SiteTypes' BY <1>0, <1>2, <1>5, <2>1 DEF StepTypes, SiteTypes
  <2>3. QED BY <1>0, <1>1, <1>2, <2>1, <2>2, WorkerStepInv DEF Ends
<1>6. CASE /\ Fault \/ UNCHANGED budget
           /\ \E migrated \in BOOLEAN : site' = Written(task[W].comp, site.files[task[W].comp], migrated)
           /\ RollbackOrHalt("update")
  <2>1. /\ RunTypes' /\ worker'.task = W /\ dirs' \subseteq dirs
        /\ \/ OwnTask({"running"}) /\ worker'.pc = "roll_maintenance"
           \/ OwnTask({"failed"}) /\ worker'.pc = "returned"
    BY <1>0, <1>1, <1>2, <1>6, RollbackOrHaltFacts DEF Failures
  <2>2. SiteTypes' /\ BoundTypes'
    BY <1>0, <1>2, <1>3, <1>4, <1>6, <2>1, BudgetFacts DEF StepTypes, SiteTypes
  <2>3. W \notin units' BY <1>2
  <2>4. CASE OwnTask({"running"}) /\ worker'.pc = "roll_maintenance"
    BY <1>0, <1>1, <1>2, <2>1, <2>2, <2>3, <2>4, WorkerStepInv DEF Ends
  <2>5. CASE OwnTask({"failed"}) /\ worker'.pc = "returned"
    BY <1>0, <1>1, <1>2, <2>1, <2>2, <2>3, <2>5, WorkerStepInv DEF Ends
  <2>6. QED BY <2>1, <2>4, <2>5
<1>7. QED BY <1>5, <1>6 DEF Apply

LEMMA CheckTargetHealthInv ==
  ASSUME Inv, CheckTargetHealth
  PROVE  Inv'
<1>0. StateTypes /\ StepTypes /\ site \in SiteRecords /\ worker.pc = "health"
  BY DEF Inv, StateTypes, StepTypes, SiteTypes, CheckTargetHealth, At
<1>1. W \in Tasks /\ W \notin units BY <1>0, ActiveFacts
<1>2. UNCHANGED <<batch, item, units, request, batcher, roller>> BY DEF CheckTargetHealth
<1>3. CASE Advance("relock", site) /\ UNCHANGED dirs
  <2>1. /\ OwnTask({"interrupted"}) /\ RunTypes' /\ BoundTypes' /\ site' \in SiteRecords
        /\ worker'.task = W /\ worker'.pc \in {"relock", "returned"}
    BY <1>0, <1>1, <1>2, <1>3, AdvanceFacts DEF Pcs
  <2>2. SiteTypes' BY <1>0, <1>2, <1>3, <2>1 DEF StepTypes, SiteTypes
  <2>3. QED BY <1>0, <1>1, <1>2, <2>1, <2>2, WorkerStepInv DEF Ends
<1>4. CASE (Fault \/ UNCHANGED budget) /\ RollbackOrHalt("health") /\ UNCHANGED site
  <2>1. /\ RunTypes' /\ worker'.task = W /\ dirs' \subseteq dirs
        /\ \/ OwnTask({"running"}) /\ worker'.pc = "roll_maintenance"
           \/ OwnTask({"failed"}) /\ worker'.pc = "returned"
    BY <1>0, <1>1, <1>2, <1>4, RollbackOrHaltFacts DEF Failures
  <2>2. SiteTypes' /\ BoundTypes' BY <1>0, <1>2, <1>4, <2>1, BudgetFacts DEF StepTypes, SiteTypes
  <2>3. CASE OwnTask({"running"}) /\ worker'.pc = "roll_maintenance"
    BY <1>0, <1>1, <1>2, <2>1, <2>2, <2>3, WorkerStepInv DEF Ends
  <2>4. CASE OwnTask({"failed"}) /\ worker'.pc = "returned"
    BY <1>0, <1>1, <1>2, <2>1, <2>2, <2>4, WorkerStepInv DEF Ends
  <2>5. QED BY <2>1, <2>3, <2>4
<1>5. QED BY <1>3, <1>4 DEF CheckTargetHealth

LEMMA RestoreFileLockInv ==
  ASSUME Inv, RestoreFileLock
  PROVE  Inv'
<1>0. StateTypes /\ StepTypes /\ site \in SiteRecords /\ worker.pc = "relock"
  BY DEF Inv, StateTypes, StepTypes, SiteTypes, RestoreFileLock, At
<1>1. W \in Tasks /\ W \notin units BY <1>0, ActiveFacts
<1>2. UNCHANGED <<batch, item, units, request, batcher, roller>> BY DEF RestoreFileLock
<1>3. CASE site' = [site EXCEPT !.locked = TRUE] /\ Goto("finish") /\ UNCHANGED <<task, dirs, budget>>
  <2>1. OwnTask({}) BY <1>0, <1>3, SameTask DEF StepTypes
  <2>2. RunTypes' /\ worker'.pc = "finish" /\ worker'.task = W
    BY <1>0, <1>2, <1>3, GotoFacts DEF StepTypes, Pcs
  <2>3. SiteTypes' /\ BoundTypes' BY <1>0, <1>2, <1>3, LockFacts, BudgetFacts DEF StepTypes, SiteTypes
  <2>4. QED BY <1>0, <1>1, <1>2, <2>1, <2>2, <2>3, WorkerStepInv DEF Ends
<1>4. CASE Fault /\ RollbackOrHalt("lock") /\ UNCHANGED site
  <2>1. /\ RunTypes' /\ worker'.task = W /\ dirs' \subseteq dirs
        /\ \/ OwnTask({"running"}) /\ worker'.pc = "roll_maintenance"
           \/ OwnTask({"failed"}) /\ worker'.pc = "returned"
    BY <1>0, <1>1, <1>2, <1>4, RollbackOrHaltFacts DEF Failures
  <2>2. SiteTypes' /\ BoundTypes' BY <1>0, <1>2, <1>4, <2>1, BudgetFacts DEF StepTypes, SiteTypes
  <2>3. CASE OwnTask({"running"}) /\ worker'.pc = "roll_maintenance"
    BY <1>0, <1>1, <1>2, <2>1, <2>2, <2>3, WorkerStepInv DEF Ends
  <2>4. CASE OwnTask({"failed"}) /\ worker'.pc = "returned"
    BY <1>0, <1>1, <1>2, <2>1, <2>2, <2>4, WorkerStepInv DEF Ends
  <2>5. QED BY <2>1, <2>3, <2>4
<1>5. QED BY <1>3, <1>4 DEF RestoreFileLock

LEMMA MarkSuccessInv ==
  ASSUME Inv, MarkSuccess
  PROVE  Inv'
<1>0. StateTypes /\ StepTypes /\ TaskTypes /\ worker.pc = "finish"
  BY DEF Inv, StateTypes, StepTypes, MarkSuccess, At
<1>1. W \in Tasks /\ W \notin units BY <1>0, ActiveFacts
<1>2. /\ UNCHANGED <<batch, item, site, units, request, batcher, roller, budget>> /\ Goto("returned")
      /\ dirs' \subseteq dirs
  BY DEF MarkSuccess
<1>3. OwnTask({"success"})
  <2>1. CASE task' = task BY <1>0, <2>1, SameTask
  <2>2. CASE Owned(W) /\ task' = [task EXCEPT ![W] = Finished(W, "success")]
    <3> DEFINE rec == Finished(W, "success")
    <3>1. /\ rec \in TaskRecords /\ rec.status = "success" /\ rec.owner = "none"
          /\ rec.comp = task[W].comp /\ rec.batch = task[W].batch
      BY <1>0, <1>1, FinishedFacts DEF Ends
    <3>2. task' = [task EXCEPT ![W] = rec] BY <2>2
    <3> HIDE DEF rec
    <3>3. QED BY <1>0, <1>1, <2>2, <3>1, <3>2, ReplaceFacts DEF OwnTask, Owned
  <2>3. QED BY <2>1, <2>2 DEF MarkSuccess, CanRecord
<1>4. RunTypes' /\ worker'.pc = "returned" /\ worker'.task = W
  BY <1>0, <1>2, GotoFacts DEF StepTypes, Pcs
<1>5. SiteTypes' /\ BoundTypes' BY <1>0, <1>2, BudgetFacts DEF StepTypes, SiteTypes
<1>6. QED BY <1>0, <1>1, <1>2, <1>3, <1>4, <1>5, WorkerStepInv DEF Ends

\* One step of a rollback, whoever runs it.
LEMMA StepDoneFacts ==
  ASSUME StepTypes, NEW p \in RunRecords, p.task \in Tasks, p.pc \in RollbackSteps
  PROVE  StepDone(p) \in SiteRecords
<1>1. /\ site \in SiteRecords /\ task[p.task] \in TaskRecords
      /\ task[p.task].comp \in Components /\ task[p.task].db \in SUBSET Components
      /\ task[p.task].files \in {"old", "partial", "new"}
  BY DEF StepTypes, SiteTypes, TaskTypes, TaskRecords
<1>2. [site EXCEPT !.maintenance = TRUE] \in SiteRecords /\ [site EXCEPT !.maintenance = FALSE] \in SiteRecords
  BY <1>1 DEF SiteRecords
<1>3. [site EXCEPT !.db = task[p.task].db] \in SiteRecords
  BY <1>1 DEF SiteRecords
<1>4. [site EXCEPT !.files[task[p.task].comp] = task[p.task].files] \in SiteRecords
  BY <1>1 DEF SiteRecords
<1>5. [site EXCEPT !.locked = TRUE] \in SiteRecords
  BY <1>1 DEF SiteRecords
<1>6. QED BY <1>1, <1>2, <1>3, <1>4, <1>5 DEF StepDone, RollbackSteps

LEMMA RollbackStepFacts ==
  ASSUME StepTypes, NEW p \in RunRecords, p.task \in Tasks, p.pc \in RollbackSteps,
         NEW bad \in BOOLEAN, RollbackStep(p, bad)
  PROVE  site' \in SiteRecords /\ BoundTypes' /\ StepAfter(p.pc) \in RollbackSteps \cup {"roll_finish"}
<1>1. StepDone(p) \in SiteRecords BY StepDoneFacts
<1>2. task[p.task].comp \in Components BY DEF StepTypes, TaskTypes, TaskRecords
<1>3. Written(task[p.task].comp, "partial", FALSE) \in SiteRecords
  BY <1>2, WrittenFacts DEF StepTypes
<1>4. site \in SiteRecords BY DEF StepTypes, SiteTypes
<1>5. site' \in {site, StepDone(p), Written(task[p.task].comp, "partial", FALSE)} /\ (Fault \/ UNCHANGED budget)
  <2>1. CASE StepGoes(p, bad) BY <2>1 DEF StepGoes
  <2>2. CASE StepFails(p, bad) BY <2>2 DEF StepFails
  <2>3. QED BY <2>1, <2>2 DEF RollbackStep
<1>6. BoundTypes' BY <1>5, BudgetFacts DEF StepTypes
<1>7. StepAfter(p.pc) \in RollbackSteps \cup {"roll_finish"} BY DEF StepAfter, RollbackSteps
<1>8. QED BY <1>1, <1>3, <1>4, <1>5, <1>6, <1>7

LEMMA SupervisionUncertainInv ==
  ASSUME Inv, SupervisionUncertain
  PROVE  Inv'
<1>0. StateTypes /\ StepTypes /\ site \in SiteRecords /\ worker \in RunRecords
      /\ worker.pc \in {"prepare", "applying", "health", "roll_reopen"}
  BY DEF Inv, StateTypes, StepTypes, SiteTypes, RunTypes, SupervisionUncertain, At
<1>1. W \in Tasks BY <1>0, ActiveFacts
<1>2. /\ UNCHANGED <<batch, item, units, request, batcher, roller>> /\ Goto("returned") /\ Fault
      /\ dirs' \subseteq dirs \cup {W}
      /\ site' = site \/ (worker.pc = "roll_reopen" /\ site' = StepDone(worker))
      /\ task' = task \/ (Owned(W) /\ InterruptOwned(W))
  BY DEF SupervisionUncertain, At
<1>3. OwnTask({"interrupted"}) BY <1>0, <1>1, <1>2, SameTask, OwnInterruption DEF StepTypes
<1>4. RunTypes' /\ worker'.pc = "returned" /\ worker'.task = W
  BY <1>0, <1>2, GotoFacts DEF StepTypes, Pcs
<1>5. site' \in SiteRecords
  <2>1. worker.pc = "roll_reopen" => StepDone(worker) \in SiteRecords
    BY <1>0, <1>1, StepDoneFacts DEF RollbackSteps, W
  <2>2. QED BY <1>0, <1>2, <2>1
<1>6. SiteTypes' /\ BoundTypes' BY <1>0, <1>1, <1>2, <1>5, BudgetFacts DEF StepTypes, SiteTypes
<1>7. QED BY <1>0, <1>1, <1>2, <1>3, <1>4, <1>6, WorkerStepInv DEF Ends

LEMMA AutomaticRollbackInv ==
  ASSUME Inv, AutomaticRollback
  PROVE  Inv'
<1>0. StateTypes /\ StepTypes /\ worker \in RunRecords /\ worker.pc \in RollbackSteps
  BY DEF Inv, StateTypes, StepTypes, RunTypes, AutomaticRollback, RollingBack
<1>1. W \in Tasks /\ W \notin units BY <1>0, ActiveFacts DEF RollbackSteps
<1>2. UNCHANGED <<task, batch, item, units, dirs, request, batcher, roller>> BY DEF AutomaticRollback
<1>3. OwnTask({}) BY <1>0, <1>2, SameTask DEF StepTypes
<1>4. ASSUME NEW bad \in BOOLEAN, RollbackStep(worker, bad),
             worker' = [worker EXCEPT !.pc = StepAfter(@), !.bad = bad]
      PROVE  Inv'
  <2>1. site' \in SiteRecords /\ BoundTypes' /\ StepAfter(worker.pc) \in RollbackSteps \cup {"roll_finish"}
    BY <1>0, <1>1, <1>4, RollbackStepFacts DEF W
  <2>2. /\ worker' \in RunRecords /\ worker'.task = W
        /\ worker'.pc \in RollbackSteps \cup {"roll_finish"}
    BY <1>0, <1>4, <2>1 DEF RunRecords, W
  <2>3. SiteTypes' /\ RunTypes' BY <1>0, <1>2, <2>1, <2>2 DEF StepTypes, SiteTypes, RunTypes
  <2>4. worker'.pc \notin {"idle", "returned"} BY <2>2 DEF RollbackSteps
  <2>5. worker.pc \notin {"idle", "returned"} BY <1>0 DEF RollbackSteps
  <2>6. QED BY <1>1, <1>2, <1>3, <2>1, <2>2, <2>3, <2>4, <2>5, WorkerStepInv
<1>5. CASE Goto("returned") /\ UNCHANGED <<site, budget>>
  <2>1. RunTypes' /\ worker'.pc = "returned" /\ worker'.task = W
    BY <1>0, <1>2, <1>5, GotoFacts DEF StepTypes, Pcs
  <2>2. SiteTypes' /\ BoundTypes' BY <1>0, <1>2, <1>5, BudgetFacts DEF StepTypes, SiteTypes
  <2>3. worker.pc # "idle" BY <1>0 DEF RollbackSteps
  <2>4. QED BY <1>1, <1>2, <1>3, <2>1, <2>2, <2>3, WorkerStepInv
<1>6. QED BY <1>4, <1>5 DEF AutomaticRollback

LEMMA FinishAutomaticRollbackInv ==
  ASSUME Inv, FinishAutomaticRollback
  PROVE  Inv'
<1>0. StateTypes /\ StepTypes /\ TaskTypes /\ worker \in RunRecords /\ worker.pc = "roll_finish"
  BY DEF Inv, StateTypes, StepTypes, RunTypes, FinishAutomaticRollback, At
<1>1. W \in Tasks /\ W \notin units BY <1>0, ActiveFacts
<1>2. /\ UNCHANGED <<batch, item, site, units, request, batcher, roller, budget>> /\ Goto("returned")
      /\ dirs' \subseteq dirs
      /\ \/ task' = task
         \/ \E bad \in BOOLEAN :
              /\ Owned(W)
              /\ task' = [task EXCEPT ![W] = [Finished(W, "failed") EXCEPT !.rollback = IF bad THEN "failed" ELSE "success",
                                                                          !.attention = bad]]
  <2>1. worker.bad \in BOOLEAN BY <1>0 DEF RunRecords
  <2>2. QED BY <2>1 DEF FinishAutomaticRollback, CanRecord
<1>3. OwnTask({"failed"})
  <2>1. CASE task' = task BY <1>0, <2>1, SameTask
  <2>2. ASSUME NEW bad \in BOOLEAN, Owned(W),
               task' = [task EXCEPT ![W] = [Finished(W, "failed") EXCEPT !.rollback = IF bad THEN "failed" ELSE "success",
                                                                        !.attention = bad]]
        PROVE  OwnTask({"failed"})
    <3> DEFINE base == Finished(W, "failed")
               rec == [base EXCEPT !.rollback = IF bad THEN "failed" ELSE "success", !.attention = bad]
    <3>1. /\ base \in TaskRecords /\ base.status = "failed" /\ base.owner = "none"
          /\ base.comp = task[W].comp /\ base.batch = task[W].batch
      BY <1>0, <1>1, FinishedFacts DEF Ends
    <3>2. task' = [task EXCEPT ![W] = rec] BY <2>2
    <3> HIDE DEF base
    <3>3. /\ rec \in TaskRecords /\ rec.status = "failed" /\ rec.owner = "none"
          /\ rec.comp = task[W].comp /\ rec.batch = task[W].batch
      BY <3>1 DEF TaskRecords
    <3> HIDE DEF rec
    <3>4. QED BY <1>0, <1>1, <2>2, <3>2, <3>3, ReplaceFacts DEF OwnTask, Owned
  <2>3. QED BY <1>2, <2>1, <2>2
<1>4. RunTypes' /\ worker'.pc = "returned" /\ worker'.task = W
  BY <1>0, <1>2, GotoFacts DEF StepTypes, Pcs
<1>5. SiteTypes' /\ BoundTypes' BY <1>0, <1>2, BudgetFacts DEF StepTypes, SiteTypes
<1>6. QED BY <1>0, <1>1, <1>2, <1>3, <1>4, <1>5, WorkerStepInv DEF Ends

LEMMA RestingFacts == Resting \in RunRecords /\ Resting.pc = "idle" /\ Resting.task = NoTask
BY DEF Resting, RunRecords

LEMMA InterruptIfOwnedInv ==
  ASSUME Inv, InterruptIfOwned
  PROVE  Inv'
<1>0. StateTypes /\ StepTypes /\ UnitInv /\ worker.pc = "returned"
  BY DEF Inv, StateTypes, StepTypes, InterruptIfOwned, At
<1>1. W \in Tasks BY <1>0, ActiveFacts
<1>2. /\ UNCHANGED <<batch, item, site, units, dirs, request, batcher, roller, budget>> /\ worker' = Resting
      /\ task' = task \/ (Owned(W) /\ InterruptOwned(W))
  BY DEF InterruptIfOwned
<1>3. OwnTask({"interrupted"}) BY <1>0, <1>1, <1>2, SameTask, OwnInterruption DEF StepTypes
<1>4. /\ TaskTypes' /\ \A u \in Tasks \ {W} : task'[u] = task[u]
      /\ Moves(W)
      /\ task[W].status \in {"running", "interrupted"} => task'[W].status \in {"running", "interrupted"}
  BY <1>3 DEF OwnTask, Moves
<1>5. WorkerEffect
  <2>1. W \in units => task'[W].status \in {"running", "interrupted"}
    BY <1>0, <1>4 DEF UnitInv
  <2>2. QED BY <1>1, <1>2, <1>4, <2>1 DEF WorkerEffect
<1>6. RunTypes' BY <1>0, <1>2, RestingFacts DEF StepTypes, RunTypes
<1>7. SiteTypes' /\ BoundTypes' BY <1>0, <1>2, BudgetFacts DEF StepTypes, SiteTypes
<1>8. QED BY <1>4, <1>5, <1>6, <1>7, WorkerEffectInv

LEMMA ClaimInv ==
  ASSUME Inv, Claim
  PROVE  Inv'
<1>0. /\ StateTypes /\ TaskTypes /\ BatchTypes /\ SiteTypes /\ RunTypes /\ BoundTypes /\ OwnerInv /\ UnitInv
      /\ worker.pc = "idle"
  BY DEF Inv, StateTypes, Claim, At
<1>1. UNCHANGED <<batch, item, site, units, dirs, request, batcher, roller, budget>> BY DEF Claim
<1>2. PICK t \in Tasks :
        /\ task[t].status = "queued"
        /\ \/ /\ task' = [task EXCEPT ![t].status = "running", ![t].owner = "worker"]
              /\ worker' = [Resting EXCEPT !.pc = "backup", !.task = t]
           \/ MarkFailure(t, "precheck", FALSE) /\ UNCHANGED worker
  BY DEF Claim
<1>3. task[t] \in TaskRecords /\ t \notin units BY <1>0, <1>2 DEF TaskTypes, UnitInv
<1>4. /\ TaskTypes' /\ \A u \in Tasks \ {t} : task'[u] = task[u]
      /\ task'[t].comp = task[t].comp /\ task'[t].batch = task[t].batch
      /\ \/ /\ task'[t].status = "running" /\ task'[t].owner = "worker"
            /\ worker' = [Resting EXCEPT !.pc = "backup", !.task = t]
         \/ task'[t].status = "failed" /\ task'[t].owner = "none" /\ UNCHANGED worker
  <2>1. CASE /\ task' = [task EXCEPT ![t].status = "running", ![t].owner = "worker"]
             /\ worker' = [Resting EXCEPT !.pc = "backup", !.task = t]
    <3> DEFINE rec == [task[t] EXCEPT !.status = "running", !.owner = "worker"]
    <3>1. /\ rec \in TaskRecords /\ rec.status = "running" /\ rec.owner = "worker"
          /\ rec.comp = task[t].comp /\ rec.batch = task[t].batch
      BY <1>3 DEF TaskRecords
    <3>2. task' = [task EXCEPT ![t] = rec] BY <1>0, <2>1 DEF TaskTypes
    <3> HIDE DEF rec
    <3>3. QED BY <1>0, <2>1, <3>1, <3>2, ReplaceFacts
  <2>2. CASE MarkFailure(t, "precheck", FALSE) /\ UNCHANGED worker
    BY <1>0, <2>2, MarkFailureFacts DEF Failures
  <2>3. QED BY <1>2, <2>1, <2>2
<1>5. \A u \in Tasks : Moves(u) BY <1>2, <1>4 DEF Moves
<1>6. PlanInv' /\ OnceInv' /\ ItemInv' /\ CompletedIsDecided' BY <1>1, <1>5, BatchKeeps
<1>7. OwnerInv' BY <1>0, <1>5, OwnersKeep
<1>8. \/ worker' = worker
      \/ /\ worker' \in RunRecords /\ worker'.task = t /\ worker'.pc = "backup"
         /\ task'[t].status = "running"
  BY <1>4 DEF Resting, RunRecords
<1>9. UnitInv' BY <1>0, <1>1, <1>2, <1>3, <1>4, <1>8 DEF UnitInv, SiteTypes
<1>10. BatchTypes' /\ SiteTypes' /\ RunTypes' /\ BoundTypes'
  BY <1>0, <1>1, <1>8, BudgetFacts DEF BatchTypes, SiteTypes, RunTypes
<1>11. QED BY <1>4, <1>6, <1>7, <1>9, <1>10 DEF Inv, StateTypes

-----------------------------------------------------------------------------
(* The steps of the requests, of the administrator and of the environment *)

LEMMA HeartbeatFailsInv ==
  ASSUME Inv, HeartbeatFails
  PROVE  Inv'
<1>0. StateTypes /\ TaskTypes /\ SiteTypes /\ RunTypes /\ BoundTypes /\ UnitInv
  BY DEF Inv, StateTypes
<1>1. /\ UNCHANGED <<task, batch, item, site, units, dirs, request, batcher, roller>> /\ Fault
      /\ worker' = [worker EXCEPT !.cancelled = TRUE]
  BY DEF HeartbeatFails
<1>2. worker' \in RunRecords /\ worker'.task = worker.task /\ worker'.pc = worker.pc
  BY <1>0, <1>1 DEF RunTypes, RunRecords
<1>3. OutsideEffect BY <1>0, <1>1, <1>2 DEF OutsideEffect, Moves, UnitInv
<1>4. TaskTypes' /\ SiteTypes' /\ RunTypes' /\ BoundTypes'
  BY <1>0, <1>1, <1>2, BudgetFacts DEF TaskTypes, SiteTypes, RunTypes
<1>5. QED BY <1>3, <1>4, OutsideEffectInv

LEMMA UnitEndsAloneInv ==
  ASSUME Inv, UnitEndsAlone
  PROVE  Inv'
<1>0. StateTypes /\ TaskTypes /\ SiteTypes /\ RunTypes /\ BoundTypes /\ UnitInv
  BY DEF Inv, StateTypes
<1>1. /\ UNCHANGED <<task, batch, item, dirs, worker, request, batcher, roller, budget>>
      /\ units' \subseteq units
      /\ site' = site \/ \E t \in units : site' = Written(task[t].comp, "new", TRUE)
  BY DEF UnitEndsAlone
<1>2. \A t \in units : Written(task[t].comp, "new", TRUE) \in SiteRecords
  <2>1. \A t \in units : task[t].comp \in Components BY <1>0 DEF SiteTypes, TaskTypes, TaskRecords
  <2>2. QED BY <1>0, <2>1, WrittenFacts
<1>3. OutsideEffect BY <1>0, <1>1 DEF OutsideEffect, Moves, UnitInv
<1>4. TaskTypes' /\ SiteTypes' /\ RunTypes' /\ BoundTypes'
  BY <1>0, <1>1, <1>2, BudgetFacts DEF TaskTypes, SiteTypes, RunTypes
<1>5. QED BY <1>3, <1>4, OutsideEffectInv

\* A step that replaces the record of one task and one request to roll back.
LEMMA RequestFacts ==
  ASSUME Inv, NEW r \in Rollbacks, NEW run \in RunRecords, roller' = [roller EXCEPT ![r] = run],
         UNCHANGED <<batch, item, units, request, batcher, worker>>, SiteTypes', BoundTypes', TaskTypes',
         \A t \in Tasks : Moves(t) /\ task'[t].status = task[t].status,
         run.pc # "idle" => run.task \in Tasks /\ task[run.task].status = "failed"
  PROVE  Inv'
<1>0. RunTypes /\ UnitInv BY DEF Inv, StateTypes
<1>1. RunTypes' BY <1>0 DEF RunTypes
<1>2. \A q \in Rollbacks : roller'[q].pc # "idle" => roller'[q].task \in Tasks /\ task[roller'[q].task].status = "failed"
  BY <1>0 DEF RunTypes, UnitInv
<1>3. OutsideEffect BY <1>2 DEF OutsideEffect
<1>4. QED BY <1>1, <1>3, OutsideEffectInv

LEMMA BeginManualRollbackInv ==
  ASSUME Inv, NEW r \in Rollbacks, BeginManualRollback(r)
  PROVE  Inv'
<1>0. StateTypes /\ TaskTypes /\ SiteTypes /\ RunTypes /\ BoundTypes /\ UnitInv
  BY DEF Inv, StateTypes
<1>1. UNCHANGED <<batch, item, site, units, dirs, worker, request, batcher, budget>>
  BY DEF BeginManualRollback
<1>2. PICK t \in Tasks : /\ Decidable(t)
                         /\ task' = [task EXCEPT ![t].owner = r]
                         /\ roller' = [roller EXCEPT ![r] = [Resting EXCEPT !.pc = "prepare", !.task = t]]
  BY DEF BeginManualRollback
<1> DEFINE rec == [task[t] EXCEPT !.owner = r]
           run == [Resting EXCEPT !.pc = "prepare", !.task = t]
<1>3. task[t] \in TaskRecords BY <1>0 DEF TaskTypes
<1>4. /\ rec \in TaskRecords /\ rec.comp = task[t].comp /\ rec.batch = task[t].batch
      /\ rec.status = task[t].status /\ rec.attention = task[t].attention
      /\ rec.disposition = task[t].disposition /\ rec.owner = r
  BY <1>3 DEF TaskRecords
<1>5. run \in RunRecords /\ run.task = t BY DEF Resting, RunRecords
<1>6. task' = [task EXCEPT ![t] = rec] BY <1>0, <1>2 DEF TaskTypes
<1>7. roller' = [roller EXCEPT ![r] = run] BY <1>2
<1> HIDE DEF rec, run
<1>8. TaskTypes' /\ task'[t] = rec /\ \A u \in Tasks \ {t} : task'[u] = task[u]
  BY <1>0, <1>4, <1>6, ReplaceFacts
<1>9. \A u \in Tasks : Moves(u) /\ task'[u].status = task[u].status
  BY <1>2, <1>4, <1>8 DEF Moves, Decidable
<1>10. SiteTypes' /\ BoundTypes' BY <1>0, <1>1, BudgetFacts DEF SiteTypes
<1>11. task[t].status = "failed" BY <1>2 DEF Decidable
<1>12. QED BY <1>1, <1>5, <1>7, <1>8, <1>9, <1>10, <1>11, RequestFacts

LEMMA PrepareManualRollbackInv ==
  ASSUME Inv, NEW r \in Rollbacks, PrepareManualRollback(r)
  PROVE  Inv'
<1>0. StateTypes /\ TaskTypes /\ SiteTypes /\ RunTypes /\ BoundTypes /\ UnitInv
  BY DEF Inv, StateTypes
<1>1. UNCHANGED <<batch, item, site, units, worker, request, batcher>> /\ roller[r].pc = "prepare"
  BY DEF PrepareManualRollback
<1>2. roller[r].task \in Tasks /\ task[roller[r].task].status = "failed" /\ roller[r] \in RunRecords
  BY <1>0, <1>1 DEF UnitInv, RunTypes
<1>3. CASE /\ UNCHANGED <<task, budget>> /\ dirs' = dirs \cup {roller[r].task}
           /\ roller' = [roller EXCEPT ![r].pc = "roll_maintenance"]
  <2> DEFINE run == [roller[r] EXCEPT !.pc = "roll_maintenance"]
  <2>1. run \in RunRecords /\ run.task = roller[r].task BY <1>2 DEF RunRecords, RollbackSteps
  <2>2. roller' = [roller EXCEPT ![r] = run] BY <1>0, <1>3 DEF RunTypes
  <2> HIDE DEF run
  <2>3. TaskTypes' /\ SiteTypes' /\ BoundTypes' BY <1>0, <1>1, <1>2, <1>3, BudgetFacts DEF SiteTypes, TaskTypes
  <2>4. \A u \in Tasks : Moves(u) /\ task'[u].status = task[u].status BY <1>3 DEF Moves
  <2>5. QED BY <1>1, <1>2, <2>1, <2>2, <2>3, <2>4, RequestFacts
<1>4. CASE /\ Fault \/ UNCHANGED budget
           /\ task' = IF Holds(r) THEN [task EXCEPT ![roller[r].task].owner = "none"] ELSE task
           /\ roller' = [roller EXCEPT ![r] = Resting] /\ UNCHANGED dirs
  <2>1. TaskTypes' /\ \A u \in Tasks : Moves(u) /\ task'[u].status = task[u].status
    <3> DEFINE t == roller[r].task
               rec == [task[t] EXCEPT !.owner = "none"]
    <3>1. /\ rec \in TaskRecords /\ rec.comp = task[t].comp /\ rec.batch = task[t].batch
          /\ rec.status = task[t].status /\ rec.attention = task[t].attention
          /\ rec.disposition = task[t].disposition /\ rec.owner = "none"
      BY <1>0, <1>2 DEF TaskRecords, TaskTypes
    <3>2. task' = task \/ task' = [task EXCEPT ![t] = rec] BY <1>0, <1>2, <1>4 DEF TaskTypes
    <3>3. t \in Tasks /\ task[t].status = "failed" BY <1>2
    <3> HIDE DEF rec, t
    <3>4. CASE task' = task BY <1>0, <3>4 DEF Moves, TaskTypes
    <3>5. CASE task' = [task EXCEPT ![t] = rec]
      <4>1. TaskTypes' /\ task'[t] = rec /\ \A u \in Tasks \ {t} : task'[u] = task[u]
        BY <1>0, <3>1, <3>3, <3>5, ReplaceFacts
      <4>2. QED BY <3>1, <3>3, <4>1, OwnerAssumption DEF Moves
    <3>6. QED BY <3>2, <3>4, <3>5
  <2>2. SiteTypes' /\ BoundTypes' BY <1>0, <1>1, <1>4, BudgetFacts DEF SiteTypes
  <2>3. QED BY <1>1, <1>4, <2>1, <2>2, RequestFacts, RestingFacts
<1>5. QED BY <1>3, <1>4 DEF PrepareManualRollback

LEMMA ManualRollbackInv ==
  ASSUME Inv, NEW r \in Rollbacks, ManualRollback(r)
  PROVE  Inv'
<1>0. StateTypes /\ StepTypes /\ TaskTypes /\ SiteTypes /\ RunTypes /\ BoundTypes /\ UnitInv
  BY DEF Inv, StateTypes, StepTypes
<1>1. UNCHANGED <<task, batch, item, units, dirs, worker, request, batcher>> /\ roller[r].pc \in RollbackSteps
  BY DEF ManualRollback, RollingBack
<1>2. roller[r].task \in Tasks /\ task[roller[r].task].status = "failed" /\ roller[r] \in RunRecords
  BY <1>0, <1>1 DEF UnitInv, RunTypes, RollbackSteps
<1>3. TaskTypes' /\ \A u \in Tasks : Moves(u) /\ task'[u].status = task[u].status
  BY <1>0, <1>1 DEF Moves, TaskTypes
<1>4. ASSUME NEW bad \in BOOLEAN, RollbackStep(roller[r], bad),
             roller' = [roller EXCEPT ![r].pc = StepAfter(@), ![r].bad = bad]
      PROVE  Inv'
  <2>1. site' \in SiteRecords /\ BoundTypes' /\ StepAfter(roller[r].pc) \in RollbackSteps \cup {"roll_finish"}
    BY <1>0, <1>1, <1>2, <1>4, RollbackStepFacts
  <2> DEFINE run == [roller[r] EXCEPT !.pc = StepAfter(@), !.bad = bad]
  <2>2. run \in RunRecords /\ run.task = roller[r].task BY <1>2, <2>1 DEF RunRecords
  <2>3. roller' = [roller EXCEPT ![r] = run] BY <1>0, <1>4 DEF RunTypes
  <2> HIDE DEF run
  <2>4. SiteTypes' BY <1>0, <1>1, <2>1 DEF SiteTypes
  <2>5. QED BY <1>1, <1>2, <1>3, <2>1, <2>2, <2>3, <2>4, RequestFacts
<1>5. CASE roller' = [roller EXCEPT ![r] = Resting] /\ UNCHANGED <<site, budget>>
  <2>1. SiteTypes' /\ BoundTypes' BY <1>0, <1>1, <1>5, BudgetFacts DEF SiteTypes
  <2>2. QED BY <1>1, <1>3, <1>5, <2>1, RequestFacts, RestingFacts
<1>6. QED BY <1>4, <1>5 DEF ManualRollback

LEMMA FinishManualRollbackInv ==
  ASSUME Inv, NEW r \in Rollbacks, FinishManualRollback(r)
  PROVE  Inv'
<1>0. StateTypes /\ TaskTypes /\ SiteTypes /\ RunTypes /\ BoundTypes /\ UnitInv /\ OwnerInv
  BY DEF Inv, StateTypes
<1>1. /\ UNCHANGED <<batch, item, site, units, worker, request, batcher, budget>> /\ roller[r].pc = "roll_finish"
      /\ dirs' \subseteq dirs /\ roller' = [roller EXCEPT ![r] = Resting]
  BY DEF FinishManualRollback
<1>2. roller[r].task \in Tasks /\ task[roller[r].task].status = "failed"
  BY <1>0, <1>1 DEF UnitInv, RunTypes
<1>3. TaskTypes' /\ \A u \in Tasks : Moves(u) /\ task'[u].status = task[u].status
  <2>1. CASE task' = task BY <1>0, <2>1 DEF Moves, TaskTypes
  <2>2. ASSUME NEW bad \in BOOLEAN, Holds(r),
               task' = [task EXCEPT ![roller[r].task].owner = "none", ![roller[r].task].attention = bad,
                                    ![roller[r].task].rollback = IF bad THEN "failed" ELSE "success",
                                    ![roller[r].task].disposition = IF bad THEN "none" ELSE "rolled_back"]
        PROVE  TaskTypes' /\ \A u \in Tasks : Moves(u) /\ task'[u].status = task[u].status
    <3> DEFINE t == roller[r].task
               rec == [task[t] EXCEPT !.owner = "none", !.attention = bad,
                                      !.rollback = IF bad THEN "failed" ELSE "success",
                                      !.disposition = IF bad THEN "none" ELSE "rolled_back"]
    <3>1. task[t] \in TaskRecords /\ task[t].attention
      BY <1>0, <1>2, <2>2 DEF TaskTypes, OwnerInv, Holds
    <3>3. task' = [task EXCEPT ![t] = rec] BY <1>0, <1>2, <2>2 DEF TaskTypes
    <3>4. t \in Tasks /\ task[t].status = "failed" BY <1>2
    <3> HIDE DEF t
    <3>2. /\ rec \in TaskRecords /\ rec.comp = task[t].comp /\ rec.batch = task[t].batch
          /\ rec.status = task[t].status /\ rec.owner = "none"
      <4> DEFINE freed == [task[t] EXCEPT !.owner = "none", !.attention = bad]
                 level == IF bad THEN "failed" ELSE "success"
                 choice == IF bad THEN "none" ELSE "rolled_back"
      <4>1. freed \in TaskRecords /\ freed.comp = task[t].comp /\ freed.batch = task[t].batch
            /\ freed.status = task[t].status /\ freed.owner = "none"
        BY <3>1 DEF TaskRecords
      <4>2. rec = [freed EXCEPT !.rollback = level, !.disposition = choice] OBVIOUS
      <4>3. level \in {"failed", "success"} /\ choice \in {"none", "rolled_back"} OBVIOUS
      <4> HIDE DEF freed, level, choice, rec
      <4>4. rec \in TaskRecords
        <5> DEFINE half == [freed EXCEPT !.rollback = level]
        <5>1. half \in TaskRecords BY <4>1, <4>3 DEF TaskRecords
        <5>2. rec = [half EXCEPT !.disposition = choice] BY <4>2
        <5> HIDE DEF half
        <5>3. QED BY <4>3, <5>1, <5>2 DEF TaskRecords
      <4>5. /\ rec.comp = freed.comp /\ rec.batch = freed.batch
            /\ rec.status = freed.status /\ rec.owner = freed.owner
        BY <4>1, <4>2 DEF TaskRecords
      <4>6. QED BY <4>1, <4>4, <4>5
    <3> HIDE DEF rec
    <3>5. TaskTypes' /\ task'[t] = rec /\ \A u \in Tasks \ {t} : task'[u] = task[u]
      BY <1>0, <3>2, <3>3, <3>4, ReplaceFacts
    <3>6. QED BY <3>1, <3>2, <3>4, <3>5, OwnerAssumption DEF Moves
  <2>3. PICK bad \in BOOLEAN : bad = (roller[r].bad \/ FinalizeFails(roller[r].task)) BY Zenon
  <2>4. QED BY <2>1, <2>2, <2>3 DEF FinishManualRollback
<1>4. SiteTypes' /\ BoundTypes' BY <1>0, <1>1, BudgetFacts DEF SiteTypes
<1>5. QED BY <1>1, <1>3, <1>4, RequestFacts, RestingFacts

LEMMA ClaimExpiresInv ==
  ASSUME Inv, NEW r \in Rollbacks, ClaimExpires(r)
  PROVE  Inv'
<1>0. StateTypes /\ TaskTypes /\ SiteTypes /\ RunTypes /\ BoundTypes /\ UnitInv /\ OwnerInv
  BY DEF Inv, StateTypes
<1>1. /\ UNCHANGED <<batch, item, site, units, dirs, worker, request, batcher, roller>> /\ Fault
      /\ roller[r].pc # "idle" /\ task' = [task EXCEPT ![roller[r].task].owner = "gone"]
  BY DEF ClaimExpires
<1> DEFINE t == roller[r].task
           rec == [task[t] EXCEPT !.owner = "gone"]
<1>2. t \in Tasks /\ task[t].status = "failed" /\ task[t] \in TaskRecords
  BY <1>0, <1>1 DEF UnitInv, TaskTypes
<1>3. /\ rec \in TaskRecords /\ rec.comp = task[t].comp /\ rec.batch = task[t].batch
      /\ rec.status = task[t].status /\ rec.attention = task[t].attention
      /\ rec.disposition = task[t].disposition /\ rec.owner = "gone"
  BY <1>2 DEF TaskRecords
<1>4. task' = [task EXCEPT ![t] = rec] BY <1>0, <1>1, <1>2 DEF TaskTypes
<1> HIDE DEF rec, t
<1>5. TaskTypes' /\ task'[t] = rec /\ \A u \in Tasks \ {t} : task'[u] = task[u]
  BY <1>0, <1>2, <1>3, <1>4, ReplaceFacts
<1>6. \A u \in Tasks : Moves(u) /\ task'[u].status = task[u].status
  BY <1>2, <1>3, <1>5 DEF Moves
<1>7. OutsideEffect BY <1>0, <1>1, <1>6 DEF OutsideEffect, UnitInv
<1>8. SiteTypes' /\ RunTypes' /\ BoundTypes' BY <1>0, <1>1, BudgetFacts DEF SiteTypes, RunTypes
<1>9. QED BY <1>5, <1>7, <1>8, OutsideEffectInv

LEMMA IgnoreInv ==
  ASSUME Inv, Ignore
  PROVE  Inv'
<1>0. StateTypes /\ TaskTypes /\ SiteTypes /\ RunTypes /\ BoundTypes /\ UnitInv
  BY DEF Inv, StateTypes
<1>1. UNCHANGED <<batch, item, site, units, dirs, worker, request, batcher, roller, budget>> BY DEF Ignore
<1>2. PICK t \in Tasks : DisposeFailedTaskIgnored(t) \/ DisposeInterrupted(t) BY DEF Ignore
<1>3. task[t] \in TaskRecords BY <1>0 DEF TaskTypes
<1>4. TaskTypes' /\ \A u \in Tasks : Moves(u) /\ task'[u].status = task[u].status
  <2>1. CASE DisposeFailedTaskIgnored(t)
    <3> DEFINE rec == [task[t] EXCEPT !.disposition = "ignored", !.attention = FALSE]
    <3>1. /\ rec \in TaskRecords /\ rec.comp = task[t].comp /\ rec.batch = task[t].batch
          /\ rec.status = task[t].status /\ ~rec.attention /\ rec.owner = task[t].owner
      <4>1. rec \in TaskRecords
        <5> DEFINE chosen == [task[t] EXCEPT !.disposition = "ignored"]
        <5>1. chosen \in TaskRecords BY <1>3 DEF TaskRecords
        <5>2. rec = [chosen EXCEPT !.attention = FALSE] OBVIOUS
        <5> HIDE DEF chosen, rec
        <5>3. QED BY <5>1, <5>2 DEF TaskRecords
      <4>2. rec.comp = task[t].comp /\ rec.batch = task[t].batch /\ rec.status = task[t].status BY <1>3 DEF TaskRecords
      <4>3. ~rec.attention BY <1>3 DEF TaskRecords
      <4>4. rec.owner = task[t].owner BY <1>3 DEF TaskRecords
      <4>5. QED BY <4>1, <4>2, <4>3, <4>4
    <3>2. task' = [task EXCEPT ![t] = rec] BY <1>0, <2>1 DEF DisposeFailedTaskIgnored, TaskTypes
    <3> HIDE DEF rec
    <3>3. TaskTypes' /\ task'[t] = rec /\ \A u \in Tasks \ {t} : task'[u] = task[u]
      BY <1>0, <3>1, <3>2, ReplaceFacts
    <3>4. task[t].status = "failed" /\ task[t].owner = "none"
      BY <2>1 DEF DisposeFailedTaskIgnored, Decidable
    <3>5. QED BY <3>1, <3>3, <3>4, OwnerAssumption DEF Moves
  <2>2. CASE DisposeInterrupted(t)
    <3> DEFINE rec == [task[t] EXCEPT !.disposition = "escalated"]
    <3>1. /\ rec \in TaskRecords /\ rec.comp = task[t].comp /\ rec.batch = task[t].batch
          /\ rec.status = task[t].status /\ rec.owner = task[t].owner /\ rec.disposition = "escalated"
      BY <1>3 DEF TaskRecords
    <3>2. task' = [task EXCEPT ![t] = rec] BY <1>0, <2>2 DEF DisposeInterrupted, TaskTypes
    <3> HIDE DEF rec
    <3>3. TaskTypes' /\ task'[t] = rec /\ \A u \in Tasks \ {t} : task'[u] = task[u]
      BY <1>0, <3>1, <3>2, ReplaceFacts
    <3>4. task[t].status = "interrupted" BY <2>2 DEF DisposeInterrupted, Undisposed
    <3>5. QED BY <3>1, <3>3, <3>4 DEF Moves
  <2>3. QED BY <1>2, <2>1, <2>2
<1>5. OutsideEffect BY <1>0, <1>1, <1>4 DEF OutsideEffect, UnitInv
<1>6. SiteTypes' /\ RunTypes' /\ BoundTypes' BY <1>0, <1>1, BudgetFacts DEF SiteTypes, RunTypes
<1>7. QED BY <1>4, <1>5, <1>6, OutsideEffectInv

LEMMA RecoverExpiredInv ==
  ASSUME Inv, RecoverExpired
  PROVE  Inv'
<1>0. StateTypes /\ TaskTypes /\ BatchTypes /\ SiteTypes /\ RunTypes /\ BoundTypes /\ UnitInv /\ OwnerInv
  BY DEF Inv, StateTypes
<1>1. UNCHANGED <<batch, item, site, units, dirs, worker, request, batcher, roller, budget>> BY DEF RecoverExpired
<1>2. PICK t \in Tasks : task[t].status = "running" /\ t \notin units /\ InterruptOwned(t)
  BY DEF RecoverExpired, Recoverable
<1>3. /\ TaskTypes' /\ \A u \in Tasks \ {t} : task'[u] = task[u]
      /\ task'[t].status = "interrupted" /\ task'[t].owner = "none"
      /\ task'[t].comp = task[t].comp /\ task'[t].batch = task[t].batch
  BY <1>0, <1>2, InterruptFacts
<1>4. \A u \in Tasks : Moves(u) BY <1>2, <1>3 DEF Moves
<1>5. PlanInv' /\ OnceInv' /\ ItemInv' /\ CompletedIsDecided' BY <1>1, <1>4, BatchKeeps
<1>6. OwnerInv' BY <1>0, <1>4, OwnersKeep
<1>7. UnitInv' BY <1>0, <1>1, <1>2, <1>3 DEF UnitInv, SiteTypes
<1>8. BatchTypes' /\ SiteTypes' /\ RunTypes' /\ BoundTypes'
  BY <1>0, <1>1, BudgetFacts DEF BatchTypes, SiteTypes, RunTypes
<1>9. QED BY <1>3, <1>5, <1>6, <1>7, <1>8 DEF Inv, StateTypes

LEMMA RestartInv ==
  ASSUME Inv, Restart
  PROVE  Inv'
<1>0. StateTypes /\ TaskTypes /\ BatchTypes /\ SiteTypes /\ RunTypes /\ BoundTypes /\ UnitInv /\ OwnerInv
  BY DEF Inv, StateTypes
<1>1. /\ UNCHANGED <<batch, item, site, units, dirs, faults>>
      /\ worker' = Resting /\ request' = NoTask /\ roller' = [r \in Rollbacks |-> Resting]
      /\ batcher' = [batcher EXCEPT !.pc = "idle", !.task = NoTask]
      /\ crashes < MaxCrashes /\ crashes' = crashes + 1
  BY DEF Restart
<1>2. \A t \in Tasks : /\ task'[t] \in TaskRecords /\ Moves(t)
                       /\ t \in units => task'[t].status = task[t].status
  <2>1. SUFFICES ASSUME NEW t \in Tasks
                 PROVE  /\ task'[t] \in TaskRecords /\ Moves(t)
                        /\ t \in units => task'[t].status = task[t].status
    OBVIOUS
  <2>2. task[t] \in TaskRecords BY <1>0 DEF TaskTypes
  <2>3. CASE Recoverable(t)
    <3> DEFINE base == Finished(t, "interrupted")
               rec == [base EXCEPT !.attention = TRUE]
    <3>1. /\ base \in TaskRecords /\ base.status = "interrupted" /\ base.owner = "none"
          /\ base.comp = task[t].comp /\ base.batch = task[t].batch
      BY <1>0, FinishedFacts DEF Ends
    <3>2. task'[t] = rec BY <2>3 DEF Restart
    <3> HIDE DEF base
    <3>3. /\ rec \in TaskRecords /\ rec.status = "interrupted" /\ rec.owner = "none"
          /\ rec.comp = task[t].comp /\ rec.batch = task[t].batch
      BY <3>1 DEF TaskRecords
    <3> HIDE DEF rec
    <3>4. QED BY <2>3, <3>2, <3>3 DEF Moves, Recoverable
  <2>4. CASE ~Recoverable(t) /\ task[t].owner # "none"
    <3> DEFINE rec == [task[t] EXCEPT !.owner = "gone"]
    <3>1. /\ rec \in TaskRecords /\ rec.comp = task[t].comp /\ rec.batch = task[t].batch
          /\ rec.status = task[t].status /\ rec.attention = task[t].attention
          /\ rec.disposition = task[t].disposition /\ rec.owner = "gone"
      BY <2>2 DEF TaskRecords
    <3>2. task'[t] = rec BY <2>4 DEF Restart
    <3>3. task[t].status \notin {"none", "preparing", "queued"} BY <1>0, <2>4 DEF OwnerInv
    <3> HIDE DEF rec
    <3>4. QED BY <3>1, <3>2, <3>3 DEF Moves
  <2>5. CASE ~Recoverable(t) /\ task[t].owner = "none"
    <3>1. task'[t] = task[t] BY <2>5 DEF Restart
    <3>2. QED BY <2>2, <3>1 DEF Moves
  <2>6. QED BY <2>3, <2>4, <2>5
<1>3. TaskTypes' BY <1>2 DEF TaskTypes, Restart
<1>4. \A t \in Tasks : Moves(t) BY <1>2
<1>5. batcher' \in BatcherRecords /\ batcher'.pc = "idle" /\ batcher'.key \in Plugins
  BY <1>0, <1>1 DEF BatchTypes, BatcherRecords
<1>6. PlanInv' /\ OnceInv' /\ ItemInv' /\ CompletedIsDecided' BY <1>1, <1>4, <1>5, BatchKeeps
<1>7. OwnerInv' BY <1>0, <1>4, OwnersKeep
<1>8. UnitInv'
  <2>1. \A t \in units' : task'[t].status \in {"running", "interrupted"}
    BY <1>0, <1>1, <1>2 DEF UnitInv, SiteTypes
  <2>2. worker'.task \notin units' BY <1>0, <1>1, TaskFacts, RestingFacts DEF SiteTypes
  <2>3. \A r \in Rollbacks : roller'[r].pc = "idle" BY <1>1, RestingFacts
  <2>4. QED BY <1>1, <2>1, <2>2, <2>3, RestingFacts DEF UnitInv
<1>9. RunTypes' BY <1>1, RestingFacts DEF RunTypes
<1>10. BatchTypes' /\ SiteTypes' BY <1>0, <1>1, <1>5 DEF BatchTypes, SiteTypes
<1>11. BoundTypes' BY <1>0, <1>1, BoundsAssumption DEF BoundTypes
<1>12. QED BY <1>3, <1>6, <1>7, <1>8, <1>9, <1>10, <1>11 DEF Inv, StateTypes

-----------------------------------------------------------------------------
(* Plans and the batch *)

LEMMA PlanFacts ==
  ASSUME NEW c \in Components, NEW inBatch \in BOOLEAN, NEW source \in {NoTask} \cup Tasks
  PROVE  LET plan == [Absent EXCEPT !.status = "preparing", !.comp = c, !.batch = inBatch, !.source = source]
         IN /\ plan \in TaskRecords /\ plan.status = "preparing" /\ plan.owner = "none" /\ ~plan.attention
            /\ plan.comp = c /\ plan.batch = inBatch
BY DEF Absent, TaskRecords

LEMMA SealFacts ==
  ASSUME NEW rec \in TaskRecords, rec.owner = "none", ~rec.attention
  PROVE  LET sealed == [rec EXCEPT !.status = "queued"]
         IN /\ sealed \in TaskRecords /\ sealed.status = "queued" /\ sealed.owner = "none" /\ ~sealed.attention
            /\ sealed.comp = rec.comp /\ sealed.batch = rec.batch
BY DEF TaskRecords

LEMMA UnsealedFacts ==
  ASSUME NEW rec \in TaskRecords, rec.owner = "none", ~rec.attention
  PROVE  LET failed == [rec EXCEPT !.status = "failed", !.failure = "package"]
         IN /\ failed \in TaskRecords /\ failed.status = "failed" /\ failed.owner = "none" /\ ~failed.attention
            /\ failed.comp = rec.comp /\ failed.batch = rec.batch
BY DEF TaskRecords

\* A step of a plan leaves what the other processes work on alone.
LEMMA PlanKeeps ==
  ASSUME StateTypes, OwnerInv, UnitInv, NEW t \in Tasks, task[t].status \in {"none", "preparing"},
         NEW rec \in TaskRecords, task' = [task EXCEPT ![t] = rec],
         rec.status \in {"preparing", "queued", "failed"}, rec.owner = "none", ~rec.attention,
         UNCHANGED <<units, worker, roller>>
  PROVE  /\ TaskTypes' /\ task'[t] = rec /\ \A u \in Tasks \ {t} : task'[u] = task[u]
         /\ OwnerInv' /\ UnitInv'
<1>0. TaskTypes /\ SiteTypes BY DEF StateTypes
<1>1. TaskTypes' /\ task'[t] = rec /\ \A u \in Tasks \ {t} : task'[u] = task[u]
  BY <1>0, ReplaceFacts
<1>2. OwnerInv'
  <2>1. \A u \in Tasks \ {t} :
          /\ task'[u].owner \in Rollbacks
               => task'[u].status = "failed" /\ task'[u].attention /\ task'[u].disposition = "none"
          /\ task'[u].status \in {"none", "preparing", "queued"} => task'[u].owner = "none" /\ ~task'[u].attention
    BY <1>1 DEF OwnerInv
  <2>2. rec.owner \notin Rollbacks BY OwnerAssumption
  <2>3. QED BY <1>1, <2>1, <2>2 DEF OwnerInv
<1>3. UnitInv'
  <2>1. \A u \in Tasks : task[u].status \in {"running", "interrupted", "failed"} => task'[u] = task[u]
    BY <1>1
  <2>2. QED BY <1>0, <2>1 DEF UnitInv, SiteTypes
<1>4. QED BY <1>1, <1>2, <1>3

LEMMA SinglePlanInv ==
  ASSUME Inv, NEW t \in Tasks, NEW rec \in TaskRecords, task' = [task EXCEPT ![t] = rec],
         task[t].status = "none" \/ (task[t].status = "preparing" /\ ~task[t].batch),
         rec.status \in {"preparing", "queued", "failed"}, ~rec.batch, rec.owner = "none", ~rec.attention,
         request' = NoTask \/ (request' = t /\ rec.status = "preparing"),
         UNCHANGED <<batch, item, site, units, dirs, worker, batcher, roller>>, BoundTypes'
  PROVE  Inv'
<1>0. /\ StateTypes /\ BatchTypes /\ SiteTypes /\ RunTypes
      /\ OwnerInv /\ PlanInv /\ OnceInv /\ ItemInv /\ CompletedIsDecided /\ UnitInv /\ batcher.key \in Plugins
  BY DEF Inv, StateTypes, BatchTypes, BatcherRecords
<1>1. /\ TaskTypes' /\ task'[t] = rec /\ \A u \in Tasks \ {t} : task'[u] = task[u]
      /\ OwnerInv' /\ UnitInv'
  BY <1>0, PlanKeeps
<1>2. \A p \in Plugins : t \notin ExistingTasks(p) /\ ExistingTasks(p)' = ExistingTasks(p)
  BY <1>1 DEF ExistingTasks
<1>3. \A p \in Plugins : \A u \in ExistingTasks(p) : task'[u] = task[u]
  BY <1>1, <1>2 DEF ExistingTasks
<1>4. PlanInv'
  <2>1. batcher.pc \in {"download", "mark"} => task'[batcher.task] = task[batcher.task]
    BY <1>0, <1>3 DEF PlanInv
  <2>2. request' # NoTask => task'[request'].status = "preparing" /\ ~task'[request'].batch
    BY <1>1
  <2>3. QED BY <1>0, <1>2, <2>1, <2>2 DEF PlanInv
<1>5. OnceInv' BY <1>0, <1>2 DEF OnceInv
<1>6. ItemInv' BY <1>0, <1>2, <1>3 DEF ItemInv
<1>7. CompletedIsDecided' BY <1>0, <1>2, <1>3 DEF CompletedIsDecided, Unresolved, Undisposed
<1>8. BatchTypes' /\ SiteTypes' /\ RunTypes' BY <1>0 DEF BatchTypes, SiteTypes, RunTypes
<1>9. QED BY <1>1, <1>4, <1>5, <1>6, <1>7, <1>8 DEF Inv, StateTypes

LEMMA ConfirmInv ==
  ASSUME Inv, NEW c \in Singles, Confirm(c)
  PROVE  Inv'
<1>0. BoundTypes BY DEF Inv, StateTypes
<1>1. /\ Unused # {} /\ request' = NextId
      /\ UNCHANGED <<batch, item, site, units, dirs, worker, batcher, roller, budget>>
  BY DEF Confirm
<1>2. PICK source \in {NoTask} \cup Tasks : CreatePlan(NextId, c, FALSE, source)
  BY DEF Confirm, BackupChoices
<1>3. NextId \in Tasks /\ task[NextId].status = "none" BY <1>1, NextIdFacts
<1> DEFINE plan == [Absent EXCEPT !.status = "preparing", !.comp = c, !.batch = FALSE, !.source = source]
<1>4. /\ plan \in TaskRecords /\ plan.status = "preparing" /\ plan.owner = "none" /\ ~plan.attention
      /\ ~plan.batch
  <2>1. c \in Components BY BatchAssumption
  <2>2. QED BY <2>1, PlanFacts
<1>5. task' = [task EXCEPT ![NextId] = plan] BY <1>2 DEF CreatePlan
<1>6. BoundTypes' BY <1>0, <1>1, BudgetFacts
<1> HIDE DEF plan
<1>7. QED BY <1>1, <1>3, <1>4, <1>5, <1>6, SinglePlanInv

LEMMA DownloadInv ==
  ASSUME Inv, Download
  PROVE  Inv'
<1>0. TaskTypes /\ BoundTypes /\ RunTypes /\ OwnerInv /\ PlanInv BY DEF Inv, StateTypes
<1>1. /\ request # NoTask /\ request' = NoTask
      /\ UNCHANGED <<batch, item, site, units, dirs, worker, batcher, roller>>
      /\ Fault \/ UNCHANGED budget
  BY DEF Download
<1>2. /\ request \in Tasks /\ task[request] \in TaskRecords
      /\ task[request].status = "preparing" /\ ~task[request].batch
      /\ task[request].owner = "none" /\ ~task[request].attention
  BY <1>0, <1>1 DEF RunTypes, TaskTypes, PlanInv, OwnerInv
<1>3. BoundTypes' BY <1>0, <1>1, BudgetFacts
<1> DEFINE sealed == [task[request] EXCEPT !.status = "queued"]
           failed == [task[request] EXCEPT !.status = "failed", !.failure = "package"]
<1>4. /\ sealed \in TaskRecords /\ sealed.status = "queued" /\ sealed.owner = "none" /\ ~sealed.attention
      /\ sealed.batch = task[request].batch
  BY <1>2, SealFacts
<1>5. /\ failed \in TaskRecords /\ failed.status = "failed" /\ failed.owner = "none" /\ ~failed.attention
      /\ failed.batch = task[request].batch
  BY <1>2, UnsealedFacts
<1>6. task' = [task EXCEPT ![request] = sealed] \/ task' = [task EXCEPT ![request] = failed]
  BY <1>0, <1>2 DEF Download, SealPlan, FailPreparingPlan, TaskTypes
<1> HIDE DEF sealed, failed
<1>7. CASE task' = [task EXCEPT ![request] = sealed]
  BY <1>1, <1>2, <1>3, <1>4, <1>7, SinglePlanInv
<1>8. CASE task' = [task EXCEPT ![request] = failed]
  BY <1>1, <1>2, <1>3, <1>5, <1>8, SinglePlanInv
<1>9. QED BY <1>6, <1>7, <1>8

\* The steps of the orchestrator that plan nothing.
LEMMA BatchOnlyInv ==
  ASSUME Inv, UNCHANGED <<task, site, units, dirs, worker, request, roller>>,
         BatchTypes', BoundTypes', PlanInv', ItemInv', CompletedIsDecided',
         batcher'.pc = "preview" => ExistingTasks(batcher'.key) = {}
  PROVE  Inv'
<1>0. StateTypes /\ TaskTypes /\ SiteTypes /\ RunTypes /\ OwnerInv /\ UnitInv /\ OnceInv BY DEF Inv, StateTypes
<1>1. TaskTypes' /\ SiteTypes' /\ RunTypes' BY <1>0 DEF TaskTypes, SiteTypes, RunTypes
<1>2. OwnerInv' BY <1>0 DEF OwnerInv
<1>3. UnitInv' BY <1>0 DEF UnitInv
<1>4. OnceInv' BY <1>0 DEF OnceInv, ExistingTasks
<1>5. QED BY <1>1, <1>2, <1>3, <1>4 DEF Inv, StateTypes

LEMMA CreatePluginBatchInv ==
  ASSUME Inv, CreatePluginBatch
  PROVE  Inv'
<1>0. BatchTypes /\ BoundTypes /\ PlanInv /\ ItemInv /\ OnceInv BY DEF Inv, StateTypes
<1>1. /\ UNCHANGED <<task, site, units, dirs, worker, request, batcher, roller, budget>>
      /\ batch.status = "none" /\ batch' = [batch EXCEPT !.status = "running"]
      /\ item' = [p \in Plugins |-> [NotDispatched EXCEPT !.status = "pending"]]
  BY DEF CreatePluginBatch
<1>2. [NotDispatched EXCEPT !.status = "pending"] \in ItemRecords
  BY BoundsAssumption DEF NotDispatched, ItemRecords
<1>3. \A p \in Plugins : item'[p].status = "pending" BY <1>1 DEF NotDispatched
<1>4. batch'.status = "running" /\ batch' \in BatchRecords BY <1>0, <1>1 DEF BatchTypes, BatchRecords
<1>5. BatchTypes' /\ BoundTypes' BY <1>0, <1>1, <1>2, <1>4, BudgetFacts DEF BatchTypes
<1>6. batcher.pc = "idle" BY <1>0, <1>1 DEF ItemInv
<1>7. PlanInv' BY <1>0, <1>1, <1>6 DEF PlanInv
<1>8. ItemInv' BY <1>1, <1>3, <1>6 DEF ItemInv
<1>9. CompletedIsDecided' BY <1>4 DEF CompletedIsDecided
<1>10. QED BY <1>1, <1>5, <1>6, <1>7, <1>8, <1>9, BatchOnlyInv

LEMMA CompleteBatchIfExhaustedInv ==
  ASSUME Inv, CompleteBatchIfExhausted
  PROVE  Inv'
<1>0. BatchTypes /\ BoundTypes /\ PlanInv /\ ItemInv /\ OnceInv BY DEF Inv, StateTypes
<1>1. /\ UNCHANGED <<task, item, site, units, dirs, worker, request, batcher, roller, budget>>
      /\ batcher.pc = "idle" /\ batch.status = "running" /\ Pending = {}
      /\ \A p \in Plugins : item[p].status = "dispatched" => ~Unresolved(item[p].task)
      /\ batch' = [batch EXCEPT !.status = "completed"]
  BY DEF CompleteBatchIfExhausted
<1>2. BatchTypes' /\ BoundTypes' BY <1>0, <1>1, BudgetFacts DEF BatchTypes, BatchRecords
<1>3. PlanInv' BY <1>0, <1>1 DEF PlanInv
<1>4. ItemInv' BY <1>0, <1>1 DEF ItemInv, ExistingTasks
<1>5. CompletedIsDecided'
  <2>1. SUFFICES ASSUME NEW p \in Plugins
                 PROVE  /\ item[p].status \in {"dispatched", "failed"}
                        /\ \A t \in ExistingTasks(p) : ~Unresolved(t)
    BY <1>1 DEF CompletedIsDecided, ExistingTasks, Unresolved, Undisposed
  <2>2. item[p].status \in {"dispatched", "failed"}
    <3>1. item[p].status \in {"none", "pending", "dispatched", "failed"}
      BY <1>0 DEF BatchTypes, ItemRecords
    <3>2. item[p].status # "pending" BY <1>1, PendingCovers
    <3>3. item[p].status # "none" BY <1>0, <1>1 DEF ItemInv
    <3>4. QED BY <3>1, <3>2, <3>3
  <2>3. CASE item[p].status = "dispatched"
    <3>1. item[p].task \in ExistingTasks(p) BY <1>0, <2>3 DEF ItemInv
    <3>2. \A t \in ExistingTasks(p) : t = item[p].task BY <1>0, <3>1 DEF OnceInv
    <3>3. ~Unresolved(item[p].task) BY <1>1, <2>3
    <3>4. QED BY <2>2, <3>2, <3>3
  <2>4. CASE item[p].status = "failed"
    <3>1. \A t \in ExistingTasks(p) : task[t].status = "failed" /\ ~task[t].attention
      BY <1>0, <2>4 DEF ItemInv
    <3>2. QED BY <2>2, <3>1 DEF Unresolved, Undisposed
  <2>5. QED BY <2>2, <2>3, <2>4
<1>6. QED BY <1>1, <1>2, <1>3, <1>4, <1>5, BatchOnlyInv

LEMMA AdoptExistingTaskInv ==
  ASSUME Inv, AdoptExistingTask
  PROVE  Inv'
<1>0. BatchTypes /\ BoundTypes /\ PlanInv /\ ItemInv /\ OnceInv BY DEF Inv, StateTypes
<1>1. /\ UNCHANGED <<task, batch, site, units, dirs, worker, request, batcher, roller, budget>>
      /\ batcher.pc = "idle" /\ batch.status = "running" /\ Pending # {}
  BY DEF AdoptExistingTask
<1> DEFINE p == NextPending
<1>2. PICK t \in ExistingTasks(p) : item' = [item EXCEPT ![p].status = "dispatched", ![p].task = t]
  BY DEF AdoptExistingTask
<1>3. p \in Plugins BY <1>1, NextPendingFacts
<1> HIDE DEF p
<1> DEFINE rec == [item[p] EXCEPT !.status = "dispatched", !.task = t]
<1>4. rec \in ItemRecords /\ rec.status = "dispatched" /\ rec.task = t
  BY <1>0, <1>3 DEF BatchTypes, ItemRecords, ExistingTasks
<1>5. item' = [item EXCEPT ![p] = rec] BY <1>0, <1>2, <1>3 DEF BatchTypes
<1> HIDE DEF rec
<1>6. BatchTypes' /\ BoundTypes' BY <1>0, <1>1, <1>4, <1>5, BudgetFacts DEF BatchTypes
<1>7. item'[p] = rec /\ \A q \in Plugins \ {p} : item'[q] = item[q] BY <1>0, <1>3, <1>5 DEF BatchTypes
<1>8. PlanInv' BY <1>0, <1>1 DEF PlanInv
<1>9. ItemInv' BY <1>0, <1>1, <1>3, <1>4, <1>7 DEF ItemInv, ExistingTasks
<1>10. CompletedIsDecided' BY <1>1 DEF CompletedIsDecided
<1>11. QED BY <1>1, <1>6, <1>8, <1>9, <1>10, BatchOnlyInv

LEMMA StartDispatchInv ==
  ASSUME Inv, StartDispatch
  PROVE  Inv'
<1>0. BatchTypes /\ BoundTypes /\ PlanInv /\ ItemInv /\ OnceInv BY DEF Inv, StateTypes
<1>1. /\ UNCHANGED <<task, batch, item, site, units, dirs, worker, request, roller, budget>>
      /\ batch.status = "running" /\ Pending # {} /\ ExistingTasks(NextPending) = {}
      /\ batcher' = [batcher EXCEPT !.pc = "preview", !.key = NextPending]
  BY DEF StartDispatch
<1>2. NextPending \in Plugins /\ item[NextPending].status = "pending" BY <1>1, NextPendingFacts
<1>3. batcher' \in BatcherRecords /\ batcher'.pc = "preview" /\ batcher'.key = NextPending
  BY <1>0, <1>1, <1>2 DEF BatchTypes, BatcherRecords
<1>4. BatchTypes' /\ BoundTypes' BY <1>0, <1>1, <1>3, BudgetFacts DEF BatchTypes
<1>5. PlanInv' BY <1>0, <1>1, <1>3 DEF PlanInv
<1>6. ItemInv' BY <1>0, <1>1, <1>2, <1>3 DEF ItemInv, ExistingTasks
<1>7. CompletedIsDecided' BY <1>1 DEF CompletedIsDecided
<1>8. QED BY <1>1, <1>3, <1>4, <1>5, <1>6, <1>7, BatchOnlyInv

LEMMA RejectFacts ==
  ASSUME BatchTypes, NEW p \in Plugins, NEW retryable \in BOOLEAN, RejectBatchItem(p, retryable)
  PROVE  /\ item' \in [Plugins -> ItemRecords] /\ \A q \in Plugins \ {p} : item'[q] = item[q]
         /\ item'[p].status \in {item[p].status, "failed"} /\ item'[p].task = item[p].task
<1>1. item[p] \in ItemRecords /\ item \in [Plugins -> ItemRecords] BY DEF BatchTypes
<1>2. CASE item' = [item EXCEPT ![p].status = "failed"]
  BY <1>1, <1>2 DEF ItemRecords
<1>3. CASE item' = [item EXCEPT ![p].tries = @ + 1] /\ item[p].tries < DispatchRetries
  <2> DEFINE rec == [item[p] EXCEPT !.tries = @ + 1]
  <2>1. rec \in ItemRecords /\ rec.status = item[p].status /\ rec.task = item[p].task
    BY <1>1, <1>3, BoundsAssumption DEF ItemRecords
  <2>2. item' = [item EXCEPT ![p] = rec] BY <1>1, <1>3
  <2> HIDE DEF rec
  <2>3. QED BY <1>1, <2>1, <2>2
<1>4. QED BY <1>2, <1>3 DEF RejectBatchItem, MarkBatchItemFailed

LEMMA PreviewFailsInv ==
  ASSUME Inv, PreviewFails
  PROVE  Inv'
<1>0. BatchTypes /\ BoundTypes /\ PlanInv /\ ItemInv /\ OnceInv BY DEF Inv, StateTypes
<1>1. /\ UNCHANGED <<task, batch, site, units, dirs, worker, request, roller>> /\ Fault
      /\ batcher.pc = "preview" /\ batcher' = [batcher EXCEPT !.pc = "idle"]
      /\ \E retryable \in BOOLEAN : RejectBatchItem(batcher.key, retryable)
  BY DEF PreviewFails
<1>2. /\ batcher.key \in Plugins /\ batcher' \in BatcherRecords /\ batcher'.pc = "idle"
  BY <1>0, <1>1 DEF BatchTypes, BatcherRecords
<1>3. /\ item' \in [Plugins -> ItemRecords] /\ \A q \in Plugins \ {batcher.key} : item'[q] = item[q]
      /\ item'[batcher.key].status \in {item[batcher.key].status, "failed"}
  BY <1>0, <1>1, <1>2, RejectFacts
<1>4. BatchTypes' /\ BoundTypes' BY <1>0, <1>1, <1>2, <1>3, BudgetFacts DEF BatchTypes
<1>5. PlanInv' BY <1>0, <1>1, <1>2 DEF PlanInv
<1>6. ItemInv'
  <2>1. ExistingTasks(batcher.key) = {} BY <1>0, <1>1 DEF OnceInv
  <2>2. item[batcher.key].status = "pending" /\ batch.status = "running" BY <1>0, <1>1 DEF ItemInv
  <2>3. \A p \in Plugins : ExistingTasks(p)' = ExistingTasks(p) BY <1>1 DEF ExistingTasks
  <2>4. QED BY <1>0, <1>1, <1>2, <1>3, <2>1, <2>2, <2>3 DEF ItemInv
<1>7. CompletedIsDecided' BY <1>0, <1>1 DEF CompletedIsDecided, ItemInv
<1>8. QED BY <1>1, <1>2, <1>4, <1>5, <1>6, <1>7, BatchOnlyInv

LEMMA MarkBatchItemDispatchedInv ==
  ASSUME Inv, MarkBatchItemDispatched
  PROVE  Inv'
<1>0. BatchTypes /\ BoundTypes /\ PlanInv /\ ItemInv /\ OnceInv BY DEF Inv, StateTypes
<1>1. /\ UNCHANGED <<task, batch, site, units, dirs, worker, request, roller, budget>>
      /\ batcher.pc = "mark" /\ batcher' = [batcher EXCEPT !.pc = "idle", !.task = NoTask]
      /\ item' = [item EXCEPT ![batcher.key].status = "dispatched", ![batcher.key].task = batcher.task]
  BY DEF MarkBatchItemDispatched
<1>2. /\ batcher.key \in Plugins /\ batcher.task \in {NoTask} \cup Tasks
      /\ batcher' \in BatcherRecords /\ batcher'.pc = "idle"
  BY <1>0, <1>1 DEF BatchTypes, BatcherRecords
<1>3. batcher.task \in ExistingTasks(batcher.key) BY <1>0, <1>1 DEF PlanInv
<1> DEFINE rec == [item[batcher.key] EXCEPT !.status = "dispatched", !.task = batcher.task]
<1>4. rec \in ItemRecords /\ rec.status = "dispatched" /\ rec.task = batcher.task
  BY <1>0, <1>2 DEF BatchTypes, ItemRecords
<1>5. item' = [item EXCEPT ![batcher.key] = rec] BY <1>0, <1>1, <1>2 DEF BatchTypes
<1> HIDE DEF rec
<1>6. BatchTypes' /\ BoundTypes' BY <1>0, <1>1, <1>2, <1>4, <1>5, BudgetFacts DEF BatchTypes
<1>7. item'[batcher.key] = rec /\ \A q \in Plugins \ {batcher.key} : item'[q] = item[q]
  BY <1>0, <1>2, <1>5 DEF BatchTypes
<1>8. PlanInv' BY <1>0, <1>1, <1>2 DEF PlanInv
<1>9. ItemInv'
  <2>1. \A p \in Plugins : ExistingTasks(p)' = ExistingTasks(p) BY <1>1 DEF ExistingTasks
  <2>2. batch.status # "none" => \A p \in Plugins : item'[p].status # "none"
    BY <1>0, <1>4, <1>7 DEF ItemInv
  <2>3. \A p \in Plugins : item'[p].status = "dispatched" => item'[p].task \in ExistingTasks(p)
    BY <1>0, <1>3, <1>4, <1>7 DEF ItemInv
  <2>4. \A p \in Plugins : item'[p].status = "failed"
          => \A t \in ExistingTasks(p) : task[t].status = "failed" /\ ~task[t].attention
    BY <1>0, <1>4, <1>7 DEF ItemInv
  <2>5. QED BY <1>1, <1>2, <2>1, <2>2, <2>3, <2>4 DEF ItemInv
<1>10. CompletedIsDecided' BY <1>0, <1>1 DEF CompletedIsDecided, ItemInv
<1>11. QED BY <1>1, <1>2, <1>6, <1>8, <1>9, <1>10, BatchOnlyInv

LEMMA SourceFacts ==
  ASSUME BatchTypes
  PROVE  EnsureBatchDatabaseBackupSource \in {NoTask} \cup Tasks
<1>1. batch.source \in {NoTask} \cup Tasks BY DEF BatchTypes, BatchRecords
<1>2. QED BY <1>1, FirstBackupFacts DEF EnsureBatchDatabaseBackupSource

LEMMA ConfirmForBatchInv ==
  ASSUME Inv, ConfirmForBatch
  PROVE  Inv'
<1>0. /\ StateTypes /\ TaskTypes /\ BatchTypes /\ SiteTypes /\ RunTypes /\ BoundTypes
      /\ OwnerInv /\ PlanInv /\ ItemInv /\ OnceInv /\ UnitInv
  BY DEF Inv, StateTypes
<1>1. /\ batcher.pc = "preview" /\ Unused # {}
      /\ UNCHANGED <<site, units, dirs, worker, request, roller, budget>>
      /\ batch' = [batch EXCEPT !.source = EnsureBatchDatabaseBackupSource]
  BY DEF ConfirmForBatch
<1>2. batcher.key \in Plugins /\ batcher.key \in Components BY <1>0 DEF BatchTypes, BatcherRecords, Components
<1>3. batch' \in BatchRecords /\ batch'.status = "running" /\ batch'.source \in {NoTask} \cup Tasks
  <2>1. EnsureBatchDatabaseBackupSource \in {NoTask} \cup Tasks BY <1>0, SourceFacts
  <2>2. batch \in BatchRecords /\ batch.status = "running" BY <1>0, <1>1 DEF BatchTypes, ItemInv
  <2>3. QED BY <1>1, <2>1, <2>2 DEF BatchRecords
<1>4. /\ ExistingTasks(batcher.key) = {} /\ item[batcher.key].status = "pending"
      /\ request # NoTask => task[request].status = "preparing"
  BY <1>0, <1>1 DEF OnceInv, ItemInv, PlanInv
<1>5. CompletedIsDecided' BY <1>3 DEF CompletedIsDecided
<1>6. BoundTypes' /\ SiteTypes' /\ RunTypes' BY <1>0, <1>1, BudgetFacts DEF SiteTypes, RunTypes
<1>7. CASE /\ RejectBatchItem(batcher.key, FALSE) /\ batcher' = [batcher EXCEPT !.pc = "idle"] /\ UNCHANGED task
  <2>1. batcher' \in BatcherRecords /\ batcher'.pc = "idle" BY <1>0, <1>7 DEF BatchTypes, BatcherRecords
  <2>2. /\ item' \in [Plugins -> ItemRecords] /\ \A q \in Plugins \ {batcher.key} : item'[q] = item[q]
        /\ item'[batcher.key].status \in {item[batcher.key].status, "failed"}
    BY <1>0, <1>2, <1>7, RejectFacts
  <2>3. BatchTypes' BY <1>3, <2>1, <2>2 DEF BatchTypes
  <2>4. PlanInv' BY <1>0, <1>1, <1>7, <2>1 DEF PlanInv
  <2>5. \A p \in Plugins : ExistingTasks(p)' = ExistingTasks(p) BY <1>7 DEF ExistingTasks
  <2>6. ItemInv' BY <1>0, <1>1, <1>2, <1>3, <1>4, <1>7, <2>1, <2>2, <2>5 DEF ItemInv
  <2>7. QED BY <1>1, <1>5, <1>6, <1>7, <2>1, <2>3, <2>4, <2>6, BatchOnlyInv
<1>8. CASE /\ CreatePlan(NextId, batcher.key, TRUE, batch'.source)
           /\ batcher' = [batcher EXCEPT !.pc = "download", !.task = NextId] /\ UNCHANGED item
  <2> DEFINE t == NextId
             plan == [Absent EXCEPT !.status = "preparing", !.comp = batcher.key, !.batch = TRUE, !.source = batch'.source]
  <2>0. PICK k \in Plugins : k = batcher.key BY <1>2
  <2>1. t \in Tasks /\ task[t].status = "none" BY <1>1, NextIdFacts
  <2>2. /\ plan \in TaskRecords /\ plan.status = "preparing" /\ plan.owner = "none" /\ ~plan.attention
        /\ plan.comp = batcher.key /\ plan.batch = TRUE
    BY <1>2, <1>3, PlanFacts
  <2>3. task' = [task EXCEPT ![t] = plan] BY <1>8 DEF CreatePlan
  <2>4. batcher' = [batcher EXCEPT !.pc = "download", !.task = t] BY <1>8
  <2> HIDE DEF t, plan
  <2>5. /\ TaskTypes' /\ task'[t] = plan /\ \A u \in Tasks \ {t} : task'[u] = task[u]
        /\ OwnerInv' /\ UnitInv'
    BY <1>0, <1>1, <2>1, <2>2, <2>3, PlanKeeps
  <2>6. /\ batcher' \in BatcherRecords /\ batcher'.pc = "download" /\ batcher'.task = t
        /\ batcher'.key = batcher.key
    BY <1>0, <2>1, <2>4 DEF BatchTypes, BatcherRecords
  <2>7. /\ ExistingTasks(k)' = {t}
        /\ \A p \in Plugins \ {k} : ExistingTasks(p)' = ExistingTasks(p) /\ t \notin ExistingTasks(p)
    <3>1. ExistingTasks(k)' = {t}
      <4>1. t \in ExistingTasks(k)' BY <2>0, <2>1, <2>2, <2>5 DEF ExistingTasks
      <4>2. ASSUME NEW u \in ExistingTasks(k)', u # t PROVE FALSE
        <5>1. u \in Tasks /\ task'[u] = task[u] BY <2>5, <4>2 DEF ExistingTasks
        <5>2. u \in ExistingTasks(k) BY <4>2, <5>1 DEF ExistingTasks
        <5>3. QED BY <1>4, <2>0, <5>2
      <4>3. QED BY <4>1, <4>2
    <3>2. \A p \in Plugins \ {k} : ExistingTasks(p)' = ExistingTasks(p) /\ t \notin ExistingTasks(p)
      BY <2>0, <2>1, <2>2, <2>5 DEF ExistingTasks
    <3>3. QED BY <3>1, <3>2
  <2>8. \A p \in Plugins \ {k} : \A u \in ExistingTasks(p) : task'[u] = task[u]
    BY <2>5, <2>7 DEF ExistingTasks
  <2>9. PlanInv'
    <3>1. request # NoTask => task'[request] = task[request] BY <1>0, <1>4, <2>1, <2>5 DEF RunTypes
    <3>2. request' # NoTask => task'[request'].status = "preparing" /\ ~task'[request'].batch
      BY <1>0, <1>1, <3>1 DEF PlanInv
    <3>3. QED BY <2>0, <2>2, <2>5, <2>6, <2>7, <3>2 DEF PlanInv
  <2>10. OnceInv'
    <3>1. ASSUME NEW p \in Plugins PROVE \A u, v \in ExistingTasks(p)' : u = v
      <4>1. CASE p = k BY <2>7, <4>1
      <4>2. CASE p # k
        <5>1. ExistingTasks(p)' = ExistingTasks(p) BY <2>7, <4>2
        <5>2. QED BY <1>0, <5>1 DEF OnceInv
      <4>3. QED BY <4>1, <4>2
    <3>2. QED BY <2>6, <3>1 DEF OnceInv
  <2>11. ItemInv'
    <3>1. batcher'.pc # "idle" => batch'.status = "running" /\ item'[batcher'.key].status = "pending"
      BY <1>3, <1>4, <1>8, <2>6
    <3>2. ASSUME NEW p \in Plugins
          PROVE  /\ batch'.status # "none" => item'[p].status # "none"
                 /\ item'[p].status = "dispatched" => item'[p].task \in ExistingTasks(p)'
                 /\ item'[p].status = "failed"
                      => \A u \in ExistingTasks(p)' : task'[u].status = "failed" /\ ~task'[u].attention
      <4>1. CASE p = k BY <1>4, <1>8, <2>0, <4>1
      <4>2. CASE p # k
        <5>1. batch.status = "running" BY <1>0, <1>1 DEF ItemInv
        <5>2. ExistingTasks(p)' = ExistingTasks(p) /\ \A u \in ExistingTasks(p) : task'[u] = task[u]
          BY <2>7, <2>8, <4>2
        <5>3. QED BY <1>0, <1>8, <5>1, <5>2 DEF ItemInv
      <4>3. QED BY <4>1, <4>2
    <3>3. QED BY <3>1, <3>2 DEF ItemInv
  <2>12. BatchTypes' BY <1>0, <1>3, <1>8, <2>6 DEF BatchTypes
  <2>13. QED BY <1>5, <1>6, <2>5, <2>9, <2>10, <2>11, <2>12 DEF Inv, StateTypes
<1>9. QED BY <1>7, <1>8 DEF ConfirmForBatch

LEMMA DownloadForBatchInv ==
  ASSUME Inv, DownloadForBatch
  PROVE  Inv'
<1>0. /\ StateTypes /\ TaskTypes /\ BatchTypes /\ SiteTypes /\ RunTypes /\ BoundTypes
      /\ OwnerInv /\ PlanInv /\ ItemInv /\ OnceInv /\ UnitInv
  BY DEF Inv, StateTypes
<1>1. /\ batcher.pc = "download"
      /\ Fault \/ UNCHANGED budget
      /\ UNCHANGED <<batch, site, units, dirs, worker, request, roller>>
  BY DEF DownloadForBatch
<1> DEFINE t == batcher.task
           k == batcher.key
<1>2. /\ k \in Plugins /\ t \in Tasks /\ t \in ExistingTasks(k) /\ task[t] \in TaskRecords
      /\ task[t].status = "preparing" /\ task[t].batch /\ task[t].comp = k
      /\ task[t].owner = "none" /\ ~task[t].attention
      /\ batch.status = "running" /\ item[k].status = "pending"
  <2>1. k \in Plugins BY <1>0 DEF BatchTypes, BatcherRecords
  <2>2. t \in ExistingTasks(k) /\ task[t].status = "preparing" BY <1>0, <1>1 DEF PlanInv
  <2>3. t \in Tasks /\ task[t].batch /\ task[t].comp = k BY <2>2 DEF ExistingTasks
  <2>4. task[t] \in TaskRecords BY <1>0, <2>3 DEF TaskTypes
  <2>5. task[t].owner = "none" /\ ~task[t].attention BY <1>0, <2>2, <2>3 DEF OwnerInv
  <2>6. batch.status = "running" /\ item[k].status = "pending" BY <1>0, <1>1 DEF ItemInv
  <2>7. QED BY <2>1, <2>2, <2>3, <2>4, <2>5, <2>6
<1> DEFINE sealed == [task[t] EXCEPT !.status = "queued"]
           failed == [task[t] EXCEPT !.status = "failed", !.failure = "package"]
<1>3. /\ sealed \in TaskRecords /\ sealed.status = "queued" /\ sealed.owner = "none" /\ ~sealed.attention
      /\ sealed.comp = task[t].comp /\ sealed.batch = task[t].batch
  BY <1>2, SealFacts
<1>4. /\ failed \in TaskRecords /\ failed.status = "failed" /\ failed.owner = "none" /\ ~failed.attention
      /\ failed.comp = task[t].comp /\ failed.batch = task[t].batch
  BY <1>2, UnsealedFacts
<1>5. \/ task' = [task EXCEPT ![t] = sealed] /\ batcher' = [batcher EXCEPT !.pc = "mark"] /\ UNCHANGED item
      \/ /\ task' = [task EXCEPT ![t] = failed] /\ RejectBatchItem(k, TRUE)
         /\ batcher' = [batcher EXCEPT !.pc = "idle", !.task = NoTask]
  BY <1>0, <1>2 DEF DownloadForBatch, SealPlan, FailPreparingPlan, TaskTypes
<1> HIDE DEF sealed, failed
<1>6. BoundTypes' /\ SiteTypes' /\ RunTypes' BY <1>0, <1>1, BudgetFacts DEF SiteTypes, RunTypes
<1>7. CompletedIsDecided' BY <1>1, <1>2 DEF CompletedIsDecided
<1>8. ASSUME NEW rec \in TaskRecords, task' = [task EXCEPT ![t] = rec], rec.status \in {"queued", "failed"},
             rec.owner = "none", ~rec.attention, rec.comp = task[t].comp, rec.batch = task[t].batch,
             item' \in [Plugins -> ItemRecords], \A q \in Plugins \ {k} : item'[q] = item[q],
             item'[k].status = "pending" \/ (item'[k].status = "failed" /\ rec.status = "failed"),
             batcher' \in BatcherRecords,
             batcher'.pc = "idle" \/ (batcher'.pc = "mark" /\ batcher'.task = t /\ batcher'.key = k
                                      /\ item'[k].status = "pending")
      PROVE  Inv'
  <2>1. /\ TaskTypes' /\ task'[t] = rec /\ \A u \in Tasks \ {t} : task'[u] = task[u]
        /\ OwnerInv' /\ UnitInv'
    <3>1. rec.status \in {"preparing", "queued", "failed"} BY <1>8
    <3>2. QED BY <1>0, <1>1, <1>2, <1>8, <3>1, PlanKeeps
  <2>2. \A p \in Plugins : ExistingTasks(p)' = ExistingTasks(p)
    <3>1. \A u \in Tasks : /\ task'[u].batch = task[u].batch /\ task'[u].comp = task[u].comp
                           /\ task'[u].status = "none" <=> task[u].status = "none"
      <4>1. task'[t].status # "none" /\ task[t].status # "none" BY <1>2, <1>8, <2>1
      <4>2. task'[t].batch = task[t].batch /\ task'[t].comp = task[t].comp BY <1>8, <2>1
      <4>3. QED BY <2>1, <4>1, <4>2
    <3>2. QED BY <3>1 DEF ExistingTasks
  <2>3. \A u \in ExistingTasks(k) : u = t BY <1>0, <1>2 DEF OnceInv
  <2>4. \A p \in Plugins \ {k} : \A u \in ExistingTasks(p) : task'[u] = task[u]
    BY <1>2, <2>1 DEF ExistingTasks
  <2>5. request # NoTask => request # t BY <1>0, <1>2 DEF PlanInv
  <2>6. PlanInv'
    <3>1. request' # NoTask => task'[request'].status = "preparing" /\ ~task'[request'].batch
      BY <1>0, <1>1, <2>1, <2>5 DEF PlanInv, RunTypes
    <3>2. QED BY <1>2, <1>8, <2>2, <3>1 DEF PlanInv
  <2>7. OnceInv' BY <1>0, <1>8, <2>2 DEF OnceInv
  <2>8. ItemInv'
    <3>1. batcher'.pc # "idle" => batch'.status = "running" /\ item'[batcher'.key].status = "pending"
      BY <1>1, <1>2, <1>8
    <3>2. ASSUME NEW p \in Plugins
          PROVE  /\ batch'.status # "none" => item'[p].status # "none"
                 /\ item'[p].status = "dispatched" => item'[p].task \in ExistingTasks(p)'
                 /\ item'[p].status = "failed"
                      => \A u \in ExistingTasks(p)' : task'[u].status = "failed" /\ ~task'[u].attention
      <4>1. CASE p = k BY <1>2, <1>8, <2>1, <2>2, <2>3, <4>1
      <4>2. CASE p # k
        <5>1. ExistingTasks(p)' = ExistingTasks(p) /\ \A u \in ExistingTasks(p) : task'[u] = task[u]
          BY <2>2, <2>4, <4>2
        <5>2. item'[p] = item[p] BY <1>8, <4>2
        <5>3. QED BY <1>0, <1>1, <5>1, <5>2 DEF ItemInv
      <4>3. QED BY <4>1, <4>2
    <3>3. QED BY <3>1, <3>2 DEF ItemInv
  <2>9. BatchTypes' BY <1>0, <1>1, <1>8 DEF BatchTypes
  <2>10. QED BY <1>6, <1>7, <2>1, <2>6, <2>7, <2>8, <2>9 DEF Inv, StateTypes
<1>9. CASE task' = [task EXCEPT ![t] = sealed] /\ batcher' = [batcher EXCEPT !.pc = "mark"] /\ UNCHANGED item
  <2>1. batcher' \in BatcherRecords /\ batcher'.pc = "mark" /\ batcher'.task = t /\ batcher'.key = k
    BY <1>0, <1>9 DEF BatchTypes, BatcherRecords
  <2>2. item' \in [Plugins -> ItemRecords] /\ \A q \in Plugins : item'[q] = item[q]
    BY <1>0, <1>9 DEF BatchTypes
  <2>3. QED BY <1>2, <1>3, <1>8, <1>9, <2>1, <2>2
<1>10. CASE /\ task' = [task EXCEPT ![t] = failed] /\ RejectBatchItem(k, TRUE)
            /\ batcher' = [batcher EXCEPT !.pc = "idle", !.task = NoTask]
  <2>1. batcher' \in BatcherRecords /\ batcher'.pc = "idle"
    BY <1>0, <1>10 DEF BatchTypes, BatcherRecords
  <2>2. /\ item' \in [Plugins -> ItemRecords] /\ \A q \in Plugins \ {k} : item'[q] = item[q]
        /\ item'[k].status \in {item[k].status, "failed"}
    BY <1>0, <1>2, <1>10, RejectFacts
  <2>3. QED BY <1>2, <1>4, <1>8, <1>10, <2>1, <2>2
<1>11. QED BY <1>5, <1>9, <1>10

-----------------------------------------------------------------------------
(* The theorems *)

LEMMA InitInv == Init => Inv
<1> SUFFICES ASSUME Init PROVE Inv OBVIOUS
<1>0. 1 \in 1..Len(BatchKeys) /\ BatchKeys[1] \in Plugins
  <2>1. Len(BatchKeys) # 0 BY BatchAssumption DEF Plugins
  <2>2. QED BY <2>1, BatchKeysFacts
<1>1. Absent \in TaskRecords /\ Absent.status = "none" /\ Absent.owner = "none" /\ ~Absent.attention
  BY DEF Absent, TaskRecords, Components
<1>2. TaskTypes /\ \A t \in Tasks : task[t] = Absent BY <1>1 DEF Init, TaskTypes
<1>3. NotDispatched \in ItemRecords BY BoundsAssumption DEF NotDispatched, ItemRecords
<1>4. BatchTypes BY <1>0, <1>3 DEF Init, BatchTypes, BatchRecords, BatcherRecords
<1>5. SiteTypes BY DEF Init, SiteTypes, SiteRecords
<1>6. RunTypes BY RestingFacts DEF Init, RunTypes
<1>7. BoundTypes BY BoundsAssumption DEF Init, BoundTypes
<1>8. OwnerInv BY <1>1, <1>2, OwnerAssumption DEF OwnerInv
<1>9. \A p \in Plugins : ExistingTasks(p) = {} /\ item[p].status = "none"
  BY <1>1, <1>2 DEF ExistingTasks, Init, NotDispatched
<1>10. batcher.pc = "idle" /\ request = NoTask /\ batch.status = "none" BY DEF Init
<1>11. PlanInv /\ OnceInv /\ ItemInv /\ CompletedIsDecided
  BY <1>9, <1>10 DEF PlanInv, OnceInv, ItemInv, CompletedIsDecided
<1>12. UnitInv BY RestingFacts DEF Init, UnitInv
<1>13. QED BY <1>2, <1>4, <1>5, <1>6, <1>7, <1>8, <1>11, <1>12 DEF Inv, StateTypes

LEMMA StutterInv == Inv /\ UNCHANGED vars => Inv'
<1> SUFFICES ASSUME Inv, UNCHANGED vars PROVE Inv' OBVIOUS
<1>0. /\ TaskTypes /\ BatchTypes /\ SiteTypes /\ RunTypes /\ BoundTypes /\ StateTypes
      /\ OwnerInv /\ PlanInv /\ ItemInv /\ OnceInv /\ CompletedIsDecided /\ UnitInv
  BY DEF Inv, StateTypes
<1>1. UNCHANGED <<task, batch, item, site, units, dirs, worker, request, batcher, roller, alone, faults, crashes>>
  BY DEF vars
<1>2. StateTypes' BY <1>0, <1>1 DEF StateTypes, TaskTypes, BatchTypes, SiteTypes, RunTypes, BoundTypes
<1>3. OwnerInv' /\ PlanInv' /\ ItemInv' /\ OnceInv' /\ UnitInv'
  BY <1>0, <1>1 DEF OwnerInv, PlanInv, ItemInv, OnceInv, UnitInv, ExistingTasks
<1>4. CompletedIsDecided' BY <1>0, <1>1 DEF CompletedIsDecided, ExistingTasks, Unresolved, Undisposed
<1>5. QED BY <1>2, <1>3, <1>4 DEF Inv

LEMMA NextInv == Inv /\ [Next]_vars => Inv'
<1> SUFFICES ASSUME Inv, [Next]_vars PROVE Inv' OBVIOUS
<1>1. ASSUME BatchStep PROVE Inv'
  BY <1>1, CompleteBatchIfExhaustedInv, AdoptExistingTaskInv, StartDispatchInv, PreviewFailsInv,
     ConfirmForBatchInv, DownloadForBatchInv, MarkBatchItemDispatchedInv DEF BatchStep
<1>2. ASSUME WorkerStep PROVE Inv'
  BY <1>2, ClaimInv, PrepareBackupsInv, PrepareUpdateInv, UnlockInv, FailBeforeWriteInv, StartApplyInv, ApplyInv,
     SupervisionUncertainInv, CheckTargetHealthInv, RestoreFileLockInv, MarkSuccessInv,
     AutomaticRollbackInv, FinishAutomaticRollbackInv, InterruptIfOwnedInv DEF WorkerStep
<1>3. ASSUME NEW r \in Rollbacks, RollbackRequest(r) PROVE Inv'
  BY <1>3, PrepareManualRollbackInv, ManualRollbackInv, FinishManualRollbackInv DEF RollbackRequest
<1>4. QED
  BY <1>1, <1>2, <1>3, ConfirmInv, CreatePluginBatchInv, IgnoreInv, BeginManualRollbackInv, DownloadInv,
     UnitEndsAloneInv, RecoverExpiredInv, HeartbeatFailsInv, RestartInv, ClaimExpiresInv, StutterInv DEF Next

\* The invariant the theorems below rest on holds in every reachable state.
THEOREM InductiveInvariant == Spec => []Inv
<1>1. QED BY InitInv, NextInv, PTL DEF Spec

\* Every variable stays in its set, whatever fails and however often the panel restarts.
THEOREM TypeCorrect == Spec => []TypeOK
<1>1. Init => alone \in BOOLEAN BY DEF Init
<1>2. alone \in BOOLEAN /\ [Next]_vars => (alone \in BOOLEAN)'
  <2> SUFFICES ASSUME alone \in BOOLEAN, [Next]_vars PROVE alone' \in BOOLEAN OBVIOUS
  <2>1. Claim \/ (\E r \in Rollbacks : BeginManualRollback(r)) => alone' \in BOOLEAN
    BY DEF Claim, BeginManualRollback
  <2>2. BatchStep => UNCHANGED alone
    BY DEF BatchStep, CompleteBatchIfExhausted, AdoptExistingTask, StartDispatch, PreviewFails, ConfirmForBatch,
           DownloadForBatch, MarkBatchItemDispatched
  <2>3. WorkerStep => Claim \/ UNCHANGED alone
    BY DEF WorkerStep, PrepareBackups, PrepareUpdate, Unlock, FailBeforeWrite, StartApply, Apply,
           SupervisionUncertain, CheckTargetHealth, RestoreFileLock, MarkSuccess, AutomaticRollback,
           FinishAutomaticRollback, InterruptIfOwned
  <2>4. \A r \in Rollbacks : RollbackRequest(r) \/ ClaimExpires(r) => UNCHANGED alone
    BY DEF RollbackRequest, PrepareManualRollback, ManualRollback, FinishManualRollback, ClaimExpires
  <2>5. (\E c \in Singles : Confirm(c)) \/ CreatePluginBatch \/ Ignore \/ Download \/ UnitEndsAlone
          \/ RecoverExpired \/ HeartbeatFails \/ Restart \/ UNCHANGED vars => UNCHANGED alone
    BY DEF Confirm, CreatePluginBatch, Ignore, Download, UnitEndsAlone, RecoverExpired, HeartbeatFails, Restart, vars
  <2>6. QED BY <2>1, <2>2, <2>3, <2>4, <2>5 DEF Next
<1>3. Inv /\ alone \in BOOLEAN => TypeOK BY DEF Inv, TypeOK
<1>4. QED BY <1>1, <1>2, <1>3, InductiveInvariant, PTL DEF Spec

\* A request that has claimed a failed task does not go on rolling it back once
\* the administrator has ignored it: DisposeFailedTask refuses a claimed task.
THEOREM IgnoredStaysIgnored == Spec => []IgnoredIsLeftAlone
<1>1. Inv => IgnoredIsLeftAlone
  <2> SUFFICES ASSUME Inv, NEW r \in Rollbacks, RollingBack(roller[r]), Holds(r)
               PROVE  task[roller[r].task].disposition = "none"
    BY DEF IgnoredIsLeftAlone
  <2>1. roller[r].pc # "idle" BY DEF RollingBack, RollbackSteps
  <2>2. roller[r].task \in Tasks BY <2>1 DEF Inv, UnitInv
  <2>3. task[roller[r].task].owner \in Rollbacks BY DEF Holds
  <2>4. QED BY <2>2, <2>3 DEF Inv, OwnerInv
<1>2. QED BY <1>1, InductiveInvariant, PTL

\* No file or database is put back while the unit of the same task may still write.
THEOREM RollbackHasTheSite == Spec => []RollbackIsAlone
<1>1. Inv => RollbackIsAlone
  <2> SUFFICES ASSUME Inv PROVE RollbackIsAlone OBVIOUS
  <2>0. UnitInv BY DEF Inv
  <2>1. RollingBack(worker) => worker.task \notin units
    BY <2>0 DEF UnitInv, RollingBack, RollbackSteps
  <2>2. ASSUME NEW r \in Rollbacks, RollingBack(roller[r]) PROVE roller[r].task \notin units
    <3>1. task[roller[r].task].status = "failed" BY <2>0, <2>2 DEF UnitInv, RollingBack, RollbackSteps
    <3>2. QED BY <2>0, <3>1 DEF UnitInv
  <2>3. QED BY <2>1, <2>2 DEF RollbackIsAlone
<1>2. QED BY <1>1, InductiveInvariant, PTL

\* A plugin of a batch has one task at most, wherever a dispatch is interrupted.
THEOREM ItemHasOneTask == Spec => []BatchItemOnce
<1>1. Inv => BatchItemOnce
  <2> SUFFICES ASSUME Inv, NEW p \in Plugins PROVE Cardinality(ExistingTasks(p)) <= 1
    BY DEF BatchItemOnce
  <2>1. \A t, u \in ExistingTasks(p) : t = u BY DEF Inv, OnceInv
  <2>2. CASE ExistingTasks(p) = {} BY <2>2, FS_EmptySet
  <2>3. CASE ExistingTasks(p) # {}
    <3>1. PICK t \in ExistingTasks(p) : ExistingTasks(p) = {t} BY <2>1, <2>3
    <3>2. Cardinality({t}) = 1 BY FS_Singleton
    <3>3. QED BY <3>1, <3>2
  <2>4. QED BY <2>2, <2>3
<1>2. QED BY <1>1, InductiveInvariant, PTL

\* A batch is only completed when all its tasks have ended and been decided.
THEOREM BatchIsDecided == Spec => []CompletedIsDecided
<1>1. Inv => CompletedIsDecided BY DEF Inv
<1>2. QED BY <1>1, InductiveInvariant, PTL
=============================================================================
