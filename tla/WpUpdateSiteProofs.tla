------------------------- MODULE WpUpdateSiteProofs -------------------------
(***************************************************************************)
(* Proofs about what the updates of a site do to it: no damage without a   *)
(* task that shows it, and outcomes that are true.                         *)
(*                                                                         *)
(* The argument: unless a request has begun to roll back or another unit   *)
(* was there at the claim, the worker is alone with the site (Solo), so    *)
(* that what one of its steps has left is still so at the next one         *)
(* (StageInv, CalmInv); while no task has been shown to the administrator  *)
(* it always is (QuietAlone).  Once a task is shown it stays so.  Only two *)
(* steps claim a success, all the others are Mild, and those two come      *)
(* after StageInv has seen what they claim.                                *)
(***************************************************************************)
EXTENDS WpUpdateProofs

\* A task that shows the administrator what has happened, for good.
Seen(t) == \/ task[t].status = "interrupted"
           \/ task[t].status = "failed" /\ (task[t].attention \/ task[t].disposition # "none")
Quiet == \A t \in Tasks : ~Seen(t)
Active(t) == task[t].status \in {"preparing", "queued", "running"}
Working == worker.pc \notin {"idle", "returned"}

Whole == \A c \in Components : site.files[c] # "partial"
Clean == Whole /\ site.locked /\ ~site.maintenance

\* One task at a time is planned, waits or runs.
OneActive == \A t, u \in Tasks : Active(t) /\ Active(u) => t = u
RollersSeen == \A r \in Rollbacks : roller[r].pc # "idle" => Seen(roller[r].task)

Rolling == RollbackSteps \cup {"roll_finish"}

\* Nobody else writes while the worker is alone at a task, and while nothing is shown
\* it is alone.
AloneInv == alone /\ Working => units \subseteq {W} /\ \A r \in Rollbacks : roller[r].pc = "idle"
QuietAlone == Working /\ Quiet => alone

Exclusive == Working /\ alone
Behind(steps) == worker.pc \in steps /\ ~worker.bad

\* What the steps that are behind the worker have left, as long as it is alone.
StageInv ==
  Exclusive =>
    /\ worker.pc \in {"relock", "finish"} => site.files[task[W].comp] = "new" /\ ~site.maintenance
    /\ worker.pc = "finish" => site.locked
    /\ Behind({"roll_files", "roll_reopen", "roll_lock", "roll_finish"}) => (task[W].source = W => site.db = task[W].db)
    /\ Behind({"roll_reopen", "roll_lock", "roll_finish"}) => site.files[task[W].comp] = task[W].files
    /\ Behind({"roll_lock", "roll_finish"}) => ~site.maintenance
    /\ Behind({"roll_finish"}) => site.locked

\* Until something is shown, only the component at work may be half written, and
\* its backup is a whole one.
CalmInv ==
  Working /\ Quiet =>
    /\ \A c \in Components : c # task[W].comp => site.files[c] # "partial"
    /\ worker.pc # "backup" => task[W].files # "partial"
    /\ worker.pc \in {"backup", "prepare", "unlock"} => Clean
    /\ worker.pc \in {"keep", "apply"} => Whole /\ ~site.maintenance

SiteInv == /\ OneActive /\ RollersSeen /\ AloneInv /\ QuietAlone
           /\ StageInv /\ CalmInv /\ DamageIsInSight

-----------------------------------------------------------------------------
(* What the invariant gives, and what preserves its parts                  *)

LEMMA WorkingFacts ==
  ASSUME Inv, Working
  PROVE  /\ W \in Tasks /\ task[W] \in TaskRecords /\ task[W].comp \in Components
         /\ task[W].status \in {"running", "interrupted"}
         /\ W \in units => worker.pc = "applying"
  BY ActiveFacts DEF Working

\* While nothing is shown, the worker is alone.
LEMMA Solo ==
  ASSUME SiteInv, Working, Quiet \/ alone
  PROVE  Exclusive /\ units \subseteq {W} /\ \A r \in Rollbacks : roller[r].pc = "idle"
BY DEF SiteInv, QuietAlone, AloneInv, Exclusive

LEMMA InSightFacts ==
  ASSUME NEW t \in Tasks
  PROVE  InSight(t) <=> task[t].status = "running" \/ Seen(t)
BY DEF InSight, Seen

LEMMA DamageFacts == DamageIsInSight <=> (Clean \/ \E t \in Tasks : InSight(t))
BY DEF DamageIsInSight, Clean, Whole

LEMMA QuietStays ==
  ASSUME \A t \in Tasks : Seen(t) => Seen(t)'
  PROVE  Quiet' => Quiet
BY DEF Quiet

\* The data of a task that the site's parts of the invariant speak of.
SameData(t) ==
  /\ task'[t].comp = task[t].comp /\ task'[t].batch = task[t].batch
  /\ task'[t].source = task[t].source /\ task'[t].files = task[t].files /\ task'[t].db = task[t].db

\* A step of anybody but the worker that does not touch the site.
LEMMA Bystander ==
  ASSUME Inv, SiteInv, UNCHANGED site,
         worker'.pc = worker.pc, worker'.task = worker.task, worker'.bad = worker.bad,
         \A t \in Tasks : (Seen(t) => Seen(t)') /\ (InSight(t) => InSight(t)'),
         Working => SameData(W), UNCHANGED alone \/ ~(alone \/ Quiet)',
         OneActive', RollersSeen', AloneInv'
  PROVE  SiteInv'
<1>1. W' = W /\ Working' = Working BY DEF W, Working
<1>2. Quiet' => Quiet BY QuietStays
<1>3. QuietAlone' BY <1>1, <1>2 DEF SiteInv, QuietAlone
<1>4. Exclusive' => Exclusive BY <1>1 DEF Exclusive
<1>5. StageInv'
  BY <1>1, <1>4 DEF SiteInv, StageInv, Exclusive, Behind, SameData
<1>6. CalmInv'
  BY <1>1, <1>2 DEF SiteInv, CalmInv, Clean, Whole, SameData
<1>7. DamageIsInSight'
  BY DEF SiteInv, DamageIsInSight
<1>8. QED BY <1>3, <1>5, <1>6, <1>7 DEF SiteInv

\* What a step leaves of the order of tasks, when it plans nothing.
LEMMA OneActiveStays ==
  ASSUME OneActive, \A t \in Tasks : Active(t)' => Active(t)
  PROVE  OneActive'
BY DEF OneActive

LEMMA RollersStay ==
  ASSUME Inv, RollersSeen, UNCHANGED roller, \A t \in Tasks : Seen(t) => Seen(t)'
  PROVE  RollersSeen'
BY DEF RollersSeen, Inv, UnitInv

-----------------------------------------------------------------------------
(* Four ways in which a step of the worker preserves the invariant         *)

\* It ends with its task as it was or shown.
LEMMA Returns ==
  ASSUME Inv, SiteInv, Working, UNCHANGED roller, worker'.pc \in {"idle", "returned"},
         NEW t \in Tasks, t = W, \A u \in Tasks \ {t} : task'[u] = task[u],
         task'[t] = task[t] \/ Seen(t)'
  PROVE  SiteInv'
<1>0. task[t].status \in {"running", "interrupted"} BY WorkingFacts
<1>1. \A u \in Tasks : (Seen(u) => Seen(u)') /\ (Active(u)' => Active(u))
  BY <1>0 DEF Seen, Active
<1>2. OneActive' BY <1>1, OneActiveStays DEF SiteInv
<1>3. RollersSeen' BY <1>1, RollersStay DEF SiteInv
<1>4. AloneInv' /\ QuietAlone' /\ StageInv' /\ CalmInv'
  BY DEF Working, AloneInv, QuietAlone, StageInv, Exclusive, CalmInv
<1>5. DamageIsInSight'
  <2>1. InSight(t)' BY <1>0 DEF InSight, Seen
  <2>2. QED BY <1>0, <2>1 DEF DamageIsInSight
<1>6. QED BY <1>2, <1>3, <1>4, <1>5 DEF SiteInv

\* It ends with its task ended, and the site is whole unless something was shown.
LEMMA Completes ==
  ASSUME Inv, SiteInv, Working, UNCHANGED roller, worker'.pc = "returned",
         NEW t \in Tasks, t = W, \A u \in Tasks \ {t} : task'[u] = task[u],
         task[t].status = "running", task'[t].status \in {"success", "failed"},
         Quiet => Clean'
  PROVE  SiteInv'
<1>1. \A u \in Tasks : (Seen(u) => Seen(u)') /\ (Active(u)' => Active(u))
  BY DEF Seen, Active
<1>2. OneActive' BY <1>1, OneActiveStays DEF SiteInv
<1>3. RollersSeen' BY <1>1, RollersStay DEF SiteInv
<1>4. AloneInv' /\ QuietAlone' /\ StageInv' /\ CalmInv'
  BY DEF Working, AloneInv, QuietAlone, StageInv, Exclusive, CalmInv
<1>5. DamageIsInSight'
  <2>1. CASE Quiet BY <2>1 DEF DamageIsInSight, Clean, Whole
  <2>2. CASE ~Quiet
    <3>1. PICK u \in Tasks : Seen(u) BY <2>2 DEF Quiet
    <3>2. Seen(u)' BY <1>1, <3>1
    <3>3. InSight(u)' BY <3>2 DEF InSight, Seen
    <3>4. QED BY <3>3 DEF DamageIsInSight
  <2>3. QED BY <2>1, <2>2
<1>6. QED BY <1>2, <1>3, <1>4, <1>5 DEF SiteInv

\* It goes on with the same task.
LEMMA GoesOn ==
  ASSUME Inv, SiteInv, Working, UNCHANGED <<roller, alone>>, units' \subseteq units \cup {W},
         worker'.task = worker.task, Working',
         NEW t \in Tasks, t = W, \A u \in Tasks \ {t} : task'[u] = task[u],
         task'[t].status = task[t].status,
         Exclusive => StageInv', Quiet => CalmInv'
  PROVE  SiteInv'
<1>0. task[t].status \in {"running", "interrupted"} /\ W' = W
  BY WorkingFacts DEF W
<1>1. \A u \in Tasks : (Seen(u) => Seen(u)') /\ (Active(u)' => Active(u))
  BY <1>0 DEF Seen, Active
<1>2. OneActive' BY <1>1, OneActiveStays DEF SiteInv
<1>3. RollersSeen' BY <1>1, RollersStay DEF SiteInv
<1>4. Quiet' => Quiet BY <1>1, QuietStays
<1>5. AloneInv' BY <1>0 DEF SiteInv, AloneInv
<1>6. QuietAlone' BY <1>4 DEF SiteInv, QuietAlone
<1>7. StageInv' BY DEF StageInv, Exclusive
<1>8. CalmInv' BY <1>4 DEF CalmInv
<1>9. DamageIsInSight'
  <2>1. InSight(t)' BY <1>0 DEF InSight
  <2>2. QED BY <1>0, <2>1 DEF DamageIsInSight
<1>10. QED BY <1>2, <1>3, <1>5, <1>6, <1>7, <1>8, <1>9 DEF SiteInv

\* It ends, or has ended before, and the site is left alone.
LEMMA Rests ==
  ASSUME SiteInv, UNCHANGED site, worker'.pc \in {"idle", "returned"},
         \A t \in Tasks : InSight(t) => InSight(t)',
         OneActive', RollersSeen'
  PROVE  SiteInv'
<1>1. AloneInv' /\ QuietAlone' /\ StageInv' /\ CalmInv'
  BY DEF Working, AloneInv, QuietAlone, StageInv, Exclusive, CalmInv
<1>2. DamageIsInSight' BY DEF SiteInv, DamageIsInSight
<1>3. QED BY <1>1, <1>2 DEF SiteInv

-----------------------------------------------------------------------------
(* What the parts of a step do *)

LEMMA GotoMoves ==
  ASSUME Inv, NEW pc, Goto(pc)
  PROVE  worker'.pc = pc /\ worker'.task = worker.task /\ worker'.bad = worker.bad
BY DEF Inv, StateTypes, RunTypes, RunRecords, Goto

LEMMA SiteFacts ==
  ASSUME Inv
  PROVE  /\ \A l \in BOOLEAN : LET s == [site EXCEPT !.locked = l]
                               IN s.files = site.files /\ s.db = site.db /\ s.maintenance = site.maintenance /\ s.locked = l
         /\ \A m \in BOOLEAN : LET s == [site EXCEPT !.maintenance = m]
                               IN s.files = site.files /\ s.db = site.db /\ s.locked = site.locked /\ s.maintenance = m
         /\ \A d : LET s == [site EXCEPT !.db = d]
                   IN s.files = site.files /\ s.locked = site.locked /\ s.maintenance = site.maintenance /\ s.db = d
BY DEF Inv, StateTypes, SiteTypes, SiteRecords

LEMMA FileFacts ==
  ASSUME Inv, NEW c \in Components, NEW level
  PROVE  LET s == [site EXCEPT !.files[c] = level]
         IN /\ s.files[c] = level /\ \A d \in Components \ {c} : s.files[d] = site.files[d]
            /\ s.db = site.db /\ s.locked = site.locked /\ s.maintenance = site.maintenance
BY DEF Inv, StateTypes, SiteTypes, SiteRecords

LEMMA WrittenParts ==
  ASSUME Inv, NEW c \in Components, NEW level, NEW migrated \in BOOLEAN
  PROVE  LET s == Written(c, level, migrated)
         IN /\ s.files[c] = level /\ \A d \in Components \ {c} : s.files[d] = site.files[d]
            /\ s.locked = site.locked /\ s.maintenance = site.maintenance
BY DEF Inv, StateTypes, SiteTypes, SiteRecords, Written

LEMMA AdvanceEffect ==
  ASSUME Inv, NEW t \in Tasks, t = W, NEW next, NEW s, Advance(next, s)
  PROVE  /\ \A u \in Tasks \ {t} : task'[u] = task[u]
         /\ \/ /\ worker'.pc = next /\ worker'.task = worker.task /\ worker'.bad = worker.bad
               /\ site' = s /\ task' = task
            \/ worker'.pc = "returned" /\ (task'[t] = task[t] \/ Seen(t)')
<1>0. TaskTypes BY DEF Inv, StateTypes
<1>1. CASE Goto(next) /\ site' = s /\ UNCHANGED <<task, budget>>
  BY <1>1, GotoMoves
<1>2. CASE Goto("returned") /\ (task' = task \/ InterruptOwned(W))
  <2>1. worker'.pc = "returned" BY <1>2, GotoMoves
  <2>2. CASE task' = task BY <2>1, <2>2
  <2>3. CASE InterruptOwned(t)
    <3>1. task'[t].status = "interrupted" /\ \A u \in Tasks \ {t} : task'[u] = task[u]
      BY <1>0, <2>3, InterruptFacts
    <3>2. QED BY <2>1, <3>1 DEF Seen
  <2>4. QED BY <1>2, <2>2, <2>3
<1>3. QED BY <1>1, <1>2 DEF Advance

LEMMA HaltEffect ==
  ASSUME Inv, NEW t \in Tasks, t = W, NEW why \in Failures, RollbackOrHalt(why)
  PROVE  /\ \A u \in Tasks \ {t} : task'[u] = task[u]
         /\ \/ /\ worker'.pc = "roll_maintenance" /\ worker'.task = worker.task /\ worker'.bad = worker.bad
               /\ task'[t].status = task[t].status /\ SameData(t)
            \/ worker'.pc = "returned" /\ (task'[t] = task[t] \/ Seen(t)')
<1>0. TaskTypes /\ task[t] \in TaskRecords BY DEF Inv, StateTypes, TaskTypes
<1>1. CASE /\ ~task[t].batch /\ Goto("roll_maintenance")
           /\ task' = [task EXCEPT ![t].rollback = "pending", ![t].failure = why]
  <2> DEFINE rec == [task[t] EXCEPT !.rollback = "pending", !.failure = why]
  <2>1. rec \in TaskRecords
    <3> DEFINE half == [task[t] EXCEPT !.rollback = "pending"]
    <3>1. half \in TaskRecords BY <1>0 DEF TaskRecords
    <3>2. rec = [half EXCEPT !.failure = why] OBVIOUS
    <3> HIDE DEF half, rec
    <3>3. QED BY <3>1, <3>2 DEF TaskRecords, Failures
  <2>2. /\ rec.status = task[t].status /\ rec.comp = task[t].comp /\ rec.batch = task[t].batch
        /\ rec.source = task[t].source /\ rec.files = task[t].files /\ rec.db = task[t].db
    BY <1>0 DEF TaskRecords
  <2>3. task' = [task EXCEPT ![t] = rec] BY <1>0, <1>1 DEF TaskTypes
  <2> HIDE DEF rec
  <2>4. task'[t] = rec /\ \A u \in Tasks \ {t} : task'[u] = task[u]
    BY <1>0, <2>1, <2>3, ReplaceFacts
  <2>5. QED BY <1>1, <2>2, <2>4, GotoMoves DEF SameData
<1>2. CASE Goto("returned") /\ task' = task BY <1>2, GotoMoves
<1>3. CASE /\ Goto("returned")
           /\ task' = [task EXCEPT ![t] = [Finished(t, "failed") EXCEPT !.rollback = "pending", !.failure = why,
                                                                        !.attention = TRUE]]
  <2> DEFINE base == Finished(t, "failed")
             rec == [base EXCEPT !.rollback = "pending", !.failure = why, !.attention = TRUE]
  <2>1. base \in TaskRecords /\ base.status = "failed" BY <1>0, FinishedFacts DEF Ends
  <2>2. task' = [task EXCEPT ![t] = rec] BY <1>3
  <2> HIDE DEF base
  <2>3. rec \in TaskRecords /\ rec.status = "failed" /\ rec.attention BY <2>1 DEF TaskRecords, Failures
  <2> HIDE DEF rec
  <2>4. task'[t] = rec /\ \A u \in Tasks \ {t} : task'[u] = task[u]
    BY <1>0, <2>2, <2>3, ReplaceFacts
  <2>5. QED BY <1>3, <2>3, <2>4, GotoMoves DEF Seen
<1>4. QED BY <1>1, <1>2, <1>3 DEF RollbackOrHalt, HaltForManualRollback, BeginAutomaticRollback

-----------------------------------------------------------------------------
(* The steps of the worker *)

LEMMA ClaimSite ==
  ASSUME Inv, SiteInv, Claim
  PROVE  SiteInv'
<1>0. /\ TaskTypes /\ UnitInv /\ SiteTypes /\ RunTypes /\ worker.pc = "idle" /\ ~Working
      /\ UNCHANGED <<site, units, roller>>
  BY DEF Inv, StateTypes, Claim, At, Working
<1>1. PICK t \in Tasks :
        /\ task[t].status = "queued"
        /\ \/ /\ task' = [task EXCEPT ![t].status = "running", ![t].owner = "worker"]
              /\ worker' = [Resting EXCEPT !.pc = "backup", !.task = t]
              /\ alone' = (units = {} /\ \A r \in Rollbacks : roller[r].pc = "idle")
           \/ MarkFailure(t, "precheck", FALSE) /\ UNCHANGED worker
  BY DEF Claim
<1>2. task[t] \in TaskRecords /\ Active(t) /\ ~InSight(t) /\ ~Seen(t)
  BY <1>0, <1>1 DEF TaskTypes, Active, InSight, Seen
<1>3. CASE MarkFailure(t, "precheck", FALSE) /\ UNCHANGED worker
  <2>1. task'[t].status = "failed" /\ \A u \in Tasks \ {t} : task'[u] = task[u]
    BY <1>0, <1>3, MarkFailureFacts DEF Failures
  <2>2. \A u \in Tasks : (Seen(u) => Seen(u)') /\ (InSight(u) => InSight(u)') /\ (Active(u)' => Active(u))
    BY <1>2, <2>1 DEF Seen, InSight, Active
  <2>3. OneActive' BY <2>2, OneActiveStays DEF SiteInv
  <2>4. RollersSeen' BY <1>0, <2>2, RollersStay DEF SiteInv
  <2>5. QED BY <1>0, <1>3, <2>2, <2>3, <2>4, Rests
<1>4. CASE /\ task' = [task EXCEPT ![t].status = "running", ![t].owner = "worker"]
           /\ worker' = [Resting EXCEPT !.pc = "backup", !.task = t]
           /\ alone' = (units = {} /\ \A r \in Rollbacks : roller[r].pc = "idle")
  <2> DEFINE rec == [task[t] EXCEPT !.status = "running", !.owner = "worker"]
  <2>1. /\ rec \in TaskRecords /\ rec.status = "running"
        /\ rec.batch = task[t].batch /\ rec.source = task[t].source
    BY <1>2 DEF TaskRecords
  <2>2. task' = [task EXCEPT ![t] = rec] BY <1>0, <1>4 DEF TaskTypes
  <2> HIDE DEF rec
  <2>3. task'[t] = rec /\ \A u \in Tasks \ {t} : task'[u] = task[u]
    BY <1>0, <2>1, <2>2, ReplaceFacts
  <2>4. worker'.pc = "backup" /\ worker'.task = t /\ W' = t BY <1>4 DEF Resting, W
  <2>5. \A u \in Tasks : (Seen(u) => Seen(u)') /\ (Active(u)' => Active(u))
    BY <1>2, <2>3 DEF Seen, Active
  <2>6. OneActive' BY <2>5, OneActiveStays DEF SiteInv
  <2>7. RollersSeen' BY <1>0, <2>5, RollersStay DEF SiteInv
  <2>8. Quiet' => Quiet BY <2>5, QuietStays
  <2>9. AloneInv' BY <1>0, <1>4 DEF AloneInv
  <2>10. QuietAlone'
    <3>1. SUFFICES ASSUME Quiet PROVE alone' BY <2>8 DEF QuietAlone
    <3>2. \A r \in Rollbacks : roller[r].pc = "idle" BY <1>0, <3>1 DEF SiteInv, RollersSeen, Quiet, UnitInv
    <3>3. ASSUME NEW u \in units PROVE FALSE
      <4>1. u \in Tasks /\ task[u].status \in {"running", "interrupted"} BY <1>0, <3>3 DEF UnitInv, SiteTypes
      <4>2. Active(u) /\ u # t BY <1>1, <3>1, <4>1 DEF Quiet, Seen, Active
      <4>3. QED BY <1>2, <4>1, <4>2 DEF SiteInv, OneActive
    <3>4. QED BY <1>4, <3>2, <3>3
  <2>11. StageInv' BY <2>4 DEF StageInv, Behind
  <2>12. CalmInv'
    <3>1. ASSUME Quiet PROVE Clean
      <4>1. SUFFICES ASSUME NEW u \in Tasks, InSight(u) PROVE FALSE
        BY DamageFacts DEF SiteInv
      <4>2. task[u].status = "running" BY <3>1, <4>1, InSightFacts DEF Quiet
      <4>3. u = t BY <1>2, <4>2 DEF SiteInv, OneActive, Active
      <4>4. QED BY <1>2, <4>1, <4>3
    <3>2. Quiet' => Clean' BY <1>0, <2>8, <3>1 DEF Clean, Whole
    <3>3. QED BY <2>4, <3>2 DEF CalmInv, Clean, Whole
  <2>13. DamageIsInSight' BY <2>1, <2>3 DEF DamageIsInSight, InSight
  <2>14. QED BY <2>6, <2>7, <2>9, <2>10, <2>11, <2>12, <2>13 DEF SiteInv
<1>5. QED BY <1>1, <1>3, <1>4

LEMMA PrepareBackupsSite ==
  ASSUME Inv, SiteInv, PrepareBackups
  PROVE  SiteInv'
<1>0. TaskTypes /\ SiteTypes /\ worker.pc = "backup" /\ Working /\ UNCHANGED <<site, units, roller, alone>>
  BY DEF Inv, StateTypes, PrepareBackups, At, Working
<1>1. W \in Tasks BY <1>0, WorkingFacts
<1>2. PICK t \in Tasks : t = W BY <1>1
<1>3. task[t] \in TaskRecords /\ task[t].comp \in Components BY <1>0, <1>2, WorkingFacts
<1>4. Quiet => Clean BY <1>0 DEF SiteInv, CalmInv
<1>5. CASE /\ Goto("prepare")
           /\ task' = [task EXCEPT ![t].ready = TRUE, ![t].files = site.files[task[t].comp],
                                   ![t].db = IF task[t].source = NoTask THEN site.db ELSE {},
                                   ![t].source = IF task[t].source = NoTask THEN t ELSE @]
  <2> DEFINE rec == [task[t] EXCEPT !.ready = TRUE, !.files = site.files[task[t].comp],
                                    !.db = IF task[t].source = NoTask THEN site.db ELSE {},
                                    !.source = IF task[t].source = NoTask THEN t ELSE @]
  <2>1. site.files[task[t].comp] \in {"old", "partial", "new"} /\ site.db \in SUBSET Components
    BY <1>0, <1>3 DEF SiteTypes, SiteRecords
  <2>2. /\ rec \in TaskRecords /\ rec.status = task[t].status /\ rec.comp = task[t].comp /\ rec.batch = task[t].batch
        /\ rec.files = site.files[task[t].comp]
        /\ task[t].source = NoTask => rec.source = t
    BY <1>3, <2>1 DEF TaskRecords
  <2>3. task' = [task EXCEPT ![t] = rec] BY <1>0, <1>3, <1>5 DEF TaskTypes
  <2> HIDE DEF rec
  <2>4. task'[t] = rec /\ \A u \in Tasks \ {t} : task'[u] = task[u]
    BY <1>0, <2>2, <2>3, ReplaceFacts
  <2>5. worker'.pc = "prepare" /\ worker'.task = worker.task /\ W' = t BY <1>2, <1>5, GotoMoves DEF W
  <2>6. StageInv' BY <2>5 DEF StageInv, Behind
  <2>7. Quiet => CalmInv'
    BY <1>0, <1>3, <1>4, <2>2, <2>4, <2>5 DEF CalmInv, Clean, Whole
  <2>8. Working' BY <2>5 DEF Working
  <2>9. QED BY <1>0, <1>2, <2>2, <2>4, <2>5, <2>6, <2>7, <2>8, GoesOn
<1>6. CASE Goto("returned") /\ task' = task BY <1>0, <1>2, <1>6, GotoMoves, Returns
<1>7. CASE Goto("returned") /\ Owned(t) /\ MarkFailure(t, "backup", FALSE)
  <2>1. task'[t].status = "failed" /\ \A u \in Tasks \ {t} : task'[u] = task[u]
    BY <1>0, <1>7, MarkFailureFacts DEF Failures
  <2>2. Quiet => Clean' BY <1>0, <1>4 DEF Clean, Whole
  <2>3. QED BY <1>0, <1>2, <1>7, <2>1, <2>2, GotoMoves, Completes DEF Owned
<1>8. QED BY <1>2, <1>5, <1>6, <1>7 DEF PrepareBackups

LEMMA PrepareUpdateSite ==
  ASSUME Inv, SiteInv, PrepareUpdate
  PROVE  SiteInv'
<1>0. TaskTypes /\ worker.pc = "prepare" /\ Working /\ UNCHANGED <<site, units, roller, alone>>
  BY DEF Inv, StateTypes, PrepareUpdate, At, Working
<1>1. PICK t \in Tasks : t = W BY <1>0, WorkingFacts
<1>2. CASE Goto("unlock") /\ task' = task
  <2>1. worker'.pc = "unlock" /\ worker'.task = worker.task /\ W' = W BY <1>2, GotoMoves DEF W
  <2>2. StageInv' BY <2>1 DEF StageInv, Behind
  <2>3. Quiet => CalmInv' BY <1>0, <1>2, <2>1 DEF SiteInv, CalmInv, Clean, Whole
  <2>4. Working' BY <2>1 DEF Working
  <2>5. QED BY <1>0, <1>1, <1>2, <2>1, <2>2, <2>3, <2>4, GoesOn
<1>3. CASE Goto("returned") /\ task' = task BY <1>0, <1>1, <1>3, GotoMoves, Returns
<1>4. CASE Goto("returned") /\ Owned(t) /\ MarkFailure(t, "precheck", FALSE)
  <2>1. task'[t].status = "failed" /\ \A u \in Tasks \ {t} : task'[u] = task[u]
    BY <1>0, <1>4, MarkFailureFacts DEF Failures
  <2>2. Quiet => Clean' BY <1>0 DEF SiteInv, CalmInv, Clean, Whole
  <2>3. QED BY <1>0, <1>1, <1>4, <2>1, <2>2, GotoMoves, Completes DEF Owned
<1>5. QED BY <1>1, <1>2, <1>3, <1>4 DEF PrepareUpdate, CanRecord

\* A step gives the update up.
LEMMA GivesUp ==
  ASSUME Inv, SiteInv, Working, worker.pc # "backup", UNCHANGED <<roller, alone>>, units' \subseteq units \cup {W},
         NEW why \in Failures, RollbackOrHalt(why),
         \A c \in Components : c # task[W].comp => site'.files[c] = site.files[c]
  PROVE  SiteInv'
<1>1. PICK t \in Tasks : t = W BY WorkingFacts
<1>2. /\ \A u \in Tasks \ {t} : task'[u] = task[u]
      /\ \/ /\ worker'.pc = "roll_maintenance" /\ worker'.task = worker.task /\ worker'.bad = worker.bad
            /\ task'[t].status = task[t].status /\ SameData(t)
         \/ worker'.pc = "returned" /\ (task'[t] = task[t] \/ Seen(t)')
  BY <1>1, HaltEffect
<1>3. CASE worker'.pc = "returned" /\ (task'[t] = task[t] \/ Seen(t)')
  BY <1>1, <1>2, <1>3, Returns
<1>4. CASE /\ worker'.pc = "roll_maintenance" /\ worker'.task = worker.task
           /\ task'[t].status = task[t].status /\ SameData(t)
  <2>1. StageInv' BY <1>4 DEF StageInv, Behind
  <2>2. W' = t BY <1>1, <1>4 DEF W
  <2>3. Quiet => CalmInv' BY <1>1, <1>4, <2>2 DEF SiteInv, CalmInv, SameData
  <2>4. Working' BY <1>4 DEF Working
  <2>5. QED BY <1>1, <1>2, <1>4, <2>1, <2>3, <2>4, GoesOn
<1>5. QED BY <1>2, <1>3, <1>4

\* A step records the next stage.
LEMMA MovesOn ==
  ASSUME Inv, SiteInv, Working, worker.pc \notin {"backup"} \cup Rolling, UNCHANGED <<roller, alone>>,
         units' \subseteq units \cup {W},
         NEW next \in {"apply", "health", "relock"}, NEW s, Advance(next, s),
         \A c \in Components : c # task[W].comp => s.files[c] = site.files[c],
         next = "apply" /\ Quiet => \A c \in Components : s.files[c] # "partial" /\ ~s.maintenance,
         next = "relock" => s.files[task[W].comp] = "new" /\ ~s.maintenance
  PROVE  SiteInv'
<1>1. PICK t \in Tasks : t = W BY WorkingFacts
<1>2. /\ \A u \in Tasks \ {t} : task'[u] = task[u]
      /\ \/ /\ worker'.pc = next /\ worker'.task = worker.task /\ worker'.bad = worker.bad
            /\ site' = s /\ task' = task
         \/ worker'.pc = "returned" /\ (task'[t] = task[t] \/ Seen(t)')
  BY <1>1, AdvanceEffect
<1>3. CASE worker'.pc = "returned" /\ (task'[t] = task[t] \/ Seen(t)')
  BY <1>1, <1>2, <1>3, Returns
<1>4. CASE worker'.pc = next /\ worker'.task = worker.task /\ site' = s /\ task' = task
  <2>1. worker'.pc \notin Rolling \cup {"idle", "returned", "backup"} BY <1>4 DEF Rolling, RollbackSteps
  <2>2. W' = t BY <1>1, <1>4 DEF W
  <2>3. StageInv' BY <1>1, <1>4, <2>2 DEF StageInv, Behind
  <2>4. Quiet => CalmInv' BY <1>1, <1>4, <2>2, WorkingFacts DEF SiteInv, CalmInv, Whole
  <2>5. Working' BY <2>1 DEF Working
  <2>6. QED BY <1>1, <1>4, <2>3, <2>4, <2>5, GoesOn
<1>5. QED BY <1>2, <1>3, <1>4

LEMMA UnlockSite ==
  ASSUME Inv, SiteInv, Unlock
  PROVE  SiteInv'
<1>0. worker.pc = "unlock" /\ Working /\ UNCHANGED <<units, roller, alone>>
  BY DEF Unlock, At, Working
<1>1. PICK t \in Tasks : t = W BY <1>0, WorkingFacts
<1>2. Quiet => Clean /\ task[W].files # "partial" BY <1>0 DEF SiteInv, CalmInv
<1>3. CASE Advance("apply", [site EXCEPT !.locked = FALSE])
  <2> DEFINE s == [site EXCEPT !.locked = FALSE]
  <2>1. s.files = site.files /\ s.maintenance = site.maintenance BY SiteFacts
  <2>2. Advance("apply", s) BY <1>3
  <2> HIDE DEF s
  <2>3. worker.pc \notin {"backup"} \cup Rolling BY <1>0 DEF Rolling, RollbackSteps
  <2>4. QED BY <1>0, <1>2, <2>1, <2>2, <2>3, MovesOn DEF Clean, Whole
<1>4. CASE Goto("keep") /\ task' = task /\ \E l \in BOOLEAN : site' = [site EXCEPT !.locked = l]
  <2>1. site'.files = site.files /\ site'.maintenance = site.maintenance BY <1>4, SiteFacts
  <2>2. worker'.pc = "keep" /\ worker'.task = worker.task /\ W' = W BY <1>4, GotoMoves DEF W
  <2>3. worker'.pc \notin Rolling BY <2>2 DEF Rolling, RollbackSteps
  <2>4. StageInv' BY <2>2 DEF StageInv, Behind
  <2>5. Quiet => CalmInv' BY <1>2, <1>4, <2>1, <2>2 DEF CalmInv, Clean, Whole
  <2>6. Working' BY <2>2 DEF Working
  <2>7. QED BY <1>0, <1>1, <1>4, <2>2, <2>4, <2>5, <2>6, GoesOn
<1>5. QED BY <1>3, <1>4 DEF Unlock

LEMMA FailBeforeWriteSite ==
  ASSUME Inv, SiteInv, FailBeforeWrite
  PROVE  SiteInv'
<1>0. TaskTypes /\ worker.pc = "keep" /\ Working /\ UNCHANGED <<units, roller, alone>> /\ worker'.pc = "returned"
  BY GotoMoves DEF Inv, StateTypes, FailBeforeWrite, At, Working
<1>1. PICK t \in Tasks : t = W BY <1>0, WorkingFacts
<1>2. CASE task' = task BY <1>0, <1>1, <1>2, Returns
<1>3. ASSUME NEW restored \in BOOLEAN, Owned(t), MarkFailure(t, "unlock", ~restored),
             site' = IF restored THEN [site EXCEPT !.locked = TRUE] ELSE site
      PROVE  SiteInv'
  <2>1. PICK attention \in BOOLEAN : attention = ~restored BY Zenon
  <2>2. MarkFailure(t, "unlock", attention) BY <1>3, <2>1
  <2>3. /\ task'[t].status = "failed" /\ \A u \in Tasks \ {t} : task'[u] = task[u]
        /\ task'[t].attention = attention
    BY <1>0, <2>2, MarkFailureFacts DEF Failures
  <2>4. CASE attention BY <1>0, <1>1, <2>3, <2>4, Returns DEF Seen
  <2>5. CASE ~attention
    <3>1. site' = [site EXCEPT !.locked = TRUE] BY <1>3, <2>1, <2>5
    <3>2. site'.files = site.files /\ site'.maintenance = site.maintenance /\ site'.locked BY <3>1, SiteFacts
    <3>3. Quiet => Clean' BY <1>0, <3>2 DEF SiteInv, CalmInv, Clean, Whole
    <3>4. QED BY <1>0, <1>1, <1>3, <2>3, <3>3, Completes DEF Owned
  <2>6. QED BY <2>4, <2>5
<1>4. QED BY <1>1, <1>2, <1>3 DEF FailBeforeWrite, CanRecord

LEMMA OtherFiles ==
  ASSUME Inv, NEW c \in Components
  PROVE  \A level \in {"old", "partial", "new"}, migrated \in BOOLEAN :
           \A d \in Components : d # c => Written(c, level, migrated).files[d] = site.files[d]
BY WrittenParts

LEMMA StartApplySite ==
  ASSUME Inv, SiteInv, StartApply
  PROVE  SiteInv'
<1>0. worker.pc = "apply" /\ Working /\ UNCHANGED <<task, roller, alone>> /\ units' \subseteq units \cup {W}
  BY DEF StartApply, At, Working
<1>1. PICK t \in Tasks : t = W BY <1>0, WorkingFacts
<1>2. \A c \in Components : c # task[W].comp => site'.files[c] = site.files[c]
  <2>1. task[W].comp \in Components BY <1>0, WorkingFacts
  <2>2. \A c \in Components :
          c # task[W].comp => Written(task[W].comp, "partial", FALSE).files[c] = site.files[c]
    BY <2>1, OtherFiles
  <2>3. site' = site \/ site' = Written(task[W].comp, "partial", FALSE) BY DEF StartApply
  <2>4. QED BY <2>2, <2>3
<1>3. worker'.pc = "applying" /\ worker'.task = worker.task /\ W' = W BY GotoMoves DEF StartApply, W
<1>4. worker'.pc \notin Rolling BY <1>3 DEF Rolling, RollbackSteps
<1>5. StageInv' BY <1>3 DEF StageInv, Behind
<1>6. Quiet => CalmInv' BY <1>0, <1>2, <1>3 DEF SiteInv, CalmInv, Whole
<1>7. Working' BY <1>3 DEF Working
<1>8. QED BY <1>0, <1>1, <1>3, <1>5, <1>6, <1>7, GoesOn

LEMMA ApplySite ==
  ASSUME Inv, SiteInv, Apply
  PROVE  SiteInv'
<1>0. worker.pc = "applying" /\ Working /\ UNCHANGED <<roller, alone>> /\ units' \subseteq units \cup {W}
  BY DEF Apply, At, Working
<1>1. task[W].comp \in Components BY <1>0, WorkingFacts
<1>2. \A level \in {"old", "partial", "new"}, migrated \in BOOLEAN :
        \A c \in Components : c # task[W].comp => Written(task[W].comp, level, migrated).files[c] = site.files[c]
  BY <1>1, OtherFiles
<1>3. CASE Advance("health", Written(task[W].comp, "new", TRUE))
  <2> DEFINE s == Written(task[W].comp, "new", TRUE)
  <2>1. \A c \in Components : c # task[W].comp => s.files[c] = site.files[c] BY <1>2
  <2>2. Advance("health", s) BY <1>3
  <2> HIDE DEF s
  <2>3. worker.pc \notin {"backup"} \cup Rolling BY <1>0 DEF Rolling, RollbackSteps
  <2>4. QED BY <1>0, <2>1, <2>2, <2>3, MovesOn
<1>4. ASSUME NEW migrated \in BOOLEAN, site' = Written(task[W].comp, site.files[task[W].comp], migrated),
             RollbackOrHalt("update")
      PROVE  SiteInv'
  <2>1. site.files[task[W].comp] \in {"old", "partial", "new"}
    BY <1>1 DEF Inv, StateTypes, SiteTypes, SiteRecords
  <2>2. \A c \in Components : c # task[W].comp => site'.files[c] = site.files[c] BY <1>2, <1>4, <2>1
  <2>3. QED BY <1>0, <1>4, <2>2, GivesUp DEF Failures
<1>5. QED BY <1>3, <1>4 DEF Apply

LEMMA CheckTargetHealthSite ==
  ASSUME Inv, SiteInv, CheckTargetHealth
  PROVE  SiteInv'
<1>0. worker.pc = "health" /\ Working /\ UNCHANGED <<units, roller, alone>>
  BY DEF CheckTargetHealth, At, Working
<1>1. CASE RollbackOrHalt("health") /\ site' = site BY <1>0, <1>1, GivesUp DEF Failures
<1>2. CASE /\ site.files[task[W].comp] = "new" /\ ~site.maintenance
           /\ Advance("relock", site)
  <2>1. worker.pc \notin {"backup"} \cup Rolling BY <1>0 DEF Rolling, RollbackSteps
  <2>2. QED BY <1>0, <1>2, <2>1, MovesOn
<1>3. QED BY <1>1, <1>2 DEF CheckTargetHealth

LEMMA RestoreFileLockSite ==
  ASSUME Inv, SiteInv, RestoreFileLock
  PROVE  SiteInv'
<1>0. worker.pc = "relock" /\ Working /\ UNCHANGED <<units, roller, alone>>
  BY DEF RestoreFileLock, At, Working
<1>1. PICK t \in Tasks : t = W BY <1>0, WorkingFacts
<1>2. CASE RollbackOrHalt("lock") /\ site' = site BY <1>0, <1>2, GivesUp DEF Failures
<1>3. CASE site' = [site EXCEPT !.locked = TRUE] /\ Goto("finish") /\ task' = task
  <2>1. site'.files = site.files /\ site'.maintenance = site.maintenance /\ site'.locked BY <1>3, SiteFacts
  <2>2. worker'.pc = "finish" /\ worker'.task = worker.task /\ W' = W BY <1>3, GotoMoves DEF W
  <2>3. worker'.pc \notin Rolling BY <2>2 DEF Rolling, RollbackSteps
  <2>4. Exclusive => StageInv' BY <1>0, <1>3, <2>1, <2>2 DEF SiteInv, StageInv, Behind
  <2>5. Quiet => CalmInv' BY <1>0, <1>3, <2>1, <2>2 DEF SiteInv, CalmInv
  <2>6. Working' BY <2>2 DEF Working
  <2>7. QED BY <1>0, <1>1, <1>3, <2>2, <2>4, <2>5, <2>6, GoesOn
<1>4. QED BY <1>2, <1>3 DEF RestoreFileLock

\* A finished update is whole while nothing is shown.
LEMMA FinishedIsWhole ==
  ASSUME Inv, SiteInv, Working, Quiet,
         \/ worker.pc = "finish" \/ (worker.pc = "roll_finish" /\ ~worker.bad)
  PROVE  Clean
<1>1. Exclusive BY Solo
<1>2. \A c \in Components : c # task[W].comp => site.files[c] # "partial" BY DEF SiteInv, CalmInv
<1>3. CASE worker.pc = "finish" BY <1>1, <1>2, <1>3 DEF SiteInv, StageInv, Clean, Whole
<1>4. CASE worker.pc = "roll_finish" /\ ~worker.bad
  <2>1. task[W].files # "partial" BY <1>4 DEF SiteInv, CalmInv
  <2>2. QED BY <1>1, <1>2, <1>4, <2>1 DEF SiteInv, StageInv, Behind, Clean, Whole
<1>5. QED BY <1>3, <1>4

LEMMA MarkSuccessSite ==
  ASSUME Inv, SiteInv, MarkSuccess
  PROVE  SiteInv'
<1>0. TaskTypes /\ worker.pc = "finish" /\ Working /\ UNCHANGED <<site, units, roller, alone>> /\ worker'.pc = "returned"
  BY GotoMoves DEF Inv, StateTypes, MarkSuccess, At, Working
<1>1. PICK t \in Tasks : t = W BY <1>0, WorkingFacts
<1>2. CASE task' = task BY <1>0, <1>1, <1>2, Returns
<1>3. CASE Owned(t) /\ task' = [task EXCEPT ![t] = Finished(t, "success")]
  <2> DEFINE rec == Finished(t, "success")
  <2>1. rec \in TaskRecords /\ rec.status = "success" BY <1>0, FinishedFacts DEF Ends
  <2>2. task' = [task EXCEPT ![t] = rec] BY <1>3
  <2> HIDE DEF rec
  <2>3. task'[t] = rec /\ \A u \in Tasks \ {t} : task'[u] = task[u]
    BY <1>0, <2>1, <2>2, ReplaceFacts
  <2>4. Quiet => Clean' BY <1>0, FinishedIsWhole DEF Clean, Whole
  <2>5. QED BY <1>0, <1>1, <1>3, <2>1, <2>3, <2>4, Completes DEF Owned
<1>4. QED BY <1>1, <1>2, <1>3 DEF MarkSuccess, CanRecord

\* One step of a rollback by the worker: what it leaves.
LEMMA RollbackEffect ==
  ASSUME Inv, Working, worker.pc \in RollbackSteps, NEW bad \in BOOLEAN, RollbackStep(worker, bad)
  PROVE  /\ \A c \in Components : c # task[W].comp => site'.files[c] = site.files[c]
         /\ ~bad => ~worker.bad /\ site' = StepDone(worker)
<1>1. W \in Tasks /\ task[W].comp \in Components BY WorkingFacts
<1>2. site' = StepDone(worker) \/ site' = site \/ site' = Written(task[W].comp, "partial", FALSE)
  <2>1. CASE StepGoes(worker, bad) BY <2>1 DEF StepGoes
  <2>2. CASE StepFails(worker, bad) BY <2>2 DEF StepFails, W
  <2>3. QED BY <2>1, <2>2 DEF RollbackStep
<1>3. \A c \in Components : c # task[W].comp => StepDone(worker).files[c] = site.files[c]
  <2>1. CASE worker.pc = "roll_maintenance" BY <2>1, SiteFacts DEF StepDone
  <2>2. CASE worker.pc = "roll_db" BY <2>2, SiteFacts DEF StepDone
  <2>3. CASE worker.pc = "roll_files"
    <3>1. StepDone(worker) = [site EXCEPT !.files[task[W].comp] = task[W].files] BY <2>3 DEF StepDone, W
    <3>2. QED BY <1>1, <3>1, FileFacts
  <2>4. CASE worker.pc = "roll_reopen" BY <2>4, SiteFacts DEF StepDone
  <2>5. CASE worker.pc = "roll_lock" BY <2>5, SiteFacts DEF StepDone
  <2>6. QED BY <2>1, <2>2, <2>3, <2>4, <2>5 DEF RollbackSteps
<1>4. \A c \in Components :
        c # task[W].comp => Written(task[W].comp, "partial", FALSE).files[c] = site.files[c]
  BY <1>1, OtherFiles
<1>5. ~bad => ~worker.bad /\ site' = StepDone(worker)
  <2>1. worker.bad \in BOOLEAN BY DEF Inv, StateTypes, RunTypes, RunRecords
  <2>2. CASE StepGoes(worker, bad) BY <2>1, <2>2 DEF StepGoes
  <2>3. CASE StepFails(worker, bad) BY <2>3 DEF StepFails
  <2>4. QED BY <2>2, <2>3 DEF RollbackStep
<1>6. QED BY <1>2, <1>3, <1>4, <1>5

LEMMA AutomaticRollbackSite ==
  ASSUME Inv, SiteInv, AutomaticRollback
  PROVE  SiteInv'
<1>0. worker.pc \in RollbackSteps /\ Working /\ UNCHANGED <<task, units, roller, alone>>
  BY DEF AutomaticRollback, RollingBack, RollbackSteps, Working
<1>1. PICK t \in Tasks : t = W BY <1>0, WorkingFacts
<1>2. CASE Goto("returned") BY <1>0, <1>1, <1>2, GotoMoves, Returns
<1>3. ASSUME NEW bad \in BOOLEAN, RollbackStep(worker, bad),
             worker' = [worker EXCEPT !.pc = StepAfter(@), !.bad = bad]
      PROVE  SiteInv'
  <2>1. worker'.pc = StepAfter(worker.pc) /\ worker'.task = worker.task /\ worker'.bad = bad /\ W' = W
    BY <1>3 DEF Inv, StateTypes, RunTypes, RunRecords, W
  <2>2. /\ \A c \in Components : c # task[W].comp => site'.files[c] = site.files[c]
        /\ ~bad => ~worker.bad /\ site' = StepDone(worker)
    BY <1>0, <1>3, RollbackEffect
  <2>3. worker'.pc \in {"roll_db", "roll_files", "roll_reopen", "roll_lock", "roll_finish"}
    BY <1>0, <2>1 DEF StepAfter, RollbackSteps
  <2>4. worker.pc \in Rolling /\ worker.pc # "backup" BY <1>0 DEF Rolling, RollbackSteps
  <2>5. Quiet => CalmInv' BY <1>0, <2>1, <2>2, <2>3, <2>4 DEF SiteInv, CalmInv
  <2>6. Working' BY <2>3 DEF Working
  <2>7. Exclusive => StageInv'
    <3>1. SUFFICES ASSUME Exclusive, ~bad PROVE StageInv'
      BY <2>1, <2>3 DEF StageInv, Behind
    <3>2. ~worker.bad /\ site' = StepDone(worker) /\ ~worker'.bad BY <2>1, <2>2, <3>1
    <3>3. CASE worker.pc = "roll_maintenance" BY <2>1, <3>3 DEF StepAfter, StageInv, Behind
    <3>4. CASE worker.pc = "roll_db"
      <4>1. task[t].source = t => site' = [site EXCEPT !.db = task[t].db] BY <1>1, <3>2, <3>4 DEF StepDone, W
      <4>2. ASSUME task[t].source = t PROVE site'.db = task[t].db
        <5>1. site' = [site EXCEPT !.db = task[t].db] BY <4>1, <4>2
        <5>2. QED BY <5>1, SiteFacts
      <4>3. worker'.pc = "roll_files" BY <2>1, <3>4 DEF StepAfter
      <4>4. QED BY <1>0, <1>1, <2>1, <4>2, <4>3 DEF StageInv, Behind
    <3>5. CASE worker.pc = "roll_files"
      <4>1. site' = [site EXCEPT !.files[task[t].comp] = task[t].files] BY <1>1, <3>2, <3>5 DEF StepDone, W
      <4>2. task[t].comp \in Components BY <1>0, <1>1, WorkingFacts
      <4>3. site'.files[task[t].comp] = task[t].files /\ site'.db = site.db BY <4>1, <4>2, FileFacts
      <4>4. worker'.pc = "roll_reopen" BY <2>1, <3>5 DEF StepAfter
      <4>5. QED BY <1>0, <1>1, <2>1, <3>1, <3>2, <3>5, <4>3, <4>4 DEF SiteInv, StageInv, Behind
    <3>6. CASE worker.pc = "roll_reopen"
      <4>1. site' = [site EXCEPT !.maintenance = FALSE] BY <3>2, <3>6 DEF StepDone
      <4>2. site'.files = site.files /\ site'.db = site.db /\ ~site'.maintenance BY <4>1, SiteFacts
      <4>3. worker'.pc = "roll_lock" BY <2>1, <3>6 DEF StepAfter
      <4>4. QED BY <1>0, <1>1, <2>1, <3>1, <3>2, <3>6, <4>2, <4>3 DEF SiteInv, StageInv, Behind
    <3>7. CASE worker.pc = "roll_lock"
      <4>1. site' = [site EXCEPT !.locked = TRUE] BY <3>2, <3>7 DEF StepDone
      <4>2. /\ site'.files = site.files /\ site'.db = site.db /\ site'.maintenance = site.maintenance
            /\ site'.locked
        BY <4>1, SiteFacts
      <4>3. worker'.pc = "roll_finish" BY <2>1, <3>7 DEF StepAfter
      <4>4. QED BY <1>0, <1>1, <2>1, <3>1, <3>2, <3>7, <4>2, <4>3 DEF SiteInv, StageInv, Behind
    <3>8. QED BY <1>0, <3>3, <3>4, <3>5, <3>6, <3>7 DEF RollbackSteps
  <2>8. QED BY <1>0, <1>1, <2>1, <2>5, <2>6, <2>7, GoesOn
<1>4. QED BY <1>2, <1>3 DEF AutomaticRollback

\* The end of a rollback by the worker.
LEMMA FinishEffect ==
  ASSUME Inv, FinishAutomaticRollback, NEW t \in Tasks, t = W
  PROVE  /\ \A u \in Tasks \ {t} : task'[u] = task[u]
         /\ \/ task'[t] = task[t]
            \/ task'[t].status = "failed" /\ task'[t].attention /\ task'[t].rollback = "failed"
            \/ ~worker.bad /\ Owned(t) /\ task'[t].status = "failed"
<1>0. TaskTypes BY DEF Inv, StateTypes
<1>1. PICK bad \in BOOLEAN :
        /\ worker.bad => bad
        /\ \/ task' = task
           \/ /\ Owned(t)
              /\ task' = [task EXCEPT ![t] = [Finished(t, "failed") EXCEPT !.rollback = IF bad THEN "failed" ELSE "success",
                                                                           !.attention = bad]]
  <2>1. worker.bad \in BOOLEAN BY DEF Inv, StateTypes, RunTypes, RunRecords
  <2>2. PICK bad \in {worker.bad} \cup (IF IsCore(W) THEN {} ELSE {TRUE}) :
          task' = IF CanRecord
                  THEN [task EXCEPT ![W] = [Finished(W, "failed") EXCEPT !.rollback = IF bad THEN "failed" ELSE "success",
                                                                         !.attention = bad]]
                  ELSE task
    BY DEF FinishAutomaticRollback
  <2>3. bad \in BOOLEAN /\ (worker.bad => bad) BY <2>1, <2>2
  <2>4. QED BY <2>2, <2>3 DEF CanRecord
<1>2. CASE task' = task BY <1>2
<1>3. CASE /\ Owned(t)
           /\ task' = [task EXCEPT ![t] = [Finished(t, "failed") EXCEPT !.rollback = IF bad THEN "failed" ELSE "success",
                                                                        !.attention = bad]]
  <2> DEFINE base == Finished(t, "failed")
             level == IF bad THEN "failed" ELSE "success"
             half == [base EXCEPT !.rollback = level]
             rec == [half EXCEPT !.attention = bad]
  <2>1. base \in TaskRecords /\ base.status = "failed" BY <1>0, FinishedFacts DEF Ends
  <2>2. task' = [task EXCEPT ![t] = rec] BY <1>3
  <2>3. level \in {"failed", "success"} /\ (bad => level = "failed") OBVIOUS
  <2> HIDE DEF base, level
  <2>4. half \in TaskRecords /\ half.status = "failed" /\ half.rollback = level BY <2>1, <2>3 DEF TaskRecords
  <2> HIDE DEF half
  <2>5. rec \in TaskRecords BY <2>4 DEF TaskRecords
  <2>6. rec.status = "failed" /\ rec.rollback = level BY <2>4 DEF TaskRecords
  <2>7. rec.attention = bad BY <2>4 DEF TaskRecords
  <2> HIDE DEF rec
  <2>8. task'[t] = rec /\ \A u \in Tasks \ {t} : task'[u] = task[u]
    BY <1>0, <2>2, <2>5, ReplaceFacts
  <2>9. CASE bad BY <2>3, <2>6, <2>7, <2>8, <2>9
  <2>10. CASE ~bad BY <1>1, <1>3, <2>6, <2>8, <2>10
  <2>11. QED BY <2>9, <2>10
<1>4. QED BY <1>1, <1>2, <1>3

LEMMA FinishAutomaticRollbackSite ==
  ASSUME Inv, SiteInv, FinishAutomaticRollback
  PROVE  SiteInv'
<1>0. worker.pc = "roll_finish" /\ Working /\ UNCHANGED <<site, units, roller, alone>> /\ worker'.pc = "returned"
  BY GotoMoves DEF FinishAutomaticRollback, At, Working
<1>1. PICK t \in Tasks : t = W BY <1>0, WorkingFacts
<1>2. /\ \A u \in Tasks \ {t} : task'[u] = task[u]
      /\ \/ task'[t] = task[t] \/ Seen(t)'
         \/ ~worker.bad /\ Owned(t) /\ task'[t].status = "failed"
  BY <1>1, FinishEffect DEF Seen
<1>3. CASE task'[t] = task[t] \/ Seen(t)' BY <1>0, <1>1, <1>2, <1>3, Returns
<1>4. CASE ~worker.bad /\ Owned(t) /\ task'[t].status = "failed"
  <2>1. Quiet => Clean' BY <1>0, <1>4, FinishedIsWhole DEF Clean, Whole
  <2>2. QED BY <1>0, <1>1, <1>2, <1>4, <2>1, Completes DEF Owned
<1>5. QED BY <1>2, <1>3, <1>4

LEMMA SupervisionUncertainSite ==
  ASSUME Inv, SiteInv, SupervisionUncertain
  PROVE  SiteInv'
<1>0. /\ TaskTypes /\ Working /\ UNCHANGED roller /\ worker'.pc = "returned"
      /\ task' = task \/ InterruptOwned(W)
  BY GotoMoves DEF Inv, StateTypes, SupervisionUncertain, At, Working
<1>1. PICK t \in Tasks : t = W BY <1>0, WorkingFacts
<1>2. CASE task' = task BY <1>0, <1>1, <1>2, Returns
<1>3. CASE InterruptOwned(t)
  <2>1. task'[t].status = "interrupted" /\ \A u \in Tasks \ {t} : task'[u] = task[u]
    BY <1>0, <1>3, InterruptFacts
  <2>2. QED BY <1>0, <1>1, <2>1, Returns DEF Seen
<1>4. QED BY <1>0, <1>1, <1>2, <1>3

\* A task that runs is interrupted, by whomever.
LEMMA InterruptionKeeps ==
  ASSUME Inv, SiteInv, NEW t \in Tasks, task[t].status = "running", InterruptOwned(t), UNCHANGED roller
  PROVE  /\ \A u \in Tasks : (Seen(u) => Seen(u)') /\ (InSight(u) => InSight(u)')
         /\ OneActive' /\ RollersSeen'
<1>0. TaskTypes BY DEF Inv, StateTypes
<1>1. task'[t].status = "interrupted" /\ \A u \in Tasks \ {t} : task'[u] = task[u]
  BY <1>0, InterruptFacts
<1>2. \A u \in Tasks : (Seen(u) => Seen(u)') /\ (InSight(u) => InSight(u)') /\ (Active(u)' => Active(u))
  BY <1>1 DEF Seen, InSight, Active
<1>3. OneActive' BY <1>2, OneActiveStays DEF SiteInv
<1>4. RollersSeen' BY <1>2, RollersStay DEF SiteInv
<1>5. QED BY <1>2, <1>3, <1>4

LEMMA InterruptIfOwnedSite ==
  ASSUME Inv, SiteInv, InterruptIfOwned
  PROVE  SiteInv'
<1>0. /\ worker.pc # "idle" /\ UNCHANGED <<site, roller>> /\ worker'.pc = "idle"
      /\ task' = task \/ (Owned(W) /\ InterruptOwned(W))
  BY RestingFacts DEF InterruptIfOwned, At
<1>1. W \in Tasks BY <1>0, ActiveFacts
<1>2. CASE task' = task
  <2>1. \A u \in Tasks : (Seen(u) => Seen(u)') /\ (InSight(u) => InSight(u)') /\ (Active(u)' => Active(u))
    BY <1>2 DEF Seen, InSight, Active
  <2>2. OneActive' BY <2>1, OneActiveStays DEF SiteInv
  <2>3. RollersSeen' BY <1>0, <2>1, RollersStay DEF SiteInv
  <2>4. QED BY <1>0, <2>1, <2>2, <2>3, Rests
<1>3. CASE Owned(W) /\ InterruptOwned(W)
  BY <1>0, <1>1, <1>3, InterruptionKeeps, Rests DEF Owned
<1>4. QED BY <1>0, <1>2, <1>3

-----------------------------------------------------------------------------
(* The steps of the requests, of the administrator and of the environment  *)

LEMMA StepStays ==
  ASSUME SiteInv, UNCHANGED <<worker, units, roller, alone>>
  PROVE  AloneInv'
BY DEF SiteInv, AloneInv, Working, W

LEMMA HeartbeatFailsSite ==
  ASSUME Inv, SiteInv, HeartbeatFails
  PROVE  SiteInv'
<1>1. /\ UNCHANGED <<task, site, units, roller, alone>>
      /\ worker'.pc = worker.pc /\ worker'.task = worker.task /\ worker'.bad = worker.bad
  BY DEF HeartbeatFails, Inv, StateTypes, RunTypes, RunRecords
<1>2. \A t \in Tasks : (Seen(t) => Seen(t)') /\ (InSight(t) => InSight(t)') /\ (Active(t)' => Active(t))
  BY <1>1 DEF Seen, InSight, Active
<1>3. OneActive' BY <1>2, OneActiveStays DEF SiteInv
<1>4. RollersSeen' BY <1>1, <1>2, RollersStay DEF SiteInv
<1>5. AloneInv' BY <1>1 DEF SiteInv, AloneInv, Working, W
<1>6. SameData(W) BY <1>1 DEF SameData
<1>7. QED BY <1>1, <1>2, <1>3, <1>4, <1>5, <1>6, Bystander

\* Somebody else writes to the site: the worker is not at work, or something is shown.
LEMMA Outsider ==
  ASSUME Inv, SiteInv, ~Exclusive, UNCHANGED <<task, worker, alone>>, RollersSeen',
         \E t \in Tasks : InSight(t)
  PROVE  SiteInv'
<1>1. Working' = Working /\ Quiet' = Quiet /\ W' = W BY DEF Working, Quiet, Seen, W
<1>2. OneActive' BY DEF SiteInv, OneActive, Active
<1>3. AloneInv' /\ QuietAlone' /\ StageInv' /\ CalmInv'
  BY <1>1 DEF SiteInv, QuietAlone, Exclusive, AloneInv, StageInv, CalmInv
<1>4. DamageIsInSight' BY DEF DamageIsInSight, InSight
<1>5. QED BY <1>2, <1>3, <1>4 DEF SiteInv

LEMMA UnitEndsAloneSite ==
  ASSUME Inv, SiteInv, UnitEndsAlone
  PROVE  SiteInv'
<1>0. UNCHANGED <<task, worker, roller, alone>> BY DEF UnitEndsAlone
<1>1. PICK t \in units : ~(worker.pc = "applying" /\ W = t) /\ units' = units \ {t} BY DEF UnitEndsAlone, At
<1>2. t \in Tasks /\ InSight(t) BY DEF Inv, StateTypes, SiteTypes, UnitInv, InSight
<1>3. RollersSeen' BY <1>0 DEF SiteInv, RollersSeen, Seen
<1>4. ~Exclusive
  <2>1. SUFFICES ASSUME Exclusive PROVE FALSE OBVIOUS
  <2>2. t = W /\ Working BY <1>1, <2>1, Solo DEF Exclusive
  <2>3. QED BY <1>1, <2>2, WorkingFacts
<1>5. QED BY <1>0, <1>2, <1>3, <1>4, Outsider

\* A request that is at a task shows it, and is not alone with the site.
LEMMA RollerFacts ==
  ASSUME Inv, SiteInv, NEW r \in Rollbacks, roller[r].pc # "idle"
  PROVE  /\ roller[r].task \in Tasks /\ Seen(roller[r].task) /\ ~Exclusive
         /\ task[roller[r].task].status = "failed"
BY Solo DEF Inv, UnitInv, SiteInv, RollersSeen, Exclusive

LEMMA ManualRollbackSite ==
  ASSUME Inv, SiteInv, NEW r \in Rollbacks, ManualRollback(r)
  PROVE  SiteInv'
<1>0. RunTypes /\ UNCHANGED <<task, worker, alone>> /\ roller[r].pc # "idle"
  BY DEF Inv, StateTypes, ManualRollback, RollingBack, RollbackSteps
<1>1. roller[r].task \in Tasks /\ Seen(roller[r].task) /\ ~Exclusive BY <1>0, RollerFacts
<1>2. InSight(roller[r].task) BY <1>1 DEF InSight, Seen
<1>3. RollersSeen'
  <2>1. \A q \in Rollbacks : \/ roller'[q].pc = "idle"
                             \/ roller'[q].task = roller[q].task /\ roller[q].pc # "idle"
    <3>1. CASE roller' = [roller EXCEPT ![r] = Resting] BY <1>0, <3>1, RestingFacts DEF RunTypes
    <3>2. ASSUME NEW bad \in BOOLEAN, roller' = [roller EXCEPT ![r].pc = StepAfter(@), ![r].bad = bad]
          PROVE  \A q \in Rollbacks : \/ roller'[q].pc = "idle"
                                      \/ roller'[q].task = roller[q].task /\ roller[q].pc # "idle"
      BY <1>0, <3>2 DEF RunTypes, RunRecords
    <3>3. QED BY <3>1, <3>2 DEF ManualRollback
  <2>2. QED BY <1>0, <2>1 DEF SiteInv, RollersSeen, Seen
<1>4. QED BY <1>0, <1>1, <1>2, <1>3, Outsider

\* A task is marked, and keeps its status and what the worker reads of it.
LEMMA Marks ==
  ASSUME Inv, SiteInv, UNCHANGED <<site, worker, units>>, UNCHANGED alone \/ ~(alone \/ Quiet)',
         NEW t \in Tasks, \A u \in Tasks \ {t} : task'[u] = task[u],
         task'[t].status = task[t].status, SameData(t), Seen(t) => Seen(t)',
         RollersSeen', AloneInv'
  PROVE  SiteInv'
<1>1. \A u \in Tasks : (Seen(u) => Seen(u)') /\ (InSight(u) => InSight(u)') /\ (Active(u)' => Active(u))
  BY DEF Seen, InSight, Active
<1>2. OneActive' BY <1>1, OneActiveStays DEF SiteInv
<1>3. Working => SameData(W)
  <2>1. Working => W \in Tasks BY WorkingFacts
  <2>2. CASE W = t BY <2>2
  <2>3. CASE W # t BY <2>1, <2>3 DEF SameData
  <2>4. QED BY <2>2, <2>3
<1>4. QED BY <1>1, <1>2, <1>3, Bystander

\* The owner of a task is not what the site's parts of the invariant speak of.
LEMMA OwnerMoves ==
  ASSUME Inv, NEW t \in Tasks, NEW o \in {"none", "worker", "gone"} \cup Rollbacks,
         task' = [task EXCEPT ![t].owner = o]
  PROVE  /\ \A u \in Tasks \ {t} : task'[u] = task[u]
         /\ task'[t].status = task[t].status /\ SameData(t) /\ Seen(t)' = Seen(t)
<1> DEFINE rec == [task[t] EXCEPT !.owner = o]
<1>0. TaskTypes /\ task[t] \in TaskRecords BY DEF Inv, StateTypes, TaskTypes
<1>1. /\ rec \in TaskRecords /\ rec.status = task[t].status /\ rec.attention = task[t].attention
      /\ rec.disposition = task[t].disposition /\ rec.comp = task[t].comp /\ rec.batch = task[t].batch
      /\ rec.source = task[t].source /\ rec.files = task[t].files /\ rec.db = task[t].db
  BY <1>0 DEF TaskRecords
<1>2. task' = [task EXCEPT ![t] = rec] BY <1>0 DEF TaskTypes
<1> HIDE DEF rec
<1>3. task'[t] = rec /\ \A u \in Tasks \ {t} : task'[u] = task[u] BY <1>0, <1>1, <1>2, ReplaceFacts
<1>4. QED BY <1>1, <1>3 DEF SameData, Seen

LEMMA BeginManualRollbackSite ==
  ASSUME Inv, SiteInv, NEW r \in Rollbacks, BeginManualRollback(r)
  PROVE  SiteInv'
<1>0. RunTypes /\ UNCHANGED <<site, worker, units>> BY DEF Inv, StateTypes, BeginManualRollback
<1>1. PICK t \in Tasks : /\ Decidable(t)
                         /\ task' = [task EXCEPT ![t].owner = r]
                         /\ roller' = [roller EXCEPT ![r] = [Resting EXCEPT !.pc = "prepare", !.task = t]]
  BY DEF BeginManualRollback
<1>2. /\ \A u \in Tasks \ {t} : task'[u] = task[u]
      /\ task'[t].status = task[t].status /\ SameData(t) /\ Seen(t)' = Seen(t)
  BY <1>1, OwnerMoves
<1>3. Seen(t) /\ task[t].status = "failed" BY <1>1 DEF Seen, Decidable
<1>4. RollersSeen'
  <2>1. \A u \in Tasks : Seen(u)' = Seen(u) BY <1>2 DEF Seen
  <2>2. \A q \in Rollbacks : roller'[q] = roller[q] \/ roller'[q].task = t
    BY <1>0, <1>1 DEF RunTypes, Resting
  <2>3. \A q \in Rollbacks : roller[q].pc # "idle" => roller[q].task \in Tasks BY DEF Inv, UnitInv
  <2>4. SUFFICES ASSUME NEW q \in Rollbacks, roller'[q].pc # "idle" PROVE Seen(roller[q].task)'
    BY DEF RollersSeen
  <2>5. CASE roller'[q] = roller[q]
    <3>1. PICK u \in Tasks : u = roller[q].task BY <2>3, <2>4, <2>5
    <3>2. Seen(u)' BY <2>1, <2>4, <2>5, <3>1 DEF SiteInv, RollersSeen
    <3>3. QED BY <2>5, <3>1, <3>2 DEF Seen
  <2>6. CASE roller'[q].task = t
    <3>1. Seen(t)' BY <1>2, <1>3
    <3>2. QED BY <2>6, <3>1 DEF Seen
  <2>7. QED BY <2>2, <2>5, <2>6
<1>5. ~alone' BY DEF BeginManualRollback
<1>6. AloneInv' BY <1>5 DEF AloneInv
<1>7. ~Quiet'
  <2>1. Seen(t)' BY <1>2, <1>3
  <2>2. QED BY <2>1 DEF Quiet, Seen
<1>8. QED BY <1>0, <1>2, <1>3, <1>4, <1>5, <1>6, <1>7, Marks

\* A step of a request that leaves the site alone.
LEMMA RequestSteps ==
  ASSUME Inv, SiteInv, UNCHANGED <<site, worker, units, alone>>,
         NEW r \in Rollbacks, roller[r].pc # "idle",
         NEW run \in RunRecords, roller' = [roller EXCEPT ![r] = run],
         run.pc # "idle" => run.task = roller[r].task,
         NEW t \in Tasks, t = roller[r].task, \A u \in Tasks \ {t} : task'[u] = task[u],
         task'[t].status = task[t].status, SameData(t), Seen(t)'
  PROVE  SiteInv'
<1>0. RunTypes BY DEF Inv, StateTypes
<1>1. \A u \in Tasks : Seen(u) => Seen(u)' BY DEF Seen
<1>2. RollersSeen'
  <2>1. SUFFICES ASSUME NEW q \in Rollbacks, roller'[q].pc # "idle" PROVE Seen(roller[q].task)'
    BY DEF RollersSeen
  <2>2. roller[q].pc # "idle" /\ roller'[q].task = roller[q].task BY <1>0, <2>1 DEF RunTypes
  <2>3. PICK u \in Tasks : u = roller[q].task BY <2>2 DEF Inv, UnitInv
  <2>4. Seen(u)' BY <1>1, <2>2, <2>3 DEF SiteInv, RollersSeen
  <2>5. QED BY <2>2, <2>3, <2>4 DEF Seen
<1>3. AloneInv'
  <2>1. ~(Working /\ alone) BY RollerFacts DEF Exclusive
  <2>2. QED BY <2>1 DEF AloneInv, Working
<1>4. QED BY <1>2, <1>3, Marks

LEMMA PrepareManualRollbackSite ==
  ASSUME Inv, SiteInv, NEW r \in Rollbacks, PrepareManualRollback(r)
  PROVE  SiteInv'
<1>0. RunTypes /\ UNCHANGED <<site, worker, units, alone>> /\ roller[r].pc = "prepare"
  BY DEF Inv, StateTypes, PrepareManualRollback
<1>1. PICK t \in Tasks : t = roller[r].task BY <1>0, RollerFacts
<1>2. Seen(t) /\ roller[r] \in RunRecords BY <1>0, <1>1, RollerFacts DEF RunTypes
<1>3. /\ \A u \in Tasks \ {t} : task'[u] = task[u]
      /\ task'[t].status = task[t].status /\ SameData(t) /\ Seen(t)'
  <2>1. task' = task \/ task' = [task EXCEPT ![t].owner = "none"] BY <1>1 DEF PrepareManualRollback
  <2>2. CASE task' = task BY <1>2, <2>2 DEF SameData, Seen
  <2>3. CASE task' = [task EXCEPT ![t].owner = "none"] BY <1>2, <2>3, OwnerMoves
  <2>4. QED BY <2>1, <2>2, <2>3
<1>4. PICK run \in RunRecords : /\ roller' = [roller EXCEPT ![r] = run]
                                /\ run.pc # "idle" => run.task = roller[r].task
  <2>1. CASE roller' = [roller EXCEPT ![r].pc = "roll_maintenance"]
    <3> DEFINE run == [roller[r] EXCEPT !.pc = "roll_maintenance"]
    <3>1. run \in RunRecords /\ run.task = roller[r].task BY <1>2 DEF RunRecords, RollbackSteps
    <3>2. roller' = [roller EXCEPT ![r] = run] BY <1>0, <2>1 DEF RunTypes
    <3> HIDE DEF run
    <3>3. QED BY <3>1, <3>2
  <2>2. CASE roller' = [roller EXCEPT ![r] = Resting] BY <2>2, RestingFacts
  <2>3. QED BY <2>1, <2>2 DEF PrepareManualRollback
<1>5. QED BY <1>0, <1>1, <1>3, <1>4, RequestSteps

\* The end of a manual rollback: its task stays with the administrator.
LEMMA FinishManualEffect ==
  ASSUME Inv, SiteInv, NEW r \in Rollbacks, FinishManualRollback(r), NEW t \in Tasks, t = roller[r].task
  PROVE  /\ \A u \in Tasks \ {t} : task'[u] = task[u]
         /\ task'[t].status = task[t].status /\ SameData(t) /\ Seen(t)'
         /\ task'[t] = task[t] \/ task'[t].rollback = "failed"
<1>0. TaskTypes /\ task[t] \in TaskRecords /\ roller[r].pc = "roll_finish"
  BY DEF Inv, StateTypes, TaskTypes, FinishManualRollback
<1>1. Seen(t) /\ task[t].status = "failed" BY <1>0, RollerFacts
<1>2. CASE task' = task BY <1>1, <1>2 DEF SameData, Seen
<1>3. CASE task' = [task EXCEPT ![t].owner = "none", ![t].attention = TRUE, ![t].rollback = "failed",
                                ![t].disposition = "none"]
  <2> DEFINE freed == [task[t] EXCEPT !.owner = "none", !.attention = TRUE]
             rec == [freed EXCEPT !.rollback = "failed", !.disposition = "none"]
  <2>1. /\ freed \in TaskRecords /\ freed.status = task[t].status /\ freed.attention
        /\ freed.comp = task[t].comp /\ freed.batch = task[t].batch /\ freed.source = task[t].source
        /\ freed.files = task[t].files /\ freed.db = task[t].db
    BY <1>0 DEF TaskRecords
  <2>2. task' = [task EXCEPT ![t] = rec] BY <1>0, <1>3 DEF TaskTypes
  <2> HIDE DEF freed
  <2>3. rec \in TaskRecords
    <3> DEFINE half == [freed EXCEPT !.rollback = "failed"]
    <3>1. half \in TaskRecords BY <2>1 DEF TaskRecords
    <3>2. rec = [half EXCEPT !.disposition = "none"] OBVIOUS
    <3> HIDE DEF half, rec
    <3>3. QED BY <3>1, <3>2 DEF TaskRecords
  <2>6. /\ rec.status = task[t].status /\ rec.attention /\ rec.rollback = "failed"
        /\ rec.comp = task[t].comp /\ rec.batch = task[t].batch /\ rec.source = task[t].source
        /\ rec.files = task[t].files /\ rec.db = task[t].db
    BY <2>1 DEF TaskRecords
  <2> HIDE DEF rec
  <2>4. task'[t] = rec /\ \A u \in Tasks \ {t} : task'[u] = task[u]
    BY <1>0, <2>2, <2>3, ReplaceFacts
  <2>5. QED BY <1>1, <2>4, <2>6 DEF SameData, Seen
<1>4. FinalizeFails(t) BY <1>1 DEF FinalizeFails
<1>5. QED BY <1>2, <1>3, <1>4 DEF FinishManualRollback

LEMMA FinishManualRollbackSite ==
  ASSUME Inv, SiteInv, NEW r \in Rollbacks, FinishManualRollback(r)
  PROVE  SiteInv'
<1>0. /\ UNCHANGED <<site, worker, units, alone>> /\ roller[r].pc # "idle"
      /\ roller' = [roller EXCEPT ![r] = Resting]
  BY DEF FinishManualRollback
<1>1. PICK t \in Tasks : t = roller[r].task BY <1>0, RollerFacts
<1>2. /\ \A u \in Tasks \ {t} : task'[u] = task[u]
      /\ task'[t].status = task[t].status /\ SameData(t) /\ Seen(t)'
  BY <1>1, FinishManualEffect
<1>3. QED BY <1>0, <1>1, <1>2, RestingFacts, RequestSteps

LEMMA ClaimExpiresSite ==
  ASSUME Inv, SiteInv, NEW r \in Rollbacks, ClaimExpires(r)
  PROVE  SiteInv'
<1>0. UNCHANGED <<site, worker, units, roller, alone>> /\ roller[r].pc # "idle" BY DEF ClaimExpires
<1>1. PICK t \in Tasks : t = roller[r].task BY <1>0, RollerFacts
<1>2. /\ \A u \in Tasks \ {t} : task'[u] = task[u]
      /\ task'[t].status = task[t].status /\ SameData(t) /\ Seen(t)' = Seen(t)
  BY <1>1, OwnerMoves DEF ClaimExpires
<1>3. RollersSeen'
  <2>1. \A u \in Tasks : Seen(u) => Seen(u)' BY <1>2 DEF Seen
  <2>2. QED BY <1>0, <2>1, RollersStay DEF SiteInv
<1>4. AloneInv' BY <1>0, StepStays
<1>5. QED BY <1>0, <1>2, <1>3, <1>4, Marks

LEMMA IgnoreSite ==
  ASSUME Inv, SiteInv, Ignore
  PROVE  SiteInv'
<1>0. TaskTypes /\ UNCHANGED <<site, worker, units, roller, alone>> BY DEF Inv, StateTypes, Ignore
<1>1. PICK t \in Tasks : DisposeFailedTaskIgnored(t) \/ DisposeInterrupted(t) BY DEF Ignore
<1>2. task[t] \in TaskRecords BY <1>0 DEF TaskTypes
<1>3. /\ \A u \in Tasks \ {t} : task'[u] = task[u]
      /\ task'[t].status = task[t].status /\ SameData(t) /\ Seen(t)'
  <2>1. CASE DisposeFailedTaskIgnored(t)
    <3> DEFINE chosen == [task[t] EXCEPT !.disposition = "ignored"]
               rec == [chosen EXCEPT !.attention = FALSE]
    <3>1. /\ chosen \in TaskRecords /\ chosen.status = task[t].status /\ chosen.disposition = "ignored"
          /\ chosen.comp = task[t].comp /\ chosen.batch = task[t].batch /\ chosen.source = task[t].source
          /\ chosen.files = task[t].files /\ chosen.db = task[t].db
      BY <1>2 DEF TaskRecords
    <3>2. task' = [task EXCEPT ![t] = rec] BY <1>0, <2>1 DEF DisposeFailedTaskIgnored, TaskTypes
    <3> HIDE DEF chosen
    <3>3. rec \in TaskRecords BY <3>1 DEF TaskRecords
    <3>4. /\ rec.status = task[t].status /\ rec.disposition = "ignored"
          /\ rec.comp = task[t].comp /\ rec.batch = task[t].batch /\ rec.source = task[t].source
          /\ rec.files = task[t].files /\ rec.db = task[t].db
      BY <3>1 DEF TaskRecords
    <3> HIDE DEF rec
    <3>5. task'[t] = rec /\ \A u \in Tasks \ {t} : task'[u] = task[u]
      BY <1>0, <3>2, <3>3, ReplaceFacts
    <3>6. task[t].status = "failed" BY <2>1 DEF DisposeFailedTaskIgnored, Decidable
    <3>7. QED BY <3>4, <3>5, <3>6 DEF SameData, Seen
  <2>2. CASE DisposeInterrupted(t)
    <3> DEFINE rec == [task[t] EXCEPT !.disposition = "escalated"]
    <3>1. /\ rec \in TaskRecords /\ rec.status = task[t].status
          /\ rec.comp = task[t].comp /\ rec.batch = task[t].batch /\ rec.source = task[t].source
          /\ rec.files = task[t].files /\ rec.db = task[t].db
      BY <1>2 DEF TaskRecords
    <3>2. task' = [task EXCEPT ![t] = rec] BY <1>0, <2>2 DEF DisposeInterrupted, TaskTypes
    <3> HIDE DEF rec
    <3>3. task'[t] = rec /\ \A u \in Tasks \ {t} : task'[u] = task[u]
      BY <1>0, <3>1, <3>2, ReplaceFacts
    <3>4. task[t].status = "interrupted" BY <2>2 DEF DisposeInterrupted, Undisposed
    <3>5. QED BY <3>1, <3>3, <3>4 DEF SameData, Seen
  <2>3. QED BY <1>1, <2>1, <2>2
<1>4. RollersSeen'
  <2>1. \A u \in Tasks : Seen(u) => Seen(u)' BY <1>3 DEF Seen
  <2>2. QED BY <1>0, <2>1, RollersStay DEF SiteInv
<1>5. AloneInv' BY <1>0, StepStays
<1>6. QED BY <1>0, <1>3, <1>4, <1>5, Marks

LEMMA RecoverExpiredSite ==
  ASSUME Inv, SiteInv, RecoverExpired
  PROVE  SiteInv'
<1>0. TaskTypes /\ UNCHANGED <<site, worker, units, roller, alone>> BY DEF Inv, StateTypes, RecoverExpired
<1>1. PICK t \in Tasks : task[t].status = "running" /\ InterruptOwned(t)
  BY DEF RecoverExpired, Recoverable
<1>2. /\ \A u \in Tasks : (Seen(u) => Seen(u)') /\ (InSight(u) => InSight(u)')
      /\ OneActive' /\ RollersSeen'
  BY <1>0, <1>1, InterruptionKeeps
<1>3. AloneInv' BY <1>0, StepStays
<1>4. \A u \in Tasks \ {t} : task'[u] = task[u] BY <1>0, <1>1, InterruptFacts
<1>5. SameData(t)
  <2> DEFINE base == [task[t] EXCEPT !.status = "interrupted", !.owner = "none"]
             rec == [base EXCEPT !.attention = TRUE]
  <2>0. task[t] \in TaskRecords BY <1>0 DEF TaskTypes
  <2>1. /\ base \in TaskRecords
        /\ base.comp = task[t].comp /\ base.batch = task[t].batch /\ base.source = task[t].source
        /\ base.files = task[t].files /\ base.db = task[t].db
    BY <2>0 DEF TaskRecords
  <2>2. task'[t] = rec BY <1>0, <1>1 DEF InterruptOwned, Finished, TaskTypes
  <2> HIDE DEF base
  <2>3. /\ rec.comp = base.comp /\ rec.batch = base.batch /\ rec.source = base.source
        /\ rec.files = base.files /\ rec.db = base.db
    BY <2>1 DEF TaskRecords
  <2>4. QED BY <2>1, <2>2, <2>3 DEF SameData
<1>6. Working => SameData(W)
  <2>1. Working => W \in Tasks BY WorkingFacts
  <2>2. CASE W = t BY <1>5, <2>2
  <2>3. CASE W # t BY <1>4, <2>1, <2>3 DEF SameData
  <2>4. QED BY <2>2, <2>3
<1>7. QED BY <1>0, <1>2, <1>3, <1>6, Bystander

LEMMA RestartSite ==
  ASSUME Inv, SiteInv, Restart
  PROVE  SiteInv'
<1>0. TaskTypes /\ OwnerInv /\ UNCHANGED site /\ worker' = Resting /\ roller' = [r \in Rollbacks |-> Resting]
  BY DEF Inv, StateTypes, Restart
<1>1. \A t \in Tasks :
        \/ task'[t] = task[t]
        \/ task[t].status = "running" /\ task'[t].status = "interrupted"
        \/ /\ task[t].status \notin {"preparing", "queued"} /\ task'[t].status = task[t].status
           /\ task'[t].attention = task[t].attention /\ task'[t].disposition = task[t].disposition
  <2>1. SUFFICES ASSUME NEW t \in Tasks, task'[t] # task[t]
                 PROVE  \/ task[t].status = "running" /\ task'[t].status = "interrupted"
                        \/ /\ task[t].status \notin {"preparing", "queued"} /\ task'[t].status = task[t].status
                           /\ task'[t].attention = task[t].attention /\ task'[t].disposition = task[t].disposition
    OBVIOUS
  <2>2. task[t] \in TaskRecords BY <1>0 DEF TaskTypes
  <2>3. CASE Recoverable(t)
    <3>1. task'[t] = [Finished(t, "interrupted") EXCEPT !.attention = TRUE] BY <2>3 DEF Restart
    <3>2. Finished(t, "interrupted") \in TaskRecords /\ Finished(t, "interrupted").status = "interrupted"
      BY <1>0, FinishedFacts DEF Ends
    <3>3. QED BY <2>3, <3>1, <3>2 DEF TaskRecords, Recoverable
  <2>4. CASE ~Recoverable(t)
    <3>1. task[t].owner # "none" /\ task'[t] = [task[t] EXCEPT !.owner = "gone"] BY <2>1, <2>4 DEF Restart
    <3>2. task[t].status \notin {"none", "preparing", "queued"} BY <1>0, <3>1 DEF OwnerInv
    <3>3. QED BY <2>2, <3>1, <3>2 DEF TaskRecords
  <2>5. QED BY <2>3, <2>4
<1>2. \A t \in Tasks : (InSight(t) => InSight(t)') /\ (Active(t)' => Active(t))
  BY <1>1 DEF InSight, Active
<1>3. OneActive' BY <1>2, OneActiveStays DEF SiteInv
<1>4. RollersSeen' BY <1>0, RestingFacts DEF RollersSeen
<1>5. worker'.pc = "idle" BY <1>0, RestingFacts
<1>6. QED BY <1>0, <1>2, <1>3, <1>4, <1>5, Rests

-----------------------------------------------------------------------------
(* Plans and the batch                                                     *)

LEMMA SameTasks ==
  ASSUME Inv, SiteInv, UNCHANGED <<task, site, units, worker, roller, alone>>
  PROVE  SiteInv'
<1>1. \A t \in Tasks : (Seen(t) => Seen(t)') /\ (InSight(t) => InSight(t)') /\ (Active(t)' => Active(t))
  BY DEF Seen, InSight, Active
<1>2. OneActive' BY <1>1, OneActiveStays DEF SiteInv
<1>3. RollersSeen' BY <1>1, RollersStay DEF SiteInv
<1>4. AloneInv' BY StepStays
<1>5. SameData(W) BY DEF SameData
<1>6. QED BY <1>1, <1>2, <1>3, <1>4, <1>5, Bystander

\* A task is planned, or its plan is sealed or given up.
LEMMA Plans ==
  ASSUME Inv, SiteInv, UNCHANGED <<site, units, worker, roller, alone>>,
         NEW t \in Tasks, task[t].status \in {"none", "preparing"}, \A u \in Tasks \ {t} : task'[u] = task[u],
         task'[t].status \in {"preparing", "queued", "failed"},
         task'[t].status # "failed" => task[t].status = "preparing" \/ \A u \in Tasks : ~Active(u)
  PROVE  SiteInv'
<1>1. \A u \in Tasks : (Seen(u) => Seen(u)') /\ (InSight(u) => InSight(u)')
  BY DEF Seen, InSight
<1>2. OneActive'
  <2>1. CASE \A u \in Tasks : Active(u)' => Active(u) BY <2>1, OneActiveStays DEF SiteInv
  <2>2. CASE \A u \in Tasks : ~Active(u) BY <2>2 DEF OneActive, Active
  <2>3. \A u \in Tasks \ {t} : Active(u)' => Active(u) BY DEF Active
  <2>4. QED
    <3>1. CASE Active(t) \/ ~Active(t)' BY <2>1, <2>3, <3>1
    <3>2. CASE ~Active(t) /\ task'[t].status \in {"preparing", "queued"} BY <2>2, <3>2 DEF Active
    <3>3. QED BY <3>1, <3>2 DEF Active
<1>3. RollersSeen' BY <1>1, RollersStay DEF SiteInv
<1>4. AloneInv' BY StepStays
<1>5. Working => SameData(W)
  <2>1. Working => W \in Tasks /\ W # t BY WorkingFacts
  <2>2. QED BY <2>1 DEF SameData
<1>6. QED BY <1>1, <1>2, <1>3, <1>4, <1>5, Bystander

LEMMA ConfirmSite ==
  ASSUME Inv, SiteInv, NEW c \in Singles, Confirm(c)
  PROVE  SiteInv'
<1>1. PICK source \in {NoTask} \cup Tasks :
        /\ Unused # {} /\ CreatePlan(NextId, c, FALSE, source) /\ ~SiteHasBlockingTask
        /\ UNCHANGED <<site, units, worker, roller, alone>>
  BY DEF Confirm, BackupChoices
<1>2. PICK t \in Tasks : t = NextId /\ task[t].status = "none" BY <1>1, NextIdFacts
<1> DEFINE plan == [Absent EXCEPT !.status = "preparing", !.comp = c, !.batch = FALSE, !.source = source]
<1>3. plan \in TaskRecords /\ plan.status = "preparing"
  <2>1. c \in Components BY BatchAssumption
  <2>2. QED BY <2>1, PlanFacts
<1>4. task' = [task EXCEPT ![t] = plan] BY <1>1, <1>2 DEF CreatePlan
<1> HIDE DEF plan
<1>5. task'[t] = plan /\ \A u \in Tasks \ {t} : task'[u] = task[u]
  BY <1>3, <1>4, ReplaceFacts DEF Inv, StateTypes
<1>6. \A u \in Tasks : ~Active(u) BY <1>1 DEF SiteHasBlockingTask, Active
<1>7. QED BY <1>1, <1>2, <1>3, <1>5, <1>6, Plans

\* The download for a plan ends: the plan is sealed, or has failed.
LEMMA Downloads ==
  ASSUME Inv, SiteInv, UNCHANGED <<site, units, worker, roller, alone>>,
         NEW t \in Tasks, task[t].status = "preparing", SealPlan(t) \/ FailPreparingPlan(t)
  PROVE  SiteInv'
<1>0. TaskTypes /\ task[t] \in TaskRecords BY DEF Inv, StateTypes, TaskTypes
<1> DEFINE sealed == [task[t] EXCEPT !.status = "queued"]
           failed == [task[t] EXCEPT !.status = "failed", !.failure = "package"]
<1>1. sealed \in TaskRecords /\ sealed.status = "queued" BY <1>0 DEF TaskRecords
<1>2. failed \in TaskRecords /\ failed.status = "failed" BY <1>0 DEF TaskRecords
<1>3. task' = [task EXCEPT ![t] = sealed] \/ task' = [task EXCEPT ![t] = failed]
  BY <1>0 DEF SealPlan, FailPreparingPlan, TaskTypes
<1> HIDE DEF sealed, failed
<1>4. CASE task' = [task EXCEPT ![t] = failed]
  <2>1. task'[t] = failed /\ \A u \in Tasks \ {t} : task'[u] = task[u]
    BY <1>0, <1>2, <1>4, ReplaceFacts
  <2>2. QED BY <1>2, <2>1, Plans
<1>5. CASE task' = [task EXCEPT ![t] = sealed]
  <2>1. task'[t] = sealed /\ \A u \in Tasks \ {t} : task'[u] = task[u]
    BY <1>0, <1>1, <1>5, ReplaceFacts
  <2>2. QED BY <1>1, <2>1, Plans
<1>6. QED BY <1>3, <1>4, <1>5

LEMMA DownloadSite ==
  ASSUME Inv, SiteInv, Download
  PROVE  SiteInv'
<1>1. PICK t \in Tasks : t = request /\ task[t].status = "preparing"
  BY DEF Download, Inv, StateTypes, RunTypes, PlanInv
<1>2. UNCHANGED <<site, units, worker, roller, alone>> /\ (SealPlan(t) \/ FailPreparingPlan(t)) BY <1>1 DEF Download
<1>3. QED BY <1>1, <1>2, Downloads

LEMMA DownloadForBatchSite ==
  ASSUME Inv, SiteInv, DownloadForBatch
  PROVE  SiteInv'
<1>1. PICK t \in Tasks : t = batcher.task /\ task[t].status = "preparing"
  BY DEF DownloadForBatch, Inv, PlanInv, ExistingTasks
<1>2. UNCHANGED <<site, units, worker, roller, alone>> /\ (SealPlan(t) \/ FailPreparingPlan(t))
  BY <1>1 DEF DownloadForBatch
<1>3. QED BY <1>1, <1>2, Downloads

LEMMA ConfirmForBatchSite ==
  ASSUME Inv, SiteInv, ConfirmForBatch
  PROVE  SiteInv'
<1>0. UNCHANGED <<site, units, worker, roller, alone>> /\ Unused # {} BY DEF ConfirmForBatch
<1>1. CASE task' = task BY <1>0, <1>1, SameTasks
<1>2. CASE ~SiteHasBlockingTask /\ CreatePlan(NextId, batcher.key, TRUE, batch'.source)
  <2>1. PICK t \in Tasks : t = NextId /\ task[t].status = "none" BY <1>0, NextIdFacts
  <2>2. PICK k \in Components, source \in {NoTask} \cup Tasks : k = batcher.key /\ source = batch'.source
    <3>1. batcher.key \in Components BY DEF Inv, StateTypes, BatchTypes, BatcherRecords, Components
    <3>2. EnsureBatchDatabaseBackupSource \in {NoTask} \cup Tasks BY SourceFacts DEF Inv, StateTypes
    <3>3. batch'.source = EnsureBatchDatabaseBackupSource
      BY DEF Inv, StateTypes, BatchTypes, BatchRecords, ConfirmForBatch
    <3>4. QED BY <3>1, <3>2, <3>3
  <2> DEFINE plan == [Absent EXCEPT !.status = "preparing", !.comp = k, !.batch = TRUE, !.source = source]
  <2>3. plan \in TaskRecords /\ plan.status = "preparing" /\ plan.batch = TRUE BY PlanFacts
  <2>4. task' = [task EXCEPT ![t] = plan] BY <1>2, <2>1, <2>2 DEF CreatePlan
  <2> HIDE DEF plan
  <2>5. task'[t] = plan /\ \A u \in Tasks \ {t} : task'[u] = task[u]
    BY <2>3, <2>4, ReplaceFacts DEF Inv, StateTypes
  <2>6. \A u \in Tasks : ~Active(u) BY <1>2 DEF SiteHasBlockingTask, Active
  <2>7. QED BY <1>0, <2>1, <2>3, <2>5, <2>6, Plans
<1>3. QED BY <1>1, <1>2 DEF ConfirmForBatch

LEMMA InitSite == Init => SiteInv
<1> SUFFICES ASSUME Init PROVE SiteInv OBVIOUS
<1>1. \A t \in Tasks : task[t].status = "none" BY DEF Init, Absent
<1>2. worker.pc = "idle" /\ \A r \in Rollbacks : roller[r].pc = "idle" BY DEF Init, Resting
<1>3. OneActive BY <1>1 DEF OneActive, Active
<1>4. RollersSeen BY <1>2 DEF RollersSeen
<1>5. AloneInv /\ QuietAlone /\ StageInv /\ CalmInv
  BY <1>2 DEF Working, AloneInv, QuietAlone, StageInv, Exclusive, CalmInv
<1>6. DamageIsInSight BY DEF Init, DamageIsInSight
<1>7. QED BY <1>3, <1>4, <1>5, <1>6 DEF SiteInv

LEMMA NextSite == Inv /\ SiteInv /\ [Next]_vars => SiteInv'
<1> SUFFICES ASSUME Inv, SiteInv, [Next]_vars PROVE SiteInv' OBVIOUS
<1>1. ASSUME BatchStep PROVE SiteInv'
  <2>1. CASE \/ CompleteBatchIfExhausted \/ AdoptExistingTask \/ StartDispatch \/ PreviewFails
             \/ MarkBatchItemDispatched
    BY <2>1, SameTasks
    DEF CompleteBatchIfExhausted, AdoptExistingTask, StartDispatch, PreviewFails, MarkBatchItemDispatched
  <2>2. QED BY <1>1, <2>1, ConfirmForBatchSite, DownloadForBatchSite DEF BatchStep
<1>2. ASSUME WorkerStep PROVE SiteInv'
  BY <1>2, ClaimSite, PrepareBackupsSite, PrepareUpdateSite, UnlockSite, FailBeforeWriteSite, StartApplySite,
     ApplySite, SupervisionUncertainSite, CheckTargetHealthSite, RestoreFileLockSite, MarkSuccessSite,
     AutomaticRollbackSite, FinishAutomaticRollbackSite, InterruptIfOwnedSite DEF WorkerStep
<1>3. ASSUME NEW r \in Rollbacks, RollbackRequest(r) PROVE SiteInv'
  BY <1>3, PrepareManualRollbackSite, ManualRollbackSite, FinishManualRollbackSite DEF RollbackRequest
<1>4. ASSUME CreatePluginBatch \/ UNCHANGED vars PROVE SiteInv'
  BY <1>4, SameTasks DEF CreatePluginBatch, vars
<1>5. QED
  BY <1>1, <1>2, <1>3, <1>4, ConfirmSite, IgnoreSite, BeginManualRollbackSite, DownloadSite, UnitEndsAloneSite,
     RecoverExpiredSite, HeartbeatFailsSite, RestartSite, ClaimExpiresSite DEF Next

\* The invariant the theorems below rest on holds in every reachable state.
THEOREM SiteInvariant == Spec => [](Inv /\ SiteInv)
<1>1. Init => Inv /\ SiteInv BY InitInv, InitSite
<1>2. Inv /\ SiteInv /\ [Next]_vars => (Inv /\ SiteInv)' BY NextInv, NextSite
<1>3. QED BY <1>1, <1>2, PTL DEF Spec

\* A site that an update has left open, in maintenance or half written is the matter of
\* a task that runs, or that shows the administrator what happened: whoever writes,
\* fails, crashes or rolls back, also when the administrator lets tasks overlap.
THEOREM DamageStaysInSight == Spec => []DamageIsInSight
<1>1. SiteInv => DamageIsInSight BY DEF SiteInv
<1>2. QED BY <1>1, SiteInvariant, PTL

-----------------------------------------------------------------------------
(* Outcomes                                                                *)

\* A step that claims no success, of an update or of a rollback, for a task.
Mild(t) == \/ task'[t] = task[t]
           \/ /\ task'[t].status = "success" => task[t].status = "success"
              /\ task'[t].rollback \in {task[t].rollback, "not_required", "pending", "failed"}

OutcomeOf(t) ==
  /\ Succeeds(t) => site'.files[task[t].comp] = "new" /\ site'.locked
  /\ RolledBack(t) => /\ site'.files[task[t].comp] = task[t].files
                     /\ (task[t].source = t => site'.db = task[t].db)
                     /\ site'.locked /\ ~site'.maintenance

LEMMA MildOutcome ==
  ASSUME NEW t \in Tasks, Mild(t)
  PROVE  OutcomeOf(t)
BY DEF Mild, OutcomeOf, Succeeds, RolledBack

LEMMA MildReplacement ==
  ASSUME TaskTypes, NEW t \in Tasks, NEW rec \in TaskRecords, task' = [task EXCEPT ![t] = rec],
         rec.status = "success" => task[t].status = "success", rec.rollback \in {task[t].rollback, "not_required", "pending", "failed"}
  PROVE  \A u \in Tasks : Mild(u)
BY ReplaceFacts DEF Mild

LEMMA MildFailure ==
  ASSUME TaskTypes, NEW t \in Tasks, NEW why \in Failures, NEW attention \in BOOLEAN, MarkFailure(t, why, attention)
  PROVE  \A u \in Tasks : Mild(u)
<1> DEFINE base == Finished(t, "failed")
           half == [base EXCEPT !.failure = why]
           rec == [half EXCEPT !.attention = attention]
<1>1. base \in TaskRecords /\ base.status = "failed" BY FinishedFacts DEF Ends
<1>2. base.rollback = task[t].rollback BY DEF TaskTypes, TaskRecords, Finished
<1>3. task' = [task EXCEPT ![t] = rec] BY DEF MarkFailure
<1> HIDE DEF base
<1>4. half \in TaskRecords /\ half.status = "failed" /\ half.rollback = task[t].rollback
  BY <1>1, <1>2 DEF TaskRecords, Failures
<1> HIDE DEF half
<1>5. rec \in TaskRecords BY <1>4 DEF TaskRecords
<1>6. rec.status = "failed" /\ rec.rollback = task[t].rollback BY <1>4 DEF TaskRecords
<1> HIDE DEF rec
<1>7. QED BY <1>3, <1>5, <1>6, MildReplacement

LEMMA MildInterruption ==
  ASSUME TaskTypes, NEW t \in Tasks, InterruptOwned(t)
  PROVE  \A u \in Tasks : Mild(u)
<1> DEFINE base == Finished(t, "interrupted")
           rec == [base EXCEPT !.attention = TRUE]
<1>1. base \in TaskRecords /\ base.status = "interrupted" BY FinishedFacts DEF Ends
<1>2. base.rollback = task[t].rollback BY DEF TaskTypes, TaskRecords, Finished
<1>3. task' = [task EXCEPT ![t] = rec] BY DEF InterruptOwned
<1> HIDE DEF base
<1>4. rec \in TaskRecords /\ rec.status = "interrupted" /\ rec.rollback = task[t].rollback
  BY <1>1, <1>2 DEF TaskRecords
<1> HIDE DEF rec
<1>5. QED BY <1>3, <1>4, MildReplacement

LEMMA MildOwner ==
  ASSUME TaskTypes, NEW t \in Tasks, NEW o \in {"none", "worker", "gone"} \cup Rollbacks,
         task' = [task EXCEPT ![t].owner = o]
  PROVE  \A u \in Tasks : Mild(u)
<1> DEFINE rec == [task[t] EXCEPT !.owner = o]
<1>1. task[t] \in TaskRecords BY DEF TaskTypes
<1>2. rec \in TaskRecords /\ rec.status = task[t].status /\ rec.rollback = task[t].rollback
  BY <1>1 DEF TaskRecords
<1>3. task' = [task EXCEPT ![t] = rec] BY DEF TaskTypes
<1> HIDE DEF rec
<1>4. QED BY <1>2, <1>3, MildReplacement

LEMMA MildSame ==
  ASSUME task' = task
  PROVE  \A u \in Tasks : Mild(u)
BY DEF Mild

LEMMA MildHalt ==
  ASSUME TaskTypes, W \in Tasks, NEW why \in Failures, RollbackOrHalt(why)
  PROVE  \A u \in Tasks : Mild(u)
<1>0. PICK t \in Tasks : t = W OBVIOUS
<1>1. task[t] \in TaskRecords BY DEF TaskTypes
<1>2. CASE task' = task BY <1>2, MildSame
<1>3. CASE Owned(t) /\ task' = [task EXCEPT ![t].rollback = "pending", ![t].failure = why]
  <2> DEFINE half == [task[t] EXCEPT !.rollback = "pending"]
             rec == [half EXCEPT !.failure = why]
  <2>1. half \in TaskRecords /\ half.status = task[t].status /\ half.rollback = "pending" BY <1>1 DEF TaskRecords
  <2>2. task' = [task EXCEPT ![t] = rec] BY <1>3 DEF TaskTypes
  <2> HIDE DEF half
  <2>3. rec \in TaskRecords /\ rec.status = half.status /\ rec.rollback = "pending"
    BY <2>1 DEF TaskRecords, Failures
  <2> HIDE DEF rec
  <2>4. QED BY <1>3, <2>1, <2>2, <2>3, MildReplacement DEF Owned
<1>4. CASE task' = [task EXCEPT ![t] = [Finished(t, "failed") EXCEPT !.rollback = "pending", !.failure = why,
                                                                     !.attention = TRUE]]
  <2> DEFINE base == Finished(t, "failed")
             rec == [base EXCEPT !.rollback = "pending", !.failure = why, !.attention = TRUE]
  <2>1. base \in TaskRecords /\ base.status = "failed" BY FinishedFacts DEF Ends
  <2>2. task' = [task EXCEPT ![t] = rec] BY <1>4
  <2> HIDE DEF base
  <2>3. rec \in TaskRecords BY <2>1 DEF TaskRecords, Failures
  <2>4. rec.status = "failed" /\ rec.rollback = "pending" BY <2>1 DEF TaskRecords
  <2> HIDE DEF rec
  <2>5. QED BY <2>2, <2>3, <2>4, MildReplacement
<1>5. QED
  BY <1>0, <1>2, <1>3, <1>4 DEF RollbackOrHalt, HaltForManualRollback, BeginAutomaticRollback, CanRecord

\* Only the end of an update and the end of its rollback claim a success.
LEMMA WorkerIsMild ==
  ASSUME Inv, WorkerStep, ~MarkSuccess, ~FinishAutomaticRollback
  PROVE  \A u \in Tasks : Mild(u)
<1>0. TaskTypes BY DEF Inv, StateTypes
<1>2. CASE Claim
  <2>1. PICK t \in Tasks :
          /\ task[t].status = "queued"
          /\ \/ task' = [task EXCEPT ![t].status = "running", ![t].owner = "worker"]
             \/ MarkFailure(t, "precheck", FALSE)
    BY <1>2 DEF Claim
  <2>2. CASE MarkFailure(t, "precheck", FALSE) BY <1>0, <2>2, MildFailure DEF Failures
  <2>3. CASE task' = [task EXCEPT ![t].status = "running", ![t].owner = "worker"]
    <3> DEFINE rec == [task[t] EXCEPT !.status = "running", !.owner = "worker"]
    <3>1. task[t] \in TaskRecords BY <1>0 DEF TaskTypes
    <3>2. rec \in TaskRecords /\ rec.status = "running" /\ rec.rollback = task[t].rollback
      BY <3>1 DEF TaskRecords
    <3>3. task' = [task EXCEPT ![t] = rec] BY <1>0, <2>3 DEF TaskTypes
    <3> HIDE DEF rec
    <3>4. QED BY <1>0, <3>2, <3>3, MildReplacement
  <2>4. QED BY <2>1, <2>2, <2>3
<1>3. ASSUME worker.pc # "idle" PROVE W \in Tasks /\ task[W] \in TaskRecords /\ task[W].comp \in Components
  BY <1>3, ActiveFacts
<1>4. CASE PrepareBackups
  <2>0. worker.pc = "backup" BY <1>4 DEF PrepareBackups, At
  <2>1. PICK t \in Tasks : t = W BY <1>3, <2>0
  <2>2. task[t] \in TaskRecords /\ task[t].comp \in Components BY <1>3, <2>0, <2>1
  <2>3. CASE /\ Owned(t)
             /\ task' = [task EXCEPT ![t].ready = TRUE, ![t].files = site.files[task[t].comp],
                                     ![t].db = IF task[t].source = NoTask THEN site.db ELSE {},
                                     ![t].source = IF task[t].source = NoTask THEN t ELSE @]
    <3> DEFINE rec == [task[t] EXCEPT !.ready = TRUE, !.files = site.files[task[t].comp],
                                      !.db = IF task[t].source = NoTask THEN site.db ELSE {},
                                      !.source = IF task[t].source = NoTask THEN t ELSE @]
    <3>1. site.files[task[t].comp] \in {"old", "partial", "new"} /\ site.db \in SUBSET Components
      BY <2>2 DEF Inv, StateTypes, SiteTypes, SiteRecords
    <3>2. rec \in TaskRecords /\ rec.status = task[t].status /\ rec.rollback = task[t].rollback
      BY <2>2, <3>1 DEF TaskRecords
    <3>3. task' = [task EXCEPT ![t] = rec] BY <1>0, <2>2, <2>3 DEF TaskTypes
    <3> HIDE DEF rec
    <3>4. QED BY <1>0, <2>3, <3>2, <3>3, MildReplacement DEF Owned
  <2>4. CASE task' = task BY <2>4, MildSame
  <2>5. CASE MarkFailure(t, "backup", FALSE) BY <1>0, <2>5, MildFailure DEF Failures
  <2>6. QED BY <1>4, <2>1, <2>3, <2>4, <2>5 DEF PrepareBackups
<1>5. CASE PrepareUpdate
  <2>1. W \in Tasks BY <1>3, <1>5 DEF PrepareUpdate, At
  <2>2. task' = task \/ MarkFailure(W, "precheck", FALSE) BY <1>5 DEF PrepareUpdate
  <2>3. QED BY <1>0, <2>1, <2>2, MildSame, MildFailure DEF Failures
<1>6. CASE FailBeforeWrite
  <2>1. W \in Tasks BY <1>3, <1>6 DEF FailBeforeWrite, At
  <2>2. task' = task \/ \E restored \in BOOLEAN : MarkFailure(W, "unlock", ~restored) BY <1>6 DEF FailBeforeWrite
  <2>3. ASSUME NEW restored \in BOOLEAN, MarkFailure(W, "unlock", ~restored) PROVE \A u \in Tasks : Mild(u)
    <3>1. PICK attention \in BOOLEAN : attention = ~restored BY Zenon
    <3>2. MarkFailure(W, "unlock", attention) BY <2>3, <3>1
    <3>3. QED BY <1>0, <2>1, <3>2, MildFailure DEF Failures
  <2>4. QED BY <2>2, <2>3, MildSame
<1>7. ASSUME NEW next, NEW s, worker.pc # "idle", Advance(next, s) PROVE \A u \in Tasks : Mild(u)
  <2>1. task' = task \/ InterruptOwned(W) BY <1>7 DEF Advance
  <2>2. QED BY <1>0, <1>3, <1>7, <2>1, MildSame, MildInterruption
<1>8. ASSUME NEW why \in Failures, worker.pc # "idle", RollbackOrHalt(why) PROVE \A u \in Tasks : Mild(u)
  BY <1>0, <1>3, <1>8, MildHalt
<1>9. CASE Unlock
  <2>1. CASE Advance("apply", [site EXCEPT !.locked = FALSE]) BY <1>7, <1>9, <2>1 DEF Unlock, At
  <2>2. CASE task' = task BY <2>2, MildSame
  <2>3. QED BY <1>9, <2>1, <2>2 DEF Unlock
<1>10. CASE Apply
  <2>1. CASE Advance("health", Written(task[W].comp, "new", TRUE)) BY <1>7, <1>10, <2>1 DEF Apply, At
  <2>2. CASE RollbackOrHalt("update") BY <1>8, <1>10, <2>2 DEF Apply, At, Failures
  <2>3. QED BY <1>10, <2>1, <2>2 DEF Apply
<1>11. CASE CheckTargetHealth
  <2>1. CASE Advance("relock", site) BY <1>7, <1>11, <2>1 DEF CheckTargetHealth, At
  <2>2. CASE RollbackOrHalt("health") BY <1>8, <1>11, <2>2 DEF CheckTargetHealth, At, Failures
  <2>3. QED BY <1>11, <2>1, <2>2 DEF CheckTargetHealth
<1>12. CASE RestoreFileLock
  <2>1. CASE task' = task BY <2>1, MildSame
  <2>2. CASE RollbackOrHalt("lock") BY <1>8, <1>12, <2>2 DEF RestoreFileLock, At, Failures
  <2>3. QED BY <1>12, <2>1, <2>2 DEF RestoreFileLock
<1>13. CASE StartApply \/ AutomaticRollback BY <1>13, MildSame DEF StartApply, AutomaticRollback
<1>14. CASE SupervisionUncertain \/ InterruptIfOwned
  <2>1. worker.pc # "idle" /\ (task' = task \/ InterruptOwned(W))
    BY <1>14 DEF SupervisionUncertain, InterruptIfOwned, At
  <2>2. QED BY <1>0, <1>3, <2>1, MildSame, MildInterruption
<1>15. QED BY <1>2, <1>4, <1>5, <1>6, <1>9, <1>10, <1>11, <1>12, <1>13, <1>14 DEF WorkerStep

LEMMA PlansAreMild ==
  ASSUME Inv, Download \/ ConfirmForBatch \/ DownloadForBatch \/ \E c \in Singles : Confirm(c)
  PROVE  \A u \in Tasks : Mild(u)
<1>0. TaskTypes BY DEF Inv, StateTypes
<1>1. ASSUME NEW t \in Tasks, task[t].status = "preparing", SealPlan(t) \/ FailPreparingPlan(t)
      PROVE  \A u \in Tasks : Mild(u)
  <2>0. task[t] \in TaskRecords BY <1>0 DEF TaskTypes
  <2>1. PICK rec \in TaskRecords : /\ task' = [task EXCEPT ![t] = rec]
                                  /\ rec.status # "success" /\ rec.rollback = task[t].rollback
    <3>1. CASE SealPlan(t)
      <4> DEFINE sealed == [task[t] EXCEPT !.status = "queued"]
      <4>1. sealed \in TaskRecords /\ sealed.status = "queued" /\ sealed.rollback = task[t].rollback
        BY <2>0 DEF TaskRecords
      <4>2. task' = [task EXCEPT ![t] = sealed] BY <1>0, <3>1 DEF SealPlan, TaskTypes
      <4> HIDE DEF sealed
      <4>3. QED BY <4>1, <4>2
    <3>2. CASE FailPreparingPlan(t)
      <4> DEFINE failed == [task[t] EXCEPT !.status = "failed", !.failure = "package"]
      <4>1. failed \in TaskRecords /\ failed.status = "failed" /\ failed.rollback = task[t].rollback
        BY <2>0 DEF TaskRecords
      <4>2. task' = [task EXCEPT ![t] = failed] BY <1>0, <3>2 DEF FailPreparingPlan, TaskTypes
      <4> HIDE DEF failed
      <4>3. QED BY <4>1, <4>2
    <3>3. QED BY <1>1, <3>1, <3>2
  <2>2. QED BY <1>0, <2>1, MildReplacement
<1>2. ASSUME NEW t \in Tasks, NEW c \in Components, NEW b \in BOOLEAN, NEW source \in {NoTask} \cup Tasks,
             CreatePlan(t, c, b, source)
      PROVE  \A u \in Tasks : Mild(u)
  <2> DEFINE plan == [Absent EXCEPT !.status = "preparing", !.comp = c, !.batch = b, !.source = source]
  <2>1. plan \in TaskRecords /\ plan.status = "preparing" BY DEF Absent, TaskRecords
  <2>2. plan.rollback = "not_required" BY DEF Absent
  <2>3. task' = [task EXCEPT ![t] = plan] BY <1>2 DEF CreatePlan
  <2> HIDE DEF plan
  <2>4. QED BY <1>0, <2>1, <2>2, <2>3, MildReplacement
<1>3. CASE Download
  BY <1>1, <1>3 DEF Download, Inv, StateTypes, RunTypes, PlanInv
<1>4. CASE DownloadForBatch
  BY <1>1, <1>4 DEF DownloadForBatch, Inv, PlanInv, ExistingTasks
<1>5. CASE ConfirmForBatch
  <2>1. Unused # {} /\ (task' = task \/ CreatePlan(NextId, batcher.key, TRUE, batch'.source))
    BY <1>5 DEF ConfirmForBatch
  <2>2. NextId \in Tasks BY <2>1, NextIdFacts
  <2>3. batcher.key \in Components BY DEF Inv, StateTypes, BatchTypes, BatcherRecords, Components
  <2>4. EnsureBatchDatabaseBackupSource \in {NoTask} \cup Tasks BY SourceFacts DEF Inv, StateTypes
  <2>5. batch'.source = EnsureBatchDatabaseBackupSource
    BY <1>5 DEF Inv, StateTypes, BatchTypes, BatchRecords, ConfirmForBatch
  <2>6. QED BY <1>2, <2>1, <2>2, <2>3, <2>4, <2>5, MildSame
<1>6. ASSUME NEW c \in Singles, Confirm(c) PROVE \A u \in Tasks : Mild(u)
  <2>1. NextId \in Tasks /\ \E source \in {NoTask} \cup Tasks : CreatePlan(NextId, c, FALSE, source)
    BY <1>6, NextIdFacts DEF Confirm, BackupChoices
  <2>2. c \in Components BY BatchAssumption
  <2>3. QED BY <1>2, <2>1, <2>2
<1>7. QED BY <1>3, <1>4, <1>5, <1>6

LEMMA RequestsAreMild ==
  ASSUME Inv, SiteInv, NEW r \in Rollbacks, BeginManualRollback(r) \/ RollbackRequest(r) \/ ClaimExpires(r)
  PROVE  \A u \in Tasks : Mild(u)
<1>0. TaskTypes BY DEF Inv, StateTypes
<1>1. CASE BeginManualRollback(r)
  <2>1. PICK t \in Tasks : Decidable(t) /\ task' = [task EXCEPT ![t].owner = r] BY <1>1 DEF BeginManualRollback
  <2>2. QED BY <1>0, <2>1, MildOwner DEF Decidable
<1>2. ASSUME roller[r].pc # "idle" PROVE roller[r].task \in Tasks /\ task[roller[r].task].status = "failed"
  BY <1>2, RollerFacts
<1>3. CASE PrepareManualRollback(r)
  <2>1. task' = task \/ (task' = [task EXCEPT ![roller[r].task].owner = "none"] /\ roller[r].pc # "idle")
    BY <1>3 DEF PrepareManualRollback
  <2>2. QED BY <1>0, <1>2, <2>1, MildSame, MildOwner
<1>4. CASE ClaimExpires(r)
  <2>1. task' = [task EXCEPT ![roller[r].task].owner = "gone"] /\ roller[r].pc # "idle" BY <1>4 DEF ClaimExpires
  <2>2. QED BY <1>0, <1>2, <2>1, MildOwner
<1>5. CASE ManualRollback(r) BY <1>5, MildSame DEF ManualRollback
<1>6. CASE FinishManualRollback(r)
  <2>1. roller[r].pc # "idle" BY <1>6 DEF FinishManualRollback
  <2>2. PICK t \in Tasks : t = roller[r].task /\ task[t].status = "failed" BY <1>2, <2>1
  <2>3. /\ \A u \in Tasks \ {t} : task'[u] = task[u]
        /\ task'[t].status = task[t].status
        /\ task'[t] = task[t] \/ task'[t].rollback = "failed"
    BY <1>6, <2>2, FinishManualEffect
  <2>4. QED BY <2>2, <2>3 DEF Mild
<1>7. QED BY <1>1, <1>3, <1>4, <1>5, <1>6 DEF RollbackRequest

LEMMA OthersAreMild ==
  ASSUME Inv, Ignore \/ RecoverExpired \/ Restart
  PROVE  \A u \in Tasks : Mild(u)
<1>0. TaskTypes BY DEF Inv, StateTypes
<1>1. CASE Ignore
  <2>1. PICK t \in Tasks : DisposeFailedTaskIgnored(t) \/ DisposeInterrupted(t) BY <1>1 DEF Ignore
  <2>2. task[t] \in TaskRecords BY <1>0 DEF TaskTypes
  <2>3. CASE DisposeFailedTaskIgnored(t)
    <3> DEFINE chosen == [task[t] EXCEPT !.disposition = "ignored"]
               rec == [chosen EXCEPT !.attention = FALSE]
    <3>1. chosen \in TaskRecords /\ chosen.status = task[t].status /\ chosen.rollback = task[t].rollback
      BY <2>2 DEF TaskRecords
    <3>2. task' = [task EXCEPT ![t] = rec] BY <1>0, <2>3 DEF DisposeFailedTaskIgnored, TaskTypes
    <3> HIDE DEF chosen
    <3>3. rec \in TaskRecords BY <3>1 DEF TaskRecords
    <3>4. rec.status = task[t].status /\ rec.rollback = task[t].rollback BY <3>1 DEF TaskRecords
    <3> HIDE DEF rec
    <3>5. QED BY <1>0, <2>3, <3>2, <3>3, <3>4, MildReplacement DEF DisposeFailedTaskIgnored, Decidable
  <2>4. CASE DisposeInterrupted(t)
    <3> DEFINE rec == [task[t] EXCEPT !.disposition = "escalated"]
    <3>1. rec \in TaskRecords /\ rec.status = task[t].status /\ rec.rollback = task[t].rollback
      BY <2>2 DEF TaskRecords
    <3>2. task' = [task EXCEPT ![t] = rec] BY <1>0, <2>4 DEF DisposeInterrupted, TaskTypes
    <3> HIDE DEF rec
    <3>3. QED BY <1>0, <2>4, <3>1, <3>2, MildReplacement DEF DisposeInterrupted, Undisposed
  <2>5. QED BY <2>1, <2>3, <2>4
<1>2. CASE RecoverExpired
  <2>1. PICK t \in Tasks : InterruptOwned(t) BY <1>2 DEF RecoverExpired
  <2>2. QED BY <1>0, <2>1, MildInterruption
<1>3. CASE Restart
  <2>1. SUFFICES ASSUME NEW t \in Tasks, task'[t] # task[t] PROVE Mild(t) BY DEF Mild
  <2>2. task[t] \in TaskRecords BY <1>0 DEF TaskTypes
  <2>3. CASE Recoverable(t)
    <3> DEFINE base == Finished(t, "interrupted")
    <3>1. task'[t] = [base EXCEPT !.attention = TRUE] BY <1>3, <2>3 DEF Restart
    <3>2. base \in TaskRecords /\ base.status = "interrupted" BY <1>0, FinishedFacts DEF Ends
    <3>3. base.rollback = task[t].rollback BY <2>2 DEF TaskRecords, Finished
    <3> HIDE DEF base
    <3>4. QED BY <3>1, <3>2, <3>3 DEF TaskRecords, Mild
  <2>4. CASE ~Recoverable(t)
    <3>1. task[t].owner # "none" /\ task'[t] = [task[t] EXCEPT !.owner = "gone"]
      BY <1>3, <2>1, <2>4 DEF Restart
    <3>2. task'[t].status = task[t].status /\ task'[t].rollback = task[t].rollback
      BY <2>2, <3>1 DEF TaskRecords
    <3>3. QED BY <3>2 DEF Mild
  <2>5. QED BY <2>3, <2>4
<1>4. QED BY <1>1, <1>2, <1>3

\* The two steps that claim a success find the site as the task says: while the worker
\* is alone, nobody has written since its steps.
LEMMA MarkSuccessIsTrue ==
  ASSUME Inv, SiteInv, alone, MarkSuccess
  PROVE  \A u \in Tasks : OutcomeOf(u)
<1>0. TaskTypes /\ worker.pc = "finish" /\ Exclusive /\ UNCHANGED site
  BY DEF Inv, StateTypes, MarkSuccess, At, Exclusive, Working
<1>1. PICK t \in Tasks : t = W BY <1>0, WorkingFacts DEF Exclusive
<1>2. CASE task' = task BY <1>2, MildSame, MildOutcome
<1>3. CASE task' = [task EXCEPT ![t] = Finished(t, "success")]
  <2> DEFINE rec == Finished(t, "success")
  <2>1. rec \in TaskRecords BY <1>0, FinishedFacts DEF Ends
  <2>2. rec.rollback = task[t].rollback BY <1>0 DEF TaskTypes, TaskRecords, Finished
  <2>3. task' = [task EXCEPT ![t] = rec] BY <1>3
  <2> HIDE DEF rec
  <2>4. task'[t] = rec /\ \A u \in Tasks \ {t} : task'[u] = task[u]
    BY <1>0, <2>1, <2>3, ReplaceFacts
  <2>5. site.files[task[t].comp] = "new" /\ site.locked BY <1>0, <1>1 DEF SiteInv, StageInv
  <2>6. OutcomeOf(t) BY <1>0, <2>2, <2>4, <2>5 DEF OutcomeOf, RolledBack
  <2>7. \A u \in Tasks \ {t} : OutcomeOf(u) BY <2>4, MildOutcome DEF Mild
  <2>8. QED BY <2>6, <2>7
<1>4. QED BY <1>1, <1>2, <1>3 DEF MarkSuccess

LEMMA RollbackIsTrue ==
  ASSUME Inv, SiteInv, alone, FinishAutomaticRollback
  PROVE  \A u \in Tasks : OutcomeOf(u)
<1>0. worker.pc = "roll_finish" /\ Exclusive /\ UNCHANGED site
  BY DEF FinishAutomaticRollback, At, Exclusive, Working
<1>1. PICK t \in Tasks : t = W BY <1>0, WorkingFacts DEF Exclusive
<1>2. /\ \A u \in Tasks \ {t} : task'[u] = task[u]
      /\ \/ task'[t] = task[t]
         \/ task'[t].status = "failed" /\ task'[t].attention /\ task'[t].rollback = "failed"
         \/ ~worker.bad /\ Owned(t) /\ task'[t].status = "failed"
  BY <1>1, FinishEffect
<1>3. \A u \in Tasks \ {t} : OutcomeOf(u) BY <1>2, MildOutcome DEF Mild
<1>4. OutcomeOf(t)
  <2>1. CASE task'[t] = task[t] \/ (task'[t].status = "failed" /\ task'[t].rollback = "failed")
    BY <2>1, MildOutcome DEF Mild
  <2>2. CASE ~worker.bad /\ task'[t].status = "failed"
    <3>1. /\ site.files[task[t].comp] = task[t].files /\ (task[t].source = t => site.db = task[t].db)
          /\ site.locked /\ ~site.maintenance
      BY <1>0, <1>1, <2>2 DEF SiteInv, StageInv, Behind
    <3>2. QED BY <1>0, <2>2, <3>1 DEF OutcomeOf, Succeeds
  <2>3. QED BY <1>2, <2>1, <2>2
<1>5. QED BY <1>3, <1>4

LEMMA NextIsTrue == alone /\ Inv /\ SiteInv /\ [Next]_vars => \A t \in Tasks : OutcomeOf(t)
<1> SUFFICES ASSUME alone, Inv, SiteInv, [Next]_vars PROVE \A t \in Tasks : OutcomeOf(t) OBVIOUS
<1>1. CASE \A u \in Tasks : Mild(u) BY <1>1, MildOutcome
<1>2. CASE MarkSuccess \/ FinishAutomaticRollback BY <1>2, MarkSuccessIsTrue, RollbackIsTrue
<1>3. CASE WorkerStep BY <1>1, <1>2, <1>3, WorkerIsMild
<1>4. CASE Download \/ ConfirmForBatch \/ DownloadForBatch \/ \E c \in Singles : Confirm(c)
  BY <1>1, <1>4, PlansAreMild
<1>5. CASE \E r \in Rollbacks : BeginManualRollback(r) \/ RollbackRequest(r) \/ ClaimExpires(r)
  BY <1>1, <1>5, RequestsAreMild
<1>6. CASE Ignore \/ RecoverExpired \/ Restart BY <1>1, <1>6, OthersAreMild
<1>7. CASE task' = task BY <1>1, <1>7, MildSame
<1>8. BatchStep => ConfirmForBatch \/ DownloadForBatch \/ task' = task
  BY DEF BatchStep, CompleteBatchIfExhausted, AdoptExistingTask, StartDispatch, PreviewFails,
         MarkBatchItemDispatched
<1>9. CreatePluginBatch \/ UnitEndsAlone \/ HeartbeatFails \/ UNCHANGED vars => task' = task
  BY DEF CreatePluginBatch, UnitEndsAlone, HeartbeatFails, vars
<1>10. QED BY <1>3, <1>4, <1>5, <1>6, <1>7, <1>8, <1>9 DEF Next

\* What a task says of the site is so, unless a unit or a request was at the site when the
\* worker claimed it or a request has come since: a success left the new version and the
\* files locked; a rollback that succeeded left the files of before, in service and locked,
\* and the database of before if the task had made a backup of it.
THEOREM OutcomesAreTrue == Spec => OutcomeIsTrue
<1>1. Inv /\ SiteInv /\ [Next]_vars => (alone => \A t \in Tasks : OutcomeOf(t)) BY NextIsTrue
<1>2. (alone => \A t \in Tasks : OutcomeOf(t)) =>
        (alone => \A t \in Tasks :
          /\ Succeeds(t) => site'.files[task[t].comp] = "new" /\ site'.locked
          /\ RolledBack(t) => /\ site'.files[task[t].comp] = task[t].files
                             /\ (task[t].source = t => site'.db = task[t].db)
                             /\ site'.locked /\ ~site'.maintenance)
  BY DEF OutcomeOf
<1>3. QED BY <1>1, <1>2, SiteInvariant, PTL DEF Spec, OutcomeIsTrue
=============================================================================
