----------------------------- MODULE Maintenance -----------------------------
(***************************************************************************)
(* The temporary maintenance window of one WordPress site                  *)
(* (executor/maintenance.go) with the site operation lock it shares with   *)
(* every other writer (executor/site_lock.go) and the permanent file lock  *)
(* (executeSetFileLock in executor/site_permissions.go).                   *)
(*                                                                         *)
(* A window unlocks the site's files for a while.  The database row says   *)
(* what is intended, the file system what is the case, and the panel may   *)
(* fail to write either, or stop, between any two steps.  One step here is *)
(* one database statement, one pass over the file system, or the run of    *)
(* code between two of them.                                               *)
(*                                                                         *)
(* A WordPress update is a durable task made under the slot and run later  *)
(* without it: its executor opens and locks the files of the whole site    *)
(* too, and never tells the row (wp_plugin_update_executor.go,             *)
(* wp_core_update_executor.go).                                            *)
(*                                                                         *)
(* What password verification remembers is in MaintenancePassword; here it *)
(* accepts, refuses (which changes nothing modelled here) or cannot save.  *)
(***************************************************************************)
EXTENDS Naturals, FiniteSets

CONSTANTS
  Requests,        \* request ids: of Unlock, where they name the window, and of Extend
  NoRequest,
  Roots,           \* the web roots a change of the main domain may give the site
  Span,            \* state.Minutes, the length of a window
  ExtendSpans,     \* the lengths Extend accepts
  VerifySpan,      \* how long one verification of the password lasts (1800 s)
  RetryDelay,      \* pause after a failed relock (60 s)
  MaxTime,         \* bound: the last instant
  MaxFaults,       \* bound: database and file system failures, mishaps included
  MaxMishaps       \* bound: crashes, lost leases, rollbacks of a migration, moves of the root

ASSUME MaintenanceAssumption ==
  /\ NoRequest \notin Requests
  /\ Roots # {}
  /\ Span \in Nat \ {0}
  /\ ExtendSpans \subseteq Nat \ {0}
  /\ VerifySpan \in Nat \ {0}
  /\ Span <= VerifySpan
  /\ \A k \in ExtendSpans : k <= VerifySpan
  /\ RetryDelay \in Nat \ {0}
  /\ MaxTime \in Nat
  /\ MaxFaults \in Nat
  /\ MaxMishaps \in Nat

VARIABLES
  now,
  window,       \* database: maintenance_security.window
  closed,       \* database: maintenance_security.closed, the last window closed
  lockEnabled,  \* database: websites.file_lock_enabled
  applyStatus,  \* database: websites.file_lock_apply_status, "unset" when empty
  root,         \* database: websites.web_root
  claim,        \* database: the durable claim of another writer, see Claims
  work,         \* memory: the next step of the executor of a WordPress update
  fs,           \* the permissions of the site's files
  uncertain,    \* memory: MaintenanceManager.uncertain
  retry,        \* memory: MaintenanceManager.retry
  alerted,      \* memory: MaintenanceManager.alerted
  restarting,   \* memory: MaintenanceManager.restarting
  holder,       \* memory: wpSiteOpBusy, who has the site operation lock
  pc,           \* the next step of the operation that has it
  mem,          \* that operation's copy of the window
  began,        \* when the Unlock in progress took its time stamp
  stale,        \* the row is no longer what the operation last read or wrote (raw)
  absorb,       \* relockOwned's absorbIntegrityChanges
  target,       \* executeSetFileLock's payload.Enabled
  crossed,      \* an update's pass over the files ended during the operation's own pass
  disturbed,    \* history: a failure or a crash since the window was opened
  astray,       \* history: an update's pass left the files out of step with the row
  alerts,       \* history: relock_failed alerts of this window by this process
  faults, mishaps

dbVars     == <<window, closed, lockEnabled, applyStatus, root, claim>>
memoryVars == <<uncertain, retry, alerted, restarting>>
opVars     == <<holder, pc, mem, began, stale, absorb, target, crossed>>
histVars   == <<disturbed, alerts, astray>>
bounds     == <<faults, mishaps>>
vars == <<now, dbVars, fs, work, memoryVars, opVars, histVars, bounds>>

WindowStates == {"none", "unlocking", "unlocked", "relocking", "relock_failed", "unknown"}
Failures     == {"none", "permissions", "verification", "state_commit", "unlock_not_committed"}
\* What conflicts counts, one claim at a time: what is taken under the slot ("taken":
\* an AI grant, a reservation, an image job, an update task that is not done) and the
\* rollback of the migration that has brought the site.
Claims == {"none", "taken", "rollback"}

NoWindow == [id |-> NoRequest, state |-> "none", expires |-> 0, verified |-> 0,
             last |-> NoRequest, retryAt |-> 0, alerted |-> FALSE, failure |-> "none",
             reason |-> "none", root |-> CHOOSE r \in Roots : TRUE]

Windows == [id : Requests \cup {NoRequest}, state : WindowStates, expires : Nat,
            verified : Nat, last : Requests \cup {NoRequest}, retryAt : Nat,
            alerted : BOOLEAN, failure : Failures, reason : {"none", "restart"}, root : Roots]

\* Mutants: the stage that failed is not recorded; a restart only expires the window.
FailedNoStage(w, stage, time) == [w EXCEPT !.state = "relock_failed", !.retryAt = time,
                                           !.failure = "relock_failed", !.alerted = TRUE]
RestartedExpired(w) == [w EXCEPT !.state = "unlocked", !.reason = "restart", !.expires = 0]

\* The record after a failed relock or compensation, and after a restart of the panel.
Failed(w, stage, time) == [w EXCEPT !.state = "relock_failed", !.retryAt = time,
                                    !.failure = stage, !.alerted = TRUE]
Restarted(w) == [w EXCEPT !.state = "relocking", !.reason = "restart", !.retryAt = 0]

HasWindow == window.state # "none"
IsUncertain == restarting \/ uncertain

\* A retry time, at most the end of the modelled time: the bound delays nothing for ever.
RetryAt == IF now + RetryDelay <= MaxTime THEN now + RetryDelay ELSE MaxTime

Fault  == faults + mishaps < MaxFaults /\ faults' = faults + 1
Mishap == mishaps < MaxMishaps /\ mishaps' = mishaps + 1
\* m.save compares the row with what the operation read: a stale one is not written.
SaveOK   == ~stale /\ UNCHANGED faults
SaveFail == IF stale THEN UNCHANGED faults ELSE Fault

\* The deferred ReleaseSiteOpLock; the operation's locals are gone with it.
Release == /\ holder' = "none" /\ pc' = "idle" /\ mem' = NoWindow /\ began' = 0
           /\ stale' = FALSE /\ absorb' = FALSE /\ target' = FALSE /\ crossed' = FALSE
GoTo(step) == pc' = step /\ crossed' = FALSE /\ UNCHANGED <<holder, began, stale, absorb, target>>

\* The control points at which an operation, and an update, pass over the files.
Passes  == {"unlockFs", "lockFs", "compLock", "setFs"}
Sweeps  == {"relock"}

\* Two passes that meet may leave some files to each; one that fails has changed
\* some of the files, or none, and leaves alone what is as it wants it.
Met         == crossed \/ work \in Sweeps
Pass(goal)  == /\ fs' \in IF Met THEN {goal, "partial"} ELSE {goal}
               /\ astray' = Met
PassFails(goal) == Fault /\ fs' \in IF fs = goal THEN {goal} ELSE {fs, "partial"}

-----------------------------------------------------------------------------
Init ==
  /\ now = 0
  /\ window = NoWindow
  /\ closed = NoRequest
  /\ lockEnabled \in BOOLEAN
  /\ applyStatus = IF lockEnabled THEN "ready" ELSE "unset"
  /\ root = NoWindow.root
  /\ claim = "none" /\ work = "idle"
  /\ fs = IF lockEnabled THEN "locked" ELSE "open"
  /\ uncertain = FALSE /\ retry = 0 /\ alerted = FALSE /\ restarting = FALSE
  /\ holder = "none" /\ pc = "idle" /\ mem = NoWindow /\ began = 0
  /\ stale = FALSE /\ absorb = FALSE /\ target = FALSE /\ crossed = FALSE
  /\ disturbed = FALSE /\ alerts = 0 /\ astray = FALSE
  /\ faults = 0 /\ mishaps = 0

-----------------------------------------------------------------------------
(* Unlock *)

\* Mutant: the durable claims are not looked at (conflicts).
UnlockBeginNoConflicts(r) ==
  /\ holder = "none" /\ ~IsUncertain
  /\ ~HasWindow /\ closed # r
  /\ lockEnabled /\ applyStatus = "ready"
  /\ now + Span <= MaxTime
  /\ holder' = "maintenance" /\ pc' = "saveIntent" /\ stale' = FALSE
  /\ began' = now
  /\ mem' = [NoWindow EXCEPT !.id = r, !.state = "unlocking",
                             !.verified = now + VerifySpan, !.root = root]
  /\ UNCHANGED <<now, dbVars, fs, work, memoryVars, absorb, target, crossed, histVars, bounds>>

\* tryAcquireMaintenanceOp, load, the guards and the password; then the time stamp.
UnlockBegin(r) ==
  /\ holder = "none" /\ ~IsUncertain
  /\ ~HasWindow /\ closed # r
  /\ lockEnabled /\ applyStatus = "ready"
  /\ claim = "none"
  /\ now + Span <= MaxTime
  /\ holder' = "maintenance" /\ pc' = "saveIntent" /\ stale' = FALSE
  /\ began' = now
  /\ mem' = [NoWindow EXCEPT !.id = r, !.state = "unlocking",
                             !.verified = now + VerifySpan, !.root = root]
  /\ UNCHANGED <<now, dbVars, fs, work, memoryVars, absorb, target, crossed, histVars, bounds>>

\* A wrong password that cannot be recorded latches the site (from Unlock or Extend).
PasswordUnsaved ==
  /\ holder = "none" /\ ~IsUncertain
  /\ IF HasWindow THEN window.state = "unlocked" /\ window.expires > now
                  ELSE lockEnabled /\ applyStatus = "ready" /\ claim = "none"
  /\ Fault
  /\ uncertain' = TRUE
  /\ disturbed' = HasWindow
  /\ UNCHANGED <<now, dbVars, fs, work, retry, alerted, restarting, opVars, alerts, astray,
                 mishaps>>

\* Mutant: the intention is saved without marking the file lock as being applied.
SaveIntentKeepsReady ==
  /\ pc = "saveIntent"
  /\ \/ /\ SaveOK
        /\ window' = mem
        /\ disturbed' = FALSE /\ alerts' = 0 /\ UNCHANGED astray
        /\ GoTo("unlockFs") /\ UNCHANGED <<mem, uncertain, applyStatus>>
     \/ /\ SaveFail
        /\ uncertain' = TRUE
        /\ Release /\ UNCHANGED <<window, applyStatus, histVars>>
  /\ UNCHANGED <<now, closed, lockEnabled, root, claim, fs, work, retry, alerted, restarting, mishaps>>

SaveIntent ==
  /\ pc = "saveIntent"
  /\ \/ /\ SaveOK
        /\ window' = mem /\ applyStatus' = "applying"
        /\ disturbed' = FALSE /\ alerts' = 0 /\ UNCHANGED astray
        /\ GoTo("unlockFs") /\ UNCHANGED <<mem, uncertain>>
     \/ /\ SaveFail
        /\ uncertain' = TRUE
        /\ Release /\ UNCHANGED <<window, applyStatus, histVars>>
  /\ UNCHANGED <<now, closed, lockEnabled, root, claim, fs, work, retry, alerted, restarting, mishaps>>

UnlockFs ==
  /\ pc = "unlockFs"
  /\ \/ /\ Pass("open")
        /\ GoTo("saveUnlocked") /\ UNCHANGED <<uncertain, disturbed, faults>>
     \/ /\ PassFails("open")
        /\ uncertain' = TRUE /\ disturbed' = TRUE
        /\ GoTo("compLock") /\ UNCHANGED astray
  /\ UNCHANGED <<now, dbVars, work, retry, alerted, restarting, mem, alerts, mishaps>>

SaveUnlocked ==
  /\ pc = "saveUnlocked"
  /\ mem' = [mem EXCEPT !.state = "unlocked", !.expires = began + Span]
  /\ \/ /\ SaveOK
        /\ window' = mem' /\ lockEnabled' = FALSE /\ applyStatus' = "unset"
        /\ GoTo("unlockDone") /\ UNCHANGED <<uncertain, disturbed>>
     \/ /\ SaveFail
        /\ uncertain' = TRUE /\ disturbed' = TRUE
        /\ GoTo("compLock") /\ UNCHANGED <<window, lockEnabled, applyStatus>>
  /\ UNCHANGED <<now, closed, root, claim, fs, work, retry, alerted, restarting, alerts, astray,
                 mishaps>>

-----------------------------------------------------------------------------
(* relockOwned, entered by Relock, by Tick and by an Unlock that took too long *)

\* Mutant: an uncertain site absorbs changes too.
RelockOwnedAbsorbs(w) ==
  IF w.retryAt > now \/ retry > now
  THEN Release /\ UNCHANGED uncertain
  ELSE IF root # w.root
  THEN Release /\ uncertain' = TRUE
  ELSE /\ holder' = "maintenance" /\ pc' = "saveRelocking"
       /\ mem' = [w EXCEPT !.state = "relocking"]
       /\ absorb' = (w.reason = "none" /\ w.failure = "none" /\ w.state = "unlocked")
       /\ UNCHANGED <<uncertain, began, stale, target, crossed>>

\* Up to its first save.  w is the caller's copy of the window; a window that may
\* not be retried yet, or whose site has moved, is left alone.
RelockOwned(w) ==
  IF w.retryAt > now \/ retry > now
  THEN Release /\ UNCHANGED uncertain
  ELSE IF root # w.root
  THEN Release /\ uncertain' = TRUE
  ELSE /\ holder' = "maintenance" /\ pc' = "saveRelocking"
       /\ mem' = [w EXCEPT !.state = "relocking"]
       /\ absorb' = (~IsUncertain /\ w.reason = "none" /\ w.failure = "none" /\ w.state = "unlocked")
       /\ UNCHANGED <<uncertain, began, stale, target, crossed>>

\* Unlock answers, unless its window has expired meanwhile.
UnlockDone ==
  /\ pc = "unlockDone"
  /\ IF mem.expires <= now
     THEN RelockOwned(mem)
     ELSE Release /\ UNCHANGED uncertain
  /\ UNCHANGED <<now, dbVars, fs, work, retry, alerted, restarting, histVars, bounds>>

Relock ==
  /\ holder = "none" /\ HasWindow
  /\ RelockOwned(window)
  /\ UNCHANGED <<now, dbVars, fs, work, retry, alerted, restarting, histVars, bounds>>

SaveRelocking ==
  /\ pc = "saveRelocking"
  /\ \/ /\ SaveOK
        /\ window' = mem /\ applyStatus' = "applying"
        /\ GoTo("lockFs") /\ UNCHANGED <<mem, uncertain, disturbed>>
     \/ /\ SaveFail
        /\ uncertain' = TRUE /\ disturbed' = TRUE
        /\ Release /\ UNCHANGED <<window, applyStatus>>
  /\ UNCHANGED <<now, closed, lockEnabled, root, claim, fs, work, retry, alerted, restarting,
                 alerts, astray, mishaps>>

\* The tail of relockOwned when a stage failed: memory first, then the row.
RelockFailed(stage) ==
  /\ uncertain' = TRUE /\ disturbed' = TRUE
  /\ retry' = RetryAt
  /\ alerts' = IF mem.alerted \/ alerted THEN alerts ELSE alerts + 1
  /\ alerted' = TRUE
  /\ mem' = Failed(mem, stage, RetryAt)
  /\ GoTo("saveFailed")
  /\ UNCHANGED restarting

LockFs ==
  /\ pc = "lockFs"
  /\ \/ /\ Pass("locked")
        /\ GoTo("verifyFs")
        /\ UNCHANGED <<memoryVars, mem, disturbed, alerts, faults>>
     \/ /\ PassFails("locked")
        /\ RelockFailed("permissions") /\ UNCHANGED astray
  /\ UNCHANGED <<now, dbVars, work, mishaps>>

\* Files that are not locked, or that cannot be looked at, fail the verification.
Unverified == IF fs = "locked" THEN Fault ELSE UNCHANGED faults

VerifyFs ==
  /\ pc = "verifyFs"
  /\ \/ /\ fs = "locked"
        /\ GoTo("commitLocked")
        /\ UNCHANGED <<memoryVars, mem, histVars, faults>>
     \/ /\ Unverified
        /\ RelockFailed("verification") /\ UNCHANGED astray
  /\ UNCHANGED <<now, dbVars, fs, work, mishaps>>

\* save(..., "locked") closes the window; then the latches are cleared and the
\* integrity baseline is refreshed, absorbing changes only when absorb says so.
CommitLocked ==
  /\ pc = "commitLocked"
  /\ \/ /\ SaveOK
        /\ window' = NoWindow /\ closed' = mem.id
        /\ lockEnabled' = TRUE /\ applyStatus' = "ready"
        /\ uncertain' = FALSE /\ retry' = 0 /\ alerted' = FALSE
        /\ Release /\ disturbed' = FALSE /\ alerts' = 0 /\ UNCHANGED <<restarting, astray>>
     \/ /\ SaveFail
        /\ RelockFailed("state_commit")
        /\ UNCHANGED <<astray, window, closed, lockEnabled, applyStatus>>
  /\ UNCHANGED <<now, root, claim, fs, work, mishaps>>

\* The last save of a failed relock or of a compensation: its own failure is ignored.
SaveFailed ==
  /\ pc = "saveFailed"
  /\ \/ SaveOK /\ window' = mem /\ applyStatus' = "failed"
     \/ SaveFail /\ UNCHANGED <<window, applyStatus>>
  /\ Release
  /\ UNCHANGED <<now, closed, lockEnabled, root, claim, fs, work, memoryVars, histVars, mishaps>>

-----------------------------------------------------------------------------
(* compensateUnlock, which Unlock enters holding the lock and already uncertain *)

CompensationFailed(stage) ==
  /\ retry' = RetryAt /\ alerted' = TRUE
  /\ alerts' = alerts + 1
  /\ mem' = Failed(mem, stage, RetryAt)
  /\ GoTo("saveFailed")

CompensateLock ==
  /\ pc = "compLock"
  /\ \/ /\ Pass("locked")
        /\ GoTo("compVerify")
        /\ UNCHANGED <<mem, retry, alerted, alerts, faults>>
     \/ /\ PassFails("locked")
        /\ CompensationFailed("permissions") /\ UNCHANGED astray
  /\ UNCHANGED <<now, dbVars, work, uncertain, restarting, disturbed, mishaps>>

CompensateVerify ==
  /\ pc = "compVerify"
  /\ \/ /\ fs = "locked"
        /\ mem' = [mem EXCEPT !.state = "unknown", !.failure = "unlock_not_committed"]
        /\ GoTo("saveFailed")
        /\ UNCHANGED <<retry, alerted, alerts, faults>>
     \/ /\ Unverified
        /\ CompensationFailed("verification")
  /\ UNCHANGED <<now, dbVars, fs, work, uncertain, restarting, disturbed, astray, mishaps>>

-----------------------------------------------------------------------------
(* Extend *)

\* Mutant: an extension past what is verified asks for no password.
ExtendBeginUnverified(r, k) ==
  LET expires == window.expires + k
  IN  /\ holder = "none" /\ ~IsUncertain
      /\ window.state = "unlocked" /\ window.expires > now
      /\ window.last # r
      /\ expires <= MaxTime
      /\ holder' = "maintenance" /\ pc' = "extendCheck" /\ stale' = FALSE
      /\ mem' = [window EXCEPT !.expires = expires, !.last = r]
      /\ UNCHANGED <<now, dbVars, fs, work, memoryVars, began, absorb, target, crossed, histVars, bounds>>

\* The guards, and the password once the extension passes what is verified.
ExtendBegin(r, k) ==
  LET expires == window.expires + k
  IN  /\ holder = "none" /\ ~IsUncertain
      /\ window.state = "unlocked" /\ window.expires > now
      /\ window.last # r
      /\ expires <= MaxTime
      /\ holder' = "maintenance" /\ pc' = "extendCheck" /\ stale' = FALSE
      /\ mem' = [window EXCEPT
                   !.expires = expires, !.last = r,
                   !.verified = IF expires > @ THEN @ + VerifySpan ELSE @]
      /\ UNCHANGED <<now, dbVars, fs, work, memoryVars, began, absorb, target, crossed, histVars, bounds>>

\* The window may have expired while the password was hashed.
ExtendCheck ==
  /\ pc = "extendCheck"
  /\ IF window.expires <= now THEN Release ELSE GoTo("saveExtend") /\ UNCHANGED mem
  /\ UNCHANGED <<now, dbVars, fs, work, memoryVars, histVars, bounds>>

SaveExtend ==
  /\ pc = "saveExtend"
  /\ \/ SaveOK /\ window' = mem /\ UNCHANGED <<uncertain, disturbed>>
     \/ SaveFail /\ uncertain' = TRUE /\ disturbed' = TRUE /\ UNCHANGED window
  /\ Release
  /\ UNCHANGED <<now, closed, lockEnabled, applyStatus, root, claim, fs, work, retry, alerted,
                 restarting, alerts, astray, mishaps>>

-----------------------------------------------------------------------------
(* Tick and the restart of the panel *)

\* Start and every Tick until it succeeds: persist the intention to relock every
\* window.  This one write takes no operation lock and compares nothing.
PersistRestart ==
  /\ restarting
  /\ \/ /\ restarting' = FALSE
        /\ window' = IF HasWindow THEN Restarted(window) ELSE window
        /\ stale' = (stale \/ (HasWindow /\ pc # "idle"))
        /\ UNCHANGED faults
     \/ Fault /\ UNCHANGED <<restarting, window, stale>>
  /\ UNCHANGED <<now, closed, lockEnabled, applyStatus, root, claim, fs, work, uncertain, retry,
                 alerted, holder, pc, mem, began, absorb, target, crossed, histVars, mishaps>>

\* Mutants: only expired windows are relocked, not failed ones; a latch without a
\* window is not looked at.
TickVisitOnlyExpired ==
  /\ ~restarting /\ holder = "none"
  /\ \/ /\ ~HasWindow /\ uncertain
        /\ uncertain' = FALSE /\ retry' = 0 /\ alerted' = FALSE
        /\ UNCHANGED opVars
     \/ /\ HasWindow
        /\ window.state = "unlocked" /\ window.expires <= now
        /\ RelockOwned(window)
        /\ UNCHANGED <<retry, alerted>>
  /\ UNCHANGED <<now, dbVars, fs, work, restarting, histVars, bounds>>
TickVisitKeepsLatch ==
  /\ ~restarting /\ holder = "none"
  /\ HasWindow
  /\ window.state # "unlocked" \/ window.expires <= now \/ uncertain
  /\ RelockOwned(window)
  /\ UNCHANGED <<now, dbVars, fs, work, restarting, retry, alerted, histVars, bounds>>

\* Tick's visit of a site that has a window or is latched; it skips a busy site.
TickVisit ==
  /\ ~restarting /\ holder = "none"
  /\ \/ /\ ~HasWindow /\ uncertain
        /\ uncertain' = FALSE /\ retry' = 0 /\ alerted' = FALSE
        /\ UNCHANGED opVars
     \/ /\ HasWindow
        /\ window.state # "unlocked" \/ window.expires <= now \/ uncertain
        /\ RelockOwned(window)
        /\ UNCHANGED <<retry, alerted>>
  /\ UNCHANGED <<now, dbVars, fs, work, restarting, histVars, bounds>>

\* The process dies and main starts it again: memory is lost, a pass over the file
\* system may have been cut short, and a running update is undecided.
Crash ==
  /\ Mishap
  /\ fs' \in IF pc \in Passes \/ work \in Sweeps THEN {fs, "partial"} ELSE {fs}
  /\ astray' = (astray \/ work \in Sweeps)
  /\ work' = "idle"
  /\ uncertain' = FALSE /\ retry' = 0 /\ alerted' = FALSE /\ restarting' = TRUE
  /\ Release
  /\ disturbed' = HasWindow /\ alerts' = 0
  /\ UNCHANGED <<now, dbVars, faults>>

-----------------------------------------------------------------------------
(* The other users of the site operation lock *)

\* Mutant: the slot alone is looked at, not the persisted window.
SiteOpFreeInMemory == holder = "none"

\* TryAcquireSiteOpLock: refused while the slot is taken or a window is persisted.
SiteOpFree == holder = "none" /\ ~HasWindow

\* A writer: the plan of an update, a reservation, an AI grant, a change of domains.
\* It leaves a durable claim behind, or moves the web root, and releases the slot; no
\* step modelled here looks in between.  An update that waits for a decision does not
\* keep a new one from being planned: the task the claim stands for may change.
Writer ==
  /\ SiteOpFree
  /\ \/ claim = "none" /\ claim' = "taken" /\ UNCHANGED <<root, mishaps>>
     \/ root' \in Roots \ {root} /\ Mishap /\ UNCHANGED claim
  /\ UNCHANGED <<now, window, closed, lockEnabled, applyStatus, fs, work, memoryVars, opVars,
                 histVars, faults>>

\* The claimed work ends: the grant, the reservation or the job is removed, or the
\* update task ends before its executor starts or by a decision that touches neither
\* files nor database (disposeFailedTaskIgnored).  An executor that has lost its lease
\* goes on after others have ended its task.
ClaimEnd ==
  /\ claim = "taken"
  /\ IF work = "idle" THEN UNCHANGED mishaps ELSE Mishap
  /\ claim' = "none"
  /\ UNCHANGED <<now, window, closed, lockEnabled, applyStatus, root, fs, work,
                 memoryVars, opVars, histVars, faults>>

\* beginRollback re-activates the lock of a site that a migration has brought, live
\* since: it takes no slot and looks at no window.  The rollback ends with the site.
RollbackBegin ==
  /\ claim = "none" /\ Mishap
  /\ claim' = "rollback"
  /\ UNCHANGED <<now, window, closed, lockEnabled, applyStatus, root, fs, work,
                 memoryVars, opVars, histVars, faults>>

\* TryAcquireSiteFileOpLock and TryAcquireCompanionDeployLock look at the slot only.
FileOpBegin ==
  /\ holder = "none"
  /\ holder' = "fileop" /\ pc' = "fileop"
  /\ UNCHANGED <<now, dbVars, fs, work, memoryVars, mem, began, stale, absorb, target, crossed,
                 histVars, bounds>>
FileOpEnd ==
  /\ pc = "fileop"
  /\ Release
  /\ UNCHANGED <<now, dbVars, fs, work, memoryVars, histVars, bounds>>

\* Mutant: the row is not marked before the files change.
SetApplyingUnmarked(enabled) ==
  /\ SiteOpFree
  /\ holder' = "setlock" /\ pc' = "setFs" /\ target' = enabled
  /\ UNCHANGED <<now, dbVars, fs, work, memoryVars, mem, began, stale, absorb, crossed,
                 histVars, bounds>>

\* executeSetFileLock, the permanent lock and unlock: take the slot and mark the row,
\* or give up, ...
SetApplying(enabled) ==
  /\ SiteOpFree
  /\ \/ /\ applyStatus' = "applying"
        /\ holder' = "setlock" /\ pc' = "setFs" /\ target' = enabled /\ UNCHANGED faults
     \/ Fault /\ UNCHANGED <<applyStatus, holder, pc, target>>
  /\ UNCHANGED <<now, window, closed, lockEnabled, root, claim, fs, work, memoryVars, mem, began,
                 stale, absorb, crossed, histVars, mishaps>>

\* ... change the files (and verify a lock), ...
SetFs ==
  LET goal == IF target THEN "locked" ELSE "open"
  IN  /\ pc = "setFs"
      /\ \/ /\ Pass(goal)
            /\ GoTo(IF target /\ fs' # "locked" THEN "setFailed" ELSE "setSave")
            /\ UNCHANGED faults
         \/ /\ PassFails(goal)
            /\ GoTo("setFailed") /\ UNCHANGED astray
      /\ UNCHANGED <<now, dbVars, work, memoryVars, mem, disturbed, alerts, mishaps>>

\* ... and record the outcome.
SetSave ==
  /\ pc = "setSave"
  /\ \/ /\ lockEnabled' = target /\ applyStatus' = IF target THEN "ready" ELSE "unset"
        /\ UNCHANGED faults
     \/ Fault /\ UNCHANGED <<lockEnabled, applyStatus>>
  /\ Release
  /\ UNCHANGED <<now, window, closed, root, claim, fs, work, memoryVars, histVars, mishaps>>
SetFailed ==
  /\ pc = "setFailed"
  /\ \/ applyStatus' = "failed" /\ UNCHANGED faults
     \/ Fault /\ UNCHANGED applyStatus
  /\ Release
  /\ UNCHANGED <<now, window, closed, lockEnabled, root, claim, fs, work, memoryVars, histVars, mishaps>>

-----------------------------------------------------------------------------
(* The executor of a WordPress update, which has the claim's lease but not the *)
(* slot, and passes over the files of a locked site itself                    *)

Sweep(goal) == fs' \in IF pc \in Passes THEN {goal, "partial"} ELSE {goal}
SweepFails(goal) == Fault /\ fs' \in IF fs = goal THEN {goal} ELSE {fs, "partial"}
\* History: the pass agrees with the row only when it locks what the row calls locked.
Swept == /\ astray' = ~(lockEnabled /\ applyStatus = "ready" /\ fs' = "locked")
         /\ crossed' = (crossed \/ pc \in Passes)

\* The executor of an update task finds the lock of the files enabled (loadExecution)
\* and unlocks them; when that fails, the lock is restored before the failure is
\* recorded.  A manual rollback finds the files as the halt has left them.
UpdateUnlock ==
  /\ claim = "taken" /\ work = "idle" /\ lockEnabled
  /\ \/ Sweep("open") /\ work' = "write" /\ Swept /\ UNCHANGED faults
     \/ SweepFails("open") /\ work' = "relock" /\ Swept
     \/ work' = "write" /\ UNCHANGED <<fs, crossed, astray, faults>>
  /\ UNCHANGED <<now, dbVars, memoryVars, holder, pc, mem, began, stale, absorb, target,
                 disturbed, alerts, mishaps>>

\* The update and its health check, or a rollback; a batch update that fails is left
\* to a manual decision with the files open (haltForManualDecision), and so is one
\* whose process was lost.  One that finds its lease lost stops.
UpdateWrite ==
  /\ \/ work = "write" /\ work' \in {"relock", "idle"}
     \/ work = "relock" /\ claim # "taken" /\ work' = "idle"
  /\ UNCHANGED <<now, dbVars, fs, memoryVars, opVars, histVars, bounds>>

\* RestoreFileLock, and the end of the task; when it fails, an automatic rollback or
\* a task that needs a decision.
UpdateRelock ==
  /\ work = "relock"
  /\ \/ /\ Sweep("locked") /\ UNCHANGED faults
        /\ work' = "idle"
        /\ claim' \in IF claim = "rollback" THEN {claim} ELSE {claim, "none"}
     \/ /\ SweepFails("locked")
        /\ work' \in {"idle", "write"} /\ UNCHANGED claim
  /\ Swept
  /\ UNCHANGED <<now, window, closed, lockEnabled, applyStatus, root, memoryVars,
                 holder, pc, mem, began, stale, absorb, target, disturbed, alerts, mishaps>>

AdvanceClock ==
  /\ now < MaxTime
  /\ now' = now + 1
  /\ UNCHANGED <<dbVars, fs, work, memoryVars, opVars, histVars, bounds>>

-----------------------------------------------------------------------------
OpStep ==
  \/ SaveIntent \/ UnlockFs \/ SaveUnlocked \/ UnlockDone
  \/ SaveRelocking \/ LockFs \/ VerifyFs \/ CommitLocked \/ SaveFailed
  \/ CompensateLock \/ CompensateVerify
  \/ ExtendCheck \/ SaveExtend
  \/ FileOpEnd \/ SetFs \/ SetSave \/ SetFailed

\* The executor of an update at work.
UpdateStep == UpdateWrite \/ UpdateRelock

Next ==
  \/ \E r \in Requests : UnlockBegin(r) \/ \E k \in ExtendSpans : ExtendBegin(r, k)
  \/ PasswordUnsaved \/ Relock
  \/ PersistRestart \/ TickVisit \/ Crash
  \/ Writer \/ ClaimEnd \/ RollbackBegin \/ FileOpBegin
  \/ UpdateUnlock \/ UpdateStep
  \/ \E enabled \in BOOLEAN : SetApplying(enabled)
  \/ OpStep
  \/ AdvanceClock

Spec == Init /\ [][Next]_vars

(***************************************************************************)
(* An operation that has the lock runs to its end, and so does an executor *)
(* at work, whose commands have time limits; the ticker of Start fires     *)
(* every ten seconds for ever and the clock runs.  The visit of a    *)
(* site is skipped while the slot is taken, so that it needs strong        *)
(* fairness: not every tick of ten seconds finds the site busy.            *)
(***************************************************************************)
FairSpec ==
  /\ Spec
  /\ WF_vars(OpStep) /\ WF_vars(UpdateStep) /\ WF_vars(PersistRestart) /\ WF_vars(AdvanceClock)
  /\ SF_vars(TickVisit)

-----------------------------------------------------------------------------
RowTypes ==
  /\ now \in Nat
  /\ closed \in Requests \cup {NoRequest}
  /\ applyStatus \in {"unset", "applying", "ready", "failed"}
  /\ root \in Roots
ClaimTypes ==
  /\ claim \in Claims
  /\ work \in {"idle", "write", "relock"}
FlagTypes  == lockEnabled \in BOOLEAN /\ disturbed \in BOOLEAN /\ astray \in BOOLEAN
LatchTypes == uncertain \in BOOLEAN /\ alerted \in BOOLEAN /\ restarting \in BOOLEAN
LocalTypes == stale \in BOOLEAN /\ absorb \in BOOLEAN /\ target \in BOOLEAN /\ crossed \in BOOLEAN
PointTypes ==
  /\ fs \in {"locked", "open", "partial"}
  /\ holder \in {"none", "maintenance", "fileop", "setlock"}
  /\ pc \in {"idle", "saveIntent", "unlockFs", "saveUnlocked", "unlockDone", "saveRelocking",
             "lockFs", "verifyFs", "commitLocked", "saveFailed", "compLock", "compVerify",
             "extendCheck", "saveExtend", "fileop", "setFs", "setSave",
             "setFailed"}
CountTypes == /\ began \in Nat /\ retry \in Nat /\ alerts \in Nat
              /\ faults \in Nat /\ mishaps \in Nat

TypeOK ==
  /\ window \in Windows /\ mem \in Windows
  /\ RowTypes /\ ClaimTypes /\ FlagTypes /\ LatchTypes /\ LocalTypes /\ PointTypes /\ CountTypes

\* What MaintenanceManager.Status answers, from the row and the latches.
Status ==
  LET row  == IF HasWindow
              THEN IF window.state = "unlocked" /\ window.expires <= now
                   THEN "relocking" ELSE window.state
              ELSE IF applyStatus \in {"failed", "applying"} THEN "unknown"
              ELSE IF lockEnabled THEN "locked" ELSE "unlocked_permanent"
  IN  IF IsUncertain /\ row \notin {"relock_failed", "relocking"} THEN "unknown" ELSE row

\* Status never vouches for files that are not as it says: "locked" and "unlocked"
\* are true of the file system in every state, through failed and interrupted
\* operations; what is not known is reported as such.  The exception is the files an
\* update has opened, or locked over a changed row: until its own restored lock
\* agrees with the row, or a later pass of these operations, Status cannot know.
StatusHonest ==
  ~astray =>
    /\ Status = "locked" => fs = "locked"
    /\ Status \in {"unlocked", "unlocked_permanent"} => fs = "open"

\* The row claims a finished lock only for locked files, so that whatever a crash
\* leaves open is recorded: by a window to be relocked, by an unfinished application
\* of the file lock, or by an update task.  Files open under a "ready" row are the
\* work of an update that is at it, waits for a decision or was dismissed.
ReadyMeansLocked == lockEnabled /\ applyStatus = "ready" /\ ~astray => fs = "locked"

\* A window and a durable claim taken under the slot (update task, reservation, AI
\* grant, image job) exclude each other, although neither side keeps the slot.  Only
\* a rollback, which asks nobody, may re-activate its lock under a window.
WindowExcludesClaims == HasWindow => claim \in {"none", "rollback"}

\* The site cannot be moved while a window is open: relockOwned, which refuses to
\* lock another tree than the one it unlocked, never has to.
WindowKeepsRoot == HasWindow => window.root = root

\* Every minute a window is open is covered by a verification of the password.
VerifiedCoversWindow == window.state = "unlocked" => window.expires <= window.verified

\* The integrity baseline absorbs the changes made during a window only when no
\* failure and no restart touched the window since it was opened.
AbsorbOnlyClean == pc \in {"lockFs", "verifyFs", "commitLocked"} /\ absorb => ~disturbed

\* A window that cannot be relocked raises one alert per process, however often the
\* relock is retried.
AlertOnce == alerts <= 1

\* Once the relock of a window has begun, nothing makes it usable again: an
\* extension in flight cannot resurrect it.
RelockIsFinal ==
  [][(window.state \notin {"none", "unlocking", "unlocked"} /\ window'.id = window.id)
       => window'.state # "unlocked"]_vars

\* Every window is closed in the end, with the files locked, whatever failed and
\* however often the panel was restarted meanwhile.
WindowCloses == HasWindow ~> (~HasWindow /\ applyStatus = "ready" /\ (fs = "locked" \/ astray))

\* A latched site does not stay latched: requests are accepted again.
LatchClears == IsUncertain ~> ~IsUncertain

=============================================================================
