-------------------------- MODULE MaintenanceProofs --------------------------
(***************************************************************************)
(* Proofs about the maintenance window, for any request ids, roots, spans, *)
(* and any number of failures and crashes.                                 *)
(*                                                                         *)
(* The argument: the operation that has the site operation lock is the     *)
(* only one to change the row and its own copy of the window, except for   *)
(* the restart intent, which can only move a window to "relocking"         *)
(* (StaleInv).  So each control point of an operation fixes what the row   *)
(* says (LockInv, RowInv), and what the files are as long as no update has *)
(* left them out of step with the row (FsInv): a pass of an update over    *)
(* files under a window, or under a row being changed, sets astray.        *)
(***************************************************************************)
EXTENDS Maintenance, TLAPS

UnlockSteps == {"unlockFs", "saveUnlocked"}
CompSteps   == {"compLock", "compVerify"}
RelockSteps == {"lockFs", "verifyFs", "commitLocked"}
ExtendSteps == {"extendCheck", "saveExtend"}
SetSteps    == {"setFs", "setSave", "setFailed"}
OwnSteps    == UnlockSteps \cup CompSteps \cup RelockSteps \cup ExtendSteps
               \cup {"unlockDone", "saveRelocking", "saveFailed"}

\* Who may be where; an operation on a window has one, the other writers have none.
LockInv ==
  /\ holder = "none" <=> pc = "idle"
  /\ pc \in OwnSteps => HasWindow
  /\ pc \in SetSteps \cup {"saveIntent"} => ~HasWindow

\* What the row says at the control points of an operation.
RowInv ==
  /\ HasWindow => applyStatus # "ready" /\ claim # "taken" /\ window.root = root
  /\ lockEnabled => applyStatus # "unset"
  /\ pc \in OwnSteps => mem.root = root
  /\ pc = "saveIntent" => lockEnabled /\ applyStatus = "ready" /\ claim # "taken"
                          /\ mem.root = root /\ mem.state = "unlocking"
  /\ pc \in UnlockSteps \cup CompSteps => window.state \in {"unlocking", "relocking"}
  /\ pc \in RelockSteps => window.state = "relocking"
  /\ pc = "saveRelocking" => mem.state = "relocking"
  /\ pc = "saveFailed" => mem.state \in {"relock_failed", "unknown"}
  /\ pc \in ExtendSteps \cup {"unlockDone"} => mem.state = "unlocked"
  /\ pc \in SetSteps => applyStatus = "applying"

\* The one write that takes no lock: it turns a window to be relocked.
StaleInv ==
  /\ pc \in UnlockSteps /\ ~stale => window.state = "unlocking"
  /\ pc \in ExtendSteps /\ ~stale => window.state = "unlocked"
  /\ pc \in CompSteps \cup {"saveFailed"} => uncertain

\* What the files are, unless an update has left them out of step with the row.
FsInv ==
  ~astray =>
    /\ lockEnabled /\ applyStatus = "ready" => fs = "locked"
    /\ ~HasWindow /\ ~lockEnabled /\ applyStatus \notin {"failed", "applying"} => fs = "open"
    /\ window.state = "unlocked" /\ ~IsUncertain => fs = "open"
    /\ pc = "saveUnlocked" => fs = "open"
    /\ pc = "commitLocked" => fs = "locked"
    /\ pc = "setSave" => fs = IF target THEN "locked" ELSE "open"

\* Every minute of an open window is verified.
VerifiedInv ==
  /\ window.state = "unlocked" => window.expires <= window.verified
  /\ pc \in UnlockSteps \cup {"saveIntent"} => mem.verified = began + VerifySpan
  /\ pc \in ExtendSteps => mem.expires <= mem.verified

\* A window touched by a failure or a crash is latched, or no longer unlocked.
CleanInv ==
  /\ disturbed /\ window.state = "unlocked" => IsUncertain
  /\ pc \in UnlockSteps \cup {"unlockDone"} => ~disturbed
  /\ pc \in RelockSteps \cup {"saveRelocking"} /\ absorb => ~disturbed

\* The alert of a window has been raised once at most.
AlertInv ==
  /\ alerts <= 1
  /\ HasWindow /\ alerts = 1 => alerted
  /\ pc \in UnlockSteps \cup CompSteps => alerts = 0

IndInv == /\ TypeOK /\ LockInv /\ RowInv /\ StaleInv /\ FsInv
          /\ VerifiedInv /\ CleanInv /\ AlertInv

-----------------------------------------------------------------------------
(* The records the operations build *)

LEMMA NoWindowFacts ==
  /\ NoWindow \in Windows
  /\ NoWindow.state = "none" /\ NoWindow.id = NoRequest
BY MaintenanceAssumption DEF NoWindow, Windows, WindowStates, Failures

LEMMA FailedFacts ==
  ASSUME NEW w \in Windows, NEW time \in Nat, NEW stage \in Failures
  PROVE  LET f == Failed(w, stage, time)
         IN  f \in Windows /\ f.state = "relock_failed" /\ f.root = w.root /\ f.id = w.id
BY DEF Failed, Windows, WindowStates

LEMMA RestartedFacts ==
  ASSUME NEW w \in Windows
  PROVE  LET f == Restarted(w)
         IN  f \in Windows /\ f.state = "relocking" /\ f.root = w.root /\ f.id = w.id
BY DEF Restarted, Windows, WindowStates

LEMMA RetryAtFact ==
  ASSUME TypeOK
  PROVE  RetryAt \in Nat
BY MaintenanceAssumption DEF TypeOK, RowTypes, RetryAt

USE DEF dbVars, memoryVars, opVars, histVars, bounds, GoTo, Release, SaveOK, SaveFail, Fault,
        Mishap, Passes, Sweeps, Met, Pass, PassFails, Unverified, IsUncertain, HasWindow, UnlockSteps, CompSteps, RelockSteps, ExtendSteps, SetSteps, OwnSteps

-----------------------------------------------------------------------------
LEMMA UnlockBeginInv ==
  ASSUME NEW r \in Requests, IndInv, UnlockBegin(r)
  PROVE  IndInv'
<1> USE DEF UnlockBegin
<1>0. TypeOK /\ LockInv /\ RowInv /\ StaleInv /\ FsInv /\ VerifiedInv /\ CleanInv /\ AlertInv
  BY DEF IndInv
<1>1. TypeOK'
  <2>1. window' \in Windows /\ mem' \in Windows
    <3>1. now + VerifySpan \in Nat
      BY <1>0, MaintenanceAssumption DEF TypeOK, RowTypes
    <3>2. QED BY <1>0, <3>1, NoWindowFacts DEF TypeOK, RowTypes, Windows, WindowStates
  <2>2. RowTypes' BY <1>0 DEF TypeOK, RowTypes
  <2>3. ClaimTypes' /\ FlagTypes' BY <1>0 DEF TypeOK, ClaimTypes, FlagTypes, Claims
  <2>4. LatchTypes' BY <1>0 DEF TypeOK, LatchTypes
  <2>5. LocalTypes' BY <1>0 DEF TypeOK, LocalTypes
  <2>6. PointTypes' BY <1>0 DEF TypeOK, PointTypes
  <2>7. CountTypes' BY <1>0 DEF TypeOK, RowTypes, CountTypes
  <2>8. QED BY <2>1, <2>2, <2>3, <2>4, <2>5, <2>6, <2>7 DEF TypeOK
<1>2. LockInv' BY <1>0 DEF LockInv
<1>3. RowInv' BY <1>0 DEF RowInv
<1>4. StaleInv' BY <1>0 DEF StaleInv
<1>5. FsInv' BY <1>0 DEF FsInv
<1>6. VerifiedInv' BY <1>0 DEF VerifiedInv
<1>7. CleanInv' BY <1>0 DEF CleanInv
<1>8. AlertInv' BY <1>0 DEF AlertInv
<1>9. QED BY <1>1, <1>2, <1>3, <1>4, <1>5, <1>6, <1>7, <1>8 DEF IndInv

LEMMA PasswordUnsavedInv ==
  ASSUME IndInv, PasswordUnsaved
  PROVE  IndInv'
<1> USE DEF PasswordUnsaved
<1>0. TypeOK /\ LockInv /\ RowInv /\ StaleInv /\ FsInv /\ VerifiedInv /\ CleanInv /\ AlertInv
  BY DEF IndInv
<1>1. TypeOK'
  <2>1. window' \in Windows /\ mem' \in Windows
    BY <1>0 DEF TypeOK
  <2>2. RowTypes' BY <1>0 DEF TypeOK, RowTypes
  <2>3. ClaimTypes' /\ FlagTypes' BY <1>0 DEF TypeOK, ClaimTypes, FlagTypes, Claims
  <2>4. LatchTypes' BY <1>0 DEF TypeOK, LatchTypes
  <2>5. LocalTypes' BY <1>0 DEF TypeOK, LocalTypes
  <2>6. PointTypes' BY <1>0 DEF TypeOK, PointTypes
  <2>7. CountTypes' BY <1>0 DEF TypeOK, CountTypes
  <2>8. QED BY <2>1, <2>2, <2>3, <2>4, <2>5, <2>6, <2>7 DEF TypeOK
<1>2. LockInv' BY <1>0 DEF LockInv
<1>3. RowInv' BY <1>0 DEF RowInv
<1>4. StaleInv' BY <1>0 DEF StaleInv
<1>5. FsInv' BY <1>0 DEF FsInv
<1>6. VerifiedInv' BY <1>0 DEF VerifiedInv
<1>7. CleanInv' BY <1>0 DEF CleanInv, StaleInv, RowInv, LockInv
<1>8. AlertInv' BY <1>0 DEF AlertInv
<1>9. QED BY <1>1, <1>2, <1>3, <1>4, <1>5, <1>6, <1>7, <1>8 DEF IndInv

LEMMA SaveIntentInv ==
  ASSUME IndInv, SaveIntent
  PROVE  IndInv'
<1> USE DEF SaveIntent
<1>0. TypeOK /\ LockInv /\ RowInv /\ StaleInv /\ FsInv /\ VerifiedInv /\ CleanInv /\ AlertInv
  BY DEF IndInv
<1>1. TypeOK'
  <2>1. window' \in Windows /\ mem' \in Windows
    BY <1>0, NoWindowFacts DEF TypeOK
  <2>2. RowTypes' BY <1>0 DEF TypeOK, RowTypes
  <2>3. ClaimTypes' /\ FlagTypes' BY <1>0 DEF TypeOK, ClaimTypes, FlagTypes, Claims
  <2>4. LatchTypes' BY <1>0 DEF TypeOK, LatchTypes
  <2>5. LocalTypes' BY <1>0 DEF TypeOK, LocalTypes
  <2>6. PointTypes' BY <1>0 DEF TypeOK, PointTypes
  <2>7. CountTypes' BY <1>0 DEF TypeOK, CountTypes
  <2>8. QED BY <2>1, <2>2, <2>3, <2>4, <2>5, <2>6, <2>7 DEF TypeOK
<1>2. LockInv' BY <1>0 DEF LockInv, RowInv
<1>3. RowInv' BY <1>0 DEF RowInv
<1>4. StaleInv' BY <1>0 DEF StaleInv, RowInv, LockInv
<1>5. FsInv' BY <1>0 DEF FsInv, RowInv, LockInv, StaleInv
<1>6. VerifiedInv' BY <1>0 DEF VerifiedInv, StaleInv, RowInv
<1>7. CleanInv' BY <1>0 DEF CleanInv
<1>8. AlertInv' BY <1>0 DEF AlertInv
<1>9. QED BY <1>1, <1>2, <1>3, <1>4, <1>5, <1>6, <1>7, <1>8 DEF IndInv

LEMMA UnlockFsInv ==
  ASSUME IndInv, UnlockFs
  PROVE  IndInv'
<1> USE DEF UnlockFs
<1>0. TypeOK /\ LockInv /\ RowInv /\ StaleInv /\ FsInv /\ VerifiedInv /\ CleanInv /\ AlertInv
  BY DEF IndInv
<1>1. TypeOK'
  <2>1. window' \in Windows /\ mem' \in Windows
    BY <1>0 DEF TypeOK
  <2>2. RowTypes' BY <1>0 DEF TypeOK, RowTypes
  <2>3. ClaimTypes' /\ FlagTypes' BY <1>0 DEF TypeOK, ClaimTypes, FlagTypes, Claims
  <2>4. LatchTypes' BY <1>0 DEF TypeOK, LatchTypes
  <2>5. LocalTypes' BY <1>0 DEF TypeOK, LocalTypes
  <2>6. PointTypes' BY <1>0 DEF TypeOK, PointTypes
  <2>7. CountTypes' BY <1>0 DEF TypeOK, CountTypes
  <2>8. QED BY <2>1, <2>2, <2>3, <2>4, <2>5, <2>6, <2>7 DEF TypeOK
<1>2. LockInv' BY <1>0 DEF LockInv
<1>3. RowInv' BY <1>0 DEF RowInv
<1>4. StaleInv' BY <1>0 DEF StaleInv
<1>5. FsInv' BY <1>0 DEF FsInv, RowInv, LockInv, StaleInv
<1>6. VerifiedInv' BY <1>0 DEF VerifiedInv
<1>7. CleanInv' BY <1>0 DEF CleanInv
<1>8. AlertInv' BY <1>0 DEF AlertInv
<1>9. QED BY <1>1, <1>2, <1>3, <1>4, <1>5, <1>6, <1>7, <1>8 DEF IndInv

LEMMA SaveUnlockedInv ==
  ASSUME IndInv, SaveUnlocked
  PROVE  IndInv'
<1> USE DEF SaveUnlocked
<1>0. TypeOK /\ LockInv /\ RowInv /\ StaleInv /\ FsInv /\ VerifiedInv /\ CleanInv /\ AlertInv
  BY DEF IndInv
<1>1. TypeOK'
  <2>1. window' \in Windows /\ mem' \in Windows
    <3>1. began + Span \in Nat
      BY <1>0, MaintenanceAssumption DEF TypeOK, CountTypes
    <3>2. mem' \in Windows
      BY <1>0, <3>1 DEF TypeOK, Windows, WindowStates
    <3>3. QED BY <1>0, <3>2 DEF TypeOK
  <2>2. RowTypes' BY <1>0 DEF TypeOK, RowTypes
  <2>3. ClaimTypes' /\ FlagTypes' BY <1>0 DEF TypeOK, ClaimTypes, FlagTypes, Claims
  <2>4. LatchTypes' BY <1>0 DEF TypeOK, LatchTypes
  <2>5. LocalTypes' BY <1>0 DEF TypeOK, LocalTypes
  <2>6. PointTypes' BY <1>0 DEF TypeOK, PointTypes
  <2>7. CountTypes' BY <1>0 DEF TypeOK, CountTypes
  <2>8. QED BY <2>1, <2>2, <2>3, <2>4, <2>5, <2>6, <2>7 DEF TypeOK
<1>2. LockInv' BY <1>0 DEF LockInv, RowInv, TypeOK, Windows, WindowStates
<1>3. RowInv'
  <2>1. mem'.root = root /\ mem'.state = "unlocked"
    BY <1>0 DEF TypeOK, Windows, RowInv
  <2>2. CASE window' = mem' /\ lockEnabled' = FALSE /\ applyStatus' = "unset" /\ pc' = "unlockDone"
    BY <1>0, <2>1, <2>2 DEF RowInv, LockInv
  <2>3. CASE UNCHANGED <<window, lockEnabled, applyStatus>> /\ pc' = "compLock"
    BY <1>0, <2>1, <2>3 DEF RowInv, LockInv
  <2>4. QED BY <2>2, <2>3
<1>4. StaleInv' BY <1>0 DEF StaleInv
<1>5. FsInv' BY <1>0 DEF FsInv
<1>6. VerifiedInv'
  <2>1. mem'.expires = began + Span /\ mem'.verified = mem.verified /\ mem'.state = "unlocked"
    BY <1>0 DEF TypeOK, Windows
  <2>2. mem.verified = began + VerifySpan
    BY <1>0 DEF VerifiedInv
  <2>3. mem'.expires <= mem'.verified
    BY <1>0, <2>1, <2>2, MaintenanceAssumption DEF TypeOK, CountTypes
  <2>4. window' = mem' \/ window' = window
    OBVIOUS
  <2>5. pc' \in {"unlockDone", "compLock"}
    BY <1>0
  <2>6. QED BY <1>0, <2>3, <2>4, <2>5 DEF VerifiedInv
<1>7. CleanInv' BY <1>0 DEF CleanInv
<1>8. AlertInv' BY <1>0 DEF AlertInv
<1>9. QED BY <1>1, <1>2, <1>3, <1>4, <1>5, <1>6, <1>7, <1>8 DEF IndInv

LEMMA UnlockDoneInv ==
  ASSUME IndInv, UnlockDone
  PROVE  IndInv'
<1> USE DEF UnlockDone, RelockOwned
<1>0. TypeOK /\ LockInv /\ RowInv /\ StaleInv /\ FsInv /\ VerifiedInv /\ CleanInv /\ AlertInv
  BY DEF IndInv
<1>1. TypeOK'
  <2>1. window' \in Windows /\ mem' \in Windows
    BY <1>0, NoWindowFacts DEF TypeOK, Windows, WindowStates, Failures
  <2>2. RowTypes' BY <1>0 DEF TypeOK, RowTypes
  <2>3. ClaimTypes' /\ FlagTypes' BY <1>0 DEF TypeOK, ClaimTypes, FlagTypes, Claims
  <2>4. LatchTypes' BY <1>0 DEF TypeOK, LatchTypes
  <2>5. LocalTypes' BY <1>0 DEF TypeOK, LocalTypes
  <2>6. PointTypes' BY <1>0 DEF TypeOK, PointTypes
  <2>7. CountTypes' BY <1>0 DEF TypeOK, CountTypes
  <2>8. QED BY <2>1, <2>2, <2>3, <2>4, <2>5, <2>6, <2>7 DEF TypeOK
<1>2. LockInv' BY <1>0 DEF LockInv
<1>3. RowInv' BY <1>0 DEF RowInv, LockInv, TypeOK, Windows, WindowStates
<1>4. StaleInv' BY <1>0 DEF StaleInv
<1>5. FsInv' BY <1>0 DEF FsInv
<1>6. VerifiedInv' BY <1>0 DEF VerifiedInv
<1>7. CleanInv' BY <1>0 DEF CleanInv
<1>8. AlertInv' BY <1>0 DEF AlertInv
<1>9. QED BY <1>1, <1>2, <1>3, <1>4, <1>5, <1>6, <1>7, <1>8 DEF IndInv

LEMMA RelockInv ==
  ASSUME IndInv, Relock
  PROVE  IndInv'
<1> USE DEF Relock, RelockOwned
<1>0. TypeOK /\ LockInv /\ RowInv /\ StaleInv /\ FsInv /\ VerifiedInv /\ CleanInv /\ AlertInv
  BY DEF IndInv
<1>1. TypeOK'
  <2>1. window' \in Windows /\ mem' \in Windows
    BY <1>0, NoWindowFacts DEF TypeOK, Windows, WindowStates, Failures
  <2>2. RowTypes' BY <1>0 DEF TypeOK, RowTypes
  <2>3. ClaimTypes' /\ FlagTypes' BY <1>0 DEF TypeOK, ClaimTypes, FlagTypes, Claims
  <2>4. LatchTypes' BY <1>0 DEF TypeOK, LatchTypes
  <2>5. LocalTypes' BY <1>0 DEF TypeOK, LocalTypes
  <2>6. PointTypes' BY <1>0 DEF TypeOK, PointTypes
  <2>7. CountTypes' BY <1>0 DEF TypeOK, CountTypes
  <2>8. QED BY <2>1, <2>2, <2>3, <2>4, <2>5, <2>6, <2>7 DEF TypeOK
<1>2. LockInv' BY <1>0 DEF LockInv
<1>3. RowInv' BY <1>0 DEF RowInv, LockInv, TypeOK, Windows, WindowStates
<1>4. StaleInv' BY <1>0 DEF StaleInv
<1>5. FsInv' BY <1>0 DEF FsInv
<1>6. VerifiedInv' BY <1>0 DEF VerifiedInv
<1>7. CleanInv' BY <1>0 DEF CleanInv
<1>8. AlertInv' BY <1>0 DEF AlertInv
<1>9. QED BY <1>1, <1>2, <1>3, <1>4, <1>5, <1>6, <1>7, <1>8 DEF IndInv

LEMMA SaveRelockingInv ==
  ASSUME IndInv, SaveRelocking
  PROVE  IndInv'
<1> USE DEF SaveRelocking
<1>0. TypeOK /\ LockInv /\ RowInv /\ StaleInv /\ FsInv /\ VerifiedInv /\ CleanInv /\ AlertInv
  BY DEF IndInv
<1>1. TypeOK'
  <2>1. window' \in Windows /\ mem' \in Windows
    BY <1>0, NoWindowFacts DEF TypeOK
  <2>2. RowTypes' BY <1>0 DEF TypeOK, RowTypes
  <2>3. ClaimTypes' /\ FlagTypes' BY <1>0 DEF TypeOK, ClaimTypes, FlagTypes, Claims
  <2>4. LatchTypes' BY <1>0 DEF TypeOK, LatchTypes
  <2>5. LocalTypes' BY <1>0 DEF TypeOK, LocalTypes
  <2>6. PointTypes' BY <1>0 DEF TypeOK, PointTypes
  <2>7. CountTypes' BY <1>0 DEF TypeOK, CountTypes
  <2>8. QED BY <2>1, <2>2, <2>3, <2>4, <2>5, <2>6, <2>7 DEF TypeOK
<1>2. LockInv' BY <1>0 DEF LockInv, RowInv
<1>3. RowInv' BY <1>0 DEF RowInv, LockInv
<1>4. StaleInv' BY <1>0 DEF StaleInv
<1>5. FsInv' BY <1>0 DEF FsInv, RowInv, LockInv, StaleInv
<1>6. VerifiedInv' BY <1>0 DEF VerifiedInv, StaleInv, RowInv
<1>7. CleanInv' BY <1>0 DEF CleanInv, StaleInv, RowInv, LockInv
<1>8. AlertInv' BY <1>0 DEF AlertInv, LockInv
<1>9. QED BY <1>1, <1>2, <1>3, <1>4, <1>5, <1>6, <1>7, <1>8 DEF IndInv

LEMMA LockFsInv ==
  ASSUME IndInv, LockFs
  PROVE  IndInv'
<1> USE DEF LockFs, RelockFailed
<1>0. TypeOK /\ LockInv /\ RowInv /\ StaleInv /\ FsInv /\ VerifiedInv /\ CleanInv /\ AlertInv
  BY DEF IndInv
<1>f. LET f == Failed(mem, "permissions", RetryAt)
      IN  f \in Windows /\ f.state = "relock_failed" /\ f.root = mem.root /\ f.id = mem.id
  BY <1>0, FailedFacts, RetryAtFact DEF TypeOK, Failures
<1>1. TypeOK'
  <2>1. window' \in Windows /\ mem' \in Windows
    BY <1>0, <1>f DEF TypeOK
  <2>2. RowTypes' BY <1>0 DEF TypeOK, RowTypes
  <2>3. ClaimTypes' /\ FlagTypes' BY <1>0 DEF TypeOK, ClaimTypes, FlagTypes, Claims
  <2>4. LatchTypes' BY <1>0 DEF TypeOK, LatchTypes
  <2>5. LocalTypes' BY <1>0 DEF TypeOK, LocalTypes
  <2>6. PointTypes' BY <1>0 DEF TypeOK, PointTypes
  <2>7. CountTypes' BY <1>0, RetryAtFact DEF TypeOK, CountTypes
  <2>8. QED BY <2>1, <2>2, <2>3, <2>4, <2>5, <2>6, <2>7 DEF TypeOK
<1>2. LockInv' BY <1>0, <1>f DEF LockInv
<1>3. RowInv' BY <1>0, <1>f DEF RowInv
<1>4. StaleInv' BY <1>0, <1>f DEF StaleInv
<1>5. FsInv' BY <1>0, <1>f DEF FsInv, RowInv, LockInv, StaleInv
<1>6. VerifiedInv' BY <1>0, <1>f DEF VerifiedInv
<1>7. CleanInv' BY <1>0, <1>f DEF CleanInv
<1>8. AlertInv'
  BY <1>0, <1>f, MaintenanceAssumption
     DEF AlertInv, LockInv, TypeOK, RowTypes, CountTypes, Windows
<1>9. QED BY <1>1, <1>2, <1>3, <1>4, <1>5, <1>6, <1>7, <1>8 DEF IndInv

LEMMA VerifyFsInv ==
  ASSUME IndInv, VerifyFs
  PROVE  IndInv'
<1> USE DEF VerifyFs, RelockFailed
<1>0. TypeOK /\ LockInv /\ RowInv /\ StaleInv /\ FsInv /\ VerifiedInv /\ CleanInv /\ AlertInv
  BY DEF IndInv
<1>f. LET f == Failed(mem, "verification", RetryAt)
      IN  f \in Windows /\ f.state = "relock_failed" /\ f.root = mem.root /\ f.id = mem.id
  BY <1>0, FailedFacts, RetryAtFact DEF TypeOK, Failures
<1>1. TypeOK'
  <2>1. window' \in Windows /\ mem' \in Windows
    BY <1>0, <1>f DEF TypeOK
  <2>2. RowTypes' BY <1>0 DEF TypeOK, RowTypes
  <2>3. ClaimTypes' /\ FlagTypes' BY <1>0 DEF TypeOK, ClaimTypes, FlagTypes, Claims
  <2>4. LatchTypes' BY <1>0 DEF TypeOK, LatchTypes
  <2>5. LocalTypes' BY <1>0 DEF TypeOK, LocalTypes
  <2>6. PointTypes' BY <1>0 DEF TypeOK, PointTypes
  <2>7. CountTypes' BY <1>0, RetryAtFact DEF TypeOK, CountTypes
  <2>8. QED BY <2>1, <2>2, <2>3, <2>4, <2>5, <2>6, <2>7 DEF TypeOK
<1>2. LockInv' BY <1>0, <1>f DEF LockInv
<1>3. RowInv' BY <1>0, <1>f DEF RowInv
<1>4. StaleInv' BY <1>0, <1>f DEF StaleInv
<1>5. FsInv' BY <1>0, <1>f DEF FsInv
<1>6. VerifiedInv' BY <1>0, <1>f DEF VerifiedInv
<1>7. CleanInv' BY <1>0, <1>f DEF CleanInv
<1>8. AlertInv'
  BY <1>0, <1>f, MaintenanceAssumption
     DEF AlertInv, LockInv, TypeOK, RowTypes, CountTypes, Windows
<1>9. QED BY <1>1, <1>2, <1>3, <1>4, <1>5, <1>6, <1>7, <1>8 DEF IndInv

LEMMA CommitLockedInv ==
  ASSUME IndInv, CommitLocked
  PROVE  IndInv'
<1> USE DEF CommitLocked, RelockFailed
<1>0. TypeOK /\ LockInv /\ RowInv /\ StaleInv /\ FsInv /\ VerifiedInv /\ CleanInv /\ AlertInv
  BY DEF IndInv
<1>f. LET f == Failed(mem, "state_commit", RetryAt)
      IN  f \in Windows /\ f.state = "relock_failed" /\ f.root = mem.root /\ f.id = mem.id
  BY <1>0, FailedFacts, RetryAtFact DEF TypeOK, Failures
<1>1. TypeOK'
  <2>1. window' \in Windows /\ mem' \in Windows
    BY <1>0, <1>f, NoWindowFacts DEF TypeOK
  <2>2. RowTypes' BY <1>0 DEF TypeOK, RowTypes, Windows
  <2>3. ClaimTypes' /\ FlagTypes' BY <1>0 DEF TypeOK, ClaimTypes, FlagTypes, Claims
  <2>4. LatchTypes' BY <1>0 DEF TypeOK, LatchTypes
  <2>5. LocalTypes' BY <1>0 DEF TypeOK, LocalTypes
  <2>6. PointTypes' BY <1>0 DEF TypeOK, PointTypes
  <2>7. CountTypes' BY <1>0, RetryAtFact DEF TypeOK, CountTypes
  <2>8. QED BY <2>1, <2>2, <2>3, <2>4, <2>5, <2>6, <2>7 DEF TypeOK
<1>2. LockInv' BY <1>0, <1>f DEF LockInv
<1>3. RowInv' BY <1>0, <1>f, NoWindowFacts DEF RowInv
<1>4. StaleInv' BY <1>0, <1>f DEF StaleInv
<1>5. FsInv' BY <1>0, <1>f, NoWindowFacts DEF FsInv
<1>6. VerifiedInv' BY <1>0, <1>f, NoWindowFacts DEF VerifiedInv
<1>7. CleanInv' BY <1>0, <1>f, NoWindowFacts DEF CleanInv
<1>8. AlertInv'
  BY <1>0, <1>f, NoWindowFacts DEF AlertInv, LockInv, TypeOK, CountTypes, FlagTypes, LatchTypes
<1>9. QED BY <1>1, <1>2, <1>3, <1>4, <1>5, <1>6, <1>7, <1>8 DEF IndInv

LEMMA SaveFailedInv ==
  ASSUME IndInv, SaveFailed
  PROVE  IndInv'
<1> USE DEF SaveFailed
<1>0. TypeOK /\ LockInv /\ RowInv /\ StaleInv /\ FsInv /\ VerifiedInv /\ CleanInv /\ AlertInv
  BY DEF IndInv
<1>1. TypeOK'
  <2>1. window' \in Windows /\ mem' \in Windows
    BY <1>0, NoWindowFacts DEF TypeOK
  <2>2. RowTypes' BY <1>0 DEF TypeOK, RowTypes
  <2>3. ClaimTypes' /\ FlagTypes' BY <1>0 DEF TypeOK, ClaimTypes, FlagTypes, Claims
  <2>4. LatchTypes' BY <1>0 DEF TypeOK, LatchTypes
  <2>5. LocalTypes' BY <1>0 DEF TypeOK, LocalTypes
  <2>6. PointTypes' BY <1>0 DEF TypeOK, PointTypes
  <2>7. CountTypes' BY <1>0 DEF TypeOK, CountTypes
  <2>8. QED BY <2>1, <2>2, <2>3, <2>4, <2>5, <2>6, <2>7 DEF TypeOK
<1>2. LockInv' BY <1>0 DEF LockInv
<1>3. RowInv' BY <1>0 DEF RowInv, LockInv
<1>4. StaleInv' BY <1>0 DEF StaleInv
<1>5. FsInv' BY <1>0 DEF FsInv, RowInv, LockInv, StaleInv
<1>6. VerifiedInv' BY <1>0 DEF VerifiedInv, StaleInv, RowInv
<1>7. CleanInv' BY <1>0 DEF CleanInv, StaleInv, RowInv, LockInv
<1>8. AlertInv' BY <1>0 DEF AlertInv, LockInv
<1>9. QED BY <1>1, <1>2, <1>3, <1>4, <1>5, <1>6, <1>7, <1>8 DEF IndInv

LEMMA CompensateLockInv ==
  ASSUME IndInv, CompensateLock
  PROVE  IndInv'
<1> USE DEF CompensateLock, CompensationFailed
<1>0. TypeOK /\ LockInv /\ RowInv /\ StaleInv /\ FsInv /\ VerifiedInv /\ CleanInv /\ AlertInv
  BY DEF IndInv
<1>f. LET f == Failed(mem, "permissions", RetryAt)
      IN  f \in Windows /\ f.state = "relock_failed" /\ f.root = mem.root /\ f.id = mem.id
  BY <1>0, FailedFacts, RetryAtFact DEF TypeOK, Failures
<1>1. TypeOK'
  <2>1. window' \in Windows /\ mem' \in Windows
    BY <1>0, <1>f DEF TypeOK
  <2>2. RowTypes' BY <1>0 DEF TypeOK, RowTypes
  <2>3. ClaimTypes' /\ FlagTypes' BY <1>0 DEF TypeOK, ClaimTypes, FlagTypes, Claims
  <2>4. LatchTypes' BY <1>0 DEF TypeOK, LatchTypes
  <2>5. LocalTypes' BY <1>0 DEF TypeOK, LocalTypes
  <2>6. PointTypes' BY <1>0 DEF TypeOK, PointTypes
  <2>7. CountTypes' BY <1>0, RetryAtFact DEF TypeOK, CountTypes
  <2>8. QED BY <2>1, <2>2, <2>3, <2>4, <2>5, <2>6, <2>7 DEF TypeOK
<1>2. LockInv' BY <1>0, <1>f DEF LockInv
<1>3. RowInv' BY <1>0, <1>f DEF RowInv
<1>4. StaleInv' BY <1>0, <1>f DEF StaleInv
<1>5. FsInv' BY <1>0, <1>f DEF FsInv, RowInv, LockInv, StaleInv
<1>6. VerifiedInv' BY <1>0, <1>f DEF VerifiedInv
<1>7. CleanInv' BY <1>0, <1>f DEF CleanInv
<1>8. AlertInv' BY <1>0, <1>f DEF AlertInv
<1>9. QED BY <1>1, <1>2, <1>3, <1>4, <1>5, <1>6, <1>7, <1>8 DEF IndInv

LEMMA CompensateVerifyInv ==
  ASSUME IndInv, CompensateVerify
  PROVE  IndInv'
<1> USE DEF CompensateVerify, CompensationFailed
<1>0. TypeOK /\ LockInv /\ RowInv /\ StaleInv /\ FsInv /\ VerifiedInv /\ CleanInv /\ AlertInv
  BY DEF IndInv
<1>f. LET f == Failed(mem, "verification", RetryAt)
      IN  f \in Windows /\ f.state = "relock_failed" /\ f.root = mem.root /\ f.id = mem.id
  BY <1>0, FailedFacts, RetryAtFact DEF TypeOK, Failures
<1>1. TypeOK'
  <2>1. window' \in Windows /\ mem' \in Windows
    <3>1. [mem EXCEPT !.state = "unknown", !.failure = "unlock_not_committed"] \in Windows
      BY <1>0 DEF TypeOK, Windows, WindowStates, Failures
    <3>2. QED BY <1>0, <1>f, <3>1 DEF TypeOK
  <2>2. RowTypes' BY <1>0 DEF TypeOK, RowTypes
  <2>3. ClaimTypes' /\ FlagTypes' BY <1>0 DEF TypeOK, ClaimTypes, FlagTypes, Claims
  <2>4. LatchTypes' BY <1>0 DEF TypeOK, LatchTypes
  <2>5. LocalTypes' BY <1>0 DEF TypeOK, LocalTypes
  <2>6. PointTypes' BY <1>0 DEF TypeOK, PointTypes
  <2>7. CountTypes' BY <1>0, RetryAtFact DEF TypeOK, CountTypes
  <2>8. QED BY <2>1, <2>2, <2>3, <2>4, <2>5, <2>6, <2>7 DEF TypeOK
<1>2. LockInv' BY <1>0, <1>f DEF LockInv
<1>3. RowInv' BY <1>0, <1>f DEF RowInv, LockInv, TypeOK, Windows, WindowStates
<1>4. StaleInv' BY <1>0, <1>f DEF StaleInv
<1>5. FsInv' BY <1>0, <1>f DEF FsInv
<1>6. VerifiedInv' BY <1>0, <1>f DEF VerifiedInv
<1>7. CleanInv' BY <1>0, <1>f DEF CleanInv
<1>8. AlertInv' BY <1>0, <1>f DEF AlertInv
<1>9. QED BY <1>1, <1>2, <1>3, <1>4, <1>5, <1>6, <1>7, <1>8 DEF IndInv

LEMMA ExtendBeginInv ==
  ASSUME NEW r \in Requests, NEW k \in ExtendSpans, IndInv, ExtendBegin(r, k)
  PROVE  IndInv'
<1> USE DEF ExtendBegin
<1>0. TypeOK /\ LockInv /\ RowInv /\ StaleInv /\ FsInv /\ VerifiedInv /\ CleanInv /\ AlertInv
  BY DEF IndInv
<1>1. TypeOK'
  <2>1. window' \in Windows /\ mem' \in Windows
    <3>1. window.expires + k \in Nat
      BY <1>0, MaintenanceAssumption DEF TypeOK, Windows
    <3>2. window.verified + VerifySpan \in Nat
      BY <1>0, MaintenanceAssumption DEF TypeOK, Windows
    <3>3. QED BY <1>0, <3>1, <3>2 DEF TypeOK, Windows
  <2>2. RowTypes' BY <1>0 DEF TypeOK, RowTypes
  <2>3. ClaimTypes' /\ FlagTypes' BY <1>0 DEF TypeOK, ClaimTypes, FlagTypes, Claims
  <2>4. LatchTypes' BY <1>0 DEF TypeOK, LatchTypes
  <2>5. LocalTypes' BY <1>0 DEF TypeOK, LocalTypes
  <2>6. PointTypes' BY <1>0 DEF TypeOK, PointTypes
  <2>7. CountTypes' BY <1>0 DEF TypeOK, CountTypes
  <2>8. QED BY <2>1, <2>2, <2>3, <2>4, <2>5, <2>6, <2>7 DEF TypeOK
<1>2. LockInv' BY <1>0 DEF LockInv
<1>3. RowInv' BY <1>0 DEF RowInv
<1>4. StaleInv' BY <1>0 DEF StaleInv
<1>5. FsInv' BY <1>0 DEF FsInv
<1>6. VerifiedInv'
  BY <1>0, MaintenanceAssumption
     DEF VerifiedInv, StaleInv, RowInv, TypeOK, RowTypes, CountTypes, Windows
<1>7. CleanInv' BY <1>0 DEF CleanInv
<1>8. AlertInv' BY <1>0 DEF AlertInv
<1>9. QED BY <1>1, <1>2, <1>3, <1>4, <1>5, <1>6, <1>7, <1>8 DEF IndInv

LEMMA ExtendCheckInv ==
  ASSUME IndInv, ExtendCheck
  PROVE  IndInv'
<1> USE DEF ExtendCheck
<1>0. TypeOK /\ LockInv /\ RowInv /\ StaleInv /\ FsInv /\ VerifiedInv /\ CleanInv /\ AlertInv
  BY DEF IndInv
<1>1. TypeOK'
  <2>1. window' \in Windows /\ mem' \in Windows
    BY <1>0, NoWindowFacts DEF TypeOK
  <2>2. RowTypes' BY <1>0 DEF TypeOK, RowTypes
  <2>3. ClaimTypes' /\ FlagTypes' BY <1>0 DEF TypeOK, ClaimTypes, FlagTypes, Claims
  <2>4. LatchTypes' BY <1>0 DEF TypeOK, LatchTypes
  <2>5. LocalTypes' BY <1>0 DEF TypeOK, LocalTypes
  <2>6. PointTypes' BY <1>0 DEF TypeOK, PointTypes
  <2>7. CountTypes' BY <1>0 DEF TypeOK, CountTypes
  <2>8. QED BY <2>1, <2>2, <2>3, <2>4, <2>5, <2>6, <2>7 DEF TypeOK
<1>2. LockInv' BY <1>0 DEF LockInv
<1>3. RowInv' BY <1>0 DEF RowInv
<1>4. StaleInv' BY <1>0 DEF StaleInv
<1>5. FsInv' BY <1>0 DEF FsInv
<1>6. VerifiedInv' BY <1>0 DEF VerifiedInv
<1>7. CleanInv' BY <1>0 DEF CleanInv
<1>8. AlertInv' BY <1>0 DEF AlertInv
<1>9. QED BY <1>1, <1>2, <1>3, <1>4, <1>5, <1>6, <1>7, <1>8 DEF IndInv

LEMMA SaveExtendInv ==
  ASSUME IndInv, SaveExtend
  PROVE  IndInv'
<1> USE DEF SaveExtend
<1>0. TypeOK /\ LockInv /\ RowInv /\ StaleInv /\ FsInv /\ VerifiedInv /\ CleanInv /\ AlertInv
  BY DEF IndInv
<1>1. TypeOK'
  <2>1. window' \in Windows /\ mem' \in Windows
    BY <1>0, NoWindowFacts DEF TypeOK
  <2>2. RowTypes' BY <1>0 DEF TypeOK, RowTypes
  <2>3. ClaimTypes' /\ FlagTypes' BY <1>0 DEF TypeOK, ClaimTypes, FlagTypes, Claims
  <2>4. LatchTypes' BY <1>0 DEF TypeOK, LatchTypes
  <2>5. LocalTypes' BY <1>0 DEF TypeOK, LocalTypes
  <2>6. PointTypes' BY <1>0 DEF TypeOK, PointTypes
  <2>7. CountTypes' BY <1>0 DEF TypeOK, CountTypes
  <2>8. QED BY <2>1, <2>2, <2>3, <2>4, <2>5, <2>6, <2>7 DEF TypeOK
<1>2. LockInv' BY <1>0 DEF LockInv
<1>3. RowInv' BY <1>0 DEF RowInv, LockInv
<1>4. StaleInv' BY <1>0 DEF StaleInv
<1>5. FsInv' BY <1>0 DEF FsInv, RowInv, LockInv, StaleInv
<1>6. VerifiedInv' BY <1>0 DEF VerifiedInv
<1>7. CleanInv' BY <1>0 DEF CleanInv, StaleInv, RowInv, LockInv
<1>8. AlertInv' BY <1>0 DEF AlertInv, LockInv
<1>9. QED BY <1>1, <1>2, <1>3, <1>4, <1>5, <1>6, <1>7, <1>8 DEF IndInv

LEMMA PersistRestartInv ==
  ASSUME IndInv, PersistRestart
  PROVE  IndInv'
<1> USE DEF PersistRestart
<1>0. TypeOK /\ LockInv /\ RowInv /\ StaleInv /\ FsInv /\ VerifiedInv /\ CleanInv /\ AlertInv
  BY DEF IndInv
<1>f. LET f == Restarted(window)
      IN  f \in Windows /\ f.state = "relocking" /\ f.root = window.root /\ f.id = window.id
  BY <1>0, RestartedFacts DEF TypeOK
<1>1. TypeOK'
  <2>1. window' \in Windows /\ mem' \in Windows
    BY <1>0, <1>f DEF TypeOK
  <2>2. RowTypes' BY <1>0 DEF TypeOK, RowTypes
  <2>3. ClaimTypes' /\ FlagTypes' BY <1>0 DEF TypeOK, ClaimTypes, FlagTypes, Claims
  <2>4. LatchTypes' BY <1>0 DEF TypeOK, LatchTypes
  <2>5. LocalTypes' BY <1>0 DEF TypeOK, LocalTypes
  <2>6. PointTypes' BY <1>0 DEF TypeOK, PointTypes
  <2>7. CountTypes'
    <3>1. faults' = faults \/ faults' = faults + 1
      OBVIOUS
    <3>2. QED BY <1>0, <3>1 DEF TypeOK, CountTypes
  <2>8. QED BY <2>1, <2>2, <2>3, <2>4, <2>5, <2>6, <2>7 DEF TypeOK
<1>2. LockInv' BY <1>0, <1>f DEF LockInv
<1>3. RowInv'
  <2>1. CASE UNCHANGED window
    BY <1>0, <2>1 DEF RowInv
  <2>2. CASE HasWindow /\ window' = Restarted(window)
    BY <1>0, <1>f, <2>2 DEF RowInv, LockInv
  <2>3. QED BY <2>1, <2>2
<1>4. StaleInv' BY <1>0, <1>f DEF StaleInv
<1>5. FsInv' BY <1>0, <1>f DEF FsInv
<1>6. VerifiedInv' BY <1>0, <1>f DEF VerifiedInv
<1>7. CleanInv'
  <2>1. CASE UNCHANGED <<restarting, window>>
    BY <1>0, <2>1 DEF CleanInv
  <2>2. CASE window' = IF HasWindow THEN Restarted(window) ELSE window
    BY <1>0, <1>f, <2>2 DEF CleanInv, LockInv
  <2>3. QED BY <2>1, <2>2
<1>8. AlertInv' BY <1>0, <1>f DEF AlertInv
<1>9. QED BY <1>1, <1>2, <1>3, <1>4, <1>5, <1>6, <1>7, <1>8 DEF IndInv

LEMMA TickVisitInv ==
  ASSUME IndInv, TickVisit
  PROVE  IndInv'
<1> USE DEF TickVisit, RelockOwned
<1>0. TypeOK /\ LockInv /\ RowInv /\ StaleInv /\ FsInv /\ VerifiedInv /\ CleanInv /\ AlertInv
  BY DEF IndInv
<1>1. TypeOK'
  <2>1. window' \in Windows /\ mem' \in Windows
    BY <1>0, NoWindowFacts DEF TypeOK, Windows, WindowStates, Failures
  <2>2. RowTypes' BY <1>0 DEF TypeOK, RowTypes
  <2>3. ClaimTypes' /\ FlagTypes' BY <1>0 DEF TypeOK, ClaimTypes, FlagTypes, Claims
  <2>4. LatchTypes' BY <1>0 DEF TypeOK, LatchTypes
  <2>5. LocalTypes' BY <1>0 DEF TypeOK, LocalTypes
  <2>6. PointTypes' BY <1>0 DEF TypeOK, PointTypes
  <2>7. CountTypes' BY <1>0 DEF TypeOK, CountTypes
  <2>8. QED BY <2>1, <2>2, <2>3, <2>4, <2>5, <2>6, <2>7 DEF TypeOK
<1>2. LockInv' BY <1>0 DEF LockInv
<1>3. RowInv' BY <1>0 DEF RowInv, LockInv, TypeOK, Windows, WindowStates
<1>4. StaleInv' BY <1>0 DEF StaleInv, RowInv, LockInv
<1>5. FsInv' BY <1>0 DEF FsInv
<1>6. VerifiedInv' BY <1>0 DEF VerifiedInv
<1>7. CleanInv' BY <1>0 DEF CleanInv, StaleInv, RowInv, LockInv
<1>8. AlertInv' BY <1>0 DEF AlertInv
<1>9. QED BY <1>1, <1>2, <1>3, <1>4, <1>5, <1>6, <1>7, <1>8 DEF IndInv

LEMMA CrashInv ==
  ASSUME IndInv, Crash
  PROVE  IndInv'
<1> USE DEF Crash
<1>0. TypeOK /\ LockInv /\ RowInv /\ StaleInv /\ FsInv /\ VerifiedInv /\ CleanInv /\ AlertInv
  BY DEF IndInv
<1>1. TypeOK'
  <2>1. window' \in Windows /\ mem' \in Windows
    BY <1>0, NoWindowFacts DEF TypeOK
  <2>2. RowTypes' BY <1>0 DEF TypeOK, RowTypes
  <2>3. ClaimTypes' /\ FlagTypes' BY <1>0 DEF TypeOK, ClaimTypes, FlagTypes, Claims
  <2>4. LatchTypes' BY <1>0 DEF TypeOK, LatchTypes
  <2>5. LocalTypes' BY <1>0 DEF TypeOK, LocalTypes
  <2>6. PointTypes' BY <1>0 DEF TypeOK, PointTypes
  <2>7. CountTypes' BY <1>0 DEF TypeOK, CountTypes
  <2>8. QED BY <2>1, <2>2, <2>3, <2>4, <2>5, <2>6, <2>7 DEF TypeOK
<1>2. LockInv' BY <1>0 DEF LockInv
<1>3. RowInv' BY <1>0 DEF RowInv
<1>4. StaleInv' BY <1>0 DEF StaleInv
<1>5. FsInv' BY <1>0 DEF FsInv, RowInv, LockInv, StaleInv
<1>6. VerifiedInv' BY <1>0 DEF VerifiedInv
<1>7. CleanInv' BY <1>0 DEF CleanInv
<1>8. AlertInv' BY <1>0 DEF AlertInv
<1>9. QED BY <1>1, <1>2, <1>3, <1>4, <1>5, <1>6, <1>7, <1>8 DEF IndInv

LEMMA WriterInv ==
  ASSUME IndInv, Writer
  PROVE  IndInv'
<1> USE DEF Writer, SiteOpFree
<1>0. TypeOK /\ LockInv /\ RowInv /\ StaleInv /\ FsInv /\ VerifiedInv /\ CleanInv /\ AlertInv
  BY DEF IndInv
<1>1. TypeOK'
  <2>1. window' \in Windows /\ mem' \in Windows
    BY <1>0 DEF TypeOK
  <2>2. RowTypes' BY <1>0 DEF TypeOK, RowTypes
  <2>3. ClaimTypes' /\ FlagTypes' BY <1>0 DEF TypeOK, ClaimTypes, FlagTypes, Claims
  <2>4. LatchTypes' BY <1>0 DEF TypeOK, LatchTypes
  <2>5. LocalTypes' BY <1>0 DEF TypeOK, LocalTypes
  <2>6. PointTypes' BY <1>0 DEF TypeOK, PointTypes
  <2>7. CountTypes' BY <1>0 DEF TypeOK, CountTypes
  <2>8. QED BY <2>1, <2>2, <2>3, <2>4, <2>5, <2>6, <2>7 DEF TypeOK
<1>2. LockInv' BY <1>0 DEF LockInv
<1>3. RowInv' BY <1>0 DEF RowInv, LockInv
<1>4. StaleInv' BY <1>0 DEF StaleInv
<1>5. FsInv' BY <1>0 DEF FsInv
<1>6. VerifiedInv' BY <1>0 DEF VerifiedInv
<1>7. CleanInv' BY <1>0 DEF CleanInv
<1>8. AlertInv' BY <1>0 DEF AlertInv
<1>9. QED BY <1>1, <1>2, <1>3, <1>4, <1>5, <1>6, <1>7, <1>8 DEF IndInv

LEMMA ClaimEndInv ==
  ASSUME IndInv, ClaimEnd
  PROVE  IndInv'
<1> USE DEF ClaimEnd
<1>0. TypeOK /\ LockInv /\ RowInv /\ StaleInv /\ FsInv /\ VerifiedInv /\ CleanInv /\ AlertInv
  BY DEF IndInv
<1>1. TypeOK'
  <2>1. window' \in Windows /\ mem' \in Windows
    BY <1>0 DEF TypeOK
  <2>2. RowTypes' BY <1>0 DEF TypeOK, RowTypes
  <2>3. ClaimTypes' /\ FlagTypes' BY <1>0 DEF TypeOK, ClaimTypes, FlagTypes, Claims
  <2>4. LatchTypes' BY <1>0 DEF TypeOK, LatchTypes
  <2>5. LocalTypes' BY <1>0 DEF TypeOK, LocalTypes
  <2>6. PointTypes' BY <1>0 DEF TypeOK, PointTypes
  <2>7. CountTypes' BY <1>0 DEF TypeOK, CountTypes
  <2>8. QED BY <2>1, <2>2, <2>3, <2>4, <2>5, <2>6, <2>7 DEF TypeOK
<1>2. LockInv' BY <1>0 DEF LockInv
<1>3. RowInv' BY <1>0 DEF RowInv
<1>4. StaleInv' BY <1>0 DEF StaleInv
<1>5. FsInv' BY <1>0 DEF FsInv
<1>6. VerifiedInv' BY <1>0 DEF VerifiedInv
<1>7. CleanInv' BY <1>0 DEF CleanInv
<1>8. AlertInv' BY <1>0 DEF AlertInv
<1>9. QED BY <1>1, <1>2, <1>3, <1>4, <1>5, <1>6, <1>7, <1>8 DEF IndInv

LEMMA RollbackBeginInv ==
  ASSUME IndInv, RollbackBegin
  PROVE  IndInv'
<1> USE DEF RollbackBegin
<1>0. TypeOK /\ LockInv /\ RowInv /\ StaleInv /\ FsInv /\ VerifiedInv /\ CleanInv /\ AlertInv
  BY DEF IndInv
<1>1. TypeOK'
  <2>1. window' \in Windows /\ mem' \in Windows
    BY <1>0 DEF TypeOK
  <2>2. RowTypes' BY <1>0 DEF TypeOK, RowTypes
  <2>3. ClaimTypes' /\ FlagTypes' BY <1>0 DEF TypeOK, ClaimTypes, FlagTypes, Claims
  <2>4. LatchTypes' BY <1>0 DEF TypeOK, LatchTypes
  <2>5. LocalTypes' BY <1>0 DEF TypeOK, LocalTypes
  <2>6. PointTypes' BY <1>0 DEF TypeOK, PointTypes
  <2>7. CountTypes' BY <1>0 DEF TypeOK, CountTypes
  <2>8. QED BY <2>1, <2>2, <2>3, <2>4, <2>5, <2>6, <2>7 DEF TypeOK
<1>2. LockInv' BY <1>0 DEF LockInv
<1>3. RowInv' BY <1>0 DEF RowInv
<1>4. StaleInv' BY <1>0 DEF StaleInv
<1>5. FsInv' BY <1>0 DEF FsInv
<1>6. VerifiedInv' BY <1>0 DEF VerifiedInv
<1>7. CleanInv' BY <1>0 DEF CleanInv
<1>8. AlertInv' BY <1>0 DEF AlertInv
<1>9. QED BY <1>1, <1>2, <1>3, <1>4, <1>5, <1>6, <1>7, <1>8 DEF IndInv

LEMMA FileOpBeginInv ==
  ASSUME IndInv, FileOpBegin
  PROVE  IndInv'
<1> USE DEF FileOpBegin
<1>0. TypeOK /\ LockInv /\ RowInv /\ StaleInv /\ FsInv /\ VerifiedInv /\ CleanInv /\ AlertInv
  BY DEF IndInv
<1>1. TypeOK'
  <2>1. window' \in Windows /\ mem' \in Windows
    BY <1>0 DEF TypeOK
  <2>2. RowTypes' BY <1>0 DEF TypeOK, RowTypes
  <2>3. ClaimTypes' /\ FlagTypes' BY <1>0 DEF TypeOK, ClaimTypes, FlagTypes, Claims
  <2>4. LatchTypes' BY <1>0 DEF TypeOK, LatchTypes
  <2>5. LocalTypes' BY <1>0 DEF TypeOK, LocalTypes
  <2>6. PointTypes' BY <1>0 DEF TypeOK, PointTypes
  <2>7. CountTypes' BY <1>0 DEF TypeOK, CountTypes
  <2>8. QED BY <2>1, <2>2, <2>3, <2>4, <2>5, <2>6, <2>7 DEF TypeOK
<1>2. LockInv' BY <1>0 DEF LockInv
<1>3. RowInv' BY <1>0 DEF RowInv
<1>4. StaleInv' BY <1>0 DEF StaleInv
<1>5. FsInv' BY <1>0 DEF FsInv
<1>6. VerifiedInv' BY <1>0 DEF VerifiedInv
<1>7. CleanInv' BY <1>0 DEF CleanInv
<1>8. AlertInv' BY <1>0 DEF AlertInv
<1>9. QED BY <1>1, <1>2, <1>3, <1>4, <1>5, <1>6, <1>7, <1>8 DEF IndInv

LEMMA FileOpEndInv ==
  ASSUME IndInv, FileOpEnd
  PROVE  IndInv'
<1> USE DEF FileOpEnd
<1>0. TypeOK /\ LockInv /\ RowInv /\ StaleInv /\ FsInv /\ VerifiedInv /\ CleanInv /\ AlertInv
  BY DEF IndInv
<1>1. TypeOK'
  <2>1. window' \in Windows /\ mem' \in Windows
    BY <1>0, NoWindowFacts DEF TypeOK
  <2>2. RowTypes' BY <1>0 DEF TypeOK, RowTypes
  <2>3. ClaimTypes' /\ FlagTypes' BY <1>0 DEF TypeOK, ClaimTypes, FlagTypes, Claims
  <2>4. LatchTypes' BY <1>0 DEF TypeOK, LatchTypes
  <2>5. LocalTypes' BY <1>0 DEF TypeOK, LocalTypes
  <2>6. PointTypes' BY <1>0 DEF TypeOK, PointTypes
  <2>7. CountTypes' BY <1>0 DEF TypeOK, CountTypes
  <2>8. QED BY <2>1, <2>2, <2>3, <2>4, <2>5, <2>6, <2>7 DEF TypeOK
<1>2. LockInv' BY <1>0 DEF LockInv
<1>3. RowInv' BY <1>0 DEF RowInv
<1>4. StaleInv' BY <1>0 DEF StaleInv
<1>5. FsInv' BY <1>0 DEF FsInv
<1>6. VerifiedInv' BY <1>0 DEF VerifiedInv
<1>7. CleanInv' BY <1>0 DEF CleanInv
<1>8. AlertInv' BY <1>0 DEF AlertInv
<1>9. QED BY <1>1, <1>2, <1>3, <1>4, <1>5, <1>6, <1>7, <1>8 DEF IndInv

LEMMA SetApplyingInv ==
  ASSUME NEW enabled \in BOOLEAN, IndInv, SetApplying(enabled)
  PROVE  IndInv'
<1> USE DEF SetApplying, SiteOpFree
<1>0. TypeOK /\ LockInv /\ RowInv /\ StaleInv /\ FsInv /\ VerifiedInv /\ CleanInv /\ AlertInv
  BY DEF IndInv
<1>1. TypeOK'
  <2>1. window' \in Windows /\ mem' \in Windows
    BY <1>0, NoWindowFacts DEF TypeOK
  <2>2. RowTypes' BY <1>0 DEF TypeOK, RowTypes
  <2>3. ClaimTypes' /\ FlagTypes' BY <1>0 DEF TypeOK, ClaimTypes, FlagTypes, Claims
  <2>4. LatchTypes' BY <1>0 DEF TypeOK, LatchTypes
  <2>5. LocalTypes' BY <1>0 DEF TypeOK, LocalTypes
  <2>6. PointTypes' BY <1>0 DEF TypeOK, PointTypes
  <2>7. CountTypes' BY <1>0 DEF TypeOK, CountTypes
  <2>8. QED BY <2>1, <2>2, <2>3, <2>4, <2>5, <2>6, <2>7 DEF TypeOK
<1>2. LockInv' BY <1>0 DEF LockInv
<1>3. RowInv' BY <1>0 DEF RowInv
<1>4. StaleInv' BY <1>0 DEF StaleInv
<1>5. FsInv' BY <1>0 DEF FsInv
<1>6. VerifiedInv' BY <1>0 DEF VerifiedInv
<1>7. CleanInv' BY <1>0 DEF CleanInv
<1>8. AlertInv' BY <1>0 DEF AlertInv
<1>9. QED BY <1>1, <1>2, <1>3, <1>4, <1>5, <1>6, <1>7, <1>8 DEF IndInv

LEMMA SetFsInv ==
  ASSUME IndInv, SetFs
  PROVE  IndInv'
<1> USE DEF SetFs
<1>0. TypeOK /\ LockInv /\ RowInv /\ StaleInv /\ FsInv /\ VerifiedInv /\ CleanInv /\ AlertInv
  BY DEF IndInv
<1>1. TypeOK'
  <2>1. window' \in Windows /\ mem' \in Windows
    BY <1>0 DEF TypeOK
  <2>2. RowTypes' BY <1>0 DEF TypeOK, RowTypes
  <2>3. ClaimTypes' /\ FlagTypes' BY <1>0 DEF TypeOK, ClaimTypes, FlagTypes, Claims
  <2>4. LatchTypes' BY <1>0 DEF TypeOK, LatchTypes
  <2>5. LocalTypes' BY <1>0 DEF TypeOK, LocalTypes
  <2>6. PointTypes' BY <1>0 DEF TypeOK, PointTypes
  <2>7. CountTypes' BY <1>0 DEF TypeOK, CountTypes
  <2>8. QED BY <2>1, <2>2, <2>3, <2>4, <2>5, <2>6, <2>7 DEF TypeOK
<1>2. LockInv' BY <1>0 DEF LockInv
<1>3. RowInv' BY <1>0 DEF RowInv
<1>4. StaleInv' BY <1>0 DEF StaleInv
<1>5. FsInv'
  <2>1. applyStatus' = "applying" /\ ~HasWindow' /\ target' = target
    BY <1>0 DEF RowInv, LockInv
  <2>2. pc' # "saveUnlocked" /\ pc' # "commitLocked"
    OBVIOUS
  <2>3. ASSUME pc' = "setSave", ~astray' PROVE fs' = IF target THEN "locked" ELSE "open"
    BY <2>3
  <2>4. QED BY <2>1, <2>2, <2>3 DEF FsInv
<1>6. VerifiedInv' BY <1>0 DEF VerifiedInv
<1>7. CleanInv' BY <1>0 DEF CleanInv
<1>8. AlertInv' BY <1>0 DEF AlertInv
<1>9. QED BY <1>1, <1>2, <1>3, <1>4, <1>5, <1>6, <1>7, <1>8 DEF IndInv

LEMMA SetSaveInv ==
  ASSUME IndInv, SetSave
  PROVE  IndInv'
<1> USE DEF SetSave
<1>0. TypeOK /\ LockInv /\ RowInv /\ StaleInv /\ FsInv /\ VerifiedInv /\ CleanInv /\ AlertInv
  BY DEF IndInv
<1>1. TypeOK'
  <2>1. window' \in Windows /\ mem' \in Windows
    BY <1>0, NoWindowFacts DEF TypeOK
  <2>2. RowTypes' BY <1>0 DEF TypeOK, RowTypes
  <2>3. ClaimTypes' /\ FlagTypes' BY <1>0 DEF TypeOK, LocalTypes, ClaimTypes, Claims, FlagTypes
  <2>4. LatchTypes' BY <1>0 DEF TypeOK, LatchTypes
  <2>5. LocalTypes' BY <1>0 DEF TypeOK, LocalTypes
  <2>6. PointTypes' BY <1>0 DEF TypeOK, PointTypes
  <2>7. CountTypes' BY <1>0 DEF TypeOK, CountTypes
  <2>8. QED BY <2>1, <2>2, <2>3, <2>4, <2>5, <2>6, <2>7 DEF TypeOK
<1>2. LockInv' BY <1>0 DEF LockInv
<1>3. RowInv' BY <1>0 DEF RowInv, LockInv
<1>4. StaleInv' BY <1>0 DEF StaleInv
<1>5. FsInv' BY <1>0 DEF FsInv
<1>6. VerifiedInv' BY <1>0 DEF VerifiedInv
<1>7. CleanInv' BY <1>0 DEF CleanInv
<1>8. AlertInv' BY <1>0 DEF AlertInv
<1>9. QED BY <1>1, <1>2, <1>3, <1>4, <1>5, <1>6, <1>7, <1>8 DEF IndInv

LEMMA SetFailedInv ==
  ASSUME IndInv, SetFailed
  PROVE  IndInv'
<1> USE DEF SetFailed
<1>0. TypeOK /\ LockInv /\ RowInv /\ StaleInv /\ FsInv /\ VerifiedInv /\ CleanInv /\ AlertInv
  BY DEF IndInv
<1>1. TypeOK'
  <2>1. window' \in Windows /\ mem' \in Windows
    BY <1>0, NoWindowFacts DEF TypeOK
  <2>2. RowTypes' BY <1>0 DEF TypeOK, RowTypes
  <2>3. ClaimTypes' /\ FlagTypes' BY <1>0 DEF TypeOK, ClaimTypes, FlagTypes, Claims
  <2>4. LatchTypes' BY <1>0 DEF TypeOK, LatchTypes
  <2>5. LocalTypes' BY <1>0 DEF TypeOK, LocalTypes
  <2>6. PointTypes' BY <1>0 DEF TypeOK, PointTypes
  <2>7. CountTypes' BY <1>0 DEF TypeOK, CountTypes
  <2>8. QED BY <2>1, <2>2, <2>3, <2>4, <2>5, <2>6, <2>7 DEF TypeOK
<1>2. LockInv' BY <1>0 DEF LockInv
<1>3. RowInv' BY <1>0 DEF RowInv
<1>4. StaleInv' BY <1>0 DEF StaleInv
<1>5. FsInv' BY <1>0 DEF FsInv
<1>6. VerifiedInv' BY <1>0 DEF VerifiedInv
<1>7. CleanInv' BY <1>0 DEF CleanInv
<1>8. AlertInv' BY <1>0 DEF AlertInv
<1>9. QED BY <1>1, <1>2, <1>3, <1>4, <1>5, <1>6, <1>7, <1>8 DEF IndInv

LEMMA UpdateUnlockInv ==
  ASSUME IndInv, UpdateUnlock
  PROVE  IndInv'
<1> USE DEF UpdateUnlock, Sweep, SweepFails, Swept
<1>0. TypeOK /\ LockInv /\ RowInv /\ StaleInv /\ FsInv /\ VerifiedInv /\ CleanInv /\ AlertInv
  BY DEF IndInv
<1>1. TypeOK'
  <2>1. window' \in Windows /\ mem' \in Windows
    BY <1>0 DEF TypeOK
  <2>2. RowTypes' BY <1>0 DEF TypeOK, RowTypes
  <2>3. ClaimTypes' /\ FlagTypes' BY <1>0 DEF TypeOK, ClaimTypes, FlagTypes, Claims
  <2>4. LatchTypes' BY <1>0 DEF TypeOK, LatchTypes
  <2>5. LocalTypes' BY <1>0 DEF TypeOK, LocalTypes
  <2>6. PointTypes' BY <1>0 DEF TypeOK, PointTypes
  <2>7. CountTypes' BY <1>0 DEF TypeOK, CountTypes
  <2>8. QED BY <2>1, <2>2, <2>3, <2>4, <2>5, <2>6, <2>7 DEF TypeOK
<1>2. LockInv' BY <1>0 DEF LockInv
<1>3. RowInv' BY <1>0 DEF RowInv
<1>4. StaleInv' BY <1>0 DEF StaleInv
<1>5. FsInv' BY <1>0 DEF FsInv, RowInv, LockInv
<1>6. VerifiedInv' BY <1>0 DEF VerifiedInv
<1>7. CleanInv' BY <1>0 DEF CleanInv
<1>8. AlertInv' BY <1>0 DEF AlertInv
<1>9. QED BY <1>1, <1>2, <1>3, <1>4, <1>5, <1>6, <1>7, <1>8 DEF IndInv

LEMMA UpdateWriteInv ==
  ASSUME IndInv, UpdateWrite
  PROVE  IndInv'
<1> USE DEF UpdateWrite
<1>0. TypeOK /\ LockInv /\ RowInv /\ StaleInv /\ FsInv /\ VerifiedInv /\ CleanInv /\ AlertInv
  BY DEF IndInv
<1>1. TypeOK'
  <2>1. window' \in Windows /\ mem' \in Windows
    BY <1>0 DEF TypeOK
  <2>2. RowTypes' BY <1>0 DEF TypeOK, RowTypes
  <2>3. ClaimTypes' /\ FlagTypes' BY <1>0 DEF TypeOK, ClaimTypes, FlagTypes, Claims
  <2>4. LatchTypes' BY <1>0 DEF TypeOK, LatchTypes
  <2>5. LocalTypes' BY <1>0 DEF TypeOK, LocalTypes
  <2>6. PointTypes' BY <1>0 DEF TypeOK, PointTypes
  <2>7. CountTypes' BY <1>0 DEF TypeOK, CountTypes
  <2>8. QED BY <2>1, <2>2, <2>3, <2>4, <2>5, <2>6, <2>7 DEF TypeOK
<1>2. LockInv' BY <1>0 DEF LockInv
<1>3. RowInv' BY <1>0 DEF RowInv
<1>4. StaleInv' BY <1>0 DEF StaleInv
<1>5. FsInv' BY <1>0 DEF FsInv, RowInv, LockInv
<1>6. VerifiedInv' BY <1>0 DEF VerifiedInv
<1>7. CleanInv' BY <1>0 DEF CleanInv
<1>8. AlertInv' BY <1>0 DEF AlertInv
<1>9. QED BY <1>1, <1>2, <1>3, <1>4, <1>5, <1>6, <1>7, <1>8 DEF IndInv

LEMMA UpdateRelockInv ==
  ASSUME IndInv, UpdateRelock
  PROVE  IndInv'
<1> USE DEF UpdateRelock, Sweep, SweepFails, Swept
<1>0. TypeOK /\ LockInv /\ RowInv /\ StaleInv /\ FsInv /\ VerifiedInv /\ CleanInv /\ AlertInv
  BY DEF IndInv
<1>1. TypeOK'
  <2>1. window' \in Windows /\ mem' \in Windows
    BY <1>0 DEF TypeOK
  <2>2. RowTypes' BY <1>0 DEF TypeOK, RowTypes
  <2>3. ClaimTypes' /\ FlagTypes' BY <1>0 DEF TypeOK, ClaimTypes, FlagTypes, Claims
  <2>4. LatchTypes' BY <1>0 DEF TypeOK, LatchTypes
  <2>5. LocalTypes' BY <1>0 DEF TypeOK, LocalTypes
  <2>6. PointTypes' BY <1>0 DEF TypeOK, PointTypes
  <2>7. CountTypes' BY <1>0 DEF TypeOK, CountTypes
  <2>8. QED BY <2>1, <2>2, <2>3, <2>4, <2>5, <2>6, <2>7 DEF TypeOK
<1>2. LockInv' BY <1>0 DEF LockInv
<1>3. RowInv' BY <1>0 DEF RowInv
<1>4. StaleInv' BY <1>0 DEF StaleInv
<1>5. FsInv' BY <1>0 DEF FsInv, RowInv, LockInv
<1>6. VerifiedInv' BY <1>0 DEF VerifiedInv
<1>7. CleanInv' BY <1>0 DEF CleanInv
<1>8. AlertInv' BY <1>0 DEF AlertInv
<1>9. QED BY <1>1, <1>2, <1>3, <1>4, <1>5, <1>6, <1>7, <1>8 DEF IndInv

LEMMA AdvanceClockInv ==
  ASSUME IndInv, AdvanceClock
  PROVE  IndInv'
<1> USE DEF AdvanceClock
<1>0. TypeOK /\ LockInv /\ RowInv /\ StaleInv /\ FsInv /\ VerifiedInv /\ CleanInv /\ AlertInv
  BY DEF IndInv
<1>1. TypeOK'
  <2>1. window' \in Windows /\ mem' \in Windows
    BY <1>0 DEF TypeOK
  <2>2. RowTypes' BY <1>0 DEF TypeOK, RowTypes
  <2>3. ClaimTypes' /\ FlagTypes' BY <1>0 DEF TypeOK, ClaimTypes, FlagTypes, Claims
  <2>4. LatchTypes' BY <1>0 DEF TypeOK, LatchTypes
  <2>5. LocalTypes' BY <1>0 DEF TypeOK, LocalTypes
  <2>6. PointTypes' BY <1>0 DEF TypeOK, PointTypes
  <2>7. CountTypes' BY <1>0 DEF TypeOK, CountTypes
  <2>8. QED BY <2>1, <2>2, <2>3, <2>4, <2>5, <2>6, <2>7 DEF TypeOK
<1>2. LockInv' BY <1>0 DEF LockInv
<1>3. RowInv' BY <1>0 DEF RowInv
<1>4. StaleInv' BY <1>0 DEF StaleInv
<1>5. FsInv' BY <1>0 DEF FsInv
<1>6. VerifiedInv' BY <1>0 DEF VerifiedInv
<1>7. CleanInv' BY <1>0 DEF CleanInv
<1>8. AlertInv' BY <1>0 DEF AlertInv
<1>9. QED BY <1>1, <1>2, <1>3, <1>4, <1>5, <1>6, <1>7, <1>8 DEF IndInv

-----------------------------------------------------------------------------
(* The invariant holds in every reachable state *)

LEMMA InitInv ==
  ASSUME Init
  PROVE  IndInv
<1> USE DEF Init
<1>1. TypeOK
  <2>1. NoWindow.root \in Roots
    BY NoWindowFacts DEF Windows
  <2>2. QED
    BY <2>1, NoWindowFacts, MaintenanceAssumption
       DEF TypeOK, RowTypes, ClaimTypes, Claims, FlagTypes, LatchTypes, LocalTypes, PointTypes, CountTypes
<1>2. LockInv /\ StaleInv
  BY NoWindowFacts DEF LockInv, StaleInv
<1>3. RowInv
  BY NoWindowFacts DEF RowInv
<1>4. FsInv
  BY NoWindowFacts DEF FsInv
<1>5. VerifiedInv /\ CleanInv
  BY NoWindowFacts DEF VerifiedInv, CleanInv
<1>6. AlertInv
  BY NoWindowFacts DEF AlertInv
<1>7. QED BY <1>1, <1>2, <1>3, <1>4, <1>5, <1>6 DEF IndInv

LEMMA StutterInv ==
  ASSUME IndInv, UNCHANGED vars
  PROVE  IndInv'
<1> USE DEF vars
<1>0. TypeOK /\ LockInv /\ RowInv /\ StaleInv /\ FsInv /\ VerifiedInv /\ CleanInv /\ AlertInv
  BY DEF IndInv
<1>1. TypeOK'
  BY <1>0 DEF TypeOK, RowTypes, ClaimTypes, Claims, FlagTypes, LatchTypes, LocalTypes, PointTypes, CountTypes
<1>2. LockInv' /\ RowInv' /\ StaleInv' /\ FsInv'
  BY <1>0 DEF LockInv, RowInv, StaleInv, FsInv
<1>3. VerifiedInv' /\ CleanInv' /\ AlertInv'
  BY <1>0 DEF VerifiedInv, CleanInv, AlertInv
<1>4. QED BY <1>1, <1>2, <1>3 DEF IndInv

LEMMA OpStepInv ==
  ASSUME IndInv, OpStep
  PROVE  IndInv'
BY SaveIntentInv, UnlockFsInv, SaveUnlockedInv, UnlockDoneInv, SaveRelockingInv, LockFsInv,
   VerifyFsInv, CommitLockedInv, SaveFailedInv, CompensateLockInv, CompensateVerifyInv,
   ExtendCheckInv, SaveExtendInv, FileOpEndInv, SetFsInv, SetSaveInv, SetFailedInv
   DEF OpStep

LEMMA NextInv ==
  ASSUME IndInv, [Next]_vars
  PROVE  IndInv'
<1>1. ASSUME NEW r \in Requests, UnlockBegin(r) PROVE IndInv'
  BY <1>1, UnlockBeginInv
<1>2. ASSUME NEW r \in Requests, NEW k \in ExtendSpans, ExtendBegin(r, k) PROVE IndInv'
  BY <1>2, ExtendBeginInv
<1>3. ASSUME NEW enabled \in BOOLEAN, SetApplying(enabled) PROVE IndInv'
  BY <1>3, SetApplyingInv
<1>4. CASE PasswordUnsaved \/ Relock \/ PersistRestart \/ TickVisit \/ Crash
  BY <1>4, PasswordUnsavedInv, RelockInv, PersistRestartInv, TickVisitInv, CrashInv
<1>5. CASE Writer \/ ClaimEnd \/ RollbackBegin \/ FileOpBegin \/ OpStep \/ AdvanceClock
  BY <1>5, WriterInv, ClaimEndInv, RollbackBeginInv, FileOpBeginInv, OpStepInv, AdvanceClockInv
<1>6. CASE UpdateUnlock \/ UpdateStep
  BY <1>6, UpdateUnlockInv, UpdateWriteInv, UpdateRelockInv DEF UpdateStep
<1>7. CASE UNCHANGED vars
  BY <1>7, StutterInv
<1>8. QED BY <1>1, <1>2, <1>3, <1>4, <1>5, <1>6, <1>7 DEF Next

\* The inductive invariant: what each control point of an operation fixes.
THEOREM MaintenanceInvariant == Spec => []IndInv
<1>1. Init => IndInv
  BY InitInv
<1>2. IndInv /\ [Next]_vars => IndInv'
  BY NextInv
<1>3. QED BY <1>1, <1>2, PTL DEF Spec

\* Every variable keeps its type (the records of maintenance_security and of the slot).
THEOREM TypeCorrect == Spec => []TypeOK
<1>1. IndInv => TypeOK
  BY DEF IndInv
<1>2. QED BY <1>1, MaintenanceInvariant, PTL

\* What Status reports as locked or unlocked is true of the files, through every
\* failed or interrupted operation, unless an update has left them out of step.
THEOREM StatusIsHonest == Spec => []StatusHonest
<1>1. IndInv => StatusHonest
  <2> SUFFICES ASSUME IndInv PROVE StatusHonest
    OBVIOUS
  <2>1. FsInv /\ RowInv /\ RowTypes /\ window.state \in WindowStates
    BY DEF IndInv, TypeOK, Windows
  <2>2. CASE HasWindow
    BY <2>1, <2>2 DEF Status, StatusHonest, FsInv, RowInv, WindowStates
  <2>3. CASE ~HasWindow
    BY <2>1, <2>3 DEF Status, StatusHonest, FsInv, RowInv, RowTypes
  <2>4. QED BY <2>2, <2>3
<1>2. QED BY <1>1, MaintenanceInvariant, PTL

\* The row calls a lock "ready" only over locked files, at every point where a
\* crash may leave it, unless an update has left them out of step.
THEOREM ReadyIsLocked == Spec => []ReadyMeansLocked
<1>1. IndInv => ReadyMeansLocked
  BY DEF IndInv, FsInv, ReadyMeansLocked
<1>2. QED BY <1>1, MaintenanceInvariant, PTL

\* A window and a durable claim taken under the slot never exist together.
THEOREM WindowsExcludeClaims == Spec => []WindowExcludesClaims
<1>1. IndInv => WindowExcludesClaims
  BY DEF IndInv, TypeOK, ClaimTypes, Claims, RowInv, WindowExcludesClaims
<1>2. QED BY <1>1, MaintenanceInvariant, PTL

\* The site does not move while it has a window.
THEOREM WindowsKeepRoot == Spec => []WindowKeepsRoot
<1>1. IndInv => WindowKeepsRoot
  BY DEF IndInv, RowInv, WindowKeepsRoot
<1>2. QED BY <1>1, MaintenanceInvariant, PTL

\* A window is open only for as long as the password was verified.
THEOREM WindowIsVerified == Spec => []VerifiedCoversWindow
<1>1. IndInv => VerifiedCoversWindow
  BY DEF IndInv, VerifiedInv, VerifiedCoversWindow
<1>2. QED BY <1>1, MaintenanceInvariant, PTL

\* relockOwned absorbs changes into the integrity baseline only after a window
\* that no failure and no restart has touched.
THEOREM AbsorbsOnlyClean == Spec => []AbsorbOnlyClean
<1>1. IndInv => AbsorbOnlyClean
  BY DEF IndInv, CleanInv, AbsorbOnlyClean
<1>2. QED BY <1>1, MaintenanceInvariant, PTL

\* A window raises at most one relock_failed alert in a process.
THEOREM AlertsOnce == Spec => []AlertOnce
<1>1. IndInv => AlertOnce
  BY DEF IndInv, AlertInv, AlertOnce
<1>2. QED BY <1>1, MaintenanceInvariant, PTL

-----------------------------------------------------------------------------
(* The relock of a window is final *)

KeepsClosed == window.state \notin {"none", "unlocking", "unlocked"} /\ window'.id = window.id
                 => window'.state # "unlocked"

\* The steps of an operation that write the row; the others leave it alone.
LEMMA SavesKeepClosed ==
  ASSUME IndInv,
         SaveIntent \/ SaveUnlocked \/ SaveRelocking \/ CommitLocked \/ SaveFailed \/ SaveExtend
  PROVE  KeepsClosed
<1>0. RowInv /\ LockInv /\ StaleInv
  BY DEF IndInv
<1>1. CASE SaveIntent
  BY <1>0, <1>1 DEF SaveIntent, LockInv, KeepsClosed
<1>2. CASE SaveUnlocked
  BY <1>0, <1>2 DEF SaveUnlocked, StaleInv, KeepsClosed
<1>3. CASE SaveRelocking
  BY <1>0, <1>3 DEF SaveRelocking, RowInv, KeepsClosed
<1>4. CASE CommitLocked
  BY <1>0, <1>4, NoWindowFacts DEF CommitLocked, KeepsClosed
<1>5. CASE SaveFailed
  BY <1>0, <1>5 DEF SaveFailed, RowInv, KeepsClosed
<1>6. CASE SaveExtend
  BY <1>0, <1>6 DEF SaveExtend, StaleInv, KeepsClosed
<1>7. QED BY <1>1, <1>2, <1>3, <1>4, <1>5, <1>6

\* Once a relock has begun, no step makes the same window usable again.
THEOREM RelocksAreFinal == Spec => RelockIsFinal
<1>1. IndInv /\ [Next]_vars => KeepsClosed
  <2> SUFFICES ASSUME IndInv, [Next]_vars PROVE KeepsClosed
    OBVIOUS
  <2>1. CASE UNCHANGED window
    BY <2>1 DEF KeepsClosed
  <2>2. CASE PersistRestart
    <3>1. Restarted(window).state = "relocking"
      BY RestartedFacts DEF IndInv, TypeOK
    <3>2. QED BY <2>2, <3>1 DEF PersistRestart, KeepsClosed
  <2>3. CASE SaveIntent \/ SaveUnlocked \/ SaveRelocking \/ CommitLocked \/ SaveFailed \/ SaveExtend
    BY <2>3, SavesKeepClosed
  <2>4. [Next]_vars => UNCHANGED window \/ PersistRestart \/ SaveIntent \/ SaveUnlocked
                       \/ SaveRelocking \/ CommitLocked \/ SaveFailed \/ SaveExtend
    BY DEF Next, OpStep, vars, UnlockBegin, ExtendBegin, PasswordUnsaved, Relock, RelockOwned,
           TickVisit, Crash, Writer, ClaimEnd, RollbackBegin, FileOpBegin, UnlockFs,
           UnlockDone, LockFs, VerifyFs, CompensateLock, CompensateVerify, ExtendCheck,
           UpdateUnlock, UpdateStep, UpdateWrite, UpdateRelock,
           FileOpEnd, SetApplying, SetFs, SetSave, SetFailed, AdvanceClock
  <2>5. QED BY <2>1, <2>2, <2>3, <2>4
<1>2. QED BY <1>1, MaintenanceInvariant, PTL DEF Spec, RelockIsFinal, KeepsClosed

=============================================================================
