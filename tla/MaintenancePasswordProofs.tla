---------------------- MODULE MaintenancePasswordProofs ----------------------
(***************************************************************************)
(* Proofs about the password verification of the maintenance window: how   *)
(* many wrong passwords are compared in a span of time, and that a refused *)
(* request is not compared again.                                          *)
(*                                                                         *)
(* What makes both hold is that the row remembers every refusal as long as *)
(* it matters, and that the last counted failures expire before the freeze *)
(* they caused does.                                                       *)
(***************************************************************************)
EXTENDS MaintenancePassword, FiniteSetTheorems, TLAPS

Records == [id : Requests, at : Nat]
Counted(at) == {f \in failures : f.at + FreezeSpan > at}
Refused(t) == {q \in refused : q.at <= t /\ q.at + FreezeSpan > t}

\* The counters stay finite, and nothing in them is of the future.
Finite == IsFiniteSet(failures) /\ IsFiniteSet(refused)
Past == /\ \A q \in refused : q.at <= now
        /\ \A f \in failures : f.at <= now

\* The row remembers every refusal of the rolling window.
Remembered == \A q \in refused : Recent(q.at) => q \in failedRequests /\ q \in failures

\* A full window freezes the site, and a freeze outlives what it was set for.
FullIsFrozen == Cardinality(Counted(now)) >= MaxFailures => Frozen
FreezeOutlives == Frozen => \A f \in failures : f.at + FreezeSpan <= frozenUntil

Limit == \A t \in 0 .. now : Cardinality(Refused(t)) <= MaxFailures

Inv == /\ TypeOK /\ Finite /\ Past /\ Remembered
       /\ FullIsFrozen /\ FreezeOutlives /\ Limit /\ ReplayNotCounted

-----------------------------------------------------------------------------
(* Lemmas about cardinality.                                               *)

LEMMA Fewer ==
  ASSUME NEW S, NEW T, IsFiniteSet(T), S \subseteq T
  PROVE  /\ IsFiniteSet(S) /\ Cardinality(S) \in Nat /\ Cardinality(T) \in Nat
         /\ Cardinality(S) <= Cardinality(T)
  BY FS_Subset, FS_CardinalityType

LEMMA OneMore ==
  ASSUME NEW S, NEW x, IsFiniteSet(S)
  PROVE  /\ IsFiniteSet(S \cup {x}) /\ Cardinality(S) \in Nat
         /\ Cardinality(S \cup {x}) \in Nat
         /\ Cardinality(S \cup {x}) <= Cardinality(S) + 1
  BY FS_AddElement, FS_CardinalityType

-----------------------------------------------------------------------------

LEMMA InitInv == Init => Inv
  <1> SUFFICES ASSUME Init PROVE Inv  OBVIOUS
  <1> USE MaintenancePasswordAssumption
  <1>1. IsFiniteSet({}) /\ Cardinality({}) = 0  BY FS_EmptySet
  <1>2. TypeOK /\ Past /\ Remembered /\ ReplayNotCounted
    BY DEF Init, TypeOK, Past, Remembered, ReplayNotCounted, Recent
  <1>3. Finite  BY <1>1 DEF Init, Finite
  <1>4. Counted(now) = {}  BY DEF Init, Counted
  <1>5. \A t : Refused(t) = {}  BY DEF Init, Refused
  <1>6. FullIsFrozen /\ FreezeOutlives /\ Limit
    BY <1>1, <1>4, <1>5 DEF Init, FullIsFrozen, FreezeOutlives, Frozen, Limit
  <1> QED  BY <1>2, <1>3, <1>6 DEF Inv

\* What a step must leave alone for the invariant to be carried over: everything
\* it speaks of but the requests outside the window.
LEMMA Kept ==
  ASSUME Inv, UNCHANGED <<now, failures, frozenUntil, refused>>,
         TypeOK', failedRequests' \subseteq failedRequests,
         \A q \in failedRequests : Recent(q.at) => q \in failedRequests'
  PROVE  Inv'
  <1>1. Finite' /\ Past' /\ FreezeOutlives' /\ ReplayNotCounted'
    BY DEF Inv, Finite, Past, FreezeOutlives, Frozen, ReplayNotCounted
  <1>2. Remembered'  BY DEF Inv, Remembered, Recent
  <1>3. Counted(now)' = Counted(now)  BY DEF Counted
  <1>4. FullIsFrozen'  BY <1>3 DEF Inv, FullIsFrozen, Frozen
  <1>5. Limit'
    <2>1. \A t : Refused(t)' = Refused(t)  BY DEF Refused
    <2> QED  BY <2>1 DEF Inv, Limit
  <1> QED  BY <1>1, <1>2, <1>4, <1>5 DEF Inv

LEMMA ConfigureInv ==
  ASSUME Inv, NEW on \in BOOLEAN, NEW password \in Passwords \cup {NoPassword},
         Configure(on, password)
  PROVE  Inv'
  <1>1. TypeOK'
    <2>1. /\ hash' \in Passwords \cup {NoPassword} /\ enabled' \in BOOLEAN
          /\ enabled' => hash' # NoPassword
      BY DEF Inv, TypeOK, Configure
    <2>2. faults' \in Nat
      BY MaintenancePasswordAssumption DEF Inv, TypeOK, Configure, Fault
    <2> QED  BY <2>1, <2>2 DEF Inv, TypeOK, Configure, record
  <1> QED  BY <1>1, Kept DEF Configure, record

LEMMA RightPasswordInv ==
  ASSUME Inv, NEW r \in Requests, RightPassword(r)
  PROVE  Inv'
  <1>1. TypeOK'
    <2>1. (UNCHANGED <<latched, faults>>) \/ (Fault /\ latched' = TRUE)
      BY DEF RightPassword
    <2>2. faults' \in Nat
      BY <2>1, MaintenancePasswordAssumption DEF Inv, TypeOK, Fault
    <2>3. latched' \in BOOLEAN  BY <2>1 DEF Inv, TypeOK
    <2>4. failedRequests' \subseteq failedRequests  BY DEF RightPassword
    <2> QED  BY <2>2, <2>3, <2>4 DEF Inv, TypeOK, RightPassword
  <1>2. /\ failedRequests' \subseteq failedRequests
        /\ \A q \in failedRequests : Recent(q.at) => q \in failedRequests'
    BY DEF RightPassword
  <1> QED  BY <1>1, <1>2, Kept DEF RightPassword

LEMMA RereadInv ==
  ASSUME Inv, Reread
  PROVE  Inv'
  <1>1. TypeOK'  BY DEF Inv, TypeOK, Reread, record
  <1> QED  BY <1>1, Kept DEF Reread, record

LEMMA WrongPasswordInv ==
  ASSUME Inv, NEW r \in Requests, NEW password \in Passwords, WrongPassword(r, password)
  PROVE  Inv'
  <1> USE MaintenancePasswordAssumption
  <1>1. CASE Fault /\ latched' = TRUE /\ UNCHANGED <<record, refused>>
    <2>1. TypeOK'  BY <1>1 DEF Inv, TypeOK, WrongPassword, record, Fault
    <2> QED  BY <1>1, <2>1, Kept DEF WrongPassword, record
  <1>2. CASE ~(Fault /\ latched' = TRUE /\ UNCHANGED <<record, refused>>)
    <2> DEFINE new == [id |-> r, at |-> now]
               counted == Counted(now) \cup {new}
    <2>1. new \in Records /\ new.id = r /\ new.at = now
      BY DEF Inv, TypeOK, Records
    <2> HIDE DEF new
    <2>2. /\ failures' = counted
          /\ failedRequests' = {q \in failedRequests : Recent(q.at)} \cup {new}
          /\ refused' = refused \cup {new}
          /\ frozenUntil' = IF Cardinality(counted) >= MaxFailures THEN now + FreezeSpan
                                                                  ELSE frozenUntil
          /\ ~Frozen /\ ~Replayed(r)
          /\ UNCHANGED <<now, enabled, hash, latched, faults>>
      BY <1>2 DEF WrongPassword, Counted, Recent, new
    <2>3. Counted(now) \subseteq failures /\ now \in Nat /\ FreezeSpan \in Nat
      BY DEF Counted, Inv, TypeOK
    <2>4. /\ IsFiniteSet(Counted(now)) /\ Cardinality(Counted(now)) \in Nat
          /\ IsFiniteSet(counted) /\ Cardinality(counted) \in Nat
          /\ Cardinality(counted) <= Cardinality(Counted(now)) + 1
      BY <2>3, Fewer, OneMore DEF Inv, Finite
    <2> HIDE DEF counted
    <2>5. Cardinality(Counted(now)) < MaxFailures
      BY <2>2, <2>4 DEF Inv, FullIsFrozen
    <2>6. \A f \in counted : f.at <= now /\ f.at + FreezeSpan > now /\ f \in Records
      BY <2>1, <2>3 DEF counted, Counted, Inv, Past, TypeOK, Records
    <2>7. TypeOK'
      <3>1. counted \subseteq Records  BY <2>6
      <3>2. refused' \subseteq Records /\ failedRequests' \subseteq Records
        BY <2>1, <2>2 DEF Inv, TypeOK, Records
      <3>3. frozenUntil' \in Nat  BY <2>2 DEF Inv, TypeOK
      <3> QED  BY <2>2, <3>1, <3>2, <3>3 DEF Inv, TypeOK, Records
    <2>8. Finite'
      BY <2>2, <2>4, OneMore DEF Inv, Finite
    <2>9. Past'
      <3>1. \A q \in refused' : q.at <= now
        BY <2>1, <2>2, <2>3 DEF Inv, Past
      <3>2. \A f \in failures' : f.at <= now  BY <2>2, <2>6
      <3> QED  BY <3>1, <3>2, <2>2 DEF Past
    <2>10. Remembered'
      <3> SUFFICES ASSUME NEW q \in refused', Recent(q.at)
                   PROVE  q \in failedRequests' /\ q \in failures'
        BY <2>2 DEF Remembered, Recent
      <3>1. CASE q = new  BY <3>1, <2>2 DEF counted
      <3>2. CASE q \in refused
        BY <3>2, <2>2 DEF counted, Counted, Inv, Remembered, Recent
      <3> QED  BY <3>1, <3>2, <2>2
    <2>11. FullIsFrozen' /\ FreezeOutlives'
      <3>1. Counted(now)' = counted
        BY <2>2, <2>6 DEF Counted
      <3>2. CASE Cardinality(counted) >= MaxFailures
        BY <3>1, <3>2, <2>2, <2>3, <2>6 DEF FullIsFrozen, FreezeOutlives, Frozen, Records
      <3>3. CASE ~(Cardinality(counted) >= MaxFailures)
        BY <3>1, <3>3, <2>2 DEF FullIsFrozen, FreezeOutlives, Frozen
      <3> QED  BY <3>2, <3>3
    <2>12. Limit'
      <3> SUFFICES ASSUME NEW t \in 0 .. now
                   PROVE  Cardinality(Refused(t)') <= MaxFailures
        BY <2>2, <2>3 DEF Limit, Refused
      <3>1. CASE t < now
        <4>1. Refused(t)' = Refused(t)
          BY <3>1, <2>1, <2>2, <2>3 DEF Refused
        <4> QED  BY <4>1, <2>3 DEF Inv, Limit
      <3>2. CASE t = now
        <4>1. Refused(now)' = Refused(now) \cup {new}
          BY <2>1, <2>2, <2>3 DEF Refused
        <4>2. Refused(now) \subseteq Counted(now)
          BY DEF Refused, Counted, Inv, Remembered, Recent
        <4>3. /\ IsFiniteSet(Refused(now)) /\ Cardinality(Refused(now)) \in Nat
              /\ Cardinality(Refused(now)) <= Cardinality(Counted(now))
          BY <4>2, <2>4, Fewer
        <4>4. /\ Cardinality(Refused(now) \cup {new}) \in Nat
              /\ Cardinality(Refused(now) \cup {new}) <= Cardinality(Refused(now)) + 1
          BY <4>3, OneMore
        <4>5. Cardinality(Refused(now)') <= MaxFailures
          BY <4>1, <4>3, <4>4, <2>4, <2>5
        <4>6. Refused(t)' = Refused(now)'  BY <3>2, <2>2 DEF Refused
        <4> QED  BY <4>5, <4>6
      <3> QED  BY <3>1, <3>2, <2>3
    <2>13. ReplayNotCounted'
      <3> SUFFICES ASSUME NEW p \in refused', NEW q \in refused', p.id = q.id, p.at < q.at
                   PROVE  q.at >= p.at + FreezeSpan
        BY DEF ReplayNotCounted
      <3>1. CASE p \in refused /\ q \in refused
        BY <3>1 DEF Inv, ReplayNotCounted
      <3>2. CASE p = new
        BY <3>2, <2>1, <2>2, <2>3 DEF Inv, Past, TypeOK, Records
      <3>3. CASE p \in refused /\ q = new
        <4>1. p.at \in Nat  BY <3>3 DEF Inv, TypeOK, Records
        <4>2. ~Recent(p.at)
          BY <3>3, <2>1, <2>2 DEF Inv, Remembered, Replayed
        <4> QED  BY <3>3, <4>1, <4>2, <2>1, <2>3 DEF Recent
      <3> QED  BY <3>1, <3>2, <3>3, <2>2
    <2> QED  BY <2>7, <2>8, <2>9, <2>10, <2>11, <2>12, <2>13 DEF Inv
  <1> QED  BY <1>1, <1>2

LEMMA AdvanceClockInv ==
  ASSUME Inv, AdvanceClock
  PROVE  Inv'
  <1> USE MaintenancePasswordAssumption
  <1>1. /\ now \in Nat /\ now' = now + 1 /\ FreezeSpan \in Nat /\ frozenUntil \in Nat
        /\ UNCHANGED <<enabled, hash, failures, failedRequests, frozenUntil, latched,
                       refused, faults>>
    BY DEF AdvanceClock, record, Inv, TypeOK
  <1>2. /\ \A f \in failures : f.at \in Nat /\ f.at <= now
        /\ \A q \in refused : q.at \in Nat /\ q.at <= now
    BY DEF Inv, Past, TypeOK
  <1>3. TypeOK'  BY <1>1 DEF Inv, TypeOK
  <1>4. Finite' /\ ReplayNotCounted'  BY <1>1 DEF Inv, Finite, ReplayNotCounted
  <1>5. Past'  BY <1>1, <1>2 DEF Past
  <1>6. Remembered'  BY <1>1, <1>2 DEF Inv, Remembered, Recent
  <1>7. FreezeOutlives'  BY <1>1, <1>2 DEF Inv, FreezeOutlives, Frozen
  <1>8. FullIsFrozen'
    <2> SUFFICES ASSUME ~(frozenUntil > now + 1)
                 PROVE  ~(Cardinality(Counted(now)') >= MaxFailures)
      BY <1>1 DEF FullIsFrozen, Frozen
    <2>1. Counted(now)' \subseteq Counted(now)
      BY <1>1, <1>2 DEF Counted
    <2>2. IsFiniteSet(Counted(now))
      <3>1. Counted(now) \subseteq failures  BY DEF Counted
      <3> QED  BY <3>1, Fewer DEF Inv, Finite
    <2>3. /\ Cardinality(Counted(now)') \in Nat /\ Cardinality(Counted(now)) \in Nat
          /\ Cardinality(Counted(now)') <= Cardinality(Counted(now))
      BY <2>1, <2>2, Fewer
    <2>4. CASE Frozen
      <3>1. \A f \in failures : ~(f.at + FreezeSpan > now + 1)
        BY <2>4, <1>1, <1>2 DEF Inv, FreezeOutlives
      <3>2. Counted(now)' = {}  BY <3>1, <1>1 DEF Counted
      <3> QED  BY <3>2, FS_EmptySet
    <2>5. CASE ~Frozen
      BY <2>5, <2>3 DEF Inv, FullIsFrozen
    <2> QED  BY <2>4, <2>5
  <1>9. Limit'
    <2> SUFFICES ASSUME NEW t \in 0 .. (now + 1)
                 PROVE  Cardinality(Refused(t)) <= MaxFailures
      <3>1. \A t : Refused(t)' = Refused(t)  BY <1>1 DEF Refused
      <3> QED  BY <1>1, <3>1 DEF Limit
    <2>1. CASE t \in 0 .. now  BY <2>1 DEF Inv, Limit
    <2>2. CASE t = now + 1
      <3>1. Refused(t) \subseteq Refused(now)
        BY <2>2, <1>1, <1>2 DEF Refused
      <3>2. Refused(now) \subseteq refused  BY DEF Refused
      <3>3. IsFiniteSet(Refused(now))  BY <3>2, Fewer DEF Inv, Finite
      <3>4. /\ Cardinality(Refused(t)) \in Nat /\ Cardinality(Refused(now)) \in Nat
            /\ Cardinality(Refused(t)) <= Cardinality(Refused(now))
        BY <3>1, <3>3, Fewer
      <3>5. Cardinality(Refused(now)) <= MaxFailures
        BY <1>1 DEF Inv, Limit
      <3> QED  BY <3>4, <3>5
    <2> QED  BY <2>1, <2>2, <1>1
  <1> QED  BY <1>3, <1>4, <1>5, <1>6, <1>7, <1>8, <1>9 DEF Inv

LEMMA NextInv == Inv /\ [Next]_vars => Inv'
  <1> SUFFICES ASSUME Inv, [Next]_vars PROVE Inv'  OBVIOUS
  <1>1. CASE UNCHANGED vars
    <2>1. TypeOK'  BY <1>1 DEF Inv, TypeOK, vars
    <2> QED  BY <1>1, <2>1, Kept DEF vars
  <1>2. ASSUME NEW on \in BOOLEAN, NEW password \in Passwords \cup {NoPassword},
               Configure(on, password)
        PROVE  Inv'
    BY <1>2, ConfigureInv
  <1>3. ASSUME NEW r \in Requests, RightPassword(r) PROVE Inv'
    BY <1>3, RightPasswordInv
  <1>4. ASSUME NEW r \in Requests, NEW password \in Passwords, WrongPassword(r, password)
        PROVE  Inv'
    BY <1>4, WrongPasswordInv
  <1>5. CASE Reread  BY <1>5, RereadInv
  <1>6. CASE AdvanceClock  BY <1>6, AdvanceClockInv
  <1> QED  BY <1>1, <1>2, <1>3, <1>4, <1>5, <1>6 DEF Next

LEMMA InductiveInvariant == Spec => []Inv
  BY InitInv, NextInv, PTL DEF Spec

-----------------------------------------------------------------------------

\* The record of password() stays well formed, and the window is never enabled
\* without a password (Configure).
THEOREM TypeCorrect == Spec => []TypeOK
  BY InductiveInvariant, PTL DEF Inv

\* However failures, freezes, right passwords, failed saves and restarts alternate,
\* password() compares and refuses at most MaxFailures passwords in any span as long
\* as the rolling window.
THEOREM RefusalsAreLimited == Spec => []RollingLimit
  <1>1. Inv => RollingLimit  BY DEF Inv, Limit, Refused, RollingLimit
  <1> QED  BY <1>1, InductiveInvariant, PTL

\* A request id that password() refused is not compared again within the window.
THEOREM ReplaysAreNotCounted == Spec => []ReplayNotCounted
  BY InductiveInvariant, PTL DEF Inv

=============================================================================
