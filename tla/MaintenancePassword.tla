------------------------- MODULE MaintenancePassword -------------------------
(***************************************************************************)
(* Password verification of the maintenance window, as the record          *)
(* maintenance_security remembers it (MaintenanceManager.password and      *)
(* Configure, executor/maintenance.go).  Unlock and Extend share it.       *)
(*                                                                         *)
(* Both callers hold the site operation lock, so that one verification is  *)
(* one step.  A verification that cannot be recorded latches the site      *)
(* until a Tick has reread the row.                                        *)
(***************************************************************************)
EXTENDS Naturals, FiniteSets

CONSTANTS
  Requests,      \* request ids
  Passwords,
  NoPassword,    \* no hash is stored; or the request carries no password
  MaxFailures,   \* failed verifications that freeze the site (5)
  FreezeSpan,    \* the rolling window, and how long a freeze lasts (600 s)
  MaxTime,       \* bound: the last instant
  MaxFaults      \* bound: records that cannot be saved

ASSUME MaintenancePasswordAssumption ==
  /\ NoPassword \notin Passwords
  /\ MaxFailures \in Nat \ {0}
  /\ FreezeSpan \in Nat \ {0}
  /\ MaxTime \in Nat /\ MaxFaults \in Nat

VARIABLES
  now,
  enabled, hash,     \* database: the configuration
  failures,          \* database: the failed verifications that count, a list of times;
                     \* the id tells apart two of the same instant
  failedRequests,    \* database: the requests that failed, and when
  frozenUntil,       \* database
  latched,           \* memory: uncertain
  refused,           \* history: the requests answered as wrong after a comparison
  faults

vars == <<now, enabled, hash, failures, failedRequests, frozenUntil, latched, refused, faults>>
record == <<failures, failedRequests, frozenUntil>>

Fault == faults < MaxFaults /\ faults' = faults + 1
Recent(at) == at + FreezeSpan > now

Init ==
  /\ now = 0
  /\ enabled = FALSE /\ hash = NoPassword
  /\ failures = {} /\ failedRequests = {} /\ frozenUntil = 0
  /\ latched = FALSE /\ refused = {} /\ faults = 0

\* Configure: enabling needs a password, new or stored; the counters are kept.
Configure(on, password) ==
  /\ ~latched
  /\ on => password # NoPassword \/ hash # NoPassword
  /\ \/ /\ enabled' = on
        /\ hash' = IF password = NoPassword THEN hash ELSE password
        /\ UNCHANGED faults
     \/ Fault /\ UNCHANGED <<enabled, hash>>
  /\ UNCHANGED <<now, record, latched, refused>>

\* The checks that answer without looking at the password.
Frozen == frozenUntil > now
\* Mutant: a repeated request is compared again.
ReplayedNever(r) == FALSE
Replayed(r) == \E q \in failedRequests : q.id = r /\ Recent(q.at)

\* Mutant: the freeze comes one failure late.
WrongPasswordOneMore(r, password) ==
  LET counted == {f \in failures : Recent(f.at)} \cup {[id |-> r, at |-> now]}
      kept    == {q \in failedRequests : Recent(q.at)}
  IN  /\ enabled /\ ~latched
      /\ ~Frozen /\ ~Replayed(r)
      /\ password \notin {NoPassword, hash}
      /\ failures' = counted
      /\ failedRequests' = kept \cup {[id |-> r, at |-> now]}
      /\ frozenUntil' = IF Cardinality(counted) > MaxFailures THEN now + FreezeSpan ELSE frozenUntil
      /\ refused' = refused \cup {[id |-> r, at |-> now]}
      /\ UNCHANGED <<now, enabled, hash, latched, faults>>

\* A wrong password: count it and remember the request, in one save.
WrongPassword(r, password) ==
  LET counted == {f \in failures : Recent(f.at)} \cup {[id |-> r, at |-> now]}
      kept    == {q \in failedRequests : Recent(q.at)}
  IN  /\ enabled /\ ~latched
      /\ ~Frozen /\ ~Replayed(r)
      /\ password \notin {NoPassword, hash}
      /\ \/ /\ failures' = counted
            /\ failedRequests' = kept \cup {[id |-> r, at |-> now]}
            /\ frozenUntil' = IF Cardinality(counted) >= MaxFailures THEN now + FreezeSpan
                                                            ELSE frozenUntil
            /\ refused' = refused \cup {[id |-> r, at |-> now]}
            /\ UNCHANGED <<latched, faults>>
         \/ /\ Fault
            /\ latched' = TRUE
            /\ UNCHANGED <<record, refused>>
      /\ UNCHANGED <<now, enabled, hash>>

\* The right password: the caller's own save writes the pruned list of requests,
\* if it gets that far.
RightPassword(r) ==
  /\ enabled /\ ~latched
  /\ ~Frozen /\ ~Replayed(r)
  /\ \/ /\ failedRequests' = {q \in failedRequests : Recent(q.at)}
        /\ UNCHANGED <<latched, faults>>
     \/ /\ Fault
        /\ latched' = TRUE
        /\ UNCHANGED failedRequests
  /\ UNCHANGED <<now, enabled, hash, failures, frozenUntil, refused>>

\* Tick rereads the row, or the panel restarts.
Reread ==
  /\ latched
  /\ latched' = FALSE
  /\ UNCHANGED <<now, enabled, hash, record, refused, faults>>

AdvanceClock ==
  /\ now < MaxTime
  /\ now' = now + 1
  /\ UNCHANGED <<enabled, hash, record, latched, refused, faults>>

Next ==
  \/ \E on \in BOOLEAN, password \in Passwords \cup {NoPassword} : Configure(on, password)
  \/ \E r \in Requests : \/ RightPassword(r)
                         \/ \E password \in Passwords : WrongPassword(r, password)
  \/ Reread \/ AdvanceClock

Spec == Init /\ [][Next]_vars

-----------------------------------------------------------------------------
\* The record is well formed, and maintenance is never enabled without a password.
TypeOK ==
  /\ now \in Nat
  /\ enabled \in BOOLEAN
  /\ hash \in Passwords \cup {NoPassword}
  /\ enabled => hash # NoPassword
  /\ failures \subseteq [id : Requests, at : Nat]
  /\ failedRequests \subseteq [id : Requests, at : Nat]
  /\ frozenUntil \in Nat
  /\ latched \in BOOLEAN
  /\ refused \subseteq [id : Requests, at : Nat]
  /\ faults \in Nat

\* In any span of time as long as the rolling window at most MaxFailures passwords
\* are compared and refused, across freezes, expiries and changes of the password.
RollingLimit ==
  \A t \in 0 .. now :
    Cardinality({q \in refused : q.at <= t /\ q.at + FreezeSpan > t}) <= MaxFailures

\* A request that was refused is answered the same when it is repeated, even with
\* another password: it is not compared, so it is not counted a second time.
ReplayNotCounted ==
  \A p, q \in refused : p.id = q.id /\ p.at < q.at => q.at >= p.at + FreezeSpan

=============================================================================
