--------------------------- MODULE SerialExecutor ---------------------------
(***************************************************************************)
(* What executor/queue.go promises its callers, without its channel, its   *)
(* semaphore, its worker or its records: every submission is refused or    *)
(* accepted, once; accepted work is executed one piece at a time, in the   *)
(* order of acceptance, exactly once; refused work is never executed.      *)
(***************************************************************************)
EXTENDS Naturals, Sequences, FiniteSets

CONSTANT Calls

VARIABLES
  fate,   \* what has become of each submission
  line    \* the accepted submissions not yet begun, in order of acceptance

avars == <<fate, line>>

Fates == {"pending", "refused", "queued", "executing", "success", "failed"}

AInit ==
  /\ fate = [t \in Calls |-> "pending"]
  /\ line = <<>>

Accept(t) ==
  /\ fate[t] = "pending"
  /\ fate' = [fate EXCEPT ![t] = "queued"]
  /\ line' = Append(line, t)

Refuse(t) ==
  /\ fate[t] = "pending"
  /\ fate' = [fate EXCEPT ![t] = "refused"]
  /\ UNCHANGED line

Begin(t) ==
  /\ line # <<>>
  /\ t = Head(line)
  /\ fate[t] = "queued"
  /\ \A u \in Calls : fate[u] # "executing"
  /\ fate' = [fate EXCEPT ![t] = "executing"]
  /\ line' = Tail(line)

End(t, outcome) ==
  /\ fate[t] = "executing"
  /\ fate' = [fate EXCEPT ![t] = outcome]
  /\ UNCHANGED line

ANext ==
  \E t \in Calls : \/ Accept(t) \/ Refuse(t) \/ Begin(t)
                   \/ \E outcome \in {"success", "failed"} : End(t, outcome)

ASpec == AInit /\ [][ANext]_avars

=============================================================================
