--------------------------- MODULE TaskQueueProofs ---------------------------
(***************************************************************************)
(* Proofs about the task queue, for any number of calls and any limits.    *)
(*                                                                         *)
(* The argument: a task object is in exactly one place.  PlaceInv says     *)
(* which places are possible at each control point of the call that made   *)
(* it, WorkerInv what the worker's control point says of the task it       *)
(* holds, and CountInv ties the two counters to the sets they count.       *)
(***************************************************************************)
EXTENDS TaskQueue, FiniteSetTheorems, TLAPS

Outside == {"idle", "fast", "contend", "lastTry", "slotHeld", "refused"}
Waiting == {"blocked", "withdraw"}
Taken   == {"accepted", "answered"}

Distinct(q) == \A i, j \in 1 .. Len(q) : q[i] = q[j] => i = j
Elems(q)    == {q[i] : i \in 1 .. Len(q)}

QueueInv ==
  /\ Len(queue) <= Capacity
  /\ Distinct(queue)
  /\ \A t \in InQueue : /\ pc[t] = "accepted" /\ t \in tasks
                        /\ t # wtask /\ status[t] = "waiting"

PlaceInv ==
  \A t \in Calls :
    /\ pc[t] \in Outside => t \notin tasks /\ t # wtask /\ status[t] = "waiting"
    /\ pc[t] \in Waiting => t \in tasks /\ t # wtask /\ status[t] = "waiting"
    /\ pc[t] \in Taken => t \in InQueue \/ t = wtask \/ status[t] \in Finished
    /\ status[t] = "running" => t = wtask
    /\ resultCh[t] = "closed" => status[t] \in Finished /\ t # wtask
    /\ pc[t] = "answered" => resultCh[t] = "closed"

WorkerInv ==
  /\ wpc = "receive" => wtask = NoTask
  /\ wpc # "receive" => wtask \in Calls /\ pc[wtask] = "accepted"
  /\ wpc = "start" => status[wtask] = "waiting" /\ wtask \in tasks
  /\ wpc \in {"execute", "finalize"} => status[wtask] = "running" /\ wtask \in tasks
  /\ wpc = "deliver" => status[wtask] \in Finished

CountInv ==
  /\ taskCount = Cardinality(Live)
  /\ admissionSlots = Cardinality(SlotHolders)
  /\ admissionSlots <= MaxWaiters

IndInv == TypeOK /\ QueueInv /\ PlaceInv /\ WorkerInv /\ CountInv

-----------------------------------------------------------------------------
\* Appending a new element keeps a sequence free of repetitions.
LEMMA AppendDistinct ==
  ASSUME NEW S, NEW q \in Seq(S), NEW e \in S, Distinct(q), e \notin Elems(q)
  PROVE  /\ Append(q, e) \in Seq(S)
         /\ Len(Append(q, e)) = Len(q) + 1
         /\ Distinct(Append(q, e))
         /\ Elems(Append(q, e)) = Elems(q) \cup {e}
<1> DEFINE a == Append(q, e)
<1>1. /\ a \in Seq(S) /\ Len(a) = Len(q) + 1 /\ Len(q) \in Nat
      /\ \A i \in 1 .. Len(q) : a[i] = q[i]
      /\ a[Len(q) + 1] = e
  OBVIOUS
<1>2. Distinct(a)
  BY <1>1 DEF Distinct, Elems
<1>3. Elems(a) = Elems(q) \cup {e}
  <2>1. ASSUME NEW x \in Elems(a) PROVE x \in Elems(q) \cup {e}
    BY <2>1, <1>1 DEF Elems
  <2>2. ASSUME NEW x \in Elems(q) \cup {e} PROVE x \in Elems(a)
    BY <2>2, <1>1 DEF Elems
  <2>3. QED BY <2>1, <2>2
<1>4. QED BY <1>1, <1>2, <1>3

\* Taking the head of a sequence without repetitions removes it altogether.
LEMMA TailDistinct ==
  ASSUME NEW S, NEW q \in Seq(S), q # <<>>, Distinct(q)
  PROVE  /\ Tail(q) \in Seq(S)
         /\ Len(Tail(q)) = Len(q) - 1
         /\ Head(q) \in S
         /\ Head(q) \in Elems(q)
         /\ Distinct(Tail(q))
         /\ Elems(Tail(q)) = Elems(q) \ {Head(q)}
<1> DEFINE r == Tail(q)
<1>1. /\ r \in Seq(S) /\ Len(r) = Len(q) - 1 /\ Len(q) \in Nat /\ Len(q) >= 1
      /\ \A i \in 1 .. Len(r) : r[i] = q[i + 1]
      /\ Head(q) = q[1] /\ q[1] \in S
  OBVIOUS
<1>2. Distinct(r)
  BY <1>1 DEF Distinct
<1>3. Elems(r) = Elems(q) \ {Head(q)}
  <2>1. ASSUME NEW x \in Elems(r) PROVE x \in Elems(q) \ {Head(q)}
    <3>1. PICK i \in 1 .. Len(r) : x = r[i]
      BY <2>1 DEF Elems
    <3>2. x = q[i + 1] /\ i + 1 \in 1 .. Len(q) /\ i + 1 # 1
      BY <3>1, <1>1
    <3>3. x # q[1]
      BY <3>2, <1>1 DEF Distinct
    <3>4. QED BY <3>2, <3>3, <1>1 DEF Elems
  <2>2. ASSUME NEW x \in Elems(q) \ {Head(q)} PROVE x \in Elems(r)
    <3>1. PICK i \in 1 .. Len(q) : x = q[i]
      BY <2>2 DEF Elems
    <3>2. i # 1 /\ i - 1 \in 1 .. Len(r) /\ r[i - 1] = q[i]
      BY <3>1, <2>2, <1>1
    <3>3. QED BY <3>1, <3>2 DEF Elems
  <2>3. QED BY <2>1, <2>2
<1>4. Head(q) \in Elems(q)
  BY <1>1 DEF Elems
<1>5. QED BY <1>1, <1>2, <1>3, <1>4

\* Pruning only ever removes records, and only of finished tasks.
LEMMA PruneKeepsUnfinished ==
  ASSUME NEW m, NEW st, NEW at
  PROVE  /\ PruneCompleted(m, st, at) \subseteq m
         /\ \A t \in m : st[t] \notin Finished => t \in PruneCompleted(m, st, at)
BY DEF PruneCompleted

\* The sets that the counters count are finite.
LEMMA CountedSetsFinite ==
  ASSUME TypeOK
  PROVE  IsFiniteSet(Live) /\ IsFiniteSet(SlotHolders)
<1>1. Live \in SUBSET Calls /\ SlotHolders \in SUBSET Calls
  BY DEF TypeOK, Live, SlotHolders
<1>2. QED BY <1>1, FS_Subset, TaskQueueAssumption

\* One task more, one less, or the same tasks, in the counted sets.
LEMMA CountStep ==
  ASSUME NEW A, NEW B, NEW x, IsFiniteSet(A)
  PROVE  /\ B = A \cup {x} /\ x \notin A => Cardinality(B) = Cardinality(A) + 1
         /\ B = A \ {x} /\ x \in A =>
              Cardinality(B) = Cardinality(A) - 1 /\ Cardinality(A) > 0
         /\ Cardinality(A) \in Nat
<1>1. Cardinality(A) \in Nat /\ (Cardinality(A) = 0 <=> A = {})
  BY FS_CardinalityType, FS_EmptySet
<1>2. QED BY <1>1, FS_AddElement, FS_RemoveElement

-----------------------------------------------------------------------------
\* The invariant holds of the empty queue.
LEMMA InitIndInv == Init => IndInv
<1> SUFFICES ASSUME Init PROVE IndInv
  OBVIOUS
<1> USE TaskQueueAssumption DEF Init
<1>0. queue \in Seq(Calls)
  OBVIOUS
<1>1. TypeOK
  BY <1>0 DEF TypeOK, Unfinished, Finished
<1>2. InQueue = {} /\ Live = {} /\ SlotHolders = {}
  BY DEF InQueue, Live, SlotHolders
<1>3. QueueInv
  BY <1>2 DEF QueueInv, Distinct
<1>4. PlaceInv
  BY DEF PlaceInv, Outside, Waiting, Taken
<1>5. WorkerInv
  BY DEF WorkerInv
<1>6. CountInv
  BY <1>2, FS_EmptySet DEF CountInv
<1>7. QED BY <1>1, <1>3, <1>4, <1>5, <1>6 DEF IndInv

\* A step that leaves the channel, the records, the counters and the worker
\* alone, and moves one call between two control points of the same kind.
LEMMA MoveOnly ==
  ASSUME IndInv, NEW t \in Calls, NEW d,
         pc' = [pc EXCEPT ![t] = d],
         UNCHANGED <<queue, recordVars, admissionSlots, workerVars>>,
         cancelled' \in SUBSET Calls,
         \/ pc[t] \in {"idle", "fast", "contend", "lastTry"}
               /\ d \in {"fast", "contend", "lastTry", "refused"}
         \/ pc[t] = "blocked" /\ d = "withdraw"
         \/ pc[t] = "accepted" /\ resultCh[t] = "closed" /\ d = "answered"
  PROVE  IndInv'
<1> USE DEF recordVars, workerVars
<1>1. pc \in [Calls -> {"idle", "fast", "contend", "lastTry", "slotHeld", "blocked",
                       "withdraw", "accepted", "answered", "refused"}]
  BY DEF IndInv, TypeOK
<1>2. TypeOK'
  BY <1>1 DEF IndInv, TypeOK
<1>3. InQueue' = InQueue /\ Live' = Live
  BY DEF InQueue, Live
<1>4. SlotHolders' = SlotHolders
  BY <1>1 DEF SlotHolders
<1>5. t \notin InQueue \/ (pc[t] = "accepted" /\ resultCh[t] = "closed")
  BY DEF IndInv, QueueInv
<1>6. resultCh[t] = "closed" => t # wtask /\ status[t] \in Finished
  BY DEF IndInv, PlaceInv
<1>7. QueueInv'
  BY <1>1, <1>3, <1>5, <1>6 DEF IndInv, QueueInv, Distinct, Finished, InQueue, TypeOK
<1>8. PlaceInv'
  BY <1>1, <1>3 DEF IndInv, PlaceInv, Outside, Waiting, Taken
<1>9. WorkerInv'
  BY <1>1, <1>6 DEF IndInv, WorkerInv, PlaceInv
<1>10. CountInv'
  BY <1>3, <1>4 DEF IndInv, CountInv
<1>11. QED BY <1>2, <1>7, <1>8, <1>9, <1>10 DEF IndInv

\* The state of a call outside the queue, unfolded once for the steps below.
LEMMA CallFacts ==
  ASSUME IndInv, NEW t \in Calls
  PROVE  /\ pc[t] \in Outside \cup Waiting => t \notin InQueue
         /\ pc[t] \in Outside => t \notin tasks /\ t \notin Live
         /\ pc[t] \in Waiting => t \in Live
         /\ pc[t] \in Outside \cup Waiting => status[t] = "waiting" /\ t # wtask
         /\ InQueue = Elems(queue) /\ Distinct(queue) /\ queue \in Seq(Calls)
BY DEF IndInv, TypeOK, QueueInv, PlaceInv, Outside, Waiting, InQueue, Elems, Live, Unfinished

\* pruneCompletedLocked changes neither the live records nor what is queued.
LEMMA PrunedFacts ==
  ASSUME TypeOK
  PROVE  /\ PrunedTasks \subseteq tasks
         /\ \A t \in tasks : status[t] \notin Finished => t \in PrunedTasks
         /\ Live = {t \in PrunedTasks : status[t] \in Unfinished}
<1>1. /\ PrunedTasks \subseteq tasks
      /\ \A t \in tasks : status[t] \notin Finished => t \in PrunedTasks
  BY PruneKeepsUnfinished DEF PrunedTasks
<1>2. QED BY <1>1 DEF Live, Unfinished, Finished

\* tryAdmitTask and the blocked send: the call's task enters the channel.
LEMMA SendInv ==
  ASSUME IndInv, NEW t \in Calls,
         pc[t] \in {"fast", "lastTry", "blocked"},
         Len(queue) < Capacity,
         queue' = Append(queue, t),
         pc' = [pc EXCEPT ![t] = "accepted"],
         UNCHANGED <<cancelled, status, updatedAt, expired, workerVars>>,
         \/ /\ pc[t] # "blocked"
            /\ tasks' = PrunedTasks \cup {t}
            /\ taskCount' = taskCount + 1
            /\ admissionSlots' = admissionSlots
         \/ /\ pc[t] = "blocked"
            /\ tasks' = tasks
            /\ taskCount' = taskCount
            /\ admissionSlots' = admissionSlots - 1
  PROVE  IndInv'
<1> USE DEF workerVars
<1>1. TypeOK /\ QueueInv /\ PlaceInv /\ WorkerInv /\ CountInv
  BY DEF IndInv
<1>2. /\ t \notin Elems(queue) /\ t # wtask /\ status[t] = "waiting"
      /\ InQueue = Elems(queue) /\ Distinct(queue) /\ queue \in Seq(Calls)
      /\ t \in Live <=> pc[t] = "blocked"
  BY CallFacts DEF Outside, Waiting
<1>3. /\ queue' \in Seq(Calls) /\ Len(queue') = Len(queue) + 1
      /\ Distinct(queue') /\ Elems(queue') = Elems(queue) \cup {t}
  BY <1>2, AppendDistinct
<1>4. InQueue' = InQueue \cup {t}
  BY <1>2, <1>3 DEF InQueue, Elems
<1>5. /\ tasks' \in SUBSET Calls /\ t \in tasks' /\ Live' = Live \cup {t}
      /\ \A u \in tasks : status[u] \notin Finished => u \in tasks'
      /\ \A u \in tasks' : u \in tasks \/ u = t
  BY <1>1, <1>2, PrunedFacts DEF TypeOK, Live, Unfinished, Finished
<1>6. SlotHolders' = SlotHolders \ {t} /\ (t \in SlotHolders <=> pc[t] = "blocked")
  BY <1>1 DEF TypeOK, SlotHolders
<1>7. CountInv'
  <2>1. taskCount' = Cardinality(Live')
    BY <1>1, <1>2, <1>5, CountedSetsFinite, CountStep DEF CountInv
  <2>2. admissionSlots' = Cardinality(SlotHolders') /\ admissionSlots' <= MaxWaiters
    <3>1. CASE pc[t] = "blocked"
      BY <3>1, <1>1, <1>6, CountedSetsFinite, CountStep, TaskQueueAssumption DEF CountInv
    <3>2. CASE pc[t] # "blocked"
      <4>1. SlotHolders' = SlotHolders
        BY <3>2, <1>6
      <4>2. QED BY <3>2, <4>1, <1>1 DEF CountInv
    <3>3. QED BY <3>1, <3>2
  <2>3. QED BY <2>1, <2>2 DEF CountInv
<1>8. TypeOK'
  <2>1. taskCount' \in Nat /\ admissionSlots' \in Nat
    <3>1. IsFiniteSet(Live') /\ IsFiniteSet(SlotHolders')
      BY <1>1, <1>5, <1>6, CountedSetsFinite, FS_AddElement, FS_RemoveElement
    <3>2. QED BY <3>1, <1>7, FS_CardinalityType DEF CountInv
  <2>2. QED BY <2>1, <1>1, <1>3, <1>5 DEF TypeOK
<1>9. QueueInv'
  <2>1. Len(queue') <= Capacity
    BY <1>2, <1>3, TaskQueueAssumption
  <2>2. ASSUME NEW u \in InQueue'
        PROVE  pc'[u] = "accepted" /\ u \in tasks' /\ u # wtask' /\ status'[u] = "waiting"
    <3>1. u \in InQueue => u \in Calls /\ u # t
      BY <1>2 DEF Elems
    <3>2. QED BY <2>2, <3>1, <1>1, <1>2, <1>4, <1>5 DEF QueueInv, TypeOK, Finished
  <2>3. QED BY <1>3, <2>1, <2>2 DEF QueueInv
<1>10. PlaceInv'
  <2> SUFFICES ASSUME NEW u \in Calls
               PROVE  /\ pc'[u] \in Outside => u \notin tasks' /\ u # wtask /\ status[u] = "waiting"
                      /\ pc'[u] \in Waiting => u \in tasks' /\ u # wtask /\ status[u] = "waiting"
                      /\ pc'[u] \in Taken => u \in InQueue' \/ u = wtask \/ status[u] \in Finished
                      /\ status[u] = "running" => u = wtask
                      /\ resultCh[u] = "closed" => status[u] \in Finished /\ u # wtask
                      /\ pc'[u] = "answered" => resultCh[u] = "closed"
    BY DEF PlaceInv
  <2>1. CASE u = t
    BY <2>1, <1>1, <1>2, <1>4 DEF PlaceInv, TypeOK, Outside, Waiting, Finished
  <2>2. CASE u # t
    <3>0. u \in tasks' => u \in tasks
      BY <2>2, <1>5
    <3>1. pc'[u] = pc[u]
      BY <2>2, <1>1 DEF TypeOK
    <3>2. u \in tasks /\ status[u] = "waiting" => u \in tasks'
      BY <1>5 DEF Finished
    <3>3. QED BY <3>0, <3>1, <3>2, <1>1, <1>4 DEF PlaceInv
  <2>3. QED BY <2>1, <2>2
<1>11. WorkerInv'
  BY <1>1, <1>2, <1>5 DEF WorkerInv, TypeOK, Finished
<1>12. QED BY <1>7, <1>8, <1>9, <1>10, <1>11 DEF IndInv

\* A record leaves or enters the map without touching the channel: the failed
\* non-blocking send, the semaphore, the registration and removeUnqueuedTask.
OutsideStep(t, d) ==
  /\ pc[t] \in {"fast", "contend", "lastTry", "slotHeld", "withdraw"}
  /\ pc' = [pc EXCEPT ![t] = d]
  /\ UNCHANGED <<cancelled, queue, status, updatedAt, expired, workerVars>>
  /\ \/ /\ d \in {"contend", "refused"} /\ pc[t] \in {"fast", "contend", "lastTry"}
        /\ tasks' \in {PrunedTasks \ {t}, tasks} /\ UNCHANGED <<taskCount, admissionSlots>>
     \/ /\ d = "slotHeld" /\ pc[t] = "contend" /\ admissionSlots < MaxWaiters
        /\ UNCHANGED <<tasks, taskCount>> /\ admissionSlots' = admissionSlots + 1
     \/ /\ d = "refused" /\ pc[t] = "slotHeld"
        /\ UNCHANGED <<tasks, taskCount>> /\ admissionSlots' = admissionSlots - 1
     \/ /\ d = "blocked" /\ pc[t] = "slotHeld"
        /\ tasks' = PrunedTasks \cup {t}
        /\ taskCount' = taskCount + 1 /\ UNCHANGED admissionSlots
     \/ /\ d = "refused" /\ pc[t] = "withdraw" /\ tasks' = tasks \ {t}
        /\ taskCount' = taskCount - 1 /\ admissionSlots' = admissionSlots - 1

LEMMA OutsideStepInv ==
  ASSUME IndInv, NEW t \in Calls, NEW d, OutsideStep(t, d)
  PROVE  IndInv'
<1> USE DEF OutsideStep, workerVars
<1>1. TypeOK /\ QueueInv /\ PlaceInv /\ WorkerInv /\ CountInv
  BY DEF IndInv
<1>2. /\ t \notin InQueue /\ t # wtask /\ status[t] = "waiting"
      /\ t \in Live <=> pc[t] = "withdraw"
      /\ t \in tasks <=> pc[t] = "withdraw"
  BY <1>1, CallFacts DEF Outside, Waiting, Live
<1>3. InQueue' = InQueue
  BY DEF InQueue
<1>4. /\ tasks' \in SUBSET Calls /\ (t \in tasks' <=> d = "blocked")
      /\ Live' = IF d = "blocked" THEN Live \cup {t} ELSE Live \ {t}
      /\ \A u \in tasks : status[u] \notin Finished /\ u # t => u \in tasks'
      /\ \A u \in tasks' : u \in tasks \/ u = t
  BY <1>1, <1>2, PrunedFacts DEF TypeOK, Live, Unfinished, Finished
<1>5. /\ t \in SlotHolders <=> pc[t] \in {"slotHeld", "withdraw"}
      /\ SlotHolders' = IF d \in {"slotHeld", "blocked"} THEN SlotHolders \cup {t}
                                                        ELSE SlotHolders \ {t}
  BY <1>1 DEF TypeOK, SlotHolders
<1>6. IsFiniteSet(Live) /\ IsFiniteSet(SlotHolders)
  BY <1>1, CountedSetsFinite
<1>7. taskCount' = Cardinality(Live') /\ taskCount' \in Nat
  <2>1. CASE d = "blocked"
    BY <2>1, <1>1, <1>2, <1>4, <1>6, CountStep DEF CountInv, TypeOK
  <2>2. CASE pc[t] = "withdraw"
    BY <2>2, <1>1, <1>2, <1>4, <1>6, CountStep DEF CountInv, TypeOK
  <2>3. CASE d # "blocked" /\ pc[t] # "withdraw"
    <3>1. Live' = Live
      BY <2>3, <1>2, <1>4
    <3>2. QED BY <2>3, <3>1, <1>1 DEF CountInv, TypeOK
  <2>4. QED BY <2>1, <2>2, <2>3
<1>8. /\ admissionSlots' = Cardinality(SlotHolders')
      /\ admissionSlots' \in Nat /\ admissionSlots' <= MaxWaiters
  <2>1. CASE d = "slotHeld"
    <3>1. pc[t] = "contend" /\ admissionSlots' = admissionSlots + 1 /\ admissionSlots < MaxWaiters
      BY <2>1
    <3>2. t \notin SlotHolders /\ SlotHolders' = SlotHolders \cup {t}
      BY <2>1, <3>1, <1>5
    <3>3. Cardinality(SlotHolders') = Cardinality(SlotHolders) + 1
      BY <3>2, <1>6, CountStep
    <3>4. QED BY <3>1, <3>3, <1>1, TaskQueueAssumption DEF CountInv, TypeOK
  <2>2. CASE d = "refused" /\ pc[t] \in {"slotHeld", "withdraw"}
    <3>1. pc[t] \in {"slotHeld", "withdraw"} /\ admissionSlots' = admissionSlots - 1
      BY <2>2
    <3>2. t \in SlotHolders /\ SlotHolders' = SlotHolders \ {t}
      BY <2>2, <1>5
    <3>3. /\ Cardinality(SlotHolders') = Cardinality(SlotHolders) - 1
          /\ Cardinality(SlotHolders) > 0
      BY <3>2, <1>6, CountStep
    <3>4. QED BY <3>1, <3>3, <1>1, TaskQueueAssumption DEF CountInv, TypeOK
  <2>3. CASE d = "blocked" \/ (pc[t] \in {"fast", "contend", "lastTry"} /\ d # "slotHeld")
    <3>1. SlotHolders' = SlotHolders
      BY <2>3, <1>5
    <3>2. QED BY <2>3, <3>1, <1>1 DEF CountInv, TypeOK
  <2>4. QED BY <2>1, <2>2, <2>3
<1>9. TypeOK'
  BY <1>1, <1>4, <1>7, <1>8 DEF TypeOK
<1>10. QueueInv'
  BY <1>1, <1>2, <1>3, <1>4 DEF QueueInv, Distinct, TypeOK, Finished, InQueue
<1>11. PlaceInv'
  BY <1>1, <1>2, <1>3, <1>4 DEF PlaceInv, TypeOK, Outside, Waiting, Taken, Finished
<1>12. WorkerInv'
  BY <1>1, <1>2, <1>4 DEF WorkerInv, TypeOK, Finished
<1>13. QED BY <1>7, <1>8, <1>9, <1>10, <1>11, <1>12 DEF IndInv, CountInv

\* A step of the worker or of a pruner: the calls, the channel and the admission
\* slots stay; what has to be shown is what the step does to the task it holds.
LEMMA SlotsKept ==
  ASSUME IndInv, UNCHANGED <<pc, admissionSlots>>
  PROVE  admissionSlots' = Cardinality(SlotHolders') /\ admissionSlots' <= MaxWaiters
BY DEF IndInv, CountInv, SlotHolders

\* The worker takes the head of the channel.
LEMMA ReceiveInv == IndInv /\ WorkerReceive => IndInv'
<1> SUFFICES ASSUME IndInv, WorkerReceive PROVE IndInv'
  OBVIOUS
<1> DEFINE h == Head(queue)
<1>1. TypeOK /\ QueueInv /\ PlaceInv /\ WorkerInv /\ CountInv
  BY DEF IndInv
<1>2. /\ queue' \in Seq(Calls) /\ Len(queue') = Len(queue) - 1 /\ Len(queue) \in Nat
      /\ h \in Calls /\ h \in InQueue /\ Distinct(queue')
      /\ InQueue' = InQueue \ {h}
  <2>1. /\ queue \in Seq(Calls) /\ queue # <<>> /\ Distinct(queue)
        /\ queue' = Tail(queue)
    BY <1>1 DEF WorkerReceive, TypeOK, QueueInv
  <2>2. /\ queue' \in Seq(Calls) /\ Len(queue') = Len(queue) - 1 /\ h \in Calls
        /\ h \in Elems(queue) /\ Distinct(queue') /\ Elems(queue') = Elems(queue) \ {h}
    BY <2>1, TailDistinct
  <2>3. InQueue = Elems(queue) /\ InQueue' = Elems(queue') /\ Len(queue) \in Nat
    BY <2>1 DEF InQueue, Elems
  <2>4. QED BY <2>2, <2>3
<1>3. /\ pc[h] = "accepted" /\ h \in tasks /\ status[h] = "waiting"
  BY <1>1, <1>2 DEF QueueInv
<1>4. wtask = NoTask /\ wtask' = h /\ wpc' = "start"
      /\ UNCHANGED <<pc, tasks, status, resultCh, taskCount>>
  BY <1>1 DEF WorkerReceive, WorkerInv, callVars, recordVars
<1>5. TypeOK'
  BY <1>1, <1>2 DEF WorkerReceive, TypeOK, callVars, recordVars
<1>6. QueueInv'
  BY <1>1, <1>2, <1>4, TaskQueueAssumption DEF QueueInv
<1>7. PlaceInv'
  BY <1>1, <1>2, <1>3, <1>4, TaskQueueAssumption DEF PlaceInv, Outside, Waiting, Finished
<1>8. WorkerInv'
  BY <1>2, <1>3, <1>4 DEF WorkerInv
<1>9. CountInv'
  <2>1. Live' = Live
    BY <1>4 DEF Live
  <2>2. QED BY <2>1, <1>1, <1>4, SlotsKept DEF CountInv, WorkerReceive, callVars
<1>10. QED BY <1>5, <1>6, <1>7, <1>8, <1>9 DEF IndInv

\* The worker marks the task running, and it is executed.
LEMMA ExecuteInv ==
  IndInv /\ (WorkerStart \/ \E outcome \in Finished : WorkerExecute(outcome)) => IndInv'
<1>1. ASSUME IndInv, WorkerStart PROVE IndInv'
  <2> USE DEF WorkerStart, callVars
  <2>1. TypeOK /\ QueueInv /\ PlaceInv /\ WorkerInv /\ CountInv
    BY <1>1 DEF IndInv
  <2>2. /\ wtask \in Calls /\ status[wtask] = "waiting" /\ wtask \in tasks
        /\ pc[wtask] = "accepted" /\ wtask \notin InQueue
    BY <1>1, <2>1 DEF WorkerInv, QueueInv
  <2>3. /\ \A u \in Calls : status'[u] = IF u = wtask THEN "running" ELSE status[u]
        /\ InQueue' = InQueue
    BY <1>1, <2>1 DEF TypeOK, InQueue
  <2>4. TypeOK'
    BY <1>1, <2>1, <2>2 DEF TypeOK, Unfinished
  <2>5. QueueInv'
    BY <1>1, <2>1, <2>2, <2>3 DEF QueueInv, TypeOK, InQueue
  <2>6. PlaceInv'
    BY <1>1, <2>1, <2>2, <2>3 DEF PlaceInv, Outside, Waiting, Taken, Finished
  <2>7. WorkerInv'
    BY <1>1, <2>1, <2>2, <2>3 DEF WorkerInv
  <2>8. CountInv'
    <3>1. Live' = Live
      BY <1>1, <2>1, <2>2, <2>3 DEF Live, Unfinished, TypeOK
    <3>2. QED BY <3>1, <1>1, <2>1, SlotsKept DEF CountInv
  <2>9. QED BY <2>4, <2>5, <2>6, <2>7, <2>8 DEF IndInv
<1>2. ASSUME IndInv, NEW outcome \in Finished, WorkerExecute(outcome) PROVE IndInv'
  <2> USE DEF WorkerExecute, callVars, recordVars
  <2>1. TypeOK /\ QueueInv /\ PlaceInv /\ WorkerInv /\ CountInv
    BY <1>2 DEF IndInv
  <2>2. InQueue' = InQueue /\ Live' = Live
    BY <1>2 DEF InQueue, Live
  <2>3. TypeOK'
    BY <1>2, <2>1 DEF TypeOK
  <2>4. QueueInv'
    BY <1>2, <2>1, <2>2 DEF QueueInv
  <2>5. PlaceInv'
    BY <1>2, <2>1, <2>2 DEF PlaceInv
  <2>6. WorkerInv'
    BY <1>2, <2>1 DEF WorkerInv
  <2>7. CountInv'
    BY <1>2, <2>1, <2>2, SlotsKept DEF CountInv
  <2>8. QED BY <2>3, <2>4, <2>5, <2>6, <2>7 DEF IndInv
<1>3. QED BY <1>1, <1>2

\* finalizeTask publishes the result, counts the task out and prunes.
LEMMA FinalizeInv == IndInv /\ FinalizeTask => IndInv'
<1> SUFFICES ASSUME IndInv, FinalizeTask PROVE IndInv'
  OBVIOUS
<1> USE DEF FinalizeTask, callVars
<1>1. TypeOK /\ QueueInv /\ PlaceInv /\ WorkerInv /\ CountInv
  BY DEF IndInv
<1>2. /\ wtask \in Calls /\ status[wtask] = "running" /\ wtask \in tasks
      /\ pc[wtask] = "accepted" /\ wtask \notin InQueue /\ wresult \in Finished
  BY <1>1 DEF WorkerInv, QueueInv, TypeOK
<1>3. /\ status' = [status EXCEPT ![wtask] = wresult]
      /\ \A u \in Calls : status'[u] = IF u = wtask THEN wresult ELSE status[u]
      /\ InQueue' = InQueue
  BY <1>1 DEF TypeOK, InQueue
<1>4. /\ tasks' \subseteq tasks
      /\ \A u \in tasks : status'[u] \notin Finished => u \in tasks'
  BY PruneKeepsUnfinished
<1>5. updatedAt' \in [Calls -> Nat]
  <2>1. IsFiniteSet({u \in Calls : status[u] \in Finished})
    BY FS_Subset, TaskQueueAssumption
  <2>2. Cardinality({u \in Calls : status[u] \in Finished}) \in Nat
    BY <2>1, FS_CardinalityType
  <2>3. \E n \in Nat : updatedAt' = [updatedAt EXCEPT ![wtask] = n]
    <3> DEFINE n == 1 + Cardinality({u \in Calls : status[u] \in Finished})
    <3>1. n \in Nat
      BY <2>2
    <3>2. updatedAt' = [updatedAt EXCEPT ![wtask] = n]
      OBVIOUS
    <3> HIDE DEF n
    <3>3. QED BY <3>1, <3>2
  <2>4. QED BY <2>3, <1>1 DEF TypeOK
<1>6. /\ wtask \in Live /\ Live' = Live \ {wtask} /\ IsFiniteSet(Live)
  BY <1>1, <1>2, <1>3, <1>4, CountedSetsFinite DEF Live, Unfinished, Finished, TypeOK
<1>7. taskCount' = Cardinality(Live') /\ taskCount' \in Nat
  <2>1. Cardinality(Live') = Cardinality(Live) - 1 /\ Cardinality(Live) > 0
    BY <1>6, CountStep
  <2>2. taskCount = Cardinality(Live) /\ taskCount \in Nat
    BY <1>1 DEF CountInv, TypeOK
  <2>3. taskCount' = IF taskCount > 0 THEN taskCount - 1 ELSE taskCount
    OBVIOUS
  <2>4. QED BY <2>1, <2>2, <2>3
<1>8. TypeOK'
  BY <1>1, <1>2, <1>3, <1>4, <1>5, <1>7 DEF TypeOK
<1>9. QueueInv'
  BY <1>1, <1>2, <1>3, <1>4 DEF QueueInv, Finished, TypeOK, InQueue
<1>10. PlaceInv'
  BY <1>1, <1>2, <1>3, <1>4 DEF PlaceInv, Outside, Waiting, Taken, Finished
<1>11. WorkerInv'
  BY <1>1, <1>2, <1>3, <1>4 DEF WorkerInv
<1>12. CountInv'
  BY <1>7, SlotsKept DEF CountInv
<1>13. QED BY <1>8, <1>9, <1>10, <1>11, <1>12 DEF IndInv

\* deliverTaskResult answers the caller and frees the worker.
LEMMA DeliverInv == IndInv /\ DeliverTaskResult => IndInv'
<1> SUFFICES ASSUME IndInv, DeliverTaskResult PROVE IndInv'
  OBVIOUS
<1> USE DEF DeliverTaskResult, callVars, recordVars
<1>1. TypeOK /\ QueueInv /\ PlaceInv /\ WorkerInv /\ CountInv
  BY DEF IndInv
<1>2. wtask \in Calls /\ status[wtask] \in Finished
  BY <1>1 DEF WorkerInv
<1>3. InQueue' = InQueue /\ Live' = Live
  BY DEF InQueue, Live
<1>4. TypeOK'
  BY <1>1 DEF TypeOK
<1>5. QueueInv'
  BY <1>1, <1>3, TaskQueueAssumption DEF QueueInv, TypeOK, InQueue
<1>6. PlaceInv'
  BY <1>1, <1>2, <1>3, TaskQueueAssumption DEF PlaceInv, TypeOK, Outside, Waiting, Taken, Finished
<1>7. WorkerInv'
  BY <1>1 DEF WorkerInv
<1>8. CountInv'
  BY <1>1, <1>3, SlotsKept DEF CountInv
<1>9. QED BY <1>4, <1>5, <1>6, <1>7, <1>8 DEF IndInv

\* The clock and the pruners touch finished records only.
LEMMA PruneInv ==
  ASSUME IndInv, NEW t,
         PruneTick \/ (t \in Calls /\ ReachTTL(t))
  PROVE  IndInv'
<1> USE DEF PruneTick, ReachTTL, callVars, workerVars
<1>1. TypeOK /\ QueueInv /\ PlaceInv /\ WorkerInv /\ CountInv
  BY DEF IndInv
<1>2. /\ tasks' \subseteq tasks
      /\ \A u \in tasks : status[u] \notin Finished => u \in tasks'
      /\ UNCHANGED <<callVars, queue, status, updatedAt, taskCount, admissionSlots, workerVars>>
      /\ expired' \subseteq Calls
  BY <1>1, PrunedFacts DEF TypeOK
<1>3. InQueue' = InQueue /\ Live' = Live
  BY <1>2 DEF InQueue, Live, Unfinished, Finished
<1>4. TypeOK'
  BY <1>1, <1>2 DEF TypeOK
<1>5. QueueInv'
  BY <1>1, <1>2, <1>3 DEF QueueInv, Finished
<1>6. PlaceInv'
  BY <1>1, <1>2, <1>3 DEF PlaceInv, Outside, Waiting, Taken, Finished
<1>7. WorkerInv'
  BY <1>1, <1>2 DEF WorkerInv, Finished
<1>8. CountInv'
  BY <1>1, <1>2, <1>3, SlotsKept DEF CountInv
<1>9. QED BY <1>4, <1>5, <1>6, <1>7, <1>8 DEF IndInv

-----------------------------------------------------------------------------
\* The invariant is inductive: one case per action.
LEMMA NextIndInv == IndInv /\ [Next]_vars => IndInv'
<1> SUFFICES ASSUME IndInv, [Next]_vars PROVE IndInv'
  OBVIOUS
<1>1. CASE UNCHANGED vars
  BY <1>1 DEF vars, callVars, recordVars, workerVars, IndInv, TypeOK, QueueInv, PlaceInv,
              WorkerInv, CountInv, InQueue, Live, SlotHolders
<1>2. ASSUME NEW t \in Calls, CallStep(t) PROVE IndInv'
  <2> USE DEF callVars
  <2>1. CASE EnqueueContext(t)
    BY <2>1, MoveOnly DEF EnqueueContext, IndInv, TypeOK
  <2>2. CASE FastPath(t)
    <3>1. CASE Len(queue) < Capacity
      BY <2>2, <3>1, SendInv DEF FastPath, TryAdmitTask
    <3>2. CASE ~(Len(queue) < Capacity)
      <4>1. \E d \in {"contend", "refused"} : OutsideStep(t, d)
        BY <2>2, <3>2 DEF FastPath, TryAdmitTask, OutsideStep
      <4>2. QED BY <4>1, OutsideStepInv
    <3>3. QED BY <3>1, <3>2
  <2>3. CASE SelectAdmissionSlot(t)
    <3>1. CASE t \in cancelled /\ pc' = [pc EXCEPT ![t] = "refused"] /\ UNCHANGED admissionSlots
      BY <2>3, <3>1, MoveOnly DEF SelectAdmissionSlot, IndInv, TypeOK
    <3>2. CASE /\ admissionSlots < MaxWaiters /\ admissionSlots' = admissionSlots + 1
               /\ pc' = [pc EXCEPT ![t] = "slotHeld"]
      <4>1. OutsideStep(t, "slotHeld")
        BY <2>3, <3>2 DEF SelectAdmissionSlot, OutsideStep, recordVars
      <4>2. QED BY <4>1, OutsideStepInv
    <3>3. CASE pc' = [pc EXCEPT ![t] = "lastTry"] /\ UNCHANGED admissionSlots
      BY <2>3, <3>3, MoveOnly DEF SelectAdmissionSlot, IndInv, TypeOK
    <3>4. QED BY <2>3, <3>1, <3>2, <3>3 DEF SelectAdmissionSlot
  <2>4. CASE FinalTry(t)
    <3>1. CASE Len(queue) < Capacity
      BY <2>4, <3>1, SendInv DEF FinalTry, TryAdmitTask
    <3>2. CASE ~(Len(queue) < Capacity)
      <4>1. \E d \in {"contend", "refused"} : OutsideStep(t, d)
        BY <2>4, <3>2 DEF FinalTry, TryAdmitTask, OutsideStep
      <4>2. QED BY <4>1, OutsideStepInv
    <3>3. QED BY <3>1, <3>2
  <2>5. CASE RegisterWaiting(t)
    <3>1. CASE t \in cancelled
      <4>1. OutsideStep(t, "refused")
        BY <2>5, <3>1 DEF RegisterWaiting, OutsideStep
      <4>2. QED BY <4>1, OutsideStepInv
    <3>2. CASE t \notin cancelled
      <4>1. OutsideStep(t, "blocked")
        BY <2>5, <3>2 DEF RegisterWaiting, OutsideStep
      <4>2. QED BY <4>1, OutsideStepInv
    <3>3. QED BY <3>1, <3>2
  <2>6. CASE BlockedSend(t)
    BY <2>6, SendInv DEF BlockedSend, recordVars
  <2>7. CASE GiveUpSend(t)
    BY <2>7, MoveOnly DEF GiveUpSend, IndInv, TypeOK
  <2>8. CASE RemoveUnqueuedTask(t)
    <3>1. /\ pc[t] = "withdraw" /\ pc' = [pc EXCEPT ![t] = "refused"]
          /\ tasks' = tasks \ {t} /\ admissionSlots' = admissionSlots - 1
          /\ taskCount' = IF t \in tasks /\ taskCount > 0 THEN taskCount - 1 ELSE taskCount
          /\ UNCHANGED <<cancelled, queue, status, updatedAt, expired, workerVars>>
      BY <2>8 DEF RemoveUnqueuedTask
    <3>2. t \in Live /\ t \in tasks
      BY <3>1, CallFacts DEF Waiting, Live
    <3>3. taskCount > 0
      BY <3>2, CountedSetsFinite, CountStep DEF IndInv, CountInv
    <3>4. taskCount' = taskCount - 1
      BY <3>1, <3>2, <3>3
    <3>5. OutsideStep(t, "refused")
      BY <3>1, <3>4 DEF OutsideStep
    <3>6. QED BY <3>5, OutsideStepInv
  <2>9. CASE AwaitResult(t)
    BY <2>9, MoveOnly DEF AwaitResult, IndInv, TypeOK
  <2>10. QED
    BY <1>2, <2>1, <2>2, <2>3, <2>4, <2>5, <2>6, <2>7, <2>8, <2>9 DEF CallStep
<1>3. ASSUME NEW t \in Calls, CancelContext(t) PROVE IndInv'
  <2>1. UNCHANGED <<pc, queue, recordVars, admissionSlots, workerVars>>
        /\ cancelled' = cancelled \cup {t}
    BY <1>3 DEF CancelContext
  <2> USE <2>1 DEF recordVars, workerVars
  <2>2. InQueue' = InQueue /\ Live' = Live /\ SlotHolders' = SlotHolders
    BY DEF InQueue, Live, SlotHolders
  <2>3. TypeOK'
    BY DEF IndInv, TypeOK
  <2>4. QueueInv'
    BY <2>2 DEF IndInv, QueueInv
  <2>5. PlaceInv'
    BY <2>2 DEF IndInv, PlaceInv
  <2>6. WorkerInv'
    BY DEF IndInv, WorkerInv
  <2>7. CountInv'
    BY <2>2 DEF IndInv, CountInv
  <2>8. QED BY <2>3, <2>4, <2>5, <2>6, <2>7 DEF IndInv
<1>4. ASSUME NEW t \in Calls, ReachTTL(t) PROVE IndInv'
  BY <1>4, PruneInv
<1>5. CASE WorkerStep
  BY <1>5, ReceiveInv, ExecuteInv, FinalizeInv, DeliverInv DEF WorkerStep
<1>6. CASE PruneTick
  BY <1>6, PruneInv
<1>7. QED BY <1>1, <1>2, <1>3, <1>4, <1>5, <1>6 DEF Next

\* IndInv holds in every reachable state of the queue.
THEOREM QueueInvariant == Spec => []IndInv
<1>1. QED BY InitIndInv, NextIndInv, PTL DEF Spec

\* The variables keep their types.
THEOREM TypeCorrect == Spec => []TypeOK
<1>1. IndInv => TypeOK
  BY DEF IndInv
<1>2. QED BY QueueInvariant, <1>1, PTL

\* q.taskCount counts the unfinished records exactly, for any number of callers.
THEOREM CountExact == Spec => []TaskCountExact
<1>1. IndInv => TaskCountExact
  BY DEF IndInv, CountInv, TaskCountExact
<1>2. QED BY QueueInvariant, <1>1, PTL

\* A refused call leaves no record, and its task is never taken by the worker.
THEOREM RefusedIsWithdrawn == Spec => []RefusedNeverRuns
<1>1. IndInv => RefusedNeverRuns
  BY DEF IndInv, QueueInv, PlaceInv, Outside, RefusedNeverRuns
<1>2. QED BY QueueInvariant, <1>1, PTL

\* Every unfinished record has somebody who will finish or withdraw it.
THEOREM RecordsHaveOwners == Spec => []NoOrphanRecord
<1>1. IndInv => NoOrphanRecord
  <2> SUFFICES ASSUME IndInv, NEW t \in Live
               PROVE  pc[t] \in {"blocked", "withdraw"} \/ t \in InQueue \/ t = wtask
    BY DEF NoOrphanRecord
  <2>1. t \in Calls /\ t \in tasks /\ status[t] \notin Finished
    BY DEF IndInv, TypeOK, Live, Unfinished, Finished
  <2>2. pc[t] \in Outside \cup Waiting \cup Taken
    BY <2>1 DEF IndInv, TypeOK, Outside, Waiting, Taken
  <2>3. QED BY <2>1, <2>2 DEF IndInv, PlaceInv, Waiting
<1>2. QED BY QueueInvariant, <1>1, PTL

\* An accepted task stays pollable until it has finished.
THEOREM AcceptedHasRecord == Spec => []AcceptedIsPollable
<1>1. IndInv => AcceptedIsPollable
  <2> SUFFICES ASSUME IndInv PROVE AcceptedIsPollable
    OBVIOUS
  <2>1. ASSUME NEW t \in Calls, pc[t] \in Taken, status[t] \in Unfinished PROVE t \in tasks
    <3>1. t \in InQueue \/ t = wtask
      BY <2>1 DEF IndInv, PlaceInv, Unfinished, Finished
    <3>2. t = wtask => t \in tasks
      BY <2>1, TaskQueueAssumption DEF IndInv, TypeOK, WorkerInv, Unfinished, Finished
    <3>3. QED BY <3>1, <3>2 DEF IndInv, QueueInv
  <2>2. QED BY <2>1 DEF AcceptedIsPollable, Taken, IndInv, QueueInv
<1>2. QED BY QueueInvariant, <1>1, PTL

\* Whatever the number of callers, the unfinished tasks retained in memory are,
\* next to the worker's one, at most the channel's capacity and the waiters.
THEOREM AdmissionIsBounded == Spec => []AdmissionBounded
<1>1. IndInv => AdmissionBounded
  <2> SUFFICES ASSUME IndInv PROVE Cardinality(Live \ {wtask}) <= Capacity + MaxWaiters
    BY DEF AdmissionBounded
  <2>1. /\ queue \in Seq(Calls) /\ Len(queue) \in Nat /\ Len(queue) <= Capacity
        /\ IsFiniteSet(SlotHolders) /\ Cardinality(SlotHolders) <= MaxWaiters
        /\ IsFiniteSet(1 .. Len(queue)) /\ Cardinality(1 .. Len(queue)) = Len(queue)
    <3>1. queue \in Seq(Calls) /\ Len(queue) \in Nat /\ Len(queue) <= Capacity
      BY DEF IndInv, TypeOK, QueueInv
    <3>2. IsFiniteSet(SlotHolders) /\ Cardinality(SlotHolders) <= MaxWaiters
      BY CountedSetsFinite DEF IndInv, CountInv
    <3>3. IsFiniteSet(1 .. Len(queue)) /\ Cardinality(1 .. Len(queue)) = Len(queue)
      BY <3>1, FS_Interval
    <3>4. QED BY <3>1, <3>2, <3>3
  <2>2. IsFiniteSet(InQueue) /\ Cardinality(InQueue) <= Len(queue)
    <3>1. queue \in Surjection(1 .. Len(queue), InQueue)
      BY <2>1 DEF InQueue, Surjection
    <3>2. QED BY <2>1, <3>1, FS_Surjection
  <2> DEFINE places == SlotHolders \cup InQueue
  <2>3. /\ IsFiniteSet(places) /\ Cardinality(places) \in Nat
        /\ Cardinality(places) <= MaxWaiters + Capacity
    <3>1. /\ IsFiniteSet(SlotHolders \cup InQueue)
          /\ Cardinality(SlotHolders \cup InQueue) =
               Cardinality(SlotHolders) + Cardinality(InQueue)
               - Cardinality(SlotHolders \cap InQueue)
      BY <2>1, <2>2, FS_Union
    <3>2. IsFiniteSet(SlotHolders \cap InQueue)
      BY <2>1, FS_Subset
    <3>3. /\ Cardinality(SlotHolders \cap InQueue) \in Nat
          /\ Cardinality(SlotHolders) \in Nat /\ Cardinality(InQueue) \in Nat
          /\ Cardinality(places) \in Nat
      BY <2>1, <2>2, <3>1, <3>2, FS_CardinalityType
    <3>4. QED BY <2>1, <2>2, <3>1, <3>3, TaskQueueAssumption
  <2>4. Live \ {wtask} \subseteq places
    <3> SUFFICES ASSUME NEW t \in Live, t # wtask PROVE t \in places
      OBVIOUS
    <3>1. t \in Calls /\ status[t] \notin Finished /\ t \in tasks
      BY DEF IndInv, TypeOK, Live, Unfinished, Finished
    <3>2. pc[t] \in Outside \cup Waiting \cup Taken
      BY <3>1 DEF IndInv, TypeOK, Outside, Waiting, Taken
    <3>3. QED BY <3>1, <3>2 DEF IndInv, PlaceInv, Waiting, SlotHolders
  <2>5. /\ Cardinality(Live \ {wtask}) <= Cardinality(places)
        /\ Cardinality(Live \ {wtask}) \in Nat
    BY <2>3, <2>4, FS_Subset, FS_CardinalityType
  <2>6. QED BY <2>3, <2>5, TaskQueueAssumption
<1>2. QED BY QueueInvariant, <1>1, PTL

-----------------------------------------------------------------------------
fateNow == [t \in Calls |-> Fate(t)]

\* The fate of every other submission is untouched when only t moves.
LEMMA FateOfOthers ==
  ASSUME NEW t \in Calls, NEW f,
         \A u \in Calls \ {t} : Fate(u)' = Fate(u),
         Fate(t)' = f
  PROVE  fateNow' = [fateNow EXCEPT ![t] = f]
BY DEF fateNow

\* A step that moves nothing between the places that Fate looks at stutters.
LEMMA FateKept ==
  ASSUME \A u \in Calls : Fate(u)' = Fate(u)
  PROVE  fateNow' = fateNow
BY DEF fateNow

LEMMA InitRefines == Init => Serial!AInit
<1> SUFFICES ASSUME Init PROVE Serial!AInit
  OBVIOUS
<1>1. \A t \in Calls : Fate(t) = "pending"
  BY TaskQueueAssumption DEF Init, Fate, Finished, InQueue
<1>2. QED BY <1>1 DEF Serial!AInit, Init

\* Every step of the queue is a step of the serial executor, or changes neither
\* the fate of a submission nor the line.
LEMMA StepRefines ==
  ASSUME IndInv, IndInv', [Next]_vars
  PROVE  \/ UNCHANGED <<fateNow, queue>>
         \/ \E t \in Calls : \/ Serial!Accept(t) \/ Serial!Refuse(t) \/ Serial!Begin(t)
                             \/ \E outcome \in Finished : Serial!End(t, outcome)
<1> DEFINE Stutter == UNCHANGED <<fateNow, queue>>
<1> DEFINE Goal == \/ Stutter
                   \/ \E t \in Calls :
                        \/ Serial!Accept(t) \/ Serial!Refuse(t) \/ Serial!Begin(t)
                        \/ \E outcome \in Finished : Serial!End(t, outcome)
<1>0. ASSUME UNCHANGED <<queue, status, wtask>>,
             \A t \in Calls : pc'[t] = "refused" <=> pc[t] = "refused"
      PROVE  Stutter
  <2>1. InQueue' = InQueue
    BY <1>0 DEF InQueue
  <2>2. \A u \in Calls : Fate(u)' = Fate(u)
    BY <1>0, <2>1 DEF Fate
  <2>3. QED BY <1>0, <2>2, FateKept
<1>1. ASSUME NEW t \in Calls,
             pc[t] \in Outside \cup Waiting, pc[t] # "refused",
             pc' = [pc EXCEPT ![t] = "refused"], UNCHANGED <<queue, status, wtask>>
      PROVE  Serial!Refuse(t)
  <2>1. /\ InQueue' = InQueue /\ t \notin InQueue /\ t # wtask /\ status[t] = "waiting"
        /\ pc \in [Calls -> Outside \cup Waiting \cup Taken]
    BY <1>1, CallFacts DEF InQueue, IndInv, TypeOK, Outside, Waiting, Taken
  <2>2. Fate(t) = "pending" /\ Fate(t)' = "refused"
    BY <1>1, <2>1 DEF Fate, Finished
  <2>3. \A u \in Calls \ {t} : Fate(u)' = Fate(u)
    BY <1>1, <2>1 DEF Fate
  <2>4. fateNow' = [fateNow EXCEPT ![t] = "refused"] /\ fateNow[t] = "pending"
    BY <2>2, <2>3, FateOfOthers DEF fateNow
  <2>5. QED BY <1>1, <2>4 DEF Serial!Refuse, fateNow
<1>2. ASSUME NEW t \in Calls, pc[t] \in {"fast", "lastTry", "blocked"},
             pc' = [pc EXCEPT ![t] = "accepted"], queue' = Append(queue, t),
             UNCHANGED <<status, wtask>>
      PROVE  Serial!Accept(t)
  <2>1. /\ t \notin InQueue /\ t # wtask /\ status[t] = "waiting"
        /\ pc \in [Calls -> Outside \cup Waiting \cup Taken] /\ InQueue = Elems(queue)
        /\ Distinct(queue) /\ queue \in Seq(Calls)
    BY <1>2, CallFacts DEF Outside, Waiting, Taken, IndInv, TypeOK
  <2>2. InQueue' = InQueue \cup {t}
    BY <1>2, <2>1, AppendDistinct DEF InQueue, Elems
  <2>3. Fate(t) = "pending" /\ Fate(t)' = "queued"
    BY <1>2, <2>1, <2>2 DEF Fate, Finished
  <2>4. \A u \in Calls \ {t} : Fate(u)' = Fate(u)
    BY <1>2, <2>1, <2>2 DEF Fate
  <2>5. fateNow' = [fateNow EXCEPT ![t] = "queued"] /\ fateNow[t] = "pending"
    BY <2>3, <2>4, FateOfOthers DEF fateNow
  <2>6. QED BY <1>2, <2>5 DEF Serial!Accept, fateNow
<1>3. ASSUME NEW t \in Calls, CallStep(t) PROVE Goal
  <2> USE <1>3 DEF recordVars, workerVars
  <2>0. pc \in [Calls -> Outside \cup Waiting \cup Taken]
    BY DEF IndInv, TypeOK, Outside, Waiting, Taken
  <2>1. CASE EnqueueContext(t)
    BY <2>1, <2>0, <1>0, <1>1 DEF EnqueueContext, Outside
  <2>2. CASE FastPath(t)
    BY <2>2, <2>0, <1>0, <1>2 DEF FastPath, TryAdmitTask
  <2>3. CASE SelectAdmissionSlot(t)
    BY <2>3, <2>0, <1>0, <1>1 DEF SelectAdmissionSlot, Outside
  <2>4. CASE FinalTry(t)
    BY <2>4, <2>0, <1>1, <1>2 DEF FinalTry, TryAdmitTask, Outside
  <2>5. CASE RegisterWaiting(t)
    BY <2>5, <2>0, <1>0, <1>1 DEF RegisterWaiting, Outside
  <2>6. CASE BlockedSend(t)
    BY <2>6, <1>2 DEF BlockedSend
  <2>7. CASE GiveUpSend(t)
    BY <2>7, <2>0, <1>0 DEF GiveUpSend
  <2>8. CASE RemoveUnqueuedTask(t)
    BY <2>8, <1>1 DEF RemoveUnqueuedTask, Waiting
  <2>9. CASE AwaitResult(t)
    BY <2>9, <2>0, <1>0 DEF AwaitResult
  <2>10. QED
    BY <2>1, <2>2, <2>3, <2>4, <2>5, <2>6, <2>7, <2>8, <2>9 DEF CallStep
<1>4. CASE WorkerReceive
  <2>0. /\ queue \in Seq(Calls) /\ queue # <<>> /\ Distinct(queue) /\ InQueue = Elems(queue)
        /\ queue' = Tail(queue) /\ wtask' = Head(queue) /\ UNCHANGED <<pc, status>>
        /\ wtask = NoTask
    BY <1>4 DEF WorkerReceive, IndInv, TypeOK, QueueInv, WorkerInv, InQueue, Elems,
                callVars, recordVars
  <2>1. PICK h \in Calls : h = Head(queue)
    BY <2>0
  <2> USE <2>0
  <2>2. h \in InQueue /\ InQueue' = InQueue \ {h}
    <3>1. Head(queue) \in Elems(queue) /\ Elems(Tail(queue)) = Elems(queue) \ {Head(queue)}
      BY TailDistinct
    <3>2. InQueue' = Elems(Tail(queue))
      BY DEF InQueue, Elems
    <3>3. QED BY <3>1, <3>2, <2>1
  <2>3. pc[h] = "accepted" /\ status[h] = "waiting"
    BY <2>2 DEF IndInv, QueueInv
  <2>4. Fate(h) = "queued" /\ Fate(h)' = "executing"
    BY <2>1, <2>2, <2>3, TaskQueueAssumption DEF Fate, Finished
  <2>5. \A u \in Calls : Fate(u) # "executing"
    BY <2>1, TaskQueueAssumption DEF Fate, Finished
  <2>6. \A u \in Calls \ {h} : Fate(u)' = Fate(u)
    BY <2>1, <2>2, TaskQueueAssumption DEF Fate
  <2>7. fateNow' = [fateNow EXCEPT ![h] = "executing"] /\ fateNow[h] = "queued"
    BY <2>2, <2>4, <2>6, FateOfOthers DEF fateNow
  <2>8. Serial!Begin(h)
    BY <2>1, <2>2, <2>5, <2>7 DEF Serial!Begin, fateNow
  <2>9. QED BY <2>2, <2>8
<1>5. CASE WorkerStart \/ \E outcome \in Finished : WorkerExecute(outcome)
  <2>1. /\ wtask \in Calls /\ status[wtask] \notin Finished /\ wpc # "receive"
        /\ UNCHANGED <<pc, queue, wtask>>
        /\ \A u \in Calls : status'[u] \in Finished <=> status[u] \in Finished
        /\ \A u \in Calls : status[u] \in Finished => status'[u] = status[u]
    BY <1>5 DEF WorkerStart, WorkerExecute, IndInv, WorkerInv, TypeOK, Finished, callVars, recordVars
  <2>2. InQueue' = InQueue
    BY <2>1 DEF InQueue
  <2>3. \A u \in Calls : Fate(u)' = Fate(u)
    BY <2>1, <2>2 DEF Fate
  <2>4. QED BY <2>1, <2>3, FateKept
<1>6. CASE FinalizeTask
  <2>1. /\ wtask \in Calls /\ status[wtask] = "running" /\ pc[wtask] = "accepted"
        /\ wresult \in Finished
        /\ UNCHANGED <<pc, queue, wtask>>
        /\ \A u \in Calls : status'[u] = IF u = wtask THEN wresult ELSE status[u]
    BY <1>6 DEF FinalizeTask, IndInv, WorkerInv, TypeOK, callVars
  <2>2. InQueue' = InQueue
    BY <2>1 DEF InQueue
  <2>3. Fate(wtask) = "executing" /\ Fate(wtask)' = wresult
    BY <2>1 DEF Fate, Finished
  <2>4. \A u \in Calls \ {wtask} : Fate(u)' = Fate(u)
    BY <2>1, <2>2 DEF Fate
  <2>5. fateNow' = [fateNow EXCEPT ![wtask] = wresult] /\ fateNow[wtask] = "executing"
    BY <2>1, <2>3, <2>4, FateOfOthers DEF fateNow
  <2>6. Serial!End(wtask, wresult)
    BY <2>1, <2>5 DEF Serial!End, fateNow
  <2>7. QED BY <2>1, <2>6
<1>7. CASE DeliverTaskResult
  <2>1. /\ wtask \in Calls /\ status[wtask] \in Finished /\ wtask' = NoTask
        /\ UNCHANGED <<pc, queue, status>>
    BY <1>7 DEF DeliverTaskResult, IndInv, WorkerInv, callVars, recordVars
  <2>2. InQueue' = InQueue
    BY <2>1 DEF InQueue
  <2>3. \A u \in Calls : Fate(u)' = Fate(u)
    BY <2>1, <2>2, TaskQueueAssumption DEF Fate
  <2>4. QED BY <2>1, <2>3, FateKept
<1>8. CASE \/ PruneTick \/ UNCHANGED vars
           \/ \E t \in Calls : CancelContext(t) \/ ReachTTL(t)
  BY <1>8, <1>0 DEF PruneTick, CancelContext, ReachTTL, vars, callVars, recordVars, workerVars
<1>9. QED BY <1>3, <1>4, <1>5, <1>6, <1>7, <1>8 DEF Next, WorkerStep

\* The queue implements the serial executor: accepted calls run one at a time, in
\* the order of acceptance, once; refused calls never run.
THEOREM QueueIsSerialExecutor == Spec => ImplementsSerialExecutor
<1>1. IndInv /\ IndInv' /\ [Next]_vars => [Serial!ANext]_(Serial!avars)
  BY StepRefines DEF Serial!ANext, Serial!avars, fateNow, Finished
<1>2. QED
  BY QueueInvariant, InitRefines, <1>1, PTL DEF Spec, ImplementsSerialExecutor, Serial!ASpec

=============================================================================
