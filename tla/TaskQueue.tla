------------------------------ MODULE TaskQueue ------------------------------
(***************************************************************************)
(* The panel's serial task queue (executor/queue.go).                      *)
(*                                                                         *)
(* Request goroutines call EnqueueContext; one worker goroutine takes the  *)
(* tasks from a buffered Go channel and executes them one after another;   *)
(* a janitor and the polling API prune the records of finished tasks.      *)
(* A call of EnqueueContext creates exactly one Task, so that a call and   *)
(* the task it creates share a name here: the members of Calls.            *)
(*                                                                         *)
(* Every critical section of q.mu, every channel operation and every       *)
(* select is one atomic step; between two of them anything may happen.     *)
(***************************************************************************)
EXTENDS Naturals, Sequences, FiniteSets

CONSTANTS
  Calls,          \* the calls of EnqueueContext, each with the task it creates
  NoTask,         \* the worker holds no task
  Capacity,       \* taskQueueCapacity: the buffer of q.queue
  MaxWaiters,     \* maxTaskAdmissionWaiters: callers allowed to wait for room
  MaxCompleted    \* maxCompletedTaskRecords: finished records kept for polling

ASSUME TaskQueueAssumption ==
  /\ IsFiniteSet(Calls)
  /\ NoTask \notin Calls
  /\ Capacity \in Nat \ {0}
  /\ MaxWaiters \in Nat \ {0}
  /\ MaxCompleted \in Nat \ {0}

VARIABLES
  pc,             \* where each call of EnqueueContext is
  cancelled,      \* the calls whose context is done
  queue,          \* the contents of the channel q.queue, oldest first
  tasks,          \* the keys of the map q.tasks
  status,         \* Task.Status of each task object
  updatedAt,      \* Task.UpdatedAt of a finished task, as its rank
  expired,        \* the finished tasks whose record is older than completedTaskTTL
  taskCount,      \* q.taskCount
  admissionSlots, \* the number of tokens in q.admissionSlots
  wpc,            \* where the worker goroutine is
  wtask,          \* the task the worker has received and not yet delivered
  wresult,        \* the outcome of executing it
  running,        \* q.running
  resultCh        \* Task.ResultCh: "open", or "closed" with its one result in it

callVars   == <<pc, cancelled>>
recordVars == <<tasks, status, updatedAt, expired, taskCount>>
workerVars == <<wpc, wtask, wresult, running, resultCh>>
vars == <<callVars, queue, recordVars, admissionSlots, workerVars>>

Unfinished == {"waiting", "running"}
Finished   == {"success", "failed"}
InQueue    == {queue[i] : i \in 1 .. Len(queue)}

\* The calls that hold a token of the admission semaphore.
SlotHolders == {t \in Calls : pc[t] \in {"slotHeld", "blocked", "withdraw"}}
\* The task objects with a record that counts in q.taskCount.
Live == {t \in tasks : status[t] \in Unfinished}

\* Mutant of PruneCompleted: waiting records count as the oldest.
PruneCompletedAnyStatus(m, st, at) ==
  LET newer(t) == {u \in m \ expired : at[u] > at[t]}
  IN  {t \in m \ expired : Cardinality(newer(t)) < MaxCompleted}

(***************************************************************************)
(* pruneCompletedLocked, on the map's keys m with statuses st and finish   *)
(* ranks at: records past their TTL go first, then the oldest in excess of *)
(* MaxCompleted.                                                           *)
(***************************************************************************)
PruneCompleted(m, st, at) ==
  LET fresh  == {t \in m : st[t] \in Finished} \ expired
      newer(t) == {u \in fresh : at[u] > at[t]}
      excess == {t \in fresh : Cardinality(newer(t)) >= MaxCompleted}
  IN  {t \in m : st[t] \in Finished => t \notin expired \cup excess}

PrunedTasks == PruneCompleted(tasks, status, updatedAt)

-----------------------------------------------------------------------------
Init ==
  /\ pc = [t \in Calls |-> "idle"]
  /\ cancelled = {}
  /\ queue = <<>>
  /\ tasks = {}
  /\ status = [t \in Calls |-> "waiting"]
  /\ updatedAt = [t \in Calls |-> 0]
  /\ expired = {}
  /\ taskCount = 0
  /\ admissionSlots = 0
  /\ wpc = "receive"
  /\ wtask = NoTask
  /\ wresult = "failed"
  /\ running = FALSE
  /\ resultCh = [t \in Calls |-> "open"]

\* The caller's context is cancelled or passes its deadline.
CancelContext(t) ==
  /\ t \notin cancelled
  /\ pc[t] \notin {"withdraw", "accepted", "answered", "refused"}
  /\ cancelled' = cancelled \cup {t}
  /\ UNCHANGED <<pc, queue, recordVars, admissionSlots, workerVars>>

\* EnqueueContext up to the fast path: a dead context is refused at once.
EnqueueContext(t) ==
  /\ pc[t] = "idle"
  /\ pc' = [pc EXCEPT ![t] = IF t \in cancelled THEN "refused" ELSE "fast"]
  /\ UNCHANGED <<cancelled, queue, recordVars, admissionSlots, workerVars>>

\* Mutant: the failed non-blocking send forgets q.taskCount--.
TryAdmitTaskKeepsCount(t, onFull) ==
  /\ taskCount' = taskCount + 1
  /\ IF Len(queue) < Capacity
     THEN /\ queue' = Append(queue, t)
          /\ tasks' = PrunedTasks \cup {t}
          /\ pc' = [pc EXCEPT ![t] = "accepted"]
     ELSE /\ tasks' = PrunedTasks \ {t}
          /\ pc' = [pc EXCEPT ![t] = onFull]
          /\ UNCHANGED queue
  /\ UNCHANGED <<cancelled, status, updatedAt, expired, admissionSlots, workerVars>>

(***************************************************************************)
(* tryAdmitTask: one critical section that prunes, registers the record    *)
(* and sends without blocking, taking the record back when the channel is  *)
(* full.  It is tried on the fast path and once more when every admission  *)
(* slot is taken; onFull is where the call goes when the channel is full.  *)
(***************************************************************************)
TryAdmitTask(t, onFull) ==
  /\ IF Len(queue) < Capacity
     THEN /\ queue' = Append(queue, t)
          /\ tasks' = PrunedTasks \cup {t}
          /\ taskCount' = taskCount + 1
          /\ pc' = [pc EXCEPT ![t] = "accepted"]
     ELSE /\ tasks' = PrunedTasks \ {t}
          /\ pc' = [pc EXCEPT ![t] = onFull]
          /\ UNCHANGED <<queue, taskCount>>
  /\ UNCHANGED <<cancelled, status, updatedAt, expired, admissionSlots, workerVars>>

FastPath(t)  == pc[t] = "fast" /\ TryAdmitTask(t, "contend")
FinalTry(t)  == pc[t] = "lastTry" /\ TryAdmitTask(t, "refused")

\* Mutant: the semaphore is one slot larger than maxTaskAdmissionWaiters.
SelectAdmissionSlotOneMore(t) ==
  /\ pc[t] = "contend"
  /\ \/ /\ admissionSlots <= MaxWaiters
        /\ admissionSlots' = admissionSlots + 1
        /\ pc' = [pc EXCEPT ![t] = "slotHeld"]
     \/ /\ admissionSlots > MaxWaiters
        /\ pc' = [pc EXCEPT ![t] = "lastTry"]
        /\ UNCHANGED admissionSlots
  /\ UNCHANGED <<cancelled, queue, recordVars, workerVars>>

\* The select on the admission semaphore: a done context and a free slot are
\* ready cases, chosen at random; with neither ready the default branch runs.
SelectAdmissionSlot(t) ==
  /\ pc[t] = "contend"
  /\ \/ /\ t \in cancelled
        /\ pc' = [pc EXCEPT ![t] = "refused"]
        /\ UNCHANGED admissionSlots
     \/ /\ admissionSlots < MaxWaiters
        /\ admissionSlots' = admissionSlots + 1
        /\ pc' = [pc EXCEPT ![t] = "slotHeld"]
     \/ /\ t \notin cancelled
        /\ admissionSlots >= MaxWaiters
        /\ pc' = [pc EXCEPT ![t] = "lastTry"]
        /\ UNCHANGED admissionSlots
  /\ UNCHANGED <<cancelled, queue, recordVars, workerVars>>

\* Mutant: the slot is released on registration, and again by the deferred receive.
RegisterWaitingReleases(t) ==
  /\ pc[t] = "slotHeld"
  /\ pc' = [pc EXCEPT ![t] = "blocked"]
  /\ tasks' = PrunedTasks \cup {t}
  /\ taskCount' = taskCount + 1
  /\ admissionSlots' = admissionSlots - 1
  /\ UNCHANGED <<cancelled, queue, status, updatedAt, expired, workerVars>>

\* With the slot: check the context again, then register the record under q.mu.
RegisterWaiting(t) ==
  /\ pc[t] = "slotHeld"
  /\ IF t \in cancelled
     THEN /\ pc' = [pc EXCEPT ![t] = "refused"]
          /\ admissionSlots' = admissionSlots - 1
          /\ UNCHANGED <<tasks, taskCount>>
     ELSE /\ pc' = [pc EXCEPT ![t] = "blocked"]
          /\ tasks' = PrunedTasks \cup {t}
          /\ taskCount' = taskCount + 1
          /\ UNCHANGED admissionSlots
  /\ UNCHANGED <<cancelled, queue, status, updatedAt, expired, workerVars>>

\* Mutant: the send went through and the timer is still obeyed.
BlockedSendThenTimeout(t) ==
  /\ pc[t] = "blocked"
  /\ Len(queue) < Capacity
  /\ queue' = Append(queue, t)
  /\ pc' = [pc EXCEPT ![t] = "withdraw"]
  /\ UNCHANGED <<cancelled, recordVars, admissionSlots, workerVars>>

\* The blocked send goes through; the deferred receive frees the slot.
BlockedSend(t) ==
  /\ pc[t] = "blocked"
  /\ Len(queue) < Capacity
  /\ queue' = Append(queue, t)
  /\ pc' = [pc EXCEPT ![t] = "accepted"]
  /\ admissionSlots' = admissionSlots - 1
  /\ UNCHANGED <<cancelled, recordVars, workerVars>>

\* Mutant: no enqueue timer, only the context ends the wait.
GiveUpSendNoTimer(t) ==
  /\ pc[t] = "blocked"
  /\ t \in cancelled
  /\ pc' = [pc EXCEPT ![t] = "withdraw"]
  /\ UNCHANGED <<cancelled, queue, recordVars, admissionSlots, workerVars>>

\* The other two cases of the same select: the context, or the enqueue timer
\* (which may fire at any time after it is set).
GiveUpSend(t) ==
  /\ pc[t] = "blocked"
  /\ pc' = [pc EXCEPT ![t] = "withdraw"]
  /\ UNCHANGED <<cancelled, queue, recordVars, admissionSlots, workerVars>>

\* removeUnqueuedTask, and the deferred release of the slot.
RemoveUnqueuedTask(t) ==
  /\ pc[t] = "withdraw"
  /\ pc' = [pc EXCEPT ![t] = "refused"]
  /\ tasks' = tasks \ {t}
  /\ taskCount' = IF t \in tasks /\ taskCount > 0 THEN taskCount - 1 ELSE taskCount
  /\ admissionSlots' = admissionSlots - 1
  /\ UNCHANGED <<cancelled, queue, status, updatedAt, expired, workerVars>>

\* A handler that got a Task waits on its ResultCh without a deadline.
AwaitResult(t) ==
  /\ pc[t] = "accepted"
  /\ resultCh[t] = "closed"
  /\ pc' = [pc EXCEPT ![t] = "answered"]
  /\ UNCHANGED <<cancelled, queue, recordVars, admissionSlots, workerVars>>

-----------------------------------------------------------------------------
\* worker: receive from the channel and raise q.running ...
WorkerReceive ==
  /\ wpc = "receive"
  /\ queue # <<>>
  /\ wtask' = Head(queue)
  /\ queue' = Tail(queue)
  /\ running' = TRUE
  /\ wpc' = "start"
  /\ UNCHANGED <<callVars, recordVars, admissionSlots, wresult, resultCh>>

\* ... mark the task running under q.mu ...
WorkerStart ==
  /\ wpc = "start"
  /\ status' = [status EXCEPT ![wtask] = "running"]
  /\ wpc' = "execute"
  /\ UNCHANGED <<callVars, queue, tasks, updatedAt, expired, taskCount,
                 admissionSlots, wtask, wresult, running, resultCh>>

\* Mutant: a recovered panic ends the task without a word to its caller.
WorkerExecuteSwallows(outcome) ==
  /\ wpc = "execute"
  /\ wresult' = outcome
  /\ IF outcome = "failed" THEN wpc' = "receive" /\ wtask' = NoTask /\ running' = FALSE
                           ELSE wpc' = "finalize" /\ UNCHANGED <<wtask, running>>
  /\ UNCHANGED <<callVars, queue, recordVars, admissionSlots, resultCh>>

\* ... execute it: it succeeds, fails, or panics, which the recover turns
\* into a failure that is finalized like any other.
WorkerExecute(outcome) ==
  /\ wpc = "execute"
  /\ wresult' = outcome
  /\ wpc' = "finalize"
  /\ UNCHANGED <<callVars, queue, recordVars, admissionSlots, wtask, running, resultCh>>

\* finalizeTask's critical section: publish the result and prune ...
FinalizeTask ==
  LET st == [status EXCEPT ![wtask] = wresult]
      at == [updatedAt EXCEPT ![wtask] =
               1 + Cardinality({t \in Calls : status[t] \in Finished})]
  IN  /\ wpc = "finalize"
      /\ status' = st
      /\ updatedAt' = at
      /\ taskCount' = IF taskCount > 0 THEN taskCount - 1 ELSE taskCount
      /\ tasks' = PruneCompleted(tasks, st, at)
      /\ wpc' = "deliver"
      /\ UNCHANGED <<callVars, queue, expired, admissionSlots, wtask, wresult,
                     running, resultCh>>

\* ... then deliverTaskResult (send, close) and the deferred running = false.
DeliverTaskResult ==
  /\ wpc = "deliver"
  /\ resultCh' = [resultCh EXCEPT ![wtask] = "closed"]
  /\ running' = FALSE
  /\ wtask' = NoTask
  /\ wpc' = "receive"
  /\ UNCHANGED <<callVars, queue, recordVars, admissionSlots, wresult>>

-----------------------------------------------------------------------------
\* Time passes: the oldest unexpired finished record reaches completedTaskTTL.
ReachTTL(t) ==
  /\ status[t] \in Finished
  /\ t \notin expired
  /\ \A u \in Calls : (status[u] \in Finished /\ updatedAt[u] < updatedAt[t]) => u \in expired
  /\ expired' = expired \cup {t}
  /\ UNCHANGED <<callVars, queue, tasks, status, updatedAt, taskCount,
                 admissionSlots, workerVars>>

\* The janitor's tick and every GetTask of a polling client prune the map.
PruneTick ==
  /\ PrunedTasks # tasks
  /\ tasks' = PrunedTasks
  /\ UNCHANGED <<callVars, queue, status, updatedAt, expired, taskCount,
                 admissionSlots, workerVars>>

-----------------------------------------------------------------------------
CallStep(t) ==
  \/ EnqueueContext(t) \/ FastPath(t) \/ SelectAdmissionSlot(t) \/ FinalTry(t)
  \/ RegisterWaiting(t) \/ BlockedSend(t) \/ GiveUpSend(t) \/ RemoveUnqueuedTask(t)
  \/ AwaitResult(t)

WorkerStep ==
  \/ WorkerReceive \/ WorkerStart
  \/ \E outcome \in Finished : WorkerExecute(outcome)
  \/ FinalizeTask \/ DeliverTaskResult

Next ==
  \/ \E t \in Calls : CallStep(t) \/ CancelContext(t) \/ ReachTTL(t)
  \/ WorkerStep
  \/ PruneTick

Spec == Init /\ [][Next]_vars

(***************************************************************************)
(* The Go scheduler runs every goroutine that can run, the enqueue timer   *)
(* fires, and the function that executes a task returns.  Nothing makes a  *)
(* client call, a context end, or a clock reach a TTL.                     *)
(***************************************************************************)
Returning(t) == pc[t] # "idle" /\ CallStep(t)
CallerFairness == \A t \in Calls : WF_vars(Returning(t))

\* The worker may be stuck in a task for ever; a property that needs it says so.
FairSpec == Spec /\ CallerFairness
WorkerFairness == WF_vars(WorkerStep)

-----------------------------------------------------------------------------
TypeOK ==
  /\ pc \in [Calls -> {"idle", "fast", "contend", "lastTry", "slotHeld", "blocked",
                       "withdraw", "accepted", "answered", "refused"}]
  /\ cancelled \in SUBSET Calls
  /\ queue \in Seq(Calls)
  /\ tasks \in SUBSET Calls
  /\ status \in [Calls -> Unfinished \cup Finished]
  /\ updatedAt \in [Calls -> Nat]
  /\ expired \in SUBSET Calls
  /\ taskCount \in Nat
  /\ admissionSlots \in Nat
  /\ wpc \in {"receive", "start", "execute", "finalize", "deliver"}
  /\ wtask \in Calls \cup {NoTask}
  /\ wresult \in Finished
  /\ running \in BOOLEAN
  /\ resultCh \in [Calls -> {"open", "closed"}]

\* q.taskCount, which no critical section recomputes, is the number of records
\* of unfinished tasks: the guards "if q.taskCount > 0" never hide a lost count.
TaskCountExact == taskCount = Cardinality(Live)

\* A caller that was told no has left nothing behind: the task is neither in
\* the channel nor with the worker nor polled for, and was never started
\* (the enqueue timer and the context race the blocked send).
RefusedNeverRuns ==
  \A t \in Calls : pc[t] = "refused" =>
    t \notin InQueue /\ t # wtask /\ t \notin tasks /\ status[t] = "waiting"

\* An unfinished record always has somebody who will finish or remove it: a
\* caller still inside EnqueueContext, the channel, or the worker.
NoOrphanRecord ==
  \A t \in Live : pc[t] \in {"blocked", "withdraw"} \/ t \in InQueue \/ t = wtask

\* The polling record exists before the worker can observe the task, and no
\* pruning removes it before the task is finished.
AcceptedIsPollable ==
  /\ \A t \in Calls :
       pc[t] \in {"accepted", "answered"} /\ status[t] \in Unfinished => t \in tasks
  /\ \A t \in InQueue : t \in tasks /\ status[t] = "waiting"

\* Admission bounds memory: next to the worker's own task the channel and the
\* waiters are all the unfinished tasks that are retained, however many callers.
AdmissionBounded == Cardinality(Live \ {wtask}) <= Capacity + MaxWaiters

\* The queue implements the serial executor: which call is accepted, in which
\* order accepted calls run, one at a time, each once.
Fate(t) ==
  IF pc[t] = "refused" THEN "refused"
  ELSE IF status[t] \in Finished THEN status[t]
  ELSE IF t = wtask THEN "executing"
  ELSE IF t \in InQueue THEN "queued"
  ELSE "pending"

Serial == INSTANCE SerialExecutor WITH fate <- [t \in Calls |-> Fate(t)], line <- queue
ImplementsSerialExecutor == Serial!ASpec

\* Every call that entered EnqueueContext returns, even when the worker is stuck in
\* a task for ever: the enqueue timer bounds the only wait.
CallReturns ==
  \A t \in Calls : pc[t] # "idle" ~> pc[t] \in {"accepted", "answered", "refused"}

\* Every handler that was given a task gets its one result, as long as the worker runs.
AcceptedIsAnswered == WorkerFairness => \A t \in Calls : pc[t] = "accepted" ~> pc[t] = "answered"

=============================================================================
