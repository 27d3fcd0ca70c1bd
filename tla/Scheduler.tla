------------------------------ MODULE Scheduler ------------------------------
(***************************************************************************)
(* orchestration.Scheduler.Run (internal/orchestration/scheduler.go) over  *)
(* one workflow graph (internal/orchestration/graph.go).                   *)
(*                                                                         *)
(* The main goroutine repeats: stop if the context is done, block the      *)
(* dependents of failed tasks, collect the ready tasks, start one          *)
(* goroutine per ready task, wait for the whole batch.  A task goroutine   *)
(* takes a slot of the semaphore, calls the executor with retries, stores  *)
(* the outcome in the shared map and releases slot, lock and WaitGroup.    *)
(*                                                                         *)
(* The task map is a plain Go map that the main goroutine and the task     *)
(* goroutines access without a lock.  A map assignment is modelled as two  *)
(* steps (Begin.../End...); while two assignments overlap the Go runtime   *)
(* may abort the process (MapFault) or may not notice.                     *)
(***************************************************************************)
EXTENDS Integers, FiniteSets

CONSTANTS
  Tasks,            \* task IDs; integers, because ReadyTasks sorts them
  Graphs,           \* the dependency functions a workflow may carry
  MaxParallelArg,   \* the maxParallel argument of NewScheduler
  MaxAttempts,      \* task.Retry.MaxAttempts
  Errors,           \* executor errors other than the two context errors
  RetryableErrors,  \* task.Retry.RetryableErrors, as the errors they match
  HasDeadline,      \* tasks with a Deadline
  ResultStatuses,   \* the TaskResult.Status values an executor returns
  Main              \* the goroutine that runs Run

TaskStatus == {"PENDING", "READY", "RUNNING", "WAITING", "BLOCKED",
               "SUCCEEDED", "FAILED", "CANCELLED", "TIMED_OUT"}

ContextErrors == {"deadline", "canceled"}

(* What a call of Execute returns: a result with its status ("" when the   *)
(* executor leaves it empty) or an error.                                  *)
Outcomes == [err : {FALSE}, val : ResultStatuses]
              \cup [err : {TRUE}, val : Errors \cup ContextErrors]
NoOutcome == [err |-> FALSE, val |-> "none"]

ASSUME TasksAssumption ==
  Tasks \subseteq Int /\ IsFiniteSet(Tasks) /\ Main \notin Tasks
ASSUME GraphsAssumption == \A d \in Graphs : DOMAIN d = Tasks
ASSUME ParallelAssumption == MaxParallelArg \in Int
ASSUME RetryAssumption ==
  MaxAttempts \in [Tasks -> Int] /\ RetryableErrors \in [Tasks -> SUBSET Errors]
ASSUME DeadlineAssumption == HasDeadline \subseteq Tasks

(* An executor that reports PENDING, READY or RUNNING for a finished call  *)
(* would make Run start the task again or give up on it; none of the       *)
(* repository's executors does.                                            *)
ASSUME ResultAssumption ==
  ResultStatuses \subseteq {"", "WAITING", "BLOCKED", "SUCCEEDED", "FAILED",
                            "CANCELLED", "TIMED_OUT"}

VARIABLES
  deps,       \* workflow.Graph.Dependencies, as sets
  status,     \* workflow.Graph.Tasks[id].Status
  wfStatus,   \* workflow.Status
  pc,         \* where the main goroutine is
  todo,       \* ready tasks of this batch not yet started
  batch,      \* the ready tasks of this batch
  gpc,        \* where the goroutine of a task is; "none": not running
  locks,      \* Scheduler.locks
  sem,        \* the tasks that hold a slot of the semaphore
  attempt,    \* attempt number of the current executeWithRetry
  outcome,    \* what executeWithRetry returned
  calls,      \* Execute calls made for a task so far (history)
  ctxErr,     \* ctx.Err()
  expired,    \* tasks whose Deadline has passed
  writers     \* goroutines inside an assignment to workflow.Graph.Tasks

vars == <<deps, status, wfStatus, pc, todo, batch, gpc, locks, sem, attempt,
          outcome, calls, ctxErr, expired, writers>>
goroutineVars == <<gpc, locks, sem, attempt, outcome, calls>>
environment == <<ctxErr, expired>>

-----------------------------------------------------------------------------
(* Pure parts: graph.go and the helpers of scheduler.go.                   *)

(* NewScheduler.                                                           *)
MaxParallel == IF MaxParallelArg < 1 THEN 1 ELSE MaxParallelArg

(* ValidateGraph: every dependency is a task and there is no cycle, that   *)
(* is every nonempty set of tasks has one with no dependency in the set.   *)
(* A duplicate dependency, an ID that is not its key and an invalid parent *)
(* are refused in the same way and are left out: d[t] is a set and a task  *)
(* is its key.                                                             *)
ValidateGraph(d) ==
  /\ \A t \in Tasks : d[t] \subseteq Tasks
  /\ \A S \in SUBSET Tasks \ {{}} : \E t \in S : d[t] \cap S = {}

(* Statuses in which a task has not been started.                          *)
Unstarted == {"PENDING", "READY"}
(* Statuses that make Run say "not finished yet".                          *)
Unfinished == {"PENDING", "READY", "RUNNING"}
(* Statuses that make the workflow FAILED.                                 *)
Failures == {"FAILED", "TIMED_OUT"}

(* Mutant: a failed dependency no longer holds a task back.                *)
ReadyTasksAnyEnd(s) ==
  {t \in Tasks : s[t] \in Unstarted /\ \A d \in deps[t] : s[d] \notin Unfinished}

ReadyTasks(s) ==
  {t \in Tasks : s[t] \in Unstarted /\ \A d \in deps[t] : s[d] = "SUCCEEDED"}

(* Mutant: any failure blocks every unstarted task.                        *)
PropagateToAll(s) ==
  [t \in Tasks |->
     IF s[t] \in Unstarted /\ \E d \in Tasks : s[d] \in Failures
       THEN "BLOCKED" ELSE s[t]]

(* The loop to a fixed point is one pass: BLOCKED blocks nobody.           *)
PropagateFailures(s) ==
  [t \in Tasks |->
     IF /\ s[t] \in Unstarted
        /\ \E d \in deps[t] : s[d] \in Failures \cup {"CANCELLED"}
       THEN "BLOCKED" ELSE s[t]]

Pending(s) == \E t \in Tasks : s[t] \in Unfinished

(* Mutant: a timeout is not counted as a failure.                          *)
VerdictFailedOnly(s) ==
  IF \E t \in Tasks : s[t] = "FAILED" THEN "FAILED" ELSE "SUCCEEDED"

Verdict(s) ==
  IF \E t \in Tasks : s[t] \in Failures THEN "FAILED" ELSE "SUCCEEDED"

retryable(t, e) == e = "deadline" \/ e \in RetryableErrors[t]

Attempts(t) == IF MaxAttempts[t] < 1 THEN 1 ELSE MaxAttempts[t]

(* The status a finished task gets (lines 92-106).                         *)
StatusOf(o) ==
  CASE o.err /\ o.val = "deadline" -> "TIMED_OUT"
    [] o.err /\ o.val = "canceled" -> "CANCELLED"
    [] o.err /\ o.val \notin ContextErrors -> "FAILED"
    [] ~o.err /\ o.val = "" -> "SUCCEEDED"
    [] OTHER -> o.val

-----------------------------------------------------------------------------
Init ==
  /\ deps \in Graphs
  /\ status = [t \in Tasks |-> "PENDING"]
  /\ wfStatus = "PLANNED"
  /\ pc = "start"
  /\ todo = {} /\ batch = {}
  /\ gpc = [t \in Tasks |-> "none"]
  /\ locks = {} /\ sem = {}
  /\ attempt = [t \in Tasks |-> 0]
  /\ outcome = [t \in Tasks |-> NoOutcome]
  /\ calls = [t \in Tasks |-> 0]
  /\ ctxErr = "none" /\ expired = {}
  /\ writers = {}

(* Run refuses an invalid graph before it touches the workflow.            *)
RejectGraph ==
  /\ pc = "start" /\ ~ValidateGraph(deps)
  /\ pc' = "returned"
  /\ UNCHANGED <<deps, status, wfStatus, todo, batch, goroutineVars,
                 environment, writers>>

StartRun ==
  /\ pc = "start" /\ ValidateGraph(deps)
  /\ wfStatus' = "RUNNING"
  /\ pc' = "schedule"
  /\ UNCHANGED <<deps, status, todo, batch, goroutineVars, environment,
                 writers>>

(* ctx.Err() at the head of the loop.                                      *)
StopOnContext ==
  /\ pc = "schedule" /\ ctxErr # "none"
  /\ wfStatus' = "CANCELLED"
  /\ pc' = "returned"
  /\ UNCHANGED <<deps, status, todo, batch, goroutineVars, environment,
                 writers>>

CollectReady ==
  LET s == PropagateFailures(status) IN
  /\ pc = "schedule" /\ ctxErr = "none"
  /\ ReadyTasks(s) # {}
  /\ status' = s
  /\ todo' = ReadyTasks(s) /\ batch' = ReadyTasks(s)
  /\ pc' = "mark"
  /\ UNCHANGED <<deps, wfStatus, goroutineVars, environment, writers>>

(* Nothing is ready: the verdict, unless some task is still unfinished;    *)
(* then Run returns nil and leaves the workflow RUNNING.                   *)
NothingReady ==
  LET s == PropagateFailures(status) IN
  /\ pc = "schedule" /\ ctxErr = "none"
  /\ ReadyTasks(s) = {}
  /\ status' = s
  /\ wfStatus' = IF Pending(s) THEN wfStatus ELSE Verdict(s)
  /\ pc' = "returned"
  /\ UNCHANGED <<deps, todo, batch, goroutineVars, environment, writers>>

(* The next task in the order of IDs.                                      *)
NextTodo(t) == t \in todo /\ \A u \in todo : t <= u

(* task.Status = RUNNING, stored in the shared map.                        *)
BeginMark ==
  /\ pc = "mark" /\ todo # {}
  /\ writers' = writers \cup {Main}
  /\ pc' = "marking"
  /\ UNCHANGED <<deps, status, wfStatus, todo, batch, goroutineVars,
                 environment>>

(* The task gets its lock.                                                 *)
lockTask(t) == t \notin locks

(* End of the assignment, then lockTask: on success a goroutine starts, a  *)
(* task that is locked already is skipped and stays RUNNING.               *)
EndMark(t) ==
  /\ pc = "marking" /\ NextTodo(t)
  /\ status' = [status EXCEPT ![t] = "RUNNING"]
  /\ writers' = writers \ {Main}
  /\ todo' = todo \ {t}
  /\ pc' = "mark"
  /\ IF lockTask(t)
       THEN /\ locks' = locks \cup {t}
            /\ gpc' = [gpc EXCEPT ![t] = "queued"]
            /\ attempt' = [attempt EXCEPT ![t] = 1]
            /\ outcome' = [outcome EXCEPT ![t] = NoOutcome]
       ELSE UNCHANGED <<gpc, locks, attempt, outcome>>
  /\ UNCHANGED <<deps, wfStatus, batch, sem, calls, environment>>

(* Mutant: the first goroutine that ends releases the main one.            *)
WaitForOne == \E t \in batch : gpc[t] = "none"

(* wg.Wait() returns when no goroutine of the batch is left.               *)
Wait == \A t \in Tasks : gpc[t] = "none"

BatchDone ==
  /\ pc = "mark" /\ todo = {} /\ Wait
  /\ IF Pending(status)
       THEN pc' = "schedule" /\ UNCHANGED wfStatus
       ELSE pc' = "returned" /\ wfStatus' = Verdict(status)
  /\ UNCHANGED <<deps, status, todo, batch, goroutineVars, environment,
                 writers>>

-----------------------------------------------------------------------------
(* The goroutine of task t.                                                *)

(* Mutant: one slot too many.                                              *)
SlotFreeOffByOne == Cardinality(sem) <= MaxParallel

SlotFree == Cardinality(sem) < MaxParallel

(* sem <- struct{}{} blocks while MaxParallel slots are taken.             *)
Acquire(t) ==
  /\ gpc[t] = "queued" /\ SlotFree
  /\ sem' = sem \cup {t}
  /\ gpc' = [gpc EXCEPT ![t] = "executing"]
  /\ UNCHANGED <<deps, status, wfStatus, pc, todo, batch, locks, attempt,
                 outcome, calls, environment, writers>>

(* The executor's answers: a result, its own errors, and the context       *)
(* errors once its context is done.  A task's context ends with the        *)
(* parent's and with its own Deadline.                                     *)
CanReturn(t, o) ==
  \/ ~o.err
  \/ o.val \in Errors
  \/ o.val = ctxErr
  \/ o.val = "deadline" /\ t \in expired

LastAttempt(t) == attempt[t] >= Attempts(t)

(* One iteration of executeWithRetry.                                      *)
Execute(t, o) ==
  /\ gpc[t] = "executing" /\ CanReturn(t, o)
  /\ calls' = [calls EXCEPT ![t] = @ + 1]
  /\ IF o.err /\ retryable(t, o.val) /\ ~LastAttempt(t)
       THEN /\ attempt' = [attempt EXCEPT ![t] = @ + 1]
            /\ UNCHANGED <<gpc, outcome>>
       ELSE /\ outcome' = [outcome EXCEPT ![t] = o]
            /\ gpc' = [gpc EXCEPT ![t] = "executed"]
            /\ UNCHANGED attempt
  /\ UNCHANGED <<deps, status, wfStatus, pc, todo, batch, locks, sem,
                 environment, writers>>

BeginStore(t) ==
  /\ gpc[t] = "executed"
  /\ writers' = writers \cup {t}
  /\ gpc' = [gpc EXCEPT ![t] = "storing"]
  /\ UNCHANGED <<deps, status, wfStatus, pc, todo, batch, locks, sem, attempt,
                 outcome, calls, environment>>

EndStore(t) ==
  /\ gpc[t] = "storing"
  /\ status' = [status EXCEPT ![t] = StatusOf(outcome[t])]
  /\ writers' = writers \ {t}
  /\ gpc' = [gpc EXCEPT ![t] = "stored"]
  /\ UNCHANGED <<deps, wfStatus, pc, todo, batch, locks, sem, attempt, outcome,
                 calls, environment>>

(* Mutant: the slot is kept when the task failed.                          *)
ReleaseSlotOnSuccess(t) ==
  /\ gpc[t] = "stored"
  /\ sem' = IF status[t] = "SUCCEEDED" THEN sem \ {t} ELSE sem
  /\ gpc' = [gpc EXCEPT ![t] = "unlock"]
  /\ UNCHANGED <<deps, status, wfStatus, pc, todo, batch, locks, attempt,
                 outcome, calls, environment, writers>>

(* The deferred calls, last deferred first: the slot is given back, then   *)
(* the lock is dropped, then the WaitGroup is told.                        *)
ReleaseSlot(t) ==
  /\ gpc[t] = "stored"
  /\ sem' = sem \ {t}
  /\ gpc' = [gpc EXCEPT ![t] = "unlock"]
  /\ UNCHANGED <<deps, status, wfStatus, pc, todo, batch, locks, attempt,
                 outcome, calls, environment, writers>>

Unlock(t) ==
  /\ gpc[t] = "unlock"
  /\ locks' = locks \ {t}
  /\ gpc' = [gpc EXCEPT ![t] = "done"]
  /\ UNCHANGED <<deps, status, wfStatus, pc, todo, batch, sem, attempt,
                 outcome, calls, environment, writers>>

WgDone(t) ==
  /\ gpc[t] = "done"
  /\ gpc' = [gpc EXCEPT ![t] = "none"]
  /\ UNCHANGED <<deps, status, wfStatus, pc, todo, batch, locks, sem, attempt,
                 outcome, calls, environment, writers>>

-----------------------------------------------------------------------------
(* The environment.                                                        *)

(* The caller cancels the context, or its deadline passes.                 *)
EndContext(e) ==
  /\ ctxErr = "none"
  /\ ctxErr' = e
  /\ UNCHANGED <<deps, status, wfStatus, pc, todo, batch, goroutineVars,
                 expired, writers>>

DeadlinePasses(t) ==
  /\ t \in HasDeadline \ expired
  /\ expired' = expired \cup {t}
  /\ UNCHANGED <<deps, status, wfStatus, pc, todo, batch, goroutineVars,
                 ctxErr, writers>>

(* Two overlapping map assignments: the runtime's check may abort the      *)
(* process ("fatal error: concurrent map writes").                         *)
MapFault ==
  /\ pc # "crashed"
  /\ \E u, v \in writers : u # v
  /\ pc' = "crashed"
  /\ gpc' = [t \in Tasks |-> "crashed"]
  /\ UNCHANGED <<deps, status, wfStatus, todo, batch, locks, sem, attempt,
                 outcome, calls, environment, writers>>

-----------------------------------------------------------------------------
MainStep ==
  \/ RejectGraph \/ StartRun \/ StopOnContext \/ CollectReady \/ NothingReady
  \/ BeginMark \/ (\E t \in Tasks : EndMark(t)) \/ BatchDone

TaskStep(t) ==
  \/ Acquire(t) \/ (\E o \in Outcomes : Execute(t, o)) \/ BeginStore(t)
  \/ EndStore(t) \/ ReleaseSlot(t) \/ Unlock(t) \/ WgDone(t)

EnvironmentStep ==
  \/ \E e \in ContextErrors : EndContext(e)
  \/ \E t \in Tasks : DeadlinePasses(t)

Next ==
  \/ MainStep
  \/ \E t \in Tasks : TaskStep(t)
  \/ EnvironmentStep
  \/ MapFault

Spec == Init /\ [][Next]_vars

(* Go runs every runnable goroutine eventually, and an Execute call        *)
(* eventually returns (the repository's executors return when their        *)
(* context ends).  A goroutine blocked on the semaphore needs only weak    *)
(* fairness: a batch frees its slots and takes each of them once.          *)
Fairness ==
  /\ WF_vars(MainStep)
  /\ \A t \in Tasks : WF_vars(TaskStep(t))

FairSpec == Spec /\ Fairness

-----------------------------------------------------------------------------
(* Properties.                                                             *)

TypeOK ==
  /\ deps \in Graphs
  /\ status \in [Tasks -> TaskStatus]
  /\ wfStatus \in {"PLANNED", "RUNNING", "SUCCEEDED", "FAILED", "CANCELLED"}
  /\ pc \in {"start", "schedule", "mark", "marking", "returned",
             "crashed"}
  /\ todo \subseteq Tasks /\ batch \subseteq Tasks
  /\ gpc \in [Tasks -> {"none", "queued", "executing", "executed", "storing",
                        "stored", "unlock", "done", "crashed"}]
  /\ locks \subseteq Tasks /\ sem \subseteq Tasks
  /\ attempt \in [Tasks -> Nat]
  /\ outcome \in [Tasks -> Outcomes \cup {NoOutcome}]
  /\ calls \in [Tasks -> Nat]
  /\ ctxErr \in {"none"} \cup ContextErrors
  /\ expired \subseteq Tasks
  /\ writers \subseteq Tasks \cup {Main}

Executing == {t \in Tasks : gpc[t] = "executing"}

(* Bounded concurrency: at most MaxParallel Execute calls are in progress. *)
BoundedConcurrency == Cardinality(Executing) <= MaxParallel

(* A task that has been started, in whatever state its goroutine or its    *)
(* result is now, has only dependencies that are SUCCEEDED now: no later   *)
(* step takes a success back under a task that relied on it.               *)
DependencyOrder ==
  \A t \in Tasks :
    calls[t] > 0 \/ gpc[t] \notin {"none", "crashed"} =>
      \A d \in deps[t] : status[d] = "SUCCEEDED"

(* Retries are bounded over the whole run: no task is started a second     *)
(* time, so its executor is called at most Attempts(t) times.              *)
CallsBounded == \A t \in Tasks : calls[t] <= Attempts(t)

(* When the batch is over no task is left RUNNING without a goroutine: the *)
(* `continue' after a failed lockTask is never taken, and every goroutine  *)
(* stores a final status before wg.Done.                                   *)
NoOrphanRunning ==
  pc \in {"start", "schedule", "returned"} =>
    \A t \in Tasks : status[t] # "RUNNING" /\ gpc[t] = "none"

(* The verdict of a Run that returned agrees with the tasks: FAILED exactly*)
(* when some task failed or timed out, and a verdict only when no task is  *)
(* unfinished.                                                             *)
VerdictSound ==
  pc = "returned" /\ wfStatus \in {"SUCCEEDED", "FAILED"} =>
    /\ ~Pending(status)
    /\ wfStatus = "FAILED" <=> \E t \in Tasks : status[t] \in Failures

(* Failures do not stop independent work: when a Run that was not stopped  *)
(* by its context returns, every task whose dependencies succeeded ran.    *)
IndependentWorkDone ==
  pc = "returned" /\ wfStatus \in {"RUNNING", "SUCCEEDED", "FAILED"} =>
    \A t \in Tasks :
      (\A d \in deps[t] : status[d] = "SUCCEEDED") => calls[t] > 0

(* The unlocked map is at risk only in a batch of two or more tasks: a     *)
(* chain, such as the DeterministicPlanner's plan, never aborts.           *)
CrashNeedsParallelBatch == pc = "crashed" => \E u, v \in batch : u # v

(* A final status is final: once a task left PENDING, READY and RUNNING no *)
(* step changes it.                                                        *)
FinalStatusStable ==
  [][\A t \in Tasks : status[t] \notin Unfinished => status'[t] = status[t]]_vars

(* The limits of Run hold however goroutines, retries and deadlines        *)
(* interleave: the semaphore's, and every task's attempts.                 *)
Bounded == BoundedConcurrency /\ CallsBounded

(* Run returns (or the runtime aborts): no goroutine waits forever for a   *)
(* slot, no WaitGroup is left open, the scheduling loop ends.              *)
RunReturns == <>(pc \in {"returned", "crashed"})
=============================================================================
