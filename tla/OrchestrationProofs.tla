------------------------- MODULE OrchestrationProofs -------------------------
(***************************************************************************)
(* Proofs about the two parts that carry out the agents' work: the         *)
(* scheduler of tasks (Scheduler) and, with the router and the event bus,  *)
(* the AI fabric (AIFabric).  They share no state; the module has a half   *)
(* for each.                                                               *)
(*                                                                         *)
(* Scheduler.  The safety properties follow from one inductive invariant,  *)
(* IInv: it says which bookkeeping (lock, slot, map assignment, status)    *)
(* goes with each point of a task goroutine, that the tasks of a batch     *)
(* were ready when it was collected, and that a task nobody called the     *)
(* executor for is unstarted or blocked by a failure.                      *)
(*                                                                         *)
(* AIFabric.  FabricInv has a part for decisions, for the requests on the  *)
(* catalogue and the health cache, for the bus and for the streams.  The   *)
(* router is a function: its lemmas hold for every list and every request. *)
(***************************************************************************)
EXTENDS Scheduler, AIFabric, FiniteSetTheorems, SequenceTheorems, WellFoundedInduction, TLAPS

Started == {"queued", "executing", "executed", "storing"}
Ended == {"stored", "unlock", "done"}

(* The bookkeeping of the goroutine of task t.                             *)
Goroutine(t) ==
  /\ t \in locks <=> gpc[t] \in Started \cup {"stored", "unlock"}
  /\ t \in sem <=> gpc[t] \in {"executing", "executed", "storing", "stored"}
  /\ t \in writers <=> gpc[t] = "storing"
  /\ status[t] = "RUNNING" <=> gpc[t] \in Started
  /\ gpc[t] \in Ended => status[t] \notin Unfinished
  /\ gpc[t] \in Started \cup Ended =>
       t \in batch \ todo /\ pc \in {"mark", "marking"}
  /\ gpc[t] = "queued" => calls[t] = 0 /\ attempt[t] = 1
  /\ gpc[t] = "executing" =>
       attempt[t] = calls[t] + 1 /\ attempt[t] <= Attempts(t)
  /\ gpc[t] \in {"executed", "storing"} \cup Ended => calls[t] > 0
  /\ gpc[t] \in {"executed", "storing"} => outcome[t] \in Outcomes

(* What the main goroutine relies on.                                      *)
MainInv ==
  /\ Main \in writers <=> pc = "marking"
  /\ todo \subseteq batch
  /\ pc = "marking" => todo # {}
  /\ pc \notin {"mark", "marking"} => todo = {}
  /\ \A t \in todo :
       status[t] \in Unstarted /\ \A d \in deps[t] : status[d] = "SUCCEEDED"
  /\ wfStatus = "PLANNED" <=> pc = "start" \/ ~ValidateGraph(deps)
  /\ wfStatus = "PLANNED" => pc \in {"start", "returned"}
  /\ wfStatus \in {"SUCCEEDED", "FAILED", "CANCELLED"} => pc = "returned"

(* A task whose executor was never called is unstarted, in the current     *)
(* batch, or blocked by a dependency that failed.                          *)
NeverCalled(t) ==
  calls[t] = 0 =>
    \/ status[t] \in Unfinished
    \/ /\ status[t] = "BLOCKED"
       /\ \E d \in deps[t] : status[d] \in Failures \cup {"CANCELLED"}

Alive ==
  /\ \A t \in Tasks : gpc[t] # "crashed" /\ Goroutine(t)
  /\ MainInv

Process ==
  /\ pc # "crashed" => Alive
  /\ pc = "crashed" => \A t \in Tasks : gpc[t] = "crashed"

History ==
  /\ \A t \in Tasks : NeverCalled(t)
  /\ \A t \in Tasks : status[t] \in Unstarted => calls[t] = 0
  /\ wfStatus # "PLANNED" => \A t \in Tasks : deps[t] \subseteq Tasks
  /\ wfStatus = "PLANNED" => \A t \in Tasks : status[t] = "PENDING"

IInv ==
  /\ TypeOK
  /\ Process
  /\ History
  /\ Cardinality(sem) <= MaxParallel
  /\ DependencyOrder
  /\ CallsBounded
  /\ VerdictSound
  /\ IndependentWorkDone
  /\ CrashNeedsParallelBatch

-----------------------------------------------------------------------------
(* Lemmas about the operators.                                             *)

(* A finished task's status is one of the final statuses.                  *)
LEMMA StatusOfFinal ==
  ASSUME NEW o \in Outcomes
  PROVE  StatusOf(o) \in TaskStatus \ Unfinished
  BY ResultAssumption
  DEF StatusOf, Outcomes, ContextErrors, TaskStatus, Unfinished

(* The semaphore has room for at least one goroutine, a task at least one  *)
(* attempt.                                                                *)
LEMMA PositiveBounds ==
  /\ MaxParallel \in Nat \ {0}
  /\ \A t \in Tasks : Attempts(t) \in Nat \ {0}
  BY ParallelAssumption, RetryAssumption DEF MaxParallel, Attempts

(* Propagation only turns unstarted tasks with a failed dependency into    *)
(* BLOCKED ones.                                                           *)
LEMMA PropagateEffect ==
  ASSUME NEW s \in [Tasks -> TaskStatus]
  PROVE  /\ PropagateFailures(s) \in [Tasks -> TaskStatus]
         /\ \A t \in Tasks :
              PropagateFailures(s)[t] # s[t] =>
                /\ s[t] \in Unstarted
                /\ PropagateFailures(s)[t] = "BLOCKED"
                /\ \E d \in deps[t] : s[d] \in Failures \cup {"CANCELLED"}
  BY DEF PropagateFailures, TaskStatus

(* Taking a free slot keeps the semaphore within its capacity; so does     *)
(* giving one back.                                                        *)
LEMMA AddSlot ==
  ASSUME NEW S, IsFiniteSet(S), NEW x, NEW n \in Nat, Cardinality(S) < n
  PROVE  Cardinality(S \cup {x}) <= n
  <1>1. Cardinality(S) \in Nat
    BY FS_CardinalityType
  <1>2. Cardinality(S \cup {x}) = Cardinality(S)
          \/ Cardinality(S \cup {x}) = Cardinality(S) + 1
    BY FS_AddElement
  <1> QED
    BY <1>1, <1>2

LEMMA DropSlot ==
  ASSUME NEW S, IsFiniteSet(S), NEW x, NEW n \in Nat, Cardinality(S) <= n
  PROVE  Cardinality(S \ {x}) <= n
  <1>1. Cardinality(S) \in Nat
    BY FS_CardinalityType
  <1>2. Cardinality(S \ {x}) = Cardinality(S)
          \/ Cardinality(S \ {x}) = Cardinality(S) - 1
    BY FS_RemoveElement
  <1> QED
    BY <1>1, <1>2

(* Two goroutines inside a map assignment belong to two tasks of the batch.*)
LEMMA WritersInBatch ==
  ASSUME TypeOK, Alive, NEW u \in writers, NEW v \in writers, u # v
  PROVE  \E x, y \in batch : x # y
  <1>1. \A t \in Tasks : t \in writers => t \in batch \ todo
    BY DEF Alive, Goroutine, Started
  <1>2. Main \in writers => todo # {} /\ todo \subseteq batch
    BY DEF Alive, MainInv
  <1>3. \A w \in writers : w \in Tasks \/ w = Main
    BY DEF TypeOK
  <1>4. CASE u = Main \/ v = Main
    <2>1. PICK x \in todo : x \in batch
      BY <1>2, <1>4
    <2>2. PICK y \in Tasks : y \in writers
      BY <1>3
    <2> QED
      BY <1>1, <2>1, <2>2
  <1>5. CASE u # Main /\ v # Main
    BY <1>1, <1>3, <1>5
  <1> QED
    BY <1>4, <1>5

-----------------------------------------------------------------------------
(* Every variable keeps its type: statuses are TaskStatus values whatever  *)
(* executors return, slots, locks and map writers are tasks.               *)
LEMMA InitTypeOK == Init => TypeOK
  BY DEF Init, TypeOK, TaskStatus

LEMMA NextTypeOK == IInv /\ [Next]_vars => TypeOK'
  <1> SUFFICES ASSUME IInv, [Next]_vars PROVE TypeOK'
    OBVIOUS
  <1>0. TypeOK
    BY DEF IInv
  <1> USE <1>0 DEF TypeOK
  <1>1. CASE RejectGraph
    BY <1>1 DEF RejectGraph, goroutineVars, environment
  <1>2. CASE StartRun
    BY <1>2 DEF StartRun, goroutineVars, environment
  <1>3. CASE StopOnContext
    BY <1>3 DEF StopOnContext, goroutineVars, environment
  <1>4. CASE CollectReady
    <2>1. ReadyTasks(PropagateFailures(status)) \subseteq Tasks
      BY DEF ReadyTasks
    <2>2. PropagateFailures(status) \in [Tasks -> TaskStatus]
      BY PropagateEffect
    <2> QED
      BY <1>4, <2>1, <2>2 DEF CollectReady, goroutineVars, environment
  <1>5. CASE NothingReady
    <2>1. PropagateFailures(status) \in [Tasks -> TaskStatus]
      BY PropagateEffect
    <2> QED
      BY <1>5, <2>1 DEF NothingReady, Verdict, goroutineVars, environment
  <1>6. CASE BeginMark
    BY <1>6 DEF BeginMark, goroutineVars, environment
  <1>7. ASSUME NEW t \in Tasks, EndMark(t) PROVE TypeOK'
    BY <1>7 DEF EndMark, lockTask, TaskStatus, environment
  <1>8. CASE BatchDone
    BY <1>8 DEF BatchDone, Verdict, goroutineVars, environment
  <1>9. ASSUME NEW t \in Tasks, TaskStep(t) PROVE TypeOK'
    <2>1. CASE Acquire(t)
      BY <2>1 DEF Acquire, environment
    <2>2. ASSUME NEW o \in Outcomes, Execute(t, o) PROVE TypeOK'
      BY <2>2 DEF Execute, environment
    <2>3. CASE BeginStore(t)
      BY <2>3 DEF BeginStore, environment
    <2>4. CASE EndStore(t)
      <3>1. pc # "crashed"
        BY <2>4 DEF EndStore, IInv, Process
      <3>2. outcome[t] \in Outcomes
        BY <2>4, <3>1 DEF EndStore, IInv, Process, Alive, Goroutine
      <3> QED
        BY <2>4, <3>2, StatusOfFinal DEF EndStore, environment
    <2>5. CASE ReleaseSlot(t)
      BY <2>5 DEF ReleaseSlot, environment
    <2>6. CASE Unlock(t)
      BY <2>6 DEF Unlock, environment
    <2>7. CASE WgDone(t)
      BY <2>7 DEF WgDone, environment
    <2> QED
      BY <1>9, <2>1, <2>2, <2>3, <2>4, <2>5, <2>6, <2>7 DEF TaskStep
  <1>10. ASSUME NEW e \in ContextErrors, EndContext(e) PROVE TypeOK'
    BY <1>10 DEF EndContext, goroutineVars
  <1>11. ASSUME NEW t \in Tasks, DeadlinePasses(t) PROVE TypeOK'
    BY <1>11 DEF DeadlinePasses, goroutineVars
  <1>12. CASE MapFault
    BY <1>12 DEF MapFault, environment
  <1>13. CASE UNCHANGED vars
    BY <1>13 DEF vars
  <1> QED
    BY <1>1, <1>2, <1>3, <1>4, <1>5, <1>6, <1>7, <1>8, <1>9, <1>10, <1>11,
       <1>12, <1>13
    DEF Next, MainStep, EnvironmentStep

LEMMA InitIInv == Init => IInv
  <1> SUFFICES ASSUME Init PROVE IInv
    OBVIOUS
  <1>1. TypeOK
    BY InitTypeOK
  <1>2. Cardinality(sem) <= MaxParallel
    BY FS_EmptySet, PositiveBounds DEF Init
  <1>3. Alive
    BY <1>1, TasksAssumption
    DEF Init, Alive, Goroutine, MainInv, Started, Ended, Unfinished, Unstarted
  <1>4. CallsBounded
    BY PositiveBounds DEF Init, CallsBounded
  <1> QED
    BY <1>1, <1>2, <1>3, <1>4
    DEF Init, IInv, Process, History, NeverCalled, Unfinished, Unstarted, DependencyOrder,
        VerdictSound, IndependentWorkDone, CrashNeedsParallelBatch

-----------------------------------------------------------------------------
(* What a step does, whichever action it is.                               *)

(* A status changes in three ways only: propagation blocks an unstarted    *)
(* task, the main goroutine marks a task of the batch, a goroutine stores  *)
(* its task's final status.                                                *)
Blocks(t) ==
  /\ status[t] \in Unstarted /\ status'[t] = "BLOCKED"
  /\ \E d \in deps[t] : status[d] \in Failures \cup {"CANCELLED"}
Marks(t) == t \in todo /\ status[t] \in Unstarted /\ status'[t] = "RUNNING"
Stores(t) ==
  /\ gpc[t] = "storing" /\ status[t] = "RUNNING"
  /\ status'[t] \in TaskStatus \ Unfinished

LEMMA StatusStep ==
  ASSUME IInv, [Next]_vars, NEW t \in Tasks, status'[t] # status[t]
  PROVE  (Blocks(t) \/ Marks(t) \/ Stores(t)) /\ wfStatus = "RUNNING"
  <1>0. TypeOK
    BY DEF IInv
  <1>1. CASE CollectReady \/ NothingReady
    <2>1. status' = PropagateFailures(status) /\ pc = "schedule"
      BY <1>1 DEF CollectReady, NothingReady
    <2>2. Blocks(t)
      BY <1>0, <2>1, PropagateEffect DEF TypeOK, Blocks
    <2>3. wfStatus = "RUNNING"
      BY <1>0, <2>1 DEF IInv, Process, Alive, MainInv, TypeOK
    <2> QED
      BY <2>2, <2>3
  <1>2. ASSUME NEW u \in Tasks, EndMark(u) PROVE Marks(t) /\ wfStatus = "RUNNING"
    <2>1. u = t /\ pc = "marking" /\ t \in todo /\ status'[t] = "RUNNING"
      BY <1>0, <1>2 DEF EndMark, lockTask, NextTodo, TypeOK
    <2>2. status[t] \in Unstarted /\ wfStatus = "RUNNING"
      BY <1>0, <2>1 DEF IInv, Process, Alive, MainInv, TypeOK
    <2> QED
      BY <2>1, <2>2 DEF Marks
  <1>3. ASSUME NEW u \in Tasks, EndStore(u) PROVE Stores(t) /\ wfStatus = "RUNNING"
    <2>1. u = t /\ gpc[t] = "storing" /\ status'[t] = StatusOf(outcome[t])
      BY <1>0, <1>3 DEF EndStore, TypeOK
    <2>2. pc # "crashed"
      BY <2>1 DEF IInv, Process
    <2>3. outcome[t] \in Outcomes /\ status[t] = "RUNNING" /\ pc \in {"mark", "marking"}
      BY <2>1, <2>2 DEF IInv, Process, Alive, Goroutine, Started
    <2>4. wfStatus = "RUNNING"
      BY <1>0, <2>3 DEF IInv, Process, Alive, MainInv, TypeOK
    <2> QED
      BY <2>1, <2>3, <2>4, StatusOfFinal DEF Stores
  <1>4. CASE UNCHANGED status
    BY <1>4
  <1> QED
    BY <1>1, <1>2, <1>3, <1>4
    DEF Next, MainStep, TaskStep, EnvironmentStep, RejectGraph, StartRun,
        StopOnContext, BeginMark, BatchDone, Acquire, Execute, BeginStore,
        ReleaseSlot, Unlock, WgDone, EndContext, DeadlinePasses, MapFault, vars

(* The executor is called only for a task whose goroutine holds a slot.    *)
LEMMA CallsStep ==
  ASSUME IInv, [Next]_vars, NEW t \in Tasks, calls'[t] # calls[t]
  PROVE  gpc[t] = "executing" /\ calls'[t] = calls[t] + 1 /\ pc # "crashed"
  <1>0. TypeOK
    BY DEF IInv
  <1>1. ASSUME NEW u \in Tasks, NEW o \in Outcomes, Execute(u, o)
        PROVE  gpc[t] = "executing" /\ calls'[t] = calls[t] + 1
    BY <1>0, <1>1 DEF Execute, TypeOK
  <1>2. UNCHANGED calls \/ \E u \in Tasks, o \in Outcomes : Execute(u, o)
    BY DEF Next, MainStep, TaskStep, EnvironmentStep, RejectGraph, StartRun,
        StopOnContext, CollectReady, NothingReady, BeginMark, EndMark,
        BatchDone, Acquire, BeginStore, EndStore, ReleaseSlot, Unlock, WgDone,
        EndContext, DeadlinePasses, MapFault, goroutineVars, vars
  <1>3. gpc[t] = "executing" /\ calls'[t] = calls[t] + 1
    BY <1>1, <1>2
  <1> QED
    BY <1>3 DEF IInv, Process

(* Graph and dependencies never change; a Run leaves "start" once.         *)
LEMMA DepsStep ==
  ASSUME [Next]_vars
  PROVE  deps' = deps
  BY DEF Next, MainStep, TaskStep, EnvironmentStep, RejectGraph, StartRun,
      StopOnContext, CollectReady, NothingReady, BeginMark, EndMark, BatchDone,
      Acquire, Execute, BeginStore, EndStore, ReleaseSlot, Unlock, WgDone,
      EndContext, DeadlinePasses, MapFault, vars

-----------------------------------------------------------------------------
(* Each part of IInv is kept by every step.                                *)

LEMMA NextProcess == IInv /\ [Next]_vars => Process'
  <1> SUFFICES ASSUME IInv, [Next]_vars PROVE Process'
    OBVIOUS
  <1>0. TypeOK /\ TypeOK' /\ Process
    BY NextTypeOK DEF IInv
  <1>a. CASE pc = "crashed"
    <2>1. UNCHANGED <<pc, gpc>>
      BY <1>0, <1>a
      DEF Process, Next, MainStep, TaskStep, EnvironmentStep, RejectGraph,
          StartRun, StopOnContext, CollectReady, NothingReady, BeginMark,
          EndMark, BatchDone, Acquire, Execute, BeginStore, EndStore,
          ReleaseSlot, Unlock, WgDone, EndContext, DeadlinePasses, MapFault,
          goroutineVars, vars
    <2> QED
      BY <1>0, <1>a, <2>1 DEF Process
  <1>b. CASE pc # "crashed"
    <2> USE <1>0, <1>b, TasksAssumption
        DEF Process, Alive, Goroutine, MainInv, Started, Ended, TypeOK
    <2>1. CASE RejectGraph
      BY <2>1 DEF RejectGraph, goroutineVars
    <2>2. CASE StartRun
      BY <2>2 DEF StartRun, goroutineVars
    <2>3. CASE StopOnContext
      BY <2>3 DEF StopOnContext, goroutineVars
    <2>4. CASE CollectReady
      <3>1. pc = "schedule" /\ pc' = "mark" /\ wfStatus' = wfStatus
            /\ todo' = ReadyTasks(status') /\ batch' = todo'
            /\ UNCHANGED <<deps, gpc, locks, sem, attempt, outcome, calls, writers>>
        BY <2>4 DEF CollectReady, goroutineVars
      <3>2. \A t \in Tasks : gpc[t] = "none" /\ status[t] # "RUNNING"
        BY <3>1
      <3>3. ASSUME NEW t \in Tasks PROVE status'[t] # "RUNNING"
        BY <2>4, <3>2, PropagateEffect DEF CollectReady
      <3>4. \A t \in todo' : status'[t] \in Unstarted
                             /\ \A d \in deps'[t] : status'[d] = "SUCCEEDED"
        BY <3>1 DEF ReadyTasks
      <3> QED
        BY <3>1, <3>2, <3>3, <3>4
    <2>5. CASE NothingReady
      <3>1. /\ pc = "schedule" /\ pc' = "returned" /\ UNCHANGED <<deps, todo,
               batch, gpc, locks, sem, attempt, outcome, calls, writers>>
            /\ wfStatus' = wfStatus \/ wfStatus' \in {"SUCCEEDED", "FAILED"}
        BY <2>5 DEF NothingReady, Verdict, goroutineVars
      <3>2. \A t \in Tasks : gpc[t] = "none" /\ status[t] # "RUNNING"
        BY <3>1
      <3>3. ASSUME NEW t \in Tasks PROVE status'[t] # "RUNNING"
        BY <2>5, <3>2, PropagateEffect DEF NothingReady
      <3> QED
        BY <3>1, <3>2, <3>3
    <2>6. CASE BeginMark
      BY <2>6 DEF BeginMark, goroutineVars
    <2>7. ASSUME NEW t \in Tasks, EndMark(t) PROVE Process'
      <3>1. t \in todo /\ status[t] \in Unstarted /\ pc = "marking"
        BY <2>7 DEF EndMark, lockTask, NextTodo
      <3>2. gpc[t] = "none" /\ t \notin locks
        BY <3>1 DEF Unstarted, Unfinished
      <3>3. calls[t] = 0
        BY <3>1 DEF IInv, History
      <3>4. \A u \in Tasks : u # t => Goroutine(u)'
        BY <2>7, <3>1, <3>2 DEF EndMark, lockTask
      <3>5. Goroutine(t)'
        BY <2>7, <3>1, <3>2, <3>3 DEF EndMark, lockTask
      <3>6. \A u \in todo' : /\ status'[u] \in Unstarted
                             /\ \A d \in deps'[u] : status'[d] = "SUCCEEDED"
        <4>1. \A u \in todo' : u \in todo /\ u # t /\ deps[u] \subseteq Tasks
          BY <2>7, <3>1 DEF EndMark, lockTask, IInv, History
        <4>2. \A u \in Tasks : u # t => status'[u] = status[u]
          BY <2>7 DEF EndMark, lockTask
        <4>3. status[t] # "SUCCEEDED" /\ deps' = deps
          BY <2>7, <3>1 DEF Unstarted, EndMark, lockTask
        <4>4. ASSUME NEW u \in todo'
              PROVE  /\ status'[u] \in Unstarted
                     /\ \A d \in deps'[u] : status'[d] = "SUCCEEDED"
          <5>1. u \in todo /\ u # t /\ u \in Tasks /\ deps[u] \subseteq Tasks
            BY <4>1 DEF IInv, TypeOK
          <5>2. status[u] \in Unstarted /\ \A d \in deps[u] : status[d] = "SUCCEEDED"
            BY <5>1 DEF MainInv
          <5> QED BY <4>2, <4>3, <5>1, <5>2
        <4> QED BY <4>4
      <3>7. MainInv'
        BY <2>7, <3>6 DEF EndMark, lockTask
      <3> QED
        BY <2>7, <3>2, <3>4, <3>5, <3>7 DEF EndMark, lockTask
    <2>8. CASE BatchDone
      BY <2>8 DEF BatchDone, Wait, Verdict, goroutineVars
    <2>9. ASSUME NEW t \in Tasks, TaskStep(t) PROVE Process'
      <3>1. CASE Acquire(t)
        BY <3>1, PositiveBounds DEF Acquire
      <3>2. ASSUME NEW o \in Outcomes, Execute(t, o) PROVE Process'
        BY <3>2, PositiveBounds DEF Execute, LastAttempt
      <3>3. CASE BeginStore(t)
        BY <3>3 DEF BeginStore
      <3>4. CASE EndStore(t)
        <4>1. status'[t] \notin Unfinished /\ status[t] = "RUNNING"
          BY <3>4, StatusOfFinal DEF EndStore
        <4>2. \A u \in todo : /\ status'[u] \in Unstarted
                              /\ \A d \in deps[u] : status'[d] = "SUCCEEDED"
          <5>1. \A u \in Tasks : status[u] # "RUNNING" => status'[u] = status[u]
            BY <3>4, <4>1 DEF EndStore
          <5>2. \A u \in todo : deps[u] \subseteq Tasks /\ u \in Tasks
            BY <3>4 DEF EndStore, IInv, History
          <5>3. \A u \in todo : /\ status[u] \in Unstarted /\ status[u] # "RUNNING"
                                /\ \A d \in deps[u] : status[d] = "SUCCEEDED"
            BY DEF Unstarted
          <5>4. ASSUME NEW u \in todo
                PROVE  /\ status'[u] \in Unstarted
                       /\ \A d \in deps[u] : status'[d] = "SUCCEEDED"
            <6>1. u \in Tasks /\ deps[u] \subseteq Tasks
              BY <5>2
            <6> QED BY <5>1, <5>3, <6>1
          <5> QED BY <5>4
        <4> QED
          BY <3>4, <4>1, <4>2 DEF EndStore, Unfinished
      <3>5. CASE ReleaseSlot(t)
        BY <3>5 DEF ReleaseSlot
      <3>6. CASE Unlock(t)
        BY <3>6 DEF Unlock
      <3>7. CASE WgDone(t)
        BY <3>7 DEF WgDone
      <3> QED
        BY <2>9, <3>1, <3>2, <3>3, <3>4, <3>5, <3>6, <3>7 DEF TaskStep
    <2>10. ASSUME NEW e \in ContextErrors, EndContext(e) PROVE Process'
      BY <2>10 DEF EndContext, goroutineVars
    <2>11. ASSUME NEW t \in Tasks, DeadlinePasses(t) PROVE Process'
      BY <2>11 DEF DeadlinePasses, goroutineVars
    <2>12. CASE MapFault
      BY <2>12 DEF MapFault
    <2>13. CASE UNCHANGED vars
      BY <2>13 DEF vars
    <2> QED
      BY <2>1, <2>2, <2>3, <2>4, <2>5, <2>6, <2>7, <2>8, <2>9, <2>10, <2>11,
         <2>12, <2>13
      DEF Next, MainStep, EnvironmentStep
  <1> QED
    BY <1>a, <1>b

LEMMA NextHistory == IInv /\ [Next]_vars => History'
  <1> SUFFICES ASSUME IInv, [Next]_vars PROVE History'
    OBVIOUS
  <1>0. TypeOK /\ TypeOK' /\ History
    BY NextTypeOK DEF IInv
  <1>1. deps' = deps
    BY DepsStep
  <1>2. ASSUME NEW t \in Tasks, status[t] \in Failures \cup {"CANCELLED"}
        PROVE  status'[t] = status[t]
    BY <1>2, StatusStep
    DEF Blocks, Marks, Stores, Unstarted, Failures
  <1>3. ASSUME NEW t \in Tasks PROVE NeverCalled(t)'
    <2>1. SUFFICES ASSUME calls'[t] = 0 PROVE NeverCalled(t)'
      BY DEF NeverCalled
    <2>2. calls[t] = 0
      BY <1>0, <2>1, CallsStep DEF TypeOK
    <2>3. CASE status'[t] = status[t]
      <3>1. CASE status[t] \in Unfinished
        BY <2>3, <3>1 DEF NeverCalled
      <3>2. CASE status[t] \notin Unfinished
        <4>1. PICK d \in deps[t] : status[d] \in Failures \cup {"CANCELLED"}
          BY <1>0, <2>2, <3>2 DEF History, NeverCalled
        <4>2. d \in Tasks
          BY <1>0, <3>2 DEF History, Unfinished
        <4> QED
          BY <1>0, <1>1, <1>2, <2>2, <2>3, <3>2, <4>1, <4>2
          DEF History, NeverCalled
      <3> QED
        BY <3>1, <3>2
    <2>4. CASE status'[t] # status[t]
      <3>1. wfStatus = "RUNNING"
        BY <2>4, StatusStep
      <3>2. CASE Blocks(t)
        BY <1>0, <1>1, <1>2, <3>1, <3>2 DEF History, Blocks, NeverCalled
      <3>3. CASE Marks(t)
        BY <3>3 DEF Marks, NeverCalled, Unfinished
      <3>4. CASE Stores(t)
        <4>1. pc # "crashed"
          BY <3>4 DEF Stores, IInv, Process
        <4>2. calls[t] > 0
          BY <3>4, <4>1 DEF Stores, IInv, Process, Alive, Goroutine
        <4> QED
          BY <2>2, <4>2
      <3> QED
        BY <2>4, <3>2, <3>3, <3>4, StatusStep
    <2> QED
      BY <2>3, <2>4
  <1>4. ASSUME NEW t \in Tasks, status'[t] \in Unstarted PROVE calls'[t] = 0
    <2>1. status'[t] = status[t]
      BY <1>4, StatusStep DEF Blocks, Marks, Stores, Unstarted, Unfinished
    <2>2. gpc[t] # "executing" \/ pc = "crashed"
      BY <1>4, <2>1 DEF IInv, Process, Alive, Goroutine, Started, Unstarted
    <2> QED
      BY <1>0, <1>4, <2>1, <2>2, CallsStep DEF History
  <1>5. wfStatus' # "PLANNED" => \A t \in Tasks : deps'[t] \subseteq Tasks
    <2>1. CASE wfStatus # "PLANNED"
      BY <1>0, <1>1, <2>1 DEF History
    <2>2. CASE StartRun
      BY <1>1, <2>2 DEF StartRun, ValidateGraph
    <2>3. wfStatus = "PLANNED" /\ wfStatus' # "PLANNED" => StartRun
      BY DEF IInv, Process, Alive, MainInv, Next, MainStep, TaskStep,
         EnvironmentStep, RejectGraph, StopOnContext, CollectReady,
         NothingReady, BeginMark, EndMark, BatchDone, Acquire, Execute,
         BeginStore, EndStore, ReleaseSlot, Unlock, WgDone, EndContext,
         DeadlinePasses, MapFault, vars
    <2> QED
      BY <2>1, <2>2, <2>3
  <1>6. wfStatus' = "PLANNED" => \A t \in Tasks : status'[t] = "PENDING"
    <2>1. wfStatus' = "PLANNED" => wfStatus = "PLANNED"
      BY DEF Next, MainStep, TaskStep, EnvironmentStep, RejectGraph, StartRun,
         StopOnContext, CollectReady, NothingReady, Verdict, BeginMark,
         EndMark, BatchDone, Acquire, Execute, BeginStore, EndStore,
         ReleaseSlot, Unlock, WgDone, EndContext, DeadlinePasses, MapFault,
         vars
    <2> QED
      BY <1>0, <2>1, StatusStep DEF History
  <1> QED
    BY <1>3, <1>4, <1>5, <1>6 DEF History

LEMMA NextDependencyOrder == IInv /\ [Next]_vars => DependencyOrder'
  <1> SUFFICES ASSUME IInv, [Next]_vars, NEW t \in Tasks,
                      calls'[t] > 0 \/ gpc'[t] \notin {"none", "crashed"},
                      NEW d \in deps'[t]
               PROVE  status'[d] = "SUCCEEDED"
    BY DEF DependencyOrder
  <1>0. TypeOK /\ TypeOK' /\ deps' = deps
    BY NextTypeOK, DepsStep DEF IInv
  <1>1. status[d] = "SUCCEEDED" /\ wfStatus # "PLANNED"
    <2>1. CASE calls[t] > 0 \/ gpc[t] \notin {"none", "crashed"}
      <3>1. status[d] = "SUCCEEDED"
        BY <1>0, <2>1 DEF IInv, DependencyOrder
      <3>2. wfStatus # "PLANNED"
        BY <2>1 DEF IInv, Process, Alive, MainInv, Goroutine, History, TypeOK,
                    Started, Ended, Unstarted
      <3> QED
        BY <3>1, <3>2
    <2>2. CASE calls[t] = 0 /\ gpc[t] \in {"none", "crashed"}
      <3>1. calls'[t] = 0
        BY <1>0, <2>2, CallsStep DEF TypeOK
      <3>2. gpc'[t] # gpc[t] => gpc'[t] = "crashed" \/ \E u \in Tasks : EndMark(u) /\ u = t
        BY <1>0, <2>2
        DEF TypeOK, Next, MainStep, TaskStep, EnvironmentStep, RejectGraph,
            StartRun, StopOnContext, CollectReady, NothingReady, BeginMark,
            EndMark, BatchDone, Acquire, Execute, BeginStore, EndStore,
            ReleaseSlot, Unlock, WgDone, EndContext, DeadlinePasses, MapFault,
            goroutineVars, vars
      <3>3. EndMark(t)
        BY <2>2, <3>1, <3>2
      <3>4. t \in todo /\ pc = "marking"
        BY <3>3 DEF EndMark, lockTask, NextTodo
      <3> QED
        BY <1>0, <3>4 DEF IInv, Process, Alive, MainInv
    <2> QED
      BY <1>0, <2>1, <2>2 DEF TypeOK
  <1>2. d \in Tasks
    BY <1>0, <1>1 DEF IInv, History
  <1> QED
    BY <1>1, <1>2, StatusStep DEF Blocks, Marks, Stores, Unstarted

LEMMA NextCallsBounded == IInv /\ [Next]_vars => CallsBounded'
  <1> SUFFICES ASSUME IInv, [Next]_vars, NEW t \in Tasks
               PROVE  calls'[t] <= Attempts(t)
    BY DEF CallsBounded
  <1>0. TypeOK /\ calls[t] <= Attempts(t)
    BY DEF IInv, CallsBounded
  <1>1. CASE calls'[t] = calls[t]
    BY <1>0, <1>1
  <1>2. CASE calls'[t] # calls[t]
    <2>1. gpc[t] = "executing" /\ calls'[t] = calls[t] + 1 /\ pc # "crashed"
      BY <1>2, CallsStep
    <2>2. attempt[t] = calls[t] + 1 /\ attempt[t] <= Attempts(t)
      BY <2>1 DEF IInv, Process, Alive, Goroutine
    <2> QED
      BY <2>1, <2>2
  <1> QED
    BY <1>1, <1>2

LEMMA NextSlots == IInv /\ [Next]_vars => Cardinality(sem') <= MaxParallel
  <1> SUFFICES ASSUME IInv, [Next]_vars PROVE Cardinality(sem') <= MaxParallel
    OBVIOUS
  <1>0. IsFiniteSet(sem) /\ Cardinality(sem) <= MaxParallel /\ MaxParallel \in Nat
    BY TasksAssumption, FS_Subset, PositiveBounds DEF IInv, TypeOK
  <1>1. ASSUME NEW t \in Tasks, Acquire(t) PROVE Cardinality(sem') <= MaxParallel
    BY <1>0, <1>1, AddSlot DEF Acquire, SlotFree
  <1>2. ASSUME NEW t \in Tasks, ReleaseSlot(t)
        PROVE  Cardinality(sem') <= MaxParallel
    BY <1>0, <1>2, DropSlot DEF ReleaseSlot
  <1>3. CASE UNCHANGED sem
    BY <1>0, <1>3
  <1> QED
    BY <1>1, <1>2, <1>3
    DEF Next, MainStep, TaskStep, EnvironmentStep, RejectGraph, StartRun,
        StopOnContext, CollectReady, NothingReady, BeginMark, EndMark,
        BatchDone, Execute, BeginStore, EndStore, Unlock, WgDone, EndContext,
        DeadlinePasses, MapFault, goroutineVars, vars

(* A Run returns with its verdict computed from the statuses, and nothing  *)
(* changes after that.                                                     *)
LEMMA NextVerdict == IInv /\ [Next]_vars => VerdictSound' /\ IndependentWorkDone'
  <1> SUFFICES ASSUME IInv, [Next]_vars PROVE VerdictSound' /\ IndependentWorkDone'
    OBVIOUS
  <1>0. TypeOK /\ Process /\ History' /\ deps' = deps
    BY NextHistory, DepsStep DEF IInv
  <1>1. CASE pc = "returned"
    <2>1. \A t \in Tasks : gpc[t] = "none"
      BY <1>0, <1>1 DEF TypeOK, Process, Alive, Goroutine, Started, Ended
    <2>2. UNCHANGED <<pc, status, wfStatus, calls>>
      BY <1>0, <1>1, <2>1
      DEF Process, Alive, Goroutine, MainInv, TypeOK, Next, MainStep, TaskStep,
          EnvironmentStep, RejectGraph, StartRun, StopOnContext, CollectReady,
          NothingReady, BeginMark, EndMark, BatchDone, Acquire, Execute,
          BeginStore, EndStore, ReleaseSlot, Unlock, WgDone, EndContext,
          DeadlinePasses, MapFault, goroutineVars, vars
    <2> QED
      BY <1>0, <2>2 DEF IInv, VerdictSound, IndependentWorkDone, Pending
  <1>2. CASE pc # "returned" /\ pc' = "returned"
    <2>1. RejectGraph \/ StopOnContext \/ NothingReady \/ BatchDone
      BY <1>2
      DEF Next, MainStep, TaskStep, EnvironmentStep, StartRun, CollectReady,
          BeginMark, EndMark, Acquire, Execute, BeginStore, EndStore,
          ReleaseSlot, Unlock, WgDone, EndContext, DeadlinePasses, MapFault,
          vars
    <2>2. CASE RejectGraph
      BY <1>0, <2>2 DEF RejectGraph, Process, Alive, MainInv, VerdictSound,
                        IndependentWorkDone
    <2>3. CASE StopOnContext
      BY <2>3 DEF StopOnContext, VerdictSound, IndependentWorkDone
    <2>4. CASE NothingReady
      <3>1. /\ ReadyTasks(status') = {}
            /\ wfStatus' = IF Pending(status') THEN wfStatus ELSE Verdict(status')
        BY <2>4 DEF NothingReady
      <3>2. wfStatus = "RUNNING"
        BY <1>0, <2>4 DEF NothingReady, TypeOK, Process, Alive, MainInv
      <3>3. VerdictSound'
        BY <3>1, <3>2 DEF VerdictSound, Verdict, Pending
      <3>4. \A t \in Tasks : gpc[t] = "none" /\ status[t] # "RUNNING"
        BY <1>0, <2>4 DEF NothingReady, TypeOK, Process, Alive, Goroutine,
                          Started, Ended
      <3>5. ASSUME NEW t \in Tasks, \A d \in deps'[t] : status'[d] = "SUCCEEDED"
            PROVE  calls'[t] > 0
        <4>1. status'[t] \notin Unstarted
          BY <1>0, <3>1, <3>5 DEF ReadyTasks
        <4>2. status'[t] # "RUNNING"
          BY <1>0, <2>4, <3>4, PropagateEffect DEF NothingReady, TypeOK
        <4>3. calls'[t] # 0
          BY <1>0, <3>5, <4>1, <4>2 DEF History, NeverCalled, Unfinished,
             Unstarted, Failures
        <4> QED
          BY <4>3, NextTypeOK DEF TypeOK
      <3> QED
        BY <3>3, <3>5 DEF IndependentWorkDone
    <2>5. CASE BatchDone
      <3>1. UNCHANGED <<status, calls>> /\ ~Pending(status)
            /\ wfStatus' = Verdict(status)
        BY <1>2, <2>5 DEF BatchDone, goroutineVars
      <3>2. VerdictSound'
        BY <3>1 DEF VerdictSound, Verdict, Pending
      <3>3. ASSUME NEW t \in Tasks, \A d \in deps'[t] : status'[d] = "SUCCEEDED"
            PROVE  calls'[t] > 0
        <4>1. calls'[t] # 0
          BY <1>0, <3>1, <3>3 DEF Pending, History, NeverCalled, Failures
        <4> QED
          BY <4>1, NextTypeOK DEF TypeOK
      <3> QED
        BY <3>2, <3>3 DEF IndependentWorkDone
    <2> QED
      BY <2>1, <2>2, <2>3, <2>4, <2>5
  <1>3. CASE pc' # "returned"
    BY <1>3 DEF VerdictSound, IndependentWorkDone
  <1> QED
    BY <1>1, <1>2, <1>3

LEMMA NextCrash == IInv /\ [Next]_vars => CrashNeedsParallelBatch'
  <1> SUFFICES ASSUME IInv, [Next]_vars, pc' = "crashed"
               PROVE  \E x, y \in batch' : x # y
    BY DEF CrashNeedsParallelBatch
  <1>1. pc = "crashed" \/ MapFault
    BY DEF Next, MainStep, TaskStep, EnvironmentStep, RejectGraph, StartRun,
       StopOnContext, CollectReady, NothingReady, BeginMark, EndMark,
       BatchDone, Acquire, Execute, BeginStore, EndStore, ReleaseSlot, Unlock,
       WgDone, EndContext, DeadlinePasses, vars
  <1>2. CASE MapFault
    BY <1>2, WritersInBatch DEF MapFault, IInv, Process
  <1>3. CASE pc = "crashed"
    <2>1. batch' = batch
      BY <1>3
      DEF Next, MainStep, TaskStep, EnvironmentStep, RejectGraph, StartRun,
          StopOnContext, CollectReady, NothingReady, BeginMark, EndMark,
          BatchDone, Acquire, Execute, BeginStore, EndStore, ReleaseSlot,
          Unlock, WgDone, EndContext, DeadlinePasses, MapFault, vars
    <2> QED
      BY <1>3, <2>1 DEF IInv, CrashNeedsParallelBatch
  <1> QED
    BY <1>1, <1>2, <1>3

LEMMA NextIInv == IInv /\ [Next]_vars => IInv'
  BY NextTypeOK, NextProcess, NextHistory, NextSlots, NextDependencyOrder,
     NextCallsBounded, NextVerdict, NextCrash
  DEF IInv

-----------------------------------------------------------------------------
(* The inductive invariant holds throughout a Run.                         *)
THEOREM Invariance == Spec => []IInv
  <1> QED
    BY InitIInv, NextIInv, PTL DEF Spec

(* Type correctness of the scheduler's state.                              *)
THEOREM TypeCorrect == Spec => []TypeOK
  <1>1. IInv => TypeOK
    BY DEF IInv
  <1> QED
    BY <1>1, Invariance, PTL

(* A started task has only dependencies that succeeded, for every graph    *)
(* and every interleaving of the task goroutines.                          *)
THEOREM DependencyOrderHolds == Spec => []DependencyOrder
  <1>1. IInv => DependencyOrder
    BY DEF IInv
  <1> QED
    BY <1>1, Invariance, PTL

(* No task is started twice: executor calls stay within the retry policy.  *)
THEOREM CallsBoundedHolds == Spec => []CallsBounded
  <1>1. IInv => CallsBounded
    BY DEF IInv
  <1> QED
    BY <1>1, Invariance, PTL

(* The semaphore bounds the Execute calls in progress.                     *)
THEOREM ConcurrencyBounded == Spec => []BoundedConcurrency
  <1>1. IInv => BoundedConcurrency
    <2> SUFFICES ASSUME IInv PROVE BoundedConcurrency
      OBVIOUS
    <2>1. IsFiniteSet(sem) /\ Cardinality(sem) <= MaxParallel
      BY TasksAssumption, FS_Subset DEF IInv, TypeOK
    <2>2. Executing \subseteq sem
      BY DEF IInv, Process, Alive, Goroutine, Executing
    <2>3. /\ Cardinality(Executing) <= Cardinality(sem)
          /\ Cardinality(Executing) \in Nat /\ Cardinality(sem) \in Nat
      BY <2>1, <2>2, FS_Subset, FS_CardinalityType
    <2> QED
      BY <2>1, <2>3, PositiveBounds DEF BoundedConcurrency
  <1> QED
    BY <1>1, Invariance, PTL

(* Both limits of Run, for every graph, semaphore and number of attempts.  *)
THEOREM WithinBounds == Spec => []Bounded
BY CallsBoundedHolds, ConcurrencyBounded, PTL DEF Bounded

(* No task is left RUNNING without a goroutine between two batches: the    *)
(* lock is never contended within one Run.                                 *)
THEOREM NoOrphans == Spec => []NoOrphanRunning
  <1>1. IInv => NoOrphanRunning
    BY DEF IInv, Process, TypeOK, Alive, Goroutine, Started, Ended, NoOrphanRunning
  <1> QED
    BY <1>1, Invariance, PTL

(* The verdict agrees with the task statuses.                              *)
THEOREM VerdictIsSound == Spec => []VerdictSound
  <1>1. IInv => VerdictSound
    BY DEF IInv
  <1> QED
    BY <1>1, Invariance, PTL

(* Work that does not depend on a failure is done when Run returns.        *)
THEOREM IndependentWork == Spec => []IndependentWorkDone
  <1>1. IInv => IndependentWorkDone
    BY DEF IInv
  <1> QED
    BY <1>1, Invariance, PTL

(* The unlocked task map can fault only in a batch of several tasks.       *)
THEOREM CrashOnlyParallel == Spec => []CrashNeedsParallelBatch
  <1>1. IInv => CrashNeedsParallelBatch
    BY DEF IInv
  <1> QED
    BY <1>1, Invariance, PTL
(* Once a task has a final status no step changes it, so a success that a  *)
(* dependent relied on is never taken back.                                *)
THEOREM StatusStable == Spec => FinalStatusStable
  <1> DEFINE Keeps == \A t \in Tasks :
                        status[t] \notin Unfinished => status'[t] = status[t]
  <1>1. IInv /\ [Next]_vars => [Keeps]_vars
    BY StatusStep DEF Blocks, Marks, Stores, Unfinished, Unstarted
  <1> QED
    BY <1>1, Invariance, PTL DEF Spec, FinalStatusStable

-----------------------------------------------------------------------------
(***************************************************************************)
(* The router.  A list has finitely many positions, and Better is a strict *)
(* order of profiles that leaves undecided only profiles of one name.      *)
(***************************************************************************)
IsList(ms) ==
    /\ IsFiniteSet(DOMAIN ms) /\ DOMAIN ms \subseteq Int
    /\ \A k \in DOMAIN ms : ms[k] \in Profiles

\* A strict order of a finite set has a minimal element.
LEMMA FiniteMinimal ==
    ASSUME NEW S, IsFiniteSet(S), S # {}, NEW R,
           \A x \in S : <<x, x>> \notin R,
           \A x, y, z \in S : <<x, y>> \in R /\ <<y, z>> \in R => <<x, z>> \in R
    PROVE  \E x \in S : \A y \in S : <<y, x>> \notin R
<1> DEFINE Below(x) == {y \in S : <<y, x>> \in R}
           T == {Below(x) : x \in S}
<1>1. IsWellFoundedOn(StrictSubsetOrdering(S), SUBSET S)
  BY FS_StrictSubsetOrderingWellFounded, FS_FiniteSubsetsOfFinite
<1>2. T \subseteq SUBSET S /\ T # {}
  <2>1. T \subseteq SUBSET S
    OBVIOUS
  <2>2. PICK x \in S : TRUE
    OBVIOUS
  <2>3. Below(x) \in T
    BY <2>2
  <2> QED BY <2>1, <2>3
<1>3. \E B \in T : \A C \in T : <<C, B>> \notin StrictSubsetOrdering(S)
  <2> HIDE DEF T
  <2> QED BY <1>1, <1>2, WFMin
<1>4. PICK x \in S : \A C \in T : <<C, Below(x)>> \notin StrictSubsetOrdering(S)
  BY <1>3
<1>5. ASSUME NEW y \in S, <<y, x>> \in R PROVE FALSE
  <2>1. Below(y) \subseteq Below(x) /\ y \in Below(x) /\ y \notin Below(y)
    BY <1>5
  <2>2. <<Below(y), Below(x)>> \in StrictSubsetOrdering(S)
    BY <2>1 DEF StrictSubsetOrdering
  <2> QED BY <1>4, <2>2
<1> QED BY <1>5

\* The smallest position is one of them.
LEMMA SmallestFacts ==
    ASSUME NEW P, IsFiniteSet(P), P \subseteq Int, P # {}
    PROVE  Smallest(P) \in P /\ \A j \in P : Smallest(P) <= j
<1> DEFINE R == {p \in P \X P : p[1] < p[2]}
<1>1. \A x, y \in P : <<x, y>> \in R <=> x < y
  OBVIOUS
<1>2. \A x \in P : <<x, x>> \notin R
  BY <1>1
<1>3. \A x, y, z \in P : <<x, y>> \in R /\ <<y, z>> \in R => <<x, z>> \in R
  BY <1>1
<1>4. \E x \in P : \A y \in P : <<y, x>> \notin R
  <2> HIDE DEF R
  <2> QED BY <1>2, <1>3, FiniteMinimal
<1>5. \E x \in P : \A y \in P : x <= y
  <2>1. PICK x \in P : \A y \in P : <<y, x>> \notin R
    BY <1>4
  <2>2. \A y \in P : ~(y < x)
    BY <1>1, <2>1
  <2>3. x \in Int /\ \A y \in P : y \in Int
    OBVIOUS
  <2>4. \A y \in P : x <= y
    <3> HIDE DEF R
    <3> QED BY <2>2, <2>3
  <2> QED BY <2>4
<1> QED BY <1>5 DEF Smallest

LEMMA ScoreType ==
    ASSUME NEW q, NEW m \in Profiles
    PROVE  Score(q, m) \in Int
<1>1. m.reliability \in Nat /\ m.quality \in Nat /\ m.cost \in Nat
  BY DEF Profiles
<1>2. CapabilityScore(q, m) \in Int
  BY DEF CapabilityScore
<1>3. PolicyScore(q, m) \in Int
  <2>1. 10000000 \div (1000 + m.cost) \in Int
    BY <1>1
  <2> QED BY <1>1, <2>1 DEF PolicyScore
<1> QED BY <1>1, <1>2, <1>3 DEF Score

\* Better is a strict order, total but for profiles of one name.
LEMMA BetterOrder ==
    ASSUME NEW q, NEW a \in Profiles, NEW b \in Profiles, NEW c \in Profiles
    PROVE  /\ ~Better(q, a, a)
           /\ Better(q, a, b) /\ Better(q, b, c) => Better(q, a, c)
           /\ ~Better(q, a, b) /\ ~Better(q, b, a) => Ref(a) = Ref(b)
<1>1. /\ Score(q, a) \in Int /\ Score(q, b) \in Int /\ Score(q, c) \in Int
  BY ScoreType
<1>2. /\ a.provider \in Nat /\ b.provider \in Nat /\ c.provider \in Nat
      /\ a.id \in Nat /\ b.id \in Nat /\ c.id \in Nat
  BY DEF Profiles
<1> QED BY <1>1, <1>2 DEF Better, Ref

\* The head of the sorted candidates is one of them, and none is better.
LEMMA FirstFacts ==
    ASSUME NEW q, NEW ms, IsList(ms), NEW C \in SUBSET DOMAIN ms, C # {}
    PROVE  /\ First(q, ms, C) \in C
           /\ \A j \in C : ~Better(q, ms[j], ms[First(q, ms, C)])
<1> DEFINE R == {p \in C \X C : Better(q, ms[p[1]], ms[p[2]])}
           best == {i \in C : \A j \in C : ~Better(q, ms[j], ms[i])}
<1>0. /\ IsFiniteSet(C) /\ C \subseteq Int
      /\ \A i \in C : ms[i] \in Profiles
  BY FS_Subset DEF IsList
<1>1. \A x, y \in C : <<x, y>> \in R <=> Better(q, ms[x], ms[y])
  OBVIOUS
<1>2. \A x \in C : <<x, x>> \notin R
  BY <1>0, <1>1, BetterOrder
<1>3. \A x, y, z \in C : <<x, y>> \in R /\ <<y, z>> \in R => <<x, z>> \in R
  BY <1>0, <1>1, BetterOrder
<1>4. \E x \in C : \A y \in C : <<y, x>> \notin R
  <2> HIDE DEF R
  <2> QED BY <1>0, <1>2, <1>3, FiniteMinimal
<1>5. best # {}
  BY <1>1, <1>4
<1>6. IsFiniteSet(best) /\ best \subseteq Int
  BY <1>0, FS_Subset
<1>7. Smallest(best) \in best
  <2> HIDE DEF best
  <2> QED BY <1>5, <1>6, SmallestFacts
<1> QED BY <1>7 DEF First

\* What Decide selects was accepted, has the name of the override if there is
\* one, and no accepted profile is better if there is none.
LEMMA DecideFacts ==
    ASSUME NEW q, NEW ms, IsList(ms)
    PROVE  /\ Decide(q, ms) # None =>
                \E i \in DOMAIN ms :
                   /\ Decide(q, ms) = ms[i] /\ Accepted(q, ms[i])
                   /\ q.override # None => Ref(ms[i]) = q.override
                   /\ q.override = None =>
                        \A j \in DOMAIN ms : Accepted(q, ms[j]) => ~Better(q, ms[j], ms[i])
           /\ Decide(q, ms) = None =>
                \A i \in DOMAIN ms :
                   Accepted(q, ms[i]) => q.override # None /\ Ref(ms[i]) # q.override
<1> DEFINE A == AcceptedOf(q, ms)
           C == ApplyOverride(q, ms, A)
           named == {i \in A : Ref(ms[i]) = q.override}
<1>0. /\ A = {i \in DOMAIN ms : Accepted(q, ms[i])}
      /\ C = IF q.override = None THEN A ELSE IF named = {} THEN {} ELSE {Smallest(named)}
      /\ Decide(q, ms) = IF C = {} THEN None ELSE ms[First(q, ms, C)]
  BY DEF AcceptedOf, ApplyOverride, Decide
<1>1. IsFiniteSet(named) /\ named \subseteq Int /\ named \subseteq A /\ A \subseteq DOMAIN ms
  BY <1>0, FS_Subset DEF IsList
<1>2. named # {} => Smallest(named) \in named
  <2> HIDE DEF named
  <2> QED BY <1>1, SmallestFacts
<1>3. C \in SUBSET DOMAIN ms
  BY <1>0, <1>1, <1>2
<1>4. CASE C = {}
  BY <1>0, <1>1, <1>4
<1>5. CASE C # {}
  <2> DEFINE i == First(q, ms, C)
  <2>1. i \in C /\ \A j \in C : ~Better(q, ms[j], ms[i])
    <3> HIDE DEF C
    <3> QED BY <1>3, <1>5, FirstFacts
  <2>2. Decide(q, ms) = ms[i]
    BY <1>0, <1>5
  <2>3. i \in DOMAIN ms /\ Accepted(q, ms[i]) /\ ms[i] # None
    BY <1>0, <1>1, <1>2, <1>3, <2>1, ProfilesAssumption DEF IsList
  <2>4. q.override # None => Ref(ms[i]) = q.override
    BY <1>0, <1>2, <2>1
  <2>5. q.override = None => \A j \in DOMAIN ms : Accepted(q, ms[j]) => ~Better(q, ms[j], ms[i])
    BY <1>0, <2>1
  <2> HIDE DEF i
  <2> QED BY <2>2, <2>3, <2>4, <2>5
<1> QED BY <1>4, <1>5

\* The fallback loop asks Decide about one model alone, which is to ask whether
\* the request accepts it.
LEMMA AloneFacts ==
    ASSUME NEW q \in Requests, NEW m \in Profiles
    PROVE  Decide([q EXCEPT !.override = None], <<m>>) # None <=> Accepted(q, m)
<1> DEFINE alone == [q EXCEPT !.override = None]
           one == <<m>>
<1>1. alone.override = None /\ (Accepted(alone, m) <=> Accepted(q, m))
  BY DEF Requests, Accepted
<1>2. IsList(one) /\ DOMAIN one = {1} /\ one[1] = m
  <2>1. DOMAIN one = {1} /\ one[1] = m
    OBVIOUS
  <2>2. IsFiniteSet({1})
    BY FS_Singleton
  <2> QED BY <2>1, <2>2 DEF IsList
<1> HIDE DEF alone, one
<1>3. Decide(alone, one) # None => \E i \in DOMAIN one : Accepted(alone, one[i])
  BY <1>2, DecideFacts
<1>4. Decide(alone, one) = None => \A i \in DOMAIN one : Accepted(alone, one[i]) => alone.override # None
  BY <1>2, DecideFacts
<1>5. Decide(alone, one) # None <=> Accepted(q, m)
  BY <1>1, <1>2, <1>3, <1>4
<1> QED BY <1>5 DEF alone, one

\* The models of the k-th fallback: those with its name that are accepted.
LEMMA FallbacksFacts ==
    ASSUME NEW q \in Requests, NEW ms, IsList(ms), NEW k
    PROVE  /\ Fallbacks(q, ms, k) =
                {i \in DOMAIN ms : Ref(ms[i]) = q.fallbacks[k] /\ Accepted(q, ms[i])}
           /\ Fallbacks(q, ms, k) # {} => Smallest(Fallbacks(q, ms, k)) \in Fallbacks(q, ms, k)
<1> DEFINE alone == [q EXCEPT !.override = None]
           F == {i \in DOMAIN ms : Ref(ms[i]) = q.fallbacks[k] /\ Accepted(q, ms[i])}
<1>1. \A i \in DOMAIN ms : Decide(alone, <<ms[i]>>) # None <=> Accepted(q, ms[i])
  BY AloneFacts DEF IsList
<1>2. Fallbacks(q, ms, k) =
        {i \in DOMAIN ms : Ref(ms[i]) = q.fallbacks[k] /\ Decide(alone, <<ms[i]>>) # None}
  BY DEF Fallbacks
<1>3. Fallbacks(q, ms, k) = F
  <2> HIDE DEF alone
  <2> QED BY <1>1, <1>2
<1>4. IsFiniteSet(F) /\ F \subseteq Int
  BY FS_Subset DEF IsList
<1>5. F # {} => Smallest(F) \in F
  <2> HIDE DEF F
  <2> QED BY <1>4, SmallestFacts
<1> QED BY <1>3, <1>5

Useful(q, ms) == {k \in DOMAIN q.fallbacks : Fallbacks(q, ms, k) # {}}

LEMMA UsefulFacts ==
    ASSUME NEW q \in Requests, NEW ms, Useful(q, ms) # {}
    PROVE  Smallest(Useful(q, ms)) \in Useful(q, ms)
<1>1. q.fallbacks \in Seq(References)
  BY DEF Requests
<1>2. IsFiniteSet(DOMAIN q.fallbacks) /\ DOMAIN q.fallbacks \subseteq Int
  BY <1>1, FS_Interval
<1>3. IsFiniteSet(Useful(q, ms)) /\ Useful(q, ms) \subseteq Int
  BY <1>2, FS_Subset DEF Useful
<1> QED BY <1>3, SmallestFacts

\* What the router selects is of the list and accepted.
LEMMA ChosenFacts ==
    ASSUME NEW q \in Requests, NEW ms, IsList(ms)
    PROVE  /\ DecideWithFallbacks(q, ms) # None =>
                \E i \in DOMAIN ms : DecideWithFallbacks(q, ms) = ms[i] /\ Accepted(q, ms[i])
           /\ Decide(q, ms) = None =>
                IF Useful(q, ms) = {} THEN DecideWithFallbacks(q, ms) = None
                ELSE /\ DecideWithFallbacks(q, ms) # None
                     /\ Ref(DecideWithFallbacks(q, ms)) = q.fallbacks[Smallest(Useful(q, ms))]
<1>1. CASE Decide(q, ms) # None
  <2>1. DecideWithFallbacks(q, ms) = Decide(q, ms)
    BY <1>1 DEF DecideWithFallbacks
  <2> QED BY <1>1, <2>1, DecideFacts
<1>2. CASE Decide(q, ms) = None /\ Useful(q, ms) = {}
  BY <1>2 DEF DecideWithFallbacks, Useful
<1>3. CASE Decide(q, ms) = None /\ Useful(q, ms) # {}
  <2> DEFINE k == Smallest(Useful(q, ms))
             i == Smallest(Fallbacks(q, ms, k))
  <2>1. k \in Useful(q, ms)
    BY <1>3, UsefulFacts
  <2>2. Fallbacks(q, ms, k) # {}
    BY <2>1 DEF Useful
  <2>3. i \in DOMAIN ms /\ Ref(ms[i]) = q.fallbacks[k] /\ Accepted(q, ms[i])
    <3> HIDE DEF k
    <3> QED BY <2>2, FallbacksFacts
  <2>4. DecideWithFallbacks(q, ms) = ms[i]
    BY <1>3 DEF DecideWithFallbacks, Useful
  <2>5. ms[i] # None
    BY <2>3, ProfilesAssumption DEF IsList
  <2> HIDE DEF i
  <2> QED BY <1>3, <2>3, <2>4, <2>5
<1> QED BY <1>1, <1>2, <1>3

\* Two lists of the same profiles, in whatever order, get the same answer.
LEMMA OrderFree ==
    ASSUME NEW q \in Requests, NEW ms, NEW ls, IsList(ms), IsList(ls),
           \A i \in DOMAIN ms : \E j \in DOMAIN ls : ms[i] = ls[j],
           \A j \in DOMAIN ls : \E i \in DOMAIN ms : ms[i] = ls[j],
           DecideWithFallbacks(q, ms) # None
    PROVE  Ref(DecideWithFallbacks(q, ls)) = Ref(DecideWithFallbacks(q, ms))
<1>1. CASE Decide(q, ms) # None
  <2>1. PICK i \in DOMAIN ms :
           /\ Decide(q, ms) = ms[i] /\ Accepted(q, ms[i])
           /\ q.override # None => Ref(ms[i]) = q.override
           /\ q.override = None =>
                \A j \in DOMAIN ms : Accepted(q, ms[j]) => ~Better(q, ms[j], ms[i])
    BY <1>1, DecideFacts
  <2>2. PICK j \in DOMAIN ls : ms[i] = ls[j]
    OBVIOUS
  <2>3. Decide(q, ls) # None
    BY <2>1, <2>2, DecideFacts
  <2>4. PICK k \in DOMAIN ls :
           /\ Decide(q, ls) = ls[k] /\ Accepted(q, ls[k])
           /\ q.override # None => Ref(ls[k]) = q.override
           /\ q.override = None =>
                \A l \in DOMAIN ls : Accepted(q, ls[l]) => ~Better(q, ls[l], ls[k])
    BY <2>3, DecideFacts
  <2>5. PICK l \in DOMAIN ms : ms[l] = ls[k]
    OBVIOUS
  <2>6. ms[i] \in Profiles /\ ls[k] \in Profiles
    BY DEF IsList
  <2>7. q.override = None => ~Better(q, ls[k], ms[i]) /\ ~Better(q, ms[i], ls[k])
    BY <2>1, <2>2, <2>4, <2>5
  <2>8. Ref(ms[i]) = Ref(ls[k])
    BY <2>1, <2>4, <2>6, <2>7, BetterOrder
  <2>9. DecideWithFallbacks(q, ms) = ms[i] /\ DecideWithFallbacks(q, ls) = ls[k]
    BY <1>1, <2>1, <2>3, <2>4 DEF DecideWithFallbacks
  <2> QED BY <2>8, <2>9
<1>2. CASE Decide(q, ms) = None
  <2>1. Decide(q, ls) = None
    <3>1. SUFFICES ASSUME Decide(q, ls) # None PROVE FALSE
      OBVIOUS
    <3>2. PICK k \in DOMAIN ls :
             Accepted(q, ls[k]) /\ (q.override # None => Ref(ls[k]) = q.override)
      BY <3>1, DecideFacts
    <3> QED BY <1>2, <3>2, DecideFacts
  <2>2. \A k : Fallbacks(q, ms, k) # {} <=> Fallbacks(q, ls, k) # {}
    <3> TAKE k
    <3>1. /\ Fallbacks(q, ms, k) =
                {i \in DOMAIN ms : Ref(ms[i]) = q.fallbacks[k] /\ Accepted(q, ms[i])}
          /\ Fallbacks(q, ls, k) =
                {i \in DOMAIN ls : Ref(ls[i]) = q.fallbacks[k] /\ Accepted(q, ls[i])}
      BY FallbacksFacts
    <3> QED BY <3>1
  <2>3. Useful(q, ms) = Useful(q, ls)
    BY <2>2 DEF Useful
  <2> QED BY <1>2, <2>1, <2>3, ChosenFacts
<1> QED BY <1>1, <1>2

-----------------------------------------------------------------------------
(***************************************************************************)
(* The invariant of the fabric, in four parts that need little of each     *)
(* other: what a decision was made from, the requests that touch the       *)
(* catalogue and the health cache, the event bus, and the streams.         *)
(***************************************************************************)
\* A decision is the router's answer over a proper list; over the catalogue,
\* the rows of the list say what the cache says now, but for the runtimes that
\* were stored late.
Decided ==
    decision # None =>
        /\ decision.q \in Requests /\ IsList(decision.list)
        /\ decision.chosen = DecideWithFallbacks(decision.q, decision.list)
        /\ decision.live =>
             \A k \in DOMAIN decision.list :
                LET p == decision.list[k] IN
                p.rt # None => p.rt \in decision.late \/ p.healthy = Healthy(health[p.rt])

Descriptors ==
    [rt : Runtimes, status : {"AVAILABLE", "INSTALLED", "READY"}, listed : BOOLEAN]
Catalogs == [Models -> Descriptors \cup {None}]
Caches == [Runtimes -> {"ONLINE", "OFFLINE", None}]

\* What a request holds at each of its points.
Pulls == [op : {"install"}, at : {"pull", "list"}, rt : Runtimes, source : Models, m : Models]
Uses == [op : {"load", "unload"}, at : {"show", "read"}, rt : Runtimes, m : Models]
Writes == [op : {"install", "load", "unload"}, at : {"write"}, rt : Runtimes, m : Models,
           model : Descriptors]
Probes == [op : {"health"}, at : {"call"}, rt : Runtimes, last : Runtimes]
Replies == [op : {"health"}, at : {"store"}, rt : Runtimes, last : Runtimes,
            answer : {"ONLINE", "OFFLINE"}]
Discoveries == [op : {"discover"}, at : {"list", "register", "publish"}, rt : Nat,
                list : SUBSET Models, found : Nat]
Consultations == [op : {"decide"}, at : {"health"}, catalog : Catalogs]
Copies == [op : {"decide"}, at : {"settings"}, catalog : Catalogs, cache : Caches]
Generations == [op : {"generate"}, at : {"call"}]
Held == {Idle} \cup Pulls \cup Uses \cup Writes \cup Probes \cup Replies
               \cup Discoveries \cup Consultations \cup Copies \cup Generations

FabricTypes ==
    /\ mode \in Modes
    /\ pulled \in [Runtimes -> SUBSET Models]
    /\ models \in Catalogs
    /\ removed \in [Runtimes -> SUBSET Models]
    /\ health \in Caches /\ answered \in Caches
    /\ req \in [Workers -> Held]
    /\ \A w \in Workers : req[w].op = "health" => req[w].rt <= req[w].last

\* The models a runtime has or had.
Had(rt) == pulled[rt] \cup removed[rt]

\* What a request is about to register is or was true of the runtime.
Served ==
    /\ CatalogServed
    /\ \A w \in Workers :
          /\ req[w].at = "register" => req[w].rt \in Runtimes /\ req[w].list \subseteq Had(req[w].rt)
          /\ req[w].at = "write" /\ req[w].model.listed => req[w].m \in Had(req[w].model.rt)

Storing(w) == req[w].op = "health" /\ req[w].at = "store"

\* One request at a time: an answer that is not in the cache is on its way.
Checked ==
    ~mode.overlap =>
        /\ \A v, w \in InFlight : v = w
        /\ \A w \in Workers : Storing(w) => req[w].answer = answered[req[w].rt]
        /\ \A r \in Runtimes :
              health[r] = answered[r] \/ \E w \in Workers : Storing(w) /\ req[w].rt = r

\* A copy of the cache is out of date only for the runtimes stored since.
Copied ==
    \A w \in Deciding : \A rt \in Runtimes :
        <<w, rt>> \in overtaken \/ req[w].cache[rt] = health[rt]

Phases == {"none", "refused", "open", "left", "closed", "ended"}

BusTypes ==
    /\ flushes \in BOOLEAN /\ published \in Nat /\ since \in Nat
    /\ buffer \in [Readers -> Seq(Nat)]
    /\ activity \in Seq(Nat)
    /\ stream \in [Clients -> Phases]

Seen == activity \o buffer[Forwarder]

\* What the forwarder has seen lies between its subscription and now.
BusInv ==
    /\ BusTypes /\ BusTypeOK /\ ActivityFaithful
    /\ since <= published
    /\ \A i \in DOMAIN Seen : Seen[i] <= published
    /\ Forwarder \notin subscribers => Seen = <<>>

Streams ==
    [tokens : Nat, left : Nat, ch : Seq(Nat), out : Seq(Nat), hand : Seq(Nat),
     scanning : BOOLEAN, relaying : BOOLEAN, reading : BOOLEAN, live : BOOLEAN,
     cut : BOOLEAN, got : Seq(Nat)]

\* Every event of a stream, from the client back to the runtime.
Flow(s) == s.got \o s.out \o s.hand \o s.ch

StreamInv(s) ==
    /\ s \in Streams
    /\ Len(s.ch) <= ChanBuffer /\ Len(s.out) <= ChanBuffer /\ Len(s.hand) <= 1
    /\ s.relaying \/ ~s.scanning
    /\ LET k == IF s.scanning THEN Len(Flow(s)) ELSE Len(Flow(s)) - 1
       IN /\ \A j \in 1..k : Flow(s)[j] = j
          /\ s.scanning \/ (Len(Flow(s)) > 0 /\ Flow(s)[Len(Flow(s))] = 0)
          /\ IF s.cut THEN k < s.tokens /\ s.left = 0 ELSE k = s.tokens - s.left

Streaming ==
    /\ inference \in [Inferences -> Streams \cup {None}]
    /\ \A i \in Inferences : inference[i] # None => StreamInv(inference[i])

FabricInv == Decided /\ FabricTypes /\ Served /\ Checked /\ Copied /\ BusInv /\ Streaming

-----------------------------------------------------------------------------
\* Decisions: what the router promises follows from how a decision was made.
LEMMA ImageFinite ==
    ASSUME NEW S, IsFiniteSet(S), NEW f
    PROVE  IsFiniteSet({f[x] : x \in S})
<1> DEFINE T == {f[x] : x \in S}
           g == [x \in S |-> f[x]]
<1>1. g \in Surjection(S, T)
  BY DEF Surjection
<1> QED BY <1>1, FS_Surjection

LEMMA ReversedIsList ==
    ASSUME NEW ms, IsList(ms)
    PROVE  /\ IsList(Reversed(ms))
           /\ \A i \in DOMAIN ms : \E j \in DOMAIN Reversed(ms) : ms[i] = Reversed(ms)[j]
           /\ \A j \in DOMAIN Reversed(ms) : \E i \in DOMAIN ms : ms[i] = Reversed(ms)[j]
<1> DEFINE D == {-i : i \in DOMAIN ms}
<1>0. DOMAIN ms \subseteq Int /\ \A k \in DOMAIN ms : ms[k] \in Profiles
  BY DEF IsList
<1>1. IsFiniteSet(D)
  <2> DEFINE f == [i \in DOMAIN ms |-> -i]
  <2>1. IsFiniteSet({f[i] : i \in DOMAIN ms})
    BY ImageFinite DEF IsList
  <2>2. D = {f[i] : i \in DOMAIN ms}
    OBVIOUS
  <2> QED BY <2>1, <2>2
<1>2. Reversed(ms) = [k \in D |-> ms[-k]]
  BY DEF Reversed
<1>3. \A k \in D : k \in Int /\ -k \in DOMAIN ms
  BY <1>0
<1>4. \A i \in DOMAIN ms : -i \in D /\ -(-i) = i
  BY <1>0
<1> HIDE DEF D
<1>5. DOMAIN Reversed(ms) = D /\ \A k \in D : Reversed(ms)[k] = ms[-k]
  BY <1>2
<1>6. IsList(Reversed(ms))
  BY <1>0, <1>1, <1>3, <1>5 DEF IsList
<1>7. ASSUME NEW i \in DOMAIN ms PROVE \E j \in D : ms[i] = Reversed(ms)[j]
  <2>1. Reversed(ms)[-i] = ms[i]
    BY <1>4, <1>5
  <2> QED BY <1>4, <2>1
<1> QED BY <1>3, <1>5, <1>6, <1>7

LEMMA DecidedRouter == Decided => RouterSound
<1> SUFFICES ASSUME Decided PROVE RouterSound
  OBVIOUS
<1>1. CASE decision = None
  BY <1>1 DEF RouterSound, RouteSound, RouteOrderFree, RouteComplete
<1>2. CASE decision # None
  <2> DEFINE q == decision.q
             ms == decision.list
  <2>0. q \in Requests /\ IsList(ms) /\ decision.chosen = DecideWithFallbacks(q, ms)
    BY <1>2 DEF Decided
  <2> HIDE DEF q, ms
  <2>1. RouteSound
    <3>1. SUFFICES ASSUME decision.chosen # None
                   PROVE  /\ "PRIVATE" \in {q.privacy, q.taskPrivacy} \/ q.local = "LOCAL_ONLY" => decision.chosen.local
                          /\ q.offline => ~decision.chosen.remote
                          /\ q.budget > 0 => decision.chosen.cost <= q.budget
                          /\ q.context <= decision.chosen.context
      BY DEF RouteSound, q
    <3>2. Accepted(q, decision.chosen)
      BY <2>0, <3>1, ChosenFacts
    <3> QED BY <3>2 DEF Accepted
  <2>2. RouteOrderFree
    <3>1. SUFFICES ASSUME decision.chosen # None
                   PROVE  Ref(DecideWithFallbacks(q, Reversed(ms))) = Ref(decision.chosen)
      BY DEF RouteOrderFree, q, ms
    <3> DEFINE ls == Reversed(ms)
    <3>2. /\ IsList(ls)
          /\ \A i \in DOMAIN ms : \E j \in DOMAIN ls : ms[i] = ls[j]
          /\ \A j \in DOMAIN ls : \E i \in DOMAIN ms : ms[i] = ls[j]
      BY <2>0, ReversedIsList
    <3> HIDE DEF ls
    <3>3. Ref(DecideWithFallbacks(q, ls)) = Ref(DecideWithFallbacks(q, ms))
      BY <2>0, <3>1, <3>2, OrderFree
    <3> QED BY <2>0, <3>3 DEF ls
  <2>3. RouteComplete
    <3>1. SUFFICES ASSUME decision.chosen = None, NEW k \in DOMAIN ms, Accepted(q, ms[k])
                   PROVE  /\ q.override \notin {None, Ref(ms[k])}
                          /\ \A f \in DOMAIN q.fallbacks : q.fallbacks[f] # Ref(ms[k])
      BY DEF RouteComplete, q, ms
    <3>2. Decide(q, ms) = None
      BY <2>0, <3>1 DEF DecideWithFallbacks
    <3>3. Useful(q, ms) = {}
      BY <2>0, <3>1, <3>2, ChosenFacts
    <3>4. ASSUME NEW f \in DOMAIN q.fallbacks PROVE q.fallbacks[f] # Ref(ms[k])
      <4>1. Fallbacks(q, ms, f) = {}
        BY <3>3 DEF Useful
      <4>2. Fallbacks(q, ms, f) =
              {i \in DOMAIN ms : Ref(ms[i]) = q.fallbacks[f] /\ Accepted(q, ms[i])}
        BY <2>0, FallbacksFacts
      <4> QED BY <3>1, <4>1, <4>2
    <3> QED BY <2>0, <3>1, <3>2, <3>4, DecideFacts
  <2> QED BY <2>1, <2>2, <2>3 DEF RouterSound
<1> QED BY <1>1, <1>2

\* A runtime that the cache says is offline is not healthy.
LEMMA DecidedCache == Decided => DecisionHonoursCache
<1> SUFFICES ASSUME Decided, decision # None, decision.live, decision.chosen # None,
                    decision.chosen.rt # None, decision.chosen.rt \notin decision.late
             PROVE  health[decision.chosen.rt] # "OFFLINE"
  BY DEF DecisionHonoursCache
<1> DEFINE q == decision.q
           ms == decision.list
<1>1. /\ q \in Requests /\ IsList(ms) /\ decision.chosen = DecideWithFallbacks(q, ms)
      /\ \A k \in DOMAIN ms : ms[k].rt # None =>
            ms[k].rt \in decision.late \/ ms[k].healthy = Healthy(health[ms[k].rt])
  BY DEF Decided
<1> HIDE DEF q, ms
<1>2. PICK k \in DOMAIN ms : decision.chosen = ms[k] /\ Accepted(q, ms[k])
  BY <1>1, ChosenFacts
<1>3. Healthy(health[ms[k].rt])
  BY <1>1, <1>2 DEF Accepted
<1> QED BY <1>2, <1>3, HealthAssumption DEF Healthy

-----------------------------------------------------------------------------
\* The steps, grouped by what they may touch.
BusMove ==
    Publish \/ NoEvent \/ StartForwarder \/ AppendActivity \/ \E c \in Clients : ClientStep(c)

RequestMove(w) ==
    \/ Discover(w) \/ CheckAll(w) \/ DecideModel(w) \/ Generate(w) \/ RequestStep(w)
    \/ \E rt \in Runtimes :
          \/ CheckRuntime(w, rt)
          \/ \E m \in Models :
                \/ \E source \in Models : Install(w, rt, source, m)
                \/ Load(w, rt, m) \/ Unload(w, rt, m)

StreamMove(i) ==
    \/ \E n \in 0..MaxTokens : OpenInference(i, n)
    \/ HangUp(i) \/ ScannerStep(i) \/ RelayStep(i) \/ HandlerStep(i)

LEMMA Moves ==
    ASSUME FabricNext
    PROVE  \/ BusMove /\ Undecided /\ UNCHANGED <<catalogVars, req, inference>>
           \/ \E w \in Workers : RequestMove(w)
           \/ \E w \in Workers, a \in AskedCatalog : DecideCached(w, a)
           \/ \E a \in Asked, ms \in Lists : DecideSupplied(a, ms)
           \/ SaveDecision
           \/ \E rt \in Runtimes : Toggle(rt)
           \/ \E rt \in Runtimes, m \in Models : RemoveModel(rt, m)
           \/ \E i \in Inferences : StreamMove(i)
BY DEF FabricNext, BusStep, BusMove, RequestMove, StreamMove

LEMMA EmitMoves == (Emit => BusMove) /\ \A c \in BOOLEAN : EmitIf(c) => BusMove
BY DEF Emit, EmitIf, BusMove

LEMMA RequestFrame ==
    ASSUME NEW w \in Workers, RequestMove(w)
    PROVE  decision' = None /\ UNCHANGED <<mode, inference>> /\ BusMove
<1> USE DEF Only, Undecided
<1>0. NoEvent => BusMove
  BY DEF BusMove
<1>1. CASE Discover(w) \/ CheckAll(w) \/ DecideModel(w) \/ Generate(w)
  BY <1>0, <1>1, EmitMoves DEF Discover, CheckAll, DecideModel, Generate
<1>2. CASE RequestStep(w)
  <2>1. CASE ListModels(w) \/ RegisterDiscovered(w) \/ PublishDiscovered(w)
    BY <1>0, <2>1, EmitMoves DEF ListModels, RegisterDiscovered, PublishDiscovered
  <2>2. CASE Probe(w) \/ StoreHealth(w) \/ InstallFails(w) \/ Pull(w) \/ ListInstalled(w)
    BY <1>0, <2>2, EmitMoves DEF Probe, StoreHealth, InstallFails, Pull, ListInstalled
  <2>3. CASE LoadModel(w) \/ ReadModel(w) \/ WriteModel(w) \/ GenerateEnd(w) \/ CachedHealth(w)
    BY <1>0, <2>3, EmitMoves DEF LoadModel, ReadModel, WriteModel, GenerateEnd, CachedHealth
  <2> QED BY <1>2, <2>1, <2>2, <2>3 DEF RequestStep
<1>3. ASSUME NEW rt \in Runtimes, CheckRuntime(w, rt)
      PROVE  decision' = None /\ UNCHANGED <<mode, inference>> /\ BusMove
  BY <1>0, <1>3 DEF CheckRuntime
<1>4. ASSUME NEW rt \in Runtimes, NEW m \in Models, NEW source \in Models,
             Install(w, rt, source, m) \/ Load(w, rt, m) \/ Unload(w, rt, m)
      PROVE  decision' = None /\ UNCHANGED <<mode, inference>> /\ BusMove
  BY <1>0, <1>4, EmitMoves DEF Install, Load, Unload
<1> QED BY <1>1, <1>2, <1>3, <1>4 DEF RequestMove

LEMMA StreamFrame ==
    ASSUME NEW i \in Inferences, StreamMove(i)
    PROVE  decision' = None /\ UNCHANGED <<mode, catalogVars, req>> /\ BusMove
<1> USE DEF InferenceStep, Undecided
<1>0. NoEvent => BusMove
  BY DEF BusMove
<1>1. ASSUME NEW n \in 0..MaxTokens, OpenInference(i, n)
      PROVE  decision' = None /\ UNCHANGED <<mode, catalogVars, req>> /\ BusMove
  BY <1>0, <1>1 DEF OpenInference
<1>2. CASE HangUp(i) \/ ScannerStep(i)
  BY <1>0, <1>2 DEF HangUp, ScannerStep, Scan, CutBody, ScanEnd
<1>3. CASE RelayStep(i)
  BY <1>0, <1>3, EmitMoves DEF RelayStep, Relay, PassOn, RelayEnd
<1>4. CASE HandlerStep(i)
  BY <1>0, <1>4 DEF HandlerStep, ReadEvent, ReadEnd
<1> QED BY <1>1, <1>2, <1>3, <1>4 DEF StreamMove

-----------------------------------------------------------------------------
\* The lists decisions are made over.
LEMMA SuppliedIsList ==
    ASSUME NEW ms \in Lists PROVE IsList(ms)
<1>1. ms \in Seq(Profiles)
  BY ListsAssumption
<1>2. Len(ms) \in Nat /\ DOMAIN ms = 1..Len(ms) /\ \A k \in 1..Len(ms) : ms[k] \in Profiles
  BY <1>1
<1> QED BY <1>2, FS_Interval DEF IsList

LEMMA CatalogIsList ==
    ASSUME NEW catalog \in Catalogs, NEW cache
    PROVE  /\ IsList(RoutingProfiles(catalog, cache))
           /\ \A k \in DOMAIN RoutingProfiles(catalog, cache) :
                LET p == RoutingProfiles(catalog, cache)[k] IN
                p.rt # None => p.rt \in Runtimes /\ p.healthy = Healthy(cache[p.rt])
<1> DEFINE n == Len(StaticModels)
           some == {m \in Models : catalog[m] # None}
           rows == {n + m : m \in some}
           D == (1..n) \cup rows
           L == RoutingProfiles(catalog, cache)
<1>0. StaticModels \in Seq(Profiles) /\ \A k \in DOMAIN StaticModels : StaticModels[k].rt = None
  BY StaticAssumption
<1>1. /\ n \in Nat
      /\ \A k \in 1..n : StaticModels[k] \in Profiles /\ StaticModels[k].rt = None
  BY <1>0
<1>2. \A m \in some : m \in Models /\ m \in Nat /\ m > 0 /\ catalog[m] \in Descriptors
  BY ModelsAssumption DEF Catalogs
<1>3. \A m \in some : RoutingProfile(m, catalog[m], cache[catalog[m].rt]) \in Profiles
  <2> TAKE m \in some
  <2>1. catalog[m].rt \in Nat
    BY <1>2, RuntimesAssumption, FS_CardinalityType DEF Descriptors
  <2>2. Healthy(cache[catalog[m].rt]) \in BOOLEAN
    BY DEF Healthy
  <2>3. (IF catalog[m].listed THEN {"coding", "tool_use"} ELSE {}) \in SUBSET Capabilities
    BY DEF Capabilities
  <2>4. {} \in SUBSET STRING
    OBVIOUS
  <2>5. m \in Nat /\ catalog[m].rt \in Nat \cup {None}
    BY <1>2, <2>1
  <2> QED BY <2>1, <2>2, <2>3, <2>4, <2>5 DEF RoutingProfile, Profiles
<1>4. IsFiniteSet(D)
  <2> DEFINE f == [m \in some |-> n + m]
  <2>1. IsFiniteSet(some)
    BY ModelsAssumption, FS_Subset
  <2>2. IsFiniteSet({f[m] : m \in some})
    BY <2>1, ImageFinite
  <2>3. {f[m] : m \in some} = rows
    OBVIOUS
  <2>4. IsFiniteSet(1..n)
    BY <1>1, FS_Interval
  <2> QED BY <2>2, <2>3, <2>4, FS_Union
<1>5. L = [k \in D |-> IF k <= n THEN StaticModels[k]
                       ELSE RoutingProfile(k - n, catalog[k - n], cache[catalog[k - n].rt])]
  BY DEF RoutingProfiles
<1>6. \A k \in D : k \in Int /\ (k \in 1..n \/ (~(k <= n) /\ k - n \in some))
  BY <1>1, <1>2
<1> HIDE DEF D, n, some, L
<1>7. DOMAIN L = D
  BY <1>5
<1>8. ASSUME NEW k \in D
      PROVE  /\ L[k] \in Profiles
             /\ L[k].rt # None => L[k].rt \in Runtimes /\ L[k].healthy = Healthy(cache[L[k].rt])
  <2>1. CASE k \in 1..n
    <3>1. k <= n
      BY <1>1, <2>1
    <3>2. L[k] = StaticModels[k]
      BY <1>5, <1>8, <3>1
    <3> QED BY <1>1, <2>1, <3>2
  <2>2. CASE ~(k <= n) /\ k - n \in some
    <3>1. L[k] = RoutingProfile(k - n, catalog[k - n], cache[catalog[k - n].rt])
      BY <1>5, <1>8, <2>2
    <3>2. L[k].rt = catalog[k - n].rt /\ L[k].healthy = Healthy(cache[catalog[k - n].rt])
      BY <3>1 DEF RoutingProfile
    <3>3. catalog[k - n].rt \in Runtimes
      BY <1>2, <2>2 DEF Descriptors
    <3> QED BY <1>3, <2>2, <3>1, <3>2, <3>3
  <2> QED BY <1>6, <2>1, <2>2
<1>9. IsList(L)
  BY <1>4, <1>6, <1>7, <1>8 DEF IsList
<1> QED BY <1>7, <1>8, <1>9 DEF L

LEMMA SettingsKeepRequest ==
    ASSUME NEW q \in Requests, NEW settings \in Settings
    PROVE  WithSettings(q, settings) \in Requests
<1> DEFINE policy == IF q.policy = None THEN settings.policy ELSE q.policy
           privacy == IF q.privacy = None THEN settings.privacy ELSE q.privacy
           local == IF settings.localOnly THEN "LOCAL_ONLY" ELSE q.local
           budget == IF q.budget = 0 THEN settings.budget ELSE q.budget
<1>1. q.policy \in RoutingPolicies \cup {None} /\ q.privacy \in PrivacyClasses \cup {None}
      /\ q.local \in LocalPolicies /\ q.budget \in Nat
  BY DEF Requests
<1>2. settings.policy \in RoutingPolicies \cup {None} /\ settings.privacy \in PrivacyClasses \cup {None}
      /\ settings.budget \in Nat
  BY DEF Settings
<1>3. policy \in RoutingPolicies \cup {None} /\ privacy \in PrivacyClasses \cup {None}
      /\ local \in LocalPolicies /\ budget \in Nat
  BY <1>1, <1>2 DEF LocalPolicies
<1>4. WithSettings(q, settings) =
        [[[[q EXCEPT !.policy = policy] EXCEPT !.privacy = privacy] EXCEPT !.local = local] EXCEPT !.budget = budget]
  BY DEF WithSettings, Requests
<1> HIDE DEF policy, privacy, local, budget
<1>5. [q EXCEPT !.policy = policy] \in Requests
  BY <1>3 DEF Requests
<1>6. [[q EXCEPT !.policy = policy] EXCEPT !.privacy = privacy] \in Requests
  BY <1>3, <1>5 DEF Requests
<1>7. [[[q EXCEPT !.policy = policy] EXCEPT !.privacy = privacy] EXCEPT !.local = local] \in Requests
  BY <1>3, <1>6 DEF Requests
<1> QED BY <1>3, <1>4, <1>7 DEF Requests

LEMMA AnswerDecided ==
    ASSUME NEW a \in Asked \cup AskedCatalog, NEW ms, IsList(ms), NEW live \in BOOLEAN, NEW late,
           live => \A k \in DOMAIN ms : ms[k].rt # None =>
                      ms[k].rt \in late \/ ms[k].healthy = Healthy(health[ms[k].rt]),
           Answer(a, ms, live, late), health' = health
    PROVE  Decided'
<1> DEFINE q == IF a.settings = None THEN a.q ELSE WithSettings(a.q, a.settings)
           list == IF a.settings = None THEN ms ELSE ApplyProjectPolicy(a.settings, ms)
<1>1. a.q \in Requests /\ (a.settings # None => a.settings \in Settings)
  BY AskedAssumption
<1>2. q \in Requests
  BY <1>1, SettingsKeepRequest
<1>3. DOMAIN list \subseteq DOMAIN ms /\ \A k \in DOMAIN list : list[k] = ms[k]
  BY DEF ApplyProjectPolicy
<1>4. decision' = [q |-> q, list |-> list, live |-> live, late |-> late,
                   chosen |-> DecideWithFallbacks(q, list)]
  BY DEF Answer
<1> HIDE DEF q, list
<1>5. IsFiniteSet(DOMAIN ms) /\ DOMAIN ms \subseteq Int /\ \A k \in DOMAIN ms : ms[k] \in Profiles
  BY DEF IsList
<1>6. IsFiniteSet(DOMAIN list)
  BY <1>3, <1>5, FS_Subset
<1>7. IsList(list)
  BY <1>3, <1>5, <1>6 DEF IsList
<1>8. live => \A k \in DOMAIN list : list[k].rt # None =>
                 list[k].rt \in late \/ list[k].healthy = Healthy(health[list[k].rt])
  BY <1>3
<1>9. decision'.q = q /\ decision'.list = list /\ decision'.live = live /\ decision'.late = late
      /\ decision'.chosen = DecideWithFallbacks(q, list)
  BY <1>4
<1> QED BY <1>2, <1>7, <1>8, <1>9 DEF Decided, Healthy

-----------------------------------------------------------------------------
\* A request's point tells what it holds.
LEMMA Kinds ==
    ASSUME NEW r \in Held
    PROVE  /\ r.op = "install" /\ r.at \in {"pull", "list"} => r \in Pulls
           /\ r.op = "load" /\ r.at = "show" => r \in Uses
           /\ r.at = "read" => r \in Uses
           /\ r.at = "write" => r \in Writes
           /\ r.op = "health" => r \in Probes \cup Replies
           /\ r.at = "store" => r \in Replies
           /\ r.op = "discover" => r \in Discoveries
           /\ r.at = "register" => r \in Discoveries
           /\ r.at = "health" => r \in Consultations
           /\ r.at = "settings" => r \in Copies
BY DEF Held, Idle, Pulls, Uses, Writes, Probes, Replies, Discoveries, Consultations, Copies, Generations

LEMMA NextDecided ==
    ASSUME FabricTypes, Copied, Decided, [FabricNext]_fabricVars PROVE Decided'
<1>0. decision' = None => Decided'
  BY DEF Decided
<1>1. CASE BusMove /\ Undecided
  BY <1>0, <1>1 DEF Undecided
<1>2. ASSUME NEW w \in Workers, RequestMove(w) PROVE Decided'
  BY <1>0, <1>2, RequestFrame
<1>3. ASSUME NEW w \in Workers, NEW a \in AskedCatalog, DecideCached(w, a) PROVE Decided'
  <2> DEFINE late == {rt \in Runtimes : <<w, rt>> \in overtaken}
             ms == RoutingProfiles(req[w].catalog, req[w].cache)
  <2>1. At(w, "decide", "settings") /\ Answer(a, ms, TRUE, late) /\ health' = health
    BY <1>3 DEF DecideCached
  <2>2. req[w] \in Copies
    BY <2>1, Kinds DEF At, FabricTypes
  <2>3. req[w].catalog \in Catalogs
    BY <2>2 DEF Copies
  <2>4. IsList(ms) /\ \A k \in DOMAIN ms :
          ms[k].rt # None => ms[k].rt \in Runtimes /\ ms[k].healthy = Healthy(req[w].cache[ms[k].rt])
    BY <2>3, CatalogIsList
  <2>5. \A rt \in Runtimes : rt \in late \/ req[w].cache[rt] = health[rt]
    BY <2>1 DEF Copied, Deciding
  <2> HIDE DEF late, ms
  <2>6. \A k \in DOMAIN ms : ms[k].rt # None =>
          ms[k].rt \in late \/ ms[k].healthy = Healthy(health[ms[k].rt])
    BY <2>4, <2>5
  <2> QED BY <2>1, <2>4, <2>6, AnswerDecided
<1>4. ASSUME NEW a \in Asked, NEW ms \in Lists, DecideSupplied(a, ms) PROVE Decided'
  <2>1. Answer(a, ms, FALSE, {}) /\ health' = health
    BY <1>4 DEF DecideSupplied, catalogVars
  <2> QED BY <2>1, SuppliedIsList, AnswerDecided
<1>5. CASE SaveDecision
  BY <1>0, <1>5 DEF SaveDecision
<1>6. ASSUME NEW rt \in Runtimes, Toggle(rt) PROVE Decided'
  BY <1>0, <1>6 DEF Toggle, Only, Undecided
<1>7. ASSUME NEW i \in Inferences, StreamMove(i) PROVE Decided'
  BY <1>0, <1>7, StreamFrame
<1>8. CASE UNCHANGED fabricVars
  BY <1>8 DEF fabricVars, catalogVars, Decided, Healthy
<1>9. ASSUME NEW rt \in Runtimes, NEW m \in Models, RemoveModel(rt, m) PROVE Decided'
  BY <1>0, <1>9 DEF RemoveModel, Only, Undecided
<1> QED BY <1>1, <1>2, <1>3, <1>4, <1>5, <1>6, <1>7, <1>8, <1>9, Moves

-----------------------------------------------------------------------------
(***************************************************************************)
(* Requests on the catalogue.  A step of a request leaves it a sound       *)
(* record, never takes a model from a runtime, and registers at most one   *)
(* descriptor, of a model that the runtime has or had if it was listed.    *)
(***************************************************************************)
SoundRequest(r) ==
    /\ r \in Held
    /\ r.op = "health" => r.rt <= r.last
    /\ r.at = "register" => r.rt \in Runtimes /\ r.list \subseteq Had(r.rt)
    /\ r.at = "write" /\ r.model.listed => r.m \in Had(r.model.rt)

CatalogMove ==
    /\ pulled' \in [Runtimes -> SUBSET Models] /\ removed' \in [Runtimes -> SUBSET Models]
    /\ \A rt \in Runtimes : Had(rt) \subseteq pulled'[rt] \cup removed'[rt]
    /\ \/ models' = models
       \/ \E m \in Models : \E d \in Descriptors :
             models' = [models EXCEPT ![m] = d] /\ (d.listed => m \in Had(d.rt))

RequestEffect(w) ==
    /\ CatalogMove
    /\ \E r : /\ SoundRequest(r) /\ (r.at = "store" => Probe(w))
              /\ (r.at = "settings" => CachedHealth(w))
              /\ req' = [req EXCEPT ![w] = r]

LEMMA RuntimesAreNumbers ==
    /\ Cardinality(Runtimes) \in Nat /\ Runtimes = 1..Cardinality(Runtimes)
BY RuntimesAssumption, FS_CardinalityType

LEMMA IdleIsSound == SoundRequest(Idle)
BY DEF SoundRequest, Held, Idle

LEMMA SameCatalog ==
    ASSUME FabricTypes, UNCHANGED <<pulled, removed, models>> PROVE CatalogMove
BY DEF CatalogMove, FabricTypes, Had

\* The arrival of a request.
LEMMA BeginEffect ==
    ASSUME FabricTypes, NEW w \in Workers,
           \/ Discover(w) \/ CheckAll(w) \/ DecideModel(w) \/ Generate(w)
           \/ \E rt \in Runtimes :
                 \/ CheckRuntime(w, rt)
                 \/ \E m \in Models :
                       \/ \E source \in Models : Install(w, rt, source, m)
                       \/ Load(w, rt, m) \/ Unload(w, rt, m)
    PROVE  RequestEffect(w)
<1> USE DEF Begin, Only, catalogVars, RequestEffect
<1>1. CASE Discover(w)
  <2> DEFINE r == Discovery("list", 1, {}, 0)
  <2>1. SoundRequest(r)
    BY DEF SoundRequest, Discovery, Held, Discoveries
  <2>2. req' = [req EXCEPT ![w] = r] /\ CatalogMove
    BY <1>1, SameCatalog DEF Discover
  <2>3. r.at = "list"
    BY DEF Discovery
  <2> HIDE DEF r
  <2> QED BY <2>1, <2>2, <2>3
<1>2. CASE CheckAll(w)
  <2> DEFINE r == [op |-> "health", at |-> "call", rt |-> 1, last |-> Cardinality(Runtimes)]
  <2>0. Runtimes # {} /\ req' = [req EXCEPT ![w] = r] /\ CatalogMove
    BY <1>2, SameCatalog DEF CheckAll
  <2>1. 1 \in Runtimes /\ Cardinality(Runtimes) \in Runtimes /\ 1 <= Cardinality(Runtimes)
    BY <2>0, RuntimesAreNumbers
  <2>2. SoundRequest(r)
    BY <2>1 DEF SoundRequest, Held, Probes
  <2> QED BY <2>0, <2>2
<1>3. CASE DecideModel(w)
  <2> DEFINE r == [op |-> "decide", at |-> "health", catalog |-> models]
  <2>1. SoundRequest(r)
    BY DEF SoundRequest, Held, Consultations, FabricTypes
  <2> QED BY <1>3, <2>1, SameCatalog DEF DecideModel
<1>4. CASE Generate(w)
  <2> DEFINE r == [op |-> "generate", at |-> "call"]
  <2>1. SoundRequest(r)
    BY DEF SoundRequest, Held, Generations
  <2> QED BY <1>4, <2>1, SameCatalog DEF Generate
<1>5. ASSUME NEW rt \in Runtimes, CheckRuntime(w, rt) PROVE RequestEffect(w)
  <2> DEFINE r == [op |-> "health", at |-> "call", rt |-> rt, last |-> rt]
  <2>1. SoundRequest(r)
    BY RuntimesAreNumbers DEF SoundRequest, Held, Probes
  <2> QED BY <1>5, <2>1, SameCatalog DEF CheckRuntime
<1>6. ASSUME NEW rt \in Runtimes, NEW m \in Models, NEW source \in Models, Install(w, rt, source, m)
      PROVE  RequestEffect(w)
  <2> DEFINE r == [op |-> "install", at |-> "pull", rt |-> rt, source |-> source, m |-> m]
  <2>1. SoundRequest(r)
    BY DEF SoundRequest, Held, Pulls
  <2> QED BY <1>6, <2>1, SameCatalog DEF Install
<1>7. ASSUME NEW rt \in Runtimes, NEW m \in Models, Load(w, rt, m) PROVE RequestEffect(w)
  <2> DEFINE r == [op |-> "load", at |-> "show", rt |-> rt, m |-> m]
  <2>1. SoundRequest(r)
    BY DEF SoundRequest, Held, Uses
  <2> QED BY <1>7, <2>1, SameCatalog DEF Load
<1>8. ASSUME NEW rt \in Runtimes, NEW m \in Models, Unload(w, rt, m) PROVE RequestEffect(w)
  <2> DEFINE r == [op |-> "unload", at |-> "read", rt |-> rt, m |-> m]
  <2>1. SoundRequest(r)
    BY DEF SoundRequest, Held, Uses
  <2> QED BY <1>8, <2>1, SameCatalog DEF Unload
<1> QED BY <1>1, <1>2, <1>3, <1>4, <1>5, <1>6, <1>7, <1>8

\* Discovery: what is registered was in the list of the runtime.
LEMMA DiscoveryEffect ==
    ASSUME FabricTypes, Served, NEW w \in Workers,
           ListModels(w) \/ RegisterDiscovered(w) \/ PublishDiscovered(w)
    PROVE  RequestEffect(w)
<1> USE DEF Only, catalogVars, RequestEffect, Discovery, Idle
<1>0. req[w] \in Held
  BY DEF FabricTypes
<1>1. req[w] \in Discoveries
  BY <1>0, Kinds DEF ListModels, RegisterDiscovered, PublishDiscovered, At
<1>2. req[w].rt \in Nat /\ req[w].list \in SUBSET Models /\ req[w].found \in Nat
  BY <1>1 DEF Discoveries
<1>3. CASE ListModels(w)
  <2>0. CatalogMove
    BY <1>3, SameCatalog DEF ListModels
  <2>1. CASE req[w].rt \notin Runtimes
    <3> DEFINE r == Discovery("publish", req[w].rt, {}, req[w].found)
    <3>1. req' = [req EXCEPT ![w] = r]
      BY <1>3, <2>1 DEF ListModels
    <3>2. SoundRequest(r)
      BY <1>2 DEF SoundRequest, Discovery, Held, Discoveries
    <3> QED BY <2>0, <3>1, <3>2
  <2>2. CASE req[w].rt \in Runtimes
    <3>1. PICK list \in {{}} \cup {pulled[rt] : rt \in {rt \in {req[w].rt} : up[rt]}} :
             req' = [req EXCEPT ![w] = Discovery("register", req[w].rt, list, req[w].found)]
      BY <1>3, <2>2 DEF ListModels
    <3> DEFINE r == Discovery("register", req[w].rt, list, req[w].found)
    <3>2. list \subseteq Had(req[w].rt) /\ list \in SUBSET Models
      BY <2>2, <3>1 DEF FabricTypes, Had
    <3>3. SoundRequest(r)
      BY <1>2, <2>2, <3>2 DEF SoundRequest, Discovery, Held, Discoveries
    <3> QED BY <2>0, <3>1, <3>3
  <2> QED BY <2>1, <2>2
<1>4. CASE RegisterDiscovered(w)
  <2>1. req[w].rt \in Runtimes /\ req[w].list \subseteq Had(req[w].rt)
    BY <1>4 DEF RegisterDiscovered, At, Served
  <2>2. pulled' = pulled /\ removed' = removed
    BY <1>4 DEF RegisterDiscovered
  <2>3. CASE req[w].list = {}
    <3> DEFINE r == Discovery("list", req[w].rt + 1, {}, req[w].found)
    <3>1. req' = [req EXCEPT ![w] = r] /\ CatalogMove
      BY <1>4, <2>3, SameCatalog DEF RegisterDiscovered
    <3>2. SoundRequest(r)
      BY <1>2 DEF SoundRequest, Discovery, Held, Discoveries
    <3> QED BY <3>1, <3>2
  <2>4. CASE req[w].list # {}
    <3>1. PICK m \in req[w].list :
            /\ models' = [models EXCEPT ![m] = Descriptor(req[w].rt, "AVAILABLE", TRUE)]
            /\ req' = [req EXCEPT ![w] = Discovery("register", req[w].rt, req[w].list \ {m}, req[w].found + 1)]
      BY <1>4, <2>4 DEF RegisterDiscovered, RegisterModel
    <3> DEFINE r == Discovery("register", req[w].rt, req[w].list \ {m}, req[w].found + 1)
               d == Descriptor(req[w].rt, "AVAILABLE", TRUE)
    <3>2. SoundRequest(r)
      BY <1>2, <2>1 DEF SoundRequest, Discovery, Held, Discoveries
    <3>3. d \in Descriptors /\ d.rt = req[w].rt /\ m \in Had(req[w].rt) /\ m \in Models
      BY <1>2, <2>1 DEF Descriptor, Descriptors
    <3>4. CatalogMove
      <4> HIDE DEF d
      <4>1. \A rt \in Runtimes : Had(rt) \subseteq pulled'[rt] \cup removed'[rt]
        BY <2>2 DEF Had
      <4> QED BY <2>2, <3>1, <3>3, <4>1 DEF CatalogMove, FabricTypes, d
    <3> QED BY <3>1, <3>2, <3>4
  <2> QED BY <2>3, <2>4
<1>5. CASE PublishDiscovered(w)
  <2>0. CatalogMove
    BY <1>5, SameCatalog DEF PublishDiscovered
  <2>1. CASE req[w].found = 0
    BY <1>5, <2>0, <2>1, IdleIsSound DEF PublishDiscovered, Finish
  <2>2. CASE req[w].found # 0
    <3> DEFINE r == Discovery("publish", req[w].rt, {}, req[w].found - 1)
    <3>1. req' = [req EXCEPT ![w] = r]
      BY <1>5, <2>2 DEF PublishDiscovered
    <3>2. SoundRequest(r)
      BY <1>2, <2>2 DEF SoundRequest, Discovery, Held, Discoveries
    <3> QED BY <2>0, <3>1, <3>2
  <2> QED BY <2>1, <2>2
<1> QED BY <1>3, <1>4, <1>5

\* Health checks walk through the runtimes in their order.
LEMMA HealthEffect ==
    ASSUME FabricTypes, NEW w \in Workers, Probe(w) \/ StoreHealth(w)
    PROVE  /\ RequestEffect(w)
           /\ req[w].rt \in Runtimes
           /\ Probe(w) => \E h \in {"ONLINE", "OFFLINE"} :
                /\ answered' = [answered EXCEPT ![req[w].rt] = h] /\ health' = health
                /\ req' = [req EXCEPT ![w] = [op |-> "health", at |-> "store", rt |-> req[w].rt,
                                              last |-> req[w].last, answer |-> h]]
           /\ StoreHealth(w) =>
                /\ req[w].answer \in {"ONLINE", "OFFLINE"} /\ answered' = answered
                /\ health' = [health EXCEPT ![req[w].rt] = req[w].answer]
                /\ \E r \in {Idle} \cup Probes : req' = [req EXCEPT ![w] = r]
<1> USE DEF Only, catalogVars, RequestEffect, Discovery, Idle
<1>0. req[w] \in Held /\ req[w].op = "health"
  BY DEF FabricTypes, Probe, StoreHealth, At
<1>1. req[w] \in Probes \cup Replies
  BY <1>0, Kinds
<1>2. req[w].rt \in Runtimes /\ req[w].last \in Runtimes /\ req[w].rt <= req[w].last
  BY <1>0, <1>1 DEF Probes, Replies, FabricTypes
<1>3. CatalogMove
  BY SameCatalog DEF Probe, StoreHealth
<1>4. CASE Probe(w)
  <2> DEFINE h == IF up[req[w].rt] THEN "ONLINE" ELSE "OFFLINE"
             r == [op |-> "health", at |-> "store", rt |-> req[w].rt, last |-> req[w].last, answer |-> h]
  <2>1. req' = [req EXCEPT ![w] = r] /\ answered' = [answered EXCEPT ![req[w].rt] = h]
        /\ health' = health
    BY <1>4 DEF Probe
  <2>2. h \in {"ONLINE", "OFFLINE"}
    OBVIOUS
  <2> HIDE DEF h
  <2>3. SoundRequest(r)
    BY <1>2, <2>2 DEF SoundRequest, Held, Replies
  <2>4. ~StoreHealth(w)
    BY <1>4 DEF Probe, StoreHealth, At
  <2> QED BY <1>2, <1>3, <2>1, <2>2, <2>3, <2>4
<1>5. CASE StoreHealth(w)
  <2>1. /\ health' = [health EXCEPT ![req[w].rt] = req[w].answer] /\ answered' = answered
        /\ req[w].at = "store"
    BY <1>5 DEF StoreHealth, At
  <2>2. req[w].answer \in {"ONLINE", "OFFLINE"}
    BY <1>0, <2>1, Kinds DEF Replies
  <2>3. ~Probe(w)
    BY <2>1 DEF Probe, At
  <2>4. CASE req[w].rt = req[w].last
    <3>1. req' = [req EXCEPT ![w] = Idle]
      BY <1>5, <2>4 DEF StoreHealth, NextRuntime, Finish
    <3> QED BY <1>2, <1>3, <2>1, <2>2, <2>3, <3>1, IdleIsSound
  <2>5. CASE req[w].rt # req[w].last
    <3> DEFINE r == [op |-> "health", at |-> "call", rt |-> req[w].rt + 1, last |-> req[w].last]
    <3>1. req' = [req EXCEPT ![w] = r]
      BY <1>5, <2>5 DEF StoreHealth, NextRuntime
    <3>2. req[w].rt + 1 \in Runtimes /\ req[w].rt + 1 <= req[w].last
      BY <1>2, <2>5, RuntimesAreNumbers
    <3>3. SoundRequest(r) /\ r \in Probes
      BY <1>2, <3>2 DEF SoundRequest, Held, Probes
    <3> QED BY <1>2, <1>3, <2>1, <2>2, <2>3, <3>1, <3>3
  <2> QED BY <2>4, <2>5
<1> QED BY <1>4, <1>5

\* Installation, loading and unloading: a listed descriptor that is on its way
\* to the registry names a runtime that has the model.
LEMMA ModelEffect ==
    ASSUME FabricTypes, Served, NEW w \in Workers,
           InstallFails(w) \/ Pull(w) \/ ListInstalled(w) \/ LoadModel(w) \/ ReadModel(w)
              \/ WriteModel(w) \/ GenerateEnd(w)
    PROVE  RequestEffect(w)
<1> USE DEF Only, catalogVars, RequestEffect, Finish, Idle
<1>0. req[w] \in Held /\ req \in [Workers -> Held]
  BY DEF FabricTypes
<1>1. CASE InstallFails(w) \/ GenerateEnd(w)
  BY <1>1, IdleIsSound, SameCatalog DEF InstallFails, GenerateEnd
<1>2. CASE Pull(w)
  <2>1. req[w].op = "install" /\ req[w].at = "pull" /\ models' = models /\ removed' = removed
    BY <1>2 DEF Pull, At
  <2>2. req[w] \in Pulls
    BY <1>0, <2>1, Kinds
  <2>3. req[w].rt \in Runtimes /\ req[w].source \in Models
    BY <2>2 DEF Pulls
  <2>4. CatalogMove
    <3>1. CASE UNCHANGED pulled
      BY <2>1, <3>1, SameCatalog
    <3>2. CASE pulled' = [pulled EXCEPT ![req[w].rt] = @ \cup {req[w].source}]
      BY <2>1, <2>3, <3>2 DEF CatalogMove, FabricTypes, Had
    <3> QED BY <1>2, <3>1, <3>2 DEF Pull
  <2> DEFINE r == [req[w] EXCEPT !.at = "list"]
  <2>5. SoundRequest(r) /\ r.at = "list"
    BY <2>2 DEF SoundRequest, Held, Pulls
  <2>6. req' = [req EXCEPT ![w] = r]
    BY <1>2 DEF Pull, Goto
  <2> HIDE DEF r
  <2> QED BY <2>4, <2>5, <2>6
<1>3. CASE ListInstalled(w)
  <2>1. req[w] \in Pulls /\ CatalogMove
    BY <1>0, <1>3, Kinds, SameCatalog DEF ListInstalled, At
  <2>2. req[w].rt \in Runtimes /\ req[w].source \in Models /\ req[w].m \in Models
    BY <2>1 DEF Pulls
  <2> DEFINE found == {req[w].source, req[w].m} \cap pulled[req[w].rt]
  <2>3. PICK m \in IF found = {} THEN {req[w].m} ELSE found :
           req' = [req EXCEPT ![w] = [op |-> "install", at |-> "write", rt |-> req[w].rt, m |-> m,
                                      model |-> Descriptor(req[w].rt, "INSTALLED", found # {})]]
    BY <1>3 DEF ListInstalled
  <2> DEFINE r == [op |-> "install", at |-> "write", rt |-> req[w].rt, m |-> m,
                   model |-> Descriptor(req[w].rt, "INSTALLED", found # {})]
  <2>4. m \in Models /\ (found # {} => m \in Had(req[w].rt))
    BY <2>2, <2>3 DEF Had
  <2> HIDE DEF found
  <2>5. SoundRequest(r)
    BY <2>2, <2>4 DEF SoundRequest, Descriptor, Descriptors, Held, Writes
  <2> QED BY <2>1, <2>3, <2>5
<1>4. CASE LoadModel(w)
  <2>1. req[w] \in Uses /\ CatalogMove
    BY <1>0, <1>4, Kinds, SameCatalog DEF LoadModel, At
  <2> DEFINE r == [req[w] EXCEPT !.at = "read"]
  <2>2. SoundRequest(r) /\ r.at = "read"
    BY <2>1 DEF SoundRequest, Held, Uses
  <2>3. req' = [req EXCEPT ![w] = r] \/ req' = [req EXCEPT ![w] = Idle]
    BY <1>4 DEF LoadModel, Goto
  <2> HIDE DEF r
  <2> QED BY <2>1, <2>2, <2>3, IdleIsSound
<1>5. CASE ReadModel(w)
  <2>1. req[w] \in Uses /\ CatalogMove
    BY <1>0, <1>5, Kinds, SameCatalog DEF ReadModel
  <2>2. /\ req[w].op \in {"load", "unload"} /\ req[w].rt \in Runtimes /\ req[w].m \in Models
        /\ models[req[w].m] \in Descriptors \cup {None}
    BY <2>1 DEF Uses, FabricTypes, Catalogs
  <2>3. CASE models[req[w].m] = None
    BY <1>5, <2>1, <2>3, IdleIsSound DEF ReadModel
  <2>4. CASE models[req[w].m] # None
    <3> DEFINE to == IF req[w].op = "load" THEN "READY" ELSE "INSTALLED"
               d == [models[req[w].m] EXCEPT !.status = to]
               r == [op |-> req[w].op, at |-> "write", m |-> req[w].m, rt |-> req[w].rt, model |-> d]
    <3>1. req' = [req EXCEPT ![w] = r]
      BY <1>5, <2>4 DEF ReadModel
    <3>2. /\ d \in Descriptors /\ d.rt = models[req[w].m].rt /\ d.listed = models[req[w].m].listed
      BY <2>2, <2>4 DEF Descriptors
    <3>3. models[req[w].m].listed => req[w].m \in Had(models[req[w].m].rt)
      BY <2>2, <2>4 DEF Served, CatalogServed, Had
    <3> HIDE DEF d
    <3>4. SoundRequest(r)
      BY <2>2, <3>2, <3>3 DEF SoundRequest, Held, Writes
    <3> QED BY <2>1, <3>1, <3>4
  <2> QED BY <2>3, <2>4
<1>6. CASE WriteModel(w)
  <2>1. /\ req[w].at = "write" /\ req' = [req EXCEPT ![w] = Idle]
        /\ pulled' = pulled /\ removed' = removed
        /\ models' = [models EXCEPT ![req[w].m] = req[w].model]
    BY <1>6 DEF WriteModel, RegisterModel
  <2>2. req[w].m \in Models /\ req[w].model \in Descriptors
    BY <1>0, <2>1, Kinds DEF Writes
  <2>3. CatalogMove
    <3>1. \A rt \in Runtimes : Had(rt) \subseteq pulled'[rt] \cup removed'[rt]
      BY <2>1 DEF Had
    <3> QED BY <2>1, <2>2, <3>1 DEF CatalogMove, Served, FabricTypes
  <2> QED BY <2>1, <2>3, IdleIsSound
<1> QED BY <1>1, <1>2, <1>3, <1>4, <1>5, <1>6

\* A decision copies the health cache.
LEMMA CopyEffect ==
    ASSUME FabricTypes, NEW w \in Workers, CachedHealth(w) PROVE RequestEffect(w)
<1> DEFINE r == [op |-> "decide", at |-> "settings", catalog |-> req[w].catalog, cache |-> health]
<1>1. req[w].at = "health" /\ req' = [req EXCEPT ![w] = r] /\ CatalogMove
  BY SameCatalog DEF CachedHealth, At, Only, catalogVars
<1>2. req[w] \in Consultations
  BY <1>1, Kinds DEF FabricTypes
<1>3. req[w].catalog \in Catalogs /\ health \in Caches
  BY <1>2 DEF Consultations, FabricTypes
<1>4. SoundRequest(r) /\ r.at = "settings"
  BY <1>3 DEF SoundRequest, Held, Copies
<1> HIDE DEF r
<1> QED BY <1>1, <1>4 DEF RequestEffect

LEMMA RequestEffects ==
    ASSUME FabricTypes, Served, NEW w \in Workers, RequestMove(w)
    PROVE  RequestEffect(w)
<1>1. CASE RequestStep(w)
  BY <1>1, DiscoveryEffect, HealthEffect, ModelEffect, CopyEffect DEF RequestStep
<1> QED BY <1>1, BeginEffect DEF RequestMove

\* The health cache is written by health checks only, and a request that holds
\* an answer does nothing but store it.
LEMMA HealthFrame ==
    ASSUME NEW w \in Workers, RequestMove(w)
    PROVE  /\ Probe(w) \/ StoreHealth(w) \/ (UNCHANGED <<health, answered>> /\ ~Storing(w))
           /\ StoreHealth(w) \/ UNCHANGED <<health, overtaken>>
<1> USE DEF Only, catalogVars, Storing, Begin, MayBegin, Idle, At
<1>1. CASE Discover(w) \/ CheckAll(w) \/ DecideModel(w) \/ Generate(w)
  BY <1>1 DEF Discover, CheckAll, DecideModel, Generate
<1>2. CASE RequestStep(w)
  BY <1>2 DEF RequestStep, ListModels, RegisterDiscovered, PublishDiscovered, InstallFails, Pull,
              ListInstalled, LoadModel, ReadModel, WriteModel, GenerateEnd, CachedHealth, Probe
<1>3. ASSUME NEW rt \in Runtimes, CheckRuntime(w, rt)
      PROVE  UNCHANGED <<health, answered, overtaken>> /\ ~Storing(w)
  BY <1>3 DEF CheckRuntime
<1>4. ASSUME NEW rt \in Runtimes, NEW m \in Models, NEW source \in Models,
             Install(w, rt, source, m) \/ Load(w, rt, m) \/ Unload(w, rt, m)
      PROVE  UNCHANGED <<health, answered, overtaken>> /\ ~Storing(w)
  BY <1>4 DEF Install, Load, Unload
<1> QED BY <1>1, <1>2, <1>3, <1>4 DEF RequestMove

\* Where requests do not overlap, a request that moves is the only one.
LEMMA Alone ==
    ASSUME Checked, ~mode.overlap, NEW w \in Workers, RequestMove(w)
    PROVE  \A v \in Workers : v # w => req[v] = Idle
<1>1. req[w] # Idle \/ MayBegin(w)
  <2> USE DEF Begin, Idle, At
  <2>1. CASE Discover(w) \/ CheckAll(w) \/ DecideModel(w) \/ Generate(w)
    BY <2>1 DEF Discover, CheckAll, DecideModel, Generate
  <2>2. CASE RequestStep(w)
    <3>1. CASE ListModels(w) \/ RegisterDiscovered(w) \/ PublishDiscovered(w)
      <4>1. req[w].op = "discover"
        BY <3>1 DEF ListModels, RegisterDiscovered, PublishDiscovered
      <4> QED BY <4>1
    <3>2. CASE Probe(w) \/ StoreHealth(w)
      BY <3>2 DEF Probe, StoreHealth
    <3>3. CASE InstallFails(w) \/ Pull(w) \/ ListInstalled(w)
      BY <3>3 DEF InstallFails, Pull, ListInstalled
    <3>4. CASE LoadModel(w) \/ ReadModel(w) \/ WriteModel(w) \/ GenerateEnd(w) \/ CachedHealth(w)
      BY <3>4 DEF LoadModel, ReadModel, WriteModel, GenerateEnd, CachedHealth
    <3> QED BY <2>2, <3>1, <3>2, <3>3, <3>4 DEF RequestStep
  <2>3. ASSUME NEW rt \in Runtimes, CheckRuntime(w, rt) PROVE MayBegin(w)
    BY <2>3 DEF CheckRuntime
  <2>4. ASSUME NEW rt \in Runtimes, NEW m \in Models, NEW source \in Models,
               Install(w, rt, source, m) \/ Load(w, rt, m) \/ Unload(w, rt, m)
        PROVE  MayBegin(w)
    BY <2>4 DEF Install, Load, Unload
  <2> QED BY <2>1, <2>2, <2>3, <2>4 DEF RequestMove
<1> QED BY <1>1 DEF Checked, InFlight, MayBegin

\* A step that leaves the requests, the catalogue and the health cache alone.
LEMMA CatalogKept ==
    ASSUME FabricTypes, Served, Checked, UNCHANGED <<mode, pulled, removed, models, health, answered, req>>
    PROVE  FabricTypes' /\ Served' /\ Checked'
BY DEF FabricTypes, Served, CatalogServed, Checked, InFlight, Storing, Had

LEMMA RequestTypes ==
    ASSUME FabricTypes, Served, NEW w \in Workers, RequestMove(w)
    PROVE  FabricTypes' /\ Served'
<1>1. CatalogMove
  BY RequestEffects DEF RequestEffect
<1>2. PICK r : SoundRequest(r) /\ req' = [req EXCEPT ![w] = r]
  BY RequestEffects DEF RequestEffect
<1>3. models' \in Catalogs
  BY <1>1 DEF CatalogMove, FabricTypes, Catalogs
<1>4. health' \in Caches /\ answered' \in Caches
  BY HealthEffect, HealthFrame DEF FabricTypes, Caches
<1>5. req' \in [Workers -> Held] /\ \A v \in Workers : req'[v] = IF v = w THEN r ELSE req[v]
  BY <1>2 DEF FabricTypes, SoundRequest
<1>6. FabricTypes'
  <2>1. /\ mode' \in Modes
        /\ pulled' \in [Runtimes -> SUBSET Models] /\ removed' \in [Runtimes -> SUBSET Models]
    BY <1>1, RequestFrame DEF FabricTypes, CatalogMove
  <2>2. \A v \in Workers : req'[v].op = "health" => req'[v].rt <= req'[v].last
    BY <1>2, <1>5 DEF FabricTypes, SoundRequest
  <2> QED BY <1>3, <1>4, <1>5, <2>1, <2>2 DEF FabricTypes
<1>7. CatalogServed'
  <2>1. SUFFICES ASSUME NEW m \in Models, models'[m] # None, models'[m].listed
                 PROVE  m \in (pulled'[models'[m].rt] \cup removed'[models'[m].rt])
    BY DEF CatalogServed, Had
  <2>2. models'[m].rt \in Runtimes
    BY <1>3, <2>1 DEF Catalogs, Descriptors
  <2>3. m \in Had(models'[m].rt)
    <3>1. CASE models' = models
      BY <2>1, <3>1 DEF Served, CatalogServed, Had
    <3>2. ASSUME NEW n \in Models, NEW d \in Descriptors,
                 models' = [models EXCEPT ![n] = d], d.listed => n \in Had(d.rt)
          PROVE  m \in Had(models'[m].rt)
      <4>1. models'[m] = IF m = n THEN d ELSE models[m]
        BY <3>2 DEF FabricTypes, Catalogs
      <4> QED BY <2>1, <3>2, <4>1 DEF Served, CatalogServed, Had
    <3> QED BY <1>1, <3>1, <3>2 DEF CatalogMove
  <2> QED BY <1>1, <2>2, <2>3 DEF CatalogMove
<1>8. ASSUME NEW v \in Workers
      PROVE  /\ req'[v].at = "register" =>
                   req'[v].rt \in Runtimes /\ req'[v].list \subseteq (pulled'[req'[v].rt] \cup removed'[req'[v].rt])
             /\ req'[v].at = "write" /\ req'[v].model.listed => req'[v].m \in (pulled'[req'[v].model.rt] \cup removed'[req'[v].model.rt])
  <2>1. /\ req'[v].at = "register" =>
              req'[v].rt \in Runtimes /\ req'[v].list \subseteq Had(req'[v].rt)
        /\ req'[v].at = "write" /\ req'[v].model.listed => req'[v].m \in Had(req'[v].model.rt)
    BY <1>2, <1>5 DEF SoundRequest, Served
  <2>2. req'[v].at = "write" => req'[v].model.rt \in Runtimes
    BY <1>5, Kinds DEF Writes, Descriptors
  <2> QED BY <1>1, <2>1, <2>2 DEF CatalogMove
<1> QED BY <1>6, <1>7, <1>8 DEF Served, Had

LEMMA RequestChecked ==
    ASSUME FabricTypes, Served, Checked, NEW w \in Workers, RequestMove(w)
    PROVE  Checked'
<1>1. SUFFICES ASSUME ~mode.overlap
               PROVE  /\ \A u, v \in InFlight' : u = v
                      /\ \A v \in Workers : Storing(v)' => req'[v].answer = answered'[req'[v].rt]
                      /\ \A r \in Runtimes :
                            health'[r] = answered'[r] \/ \E v \in Workers : Storing(v)' /\ req'[v].rt = r
  BY RequestFrame DEF Checked
<1>2. PICK r : /\ SoundRequest(r) /\ (r.at = "store" => Probe(w))
               /\ req' = [req EXCEPT ![w] = r]
  BY RequestEffects DEF RequestEffect
<1>3. \A v \in Workers : req'[v] = IF v = w THEN r ELSE req[v]
  BY <1>2 DEF FabricTypes
<1>4. \A v \in Workers : v # w => req[v] = Idle
  BY <1>1, Alone
<1>5. \A u, v \in InFlight' : u = v
  BY <1>3, <1>4 DEF InFlight
<1>6. \A v \in Workers : v # w => ~Storing(v) /\ ~Storing(v)'
  BY <1>3, <1>4 DEF Storing, Idle
<1>7. /\ Storing(w) => req[w].answer = answered[req[w].rt]
      /\ \A x \in Runtimes : health[x] = answered[x] \/ (Storing(w) /\ req[w].rt = x)
  BY <1>1, <1>6 DEF Checked
<1>8. CASE Probe(w)
  <2>1. PICK h \in {"ONLINE", "OFFLINE"} :
           /\ answered' = [answered EXCEPT ![req[w].rt] = h] /\ health' = health
           /\ req' = [req EXCEPT ![w] = [op |-> "health", at |-> "store", rt |-> req[w].rt,
                                         last |-> req[w].last, answer |-> h]]
    BY <1>8, HealthEffect
  <2>2. req[w].rt \in Runtimes /\ ~Storing(w)
    BY <1>8, HealthEffect DEF Probe, At, Storing
  <2>3. /\ req'[w].op = "health" /\ req'[w].at = "store" /\ req'[w].rt = req[w].rt
        /\ req'[w].answer = h
    BY <2>1 DEF FabricTypes
  <2>4. \A x \in Runtimes : answered'[x] = IF x = req[w].rt THEN h ELSE answered[x]
    BY <2>1 DEF FabricTypes, Caches
  <2> QED BY <1>5, <1>6, <1>7, <2>1, <2>2, <2>3, <2>4 DEF Storing
<1>9. CASE StoreHealth(w)
  <2>1. /\ answered' = answered
        /\ health' = [health EXCEPT ![req[w].rt] = req[w].answer]
    BY <1>9, HealthEffect
  <2>2. req[w].rt \in Runtimes /\ Storing(w)
    BY <1>9, HealthEffect DEF StoreHealth, At, Storing
  <2>3. ~Storing(w)'
    BY <1>2, <1>3, <1>9 DEF Probe, StoreHealth, At, Storing
  <2>4. \A x \in Runtimes : health'[x] = IF x = req[w].rt THEN req[w].answer ELSE health[x]
    BY <2>1 DEF FabricTypes, Caches
  <2> QED BY <1>5, <1>6, <1>7, <2>1, <2>2, <2>3, <2>4
<1>10. CASE UNCHANGED <<health, answered>> /\ ~Storing(w) /\ ~Probe(w)
  <2>1. ~Storing(w)'
    BY <1>2, <1>3, <1>10 DEF Storing
  <2> QED BY <1>5, <1>6, <1>7, <1>10, <2>1
<1> QED BY <1>8, <1>9, <1>10, HealthFrame

\* The answer of a decision ends its request.
LEMMA DecideEffect ==
    ASSUME FabricTypes, Served, Checked, NEW w \in Workers, NEW a, DecideCached(w, a)
    PROVE  FabricTypes' /\ Served' /\ Checked'
<1>1. /\ req' = [req EXCEPT ![w] = Idle]
      /\ mode' = mode /\ pulled' = pulled /\ removed' = removed /\ models' = models
      /\ health' = health /\ answered' = answered
      /\ req[w].op = "decide"
  BY DEF DecideCached, Finish, At
<1>2. \A v \in Workers : req'[v] = IF v = w THEN Idle ELSE req[v]
  BY <1>1 DEF FabricTypes
<1>3. req' \in [Workers -> Held]
  BY <1>1 DEF FabricTypes, Held
<1>4. \A v \in Workers : req'[v].op = "health" => req'[v].rt <= req'[v].last
  BY <1>2 DEF FabricTypes, Idle
<1>5. FabricTypes'
  BY <1>1, <1>3, <1>4 DEF FabricTypes
<1>6. Served'
  BY <1>1, <1>2 DEF Served, CatalogServed, Idle, Had
<1>7. \A v \in Workers : (Storing(v)' <=> Storing(v)) /\ (Storing(v) => req'[v] = req[v])
  BY <1>1, <1>2 DEF Storing, Idle
<1>8. InFlight' \subseteq InFlight
  BY <1>2 DEF InFlight
<1>9. Checked'
  BY <1>1, <1>7, <1>8 DEF Checked
<1> QED BY <1>5, <1>6, <1>9

\* A model that is removed at its runtime is one that the runtime had.
LEMMA RemoveEffect ==
    ASSUME FabricTypes, Served, Checked, NEW rt \in Runtimes, NEW m \in Models, RemoveModel(rt, m)
    PROVE  FabricTypes' /\ Served' /\ Checked'
<1>1. /\ pulled' = [pulled EXCEPT ![rt] = @ \ {m}] /\ removed' = [removed EXCEPT ![rt] = @ \cup {m}]
      /\ mode' = mode /\ req' = req /\ models' = models /\ health' = health /\ answered' = answered
  BY DEF RemoveModel, Only, Undecided
<1>2. \A x \in Runtimes : Had(x) \subseteq pulled'[x] \cup removed'[x]
  BY <1>1 DEF FabricTypes, Had
<1>3. FabricTypes'
  BY <1>1 DEF FabricTypes
<1>4. CatalogServed'
  <2>1. \A n \in Models : models[n] # None => models[n].rt \in Runtimes
    BY DEF FabricTypes, Catalogs, Descriptors
  <2>2. \A n \in Models : models[n] # None /\ models[n].listed => n \in Had(models[n].rt)
    BY DEF Served, CatalogServed, Had
  <2>3. \A n \in Models : models'[n] # None /\ models'[n].listed => n \in (pulled'[models'[n].rt] \cup removed'[models'[n].rt])
    BY <1>1, <1>2, <2>1, <2>2
  <2> QED BY <2>3 DEF CatalogServed, Had
<1>5. ASSUME NEW v \in Workers
      PROVE  /\ req'[v].at = "register" =>
                   req'[v].rt \in Runtimes /\ req'[v].list \subseteq (pulled'[req'[v].rt] \cup removed'[req'[v].rt])
             /\ req'[v].at = "write" /\ req'[v].model.listed => req'[v].m \in (pulled'[req'[v].model.rt] \cup removed'[req'[v].model.rt])
  <2>1. req[v].at = "write" => req[v].model.rt \in Runtimes
    BY Kinds DEF FabricTypes, Writes, Descriptors
  <2> QED BY <1>1, <1>2, <2>1 DEF Served
<1>6. Served'
  BY <1>4, <1>5 DEF Served, Had
<1>7. Checked'
  BY <1>1 DEF Checked, InFlight, Storing
<1> QED BY <1>3, <1>6, <1>7

LEMMA NextCatalog ==
    ASSUME FabricTypes, Served, Checked, [FabricNext]_fabricVars
    PROVE  FabricTypes' /\ Served' /\ Checked'
<1>1. CASE BusMove /\ Undecided /\ UNCHANGED <<catalogVars, req, inference>>
  BY <1>1, CatalogKept DEF Undecided, catalogVars
<1>2. ASSUME NEW w \in Workers, RequestMove(w) PROVE FabricTypes' /\ Served' /\ Checked'
  BY <1>2, RequestTypes, RequestChecked
<1>3. ASSUME NEW w \in Workers, NEW a \in AskedCatalog, DecideCached(w, a)
      PROVE  FabricTypes' /\ Served' /\ Checked'
  BY <1>3, DecideEffect
<1>4. ASSUME NEW a \in Asked, NEW ms \in Lists, DecideSupplied(a, ms)
      PROVE  FabricTypes' /\ Served' /\ Checked'
  BY <1>4, CatalogKept DEF DecideSupplied, catalogVars
<1>5. CASE SaveDecision
  BY <1>5, CatalogKept DEF SaveDecision, catalogVars
<1>6. ASSUME NEW rt \in Runtimes, Toggle(rt) PROVE FabricTypes' /\ Served' /\ Checked'
  BY <1>6, CatalogKept DEF Toggle, Only, Undecided
<1>7. ASSUME NEW i \in Inferences, StreamMove(i) PROVE FabricTypes' /\ Served' /\ Checked'
  BY <1>7, StreamFrame, CatalogKept DEF catalogVars
<1>8. CASE UNCHANGED fabricVars
  BY <1>8, CatalogKept DEF fabricVars, catalogVars
<1>9. ASSUME NEW rt \in Runtimes, NEW m \in Models, RemoveModel(rt, m)
      PROVE  FabricTypes' /\ Served' /\ Checked'
  BY <1>9, RemoveEffect
<1> QED BY <1>1, <1>2, <1>3, <1>4, <1>5, <1>6, <1>7, <1>8, <1>9, Moves

\* A store marks every copy of the cache that is about.
LEMMA RequestCopied ==
    ASSUME FabricTypes, Served, Copied, NEW w \in Workers, RequestMove(w) PROVE Copied'
<1>1. PICK r : SoundRequest(r) /\ (r.at = "settings" => CachedHealth(w)) /\ req' = [req EXCEPT ![w] = r]
  BY RequestEffects DEF RequestEffect
<1>2. \A v \in Workers : req'[v] = IF v = w THEN r ELSE req[v]
  BY <1>1 DEF FabricTypes
<1>3. SUFFICES ASSUME NEW v \in Workers, req'[v].op = "decide", req'[v].at = "settings", NEW rt \in Runtimes
               PROVE  <<v, rt>> \in overtaken' \/ req'[v].cache[rt] = health'[rt]
  BY DEF Copied, Deciding, At
<1>4. CASE v = w
  <2>1. CachedHealth(w)
    BY <1>1, <1>2, <1>3, <1>4
  <2>2. health' = health /\ req' = [req EXCEPT ![w] = [op |-> "decide", at |-> "settings",
                                         catalog |-> req[w].catalog, cache |-> health]]
    BY <2>1 DEF CachedHealth, Only, catalogVars
  <2>3. req'[w].cache = health
    BY <2>2 DEF FabricTypes
  <2> QED BY <1>4, <2>2, <2>3
<1>5. CASE v # w
  <2>1. req'[v] = req[v] /\ v \in Deciding
    BY <1>2, <1>3, <1>5 DEF Deciding, At
  <2>2. <<v, rt>> \in overtaken \/ req[v].cache[rt] = health[rt]
    BY <2>1 DEF Copied
  <2>3. CASE health' = health /\ overtaken' = overtaken
    BY <2>1, <2>2, <2>3
  <2>4. CASE StoreHealth(w)
    <3>1. /\ health' = [health EXCEPT ![req[w].rt] = req[w].answer]
          /\ overtaken' = overtaken \cup (Deciding \X {req[w].rt})
      BY <2>4 DEF StoreHealth
    <3>2. CASE rt = req[w].rt
      BY <2>1, <3>1, <3>2
    <3>3. CASE rt # req[w].rt
      BY <2>1, <2>2, <3>1, <3>3 DEF FabricTypes, Caches
    <3> QED BY <3>2, <3>3
  <2> QED BY <2>3, <2>4, HealthFrame
<1> QED BY <1>4, <1>5

LEMMA CopiedKept ==
    ASSUME Copied, UNCHANGED <<health, overtaken, req>> PROVE Copied'
BY DEF Copied, Deciding, At

LEMMA NextCopied ==
    ASSUME FabricTypes, Served, Copied, [FabricNext]_fabricVars PROVE Copied'
<1>1. CASE UNCHANGED <<catalogVars, req, inference>>
  BY <1>1, CopiedKept DEF catalogVars
<1>2. ASSUME NEW w \in Workers, RequestMove(w) PROVE Copied'
  BY <1>2, RequestCopied
<1>3. ASSUME NEW w \in Workers, NEW a \in AskedCatalog, DecideCached(w, a) PROVE Copied'
  <2>1. /\ req' = [req EXCEPT ![w] = Idle] /\ health' = health
        /\ overtaken' = {p \in overtaken : p[1] # w}
    BY <1>3 DEF DecideCached, Finish
  <2>2. \A v \in Workers : req'[v] = IF v = w THEN Idle ELSE req[v]
    BY <2>1 DEF FabricTypes
  <2>3. ASSUME NEW v \in Deciding' PROVE v \in Deciding /\ v # w /\ req'[v] = req[v]
    BY <2>2 DEF Deciding, At, Idle
  <2>4. ASSUME NEW v \in Deciding', NEW rt \in Runtimes, <<v, rt>> \in overtaken
        PROVE  <<v, rt>> \in overtaken'
    BY <2>1, <2>3, <2>4
  <2>5. ASSUME NEW v \in Deciding', NEW rt \in Runtimes
        PROVE  <<v, rt>> \in overtaken' \/ req'[v].cache[rt] = health'[rt]
    <3>1. v \in Deciding /\ req'[v] = req[v]
      BY <2>3
    <3>2. <<v, rt>> \in overtaken \/ req[v].cache[rt] = health[rt]
      BY <3>1 DEF Copied
    <3> QED BY <2>1, <2>4, <3>1, <3>2
  <2> QED BY <2>5 DEF Copied
<1>4. ASSUME NEW a \in Asked, NEW ms \in Lists, DecideSupplied(a, ms) PROVE Copied'
  BY <1>4, CopiedKept DEF DecideSupplied, catalogVars
<1>5. CASE SaveDecision
  BY <1>5, CopiedKept DEF SaveDecision, catalogVars
<1>6. ASSUME NEW rt \in Runtimes, Toggle(rt) PROVE Copied'
  BY <1>6, CopiedKept DEF Toggle, Only
<1>7. ASSUME NEW i \in Inferences, StreamMove(i) PROVE Copied'
  BY <1>7, StreamFrame, CopiedKept DEF catalogVars
<1>8. CASE UNCHANGED fabricVars
  BY <1>8, CopiedKept DEF fabricVars, catalogVars
<1>9. ASSUME NEW rt \in Runtimes, NEW m \in Models, RemoveModel(rt, m) PROVE Copied'
  BY <1>9, CopiedKept DEF RemoveModel, Only
<1> QED BY <1>1, <1>2, <1>3, <1>4, <1>5, <1>6, <1>7, <1>8, <1>9, Moves

\* At rest, one request at a time, every answer has been stored.
LEMMA CheckedIsLatest == FabricTypes /\ Checked => HealthIsLatest
<1> SUFFICES ASSUME FabricTypes, Checked, ~mode.overlap, InFlight = {} PROVE health = answered
  BY DEF HealthIsLatest
<1>1. \A w \in Workers : ~Storing(w)
  BY DEF InFlight, Storing, Idle
<1>2. \A r \in Runtimes : health[r] = answered[r]
  BY <1>1 DEF Checked
<1> QED BY <1>2 DEF FabricTypes, Caches

-----------------------------------------------------------------------------
(***************************************************************************)
(* The event bus.                                                          *)
(***************************************************************************)
LEMMA AppendIncreasing ==
    ASSUME NEW q \in Seq(Nat), NEW e \in Nat, Increasing(q), \A i \in DOMAIN q : q[i] < e
    PROVE  Increasing(Append(q, e))
BY DEF Increasing

\* Moving the head of one channel to the end of another keeps what both hold.
LEMMA HandOver ==
    ASSUME NEW p \in Seq(Nat), NEW q \in Seq(Nat), q # <<>>
    PROVE  Append(p, Head(q)) \o Tail(q) = p \o q
<1>1. Append(p, Head(q)) \in Seq(Nat) /\ Tail(q) \in Seq(Nat) /\ p \o q \in Seq(Nat)
  OBVIOUS
<1>2. Append(p, Head(q)) \o Tail(q) \in Seq(Nat)
  BY <1>1
<1>3. Len(Append(p, Head(q)) \o Tail(q)) = Len(p \o q)
  BY <1>1
<1>4. ASSUME NEW i \in 1..Len(p \o q)
      PROVE  (Append(p, Head(q)) \o Tail(q))[i] = (p \o q)[i]
  BY <1>1
<1> QED BY <1>1, <1>2, <1>3, <1>4, SeqEqual

LEMMA AppendConcat ==
    ASSUME NEW p \in Seq(Nat), NEW q \in Seq(Nat), NEW e \in Nat
    PROVE  p \o Append(q, e) = Append(p \o q, e)
<1>1. p \o Append(q, e) \in Seq(Nat) /\ Append(p \o q, e) \in Seq(Nat)
  OBVIOUS
<1>2. Len(p \o Append(q, e)) = Len(Append(p \o q, e))
  OBVIOUS
<1>3. \A i \in 1..Len(p \o Append(q, e)) : (p \o Append(q, e))[i] = Append(p \o q, e)[i]
  OBVIOUS
<1> QED BY <1>1, <1>2, <1>3, SeqEqual

\* Passing over the head of the second channel leaves the rest in order.
LEMMA PassOver ==
    ASSUME NEW p \in Seq(Nat), NEW q \in Seq(Nat), q # <<>>, Increasing(p \o q)
    PROVE  /\ p \o Tail(q) \in Seq(Nat) /\ Increasing(p \o Tail(q))
           /\ \A j \in DOMAIN (p \o Tail(q)) : \E i \in DOMAIN (p \o q) : (p \o Tail(q))[j] = (p \o q)[i]
           /\ \A i \in DOMAIN (p \o q) :
                (p \o q)[i] = Head(q) \/ \E j \in DOMAIN (p \o Tail(q)) : (p \o Tail(q))[j] = (p \o q)[i]
<1> DEFINE s == p \o q
           t == p \o Tail(q)
           n == Len(p)
           k == Len(q)
           f(j) == IF j <= n THEN j ELSE j + 1
<1>1. /\ Tail(q) \in Seq(Nat) /\ Len(Tail(q)) = k - 1 /\ n \in Nat /\ k \in Nat /\ k >= 1
      /\ \A j \in 1..(k - 1) : Tail(q)[j] = q[j + 1]
  OBVIOUS
<1>2. s \in Seq(Nat) /\ t \in Seq(Nat) /\ Len(s) = n + k /\ Len(t) = n + k - 1
  BY <1>1
<1>3. DOMAIN s = 1..(n + k) /\ DOMAIN t = 1..(n + k - 1)
  BY <1>2
<1>4. \A j \in 1..(n + k - 1) : t[j] = s[f(j)] /\ f(j) \in 1..(n + k)
  BY <1>1, <1>2
<1>5. s[n + 1] = Head(q)
  BY <1>1, <1>2
<1>6. \A i \in 1..(n + k) : i = n + 1 \/ \E j \in 1..(n + k - 1) : f(j) = i
  <2> TAKE i \in 1..(n + k)
  <2>1. CASE i <= n
    BY <1>1, <2>1
  <2>2. CASE i > n + 1
    <3>1. i - 1 \in 1..(n + k - 1) /\ f(i - 1) = i
      BY <1>1, <2>2
    <3> QED BY <3>1
  <2> QED BY <1>1, <2>1, <2>2
<1>7. \A j, l \in 1..(n + k - 1) : j < l => f(j) < f(l)
  BY <1>1
<1>8. Increasing(s)
  OBVIOUS
<1> HIDE DEF s, t, n, k, f
<1>9. Increasing(t)
  BY <1>3, <1>4, <1>7, <1>8 DEF Increasing
<1>10. \A j \in DOMAIN t : \E i \in DOMAIN s : t[j] = s[i]
  BY <1>3, <1>4
<1>11. \A i \in DOMAIN s : s[i] = Head(q) \/ \E j \in DOMAIN t : t[j] = s[i]
  BY <1>3, <1>4, <1>5, <1>6
<1> QED BY <1>2, <1>9, <1>10, <1>11 DEF s, t

Numbers(seen) == {seen[i] : i \in DOMAIN seen}

\* seen is a record of the events after from and up to to, but for the gone.
Record(seen, from, to, on, gone) ==
    /\ Increasing(seen) /\ \A i \in DOMAIN seen : seen[i] > from /\ seen[i] <= to
    /\ on => \A e \in (from + 1)..to : e \in Numbers(seen) \/ e \in gone

LEMMA Recorded ==
    ASSUME BusInv
    PROVE  /\ Record(Seen, since, published, Forwarder \in subscribers, anonymous \cup missed)
           /\ \A i \in DOMAIN activity : activity[i] \notin anonymous
BY DEF BusInv, Record, ActivityFaithful, Seen, Numbers

LEMMA Faithful ==
    ASSUME Record(Seen', since', published', Forwarder \in subscribers', (anonymous \cup missed)'),
           \A i \in DOMAIN activity' : activity'[i] \notin anonymous'
    PROVE  ActivityFaithful' /\ \A i \in DOMAIN Seen' : Seen'[i] <= published'
BY DEF ActivityFaithful, Record, Numbers, Seen, Increasing

\* An event that is taken is recorded ...
LEMMA RecordTaken ==
    ASSUME NEW seen \in Seq(Nat), NEW from \in Nat, NEW to \in Nat, from <= to,
           NEW gone, NEW more, gone \subseteq more, Record(seen, from, to, TRUE, gone)
    PROVE  Record(Append(seen, to + 1), from, to + 1, TRUE, more)
<1> DEFINE new == Append(seen, to + 1)
<1>1. new \in Seq(Nat) /\ Len(new) = Len(seen) + 1 /\ DOMAIN new = 1..(Len(seen) + 1)
      /\ DOMAIN seen = 1..Len(seen) /\ Len(seen) \in Nat
  OBVIOUS
<1>2. \A i \in DOMAIN seen : new[i] = seen[i] /\ seen[i] \in Nat /\ seen[i] > from /\ seen[i] <= to
  BY DEF Record
<1>3. new[Len(seen) + 1] = to + 1
  OBVIOUS
<1>4. Increasing(new)
  BY <1>2, AppendIncreasing DEF Record
<1>5. \A i \in DOMAIN new : new[i] > from /\ new[i] <= to + 1
  <2> TAKE i \in DOMAIN new
  <2>1. i \in DOMAIN seen \/ i = Len(seen) + 1
    BY <1>1
  <2> HIDE DEF new
  <2> QED BY <1>2, <1>3, <2>1
<1>6. Numbers(new) = Numbers(seen) \cup {to + 1}
  <2>1. DOMAIN new = DOMAIN seen \cup {Len(seen) + 1}
    BY <1>1
  <2> HIDE DEF new
  <2> QED BY <1>2, <1>3, <2>1 DEF Numbers
<1>7. ASSUME NEW e \in (from + 1)..(to + 1) PROVE e \in Numbers(new) \/ e \in more
  <2>1. CASE e = to + 1
    BY <1>6, <2>1
  <2>2. CASE e \in (from + 1)..to
    BY <1>6, <2>2 DEF Record
  <2> QED BY <1>7, <2>1, <2>2
<1> QED BY <1>4, <1>5, <1>7 DEF Record

\* ... and one that is missed is among the gone.
LEMMA RecordMissed ==
    ASSUME NEW seen \in Seq(Nat), NEW from \in Nat, NEW to \in Nat,
           NEW gone, NEW more, gone \subseteq more, to + 1 \in more, Record(seen, from, to, TRUE, gone)
    PROVE  Record(seen, from, to + 1, TRUE, more)
<1>1. \A i \in DOMAIN seen : seen[i] \in Nat /\ seen[i] > from /\ seen[i] <= to
  BY DEF Record
<1>2. ASSUME NEW e \in (from + 1)..(to + 1) PROVE e \in Numbers(seen) \/ e \in more
  <2>1. CASE e \in (from + 1)..to
    BY <2>1 DEF Record
  <2>2. CASE e = to + 1
    BY <2>2
  <2> QED BY <1>2, <2>1, <2>2
<1>3. \A i \in DOMAIN seen : seen[i] > from /\ seen[i] <= to + 1
  BY <1>1
<1> QED BY <1>2, <1>3 DEF Record

LEMMA EmptyRecord ==
    ASSUME NEW from \in Nat, NEW to \in Nat, NEW on \in BOOLEAN, on => to <= from, NEW gone
    PROVE  Record(<<>>, from, to, on, gone)
<1>1. DOMAIN <<>> = {}
  OBVIOUS
<1>2. on => (from + 1)..to = {}
  OBVIOUS
<1> QED BY <1>1, <1>2 DEF Record, Increasing

LEMMA BusKept ==
    ASSUME BusInv, UNCHANGED busVars PROVE BusInv'
<1> USE DEF busVars
<1>1. BusTypes' /\ BusTypeOK'
  BY DEF BusInv, BusTypes, BusTypeOK
<1>2. ActivityFaithful'
  BY DEF BusInv, ActivityFaithful, Increasing
<1> QED BY <1>1, <1>2 DEF BusInv, Seen

LEMMA PublishBus ==
    ASSUME BusInv, NEW named \in BOOLEAN, PublishEvent(named) PROVE BusInv'
<1>0. /\ flushes' = flushes /\ subscribers' = subscribers /\ since' = since /\ activity' = activity
      /\ stream' = stream
  BY DEF PublishEvent
<1> DEFINE gone == anonymous \cup missed
<1>1. /\ published \in Nat /\ since \in Nat /\ activity \in Seq(Nat) /\ BusBuffer \in Nat
      /\ buffer \in [Readers -> Seq(Nat)] /\ Forwarder \in Readers /\ since <= published
      /\ MaxEvents \in Nat
      /\ anonymous \subseteq 1..published /\ missed \subseteq 1..published
  BY BusAssumption DEF BusInv, BusTypes, BusTypeOK, Readers
<1>2. published' = published + 1 /\ published' \in 0..MaxEvents
  BY <1>1 DEF PublishEvent
<1>3. \A r \in Readers :
        /\ buffer[r] \in Seq(Nat) /\ Len(buffer[r]) <= BusBuffer
        /\ buffer'[r] = IF r \in subscribers /\ Len(buffer[r]) < BusBuffer
                        THEN Append(buffer[r], published + 1) ELSE buffer[r]
  BY DEF PublishEvent, Offer, BusInv, BusTypes, BusTypeOK
<1>4. \A r \in Readers : buffer'[r] \in Seq(Nat) /\ Len(buffer'[r]) <= BusBuffer
  <2> TAKE r \in Readers
  <2>1. CASE r \in subscribers /\ Len(buffer[r]) < BusBuffer
    <3>1. buffer'[r] = Append(buffer[r], published + 1)
      BY <1>3, <2>1
    <3>2. /\ Append(buffer[r], published + 1) \in Seq(Nat)
          /\ Len(Append(buffer[r], published + 1)) = Len(buffer[r]) + 1
      BY <1>1, <1>3
    <3>3. Len(buffer[r]) \in Nat
      BY <1>3
    <3> QED BY <1>1, <2>1, <3>1, <3>2, <3>3
  <2>2. CASE ~(r \in subscribers /\ Len(buffer[r]) < BusBuffer)
    BY <1>3, <2>2
  <2> QED BY <2>1, <2>2
<1>5. buffer' \in [Readers -> Seq(Nat)]
  BY <1>4 DEF PublishEvent
<1>6. /\ anonymous' \subseteq 1..published' /\ missed' \subseteq 1..published'
      /\ anonymous' \subseteq anonymous \cup {published + 1}
      /\ gone \subseteq gone'
      /\ Forwarder \in subscribers /\ ~(Len(buffer[Forwarder]) < BusBuffer) => published + 1 \in gone'
  <2>1. published + 1 \in 1..published' /\ 1..published \subseteq 1..published'
    BY <1>1, <1>2
  <2>2. Len(buffer[Forwarder]) \in Nat
    BY <1>1
  <2>3. /\ anonymous' = IF named THEN anonymous ELSE anonymous \cup {published + 1}
        /\ missed' = IF Forwarder \in subscribers /\ Len(buffer[Forwarder]) >= BusBuffer
                     THEN missed \cup {published + 1} ELSE missed
    BY DEF PublishEvent
  <2>4. ~(Len(buffer[Forwarder]) < BusBuffer) => Len(buffer[Forwarder]) >= BusBuffer
    BY <1>1, <2>2
  <2> QED BY <1>1, <2>1, <2>3, <2>4
<1>7. BusTypes' /\ BusTypeOK'
  BY <1>0, <1>1, <1>2, <1>4, <1>5, <1>6 DEF BusInv, BusTypes, BusTypeOK
<1>8. Seen \in Seq(Nat)
  BY <1>1 DEF Seen
<1>9. /\ Record(Seen, since, published, Forwarder \in subscribers, gone)
      /\ \A i \in DOMAIN activity : activity[i] \notin anonymous
  BY Recorded
<1> HIDE DEF gone
<1>10. /\ Record(Seen', since', published', Forwarder \in subscribers', gone')
       /\ Forwarder \notin subscribers => Seen' = <<>>
  <2>1. CASE Forwarder \notin subscribers
    <3>1. Seen = <<>> /\ Seen' = Seen
      BY <1>0, <1>1, <1>3, <2>1 DEF BusInv, Seen
    <3>2. published + 1 \in Nat
      BY <1>1
    <3>3. Record(<<>>, since, published + 1, FALSE, gone')
      BY <1>1, <3>2, EmptyRecord
    <3> QED BY <1>0, <1>2, <2>1, <3>1, <3>3 DEF Record
  <2>2. CASE Forwarder \in subscribers /\ Len(buffer[Forwarder]) < BusBuffer
    <3>1. Seen' = Append(Seen, published + 1)
      <4>1. buffer'[Forwarder] = Append(buffer[Forwarder], published + 1) /\ activity' = activity
        BY <1>0, <1>1, <1>3, <2>2
      <4>2. buffer[Forwarder] \in Seq(Nat) /\ published + 1 \in Nat
        BY <1>1
      <4> QED BY <1>1, <4>1, <4>2, AppendConcat DEF Seen
    <3>2. Record(Append(Seen, published + 1), since, published + 1, TRUE, gone')
      BY <1>1, <1>6, <1>8, <1>9, <2>2, RecordTaken
    <3> QED BY <1>0, <1>2, <2>2, <3>1, <3>2
  <2>3. CASE Forwarder \in subscribers /\ ~(Len(buffer[Forwarder]) < BusBuffer)
    <3>1. Seen' = Seen
      BY <1>0, <1>1, <1>3, <2>3 DEF Seen
    <3>2. Record(Seen, since, published + 1, TRUE, gone')
      BY <1>1, <1>6, <1>8, <1>9, <2>3, RecordMissed
    <3> QED BY <1>0, <1>2, <2>3, <3>1, <3>2
  <2> QED BY <2>1, <2>2, <2>3
<1>11. since' <= published'
  BY <1>0, <1>1, <1>2
<1>12. \A i \in DOMAIN activity' : activity'[i] \notin anonymous'
  <2> SUFFICES ASSUME NEW i \in DOMAIN activity PROVE activity[i] \notin anonymous'
    BY <1>0
  <2>1. activity[i] \in Nat /\ i \in DOMAIN Seen /\ Seen[i] = activity[i]
    BY <1>1 DEF Seen
  <2>2. activity[i] <= published
    BY <2>1 DEF BusInv
  <2> QED BY <1>1, <1>6, <1>9, <2>1, <2>2
<1>13. ActivityFaithful' /\ \A i \in DOMAIN Seen' : Seen'[i] <= published'
  BY <1>10, <1>12, Faithful DEF gone
<1> QED BY <1>0, <1>7, <1>10, <1>11, <1>13 DEF BusInv

LEMMA SameRecord ==
    ASSUME BusInv, Seen' = Seen, since' = since, published' = published,
           anonymous' = anonymous, missed' = missed,
           \A i \in DOMAIN activity' : activity'[i] \notin anonymous',
           Forwarder \in subscribers' <=> Forwarder \in subscribers
    PROVE  ActivityFaithful'
<1>1. Record(Seen, since, published, Forwarder \in subscribers, anonymous \cup missed)
  BY Recorded
<1>2. Record(Seen', since', published', Forwarder \in subscribers', (anonymous \cup missed)')
  BY <1>1 DEF Record
<1> QED BY <1>2, Faithful

\* The clients' handlers touch neither the log nor the forwarder's channel.
LEMMA ClientBus ==
    ASSUME BusInv, NEW c \in Clients, ClientStep(c) PROVE BusInv'
<1> USE DEF BusInv, BusTypes, BusTypeOK
<1>0. c # Forwarder /\ c \in Readers /\ Forwarder \in Readers
  BY ForwarderAssumption DEF Readers
<1>1. /\ activity' = activity /\ published' = published /\ since' = since
      /\ buffer'[Forwarder] = buffer[Forwarder] /\ anonymous' = anonymous /\ missed' = missed
      /\ (Forwarder \in subscribers' <=> Forwarder \in subscribers)
  BY <1>0 DEF ClientStep, HandleStep, OpenStream, Subscribe, Leave, Unsubscribe, WriteEvent, EndStream
<1>2. BusTypes' /\ BusTypeOK'
  <2>1. CASE OpenStream(c)
    BY <1>0, <2>1 DEF OpenStream, Subscribe, Phases
  <2>2. CASE Leave(c)
    BY <2>2 DEF Leave, Phases
  <2>3. CASE Unsubscribe(c)
    BY <2>3 DEF Unsubscribe, Phases
  <2>4. CASE WriteEvent(c)
    <3>1. /\ buffer[c] \in Seq(Nat) /\ buffer[c] # <<>> /\ Len(buffer[c]) <= BusBuffer
          /\ buffer' = [buffer EXCEPT ![c] = Tail(@)]
          /\ UNCHANGED <<flushes, published, subscribers, since, activity, stream, anonymous, missed>>
      BY <1>0, <2>4 DEF WriteEvent
    <3>2. Tail(buffer[c]) \in Seq(Nat) /\ Len(Tail(buffer[c])) <= BusBuffer
      BY <3>1, BusAssumption
    <3> QED BY <1>0, <3>1, <3>2
  <2>5. CASE EndStream(c)
    BY <2>5 DEF EndStream, Phases
  <2> QED BY <2>1, <2>2, <2>3, <2>4, <2>5 DEF ClientStep, HandleStep
<1>3. ActivityFaithful'
  BY <1>1, Recorded, SameRecord DEF Seen
<1> QED BY <1>1, <1>2, <1>3 DEF Seen

LEMMA ForwarderBus ==
    ASSUME BusInv, StartForwarder \/ AppendActivity PROVE BusInv'
<1>0. /\ published \in Nat /\ since \in Nat /\ activity \in Seq(Nat) /\ BusBuffer \in Nat
      /\ buffer \in [Readers -> Seq(Nat)] /\ Forwarder \in Readers /\ published <= MaxEvents
      /\ MaxEvents \in Nat /\ Forwarder \notin Clients
  BY BusAssumption, ForwarderAssumption DEF BusInv, BusTypes, BusTypeOK, Readers
<1>1. CASE StartForwarder
  <2>1. /\ Forwarder \notin subscribers /\ subscribers' = subscribers \cup {Forwarder}
        /\ since' = published
        /\ UNCHANGED <<flushes, published, buffer, activity, stream, anonymous, missed>>
    BY <1>1 DEF StartForwarder, Subscribe
  <2>2. Seen = <<>> /\ Seen' = <<>>
    BY <2>1 DEF BusInv, Seen
  <2>3. BusTypes' /\ BusTypeOK'
    BY <1>0, <2>1 DEF BusInv, BusTypes, BusTypeOK
  <2>4. Record(<<>>, published, published, TRUE, anonymous \cup missed)
    <3>1. published <= published
      BY <1>0
    <3> QED BY <1>0, <3>1, EmptyRecord
  <2>5. ActivityFaithful' /\ \A i \in DOMAIN Seen' : Seen'[i] <= published'
    <3>1. \A i \in DOMAIN activity' : activity'[i] \notin anonymous'
      BY <2>1 DEF BusInv, ActivityFaithful
    <3> QED BY <2>1, <2>2, <2>4, <3>1 DEF ActivityFaithful, Record, Numbers, Seen, Increasing
  <2> QED BY <1>0, <2>1, <2>3, <2>5 DEF BusInv
<1>2. CASE AppendActivity
  <2> DEFINE e == Head(buffer[Forwarder])
             rest == Tail(buffer[Forwarder])
  <2>1. /\ buffer[Forwarder] # <<>> /\ buffer[Forwarder] \in Seq(Nat)
        /\ activity' = IF e \in anonymous THEN activity ELSE Append(activity, e)
        /\ buffer' = [buffer EXCEPT ![Forwarder] = rest]
        /\ flushes' = flushes /\ published' = published /\ subscribers' = subscribers
        /\ since' = since /\ stream' = stream /\ anonymous' = anonymous /\ missed' = missed
    BY <1>0, <1>2 DEF AppendActivity
  <2>2. buffer'[Forwarder] = rest
    BY <1>0, <2>1
  <2>3. /\ rest \in Seq(Nat) /\ e \in Nat
        /\ Len(rest) = Len(buffer[Forwarder]) - 1 /\ Len(buffer[Forwarder]) \in Nat
        /\ Append(activity, e) \in Seq(Nat)
    BY <1>0, <2>1
  <2>4. activity' \in Seq(Nat) /\ buffer' \in [Readers -> Seq(Nat)]
    BY <1>0, <2>1, <2>3
  <2>5. \A r \in Readers : Len(buffer'[r]) <= BusBuffer
    <3> TAKE r \in Readers
    <3>1. Len(buffer[r]) <= BusBuffer /\ buffer'[r] = IF r = Forwarder THEN rest ELSE buffer[r]
      BY <1>0, <2>1 DEF BusInv, BusTypeOK
    <3> HIDE DEF rest
    <3> QED BY <1>0, <2>3, <3>1
  <2>6. BusTypes' /\ BusTypeOK'
    BY <2>1, <2>4, <2>5 DEF BusInv, BusTypes, BusTypeOK
  <2>7. /\ Record(Seen, since, published, Forwarder \in subscribers, anonymous \cup missed)
        /\ \A i \in DOMAIN activity : activity[i] \notin anonymous
    BY Recorded
  <2>8. \A i \in DOMAIN activity' : activity'[i] \notin anonymous'
    <3>1. CASE e \in anonymous
      BY <2>1, <2>7, <3>1
    <3>2. CASE e \notin anonymous
      <4>1. activity' = Append(activity, e)
        BY <2>1, <3>2
      <4> HIDE DEF e
      <4>2. \A i \in 1..(Len(activity) + 1) : activity'[i] = IF i = Len(activity) + 1 THEN e ELSE activity[i]
        BY <1>0, <2>3, <4>1
      <4>3. DOMAIN activity' = 1..(Len(activity) + 1) /\ DOMAIN activity = 1..Len(activity)
            /\ Len(activity) \in Nat
        BY <1>0, <2>3, <4>1
      <4> QED BY <2>1, <2>7, <3>2, <4>2, <4>3
    <3> QED BY <3>1, <3>2
  <2>9. CASE e \notin anonymous
    <3>1. Seen' = Seen
      BY <1>0, <2>1, <2>2, <2>9, HandOver DEF Seen
    <3>2. ActivityFaithful'
      BY <2>1, <2>8, <3>1, SameRecord
    <3> QED BY <2>1, <2>6, <3>1, <3>2 DEF BusInv
  <2>10. CASE e \in anonymous
    <3>1. Seen' = activity \o rest /\ Seen = activity \o buffer[Forwarder]
      BY <2>1, <2>2, <2>10 DEF Seen
    <3>2. Increasing(activity \o buffer[Forwarder])
      BY <2>7, <3>1 DEF Record
    <3>3. /\ Increasing(Seen')
          /\ \A j \in DOMAIN Seen' : \E i \in DOMAIN Seen : Seen'[j] = Seen[i]
          /\ \A i \in DOMAIN Seen : Seen[i] = e \/ \E j \in DOMAIN Seen' : Seen'[j] = Seen[i]
      BY <1>0, <2>1, <3>1, <3>2, PassOver
    <3> HIDE DEF e, rest
    <3>4. \A i \in DOMAIN Seen' : Seen'[i] > since /\ Seen'[i] <= published
      BY <2>7, <3>3 DEF Record
    <3>5. ASSUME NEW n \in Numbers(Seen) PROVE n \in Numbers(Seen') \/ n = e
      BY <3>3 DEF Numbers
    <3>6. Record(Seen', since', published', Forwarder \in subscribers', (anonymous \cup missed)')
      BY <2>1, <2>7, <2>10, <3>3, <3>4, <3>5 DEF Record
    <3>7. ActivityFaithful' /\ \A i \in DOMAIN Seen' : Seen'[i] <= published'
      BY <2>8, <3>6, Faithful
    <3>8. Forwarder \in subscribers
      <4>1. Seen # <<>>
        BY <1>0, <2>1, <3>1
      <4> QED BY <4>1 DEF BusInv
    <3> QED BY <2>1, <2>6, <3>7, <3>8 DEF BusInv
  <2> QED BY <2>9, <2>10
<1> QED BY <1>1, <1>2

LEMMA NextBus ==
    ASSUME BusInv, [FabricNext]_fabricVars PROVE BusInv'
<1>1. BusMove => BusInv'
  BY PublishBus, BusKept, ForwarderBus, ClientBus DEF BusMove, NoEvent, Publish
<1>2. ASSUME NEW w \in Workers, RequestMove(w) PROVE BusInv'
  BY <1>1, <1>2, RequestFrame
<1>3. ASSUME NEW w \in Workers, NEW a \in AskedCatalog, DecideCached(w, a) PROVE BusInv'
  BY <1>3, BusKept DEF DecideCached, NoEvent
<1>4. ASSUME NEW a \in Asked, NEW ms \in Lists, DecideSupplied(a, ms) PROVE BusInv'
  BY <1>4, BusKept DEF DecideSupplied, NoEvent
<1>5. CASE SaveDecision
  BY <1>5, BusKept DEF SaveDecision, NoEvent
<1>6. ASSUME NEW rt \in Runtimes, Toggle(rt) PROVE BusInv'
  BY <1>6, BusKept DEF Toggle, NoEvent
<1>9. ASSUME NEW rt \in Runtimes, NEW m \in Models, RemoveModel(rt, m) PROVE BusInv'
  BY <1>9, BusKept DEF RemoveModel, NoEvent
<1>7. ASSUME NEW i \in Inferences, StreamMove(i) PROVE BusInv'
  BY <1>1, <1>7, StreamFrame
<1>8. CASE UNCHANGED fabricVars
  BY <1>8, BusKept DEF fabricVars
<1> QED BY <1>1, <1>2, <1>3, <1>4, <1>5, <1>6, <1>7, <1>8, <1>9, Moves

-----------------------------------------------------------------------------
(***************************************************************************)
(* Streams: every goroutine moves the head of one channel to the end of    *)
(* the next, which leaves the flow as it was; only the scanner adds to it. *)
(***************************************************************************)
LEMMA FlowType ==
    ASSUME NEW s \in Streams
    PROVE  /\ s.got \in Seq(Nat) /\ s.out \in Seq(Nat) /\ s.hand \in Seq(Nat) /\ s.ch \in Seq(Nat)
           /\ s.got \o s.out \in Seq(Nat) /\ s.got \o s.out \o s.hand \in Seq(Nat)
           /\ Flow(s) \in Seq(Nat) /\ Len(Flow(s)) \in Nat
           /\ s.tokens \in Nat /\ s.left \in Nat
           /\ s.scanning \in BOOLEAN /\ s.cut \in BOOLEAN
<1>1. s.got \in Seq(Nat) /\ s.out \in Seq(Nat) /\ s.hand \in Seq(Nat) /\ s.ch \in Seq(Nat)
      /\ s.tokens \in Nat /\ s.left \in Nat /\ s.scanning \in BOOLEAN /\ s.cut \in BOOLEAN
  BY DEF Streams
<1>2. s.got \o s.out \in Seq(Nat)
  BY <1>1
<1>3. s.got \o s.out \o s.hand \in Seq(Nat)
  BY <1>1, <1>2
<1>4. Flow(s) \in Seq(Nat)
  BY <1>1, <1>3 DEF Flow
<1> QED BY <1>1, <1>2, <1>3, <1>4

LEMMA SameFlow ==
    ASSUME NEW s, StreamInv(s), NEW t \in Streams, Flow(t) = Flow(s),
           t.scanning = s.scanning, t.tokens = s.tokens, t.left = s.left, t.cut = s.cut,
           Len(t.ch) <= ChanBuffer, Len(t.out) <= ChanBuffer, Len(t.hand) <= 1,
           t.relaying \/ ~t.scanning
    PROVE  StreamInv(t)
BY DEF StreamInv

LEMMA OpenStreamInv ==
    ASSUME NEW n \in Nat, flushes \in BOOLEAN PROVE StreamInv(NewStream(n))
<1> DEFINE s == NewStream(n)
<1>1. <<>> \in Seq(Nat) /\ Len(<<>>) = 0
  BY EmptySeq
<1>2. s \in Streams
  BY <1>1 DEF NewStream, Streams
<1>3. /\ s.got = <<>> /\ s.out = <<>> /\ s.hand = <<>> /\ s.ch = <<>> /\ s.scanning /\ s.relaying
      /\ s.tokens = n /\ s.left = n /\ ~s.cut
  BY DEF NewStream
<1>4. Flow(s) = <<>>
  BY <1>3 DEF Flow
<1> HIDE DEF s
<1> QED BY <1>1, <1>2, <1>3, <1>4, ChannelsAssumption DEF StreamInv, s

LEMMA ScannerInv ==
    ASSUME NEW s, StreamInv(s), s.scanning, NEW t,
           \/ /\ s.left > 0 /\ Len(s.ch) < ChanBuffer
              /\ t = [s EXCEPT !.left = @ - 1, !.ch = Append(@, s.tokens - s.left + 1)]
           \/ s.left > 0 /\ t = [s EXCEPT !.left = 0, !.cut = TRUE]
           \/ /\ s.left = 0 /\ Len(s.ch) < ChanBuffer
              /\ t = [s EXCEPT !.ch = Append(@, 0), !.scanning = FALSE]
    PROVE  StreamInv(t)
<1>0. s \in Streams
  BY DEF StreamInv
<1>1. /\ s.ch \in Seq(Nat) /\ s.got \o s.out \o s.hand \in Seq(Nat) /\ Flow(s) \in Seq(Nat)
      /\ Len(Flow(s)) \in Nat /\ Len(s.ch) \in Nat
      /\ s.tokens \in Nat /\ s.left \in Nat /\ ChanBuffer \in Nat
  BY <1>0, FlowType, ChannelsAssumption
<1>2. /\ \A j \in 1..Len(Flow(s)) : Flow(s)[j] = j
      /\ IF s.cut THEN Len(Flow(s)) < s.tokens /\ s.left = 0 ELSE Len(Flow(s)) = s.tokens - s.left
      /\ Len(s.ch) <= ChanBuffer /\ Len(s.out) <= ChanBuffer /\ Len(s.hand) <= 1 /\ s.relaying
  BY DEF StreamInv
<1>3. CASE s.left > 0 /\ Len(s.ch) < ChanBuffer
           /\ t = [s EXCEPT !.left = @ - 1, !.ch = Append(@, s.tokens - s.left + 1)]
  <2> DEFINE e == s.tokens - s.left + 1
             F == Flow(s)
  <2>1. e = Len(F) + 1 /\ e \in Nat /\ s.left - 1 \in Nat
    BY <1>1, <1>2, <1>3
  <2>2. Append(s.ch, e) \in Seq(Nat) /\ Len(Append(s.ch, e)) = Len(s.ch) + 1
    BY <1>1, <2>1
  <2>3. /\ t.ch = Append(s.ch, e) /\ t.left = s.left - 1 /\ t.got = s.got /\ t.out = s.out
        /\ t.hand = s.hand /\ t.scanning = s.scanning /\ t.relaying = s.relaying
        /\ t.cut = s.cut /\ t.tokens = s.tokens
    BY <1>0, <1>3 DEF Streams
  <2>4. t \in Streams
    BY <1>0, <1>3, <2>1, <2>2 DEF Streams
  <2>5. Flow(t) = Append(F, e)
    <3> DEFINE front == s.got \o s.out \o s.hand
    <3>1. front \in Seq(Nat)
      BY <1>1
    <3> HIDE DEF front, e
    <3>2. front \o Append(s.ch, e) = Append(front \o s.ch, e)
      BY <1>1, <2>1, <3>1, AppendConcat
    <3> QED BY <2>3, <3>2 DEF Flow, front
  <2> HIDE DEF e, F
  <2>6. F \in Seq(Nat) /\ Len(F) \in Nat /\ \A j \in 1..Len(F) : F[j] = j
    BY <1>1, <1>2 DEF F
  <2>7. Len(Flow(t)) = Len(F) + 1 /\ \A j \in 1..Len(Flow(t)) : Flow(t)[j] = j
    BY <2>1, <2>5, <2>6
  <2>8. Len(Flow(t)) = t.tokens - t.left /\ ~t.cut
    BY <1>1, <1>2, <1>3, <2>1, <2>3, <2>7 DEF e
  <2>9. Len(t.ch) <= ChanBuffer
    BY <1>1, <1>3, <2>2, <2>3
  <2> QED BY <1>2, <2>3, <2>4, <2>7, <2>8, <2>9 DEF StreamInv
<1>4. CASE s.left > 0 /\ t = [s EXCEPT !.left = 0, !.cut = TRUE]
  <2>1. /\ t.ch = s.ch /\ t.left = 0 /\ t.got = s.got /\ t.out = s.out
        /\ t.hand = s.hand /\ t.scanning = s.scanning /\ t.relaying = s.relaying
        /\ t.cut /\ t.tokens = s.tokens
    BY <1>0, <1>4 DEF Streams
  <2>2. t \in Streams
    BY <1>0, <1>4 DEF Streams
  <2>3. Flow(t) = Flow(s)
    BY <2>1 DEF Flow
  <2>4. Len(Flow(s)) < s.tokens
    BY <1>1, <1>2, <1>4
  <2> QED BY <1>2, <1>4, <2>1, <2>2, <2>3, <2>4 DEF StreamInv
<1>5. CASE s.left = 0 /\ Len(s.ch) < ChanBuffer
           /\ t = [s EXCEPT !.ch = Append(@, 0), !.scanning = FALSE]
  <2> DEFINE F == Flow(s)
  <2>1. Append(s.ch, 0) \in Seq(Nat) /\ Len(Append(s.ch, 0)) = Len(s.ch) + 1
    BY <1>1
  <2>2. /\ t.ch = Append(s.ch, 0) /\ t.left = s.left /\ t.got = s.got /\ t.out = s.out
        /\ t.hand = s.hand /\ ~t.scanning /\ t.cut = s.cut /\ t.tokens = s.tokens
    BY <1>0, <1>5 DEF Streams
  <2>3. t \in Streams
    BY <1>0, <1>5, <2>1 DEF Streams
  <2>4. Flow(t) = Append(F, 0)
    <3> DEFINE front == s.got \o s.out \o s.hand
    <3>1. front \in Seq(Nat) /\ 0 \in Nat
      BY <1>1
    <3> HIDE DEF front
    <3>2. front \o Append(s.ch, 0) = Append(front \o s.ch, 0)
      BY <1>1, <3>1, AppendConcat
    <3> QED BY <2>2, <3>2 DEF Flow, front
  <2> HIDE DEF F
  <2>5. F \in Seq(Nat) /\ Len(F) \in Nat /\ \A j \in 1..Len(F) : F[j] = j
    BY <1>1, <1>2 DEF F
  <2>6. /\ Len(Flow(t)) = Len(F) + 1 /\ Flow(t)[Len(Flow(t))] = 0
        /\ \A j \in 1..(Len(Flow(t)) - 1) : Flow(t)[j] = j
    BY <2>4, <2>5
  <2>7. IF t.cut THEN Len(Flow(t)) - 1 < t.tokens /\ t.left = 0 ELSE Len(Flow(t)) - 1 = t.tokens - t.left
    BY <1>1, <1>2, <2>2, <2>5, <2>6 DEF F
  <2>8. Len(t.ch) <= ChanBuffer /\ Len(Flow(t)) > 0
    BY <1>1, <1>5, <2>1, <2>2, <2>5, <2>6
  <2> QED BY <1>2, <2>2, <2>3, <2>6, <2>7, <2>8 DEF StreamInv
<1> QED BY <1>3, <1>4, <1>5

LEMMA RoomForOne ==
    ASSUME NEW a \in Nat, NEW b \in Nat, NEW c \in Nat, a < c, b <= 1
    PROVE  a + b <= c
OBVIOUS

\* An event goes from the first channel to the hand, to the second, to the client.
Moved(s, t) ==
    \/ /\ s.relaying /\ s.hand = <<>> /\ s.ch # <<>>
       /\ t = [s EXCEPT !.ch = Tail(@), !.hand = <<Head(s.ch)>>]
    \/ /\ Len(s.out) < ChanBuffer
       /\ t = [s EXCEPT !.out = @ \o s.hand, !.hand = <<>>]
    \/ s.out # <<>> /\ t = [s EXCEPT !.out = Tail(@), !.got = Append(@, Head(s.out))]

LEMMA MoverInv ==
    ASSUME NEW s, StreamInv(s), NEW t, Moved(s, t)
    PROVE  StreamInv(t)
<1>0. s \in Streams
  BY DEF StreamInv
<1> DEFINE front == s.got \o s.out
<1>1. /\ s.got \in Seq(Nat) /\ s.out \in Seq(Nat) /\ s.hand \in Seq(Nat) /\ s.ch \in Seq(Nat)
      /\ front \in Seq(Nat) /\ ChanBuffer \in Nat /\ <<>> \in Seq(Nat) /\ Len(<<>>) = 0
      /\ Len(s.out) \in Nat /\ Len(s.hand) \in Nat /\ Len(s.ch) \in Nat
  BY <1>0, FlowType, ChannelsAssumption, EmptySeq
<1>2. /\ Len(s.ch) <= ChanBuffer /\ Len(s.out) <= ChanBuffer /\ Len(s.hand) <= 1
      /\ s.relaying \/ ~s.scanning
  BY DEF StreamInv
<1>3. CASE s.relaying /\ s.hand = <<>> /\ s.ch # <<>>
           /\ t = [s EXCEPT !.ch = Tail(@), !.hand = <<Head(s.ch)>>]
  <2> DEFINE h == Head(s.ch)
             r == Tail(s.ch)
  <2>1. h \in Nat /\ r \in Seq(Nat) /\ Len(r) = Len(s.ch) - 1
    BY <1>1, <1>3
  <2>2. <<h>> \in Seq(Nat) /\ Len(<<h>>) = 1
    BY <2>1
  <2>3. /\ t.ch = r /\ t.hand = <<h>> /\ t.got = s.got /\ t.out = s.out /\ t.left = s.left
        /\ t.scanning = s.scanning /\ t.relaying = s.relaying /\ t.cut = s.cut /\ t.tokens = s.tokens
    BY <1>0, <1>3 DEF Streams
  <2>4. t \in Streams
    BY <1>0, <1>3, <2>1, <2>2 DEF Streams
  <2>5. Flow(t) = Flow(s)
    <3> HIDE DEF front
    <3>1. Append(front, h) \o r = front \o s.ch
      BY <1>1, <1>3, HandOver
    <3> HIDE DEF h, r
    <3>2. Append(front, h) = front \o <<h>>
      BY <1>1, <2>1, AppendIsConcat
    <3>3. front \o <<>> = front
      BY <1>1, ConcatEmptySeq
    <3> QED BY <1>3, <2>3, <3>1, <3>2, <3>3 DEF Flow, front
  <2>6. Len(t.ch) <= ChanBuffer /\ Len(t.out) <= ChanBuffer /\ Len(t.hand) <= 1
    BY <1>1, <1>2, <2>1, <2>2, <2>3
  <2> HIDE DEF h, r, front
  <2> QED BY <1>2, <2>3, <2>4, <2>5, <2>6, SameFlow
<1>4. CASE Len(s.out) < ChanBuffer /\ t = [s EXCEPT !.out = @ \o s.hand, !.hand = <<>>]
  <2>1. s.out \o s.hand \in Seq(Nat) /\ Len(s.out \o s.hand) = Len(s.out) + Len(s.hand)
    BY <1>1
  <2>2. /\ t.ch = s.ch /\ t.hand = <<>> /\ t.got = s.got /\ t.out = s.out \o s.hand /\ t.left = s.left
        /\ t.scanning = s.scanning /\ t.relaying = s.relaying /\ t.cut = s.cut /\ t.tokens = s.tokens
    BY <1>0, <1>4 DEF Streams
  <2>3. t \in Streams
    BY <1>0, <1>1, <1>4, <2>1 DEF Streams
  <2>4. Flow(t) = Flow(s)
    <3>1. s.got \o (s.out \o s.hand) = s.got \o s.out \o s.hand
      <4>1. \A a, b, c \in Seq(Nat) : (a \o b) \o c = a \o (b \o c)
        BY ConcatAssociative
      <4>2. s.got \in Seq(Nat) /\ s.out \in Seq(Nat) /\ s.hand \in Seq(Nat)
        BY <1>1
      <4> QED BY <4>1, <4>2, Zenon
    <3>2. s.got \o (s.out \o s.hand) \in Seq(Nat)
      BY <1>1, <2>1
    <3>3. s.got \o (s.out \o s.hand) \o <<>> = s.got \o (s.out \o s.hand)
      BY <3>2, ConcatEmptySeq
    <3> QED BY <2>2, <3>1, <3>3 DEF Flow
  <2>5. Len(t.ch) <= ChanBuffer /\ Len(t.out) <= ChanBuffer /\ Len(t.hand) <= 1
    <3>1. Len(s.out) < ChanBuffer
      BY <1>4
    <3>2. Len(s.out) \in Nat /\ Len(s.hand) \in Nat /\ ChanBuffer \in Nat /\ Len(s.hand) <= 1
      BY <1>1, <1>2
    <3>3. Len(s.out) + Len(s.hand) <= ChanBuffer
      BY <3>1, <3>2, RoomForOne
    <3>4. Len(t.out) = Len(s.out) + Len(s.hand) /\ t.ch = s.ch /\ Len(t.hand) = 0
      BY <1>1, <2>1, <2>2
    <3>5. Len(t.out) <= ChanBuffer
      BY <3>3, <3>4
    <3>6. Len(t.ch) <= ChanBuffer
      BY <1>2, <3>4
    <3>7. Len(t.hand) <= 1
      BY <3>4
    <3> QED BY <3>5, <3>6, <3>7
  <2> QED BY <1>2, <2>2, <2>3, <2>4, <2>5, SameFlow
<1>5. CASE s.out # <<>> /\ t = [s EXCEPT !.out = Tail(@), !.got = Append(@, Head(s.out))]
  <2> DEFINE h == Head(s.out)
             r == Tail(s.out)
  <2>1. h \in Nat /\ r \in Seq(Nat) /\ Len(r) = Len(s.out) - 1 /\ Append(s.got, h) \in Seq(Nat)
    BY <1>1, <1>5
  <2>2. /\ t.ch = s.ch /\ t.hand = s.hand /\ t.got = Append(s.got, h) /\ t.out = r /\ t.left = s.left
        /\ t.scanning = s.scanning /\ t.relaying = s.relaying /\ t.cut = s.cut /\ t.tokens = s.tokens
    BY <1>0, <1>5 DEF Streams
  <2>3. t \in Streams
    BY <1>0, <1>5, <2>1 DEF Streams
  <2>4. Append(s.got, h) \o r = s.got \o s.out
    BY <1>1, <1>5, HandOver
  <2>5. Flow(t) = Flow(s)
    BY <2>2, <2>4 DEF Flow
  <2>6. Len(t.ch) <= ChanBuffer /\ Len(t.out) <= ChanBuffer /\ Len(t.hand) <= 1
    BY <1>1, <1>2, <2>1, <2>2
  <2> HIDE DEF h, r, front
  <2> QED BY <1>2, <2>2, <2>3, <2>5, <2>6, SameFlow
<1> QED BY <1>3, <1>4, <1>5 DEF Moved

LEMMA EndingInv ==
    ASSUME NEW s, StreamInv(s), NEW t,
           \/ ~s.scanning /\ t = [s EXCEPT !.relaying = FALSE]
           \/ t = [s EXCEPT !.reading = FALSE, !.live = FALSE]
           \/ t = [s EXCEPT !.live = FALSE]
    PROVE  StreamInv(t)
<1>0. s \in Streams
  BY DEF StreamInv
<1>1. /\ t.ch = s.ch /\ t.hand = s.hand /\ t.got = s.got /\ t.out = s.out /\ t.left = s.left
      /\ t.scanning = s.scanning /\ t.tokens = s.tokens /\ t.cut = s.cut
      /\ (t.relaying = s.relaying \/ ~t.scanning)
  BY <1>0 DEF Streams
<1>2. t \in Streams
  BY <1>0 DEF Streams
<1>3. Flow(t) = Flow(s)
  BY <1>1 DEF Flow
<1>4. Len(t.ch) <= ChanBuffer /\ Len(t.out) <= ChanBuffer /\ Len(t.hand) <= 1
      /\ (t.relaying \/ ~t.scanning)
  BY <1>1 DEF StreamInv
<1> QED BY <1>1, <1>2, <1>3, <1>4, SameFlow

LEMMA StreamStep ==
    ASSUME Streaming, flushes \in BOOLEAN, NEW i \in Inferences, StreamMove(i)
    PROVE  Streaming'
<1>1. \E t : StreamInv(t) /\ inference' = [inference EXCEPT ![i] = t]
  <2> DEFINE s == inference[i]
  <2>0. s # None => StreamInv(s)
    BY DEF Streaming
  <2>1. ASSUME NEW n \in 0..MaxTokens, OpenInference(i, n)
        PROVE  \E t : StreamInv(t) /\ inference' = [inference EXCEPT ![i] = t]
    <3>1. n \in Nat
      BY ChannelsAssumption
    <3> QED BY <2>1, <3>1, OpenStreamInv DEF OpenInference, InferenceStep
  <2>2. CASE ScannerStep(i)
    BY <2>0, <2>2, ScannerInv DEF ScannerStep, Scan, CutBody, ScanEnd, InferenceStep
  <2>3. CASE Relay(i) \/ PassOn(i) \/ ReadEvent(i)
    BY <2>0, <2>3, MoverInv DEF Moved, Relay, PassOn, ReadEvent, InferenceStep
  <2>4. CASE RelayEnd(i) \/ ReadEnd(i) \/ HangUp(i)
    BY <2>0, <2>4, EndingInv DEF RelayEnd, ReadEnd, HangUp, InferenceStep
  <2> QED BY <2>1, <2>2, <2>3, <2>4 DEF StreamMove, RelayStep, HandlerStep
<1>2. PICK t : StreamInv(t) /\ inference' = [inference EXCEPT ![i] = t]
  BY <1>1
<1>3. t \in Streams
  BY <1>2 DEF StreamInv
<1>4. inference' \in [Inferences -> Streams \cup {None}]
  BY <1>2, <1>3 DEF Streaming
<1>5. \A j \in Inferences : inference'[j] = IF j = i THEN t ELSE inference[j]
  BY <1>2 DEF Streaming
<1> QED BY <1>2, <1>4, <1>5 DEF Streaming

LEMMA NextStreaming ==
    ASSUME Streaming, BusInv, [FabricNext]_fabricVars PROVE Streaming'
<1>0. inference' = inference => Streaming'
  BY DEF Streaming
<1>1. CASE UNCHANGED <<catalogVars, req, inference>>
  BY <1>0, <1>1
<1>2. ASSUME NEW w \in Workers, RequestMove(w) PROVE Streaming'
  BY <1>0, <1>2, RequestFrame
<1>3. ASSUME NEW w \in Workers, NEW a \in AskedCatalog, DecideCached(w, a) PROVE Streaming'
  BY <1>0, <1>3 DEF DecideCached
<1>4. ASSUME NEW a \in Asked, NEW ms \in Lists, DecideSupplied(a, ms) PROVE Streaming'
  BY <1>0, <1>4 DEF DecideSupplied
<1>5. CASE SaveDecision
  BY <1>0, <1>5 DEF SaveDecision
<1>6. ASSUME NEW rt \in Runtimes, Toggle(rt) PROVE Streaming'
  BY <1>0, <1>6 DEF Toggle, Only
<1>9. ASSUME NEW rt \in Runtimes, NEW m \in Models, RemoveModel(rt, m) PROVE Streaming'
  BY <1>0, <1>9 DEF RemoveModel, Only
<1>7. ASSUME NEW i \in Inferences, StreamMove(i) PROVE Streaming'
  <2>1. flushes \in BOOLEAN
    BY DEF BusInv, BusTypes
  <2> QED BY <1>7, <2>1, StreamStep
<1>8. CASE UNCHANGED fabricVars
  BY <1>0, <1>8 DEF fabricVars
<1> QED BY <1>1, <1>2, <1>3, <1>4, <1>5, <1>6, <1>7, <1>8, <1>9, Moves

LEMMA InitFabric == FabricInit => FabricInv
<1> SUFFICES ASSUME FabricInit PROVE FabricInv
  OBVIOUS
<1> USE DEF FabricInit
<1>1. Decided /\ Streaming
  BY DEF Decided, Streaming
<1>2. FabricTypes
  <2>1. req \in [Workers -> Held] /\ \A w \in Workers : req[w].op # "health"
    BY DEF Held, Idle
  <2>2. models \in Catalogs
    BY DEF Catalogs
  <2> QED BY <2>1, <2>2, ServesAssumption DEF FabricTypes, Caches
<1>3. \A w \in Workers : req[w] = Idle
  OBVIOUS
<1>4. Served
  BY <1>3 DEF Served, CatalogServed, Idle
<1>5. Checked
  BY <1>3 DEF Checked, InFlight, Storing, Idle
<1>7. Copied
  BY <1>3 DEF Copied, Deciding, At, Idle
<1>6. BusInv
  <2> USE DEF BusInit
  <2>1. <<>> \in Seq(Nat) /\ Len(<<>>) = 0 /\ \A r \in Readers : buffer[r] = <<>>
    BY EmptySeq
  <2>2. BusTypes /\ BusTypeOK
    BY <2>1, BusAssumption DEF BusTypes, BusTypeOK, Phases
  <2>3. Seen = <<>>
    BY <2>1 DEF Seen, Readers
  <2>4. Record(<<>>, 0, 0, FALSE, {})
    BY EmptyRecord
  <2>5. ActivityFaithful /\ \A i \in DOMAIN Seen : Seen[i] <= published
    BY <2>3, <2>4 DEF ActivityFaithful, Record, Numbers, Seen, Increasing
  <2> QED BY <2>2, <2>3, <2>5 DEF BusInv
<1> QED BY <1>1, <1>2, <1>4, <1>5, <1>6, <1>7 DEF FabricInv

LEMMA NextFabric == FabricInv /\ [FabricNext]_fabricVars => FabricInv'
BY NextDecided, NextCatalog, NextCopied, NextBus, NextStreaming DEF FabricInv

\* The invariant of the fabric: decisions are the router's answers, requests
\* hold what is true of the runtimes, the log and every stream are in order.
THEOREM FabricInvariance == FabricSpec => []FabricInv
BY InitFabric, NextFabric, PTL DEF FabricSpec

\* However discoveries, installations, loads, unloads and health checks overlap
\* (aifabric.Manager), a listed descriptor names a runtime that has the model or
\* had it until it was removed there, single checks leave the last answer in the
\* cache, and decideModel takes a model of a runtime that the cache says is
\* offline only if a check stored that after the cache was read.
THEOREM CatalogIsSound == FabricSpec => []CatalogSound
<1>1. FabricInv => CatalogSound
  BY CheckedIsLatest, DecidedCache DEF FabricInv, CatalogSound, Served
<1> QED BY <1>1, FabricInvariance, PTL

\* Router.DecideWithFallbacks, for every list of profiles and every request: the
\* limits of the request hold for what is selected, the order of the list does
\* not matter, and a refusal means that nothing fits.
THEOREM RoutesAreSound == FabricSpec => []RouterSound
<1>1. FabricInv => RouterSound
  BY DecidedRouter DEF FabricInv
<1> QED BY <1>1, FabricInvariance, PTL

\* The activity log (forwardProductActivity) holds the events of the bus since
\* its subscription, in order and once each, but for those that carry no project
\* (ActivityLog.Append) and those published while its channel was full.
THEOREM ActivityIsFaithful == FabricSpec => []ActivityFaithful
<1>1. FabricInv => ActivityFaithful
  BY DEF FabricInv, BusInv
<1> QED BY <1>1, FabricInvariance, PTL

\* The channels of a stream (HTTPRuntime.Stream, Manager.Stream and its handler)
\* stay within their capacity, and its tokens reach the client in order, before
\* the completion and, unless the scanner stopped early, all of them.
THEOREM StreamsAreSound == FabricSpec => []StreamsSound
<1>1. FabricInv => FabricTypeOK
  <2> SUFFICES ASSUME FabricInv PROVE FabricTypeOK
    OBVIOUS
  <2>1. \A m \in Models : models[m] # None =>
          models[m].rt \in Runtimes /\ models[m].listed \in BOOLEAN
          /\ models[m].status \in {"AVAILABLE", "INSTALLED", "READY"}
    BY DEF FabricInv, FabricTypes, Catalogs, Descriptors
  <2>2. \A i \in Inferences : inference[i] # None =>
          /\ Len(inference[i].ch) <= ChanBuffer /\ Len(inference[i].out) <= ChanBuffer
          /\ inference[i].relaying \/ ~inference[i].scanning
    BY DEF FabricInv, Streaming, StreamInv
  <2> QED BY <2>1, <2>2 DEF FabricInv, FabricTypes, BusInv, FabricTypeOK
<1>2. FabricInv => TokensInOrder
  BY DEF FabricInv, Streaming, StreamInv, Flow, TokensInOrder
<1>3. FabricInv => StreamsSound
  BY <1>1, <1>2 DEF StreamsSound
<1> QED BY <1>3, FabricInvariance, PTL
=============================================================================
