----------------------------- MODULE LoopProofs -----------------------------
(***************************************************************************)
(* Proofs about LoopCoordinator, for any number of loops, stages, requests *)
(* and goroutines, with store faults and crashes.  IInv adds to the three  *)
(* safety properties what the copies held by goroutines are known to be.   *)
(***************************************************************************)
EXTENDS LoopCoordinator, TLAPS

(* A COMPLETED execution has every stage done.                             *)
Sound(e) ==
  e.status = "COMPLETED" =>
    e.current = 0 /\ \A s \in Stages : e.results[s] = "COMPLETED"

Good(e) == e \in Rows /\ InOrder(e) /\ Sound(e)

StoreInv == store \in [Loops -> Rows] /\ \A l \in Loops : Good(store[l])

(* A request between its read and its save holds a loop and a copy of it.  *)
ClientInv ==
  /\ cpc \in [Clients -> {"idle", "save", "list", "next"}]
  /\ cloop \in [Clients -> Loops \cup {NoLoop}]
  /\ ccopy \in [Clients -> Rows]
  /\ todo \subseteq Loops
  /\ \A c \in Clients : InOrder(ccopy[c]) /\ (cpc[c] = "save" => cloop[c] \in Loops)

(* A worker holds a loop, a copy of it and, between BeginStage and         *)
(* Checkpoint, the stage it executes.                                      *)
RunnerInv ==
  /\ wpc \in [Runners -> {"free", "spawned", "load", "stage", "exec",
                          "checkpoint", "exit"}]
  /\ wloop \in [Runners -> Loops \cup {NoLoop}]
  /\ wcopy \in [Runners -> Rows]
  /\ \A w \in Runners :
       /\ wpc[w] # "free" => wloop[w] \in Loops
       /\ Good(wcopy[w])
       /\ wpc[w] = "exec" =>
            wcopy[w].current \in Stages /\ IsNext(wcopy[w], wcopy[w].current)

WorkerInv == running \subseteq Loops /\ OneWorkerPerLoop

IInv ==
  /\ StoreInv /\ ClientInv /\ RunnerInv /\ WorkerInv
  /\ faults \in BOOLEAN /\ crashes \in 0..MaxCrashes

-----------------------------------------------------------------------------
(* Lemmas about single rows.                                               *)

(* A row with nothing executed is good.                                    *)
LEMMA EmptyRows == Good(NoRow) /\ Good(PlanLoop)
<1>1. NoRow \in Rows /\ PlanLoop \in Rows
  BY StagesAssumption DEF NoRow, PlanLoop, NoResults, Rows, Statuses, StageStates
<1>2. \A s \in Stages : NoRow.results[s] = "NONE" /\ PlanLoop.results[s] = "NONE"
  BY DEF NoRow, PlanLoop, NoResults
<1>3. NoRow.status # "COMPLETED" /\ PlanLoop.status # "COMPLETED"
  BY DEF NoRow, PlanLoop
<1> QED BY <1>1, <1>2, <1>3 DEF Good, InOrder, Sound

(* Start persists a row in the same order that is not COMPLETED.           *)
LEMMA StartedRow ==
  ASSUME NEW e \in Rows, InOrder(e)
  PROVE  Good(Started(e))
<1> DEFINE r == Started(e)
<1>1. /\ r.status = "RUNNING" /\ r.results = e.results
      /\ r.current = IF e.current = 0 THEN 1 ELSE e.current
  BY DEF Started, Rows
<1>2. r.current \in 0..NumStages
  BY <1>1, StagesAssumption DEF Rows
<1>3. Started(e) \in Rows
  BY <1>1, <1>2, StagesAssumption DEF Started, Rows, Statuses
<1>4. InOrder(Started(e))
  BY <1>1 DEF InOrder
<1> QED BY <1>1, <1>3, <1>4 DEF Good, Sound

(* Recording the result of the next stage keeps the results in order.      *)
LEMMA ResultRow ==
  ASSUME NEW e, Good(e), NEW s \in Stages, IsNext(e, s), NEW o \in StageStates
  PROVE  Good(WithResult(e, s, o))
<1> DEFINE r == WithResult(e, s, o)
<1>a. e \in Rows /\ InOrder(e) /\ Sound(e)
  BY DEF Good
<1>0. e.results \in [Stages -> StageStates \cup {"NONE"}] /\ e.status \in Statuses
      /\ e.current \in 0..NumStages
  BY <1>a DEF Rows
<1>1. /\ r.results = [e.results EXCEPT ![s] = o]
      /\ r.current = e.current
      /\ r.status \in {e.status, "BLOCKED", "FAILED"}
  BY <1>a DEF WithResult, Rows
<1>2. r \in Rows
  BY <1>a, <1>0 DEF WithResult, Rows, Statuses
<1>3. \A t \in Stages : t < s => e.results[t] = "COMPLETED"
  BY <1>0 DEF IsNext, Remaining, Stages
<1>4. \A t \in Stages : t > s => e.results[t] # "COMPLETED"
  BY <1>a, <1>0 DEF InOrder, IsNext, Remaining, Stages
<1>5. InOrder(r)
  BY <1>a, <1>0, <1>1, <1>3, <1>4 DEF InOrder, Stages
<1>6. e.status # "COMPLETED"
  BY <1>a DEF Sound, IsNext, Remaining
<1>7. Sound(r)
  BY <1>1, <1>6 DEF Sound
<1> QED BY <1>2, <1>5, <1>7 DEF Good

(* Moving CurrentStage changes neither results nor status.                 *)
LEMMA CurrentRow ==
  ASSUME NEW e, Good(e), NEW s \in Stages, IsNext(e, s)
  PROVE  LET r == [e EXCEPT !.current = s]
         IN  Good(r) /\ IsNext(r, s) /\ r.current = s
<1> DEFINE r == [e EXCEPT !.current = s]
<1>1. r.results = e.results /\ r.status = e.status /\ r.current = s /\ r \in Rows
  BY StagesAssumption DEF Rows, Stages, Good
<1>2. e.status # "COMPLETED"
  BY DEF Sound, IsNext, Remaining, Good
<1> QED BY <1>1, <1>2 DEF InOrder, Sound, IsNext, Remaining, Good

(* The final row.                                                          *)
LEMMA FinalRow ==
  ASSUME NEW e, Good(e), Remaining(e) = {}
  PROVE  Good([e EXCEPT !.current = 0, !.status = "COMPLETED"])
<1> DEFINE r == [e EXCEPT !.current = 0, !.status = "COMPLETED"]
<1>1. r.results = e.results /\ r.status = "COMPLETED" /\ r.current = 0
  BY DEF Good, Rows
<1>2. 0 \in 0..NumStages /\ "COMPLETED" \in Statuses
  BY StagesAssumption DEF Statuses
<1>3. r \in Rows
  BY <1>2 DEF Good, Rows
<1> QED BY <1>1, <1>3 DEF InOrder, Sound, Remaining, Good

-----------------------------------------------------------------------------
(* Saving a good row keeps the store good, whether the call succeeds or    *)
(* not.                                                                    *)
LEMMA SaveGood ==
  ASSUME StoreInv, NEW l \in Loops, NEW e, Good(e), NEW ok, SaveLoopExecution(l, e, ok)
  PROVE  StoreInv'
BY DEF StoreInv, SaveLoopExecution, Good

(* The rows stay good.                                                     *)
LEMMA NextStore ==
  ASSUME IInv, [Next]_vars
  PROVE  StoreInv'
<1> USE DEF IInv
<1>1. ASSUME NEW l \in Loops, PlanAutonomousLoop(l) PROVE StoreInv'
  BY <1>1, EmptyRows, SaveGood DEF PlanAutonomousLoop
<1>2. ASSUME NEW l \in Loops, StartAutonomousLoop(l) PROVE StoreInv'
  <2>1. Good(Started(PlanLoop))
    BY EmptyRows, StartedRow DEF Good
  <2> QED BY <1>2, <2>1, SaveGood DEF StartAutonomousLoop, Start
<1>3. ASSUME NEW c \in Clients, ResumeSave(c) PROVE StoreInv'
  <2>1. cloop[c] \in Loops /\ ccopy[c] \in Rows /\ InOrder(ccopy[c])
    BY <1>3 DEF ResumeSave, ClientInv
  <2>2. Good(Started(ccopy[c]))
    BY <2>1, StartedRow
  <2> QED BY <1>3, <2>1, <2>2, SaveGood DEF ResumeSave, Start
<1>4. ASSUME NEW w \in Runners, BeginStage(w) PROVE StoreInv'
  <2>1. Good(wcopy[w]) /\ wloop[w] \in Loops
    BY <1>4 DEF BeginStage, RunnerInv
  <2>2. PICK s \in Stages, ok \in SaveOutcomes :
          /\ IsNext(wcopy[w], s)
          /\ SaveLoopExecution(wloop[w], [wcopy[w] EXCEPT !.current = s], ok)
    BY <1>4 DEF BeginStage, Persist
  <2>3. Good([wcopy[w] EXCEPT !.current = s])
    BY <2>1, <2>2, CurrentRow
  <2> QED BY <2>1, <2>2, <2>3, SaveGood
<1>5. ASSUME NEW w \in Runners, Checkpoint(w) PROVE StoreInv'
  <2>1. Good(wcopy[w]) /\ wloop[w] \in Loops
    BY <1>5 DEF Checkpoint, RunnerInv
  <2> QED BY <1>5, <2>1, SaveGood DEF Checkpoint, Persist
<1>6. ASSUME NEW w \in Runners, Finish(w) PROVE StoreInv'
  <2>1. Good(wcopy[w]) /\ wloop[w] \in Loops /\ Remaining(wcopy[w]) = {}
    BY <1>6 DEF Finish, RunnerInv
  <2>2. Good([wcopy[w] EXCEPT !.current = 0, !.status = "COMPLETED"])
    BY <2>1, FinalRow
  <2> QED BY <1>6, <2>1, <2>2, SaveGood DEF Finish, Persist
<1>7. ASSUME UNCHANGED store PROVE StoreInv'
  BY <1>7 DEF StoreInv
<1> QED
  BY <1>1, <1>2, <1>3, <1>4, <1>5, <1>6, <1>7
  DEF Next, vars, Recover, RunStep, ResumeAutonomousLoop, RecoverList,
      RecoverNext, RecoverSkip, RecoverReturn, Enter, TurnAway, Load, LoadFails,
      ExecuteLoopStage, Exit, Crash

(* Requests and recovery hold loops and ordered copies.                    *)
LEMMA NextClient ==
  ASSUME IInv, [Next]_vars
  PROVE  ClientInv'
<1> USE DEF IInv
<1>0. /\ \A l \in Loops : store[l] \in Rows /\ InOrder(store[l])
      /\ NoRow \in Rows /\ InOrder(NoRow) /\ Boot \in Clients
  BY EmptyRows DEF StoreInv, Good, Clients
<1>1. ASSUME NEW c \in Clients, NEW l \in Loops, Hold(c, l),
             todo' \subseteq Loops
      PROVE  ClientInv'
  BY <1>0, <1>1 DEF ClientInv, Hold
<1>2. ASSUME NEW c \in Clients, NEW pc \in {"idle", "next"}, Release(c, pc),
             todo' \subseteq Loops
      PROVE  ClientInv'
  BY <1>0, <1>2 DEF ClientInv, Release
<1>3. ASSUME NEW c \in Callers, NEW l \in Loops, ResumeAutonomousLoop(c, l)
      PROVE  ClientInv'
  BY <1>1, <1>3 DEF ResumeAutonomousLoop, ClientInv, Clients
<1>4. ASSUME NEW c \in Clients, ResumeSave(c) PROVE ClientInv'
  <2>1. todo \subseteq Loops
    BY DEF ClientInv
  <2> QED BY <1>2, <1>4, <2>1 DEF ResumeSave
<1>5. ASSUME RecoverList PROVE ClientInv'
  BY <1>0, <1>5 DEF RecoverList, ClientInv, ListRunnableLoopExecutions
<1>6. ASSUME NEW l \in Loops, RecoverNext(l) PROVE ClientInv'
  BY <1>0, <1>1, <1>6 DEF RecoverNext, ClientInv
<1>7. ASSUME NEW l \in Loops, RecoverSkip(l) PROVE ClientInv'
  BY <1>7 DEF RecoverSkip, ClientInv
<1>8. ASSUME RecoverReturn PROVE ClientInv'
  BY <1>0, <1>2, <1>8 DEF RecoverReturn
<1>9. ASSUME Crash PROVE ClientInv'
  BY <1>0, <1>9 DEF Crash, ClientInv
<1>10. ASSUME UNCHANGED clientVars PROVE ClientInv'
  BY <1>10 DEF clientVars, ClientInv
<1> QED
  BY <1>3, <1>4, <1>5, <1>6, <1>7, <1>8, <1>9, <1>10
  DEF Next, vars, Recover, RunStep, PlanAutonomousLoop, StartAutonomousLoop,
      Enter, TurnAway, Load, LoadFails, BeginStage, ExecuteLoopStage, Checkpoint,
      Finish, Exit

(* Workers hold loops and good copies.                                     *)
LEMMA NextRunner ==
  ASSUME IInv, [Next]_vars
  PROVE  RunnerInv'
<1> USE DEF IInv
<1>0. Good(NoRow) /\ \A l \in Loops : Good(store[l])
  BY EmptyRows DEF StoreInv
<1>a. NoRow \in Rows /\ \A l \in Loops : store[l] \in Rows
  BY <1>0 DEF Good
<1>1. ASSUME NEW w \in Runners, NEW l \in Loops, Spawn(w, l) PROVE RunnerInv'
  BY <1>1 DEF RunnerInv, Spawn
<1>2. ASSUME UNCHANGED runnerVars PROVE RunnerInv'
  BY <1>2 DEF RunnerInv, runnerVars
<1>3. ASSUME NEW l \in Loops, NEW e, NEW ok, Start(l, e, ok) PROVE RunnerInv'
  BY <1>1, <1>2, <1>3 DEF Start
<1>4. ASSUME NEW c \in Clients, ResumeSave(c) PROVE RunnerInv'
  <2>1. cloop[c] \in Loops
    BY <1>4 DEF ResumeSave, ClientInv
  <2> QED BY <1>3, <1>4, <2>1 DEF ResumeSave
<1>5. ASSUME NEW w \in Runners, Gone(w) PROVE RunnerInv'
  BY <1>0, <1>a, <1>5 DEF Gone, RunnerInv
<1>6. ASSUME NEW w \in Runners, Enter(w) PROVE RunnerInv'
  BY <1>6 DEF Enter, RunnerInv
<1>7. ASSUME NEW w \in Runners, Load(w) PROVE RunnerInv'
  BY <1>0, <1>a, <1>7 DEF Load, RunnerInv
<1>8. ASSUME NEW w \in Runners, LoadFails(w) PROVE RunnerInv'
  BY <1>8 DEF LoadFails, RunnerInv
<1>9. ASSUME NEW w \in Runners, BeginStage(w) PROVE RunnerInv'
  <2>1. PICK s \in Stages :
          IsNext(wcopy[w], s) /\ wcopy' = [wcopy EXCEPT ![w] = [wcopy[w] EXCEPT !.current = s]]
    BY <1>9 DEF BeginStage, Persist
  <2> DEFINE r == [wcopy[w] EXCEPT !.current = s]
  <2>2. Good(r) /\ IsNext(r, s) /\ r.current = s
    BY <2>1, CurrentRow DEF RunnerInv
  <2>3. r \in Rows
    BY <2>2 DEF Good
  <2> HIDE DEF r
  <2> QED BY <1>9, <2>1, <2>2, <2>3 DEF BeginStage, RunnerInv, r
<1>10. ASSUME NEW w \in Runners, ExecuteLoopStage(w) PROVE RunnerInv'
  <2>1. PICK o \in Outcomes :
          wcopy' = [wcopy EXCEPT ![w] = WithResult(wcopy[w], wcopy[w].current, o)]
    BY <1>10 DEF ExecuteLoopStage
  <2> DEFINE r == WithResult(wcopy[w], wcopy[w].current, o)
  <2>2. Good(r)
    BY <1>10, ResultRow, OutcomesAssumption DEF ExecuteLoopStage, RunnerInv
  <2>3. r \in Rows
    BY <2>2 DEF Good
  <2> HIDE DEF r
  <2> QED BY <1>10, <2>1, <2>2, <2>3 DEF ExecuteLoopStage, RunnerInv, r
<1>11. ASSUME NEW w \in Runners, Checkpoint(w) PROVE RunnerInv'
  <2>1. /\ \A v \in Runners : wcopy'[v] = wcopy[v]
        /\ wcopy' \in [Runners -> Rows] /\ wloop' = wloop
        /\ wpc' \in [Runners -> {"free", "spawned", "load", "stage", "exec",
                                 "checkpoint", "exit"}]
        /\ wpc'[w] \in {"stage", "exit"}
        /\ \A v \in Runners \ {w} : wpc'[v] = wpc[v]
        /\ wpc[w] = "checkpoint"
    BY <1>11 DEF Checkpoint, Persist, RunnerInv
  <2> QED BY <2>1 DEF RunnerInv
<1>12. ASSUME NEW w \in Runners, Finish(w) PROVE RunnerInv'
  <2> DEFINE r == [wcopy[w] EXCEPT !.current = 0, !.status = "COMPLETED"]
  <2>1. wcopy' = [wcopy EXCEPT ![w] = r]
    BY <1>12 DEF Finish, Persist
  <2>2. Good(r)
    BY <1>12, FinalRow DEF Finish, RunnerInv
  <2>3. r \in Rows
    BY <2>2 DEF Good
  <2> HIDE DEF r
  <2> QED BY <1>12, <2>1, <2>2, <2>3 DEF Finish, RunnerInv, r
<1>13. ASSUME Crash PROVE RunnerInv'
  BY <1>0, <1>a, <1>13 DEF Crash, RunnerInv
<1> QED
  BY <1>2, <1>3, <1>4, <1>5, <1>6, <1>7, <1>8, <1>9, <1>10, <1>11, <1>12, <1>13
  DEF Next, vars, Recover, RunStep, PlanAutonomousLoop, StartAutonomousLoop,
      ResumeAutonomousLoop, RecoverList, RecoverNext, RecoverSkip, RecoverReturn,
      TurnAway, Exit

(* `running` names exactly the loops with a worker, and each has one.      *)
LEMMA NextWorker ==
  ASSUME IInv, [Next]_vars
  PROVE  WorkerInv'
<1> USE DEF IInv
<1>0. \A w \in Runners : wpc[w] # "free" => wloop[w] \in Loops
  BY DEF RunnerInv
<1>1. ASSUME NEW w \in Runners, NEW l \in Loops, Spawn(w, l), UNCHANGED running
      PROVE  WorkerInv'
  <2>1. Entered' = Entered /\ w \notin Entered
    BY <1>1 DEF Spawn, Entered, RunnerInv
  <2>2. \A v \in Entered : wloop'[v] = wloop[v]
    BY <1>1, <2>1 DEF Spawn, RunnerInv, Entered
  <2> QED BY <1>1, <2>1, <2>2 DEF WorkerInv, OneWorkerPerLoop
<1>2. ASSUME NEW w \in Runners, wpc[w] \in {"load", "stage", "exec", "checkpoint"},
             NEW pc \in {"stage", "exec", "checkpoint", "exit"},
             wpc' = [wpc EXCEPT ![w] = pc], wloop' = wloop, running' = running
      PROVE  WorkerInv'
  <2>1. Entered' = Entered
    BY <1>2 DEF Entered, RunnerInv
  <2> QED BY <1>2, <2>1 DEF WorkerInv, OneWorkerPerLoop
<1>3. ASSUME NEW w \in Runners, Enter(w) PROVE WorkerInv'
  <2>1. Entered' = Entered \cup {w} /\ wloop[w] \in Loops
    BY <1>0, <1>3 DEF Enter, Entered, RunnerInv
  <2>2. wloop' = wloop /\ running' = running \cup {wloop[w]} /\ wloop[w] \notin running
    BY <1>3 DEF Enter
  <2> QED BY <2>1, <2>2 DEF WorkerInv, OneWorkerPerLoop
<1>4. ASSUME NEW w \in Runners, TurnAway(w) PROVE WorkerInv'
  <2>1. Entered' = Entered /\ w \notin Entered
    BY <1>4 DEF TurnAway, Gone, Entered, RunnerInv
  <2>2. running' = running /\ \A v \in Entered : wloop'[v] = wloop[v]
    BY <1>4, <2>1 DEF TurnAway, Gone, RunnerInv, Entered
  <2> QED BY <2>1, <2>2 DEF WorkerInv, OneWorkerPerLoop
<1>5. ASSUME NEW w \in Runners, Exit(w) PROVE WorkerInv'
  <2>1. Entered' = Entered \ {w} /\ w \in Entered
    BY <1>5 DEF Exit, Gone, Entered, RunnerInv
  <2>2. running' = running \ {wloop[w]} /\ \A v \in Entered \ {w} : wloop'[v] = wloop[v]
    BY <1>5, <2>1 DEF Exit, Gone, RunnerInv, Entered
  <2> QED BY <2>1, <2>2 DEF WorkerInv, OneWorkerPerLoop
<1>6. ASSUME Crash PROVE WorkerInv'
  <2>1. Entered' = {} /\ running' = {}
    BY <1>6 DEF Crash, Entered
  <2> QED BY <2>1 DEF WorkerInv, OneWorkerPerLoop
<1>7. ASSUME UNCHANGED <<runnerVars, running>> PROVE WorkerInv'
  BY <1>7 DEF WorkerInv, OneWorkerPerLoop, runnerVars, Entered
<1>8. ASSUME NEW l \in Loops, NEW e, NEW ok, Start(l, e, ok), UNCHANGED running
      PROVE  WorkerInv'
  BY <1>1, <1>7, <1>8 DEF Start
<1>9. ASSUME NEW c \in Clients, ResumeSave(c) PROVE WorkerInv'
  <2>1. cloop[c] \in Loops
    BY <1>9 DEF ResumeSave, ClientInv
  <2> QED BY <1>8, <1>9, <2>1 DEF ResumeSave
<1>10. ASSUME NEW w \in Runners, Load(w) \/ LoadFails(w) PROVE WorkerInv'
  BY <1>2, <1>10 DEF Load, LoadFails
<1>11. ASSUME NEW w \in Runners, BeginStage(w) \/ Finish(w) PROVE WorkerInv'
  BY <1>2, <1>11 DEF BeginStage, Finish
<1>12. ASSUME NEW w \in Runners, ExecuteLoopStage(w) PROVE WorkerInv'
  BY <1>2, <1>12 DEF ExecuteLoopStage
<1>13. ASSUME NEW w \in Runners, Checkpoint(w) PROVE WorkerInv'
  BY <1>2, <1>13 DEF Checkpoint
<1> QED
  BY <1>3, <1>4, <1>5, <1>6, <1>7, <1>8, <1>9, <1>10, <1>11, <1>12, <1>13
  DEF Next, vars, Recover, RunStep, PlanAutonomousLoop, StartAutonomousLoop,
      ResumeAutonomousLoop, RecoverList, RecoverNext, RecoverSkip, RecoverReturn

(* The initial states satisfy the invariant.                               *)
LEMMA InitIInv == Init => IInv
<1> SUFFICES ASSUME Init PROVE IInv
  OBVIOUS
<1>0. Good(NoRow) /\ Good(Started(PlanLoop))
  BY EmptyRows, StartedRow DEF Good
<1>a. NoRow \in Rows /\ InOrder(NoRow) /\ Started(PlanLoop) \in Rows
  BY <1>0 DEF Good
<1>1. StoreInv
  <2>1. store \in [Loops -> Rows]
    BY <1>a DEF Init
  <2>2. \A l \in Loops : store[l] \in {NoRow, Started(PlanLoop)}
    BY DEF Init
  <2> QED BY <1>0, <2>1, <2>2 DEF StoreInv
<1>2. ClientInv
  BY <1>a DEF Init, ClientInv
<1>3. RunnerInv
  BY <1>0, <1>a DEF Init, RunnerInv
<1>4. Entered = {} /\ running = {}
  BY DEF Init, Entered
<1>5. WorkerInv
  BY <1>4 DEF WorkerInv, OneWorkerPerLoop
<1>6. crashes \in 0..MaxCrashes
  BY CrashAssumption DEF Init
<1>7. faults \in BOOLEAN
  BY FaultAssumption, Zenon DEF Init
<1> QED BY <1>1, <1>2, <1>3, <1>5, <1>6, <1>7 DEF IInv

(* The inductive invariant holds in every reachable state.                 *)
THEOREM Invariance == Spec => []IInv
<1>1. ASSUME IInv, [Next]_vars PROVE IInv'
  <2>1. faults' = faults /\ (crashes' = crashes \/ Crash)
    BY <1>1
    DEF Next, vars, envVars, Crash, Recover, RunStep, PlanAutonomousLoop,
        StartAutonomousLoop, ResumeAutonomousLoop, ResumeSave, RecoverList,
        RecoverNext, RecoverSkip, RecoverReturn, Enter, TurnAway, Load, LoadFails,
        BeginStage, ExecuteLoopStage, Checkpoint, Finish, Exit
  <2>2. faults' \in BOOLEAN /\ crashes' \in 0..MaxCrashes
    BY <1>1, <2>1, CrashAssumption DEF IInv, Crash
  <2> QED BY <1>1, <2>2, NextStore, NextClient, NextRunner, NextWorker DEF IInv
<1> QED BY <1>1, InitIInv, PTL DEF Spec

(* Every variable has its type, in every reachable state: rows and copies  *)
(* are LoopExecutions, workers and requests name loops.                    *)
THEOREM TypeCorrect == Spec => []TypeOK
<1>1. IInv => TypeOK
  BY DEF IInv, StoreInv, ClientInv, RunnerInv, WorkerInv, TypeOK
<1> QED BY <1>1, Invariance, PTL

(* The guard on `running` keeps one worker per loop and is never leaked,   *)
(* for any number of requests, recoveries and crashes.                     *)
THEOREM OneWorker == Spec => []OneWorkerPerLoop
<1>1. IInv => OneWorkerPerLoop
  BY DEF IInv, WorkerInv
<1> QED BY <1>1, Invariance, PTL

(* Stale copies never show a later stage completed without the earlier     *)
(* ones.                                                                   *)
THEOREM OrderKept == Spec => []StagesInOrder
<1>1. IInv => StagesInOrder
  BY DEF IInv, StoreInv, ClientInv, RunnerInv, Good, StagesInOrder
<1> QED BY <1>1, Invariance, PTL

(* A loop is persisted COMPLETED only with every stage COMPLETED.          *)
THEOREM CompletedIsTrue == Spec => []CompletedMeansAllDone
<1>1. IInv => CompletedMeansAllDone
  BY DEF IInv, StoreInv, Good, Sound, CompletedMeansAllDone
<1> QED BY <1>1, Invariance, PTL

-----------------------------------------------------------------------------
(* The contract.  Between two restarts, when clients make no calls, only   *)
(* recovery and the workers it leaves behind write the rows, and recovery  *)
(* comes to each loop once.  RecoveryInv says so: at most one of the list, *)
(* Boot's pending save and a worker is about a loop, and what each holds   *)
(* is the row it is about to replace, up to the stage just executed.       *)

(* What worker w holds of the row of its loop.                             *)
InSync(w) ==
  LET e == wcopy[w]
      r == store[wloop[w]]
  IN
  /\ wpc[w] # "exit" => r.status = "RUNNING"
  /\ wpc[w] \in {"stage", "exec"} => e.status = "RUNNING" /\ e.results = r.results
  /\ wpc[w] = "checkpoint" =>
       /\ e.current \in Stages /\ IsNext(r, e.current)
       /\ e.results = [r.results EXCEPT ![e.current] = e.results[e.current]]
       /\ IF e.results[e.current] = "COMPLETED"
          THEN e.status = "RUNNING"
          ELSE e.status \in {"BLOCKED", "FAILED"}

(* Workers are on different loops, none of them a loop recovery is still   *)
(* to come to.                                                             *)
Apart ==
  /\ \A v, w \in Runners :
       v # w /\ wpc[v] # "free" /\ wpc[w] # "free" => wloop[v] # wloop[w]
  /\ \A w \in Runners : wpc[w] # "free" =>
       /\ cpc[Boot] # "list"
       /\ wloop[w] \notin todo
       /\ cpc[Boot] = "save" => wloop[w] # cloop[Boot]
  /\ cpc[Boot] = "save" => cloop[Boot] \notin todo

(* The copy Boot is about to save is the row.                              *)
BootInSync ==
  cpc[Boot] = "save" =>
    ccopy[Boot] = store[cloop[Boot]] /\ Resumable(store[cloop[Boot]])

RecoveryInv ==
  /\ \A c \in Callers : cpc[c] = "idle"
  /\ \A l \in Loops : store[l].status # "READY"
  /\ Apart /\ BootInSync
  /\ \A w \in Runners : wpc[w] # "free" => InSync(w)

(* A step that changes no row's status and results is a stutter of the     *)
(* contract.                                                               *)
LEMMA SameRows ==
  ASSUME \A l \in Loops : store'[l].status = store[l].status
                          /\ store'[l].results = store[l].results
  PROVE  UNCHANGED Contract!contractVars
BY DEF Contract!contractVars

(* The rows as the contract sees them.                                     *)
Phase == [l \in Loops |-> store[l].status]
Done == [l \in Loops |-> {s \in Stages : store[l].results[s] = "COMPLETED"}]

(* A replaced component that was the same already is unchanged.            *)
LEMMA SameComponent ==
  ASSUME NEW l \in Loops
  PROVE  [Phase EXCEPT ![l] = store[l].status] = Phase
         /\ [Done EXCEPT ![l] = {s \in Stages : store[l].results[s] = "COMPLETED"}] = Done
BY DEF Phase, Done

(* Boot's save is the contract's Resume: the row it replaces is the one it *)
(* read.                                                                   *)
LEMMA ResumeMaps ==
  ASSUME IInv, RecoveryInv, ResumeSave(Boot)
  PROVE  Contract!Next \/ UNCHANGED Contract!contractVars
<1>0. cloop[Boot] \in Loops
  BY DEF ResumeSave, IInv, ClientInv, Clients
<1> PICK l \in Loops : l = cloop[Boot]
  BY <1>0
<1>1. cpc[Boot] = "save" /\ l \in Loops /\ store \in [Loops -> Rows]
  BY DEF ResumeSave, IInv, ClientInv, StoreInv, Clients
<1>2. CASE UNCHANGED store
  BY <1>2, SameRows
<1>3. CASE store' = [store EXCEPT ![l] = Started(store[l])]
  <2>1. Started(store[l]).status = "RUNNING" /\ Started(store[l]).results = store[l].results
    BY <1>1 DEF Started, Rows
  <2>2. store[l].status \in {"RUNNING", "BLOCKED", "FAILED"}
    BY <1>1 DEF RecoveryInv, BootInSync, Resumable, Rows, Statuses
  <2>3. Contract!Resume(l)
    <3>1. Phase' = [Phase EXCEPT ![l] = "RUNNING"] /\ Done' = Done
      <4>1. /\ Phase' = [Phase EXCEPT ![l] = Started(store[l]).status]
            /\ Done' = [Done EXCEPT ![l] =
                 {s \in Stages : Started(store[l]).results[s] = "COMPLETED"}]
        BY <1>1, <1>3 DEF Phase, Done
      <4> QED BY <2>1, <4>1, SameComponent
    <3>2. Phase[l] = store[l].status
      BY DEF Phase
    <3> QED BY <2>2, <3>1, <3>2 DEF Contract!Resume, Phase, Done
  <2> QED BY <1>1, <2>3 DEF Contract!Next
<1>4. store' = [store EXCEPT ![l] = Started(ccopy[Boot])] \/ UNCHANGED store
  BY DEF ResumeSave, Start, SaveLoopExecution
<1>5. ccopy[Boot] = store[l]
  BY <1>1 DEF RecoveryInv, BootInSync
<1> QED BY <1>2, <1>3, <1>4, <1>5

(* Saving CurrentStage changes nothing the contract speaks of.             *)
LEMMA BeginMaps ==
  ASSUME IInv, RecoveryInv, NEW w \in Runners, BeginStage(w)
  PROVE  UNCHANGED Contract!contractVars
<1>1. PICK s \in Stages :
        \/ UNCHANGED store
        \/ store' = [store EXCEPT ![wloop[w]] = [wcopy[w] EXCEPT !.current = s]]
  BY DEF BeginStage, Persist, SaveLoopExecution
<1>2. /\ wloop[w] \in Loops /\ wcopy[w] \in Rows /\ store \in [Loops -> Rows]
      /\ store[wloop[w]].status = "RUNNING" /\ wcopy[w].status = "RUNNING"
      /\ wcopy[w].results = store[wloop[w]].results
  BY DEF BeginStage, IInv, RunnerInv, StoreInv, RecoveryInv, InSync
<1>3. [wcopy[w] EXCEPT !.current = s].status = wcopy[w].status
      /\ [wcopy[w] EXCEPT !.current = s].results = wcopy[w].results
  BY <1>2 DEF Rows
<1>4. \A l \in Loops : store'[l].status = store[l].status
                       /\ store'[l].results = store[l].results
  BY <1>1, <1>2, <1>3
<1> QED BY <1>4, SameRows

(* A checkpoint that reaches the database is one more stage done, or the   *)
(* loop stops with a stage left.                                           *)
LEMMA CheckpointMaps ==
  ASSUME IInv, RecoveryInv, NEW w \in Runners, Checkpoint(w)
  PROVE  Contract!Next \/ UNCHANGED Contract!contractVars
<1>0. wloop[w] \in Loops /\ wcopy[w] \in Rows /\ wcopy[w].current \in Stages
  BY DEF Checkpoint, IInv, RunnerInv, RecoveryInv, InSync
<1> PICK l \in Loops, e \in Rows, s \in Stages :
      l = wloop[w] /\ e = wcopy[w] /\ s = wcopy[w].current
  BY <1>0
<1>1. /\ l \in Loops /\ e \in Rows /\ store \in [Loops -> Rows]
      /\ store[l].status = "RUNNING" /\ s \in Stages /\ IsNext(store[l], s)
      /\ e.results = [store[l].results EXCEPT ![s] = e.results[s]]
      /\ IF e.results[s] = "COMPLETED" THEN e.status = "RUNNING"
         ELSE e.status \in {"BLOCKED", "FAILED"}
  BY DEF Checkpoint, IInv, RunnerInv, StoreInv, RecoveryInv, InSync
<1>2. store' = [store EXCEPT ![l] = e] \/ UNCHANGED store
  BY DEF Checkpoint, Persist, SaveLoopExecution
<1>3. store[l].results \in [Stages -> StageStates \cup {"NONE"}]
  BY <1>1 DEF Rows
<1>4. store[l].results[s] # "COMPLETED" /\ \A t \in Stages : t < s => store[l].results[t] = "COMPLETED"
  BY <1>1, <1>3 DEF IsNext, Remaining, Stages
<1>5. CASE UNCHANGED store
  BY <1>5, SameRows
<1>6. CASE store' = [store EXCEPT ![l] = e] /\ e.results[s] = "COMPLETED"
  <2>1. e.status = store[l].status
    BY <1>1, <1>6
  <2>2. {t \in Stages : e.results[t] = "COMPLETED"}
          = {t \in Stages : store[l].results[t] = "COMPLETED"} \cup {s}
    BY <1>1, <1>3, <1>6
  <2>3. Contract!StageDone(l)
    <3>1. Phase' = Phase /\ Done' = [Done EXCEPT ![l] = Done[l] \cup {s}]
      <4>1. Phase' = [Phase EXCEPT ![l] = e.status]
            /\ Done' = [Done EXCEPT ![l] = {t \in Stages : e.results[t] = "COMPLETED"}]
        BY <1>1, <1>6 DEF Phase, Done
      <4>2. Done[l] = {t \in Stages : store[l].results[t] = "COMPLETED"}
        BY DEF Done
      <4> QED BY <2>1, <2>2, <4>1, <4>2, SameComponent
    <3>2. Phase[l] = "RUNNING" /\ s \in Stages \ Done[l]
          /\ \A t \in Stages : t < s => t \in Done[l]
      BY <1>1, <1>4 DEF Phase, Done
    <3> QED BY <3>1, <3>2 DEF Contract!StageDone, Contract!Stages, Stages, Phase, Done
  <2> QED BY <1>1, <2>3 DEF Contract!Next
<1>7. CASE store' = [store EXCEPT ![l] = e] /\ e.results[s] # "COMPLETED"
  <2>1. e.status \in {"BLOCKED", "FAILED"}
    BY <1>1, <1>7
  <2>2. {t \in Stages : e.results[t] = "COMPLETED"}
          = {t \in Stages : store[l].results[t] = "COMPLETED"}
    BY <1>1, <1>3, <1>4, <1>7
  <2>3. s \in Stages \ {t \in Stages : store[l].results[t] = "COMPLETED"}
    BY <1>1, <1>4
  <2>4. Contract!Stop(l)
    <3>1. Phase' = [Phase EXCEPT ![l] = e.status] /\ Done' = Done
      <4>1. Phase' = [Phase EXCEPT ![l] = e.status]
            /\ Done' = [Done EXCEPT ![l] = {t \in Stages : e.results[t] = "COMPLETED"}]
        BY <1>1, <1>7 DEF Phase, Done
      <4> QED BY <2>2, <4>1, SameComponent
    <3>2. Phase[l] = "RUNNING" /\ Done[l] # Stages
      BY <1>1, <2>3 DEF Phase, Done
    <3> QED BY <2>1, <3>1, <3>2 DEF Contract!Stop, Contract!Stages, Stages, Phase, Done
  <2> QED BY <1>1, <2>4 DEF Contract!Next
<1> QED BY <1>2, <1>5, <1>6, <1>7

(* COMPLETED is persisted with every stage done.                           *)
LEMMA FinishMaps ==
  ASSUME IInv, RecoveryInv, NEW w \in Runners, Finish(w)
  PROVE  Contract!Next \/ UNCHANGED Contract!contractVars
<1>0. wloop[w] \in Loops
  BY DEF Finish, IInv, RunnerInv
<1> PICK l \in Loops : l = wloop[w]
  BY <1>0
<1>e. PICK e : e = [wcopy[w] EXCEPT !.current = 0, !.status = "COMPLETED"]
  OBVIOUS
<1>1. /\ l \in Loops /\ wcopy[w] \in Rows /\ store \in [Loops -> Rows]
      /\ store[l].status = "RUNNING" /\ wcopy[w].results = store[l].results
      /\ Remaining(wcopy[w]) = {}
  BY DEF Finish, IInv, RunnerInv, StoreInv, RecoveryInv, InSync
<1>2. store' = [store EXCEPT ![l] = e] \/ UNCHANGED store
  BY <1>e DEF Finish, Persist, SaveLoopExecution
<1>3. e.status = "COMPLETED" /\ e.results = store[l].results
  BY <1>1, <1>e DEF Rows
<1>4. {t \in Stages : store[l].results[t] = "COMPLETED"} = Stages
  BY <1>1 DEF Remaining
<1>5. CASE UNCHANGED store
  BY <1>5, SameRows
<1>6. CASE store' = [store EXCEPT ![l] = e]
  <2>1. Contract!Finish(l)
    <3>1. Phase' = [Phase EXCEPT ![l] = "COMPLETED"] /\ Done' = Done
      <4>1. Phase' = [Phase EXCEPT ![l] = e.status]
            /\ Done' = [Done EXCEPT ![l] = {t \in Stages : e.results[t] = "COMPLETED"}]
        BY <1>1, <1>6 DEF Phase, Done
      <4> QED BY <1>3, <4>1, SameComponent
    <3>2. Phase[l] = "RUNNING" /\ Done[l] = Stages
      BY <1>1, <1>4 DEF Phase, Done
    <3> QED BY <3>1, <3>2 DEF Contract!Finish, Contract!Stages, Stages, Phase, Done
  <2> QED BY <1>1, <2>1 DEF Contract!Next
<1> QED BY <1>2, <1>5, <1>6

-----------------------------------------------------------------------------
(* RecoveryInv is inductive as long as clients make no calls.              *)

(* The invariant speaks of a worker's own row and locals only.             *)
LEMMA StaysInSync ==
  ASSUME NEW w \in Runners, wpc[w] # "free" => InSync(w),
         wpc'[w] = wpc[w], wcopy'[w] = wcopy[w], wloop'[w] = wloop[w],
         store'[wloop[w]] = store[wloop[w]]
  PROVE  (wpc[w] # "free" => InSync(w))'
BY DEF InSync, IsNext, Remaining

(* A worker moves: its loop stays its own.                                 *)
LEMMA ApartMoves ==
  ASSUME IInv, Apart, NEW w \in Runners, wpc[w] # "free",
         NEW pc, wpc' = [wpc EXCEPT ![w] = pc],
         UNCHANGED clientVars,
         \A v \in Runners : v # w \/ pc # "free" => wloop'[v] = wloop[v]
  PROVE  Apart'
BY DEF IInv, RunnerInv, Apart, clientVars

(* A step of a worker changes its own row at most.                         *)
LEMMA WorkerSteps ==
  ASSUME IInv, IInv', RecoveryInv, NEW w \in Runners, wpc[w] # "free",
         NEW pc, wpc' = [wpc EXCEPT ![w] = pc],
         UNCHANGED clientVars,
         \A v \in Runners : v # w \/ pc # "free" => wloop'[v] = wloop[v],
         \A v \in Runners \ {w} : wcopy'[v] = wcopy[v],
         \A l \in Loops \ {wloop[w]} : store'[l] = store[l],
         store'[wloop[w]].status # "READY",
         pc # "free" => InSync(w)'
  PROVE  RecoveryInv'
<1>1. /\ wloop[w] \in Loops
      /\ \A v \in Runners : wpc[v] # "free" => wloop[v] \in Loops
      /\ \A v \in Runners \ {w} : wpc'[v] = wpc[v]
      /\ wpc'[w] = pc
  BY DEF IInv, RunnerInv
<1>2. Apart'
  BY ApartMoves DEF RecoveryInv
<1>3. BootInSync'
  <2>1. SUFFICES ASSUME cpc[Boot] = "save"
                 PROVE  ccopy[Boot] = store'[cloop[Boot]] /\ Resumable(store'[cloop[Boot]])
    BY DEF BootInSync, clientVars
  <2>2. cloop[Boot] \in Loops \ {wloop[w]}
    BY <2>1 DEF IInv, ClientInv, RecoveryInv, Apart, Clients
  <2> QED BY <2>1, <2>2 DEF RecoveryInv, BootInSync
<1>4. ASSUME NEW v \in Runners, v # w PROVE (wpc[v] # "free" => InSync(v))'
  <2>1. CASE wpc[v] = "free"
    BY <1>1, <1>4, <2>1
  <2>2. CASE wpc[v] # "free"
    <3>1. wloop[v] \in Loops \ {wloop[w]}
      BY <1>1, <1>4, <2>2 DEF RecoveryInv, Apart
    <3> QED BY <1>1, <1>4, <3>1, StaysInSync DEF RecoveryInv
  <2> QED BY <2>1, <2>2
<1>5. (wpc[w] # "free" => InSync(w))'
  BY <1>1
<1>6. \A l \in Loops : store'[l].status # "READY"
  BY DEF RecoveryInv
<1>7. \A c \in Callers : cpc'[c] = "idle"
  BY DEF RecoveryInv, clientVars
<1> QED BY <1>2, <1>3, <1>4, <1>5, <1>6, <1>7 DEF RecoveryInv

(* The steps of run.                                                       *)
LEMMA RunRecovery ==
  ASSUME IInv, IInv', RecoveryInv, NEW w \in Runners, RunStep(w)
  PROVE  RecoveryInv'
<1>0. /\ wpc[w] # "free" => /\ wloop[w] \in Loops /\ InSync(w)
                            /\ store[wloop[w]].status # "READY"
      /\ wcopy[w] \in Rows /\ store \in [Loops -> Rows]
      /\ wpc \in [Runners -> {"free", "spawned", "load", "stage", "exec",
                              "checkpoint", "exit"}]
      /\ wloop \in [Runners -> Loops \cup {NoLoop}]
      /\ wcopy \in [Runners -> Rows]
  BY DEF IInv, RunnerInv, StoreInv, RecoveryInv
<1>1. CASE Enter(w)
  <2>1. InSync(w)'
    BY <1>0, <1>1 DEF Enter, InSync
  <2> QED BY <1>0, <1>1, <2>1, WorkerSteps DEF Enter
<1>2. CASE TurnAway(w) \/ Exit(w)
  <2>1. /\ wpc[w] # "free" /\ wpc' = [wpc EXCEPT ![w] = "free"]
        /\ UNCHANGED <<clientVars, store>>
        /\ \A v \in Runners \ {w} : wloop'[v] = wloop[v] /\ wcopy'[v] = wcopy[v]
    BY <1>0, <1>2 DEF TurnAway, Exit, Gone
  <2> QED BY <1>0, <2>1, WorkerSteps
<1>3. CASE Load(w)
  <2>1. InSync(w)'
    BY <1>0, <1>3 DEF Load, InSync
  <2> QED BY <1>0, <1>3, <2>1, WorkerSteps DEF Load
<1>4. CASE LoadFails(w)
  <2>1. InSync(w)'
    BY <1>0, <1>4 DEF LoadFails, InSync
  <2> QED BY <1>0, <1>4, <2>1, WorkerSteps DEF LoadFails
<1>5. CASE BeginStage(w)
  <2>1. PICK s \in Stages, ok \in SaveOutcomes :
          Persist(w, [wcopy[w] EXCEPT !.current = s], ok)
    BY <1>5 DEF BeginStage
  <2>e. PICK e : e = [wcopy[w] EXCEPT !.current = s]
    OBVIOUS
  <2>2. e.status = "RUNNING" /\ e.results = store[wloop[w]].results
        /\ store[wloop[w]].status = "RUNNING"
    BY <1>0, <1>5, <2>e DEF BeginStage, InSync, Rows
  <2>3. /\ wcopy' = [wcopy EXCEPT ![w] = e]
        /\ store' = [store EXCEPT ![wloop[w]] = e] \/ UNCHANGED store
    BY <2>1, <2>e DEF Persist, SaveLoopExecution
  <2>4. /\ store'[wloop[w]].status = "RUNNING"
        /\ store'[wloop[w]].results = e.results
        /\ \A l \in Loops \ {wloop[w]} : store'[l] = store[l]
    BY <1>0, <1>5, <2>2, <2>3 DEF BeginStage
  <2>5. InSync(w)'
    BY <1>0, <1>5, <2>2, <2>3, <2>4 DEF BeginStage, InSync
  <2> QED BY <1>0, <1>5, <2>3, <2>4, <2>5, WorkerSteps DEF BeginStage
<1>6. CASE ExecuteLoopStage(w)
  <2>1. PICK o \in Outcomes :
          wcopy' = [wcopy EXCEPT ![w] = WithResult(wcopy[w], wcopy[w].current, o)]
    BY <1>6 DEF ExecuteLoopStage
  <2> DEFINE e == wcopy[w]
             r == wcopy'[w]
             s == wcopy[w].current
  <2>2. /\ s \in Stages /\ IsNext(e, s)
        /\ e.status = "RUNNING" /\ e.results = store[wloop[w]].results
        /\ store[wloop[w]].status = "RUNNING"
        /\ e.results \in [Stages -> StageStates \cup {"NONE"}]
    BY <1>0, <1>6 DEF ExecuteLoopStage, InSync, IInv, RunnerInv, Rows
  <2>3. /\ r.results = [e.results EXCEPT ![s] = o] /\ r.current = s
        /\ r.status = IF o = "COMPLETED" THEN e.status
                      ELSE IF o = "BLOCKED" THEN "BLOCKED" ELSE "FAILED"
    BY <1>0, <2>1 DEF WithResult, Rows
  <2>4. r.results[s] = o
    BY <2>2, <2>3
  <2>5. IsNext(store[wloop[w]], s)
    BY <2>2 DEF IsNext, Remaining
  <2>6. /\ wpc'[w] = "checkpoint" /\ wloop' = wloop /\ store' = store
    BY <1>0, <1>6 DEF ExecuteLoopStage
  <2>7. InSync(w)'
    <3>1. r.results = [store[wloop[w]].results EXCEPT ![r.current] = r.results[r.current]]
      BY <2>2, <2>3, <2>4
    <3>2. IF r.results[r.current] = "COMPLETED" THEN r.status = "RUNNING"
          ELSE r.status \in {"BLOCKED", "FAILED"}
      BY <2>2, <2>3, <2>4
    <3>3. r.current \in Stages /\ IsNext(store'[wloop'[w]], r.current)
      BY <2>2, <2>3, <2>5, <2>6
    <3> QED BY <2>2, <2>6, <3>1, <3>2, <3>3 DEF InSync
  <2>8. /\ wpc[w] # "free" /\ wpc' = [wpc EXCEPT ![w] = "checkpoint"]
        /\ UNCHANGED clientVars
        /\ \A v \in Runners \ {w} : wcopy'[v] = wcopy[v]
    BY <1>0, <1>6, <2>1 DEF ExecuteLoopStage
  <2> QED BY <1>0, <2>6, <2>7, <2>8, WorkerSteps
<1>7. CASE Checkpoint(w)
  <2>1. PICK ok \in SaveOutcomes :
          /\ Persist(w, wcopy[w], ok)
          /\ wpc' = [wpc EXCEPT ![w] = IF GoesOn(wcopy[w], ok) THEN "stage" ELSE "exit"]
    BY <1>7 DEF Checkpoint
  <2>2. /\ wcopy' = wcopy /\ wloop' = wloop /\ UNCHANGED clientVars
        /\ wpc[w] = "checkpoint"
        /\ store' = [store EXCEPT ![wloop[w]] = wcopy[w]] \/ (~ok /\ UNCHANGED store)
    BY <1>0, <1>7, <2>1 DEF Checkpoint, Persist, SaveLoopExecution
  <2>3. /\ wcopy[w].status \in {"RUNNING", "BLOCKED", "FAILED"}
        /\ wcopy[w].results[wcopy[w].current] = "COMPLETED" => wcopy[w].status = "RUNNING"
    BY <1>0, <2>2 DEF InSync
  <2>4. store'[wloop[w]].status # "READY"
        /\ \A l \in Loops \ {wloop[w]} : store'[l] = store[l]
    BY <1>0, <2>2, <2>3
  <2>5. InSync(w)'
    <3>1. CASE GoesOn(wcopy[w], ok)
      <4>1. store'[wloop[w]] = wcopy[w] /\ wpc'[w] = "stage" /\ wcopy[w].status = "RUNNING"
        BY <1>0, <2>1, <2>2, <2>3, <3>1 DEF GoesOn
      <4> QED BY <2>2, <4>1 DEF InSync
    <3>2. CASE ~GoesOn(wcopy[w], ok)
      <4>1. wpc'[w] = "exit"
        BY <1>0, <2>1, <3>2
      <4> QED BY <4>1 DEF InSync
    <3> QED BY <3>1, <3>2
  <2> QED BY <1>0, <2>1, <2>2, <2>4, <2>5, WorkerSteps
<1>8. CASE Finish(w)
  <2>e. PICK e : e = [wcopy[w] EXCEPT !.current = 0, !.status = "COMPLETED"]
    OBVIOUS
  <2>1. e.status = "COMPLETED"
    BY <1>0, <2>e DEF Rows
  <2>2. /\ wcopy' = [wcopy EXCEPT ![w] = e] /\ wpc[w] # "free"
        /\ wpc' = [wpc EXCEPT ![w] = "exit"]
        /\ store' = [store EXCEPT ![wloop[w]] = e] \/ UNCHANGED store
        /\ wloop' = wloop /\ UNCHANGED clientVars
    BY <1>8, <2>e DEF Finish, Persist, SaveLoopExecution
  <2>3. store'[wloop[w]].status # "READY"
        /\ \A l \in Loops \ {wloop[w]} : store'[l] = store[l]
    BY <1>0, <2>1, <2>2
  <2>4. InSync(w)'
    BY <1>0, <2>2 DEF InSync
  <2> QED BY <1>0, <2>2, <2>3, <2>4, WorkerSteps
<1> QED BY <1>1, <1>2, <1>3, <1>4, <1>5, <1>6, <1>7, <1>8 DEF RunStep

(* A step of recovery that leaves rows and workers alone.                  *)
LEMMA BootSteps ==
  ASSUME IInv, RecoveryInv, UNCHANGED <<store, runnerVars>>,
         NEW pc, cpc' = [cpc EXCEPT ![Boot] = pc], Apart', BootInSync'
  PROVE  RecoveryInv'
<1>1. \A c \in Callers : cpc'[c] = "idle"
  BY BootAssumption DEF RecoveryInv, IInv, ClientInv, Clients
<1>2. \A w \in Runners : (wpc[w] # "free" => InSync(w))'
  BY StaysInSync DEF RecoveryInv, runnerVars
<1> QED BY <1>1, <1>2 DEF RecoveryInv

(* The steps of recovery before its save.                                  *)
LEMMA BootRecovery ==
  ASSUME IInv, RecoveryInv, Recover
  PROVE  RecoveryInv'
<1>0. /\ cpc \in [Clients -> {"idle", "save", "list", "next"}] /\ Boot \in Clients
      /\ cloop \in [Clients -> Loops \cup {NoLoop}]
      /\ ccopy \in [Clients -> Rows]
      /\ Apart /\ BootInSync
  BY DEF IInv, ClientInv, Clients, RecoveryInv
<1>1. CASE RecoverList
  <2>1. /\ UNCHANGED <<store, runnerVars, cloop, ccopy>>
        /\ cpc' = [cpc EXCEPT ![Boot] = "next"] /\ cpc'[Boot] = "next"
        /\ \A w \in Runners : wpc[w] = "free"
    BY <1>0, <1>1 DEF RecoverList, Apart
  <2>2. Apart' /\ BootInSync'
    BY <2>1 DEF Apart, BootInSync, runnerVars
  <2> QED BY <2>1, <2>2, BootSteps
<1>2. ASSUME NEW l \in Loops, RecoverNext(l) PROVE RecoveryInv'
  <2>1. /\ UNCHANGED <<store, runnerVars>>
        /\ cpc' = [cpc EXCEPT ![Boot] = "save"] /\ cpc'[Boot] = "save"
        /\ cpc[Boot] = "next"
        /\ cloop'[Boot] = l /\ ccopy'[Boot] = store[l]
        /\ l \in todo /\ todo' = todo \ {l} /\ Resumable(store[l])
    BY <1>0, <1>2 DEF RecoverNext, Hold
  <2>2. Apart'
    BY <1>0, <2>1 DEF Apart, runnerVars
  <2>3. BootInSync'
    BY <2>1 DEF BootInSync, Resumable
  <2> QED BY <2>1, <2>2, <2>3, BootSteps
<1>3. ASSUME NEW l \in Loops, RecoverSkip(l) PROVE RecoveryInv'
  <2>1. /\ UNCHANGED <<store, runnerVars, cloop, ccopy, cpc>>
        /\ cpc' = [cpc EXCEPT ![Boot] = "next"] /\ cpc[Boot] = "next"
        /\ todo' = todo \ {l}
    BY <1>0, <1>3 DEF RecoverSkip
  <2>2. Apart' /\ BootInSync'
    BY <1>0, <2>1 DEF Apart, BootInSync, runnerVars
  <2> QED BY <2>1, <2>2, BootSteps
<1>4. CASE RecoverReturn
  <2>1. /\ UNCHANGED <<store, runnerVars>>
        /\ cpc' = [cpc EXCEPT ![Boot] = "idle"] /\ cpc'[Boot] = "idle"
        /\ todo' = {}
    BY <1>0, <1>4 DEF RecoverReturn, Release
  <2>2. Apart' /\ BootInSync'
    BY <1>0, <2>1 DEF Apart, BootInSync, runnerVars
  <2> QED BY <2>1, <2>2, BootSteps
<1> QED BY <1>1, <1>2, <1>3, <1>4 DEF Recover

(* Boot's save leaves a worker behind for a loop nobody else is on, or     *)
(* ends the recovery.                                                      *)
LEMMA SaveRecovery ==
  ASSUME IInv, IInv', RecoveryInv, ResumeSave(Boot)
  PROVE  RecoveryInv'
<1>0. /\ cpc \in [Clients -> {"idle", "save", "list", "next"}] /\ Boot \in Clients
      /\ cpc[Boot] = "save" /\ cloop[Boot] \in Loops /\ ccopy[Boot] \in Rows
      /\ store \in [Loops -> Rows]
      /\ wpc \in [Runners -> {"free", "spawned", "load", "stage", "exec",
                              "checkpoint", "exit"}]
      /\ wloop \in [Runners -> Loops \cup {NoLoop}]
      /\ Apart
      /\ \A w \in Runners : wpc[w] # "free" => InSync(w) /\ wloop[w] # cloop[Boot]
  BY DEF ResumeSave, IInv, ClientInv, RunnerInv, StoreInv, Clients, RecoveryInv, Apart
<1>e. PICK e : e = Started(ccopy[Boot])
  OBVIOUS
<1>1. PICK ok \in SaveOutcomes :
        /\ SaveLoopExecution(cloop[Boot], e, ok)
        /\ \/ ok /\ \E w \in Runners : Spawn(w, cloop[Boot])
           \/ ~ok /\ UNCHANGED runnerVars
        /\ \/ ok /\ Release(Boot, "next") /\ UNCHANGED todo
           \/ ~ok /\ Release(Boot, "idle") /\ todo' = {}
  BY <1>e DEF ResumeSave, Start
<1>2. e.status = "RUNNING"
  BY <1>0, <1>e DEF Started, Rows
<1>3. /\ store' = [store EXCEPT ![cloop[Boot]] = e] \/ (~ok /\ UNCHANGED store)
      /\ \A l \in Loops \ {cloop[Boot]} : store'[l] = store[l]
      /\ \A l \in Loops : store'[l].status # "READY"
  BY <1>0, <1>1, <1>2 DEF SaveLoopExecution, RecoveryInv
<1>4. /\ cpc'[Boot] \in {"next", "idle"} /\ todo' \subseteq todo
      /\ \A c \in Callers : cpc'[c] = "idle"
  BY <1>0, <1>1, BootAssumption DEF Release, RecoveryInv, Clients
<1>5. BootInSync'
  BY <1>4 DEF BootInSync
<1>6. ASSUME NEW w \in Runners, wpc'[w] = wpc[w], wloop'[w] = wloop[w], wcopy'[w] = wcopy[w]
      PROVE  (wpc[w] # "free" => InSync(w))'
  <2>1. CASE wpc[w] = "free"
    BY <1>6, <2>1
  <2>2. CASE wpc[w] # "free"
    <3>1. wloop[w] \in Loops \ {cloop[Boot]}
      BY <1>0, <2>2 DEF IInv, RunnerInv
    <3> QED BY <1>0, <1>3, <1>6, <3>1, StaysInSync
  <2> QED BY <2>1, <2>2
<1>7. CASE UNCHANGED runnerVars
  <2>1. Apart'
    BY <1>0, <1>4, <1>7 DEF Apart, runnerVars
  <2>2. \A w \in Runners : (wpc[w] # "free" => InSync(w))'
    BY <1>6, <1>7 DEF runnerVars
  <2> QED BY <1>3, <1>4, <1>5, <2>1, <2>2 DEF RecoveryInv
<1>8. ASSUME ok, NEW w \in Runners, Spawn(w, cloop[Boot]) PROVE RecoveryInv'
  <2>1. /\ wpc[w] = "free" /\ wpc'[w] = "spawned" /\ wloop'[w] = cloop[Boot]
        /\ \A v \in Runners \ {w} : wpc'[v] = wpc[v] /\ wloop'[v] = wloop[v]
        /\ wcopy' = wcopy
    BY <1>0, <1>8 DEF Spawn
  <2>2. Apart'
    BY <1>0, <1>4, <2>1 DEF Apart
  <2>3. store'[cloop[Boot]].status = "RUNNING"
    BY <1>0, <1>2, <1>3, <1>8
  <2>4. InSync(w)'
    BY <2>1, <2>3 DEF InSync
  <2>5. \A v \in Runners : (wpc[v] # "free" => InSync(v))'
    BY <1>6, <2>1, <2>4
  <2> QED BY <1>3, <1>4, <1>5, <2>2, <2>5 DEF RecoveryInv
<1> QED BY <1>1, <1>7, <1>8

(* A restart leaves the rows and nothing else.                             *)
LEMMA CrashRecovery ==
  ASSUME RecoveryInv, Crash
  PROVE  RecoveryInv'
<1>1. /\ \A c \in Callers : cpc'[c] = "idle"
      /\ cpc'[Boot] = "list" /\ store' = store
      /\ \A w \in Runners : wpc'[w] = "free"
  BY BootAssumption DEF Crash, Clients
<1> QED BY <1>1 DEF RecoveryInv, Apart, BootInSync

(* While clients make no calls, every step keeps RecoveryInv and is a step *)
(* of the contract or a stutter.                                           *)
LEMMA RecoveryStep ==
  ASSUME Calls = {}, IInv, IInv', RecoveryInv, [Next]_vars
  PROVE  RecoveryInv' /\ [Contract!Next]_(Contract!contractVars)
<1>1. CASE UNCHANGED vars
  <2>1. RecoveryInv'
    BY <1>1 DEF vars, clientVars, runnerVars, RecoveryInv, Apart, BootInSync,
                InSync, IsNext, Remaining, Resumable
  <2> QED BY <1>1, <2>1, SameRows DEF vars
<1>2. ASSUME NEW c \in Clients, ResumeSave(c)
      PROVE  RecoveryInv' /\ [Contract!Next]_(Contract!contractVars)
  <2>1. c = Boot
    BY <1>2 DEF Clients, RecoveryInv, ResumeSave
  <2> QED BY <1>2, <2>1, SaveRecovery, ResumeMaps
<1>3. CASE Recover
  <2>1. UNCHANGED store
    BY <1>3 DEF Recover, RecoverList, RecoverNext, RecoverSkip, RecoverReturn
  <2> QED BY <1>3, <2>1, BootRecovery, SameRows
<1>4. ASSUME NEW w \in Runners, RunStep(w)
      PROVE  RecoveryInv' /\ [Contract!Next]_(Contract!contractVars)
  <2>1. \/ UNCHANGED store
        \/ BeginStage(w) \/ Checkpoint(w) \/ Finish(w)
    BY <1>4 DEF RunStep, Enter, TurnAway, Load, LoadFails, ExecuteLoopStage, Exit
  <2> QED BY <1>4, <2>1, RunRecovery, SameRows, BeginMaps, CheckpointMaps, FinishMaps
<1>5. CASE Crash
  <2>1. UNCHANGED store
    BY <1>5 DEF Crash
  <2> QED BY <1>5, <2>1, CrashRecovery, SameRows
<1> QED
  BY <1>1, <1>2, <1>3, <1>4, <1>5
  DEF Next, PlanAutonomousLoop, StartAutonomousLoop, ResumeAutonomousLoop

(* Recovery implements the contract: while no client calls, the rows of    *)
(* any number of loops move as the contract says, through store faults,    *)
(* crashes and repeated recoveries: one stage at a time and in order,      *)
(* resumed from the last checkpoint, COMPLETED with every stage done and   *)
(* final.                                                                  *)
THEOREM RecoveryKeepsContract ==
  ASSUME Calls = {}
  PROVE  Spec => ContractRefined
<1>1. Init => RecoveryInv
  <2> SUFFICES ASSUME Init PROVE RecoveryInv
    OBVIOUS
  <2>1. \A l \in Loops : store[l].status # "READY"
    <3>1. NoRow.status # "READY" /\ Started(PlanLoop).status # "READY"
      BY DEF NoRow, Started, PlanLoop
    <3> QED BY <3>1 DEF Init
  <2>2. /\ \A c \in Callers : cpc[c] = "idle"
        /\ cpc[Boot] = "list" /\ \A w \in Runners : wpc[w] = "free"
    BY BootAssumption DEF Init, Clients
  <2> QED BY <2>1, <2>2 DEF RecoveryInv, Apart, BootInSync
<1>2. Init => Contract!Init
  <2> SUFFICES ASSUME Init PROVE Contract!Init
    OBVIOUS
  <2>1. ASSUME NEW l \in Loops
        PROVE  /\ store[l].status \in {"NONE", "RUNNING"}
               /\ \A s \in Stages : store[l].results[s] # "COMPLETED"
    <3>1. store[l] \in {NoRow, Started(PlanLoop)}
      BY DEF Init
    <3>2. /\ NoRow.status = "NONE" /\ Started(PlanLoop).status = "RUNNING"
          /\ NoRow.results = NoResults /\ Started(PlanLoop).results = NoResults
      BY DEF NoRow, Started, PlanLoop
    <3> QED BY <3>1, <3>2 DEF NoResults
  <2>2. Phase \in [Loops -> {"NONE", "RUNNING"}] /\ Done = [l \in Loops |-> {}]
    BY <2>1 DEF Phase, Done
  <2> QED BY <2>2 DEF Contract!Init, Phase, Done
<1>3. IInv /\ IInv' /\ RecoveryInv /\ [Next]_vars
        => RecoveryInv' /\ [Contract!Next]_(Contract!contractVars)
  BY RecoveryStep
<1> QED BY <1>1, <1>2, <1>3, Invariance, PTL DEF Spec, ContractRefined, Contract!Spec
=============================================================================
