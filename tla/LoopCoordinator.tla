-------------------------- MODULE LoopCoordinator --------------------------
(***************************************************************************)
(* productexperience.Coordinator (internal/productexperience/              *)
(* loop_coordinator.go) with the persisted loop rows, the HTTP calls that  *)
(* reach it and the recovery that cmd/server starts at boot.               *)
(*                                                                         *)
(* Every request runs on its own goroutine; Start leaves a goroutine `run` *)
(* behind.  They share the row of the loop, which everybody reads and      *)
(* writes as a whole copy, and the map `running`, the only thing guarded   *)
(* by the mutex.  A crash keeps the rows and loses the rest.               *)
(***************************************************************************)
EXTENDS Integers

CONSTANTS
  Loops,        \* loop IDs; PlanLoop gives a project one loop
  NoLoop,       \* no loop ID
  NumStages,    \* length of plan.Stages
  Callers,      \* concurrent POST .../resume requests
  Boot,         \* the goroutine that runs Recover at startup
  Runners,      \* goroutines of run (a bound on how many exist at once)
  Calls,        \* the API calls clients make: "plan", "start", "resume"
  StoreFaults,  \* may a store call fail
  Outcomes,     \* what ExecuteLoopStage may report
  MaxCrashes    \* bound on process crashes

Stages == 1..NumStages
Clients == Callers \cup {Boot}

(* What a stage can end in: "ERROR" stands for a returned error, "BLOCKED" *)
(* for BLOCKED and BLOCKED_BY_ENVIRONMENT, "OTHER" for any other State.    *)
StageStates == {"COMPLETED", "BLOCKED", "ERROR", "OTHER"}

ASSUME StagesAssumption == NumStages \in Nat \ {0}
ASSUME LoopsAssumption == NoLoop \notin Loops
ASSUME BootAssumption == Boot \notin Callers
ASSUME FaultAssumption == StoreFaults \in BOOLEAN
ASSUME OutcomesAssumption == Outcomes \subseteq StageStates
ASSUME CrashAssumption == MaxCrashes \in Nat

Statuses == {"NONE", "READY", "RUNNING", "BLOCKED", "FAILED", "COMPLETED"}

(* LoopExecution: Status, CurrentStage (0 for "") and Results ("NONE": no  *)
(* entry).  Goal, error text and timestamps are left out.                  *)
Rows == [status : Statuses, current : 0..NumStages,
         results : [Stages -> StageStates \cup {"NONE"}]]

NoResults == [s \in Stages |-> "NONE"]
(* No row in the table.                                                    *)
NoRow == [status |-> "NONE", current |-> 0, results |-> NoResults]

VARIABLES
  store,     \* autonomous_loop_plans
  running,   \* Coordinator.running, as the set of its keys
  cpc,       \* where a client is: "idle", "save"; Boot: "list", "next"
  cloop,     \* the loop a client resumes
  ccopy,     \* the execution a client read
  todo,      \* executions Recover has still to resume
  wpc,       \* where a run goroutine is; "free": does not exist
  wloop,     \* its id argument
  wcopy,     \* its local execution
  faults,    \* whether store calls fail in this behaviour; never changes
  crashes    \* crashes so far

clientVars == <<cpc, cloop, ccopy, todo>>
runnerVars == <<wpc, wloop, wcopy>>
envVars == <<faults, crashes>>
vars == <<store, running, clientVars, runnerVars, envVars>>

-----------------------------------------------------------------------------
(* PlanLoop: a plan with nothing executed.  READY stands for               *)
(* PARTIALLY_BLOCKED too; nothing reads the difference.                    *)
PlanLoop == [status |-> "READY", current |-> 0, results |-> NoResults]

(* The execution Start persists.                                           *)
Started(e) == [e EXCEPT !.status = "RUNNING",
                        !.current = IF e.current = 0 THEN 1 ELSE e.current]

(* SaveLoopExecution: INSERT ... ON CONFLICT DO UPDATE of the whole row.   *)
(* A failed call (ok = FALSE) may or may not have reached the database.    *)
SaveLoopExecution(l, e, ok) ==
  \/ store' = [store EXCEPT ![l] = e]
  \/ ~ok /\ UNCHANGED store

(* The results of a store call.                                            *)
SaveOutcomes == IF faults THEN BOOLEAN ELSE {TRUE}

(* `go c.run(...)`                                                         *)
Spawn(w, l) ==
  /\ wpc[w] = "free"
  /\ wpc' = [wpc EXCEPT ![w] = "spawned"]
  /\ wloop' = [wloop EXCEPT ![w] = l]
  /\ UNCHANGED wcopy

(* Start(e) for loop l: persist, then run in the background; when the save *)
(* fails the error goes to the caller and nothing is started.              *)
Start(l, e, ok) ==
  /\ SaveLoopExecution(l, Started(e), ok)
  /\ \/ ok /\ \E w \in Runners : Spawn(w, l)
     \/ ~ok /\ UNCHANGED runnerVars

(* Mutant: any recorded result counts as done.                             *)
RemainingUnrecorded(e) == {s \in Stages : e.results[s] = "NONE"}

(* run's loop skips stages whose result is COMPLETED.                      *)
Remaining(e) == {s \in Stages : e.results[s] # "COMPLETED"}

(* The stage the loop comes to next.                                       *)
IsNext(e, s) == s \in Remaining(e) /\ \A t \in Remaining(e) : s <= t

(* The execution after stage s ended in o (lines 127-148).                 *)
WithResult(e, s, o) ==
  [e EXCEPT !.results[s] = o,
            !.status = CASE o = "COMPLETED" -> @
                         [] o = "BLOCKED" -> "BLOCKED"
                         [] OTHER -> "FAILED"]

(* Goroutines of run that passed the guard on `running`.                   *)
Entered == {w \in Runners : wpc[w] \in {"load", "stage", "exec", "checkpoint", "exit"}}

-----------------------------------------------------------------------------
Init ==
  /\ store \in [Loops -> {NoRow, Started(PlanLoop)}]  \* left by an earlier process
  /\ running = {}
  /\ cpc = [c \in Clients |-> IF c = Boot THEN "list" ELSE "idle"]
  /\ cloop = [c \in Clients |-> NoLoop]
  /\ ccopy = [c \in Clients |-> NoRow]
  /\ todo = {}
  /\ wpc = [w \in Runners |-> "free"]
  /\ wloop = [w \in Runners |-> NoLoop]
  /\ wcopy = [w \in Runners |-> NoRow]
  /\ faults \in {FALSE, StoreFaults}
  /\ crashes = 0

-----------------------------------------------------------------------------
(* HTTP handlers.  Planning and starting touch the store once, so each is  *)
(* one step; resuming reads first and saves later.                         *)

(* planAutonomousLoop: SaveLoop replaces whatever row is there.            *)
PlanAutonomousLoop(l) ==
  /\ "plan" \in Calls
  /\ \E ok \in SaveOutcomes : SaveLoopExecution(l, PlanLoop, ok)
  /\ UNCHANGED <<running, clientVars, runnerVars, envVars>>

(* startAutonomousLoop: Start with a fresh plan.                           *)
StartAutonomousLoop(l) ==
  /\ "start" \in Calls
  /\ \E ok \in SaveOutcomes : Start(l, PlanLoop, ok)
  /\ UNCHANGED <<running, clientVars, envVars>>

(* Resume up to its Start: the client holds the execution it read.         *)
Hold(c, l) ==
  /\ cpc' = [cpc EXCEPT ![c] = "save"]
  /\ cloop' = [cloop EXCEPT ![c] = l]
  /\ ccopy' = [ccopy EXCEPT ![c] = store[l]]

(* Resume returns early for a missing row and for a COMPLETED loop.        *)
Resumable(e) == e.status \notin {"NONE", "COMPLETED"}

(* resumeAutonomousLoop.                                                   *)
ResumeAutonomousLoop(c, l) ==
  /\ "resume" \in Calls /\ cpc[c] = "idle"
  /\ Resumable(store[l])
  /\ Hold(c, l)
  /\ UNCHANGED <<store, running, todo, runnerVars, envVars>>

(* The client is through with Resume.                                      *)
Release(c, pc) ==
  /\ cpc' = [cpc EXCEPT ![c] = pc]
  /\ cloop' = [cloop EXCEPT ![c] = NoLoop]
  /\ ccopy' = [ccopy EXCEPT ![c] = NoRow]

(* Resume's call of Start, with the copy read before.                      *)
ResumeSave(c) ==
  /\ cpc[c] = "save"
  /\ \E ok \in SaveOutcomes :
       /\ Start(cloop[c], ccopy[c], ok)
       /\ \/ c # Boot /\ Release(c, "idle") /\ UNCHANGED todo
          \/ c = Boot /\ ok /\ Release(c, "next") /\ UNCHANGED todo
          \/ c = Boot /\ ~ok /\ Release(c, "idle") /\ todo' = {}
  /\ UNCHANGED <<running, envVars>>

-----------------------------------------------------------------------------
(* Recover, started by main in a goroutine while the API already serves.   *)

(* Mutant: only BLOCKED loops are recovered.                               *)
RunnableBlocked == {l \in Loops : store[l].status = "BLOCKED"}

ListRunnableLoopExecutions ==
  {l \in Loops : store[l].status \in {"RUNNING", "BLOCKED"}}

RecoverList ==
  /\ cpc[Boot] = "list"
  /\ todo' = ListRunnableLoopExecutions
  /\ cpc' = [cpc EXCEPT ![Boot] = "next"]
  /\ UNCHANGED <<store, running, cloop, ccopy, runnerVars, envVars>>

(* The next execution of the list; the order (updated_at) is left open.    *)
RecoverNext(l) ==
  /\ cpc[Boot] = "next" /\ l \in todo
  /\ Resumable(store[l])
  /\ Hold(Boot, l)
  /\ todo' = todo \ {l}
  /\ UNCHANGED <<store, running, runnerVars, envVars>>

(* It was completed meanwhile.                                             *)
RecoverSkip(l) ==
  /\ cpc[Boot] = "next" /\ l \in todo
  /\ ~Resumable(store[l])
  /\ todo' = todo \ {l}
  /\ UNCHANGED <<store, running, cpc, cloop, ccopy, runnerVars, envVars>>

(* The list is done, or a read failed and Recover gives up on the rest.    *)
RecoverReturn ==
  /\ \/ cpc[Boot] = "next" /\ todo = {}
     \/ cpc[Boot] \in {"list", "next"} /\ faults
  /\ Release(Boot, "idle")
  /\ todo' = {}
  /\ UNCHANGED <<store, running, runnerVars, envVars>>

-----------------------------------------------------------------------------
(* run                                                                     *)

(* Mutant: the guard on `running` is dropped.                              *)
EnterUnguarded(w) ==
  /\ wpc[w] = "spawned"
  /\ running' = running \cup {wloop[w]}
  /\ wpc' = [wpc EXCEPT ![w] = "load"]
  /\ UNCHANGED <<store, clientVars, wloop, wcopy, envVars>>

Enter(w) ==
  /\ wpc[w] = "spawned" /\ wloop[w] \notin running
  /\ running' = running \cup {wloop[w]}
  /\ wpc' = [wpc EXCEPT ![w] = "load"]
  /\ UNCHANGED <<store, clientVars, wloop, wcopy, envVars>>

(* The goroutine ends and its locals are gone.                             *)
Gone(w) ==
  /\ wpc' = [wpc EXCEPT ![w] = "free"]
  /\ wloop' = [wloop EXCEPT ![w] = NoLoop]
  /\ wcopy' = [wcopy EXCEPT ![w] = NoRow]

(* Another goroutine runs the loop: nothing to do.                         *)
TurnAway(w) ==
  /\ wpc[w] = "spawned" /\ wloop[w] \in running
  /\ Gone(w)
  /\ UNCHANGED <<store, running, clientVars, envVars>>

Load(w) ==
  /\ wpc[w] = "load"
  /\ wcopy' = [wcopy EXCEPT ![w] = store[wloop[w]]]
  /\ wpc' = [wpc EXCEPT ![w] = "stage"]
  /\ UNCHANGED <<store, running, clientVars, wloop, envVars>>

LoadFails(w) ==
  /\ wpc[w] = "load" /\ faults
  /\ wpc' = [wpc EXCEPT ![w] = "exit"]
  /\ UNCHANGED <<store, running, clientVars, wloop, wcopy, envVars>>

(* The local execution becomes e and is saved.                             *)
Persist(w, e, ok) ==
  /\ wcopy' = [wcopy EXCEPT ![w] = e]
  /\ SaveLoopExecution(wloop[w], e, ok)

(* CurrentStage is saved before the stage executes; the error is ignored.  *)
BeginStage(w) ==
  /\ wpc[w] = "stage"
  /\ \E s \in Stages, ok \in SaveOutcomes :
       /\ IsNext(wcopy[w], s)
       /\ Persist(w, [wcopy[w] EXCEPT !.current = s], ok)
  /\ wpc' = [wpc EXCEPT ![w] = "exec"]
  /\ UNCHANGED <<running, clientVars, wloop, envVars>>

ExecuteLoopStage(w) ==
  /\ wpc[w] = "exec"
  /\ \E o \in Outcomes :
       wcopy' = [wcopy EXCEPT ![w] = WithResult(wcopy[w], wcopy[w].current, o)]
  /\ wpc' = [wpc EXCEPT ![w] = "checkpoint"]
  /\ UNCHANGED <<store, running, clientVars, wloop, envVars>>

(* Mutant: the loop goes on although the checkpoint was not saved.         *)
GoesOnUnsaved(e, ok) == e.results[e.current] = "COMPLETED"

(* The loop goes on after a completed stage that was saved.                *)
GoesOn(e, ok) == ok /\ e.results[e.current] = "COMPLETED"

Checkpoint(w) ==
  /\ wpc[w] = "checkpoint"
  /\ \E ok \in SaveOutcomes :
       /\ Persist(w, wcopy[w], ok)
       /\ wpc' = [wpc EXCEPT ![w] = IF GoesOn(wcopy[w], ok) THEN "stage" ELSE "exit"]
  /\ UNCHANGED <<running, clientVars, wloop, envVars>>

(* Every stage is COMPLETED.                                               *)
Finish(w) ==
  /\ wpc[w] = "stage" /\ Remaining(wcopy[w]) = {}
  /\ \E ok \in SaveOutcomes :
       Persist(w, [wcopy[w] EXCEPT !.current = 0, !.status = "COMPLETED"], ok)
  /\ wpc' = [wpc EXCEPT ![w] = "exit"]
  /\ UNCHANGED <<running, clientVars, wloop, envVars>>

(* The deferred delete(c.running, id).                                     *)
Exit(w) ==
  /\ wpc[w] = "exit"
  /\ running' = running \ {wloop[w]}
  /\ Gone(w)
  /\ UNCHANGED <<store, clientVars, envVars>>

-----------------------------------------------------------------------------
(* The process dies and is started again: the rows are all that is left.   *)
Crash ==
  /\ crashes < MaxCrashes
  /\ crashes' = crashes + 1
  /\ running' = {}
  /\ cpc' = [c \in Clients |-> IF c = Boot THEN "list" ELSE "idle"]
  /\ cloop' = [c \in Clients |-> NoLoop]
  /\ ccopy' = [c \in Clients |-> NoRow]
  /\ todo' = {}
  /\ wpc' = [w \in Runners |-> "free"]
  /\ wloop' = [w \in Runners |-> NoLoop]
  /\ wcopy' = [w \in Runners |-> NoRow]
  /\ UNCHANGED <<store, faults>>

RunStep(w) ==
  \/ Enter(w) \/ TurnAway(w) \/ Load(w) \/ LoadFails(w) \/ BeginStage(w)
  \/ ExecuteLoopStage(w) \/ Checkpoint(w) \/ Finish(w) \/ Exit(w)

Recover ==
  \/ RecoverList \/ RecoverReturn
  \/ \E l \in Loops : RecoverNext(l) \/ RecoverSkip(l)

Next ==
  \/ \E l \in Loops : PlanAutonomousLoop(l) \/ StartAutonomousLoop(l)
  \/ \E c \in Callers, l \in Loops : ResumeAutonomousLoop(c, l)
  \/ \E c \in Clients : ResumeSave(c)
  \/ Recover
  \/ \E w \in Runners : RunStep(w)
  \/ Crash

Spec == Init /\ [][Next]_vars

(* Goroutines are scheduled and store and executor calls return.           *)
Fairness ==
  /\ WF_vars(Recover)
  /\ \A c \in Clients : WF_vars(ResumeSave(c))
  /\ \A w \in Runners : WF_vars(RunStep(w))
FairSpec == Spec /\ Fairness

-----------------------------------------------------------------------------
TypeOK ==
  /\ store \in [Loops -> Rows]
  /\ running \subseteq Loops
  /\ cpc \in [Clients -> {"idle", "save", "list", "next"}]
  /\ cloop \in [Clients -> Loops \cup {NoLoop}]
  /\ ccopy \in [Clients -> Rows]
  /\ todo \subseteq Loops
  /\ wpc \in [Runners -> {"free", "spawned", "load", "stage", "exec",
                          "checkpoint", "exit"}]
  /\ wloop \in [Runners -> Loops \cup {NoLoop}]
  /\ wcopy \in [Runners -> Rows]
  /\ faults \in BOOLEAN
  /\ crashes \in 0..MaxCrashes

(* Whatever requests, recovery and crashes do, two goroutines never run    *)
(* the same loop, and `running` names a loop only while one of them does:  *)
(* a leaked entry would make every later run of the loop return at once.   *)
OneWorkerPerLoop ==
  /\ \A v, w \in Entered : wloop[v] = wloop[w] => v = w
  /\ running = {wloop[w] : w \in Entered}

(* The persisted results, and every copy of them held by a request or a    *)
(* worker, never show a stage completed before the stages ahead of it:     *)
(* stale copies may lose stages at the end, never in the middle.           *)
InOrder(e) ==
  \A s, t \in Stages :
    s < t /\ e.results[t] = "COMPLETED" => e.results[s] = "COMPLETED"
StagesInOrder ==
  /\ \A l \in Loops : InOrder(store[l])
  /\ \A w \in Runners : InOrder(wcopy[w])
  /\ \A c \in Clients : InOrder(ccopy[c])

(* A row says COMPLETED only with a COMPLETED result for every stage, also *)
(* when plans, starts and stale resumes overwrite it under the worker.     *)
CompletedMeansAllDone ==
  \A l \in Loops :
    store[l].status = "COMPLETED" =>
      store[l].current = 0 /\ \A s \in Stages : store[l].results[s] = "COMPLETED"

(* The rows follow the contract of SUDA_FORGE_PRODUCTION_READINESS.md:     *)
(* one checkpoint at a time, resumed from the last one, COMPLETED final.   *)
Contract == INSTANCE LoopContract WITH
  phase <- [l \in Loops |-> store[l].status],
  done  <- [l \in Loops |-> {s \in Stages : store[l].results[s] = "COMPLETED"}]
ContractRefined == Contract!Spec

(* While the store answers, a loop found RUNNING by recovery does not stay *)
(* RUNNING forever.                                                        *)
LoopSettles ==
  \A l \in Loops :
    ~faults /\ store[l].status = "RUNNING" ~> store[l].status # "RUNNING"
=============================================================================
