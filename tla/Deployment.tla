----------------------------- MODULE Deployment -----------------------------
(***************************************************************************)
(* deployment.Manager (internal/deployment/service.go) behind the handlers *)
(* deploymentCreate and deploymentRollback (internal/httpapi/              *)
(* deployment.go), with the gate on persisted verification runs that       *)
(* cmd/server/main.go installs.                                            *)
(*                                                                         *)
(* Each created deployment has a goroutine that walks the pipeline; a      *)
(* rollback works on the same in-memory map from a request of its own and  *)
(* both write whole rows of table deployments without looking at them.     *)
(* The map is never reloaded: a restart forgets it.                        *)
(***************************************************************************)
EXTENDS Integers

CONSTANTS
  Deployments,  \* deployment IDs; a deployment and its release are one
  Projects,
  Runs,         \* verification run IDs
  NoRun,        \* a verification_run_id that names no run
  Requests,     \* bodies of create requests
  Callers,      \* concurrent rollback requests
  NoDeployment,
  SaveFaults,   \* may SaveDeployment fail
  ExecFaults,   \* may Runtime.Exec, or the query of the gate, fail
  MaxCrashes    \* bound on server restarts

ASSUME DistinctAssumption == NoRun \notin Runs /\ NoDeployment \notin Deployments
ASSUME FaultAssumption == SaveFaults \in BOOLEAN /\ ExecFaults \in BOOLEAN
ASSUME BoundAssumption == MaxCrashes \in Nat

(* steps of Deploy.                                                        *)
Pipeline == <<"PREPARING", "BUILDING", "TESTING", "VERIFYING", "DEPLOYING",
              "HEALTH_CHECK", "ACTIVE">>
Stages == 1..7
Statuses == {"PENDING", "PREPARING", "BUILDING", "TESTING", "VERIFYING", "DEPLOYING",
             "HEALTH_CHECK", "ACTIVE", "FAILED", "ROLLED_BACK"}

(* The body of a create request: project, Metadata["verification_run_id"], *)
(* and whether build_argv and test_argv, and health_target, are usable.    *)
Inputs == [project : Projects, run : Runs \cup {NoRun}, argv : BOOLEAN, target : BOOLEAN]

ASSUME RequestAssumption == Requests \subseteq Inputs

(* Nothing kept, in the map or in the table.                               *)
Absent == "ABSENT"

VARIABLES
  verdict,   \* verification_runs.status
  input,     \* the columns of a deployment that never change
  mem,       \* Manager.deployments: status
  active,    \* Manager.active
  db,        \* table deployments: status
  placed,    \* deployments whose release is on their runtime
  pc,        \* where the goroutine of a deployment is
  stage,     \* the pipeline step it is at
  final,     \* the status it is about to save
  rollback,  \* rollback requests: where, of what, status read
  passed,    \* stages that ran without error (history)
  disturbed, \* a rollback was requested or a save failed (history)
  crashes

managerVars == <<mem, active>>
pipelineVars == <<pc, stage, final>>
vars == <<verdict, input, managerVars, db, placed, pipelineVars, rollback, passed,
          disturbed, crashes>>

Idle == [at |-> "idle", target |-> NoDeployment, seen |-> Absent]

Init ==
  /\ verdict = [r \in Runs |-> Absent]
  /\ input \in [Deployments -> Requests]
  /\ mem = [d \in Deployments |-> Absent]
  /\ active = [p \in Projects |-> NoDeployment]
  /\ db = [d \in Deployments |-> Absent]
  /\ placed = {}
  /\ pc = [d \in Deployments |-> "none"]
  /\ stage = [d \in Deployments |-> 1]
  /\ final = [d \in Deployments |-> Absent]
  /\ rollback = [c \in Callers |-> Idle]
  /\ passed = [d \in Deployments |-> {}]
  /\ disturbed = {}
  /\ crashes = 0

-----------------------------------------------------------------------------

(* The table; the ways to FAILED and CANCELLED are never asked for.        *)
validTransition(from, to) ==
  \/ from = to
  \/ \E k \in Stages \ {7} : from = Pipeline[k] /\ to = Pipeline[k + 1]
  \/ from = "PENDING" /\ to = "PREPARING"
  \/ from = "ACTIVE" /\ to = "ROLLED_BACK"

SaveOutcomes == IF SaveFaults THEN BOOLEAN ELSE {TRUE}

(* Store.SaveDeployment: an upsert of the whole row; the handlers ignore   *)
(* its error.  A save that fails may have reached the table all the same,  *)
(* its answer being lost.                                                  *)
SaveDeployment(d, status) ==
  \E ok \in SaveOutcomes :
    \/ ok /\ db' = [db EXCEPT ![d] = status] /\ UNCHANGED disturbed
    \/ /\ ~ok
       /\ db' = db \/ db' = [db EXCEPT ![d] = status]
       /\ disturbed' = disturbed \cup {d}

-----------------------------------------------------------------------------
(* External to the manager: VerificationStore.Save of a finished run.      *)
VerificationSaved(r, v) ==
  /\ verdict[r] = Absent
  /\ verdict' = [verdict EXCEPT ![r] = v]
  /\ UNCHANGED <<input, managerVars, db, placed, pipelineVars, rollback, passed,
                 disturbed, crashes>>

(* CreateRelease and CreateDeployment.                                     *)
CreateDeployment(d) ==
  /\ pc[d] = "none"
  /\ pc' = [pc EXCEPT ![d] = "created"]
  /\ mem' = [mem EXCEPT ![d] = "PENDING"]
  /\ UNCHANGED <<verdict, input, active, db, placed, stage, final, rollback, passed,
                 disturbed, crashes>>

(* The handler saves the row and starts the goroutine.                     *)
StartPipeline(d) ==
  /\ pc[d] = "created"
  /\ SaveDeployment(d, "PENDING")
  /\ pc' = [pc EXCEPT ![d] = "transition"]
  /\ UNCHANGED <<verdict, input, managerVars, placed, stage, final, rollback, passed, crashes>>

(* fail: FAILED whatever the status is now; its copy is what gets saved.   *)
fail(d) ==
  /\ mem' = [mem EXCEPT ![d] = "FAILED"]
  /\ final' = [final EXCEPT ![d] = "FAILED"]
  /\ pc' = [pc EXCEPT ![d] = "save"]
  /\ UNCHANGED stage

(* Mutant: the deployment is the active one before it is known healthy.    *)
EnterEarly(d) ==
  /\ mem' = [mem EXCEPT ![d] = Pipeline[stage[d]]]
  /\ active' = IF stage[d] = 6 THEN [active EXCEPT ![input[d].project] = d] ELSE active
  /\ pc' = [pc EXCEPT ![d] = "run"]
  /\ UNCHANGED <<stage, final>>

(* transition to the status of the step.                                   *)
Enter(d) ==
  /\ mem' = [mem EXCEPT ![d] = Pipeline[stage[d]]]
  /\ pc' = [pc EXCEPT ![d] = "run"]
  /\ UNCHANGED <<active, stage, final>>

Transition(d) ==
  /\ pc[d] = "transition"
  /\ \/ validTransition(mem[d], Pipeline[stage[d]]) /\ Enter(d)
     \/ ~validTransition(mem[d], Pipeline[stage[d]]) /\ fail(d) /\ UNCHANGED active
  /\ UNCHANGED <<verdict, input, db, placed, rollback, passed, disturbed, crashes>>

(* Mutant: no verification gate is installed.                              *)
CanPassUngated(d) ==
  /\ stage[d] \in {2, 3} => input[d].argv
  /\ stage[d] = 6 => input[d].target

(* What a step needs: argv arrays, a persisted run that PASSED, a target.  *)
CanPass(d) ==
  /\ stage[d] \in {2, 3} => input[d].argv
  /\ stage[d] = 4 => input[d].run \in Runs /\ verdict[input[d].run] = "PASSED"
  /\ stage[d] = 6 => input[d].target

(* prepare sees a zero EnvironmentConfig; it and activate cannot fail.  An *)
(* error of the gate's query fails VERIFYING although the run PASSED.      *)
CanFail(d) == stage[d] \notin {1, 7} /\ (~CanPass(d) \/ ExecFaults)

(* A step runs; DEPLOYING puts the release on the runtime.                 *)
StepPasses(d) ==
  /\ pc[d] = "run" /\ stage[d] # 7 /\ CanPass(d)
  /\ passed' = [passed EXCEPT ![d] = @ \cup {stage[d]}]
  /\ placed' = IF stage[d] = 5 THEN placed \cup {d} ELSE placed
  /\ stage' = [stage EXCEPT ![d] = @ + 1]
  /\ pc' = [pc EXCEPT ![d] = "transition"]
  /\ UNCHANGED <<verdict, input, managerVars, db, final, rollback, disturbed, crashes>>

StepFails(d) ==
  /\ pc[d] = "run" /\ CanFail(d)
  /\ fail(d)
  /\ UNCHANGED <<verdict, input, active, db, placed, rollback, passed, disturbed, crashes>>

(* activate writes ACTIVE again, in a lock section of its own.             *)
Activate(d) ==
  /\ pc[d] = "run" /\ stage[d] = 7
  /\ mem' = [mem EXCEPT ![d] = "ACTIVE"]
  /\ active' = [active EXCEPT ![input[d].project] = d]
  /\ pc' = [pc EXCEPT ![d] = "final"]
  /\ UNCHANGED <<verdict, input, db, placed, stage, final, rollback, passed, disturbed, crashes>>

(* Mutant: the copy made at the start of Deploy is returned.               *)
ReadFinalStale(d) ==
  /\ pc[d] = "final"
  /\ final' = [final EXCEPT ![d] = "PENDING"]
  /\ pc' = [pc EXCEPT ![d] = "save"]
  /\ UNCHANGED <<verdict, input, managerVars, db, placed, stage, rollback, passed,
                 disturbed, crashes>>

(* Deploy returns what the map holds.                                      *)
ReadFinal(d) ==
  /\ pc[d] = "final"
  /\ final' = [final EXCEPT ![d] = mem[d]]
  /\ pc' = [pc EXCEPT ![d] = "save"]
  /\ UNCHANGED <<verdict, input, managerVars, db, placed, stage, rollback, passed,
                 disturbed, crashes>>

SaveFinal(d) ==
  /\ pc[d] = "save"
  /\ SaveDeployment(d, final[d])
  /\ pc' = [pc EXCEPT ![d] = "done"]
  /\ stage' = [stage EXCEPT ![d] = 1]
  /\ final' = [final EXCEPT ![d] = Absent]
  /\ UNCHANGED <<verdict, input, managerVars, placed, rollback, passed, crashes>>

-----------------------------------------------------------------------------
(* Rollback: any deployment the map holds, in any status; the project of   *)
(* the request is not compared with it.                                    *)
RequestRollback(c, d) ==
  /\ rollback[c].at = "idle" /\ mem[d] # Absent
  /\ rollback' = [rollback EXCEPT ![c] = [at |-> "deploy", target |-> d, seen |-> Absent]]
  /\ disturbed' = disturbed \cup {d}
  /\ UNCHANGED <<verdict, input, managerVars, db, placed, pipelineVars, passed, crashes>>

(* Deployer.Deploy of the target's release.                                *)
RollbackDeploys(c) ==
  /\ rollback[c].at = "deploy"
  /\ placed' = placed \cup {rollback[c].target}
  /\ rollback' = [rollback EXCEPT ![c].at = "mark"]
  /\ UNCHANGED <<verdict, input, managerVars, db, pipelineVars, passed, disturbed, crashes>>

RollbackFails(c) ==
  /\ rollback[c].at = "deploy" /\ ExecFaults
  /\ rollback' = [rollback EXCEPT ![c] = Idle]
  /\ UNCHANGED <<verdict, input, managerVars, db, placed, pipelineVars, passed, disturbed,
                 crashes>>

(* transition to ROLLED_BACK; its error is ignored.                        *)
RollbackMarks(c) ==
  LET d == rollback[c].target IN
  /\ rollback[c].at = "mark"
  /\ mem' = IF validTransition(mem[d], "ROLLED_BACK")
            THEN [mem EXCEPT ![d] = "ROLLED_BACK"] ELSE mem
  /\ rollback' = [rollback EXCEPT ![c].at = "read"]
  /\ UNCHANGED <<verdict, input, active, db, placed, pipelineVars, passed, disturbed, crashes>>

RollbackReads(c) ==
  /\ rollback[c].at = "read"
  /\ rollback' = [rollback EXCEPT ![c] = [at |-> "save", target |-> rollback[c].target,
                                        seen |-> mem[rollback[c].target]]]
  /\ UNCHANGED <<verdict, input, managerVars, db, placed, pipelineVars, passed, disturbed,
                 crashes>>

RollbackSaves(c) ==
  /\ rollback[c].at = "save"
  /\ SaveDeployment(rollback[c].target, rollback[c].seen)
  /\ rollback' = [rollback EXCEPT ![c] = Idle]
  /\ UNCHANGED <<verdict, input, managerVars, placed, pipelineVars, passed, crashes>>

(* The server is restarted with an empty Manager.                          *)
Restart ==
  /\ crashes < MaxCrashes
  /\ crashes' = crashes + 1
  /\ mem' = [d \in Deployments |-> Absent]
  /\ active' = [p \in Projects |-> NoDeployment]
  /\ pc' = [d \in Deployments |-> IF pc[d] = "none" THEN "none" ELSE "lost"]
  /\ stage' = [d \in Deployments |-> 1]
  /\ final' = [d \in Deployments |-> Absent]
  /\ rollback' = [c \in Callers |-> Idle]
  /\ UNCHANGED <<verdict, input, db, placed, passed, disturbed>>

Deploy(d) ==
  \/ Transition(d) \/ StepPasses(d) \/ StepFails(d) \/ Activate(d) \/ ReadFinal(d)
  \/ SaveFinal(d)

Rollback(c) ==
  \/ RollbackDeploys(c) \/ RollbackFails(c) \/ RollbackMarks(c) \/ RollbackReads(c)
  \/ RollbackSaves(c)

Next ==
  \/ Restart
  \/ \E r \in Runs, v \in {"PASSED", "FAILED"} : VerificationSaved(r, v)
  \/ \E d \in Deployments : CreateDeployment(d) \/ StartPipeline(d) \/ Deploy(d)
  \/ \E c \in Callers, d \in Deployments : RequestRollback(c, d)
  \/ \E c \in Callers : Rollback(c)

Spec == Init /\ [][Next]_vars

-----------------------------------------------------------------------------
Places == {"none", "created", "transition", "run", "final", "save", "done", "lost"}

Rollbacks == [at : {"idle", "deploy", "mark", "read", "save"},
              target : Deployments \cup {NoDeployment}, seen : Statuses \cup {Absent}]

TypeOK ==
  /\ verdict \in [Runs -> {Absent, "PASSED", "FAILED"}]
  /\ input \in [Deployments -> Inputs]
  /\ mem \in [Deployments -> Statuses \cup {Absent}]
  /\ active \in [Projects -> Deployments \cup {NoDeployment}]
  /\ db \in [Deployments -> Statuses \cup {Absent}]
  /\ placed \subseteq Deployments
  /\ pc \in [Deployments -> Places]
  /\ stage \in [Deployments -> Stages]
  /\ final \in [Deployments -> Statuses \cup {Absent}]
  /\ rollback \in [Callers -> Rollbacks]
  /\ passed \in [Deployments -> SUBSET Stages]
  /\ disturbed \subseteq Deployments
  /\ crashes \in 0..MaxCrashes

(* The deployment went through build, test, a PASSED verification run, the *)
(* deployer and a health check.                                            *)
Earned(d) ==
  /\ 1..6 \subseteq passed[d]
  /\ input[d].run \in Runs /\ verdict[input[d].run] = "PASSED"
  /\ input[d].argv /\ input[d].target

(* "Activation is fail-closed" (PHASE7_STATUS.md): neither the map nor the *)
(* table, nor a status some request is about to save, ever says ACTIVE or  *)
(* ROLLED_BACK of a deployment that did not pass every gate - with         *)
(* rollbacks of half-way deployments, failed saves and restarts in between. *)
ActiveIsEarned ==
  \A d \in Deployments :
    {mem[d], db[d]} \cap {"ACTIVE", "ROLLED_BACK"} # {} => Earned(d)

(* Manager.active points to a deployment of the project that the map       *)
(* still has as ACTIVE or ROLLED_BACK: a failing pipeline never leaves the *)
(* pointer behind.                                                         *)
PointerIsLive ==
  \A p \in Projects : active[p] # NoDeployment =>
    /\ input[active[p]].project = p
    /\ mem[active[p]] \in {"ACTIVE", "ROLLED_BACK"}

(* A failed deployment stays failed as long as the server runs, whatever   *)
(* rollbacks are requested of it (validTransition leaves FAILED no way).   *)
FailedStays ==
  [][\A d \in Deployments : mem[d] = "FAILED" => mem'[d] \in {"FAILED", Absent}]_vars

(* The history a client lists from the table agrees with the manager once  *)
(* a pipeline has ended, unless a save failed or a rollback interfered.    *)
RecordSettles ==
  \A d \in Deployments \ disturbed : pc[d] = "done" => db[d] = mem[d]

(* When Deploy has returned the deployment has an end status, and it keeps *)
(* one: no client polls a deployment nobody works on, unless the server    *)
(* was restarted.                                                          *)
EndedIsTerminal ==
  \A d \in Deployments : pc[d] \in {"save", "done"} =>
    mem[d] \in {"ACTIVE", "FAILED", "ROLLED_BACK"}
=============================================================================
