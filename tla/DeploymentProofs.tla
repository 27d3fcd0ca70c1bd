-------------------------- MODULE DeploymentProofs --------------------------
(* Proofs about Deployment, for any deployments, projects, verification    *)
(* runs and rollback requests.                                             *)
EXTENDS Deployment, TLAPS

(* What the goroutine of d has behind it when it is at its stage.          *)
Verified(d) == input[d].run \in Runs /\ verdict[input[d].run] = "PASSED"

Behind(d) ==
  pc[d] \in {"transition", "run"} =>
    /\ \A k \in Stages : k < stage[d] => k \in passed[d]
    /\ stage[d] > 3 => input[d].argv
    /\ stage[d] > 4 => Verified(d)
    /\ stage[d] > 6 => input[d].target

EndStatuses == {"ACTIVE", "ROLLED_BACK"}

(* Every copy of the status that may still be written.                     *)
Copies(d) ==
  /\ mem[d] \in EndStatuses \/ db[d] \in EndStatuses \/ final[d] \in EndStatuses => Earned(d)
  /\ \A c \in Callers : rollback[c].target = d /\ rollback[c].seen \in EndStatuses => Earned(d)

Ends(d) ==
  /\ pc[d] \in {"save", "done"} => mem[d] \in EndStatuses \cup {"FAILED"}
  /\ mem[d] = "FAILED" => pc[d] \in {"save", "done"}
  /\ pc[d] = "final" => mem[d] \in EndStatuses
  /\ pc[d] \in {"none", "lost"} <=> mem[d] = Absent
  /\ pc[d] \in {"none", "created"} => stage[d] = 1

Pointer ==
  \A p \in Projects : active[p] # NoDeployment =>
    /\ input[active[p]].project = p
    /\ mem[active[p]] \in EndStatuses
    /\ pc[active[p]] \in {"final", "save", "done"}

Targets ==
  \A c \in Callers : rollback[c].at # "idle" =>
    rollback[c].target \in Deployments /\ mem[rollback[c].target] # Absent

IInv ==
  /\ TypeOK
  /\ \A d \in Deployments : Behind(d)
  /\ \A d \in Deployments : Copies(d)
  /\ \A d \in Deployments : Ends(d)
  /\ Pointer
  /\ Targets

-----------------------------------------------------------------------------
(* What the provers need of the table of steps.                            *)
LEMMA PipelineFacts ==
  /\ \A k \in Stages : Pipeline[k] \in Statuses \ {"PENDING", "FAILED", "ROLLED_BACK"}
  /\ \A k \in Stages : Pipeline[k] = "ACTIVE" => k = 7
  BY DEF Pipeline, Stages, Statuses

(* Only ACTIVE and ROLLED_BACK lead to ROLLED_BACK (validTransition).      *)
LEMMA RollbackSource ==
  ASSUME NEW s, validTransition(s, "ROLLED_BACK")
  PROVE  s \in EndStatuses
  BY DEF validTransition, Pipeline, Stages, EndStatuses

(* A deployment that passed the first six steps is earned.                 *)
LEMMA EarnedAtLast ==
  ASSUME TypeOK, NEW d \in Deployments, Behind(d),
         pc[d] \in {"transition", "run"}, stage[d] = 7
  PROVE  Earned(d)
  BY DEF TypeOK, Behind, Earned, Verified, Stages

LEMMA InitIInv == Init => IInv
  <1> SUFFICES ASSUME Init PROVE IInv
    OBVIOUS
  <1>1. TypeOK
    BY RequestAssumption, BoundAssumption DEF Init, TypeOK, Idle, Absent, Statuses, Stages, Places, Rollbacks
  <1>2. \A d \in Deployments : Behind(d) /\ Copies(d) /\ Ends(d)
    BY DEF Init, Behind, Copies, Ends, Idle, Absent, EndStatuses
  <1>3. Pointer /\ Targets
    BY DEF Init, Pointer, Targets, Idle
  <1> QED
    BY <1>1, <1>2, <1>3 DEF IInv

-----------------------------------------------------------------------------
(* A verification run is stored: verdicts that exist stay as they are.     *)
LEMMA VerificationSavedStep ==
  ASSUME IInv, NEW r \in Runs, NEW v \in {"PASSED", "FAILED"}, VerificationSaved(r, v)
  PROVE  IInv'
  <1> USE DEF IInv
  <1>1. TypeOK'
    BY PipelineFacts, BoundAssumption
       DEF VerificationSaved, managerVars, pipelineVars, TypeOK, Statuses, Absent,
           Stages, Places
  <1>2. \A e \in Deployments : Behind(e)'
    <2>1. \A e \in Deployments : Verified(e) => Verified(e)'
      BY DEF VerificationSaved, TypeOK, Verified, Absent
    <2> QED
      BY <2>1 DEF VerificationSaved, pipelineVars, Behind
  <1>3. \A e \in Deployments : Copies(e)'
    BY EarnedAtLast, PipelineFacts, RollbackSource
       DEF VerificationSaved, managerVars, pipelineVars, TypeOK, Copies, Earned,
           EndStatuses, Absent, Stages
  <1>4. \A e \in Deployments : Ends(e)'
    BY PipelineFacts, RollbackSource
       DEF VerificationSaved, managerVars, pipelineVars, TypeOK, Ends, EndStatuses,
           Absent, Statuses, Stages
  <1>5. Pointer'
    BY RollbackSource, DistinctAssumption
       DEF VerificationSaved, managerVars, pipelineVars, TypeOK, Pointer, EndStatuses
  <1>6. Targets'
    BY PipelineFacts
       DEF VerificationSaved, managerVars, pipelineVars, TypeOK, Targets, Statuses,
           Absent, Stages, EndStatuses
  <1> QED
    BY <1>1, <1>2, <1>3, <1>4, <1>5, <1>6

(* A new deployment has nothing behind it.                                 *)
LEMMA CreateDeploymentStep ==
  ASSUME IInv, NEW d \in Deployments, CreateDeployment(d)
  PROVE  IInv'
  <1> USE DEF IInv
  <1>1. TypeOK'
    BY PipelineFacts, BoundAssumption
       DEF CreateDeployment, managerVars, pipelineVars, TypeOK, Statuses, Absent,
           Stages, Places
  <1>2. \A e \in Deployments : Behind(e)'
    BY DEF CreateDeployment, managerVars, pipelineVars, TypeOK, Behind, Verified, Stages
  <1>3. \A e \in Deployments : Copies(e)'
    BY EarnedAtLast, PipelineFacts, RollbackSource
       DEF CreateDeployment, managerVars, pipelineVars, TypeOK, Copies, Earned,
           EndStatuses, Absent, Stages
  <1>4. \A e \in Deployments : Ends(e)'
    BY PipelineFacts, RollbackSource
       DEF CreateDeployment, managerVars, pipelineVars, TypeOK, Ends, EndStatuses,
           Absent, Statuses, Stages
  <1>5. Pointer'
    BY RollbackSource, DistinctAssumption
       DEF CreateDeployment, managerVars, pipelineVars, TypeOK, Pointer, EndStatuses
  <1>6. Targets'
    BY PipelineFacts
       DEF CreateDeployment, managerVars, pipelineVars, TypeOK, Targets, Statuses,
           Absent, Stages, EndStatuses
  <1> QED
    BY <1>1, <1>2, <1>3, <1>4, <1>5, <1>6

(* The goroutine starts at the first step.                                 *)
LEMMA StartPipelineStep ==
  ASSUME IInv, NEW d \in Deployments, StartPipeline(d)
  PROVE  IInv'
  <1> USE DEF IInv
  <1>1. TypeOK'
    BY PipelineFacts, BoundAssumption
       DEF StartPipeline, SaveDeployment, SaveOutcomes, managerVars, pipelineVars,
           TypeOK, Statuses, Absent, Stages, Places
  <1>2. \A e \in Deployments : Behind(e)'
    BY DEF StartPipeline, SaveDeployment, SaveOutcomes, managerVars, pipelineVars,
           TypeOK, Behind, Verified, Stages, Ends
  <1>3. \A e \in Deployments : Copies(e)'
    BY EarnedAtLast, PipelineFacts, RollbackSource
       DEF StartPipeline, SaveDeployment, SaveOutcomes, managerVars, pipelineVars,
           TypeOK, Copies, Earned, EndStatuses, Absent, Stages
  <1>4. \A e \in Deployments : Ends(e)'
    BY PipelineFacts, RollbackSource
       DEF StartPipeline, SaveDeployment, SaveOutcomes, managerVars, pipelineVars,
           TypeOK, Ends, EndStatuses, Absent, Statuses, Stages
  <1>5. Pointer'
    BY RollbackSource, DistinctAssumption
       DEF StartPipeline, SaveDeployment, SaveOutcomes, managerVars, pipelineVars,
           TypeOK, Pointer, EndStatuses
  <1>6. Targets'
    BY PipelineFacts
       DEF StartPipeline, SaveDeployment, SaveOutcomes, managerVars, pipelineVars,
           TypeOK, Targets, Statuses, Absent, Stages, EndStatuses
  <1> QED
    BY <1>1, <1>2, <1>3, <1>4, <1>5, <1>6

(* Entering ACTIVE needs the six steps before; a refused transition fails. *)
LEMMA TransitionStep ==
  ASSUME IInv, NEW d \in Deployments, Transition(d)
  PROVE  IInv'
  <1> USE DEF IInv
  <1>1. TypeOK'
    BY PipelineFacts, BoundAssumption
       DEF Transition, Enter, fail, managerVars, pipelineVars, TypeOK, Statuses,
           Absent, Stages, Places
  <1>2. \A e \in Deployments : Behind(e)'
    BY DEF Transition, Enter, fail, managerVars, pipelineVars, TypeOK, Behind,
           Verified, Stages
  <1>3. \A e \in Deployments : Copies(e)'
    BY EarnedAtLast, PipelineFacts, RollbackSource
       DEF Transition, Enter, fail, managerVars, pipelineVars, TypeOK, Copies, Earned,
           EndStatuses, Absent, Stages
  <1>4. \A e \in Deployments : Ends(e)'
    BY PipelineFacts, RollbackSource
       DEF Transition, Enter, fail, managerVars, pipelineVars, TypeOK, Ends,
           EndStatuses, Absent, Statuses, Stages
  <1>5. Pointer'
    BY RollbackSource, DistinctAssumption
       DEF Transition, Enter, fail, managerVars, pipelineVars, TypeOK, Pointer,
           EndStatuses
  <1>6. Targets'
    BY PipelineFacts
       DEF Transition, Enter, fail, managerVars, pipelineVars, TypeOK, Targets,
           Statuses, Absent, Stages, EndStatuses
  <1> QED
    BY <1>1, <1>2, <1>3, <1>4, <1>5, <1>6

(* A step that passed is added to what is behind.                          *)
LEMMA StepPassesStep ==
  ASSUME IInv, NEW d \in Deployments, StepPasses(d)
  PROVE  IInv'
  <1> USE DEF IInv
  <1>1. TypeOK'
    BY PipelineFacts, BoundAssumption
       DEF StepPasses, CanPass, managerVars, pipelineVars, TypeOK, Statuses, Absent,
           Stages, Places
  <1>2. \A e \in Deployments : Behind(e)'
    BY DEF StepPasses, CanPass, managerVars, pipelineVars, TypeOK, Behind, Verified,
           Stages
  <1>3. \A e \in Deployments : Copies(e)'
    BY EarnedAtLast, PipelineFacts, RollbackSource
       DEF StepPasses, CanPass, managerVars, pipelineVars, TypeOK, Copies, Earned,
           EndStatuses, Absent, Stages
  <1>4. \A e \in Deployments : Ends(e)'
    BY PipelineFacts, RollbackSource
       DEF StepPasses, CanPass, managerVars, pipelineVars, TypeOK, Ends, EndStatuses,
           Absent, Statuses, Stages
  <1>5. Pointer'
    BY RollbackSource, DistinctAssumption
       DEF StepPasses, CanPass, managerVars, pipelineVars, TypeOK, Pointer, EndStatuses
  <1>6. Targets'
    BY PipelineFacts
       DEF StepPasses, CanPass, managerVars, pipelineVars, TypeOK, Targets, Statuses,
           Absent, Stages, EndStatuses
  <1> QED
    BY <1>1, <1>2, <1>3, <1>4, <1>5, <1>6

(* A failing step cannot be of the active deployment.                      *)
LEMMA StepFailsStep ==
  ASSUME IInv, NEW d \in Deployments, StepFails(d)
  PROVE  IInv'
  <1> USE DEF IInv
  <1>1. TypeOK'
    BY PipelineFacts, BoundAssumption
       DEF StepFails, fail, managerVars, pipelineVars, TypeOK, Statuses, Absent,
           Stages, Places
  <1>2. \A e \in Deployments : Behind(e)'
    BY DEF StepFails, fail, managerVars, pipelineVars, TypeOK, Behind, Verified, Stages
  <1>3. \A e \in Deployments : Copies(e)'
    BY EarnedAtLast, PipelineFacts, RollbackSource
       DEF StepFails, fail, managerVars, pipelineVars, TypeOK, Copies, Earned,
           EndStatuses, Absent, Stages
  <1>4. \A e \in Deployments : Ends(e)'
    BY PipelineFacts, RollbackSource
       DEF StepFails, fail, managerVars, pipelineVars, TypeOK, Ends, EndStatuses,
           Absent, Statuses, Stages
  <1>5. Pointer'
    BY RollbackSource, DistinctAssumption
       DEF StepFails, fail, managerVars, pipelineVars, TypeOK, Pointer, EndStatuses
  <1>6. Targets'
    BY PipelineFacts
       DEF StepFails, fail, managerVars, pipelineVars, TypeOK, Targets, Statuses,
           Absent, Stages, EndStatuses
  <1> QED
    BY <1>1, <1>2, <1>3, <1>4, <1>5, <1>6

(* activate moves the pointer.                                             *)
LEMMA ActivateStep ==
  ASSUME IInv, NEW d \in Deployments, Activate(d)
  PROVE  IInv'
  <1> USE DEF IInv
  <1>1. TypeOK'
    BY PipelineFacts, BoundAssumption
       DEF Activate, managerVars, pipelineVars, TypeOK, Statuses, Absent, Stages, Places
  <1>2. \A e \in Deployments : Behind(e)'
    BY DEF Activate, managerVars, pipelineVars, TypeOK, Behind, Verified, Stages
  <1>3. \A e \in Deployments : Copies(e)'
    BY EarnedAtLast, PipelineFacts, RollbackSource
       DEF Activate, managerVars, pipelineVars, TypeOK, Copies, Earned, EndStatuses,
           Absent, Stages
  <1>4. \A e \in Deployments : Ends(e)'
    BY PipelineFacts, RollbackSource
       DEF Activate, managerVars, pipelineVars, TypeOK, Ends, EndStatuses, Absent,
           Statuses, Stages
  <1>5. Pointer'
    BY RollbackSource, DistinctAssumption
       DEF Activate, managerVars, pipelineVars, TypeOK, Pointer, EndStatuses
  <1>6. Targets'
    BY PipelineFacts
       DEF Activate, managerVars, pipelineVars, TypeOK, Targets, Statuses, Absent,
           Stages, EndStatuses
  <1> QED
    BY <1>1, <1>2, <1>3, <1>4, <1>5, <1>6

(* Deploy returns an end status.                                           *)
LEMMA ReadFinalStep ==
  ASSUME IInv, NEW d \in Deployments, ReadFinal(d)
  PROVE  IInv'
  <1> USE DEF IInv
  <1>1. TypeOK'
    BY PipelineFacts, BoundAssumption
       DEF ReadFinal, managerVars, pipelineVars, TypeOK, Statuses, Absent, Stages,
           Places
  <1>2. \A e \in Deployments : Behind(e)'
    BY DEF ReadFinal, managerVars, pipelineVars, TypeOK, Behind, Verified, Stages
  <1>3. \A e \in Deployments : Copies(e)'
    BY EarnedAtLast, PipelineFacts, RollbackSource
       DEF ReadFinal, managerVars, pipelineVars, TypeOK, Copies, Earned, EndStatuses,
           Absent, Stages
  <1>4. \A e \in Deployments : Ends(e)'
    BY PipelineFacts, RollbackSource
       DEF ReadFinal, managerVars, pipelineVars, TypeOK, Ends, EndStatuses, Absent,
           Statuses, Stages
  <1>5. Pointer'
    BY RollbackSource, DistinctAssumption
       DEF ReadFinal, managerVars, pipelineVars, TypeOK, Pointer, EndStatuses
  <1>6. Targets'
    BY PipelineFacts
       DEF ReadFinal, managerVars, pipelineVars, TypeOK, Targets, Statuses, Absent,
           Stages, EndStatuses
  <1> QED
    BY <1>1, <1>2, <1>3, <1>4, <1>5, <1>6

(* The end status was earned when it was read, and stays earned.           *)
LEMMA SaveFinalStep ==
  ASSUME IInv, NEW d \in Deployments, SaveFinal(d)
  PROVE  IInv'
  <1> USE DEF IInv
  <1>1. TypeOK'
    BY PipelineFacts, BoundAssumption
       DEF SaveFinal, SaveDeployment, SaveOutcomes, managerVars, pipelineVars, TypeOK,
           Statuses, Absent, Stages, Places
  <1>2. \A e \in Deployments : Behind(e)'
    BY DEF SaveFinal, SaveDeployment, SaveOutcomes, managerVars, pipelineVars, TypeOK,
           Behind, Verified, Stages
  <1>3. \A e \in Deployments : Copies(e)'
    BY EarnedAtLast, PipelineFacts, RollbackSource
       DEF SaveFinal, SaveDeployment, SaveOutcomes, managerVars, pipelineVars, TypeOK,
           Copies, Earned, EndStatuses, Absent, Stages
  <1>4. \A e \in Deployments : Ends(e)'
    BY PipelineFacts, RollbackSource
       DEF SaveFinal, SaveDeployment, SaveOutcomes, managerVars, pipelineVars, TypeOK,
           Ends, EndStatuses, Absent, Statuses, Stages
  <1>5. Pointer'
    BY RollbackSource, DistinctAssumption
       DEF SaveFinal, SaveDeployment, SaveOutcomes, managerVars, pipelineVars, TypeOK,
           Pointer, EndStatuses
  <1>6. Targets'
    BY PipelineFacts
       DEF SaveFinal, SaveDeployment, SaveOutcomes, managerVars, pipelineVars, TypeOK,
           Targets, Statuses, Absent, Stages, EndStatuses
  <1> QED
    BY <1>1, <1>2, <1>3, <1>4, <1>5, <1>6

(* The map holds the target from here to the next restart.                 *)
LEMMA RequestRollbackStep ==
  ASSUME IInv, NEW c \in Callers, NEW d \in Deployments, RequestRollback(c, d)
  PROVE  IInv'
  <1> USE DEF IInv
  <1>0. rollback' \in [Callers -> Rollbacks]
    BY DEF RequestRollback, managerVars, pipelineVars, TypeOK, Rollbacks, Absent, Idle
  <1>1. TypeOK'
    BY <1>0, PipelineFacts, BoundAssumption
       DEF RequestRollback, managerVars, pipelineVars, TypeOK, Statuses, Absent,
           Stages, Places
  <1>2. \A e \in Deployments : Behind(e)'
    BY DEF RequestRollback, managerVars, pipelineVars, TypeOK, Behind, Verified, Stages
  <1>3. \A e \in Deployments : Copies(e)'
    BY EarnedAtLast, PipelineFacts, RollbackSource
       DEF RequestRollback, managerVars, pipelineVars, TypeOK, Copies, Earned,
           EndStatuses, Absent, Stages
  <1>4. \A e \in Deployments : Ends(e)'
    BY PipelineFacts, RollbackSource
       DEF RequestRollback, managerVars, pipelineVars, TypeOK, Ends, EndStatuses,
           Absent, Statuses, Stages
  <1>5. Pointer'
    BY RollbackSource, DistinctAssumption
       DEF RequestRollback, managerVars, pipelineVars, TypeOK, Pointer, EndStatuses
  <1>6. Targets'
    BY PipelineFacts
       DEF RequestRollback, managerVars, pipelineVars, TypeOK, Targets, Statuses,
           Absent, Stages, EndStatuses
  <1> QED
    BY <1>1, <1>2, <1>3, <1>4, <1>5, <1>6

(* A rollback's deployer call touches the runtime only.                    *)
LEMMA RollbackDeploysStep ==
  ASSUME IInv, NEW c \in Callers, RollbackDeploys(c)
  PROVE  IInv'
  <1> USE DEF IInv
  <1>0. rollback' \in [Callers -> Rollbacks]
    BY DEF RollbackDeploys, managerVars, pipelineVars, TypeOK, Rollbacks, Absent, Idle
  <1>a. rollback[c].target \in Deployments /\ rollback[c].seen \in Statuses \cup {Absent}
    BY DEF RollbackDeploys, TypeOK, Targets, Rollbacks
  <1>1. TypeOK'
    BY <1>0, <1>a, PipelineFacts, BoundAssumption
       DEF RollbackDeploys, managerVars, pipelineVars, TypeOK, Statuses, Absent,
           Stages, Places
  <1>2. \A e \in Deployments : Behind(e)'
    BY DEF RollbackDeploys, managerVars, pipelineVars, TypeOK, Behind, Verified, Stages
  <1>3. \A e \in Deployments : Copies(e)'
    BY EarnedAtLast, PipelineFacts, RollbackSource
       DEF RollbackDeploys, managerVars, pipelineVars, TypeOK, Copies, Earned,
           EndStatuses, Absent, Stages
  <1>4. \A e \in Deployments : Ends(e)'
    BY PipelineFacts, RollbackSource
       DEF RollbackDeploys, managerVars, pipelineVars, TypeOK, Ends, EndStatuses,
           Absent, Statuses, Stages
  <1>5. Pointer'
    BY RollbackSource, DistinctAssumption
       DEF RollbackDeploys, managerVars, pipelineVars, TypeOK, Pointer, EndStatuses
  <1>6. Targets'
    BY PipelineFacts
       DEF RollbackDeploys, managerVars, pipelineVars, TypeOK, Targets, Statuses,
           Absent, Stages, EndStatuses
  <1> QED
    BY <1>1, <1>2, <1>3, <1>4, <1>5, <1>6

(* A failed rollback changes nothing.                                      *)
LEMMA RollbackFailsStep ==
  ASSUME IInv, NEW c \in Callers, RollbackFails(c)
  PROVE  IInv'
  <1> USE DEF IInv
  <1>0. rollback' \in [Callers -> Rollbacks]
    BY DEF RollbackFails, Idle, managerVars, pipelineVars, TypeOK, Rollbacks, Absent,
           Idle
  <1>1. TypeOK'
    BY <1>0, PipelineFacts, BoundAssumption
       DEF RollbackFails, Idle, managerVars, pipelineVars, TypeOK, Statuses, Absent,
           Stages, Places
  <1>2. \A e \in Deployments : Behind(e)'
    BY DEF RollbackFails, Idle, managerVars, pipelineVars, TypeOK, Behind, Verified,
           Stages
  <1>3. \A e \in Deployments : Copies(e)'
    BY EarnedAtLast, PipelineFacts, RollbackSource
       DEF RollbackFails, Idle, managerVars, pipelineVars, TypeOK, Copies, Earned,
           EndStatuses, Absent, Stages
  <1>4. \A e \in Deployments : Ends(e)'
    BY PipelineFacts, RollbackSource
       DEF RollbackFails, Idle, managerVars, pipelineVars, TypeOK, Ends, EndStatuses,
           Absent, Statuses, Stages
  <1>5. Pointer'
    BY RollbackSource, DistinctAssumption
       DEF RollbackFails, Idle, managerVars, pipelineVars, TypeOK, Pointer, EndStatuses
  <1>6. Targets'
    BY PipelineFacts
       DEF RollbackFails, Idle, managerVars, pipelineVars, TypeOK, Targets, Statuses,
           Absent, Stages, EndStatuses
  <1> QED
    BY <1>1, <1>2, <1>3, <1>4, <1>5, <1>6

(* ROLLED_BACK is reached from ACTIVE only.                                *)
LEMMA RollbackMarksStep ==
  ASSUME IInv, NEW c \in Callers, RollbackMarks(c)
  PROVE  IInv'
  <1> USE DEF IInv
  <1>0. rollback' \in [Callers -> Rollbacks]
    BY DEF RollbackMarks, managerVars, pipelineVars, TypeOK, Rollbacks, Absent, Idle
  <1>1. TypeOK'
    BY <1>0, PipelineFacts, BoundAssumption
       DEF RollbackMarks, managerVars, pipelineVars, TypeOK, Statuses, Absent, Stages,
           Places
  <1>2. \A e \in Deployments : Behind(e)'
    BY DEF RollbackMarks, managerVars, pipelineVars, TypeOK, Behind, Verified, Stages
  <1>3. \A e \in Deployments : Copies(e)'
    BY EarnedAtLast, PipelineFacts, RollbackSource
       DEF RollbackMarks, managerVars, pipelineVars, TypeOK, Copies, Earned,
           EndStatuses, Absent, Stages
  <1>4. \A e \in Deployments : Ends(e)'
    BY PipelineFacts, RollbackSource
       DEF RollbackMarks, managerVars, pipelineVars, TypeOK, Ends, EndStatuses, Absent,
           Statuses, Stages
  <1>5. Pointer'
    BY RollbackSource, DistinctAssumption
       DEF RollbackMarks, managerVars, pipelineVars, TypeOK, Pointer, EndStatuses
  <1>6. Targets'
    BY PipelineFacts
       DEF RollbackMarks, managerVars, pipelineVars, TypeOK, Targets, Statuses, Absent,
           Stages, EndStatuses
  <1> QED
    BY <1>1, <1>2, <1>3, <1>4, <1>5, <1>6

(* What a rollback reads was earned if it is an end status.                *)
LEMMA RollbackReadsStep ==
  ASSUME IInv, NEW c \in Callers, RollbackReads(c)
  PROVE  IInv'
  <1> USE DEF IInv
  <1>0. rollback' \in [Callers -> Rollbacks]
    BY DEF RollbackReads, managerVars, pipelineVars, TypeOK, Rollbacks, Absent, Idle,
           Targets
  <1>1. TypeOK'
    BY <1>0, PipelineFacts, BoundAssumption
       DEF RollbackReads, managerVars, pipelineVars, TypeOK, Statuses, Absent, Stages,
           Places
  <1>2. \A e \in Deployments : Behind(e)'
    BY DEF RollbackReads, managerVars, pipelineVars, TypeOK, Behind, Verified, Stages
  <1>3. \A e \in Deployments : Copies(e)'
    BY EarnedAtLast, PipelineFacts, RollbackSource
       DEF RollbackReads, managerVars, pipelineVars, TypeOK, Copies, Earned,
           EndStatuses, Absent, Stages
  <1>4. \A e \in Deployments : Ends(e)'
    BY PipelineFacts, RollbackSource
       DEF RollbackReads, managerVars, pipelineVars, TypeOK, Ends, EndStatuses, Absent,
           Statuses, Stages
  <1>5. Pointer'
    BY RollbackSource, DistinctAssumption
       DEF RollbackReads, managerVars, pipelineVars, TypeOK, Pointer, EndStatuses
  <1>6. Targets'
    BY PipelineFacts
       DEF RollbackReads, managerVars, pipelineVars, TypeOK, Targets, Statuses, Absent,
           Stages, EndStatuses
  <1> QED
    BY <1>1, <1>2, <1>3, <1>4, <1>5, <1>6

(* What a rollback saves was earned when it was read.                      *)
LEMMA RollbackSavesStep ==
  ASSUME IInv, NEW c \in Callers, RollbackSaves(c)
  PROVE  IInv'
  <1> USE DEF IInv
  <1>0. rollback' \in [Callers -> Rollbacks]
    BY DEF RollbackSaves, SaveDeployment, SaveOutcomes, Idle, managerVars,
           pipelineVars, TypeOK, Rollbacks, Absent, Idle
  <1>a. rollback[c].target \in Deployments /\ rollback[c].seen \in Statuses \cup {Absent}
    BY DEF RollbackSaves, TypeOK, Targets, Rollbacks
  <1>1. TypeOK'
    BY <1>0, <1>a, PipelineFacts, BoundAssumption
       DEF RollbackSaves, SaveDeployment, SaveOutcomes, Idle, managerVars,
           pipelineVars, TypeOK, Statuses, Absent, Stages, Places
  <1>2. \A e \in Deployments : Behind(e)'
    BY DEF RollbackSaves, SaveDeployment, SaveOutcomes, Idle, managerVars,
           pipelineVars, TypeOK, Behind, Verified, Stages
  <1>3. \A e \in Deployments : Copies(e)'
    BY EarnedAtLast, PipelineFacts, RollbackSource
       DEF RollbackSaves, SaveDeployment, SaveOutcomes, Idle, managerVars,
           pipelineVars, TypeOK, Copies, Earned, EndStatuses, Absent, Stages
  <1>4. \A e \in Deployments : Ends(e)'
    BY PipelineFacts, RollbackSource
       DEF RollbackSaves, SaveDeployment, SaveOutcomes, Idle, managerVars,
           pipelineVars, TypeOK, Ends, EndStatuses, Absent, Statuses, Stages
  <1>5. Pointer'
    BY RollbackSource, DistinctAssumption
       DEF RollbackSaves, SaveDeployment, SaveOutcomes, Idle, managerVars,
           pipelineVars, TypeOK, Pointer, EndStatuses
  <1>6. Targets'
    BY PipelineFacts
       DEF RollbackSaves, SaveDeployment, SaveOutcomes, Idle, managerVars,
           pipelineVars, TypeOK, Targets, Statuses, Absent, Stages, EndStatuses
  <1> QED
    BY <1>1, <1>2, <1>3, <1>4, <1>5, <1>6

(* A restart forgets the map and the goroutines, never what was earned.    *)
LEMMA RestartStep ==
  ASSUME IInv, Restart
  PROVE  IInv'
  <1> USE DEF IInv
  <1>0. rollback' \in [Callers -> Rollbacks]
    BY DEF Restart, Idle, managerVars, pipelineVars, TypeOK, Rollbacks, Absent, Idle
  <1>1. TypeOK'
    BY <1>0, PipelineFacts, BoundAssumption
       DEF Restart, Idle, managerVars, pipelineVars, TypeOK, Statuses, Absent, Stages,
           Places
  <1>2. \A e \in Deployments : Behind(e)'
    BY DEF Restart, Idle, managerVars, pipelineVars, TypeOK, Behind, Verified, Stages
  <1>3. \A e \in Deployments : Copies(e)'
    BY EarnedAtLast, PipelineFacts, RollbackSource
       DEF Restart, Idle, managerVars, pipelineVars, TypeOK, Copies, Earned,
           EndStatuses, Absent, Stages
  <1>4. \A e \in Deployments : Ends(e)'
    BY PipelineFacts, RollbackSource
       DEF Restart, Idle, managerVars, pipelineVars, TypeOK, Ends, EndStatuses, Absent,
           Statuses, Stages
  <1>5. Pointer'
    BY RollbackSource, DistinctAssumption
       DEF Restart, Idle, managerVars, pipelineVars, TypeOK, Pointer, EndStatuses
  <1>6. Targets'
    BY PipelineFacts
       DEF Restart, Idle, managerVars, pipelineVars, TypeOK, Targets, Statuses, Absent,
           Stages, EndStatuses
  <1> QED
    BY <1>1, <1>2, <1>3, <1>4, <1>5, <1>6

(* Every step keeps the invariant.                                         *)
LEMMA NextIInv == IInv /\ [Next]_vars => IInv'
  <1> SUFFICES ASSUME IInv, [Next]_vars PROVE IInv'
    OBVIOUS
  <1>1. CASE Restart
    BY <1>1, RestartStep
  <1>2. CASE \E r \in Runs, v \in {"PASSED", "FAILED"} : VerificationSaved(r, v)
    BY <1>2, VerificationSavedStep
  <1>3. ASSUME NEW d \in Deployments, CreateDeployment(d) \/ StartPipeline(d) \/ Deploy(d)
        PROVE  IInv'
    BY <1>3, CreateDeploymentStep, StartPipelineStep, TransitionStep, StepPassesStep,
       StepFailsStep, ActivateStep, ReadFinalStep, SaveFinalStep DEF Deploy
  <1>4. CASE \E c \in Callers, d \in Deployments : RequestRollback(c, d)
    BY <1>4, RequestRollbackStep
  <1>5. ASSUME NEW c \in Callers, Rollback(c)
        PROVE  IInv'
    BY <1>5, RollbackDeploysStep, RollbackFailsStep, RollbackMarksStep, RollbackReadsStep,
       RollbackSavesStep DEF Rollback
  <1>6. CASE UNCHANGED vars
    BY <1>6 DEF vars, managerVars, pipelineVars, IInv, TypeOK, Behind, Verified, Copies, Earned,
                Ends, Pointer, Targets
  <1> QED
    BY <1>1, <1>2, <1>3, <1>4, <1>5, <1>6 DEF Next

(* The inductive invariant holds in every reachable state.                 *)
THEOREM Invariance == Spec => []IInv
  BY InitIInv, NextIInv, PTL DEF Spec

(* Type correctness of the manager, the pipelines and the requests.        *)
THEOREM TypeCorrect == Spec => []TypeOK
  <1>1. IInv => TypeOK
    BY DEF IInv
  <1> QED
    BY <1>1, Invariance, PTL

(* Activation is fail-closed: ACTIVE and ROLLED_BACK, in the map or in the *)
(* table, mean that every gate of Deploy was passed.                       *)
THEOREM ActivationFailClosed == Spec => []ActiveIsEarned
  <1>1. IInv => ActiveIsEarned
    BY DEF IInv, Copies, ActiveIsEarned, EndStatuses
  <1> QED
    BY <1>1, Invariance, PTL

(* Manager.active never points to a deployment that failed or was          *)
(* forgotten.                                                              *)
THEOREM PointerLive == Spec => []PointerIsLive
  <1>1. IInv => PointerIsLive
    BY DEF IInv, Pointer, PointerIsLive, EndStatuses
  <1> QED
    BY <1>1, Invariance, PTL

(* Deploy never returns with the deployment still under way.               *)
THEOREM EndTerminal == Spec => []EndedIsTerminal
  <1>1. IInv => EndedIsTerminal
    BY DEF IInv, Ends, EndedIsTerminal, EndStatuses
  <1> QED
    BY <1>1, Invariance, PTL

(* No step of a pipeline or a rollback takes a deployment out of FAILED.   *)
THEOREM FailedForGood == Spec => FailedStays
  <1> DEFINE Keeps(d) == mem[d] = "FAILED" => mem'[d] \in {"FAILED", Absent}
  <1>1. IInv /\ [Next]_vars => [\A d \in Deployments : Keeps(d)]_vars
    <2> SUFFICES ASSUME IInv, Next, NEW e \in Deployments, mem[e] = "FAILED"
                 PROVE  mem'[e] \in {"FAILED", Absent}
      OBVIOUS
    <2>1. pc[e] \in {"save", "done"} /\ mem \in [Deployments -> Statuses \cup {Absent}]
      BY DEF IInv, Ends, TypeOK
    <2>2. CASE Restart
      BY <2>2 DEF Restart
    <2>3. CASE \E r \in Runs, v \in {"PASSED", "FAILED"} : VerificationSaved(r, v)
      BY <2>3 DEF VerificationSaved, managerVars
    <2>4. ASSUME NEW d \in Deployments, CreateDeployment(d) \/ StartPipeline(d) \/ Deploy(d)
          PROVE  mem'[e] \in {"FAILED", Absent}
      BY <2>1, <2>4 DEF CreateDeployment, StartPipeline, Deploy, Transition, Enter, fail,
                        StepPasses, StepFails, Activate, ReadFinal, SaveFinal, managerVars
    <2>5. CASE \E c \in Callers, d \in Deployments : RequestRollback(c, d)
      BY <2>5 DEF RequestRollback, managerVars
    <2>6. ASSUME NEW c \in Callers, Rollback(c)
          PROVE  mem'[e] \in {"FAILED", Absent}
      <3>1. CASE RollbackMarks(c)
        BY <2>1, <3>1, RollbackSource DEF RollbackMarks, EndStatuses
      <3> QED
        BY <2>6, <3>1 DEF Rollback, RollbackDeploys, RollbackFails, RollbackReads,
                          RollbackSaves, managerVars
    <2> QED
      BY <2>2, <2>3, <2>4, <2>5, <2>6 DEF Next
  <1> QED
    BY <1>1, Invariance, PTL DEF Spec, FailedStays

-----------------------------------------------------------------------------
(* A deployment that no rollback and no failed save met: nobody but its    *)
(* own goroutine writes it, so what is about to be saved is what the map   *)
(* holds, and what was saved stays so.                                     *)
Undisturbed ==
  /\ \A c \in Callers : rollback[c].at # "idle" => rollback[c].target \in disturbed
  /\ \A d \in Deployments \ disturbed :
       /\ pc[d] = "save" => final[d] = mem[d]
       /\ pc[d] = "done" => db[d] = mem[d]

(* The steps of a goroutine and of the handler that starts it.             *)
LEMMA PipelineUndisturbed ==
  ASSUME IInv, Undisturbed, NEW d \in Deployments,
         CreateDeployment(d) \/ StartPipeline(d) \/ Deploy(d)
  PROVE  Undisturbed'
  <1> USE DEF managerVars, pipelineVars
  <1>0. /\ pc \in [Deployments -> Places] /\ final \in [Deployments -> Statuses \cup {Absent}]
        /\ mem \in [Deployments -> Statuses \cup {Absent}]
        /\ db \in [Deployments -> Statuses \cup {Absent}]
    BY DEF IInv, TypeOK
  <1>1. CASE CreateDeployment(d)
    BY <1>0, <1>1 DEF CreateDeployment, Undisturbed
  <1>2. CASE StartPipeline(d)
    BY <1>0, <1>2 DEF StartPipeline, SaveDeployment, Undisturbed
  <1>3. CASE Transition(d) \/ StepFails(d)
    BY <1>0, <1>3 DEF Transition, StepFails, Enter, fail, Undisturbed
  <1>4. CASE StepPasses(d) \/ Activate(d)
    BY <1>0, <1>4 DEF StepPasses, Activate, Undisturbed
  <1>5. CASE ReadFinal(d)
    BY <1>0, <1>5 DEF ReadFinal, Undisturbed
  <1>6. CASE SaveFinal(d)
    BY <1>0, <1>6 DEF SaveFinal, SaveDeployment, Undisturbed
  <1> QED
    BY <1>1, <1>2, <1>3, <1>4, <1>5, <1>6 DEF Deploy

(* A rollback touches only deployments it has marked.                      *)
LEMMA RollbackUndisturbed ==
  ASSUME IInv, Undisturbed, NEW c \in Callers, Rollback(c)
  PROVE  Undisturbed'
  <1> USE DEF managerVars, pipelineVars
  <1>0. /\ rollback \in [Callers -> Rollbacks]
        /\ mem \in [Deployments -> Statuses \cup {Absent}]
        /\ db \in [Deployments -> Statuses \cup {Absent}]
    BY DEF IInv, TypeOK
  <1>1. CASE RollbackDeploys(c)
    BY <1>0, <1>1 DEF RollbackDeploys, Rollbacks, Undisturbed
  <1>2. CASE RollbackFails(c)
    BY <1>0, <1>2 DEF RollbackFails, Idle, Undisturbed
  <1>3. CASE RollbackMarks(c)
    BY <1>0, <1>3 DEF RollbackMarks, Rollbacks, Undisturbed
  <1>4. CASE RollbackReads(c)
    BY <1>0, <1>4 DEF RollbackReads, Undisturbed
  <1>5. CASE RollbackSaves(c)
    BY <1>0, <1>5 DEF RollbackSaves, SaveDeployment, Idle, Undisturbed
  <1> QED
    BY <1>1, <1>2, <1>3, <1>4, <1>5 DEF Rollback

(* Once Deploy has returned, the row a client lists is what the manager    *)
(* answers, for every deployment no rollback or failed save met.           *)
THEOREM RecordsSettle == Spec => []RecordSettles
  <1>1. Init => Undisturbed
    BY DEF Init, Idle, Undisturbed
  <1>2. IInv /\ Undisturbed /\ [Next]_vars => Undisturbed'
    <2> SUFFICES ASSUME IInv, Undisturbed, [Next]_vars PROVE Undisturbed'
      OBVIOUS
    <2>1. CASE Restart
      BY <2>1 DEF Restart, Idle, Undisturbed
    <2>2. CASE \E r \in Runs, v \in {"PASSED", "FAILED"} : VerificationSaved(r, v)
      BY <2>2 DEF VerificationSaved, managerVars, pipelineVars, Undisturbed
    <2>3. CASE \E c \in Callers, d \in Deployments : RequestRollback(c, d)
      BY <2>3 DEF RequestRollback, managerVars, pipelineVars, IInv, TypeOK, Undisturbed
    <2>4. CASE UNCHANGED vars
      BY <2>4 DEF vars, managerVars, pipelineVars, Undisturbed
    <2> QED
      BY <2>1, <2>2, <2>3, <2>4, PipelineUndisturbed, RollbackUndisturbed DEF Next
  <1>3. Undisturbed => RecordSettles
    BY DEF Undisturbed, RecordSettles
  <1> QED
    BY <1>1, <1>2, <1>3, Invariance, PTL DEF Spec
=============================================================================
