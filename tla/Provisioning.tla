---------------------------- MODULE Provisioning ----------------------------
(***************************************************************************)
(* provisioning.Manager (internal/provisioning/manager.go, graph.go) for   *)
(* one run: the persisted row, the HTTP requests that provision, cancel,   *)
(* resume and clean it up, and the container suda-<ProjectID> they create  *)
(* and destroy.  The project's other runs and its project computers use    *)
(* the container of that name too, at any time.                            *)
(*                                                                         *)
(* Nothing serialises the requests.  Each works on the copy of the run it  *)
(* read and writes whole copies back; the copy kept in Manager.runs is     *)
(* read only when the database is not reachable and is left out.  The step *)
(* status RUNNING is set on the local copy only and never written.         *)
(***************************************************************************)
EXTENDS Integers

CONSTANTS
  NumSteps,     \* len(DefaultSteps()); step 1 is "runtime"
  Dependencies, \* Step.Dependencies, as sets of steps
  Callers,      \* concurrent HTTP requests on the run
  SaveFaults,   \* may RunStore.Save fail
  ExecFaults,   \* may Runtime calls fail without a reason of their own
  MaxCrashes    \* bound on crashes

Steps == 1..NumSteps
RuntimeStep == 1

(* RuntimeID: empty, the name Provision gives its container, or another    *)
(* one passed to PlanWithRuntime, which may name anything or nothing.      *)
NoRuntime == "none"
OwnRuntime == "own"
Runtimes == {NoRuntime, OwnRuntime, "given"}

ASSUME StepsAssumption == NumSteps \in Nat \ {0}
(* ValidateGraph: the dependencies are steps and there is no cycle; the    *)
(* steps are numbered in an order that shows it.                           *)
ASSUME GraphAssumption ==
  Dependencies \in [Steps -> SUBSET Steps] /\ \A s \in Steps : \A d \in Dependencies[s] : d < s
ASSUME FaultAssumption == SaveFaults \in BOOLEAN /\ ExecFaults \in BOOLEAN
ASSUME BoundAssumption == MaxCrashes \in Nat

Statuses == {"PLANNED", "ALLOCATING", "READY", "FAILED", "CANCEL_REQUESTED",
             "CANCELLED"}
StepStatuses == {"PENDING", "PASSED", "FAILED"}

(* Run: Status, RuntimeID, Steps[i].Status, CancelRequested.               *)
Runs == [status : Statuses, runtime : Runtimes,
         steps : [Steps -> StepStatuses], cancel : BOOLEAN]

VARIABLES
  row,       \* provisioning_runs
  pc,        \* where a request is
  op,        \* which handler it runs
  copy,      \* its local Run
  queue,     \* ready steps of its round not yet executed
  container, \* state of the container suda-<ProjectID>
  crashes,
  stale,     \* history: requests that somebody else's save has overtaken
             \* since they last read or saved the run
  stopped,   \* history: a cancellation or cleanup was persisted, and no
             \* stale request has saved over it
  made,      \* history: the container was created by a request of the run,
             \* and its ID was not lost with the request or overwritten
             \* by a stale one
  retried    \* history: a run with a failed step was provisioned again

requestVars == <<pc, op, copy, queue>>
historyVars == <<stale, stopped, made, retried>>
vars == <<row, requestVars, container, crashes, historyVars>>

-----------------------------------------------------------------------------
(* DefaultSteps and PlanWithRuntime.                                       *)
Planned(r) == [status |-> "PLANNED", runtime |-> r,
               steps |-> [s \in Steps |-> "PENDING"], cancel |-> FALSE]

IsReady(steps, s) ==
  steps[s] = "PENDING" /\ \A d \in Dependencies[s] : steps[d] = "PASSED"

ReadySteps(steps) == {s \in Steps : IsReady(steps, s)}

(* The list is in slice order: the first of the steps still queued.        *)
IsFirst(q, s) == s \in q /\ \A t \in q : s <= t

mark(run, s, st) == [run EXCEPT !.steps[s] = st]

SaveOutcomes == IF SaveFaults THEN BOOLEAN ELSE {TRUE}

Stops == {"CANCEL_REQUESTED", "CANCELLED"}

InFlight == {c \in Callers : pc[c] # "idle"}

(* RunStore.Save by request c; a failed call may have reached the database.*)
save(c, run, ok) ==
  \/ /\ row' = run
     /\ stale' = InFlight \ {c}
     /\ stopped' = (run.status \in Stops \/ (stopped /\ c \notin stale))
     /\ made' = (made /\ (run.runtime = OwnRuntime \/ c \notin stale))
  \/ /\ ~ok
     /\ stale' = stale \ {c}
     /\ made' = (made /\ pc[c] # "record")
     /\ UNCHANGED <<row, stopped>>

(* The request returns.                                                    *)
Return(c) ==
  /\ pc' = [pc EXCEPT ![c] = "idle"]
  /\ op' = [op EXCEPT ![c] = "none"]
  /\ copy' = [copy EXCEPT ![c] = Planned(NoRuntime)]
  /\ queue' = [queue EXCEPT ![c] = {}]

(* The request goes on at p with the local run r.                          *)
Continue(c, p, r) ==
  /\ pc' = [pc EXCEPT ![c] = p]
  /\ copy' = [copy EXCEPT ![c] = r]
  /\ UNCHANGED op

(* Save r; go on at p, or return the error.                                *)
SaveAnd(c, r, p) ==
  \E ok \in SaveOutcomes :
    /\ save(c, r, ok)
    /\ \/ ok /\ Continue(c, p, r) /\ UNCHANGED queue
       \/ ~ok /\ Return(c)

(* Save r and return, whatever Save says.                                  *)
SaveAndReturn(c, r) ==
  /\ \E ok \in SaveOutcomes : save(c, r, ok)
  /\ Return(c)

-----------------------------------------------------------------------------
Init ==
  /\ \E r \in Runtimes : row = Planned(r)
  /\ pc = [c \in Callers |-> "idle"]
  /\ op = [c \in Callers |-> "none"]
  /\ copy = [c \in Callers |-> Planned(NoRuntime)]
  /\ queue = [c \in Callers |-> {}]
  /\ container \in {"none", "stopped", "running"}
  /\ crashes = 0
  /\ stale = {} /\ stopped = FALSE /\ made = FALSE /\ retried = FALSE

(* The first read of a handler: it works on at p with what it read.        *)
Begin(c, o, p) ==
  /\ pc[c] = "idle"
  /\ op' = [op EXCEPT ![c] = o]
  /\ pc' = [pc EXCEPT ![c] = p]
  /\ copy' = [copy EXCEPT ![c] = row]
  /\ UNCHANGED <<row, queue, container, crashes, stale, stopped, made>>

-----------------------------------------------------------------------------
(* Provision.                                                              *)

Provisionable(run) == run.status \notin {"READY", "CANCELLED"}

HasFailed(run) == \E s \in Steps : run.steps[s] = "FAILED"

StartProvisioning(c) ==
  /\ Provisionable(row) /\ Begin(c, "start", "allocate")
  /\ retried' = (retried \/ HasFailed(row))

(* Resume checks the status of a copy it then drops: Provision reads the   *)
(* run again, so the cleared CancelRequested is lost.                      *)
ResumeProvisioning(c) ==
  /\ row.status \in {"FAILED", "CANCEL_REQUESTED"} /\ Begin(c, "resume", "reread")
  /\ UNCHANGED retried

ResumeReread(c) ==
  /\ pc[c] = "reread"
  /\ \/ /\ Provisionable(row) /\ Continue(c, "allocate", row) /\ UNCHANGED queue
        /\ retried' = (retried \/ HasFailed(row))
     \/ ~Provisionable(row) /\ Return(c) /\ UNCHANGED retried
  /\ stale' = stale \ {c}
  /\ UNCHANGED <<row, container, crashes, stopped, made>>

Allocate(c) ==
  /\ pc[c] = "allocate"
  /\ SaveAnd(c, [copy[c] EXCEPT !.status = "ALLOCATING"],
             IF copy[c].runtime = NoRuntime THEN "create" ELSE "round")
  /\ UNCHANGED <<container, crashes, retried>>

(* The provider refuses to create a container that exists, and leaves the  *)
(* new one stopped.                                                        *)
CreateRuntime(c) ==
  /\ pc[c] = "create" /\ container = "none"
  /\ container' = "stopped" /\ made' = TRUE
  /\ Continue(c, "record", [copy[c] EXCEPT !.runtime = OwnRuntime])
  /\ UNCHANGED <<row, queue, crashes, stale, stopped, retried>>

(* Runtime.Create fails, with or without a container left: fail().         *)
CreateFails(c) ==
  /\ pc[c] = "create" /\ (ExecFaults \/ container # "none")
  /\ container' \in IF container = "none" THEN {"none", "stopped", "running"}
                                        ELSE {container}
  /\ SaveAndReturn(c, [copy[c] EXCEPT !.status = "FAILED"])
  /\ UNCHANGED <<crashes, retried>>

RecordRuntime(c) ==
  /\ pc[c] = "record"
  /\ SaveAnd(c, copy[c], "round")
  /\ UNCHANGED <<container, crashes, retried>>

(* The head of the loop: cancelled, finished, or a round of ready steps.   *)
CancelRound(c) ==
  /\ pc[c] = "round" /\ copy[c].cancel
  /\ SaveAndReturn(c, [copy[c] EXCEPT !.status = "CANCELLED"])
  /\ UNCHANGED <<container, crashes, retried>>

BeginRound(c) ==
  /\ pc[c] = "round" /\ ~copy[c].cancel
  /\ ReadySteps(copy[c].steps) # {}
  /\ queue' = [queue EXCEPT ![c] = ReadySteps(copy[c].steps)]
  /\ Continue(c, "step", copy[c])
  /\ UNCHANGED <<row, container, crashes, historyVars>>

(* Mutant: the last step is forgotten.                                     *)
NothingLeftButLast(steps) == ReadySteps(steps) \subseteq {NumSteps}

NothingLeft(steps) == ReadySteps(steps) = {}

FinishProvisioning(c) ==
  /\ pc[c] = "round" /\ ~copy[c].cancel
  /\ NothingLeft(copy[c].steps)
  /\ SaveAndReturn(c, [copy[c] EXCEPT !.status = "READY"])
  /\ UNCHANGED <<container, crashes, retried>>

(* executeStep: a command in the runtime; step "runtime" needs none.  The  *)
(* own container must run; of a given runtime nothing is known.            *)
CanExecute(run, s) ==
  s = RuntimeStep \/ run.runtime # OwnRuntime \/ container = "running"

StepPasses(c, s) ==
  /\ pc[c] = "step" /\ IsFirst(queue[c], s)
  /\ CanExecute(copy[c], s)
  /\ Continue(c, "saveStep", mark(copy[c], s, "PASSED"))
  /\ queue' = [queue EXCEPT ![c] = queue[c] \ {s}]
  /\ UNCHANGED <<row, container, crashes, historyVars>>

StepFails(c, s) ==
  /\ pc[c] = "step" /\ IsFirst(queue[c], s)
  /\ s # RuntimeStep /\ (ExecFaults \/ ~CanExecute(copy[c], s))
  /\ SaveAndReturn(c, [mark(copy[c], s, "FAILED") EXCEPT !.status = "FAILED"])
  /\ UNCHANGED <<container, crashes, retried>>

SaveStep(c) ==
  /\ pc[c] = "saveStep"
  /\ SaveAnd(c, copy[c], IF queue[c] = {} THEN "round" ELSE "step")
  /\ UNCHANGED <<container, crashes, retried>>

-----------------------------------------------------------------------------
(* RequestCancel: in any status.                                           *)
CancelProvisioning(c) == Begin(c, "cancel", "request") /\ UNCHANGED retried

(* Mutant: only the status is set, not the flag.                           *)
CancelRequestedStatus(run) == [run EXCEPT !.status = "CANCEL_REQUESTED"]

CancelRequested(run) == [run EXCEPT !.cancel = TRUE, !.status = "CANCEL_REQUESTED"]

SaveCancelRequest(c) ==
  /\ pc[c] = "request"
  /\ SaveAndReturn(c, CancelRequested(copy[c]))
  /\ UNCHANGED <<container, crashes, retried>>

(* Cleanup.                                                                *)
CleanupProvisioning(c) == Begin(c, "cleanup", "destroy") /\ UNCHANGED retried

(* The provider destroys a stopped container only.                         *)
DestroyRuntime(c) ==
  /\ pc[c] = "destroy"
  /\ IF copy[c].runtime = OwnRuntime
     THEN container = "stopped" /\ container' = "none" /\ made' = FALSE
     ELSE UNCHANGED <<container, made>>
  /\ Continue(c, "cleaned", copy[c])
  /\ UNCHANGED <<row, queue, crashes, stale, stopped, retried>>

CannotDestroy(run) ==
  run.runtime # NoRuntime /\ (ExecFaults \/ (run.runtime = OwnRuntime /\ container # "stopped"))

(* Mutant: the runtime is forgotten although it could not be destroyed.    *)
DestroyFailsForgets(c) ==
  /\ pc[c] = "destroy" /\ CannotDestroy(copy[c])
  /\ SaveAndReturn(c, [copy[c] EXCEPT !.status = "CANCELLED", !.runtime = NoRuntime])
  /\ UNCHANGED <<container, crashes, retried>>

DestroyFails(c) ==
  /\ pc[c] = "destroy" /\ CannotDestroy(copy[c])
  /\ Return(c)
  /\ stale' = stale \ {c}
  /\ UNCHANGED <<row, container, crashes, stopped, made, retried>>

SaveCleanup(c) ==
  /\ pc[c] = "cleaned"
  /\ SaveAndReturn(c, [copy[c] EXCEPT !.status = "CANCELLED"])
  /\ UNCHANGED <<container, crashes, retried>>

(* The project's other runs and its computers run their commands on the    *)
(* container of that name.                                                 *)
Others ==
  /\ container' \in IF container = "stopped" THEN {"none", "running"} ELSE {"stopped"}
  /\ made' = (made /\ container' # "none")
  /\ UNCHANGED <<row, requestVars, crashes, stale, stopped, retried>>

(* The server dies; row and container stay, requests do not come back.     *)
Crash ==
  /\ crashes < MaxCrashes
  /\ crashes' = crashes + 1
  /\ pc' = [c \in Callers |-> "idle"]
  /\ op' = [c \in Callers |-> "none"]
  /\ copy' = [c \in Callers |-> Planned(NoRuntime)]
  /\ queue' = [c \in Callers |-> {}]
  /\ stale' = {}
  /\ made' = (made /\ \A c \in Callers : pc[c] # "record")
  /\ UNCHANGED <<row, container, stopped, retried>>

Work(c) ==
  \/ ResumeReread(c) \/ Allocate(c) \/ CreateRuntime(c) \/ CreateFails(c)
  \/ RecordRuntime(c) \/ CancelRound(c) \/ BeginRound(c) \/ FinishProvisioning(c)
  \/ SaveStep(c) \/ SaveCancelRequest(c)
  \/ DestroyRuntime(c) \/ DestroyFails(c) \/ SaveCleanup(c)
  \/ \E s \in Steps : StepPasses(c, s) \/ StepFails(c, s)

Request(c) ==
  \/ StartProvisioning(c) \/ ResumeProvisioning(c)
  \/ CancelProvisioning(c) \/ CleanupProvisioning(c)

Next == Crash \/ Others \/ \E c \in Callers : Request(c) \/ Work(c)

Spec == Init /\ [][Next]_vars

-----------------------------------------------------------------------------
TypeOK ==
  /\ row \in Runs
  /\ pc \in [Callers -> {"idle", "reread", "allocate", "create", "record", "round",
                         "step", "saveStep", "request", "destroy", "cleaned"}]
  /\ op \in [Callers -> {"none", "start", "resume", "cancel", "cleanup"}]
  /\ copy \in [Callers -> Runs]
  /\ queue \in [Callers -> SUBSET Steps]
  /\ container \in {"none", "stopped", "running"}
  /\ crashes \in 0..MaxCrashes
  /\ stale \subseteq Callers
  /\ stopped \in BOOLEAN /\ made \in BOOLEAN /\ retried \in BOOLEAN

(* Whatever copy of the run wins, no step is recorded as passed before the *)
(* steps it depends on: stale writes of concurrent requests can lose       *)
(* progress but never make it inconsistent.                                *)
DependenciesFirst ==
  \A s \in Steps : row.steps[s] = "PASSED" =>
    \A d \in Dependencies[s] : row.steps[d] = "PASSED"

(* However requests race and fail, a READY run has passed every step,      *)
(* unless a run with a failed step was provisioned again: the rounds end   *)
(* only when the whole graph is done, whatever its shape.                  *)
ReadyIsComplete ==
  row.status = "READY" => retried \/ \A s \in Steps : row.steps[s] = "PASSED"

(* After a cancellation or cleanup was persisted the run is never READY    *)
(* again, whatever is requested, fails or crashes afterwards, until a      *)
(* request that had not seen the stop saves its older copy over it.        *)
StopHonoured == stopped => row.status # "READY"

(* Every container created for the run is recorded in the row or by the    *)
(* request that is creating it, so cleanup finds it.  It can be lost only  *)
(* with the ID that a request could not save, or under a copy older than   *)
(* the ID.                                                                 *)
NoRuntimeLost ==
  made => row.runtime = OwnRuntime \/ \E c \in Callers : pc[c] = "record"

(* "explicit blocked failures" (PHASE8_STATUS.md): READY is not reported   *)
(* with a failed step.                                                     *)
ReadyMeansPassed ==
  row.status = "READY" => \A s \in Steps : row.steps[s] # "FAILED"

(* The unbounded loop of Provision comes to an end: a step waiting in a    *)
(* round is still PENDING in the request's copy, whatever the request      *)
(* restored or resumed, so each execution takes one step out of PENDING    *)
(* for good and no request executes a step twice.                          *)
RoundsProgress == \A c \in Callers : \A s \in queue[c] : copy[c].steps[s] = "PENDING"
=============================================================================
