---------------------------- MODULE Verification ----------------------------
(***************************************************************************)
(* verification.Engine and RepairLoop (internal/verification/engine.go,    *)
(* repair.go) behind createVerification and repairVerification             *)
(* (internal/httpapi/verification.go), with Store.Save and Store.Get.      *)
(*                                                                         *)
(* A request runs the engine over a list of checks, then writes the run    *)
(* row and, statement after statement, one row per result.  The list a     *)
(* repair works on is what Get finds of those rows.  A run ID is made of   *)
(* the time in nanoseconds: one row per request.  cancelVerification       *)
(* changes only PENDING and RUNNING rows (see Conclusive).                 *)
(***************************************************************************)
EXTENDS Integers

CONSTANTS
  NumChecks,     \* checks of the request, numbered in the order of their IDs
  Dependencies,  \* VerificationCheck.Dependencies, as sets of checks
  Required,      \* checks with Required set
  Unconfigured,  \* checks whose adapter refuses them (Validate)
  MaxAttempts,   \* RetryPolicy.MaxAttempts
  RepairLimit,   \* RepairLoop.MaxAttempts
  Requests,      \* HTTP requests
  NoRequest,
  ContextErrors, \* how the context of a request may end
  SaveFaults     \* may a statement of Save fail

Checks == 1..NumChecks
(* The check of the default profile that replaces an empty list.           *)
DefaultCheck == NumChecks + 1
AllChecks == 1..DefaultCheck

ASSUME ChecksAssumption == NumChecks \in Nat \ {0}
(* Run refuses a list whose dependencies are not checks or have a cycle.   *)
ValidateChecks ==
  /\ Dependencies \in [Checks -> SUBSET Checks]
  /\ \A S \in SUBSET Checks \ {{}} : \E c \in S : Dependencies[c] \cap S = {}
ASSUME GraphAssumption == ValidateChecks
ASSUME ListAssumption == Required \subseteq Checks /\ Unconfigured \subseteq Checks
ASSUME LimitAssumption == MaxAttempts \in [Checks -> Int] /\ RepairLimit \in Int
ASSUME RequestAssumption == NoRequest \notin Requests
ASSUME ContextAssumption == ContextErrors \subseteq {"CANCELLED", "TIMED_OUT"}
ASSUME FaultAssumption == SaveFaults \in BOOLEAN

Statuses == {"RUNNING", "PASSED", "FAILED", "CANCELLED", "TIMED_OUT"}
Results == {"NONE", "PASSED", "FAILED", "CANCELLED", "TIMED_OUT"}

VARIABLES
  pc,        \* where a request is
  target,    \* the request whose run it repairs, or NoRequest
  list,      \* profile.Checks
  ctx,       \* its context: "live" or the error
  status,    \* run.Status
  results,   \* run.Results, by check
  attempt,   \* executions of the current check
  repairs,   \* repair attempts made
  rows,      \* verification_runs.status, "NONE" if there is no row
  saved,     \* verification_checks: results written
  calls      \* executions in the present engine run (history)

engineVars == <<status, results, attempt, calls>>
storeVars == <<rows, saved>>
vars == <<pc, target, list, ctx, repairs, engineVars, storeVars>>

NoResults == [c \in AllChecks |-> "NONE"]
NoCalls == [c \in AllChecks |-> 0]

Init ==
  /\ pc = [q \in Requests |-> "idle"]
  /\ target = [q \in Requests |-> NoRequest]
  /\ list = [q \in Requests |-> {}]
  /\ ctx = [q \in Requests |-> "live"]
  /\ status = [q \in Requests |-> "RUNNING"]
  /\ results = [q \in Requests |-> NoResults]
  /\ attempt = [q \in Requests |-> 0]
  /\ repairs = [q \in Requests |-> 0]
  /\ rows = [q \in Requests |-> "NONE"]
  /\ saved = [q \in Requests |-> {}]
  /\ calls = [q \in Requests |-> NoCalls]

Go(q, p) == pc' = [pc EXCEPT ![q] = p]

-----------------------------------------------------------------------------
(* Get selects neither the dependencies nor the retry policy of a check.   *)
Reloaded(q) == target[q] # NoRequest
DependsOn(q, c) == IF Reloaded(q) \/ c = DefaultCheck THEN {} ELSE Dependencies[c]

Attempts(q, c) ==
  IF Reloaded(q) \/ c = DefaultCheck \/ MaxAttempts[c] < 1 THEN 1 ELSE MaxAttempts[c]

(* The default profile's checks are required and have no command.          *)
IsRequired(c) == c \in Required \cup {DefaultCheck}
IsUnconfigured(c) == c \in Unconfigured \cup {DefaultCheck}

(* The next check in the sorted copy of the list.                          *)
IsNext(q, c) ==
  /\ c \in list[q] /\ results[q][c] = "NONE"
  /\ \A d \in list[q] : results[q][d] = "NONE" => c <= d

(* A dependency that already has a result did not pass.                    *)
Blocked(q, c) ==
  \E d \in DependsOn(q, c) \cap list[q] : results[q][d] \notin {"NONE", "PASSED"}

-----------------------------------------------------------------------------
(* createVerification.                                                     *)
CreateVerification(q) ==
  /\ pc[q] = "idle"
  /\ list' = [list EXCEPT ![q] = Checks]
  /\ Go(q, "check")
  /\ UNCHANGED <<target, ctx, repairs, engineVars, storeVars>>

(* Profile: an empty list stands for the policy's default.                 *)
Profile(checks) == IF checks = {} THEN {DefaultCheck} ELSE checks

(* repairVerification of a run that is not PASSED; Get finds the checks    *)
(* whose results are written.                                              *)
RepairVerification(q, r) ==
  /\ pc[q] = "idle" /\ rows[r] \notin {"NONE", "PASSED"}
  /\ target' = [target EXCEPT ![q] = r]
  /\ list' = [list EXCEPT ![q] = Profile(saved[r])]
  /\ Go(q, "check")
  /\ UNCHANGED <<ctx, repairs, engineVars, storeVars>>

(* External: the client goes away or a deadline passes.                    *)
EndContext(q, e) ==
  /\ pc[q] \notin {"idle", "done"} /\ ctx[q] = "live"
  /\ ctx' = [ctx EXCEPT ![q] = e]
  /\ UNCHANGED <<pc, target, list, repairs, engineVars, storeVars>>

-----------------------------------------------------------------------------
(* Engine.Run.                                                             *)

Record(q, c, r) == results' = [results EXCEPT ![q][c] = r]

(* The context is looked at before each check.                             *)
StopRun(q) ==
  /\ pc[q] = "check" /\ ctx[q] # "live" /\ \E c \in AllChecks : IsNext(q, c)
  /\ status' = [status EXCEPT ![q] = ctx[q]]
  /\ Go(q, "summary")
  /\ UNCHANGED <<target, list, ctx, results, attempt, repairs, calls, storeVars>>

(* Blocked, or refused by Discover or Validate: FAILED, not executed.      *)
RefuseCheck(q, c) ==
  /\ pc[q] = "check" /\ ctx[q] = "live" /\ IsNext(q, c)
  /\ Blocked(q, c) \/ IsUnconfigured(c)
  /\ Record(q, c, "FAILED")
  /\ UNCHANGED <<pc, target, list, ctx, status, attempt, repairs, calls, storeVars>>

BeginCheck(q, c) ==
  /\ pc[q] = "check" /\ ctx[q] = "live" /\ IsNext(q, c)
  /\ ~Blocked(q, c) /\ ~IsUnconfigured(c)
  /\ attempt' = [attempt EXCEPT ![q] = 1]
  /\ Go(q, "execute")
  /\ UNCHANGED <<target, list, ctx, status, results, repairs, calls, storeVars>>

Called(q, c) == calls' = [calls EXCEPT ![q][c] = @ + 1]

(* Execute returns no error: PASSED, or FAILED if no tests were found.     *)
CheckReturns(q, c, r) ==
  /\ pc[q] = "execute" /\ IsNext(q, c)
  /\ r \in {"PASSED", "FAILED"}
  /\ Called(q, c)
  /\ Record(q, c, r)
  /\ Go(q, "after")
  /\ UNCHANGED <<target, list, ctx, status, attempt, repairs, storeVars>>

MayRetry(q, c) == ctx[q] = "live" /\ attempt[q] < Attempts(q, c)

RetryCheck(q, c) ==
  /\ pc[q] = "execute" /\ IsNext(q, c) /\ MayRetry(q, c)
  /\ Called(q, c)
  /\ attempt' = [attempt EXCEPT ![q] = @ + 1]
  /\ UNCHANGED <<pc, target, list, ctx, status, results, repairs, storeVars>>

(* An error on the last attempt, or after the context ended.               *)
CheckFails(q, c) ==
  /\ pc[q] = "execute" /\ IsNext(q, c) /\ ~MayRetry(q, c)
  /\ Called(q, c)
  /\ Record(q, c, IF ctx[q] = "live" THEN "FAILED" ELSE ctx[q])
  /\ Go(q, "after")
  /\ UNCHANGED <<target, list, ctx, status, attempt, repairs, storeVars>>

(* run.Status after the context was looked at.                             *)
Interrupted(q) == IF ctx[q] = "live" THEN status[q] ELSE ctx[q]

(* ... and after each executed check.                                      *)
AfterCheck(q) ==
  /\ pc[q] = "after"
  /\ status' = [status EXCEPT ![q] = Interrupted(q)]
  /\ Go(q, IF ctx[q] = "live" THEN "check" ELSE "summary")
  /\ UNCHANGED <<target, list, ctx, results, attempt, repairs, calls, storeVars>>

AllDone(q) ==
  /\ pc[q] = "check" /\ \A c \in list[q] : results[q][c] # "NONE"
  /\ Go(q, "summary")
  /\ UNCHANGED <<target, list, ctx, repairs, engineVars, storeVars>>

RequiredFailed(q) ==
  {c \in list[q] : IsRequired(c) /\ results[q][c] \notin {"NONE", "PASSED"}}

(* Mutant: failures of required checks are not counted.                    *)
VerdictAnyway(q) == IF status[q] = "RUNNING" THEN "PASSED" ELSE status[q]

Verdict(q) ==
  IF RequiredFailed(q) # {} THEN "FAILED"
  ELSE IF status[q] = "RUNNING" THEN "PASSED" ELSE status[q]

Summary(q) ==
  /\ pc[q] = "summary"
  /\ status' = [status EXCEPT ![q] = Verdict(q)]
  /\ Go(q, IF Reloaded(q) THEN "decide" ELSE "save")
  /\ UNCHANGED <<target, list, ctx, results, attempt, repairs, calls, storeVars>>

-----------------------------------------------------------------------------
(* RepairLoop.Run after an engine run.                                     *)
RepairMax == IF RepairLimit < 1 THEN 1 ELSE RepairLimit

LoopGoesOn(q) == status[q] # "PASSED" /\ repairs[q] < RepairMax

EndRepair(q) ==
  /\ pc[q] = "decide" /\ ~LoopGoesOn(q)
  /\ Go(q, "save")
  /\ UNCHANGED <<target, list, ctx, repairs, engineVars, storeVars>>

(* Analyze has nothing to analyze, or ExecuteRepair fails: the loop ends.  *)
RepairFails(q) ==
  /\ pc[q] = "decide" /\ LoopGoesOn(q)
  /\ repairs' = [repairs EXCEPT ![q] = @ + 1]
  /\ Go(q, "save")
  /\ UNCHANGED <<target, list, ctx, engineVars, storeVars>>

(* Mutant: the attempt is not counted.                                     *)
RepairCompletesUncounted(q) ==
  /\ pc[q] = "decide" /\ LoopGoesOn(q)
  /\ \E c \in list[q] : results[q][c] \notin {"NONE", "PASSED"}
  /\ status' = [status EXCEPT ![q] = "RUNNING"]
  /\ results' = [results EXCEPT ![q] = NoResults]
  /\ calls' = [calls EXCEPT ![q] = NoCalls]
  /\ Go(q, "check")
  /\ UNCHANGED <<target, list, ctx, repairs, attempt, storeVars>>

(* The repair was executed; the engine runs again, as a new run.  (The     *)
(* executor main.go configures has no Start function: it always fails.)    *)
RepairCompletes(q) ==
  /\ pc[q] = "decide" /\ LoopGoesOn(q)
  /\ \E c \in list[q] : results[q][c] \notin {"NONE", "PASSED"}
  /\ repairs' = [repairs EXCEPT ![q] = @ + 1]
  /\ status' = [status EXCEPT ![q] = "RUNNING"]
  /\ results' = [results EXCEPT ![q] = NoResults]
  /\ calls' = [calls EXCEPT ![q] = NoCalls]
  /\ Go(q, "check")
  /\ UNCHANGED <<target, list, ctx, attempt, storeVars>>

-----------------------------------------------------------------------------
(* Store.Save under the request's context, one statement at a time.        *)

(* Mutant: the run of a repair is saved over the one it repairs.           *)
RowOfTarget(q) == IF Reloaded(q) THEN target[q] ELSE q

(* The engine made a new ID: a row of its own.  The ID is "vr_" and the    *)
(* time in nanoseconds, which is taken to be unique: two runs begun in the *)
(* same nanosecond would share a row, since Save upserts by ID.            *)
RowOf(q) == q

(* pgx refuses a statement once the context has ended.                     *)
CanSave(q) == ctx[q] = "live"

SaveRun(q) ==
  /\ pc[q] = "save" /\ CanSave(q)
  /\ rows' = [rows EXCEPT ![RowOf(q)] = status[q]]
  /\ Go(q, "saveResults")
  /\ UNCHANGED <<target, list, ctx, repairs, engineVars, saved>>

SaveResult(q, c) ==
  /\ pc[q] = "saveResults" /\ CanSave(q)
  /\ c \notin saved[RowOf(q)] /\ results[q][c] # "NONE"
  /\ saved' = [saved EXCEPT ![RowOf(q)] = @ \cup {c}]
  /\ UNCHANGED <<pc, target, list, ctx, repairs, engineVars, rows>>

SaveEnds(q) ==
  /\ pc[q] = "saveResults"
  /\ \A c \in AllChecks : results[q][c] # "NONE" => c \in saved[RowOf(q)]
  /\ Go(q, "done")
  /\ UNCHANGED <<target, list, ctx, repairs, engineVars, storeVars>>

(* What was written before stays: there is no transaction.                 *)
SaveFails(q) ==
  /\ pc[q] \in {"save", "saveResults"} /\ (SaveFaults \/ ~CanSave(q))
  /\ Go(q, "done")
  /\ UNCHANGED <<target, list, ctx, repairs, engineVars, storeVars>>

-----------------------------------------------------------------------------
EngineStep(q) ==
  \/ StopRun(q) \/ AfterCheck(q) \/ AllDone(q) \/ Summary(q)
  \/ \E c \in AllChecks :
       \/ RefuseCheck(q, c) \/ BeginCheck(q, c) \/ RetryCheck(q, c) \/ CheckFails(q, c)
       \/ \E r \in {"PASSED", "FAILED"} : CheckReturns(q, c, r)

Work(q) ==
  \/ EngineStep(q) \/ EndRepair(q) \/ RepairFails(q) \/ RepairCompletes(q)
  \/ SaveRun(q) \/ SaveEnds(q) \/ SaveFails(q)
  \/ \E c \in AllChecks : SaveResult(q, c)

Next ==
  \E q \in Requests :
    \/ CreateVerification(q)
    \/ \E r \in Requests : RepairVerification(q, r)
    \/ \E e \in ContextErrors : EndContext(q, e)
    \/ Work(q)

Spec == Init /\ [][Next]_vars

(* A request that is served goes on: every command has a timeout.          *)
FairSpec == Spec /\ \A q \in Requests : WF_vars(Work(q))

-----------------------------------------------------------------------------
Places == {"idle", "check", "execute", "after", "summary", "decide", "save",
           "saveResults", "done"}

TypeOK ==
  /\ pc \in [Requests -> Places]
  /\ target \in [Requests -> Requests \cup {NoRequest}]
  /\ list \in [Requests -> SUBSET AllChecks]
  /\ ctx \in [Requests -> ContextErrors \cup {"live"}]
  /\ status \in [Requests -> Statuses]
  /\ results \in [Requests -> [AllChecks -> Results]]
  /\ attempt \in [Requests -> Nat]
  /\ repairs \in [Requests -> Nat]
  /\ rows \in [Requests -> Statuses \cup {"NONE"}]
  /\ saved \in [Requests -> SUBSET AllChecks]
  /\ calls \in [Requests -> [AllChecks -> Nat]]

(* "only normalized verification outcomes determine pass or failure"       *)
(* (PHASE5_STATUS.md): a stored PASSED, on which the deployment gate       *)
(* relies, means that every required check of the list has run and passed  *)
(* - although the context may end between any two steps, checks are        *)
(* retried, blocked and refused, and a repair runs the list again.         *)
PassedIsProven ==
  \A q \in Requests : rows[q] = "PASSED" =>
    \A c \in list[q] : IsRequired(c) => results[q][c] = "PASSED"

(* A stored run is PASSED or FAILED and has a result for each check of its *)
(* list: an interrupted run is never stored, so cancelVerification, which  *)
(* looks for PENDING and RUNNING rows, never finds one to cancel.          *)
Conclusive ==
  \A q \in Requests : rows[q] # "NONE" =>
    /\ rows[q] \in {"PASSED", "FAILED"}
    /\ \A c \in list[q] : results[q][c] # "NONE"

(* FAILED is never said without a required check that did not pass, and an *)
(* interruption does not hide one.                                         *)
FailedIsExplained ==
  \A q \in Requests : pc[q] \in {"decide", "save", "saveResults"} =>
    (status[q] = "FAILED" <=> RequiredFailed(q) # {})

(* The verdict the deployment gate reads of a run never changes once it is *)
(* stored, whatever repairs of that run do.                                *)
VerdictStable ==
  [][\A q \in Requests : rows[q] # "NONE" => rows'[q] = rows[q]]_vars

(* "cannot loop indefinitely" (PHASE5_STATUS.md): within one run a check   *)
(* is executed at most max(1, MaxAttempts) times, a repair request makes   *)
(* at most max(1, MaxAttempts) repairs.                                    *)
EffortBounded ==
  \A q \in Requests :
    /\ repairs[q] <= RepairMax
    /\ \A c \in list[q] : calls[q][c] <= Attempts(q, c)

(* A check is not executed after an earlier sorted dependency failed.      *)
DependenciesHonoured ==
  \A q \in Requests : \A c \in list[q] : calls[q][c] > 0 =>
    \A d \in DependsOn(q, c) : d < c => results[q][d] = "PASSED"

(* Every request is answered.                                              *)
RequestsEnd == \A q \in Requests : pc[q] # "idle" ~> pc[q] = "done"
=============================================================================
