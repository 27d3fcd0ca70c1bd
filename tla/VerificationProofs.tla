------------------------- MODULE VerificationProofs -------------------------
(***************************************************************************)
(* Proofs about Verification for every list of checks, every dependency    *)
(* graph, every retry and repair limit and any number of requests.         *)
(*                                                                         *)
(* The stored verdict is only as good as what the engine knew when it was  *)
(* reached, so the invariant follows a request from its first check to its *)
(* row: what an interrupted run looks like before the summary, what a      *)
(* verdict says about the results, and that only a request whose context   *)
(* is live, hence whose results are complete, writes a row.                *)
(***************************************************************************)
EXTENDS Verification, TLAPS

Complete(q) == \A c \in list[q] : results[q][c] # "NONE"
Executing(q, c) == pc[q] = "execute" /\ IsNext(q, c)

(* A request that has not begun.                                           *)
FreshInv(q) ==
  pc[q] = "idle" =>
    /\ results[q] = NoResults /\ calls[q] = NoCalls
    /\ target[q] = NoRequest /\ ctx[q] = "live"

(* A first verification works on the whole list.                           *)
ListInv(q) == pc[q] # "idle" /\ ~Reloaded(q) => list[q] = Checks

(* Before the summary: RUNNING, unless the context has ended.              *)
EngineInv(q) ==
  /\ pc[q] \in {"idle", "check", "execute", "after"} => status[q] = "RUNNING"
  /\ pc[q] = "summary" =>
       \/ status[q] = "RUNNING" /\ Complete(q)
       \/ status[q] = ctx[q] /\ ctx[q] # "live"

(* After it: the verdict is about the results, and a live context means    *)
(* that there is one for every check.                                      *)
JudgedInv(q) ==
  pc[q] \in {"decide", "save", "saveResults", "done"} =>
    /\ status[q] = "FAILED" <=> RequiredFailed(q) # {}
    /\ status[q] = "PASSED" => Complete(q)
    /\ ctx[q] = "live" => Complete(q) /\ status[q] \in {"PASSED", "FAILED"}

(* A row is the verdict of a request that is saving or has ended.          *)
StoredInv(q) ==
  rows[q] # "NONE" =>
    /\ pc[q] \in {"saveResults", "done"}
    /\ rows[q] = status[q] /\ status[q] \in {"PASSED", "FAILED"}
    /\ Complete(q)

(* attempt counts the executions of the check that is being executed.      *)
EffortInv(q) ==
  /\ repairs[q] <= RepairMax
  /\ \A c \in AllChecks :
       /\ calls[q][c] <= Attempts(q, c)
       /\ Executing(q, c) =>
            calls[q][c] + 1 = attempt[q] /\ attempt[q] <= Attempts(q, c)
       /\ results[q][c] = "NONE" /\ ~Executing(q, c) => calls[q][c] = 0

(* The sorted-earlier dependencies of an executed check have passed.       *)
DepInv(q) ==
  \A c \in AllChecks : calls[q][c] > 0 \/ Executing(q, c) =>
    \A d \in DependsOn(q, c) : d < c => results[q][d] = "PASSED"

RequestInv(q) ==
  /\ FreshInv(q) /\ ListInv(q) /\ EngineInv(q) /\ JudgedInv(q)
  /\ StoredInv(q) /\ EffortInv(q) /\ DepInv(q)

IInv == TypeOK /\ \A q \in Requests : RequestInv(q)

-----------------------------------------------------------------------------
(* The limits are at least one.                                            *)
LEMMA Limits ==
  /\ RepairMax \in Nat /\ RepairMax >= 1
  /\ \A q \in Requests, c \in AllChecks : Attempts(q, c) \in Nat /\ Attempts(q, c) >= 1
<1>1. RepairMax \in Nat /\ RepairMax >= 1
  BY LimitAssumption DEF RepairMax
<1>2. ASSUME NEW q \in Requests, NEW c \in AllChecks
      PROVE  Attempts(q, c) \in Nat /\ Attempts(q, c) >= 1
  <2>1. c = DefaultCheck \/ c \in Checks
    BY ChecksAssumption DEF AllChecks, Checks, DefaultCheck
  <2>2. CASE Reloaded(q) \/ c = DefaultCheck
    BY <2>2 DEF Attempts
  <2>3. CASE c \in Checks
    <3>1. MaxAttempts[c] \in Int
      BY <2>3, LimitAssumption
    <3> QED BY <3>1 DEF Attempts
  <2> QED BY <2>1, <2>2, <2>3
<1> QED BY <1>1, <1>2

(* Dependencies are checks.                                                *)
LEMMA DependencyTypes ==
  ASSUME NEW q \in Requests, NEW c \in AllChecks
  PROVE  DependsOn(q, c) \subseteq Checks /\ DependsOn(q, c) \subseteq AllChecks
<1>1. Checks \subseteq AllChecks
  BY ChecksAssumption DEF AllChecks, Checks, DefaultCheck
<1>2. c = DefaultCheck \/ c \in Checks
  BY ChecksAssumption DEF AllChecks, Checks, DefaultCheck
<1>3. DependsOn(q, c) \subseteq Checks
  BY <1>2, GraphAssumption DEF DependsOn, ValidateChecks
<1> QED BY <1>1, <1>3

(* Check numbers are integers; at most one check is next.                  *)
LEMMA NextIsUnique ==
  ASSUME NEW q \in Requests, NEW c \in AllChecks, NEW d \in AllChecks,
         IsNext(q, c), IsNext(q, d)
  PROVE  c = d
<1>1. c \in Int /\ d \in Int
  BY ChecksAssumption DEF AllChecks, DefaultCheck
<1>2. c <= d /\ d <= c
  BY DEF IsNext
<1> QED BY <1>1, <1>2

(* A request no variable of which changes keeps its invariant.             *)
Same(p) ==
  /\ pc'[p] = pc[p] /\ target'[p] = target[p] /\ list'[p] = list[p]
  /\ ctx'[p] = ctx[p] /\ status'[p] = status[p] /\ results'[p] = results[p]
  /\ attempt'[p] = attempt[p] /\ repairs'[p] = repairs[p]
  /\ rows'[p] = rows[p] /\ calls'[p] = calls[p]

(* Nothing about p changes when p takes no step.                           *)
LEMMA Frame ==
  ASSUME NEW p \in Requests, RequestInv(p), Same(p)
  PROVE  RequestInv(p)'
<1>1. FreshInv(p)'
  BY DEF Same, RequestInv, FreshInv
<1>2. ListInv(p)'
  BY DEF Same, RequestInv, ListInv, Reloaded
<1>3. EngineInv(p)'
  BY DEF Same, RequestInv, EngineInv, Complete
<1>4. JudgedInv(p)'
  BY DEF Same, RequestInv, JudgedInv, Complete, RequiredFailed
<1>5. StoredInv(p)'
  BY DEF Same, RequestInv, StoredInv, Complete
<1>6. EffortInv(p)'
  BY DEF Same, RequestInv, EffortInv, Executing, IsNext, Attempts, Reloaded
<1>7. DepInv(p)'
  BY DEF Same, RequestInv, DepInv, Executing, IsNext, DependsOn, Reloaded
<1> QED BY <1>1, <1>2, <1>3, <1>4, <1>5, <1>6, <1>7 DEF RequestInv

(* Each action keeps the invariant; first the requests that begin.         *)
LEMMA CreateVerificationStep ==
  ASSUME IInv, NEW q \in Requests, CreateVerification(q)
  PROVE  IInv'
<1>1. TypeOK'
  BY ChecksAssumption DEF IInv, TypeOK, CreateVerification, Go, engineVars,
     storeVars, Places, Checks, AllChecks, DefaultCheck
<1>2. \A p \in Requests \ {q} : Same(p)
  BY DEF IInv, TypeOK, Same, CreateVerification, Go, engineVars, storeVars
<1>3. \A p \in Requests \ {q} : RequestInv(p)'
  BY <1>2, Frame DEF IInv
<1>4. FreshInv(q)'
  BY DEF IInv, RequestInv, TypeOK, FreshInv, CreateVerification, Go,
     engineVars, storeVars
<1>5. ListInv(q)'
  BY DEF IInv, RequestInv, TypeOK, ListInv, Reloaded, CreateVerification,
     Go, engineVars, storeVars
<1>6. EngineInv(q)'
  BY DEF IInv, RequestInv, TypeOK, EngineInv, Complete, CreateVerification,
     Go, engineVars, storeVars
<1>7. JudgedInv(q)'
  BY DEF IInv, RequestInv, TypeOK, JudgedInv, Complete, RequiredFailed,
     CreateVerification, Go, engineVars, storeVars
<1>8. StoredInv(q)'
  BY DEF IInv, RequestInv, TypeOK, StoredInv, Complete, CreateVerification,
     Go, engineVars, storeVars
<1>9. EffortInv(q)'
  BY Limits DEF IInv, RequestInv, TypeOK, EffortInv, Executing, IsNext,
     Attempts, Reloaded, CreateVerification, Go, engineVars, storeVars,
     FreshInv, NoResults, NoCalls
<1>10. DepInv(q)'
  BY DependencyTypes DEF IInv, RequestInv, TypeOK, DepInv, Executing,
     IsNext, DependsOn, Reloaded, CreateVerification, Go, engineVars,
     storeVars, FreshInv, NoResults, NoCalls
<1> QED
  BY <1>1, <1>3, <1>4, <1>5, <1>6, <1>7, <1>8, <1>9, <1>10 DEF IInv, RequestInv

(* A repair begins with what Get found.                                    *)
LEMMA RepairVerificationStep ==
  ASSUME IInv, NEW q \in Requests, NEW r \in Requests, RepairVerification(q, r)
  PROVE  IInv'
<1>1. TypeOK'
  BY ChecksAssumption DEF IInv, TypeOK, RepairVerification, Go, Profile,
     engineVars, storeVars, Places, AllChecks, DefaultCheck
<1>2. \A p \in Requests \ {q} : Same(p)
  BY DEF IInv, TypeOK, Same, RepairVerification, Go, Profile, engineVars,
     storeVars
<1>3. \A p \in Requests \ {q} : RequestInv(p)'
  BY <1>2, Frame DEF IInv
<1>4. FreshInv(q)'
  BY DEF IInv, RequestInv, TypeOK, FreshInv, RepairVerification, Go,
     Profile, engineVars, storeVars
<1>5. ListInv(q)'
  BY RequestAssumption DEF IInv, RequestInv, TypeOK, ListInv, Reloaded,
     RepairVerification, Go, Profile, engineVars, storeVars
<1>6. EngineInv(q)'
  BY DEF IInv, RequestInv, TypeOK, EngineInv, Complete, RepairVerification,
     Go, Profile, engineVars, storeVars
<1>7. JudgedInv(q)'
  BY DEF IInv, RequestInv, TypeOK, JudgedInv, Complete, RequiredFailed,
     RepairVerification, Go, Profile, engineVars, storeVars
<1>8. StoredInv(q)'
  BY DEF IInv, RequestInv, TypeOK, StoredInv, Complete, RepairVerification,
     Go, Profile, engineVars, storeVars
<1>9. EffortInv(q)'
  BY Limits DEF IInv, RequestInv, TypeOK, EffortInv, Executing, IsNext,
     Attempts, Reloaded, RepairVerification, Go, Profile, engineVars,
     storeVars, FreshInv, NoResults, NoCalls
<1>10. DepInv(q)'
  BY DependencyTypes DEF IInv, RequestInv, TypeOK, DepInv, Executing,
     IsNext, DependsOn, Reloaded, RepairVerification, Go, Profile,
     engineVars, storeVars, FreshInv, NoResults, NoCalls
<1> QED
  BY <1>1, <1>3, <1>4, <1>5, <1>6, <1>7, <1>8, <1>9, <1>10 DEF IInv, RequestInv

(* The end of a context only weakens what a verdict must say.              *)
LEMMA EndContextStep ==
  ASSUME IInv, NEW q \in Requests, NEW e \in ContextErrors, EndContext(q, e)
  PROVE  IInv'
<1>1. TypeOK'
  BY DEF IInv, TypeOK, EndContext, engineVars, storeVars, Places
<1>2. \A p \in Requests \ {q} : Same(p)
  BY DEF IInv, TypeOK, Same, EndContext, engineVars, storeVars
<1>3. \A p \in Requests \ {q} : RequestInv(p)'
  BY <1>2, Frame DEF IInv
<1>4. FreshInv(q)'
  BY DEF IInv, RequestInv, TypeOK, FreshInv, EndContext, engineVars,
     storeVars
<1>5. ListInv(q)'
  BY DEF IInv, RequestInv, TypeOK, ListInv, Reloaded, EndContext,
     engineVars, storeVars
<1>6. EngineInv(q)'
  BY DEF IInv, RequestInv, TypeOK, EngineInv, Complete, EndContext,
     engineVars, storeVars
<1>7. JudgedInv(q)'
  BY DEF IInv, RequestInv, TypeOK, JudgedInv, Complete, RequiredFailed,
     EndContext, engineVars, storeVars
<1>8. StoredInv(q)'
  BY DEF IInv, RequestInv, TypeOK, StoredInv, Complete, EndContext,
     engineVars, storeVars
<1>9. EffortInv(q)'
  BY Limits DEF IInv, RequestInv, TypeOK, EffortInv, Executing, IsNext,
     Attempts, Reloaded, EndContext, engineVars, storeVars
<1>10. DepInv(q)'
  BY DependencyTypes DEF IInv, RequestInv, TypeOK, DepInv, Executing,
     IsNext, DependsOn, Reloaded, EndContext, engineVars, storeVars
<1> QED
  BY <1>1, <1>3, <1>4, <1>5, <1>6, <1>7, <1>8, <1>9, <1>10 DEF IInv, RequestInv

(* The engine stops before a check.                                        *)
LEMMA StopRunStep ==
  ASSUME IInv, NEW q \in Requests, StopRun(q)
  PROVE  IInv'
<1>1. TypeOK'
  BY ContextAssumption DEF IInv, TypeOK, StopRun, Go, engineVars, storeVars,
     Places, Statuses
<1>2. \A p \in Requests \ {q} : Same(p)
  BY DEF IInv, TypeOK, Same, StopRun, Go, engineVars, storeVars
<1>3. \A p \in Requests \ {q} : RequestInv(p)'
  BY <1>2, Frame DEF IInv
<1>4. FreshInv(q)'
  BY DEF IInv, RequestInv, TypeOK, FreshInv, StopRun, Go, engineVars,
     storeVars
<1>5. ListInv(q)'
  BY DEF IInv, RequestInv, TypeOK, ListInv, Reloaded, StopRun, Go,
     engineVars, storeVars
<1>6. EngineInv(q)'
  BY DEF IInv, RequestInv, TypeOK, EngineInv, Complete, StopRun, Go,
     engineVars, storeVars
<1>7. JudgedInv(q)'
  BY DEF IInv, RequestInv, TypeOK, JudgedInv, Complete, RequiredFailed,
     StopRun, Go, engineVars, storeVars
<1>8. StoredInv(q)'
  BY DEF IInv, RequestInv, TypeOK, StoredInv, Complete, StopRun, Go,
     engineVars, storeVars
<1>9. EffortInv(q)'
  BY Limits DEF IInv, RequestInv, TypeOK, EffortInv, Executing, IsNext,
     Attempts, Reloaded, StopRun, Go, engineVars, storeVars
<1>10. DepInv(q)'
  BY DependencyTypes DEF IInv, RequestInv, TypeOK, DepInv, Executing,
     IsNext, DependsOn, Reloaded, StopRun, Go, engineVars, storeVars
<1> QED
  BY <1>1, <1>3, <1>4, <1>5, <1>6, <1>7, <1>8, <1>9, <1>10 DEF IInv, RequestInv

(* A check gets a result without being executed.                           *)
LEMMA RefuseCheckStep ==
  ASSUME IInv, NEW q \in Requests, NEW c \in AllChecks, RefuseCheck(q, c)
  PROVE  IInv'
<1>1. TypeOK'
  BY DEF IInv, TypeOK, RefuseCheck, Record, engineVars, storeVars, Results
<1>2. \A p \in Requests \ {q} : Same(p)
  BY DEF IInv, TypeOK, Same, RefuseCheck, Record, engineVars, storeVars
<1>3. \A p \in Requests \ {q} : RequestInv(p)'
  BY <1>2, Frame DEF IInv
<1>4. FreshInv(q)'
  BY DEF IInv, RequestInv, TypeOK, FreshInv, RefuseCheck, Record,
     engineVars, storeVars
<1>5. ListInv(q)'
  BY DEF IInv, RequestInv, TypeOK, ListInv, Reloaded, RefuseCheck, Record,
     engineVars, storeVars
<1>6. EngineInv(q)'
  BY DEF IInv, RequestInv, TypeOK, EngineInv, Complete, RefuseCheck, Record,
     engineVars, storeVars
<1>7. JudgedInv(q)'
  BY DEF IInv, RequestInv, TypeOK, JudgedInv, Complete, RequiredFailed,
     RefuseCheck, Record, engineVars, storeVars
<1>8. StoredInv(q)'
  BY DEF IInv, RequestInv, TypeOK, StoredInv, Complete, RefuseCheck, Record,
     engineVars, storeVars
<1>9. EffortInv(q)'
  BY Limits DEF IInv, RequestInv, TypeOK, EffortInv, Executing, IsNext,
     Attempts, Reloaded, RefuseCheck, Record, engineVars, storeVars
<1>10. DepInv(q)'
  BY DependencyTypes DEF IInv, RequestInv, TypeOK, DepInv, Executing,
     IsNext, DependsOn, Reloaded, RefuseCheck, Record, engineVars, storeVars
<1> QED
  BY <1>1, <1>3, <1>4, <1>5, <1>6, <1>7, <1>8, <1>9, <1>10 DEF IInv, RequestInv

(* A check begins only after its sorted-earlier dependencies passed.       *)
LEMMA BeginCheckStep ==
  ASSUME IInv, NEW q \in Requests, NEW c \in AllChecks, BeginCheck(q, c)
  PROVE  IInv'
<1>1. TypeOK'
  BY DEF IInv, TypeOK, BeginCheck, Go, engineVars, storeVars, Places
<1>2. \A p \in Requests \ {q} : Same(p)
  BY DEF IInv, TypeOK, Same, BeginCheck, Go, engineVars, storeVars
<1>3. \A p \in Requests \ {q} : RequestInv(p)'
  BY <1>2, Frame DEF IInv
<1>4. FreshInv(q)'
  BY DEF IInv, RequestInv, TypeOK, FreshInv, BeginCheck, Go, engineVars,
     storeVars
<1>5. ListInv(q)'
  BY DEF IInv, RequestInv, TypeOK, ListInv, Reloaded, BeginCheck, Go,
     engineVars, storeVars
<1>6. EngineInv(q)'
  BY DEF IInv, RequestInv, TypeOK, EngineInv, Complete, BeginCheck, Go,
     engineVars, storeVars
<1>7. JudgedInv(q)'
  BY DEF IInv, RequestInv, TypeOK, JudgedInv, Complete, RequiredFailed,
     BeginCheck, Go, engineVars, storeVars
<1>8. StoredInv(q)'
  BY DEF IInv, RequestInv, TypeOK, StoredInv, Complete, BeginCheck, Go,
     engineVars, storeVars
<1>9. EffortInv(q)'
  BY Limits, NextIsUnique DEF IInv, RequestInv, TypeOK, EffortInv,
     Executing, IsNext, Attempts, Reloaded, BeginCheck, Go, engineVars,
     storeVars
<1>10. DepInv(q)'
  <2>1. ASSUME NEW d \in DependsOn(q, c), d < c PROVE results[q][d] = "PASSED"
    <3>1. d \in Checks /\ d \in AllChecks /\ c \in Int /\ d \in Int
      BY DependencyTypes, ChecksAssumption DEF Checks, AllChecks, DefaultCheck
    <3>2. ~Reloaded(q)
      BY DEF DependsOn
    <3>3. d \in list[q]
      BY <3>1, <3>2 DEF IInv, RequestInv, ListInv, BeginCheck
    <3>4. results[q][d] # "NONE"
      BY <2>1, <3>1, <3>3 DEF BeginCheck, IsNext
    <3> QED BY <3>3, <3>4 DEF BeginCheck, Blocked
  <2>2. \A e \in AllChecks : Executing(q, e)' => e = c
    <3>1. \A e \in AllChecks : Executing(q, e)' => IsNext(q, e)
      BY DEF BeginCheck, Executing, IsNext
    <3> QED BY <3>1, NextIsUnique DEF BeginCheck
  <2>3. \A e \in AllChecks : DependsOn(q, e)' = DependsOn(q, e)
    BY DEF BeginCheck, DependsOn, Reloaded
  <2>4. results' = results /\ calls' = calls
    BY DEF BeginCheck
  <2> QED BY <2>1, <2>2, <2>3, <2>4 DEF IInv, RequestInv, DepInv
<1> QED
  BY <1>1, <1>3, <1>4, <1>5, <1>6, <1>7, <1>8, <1>9, <1>10 DEF IInv, RequestInv

(* An execution returns.                                                   *)
LEMMA CheckReturnsStep ==
  ASSUME IInv, NEW q \in Requests, NEW c \in AllChecks, NEW r \in {"PASSED", "FAILED"}, CheckReturns(q, c, r)
  PROVE  IInv'
<1>1. TypeOK'
  BY DEF IInv, TypeOK, CheckReturns, Go, Called, Record, engineVars,
     storeVars, Places, Results
<1>2. \A p \in Requests \ {q} : Same(p)
  BY DEF IInv, TypeOK, Same, CheckReturns, Go, Called, Record, engineVars,
     storeVars
<1>3. \A p \in Requests \ {q} : RequestInv(p)'
  BY <1>2, Frame DEF IInv
<1>4. FreshInv(q)'
  BY DEF IInv, RequestInv, TypeOK, FreshInv, CheckReturns, Go, Called,
     Record, engineVars, storeVars
<1>5. ListInv(q)'
  BY DEF IInv, RequestInv, TypeOK, ListInv, Reloaded, CheckReturns, Go,
     Called, Record, engineVars, storeVars
<1>6. EngineInv(q)'
  BY DEF IInv, RequestInv, TypeOK, EngineInv, Complete, CheckReturns, Go,
     Called, Record, engineVars, storeVars
<1>7. JudgedInv(q)'
  BY DEF IInv, RequestInv, TypeOK, JudgedInv, Complete, RequiredFailed,
     CheckReturns, Go, Called, Record, engineVars, storeVars
<1>8. StoredInv(q)'
  BY DEF IInv, RequestInv, TypeOK, StoredInv, Complete, CheckReturns, Go,
     Called, Record, engineVars, storeVars
<1>9. EffortInv(q)'
  <2>1. pc[q] = "execute" /\ IsNext(q, c)
    BY DEF CheckReturns
  <2>2. \A e \in AllChecks : Executing(q, e) <=> e = c
    BY <2>1, NextIsUnique DEF Executing
  <2>3. calls'[q][c] = calls[q][c] + 1 /\ calls[q][c] \in Nat /\ attempt[q] \in Nat
    BY DEF IInv, TypeOK, CheckReturns, Called
  <2>4. \A e \in AllChecks \ {c} :
          calls'[q][e] = calls[q][e] /\ results'[q][e] = results[q][e]
    BY DEF IInv, TypeOK, CheckReturns, Called, Record
  <2>5. pc'[q] = "after" /\ repairs'[q] = repairs[q] /\ results'[q][c] # "NONE"
    BY DEF IInv, TypeOK, CheckReturns, Go, Record
  <2>6. \A e \in AllChecks : Attempts(q, e)' = Attempts(q, e)
    BY DEF CheckReturns, Attempts, Reloaded
  <2>7. \A e \in AllChecks : ~Executing(q, e)'
    BY <2>5 DEF Executing
  <2> QED
    BY <2>2, <2>3, <2>4, <2>5, <2>6, <2>7, Limits DEF IInv, RequestInv, EffortInv, RepairMax
<1>10. DepInv(q)'
  <2>1. pc[q] = "execute" /\ IsNext(q, c)
    BY DEF CheckReturns
  <2>2. \A e \in AllChecks : Executing(q, e) <=> e = c
    BY <2>1, NextIsUnique DEF Executing
  <2>3. calls'[q][c] = calls[q][c] + 1 /\ calls[q][c] \in Nat /\ attempt[q] \in Nat
    BY DEF IInv, TypeOK, CheckReturns, Called
  <2>4. \A e \in AllChecks \ {c} :
          calls'[q][e] = calls[q][e] /\ results'[q][e] = results[q][e]
    BY DEF IInv, TypeOK, CheckReturns, Called, Record
  <2>5. \A e \in AllChecks : ~Executing(q, e)' /\ DependsOn(q, e)' = DependsOn(q, e)
    BY DEF IInv, TypeOK, CheckReturns, Go, Executing, DependsOn, Reloaded
  <2>6. results[q][c] = "NONE" /\ c \in Int
    BY <2>1, ChecksAssumption DEF IsNext, AllChecks, DefaultCheck
  <2>7. ASSUME NEW e \in AllChecks, calls'[q][e] > 0, NEW d \in DependsOn(q, e), d < e
        PROVE  results'[q][d] = "PASSED"
    <3>1. calls[q][e] > 0 \/ Executing(q, e)
      BY <2>2, <2>4, <2>7
    <3>2. results[q][d] = "PASSED" /\ d \in AllChecks
      BY <2>7, <3>1, DependencyTypes DEF IInv, RequestInv, DepInv
    <3> QED BY <2>4, <2>6, <3>2
  <2> QED BY <2>5, <2>7 DEF DepInv
<1> QED
  BY <1>1, <1>3, <1>4, <1>5, <1>6, <1>7, <1>8, <1>9, <1>10 DEF IInv, RequestInv

(* An execution is repeated within the limit.                              *)
LEMMA RetryCheckStep ==
  ASSUME IInv, NEW q \in Requests, NEW c \in AllChecks, RetryCheck(q, c)
  PROVE  IInv'
<1>1. TypeOK'
  BY DEF IInv, TypeOK, RetryCheck, Called, engineVars, storeVars
<1>2. \A p \in Requests \ {q} : Same(p)
  BY DEF IInv, TypeOK, Same, RetryCheck, Called, engineVars, storeVars
<1>3. \A p \in Requests \ {q} : RequestInv(p)'
  BY <1>2, Frame DEF IInv
<1>4. FreshInv(q)'
  BY DEF IInv, RequestInv, TypeOK, FreshInv, RetryCheck, Called, engineVars,
     storeVars
<1>5. ListInv(q)'
  BY DEF IInv, RequestInv, TypeOK, ListInv, Reloaded, RetryCheck, Called,
     engineVars, storeVars
<1>6. EngineInv(q)'
  BY DEF IInv, RequestInv, TypeOK, EngineInv, Complete, RetryCheck, Called,
     engineVars, storeVars
<1>7. JudgedInv(q)'
  BY DEF IInv, RequestInv, TypeOK, JudgedInv, Complete, RequiredFailed,
     RetryCheck, Called, engineVars, storeVars
<1>8. StoredInv(q)'
  BY DEF IInv, RequestInv, TypeOK, StoredInv, Complete, RetryCheck, Called,
     engineVars, storeVars
<1>9. EffortInv(q)'
  <2>1. pc[q] = "execute" /\ IsNext(q, c)
    BY DEF RetryCheck
  <2>2. \A e \in AllChecks : Executing(q, e) <=> e = c
    BY <2>1, NextIsUnique DEF Executing
  <2>3. calls'[q][c] = calls[q][c] + 1 /\ calls[q][c] \in Nat /\ attempt[q] \in Nat
    BY DEF IInv, TypeOK, RetryCheck, Called
  <2>4. \A e \in AllChecks \ {c} :
          calls'[q][e] = calls[q][e] /\ results'[q][e] = results[q][e]
    BY DEF IInv, TypeOK, RetryCheck, Called
  <2>5. /\ pc'[q] = pc[q] /\ repairs'[q] = repairs[q] /\ results'[q] = results[q]
        /\ list'[q] = list[q] /\ attempt'[q] = attempt[q] + 1
    BY DEF IInv, TypeOK, RetryCheck
  <2>6. \A e \in AllChecks : Attempts(q, e)' = Attempts(q, e)
    BY DEF RetryCheck, Attempts, Reloaded
  <2>7. \A e \in AllChecks : Executing(q, e)' <=> e = c
    BY <2>2, <2>5 DEF Executing, IsNext
  <2>8. attempt[q] < Attempts(q, c)
    BY DEF RetryCheck, MayRetry
  <2> QED
    BY <2>2, <2>3, <2>4, <2>5, <2>6, <2>7, <2>8, Limits
    DEF IInv, RequestInv, EffortInv, RepairMax
<1>10. DepInv(q)'
  BY DependencyTypes DEF IInv, RequestInv, TypeOK, DepInv, Executing,
     IsNext, DependsOn, Reloaded, RetryCheck, Called, engineVars, storeVars
<1> QED
  BY <1>1, <1>3, <1>4, <1>5, <1>6, <1>7, <1>8, <1>9, <1>10 DEF IInv, RequestInv

(* The last execution fails.                                               *)
LEMMA CheckFailsStep ==
  ASSUME IInv, NEW q \in Requests, NEW c \in AllChecks, CheckFails(q, c)
  PROVE  IInv'
<1>1. TypeOK'
  <2>1. (IF ctx[q] = "live" THEN "FAILED" ELSE ctx[q]) \in Results
    BY ContextAssumption DEF IInv, TypeOK, Results
  <2> QED
    BY <2>1
    DEF IInv, TypeOK, CheckFails, Go, Called, Record, engineVars, storeVars, Places
<1>2. \A p \in Requests \ {q} : Same(p)
  BY DEF IInv, TypeOK, Same, CheckFails, Go, Called, Record, engineVars,
     storeVars
<1>3. \A p \in Requests \ {q} : RequestInv(p)'
  BY <1>2, Frame DEF IInv
<1>4. FreshInv(q)'
  BY DEF IInv, RequestInv, TypeOK, FreshInv, CheckFails, Go, Called, Record,
     engineVars, storeVars
<1>5. ListInv(q)'
  BY DEF IInv, RequestInv, TypeOK, ListInv, Reloaded, CheckFails, Go,
     Called, Record, engineVars, storeVars
<1>6. EngineInv(q)'
  BY DEF IInv, RequestInv, TypeOK, EngineInv, Complete, CheckFails, Go,
     Called, Record, engineVars, storeVars
<1>7. JudgedInv(q)'
  BY DEF IInv, RequestInv, TypeOK, JudgedInv, Complete, RequiredFailed,
     CheckFails, Go, Called, Record, engineVars, storeVars
<1>8. StoredInv(q)'
  BY DEF IInv, RequestInv, TypeOK, StoredInv, Complete, CheckFails, Go,
     Called, Record, engineVars, storeVars
<1>9. EffortInv(q)'
  <2>1. pc[q] = "execute" /\ IsNext(q, c)
    BY DEF CheckFails
  <2>2. \A e \in AllChecks : Executing(q, e) <=> e = c
    BY <2>1, NextIsUnique DEF Executing
  <2>3. calls'[q][c] = calls[q][c] + 1 /\ calls[q][c] \in Nat /\ attempt[q] \in Nat
    BY DEF IInv, TypeOK, CheckFails, Called
  <2>4. \A e \in AllChecks \ {c} :
          calls'[q][e] = calls[q][e] /\ results'[q][e] = results[q][e]
    BY DEF IInv, TypeOK, CheckFails, Called, Record
  <2>5. pc'[q] = "after" /\ repairs'[q] = repairs[q] /\ results'[q][c] # "NONE"
    BY ContextAssumption DEF IInv, TypeOK, CheckFails, Go, Record
  <2>6. \A e \in AllChecks : Attempts(q, e)' = Attempts(q, e)
    BY DEF CheckFails, Attempts, Reloaded
  <2>7. \A e \in AllChecks : ~Executing(q, e)'
    BY <2>5 DEF Executing
  <2> QED
    BY <2>2, <2>3, <2>4, <2>5, <2>6, <2>7, Limits DEF IInv, RequestInv, EffortInv, RepairMax
<1>10. DepInv(q)'
  BY DependencyTypes DEF IInv, RequestInv, TypeOK, DepInv, Executing,
     IsNext, DependsOn, Reloaded, CheckFails, Go, Called, Record,
     engineVars, storeVars
<1> QED
  BY <1>1, <1>3, <1>4, <1>5, <1>6, <1>7, <1>8, <1>9, <1>10 DEF IInv, RequestInv

(* The context is looked at after a check.                                 *)
LEMMA AfterCheckStep ==
  ASSUME IInv, NEW q \in Requests, AfterCheck(q)
  PROVE  IInv'
<1>1. TypeOK'
  BY ContextAssumption DEF IInv, TypeOK, AfterCheck, Go, Interrupted,
     engineVars, storeVars, Places, Statuses
<1>2. \A p \in Requests \ {q} : Same(p)
  BY DEF IInv, TypeOK, Same, AfterCheck, Go, Interrupted, engineVars,
     storeVars
<1>3. \A p \in Requests \ {q} : RequestInv(p)'
  BY <1>2, Frame DEF IInv
<1>4. FreshInv(q)'
  BY DEF IInv, RequestInv, TypeOK, FreshInv, AfterCheck, Go, Interrupted,
     engineVars, storeVars
<1>5. ListInv(q)'
  BY DEF IInv, RequestInv, TypeOK, ListInv, Reloaded, AfterCheck, Go,
     Interrupted, engineVars, storeVars
<1>6. EngineInv(q)'
  BY DEF IInv, RequestInv, TypeOK, EngineInv, Complete, AfterCheck, Go,
     Interrupted, engineVars, storeVars
<1>7. JudgedInv(q)'
  BY DEF IInv, RequestInv, TypeOK, JudgedInv, Complete, RequiredFailed,
     AfterCheck, Go, Interrupted, engineVars, storeVars
<1>8. StoredInv(q)'
  BY DEF IInv, RequestInv, TypeOK, StoredInv, Complete, AfterCheck, Go,
     Interrupted, engineVars, storeVars
<1>9. EffortInv(q)'
  BY Limits DEF IInv, RequestInv, TypeOK, EffortInv, Executing, IsNext,
     Attempts, Reloaded, AfterCheck, Go, Interrupted, engineVars, storeVars
<1>10. DepInv(q)'
  BY DependencyTypes DEF IInv, RequestInv, TypeOK, DepInv, Executing,
     IsNext, DependsOn, Reloaded, AfterCheck, Go, Interrupted, engineVars,
     storeVars
<1> QED
  BY <1>1, <1>3, <1>4, <1>5, <1>6, <1>7, <1>8, <1>9, <1>10 DEF IInv, RequestInv

(* Every check has a result.                                               *)
LEMMA AllDoneStep ==
  ASSUME IInv, NEW q \in Requests, AllDone(q)
  PROVE  IInv'
<1>1. TypeOK'
  BY DEF IInv, TypeOK, AllDone, Go, engineVars, storeVars, Places
<1>2. \A p \in Requests \ {q} : Same(p)
  BY DEF IInv, TypeOK, Same, AllDone, Go, engineVars, storeVars
<1>3. \A p \in Requests \ {q} : RequestInv(p)'
  BY <1>2, Frame DEF IInv
<1>4. FreshInv(q)'
  BY DEF IInv, RequestInv, TypeOK, FreshInv, AllDone, Go, engineVars,
     storeVars
<1>5. ListInv(q)'
  BY DEF IInv, RequestInv, TypeOK, ListInv, Reloaded, AllDone, Go,
     engineVars, storeVars
<1>6. EngineInv(q)'
  BY DEF IInv, RequestInv, TypeOK, EngineInv, Complete, AllDone, Go,
     engineVars, storeVars
<1>7. JudgedInv(q)'
  BY DEF IInv, RequestInv, TypeOK, JudgedInv, Complete, RequiredFailed,
     AllDone, Go, engineVars, storeVars
<1>8. StoredInv(q)'
  BY DEF IInv, RequestInv, TypeOK, StoredInv, Complete, AllDone, Go,
     engineVars, storeVars
<1>9. EffortInv(q)'
  BY Limits DEF IInv, RequestInv, TypeOK, EffortInv, Executing, IsNext,
     Attempts, Reloaded, AllDone, Go, engineVars, storeVars
<1>10. DepInv(q)'
  BY DependencyTypes DEF IInv, RequestInv, TypeOK, DepInv, Executing,
     IsNext, DependsOn, Reloaded, AllDone, Go, engineVars, storeVars
<1> QED
  BY <1>1, <1>3, <1>4, <1>5, <1>6, <1>7, <1>8, <1>9, <1>10 DEF IInv, RequestInv

(* The verdict is about the results.                                       *)
LEMMA SummaryStep ==
  ASSUME IInv, NEW q \in Requests, Summary(q)
  PROVE  IInv'
<1>1. TypeOK'
  BY DEF IInv, TypeOK, Summary, Go, Verdict, engineVars, storeVars, Places,
     Statuses
<1>2. \A p \in Requests \ {q} : Same(p)
  BY DEF IInv, TypeOK, Same, Summary, Go, Verdict, engineVars, storeVars
<1>3. \A p \in Requests \ {q} : RequestInv(p)'
  BY <1>2, Frame DEF IInv
<1>4. FreshInv(q)'
  BY DEF IInv, RequestInv, TypeOK, FreshInv, Summary, Go, Verdict,
     engineVars, storeVars
<1>5. ListInv(q)'
  BY DEF IInv, RequestInv, TypeOK, ListInv, Reloaded, Summary, Go, Verdict,
     engineVars, storeVars
<1>6. EngineInv(q)'
  BY DEF IInv, RequestInv, TypeOK, EngineInv, Complete, Summary, Go,
     Verdict, engineVars, storeVars
<1>7. JudgedInv(q)'
  <2>1. /\ RequiredFailed(q)' = RequiredFailed(q)
        /\ Complete(q)' <=> Complete(q)
        /\ ctx'[q] = ctx[q] /\ status'[q] = Verdict(q)
    BY DEF IInv, TypeOK, Summary, RequiredFailed, Complete
  <2>2. \/ status[q] = "RUNNING" /\ Complete(q)
        \/ status[q] = ctx[q] /\ ctx[q] \in {"CANCELLED", "TIMED_OUT"}
    BY ContextAssumption DEF IInv, TypeOK, RequestInv, EngineInv, Summary
  <2> QED BY <2>1, <2>2 DEF JudgedInv, Verdict
<1>8. StoredInv(q)'
  BY DEF IInv, RequestInv, TypeOK, StoredInv, Complete, Summary, Go,
     Verdict, engineVars, storeVars
<1>9. EffortInv(q)'
  BY Limits DEF IInv, RequestInv, TypeOK, EffortInv, Executing, IsNext,
     Attempts, Reloaded, Summary, Go, Verdict, engineVars, storeVars
<1>10. DepInv(q)'
  BY DependencyTypes DEF IInv, RequestInv, TypeOK, DepInv, Executing,
     IsNext, DependsOn, Reloaded, Summary, Go, Verdict, engineVars,
     storeVars
<1> QED
  BY <1>1, <1>3, <1>4, <1>5, <1>6, <1>7, <1>8, <1>9, <1>10 DEF IInv, RequestInv

(* The repair loop ends.                                                   *)
LEMMA EndRepairStep ==
  ASSUME IInv, NEW q \in Requests, EndRepair(q)
  PROVE  IInv'
<1>1. TypeOK'
  BY DEF IInv, TypeOK, EndRepair, Go, engineVars, storeVars, Places
<1>2. \A p \in Requests \ {q} : Same(p)
  BY DEF IInv, TypeOK, Same, EndRepair, Go, engineVars, storeVars
<1>3. \A p \in Requests \ {q} : RequestInv(p)'
  BY <1>2, Frame DEF IInv
<1>4. FreshInv(q)'
  BY DEF IInv, RequestInv, TypeOK, FreshInv, EndRepair, Go, engineVars,
     storeVars
<1>5. ListInv(q)'
  BY DEF IInv, RequestInv, TypeOK, ListInv, Reloaded, EndRepair, Go,
     engineVars, storeVars
<1>6. EngineInv(q)'
  BY DEF IInv, RequestInv, TypeOK, EngineInv, Complete, EndRepair, Go,
     engineVars, storeVars
<1>7. JudgedInv(q)'
  BY DEF IInv, RequestInv, TypeOK, JudgedInv, Complete, RequiredFailed,
     EndRepair, Go, engineVars, storeVars
<1>8. StoredInv(q)'
  BY DEF IInv, RequestInv, TypeOK, StoredInv, Complete, EndRepair, Go,
     engineVars, storeVars
<1>9. EffortInv(q)'
  BY Limits DEF IInv, RequestInv, TypeOK, EffortInv, Executing, IsNext,
     Attempts, Reloaded, EndRepair, Go, engineVars, storeVars
<1>10. DepInv(q)'
  BY DependencyTypes DEF IInv, RequestInv, TypeOK, DepInv, Executing,
     IsNext, DependsOn, Reloaded, EndRepair, Go, engineVars, storeVars
<1> QED
  BY <1>1, <1>3, <1>4, <1>5, <1>6, <1>7, <1>8, <1>9, <1>10 DEF IInv, RequestInv

(* The repair loop ends with a failed repair.                              *)
LEMMA RepairFailsStep ==
  ASSUME IInv, NEW q \in Requests, RepairFails(q)
  PROVE  IInv'
<1>1. TypeOK'
  BY DEF IInv, TypeOK, RepairFails, Go, engineVars, storeVars, Places
<1>2. \A p \in Requests \ {q} : Same(p)
  BY DEF IInv, TypeOK, Same, RepairFails, Go, engineVars, storeVars
<1>3. \A p \in Requests \ {q} : RequestInv(p)'
  BY <1>2, Frame DEF IInv
<1>4. FreshInv(q)'
  BY DEF IInv, RequestInv, TypeOK, FreshInv, RepairFails, Go, engineVars,
     storeVars
<1>5. ListInv(q)'
  BY DEF IInv, RequestInv, TypeOK, ListInv, Reloaded, RepairFails, Go,
     engineVars, storeVars
<1>6. EngineInv(q)'
  BY DEF IInv, RequestInv, TypeOK, EngineInv, Complete, RepairFails, Go,
     engineVars, storeVars
<1>7. JudgedInv(q)'
  BY DEF IInv, RequestInv, TypeOK, JudgedInv, Complete, RequiredFailed,
     RepairFails, Go, engineVars, storeVars
<1>8. StoredInv(q)'
  BY DEF IInv, RequestInv, TypeOK, StoredInv, Complete, RepairFails, Go,
     engineVars, storeVars
<1>9. EffortInv(q)'
  BY Limits DEF IInv, RequestInv, TypeOK, EffortInv, Executing, IsNext,
     Attempts, Reloaded, RepairFails, Go, engineVars, storeVars, LoopGoesOn
<1>10. DepInv(q)'
  BY DependencyTypes DEF IInv, RequestInv, TypeOK, DepInv, Executing,
     IsNext, DependsOn, Reloaded, RepairFails, Go, engineVars, storeVars
<1> QED
  BY <1>1, <1>3, <1>4, <1>5, <1>6, <1>7, <1>8, <1>9, <1>10 DEF IInv, RequestInv

(* The engine starts again with nothing executed.                          *)
LEMMA RepairCompletesStep ==
  ASSUME IInv, NEW q \in Requests, RepairCompletes(q)
  PROVE  IInv'
<1>1. TypeOK'
  BY DEF IInv, TypeOK, RepairCompletes, Go, engineVars, storeVars, Places,
     Statuses, Results, NoResults, NoCalls
<1>2. \A p \in Requests \ {q} : Same(p)
  BY DEF IInv, TypeOK, Same, RepairCompletes, Go, engineVars, storeVars
<1>3. \A p \in Requests \ {q} : RequestInv(p)'
  BY <1>2, Frame DEF IInv
<1>4. FreshInv(q)'
  BY DEF IInv, RequestInv, TypeOK, FreshInv, RepairCompletes, Go,
     engineVars, storeVars
<1>5. ListInv(q)'
  BY DEF IInv, RequestInv, TypeOK, ListInv, Reloaded, RepairCompletes, Go,
     engineVars, storeVars
<1>6. EngineInv(q)'
  BY DEF IInv, RequestInv, TypeOK, EngineInv, Complete, RepairCompletes, Go,
     engineVars, storeVars
<1>7. JudgedInv(q)'
  BY DEF IInv, RequestInv, TypeOK, JudgedInv, Complete, RequiredFailed,
     RepairCompletes, Go, engineVars, storeVars
<1>8. StoredInv(q)'
  BY DEF IInv, RequestInv, TypeOK, StoredInv, Complete, RepairCompletes, Go,
     engineVars, storeVars
<1>9. EffortInv(q)'
  BY Limits DEF IInv, RequestInv, TypeOK, EffortInv, Executing, IsNext,
     Attempts, Reloaded, RepairCompletes, Go, engineVars, storeVars,
     LoopGoesOn, NoResults, NoCalls
<1>10. DepInv(q)'
  BY DependencyTypes DEF IInv, RequestInv, TypeOK, DepInv, Executing,
     IsNext, DependsOn, Reloaded, RepairCompletes, Go, engineVars,
     storeVars, NoResults, NoCalls
<1> QED
  BY <1>1, <1>3, <1>4, <1>5, <1>6, <1>7, <1>8, <1>9, <1>10 DEF IInv, RequestInv

(* A row is written under a live context, so the results are complete.     *)
LEMMA SaveRunStep ==
  ASSUME IInv, NEW q \in Requests, SaveRun(q)
  PROVE  IInv'
<1>1. TypeOK'
  BY DEF IInv, TypeOK, SaveRun, Go, RowOf, CanSave, engineVars, storeVars,
     Places, Statuses
<1>2. \A p \in Requests \ {q} : Same(p)
  BY DEF IInv, TypeOK, Same, SaveRun, Go, RowOf, CanSave, engineVars,
     storeVars
<1>3. \A p \in Requests \ {q} : RequestInv(p)'
  BY <1>2, Frame DEF IInv
<1>4. FreshInv(q)'
  BY DEF IInv, RequestInv, TypeOK, FreshInv, SaveRun, Go, RowOf, CanSave,
     engineVars, storeVars
<1>5. ListInv(q)'
  BY DEF IInv, RequestInv, TypeOK, ListInv, Reloaded, SaveRun, Go, RowOf,
     CanSave, engineVars, storeVars
<1>6. EngineInv(q)'
  BY DEF IInv, RequestInv, TypeOK, EngineInv, Complete, SaveRun, Go, RowOf,
     CanSave, engineVars, storeVars
<1>7. JudgedInv(q)'
  BY DEF IInv, RequestInv, TypeOK, JudgedInv, Complete, RequiredFailed,
     SaveRun, Go, RowOf, CanSave, engineVars, storeVars
<1>8. StoredInv(q)'
  BY DEF IInv, RequestInv, TypeOK, StoredInv, Complete, SaveRun, Go, RowOf,
     CanSave, engineVars, storeVars, JudgedInv
<1>9. EffortInv(q)'
  BY Limits DEF IInv, RequestInv, TypeOK, EffortInv, Executing, IsNext,
     Attempts, Reloaded, SaveRun, Go, RowOf, CanSave, engineVars, storeVars
<1>10. DepInv(q)'
  BY DependencyTypes DEF IInv, RequestInv, TypeOK, DepInv, Executing,
     IsNext, DependsOn, Reloaded, SaveRun, Go, RowOf, CanSave, engineVars,
     storeVars
<1> QED
  BY <1>1, <1>3, <1>4, <1>5, <1>6, <1>7, <1>8, <1>9, <1>10 DEF IInv, RequestInv

(* Results follow the row.                                                 *)
LEMMA SaveResultStep ==
  ASSUME IInv, NEW q \in Requests, NEW c \in AllChecks, SaveResult(q, c)
  PROVE  IInv'
<1>1. TypeOK'
  BY DEF IInv, TypeOK, SaveResult, RowOf, CanSave, engineVars, storeVars
<1>2. \A p \in Requests \ {q} : Same(p)
  BY DEF IInv, TypeOK, Same, SaveResult, RowOf, CanSave, engineVars,
     storeVars
<1>3. \A p \in Requests \ {q} : RequestInv(p)'
  BY <1>2, Frame DEF IInv
<1>4. FreshInv(q)'
  BY DEF IInv, RequestInv, TypeOK, FreshInv, SaveResult, RowOf, CanSave,
     engineVars, storeVars
<1>5. ListInv(q)'
  BY DEF IInv, RequestInv, TypeOK, ListInv, Reloaded, SaveResult, RowOf,
     CanSave, engineVars, storeVars
<1>6. EngineInv(q)'
  BY DEF IInv, RequestInv, TypeOK, EngineInv, Complete, SaveResult, RowOf,
     CanSave, engineVars, storeVars
<1>7. JudgedInv(q)'
  BY DEF IInv, RequestInv, TypeOK, JudgedInv, Complete, RequiredFailed,
     SaveResult, RowOf, CanSave, engineVars, storeVars
<1>8. StoredInv(q)'
  BY DEF IInv, RequestInv, TypeOK, StoredInv, Complete, SaveResult, RowOf,
     CanSave, engineVars, storeVars
<1>9. EffortInv(q)'
  BY Limits DEF IInv, RequestInv, TypeOK, EffortInv, Executing, IsNext,
     Attempts, Reloaded, SaveResult, RowOf, CanSave, engineVars, storeVars
<1>10. DepInv(q)'
  BY DependencyTypes DEF IInv, RequestInv, TypeOK, DepInv, Executing,
     IsNext, DependsOn, Reloaded, SaveResult, RowOf, CanSave, engineVars,
     storeVars
<1> QED
  BY <1>1, <1>3, <1>4, <1>5, <1>6, <1>7, <1>8, <1>9, <1>10 DEF IInv, RequestInv

(* The save is complete.                                                   *)
LEMMA SaveEndsStep ==
  ASSUME IInv, NEW q \in Requests, SaveEnds(q)
  PROVE  IInv'
<1>1. TypeOK'
  BY DEF IInv, TypeOK, SaveEnds, Go, engineVars, storeVars, Places
<1>2. \A p \in Requests \ {q} : Same(p)
  BY DEF IInv, TypeOK, Same, SaveEnds, Go, engineVars, storeVars
<1>3. \A p \in Requests \ {q} : RequestInv(p)'
  BY <1>2, Frame DEF IInv
<1>4. FreshInv(q)'
  BY DEF IInv, RequestInv, TypeOK, FreshInv, SaveEnds, Go, engineVars,
     storeVars
<1>5. ListInv(q)'
  BY DEF IInv, RequestInv, TypeOK, ListInv, Reloaded, SaveEnds, Go,
     engineVars, storeVars
<1>6. EngineInv(q)'
  BY DEF IInv, RequestInv, TypeOK, EngineInv, Complete, SaveEnds, Go,
     engineVars, storeVars
<1>7. JudgedInv(q)'
  BY DEF IInv, RequestInv, TypeOK, JudgedInv, Complete, RequiredFailed,
     SaveEnds, Go, engineVars, storeVars
<1>8. StoredInv(q)'
  BY DEF IInv, RequestInv, TypeOK, StoredInv, Complete, SaveEnds, Go,
     engineVars, storeVars
<1>9. EffortInv(q)'
  BY Limits DEF IInv, RequestInv, TypeOK, EffortInv, Executing, IsNext,
     Attempts, Reloaded, SaveEnds, Go, engineVars, storeVars
<1>10. DepInv(q)'
  BY DependencyTypes DEF IInv, RequestInv, TypeOK, DepInv, Executing,
     IsNext, DependsOn, Reloaded, SaveEnds, Go, engineVars, storeVars
<1> QED
  BY <1>1, <1>3, <1>4, <1>5, <1>6, <1>7, <1>8, <1>9, <1>10 DEF IInv, RequestInv

(* The save is given up.                                                   *)
LEMMA SaveFailsStep ==
  ASSUME IInv, NEW q \in Requests, SaveFails(q)
  PROVE  IInv'
<1>1. TypeOK'
  BY DEF IInv, TypeOK, SaveFails, Go, engineVars, storeVars, Places
<1>2. \A p \in Requests \ {q} : Same(p)
  BY DEF IInv, TypeOK, Same, SaveFails, Go, engineVars, storeVars
<1>3. \A p \in Requests \ {q} : RequestInv(p)'
  BY <1>2, Frame DEF IInv
<1>4. FreshInv(q)'
  BY DEF IInv, RequestInv, TypeOK, FreshInv, SaveFails, Go, engineVars,
     storeVars
<1>5. ListInv(q)'
  BY DEF IInv, RequestInv, TypeOK, ListInv, Reloaded, SaveFails, Go,
     engineVars, storeVars
<1>6. EngineInv(q)'
  BY DEF IInv, RequestInv, TypeOK, EngineInv, Complete, SaveFails, Go,
     engineVars, storeVars
<1>7. JudgedInv(q)'
  BY DEF IInv, RequestInv, TypeOK, JudgedInv, Complete, RequiredFailed,
     SaveFails, Go, engineVars, storeVars
<1>8. StoredInv(q)'
  BY DEF IInv, RequestInv, TypeOK, StoredInv, Complete, SaveFails, Go,
     engineVars, storeVars
<1>9. EffortInv(q)'
  BY Limits DEF IInv, RequestInv, TypeOK, EffortInv, Executing, IsNext,
     Attempts, Reloaded, SaveFails, Go, engineVars, storeVars
<1>10. DepInv(q)'
  BY DependencyTypes DEF IInv, RequestInv, TypeOK, DepInv, Executing,
     IsNext, DependsOn, Reloaded, SaveFails, Go, engineVars, storeVars
<1> QED
  BY <1>1, <1>3, <1>4, <1>5, <1>6, <1>7, <1>8, <1>9, <1>10 DEF IInv, RequestInv

(* A request that has not begun has nothing to be wrong about.             *)
LEMMA InitIInv == Init => IInv
<1> SUFFICES ASSUME Init PROVE IInv
  OBVIOUS
<1>1. TypeOK
  BY DEF Init, TypeOK, Places, Statuses, Results, NoResults, NoCalls
<1>2. ASSUME NEW q \in Requests PROVE RequestInv(q)
  <2>1. FreshInv(q) /\ ListInv(q) /\ EngineInv(q) /\ JudgedInv(q) /\ StoredInv(q)
    BY DEF Init, FreshInv, ListInv, EngineInv, JudgedInv, StoredInv
  <2>2. EffortInv(q) /\ DepInv(q)
    BY Limits DEF Init, EffortInv, DepInv, Executing, NoCalls
  <2> QED BY <2>1, <2>2 DEF RequestInv
<1> QED BY <1>1, <1>2 DEF IInv

(* One lemma per disjunct of Next.                                         *)
LEMMA NextIInv == ASSUME IInv, [Next]_vars PROVE IInv'
<1>1. CASE UNCHANGED vars
  <2>1. \A p \in Requests : Same(p)
    BY <1>1 DEF vars, engineVars, storeVars, Same
  <2>2. TypeOK'
    BY <1>1 DEF IInv, TypeOK, vars, engineVars, storeVars
  <2> QED BY <2>1, <2>2, Frame DEF IInv
<1>2. ASSUME NEW q \in Requests, EngineStep(q) PROVE IInv'
  BY <1>2, StopRunStep, AfterCheckStep, AllDoneStep, SummaryStep, RefuseCheckStep,
     BeginCheckStep, RetryCheckStep, CheckFailsStep, CheckReturnsStep
  DEF EngineStep
<1>3. ASSUME NEW q \in Requests, Work(q) PROVE IInv'
  BY <1>2, <1>3, EndRepairStep, RepairFailsStep, RepairCompletesStep, SaveRunStep,
     SaveEndsStep, SaveFailsStep, SaveResultStep
  DEF Work
<1>4. CASE Next
  BY <1>3, <1>4, CreateVerificationStep, RepairVerificationStep, EndContextStep
  DEF Next
<1> QED BY <1>1, <1>4

-----------------------------------------------------------------------------
(* The inductive invariant holds in every reachable state.                 *)
THEOREM Invariance == Spec => []IInv
<1> QED BY InitIInv, NextIInv, PTL DEF Spec

(* Every variable has its type: in particular run.Status and the rows are  *)
(* verification statuses.                                                  *)
THEOREM TypeCorrect == Spec => []TypeOK
<1>1. IInv => TypeOK
  BY DEF IInv
<1> QED BY <1>1, Invariance, PTL

(* What the deployment gate relies on: a stored PASSED run has a PASSED    *)
(* result for every required check of the list its engine was given.       *)
THEOREM PassedProven == Spec => []PassedIsProven
<1>1. IInv => PassedIsProven
  <2> SUFFICES ASSUME IInv, NEW q \in Requests, rows[q] = "PASSED",
                      NEW c \in list[q], IsRequired(c)
               PROVE  results[q][c] = "PASSED"
    BY DEF PassedIsProven
  <2>1. StoredInv(q) /\ JudgedInv(q)
    BY DEF IInv, RequestInv
  <2>2. RequiredFailed(q) = {} /\ results[q][c] # "NONE"
    BY <2>1 DEF StoredInv, JudgedInv, Complete
  <2> QED BY <2>2 DEF RequiredFailed
<1> QED BY <1>1, Invariance, PTL

(* Interrupted runs are never stored, so there is never a row that         *)
(* cancelVerification would change.                                        *)
THEOREM StoredConclusive == Spec => []Conclusive
<1>1. IInv => Conclusive
  BY DEF IInv, RequestInv, StoredInv, Complete, Conclusive
<1> QED BY <1>1, Invariance, PTL

(* FAILED means that a required check did not pass, and such a check is    *)
(* never hidden by an interruption.                                        *)
THEOREM FailedExplained == Spec => []FailedIsExplained
<1>1. IInv => FailedIsExplained
  BY DEF IInv, RequestInv, JudgedInv, FailedIsExplained
<1> QED BY <1>1, Invariance, PTL

(* Retries and repairs stay within their limits, whatever the limits are.  *)
THEOREM EffortLimited == Spec => []EffortBounded
<1>1. IInv => EffortBounded
  BY DEF IInv, TypeOK, RequestInv, EffortInv, EffortBounded
<1> QED BY <1>1, Invariance, PTL

(* No check is executed after a sorted-earlier dependency failed.          *)
THEOREM DependenciesKept == Spec => []DependenciesHonoured
<1>1. IInv => DependenciesHonoured
  BY DEF IInv, TypeOK, RequestInv, DepInv, DependenciesHonoured
<1> QED BY <1>1, Invariance, PTL

(* A stored verdict is final, although a run may be repaired many times.   *)
THEOREM VerdictFinal == Spec => VerdictStable
<1>1. ASSUME IInv, [Next]_vars, NEW q \in Requests, rows[q] # "NONE"
      PROVE  rows'[q] = rows[q]
  <2>1. pc[q] # "save"
    BY <1>1 DEF IInv, RequestInv, StoredInv
  <2>2. UNCHANGED rows \/ \E p \in Requests : SaveRun(p)
    BY <1>1
    DEF Next, vars, storeVars, Work, EngineStep, CreateVerification,
        RepairVerification, EndContext, StopRun, RefuseCheck, BeginCheck, CheckReturns,
        RetryCheck, CheckFails, AfterCheck, AllDone, Summary, EndRepair, RepairFails,
        RepairCompletes, SaveResult, SaveEnds, SaveFails
  <2>3. CASE \E p \in Requests : SaveRun(p)
    BY <1>1, <2>1, <2>3 DEF SaveRun, RowOf, IInv, TypeOK
  <2> QED BY <2>2, <2>3
<1>2. IInv /\ [Next]_vars => [\A q \in Requests : rows[q] # "NONE" => rows'[q] = rows[q]]_vars
  BY <1>1
<1> QED BY <1>2, Invariance, PTL DEF Spec, VerdictStable
=============================================================================
