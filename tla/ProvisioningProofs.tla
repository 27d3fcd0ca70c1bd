------------------------- MODULE ProvisioningProofs -------------------------
(***************************************************************************)
(* Proofs about Provisioning for any step graph and any number of          *)
(* concurrent requests, with saves and commands that fail, crashes and     *)
(* other users of the container.  The row is always some request's copy,   *)
(* so the inductive invariant says of every copy what is to hold of the    *)
(* row; of a request that is not stale it says how its copy still agrees   *)
(* with the row.                                                           *)
(***************************************************************************)
EXTENDS Provisioning, TLAPS, WellFoundedInduction

Ordered(steps) ==
  \A s \in Steps : steps[s] = "PASSED" => \A d \in Dependencies[s] : steps[d] = "PASSED"

Complete(steps) == \A s \in Steps : steps[s] = "PASSED"

GoodRun(r) == r \in Runs /\ Ordered(r.steps)

Places == {"idle", "reread", "allocate", "create", "record", "round",
           "step", "saveStep", "request", "destroy", "cleaned"}

Handlers == {"none", "start", "resume", "cancel", "cleanup"}

Provisions == {"create", "record", "round", "step", "saveStep"}

(* What holds of a request at p with the run r and the queued steps k.     *)
GoodAt(p, r, k) ==
  /\ GoodRun(r)
  /\ p = "allocate" => Provisionable(r)
  /\ p \in Provisions => r.status = "ALLOCATING"
  /\ p = "record" => r.runtime = OwnRuntime
  /\ p \in Provisions \cup {"allocate"} /\ HasFailed(r) => retried
  /\ \A s \in k : IsReady(r.steps, s)
  /\ p \notin {"step", "saveStep"} => k = {}

(* A request that nobody overtook knows the row; only the ID of a runtime  *)
(* it has just created is news to the row.                                 *)
FreshAt(p, r) ==
  p # "idle" => /\ r.cancel = row.cancel /\ r.status = row.status
                /\ p # "record" => r.runtime = row.runtime

RequestInv ==
  \A c \in Callers :
    /\ GoodAt(pc[c], copy[c], queue[c])
    /\ c \notin stale => FreshAt(pc[c], copy[c])

(* A stop stays recorded in the row.                                       *)
RowInv ==
  /\ GoodRun(row)
  /\ stopped => row.cancel \/ row.status = "CANCELLED"
  /\ StopHonoured
  /\ ReadyIsComplete
  /\ NoRuntimeLost

IInv == TypeOK /\ RequestInv /\ RowInv

-----------------------------------------------------------------------------
(* Lemmas about single runs.                                               *)

(* A new plan is good.                                                     *)
LEMMA PlannedGood ==
  ASSUME NEW r \in Runtimes
  PROVE  /\ GoodRun(Planned(r)) /\ Planned(r) \in Runs
         /\ Planned(r).status = "PLANNED" /\ ~HasFailed(Planned(r))
<1>1. Planned(r) \in Runs
  BY DEF Planned, Runs, Statuses, StepStatuses
<1> QED BY <1>1 DEF GoodRun, Planned, Ordered, HasFailed

(* Changing the status keeps a run good.                                   *)
LEMMA StatusGood ==
  ASSUME NEW r, GoodRun(r), NEW st \in Statuses
  PROVE  LET q == [r EXCEPT !.status = st]
         IN  /\ GoodRun(q) /\ q.status = st /\ q.steps = r.steps
             /\ q.runtime = r.runtime /\ q.cancel = r.cancel
BY DEF GoodRun, Runs

(* A cancel request too.                                                   *)
LEMMA CancelGood ==
  ASSUME NEW r, GoodRun(r)
  PROVE  LET q == CancelRequested(r)
         IN  /\ GoodRun(q) /\ q.status = "CANCEL_REQUESTED" /\ q.cancel = TRUE
             /\ q.runtime = r.runtime
<1> DEFINE q == CancelRequested(r)
<1>1. /\ q.status = "CANCEL_REQUESTED" /\ q.steps = r.steps /\ q.cancel = TRUE
      /\ q.runtime = r.runtime
  BY DEF GoodRun, Runs, CancelRequested
<1>2. q \in Runs
  <2>1. "CANCEL_REQUESTED" \in Statuses /\ TRUE \in BOOLEAN
    BY DEF Statuses
  <2> QED BY <2>1 DEF GoodRun, Runs, CancelRequested
<1> QED BY <1>1, <1>2 DEF GoodRun

(* Recording the runtime.                                                  *)
LEMMA RuntimeGood ==
  ASSUME NEW r, GoodRun(r)
  PROVE  LET q == [r EXCEPT !.runtime = OwnRuntime]
         IN  /\ GoodRun(q) /\ q.steps = r.steps /\ q.status = r.status
             /\ q.cancel = r.cancel /\ q.runtime = OwnRuntime
BY DEF GoodRun, Runs, Runtimes, OwnRuntime

(* Marking a ready step keeps the order, and the other ready steps ready.  *)
LEMMA MarkGood ==
  ASSUME NEW r, GoodRun(r), NEW s \in Steps, IsReady(r.steps, s),
         NEW st \in {"PASSED", "FAILED"}
  PROVE  LET q == mark(r, s, st)
         IN  /\ GoodRun(q) /\ q.status = r.status /\ q.cancel = r.cancel
             /\ q.runtime = r.runtime
             /\ st = "PASSED" =>
                  /\ HasFailed(q) => HasFailed(r)
                  /\ \A t \in Steps \ {s} : IsReady(r.steps, t) => IsReady(q.steps, t)
<1> DEFINE q == mark(r, s, st)
<1>0. r \in Runs /\ Ordered(r.steps) /\ r.steps \in [Steps -> StepStatuses]
  BY DEF GoodRun, Runs
<1>1. q.steps = [r.steps EXCEPT ![s] = st] /\ q.status = r.status
      /\ q.cancel = r.cancel /\ q.runtime = r.runtime
  BY <1>0 DEF mark, Runs
<1>2. q \in Runs
  <2>1. [r.steps EXCEPT ![s] = st] \in [Steps -> StepStatuses]
    BY <1>0 DEF StepStatuses
  <2> QED BY <1>0, <2>1 DEF mark, Runs
<1>3. \A t \in Steps : r.steps[t] = "PASSED" => s \notin Dependencies[t]
  BY <1>0 DEF Ordered, IsReady
<1>4. r.steps[s] = "PENDING" /\ \A d \in Dependencies[s] : r.steps[d] = "PASSED"
  BY DEF IsReady
<1>5. Dependencies[s] \subseteq Steps /\ s \notin Dependencies[s]
  BY GraphAssumption DEF Steps
<1>6. ASSUME NEW t \in Steps, q.steps[t] = "PASSED", NEW d \in Dependencies[t]
      PROVE  q.steps[d] = "PASSED"
  <2>1. d \in Steps
    BY <1>6, GraphAssumption
  <2>2. CASE t = s
    BY <1>0, <1>1, <1>4, <1>5, <2>1, <2>2
  <2>3. CASE t # s
    BY <1>0, <1>1, <1>3, <1>6, <2>1, <2>3 DEF Ordered
  <2> QED BY <2>2, <2>3
<1>7. ASSUME st = "PASSED", NEW t \in Steps \ {s}, IsReady(r.steps, t)
      PROVE  IsReady(q.steps, t)
  <2>1. Dependencies[t] \subseteq Steps
    BY GraphAssumption
  <2> QED BY <1>0, <1>1, <1>7, <2>1 DEF IsReady
<1>8. Ordered(q.steps)
  BY <1>6 DEF Ordered
<1>9. st = "PASSED" => (HasFailed(q) => HasFailed(r))
  BY <1>0, <1>1 DEF HasFailed
<1> QED BY <1>1, <1>2, <1>7, <1>8, <1>9 DEF GoodRun

(* Rounds end when the whole graph is done: if nothing failed, the first   *)
(* step that has not passed would be ready.                                *)
LEMMA NothingLeftComplete ==
  ASSUME NEW r, GoodRun(r), ~HasFailed(r), NothingLeft(r.steps)
  PROVE  Complete(r.steps)
<1> DEFINE S == {s \in Steps : r.steps[s] # "PASSED"}
<1>1. SUFFICES ASSUME S # {} PROVE FALSE
  BY <1>1 DEF Complete
<1>2. S \in SUBSET Nat
  BY StepsAssumption DEF Steps
<1>3. PICK m \in S : \A n \in S : ~(<<n, m>> \in OpToRel(<, Nat))
  <2> HIDE DEF S
  <2> QED BY <1>1, <1>2, NatLessThanWellFounded, WFMin
<1>4. \A n \in S : ~(n < m)
  BY <1>2, <1>3 DEF OpToRel
<1>5. m \in Steps /\ Dependencies[m] \subseteq Steps /\ \A d \in Dependencies[m] : d < m
  BY GraphAssumption
<1>6. \A d \in Dependencies[m] : r.steps[d] = "PASSED"
  BY <1>4, <1>5
<1>7. r.steps[m] = "PENDING"
  BY <1>5 DEF GoodRun, Runs, StepStatuses, HasFailed
<1>8. IsReady(r.steps, m)
  BY <1>6, <1>7 DEF IsReady
<1> QED BY <1>5, <1>8 DEF NothingLeft, ReadySteps

-----------------------------------------------------------------------------
(* Request c moves to p with the run r and the queued steps k: it is       *)
(* enough to know what becomes of c.                                       *)
LEMMA Moves ==
  ASSUME IInv, NEW c \in Callers, NEW p \in Places, NEW r, NEW k \in SUBSET Steps,
         NEW o \in Handlers,
         pc' = [pc EXCEPT ![c] = p], copy' = [copy EXCEPT ![c] = r],
         queue' = [queue EXCEPT ![c] = k], op' = [op EXCEPT ![c] = o],
         retried' \in BOOLEAN, retried => retried',
         stale' = InFlight \ {c} \/ (row' = row /\ stale' \in {stale, stale \ {c}}),
         GoodRun(r), p = "allocate" => Provisionable(r),
         p \in Provisions => r.status = "ALLOCATING",
         p = "record" => r.runtime = OwnRuntime,
         p \in Provisions \cup {"allocate"} /\ HasFailed(r) => retried',
         \A s \in k : IsReady(r.steps, s),
         p \notin {"step", "saveStep"} => k = {},
         p # "idle" /\ c \notin stale' =>
            /\ r.cancel = row'.cancel /\ r.status = row'.status
            /\ p # "record" => r.runtime = row'.runtime
  PROVE  /\ RequestInv' /\ stale' \subseteq Callers
         /\ pc' \in [Callers -> Places] /\ op' \in [Callers -> Handlers]
         /\ copy' \in [Callers -> Runs] /\ queue' \in [Callers -> SUBSET Steps]
<1>1. /\ pc \in [Callers -> Places] /\ op \in [Callers -> Handlers]
      /\ copy \in [Callers -> Runs] /\ queue \in [Callers -> SUBSET Steps]
      /\ stale \subseteq Callers /\ r \in Runs
  BY DEF IInv, TypeOK, Places, Handlers, GoodRun
<1>2. /\ pc' \in [Callers -> Places] /\ op' \in [Callers -> Handlers]
      /\ copy' \in [Callers -> Runs] /\ queue' \in [Callers -> SUBSET Steps]
      /\ stale' \subseteq Callers
  BY <1>1 DEF InFlight
<1>3. /\ pc'[c] = p /\ copy'[c] = r /\ queue'[c] = k
      /\ \A d \in Callers \ {c} : pc'[d] = pc[d] /\ copy'[d] = copy[d] /\ queue'[d] = queue[d]
  BY <1>1
<1>4. ASSUME NEW d \in Callers \ {c} PROVE GoodAt(pc[d], copy[d], queue[d])'
  BY <1>3 DEF IInv, RequestInv, GoodAt, GoodRun, Ordered, Provisionable, HasFailed, IsReady
<1>5. ASSUME NEW d \in Callers \ {c}, d \notin stale' PROVE FreshAt(pc[d], copy[d])'
  <2>1. CASE stale' = InFlight \ {c}
    BY <1>3, <1>5, <2>1 DEF InFlight, FreshAt
  <2>2. CASE row' = row /\ stale' \in {stale, stale \ {c}}
    BY <1>3, <1>5, <2>2 DEF IInv, RequestInv, FreshAt
  <2> QED BY <2>1, <2>2
<1>6. GoodAt(pc[c], copy[c], queue[c])'
  BY <1>3 DEF GoodAt, GoodRun, Ordered, Provisionable, HasFailed, IsReady
<1>7. c \notin stale' => FreshAt(pc[c], copy[c])'
  BY <1>3 DEF FreshAt
<1>8. RequestInv'
  BY <1>4, <1>5, <1>6, <1>7 DEF RequestInv
<1> QED BY <1>2, <1>8

(* A save by a request with a copy r that keeps the runtime and the stop   *)
(* it had, and is READY only when it may be.                               *)
LEMMA Saves ==
  ASSUME IInv, NEW c \in Callers, pc[c] # "idle", NEW r, GoodRun(r), NEW ok, save(c, r, ok),
         r.runtime = copy[c].runtime, copy[c].cancel => r.cancel,
         r.status \in Stops => r.cancel \/ r.status = "CANCELLED",
         copy[c].status = "CANCELLED" => r.cancel \/ r.status = "CANCELLED",
         r.status = "READY" => /\ ~copy[c].cancel /\ copy[c].status # "CANCELLED"
                               /\ retried \/ Complete(r.steps),
         retried' = retried,
         \A d \in Callers \ {c} : pc'[d] = pc[d]
  PROVE  /\ RowInv' /\ row' \in Runs /\ stopped' \in BOOLEAN /\ made' \in BOOLEAN
         /\ stale' = InFlight \ {c} \/ (row' = row /\ stale' = stale \ {c})
         /\ c \notin stale' /\ (ok = TRUE => row' = r)
<1>0. /\ RowInv /\ row \in Runs /\ stopped \in BOOLEAN /\ made \in BOOLEAN
      /\ retried \in BOOLEAN /\ r \in Runs /\ copy[c] \in Runs
      /\ GoodAt(pc[c], copy[c], queue[c])
      /\ c \notin stale => FreshAt(pc[c], copy[c])
  BY DEF IInv, TypeOK, RequestInv, GoodRun, GoodAt
<1>1. CASE /\ row' = r /\ stale' = InFlight \ {c}
           /\ stopped' = (r.status \in Stops \/ (stopped /\ c \notin stale))
           /\ made' = (made /\ (r.runtime = OwnRuntime \/ c \notin stale))
  <2>1. stopped' => (r.cancel \/ r.status = "CANCELLED") /\ r.status # "READY"
    <3>1. CASE r.status \in Stops
      BY <3>1 DEF Stops
    <3>2. CASE stopped /\ c \notin stale
      BY <1>0, <3>2 DEF RowInv, FreshAt
    <3> QED BY <1>1, <3>1, <3>2
  <2>2. made' => r.runtime = OwnRuntime \/ \E d \in Callers : pc'[d] = "record"
    <3>1. SUFFICES ASSUME made, c \notin stale, r.runtime # OwnRuntime
                   PROVE  \E d \in Callers : pc'[d] = "record"
      BY <1>1
    <3>2. pc[c] # "record" /\ row.runtime # OwnRuntime
      BY <1>0, <3>1 DEF GoodAt, FreshAt
    <3>3. PICK d \in Callers : pc[d] = "record"
      BY <1>0, <3>1, <3>2 DEF RowInv, NoRuntimeLost
    <3> QED BY <3>2, <3>3
  <2>3. row'.status = "READY" => retried' \/ \A s \in Steps : row'.steps[s] = "PASSED"
    BY <1>1 DEF Complete
  <2>4. GoodRun(row)'
    BY <1>1 DEF GoodRun, Ordered
  <2> QED BY <1>0, <1>1, <2>1, <2>2, <2>3, <2>4
      DEF RowInv, StopHonoured, ReadyIsComplete, NoRuntimeLost
<1>2. CASE /\ ~ok /\ stale' = stale \ {c} /\ made' = (made /\ pc[c] # "record")
           /\ UNCHANGED <<row, stopped>>
  <2>1. made' => row.runtime = OwnRuntime \/ \E d \in Callers : pc'[d] = "record"
    BY <1>0, <1>2 DEF RowInv, NoRuntimeLost
  <2>2. GoodRun(row)'
    BY <1>0, <1>2 DEF RowInv, GoodRun, Ordered
  <2> QED BY <1>0, <1>2, <2>1, <2>2 DEF RowInv, StopHonoured, ReadyIsComplete, NoRuntimeLost
<1> QED BY <1>1, <1>2 DEF save

(* What a step of a request is to establish; the counters are apart.       *)
Kept ==
  /\ RequestInv /\ RowInv /\ row \in Runs /\ stale \subseteq Callers
  /\ pc \in [Callers -> Places] /\ op \in [Callers -> Handlers]
  /\ copy \in [Callers -> Runs] /\ queue \in [Callers -> SUBSET Steps]
  /\ stopped \in BOOLEAN /\ made \in BOOLEAN /\ retried \in BOOLEAN

(* A request returns.                                                      *)
LEMMA Returns ==
  ASSUME IInv, NEW c \in Callers, Return(c), retried' = retried,
         stale' = InFlight \ {c} \/ (row' = row /\ stale' = stale \ {c}),
         RowInv', row' \in Runs, stopped' \in BOOLEAN, made' \in BOOLEAN
  PROVE  Kept'
<1> DEFINE r == Planned(NoRuntime)
<1>1. GoodRun(r) /\ NoRuntime \in Runtimes /\ retried \in BOOLEAN
  BY PlannedGood DEF NoRuntime, Runtimes, IInv, TypeOK
<1>2. /\ pc' = [pc EXCEPT ![c] = "idle"] /\ copy' = [copy EXCEPT ![c] = r]
      /\ queue' = [queue EXCEPT ![c] = {}] /\ op' = [op EXCEPT ![c] = "none"]
  BY DEF Return
<1>3. "idle" \in Places /\ "none" \in Handlers /\ {} \in SUBSET Steps
      /\ "idle" \notin Provisions
  BY DEF Places, Handlers, Provisions
<1> HIDE DEF r
<1>4. /\ RequestInv' /\ stale' \subseteq Callers
      /\ pc' \in [Callers -> Places] /\ op' \in [Callers -> Handlers]
      /\ copy' \in [Callers -> Runs] /\ queue' \in [Callers -> SUBSET Steps]
  BY <1>1, <1>2, <1>3, Moves
<1> QED BY <1>1, <1>4 DEF Kept

(* Save and return.                                                        *)
LEMMA SaveReturns ==
  ASSUME IInv, NEW c \in Callers, pc[c] # "idle", NEW r, GoodRun(r), SaveAndReturn(c, r),
         r.runtime = copy[c].runtime, copy[c].cancel => r.cancel,
         r.status \in Stops => r.cancel \/ r.status = "CANCELLED",
         copy[c].status = "CANCELLED" => r.cancel \/ r.status = "CANCELLED",
         r.status = "READY" => /\ ~copy[c].cancel /\ copy[c].status # "CANCELLED"
                               /\ retried \/ Complete(r.steps),
         retried' = retried
  PROVE  Kept'
<1>1. PICK ok \in SaveOutcomes : save(c, r, ok)
  BY DEF SaveAndReturn
<1>2. Return(c) /\ pc \in [Callers -> Places]
  BY DEF SaveAndReturn, IInv, TypeOK, Places
<1>3. \A d \in Callers \ {c} : pc'[d] = pc[d]
  BY <1>2 DEF Return
<1>4. /\ RowInv' /\ row' \in Runs /\ stopped' \in BOOLEAN /\ made' \in BOOLEAN
      /\ stale' = InFlight \ {c} \/ (row' = row /\ stale' = stale \ {c})
  BY <1>1, <1>3, Saves
<1> QED BY <1>2, <1>4, Returns

(* Save and go on with the run of the request that provisions.             *)
LEMMA SaveGoesOn ==
  ASSUME IInv, NEW c \in Callers, pc[c] # "idle", NEW r, GoodRun(r),
         NEW p \in {"create", "round", "step"}, SaveAnd(c, r, p),
         r.runtime = copy[c].runtime, r.cancel = copy[c].cancel,
         r.status = "ALLOCATING", copy[c].status # "CANCELLED",
         HasFailed(r) => retried, retried' = retried,
         \A s \in queue[c] : IsReady(r.steps, s), p # "step" => queue[c] = {}
  PROVE  Kept'
<1>1. PICK ok \in SaveOutcomes :
        save(c, r, ok) /\ (\/ ok /\ Continue(c, p, r) /\ UNCHANGED queue
                           \/ ~ok /\ Return(c))
  BY DEF SaveAnd
<1>2. /\ pc \in [Callers -> Places] /\ queue \in [Callers -> SUBSET Steps]
      /\ op \in [Callers -> Handlers] /\ retried \in BOOLEAN /\ ok \in BOOLEAN
  BY DEF IInv, TypeOK, Places, Handlers, SaveOutcomes
<1>3. \A d \in Callers \ {c} : pc'[d] = pc[d]
  BY <1>1, <1>2 DEF Return, Continue
<1>4. r.status \notin Stops /\ r.status # "READY"
  BY DEF Stops
<1>5. /\ RowInv' /\ row' \in Runs /\ stopped' \in BOOLEAN /\ made' \in BOOLEAN
      /\ stale' = InFlight \ {c} \/ (row' = row /\ stale' = stale \ {c})
      /\ c \notin stale' /\ (ok = TRUE => row' = r)
  BY <1>1, <1>3, <1>4, Saves
<1>6. CASE Return(c)
  BY <1>5, <1>6, Returns
<1>7. CASE ok /\ Continue(c, p, r) /\ UNCHANGED queue
  <2>1. /\ pc' = [pc EXCEPT ![c] = p] /\ copy' = [copy EXCEPT ![c] = r]
        /\ queue' = [queue EXCEPT ![c] = queue[c]] /\ op' = [op EXCEPT ![c] = op[c]]
        /\ queue[c] \in SUBSET Steps /\ op[c] \in Handlers /\ p \in Places
        /\ p # "allocate" /\ p # "record" /\ (p \notin {"step", "saveStep"} => queue[c] = {})
    BY <1>2, <1>7 DEF Continue, Places
  <2>2. row' = r
    BY <1>2, <1>5, <1>7
  <2>3. /\ RequestInv' /\ stale' \subseteq Callers
        /\ pc' \in [Callers -> Places] /\ op' \in [Callers -> Handlers]
        /\ copy' \in [Callers -> Runs] /\ queue' \in [Callers -> SUBSET Steps]
    BY <1>2, <1>5, <2>1, <2>2, Moves
  <2> QED BY <1>2, <1>5, <2>3 DEF Kept
<1> QED BY <1>1, <1>6, <1>7

(* Going on without a save.                                                *)
LEMMA GoesOn ==
  ASSUME IInv, NEW c \in Callers, NEW p \in Places, NEW r, GoodRun(r),
         NEW k \in SUBSET Steps,
         Continue(c, p, r), queue' = [queue EXCEPT ![c] = k],
         retried' \in BOOLEAN, retried => retried',
         row' = row, stopped' = stopped, stale' \in {stale, stale \ {c}},
         p = "allocate" => Provisionable(r),
         p \in Provisions => r.status = "ALLOCATING",
         p = "record" => r.runtime = OwnRuntime,
         p \in Provisions \cup {"allocate"} /\ HasFailed(r) => retried',
         \A s \in k : IsReady(r.steps, s),
         p \notin {"step", "saveStep"} => k = {},
         p # "idle" /\ c \notin stale' =>
            /\ r.cancel = row.cancel /\ r.status = row.status
            /\ p # "record" => r.runtime = row.runtime,
         made' \in BOOLEAN,
         made' => (made /\ pc[c] # "record") \/ p = "record"
  PROVE  Kept'
<1>1. /\ pc' = [pc EXCEPT ![c] = p] /\ copy' = [copy EXCEPT ![c] = r]
      /\ op' = [op EXCEPT ![c] = op[c]] /\ op[c] \in Handlers
      /\ pc \in [Callers -> Places] /\ RowInv /\ row \in Runs /\ stopped \in BOOLEAN
  BY DEF Continue, IInv, TypeOK, Handlers, Places
<1>2. /\ RequestInv' /\ stale' \subseteq Callers
      /\ pc' \in [Callers -> Places] /\ op' \in [Callers -> Handlers]
      /\ copy' \in [Callers -> Runs] /\ queue' \in [Callers -> SUBSET Steps]
  BY <1>1, Moves
<1>3. NoRuntimeLost'
  <2>1. CASE p = "record"
    <3>1. pc'[c] = "record"
      BY <1>1, <2>1
    <3> QED BY <3>1 DEF NoRuntimeLost
  <2>2. CASE made' => made /\ pc[c] # "record"
    <3>1. SUFFICES ASSUME made' PROVE row'.runtime = OwnRuntime \/ \E d \in Callers : pc'[d] = "record"
      BY DEF NoRuntimeLost
    <3>2. made /\ pc[c] # "record"
      BY <2>2, <3>1
    <3>3. CASE row.runtime = OwnRuntime
      BY <3>3
    <3>4. CASE \E d \in Callers : pc[d] = "record"
      BY <1>1, <3>2, <3>4
    <3> QED BY <1>1, <3>2, <3>3, <3>4 DEF RowInv, NoRuntimeLost
  <2> QED BY <2>1, <2>2
<1>4. RowInv'
  BY <1>1, <1>3 DEF RowInv, GoodRun, Ordered, StopHonoured, ReadyIsComplete
<1> QED BY <1>1, <1>2, <1>4 DEF Kept

-----------------------------------------------------------------------------
(* Every step of a request keeps the invariant.                            *)
LEMMA WorkKeeps ==
  ASSUME IInv, NEW c \in Callers, Work(c)
  PROVE  Kept'
<1>0. /\ GoodAt(pc[c], copy[c], queue[c]) /\ GoodRun(copy[c]) /\ GoodRun(row) /\ RowInv
      /\ c \notin stale => FreshAt(pc[c], copy[c])
      /\ queue[c] \in SUBSET Steps /\ queue \in [Callers -> SUBSET Steps]
      /\ row \in Runs /\ copy[c] \in Runs
      /\ stopped \in BOOLEAN /\ made \in BOOLEAN /\ retried \in BOOLEAN
  BY DEF IInv, TypeOK, RequestInv, RowInv, GoodAt
<1>a. \A q \in Places : q \in Provisions <=> q \in {"create", "record", "round", "step", "saveStep"}
  BY DEF Provisions
<1>b. queue' = queue => queue' = [queue EXCEPT ![c] = queue[c]]
  BY <1>0
<1>c. \A s \in {} : IsReady(row.steps, s) /\ IsReady(copy[c].steps, s)
  OBVIOUS
<1>1. ASSUME ResumeReread(c) PROVE Kept'
  <2>1. /\ stale' = stale \ {c} /\ UNCHANGED <<row, stopped, made>> /\ queue[c] = {}
        /\ pc[c] = "reread"
    BY <1>0, <1>1 DEF ResumeReread, GoodAt
  <2>2. CASE Return(c) /\ UNCHANGED retried
    <3>1. RowInv'
      <4>1. NoRuntimeLost'
        <5>1. SUFFICES ASSUME made PROVE row.runtime = OwnRuntime \/ \E d \in Callers : pc'[d] = "record"
          BY <2>1 DEF NoRuntimeLost
        <5>2. row.runtime = OwnRuntime \/ \E d \in Callers \ {c} : pc[d] = "record"
          BY <1>0, <2>1, <5>1 DEF RowInv, NoRuntimeLost
        <5> QED BY <2>2, <5>2 DEF Return, IInv, TypeOK
      <4> QED BY <1>0, <2>1, <2>2, <4>1 DEF RowInv, GoodRun, Ordered, StopHonoured, ReadyIsComplete
    <3> QED BY <1>0, <2>1, <2>2, <3>1, Returns
  <2>3. CASE /\ Provisionable(row) /\ Continue(c, "allocate", row) /\ UNCHANGED queue
             /\ retried' = (retried \/ HasFailed(row))
    <3>1. "allocate" \in Places /\ {} \in SUBSET Steps /\ queue' = [queue EXCEPT ![c] = {}]
          /\ retried' \in BOOLEAN
      BY <1>0, <2>1, <2>3 DEF Places, HasFailed
    <3> QED BY <1>0, <1>c, <2>1, <2>3, <3>1, GoesOn DEF Provisions
  <2> QED BY <1>1, <2>2, <2>3 DEF ResumeReread
<1>2. ASSUME Allocate(c) PROVE Kept'
  <2> DEFINE r == [copy[c] EXCEPT !.status = "ALLOCATING"]
  <2>1. /\ GoodRun(r) /\ r.status = "ALLOCATING" /\ r.steps = copy[c].steps
        /\ r.runtime = copy[c].runtime /\ r.cancel = copy[c].cancel
    BY <1>0, StatusGood DEF Statuses
  <2>2. PICK q \in {"create", "round"} : SaveAnd(c, r, q)
    BY <1>2 DEF Allocate
  <2>3. queue[c] = {} /\ pc[c] = "allocate" /\ copy[c].status # "CANCELLED" /\ retried' = retried
    BY <1>0, <1>2 DEF Allocate, GoodAt, Provisionable
  <2>4. HasFailed(r) => retried
    BY <1>0, <2>1, <2>3 DEF HasFailed, GoodAt
  <2> HIDE DEF r
  <2> QED BY <2>1, <2>2, <2>3, <2>4, SaveGoesOn
<1>3. ASSUME CreateRuntime(c) PROVE Kept'
  <2> DEFINE r == [copy[c] EXCEPT !.runtime = OwnRuntime]
  <2>1. /\ GoodRun(r) /\ r.status = copy[c].status /\ r.cancel = copy[c].cancel
        /\ r.steps = copy[c].steps /\ r.runtime = OwnRuntime
    BY <1>0, RuntimeGood
  <2>2. /\ Continue(c, "record", r) /\ UNCHANGED <<row, queue, stale, stopped, retried>>
        /\ pc[c] = "create" /\ made' = TRUE
    BY <1>3 DEF CreateRuntime
  <2>3. copy[c].status = "ALLOCATING" /\ queue[c] = {} /\ (HasFailed(copy[c]) => retried)
    BY <1>0, <1>a, <2>2 DEF GoodAt, Provisions
  <2>4. HasFailed(r) => retried
    BY <2>1, <2>3 DEF HasFailed
  <2>5. c \notin stale => r.cancel = row.cancel /\ r.status = row.status
    BY <1>0, <2>1, <2>2 DEF FreshAt
  <2>6. "record" \in Places /\ {} \in SUBSET Steps /\ queue' = [queue EXCEPT ![c] = {}]
        /\ \A s \in {} : IsReady(r.steps, s)
    BY <1>b, <2>2, <2>3 DEF Places
  <2> HIDE DEF r
  <2> QED BY <1>0, <2>1, <2>2, <2>3, <2>4, <2>5, <2>6, GoesOn
<1>d. ASSUME NEW st \in {"FAILED", "CANCELLED"}, pc[c] \in Provisions,
             SaveAndReturn(c, [copy[c] EXCEPT !.status = st]), retried' = retried
      PROVE  Kept'
  <2> DEFINE r == [copy[c] EXCEPT !.status = st]
  <2>0. st \in Statuses
    BY DEF Statuses
  <2>1. /\ GoodRun(r) /\ r.status = st /\ r.runtime = copy[c].runtime
        /\ r.cancel = copy[c].cancel
    BY <1>0, <2>0, StatusGood
  <2>2. copy[c].status = "ALLOCATING" /\ pc[c] # "idle"
    BY <1>0, <1>d DEF GoodAt, Provisions
  <2>3. SaveAndReturn(c, r)
    BY <1>d
  <2>4. r.status \in Stops => r.status = "CANCELLED"
    BY <2>1 DEF Stops
  <2> HIDE DEF r
  <2> QED BY <1>d, <2>1, <2>2, <2>3, <2>4, SaveReturns
<1>4. ASSUME CreateFails(c) PROVE Kept'
  BY <1>4, <1>d DEF CreateFails, Provisions
<1>5. ASSUME RecordRuntime(c) PROVE Kept'
  <2>1. /\ SaveAnd(c, copy[c], "round") /\ copy[c].status = "ALLOCATING" /\ queue[c] = {}
        /\ (HasFailed(copy[c]) => retried) /\ retried' = retried /\ pc[c] # "idle"
    BY <1>0, <1>5 DEF RecordRuntime, GoodAt, Provisions
  <2> QED BY <1>0, <2>1, SaveGoesOn
<1>6. ASSUME CancelRound(c) PROVE Kept'
  BY <1>6, <1>d DEF CancelRound, Provisions
<1>7. ASSUME BeginRound(c) PROVE Kept'
  <2> DEFINE k == ReadySteps(copy[c].steps)
  <2>1. k \in SUBSET Steps /\ \A s \in k : IsReady(copy[c].steps, s)
    BY DEF ReadySteps
  <2>2. /\ Continue(c, "step", copy[c]) /\ pc[c] = "round"
        /\ UNCHANGED <<row, stale, stopped, made, retried>>
        /\ queue' = [queue EXCEPT ![c] = k] /\ "step" \in Places
    BY <1>7 DEF BeginRound, historyVars, Places
  <2>3. copy[c].status = "ALLOCATING" /\ (HasFailed(copy[c]) => retried)
    BY <1>0, <2>2 DEF GoodAt, Provisions
  <2>4. c \notin stale => /\ copy[c].cancel = row.cancel /\ copy[c].status = row.status
                          /\ copy[c].runtime = row.runtime
    BY <1>0, <2>2 DEF FreshAt
  <2> HIDE DEF k
  <2> QED BY <1>0, <2>1, <2>2, <2>3, <2>4, GoesOn
<1>8. ASSUME FinishProvisioning(c) PROVE Kept'
  <2> DEFINE r == [copy[c] EXCEPT !.status = "READY"]
  <2>1. /\ GoodRun(r) /\ r.status = "READY" /\ r.runtime = copy[c].runtime
        /\ r.cancel = copy[c].cancel /\ r.steps = copy[c].steps
    BY <1>0, StatusGood DEF Statuses
  <2>2. /\ SaveAndReturn(c, r) /\ retried' = retried /\ pc[c] = "round" /\ ~copy[c].cancel
        /\ NothingLeft(copy[c].steps)
    BY <1>8 DEF FinishProvisioning
  <2>3. copy[c].status = "ALLOCATING" /\ (HasFailed(copy[c]) => retried)
    BY <1>0, <2>2 DEF GoodAt, Provisions
  <2>4. retried \/ Complete(r.steps)
    BY <1>0, <2>1, <2>2, <2>3, NothingLeftComplete
  <2>5. r.status \notin Stops
    BY <2>1 DEF Stops
  <2> HIDE DEF r
  <2> QED BY <2>1, <2>2, <2>3, <2>4, <2>5, SaveReturns
<1>9. ASSUME NEW s \in Steps, StepPasses(c, s) PROVE Kept'
  <2> DEFINE r == mark(copy[c], s, "PASSED")
  <2> DEFINE k == queue[c] \ {s}
  <2>1. /\ pc[c] = "step" /\ s \in queue[c] /\ Continue(c, "saveStep", r)
        /\ queue' = [queue EXCEPT ![c] = k] /\ UNCHANGED <<row, stale, stopped, made, retried>>
        /\ "saveStep" \in Places
    BY <1>9 DEF StepPasses, IsFirst, historyVars, Places
  <2>2. /\ IsReady(copy[c].steps, s) /\ copy[c].status = "ALLOCATING"
        /\ (HasFailed(copy[c]) => retried)
        /\ \A t \in queue[c] : IsReady(copy[c].steps, t)
    BY <1>0, <2>1 DEF GoodAt, Provisions
  <2>3. /\ GoodRun(r) /\ r.status = copy[c].status /\ r.cancel = copy[c].cancel
        /\ r.runtime = copy[c].runtime /\ (HasFailed(r) => HasFailed(copy[c]))
        /\ \A t \in Steps \ {s} : IsReady(copy[c].steps, t) => IsReady(r.steps, t)
    BY <1>0, <2>2, MarkGood
  <2>4. k \in SUBSET Steps /\ \A t \in k : IsReady(r.steps, t)
    BY <1>0, <2>2, <2>3
  <2>5. c \notin stale => /\ r.cancel = row.cancel /\ r.status = row.status
                          /\ r.runtime = row.runtime
    BY <1>0, <2>1, <2>3 DEF FreshAt
  <2> HIDE DEF r, k
  <2> QED BY <1>0, <2>1, <2>2, <2>3, <2>4, <2>5, GoesOn
<1>10. ASSUME NEW s \in Steps, StepFails(c, s) PROVE Kept'
  <2> DEFINE q == mark(copy[c], s, "FAILED")
  <2> DEFINE r == [q EXCEPT !.status = "FAILED"]
  <2>1. s \in queue[c] /\ pc[c] = "step" /\ SaveAndReturn(c, r) /\ retried' = retried
    BY <1>10 DEF StepFails, IsFirst
  <2>2. IsReady(copy[c].steps, s) /\ copy[c].status = "ALLOCATING"
    BY <1>0, <2>1 DEF GoodAt, Provisions
  <2>3. GoodRun(q) /\ q.cancel = copy[c].cancel /\ q.runtime = copy[c].runtime
    BY <1>0, <2>2, MarkGood
  <2> HIDE DEF q
  <2>4. GoodRun(r) /\ r.status = "FAILED" /\ r.cancel = q.cancel /\ r.runtime = q.runtime
    BY <2>3, StatusGood DEF Statuses
  <2>5. r.status \notin Stops
    BY <2>4 DEF Stops
  <2> HIDE DEF r
  <2> QED BY <2>1, <2>2, <2>3, <2>4, <2>5, SaveReturns
<1>11. ASSUME SaveStep(c) PROVE Kept'
  <2>1. PICK q \in {"round", "step"} : SaveAnd(c, copy[c], q) /\ (q # "step" => queue[c] = {})
    BY <1>11 DEF SaveStep
  <2>2. /\ copy[c].status = "ALLOCATING" /\ (HasFailed(copy[c]) => retried)
        /\ retried' = retried /\ pc[c] # "idle"
        /\ \A t \in queue[c] : IsReady(copy[c].steps, t)
    BY <1>0, <1>11 DEF SaveStep, GoodAt, Provisions
  <2> QED BY <1>0, <2>1, <2>2, SaveGoesOn
<1>12. ASSUME SaveCancelRequest(c) PROVE Kept'
  <2> DEFINE r == CancelRequested(copy[c])
  <2>1. /\ GoodRun(r) /\ r.status = "CANCEL_REQUESTED" /\ r.cancel = TRUE
        /\ r.runtime = copy[c].runtime
    BY <1>0, CancelGood
  <2>2. SaveAndReturn(c, r) /\ pc[c] # "idle" /\ retried' = retried
    BY <1>12 DEF SaveCancelRequest
  <2> HIDE DEF r
  <2> QED BY <2>1, <2>2, SaveReturns
<1>13. ASSUME DestroyRuntime(c) PROVE Kept'
  <2>1. /\ Continue(c, "cleaned", copy[c]) /\ UNCHANGED <<row, queue, stale, stopped, retried>>
        /\ pc[c] = "destroy" /\ made' \in BOOLEAN /\ (made' => made)
        /\ "cleaned" \in Places /\ "cleaned" \notin Provisions
    BY <1>0, <1>13 DEF DestroyRuntime, Places, Provisions
  <2>2. queue' = [queue EXCEPT ![c] = {}] /\ {} \in SUBSET Steps
    BY <1>0, <1>b, <2>1 DEF GoodAt
  <2>3. c \notin stale => /\ copy[c].cancel = row.cancel /\ copy[c].status = row.status
                          /\ copy[c].runtime = row.runtime
    BY <1>0, <2>1 DEF FreshAt
  <2> QED BY <1>0, <1>c, <2>1, <2>2, <2>3, GoesOn
<1>14. ASSUME DestroyFails(c) PROVE Kept'
  <2>1. /\ stale' = stale \ {c} /\ UNCHANGED <<row, stopped, made, retried>>
        /\ pc[c] = "destroy" /\ Return(c)
    BY <1>14 DEF DestroyFails
  <2>2. NoRuntimeLost'
    <3>1. SUFFICES ASSUME made PROVE row.runtime = OwnRuntime \/ \E d \in Callers : pc'[d] = "record"
      BY <2>1 DEF NoRuntimeLost
    <3>2. row.runtime = OwnRuntime \/ \E d \in Callers \ {c} : pc[d] = "record"
      BY <1>0, <2>1, <3>1 DEF RowInv, NoRuntimeLost
    <3> QED BY <2>1, <3>2 DEF Return, IInv, TypeOK
  <2>3. RowInv'
    BY <1>0, <2>1, <2>2 DEF RowInv, GoodRun, Ordered, StopHonoured, ReadyIsComplete
  <2> QED BY <1>0, <2>1, <2>3, Returns
<1>15. ASSUME SaveCleanup(c) PROVE Kept'
  <2> DEFINE r == [copy[c] EXCEPT !.status = "CANCELLED"]
  <2>1. /\ GoodRun(r) /\ r.status = "CANCELLED" /\ r.runtime = copy[c].runtime
        /\ r.cancel = copy[c].cancel
    BY <1>0, StatusGood DEF Statuses
  <2>2. SaveAndReturn(c, r) /\ pc[c] # "idle" /\ retried' = retried
    BY <1>15 DEF SaveCleanup
  <2> HIDE DEF r
  <2> QED BY <2>1, <2>2, SaveReturns
<1> QED
  BY <1>1, <1>2, <1>3, <1>4, <1>5, <1>6, <1>7, <1>8, <1>9, <1>10, <1>11, <1>12,
     <1>13, <1>14, <1>15 DEF Work

(* A request that begins reads a good row.                                 *)
LEMMA RequestKeeps ==
  ASSUME IInv, NEW c \in Callers, Request(c)
  PROVE  Kept'
<1>1. PICK o \in {"start", "resume", "cancel", "cleanup"},
           q \in {"allocate", "reread", "request", "destroy"} :
        /\ Begin(c, o, q)
        /\ \/ q = "allocate" /\ Provisionable(row) /\ retried' = (retried \/ HasFailed(row))
           \/ q # "allocate" /\ retried' = retried
  BY DEF Request, StartProvisioning, ResumeProvisioning, CancelProvisioning,
         CleanupProvisioning
<1>2. /\ UNCHANGED <<row, stale, stopped, made, queue>> /\ pc[c] = "idle"
      /\ pc' = [pc EXCEPT ![c] = q] /\ copy' = [copy EXCEPT ![c] = row]
      /\ op' = [op EXCEPT ![c] = o]
  BY <1>1 DEF Begin
<1>3. /\ GoodAt(pc[c], copy[c], queue[c]) /\ RowInv /\ GoodRun(row) /\ row \in Runs
      /\ queue \in [Callers -> SUBSET Steps] /\ pc \in [Callers -> Places]
      /\ stopped \in BOOLEAN /\ made \in BOOLEAN /\ retried \in BOOLEAN
  BY DEF IInv, TypeOK, RequestInv, RowInv, Places
<1>4. /\ queue' = [queue EXCEPT ![c] = {}] /\ {} \in SUBSET Steps /\ q \in Places
      /\ o \in Handlers /\ q \notin Provisions /\ q \notin {"step", "saveStep"}
      /\ \A s \in {} : IsReady(row.steps, s)
  BY <1>2, <1>3 DEF GoodAt, Places, Handlers, Provisions
<1>5. retried' \in BOOLEAN /\ (retried => retried')
      /\ (q = "allocate" => Provisionable(row) /\ (HasFailed(row) => retried'))
  BY <1>1, <1>3 DEF HasFailed
<1>6. /\ RequestInv' /\ stale' \subseteq Callers
      /\ pc' \in [Callers -> Places] /\ op' \in [Callers -> Handlers]
      /\ copy' \in [Callers -> Runs] /\ queue' \in [Callers -> SUBSET Steps]
  BY <1>2, <1>3, <1>4, <1>5, Moves
<1>7. NoRuntimeLost'
  <2>1. SUFFICES ASSUME made PROVE row.runtime = OwnRuntime \/ \E d \in Callers : pc'[d] = "record"
    BY <1>2 DEF NoRuntimeLost
  <2>2. row.runtime = OwnRuntime \/ \E d \in Callers \ {c} : pc[d] = "record"
    BY <1>2, <1>3, <2>1 DEF RowInv, NoRuntimeLost
  <2> QED BY <1>2, <1>3, <2>2
<1>8. RowInv'
  BY <1>2, <1>3, <1>5, <1>7 DEF RowInv, GoodRun, Ordered, StopHonoured, ReadyIsComplete
<1> QED BY <1>2, <1>3, <1>5, <1>6, <1>8 DEF Kept

(* The other users of the container.                                       *)
LEMMA OthersKeep ==
  ASSUME IInv, Others
  PROVE  IInv'
<1>1. /\ UNCHANGED <<row, pc, op, copy, queue, crashes, stale, stopped, retried>>
      /\ made' = (made /\ container' # "none")
      /\ container' \in {"none", "stopped", "running"}
  BY DEF Others, requestVars
<1>2. TypeOK'
  BY <1>1 DEF IInv, TypeOK
<1>3. RequestInv'
  BY <1>1 DEF IInv, RequestInv, GoodAt, FreshAt, GoodRun, Ordered, Provisionable, HasFailed,
              IsReady
<1>4. RowInv'
  BY <1>1 DEF IInv, RowInv, GoodRun, Ordered, StopHonoured, ReadyIsComplete, NoRuntimeLost
<1> QED BY <1>2, <1>3, <1>4 DEF IInv

(* A crash.                                                                *)
LEMMA CrashKeeps ==
  ASSUME IInv, Crash
  PROVE  IInv'
<1> DEFINE p == Planned(NoRuntime)
<1>1. GoodRun(p) /\ p \in Runs /\ NoRuntime \in Runtimes
  BY PlannedGood DEF NoRuntime, Runtimes
<1>2. /\ UNCHANGED <<row, container, stopped, retried>> /\ stale' = {}
      /\ pc' = [c \in Callers |-> "idle"] /\ op' = [c \in Callers |-> "none"]
      /\ copy' = [c \in Callers |-> p] /\ queue' = [c \in Callers |-> {}]
      /\ made' = (made /\ \A c \in Callers : pc[c] # "record")
      /\ crashes' \in 0..MaxCrashes
  BY BoundAssumption DEF Crash, IInv, TypeOK
<1> HIDE DEF p
<1>3. TypeOK'
  BY <1>1, <1>2 DEF IInv, TypeOK
<1>4. RequestInv'
  BY <1>1, <1>2 DEF RequestInv, GoodAt, FreshAt, GoodRun, Ordered, Provisions
<1>5. RowInv'
  BY <1>2 DEF IInv, RowInv, GoodRun, Ordered, StopHonoured, ReadyIsComplete, NoRuntimeLost
<1> QED BY <1>3, <1>4, <1>5 DEF IInv

(* The inductive invariant holds in every reachable state.                 *)
THEOREM Invariance == Spec => []IInv
<1>1. Init => IInv
  <2> SUFFICES ASSUME Init PROVE IInv
    OBVIOUS
  <2>1. PICK r \in Runtimes : row = Planned(r)
    BY DEF Init
  <2>2. GoodRun(row) /\ row \in Runs /\ row.status = "PLANNED"
    BY <2>1, PlannedGood
  <2> DEFINE p == Planned(NoRuntime)
  <2>3. GoodRun(p) /\ p \in Runs /\ NoRuntime \in Runtimes
    BY PlannedGood DEF NoRuntime, Runtimes
  <2>4. /\ pc = [c \in Callers |-> "idle"] /\ op = [c \in Callers |-> "none"]
        /\ copy = [c \in Callers |-> p] /\ queue = [c \in Callers |-> {}]
        /\ stale = {} /\ stopped = FALSE /\ made = FALSE /\ retried = FALSE
        /\ container \in {"none", "stopped", "running"} /\ crashes \in 0..MaxCrashes
    BY BoundAssumption DEF Init
  <2> HIDE DEF p
  <2>5. TypeOK
    BY <2>2, <2>3, <2>4 DEF TypeOK
  <2>6. RequestInv
    BY <2>3, <2>4 DEF RequestInv, GoodAt, FreshAt, Provisions
  <2>7. RowInv
    BY <2>2, <2>4 DEF RowInv, StopHonoured, ReadyIsComplete, NoRuntimeLost
  <2> QED BY <2>5, <2>6, <2>7 DEF IInv
<1>2. ASSUME IInv, [Next]_vars PROVE IInv'
  <2>1. CASE UNCHANGED vars
    BY <1>2, <2>1
    DEF IInv, vars, requestVars, historyVars, TypeOK, RequestInv, RowInv, GoodAt, FreshAt,
        GoodRun, Ordered, Provisionable, HasFailed, IsReady, StopHonoured, ReadyIsComplete,
        NoRuntimeLost
  <2>2. CASE Crash
    BY <1>2, <2>2, CrashKeeps
  <2>3. CASE Others
    BY <1>2, <2>3, OthersKeep
  <2>4. ASSUME NEW c \in Callers, Request(c) \/ Work(c) PROVE IInv'
    <3>1. Kept'
      BY <1>2, <2>4, WorkKeeps, RequestKeeps
    <3>2. crashes' = crashes /\ container' \in {"none", "stopped", "running"}
      BY <1>2, <2>4
      DEF IInv, TypeOK, Request, StartProvisioning, ResumeProvisioning, CancelProvisioning,
          CleanupProvisioning, Begin, Work, ResumeReread, Allocate, CreateRuntime,
          CreateFails, RecordRuntime, CancelRound, BeginRound, FinishProvisioning,
          StepPasses, StepFails, SaveStep, SaveCancelRequest, DestroyRuntime,
          DestroyFails, SaveCleanup
    <3>3. TypeOK'
      BY <1>2, <3>1, <3>2 DEF Kept, TypeOK, IInv, Places, Handlers
    <3> QED BY <3>1, <3>3 DEF Kept, IInv
  <2> QED BY <1>2, <2>1, <2>2, <2>3, <2>4 DEF Next
<1> QED BY <1>1, <1>2, PTL DEF Spec

(* Rows, copies and histories have their types in every reachable state.   *)
THEOREM TypeCorrect == Spec => []TypeOK
<1>1. IInv => TypeOK
  BY DEF IInv
<1> QED BY <1>1, Invariance, PTL

(* For every step graph and any number of racing requests, no step is      *)
(* recorded as passed before its dependencies.                             *)
THEOREM OrderKept == Spec => []DependenciesFirst
<1>1. IInv => DependenciesFirst
  BY DEF IInv, RowInv, GoodRun, Ordered, DependenciesFirst
<1> QED BY <1>1, Invariance, PTL

(* However requests race, fail and crash, a READY run has passed every     *)
(* step of any acyclic graph, unless a run with a failed step was          *)
(* provisioned again.                                                      *)
THEOREM ReadyIsWhole == Spec => []ReadyIsComplete
<1>1. IInv => ReadyIsComplete
  BY DEF IInv, RowInv
<1> QED BY <1>1, Invariance, PTL

(* No request executes a step twice: what waits in a round is PENDING.     *)
THEOREM RoundsEnd == Spec => []RoundsProgress
<1>1. IInv => RoundsProgress
  BY DEF IInv, RequestInv, GoodAt, IsReady, RoundsProgress
<1> QED BY <1>1, Invariance, PTL

(* A run that was cancelled or cleaned up is not READY again until a       *)
(* request that had not seen the stop saves over it.                       *)
THEOREM StopIsHonoured == Spec => []StopHonoured
<1>1. IInv => StopHonoured
  BY DEF IInv, RowInv
<1> QED BY <1>1, Invariance, PTL

(* A container created for the run can be found in the row, or with the    *)
(* request that creates it, unless its ID was never saved or was           *)
(* overwritten by an older copy.                                           *)
THEOREM RuntimesKnown == Spec => []NoRuntimeLost
<1>1. IInv => NoRuntimeLost
  BY DEF IInv, RowInv
<1> QED BY <1>1, Invariance, PTL
=============================================================================
