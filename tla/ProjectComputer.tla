-------------------------- MODULE ProjectComputer --------------------------
(***************************************************************************)
(* The project-computer manager (internal/projectcomputer), the handlers   *)
(* that call it (internal/httpapi/infrastructure.go) and the LXC provider  *)
(* under it (adapters/runtimes/lxc).                                       *)
(*                                                                         *)
(* A request reads a whole computer record, runs LXC commands on the       *)
(* container of the computer's project, and saves its own copy: first in   *)
(* the manager's map, then in PostgreSQL.  No lock spans the three.  All   *)
(* computers of one project name the same container "suda-<project>", and  *)
(* so does the project's provisioning, whose commands come at any time.    *)
(* `mode` says whether requests may be in flight together and whether the  *)
(* database and the server may fail; it is chosen once.                    *)
(***************************************************************************)
EXTENDS Naturals, Sequences, FiniteSets

CONSTANTS
    Computers,      \* computer ids a Create can mint
    Owners,         \* projects, each with one container name
    Workers,        \* requests that can be in flight together
    CheckLists,     \* capability lists a verify request carries
    Modes,          \* which kinds of behaviour are explored, see mode
    MaxCrashes,     \* bound on server restarts
    NoComputer      \* no record

ASSUME CheckListsAssumption ==
    \* verifyProjectComputer replaces an empty list by the default one
    \A l \in CheckLists : l \in Seq(STRING) /\ l # <<>>
ASSUME ModesAssumption == Modes \subseteq [overlap : BOOLEAN, faults : BOOLEAN]
ASSUME MaxCrashesAssumption == MaxCrashes \in Nat

VARIABLES
    owner,      \* the project of each computer id
    mode,       \* may requests overlap? may saves fail and the server restart?
    computers,  \* Manager.computers, the in-memory map
    rows,       \* the project_computers table
    container,  \* state of each project's LXC container
    req,        \* the request each worker is serving
    crashes,    \* server restarts so far
    provisioned,\* history: projects whose container provisioning created
    overtaken   \* history: computers on whose container somebody else worked
                \* since a request of theirs last brought it into a known state

historyVars == <<provisioned, overtaken>>
computerVars == <<owner, mode, computers, rows, container, req, crashes, historyVars>>

ComputerStatuses == {"PROVISIONING", "READY", "DEGRADED", "STOPPED", "FAILED",
                     "DESTROYED", "BLOCKED_BY_ENVIRONMENT"}

\* Capabilities the manager never probes: it reports them blocked.
Unprobed == {"ports", "pty", "containers", "gpu", "snapshots"}

\* runtime: the record carries a RuntimeID (the container of its project).
Records == [status : ComputerStatuses, runtime : BOOLEAN]

ASSUME NoComputerAssumption == NoComputer \notin Records

(***************************************************************************)
(* LXC.  A command needs its container in one state and leaves it in       *)
(* another; it can also fail without effect, for any reason.               *)
(***************************************************************************)
Needs == [create |-> "none", start |-> "stopped", attach |-> "running",
          stop |-> "running", cgroup |-> "stopped", destroy |-> "stopped"]

Leaves == [create |-> "stopped", start |-> "running", attach |-> "running",
           stop |-> "stopped", cgroup |-> "stopped", destroy |-> "none"]

\* Provider.Create: download, start, make /workspace, stop, limit the CPUs.
CreateCommands == <<"create", "start", "attach", "stop", "cgroup">>

\* What Provider.Create runs, ignoring errors, after the command that failed.
Cleanup(cmd) ==
    CASE cmd = "attach" -> <<"stop", "destroy">>
      [] cmd \in {"start", "stop"} -> <<"destroy">>
      [] OTHER -> <<>>

\* Start, Stop, Destroy run one command, Restart two.
Commands(op) ==
    CASE op = "CREATE"  -> CreateCommands
      [] op = "START"   -> <<"start">>
      [] op = "STOP"    -> <<"stop">>
      [] op = "RESTART" -> <<"stop", "start">>
      [] op = "DESTROY" -> <<"destroy">>

\* The status a completed operation saves.
Success(op) ==
    CASE op = "CREATE" -> "PROVISIONING"
      [] op \in {"START", "RESTART"} -> "READY"
      [] op = "STOP" -> "STOPPED"
      [] op = "DESTROY" -> "DESTROYED"

\* The verdict of Verify: a blocked capability weighs more than a failed one.
VerifiedStatus(blocked, failed) ==
    IF blocked THEN "DEGRADED" ELSE IF failed THEN "FAILED" ELSE "READY"

-----------------------------------------------------------------------------
Idle == [phase |-> "idle"]

\* PostgresStore.Get: what the table has.
Stored(c) == rows[c]

\* Manager.get: the map first, the table when the map has no entry.
View(c) == IF computers[c] # NoComputer THEN computers[c] ELSE Stored(c)

InFlight == {w \in Workers : req[w] # Idle}

MayBegin(w) == req[w] = Idle /\ (mode.overlap \/ InFlight = {})

Begin(w, op, c, copy, todo, phase) ==
    /\ req' = [req EXCEPT ![w] =
                 [op |-> op, id |-> c, copy |-> copy, todo |-> todo,
                  phase |-> phase, blocked |-> FALSE, failed |-> FALSE]]
    /\ UNCHANGED <<owner, mode, computers, rows, container, crashes, historyVars>>

\* The record Create builds before it asks the provider for a runtime.
NewComputer == [status |-> "PROVISIONING", runtime |-> FALSE]

\* createProjectComputer: a new id (it carries the clock), nothing saved yet.
Create(w, c) ==
    /\ MayBegin(w)
    /\ View(c) = NoComputer
    /\ \A v \in InFlight : req[v].id # c
    /\ Begin(w, "CREATE", c, NewComputer, Commands("CREATE"), "run")

\* Manager.transition reads the record and refuses a destroyed one; a start
\* without a runtime fails before any command is run.
Transition(w, op, c) ==
    /\ View(c).status # "DESTROYED"
    /\ IF op = "START" /\ ~View(c).runtime
       THEN Begin(w, op, c, [View(c) EXCEPT !.status = "FAILED"], <<>>, "memory")
       ELSE Begin(w, op, c, View(c), Commands(op), "run")

\* lifecycleComputer: the handler of start, stop, restart and destroy.
LifecycleComputer(w, op, c) ==
    /\ MayBegin(w)
    /\ View(c) # NoComputer
    /\ Transition(w, op, c)

Start(w, c) == LifecycleComputer(w, "START", c)

Stop(w, c) == LifecycleComputer(w, "STOP", c)

Restart(w, c) == LifecycleComputer(w, "RESTART", c)

Destroy(w, c) == LifecycleComputer(w, "DESTROY", c)

\* rebuildProjectComputer destroys; the new computer is another request.
Rebuild(w, c) == LifecycleComputer(w, "DESTROY", c)

\* Manager.Verify reads the record and does not look at its status.
Verify(w, c, list) ==
    /\ MayBegin(w)
    /\ View(c) # NoComputer
    /\ Begin(w, "VERIFY", c, View(c), list, "run")

\* Three handlers verify; none passes on an empty list.
VerifyComputer(w, c) == \E list \in CheckLists : Verify(w, c, list)

VerifyEnvironment(w, c) == \E list \in CheckLists : Verify(w, c, list)

RepairEnvironment(w, c) == \E list \in CheckLists : Verify(w, c, list)

-----------------------------------------------------------------------------
\* Does the next command of this request have a container to work on?
Named(r) == r.op = "CREATE" \/ r.phase = "undo" \/ r.copy.runtime

Executes(p, cmd) ==
    /\ container[p] = Needs[cmd]
    /\ container' = [container EXCEPT ![p] = Leaves[cmd]]
    /\ provisioned' = IF cmd = "create" THEN provisioned \ {p} ELSE provisioned

\* The computers of a project, and its requests other than w.
Sharing(p) == {c \in Computers : owner[c] = p}
Rivals(w, p) == {v \in InFlight \ {w} : req[v].id \in Sharing(p)}

\* After a command of w the other computers of the project are overtaken, and
\* its own if it has rivals; the last command of a request without rivals
\* settles its own.
Overtakes(w, last) ==
    LET c == req[w].id
        p == owner[c]
    IN overtaken' = IF Rivals(w, p) # {} THEN overtaken \cup Sharing(p)
                    ELSE (overtaken \ {d \in {c} : last}) \cup (Sharing(p) \ {c})

\* The last command succeeded: the copy gets its new status.
Completed(r) ==
    [r EXCEPT !.todo = <<>>, !.phase = "memory",
              !.copy.status = Success(r.op),
              !.copy.runtime = r.copy.runtime \/ r.op = "CREATE"]

CommandSucceeds(w) ==
    LET r == req[w] IN
    /\ r.phase = "run" /\ r.op # "VERIFY"
    /\ Named(r)
    /\ Executes(owner[r.id], Head(r.todo))
    /\ Overtakes(w, Len(r.todo) = 1)
    /\ req' = [req EXCEPT ![w] =
                 IF Len(r.todo) = 1 THEN Completed(r)
                 ELSE [r EXCEPT !.todo = Tail(r.todo)]]
    /\ UNCHANGED <<owner, mode, computers, rows, crashes>>

\* Mutant: the error leaves the status as it was.
FailedCopyUnmarked(r) ==
    [r.copy EXCEPT !.status =
        IF r.op = "CREATE" THEN "BLOCKED_BY_ENVIRONMENT" ELSE @]

\* Mutant: a computer that could not be destroyed is written off.
FailedCopyWrittenOff(r) ==
    [r.copy EXCEPT !.status =
        IF r.op = "CREATE" THEN "BLOCKED_BY_ENVIRONMENT"
        ELSE IF r.op = "DESTROY" THEN "DESTROYED" ELSE "FAILED"]

\* The record after a failed operation: fail, and the error path of Create.
FailedCopy(r) ==
    [r.copy EXCEPT !.status =
        IF r.op = "CREATE" THEN "BLOCKED_BY_ENVIRONMENT" ELSE "FAILED"]

\* A failed Create cleans up and is saved BLOCKED, any other operation FAILED.
CommandFails(w) ==
    LET r == req[w] IN
    /\ r.phase = "run" /\ r.op # "VERIFY"
    /\ req' = [req EXCEPT ![w] =
                 [r EXCEPT !.todo = IF r.op = "CREATE" THEN Cleanup(Head(r.todo))
                                    ELSE <<>>,
                           !.phase = IF r.op = "CREATE" THEN "undo" ELSE "memory",
                           !.copy = FailedCopy(r)]]
    /\ UNCHANGED <<owner, mode, computers, rows, container, crashes, historyVars>>

\* The clean-up of Provider.Create ignores the outcome of each command.
CleanUp(w) ==
    LET r == req[w] IN
    /\ r.phase = "undo"
    /\ IF r.todo = <<>>
       THEN /\ req' = [req EXCEPT ![w].phase = "memory"]
            /\ UNCHANGED <<container, historyVars>>
       ELSE /\ req' = [req EXCEPT ![w].todo = Tail(@)]
            /\ \/ Executes(owner[r.id], Head(r.todo)) /\ Overtakes(w, FALSE)
               \/ UNCHANGED <<container, historyVars>>
    /\ UNCHANGED <<owner, mode, computers, rows, crashes>>

\* Manager.check: blocked when unprobed, supported only if attach works.
Check(w) ==
    LET r == req[w]
        probed == {"failed"} \cup
            IF Named(r) /\ container[owner[r.id]] = Needs["attach"]
            THEN {"supported"} ELSE {}
    IN
    /\ r.phase = "run" /\ r.op = "VERIFY"
    /\ \E outcome \in IF Head(r.todo) \in Unprobed THEN {"blocked"} ELSE probed :
         LET s == [r EXCEPT !.todo = Tail(@), !.blocked = @ \/ outcome = "blocked",
                            !.failed = @ \/ outcome = "failed"]
         IN req' = [req EXCEPT ![w] =
                      IF s.todo # <<>> THEN s
                      ELSE [s EXCEPT !.phase = "memory", !.copy.status =
                              VerifiedStatus(s.blocked, s.failed)]]
    /\ UNCHANGED <<owner, mode, computers, rows, container, crashes, historyVars>>

\* Manager.save, first half: the map, under the mutex.
SaveMemory(w) ==
    /\ req[w].phase = "memory"
    /\ computers' = [computers EXCEPT ![req[w].id] = req[w].copy]
    /\ req' = [req EXCEPT ![w].phase = "store"]
    /\ UNCHANGED <<owner, mode, rows, container, crashes, historyVars>>

\* Manager.save, second half: the upsert, which can fail; then the answer.
SaveStore(w) ==
    /\ req[w].phase = "store"
    /\ \/ rows' = [rows EXCEPT ![req[w].id] = req[w].copy]
       \/ mode.faults /\ UNCHANGED rows
    /\ req' = [req EXCEPT ![w] = Idle]
    /\ UNCHANGED <<owner, mode, computers, container, crashes, historyVars>>

\* The server restarts: the map and the requests are gone.
ServerCrash ==
    /\ mode.faults /\ crashes < MaxCrashes
    /\ crashes' = crashes + 1
    /\ computers' = [c \in Computers |-> NoComputer]
    /\ req' = [w \in Workers |-> Idle]
    /\ UNCHANGED <<owner, mode, rows, container, historyVars>>

\* provisioning.Manager runs Provider.Create and Provider.Destroy on the same
\* container: one of their commands.
Provision(p) ==
    /\ \E cmd \in {"create", "start", "stop", "destroy"} :
        /\ container[p] = Needs[cmd]
        /\ container' = [container EXCEPT ![p] = Leaves[cmd]]
        /\ provisioned' = IF cmd = "create" THEN provisioned \cup {p} ELSE provisioned
    /\ overtaken' = overtaken \cup Sharing(p)
    /\ UNCHANGED <<owner, mode, computers, rows, req, crashes>>

-----------------------------------------------------------------------------
ComputerInit ==
    /\ owner \in [Computers -> Owners]
    /\ mode \in Modes
    /\ computers = [c \in Computers |-> NoComputer]
    /\ rows = [c \in Computers |-> NoComputer]
    /\ container = [p \in Owners |-> "none"]
    /\ req = [w \in Workers |-> Idle]
    /\ crashes = 0
    /\ provisioned = {} /\ overtaken = {}

Serve(w) ==
    \/ CommandSucceeds(w) \/ CommandFails(w) \/ CleanUp(w) \/ Check(w)
    \/ SaveMemory(w) \/ SaveStore(w)

Arrive(w) ==
    \E c \in Computers :
        \/ Create(w, c) \/ Start(w, c) \/ Stop(w, c) \/ Restart(w, c)
        \/ Destroy(w, c) \/ Rebuild(w, c)
        \/ VerifyComputer(w, c) \/ VerifyEnvironment(w, c) \/ RepairEnvironment(w, c)

ComputerNext ==
    \/ \E w \in Workers : Arrive(w) \/ Serve(w)
    \/ \E p \in Owners : Provision(p)
    \/ ServerCrash

ComputerSpec == ComputerInit /\ [][ComputerNext]_computerVars

-----------------------------------------------------------------------------
\* Every record is a computer record, every container in an LXC state.
ComputerTypeOK ==
    /\ owner \in [Computers -> Owners]
    /\ mode \in Modes
    /\ computers \in [Computers -> Records \cup {NoComputer}]
    /\ rows \in [Computers -> Records \cup {NoComputer}]
    /\ container \in [Owners -> {"none", "stopped", "running"}]
    /\ crashes \in 0..MaxCrashes
    /\ provisioned \subseteq Owners /\ overtaken \subseteq Computers
    /\ \A w \in InFlight :
         /\ req[w].id \in Computers
         /\ req[w].copy \in Records
         /\ req[w].phase \in {"run", "undo", "memory", "store"}
         /\ req[w].phase = "run" => req[w].todo # <<>>

\* What a status promises about the container.
Promises == [READY |-> "running", STOPPED |-> "stopped", DESTROYED |-> "none",
             PROVISIONING |-> "stopped"]

\* The status the manager answers from its map is true of the LXC container
\* once the project's requests have ended, unless the computer was overtaken:
\* READY is running, STOPPED and PROVISIONING are stopped, DESTROYED is gone.
\* This is the case however requests overlapped before, commands fail, whatever
\* the table lost, and after any restart.
MemoryIsTrue ==
    \A c \in Computers \ overtaken :
        /\ \A w \in InFlight : owner[req[w].id] # owner[c]
        /\ computers[c] # NoComputer
        /\ computers[c].status \in DOMAIN Promises
        => container[owner[c]] = Promises[computers[c].status]

\* As long as the server has not restarted, a container on the host that
\* provisioning did not create is accounted for once the requests have ended:
\* some computer of its project is not DESTROYED. The clean-up of a failed
\* Create may leave a container behind, and requests that overlap or share a
\* container save stale statuses, yet the computers called DESTROYED never
\* outnumber the containers really removed.
NoSilentOrphan ==
    crashes = 0 /\ InFlight = {} =>
        \A p \in Owners \ provisioned : container[p] # "none" =>
            \E c \in Computers :
                /\ owner[c] = p
                /\ computers[c] # NoComputer
                /\ computers[c].status # "DESTROYED"

\* The state is well formed and, unless somebody else worked on its container,
\* what the manager answers of a computer is true.
RecordsTrue == ComputerTypeOK /\ MemoryIsTrue
=============================================================================
