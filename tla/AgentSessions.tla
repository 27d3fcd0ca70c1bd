--------------------------- MODULE AgentSessions ---------------------------
(***************************************************************************)
(* Agent sessions (internal/agent): the service, the session table and the *)
(* CLI adapter with its map of processes, the constitution guard of        *)
(* cmd/server that authorizes a start, and the handlers of httpapi.        *)
(*                                                                         *)
(* Start and Cancel read a session, act on the runtime and save the copy   *)
(* they read; nothing orders two requests on one session.  The map of      *)
(* processes and the map of constitutions live in memory only.             *)
(***************************************************************************)
EXTENDS Naturals

CONSTANTS
    Sessions,       \* sessions of one project and one agent
    Workers,        \* HTTP requests that can be in flight
    Procs,          \* process ids the runtime can hand out (bounds the starts)
    Policies,       \* constitutions: the policy lists that name terminal.execute
    Modes,          \* [overlap, faults]: what a behaviour may exercise
    None

\* A policy is in the lists of a constitution or it is not.
ASSUME PoliciesAssumption == Policies \subseteq SUBSET {"allowed", "approval"}
\* None is the absence of a row, a process and a constitution.
ASSUME NoneAssumption ==
    /\ None \notin Sessions /\ None \notin Procs /\ None \notin Policies
    /\ None \notin {"CREATED", "STARTING", "RUNNING", "FAILED", "CANCELLED"}
ASSUME ModesAssumption == Modes \subseteq [overlap : BOOLEAN, faults : BOOLEAN]

VARIABLES
    mode,           \* chosen once: requests overlap, or statements fail
    wired,          \* the adapter has a process manager
    row,            \* agent_sessions.status, None when there is no row
    log,            \* agent_session_events, the types recorded per session
    processes,      \* CLIAdapter.processes
    owner,          \* the session a process was started for
    alive,          \* processes running in the runtime
    heard,          \* processes that got a message
    book,           \* the constitution in memory
    stored,         \* agent_constitutions
    unsaved,        \* a constitution was accepted and not stored
    restarted,      \* the server was restarted
    req             \* the requests in flight

runtimeVars == <<processes, owner, alive, heard>>
lawVars == <<book, stored, unsaved>>
vars == <<mode, wired, row, log, runtimeVars, lawVars, restarted, req>>

Statuses == {"CREATED", "STARTING", "RUNNING", "PAUSED", "WAITING", "COMPLETING",
             "COMPLETED", "FAILED", "CANCELLED", "RECOVERING"}

\* validTransition: COMPLETED and CANCELLED are final.
ValidTransition(from, to) ==
    \/ from = "CREATED"    /\ to \in {"STARTING", "CANCELLED"}
    \/ from = "STARTING"   /\ to \in {"RUNNING", "FAILED", "CANCELLED"}
    \/ from = "RUNNING"    /\ to \in {"PAUSED", "WAITING", "COMPLETING", "FAILED",
                                      "CANCELLED"}
    \/ from \in {"PAUSED", "WAITING"} /\ to \in {"RUNNING", "FAILED", "CANCELLED"}
    \/ from = "COMPLETING" /\ to \in {"COMPLETED", "FAILED"}
    \/ from = "FAILED"     /\ to \in {"RECOVERING", "CANCELLED"}
    \/ from = "RECOVERING" /\ to \in {"STARTING", "FAILED", "CANCELLED"}

\* Mutant: the allowed list is read before the list that requires approval.
EvaluateAllowedFirst(c) ==
    IF "allowed" \in c THEN "ALLOW"
    ELSE IF "approval" \in c THEN "APPROVAL_REQUIRED" ELSE "DENY"

\* PolicyEvaluator.Evaluate of the permission terminal.execute.
Evaluate(c) ==
    IF c = {} THEN "DENY"
    ELSE IF "approval" \in c THEN "APPROVAL_REQUIRED" ELSE "ALLOW"

Idle == [op |-> "idle", at |-> "none"]

InFlight == {w \in Workers : req[w] # Idle}

\* A request begins; a behaviour without overlap has one at a time.
MayBegin(w) == req[w] = Idle /\ (mode.overlap \/ InFlight = {})

Begin(w, r) == MayBegin(w) /\ req' = [req EXCEPT ![w] = r]

Goto(w, at) == req' = [req EXCEPT ![w].at = at]

Finish(w) == req' = [req EXCEPT ![w] = Idle]

\* Whether a statement of this behaviour can fail.
Saves == IF mode.faults THEN BOOLEAN ELSE {TRUE}

rowUnchanged == UNCHANGED <<mode, wired, log, runtimeVars, lawVars, restarted>>

runtimeUnchanged == UNCHANGED <<mode, wired, row, log, lawVars, restarted>>

Init ==
    /\ mode \in Modes
    /\ wired \in BOOLEAN
    /\ row = [s \in Sessions |-> None]
    /\ log = [s \in Sessions |-> {}]
    /\ processes = [s \in Sessions |-> None]
    /\ owner = [p \in Procs |-> None]
    /\ alive = {} /\ heard = {}
    /\ book = None /\ stored = None /\ unsaved = FALSE
    /\ restarted = FALSE
    /\ req = [w \in Workers |-> Idle]

-----------------------------------------------------------------------------
\* UpdateSession: one unconditional UPDATE of the status.
UpdateSession(s, status) == row' = [row EXCEPT ![s] = status]

\* AppendEvent: its error is dropped, except by CreateSession.
AppendEvent(w, s, type) ==
    /\ \E ok \in Saves :
          log' = IF ok THEN [log EXCEPT ![s] = @ \cup {type}] ELSE log
    /\ Finish(w)
    /\ UNCHANGED <<mode, wired, row, runtimeVars, lawVars, restarted>>

\* createAgentSession and CreateSession: the row, then its first event.
CreateSession(w, s) ==
    /\ row[s] = None
    /\ Begin(w, [op |-> "create", at |-> "log", s |-> s])
    /\ UpdateSession(s, "CREATED")
    /\ rowUnchanged

LogCreated(w) ==
    /\ req[w].op = "create" /\ req[w].at = "log"
    /\ AppendEvent(w, req[w].s, "created")

-----------------------------------------------------------------------------
\* GetSession finds a row.
Found(s) == row[s] # None

\* Start, first step: GetSession and the adapter.
Start(w, s) ==
    /\ Found(s)
    /\ Begin(w, [op |-> "start", at |-> "guard", s |-> s, status |-> row[s]])
    /\ UNCHANGED row /\ rowUnchanged

\* After the guard: the transition of the copy to STARTING decides.
Authorized(w, c) ==
    IF Evaluate(c) = "ALLOW" /\ ValidTransition(req[w].status, "STARTING")
    THEN Goto(w, "starting")
    ELSE Finish(w)

\* Authorize: the constitution in memory, else the stored one, which is then
\* put into memory.  The map in memory is shared without a lock; an access of
\* two requests that Go detects ends the process and is left out.
Authorize(w) ==
    /\ req[w].op = "start" /\ req[w].at = "guard"
    /\ IF book # None THEN Authorized(w, book)
       ELSE IF stored = None THEN Finish(w)
       ELSE req' = [req EXCEPT ![w] = [op |-> "start", at |-> "cache", s |-> @.s,
                                       status |-> @.status, law |-> stored]]
    /\ UNCHANGED row /\ rowUnchanged

\* Authorize, after the store answered.
AuthorizeLoaded(w) ==
    /\ req[w].op = "start" /\ req[w].at = "cache"
    /\ book' = req[w].law
    /\ Authorized(w, req[w].law)
    /\ UNCHANGED <<mode, wired, row, log, runtimeVars, stored, unsaved, restarted>>

\* Mutant: only the outcome of a start is saved.
SaveStartingNot(w) ==
    /\ req[w].op = "start" /\ req[w].at = "starting"
    /\ Goto(w, "spawn")
    /\ UNCHANGED row /\ rowUnchanged

\* STARTING is saved before the adapter is called.
SaveStarting(w) ==
    /\ req[w].op = "start" /\ req[w].at = "starting"
    /\ \E ok \in Saves :
          IF ok THEN UpdateSession(req[w].s, "STARTING") /\ Goto(w, "spawn")
                ELSE Finish(w) /\ UNCHANGED row
    /\ rowUnchanged

\* CLIAdapter.Start: without a process manager, or when it fails, the
\* session fails.
Spawn(w) ==
    /\ req[w].op = "start" /\ req[w].at = "spawn"
    /\ \/ Goto(w, "failed") /\ UNCHANGED runtimeVars
       \/ /\ wired
          /\ \E p \in Procs :
                /\ owner[p] = None
                /\ owner' = [owner EXCEPT ![p] = req[w].s]
                /\ alive' = alive \cup {p}
                /\ req' = [req EXCEPT ![w] = [op |-> "start", at |-> "record",
                                              s |-> @.s, p |-> p]]
          /\ UNCHANGED <<processes, heard>>
    /\ runtimeUnchanged

\* The process id enters the map under the adapter's mutex.
Record(w) ==
    /\ req[w].op = "start" /\ req[w].at = "record"
    /\ processes' = [processes EXCEPT ![req[w].s] = req[w].p]
    /\ Goto(w, "running")
    /\ UNCHANGED <<owner, alive, heard>> /\ runtimeUnchanged

\* Mutant: a failed start leaves the session as it is.
SaveFailedNot(w) ==
    /\ req[w].op = "start" /\ req[w].at = "failed"
    /\ Finish(w)
    /\ UNCHANGED row /\ rowUnchanged

\* The failure is saved; the error of this save is dropped.
SaveFailed(w) ==
    /\ req[w].op = "start" /\ req[w].at = "failed"
    /\ \E ok \in Saves :
          IF ok THEN UpdateSession(req[w].s, "FAILED") ELSE UNCHANGED row
    /\ Finish(w)
    /\ rowUnchanged

SaveRunning(w) ==
    /\ req[w].op = "start" /\ req[w].at = "running"
    /\ \E ok \in Saves :
          IF ok THEN UpdateSession(req[w].s, "RUNNING") /\ Goto(w, "log")
                ELSE Finish(w) /\ UNCHANGED row
    /\ rowUnchanged

LogStarted(w) ==
    /\ req[w].op = "start" /\ req[w].at = "log"
    /\ AppendEvent(w, req[w].s, "started")

-----------------------------------------------------------------------------
\* SendMessage: whatever the status, the line goes to the
\* process in the map; a process that ended does not take it.
SendMessage(w, s) ==
    /\ MayBegin(w)
    /\ Found(s)
    /\ processes[s] \in alive
    /\ heard' = heard \cup {processes[s]}
    /\ UNCHANGED <<processes, owner, alive, req>> /\ runtimeUnchanged

\* Cancel, first step: GetSession and the adapter.
Cancel(w, s) ==
    /\ Found(s)
    /\ Begin(w, [op |-> "cancel", at |-> "stop", s |-> s, status |-> row[s]])
    /\ UNCHANGED row /\ rowUnchanged

\* Mutant: the error of the stop is dropped.
StopProcessBlind(w) ==
    LET s == req[w].s IN
    /\ req[w].op = "cancel" /\ req[w].at = "stop"
    /\ \/ alive' = alive \ {processes[s]}
       \/ UNCHANGED alive
    /\ IF ValidTransition(req[w].status, "CANCELLED") THEN Goto(w, "save") ELSE Finish(w)
    /\ UNCHANGED <<processes, owner, heard>> /\ runtimeUnchanged

\* CLIAdapter.Cancel stops the process in the map; the id stays in the map.
\* Only then is the copy's transition to CANCELLED tried.
StopProcess(w) ==
    LET s == req[w].s IN
    /\ req[w].op = "cancel" /\ req[w].at = "stop"
    /\ \/ /\ processes[s] # None
          /\ alive' = alive \ {processes[s]}
          /\ IF ValidTransition(req[w].status, "CANCELLED") THEN Goto(w, "save")
                                                            ELSE Finish(w)
       \/ Finish(w) /\ UNCHANGED alive
    /\ UNCHANGED <<processes, owner, heard>> /\ runtimeUnchanged

SaveCancelled(w) ==
    /\ req[w].op = "cancel" /\ req[w].at = "save"
    /\ \E ok \in Saves :
          IF ok THEN UpdateSession(req[w].s, "CANCELLED") /\ Goto(w, "log")
                ELSE Finish(w) /\ UNCHANGED row
    /\ rowUnchanged

LogCompleted(w) ==
    /\ req[w].op = "cancel" /\ req[w].at = "log"
    /\ AppendEvent(w, req[w].s, "completed")

-----------------------------------------------------------------------------
lawUnchanged == UNCHANGED <<mode, wired, row, log, runtimeVars, restarted>>

\* createConstitution: memory first.
CreateConstitution(w, c) ==
    /\ Begin(w, [op |-> "law", at |-> "save", law |-> c])
    /\ book' = c
    /\ UNCHANGED <<stored, unsaved>> /\ lawUnchanged

\* Then the table; the error is dropped.
SaveConstitution(w) ==
    /\ req[w].op = "law" /\ req[w].at = "save"
    /\ \E ok \in Saves :
          IF ok THEN stored' = req[w].law /\ unsaved' = FALSE
                ELSE unsaved' = TRUE /\ UNCHANGED stored
    /\ Finish(w)
    /\ UNCHANGED book /\ lawUnchanged

\* getConstitution of one that is not in memory, which puts it there.
GetConstitution(w) ==
    /\ book = None /\ stored # None
    /\ Begin(w, [op |-> "get", at |-> "cache", law |-> stored])
    /\ UNCHANGED lawVars /\ lawUnchanged

CacheConstitution(w) ==
    /\ req[w].op = "get" /\ req[w].at = "cache"
    /\ book' = req[w].law
    /\ Finish(w)
    /\ UNCHANGED <<stored, unsaved>> /\ lawUnchanged

-----------------------------------------------------------------------------
\* A process ends by itself; nobody is told.
Exit(p) ==
    /\ p \in alive
    /\ alive' = alive \ {p}
    /\ UNCHANGED <<processes, owner, heard, req>> /\ runtimeUnchanged

\* The server stops and starts again: both maps are empty, the processes run on.
Restart ==
    /\ mode.faults /\ ~restarted
    /\ restarted' = TRUE
    /\ processes' = [s \in Sessions |-> None]
    /\ book' = None
    /\ req' = [w \in Workers |-> Idle]
    /\ UNCHANGED <<mode, wired, row, log, owner, alive, heard, stored, unsaved>>

\* The handlers startAgentSession, sendAgentMessage and cancelAgentSession.
SessionRequest(w, s) == Start(w, s) \/ SendMessage(w, s) \/ Cancel(w, s)

\* The steps of a request that has begun.
Step(w) ==
    \/ LogCreated(w)
    \/ Authorize(w) \/ AuthorizeLoaded(w) \/ SaveStarting(w) \/ Spawn(w) \/ Record(w)
    \/ SaveFailed(w) \/ SaveRunning(w) \/ LogStarted(w)
    \/ StopProcess(w) \/ SaveCancelled(w) \/ LogCompleted(w)
    \/ SaveConstitution(w) \/ CacheConstitution(w)

Next ==
    \/ \E w \in Workers :
          \/ \E s \in Sessions : CreateSession(w, s) \/ SessionRequest(w, s)
          \/ \E c \in Policies : CreateConstitution(w, c)
          \/ GetConstitution(w)
          \/ Step(w)
    \/ \E p \in Procs : Exit(p)
    \/ Restart

\* A request that has begun goes on: no step of it waits for another request.
Spec == Init /\ [][Next]_vars /\ \A w \in Workers : WF_vars(Step(w))

-----------------------------------------------------------------------------
\* The state is well formed; a process in the map was started for its session.
TypeOK ==
    /\ mode \in Modes /\ wired \in BOOLEAN /\ unsaved \in BOOLEAN /\ restarted \in BOOLEAN
    /\ row \in [Sessions -> Statuses \cup {None}]
    /\ log \in [Sessions -> SUBSET {"created", "started", "completed"}]
    /\ owner \in [Procs -> Sessions \cup {None}]
    /\ alive \subseteq {p \in Procs : owner[p] # None}
    /\ heard \subseteq {p \in Procs : owner[p] # None}
    /\ \A s \in Sessions : processes[s] # None => owner[processes[s]] = s
    /\ book \in Policies \cup {None} /\ stored \in Policies \cup {None}
    /\ DOMAIN req = Workers

\* A session that is RUNNING, or whose log says it was started, has had a
\* process: a start that failed is never recorded as a running agent, however
\* many starts race, fail to save or are cut off by a restart.
RunningWasStarted ==
    \A s \in Sessions :
        row[s] = "RUNNING" \/ "started" \in log[s] => \E p \in Procs : owner[p] = s

\* Single requests, whatever fails and wherever the server stops: the stored
\* status only moves along validTransition, and CANCELLED is final.  (Overlapping requests save copies
\* that another request has outdated; a RUNNING can overwrite a CANCELLED.)
RowFollowsLifecycle ==
    [][~mode.overlap =>
         \A s \in Sessions :
            row'[s] # row[s] =>
                \/ row[s] = None /\ row'[s] = "CREATED"
                \/ ValidTransition(row[s], row'[s])]_vars

\* Single requests: a session has at most one process in its life; while the
\* server was not restarted a live one is in the map or about to enter it, so
\* that Cancel reaches it; and a CANCELLED session has none left.
ProcessControlled ==
    ~mode.overlap =>
        /\ \A p, q \in Procs : owner[p] # None /\ owner[p] = owner[q] => p = q
        /\ \A p \in alive :
              /\ row[owner[p]] # "CANCELLED"
              /\ \/ restarted \/ processes[owner[p]] = p
                 \/ \E w \in InFlight : req[w].at = "record" /\ req[w].p = p

\* Single requests, as long as every accepted constitution was stored: a
\* process is only started when the stored constitution allows it, although
\* the guard decides on the copy in memory.
StartIsGoverned ==
    [][~mode.overlap /\ ~unsaved =>
         \A p \in Procs :
            owner'[p] # owner[p] => /\ stored # None
                                    /\ "allowed" \in stored
                                    /\ "approval" \notin stored]_vars

\* While no statement fails and the server runs on, a session does not stay
\* STARTING, however many requests race on it.
StartingSettles ==
    \A s \in Sessions :
        (row[s] = "STARTING" /\ ~mode.faults) ~> (row[s] # "STARTING")

\* What the tables and the map say about processes is true of the runtime.
SessionsSound == TypeOK /\ RunningWasStarted /\ ProcessControlled
=============================================================================
