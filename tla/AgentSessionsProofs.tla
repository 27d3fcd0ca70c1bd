------------------------ MODULE AgentSessionsProofs ------------------------
(***************************************************************************)
(* Proofs about agent sessions, for any sessions, requests in flight,      *)
(* processes and constitutions.                                            *)
(***************************************************************************)
EXTENDS AgentSessions, TLAPS

\* The statuses the service really stores.
Stored == {"CREATED", "STARTING", "RUNNING", "FAILED", "CANCELLED"}

\* The requests, by handler, and the steps at which they can be.
Creating == [op : {"create"}, at : {"log"}, s : Sessions]
Starting ==
    [op : {"start"}, at : {"guard", "starting", "spawn", "failed"}, s : Sessions,
     status : Stored]
Loading ==
    [op : {"start"}, at : {"cache", "starting", "spawn", "failed"}, s : Sessions,
     status : Stored, law : Policies]
Started ==
    [op : {"start"}, at : {"record", "running", "log"}, s : Sessions, p : Procs]
Cancelling ==
    [op : {"cancel"}, at : {"stop", "save", "log"}, s : Sessions, status : Stored]
Enacting == [op : {"law"}, at : {"save"}, law : Policies]
Getting == [op : {"get"}, at : {"cache"}, law : Policies]

Requests == {Idle} \cup Creating \cup Starting \cup Loading \cup Started \cup Cancelling
            \cup Enacting \cup Getting

\* Types, of the requests too.
Types ==
    /\ mode \in Modes /\ wired \in BOOLEAN /\ unsaved \in BOOLEAN /\ restarted \in BOOLEAN
    /\ row \in [Sessions -> Stored \cup {None}]
    /\ log \in [Sessions -> SUBSET {"created", "started", "completed"}]
    /\ owner \in [Procs -> Sessions \cup {None}]
    /\ processes \in [Sessions -> Procs \cup {None}]
    /\ alive \subseteq Procs /\ heard \subseteq Procs
    /\ book \in Policies \cup {None} /\ stored \in Policies \cup {None}
    /\ req \in [Workers -> Requests]

\* The steps of a request that has its process.
HasProcess(r) == r.op = "start" /\ r.at \in {"record", "running", "log"}

\* A process that lives, was told something, is in the map or in a request has
\* the owner it was started for.
Owned ==
    /\ \A p \in alive \cup heard : owner[p] # None
    /\ \A s \in Sessions : processes[s] # None => owner[processes[s]] = s
    /\ \A w \in Workers : HasProcess(req[w]) => owner[req[w].p] = req[w].s

\* No process was ever started for the session.
Unstarted(s) == \A p \in Procs : owner[p] # s

\* One request at a time: what it knows of its session.
Knows(w) ==
    LET r == req[w] IN
    /\ r.op = "start" /\ r.at \in {"guard", "cache", "starting"} => row[r.s] = r.status
    /\ r.op = "start" /\ r.at = "starting" => row[r.s] = "CREATED"
    /\ r.op = "start" /\ r.at \in {"spawn", "failed"} =>
          row[r.s] = "STARTING" /\ Unstarted(r.s)
    /\ r.op = "start" /\ r.at \in {"record", "running"} => row[r.s] = "STARTING"
    /\ r.op = "start" /\ r.at = "running" => processes[r.s] = r.p
    /\ r.op = "cancel" /\ r.at \in {"stop", "save"} => row[r.s] = r.status
    /\ r.op = "cancel" /\ r.at = "save" =>
          ValidTransition(r.status, "CANCELLED") /\ \A p \in alive : owner[p] # r.s
    /\ r.at = "cache" => r.law = stored

\* A session that is not started has no process, and no session has two; a live
\* process can be reached.
Processes ==
    /\ \A s \in Sessions : row[s] \in {None, "CREATED"} => Unstarted(s)
    /\ ProcessControlled

\* The constitution in memory is the stored one, unless a save failed or is due.
Governed == ~unsaved => book \in {None, stored} \/ \E w \in Workers : req[w].op = "law"

\* A constitution about to be saved is the one in memory; a start that the guard
\* let pass is allowed by the stored one.
Lawful(w) ==
    /\ req[w].op = "law" => req[w].law = book
    /\ ~unsaved /\ req[w].op = "start" /\ req[w].at \in {"starting", "spawn"} =>
          stored # None /\ Evaluate(stored) = "ALLOW"

Calm ==
    ~mode.overlap =>
        /\ \A v, w \in Workers : req[v] # Idle /\ req[w] # Idle => v = w
        /\ \A w \in Workers : Knows(w) /\ Lawful(w)
        /\ Processes
        /\ Governed

IInv == Types /\ Owned /\ RunningWasStarted /\ Calm

-----------------------------------------------------------------------------
\* Which request is at a step.
LEMMA RequestAt ==
    ASSUME NEW r \in Requests
    PROVE  /\ r # Idle <=> r.op # "idle"
           /\ r.op = "create" => r \in Creating
           /\ r.op = "start" /\ r.at = "guard" => r \in Starting
           /\ r.op = "start" /\ r.at \in {"starting", "spawn", "failed"} =>
                 r \in Starting \cup Loading
           /\ r.op = "start" /\ r.at = "cache" => r \in Loading
           /\ HasProcess(r) => r \in Started
           /\ r.op = "cancel" => r \in Cancelling
           /\ r.op = "law" => r \in Enacting
           /\ r.op = "get" => r \in Getting
           /\ r.op \in {"idle", "create", "start", "cancel", "law", "get"}
BY DEF Requests, Idle, Creating, Starting, Loading, Started, Cancelling, Enacting, Getting,
       HasProcess

\* One request at a time, the others are idle.
LEMMA Alone ==
    ASSUME IInv, ~mode.overlap, NEW w \in Workers, req[w] # Idle \/ MayBegin(w)
    PROVE  \A v \in Workers : v # w => req[v] = Idle
BY DEF IInv, Calm, MayBegin, InFlight

\* What a step of one request owes the invariant.
LEMMA Served ==
    ASSUME IInv, NEW w \in Workers, NEW r \in Requests, req' = [req EXCEPT ![w] = r],
           mode' = mode, req[w] # Idle \/ MayBegin(w),
           Types', Owned', RunningWasStarted',
           ~mode.overlap => Knows(w)' /\ Lawful(w)' /\ Processes' /\ Governed'
    PROVE  IInv'
<1> SUFFICES ASSUME ~mode.overlap PROVE Calm'
    BY DEF IInv, Calm
<1>1. \A v \in Workers : v # w => req'[v] = Idle
    BY Alone DEF IInv, Types
<1>2. \A v \in Workers : v # w => Knows(v)' /\ Lawful(v)'
    BY <1>1 DEF Knows, Lawful, Idle
<1> QED
    BY <1>1, <1>2 DEF Calm

\* A step that leaves the runtime and the constitutions alone.
LEMMA OwnedFrame ==
    ASSUME IInv, NEW w \in Workers, NEW r \in Requests, req' = [req EXCEPT ![w] = r],
           UNCHANGED runtimeVars, HasProcess(r) => owner[r.p] = r.s
    PROVE  Owned'
<1>1. ASSUME NEW v \in Workers, HasProcess(req'[v])
      PROVE  owner'[req'[v].p] = req'[v].s
    BY <1>1 DEF IInv, Types, Owned, runtimeVars
<1> QED
    BY <1>1 DEF IInv, Owned, runtimeVars, HasProcess

\* Constitutions are governed when nothing about them changes.
LEMMA LawFrame ==
    ASSUME IInv, ~mode.overlap, NEW w \in Workers, NEW r \in Requests,
           req' = [req EXCEPT ![w] = r], UNCHANGED lawVars,
           req[w] # Idle \/ MayBegin(w), req[w].op # "law"
    PROVE  Governed'
<1>1. \A v \in Workers : req[v].op # "law"
    BY Alone DEF Idle
<1> QED
    BY <1>1 DEF IInv, Calm, Governed, lawVars

\* Processes stay under control when the runtime does not change and no process
\* is waiting to enter the map.
LEMMA ProcessFrame ==
    ASSUME IInv, ~mode.overlap, NEW w \in Workers, NEW r \in Requests,
           req' = [req EXCEPT ![w] = r], UNCHANGED <<runtimeVars, mode, restarted>>,
           req[w] # Idle \/ MayBegin(w),
           req[w].at # "record",
           \A s \in Sessions : row'[s] # row[s] =>
               /\ row'[s] \in {None, "CREATED"} => Unstarted(s)
               /\ row'[s] = "CANCELLED" => \A p \in alive : owner[p] # s
    PROVE  Processes'
<1>1. \A v \in Workers : req[v].at # "record"
    BY Alone DEF Idle
<1>2. \A p \in alive : owner[p] \in Sessions
    BY DEF IInv, Types, Owned
<1>3. \A s \in Sessions : row'[s] \in {None, "CREATED"} => Unstarted(s)'
    BY DEF IInv, Calm, Processes, Unstarted, runtimeVars
<1>4. ProcessControlled'
    BY <1>1, <1>2 DEF IInv, Calm, Processes, ProcessControlled, InFlight, runtimeVars
<1> QED
    BY <1>3, <1>4 DEF Processes

\* A step of a request that changes at most the row of its session.
LEMMA RowStep ==
    ASSUME IInv, NEW w \in Workers, NEW r \in Requests, req' = [req EXCEPT ![w] = r],
           rowUnchanged, req[w] # Idle \/ MayBegin(w),
           req[w].op # "law", req[w].at # "record",
           HasProcess(r) => owner[r.p] = r.s,
           row' \in [Sessions -> Stored \cup {None}],
           \A s \in Sessions : row'[s] # row[s] =>
               /\ row'[s] = "RUNNING" => \E p \in Procs : owner[p] = s
               /\ ~mode.overlap =>
                    /\ row'[s] \in {None, "CREATED"} => Unstarted(s)
                    /\ row'[s] = "CANCELLED" => \A p \in alive : owner[p] # s,
           ~mode.overlap => Knows(w)' /\ Lawful(w)'
    PROVE  IInv'
<1>1. UNCHANGED <<mode, wired, log, runtimeVars, lawVars, restarted>>
    BY DEF rowUnchanged
<1>2. Types'
    BY <1>1 DEF IInv, Types, runtimeVars, lawVars
<1>3. Owned'
    BY <1>1, OwnedFrame
<1>4. RunningWasStarted'
    BY <1>1 DEF IInv, Types, RunningWasStarted, runtimeVars
<1>5. ~mode.overlap => Processes' /\ Governed'
    BY <1>1, ProcessFrame, LawFrame
<1> QED
    BY <1>1, <1>2, <1>3, <1>4, <1>5, Served

\* The request that is over.
LEMMA IdleRequest == Idle \in Requests /\ Idle.op = "idle" /\ Idle.at = "none"
BY DEF Idle, Requests

-----------------------------------------------------------------------------
\* The service: requests begin with the row as it is.
LEMMA CreateSession_Inv ==
    ASSUME IInv, NEW w \in Workers, NEW s \in Sessions, CreateSession(w, s)
    PROVE  IInv'
<1> DEFINE r == [op |-> "create", at |-> "log", s |-> s]
<1>1. r \in Requests
    BY DEF Requests, Creating
<1>2. /\ req' = [req EXCEPT ![w] = r] /\ MayBegin(w) /\ rowUnchanged
      /\ row[s] = None /\ row' = [row EXCEPT ![s] = "CREATED"]
      /\ req[w].op = "idle" /\ req[w].at = "none"
    BY IdleRequest DEF CreateSession, Begin, MayBegin, UpdateSession
<1>3. ~mode.overlap => Unstarted(s)
    BY <1>2 DEF IInv, Calm, Processes
<1>4. Knows(w)' /\ Lawful(w)'
    BY <1>2 DEF Knows, Lawful, IInv, Types
<1>5. row' \in [Sessions -> Stored \cup {None}]
    BY <1>2 DEF IInv, Types, Stored
<1>6. \A t \in Sessions : row'[t] # row[t] => t = s /\ row'[t] = "CREATED"
    BY <1>2 DEF IInv, Types
<1> QED
    BY <1>1, <1>2, <1>3, <1>4, <1>5, <1>6, RowStep DEF HasProcess

LEMMA Start_Inv ==
    ASSUME IInv, NEW w \in Workers, NEW s \in Sessions, Start(w, s)
    PROVE  IInv'
<1> DEFINE r == [op |-> "start", at |-> "guard", s |-> s, status |-> row[s]]
<1>1. r \in Requests
    BY DEF Requests, Starting, Start, Found, IInv, Types
<1>2. /\ req' = [req EXCEPT ![w] = r] /\ MayBegin(w) /\ rowUnchanged /\ row' = row
      /\ req[w].op = "idle" /\ req[w].at = "none"
    BY IdleRequest DEF Start, Begin, MayBegin
<1>3. Knows(w)' /\ Lawful(w)'
    BY <1>2 DEF Knows, Lawful, IInv, Types
<1> QED
    BY <1>1, <1>2, <1>3, RowStep DEF HasProcess, IInv, Types

LEMMA Cancel_Inv ==
    ASSUME IInv, NEW w \in Workers, NEW s \in Sessions, Cancel(w, s)
    PROVE  IInv'
<1> DEFINE r == [op |-> "cancel", at |-> "stop", s |-> s, status |-> row[s]]
<1>1. r \in Requests
    BY DEF Requests, Cancelling, Cancel, Found, IInv, Types
<1>2. /\ req' = [req EXCEPT ![w] = r] /\ MayBegin(w) /\ rowUnchanged /\ row' = row
      /\ req[w].op = "idle" /\ req[w].at = "none"
    BY IdleRequest DEF Cancel, Begin, MayBegin
<1>3. Knows(w)' /\ Lawful(w)'
    BY <1>2 DEF Knows, Lawful, IInv, Types
<1> QED
    BY <1>1, <1>2, <1>3, RowStep DEF HasProcess, IInv, Types

\* Only a CREATED session passes to STARTING.
LEMMA FromCreated ==
    ASSUME NEW status \in Stored, ValidTransition(status, "STARTING")
    PROVE  status = "CREATED"
BY DEF Stored, ValidTransition

\* The guard decides on the constitution in memory, which is the stored one.
LEMMA Authorize_Inv ==
    ASSUME IInv, NEW w \in Workers, Authorize(w)
    PROVE  IInv'
<1>0. req[w] \in Starting /\ req[w] # Idle /\ req[w].op = "start" /\ req[w].at = "guard"
    BY RequestAt DEF Authorize, IInv, Types
<1>1. rowUnchanged /\ row' = row /\ UNCHANGED lawVars
    BY DEF Authorize, rowUnchanged
<1>2. ASSUME NEW r \in Requests, req' = [req EXCEPT ![w] = r], ~HasProcess(r),
             ~mode.overlap => Knows(w)' /\ Lawful(w)'
      PROVE  IInv'
    BY <1>0, <1>1, <1>2, RowStep DEF IInv, Types
<1>3. CASE Finish(w)
    <2>1. req' = [req EXCEPT ![w] = Idle]
        BY <1>3 DEF Finish
    <2>2. Knows(w)' /\ Lawful(w)' /\ ~HasProcess(Idle)
        BY <2>1, IdleRequest DEF Knows, Lawful, IInv, Types, HasProcess
    <2> QED
        BY <1>2, <2>1, <2>2, IdleRequest
<1>4. CASE book # None /\ Evaluate(book) = "ALLOW"
           /\ ValidTransition(req[w].status, "STARTING") /\ Goto(w, "starting")
    <2> DEFINE r == [req[w] EXCEPT !.at = "starting"]
    <2>1. /\ r \in Requests /\ r.op = "start" /\ r.at = "starting" /\ r.s = req[w].s
          /\ r.status = req[w].status
        BY <1>0 DEF Requests, Starting
    <2>2. req' = [req EXCEPT ![w] = r]
        BY <1>4 DEF Goto
    <2>3. ASSUME ~mode.overlap PROVE Knows(w)' /\ Lawful(w)'
        <3>1. row[r.s] = "CREATED" /\ row[r.s] = r.status
            BY <1>0, <1>4, <2>1, <2>3, FromCreated DEF IInv, Calm, Knows, Starting
        <3>2. ~unsaved => book = stored
            BY <1>0, <1>4, <2>3, Alone DEF IInv, Calm, Governed, Idle
        <3>3. Knows(w)'
            BY <1>1, <2>1, <2>2, <3>1 DEF Knows, IInv, Types
        <3>4. Lawful(w)'
            BY <1>1, <1>4, <2>1, <2>2, <3>2 DEF Lawful, IInv, Types, lawVars
        <3> QED
            BY <3>3, <3>4
    <2> QED
        BY <1>2, <2>1, <2>2, <2>3 DEF HasProcess
<1>5. CASE stored # None
           /\ req' = [req EXCEPT ![w] = [op |-> "start", at |-> "cache", s |-> @.s,
                                         status |-> @.status, law |-> stored]]
    <2> DEFINE r == [op |-> "start", at |-> "cache", s |-> req[w].s,
                     status |-> req[w].status, law |-> stored]
    <2>1. r \in Requests
        BY <1>0, <1>5 DEF Requests, Starting, Loading, IInv, Types
    <2>2. req' = [req EXCEPT ![w] = r]
        BY <1>5
    <2>3. ~mode.overlap => Knows(w)' /\ Lawful(w)'
        BY <1>0, <1>1, <2>2 DEF IInv, Types, Calm, Knows, Lawful, lawVars
    <2> QED
        BY <1>2, <2>1, <2>2, <2>3 DEF HasProcess
<1> QED
    BY <1>3, <1>4, <1>5 DEF Authorize, Authorized

\* The constitution that was read is put into memory, and decides.
LEMMA AuthorizeLoaded_Inv ==
    ASSUME IInv, NEW w \in Workers, AuthorizeLoaded(w)
    PROVE  IInv'
<1>0. req[w] \in Loading /\ req[w] # Idle /\ req[w].op = "start" /\ req[w].at = "cache"
    BY RequestAt DEF AuthorizeLoaded, IInv, Types
<1>1. /\ UNCHANGED <<mode, wired, row, log, runtimeVars, stored, unsaved, restarted>>
      /\ book' = req[w].law
    BY DEF AuthorizeLoaded
<1> DEFINE passes == Evaluate(req[w].law) = "ALLOW"
                     /\ ValidTransition(req[w].status, "STARTING")
<1> DEFINE r == IF passes THEN [req[w] EXCEPT !.at = "starting"] ELSE Idle
<1>2. req' = [req EXCEPT ![w] = r]
    BY DEF AuthorizeLoaded, Authorized, Goto, Finish
<1>3. /\ r \in Requests
      /\ passes => r.op = "start" /\ r.at = "starting" /\ r.s = req[w].s
                   /\ r.status = req[w].status
      /\ ~passes => r.op = "idle" /\ r.at = "none"
    BY <1>0, IdleRequest DEF Requests, Loading
<1>4. Types'
    BY <1>0, <1>1, <1>2, <1>3 DEF IInv, Types, Loading, runtimeVars
<1>5. Owned'
    BY <1>1, <1>2, <1>3, OwnedFrame DEF HasProcess
<1>6. RunningWasStarted'
    BY <1>1 DEF IInv, RunningWasStarted, runtimeVars
<1>7. ASSUME ~mode.overlap PROVE Knows(w)' /\ Lawful(w)' /\ Processes' /\ Governed'
    <2>1. req[w].law = stored /\ row[req[w].s] = req[w].status
        BY <1>0, <1>7 DEF IInv, Calm, Knows
    <2>2. passes => row[req[w].s] = "CREATED"
        BY <1>0, <2>1, FromCreated DEF Loading
    <2>3. Knows(w)'
        BY <1>1, <1>2, <1>3, <2>1, <2>2 DEF Knows, IInv, Types
    <2>4. stored # None
        BY <1>0, <2>1, NoneAssumption DEF Loading
    <2>5. Lawful(w)'
        BY <1>1, <1>2, <1>3, <2>1, <2>4 DEF Lawful, IInv, Types
    <2>6. Processes'
        BY <1>0, <1>1, <1>2, <1>3, <1>7, ProcessFrame
    <2>7. Governed'
        BY <1>1, <2>1 DEF Governed
    <2> QED
        BY <2>3, <2>5, <2>6, <2>7
<1> QED
    BY <1>0, <1>1, <1>2, <1>3, <1>4, <1>5, <1>6, <1>7, Served

\* STARTING replaces CREATED; the session has no process yet.
LEMMA SaveStarting_Inv ==
    ASSUME IInv, NEW w \in Workers, SaveStarting(w)
    PROVE  IInv'
<1> DEFINE s == req[w].s
<1>0. /\ req[w] \in Starting \cup Loading /\ req[w] # Idle /\ s \in Sessions
      /\ req[w].op = "start" /\ req[w].at = "starting"
    BY RequestAt DEF SaveStarting, IInv, Types, Starting, Loading
<1>1. rowUnchanged
    BY DEF SaveStarting
<1>2. CASE Finish(w) /\ row' = row
    <2>1. req' = [req EXCEPT ![w] = Idle]
        BY <1>2 DEF Finish
    <2>2. Knows(w)' /\ Lawful(w)'
        BY <2>1, IdleRequest DEF Knows, Lawful, IInv, Types
    <2> QED
        BY <1>0, <1>1, <1>2, <2>1, <2>2, IdleRequest, RowStep DEF IInv, Types, HasProcess
<1>3. CASE UpdateSession(s, "STARTING") /\ Goto(w, "spawn")
    <2> DEFINE r == [req[w] EXCEPT !.at = "spawn"]
    <2>1. r \in Requests /\ r.op = "start" /\ r.at = "spawn" /\ r.s = s
        BY <1>0 DEF Requests, Starting, Loading
    <2>2. req' = [req EXCEPT ![w] = r] /\ row' = [row EXCEPT ![s] = "STARTING"]
        BY <1>3 DEF Goto, UpdateSession
    <2>3. row' \in [Sessions -> Stored \cup {None}]
        BY <2>2 DEF IInv, Types, Stored
    <2>4. ASSUME ~mode.overlap PROVE Knows(w)' /\ Lawful(w)'
        <3>1. Unstarted(s)
            BY <1>0, <2>4 DEF IInv, Calm, Knows, Processes
        <3>2. Knows(w)'
            BY <1>0, <1>1, <2>1, <2>2, <3>1
               DEF Knows, IInv, Types, Unstarted, rowUnchanged, runtimeVars
        <3>3. Lawful(w)'
            BY <1>0, <1>1, <2>1, <2>2, <2>4
               DEF Lawful, IInv, Calm, Types, rowUnchanged, lawVars
        <3> QED
            BY <3>2, <3>3
    <2>5. \A t \in Sessions : row'[t] # row[t] => row'[t] = "STARTING"
        BY <2>2 DEF IInv, Types
    <2> QED
        BY <1>0, <1>1, <2>1, <2>2, <2>3, <2>4, <2>5, RowStep, NoneAssumption DEF HasProcess
<1> QED
    BY <1>2, <1>3 DEF SaveStarting

\* The process is the first of its session.
LEMMA Spawn_Inv ==
    ASSUME IInv, NEW w \in Workers, Spawn(w)
    PROVE  IInv'
<1> USE NoneAssumption
<1> DEFINE s == req[w].s
<1>0. /\ req[w] \in Starting \cup Loading /\ req[w] # Idle /\ s \in Sessions
      /\ req[w].op = "start" /\ req[w].at = "spawn"
    BY RequestAt DEF Spawn, IInv, Types, Starting, Loading
<1>1. UNCHANGED <<mode, wired, row, log, lawVars, restarted>>
    BY DEF Spawn, runtimeUnchanged
<1>2. CASE Goto(w, "failed") /\ UNCHANGED runtimeVars
    <2> DEFINE r == [req[w] EXCEPT !.at = "failed"]
    <2>1. r \in Requests /\ r.op = "start" /\ r.at = "failed" /\ r.s = s
        BY <1>0 DEF Requests, Starting, Loading
    <2>2. req' = [req EXCEPT ![w] = r]
        BY <1>2 DEF Goto
    <2>3. ASSUME ~mode.overlap PROVE Knows(w)' /\ Lawful(w)'
        <3>1. Knows(w)'
            BY <1>0, <1>1, <1>2, <2>1, <2>2, <2>3
               DEF IInv, Calm, Types, Knows, Unstarted, runtimeVars
        <3> QED
            BY <2>1, <2>2, <3>1 DEF IInv, Types, Lawful
    <2> QED
        BY <1>0, <1>1, <1>2, <2>1, <2>2, <2>3, RowStep DEF IInv, Types, HasProcess, rowUnchanged
<1>3. ASSUME NEW p \in Procs, owner[p] = None, owner' = [owner EXCEPT ![p] = s],
             alive' = alive \cup {p}, UNCHANGED <<processes, heard>>,
             req' = [req EXCEPT ![w] = [op |-> "start", at |-> "record", s |-> s, p |-> p]]
      PROVE  IInv'
    <2> DEFINE r == [op |-> "start", at |-> "record", s |-> s, p |-> p]
    <2>1. r \in Requests
        BY <1>0 DEF Requests, Started
    <2>2. Types'
        BY <1>0, <1>1, <1>3, <2>1 DEF IInv, Types, lawVars
    <2>3. Owned'
        <3>1. \A q \in Procs : owner[q] # None => owner'[q] = owner[q]
            BY <1>3 DEF IInv, Types
        <3>2. owner'[p] = s /\ s # None
            BY <1>0, <1>3 DEF IInv, Types
        <3>3. ASSUME NEW v \in Workers, HasProcess(req'[v])
              PROVE  owner'[req'[v].p] = req'[v].s
            <4>1. CASE v = w
                BY <1>3, <3>2, <4>1 DEF IInv, Types
            <4>2. CASE v # w
                <5>1. req'[v] = req[v] /\ req[v] \in Started
                    BY <1>3, <3>3, <4>2, RequestAt DEF IInv, Types
                <5>2. owner[req[v].p] = req[v].s /\ req[v].p \in Procs /\ req[v].s \in Sessions
                    BY <3>3, <5>1 DEF IInv, Owned, Started
                <5> QED
                    BY <3>1, <5>1, <5>2
            <4> QED
                BY <4>1, <4>2
        <3>4. \A q \in alive' \cup heard' : owner'[q] # None
            BY <1>3, <3>1, <3>2 DEF IInv, Types, Owned
        <3>5. \A t \in Sessions : processes'[t] # None => owner'[processes'[t]] = t
            BY <1>3, <3>1 DEF IInv, Types, Owned
        <3> QED
            BY <3>3, <3>4, <3>5 DEF Owned
    <2>4. RunningWasStarted'
        BY <1>1, <1>3 DEF IInv, Types, RunningWasStarted
    <2>5. ASSUME ~mode.overlap PROVE Knows(w)' /\ Lawful(w)' /\ Processes' /\ Governed'
        <3>1. row[s] = "STARTING" /\ Unstarted(s)
            BY <1>0, <2>5 DEF IInv, Calm, Knows
        <3>2. Knows(w)' /\ Lawful(w)'
            BY <1>1, <1>3, <3>1 DEF Knows, Lawful, IInv, Types
        <3>3. Governed'
            BY <1>0, <1>1, <1>3, <2>1, <2>5, LawFrame
        <3>4. \A t \in Sessions : row'[t] \in {None, "CREATED"} => Unstarted(t)'
            BY <1>0, <1>1, <1>3, <2>5, <3>1 DEF IInv, Types, Calm, Processes, Unstarted
        <3>5. \A q, o \in Procs : owner'[q] # None /\ owner'[q] = owner'[o] => q = o
            BY <1>0, <1>3, <2>5, <3>1
               DEF IInv, Types, Calm, Processes, ProcessControlled, Unstarted
        <3>6. /\ w \in InFlight' /\ req'[w].at = "record" /\ req'[w].p = p
              /\ \A v \in Workers : v # w => req[v] = Idle
            BY <1>0, <1>3, <2>5, Alone DEF IInv, Types, InFlight, Idle
        <3>7. ASSUME NEW q \in alive'
              PROVE  /\ row'[owner'[q]] # "CANCELLED"
                     /\ \/ restarted' \/ processes'[owner'[q]] = q
                        \/ \E v \in InFlight' : req'[v].at = "record" /\ req'[v].p = q
            <4>1. CASE q = p
                BY <1>0, <1>1, <1>3, <3>1, <3>6, <4>1 DEF IInv, Types
            <4>2. CASE q # p
                BY <1>0, <1>1, <1>3, <2>5, <3>6, <3>7, <4>2
                   DEF IInv, Types, Calm, Processes, ProcessControlled, InFlight
            <4> QED
                BY <4>1, <4>2
        <3>8. ProcessControlled'
            BY <3>5, <3>7 DEF ProcessControlled
        <3> QED
            BY <3>2, <3>3, <3>4, <3>8 DEF Processes
    <2> QED
        BY <1>0, <1>1, <1>3, <2>1, <2>2, <2>3, <2>4, <2>5, Served
<1> QED
    BY <1>2, <1>3 DEF Spawn

\* The only process of the session enters the map.
LEMMA Record_Inv ==
    ASSUME IInv, NEW w \in Workers, Record(w)
    PROVE  IInv'
<1> DEFINE s == req[w].s
<1> DEFINE p == req[w].p
<1> DEFINE r == [req[w] EXCEPT !.at = "running"]
<1>0. /\ req[w] \in Started /\ req[w] # Idle /\ s \in Sessions /\ p \in Procs
      /\ req[w].op = "start" /\ req[w].at = "record" /\ owner[p] = s
    BY RequestAt DEF Record, IInv, Types, Started, Owned, HasProcess
<1>1. /\ UNCHANGED <<mode, wired, row, log, lawVars, restarted, owner, alive, heard>>
      /\ processes' = [processes EXCEPT ![s] = p] /\ req' = [req EXCEPT ![w] = r]
    BY DEF Record, runtimeUnchanged, Goto
<1>2. r \in Requests /\ r.op = "start" /\ r.at = "running" /\ r.s = s /\ r.p = p
    BY <1>0 DEF Requests, Started
<1>3. Types'
    BY <1>0, <1>1, <1>2 DEF IInv, Types, lawVars
<1>4. Owned'
    <2>1. \A t \in Sessions : processes'[t] # None => owner[processes'[t]] = t
        BY <1>0, <1>1 DEF IInv, Types, Owned
    <2>2. ASSUME NEW v \in Workers, HasProcess(req'[v]) PROVE owner[req'[v].p] = req'[v].s
        BY <1>0, <1>1, <1>2, <2>2 DEF IInv, Types, Owned
    <2> QED
        BY <1>1, <2>1, <2>2 DEF IInv, Owned, HasProcess
<1>5. RunningWasStarted'
    BY <1>1 DEF IInv, RunningWasStarted
<1>6. ASSUME ~mode.overlap PROVE Knows(w)' /\ Lawful(w)' /\ Processes' /\ Governed'
    <2>1. Knows(w)' /\ Lawful(w)'
        BY <1>0, <1>1, <1>2, <1>6 DEF IInv, Types, Calm, Knows, Lawful
    <2>2. Governed'
        BY <1>0, <1>1, <1>2, <1>6, LawFrame
    <2>3. \A v \in Workers : v # w => req[v] = Idle
        BY <1>0, <1>6, Alone
    <2>4. ASSUME NEW q \in alive
          PROVE  restarted \/ processes'[owner[q]] = q
        BY <1>0, <1>1, <1>6, <2>3, <2>4
           DEF IInv, Types, Calm, Processes, ProcessControlled, InFlight, Idle, Owned
    <2>5. Processes'
        BY <1>1, <1>6, <2>4 DEF IInv, Calm, Processes, ProcessControlled, Unstarted
    <2> QED
        BY <2>1, <2>2, <2>5
<1> QED
    BY <1>0, <1>1, <1>2, <1>3, <1>4, <1>5, <1>6, Served

\* The outcome of a start is saved: the session has a process if it is RUNNING.
LEMMA SaveFailed_Inv ==
    ASSUME IInv, NEW w \in Workers, SaveFailed(w)
    PROVE  IInv'
<1> DEFINE s == req[w].s
<1>0. /\ req[w] # Idle /\ s \in Sessions /\ req[w].op = "start" /\ req[w].at = "failed"
    BY RequestAt DEF SaveFailed, IInv, Types, Starting, Loading
<1>1. /\ rowUnchanged /\ req' = [req EXCEPT ![w] = Idle]
      /\ row' = row \/ row' = [row EXCEPT ![s] = "FAILED"]
    BY DEF SaveFailed, Finish, UpdateSession
<1>2. Knows(w)' /\ Lawful(w)'
    BY <1>1, IdleRequest DEF Knows, Lawful, IInv, Types
<1>3. /\ row' \in [Sessions -> Stored \cup {None}]
      /\ \A t \in Sessions : row'[t] # row[t] => row'[t] = "FAILED"
    BY <1>1 DEF IInv, Types, Stored
<1> QED
    BY <1>0, <1>1, <1>2, <1>3, IdleRequest, RowStep, NoneAssumption DEF HasProcess

LEMMA SaveRunning_Inv ==
    ASSUME IInv, NEW w \in Workers, SaveRunning(w)
    PROVE  IInv'
<1> DEFINE s == req[w].s
<1>0. /\ req[w] \in Started /\ req[w] # Idle /\ s \in Sessions /\ req[w].p \in Procs
      /\ req[w].op = "start" /\ req[w].at = "running" /\ owner[req[w].p] = s
    BY RequestAt DEF SaveRunning, IInv, Types, Started, Owned, HasProcess
<1>1. rowUnchanged
    BY DEF SaveRunning
<1>2. CASE Finish(w) /\ row' = row
    <2>1. req' = [req EXCEPT ![w] = Idle]
        BY <1>2 DEF Finish
    <2>2. Knows(w)' /\ Lawful(w)'
        BY <2>1, IdleRequest DEF Knows, Lawful, IInv, Types
    <2> QED
        BY <1>0, <1>1, <1>2, <2>1, <2>2, IdleRequest, RowStep DEF IInv, Types, HasProcess
<1>3. CASE UpdateSession(s, "RUNNING") /\ Goto(w, "log")
    <2> DEFINE r == [req[w] EXCEPT !.at = "log"]
    <2>1. r \in Requests /\ r.op = "start" /\ r.at = "log" /\ r.s = s /\ r.p = req[w].p
        BY <1>0 DEF Requests, Started
    <2>2. req' = [req EXCEPT ![w] = r] /\ row' = [row EXCEPT ![s] = "RUNNING"]
        BY <1>3 DEF Goto, UpdateSession
    <2>3. /\ row' \in [Sessions -> Stored \cup {None}]
          /\ \A t \in Sessions : row'[t] # row[t] => t = s /\ row'[t] = "RUNNING"
        BY <2>2 DEF IInv, Types, Stored
    <2>4. Knows(w)' /\ Lawful(w)'
        BY <2>1, <2>2 DEF Knows, Lawful, IInv, Types
    <2> QED
        BY <1>0, <1>1, <2>1, <2>2, <2>3, <2>4, RowStep, NoneAssumption
<1> QED
    BY <1>2, <1>3 DEF SaveRunning

\* CANCELLED is saved when no process of the session lives.
LEMMA SaveCancelled_Inv ==
    ASSUME IInv, NEW w \in Workers, SaveCancelled(w)
    PROVE  IInv'
<1> DEFINE s == req[w].s
<1>0. /\ req[w] \in Cancelling /\ req[w] # Idle /\ s \in Sessions
      /\ req[w].op = "cancel" /\ req[w].at = "save"
    BY RequestAt DEF SaveCancelled, IInv, Types, Cancelling
<1>1. rowUnchanged
    BY DEF SaveCancelled
<1>2. CASE Finish(w) /\ row' = row
    <2>1. req' = [req EXCEPT ![w] = Idle]
        BY <1>2 DEF Finish
    <2>2. Knows(w)' /\ Lawful(w)'
        BY <2>1, IdleRequest DEF Knows, Lawful, IInv, Types
    <2> QED
        BY <1>0, <1>1, <1>2, <2>1, <2>2, IdleRequest, RowStep DEF IInv, Types, HasProcess
<1>3. CASE UpdateSession(s, "CANCELLED") /\ Goto(w, "log")
    <2> DEFINE r == [req[w] EXCEPT !.at = "log"]
    <2>1. r \in Requests /\ r.op = "cancel" /\ r.at = "log" /\ r.s = s
        BY <1>0 DEF Requests, Cancelling
    <2>2. req' = [req EXCEPT ![w] = r] /\ row' = [row EXCEPT ![s] = "CANCELLED"]
        BY <1>3 DEF Goto, UpdateSession
    <2>3. /\ row' \in [Sessions -> Stored \cup {None}]
          /\ \A t \in Sessions : row'[t] # row[t] => t = s /\ row'[t] = "CANCELLED"
        BY <2>2 DEF IInv, Types, Stored
    <2>4. Knows(w)' /\ Lawful(w)'
        BY <2>1, <2>2 DEF Knows, Lawful, IInv, Types
    <2>5. ~mode.overlap => \A p \in alive : owner[p] # s
        BY <1>0 DEF IInv, Calm, Knows
    <2> QED
        BY <1>0, <1>1, <2>1, <2>2, <2>3, <2>4, <2>5, RowStep, NoneAssumption DEF HasProcess
<1> QED
    BY <1>2, <1>3 DEF SaveCancelled

\* The log: "started" is written by a request that has its process.
LEMMA Log_Inv ==
    ASSUME IInv, NEW w \in Workers, LogCreated(w) \/ LogStarted(w) \/ LogCompleted(w)
    PROVE  IInv'
<1> DEFINE s == req[w].s
<1>0. req[w] # Idle /\ s \in Sessions /\ req[w].at = "log" /\ req[w].op # "law"
    BY RequestAt DEF LogCreated, LogStarted, LogCompleted, IInv, Types, Creating, Started,
                     Cancelling, HasProcess
<1>1. PICK type \in {"created", "started", "completed"} :
         /\ AppendEvent(w, s, type)
         /\ type = "started" => req[w].op = "start"
    BY DEF LogCreated, LogStarted, LogCompleted
<1>2. /\ UNCHANGED <<mode, wired, row, runtimeVars, lawVars, restarted>>
      /\ req' = [req EXCEPT ![w] = Idle]
      /\ log' = log \/ log' = [log EXCEPT ![s] = @ \cup {type}]
    BY <1>1 DEF AppendEvent, Finish
<1>3. Types'
    BY <1>0, <1>2, IdleRequest DEF IInv, Types, runtimeVars, lawVars
<1>4. Owned'
    BY <1>2, IdleRequest, OwnedFrame DEF HasProcess
<1>5. RunningWasStarted'
    <2>1. type = "started" => \E p \in Procs : owner[p] = s
        BY <1>0, <1>1, RequestAt DEF IInv, Types, Owned, HasProcess, Started
    <2> QED
        BY <1>2, <2>1 DEF IInv, Types, RunningWasStarted, runtimeVars
<1>6. ASSUME ~mode.overlap PROVE Knows(w)' /\ Lawful(w)' /\ Processes' /\ Governed'
    <2>1. Knows(w)' /\ Lawful(w)'
        BY <1>2, IdleRequest DEF Knows, Lawful, IInv, Types
    <2>2. Processes' /\ Governed'
        BY <1>0, <1>2, <1>6, IdleRequest, ProcessFrame, LawFrame
    <2> QED
        BY <2>1, <2>2
<1> QED
    BY <1>0, <1>2, <1>3, <1>4, <1>5, <1>6, IdleRequest, Served

\* Cancel stops the process in the map, which is the only one of the session.
LEMMA StopProcess_Inv ==
    ASSUME IInv, NEW w \in Workers, StopProcess(w)
    PROVE  IInv'
<1> DEFINE s == req[w].s
<1>0. /\ req[w] \in Cancelling /\ req[w] # Idle /\ s \in Sessions
      /\ req[w].op = "cancel" /\ req[w].at = "stop"
    BY RequestAt DEF StopProcess, IInv, Types, Cancelling
<1>1. /\ UNCHANGED <<mode, wired, row, log, lawVars, restarted, processes, owner, heard>>
      /\ alive' \subseteq alive
    BY DEF StopProcess, runtimeUnchanged
<1> DEFINE saves == Goto(w, "save") /\ processes[s] # None /\ alive' = alive \ {processes[s]}
                    /\ ValidTransition(req[w].status, "CANCELLED")
<1> DEFINE r == IF saves THEN [req[w] EXCEPT !.at = "save"] ELSE Idle
<1>2. req' = [req EXCEPT ![w] = r]
    BY DEF StopProcess, Goto, Finish
<1>3. /\ r \in Requests
      /\ saves => r.op = "cancel" /\ r.at = "save" /\ r.s = s /\ r.status = req[w].status
      /\ ~saves => r.op = "idle" /\ r.at = "none"
    BY <1>0, IdleRequest DEF Requests, Cancelling
<1>4. Types'
    BY <1>1, <1>2, <1>3 DEF IInv, Types, lawVars
<1>5. Owned'
    BY <1>1, <1>2, <1>3 DEF IInv, Types, Owned, HasProcess
<1>6. RunningWasStarted'
    BY <1>1 DEF IInv, RunningWasStarted
<1>7. ASSUME ~mode.overlap PROVE Knows(w)' /\ Lawful(w)' /\ Processes' /\ Governed'
    <2>1. Governed'
        BY <1>0, <1>1, <1>2, <1>3, <1>7, LawFrame
    <2>2. saves => \A p \in alive' : owner[p] # s
        BY <1>0, <1>1, <1>7, NoneAssumption
           DEF IInv, Types, Calm, Processes, ProcessControlled, Owned
    <2>3. Knows(w)'
        BY <1>0, <1>1, <1>2, <1>3, <1>7, <2>2 DEF IInv, Types, Calm, Knows
    <2>4. Lawful(w)'
        BY <1>2, <1>3 DEF IInv, Types, Lawful
    <2>5. \A v \in Workers : req[v].at # "record"
        BY <1>0, <1>7, Alone, IdleRequest
    <2>6. Processes'
        BY <1>1, <1>7, <2>5
           DEF IInv, Calm, Processes, ProcessControlled, Unstarted, InFlight
    <2> QED
        BY <2>1, <2>3, <2>4, <2>6
<1> QED
    BY <1>0, <1>1, <1>2, <1>3, <1>4, <1>5, <1>6, <1>7, Served

-----------------------------------------------------------------------------
\* Constitutions: sessions and processes are left alone.
LEMMA LawStep ==
    ASSUME IInv, NEW w \in Workers, NEW r \in Requests, req' = [req EXCEPT ![w] = r],
           lawUnchanged, req[w] # Idle \/ MayBegin(w),
           req[w].at # "record", r.op \in {"idle", "law", "get"},
           book' \in Policies \cup {None}, stored' \in Policies \cup {None},
           unsaved' \in BOOLEAN,
           ~mode.overlap => /\ r.at = "cache" => r.law = stored'
                            /\ r.op = "law" => r.law = book'
                            /\ Governed'
    PROVE  IInv'
<1>1. UNCHANGED <<mode, wired, row, log, runtimeVars, restarted>>
    BY DEF lawUnchanged
<1>2. Types'
    BY <1>1 DEF IInv, Types, runtimeVars
<1>3. Owned'
    BY <1>1, OwnedFrame DEF HasProcess
<1>4. RunningWasStarted'
    BY <1>1 DEF IInv, RunningWasStarted, runtimeVars
<1>5. ASSUME ~mode.overlap PROVE Knows(w)' /\ Lawful(w)' /\ Processes'
    BY <1>1, <1>5, ProcessFrame DEF Knows, Lawful, IInv, Types
<1> QED
    BY <1>1, <1>2, <1>3, <1>4, <1>5, Served

LEMMA Law_Inv ==
    ASSUME IInv, NEW w \in Workers,
           \/ \E c \in Policies : CreateConstitution(w, c)
           \/ SaveConstitution(w) \/ GetConstitution(w) \/ CacheConstitution(w)
    PROVE  IInv'
<1> USE IdleRequest
<1>1. ASSUME NEW c \in Policies, CreateConstitution(w, c) PROVE IInv'
    <2> DEFINE r == [op |-> "law", at |-> "save", law |-> c]
    <2>1. r \in Requests
        BY DEF Requests, Enacting
    <2>2. /\ req' = [req EXCEPT ![w] = r] /\ MayBegin(w) /\ lawUnchanged
          /\ book' = c /\ UNCHANGED <<stored, unsaved>> /\ req[w] = Idle
        BY <1>1 DEF CreateConstitution, Begin, MayBegin
    <2>3. Governed'
        BY <2>2 DEF Governed, IInv, Types
    <2> QED
        BY <2>1, <2>2, <2>3, LawStep DEF IInv, Types
<1>2. CASE SaveConstitution(w)
    <2>0. /\ req[w] \in Enacting /\ req[w] # Idle /\ req[w].op = "law"
          /\ req[w].at = "save"
        BY <1>2, RequestAt DEF SaveConstitution, IInv, Types
    <2>1. /\ req' = [req EXCEPT ![w] = Idle] /\ lawUnchanged /\ book' = book
          /\ \/ stored' = req[w].law /\ unsaved' = FALSE
             \/ unsaved' = TRUE /\ stored' = stored
        BY <1>2 DEF SaveConstitution, Finish
    <2>2. ~mode.overlap => req[w].law = book
        BY <2>0 DEF IInv, Calm, Lawful
    <2> QED
        BY <2>0, <2>1, <2>2, LawStep DEF IInv, Types, Enacting, Governed
<1>3. CASE GetConstitution(w)
    <2> DEFINE r == [op |-> "get", at |-> "cache", law |-> stored]
    <2>1. r \in Requests
        BY <1>3 DEF Requests, Getting, GetConstitution, IInv, Types
    <2>2. /\ req' = [req EXCEPT ![w] = r] /\ MayBegin(w) /\ lawUnchanged
          /\ UNCHANGED lawVars /\ req[w] = Idle
        BY <1>3 DEF GetConstitution, Begin, MayBegin
    <2>3. ~mode.overlap => Governed'
        BY <2>1, <2>2, LawFrame
    <2> QED
        BY <2>1, <2>2, <2>3, LawStep DEF IInv, Types, lawVars
<1>4. CASE CacheConstitution(w)
    <2>0. req[w] \in Getting /\ req[w] # Idle /\ req[w].at = "cache"
        BY <1>4, RequestAt DEF CacheConstitution, IInv, Types
    <2>1. /\ req' = [req EXCEPT ![w] = Idle] /\ lawUnchanged /\ book' = req[w].law
          /\ UNCHANGED <<stored, unsaved>>
        BY <1>4 DEF CacheConstitution, Finish
    <2>2. ~mode.overlap => req[w].law = stored
        BY <2>0 DEF IInv, Calm, Knows
    <2> QED
        BY <2>0, <2>1, <2>2, LawStep DEF IInv, Types, Getting, Governed
<1> QED
    BY <1>1, <1>2, <1>3, <1>4

-----------------------------------------------------------------------------
\* What happens to processes: messages, and their end.
LEMMA Runtime_Inv ==
    ASSUME IInv, UNCHANGED <<mode, wired, row, log, lawVars, restarted, processes, owner, req>>,
           alive' \subseteq alive, heard' \subseteq heard \cup alive
    PROVE  IInv'
<1>1. Types'
    BY DEF IInv, Types, lawVars
<1>2. Owned' /\ RunningWasStarted'
    BY DEF IInv, Owned, RunningWasStarted
<1>3. Calm'
    <2> SUFFICES ASSUME ~mode.overlap PROVE Calm'
        BY DEF Calm
    <2>1. \A w \in Workers : Knows(w)' /\ Lawful(w)'
        BY DEF IInv, Calm, Knows, Lawful, Unstarted, lawVars
    <2>2. Processes'
        BY DEF IInv, Calm, Processes, ProcessControlled, Unstarted, InFlight
    <2> QED
        BY <2>1, <2>2 DEF IInv, Calm, Governed, lawVars
<1> QED
    BY <1>1, <1>2, <1>3 DEF IInv

\* A restart forgets the maps and the requests.
LEMMA Restart_Inv ==
    ASSUME IInv, Restart
    PROVE  IInv'
<1>1. /\ UNCHANGED <<mode, wired, row, log, owner, alive, heard, stored, unsaved>>
      /\ restarted' = TRUE /\ book' = None
      /\ processes' = [s \in Sessions |-> None] /\ req' = [w \in Workers |-> Idle]
    BY DEF Restart
<1>2. Types'
    BY <1>1, IdleRequest DEF IInv, Types
<1>3. Owned' /\ RunningWasStarted'
    BY <1>1, IdleRequest DEF IInv, Owned, RunningWasStarted, HasProcess
<1>4. Calm'
    <2> SUFFICES ASSUME ~mode.overlap PROVE Calm'
        BY <1>1 DEF Calm
    <2>1. \A w \in Workers : Knows(w)' /\ Lawful(w)'
        BY <1>1, IdleRequest DEF Knows, Lawful
    <2>2. Processes' /\ Governed'
        BY <1>1 DEF IInv, Calm, Processes, ProcessControlled, Unstarted, Governed
    <2> QED
        BY <1>1, <2>1, <2>2 DEF Calm
<1> QED
    BY <1>2, <1>3, <1>4 DEF IInv

LEMMA InitIInv == Init => IInv
<1> SUFFICES ASSUME Init PROVE IInv
    OBVIOUS
<1> USE DEF Init
<1>1. Types
    BY IdleRequest DEF Types
<1>2. Owned /\ RunningWasStarted
    BY IdleRequest, NoneAssumption DEF Owned, RunningWasStarted, HasProcess
<1>3. Calm
    BY IdleRequest, NoneAssumption
       DEF Calm, Knows, Lawful, Processes, ProcessControlled, Unstarted, Governed
<1> QED
    BY <1>1, <1>2, <1>3 DEF IInv

\* IInv is inductive.
LEMMA NextIInv == IInv /\ [Next]_vars => IInv'
<1> SUFFICES ASSUME IInv, [Next]_vars PROVE IInv'
    OBVIOUS
<1>1. ASSUME NEW w \in Workers, NEW s \in Sessions, CreateSession(w, s) \/ SessionRequest(w, s)
      PROVE  IInv'
    <2>1. CASE SendMessage(w, s)
        BY <2>1, Runtime_Inv DEF SendMessage, runtimeUnchanged
    <2> QED
        BY <1>1, <2>1, CreateSession_Inv, Start_Inv, Cancel_Inv DEF SessionRequest
<1>2. ASSUME NEW w \in Workers, Step(w)
      PROVE  IInv'
    BY <1>2, Log_Inv, Authorize_Inv, AuthorizeLoaded_Inv, SaveStarting_Inv, Spawn_Inv,
       Record_Inv, SaveFailed_Inv, SaveRunning_Inv, StopProcess_Inv, SaveCancelled_Inv,
       Law_Inv DEF Step
<1>3. ASSUME NEW w \in Workers, GetConstitution(w) \/ \E c \in Policies : CreateConstitution(w, c)
      PROVE  IInv'
    BY <1>3, Law_Inv
<1>4. ASSUME NEW p \in Procs, Exit(p) PROVE IInv'
    BY <1>4, Runtime_Inv DEF Exit, runtimeUnchanged
<1>5. CASE UNCHANGED vars
    BY <1>5, Runtime_Inv DEF vars, runtimeVars
<1> QED
    BY <1>1, <1>2, <1>3, <1>4, <1>5, Restart_Inv DEF Next

\* IInv holds of every behaviour.
LEMMA Invariance == Spec => []IInv
BY InitIInv, NextIInv, PTL DEF Spec

\* For any number of sessions, processes and requests, whatever fails and
\* wherever the server restarts: a RUNNING session has had a process, and with
\* single requests Service.Cancel reaches the only process of its session.
THEOREM SessionsHold == Spec => []SessionsSound
<1>1. IInv => TypeOK
    BY DEF IInv, Types, Owned, TypeOK, Stored, Statuses
<1>2. IInv => ProcessControlled
    BY DEF IInv, Calm, Processes, ProcessControlled
<1>3. IInv => SessionsSound
    BY <1>1, <1>2 DEF IInv, SessionsSound
<1> QED
    BY <1>3, Invariance, PTL

\* The steps that change a session's row.
LEMMA RowSteps ==
    ASSUME Next
    PROVE  \/ UNCHANGED row
           \/ \E w \in Workers : \/ \E s \in Sessions : CreateSession(w, s)
                                 \/ SaveStarting(w) \/ SaveFailed(w) \/ SaveRunning(w)
                                 \/ SaveCancelled(w)
<1>1. ASSUME NEW w \in Workers, Step(w)
      PROVE  \/ UNCHANGED row
             \/ SaveStarting(w) \/ SaveFailed(w) \/ SaveRunning(w) \/ SaveCancelled(w)
    BY <1>1 DEF Step, LogCreated, LogStarted, LogCompleted, AppendEvent, Authorize,
        AuthorizeLoaded, Spawn, Record, StopProcess, SaveConstitution, CacheConstitution,
        runtimeUnchanged, lawUnchanged
<1> QED
    BY <1>1 DEF Next, SessionRequest, Start, SendMessage, Cancel, CreateConstitution,
        GetConstitution, Exit, Restart, runtimeUnchanged, lawUnchanged

\* The stored status of any session moves along validTransition, one request at
\* a time, although Service.Start and Service.Cancel save copies.
THEOREM LifecycleFollowed == Spec => RowFollowsLifecycle
<1>1. ASSUME IInv, Next, ~mode.overlap, NEW s \in Sessions, row'[s] # row[s]
      PROVE  \/ row[s] = None /\ row'[s] = "CREATED"
             \/ ValidTransition(row[s], row'[s])
    <2>1. row \in [Sessions -> Stored \cup {None}]
        BY <1>1 DEF IInv, Types
    <2>2. PICK w \in Workers : \/ \E t \in Sessions : CreateSession(w, t)
                               \/ SaveStarting(w) \/ SaveFailed(w) \/ SaveRunning(w)
                               \/ SaveCancelled(w)
        BY <1>1, RowSteps
    <2>3. Knows(w) /\ req[w] \in Requests
        BY <1>1 DEF IInv, Types, Calm
    <2>4. CASE \E t \in Sessions : CreateSession(w, t)
        BY <1>1, <2>1, <2>4 DEF CreateSession, UpdateSession
    <2>5. CASE SaveStarting(w)
        BY <1>1, <2>1, <2>3, <2>5 DEF SaveStarting, UpdateSession, Knows, ValidTransition
    <2>6. CASE SaveFailed(w)
        BY <1>1, <2>1, <2>3, <2>6 DEF SaveFailed, UpdateSession, Knows, ValidTransition
    <2>7. CASE SaveRunning(w)
        BY <1>1, <2>1, <2>3, <2>7 DEF SaveRunning, UpdateSession, Knows, ValidTransition
    <2>8. CASE SaveCancelled(w)
        BY <1>1, <2>1, <2>3, <2>8 DEF SaveCancelled, UpdateSession, Knows
    <2> QED
        BY <2>2, <2>4, <2>5, <2>6, <2>7, <2>8
<1>2. IInv /\ [Next]_vars =>
        [~mode.overlap => \A s \in Sessions : row'[s] # row[s] =>
            \/ row[s] = None /\ row'[s] = "CREATED"
            \/ ValidTransition(row[s], row'[s])]_vars
    BY <1>1
<1> QED
    BY <1>2, Invariance, PTL DEF Spec, RowFollowsLifecycle

\* No process starts against the stored constitution, for any constitutions and
\* one request at a time, while every accepted one was stored: the copy the
\* guard's Authorize keeps in memory is not out of date.
THEOREM StartsGoverned == Spec => StartIsGoverned
<1>1. ASSUME IInv, Next, ~mode.overlap, ~unsaved, NEW p \in Procs, owner'[p] # owner[p]
      PROVE  stored # None /\ "allowed" \in stored /\ "approval" \notin stored
    <2>1. PICK w \in Workers : Spawn(w)
        <3>1. ASSUME NEW w \in Workers, Step(w), ~Spawn(w) PROVE UNCHANGED owner
            BY <3>1 DEF Step, LogCreated, LogStarted, LogCompleted, AppendEvent, Authorize,
                AuthorizeLoaded, SaveStarting, SaveFailed, SaveRunning, SaveCancelled, Record,
                StopProcess, SaveConstitution, CacheConstitution, rowUnchanged, lawUnchanged,
                runtimeVars
        <3> QED
            BY <1>1, <3>1 DEF Next, CreateSession, SessionRequest, Start, SendMessage, Cancel,
                CreateConstitution, GetConstitution, Exit, Restart, rowUnchanged,
                lawUnchanged, runtimeVars
    <2>2. stored # None /\ Evaluate(stored) = "ALLOW"
        BY <1>1, <2>1 DEF IInv, Calm, Lawful, Spawn
    <2>3. stored \in SUBSET {"allowed", "approval"}
        BY <1>1, <2>2, PoliciesAssumption DEF IInv, Types
    <2> QED
        BY <2>2, <2>3 DEF Evaluate
<1>2. IInv /\ [Next]_vars =>
        [~mode.overlap /\ ~unsaved => \A p \in Procs : owner'[p] # owner[p] =>
            /\ stored # None
            /\ "allowed" \in stored
            /\ "approval" \notin stored]_vars
    BY <1>1
<1> QED
    BY <1>2, Invariance, PTL DEF Spec, StartIsGoverned
=============================================================================
