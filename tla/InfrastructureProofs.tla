----------------------- MODULE InfrastructureProofs -----------------------
(***************************************************************************)
(* Proofs about port reservation, the tool registry, the artifact cache    *)
(* and project computers, for any bindings, ports, tools, artifacts,       *)
(* computers and requests in flight.                                       *)
(***************************************************************************)
EXTENDS Infrastructure, ProjectComputer, FiniteSetTheorems, TLAPS

\* The row of a port, if there is one, has an id.
RowsNamed ==
    /\ DOMAIN ports = Endpoints /\ ports = [p \in Endpoints |-> ports[p]]
    /\ \A p \in Endpoints : ports[p] # None => ports[p].id # None

\* Requests in flight carry a binding and are at one of their two statements; an
\* answered look-up found the port free or the binding's own.
Requesting ==
    /\ reserving = [w \in PortWorkers |-> reserving[w]]
    /\ \A w \in PortWorkers : reserving[w] # None =>
         LET r == reserving[w] IN
         /\ r = [at |-> r.at, b |-> r.b, told |-> r.told, row |-> r.row]
         /\ r.at \in {"insert", "save"} /\ r.b \in Bindings /\ r.told \in BOOLEAN
         /\ r.told /\ r.row # None => r.row.id = r.b.id

\* Until somebody is misled or releases, who is about to write the second table
\* holds the port: the insertion gave it, and nobody takes it away.
Holding ==
    ~misled /\ ~released =>
        \A w \in PortWorkers : reserving[w] # None /\ reserving[w].at = "save" =>
            LET b == reserving[w].b IN
            ports[b.port] # None /\ ports[b.port].id = BindingID(b)

\* The second table is a function of the ports.
Recording == recorded = [p \in Endpoints |-> recorded[p]]

PortInv == RowsNamed /\ Requesting /\ Holding /\ Recording /\ GrantedIsHeld /\ RecordAgrees

\* A row has an id and is a row.
LEMMA NamedRows ==
    ASSUME NEW b \in Bindings
    PROVE  b.port \in Endpoints /\ BindingID(b) # None /\ RowOf(b) # None
BY BindingsAssumption DEF BindingID, RowOf

\* The tables are empty and nothing is in flight.
LEMMA PortInit_Inv == PortInit => PortInv
BY DEF PortInit, PortInv, RowsNamed, Requesting, Holding, Recording, GrantedIsHeld, RecordAgrees

\* A look-up keeps the invariant.
LEMMA Reserve_Inv ==
    ASSUME PortInv, NEW w \in PortWorkers, NEW b \in Bindings, Reserve(w, b)
    PROVE PortInv'
<1>1. PICK told \in BOOLEAN :
        /\ told => LookedUp(b)
        /\ reserving' = [reserving EXCEPT ![w] =
                            [at |-> "insert", b |-> b, told |-> told, row |-> ports[b.port]]]
    BY DEF Reserve
<1>2. granted' = None /\ UNCHANGED <<ports, recorded, released, misled>>
    BY DEF Reserve
<1>3. RowsNamed' /\ Recording' /\ GrantedIsHeld' /\ RecordAgrees'
    BY <1>2 DEF PortInv, RowsNamed, Recording, GrantedIsHeld, RecordAgrees
<1>4. Requesting'
    BY <1>1 DEF PortInv, Requesting, LookedUp
<1>5. Holding'
    BY <1>1, <1>2 DEF PortInv, Requesting, Holding
<1> QED
    BY <1>3, <1>4, <1>5 DEF PortInv

\* The insertion only ever writes the row of its own port, keeps the id of a row
\* that is there, and gives the port to a request whose look-up still holds.
LEMMA UpsertFacts ==
    ASSUME RowsNamed, NEW b \in Bindings, ports' = Upsert(b)
    PROVE  /\ DOMAIN ports' = Endpoints /\ ports' = [p \in Endpoints |-> ports'[p]]
           /\ \A p \in Endpoints \ {b.port} : ports'[p] = ports[p]
           /\ ports'[b.port] = RowOf(b)
              \/ (ports[b.port] # None /\ ports[b.port].id # BindingID(b) /\ ports' = ports)
           /\ \A p \in Endpoints : ports[p] # None =>
                 ports'[p] # None /\ ports'[p].id = ports[p].id
           /\ RowsNamed'
<1>1. b.port \in Endpoints /\ BindingID(b) # None /\ RowOf(b) # None /\ RowOf(b).id = BindingID(b)
    BY NamedRows DEF RowOf
<1>2. CASE ports[b.port] = None \/ ports[b.port].id = BindingID(b)
    <2>1. ports' = [ports EXCEPT ![b.port] = RowOf(b)]
        BY <1>2 DEF Upsert
    <2> QED
        BY <1>1, <1>2, <2>1 DEF RowsNamed
<1>3. CASE ~(ports[b.port] = None \/ ports[b.port].id = BindingID(b))
    BY <1>1, <1>3 DEF Upsert, RowsNamed
<1> QED
    BY <1>2, <1>3

\* The insertion of a request: told RESERVED, it holds the port or is misled.
LEMMA Insert_Inv ==
    ASSUME PortInv, NEW w \in PortWorkers, Insert(w)
    PROVE PortInv'
<1> DEFINE r == reserving[w]
<1> DEFINE b == reserving[w].b
<1>0. /\ b \in Bindings /\ b.port \in Endpoints /\ BindingID(b) # None /\ RowOf(b) # None
      /\ RowOf(b).id = BindingID(b)
    BY NamedRows DEF PortInv, Requesting, Insert, RowOf
<1>1. /\ ports' = Upsert(b) /\ reserving' = [reserving EXCEPT ![w].at = "save"]
      /\ granted' = [id |-> BindingID(b), project |-> b.project, port |-> b.port,
                     fresh |-> r.told /\ ports[b.port] = r.row]
      /\ misled' = (misled \/ ports'[b.port] # RowOf(b))
      /\ UNCHANGED <<recorded, released>>
    BY DEF Insert
<1>2. /\ \A p \in Endpoints : ports[p] # None => ports'[p] # None /\ ports'[p].id = ports[p].id
      /\ RowsNamed'
      /\ ports'[b.port] = RowOf(b)
         \/ (ports[b.port] # None /\ ports[b.port].id # BindingID(b) /\ ports' = ports)
    BY <1>0, <1>1, UpsertFacts DEF PortInv
<1>3. Requesting' /\ Recording'
    BY <1>1 DEF PortInv, Requesting, Recording, Insert
<1>4. Holding'
    <2> SUFFICES ASSUME ~misled', ~released' PROVE Holding'
        BY DEF Holding
    <2>1. ports'[b.port] = RowOf(b)
        BY <1>1
    <2>2. ASSUME NEW v \in PortWorkers, reserving'[v] # None, reserving'[v].at = "save"
          PROVE  /\ ports'[reserving'[v].b.port] # None
                 /\ ports'[reserving'[v].b.port].id = BindingID(reserving'[v].b)
        <3>1. CASE v = w
            <4>1. reserving'[v].b = b
                BY <1>1, <3>1 DEF PortInv, Requesting, Insert
            <4> QED
                BY <1>0, <2>1, <4>1
        <3>2. CASE v # w
            <4>1. reserving'[v] = reserving[v]
                BY <1>1, <3>2 DEF PortInv, Requesting
            <4>2. reserving[v].b \in Bindings
                BY <2>2, <4>1 DEF PortInv, Requesting
            <4>3. reserving[v].b.port \in Endpoints
                BY <4>2, NamedRows
            <4> QED
                BY <1>1, <1>2, <2>2, <4>1, <4>3 DEF PortInv, Holding
        <3> QED BY <3>1, <3>2
    <2> QED
        BY <2>2 DEF Holding, BindingID
<1>5. GrantedIsHeld'
    <2> SUFFICES ASSUME r.told, ports[b.port] = r.row PROVE ports'[b.port] = RowOf(b)
        BY <1>1 DEF GrantedIsHeld, RowOf
    <2>1. ports[b.port] # None => ports[b.port].id = b.id
        BY DEF PortInv, Requesting, Insert
    <2>2. ports[b.port] # None => ports[b.port].id = BindingID(b)
        BY <1>0, <2>1 DEF BindingID, PortInv, RowsNamed
    <2> QED
        BY <1>2, <2>2
<1>6. RecordAgrees'
    BY <1>1, <1>2 DEF PortInv, RecordAgrees
<1> QED
    BY <1>2, <1>3, <1>4, <1>5, <1>6 DEF PortInv

\* A failed insertion ends its request, with or without its row.
LEMMA InsertFails_Inv ==
    ASSUME PortInv, NEW w \in PortWorkers, InsertFails(w)
    PROVE PortInv'
<1> DEFINE b == reserving[w].b
<1>1. /\ reserving' = [reserving EXCEPT ![w] = None] /\ granted' = None
      /\ UNCHANGED <<recorded, released, misled>>
      /\ ports' = ports \/ ports' = Upsert(b)
      /\ b \in Bindings
    BY DEF InsertFails, PortInv, Requesting
<1>2. /\ \A p \in Endpoints : ports[p] # None => ports'[p] # None /\ ports'[p].id = ports[p].id
      /\ RowsNamed'
    <2>1. CASE ports' = ports
        BY <2>1 DEF PortInv, RowsNamed
    <2>2. CASE ports' = Upsert(b)
        BY <1>1, <2>2, UpsertFacts DEF PortInv
    <2> QED BY <1>1, <2>1, <2>2
<1>3. Requesting' /\ Recording' /\ GrantedIsHeld' /\ RecordAgrees'
    BY <1>1, <1>2 DEF PortInv, Requesting, Recording, GrantedIsHeld, RecordAgrees
<1>4. Holding'
    <2> SUFFICES ASSUME ~misled, ~released, NEW v \in PortWorkers, reserving[v] # None,
                        reserving[v].at = "save"
                 PROVE  LET c == reserving[v].b IN
                        ports'[c.port] # None /\ ports'[c.port].id = BindingID(c)
        BY <1>1 DEF Holding, PortInv, Requesting
    <2>1. reserving[v].b.port \in Endpoints
        BY NamedRows DEF PortInv, Requesting
    <2> QED
        BY <1>2, <2>1 DEF PortInv, Holding
<1> QED
    BY <1>2, <1>3, <1>4 DEF PortInv

\* The second table is given the id the row of the port has.
LEMMA SavePort_Inv ==
    ASSUME PortInv, NEW w \in PortWorkers, SavePort(w)
    PROVE PortInv'
<1> DEFINE b == reserving[w].b
<1>0. b \in Bindings /\ b.port \in Endpoints /\ BindingID(b) # None
    BY NamedRows DEF PortInv, Requesting, SavePort
<1>1. /\ reserving' = [reserving EXCEPT ![w] = None]
      /\ granted' = None
      /\ UNCHANGED <<ports, released, misled>>
      /\ recorded' = recorded \/ recorded' = [recorded EXCEPT ![b.port] = BindingID(b)]
    BY DEF SavePort
<1>2. RowsNamed' /\ Requesting' /\ Holding' /\ GrantedIsHeld' /\ Recording'
    BY <1>1 DEF PortInv, RowsNamed, Requesting, Holding, GrantedIsHeld, Recording
<1>3. RecordAgrees'
    <2> SUFFICES ASSUME ~misled, ~released PROVE RecordAgrees'
        BY <1>1 DEF RecordAgrees
    <2>1. ports[b.port] # None /\ ports[b.port].id = BindingID(b)
        BY DEF PortInv, Holding, SavePort
    <2> QED
        BY <1>0, <1>1, <2>1 DEF PortInv, RecordAgrees, Recording
<1> QED
    BY <1>2, <1>3 DEF PortInv

\* A release leaves nothing to agree with.
LEMMA Release_Inv ==
    ASSUME PortInv, NEW p \in Endpoints, Release(p)
    PROVE PortInv'
<1>1. RowsNamed' /\ Requesting' /\ Recording'
    BY DEF PortInv, RowsNamed, Requesting, Recording, Release
<1>2. Holding' /\ GrantedIsHeld' /\ RecordAgrees'
    BY DEF Holding, GrantedIsHeld, RecordAgrees, Release
<1> QED
    BY <1>1, <1>2 DEF PortInv

\* A stop of the server ends the requests and leaves the tables.
LEMMA PortsCrash_Inv ==
    ASSUME PortInv, PortsCrash
    PROVE PortInv'
BY DEF PortInv, RowsNamed, Requesting, Holding, Recording, GrantedIsHeld, RecordAgrees,
       PortsCrash

\* A step that leaves the port registry alone.
LEMMA PortStutter_Inv ==
    ASSUME PortInv, UNCHANGED portVars
    PROVE PortInv'
BY DEF PortInv, RowsNamed, Requesting, Holding, Recording, GrantedIsHeld, RecordAgrees, portVars

\* Every step of the server is one of the registry or leaves it alone.
LEMMA PortSteps ==
    ASSUME [Next]_vars
    PROVE \/ \E w \in PortWorkers, b \in Bindings : Reserve(w, b)
          \/ \E w \in PortWorkers : Insert(w) \/ InsertFails(w)
          \/ \E w \in PortWorkers : SavePort(w)
          \/ \E p \in Endpoints : Release(p)
          \/ PortsCrash
          \/ UNCHANGED portVars
BY DEF Next, vars, PortsNext, Crash

\* PortInv is inductive.
LEMMA PortInv_Step == PortInv /\ [Next]_vars => PortInv'
BY PortSteps, Reserve_Inv, Insert_Inv, InsertFails_Inv, SavePort_Inv, Release_Inv,
   PortsCrash_Inv, PortStutter_Inv

\* PortInv holds of every behaviour.
LEMMA PortInvariance == Spec => []PortInv
<1>1. Init => PortInv
    BY PortInit_Inv DEF Init
<1> QED
    BY <1>1, PortInv_Step, PTL DEF Spec

\* Whatever the requests, their number and how they overlap, whatever statements
\* fail and wherever the server stops, a port's row keeps its id until Release
\* deletes it: the upsert of PostgresPortRegistry.Reserve never hands a reserved
\* port to another.
THEOREM PortIsKept == Spec => PortKept
<1> DEFINE Kept == \A p \in Endpoints : ports[p] # None /\ ports'[p] # None
                                           => ports'[p].id = ports[p].id
<1>1. PortInv /\ [Next]_vars => [Kept]_portVars
    <2> SUFFICES ASSUME PortInv, [Next]_vars PROVE [Kept]_portVars
        OBVIOUS
    <2>1. ASSUME NEW w \in PortWorkers, Insert(w) \/ InsertFails(w) PROVE Kept
        <3>1. reserving[w].b \in Bindings
            BY <2>1 DEF Insert, InsertFails, PortInv, Requesting
        <3>2. CASE ports' = ports
            BY <3>2
        <3>3. CASE ports' = Upsert(reserving[w].b)
            BY <3>1, <3>3, UpsertFacts DEF PortInv
        <3> QED
            BY <2>1, <3>2, <3>3 DEF Insert, InsertFails
    <2>2. ASSUME NEW p \in Endpoints, Release(p) PROVE Kept
        BY <2>2 DEF Release, PortInv, RowsNamed
    <2>3. ASSUME ports' = ports PROVE Kept
        BY <2>3
    <2> QED
        BY PortSteps, <2>1, <2>2, <2>3 DEF Reserve, SavePort, PortsCrash
<1> QED
    BY <1>1, PortInvariance, PTL DEF Spec, PortKept

\* However many requests overlap, whoever deploymentReservePort answers RESERVED
\* holds the row of the port at that moment, or its SELECT failed, or the row was
\* changed between its SELECT and its INSERT.
THEOREM ReservedIsHeld == Spec => []GrantedIsHeld
BY PortInvariance, PTL DEF PortInv

\* However many requests overlap, deployment_ports names the holder of every
\* port it lists, until the first release or the first RESERVED without a row.
THEOREM TablesAgree == Spec => []RecordAgrees
BY PortInvariance, PTL DEF PortInv

-----------------------------------------------------------------------------
\* The shared infrastructure: tables, the registry and the cache have their
\* types.
Rows ==
    /\ artifactRows \in [IDs -> Sums \cup {Absent}]
    /\ entryRows \in [IDs -> Statuses \cup {Absent}]
    /\ blobRows \in [IDs -> Sums \cup {Rotten, Absent}]
    /\ entries \in [Artifacts -> Statuses \cup {Absent}]
    /\ blobs \in [Artifacts -> Sums \cup {Absent}]
    /\ held \subseteq Artifacts /\ dropped \subseteq Artifacts

Answers == [a : Artifacts, status : {"HIT", "CORRUPT", "MISS"}]
Touches == [op : {"touch"}, a : Artifacts]
Puts == [op : {"put"}, at : {"blob", "entry", "clean"}, a : Artifacts, new : BOOLEAN]
Invalidations == [op : {"invalidate"}, at : {"delete", "mark"}, a : Artifacts]

\* Only a running server has an operation under way, and the answer HIT is
\* given by a look-up that has not yet saved its entry.
Calls ==
    /\ phase \in {"off", "load", "seed", "hydrate", "up"} /\ faults \in BOOLEAN
    /\ call \in Touches \cup Puts \cup Invalidations \cup {Absent}
    /\ call # Absent => phase = "up"
    /\ answer \in Answers \cup {Absent}
    /\ answer # Absent /\ answer.status = "HIT" =>
         call \in Touches /\ (HasBytes(answer.a) => blobs[answer.a] = answer.a.sum)

\* What was put is in all three tables, and nothing under way will take it
\* away: an operation on its id is a put of the artifact itself.
Held ==
    /\ \A a \in held :
         /\ artifactRows[a.id] = a.sum /\ entryRows[a.id] # Absent /\ blobRows[a.id] = a.sum
         /\ blobs[a] \in {Absent, a.sum}
         /\ phase = "up" => entries[a] # Absent
    /\ call \in Puts => /\ \A a \in held : a.id = call.a.id => a = call.a
                        /\ call.new => call.a \notin held
                        /\ call.at = "clean" => call.new
    /\ call \in Invalidations => \A a \in held : a.id # call.a.id

\* What was invalidated has its content neither in memory nor in its row.
Dropped ==
    /\ \A a \in dropped : HasBytes(a) => blobs[a] # a.sum /\ blobRows[a.id] # a.sum
    /\ call \in Puts => call.a \notin dropped
    /\ call \in Invalidations => blobs[call.a] = Absent

CacheInv == Rows /\ Calls /\ Held /\ Dropped

\* The rows of a tool hold all its versions, unless its statements are not all
\* done or a stop cut them short.
Seeds ==
    /\ toolRows = [t \in Tools |-> toolRows[t]] /\ seeding \in [Tools -> Nat]
    /\ cut \subseteq Tools /\ short \subseteq Tools
    /\ \A t \in Tools :
         /\ toolRows[t] \in (SUBSET VersionsOf(t)) \cup {Absent}
         /\ t \notin cut /\ seeding[t] = 0 /\ toolRows[t] # Absent =>
              VersionsOf(t) \subseteq toolRows[t]
         /\ phase # "seed" => seeding[t] = 0
         /\ phase = "seed" =>
              /\ seeding[t] <= StatementsOf(t)
              /\ toolRows[t] = Absent <=> seeding[t] = StatementsOf(t)
              /\ \A k \in DOMAIN Versions[t] :
                   k + seeding[t] <= Len(Versions[t]) => Versions[t][k] \in toolRows[t]

Registered(t) == {registry[t][k].version : k \in DOMAIN registry[t]}

\* The registry is the default until the tools are loaded or seeded, and has
\* all versions of what was read to the end afterwards.
Registers ==
    /\ registry = [t \in Tools |-> registry[t]]
    /\ \A t \in Tools :
         /\ registry[t] \in Seq([version : VersionsOf(t), sum : Sums \cup {Absent}])
         /\ phase \in {"load", "seed"} => registry[t] = DefaultTool(t)
         /\ phase \in {"hydrate", "up"} /\ t \notin cut \cup short =>
              VersionsOf(t) \subseteq Registered(t)

ToolInv == Seeds /\ Registers

-----------------------------------------------------------------------------
\* Lemmas about the cache.

\* Artifacts are told apart by id and checksum.
LEMMA ArtifactFacts ==
    /\ \A a \in Artifacts : a.id \in IDs /\ a.sum \in Sums /\ a.sum # Rotten /\ a.sum # Absent
    /\ \A a, b \in Artifacts : a.id = b.id /\ a.sum = b.sum => a = b
    /\ Absent \notin Statuses /\ Absent # Rotten /\ Absent \notin Sums
BY ArtifactsAssumption, AbsentAssumption DEF IDs, Sums, Statuses

\* The operations are told apart by op, and none is absent.
LEMMA CallFacts ==
    /\ Absent \notin Answers /\ Absent \notin Touches /\ Absent \notin Puts
    /\ Absent \notin Invalidations
    /\ \A c \in Touches : c.op = "touch" /\ c.a \in Artifacts
    /\ \A c \in Puts : c.op = "put" /\ c.a \in Artifacts
    /\ \A c \in Invalidations : c.op = "invalidate" /\ c.a \in Artifacts
<1>1. ASSUME Absent \in Answers PROVE FALSE
    <2>1. PICK a \in Artifacts : Absent \in [a : {a}, status : {"HIT", "CORRUPT", "MISS"}]
        BY <1>1 DEF Answers
    <2> QED BY <2>1, AbsentAssumption
<1>2. ASSUME Absent \in Touches PROVE FALSE
    <2>1. PICK a \in Artifacts : Absent \in [op : {"touch"}, a : {a}]
        BY <1>2 DEF Touches
    <2> QED BY <2>1, AbsentAssumption
<1>3. ASSUME Absent \in Puts PROVE FALSE
    <2>1. PICK a \in Artifacts :
             Absent \in [op : {"put"}, at : {"blob", "entry", "clean"}, a : {a}, new : BOOLEAN]
        BY <1>3 DEF Puts
    <2> QED BY <2>1, AbsentAssumption
<1>4. ASSUME Absent \in Invalidations PROVE FALSE
    <2>1. PICK a \in Artifacts : Absent \in [op : {"invalidate"}, at : {"delete", "mark"}, a : {a}]
        BY <1>4 DEF Invalidations
    <2> QED BY <2>1, AbsentAssumption
<1>5. /\ \A c \in Touches : c.op = "touch" /\ c.a \in Artifacts
      /\ \A c \in Puts : c.op = "put" /\ c.a \in Artifacts
      /\ \A c \in Invalidations : c.op = "invalidate" /\ c.a \in Artifacts
    BY DEF Touches, Puts, Invalidations
<1> QED
    BY <1>1, <1>2, <1>3, <1>4, <1>5

\* Nothing is cached yet.
LEMMA SharedInit_Cache == SharedInit => CacheInv
BY CallFacts DEF SharedInit, CacheInv, Rows, Calls, Held, Dropped

\* A start empties the memory.
LEMMA Boot_Cache ==
    ASSUME CacheInv, Boot
    PROVE CacheInv'
<1> USE DEF CacheInv
<1>1. Rows'
    BY ArtifactFacts, CallFacts DEF Boot, rowVars, Rows, Calls, Statuses
<1>2. Calls'
    BY ArtifactFacts, CallFacts DEF Boot, rowVars, Rows, Calls
<1>3. Held'
    BY ArtifactFacts, CallFacts DEF Boot, rowVars, Rows, Calls, Held
<1>4. Dropped'
    BY ArtifactFacts, CallFacts DEF Boot, rowVars, Rows, Calls, Dropped
<1> QED
    BY <1>1, <1>2, <1>3, <1>4

\* A held artifact gets its entry back, for its row has its checksum.
LEMMA Hydrate_Cache ==
    ASSUME CacheInv, Hydrate
    PROVE CacheInv'
<1> USE DEF CacheInv
<1>1. Rows'
    BY ArtifactFacts, CallFacts
       DEF Hydrate, LoadCacheEntries, rowVars, Rows, Calls, Statuses
<1>2. Calls'
    BY ArtifactFacts, CallFacts
       DEF Hydrate, LoadCacheEntries, rowVars, Rows, Calls
<1>3. Held'
    BY ArtifactFacts, CallFacts
       DEF Hydrate, LoadCacheEntries, rowVars, Rows, Calls, Held
<1>4. Dropped'
    BY ArtifactFacts, CallFacts
       DEF Hydrate, LoadCacheEntries, rowVars, Rows, Calls, Dropped
<1> QED
    BY <1>1, <1>2, <1>3, <1>4

\* A stop ends the operation under way.
LEMMA SharedCrash_Cache ==
    ASSUME CacheInv, SharedCrash
    PROVE CacheInv'
<1> USE DEF CacheInv
<1>1. Rows'
    BY ArtifactFacts, CallFacts DEF SharedCrash, rowVars, Rows, Calls, Statuses
<1>2. Calls'
    BY ArtifactFacts, CallFacts DEF SharedCrash, rowVars, Rows, Calls
<1>3. Held'
    BY ArtifactFacts, CallFacts DEF SharedCrash, rowVars, Rows, Calls, Held
<1>4. Dropped'
    BY ArtifactFacts, CallFacts DEF SharedCrash, rowVars, Rows, Calls, Dropped
<1> QED
    BY <1>1, <1>2, <1>3, <1>4

\* A look-up leaves content of the checksum that was asked for, or none, and
\* finds none where there was none.
LEMMA Lookup_Cache ==
    ASSUME CacheInv, NEW a \in Artifacts, Lookup(a)
    PROVE CacheInv'
<1> USE DEF CacheInv
<1>1. CASE entries[a] = Absent
    <2>1. /\ answer' = [a |-> a, status |-> "MISS"] /\ call = Absent
          /\ UNCHANGED <<phase, faults, artifactRows, entryRows, blobRows, entries, blobs, call,
                         held, dropped>>
        BY <1>1 DEF Lookup, Enter, CacheStep
    <2> QED
        BY <2>1, CallFacts DEF Rows, Calls, Held, Dropped, Answers
<1>2. CASE entries[a] # Absent
    <2>1. PICK content \in Contents(a) :
            LET status == IF Verified(a, content) THEN "HIT" ELSE "CORRUPT" IN
            /\ blobs' = [blobs EXCEPT ![a] = content]
            /\ entries' = [entries EXCEPT ![a] = status]
            /\ answer' = [a |-> a, status |-> status]
            /\ call' = IF status = "HIT" THEN [op |-> "touch", a |-> a] ELSE Absent
        BY <1>2 DEF Lookup
    <2> DEFINE status == IF Verified(a, content) THEN "HIT" ELSE "CORRUPT"
    <2>2. /\ blobs' = [blobs EXCEPT ![a] = content]
          /\ entries' = [entries EXCEPT ![a] = status]
          /\ answer' = [a |-> a, status |-> status]
          /\ call' = IF status = "HIT" THEN [op |-> "touch", a |-> a] ELSE Absent
          /\ phase = "up" /\ call = Absent
          /\ UNCHANGED <<phase, faults, artifactRows, entryRows, blobRows, held, dropped>>
        BY <2>1 DEF Lookup, Enter, CacheStep
    <2>3. /\ status \in {"HIT", "CORRUPT"}
          /\ status = "HIT" /\ HasBytes(a) => content = a.sum
          /\ status \in Statuses /\ status # Absent
        BY ArtifactFacts DEF Statuses, Verified, HasBytes
    <2> HIDE DEF status
    <2>4. /\ content \in Sums \cup {Absent}
          /\ a \in held => content \in {Absent, a.sum}
          /\ a \in dropped /\ HasBytes(a) => content # a.sum
        BY <2>1, ArtifactFacts DEF Contents, Rows, Held, Dropped
    <2>5. /\ call' \in Touches \cup {Absent} /\ answer' \in Answers
          /\ status = "HIT" => call' \in Touches
          /\ answer'.a = a /\ answer'.status = status
        BY <2>2, <2>3 DEF Touches, Answers
    <2>6. Rows'
        BY <2>2, <2>3, <2>4 DEF Rows
    <2>7. Calls'
        BY <2>2, <2>3, <2>4, <2>5, CallFacts DEF Rows, Calls
    <2>8. call' \notin Puts /\ call' \notin Invalidations
        BY <2>5, CallFacts
    <2>9. Held' /\ Dropped'
        BY <2>2, <2>3, <2>4, <2>8 DEF Rows, Held, Dropped
    <2> QED
        BY <2>6, <2>7, <2>9
<1> QED
    BY <1>1, <1>2

\* A put takes the other artifacts of its id out of the held ones.
LEMMA Put_Cache ==
    ASSUME CacheInv, NEW a \in Artifacts, Put(a)
    PROVE CacheInv'
<1> USE DEF CacheInv
<1>1. Rows'
    BY ArtifactFacts, CallFacts
       DEF Put, Enter, CacheStep, Siblings, Puts, Rows, Calls, Statuses
<1>2. Calls'
    BY ArtifactFacts, CallFacts
       DEF Put, Enter, CacheStep, Siblings, Puts, Rows, Calls
<1>3. Held'
    BY ArtifactFacts, CallFacts
       DEF Put, Enter, CacheStep, Siblings, Puts, Rows, Calls, Held
<1>4. Dropped'
    BY ArtifactFacts, CallFacts
       DEF Put, Enter, CacheStep, Siblings, Puts, Rows, Calls, Dropped
<1> QED
    BY <1>1, <1>2, <1>3, <1>4

\* An invalidation takes all artifacts of its id out of the held ones.
LEMMA Invalidate_Cache ==
    ASSUME CacheInv, NEW a \in Artifacts, Invalidate(a)
    PROVE CacheInv'
<1> USE DEF CacheInv
<1>1. Rows'
    BY ArtifactFacts, CallFacts
       DEF Invalidate, Enter, CacheStep, Siblings, Invalidations, Rows, Calls,
           Statuses
<1>2. Calls'
    BY ArtifactFacts, CallFacts
       DEF Invalidate, Enter, CacheStep, Siblings, Invalidations, Rows, Calls
<1>3. Held'
    BY ArtifactFacts, CallFacts
       DEF Invalidate, Enter, CacheStep, Siblings, Invalidations, Rows, Calls,
           Held
<1>4. Dropped'
    BY ArtifactFacts, CallFacts
       DEF Invalidate, Enter, CacheStep, Siblings, Invalidations, Rows, Calls,
           Dropped
<1> QED
    BY <1>1, <1>2, <1>3, <1>4

\* Another checksum takes the artifacts of its id out of the held ones.
LEMMA SaveArtifact_Cache ==
    ASSUME CacheInv, NEW a \in Artifacts, SaveArtifact(a)
    PROVE CacheInv'
<1> USE DEF CacheInv
<1>1. Rows'
    BY ArtifactFacts, CallFacts
       DEF SaveArtifact, Siblings, Rows, Calls, Statuses
<1>2. Calls'
    BY ArtifactFacts, CallFacts DEF SaveArtifact, Siblings, Rows, Calls
<1>3. Held'
    BY ArtifactFacts, CallFacts DEF SaveArtifact, Siblings, Rows, Calls, Held
<1>4. Dropped'
    BY ArtifactFacts, CallFacts DEF SaveArtifact, Siblings, Rows, Calls, Dropped
<1> QED
    BY <1>1, <1>2, <1>3, <1>4

\* A damaged blob takes its artifact out of the held ones.
LEMMA Rot_Cache ==
    ASSUME CacheInv, NEW i \in IDs, Rot(i)
    PROVE CacheInv'
<1> USE DEF CacheInv
<1>1. Rows'
    BY ArtifactFacts, CallFacts DEF Rot, Rows, Calls, Statuses
<1>2. Calls'
    BY ArtifactFacts, CallFacts DEF Rot, Rows, Calls
<1>3. Held'
    BY ArtifactFacts, CallFacts DEF Rot, Rows, Calls, Held
<1>4. Dropped'
    BY ArtifactFacts, CallFacts DEF Rot, Rows, Calls, Dropped
<1> QED
    BY <1>1, <1>2, <1>3, <1>4

\* Saving the entry of a hit.
LEMMA Touch_Cache ==
    ASSUME CacheInv, Touch
    PROVE CacheInv'
<1> USE DEF CacheInv
<1>1. Rows'
    BY ArtifactFacts, CallFacts
       DEF Touch, CacheStep, SaveCacheEntry, Writable, Rows, Calls, Statuses
<1>2. Calls'
    BY ArtifactFacts, CallFacts
       DEF Touch, CacheStep, SaveCacheEntry, Writable, Statuses, Rows, Calls
<1>3. Held'
    BY ArtifactFacts, CallFacts
       DEF Touch, CacheStep, SaveCacheEntry, Writable, Statuses, Rows, Calls,
           Held
<1>4. Dropped'
    BY ArtifactFacts, CallFacts
       DEF Touch, CacheStep, SaveCacheEntry, Writable, Statuses, Rows, Calls,
           Dropped
<1> QED
    BY <1>1, <1>2, <1>3, <1>4

\* Saving the blob of a put.
LEMMA PutBlob_Cache ==
    ASSUME CacheInv, PutBlob
    PROVE CacheInv'
<1> USE DEF CacheInv
<1>1. Rows'
    BY ArtifactFacts, CallFacts
       DEF PutBlob, CacheStep, Putting, Writable, Puts, Rows, Calls, Statuses
<1>2. Calls'
    BY ArtifactFacts, CallFacts
       DEF PutBlob, CacheStep, Putting, Writable, Puts, Rows, Calls
<1>3. Held'
    BY ArtifactFacts, CallFacts
       DEF PutBlob, CacheStep, Putting, Writable, Puts, Rows, Calls, Held
<1>4. Dropped'
    BY ArtifactFacts, CallFacts
       DEF PutBlob, CacheStep, Putting, Writable, Puts, Rows, Calls, Dropped
<1> QED
    BY <1>1, <1>2, <1>3, <1>4

\* Saving the entry of a put.
LEMMA PutEntry_Cache ==
    ASSUME CacheInv, PutEntry
    PROVE CacheInv'
<1> USE DEF CacheInv
<1>1. Rows'
    BY ArtifactFacts, CallFacts
       DEF PutEntry, CacheStep, Putting, SaveCacheEntry, Writable, Rows, Calls,
           Statuses
<1>2. Calls'
    BY ArtifactFacts, CallFacts
       DEF PutEntry, CacheStep, Putting, SaveCacheEntry, Writable, Statuses,
           Rows, Calls
<1>3. Held'
    BY ArtifactFacts, CallFacts
       DEF PutEntry, CacheStep, Putting, SaveCacheEntry, Writable, Statuses,
           Rows, Calls, Held
<1>4. Dropped'
    BY ArtifactFacts, CallFacts
       DEF PutEntry, CacheStep, Putting, SaveCacheEntry, Writable, Statuses,
           Rows, Calls, Dropped
<1> QED
    BY <1>1, <1>2, <1>3, <1>4

\* A failed entry cleans up only what is new, and so not held.
LEMMA PutEntryFails_Cache ==
    ASSUME CacheInv, PutEntryFails
    PROVE CacheInv'
<1> USE DEF CacheInv
<1>1. Rows'
    BY ArtifactFacts, CallFacts
       DEF PutEntryFails, CacheStep, Putting, Puts, Rows, Calls, Statuses
<1>2. Calls'
    BY ArtifactFacts, CallFacts
       DEF PutEntryFails, CacheStep, Putting, Puts, Rows, Calls
<1>3. Held'
    BY ArtifactFacts, CallFacts
       DEF PutEntryFails, CacheStep, Putting, Puts, Rows, Calls, Held
<1>4. Dropped'
    BY ArtifactFacts, CallFacts
       DEF PutEntryFails, CacheStep, Putting, Puts, Rows, Calls, Dropped
<1> QED
    BY <1>1, <1>2, <1>3, <1>4

\* The clean-up deletes the blob of a new artifact.
LEMMA PutClean_Cache ==
    ASSUME CacheInv, PutClean
    PROVE CacheInv'
<1> USE DEF CacheInv
<1>1. Rows'
    BY ArtifactFacts, CallFacts
       DEF PutClean, CacheStep, Putting, DeleteCacheBlob, Puts, Rows, Calls,
           Statuses
<1>2. Calls'
    BY ArtifactFacts, CallFacts
       DEF PutClean, CacheStep, Putting, DeleteCacheBlob, Puts, Rows, Calls
<1>3. Held'
    BY ArtifactFacts, CallFacts
       DEF PutClean, CacheStep, Putting, DeleteCacheBlob, Puts, Rows, Calls,
           Held
<1>4. Dropped'
    BY ArtifactFacts, CallFacts
       DEF PutClean, CacheStep, Putting, DeleteCacheBlob, Puts, Rows, Calls,
           Dropped
<1> QED
    BY <1>1, <1>2, <1>3, <1>4

\* Deleting the blob of an invalidation.
LEMMA InvalidateBlob_Cache ==
    ASSUME CacheInv, InvalidateBlob
    PROVE CacheInv'
<1> USE DEF CacheInv
<1>1. Rows'
    BY ArtifactFacts, CallFacts
       DEF InvalidateBlob, CacheStep, Invalidating, DeleteCacheBlob,
           Invalidations, Rows, Calls, Statuses
<1>2. Calls'
    BY ArtifactFacts, CallFacts
       DEF InvalidateBlob, CacheStep, Invalidating, DeleteCacheBlob,
           Invalidations, Rows, Calls
<1>3. Held'
    BY ArtifactFacts, CallFacts
       DEF InvalidateBlob, CacheStep, Invalidating, DeleteCacheBlob,
           Invalidations, Rows, Calls, Held
<1>4. Dropped'
    BY ArtifactFacts, CallFacts
       DEF InvalidateBlob, CacheStep, Invalidating, DeleteCacheBlob,
           Invalidations, Rows, Calls, Dropped
<1> QED
    BY <1>1, <1>2, <1>3, <1>4

\* Marking the entry of an invalidation.
LEMMA InvalidateEntry_Cache ==
    ASSUME CacheInv, InvalidateEntry
    PROVE CacheInv'
<1> USE DEF CacheInv
<1>1. Rows'
    BY ArtifactFacts, CallFacts
       DEF InvalidateEntry, CacheStep, Invalidating, SaveCacheEntry, Writable,
           Rows, Calls, Statuses
<1>2. Calls'
    BY ArtifactFacts, CallFacts
       DEF InvalidateEntry, CacheStep, Invalidating, SaveCacheEntry, Writable,
           Statuses, Rows, Calls
<1>3. Held'
    BY ArtifactFacts, CallFacts
       DEF InvalidateEntry, CacheStep, Invalidating, SaveCacheEntry, Writable,
           Statuses, Rows, Calls, Held
<1>4. Dropped'
    BY ArtifactFacts, CallFacts
       DEF InvalidateEntry, CacheStep, Invalidating, SaveCacheEntry, Writable,
           Statuses, Rows, Calls, Dropped
<1> QED
    BY <1>1, <1>2, <1>3, <1>4

\* A step of the start that does not touch the cache.
LEMMA Idle_Cache ==
    ASSUME CacheInv, phase # "up", phase' # "up", phase' \in {"seed", "hydrate"},
           UNCHANGED <<faults, artifactRows, entryRows, blobRows, entries, blobs, call, answer,
                       held, dropped>>
    PROVE CacheInv'
BY DEF CacheInv, Rows, Calls, Held, Dropped

\* Every step of the server is one of the shared infrastructure or leaves it
\* alone.
LEMMA SharedSteps ==
    ASSUME [Next]_vars
    PROVE \/ Boot \/ LoadTools \/ Seeded \/ Hydrate \/ SharedCrash
          \/ \E t \in Tools : SeedRow(t)
          \/ \E a \in Artifacts : Lookup(a) \/ Put(a) \/ Invalidate(a) \/ SaveArtifact(a)
          \/ Touch \/ PutBlob \/ PutEntry \/ PutEntryFails \/ PutClean
          \/ InvalidateBlob \/ InvalidateEntry
          \/ \E i \in IDs : Rot(i)
          \/ UNCHANGED sharedVars
BY DEF Next, vars, Crash, SharedNext, ResolveRequirement

\* CacheInv is inductive.
LEMMA CacheInv_Step == CacheInv /\ [Next]_vars => CacheInv'
<1> SUFFICES ASSUME CacheInv, [Next]_vars PROVE CacheInv'
    OBVIOUS
<1>1. CASE LoadTools \/ Seeded \/ \E t \in Tools : SeedRow(t)
    BY <1>1, Idle_Cache DEF LoadTools, Seeded, SeedRow, rowVars
<1>2. CASE UNCHANGED sharedVars
    BY <1>2 DEF sharedVars, rowVars, CacheInv, Rows, Calls, Held, Dropped
<1> QED
    BY SharedSteps, <1>1, <1>2, Boot_Cache, Hydrate_Cache, SharedCrash_Cache, Lookup_Cache,
       Put_Cache, Invalidate_Cache, SaveArtifact_Cache, Rot_Cache, Touch_Cache, PutBlob_Cache,
       PutEntry_Cache, PutEntryFails_Cache, PutClean_Cache, InvalidateBlob_Cache,
       InvalidateEntry_Cache

\* CacheInv holds of every behaviour.
LEMMA CacheInvariance == Spec => []CacheInv
<1>1. Init => CacheInv
    BY SharedInit_Cache DEF Init
<1> QED
    BY <1>1, CacheInv_Step, PTL DEF Spec

\* For any artifacts, whatever statements fail, blobs rot and wherever the
\* server stops: no look-up of Cache answers HIT without the content, what was
\* put is found again, and what was invalidated is not.
THEOREM CacheAnswers == Spec => []CacheSound
<1>1. CacheInv => CacheSound
    <2> SUFFICES ASSUME CacheInv PROVE CacheSound
        OBVIOUS
    <2>1. NoFalseHit
        BY DEF CacheInv, Calls, NoFalseHit
    <2>2. PutIsFound
        BY DEF CacheInv, Rows, Held, PutIsFound, Found, HasBytes
    <2>3. InvalidStays
        BY DEF CacheInv, Rows, Dropped, InvalidStays, Found, HasBytes
    <2> QED
        BY <2>1, <2>2, <2>3 DEF CacheSound
<1> QED
    BY <1>1, CacheInvariance, PTL

-----------------------------------------------------------------------------
\* Lemmas about the tools.

\* ORDER BY version: the places of the elements in a finite set of numbers are
\* 1 to its size, and tell the elements apart.
LEMMA Ranks ==
    ASSUME NEW S \in SUBSET Nat, IsFiniteSet(S)
    PROVE  LET rank(v) == Cardinality({u \in S : u < v}) IN
           /\ Cardinality(S) \in Nat
           /\ \A v \in S : rank(v) + 1 \in 1..Cardinality(S)
           /\ \A v, w \in S : rank(v) = rank(w) => v = w
           /\ \A k \in 1..Cardinality(S) : \E v \in S : rank(v) = k - 1
<1> DEFINE below(v) == {u \in S : u < v}
<1> DEFINE n == Cardinality(S)
<1>1. n \in Nat
    BY FS_CardinalityType
<1>2. ASSUME NEW v \in S
      PROVE  IsFiniteSet(below(v)) /\ Cardinality(below(v)) \in Nat /\ Cardinality(below(v)) < n
    <2>1. below(v) \in SUBSET S /\ v \notin below(v)
        OBVIOUS
    <2>2. /\ IsFiniteSet(below(v)) /\ Cardinality(below(v)) <= n
          /\ n = Cardinality(below(v)) => S = below(v)
        BY <2>1, FS_Subset
    <2>3. Cardinality(below(v)) \in Nat
        BY <2>2, FS_CardinalityType
    <2> HIDE DEF below, n
    <2> QED
        BY <1>1, <2>1, <2>2, <2>3
<1>3. ASSUME NEW v \in S, NEW w \in S, v < w
      PROVE  Cardinality(below(v)) # Cardinality(below(w))
    <2>0. \A u \in S : u \in Nat /\ (u < v => u < w)
        BY <1>3
    <2>1. below(v) \in SUBSET below(w) /\ v \in below(w) /\ v \notin below(v)
        <3>1. v \in below(w) /\ v \notin below(v)
            BY <1>3
        <3>2. \A u \in below(v) : u \in below(w)
            BY <2>0
        <3> HIDE DEF below
        <3> QED
            BY <3>1, <3>2
    <2>2. IsFiniteSet(below(w))
        BY <1>2
    <2>3. Cardinality(below(w)) = Cardinality(below(v)) => below(w) = below(v)
        BY <2>1, <2>2, FS_Subset
    <2> HIDE DEF below
    <2> QED
        BY <2>1, <2>3
<1>4. \A v, w \in S : Cardinality(below(v)) = Cardinality(below(w)) => v = w
    <2> SUFFICES ASSUME NEW v \in S, NEW w \in S, v # w
                 PROVE  Cardinality(below(v)) # Cardinality(below(w))
        OBVIOUS
    <2>1. v < w \/ w < v
        OBVIOUS
    <2> HIDE DEF below
    <2> QED
        BY <1>3, <2>1
<1> DEFINE places == 0..(n - 1)
<1> DEFINE f == [v \in S |-> Cardinality(below(v))]
<1>5. f \in Injection(S, places)
    <2>1. \A v \in S : Cardinality(below(v)) \in places
        <3> HIDE DEF below, n
        <3> QED
            BY <1>1, <1>2
    <2> HIDE DEF below, places
    <2>2. f \in [S -> places] /\ \A v \in S : f[v] = Cardinality(below(v))
        BY <2>1
    <2> HIDE DEF f
    <2> QED
        BY <1>4, <2>2 DEF Injection, IsInjective
<1>6. IsFiniteSet(places) /\ Cardinality(places) = n
    <2> HIDE DEF n
    <2> QED
        BY <1>1, FS_Interval
<1>7. f \in Surjection(S, places)
    <2> HIDE DEF f, places
    <2> QED
        BY <1>5, <1>6, FS_Injection
<1>8. \A k \in 1..n : \E v \in S : Cardinality(below(v)) = k - 1
    <2> SUFFICES ASSUME NEW k \in 1..n PROVE \E v \in S : Cardinality(below(v)) = k - 1
        OBVIOUS
    <2>1. k - 1 \in places
        <3> HIDE DEF n
        <3> QED
            BY <1>1
    <2> HIDE DEF below, n, places
    <2> QED
        BY <1>7, <2>1 DEF Surjection
<1> HIDE DEF n
<1>9. \A v \in S : Cardinality(below(v)) + 1 \in 1..n
    <2> HIDE DEF below
    <2> QED
        BY <1>1, <1>2
<1> QED
    BY <1>1, <1>4, <1>8, <1>9 DEF n

\* A set of numbers that is not empty has a least one.
LEMMA LeastNumber ==
    ASSUME NEW S \in SUBSET Nat, S # {}
    PROVE  \E i \in S : \A j \in S : i <= j
<1>1. PICK i \in S : \A j \in S : ~ (<<j, i>> \in OpToRel(<, Nat))
    BY NatLessThanWellFounded, WFMin
<1>2. \A j \in S : ~ (j < i)
    BY <1>1 DEF OpToRel
<1> QED
    BY <1>2

\* A tool has finitely many versions.
LEMMA VersionFacts ==
    ASSUME NEW t \in Tools
    PROVE  /\ Versions[t] \in Seq(Nat) /\ Len(Versions[t]) \in Nat
           /\ DOMAIN Versions[t] = 1..Len(Versions[t])
           /\ VersionsOf(t) \in SUBSET Nat /\ IsFiniteSet(VersionsOf(t))
           /\ \A saved \in SUBSET VersionsOf(t) : saved # Absent
<1>1. Versions[t] \in Seq(Nat) /\ \A saved \in SUBSET VersionsOf(t) : saved # Absent
    BY VersionsAssumption, AbsentAssumption
<1>2. /\ Len(Versions[t]) \in Nat /\ DOMAIN Versions[t] = 1..Len(Versions[t])
      /\ \A k \in 1..Len(Versions[t]) : Versions[t][k] \in Nat
    BY <1>1
<1>3. VersionsOf(t) \in SUBSET Nat
    BY <1>2 DEF VersionsOf
<1>4. Versions[t] \in Surjection(1..Len(Versions[t]), VersionsOf(t))
    BY <1>1, <1>2 DEF Surjection, VersionsOf
<1>5. IsFiniteSet(1..Len(Versions[t]))
    BY <1>2, FS_Interval
<1>6. IsFiniteSet(VersionsOf(t))
    BY <1>4, <1>5, FS_Surjection
<1> QED
    BY <1>1, <1>2, <1>3, <1>6

\* DefaultRegistry has every version of a tool.
LEMMA DefaultToolFacts ==
    ASSUME NEW t \in Tools
    PROVE  /\ DefaultTool(t) \in Seq([version : VersionsOf(t), sum : Sums \cup {Absent}])
           /\ VersionsOf(t) = {DefaultTool(t)[k].version : k \in DOMAIN DefaultTool(t)}
<1> DEFINE n == Len(Versions[t])
<1>1. n \in Nat /\ DOMAIN Versions[t] = 1..n
    BY VersionFacts
<1>2. DefaultTool(t) = [k \in 1..n |-> [version |-> Versions[t][k], sum |-> Absent]]
    BY DEF DefaultTool
<1>3. \A k \in 1..n : Versions[t][k] \in VersionsOf(t)
    BY <1>1 DEF VersionsOf
<1> HIDE DEF n
<1>4. DefaultTool(t) \in Seq([version : VersionsOf(t), sum : Sums \cup {Absent}])
    BY <1>1, <1>2, <1>3
<1>5. /\ DOMAIN DefaultTool(t) = 1..n
      /\ \A k \in 1..n : DefaultTool(t)[k].version = Versions[t][k]
    BY <1>2
<1> QED
    BY <1>1, <1>4, <1>5 DEF VersionsOf

\* LoadTools gives a tool the versions it read, and only those.
LEMMA LoadedToolFacts ==
    ASSUME NEW t \in Tools, NEW S \in SUBSET VersionsOf(t), NEW lost, Rows
    PROVE  /\ LoadedTool(t, S, lost) \in Seq([version : VersionsOf(t), sum : Sums \cup {Absent}])
           /\ S \subseteq {LoadedTool(t, S, lost)[k].version : k \in DOMAIN LoadedTool(t, S, lost)}
<1> DEFINE rank(v) == Cardinality({u \in S : u < v})
<1> DEFINE nth(k) == CHOOSE v \in S : rank(v) = k - 1
<1> DEFINE n == Cardinality(S)
<1>1. S \in SUBSET Nat /\ IsFiniteSet(S)
    BY VersionFacts, FS_Subset
<1>2. /\ n \in Nat
      /\ \A v \in S : rank(v) + 1 \in 1..n
      /\ \A v, w \in S : rank(v) = rank(w) => v = w
      /\ \A k \in 1..n : \E v \in S : rank(v) = k - 1
    BY <1>1, Ranks
<1>3. LoadedTool(t, S, lost) = [k \in 1..n |-> [version |-> nth(k), sum |-> LoadArtifact(t, nth(k), lost)]]
    BY DEF LoadedTool
<1>a. \A v \in S : rank(v) \in Int
    BY <1>1, FS_Subset, FS_CardinalityType
<1> HIDE DEF n, rank
<1>4. \A k \in 1..n : nth(k) \in S /\ rank(nth(k)) = k - 1
    BY <1>2
<1>5. \A v \in S : nth(rank(v) + 1) = v
    BY <1>2, <1>4, <1>a
<1> HIDE DEF nth
<1>6. \A v : LoadArtifact(t, v, lost) \in Sums \cup {Absent}
    BY DEF LoadArtifact, Rows
<1>7. S \subseteq VersionsOf(t)
    OBVIOUS
<1>8. LoadedTool(t, S, lost) \in Seq([version : VersionsOf(t), sum : Sums \cup {Absent}])
    BY <1>2, <1>3, <1>4, <1>6, <1>7
<1>9. ASSUME NEW v \in S
      PROVE  v \in {LoadedTool(t, S, lost)[k].version : k \in DOMAIN LoadedTool(t, S, lost)}
    <2>1. rank(v) + 1 \in 1..n /\ nth(rank(v) + 1) = v
        BY <1>2, <1>5
    <2> DEFINE k == rank(v) + 1
    <2> HIDE DEF k
    <2>2. k \in DOMAIN LoadedTool(t, S, lost) /\ LoadedTool(t, S, lost)[k].version = v
        BY <1>3, <2>1 DEF k
    <2> QED
        BY <2>2
<1> QED
    BY <1>8, <1>9

\* No tool is loaded or seeded yet.
LEMMA SharedInit_Tools == SharedInit => ToolInv
<1> SUFFICES ASSUME SharedInit PROVE ToolInv
    OBVIOUS
<1>1. Seeds
    BY DEF SharedInit, Seeds, NothingToSeed
<1>2. \A t \in Tools : <<>> \in Seq([version : VersionsOf(t), sum : Sums \cup {Absent}])
    OBVIOUS
<1>3. Registers
    BY <1>2 DEF SharedInit, Registers
<1> QED
    BY <1>1, <1>3 DEF ToolInv

\* A start begins with the default registry.
LEMMA Boot_Tools ==
    ASSUME ToolInv, Boot
    PROVE ToolInv'
<1>1. Seeds'
    BY DEF ToolInv, Seeds, Boot, rowVars
<1>2. Registers'
    BY DefaultToolFacts DEF Registers, Boot
<1> QED
    BY <1>1, <1>2 DEF ToolInv

\* Loading gives the registry the rows of the tools that have some, and leaves
\* the others the default; without any row all of them are to be seeded.
LEMMA LoadTools_Tools ==
    ASSUME ToolInv, Rows, LoadTools
    PROVE ToolInv'
<1> USE DEF ToolInv
<1>1. CASE \A t \in Tools : toolRows[t] = Absent
    <2>1. /\ phase = "load" /\ phase' = "seed"
          /\ seeding' = [t \in Tools |-> StatementsOf(t)]
          /\ UNCHANGED <<registry, toolRows, cut, short>>
        BY <1>1 DEF LoadTools, rowVars
    <2>2. \A t \in Tools : StatementsOf(t) \in Nat /\ StatementsOf(t) = 1 + Len(Versions[t])
                           /\ DOMAIN Versions[t] \subseteq Nat /\ Len(Versions[t]) \in Nat
        BY VersionFacts DEF StatementsOf
    <2>3. Seeds'
        <3>1. \A t \in Tools : /\ seeding'[t] = 1 + Len(Versions[t]) /\ seeding'[t] # 0
                               /\ seeding'[t] = StatementsOf(t) /\ seeding'[t] <= StatementsOf(t)
                               /\ \A k \in DOMAIN Versions[t] :
                                     ~ (k + seeding'[t] <= Len(Versions[t]))
            BY <2>1, <2>2
        <3>2. seeding' \in [Tools -> Nat]
            BY <2>1, <2>2
        <3> QED
            BY <1>1, <2>1, <3>1, <3>2 DEF Seeds, StatementsOf
    <2>4. Registers'
        BY <2>1 DEF Registers, DefaultTool
    <2> QED
        BY <2>3, <2>4
<1>2. CASE ~ \A t \in Tools : toolRows[t] = Absent
    <2> DEFINE loaded == {t \in Tools : toolRows[t] # Absent}
    <2>1. PICK read \in [loaded -> SUBSET UNION {VersionsOf(t) : t \in Tools}], lost \in SUBSET IDs :
            /\ \A t \in loaded : read[t] \in Readable(t)
            /\ phase' = "hydrate" /\ registry' = LoadedRegistry(read, lost)
            /\ short' = {t \in loaded : read[t] # toolRows[t]}
            /\ UNCHANGED seeding
        BY <1>2 DEF LoadTools
    <2>0. phase = "load" /\ UNCHANGED <<toolRows, cut>>
        BY DEF LoadTools, rowVars
    <2>2. Seeds'
        BY <2>0, <2>1 DEF Seeds
    <2>3. ASSUME NEW t \in Tools
          PROVE  /\ registry'[t] \in Seq([version : VersionsOf(t), sum : Sums \cup {Absent}])
                 /\ t \notin cut \cup short' => VersionsOf(t) \subseteq Registered(t)'
        <3>1. CASE toolRows[t] = Absent
            <4>1. registry'[t] = DefaultTool(t)
                BY <2>0, <2>1, <3>1 DEF LoadedRegistry, Registers
            <4> QED
                BY <4>1, DefaultToolFacts DEF Registered
        <3>2. CASE toolRows[t] # Absent
            <4>0. registry'[t] = LoadedTool(t, read[t], lost)
                BY <2>1, <3>2 DEF LoadedRegistry
            <4>1. read[t] \in SUBSET toolRows[t] /\ toolRows[t] \in SUBSET VersionsOf(t)
                BY <2>1, <3>2 DEF Seeds, Readable
            <4>2. t \notin cut \cup short' => VersionsOf(t) \subseteq read[t]
                BY <2>0, <2>1, <3>2 DEF Seeds
            <4>3. read[t] \in SUBSET VersionsOf(t)
                BY <4>1
            <4>4. /\ registry'[t] \in Seq([version : VersionsOf(t), sum : Sums \cup {Absent}])
                  /\ read[t] \subseteq {registry'[t][k].version : k \in DOMAIN registry'[t]}
                <5> DEFINE S == read[t]
                <5> HIDE DEF S
                <5>1. S \in SUBSET VersionsOf(t)
                    BY <4>3 DEF S
                <5>2. /\ LoadedTool(t, S, lost) \in Seq([version : VersionsOf(t), sum : Sums \cup {Absent}])
                      /\ S \subseteq {LoadedTool(t, S, lost)[k].version : k \in DOMAIN LoadedTool(t, S, lost)}
                    BY <5>1, LoadedToolFacts
                <5>3. registry'[t] = LoadedTool(t, S, lost)
                    BY <4>0 DEF S
                <5> QED
                    BY <5>2, <5>3 DEF S
            <4> QED
                BY <4>2, <4>4 DEF Registered
        <3> QED
            BY <3>1, <3>2
    <2>4. registry' = [t \in Tools |-> registry'[t]]
        BY <2>1 DEF LoadedRegistry
    <2>5. Registers'
        BY <2>0, <2>1, <2>3, <2>4 DEF Registers, Registered
    <2> QED
        BY <2>2, <2>5
<1> QED
    BY <1>1, <1>2

\* A statement of the seed adds the next version.
LEMMA SeedRow_Tools ==
    ASSUME ToolInv, NEW t \in Tools, SeedRow(t)
    PROVE ToolInv'
<1> DEFINE n == Len(Versions[t])
<1> DEFINE done == StatementsOf(t) - seeding[t]
<1> DEFINE found == IF done = 0 THEN {} ELSE toolRows[t] \cup {Versions[t][done]}
<1> USE DEF ToolInv
<1>1. /\ phase = "seed" /\ seeding[t] > 0
      /\ toolRows' = [toolRows EXCEPT ![t] = found]
      /\ seeding' = [seeding EXCEPT ![t] = seeding[t] - 1]
      /\ UNCHANGED <<phase, cut, short, registry>>
    BY DEF SeedRow
<1>2. /\ n \in Nat /\ seeding[t] \in Nat /\ seeding[t] <= n + 1 /\ done \in 0..n
      /\ done = n + 1 - seeding[t] /\ StatementsOf(t) = n + 1
      /\ DOMAIN Versions[t] = 1..n
      /\ toolRows[t] = Absent <=> done = 0
      /\ toolRows[t] \in (SUBSET VersionsOf(t)) \cup {Absent}
      /\ \A k \in 1..n : k + seeding[t] <= n => Versions[t][k] \in toolRows[t]
    BY <1>1, VersionFacts DEF Seeds, StatementsOf
<1>3. found \in SUBSET VersionsOf(t)
    <2>1. CASE done = 0
        BY <2>1
    <2>2. CASE done # 0
        <3>1. done \in 1..n
            BY <1>2, <2>2
        <3> HIDE DEF done
        <3>2. Versions[t][done] \in VersionsOf(t) /\ toolRows[t] \in SUBSET VersionsOf(t)
            BY <1>2, <2>2, <3>1 DEF VersionsOf
        <3> QED
            BY <2>2, <3>2
    <2> QED
        BY <2>1, <2>2
<1>4. found # Absent
    BY <1>3, VersionFacts
<1>5. ASSUME NEW k \in 1..n, k + (seeding[t] - 1) <= n PROVE Versions[t][k] \in found
    <2>1. done # 0 /\ (k = done \/ k + seeding[t] <= n)
        BY <1>2, <1>5
    <2> HIDE DEF done
    <2> QED
        BY <1>2, <2>1
<1>6. seeding[t] - 1 = 0 => VersionsOf(t) \subseteq found
    <2> SUFFICES ASSUME seeding[t] = 1, NEW k \in 1..n PROVE Versions[t][k] \in found
        BY <1>1, <1>2 DEF VersionsOf
    <2> QED
        BY <1>2, <1>5
<1> HIDE DEF found
<1>7. toolRows'[t] = found /\ seeding'[t] = seeding[t] - 1
      /\ \A u \in Tools : u # t => toolRows'[u] = toolRows[u] /\ seeding'[u] = seeding[u]
    BY <1>1 DEF Seeds
<1>8. seeding' \in [Tools -> Nat] /\ toolRows' = [u \in Tools |-> toolRows'[u]] /\ cut' \subseteq Tools
      /\ short' \subseteq Tools
    <2>1. seeding[t] - 1 \in Nat
        BY <1>1, <1>2
    <2> QED
        BY <1>1, <2>1 DEF Seeds
<1> DEFINE Good(u) ==
      /\ toolRows'[u] \in (SUBSET VersionsOf(u)) \cup {Absent}
      /\ u \notin cut /\ seeding'[u] = 0 /\ toolRows'[u] # Absent =>
           VersionsOf(u) \subseteq toolRows'[u]
      /\ seeding'[u] <= StatementsOf(u)
      /\ toolRows'[u] = Absent <=> seeding'[u] = StatementsOf(u)
      /\ \A k \in DOMAIN Versions[u] :
           k + seeding'[u] <= Len(Versions[u]) => Versions[u][k] \in toolRows'[u]
<1>9. Good(t)
    BY <1>2, <1>3, <1>4, <1>5, <1>6, <1>7
<1>10. ASSUME NEW u \in Tools, u # t PROVE Good(u)
    BY <1>1, <1>7, <1>10 DEF Seeds
<1>11. Seeds'
    <2>1. \A u \in Tools : Good(u)
        BY <1>9, <1>10
    <2> QED
        BY <1>1, <1>8, <2>1 DEF Seeds, StatementsOf, VersionsOf
<1>12. Registers'
    BY <1>1 DEF Registers, DefaultTool, Registered
<1> QED
    BY <1>11, <1>12

\* When every statement is done the registry is still the default.
LEMMA Seeded_Tools ==
    ASSUME ToolInv, Seeded
    PROVE ToolInv'
<1>1. /\ phase = "seed" /\ phase' = "hydrate" /\ \A t \in Tools : seeding[t] = 0
      /\ UNCHANGED <<toolRows, seeding, cut, short, registry>>
    BY DEF Seeded, NothingToSeed, rowVars
<1>2. Seeds'
    BY <1>1 DEF ToolInv, Seeds
<1>3. Registers'
    <2>1. \A t \in Tools : registry'[t] = DefaultTool(t)
        BY <1>1 DEF ToolInv, Registers
    <2>2. \A t \in Tools : VersionsOf(t) \subseteq Registered(t)'
        BY <2>1, DefaultToolFacts DEF Registered
    <2> QED
        BY <1>1, <2>2 DEF ToolInv, Registers
<1> QED
    BY <1>2, <1>3 DEF ToolInv

\* A stop remembers the tools whose statements were not all done.
LEMMA SharedCrash_Tools ==
    ASSUME ToolInv, SharedCrash
    PROVE ToolInv'
<1>1. /\ phase' = "off" /\ seeding' = [t \in Tools |-> 0]
      /\ cut' = cut \cup {t \in Tools : toolRows[t] # Absent /\ seeding[t] > 0}
      /\ registry' = [t \in Tools |-> <<>>] /\ short' = {}
      /\ UNCHANGED toolRows
    BY DEF SharedCrash, NothingToSeed, rowVars
<1>2. Seeds'
    BY <1>1 DEF ToolInv, Seeds
<1>3. \A t \in Tools : <<>> \in Seq([version : VersionsOf(t), sum : Sums \cup {Absent}])
    OBVIOUS
<1>4. Registers'
    BY <1>1, <1>3 DEF Registers
<1> QED
    BY <1>2, <1>4 DEF ToolInv

\* A step that changes neither the rows of the tools nor the registry.
LEMMA Other_Tools ==
    ASSUME ToolInv, UNCHANGED <<toolRows, seeding, cut, short, registry>>,
           phase' = phase \/ (phase = "hydrate" /\ phase' = "up")
    PROVE ToolInv'
<1>1. (phase' = "seed" <=> phase = "seed") /\ (phase' \in {"hydrate", "up"} <=> phase \in {"hydrate", "up"})
      /\ (phase' \in {"load", "seed"} <=> phase \in {"load", "seed"})
    OBVIOUS
<1>2. Seeds'
    BY <1>1 DEF ToolInv, Seeds
<1>3. Registers'
    <2>1. \A t \in Tools : Registered(t)' = Registered(t)
        BY DEF Registered
    <2> QED BY <1>1, <2>1 DEF ToolInv, Registers
<1> QED BY <1>2, <1>3 DEF ToolInv

\* ToolInv is inductive.
LEMMA ToolInv_Step == ToolInv /\ CacheInv /\ [Next]_vars => ToolInv'
<1> SUFFICES ASSUME ToolInv, Rows, [Next]_vars PROVE ToolInv'
    BY DEF CacheInv
<1>1. CASE Hydrate
    BY <1>1, Other_Tools DEF Hydrate, rowVars
<1>2. CASE \E a \in Artifacts : Lookup(a) \/ Put(a) \/ Invalidate(a) \/ SaveArtifact(a)
    BY <1>2, Other_Tools DEF Lookup, Put, Invalidate, SaveArtifact, CacheStep
<1>3. CASE \/ Touch \/ PutBlob \/ PutEntry \/ PutEntryFails \/ PutClean
           \/ InvalidateBlob \/ InvalidateEntry
    BY <1>3, Other_Tools DEF Touch, PutBlob, PutEntry, PutEntryFails, PutClean,
                             InvalidateBlob, InvalidateEntry, CacheStep
<1>4. CASE \E i \in IDs : Rot(i)
    BY <1>4, Other_Tools DEF Rot
<1>5. CASE UNCHANGED sharedVars
    BY <1>5, Other_Tools DEF sharedVars, rowVars
<1> QED
    BY SharedSteps, <1>1, <1>2, <1>3, <1>4, <1>5, Boot_Tools, LoadTools_Tools, SeedRow_Tools,
       Seeded_Tools, SharedCrash_Tools

\* ToolInv holds of every behaviour.
LEMMA ToolInvariance == Spec => []ToolInv
<1>1. Init => ToolInv
    BY SharedInit_Tools DEF Init
<1> QED
    BY <1>1, ToolInv_Step, CacheInvariance, PTL DEF Spec

\* For any tools and versions, and wherever earlier starts were cut short: a
\* running server resolves every version of every tool of DefaultRegistry but
\* those of a tool whose own rows were being written at a stop or whose versions
\* query broke off at this start.
THEOREM ToolsAreResolved == Spec => []ToolsResolve
<1>1. ToolInv => ToolsResolve
    <2> SUFFICES ASSUME ToolInv, phase = "up", NEW t \in Tools \ (cut \cup short), NEW v \in VersionsOf(t)
                 PROVE  \E r \in Resolve(t, {v}) : r.version = v
        BY DEF ToolsResolve
    <2> DEFINE matching == {k \in DOMAIN registry[t] : registry[t][k].version \in {v}}
    <2>0. /\ v \in Registered(t)
          /\ registry[t] \in Seq([version : VersionsOf(t), sum : Sums \cup {Absent}])
        BY DEF ToolInv, Registers
    <2>1. matching # {} /\ matching \in SUBSET Nat
        BY <2>0 DEF Registered
    <2>2. PICK i \in matching : \A j \in matching : i <= j
        <3> HIDE DEF matching
        <3> QED
            BY <2>1, LeastNumber
    <2>3. registry[t][i] \in Resolve(t, {v}) /\ registry[t][i].version = v
        BY <2>2 DEF Resolve
    <2> QED
        BY <2>3
<1> QED
    BY <1>1, ToolInvariance, PTL

-----------------------------------------------------------------------------
\* The types of the port registry.
PortTypes ==
    /\ part \in Parts /\ released \in BOOLEAN /\ misled \in BOOLEAN
    /\ \A p \in Endpoints :
         /\ ports[p] \in PortRows \cup {None}
         /\ recorded[p] \in BindingIDs \cup {None}
    /\ \A w \in PortWorkers : reserving[w] # None => reserving[w].row \in PortRows \cup {None}
    /\ granted \in [id : BindingIDs, project : Projects, port : Endpoints, fresh : BOOLEAN]
                   \cup {None}

\* Every step keeps the types of the port registry.
LEMMA PortTypes_Step == PortTypes /\ PortInv /\ [Next]_vars => PortTypes'
<1> SUFFICES ASSUME PortTypes, PortInv, [Next]_vars PROVE PortTypes'
    OBVIOUS
<1>0. part' = part
    BY DEF Next, vars, Crash
<1>1. \A b \in Bindings : /\ BindingID(b) \in BindingIDs /\ b.project \in Projects
                          /\ b.port \in Endpoints
    BY BindingsAssumption DEF BindingIDs, Projects
<1>2. \A w \in PortWorkers : reserving[w] # None => reserving[w].b \in Bindings
    BY DEF PortInv, Requesting
<1>3. ASSUME NEW w \in PortWorkers, NEW b \in Bindings, Reserve(w, b) PROVE PortTypes'
    <2>1. PICK told \in BOOLEAN :
            reserving' = [reserving EXCEPT ![w] =
                            [at |-> "insert", b |-> b, told |-> told, row |-> ports[b.port]]]
        BY <1>3 DEF Reserve
    <2>2. \A v \in PortWorkers : reserving'[v] # None => reserving'[v].row \in PortRows \cup {None}
        BY <1>1, <2>1 DEF PortTypes, PortInv, Requesting
    <2> QED
        BY <1>0, <1>3, <2>2 DEF PortTypes, Reserve
<1>4. ASSUME NEW w \in PortWorkers, Insert(w) \/ InsertFails(w) PROVE PortTypes'
    <2> DEFINE r == reserving[w]
    <2> DEFINE b == reserving[w].b
    <2>1. /\ b \in Bindings /\ RowOf(b) \in PortRows /\ r.told \in BOOLEAN
          /\ [id |-> BindingID(b), project |-> b.project, port |-> b.port,
              fresh |-> r.told /\ ports[b.port] = r.row]
               \in [id : BindingIDs, project : Projects, port : Endpoints, fresh : BOOLEAN]
        BY <1>1, <1>2, <1>4 DEF Insert, InsertFails, RowOf, PortRows, PortInv, Requesting
    <2>2. /\ UNCHANGED <<recorded, released>> /\ misled' \in BOOLEAN
          /\ ports' = ports \/ ports' = [ports EXCEPT ![b.port] = RowOf(b)]
          /\ granted' = None
             \/ granted' = [id |-> BindingID(b), project |-> b.project, port |-> b.port,
                            fresh |-> r.told /\ ports[b.port] = r.row]
          /\ reserving' = [reserving EXCEPT ![w].at = "save"]
             \/ reserving' = [reserving EXCEPT ![w] = None]
        BY <1>4 DEF Insert, InsertFails, Upsert, PortTypes
    <2>3. \A v \in PortWorkers : reserving'[v] # None => reserving'[v].row \in PortRows \cup {None}
        BY <1>4, <2>2 DEF PortTypes, PortInv, Requesting, Insert, InsertFails
    <2>4. \A p \in Endpoints : ports'[p] \in PortRows \cup {None}
        BY <2>1, <2>2 DEF PortTypes, PortInv, RowsNamed
    <2> HIDE DEF b, r
    <2> QED
        BY <1>0, <2>1, <2>2, <2>3, <2>4 DEF PortTypes
<1>5. ASSUME NEW w \in PortWorkers, SavePort(w) PROVE PortTypes'
    <2>1. BindingID(reserving[w].b) \in BindingIDs
        BY <1>1, <1>2, <1>5 DEF SavePort
    <2> QED
        BY <1>0, <1>5, <2>1 DEF PortTypes, SavePort, PortInv, Recording, Requesting
<1>6. ASSUME NEW p \in Endpoints, Release(p) PROVE PortTypes'
    BY <1>0, <1>6 DEF PortTypes, Release, PortInv, RowsNamed
<1>7. CASE PortsCrash
    BY <1>0, <1>7 DEF PortTypes, PortsCrash
<1>8. CASE UNCHANGED portVars
    BY <1>0, <1>8 DEF PortTypes, portVars
<1> QED
    BY PortSteps, <1>3, <1>4, <1>5, <1>6, <1>7, <1>8

\* The state of both parts is well formed; who is told RESERVED after a look-up
\* that still holds has the port, and both port tables agree until somebody is
\* told so without.
THEOREM PortsAreSound == Spec => []PortsSound
<1>1. Init => PortTypes
    BY DEF Init, PortInit, PortTypes
<1>2. PortTypes /\ PortInv /\ CacheInv /\ ToolInv => PortsSound
    <2> SUFFICES ASSUME PortTypes, PortInv, CacheInv, ToolInv PROVE PortsSound
        OBVIOUS
    <2>1. \A w \in PortWorkers :
            reserving[w] \in [at : {"insert", "save"}, b : Bindings, told : BOOLEAN,
                              row : PortRows \cup {None}] \cup {None}
        BY DEF PortInv, Requesting, PortTypes
    <2>2. /\ phase \in {"off", "load", "seed", "hydrate", "up"} /\ faults \in BOOLEAN
          /\ call # Absent => phase = "up" /\ call.a \in Artifacts
        BY CallFacts DEF CacheInv, Calls
    <2>3. \A t \in Tools :
            /\ toolRows[t] \in (SUBSET VersionsOf(t)) \cup {Absent}
            /\ registry[t] \in Seq([version : VersionsOf(t), sum : Sums \cup {Absent}])
        BY DEF ToolInv, Seeds, Registers
    <2>4. /\ \A i \in IDs :
               /\ artifactRows[i] \in Sums \cup {Absent}
               /\ entryRows[i] \in Statuses \cup {Absent}
               /\ blobRows[i] \in Sums \cup {Rotten, Absent}
          /\ \A a \in Artifacts :
               entries[a] \in Statuses \cup {Absent} /\ blobs[a] \in Sums \cup {Absent}
          /\ held \subseteq Artifacts /\ dropped \subseteq Artifacts
          /\ cut \subseteq Tools /\ short \subseteq Tools
        BY DEF CacheInv, Rows, ToolInv, Seeds
    <2>5. TypeOK
        BY <2>1, <2>2, <2>3, <2>4 DEF PortTypes, TypeOK
    <2> QED
        BY <2>5 DEF PortInv, PortsSound
<1> QED
    BY <1>1, <1>2, PortTypes_Step, PortInvariance, CacheInvariance, ToolInvariance, PTL DEF Spec

-----------------------------------------------------------------------------
(***************************************************************************)
(* Project computers, which the same handlers serve.                       *)
(***************************************************************************)
\* The commands an operation can have left.
Left(op) ==
    CASE op = "CREATE" ->
           {<<"create", "start", "attach", "stop", "cgroup">>,
            <<"start", "attach", "stop", "cgroup">>,
            <<"attach", "stop", "cgroup">>, <<"stop", "cgroup">>, <<"cgroup">>}
      [] op = "RESTART" -> {<<"stop", "start">>, <<"start">>}
      [] op = "START" -> {<<"start">>}
      [] op = "STOP" -> {<<"stop">>}
      [] op = "DESTROY" -> {<<"destroy">>}

\* What the clean-up of a failed Create can have left.
Undo == {<<"stop", "destroy">>, <<"destroy">>, <<>>}

\* What a request can have left: commands, or capabilities to check.
Lists ==
    Seq(STRING) \cup Undo \cup
    UNION {Left(op) : op \in {"CREATE", "START", "STOP", "RESTART", "DESTROY"}}

\* Every request in flight.
Working ==
    [op : {"CREATE", "START", "STOP", "RESTART", "DESTROY", "VERIFY"},
     id : Computers, copy : Records, todo : Lists,
     phase : {"run", "undo", "memory", "store"},
     blocked : BOOLEAN, failed : BOOLEAN]

ComputerTables ==
    /\ owner \in [Computers -> Owners]
    /\ mode \in [overlap : BOOLEAN, faults : BOOLEAN] /\ mode \in Modes
    /\ computers \in [Computers -> Records \cup {NoComputer}]
    /\ rows \in [Computers -> Records \cup {NoComputer}]
    /\ container \in [Owners -> {"none", "stopped", "running"}]
    /\ crashes \in 0..MaxCrashes
    /\ provisioned \subseteq Owners /\ overtaken \subseteq Computers
    /\ req \in [Workers -> {Idle} \cup Working]

\* A running request has commands or checks left, a failed Create its clean-up.
\* Past its commands only a destroy saves DESTROYED.
Underway(r) ==
    /\ r.phase = "run" =>
         r.todo \in IF r.op = "VERIFY" THEN Seq(STRING) \ {<<>>} ELSE Left(r.op)
    /\ r.phase = "undo" =>
         /\ r.op = "CREATE" /\ r.todo \in Undo
         /\ r.copy.status = "BLOCKED_BY_ENVIRONMENT"

RequestsUnderway == \A w \in Workers : req[w] # Idle => Underway(req[w])

\* The status s is true of the container of computer c.
TrueOf(c, s) == s \in DOMAIN Promises => container[owner[c]] = Promises[s]

\* Unless a computer is overtaken: what a request is about to save of it is
\* true, and so is what the map says, or a request is about to replace that.
Truthful ==
    \A c \in Computers \ overtaken :
        /\ \A w \in Workers :
             req[w].phase \in {"memory", "store"} /\ req[w].id = c
                => TrueOf(c, req[w].copy.status)
        /\ computers[c] # NoComputer =>
             \/ TrueOf(c, computers[c].status)
             \/ \E w \in Workers : req[w].phase \in {"run", "undo", "memory"} /\ req[w].id = c

\* Computer c has an entry in the map or will get one.
Known(c) ==
    \/ computers[c] # NoComputer
    \/ \E w \in Workers : req[w] # Idle /\ req[w].op = "CREATE" /\ req[w].id = c

\* Computer c is called DESTROYED, in the map or by a request about to save.
Marked(c) ==
    \/ computers[c] # NoComputer /\ computers[c].status = "DESTROYED"
    \/ \E w \in Workers : /\ req[w].phase = "memory" /\ req[w].id = c
                          /\ req[w].copy.status = "DESTROYED"

\* What the table has, the map has; a Create has its computer to itself until
\* the map has it; and every container that is not provisioning's has a computer
\* not called DESTROYED.
RowsInMap == \A c \in Computers : rows[c] # NoComputer => computers[c] # NoComputer
CreatesAlone ==
    \A w \in Workers :
        req[w] # Idle /\ req[w].op = "CREATE" /\ req[w].phase # "store" =>
            /\ computers[req[w].id] = NoComputer
            /\ \A v \in Workers \ {w} : req[v] # Idle => req[v].id # req[w].id
StoresInMap == \A w \in Workers : req[w].phase = "store" => computers[req[w].id] # NoComputer
Claimed ==
    \A p \in Owners \ provisioned : container[p] # "none" =>
        \E c \in Computers : owner[c] = p /\ Known(c) /\ ~Marked(c)

\* All of it holds until the server restarts.
Accounted == crashes = 0 => RowsInMap /\ CreatesAlone /\ StoresInMap /\ Claimed

ComputerInv == ComputerTables /\ RequestsUnderway /\ Truthful /\ Accounted

-----------------------------------------------------------------------------
\* A worker is idle or at a step of a request.
LEMMA WorkerFacts ==
    ASSUME ComputerTables, NEW w \in Workers
    PROVE  /\ req[w] # Idle <=> req[w].phase # "idle"
           /\ req[w] # Idle => req[w] \in Working
           /\ req[w] # Idle => req[w].id \in Computers /\ req[w].copy \in Records
BY DEF ComputerTables, Working, Idle

\* A request at work changes what it holds, and the container of its computer.
LEMMA WorkStep ==
    ASSUME ComputerInv, NEW w \in Workers, req[w].phase \in {"run", "undo"},
           NEW s \in Working, req' = [req EXCEPT ![w] = s],
           s.id = req[w].id, s.op = req[w].op, Underway(s),
           s.phase # "store",
           UNCHANGED <<owner, mode, computers, rows, crashes>>,
           container' \in [Owners -> {"none", "stopped", "running"}],
           \A p \in Owners \ {owner[s.id]} : container'[p] = container[p],
           s.phase = "memory" /\ s.copy.status \in DOMAIN Promises
              => container'[owner[s.id]] = Promises[s.copy.status],
           container[owner[s.id]] = "none" /\ container'[owner[s.id]] # "none"
              => s.op = "CREATE",
           provisioned' \subseteq Owners, overtaken' \subseteq Computers,
           \A p \in Owners \ provisioned' : p \notin provisioned \/ container[p] = "none",
           \A d \in Computers \ overtaken' :
              \/ d \notin overtaken /\ (owner[d] # owner[s.id] \/ container' = container)
              \/ d = s.id /\ Rivals(w, owner[s.id]) = {}
    PROVE  ComputerInv'
<1> DEFINE c == s.id
<1>0. /\ ComputerTables /\ req[w] # Idle /\ c \in Computers /\ owner[c] \in Owners
      /\ req'[w] = s /\ s # Idle /\ s.phase \in {"run", "undo", "memory"}
      /\ \A v \in Workers \ {w} : req'[v] = req[v]
  BY WorkerFacts DEF ComputerInv, ComputerTables, Working, Idle
<1>1. ComputerTables'
  BY <1>0 DEF ComputerTables
<1>2. RequestsUnderway'
  BY <1>0 DEF ComputerInv, RequestsUnderway, Underway
<1>3. Truthful'
  <2> SUFFICES ASSUME NEW d \in Computers, d \notin overtaken'
               PROVE  /\ \A v \in Workers :
                           req'[v].phase \in {"memory", "store"} /\ req'[v].id = d
                              => TrueOf(d, req[v].copy.status)'
                      /\ computers[d] # NoComputer =>
                           \/ TrueOf(d, computers[d].status)'
                           \/ \E v \in Workers :
                                req'[v].phase \in {"run", "undo", "memory"} /\ req'[v].id = d
    BY DEF Truthful
  <2>1. s.phase = "memory" => TrueOf(c, s.copy.status)'
    BY DEF TrueOf, Promises
  <2>2. CASE d \notin overtaken /\ (owner[d] # owner[c] \/ container' = container)
    <3>1. owner[d] \in Owners /\ container'[owner[d]] = container[owner[d]]
      BY <1>0, <2>2 DEF ComputerTables
    <3>2. \A t : TrueOf(d, t)' <=> TrueOf(d, t)
      BY <3>1 DEF TrueOf, Promises
    <3>3. /\ \A v \in Workers : req[v].phase \in {"memory", "store"} /\ req[v].id = d
                                  => TrueOf(d, req[v].copy.status)
          /\ computers[d] # NoComputer =>
               \/ TrueOf(d, computers[d].status)
               \/ \E v \in Workers : req[v].phase \in {"run", "undo", "memory"} /\ req[v].id = d
      BY <2>2 DEF ComputerInv, Truthful
    <3>4. ASSUME NEW v \in Workers, req'[v].phase \in {"memory", "store"}, req'[v].id = d
          PROVE  TrueOf(d, req[v].copy.status)'
      <4>1. CASE v = w
        BY <1>0, <2>1, <3>4, <4>1
      <4>2. CASE v # w
        <5>1. req'[v] = req[v]
          BY <1>0, <4>2
        <5>2. TrueOf(d, req[v].copy.status)
          BY <3>3, <3>4, <5>1
        <5> QED BY <3>1, <5>1, <5>2 DEF TrueOf, Promises
      <4> QED BY <4>1, <4>2
    <3>5. computers[d] # NoComputer =>
            \/ TrueOf(d, computers[d].status)'
            \/ \E v \in Workers : req'[v].phase \in {"run", "undo", "memory"} /\ req'[v].id = d
      <4>1. TrueOf(d, computers[d].status) => TrueOf(d, computers[d].status)'
        BY <3>1 DEF TrueOf, Promises
      <4>2. \A v \in Workers : req[v].phase \in {"run", "undo", "memory"} /\ req[v].id = d =>
              req'[v].phase \in {"run", "undo", "memory"} /\ req'[v].id = d
        BY <1>0
      <4> QED BY <3>3, <4>1, <4>2
    <3> QED BY <3>4, <3>5
  <2>3. CASE d = c /\ Rivals(w, owner[c]) = {}
    <3>1. \A v \in Workers \ {w} : req[v] # Idle => req[v].id # c
      BY <1>0, <2>3 DEF Rivals, Sharing, InFlight
    <3>2. \A v \in Workers : req'[v].phase \in {"memory", "store"} /\ req'[v].id = d => v = w
      BY <1>0, <2>3, <3>1 DEF Idle
    <3> QED BY <1>0, <2>1, <2>3, <3>2
  <2> QED BY <2>2, <2>3
<1>4. Accounted'
  <2> SUFFICES ASSUME crashes = 0 PROVE Accounted'
    BY DEF Accounted
  <2> USE DEF RowsInMap, CreatesAlone, StoresInMap, Claimed
  <2>1. RowsInMap /\ CreatesAlone /\ StoresInMap /\ Claimed
    BY DEF ComputerInv, Accounted
  <2>2. \A d \in Computers : Known(d) => Known(d)'
    BY <1>0 DEF Known, Idle
  <2>3. s.phase = "memory" /\ s.copy.status = "DESTROYED" => container'[owner[c]] = "none"
    BY DEF Promises
  <2>4. \A d \in Computers : Marked(d)' =>
          Marked(d) \/ (d = c /\ s.phase = "memory" /\ s.copy.status = "DESTROYED")
    BY <1>0 DEF Marked
  <2>5. ASSUME NEW p \in Owners \ provisioned', container'[p] # "none"
        PROVE  \E d \in Computers : owner[d] = p /\ Known(d)' /\ ~Marked(d)'
    <3>1. CASE container[p] # "none"
      <4>1. PICK d \in Computers : owner[d] = p /\ Known(d) /\ ~Marked(d)
        BY <2>1, <3>1
      <4> QED BY <2>2, <2>3, <2>4, <2>5, <4>1
    <3>2. CASE container[p] = "none"
      <4>1. p = owner[c] /\ s.op = "CREATE"
        BY <2>5, <3>2
      <4>2. computers[c] = NoComputer /\ \A v \in Workers \ {w} : req[v] # Idle => req[v].id # c
        <5>1. /\ req[w] # Idle /\ req[w].op = "CREATE"
              /\ req[w].phase # "store" /\ req[w].id = c
          BY <1>0, <4>1
        <5> QED BY <2>1, <5>1
      <4>3. Known(c)'
        BY <1>0, <4>1 DEF Known
      <4>4. ~Marked(c)
        BY <1>0, <4>2 DEF Marked, Idle
      <4> QED BY <1>0, <2>3, <2>4, <2>5, <4>1, <4>3, <4>4
    <3> QED BY <3>1, <3>2
  <2>6. CreatesAlone'
    BY <1>0, <2>1
  <2>7. StoresInMap'
    BY <1>0, <2>1
  <2> QED BY <2>1, <2>5, <2>6, <2>7 DEF Accounted
<1> QED BY <1>1, <1>2, <1>3, <1>4 DEF ComputerInv

\* A request arrives, with a copy of the record it is about.
LEMMA BeginStep ==
    ASSUME ComputerInv, NEW w \in Workers, NEW op, NEW c \in Computers,
           NEW copy, NEW todo, NEW at \in {"run", "memory"},
           MayBegin(w), Begin(w, op, c, copy, todo, at),
           op \in {"CREATE", "START", "STOP", "RESTART", "DESTROY", "VERIFY"},
           copy \in Records, todo \in Lists,
           at = "run" => todo \in IF op = "VERIFY" THEN Seq(STRING) \ {<<>>} ELSE Left(op),
           at = "memory" => copy.status = "FAILED",
           IF op = "CREATE"
           THEN View(c) = NoComputer /\ at = "run" /\ \A v \in InFlight : req[v].id # c
           ELSE View(c) # NoComputer
    PROVE  ComputerInv'
<1> DEFINE s == [op |-> op, id |-> c, copy |-> copy, todo |-> todo,
                 phase |-> at, blocked |-> FALSE, failed |-> FALSE]
<1>0. /\ ComputerTables /\ req[w] = Idle /\ s \in Working /\ s # Idle
      /\ req'[w] = s /\ \A v \in Workers \ {w} : req'[v] = req[v]
      /\ s.id = c /\ s.op = op /\ s.phase = at /\ s.copy = copy /\ s.todo = todo
      /\ UNCHANGED <<owner, mode, computers, rows, container, crashes, provisioned, overtaken>>
      /\ req' = [req EXCEPT ![w] = s]
  BY DEF ComputerInv, ComputerTables, Begin, MayBegin, Working, Idle, historyVars
<1> HIDE DEF s
<1>1. ComputerTables'
  BY <1>0 DEF ComputerTables
<1>2. RequestsUnderway'
  <2>1. Underway(s)
    BY <1>0 DEF Underway
  <2> QED BY <1>0, <2>1 DEF ComputerInv, RequestsUnderway, Underway
<1>3. Truthful'
  <2> SUFFICES ASSUME NEW d \in Computers, d \notin overtaken
               PROVE  /\ \A v \in Workers :
                           req'[v].phase \in {"memory", "store"} /\ req'[v].id = d
                              => TrueOf(d, req'[v].copy.status)
                      /\ computers[d] # NoComputer =>
                           \/ TrueOf(d, computers[d].status)
                           \/ \E v \in Workers :
                                req'[v].phase \in {"run", "undo", "memory"} /\ req'[v].id = d
    BY <1>0 DEF Truthful, TrueOf
  <2>1. /\ \A v \in Workers : req[v].phase \in {"memory", "store"} /\ req[v].id = d
                                => TrueOf(d, req[v].copy.status)
        /\ computers[d] # NoComputer =>
             \/ TrueOf(d, computers[d].status)
             \/ \E v \in Workers : req[v].phase \in {"run", "undo", "memory"} /\ req[v].id = d
    BY DEF ComputerInv, Truthful
  <2>2. s.phase # "store" /\ (s.phase = "memory" => TrueOf(d, s.copy.status))
    BY <1>0 DEF TrueOf, Promises
  <2> QED BY <1>0, <2>1, <2>2 DEF Idle
<1>4. Accounted'
  <2> SUFFICES ASSUME crashes = 0 PROVE Accounted'
    BY <1>0 DEF Accounted
  <2> USE DEF RowsInMap, CreatesAlone, StoresInMap, Claimed
  <2>1. RowsInMap /\ CreatesAlone /\ StoresInMap /\ Claimed
    BY DEF ComputerInv, Accounted
  <2>2. \A d \in Computers : (Known(d) => Known(d)') /\ (Marked(d)' => Marked(d))
    BY <1>0 DEF Known, Marked, Idle
  <2>3. IF op = "CREATE"
        THEN computers[c] = NoComputer /\ \A v \in Workers : req[v] # Idle => req[v].id # c
        ELSE computers[c] # NoComputer
    BY <2>1 DEF View, Stored, InFlight
  <2>4. CreatesAlone'
    BY <1>0, <2>1, <2>3
  <2>5. StoresInMap'
    BY <1>0, <2>1
  <2> QED BY <1>0, <2>1, <2>2, <2>4, <2>5 DEF Accounted
<1> QED BY <1>1, <1>2, <1>3, <1>4 DEF ComputerInv

\* The copy goes into the map.
LEMMA SaveMemory_Inv ==
    ASSUME ComputerInv, NEW w \in Workers, SaveMemory(w)
    PROVE  ComputerInv'
<1> PICK r : r = req[w]
  OBVIOUS
<1>s. PICK s : s = [r EXCEPT !.phase = "store"]
  OBVIOUS
<1>0. /\ ComputerTables /\ r # Idle /\ r \in Working
      /\ r.id \in Computers /\ r.copy \in Records
      /\ r.phase = "memory"
  BY WorkerFacts DEF ComputerInv, SaveMemory
<1>1. /\ s \in Working /\ s # Idle /\ s.id = r.id /\ s.op = r.op /\ s.copy = r.copy
      /\ s.phase = "store" /\ s.todo = r.todo
  BY <1>0, <1>s DEF Working, Idle
<1>2. /\ req'[w] = s /\ \A v \in Workers \ {w} : req'[v] = req[v]
      /\ computers'[r.id] = r.copy /\ \A d \in Computers \ {r.id} : computers'[d] = computers[d]
      /\ UNCHANGED <<owner, mode, rows, container, crashes, provisioned, overtaken>>
      /\ r.copy # NoComputer
  BY <1>0, <1>s, NoComputerAssumption DEF SaveMemory, ComputerTables, historyVars
<1>3. ComputerTables'
  <2>1. req' = [req EXCEPT ![w] = s] /\ computers' = [computers EXCEPT ![r.id] = r.copy]
    BY <1>s DEF SaveMemory
  <2> QED BY <1>0, <1>1, <1>2, <2>1 DEF ComputerTables
<1>4. RequestsUnderway'
  BY <1>1, <1>2 DEF ComputerInv, RequestsUnderway, Underway
<1>5. Truthful'
  <2> SUFFICES ASSUME NEW d \in Computers, d \notin overtaken
               PROVE  /\ \A v \in Workers :
                           req'[v].phase \in {"memory", "store"} /\ req'[v].id = d
                              => TrueOf(d, req'[v].copy.status)
                      /\ computers'[d] # NoComputer =>
                           \/ TrueOf(d, computers'[d].status)
                           \/ \E v \in Workers :
                                req'[v].phase \in {"run", "undo", "memory"} /\ req'[v].id = d
    BY <1>2 DEF Truthful, TrueOf
  <2>1. /\ \A v \in Workers : req[v].phase \in {"memory", "store"} /\ req[v].id = d
                                => TrueOf(d, req[v].copy.status)
        /\ computers[d] # NoComputer =>
             \/ TrueOf(d, computers[d].status)
             \/ \E v \in Workers : req[v].phase \in {"run", "undo", "memory"} /\ req[v].id = d
    BY DEF ComputerInv, Truthful
  <2>2. r.id = d => TrueOf(d, r.copy.status)
    BY <1>0, <2>1
  <2>3. CASE d = r.id
    BY <1>1, <1>2, <2>1, <2>2, <2>3
  <2>4. CASE d # r.id
    BY <1>0, <1>1, <1>2, <2>1, <2>4
  <2> QED BY <2>3, <2>4
<1>6. Accounted'
  <2> SUFFICES ASSUME crashes = 0 PROVE Accounted'
    BY <1>2 DEF Accounted
  <2> USE DEF RowsInMap, CreatesAlone, StoresInMap, Claimed
  <2>1. RowsInMap /\ CreatesAlone /\ StoresInMap /\ Claimed
    BY DEF ComputerInv, Accounted
  <2>2. \A d \in Computers : (Known(d) => Known(d)') /\ (Marked(d)' => Marked(d))
    BY <1>0, <1>1, <1>2 DEF Known, Marked
  <2>3. CreatesAlone'
    <3> SUFFICES ASSUME NEW v \in Workers, req'[v] # Idle,
                        req'[v].op = "CREATE", req'[v].phase # "store"
                 PROVE  /\ computers'[req'[v].id] = NoComputer
                        /\ \A u \in Workers \ {v} : req'[u] # Idle => req'[u].id # req'[v].id
      OBVIOUS
    <3>1. v # w /\ req'[v] = req[v]
      BY <1>1, <1>2
    <3>2. /\ computers[req[v].id] = NoComputer /\ req[v].id \in Computers
          /\ \A u \in Workers \ {v} : req[u] # Idle => req[u].id # req[v].id
      BY <2>1, <3>1, WorkerFacts, <1>0
    <3>3. req[v].id # r.id
      BY <1>0, <3>1, <3>2
    <3> QED BY <1>0, <1>1, <1>2, <3>1, <3>2, <3>3
  <2>4. StoresInMap'
    <3> SUFFICES ASSUME NEW v \in Workers, req'[v].phase = "store", v # w
                 PROVE  computers'[req'[v].id] # NoComputer
      BY <1>1, <1>2
    <3>1. req'[v] = req[v] /\ req[v].id \in Computers /\ computers[req[v].id] # NoComputer
      BY <1>0, <1>2, <2>1, WorkerFacts DEF Idle
    <3> QED BY <1>2, <3>1
  <2>5. RowsInMap'
    BY <1>2, <2>1
  <2> QED BY <1>2, <2>1, <2>2, <2>3, <2>4, <2>5 DEF Accounted
<1> QED BY <1>3, <1>4, <1>5, <1>6 DEF ComputerInv

\* The row is written, or not, and the request ends.
LEMMA SaveStore_Inv ==
    ASSUME ComputerInv, NEW w \in Workers, SaveStore(w)
    PROVE  ComputerInv'
<1> PICK r : r = req[w]
  OBVIOUS
<1>0. /\ ComputerTables /\ r # Idle /\ r \in Working
      /\ r.id \in Computers /\ r.copy \in Records
      /\ r.phase = "store"
  BY WorkerFacts DEF ComputerInv, SaveStore
<1>1. /\ req'[w] = Idle /\ \A v \in Workers \ {w} : req'[v] = req[v]
      /\ \A d \in Computers \ {r.id} : rows'[d] = rows[d]
      /\ UNCHANGED <<owner, mode, computers, container, crashes, provisioned, overtaken>>
      /\ req' = [req EXCEPT ![w] = Idle]
      /\ rows' \in [Computers -> Records \cup {NoComputer}]
  BY <1>0 DEF SaveStore, ComputerTables, historyVars
<1>2. ComputerTables'
  BY <1>0, <1>1 DEF ComputerTables
<1>3. RequestsUnderway'
  BY <1>1 DEF ComputerInv, RequestsUnderway, Underway
<1>4. Truthful'
  <2> SUFFICES ASSUME NEW d \in Computers, d \notin overtaken
               PROVE  /\ \A v \in Workers :
                           req'[v].phase \in {"memory", "store"} /\ req'[v].id = d
                              => TrueOf(d, req'[v].copy.status)
                      /\ computers[d] # NoComputer =>
                           \/ TrueOf(d, computers[d].status)
                           \/ \E v \in Workers :
                                req'[v].phase \in {"run", "undo", "memory"} /\ req'[v].id = d
    BY <1>1 DEF Truthful, TrueOf
  <2>1. /\ \A v \in Workers : req[v].phase \in {"memory", "store"} /\ req[v].id = d
                                => TrueOf(d, req[v].copy.status)
        /\ computers[d] # NoComputer =>
             \/ TrueOf(d, computers[d].status)
             \/ \E v \in Workers : req[v].phase \in {"run", "undo", "memory"} /\ req[v].id = d
    BY DEF ComputerInv, Truthful
  <2> QED BY <1>0, <1>1, <2>1 DEF Idle
<1>5. Accounted'
  <2> SUFFICES ASSUME crashes = 0 PROVE Accounted'
    BY <1>1 DEF Accounted
  <2> USE DEF RowsInMap, CreatesAlone, StoresInMap, Claimed
  <2>1. RowsInMap /\ CreatesAlone /\ StoresInMap /\ Claimed
    BY DEF ComputerInv, Accounted
  <2>2. computers[r.id] # NoComputer
    BY <1>0, <2>1
  <2>3. \A d \in Computers : (Known(d) => Known(d)') /\ (Marked(d)' => Marked(d))
    BY <1>0, <1>1, <2>2 DEF Known, Marked, Idle
  <2>4. CreatesAlone'
    BY <1>1, <2>1
  <2>5. StoresInMap'
    BY <1>1, <2>1 DEF Idle
  <2>6. RowsInMap'
    BY <1>1, <2>1, <2>2
  <2> QED BY <1>1, <2>1, <2>3, <2>4, <2>5, <2>6 DEF Accounted
<1> QED BY <1>2, <1>3, <1>4, <1>5 DEF ComputerInv

\* The command lists of an operation: the command that ends it leaves the
\* container in the state its status promises, and only a Create creates.
LEMMA LeftFacts ==
    ASSUME NEW op \in {"CREATE", "START", "STOP", "RESTART", "DESTROY"},
           NEW todo \in Left(op)
    PROVE  /\ todo \in Lists /\ todo # <<>>
           /\ Head(todo) \in DOMAIN Needs
           /\ Head(todo) = "create" => op = "CREATE"
           /\ Len(todo) = 1 =>
                /\ Success(op) \in DOMAIN Promises \cap ComputerStatuses
                /\ Leaves[Head(todo)] = Promises[Success(op)]
           /\ Len(todo) # 1 => Tail(todo) \in Left(op)
<1>0. todo \in Lists
  BY DEF Lists
<1>a. /\ DOMAIN Needs = {"create", "start", "attach", "stop", "cgroup", "destroy"}
      /\ Leaves["cgroup"] = "stopped" /\ Leaves["start"] = "running"
      /\ Leaves["stop"] = "stopped" /\ Leaves["destroy"] = "none"
      /\ DOMAIN Promises = {"READY", "STOPPED", "DESTROYED", "PROVISIONING"}
      /\ DOMAIN Promises \subseteq ComputerStatuses
      /\ Promises["PROVISIONING"] = "stopped" /\ Promises["READY"] = "running"
      /\ Promises["STOPPED"] = "stopped" /\ Promises["DESTROYED"] = "none"
  BY DEF Needs, Leaves, Promises, ComputerStatuses
<1>1. CASE op = "CREATE"
  <2>1. Left(op) = {<<"create", "start", "attach", "stop", "cgroup">>,
                    <<"start", "attach", "stop", "cgroup">>,
                    <<"attach", "stop", "cgroup">>,
                    <<"stop", "cgroup">>,
                    <<"cgroup">>}
    BY <1>1 DEF Left
  <2>2. Success(op) = "PROVISIONING"
    BY <1>1 DEF Success
  <2>3. CASE todo = <<"create", "start", "attach", "stop", "cgroup">>
    <3>1. /\ Head(todo) = "create" /\ Len(todo) = 5 /\ todo # <<>>
      BY <2>3
    <3>2. Tail(todo) \in Left(op)
      <4>1. Tail(todo) = <<"start", "attach", "stop", "cgroup">>
        BY <2>3
      <4> QED BY <2>1, <4>1
    <3> QED BY <1>0, <1>a, <1>1, <2>2, <3>1, <3>2
  <2>4. CASE todo = <<"start", "attach", "stop", "cgroup">>
    <3>1. /\ Head(todo) = "start" /\ Len(todo) = 4 /\ todo # <<>>
      BY <2>4
    <3>2. Tail(todo) \in Left(op)
      <4>1. Tail(todo) = <<"attach", "stop", "cgroup">>
        BY <2>4
      <4> QED BY <2>1, <4>1
    <3> QED BY <1>0, <1>a, <1>1, <2>2, <3>1, <3>2
  <2>5. CASE todo = <<"attach", "stop", "cgroup">>
    <3>1. /\ Head(todo) = "attach" /\ Len(todo) = 3 /\ todo # <<>>
      BY <2>5
    <3>2. Tail(todo) \in Left(op)
      <4>1. Tail(todo) = <<"stop", "cgroup">>
        BY <2>5
      <4> QED BY <2>1, <4>1
    <3> QED BY <1>0, <1>a, <1>1, <2>2, <3>1, <3>2
  <2>6. CASE todo = <<"stop", "cgroup">>
    <3>1. /\ Head(todo) = "stop" /\ Len(todo) = 2 /\ todo # <<>>
      BY <2>6
    <3>2. Tail(todo) \in Left(op)
      <4>1. Tail(todo) = <<"cgroup">>
        BY <2>6
      <4> QED BY <2>1, <4>1
    <3> QED BY <1>0, <1>a, <1>1, <2>2, <3>1, <3>2
  <2>7. CASE todo = <<"cgroup">>
    <3>1. /\ Head(todo) = "cgroup" /\ Len(todo) = 1
          /\ todo # <<>>
      BY <2>7
    <3> QED BY <1>0, <1>a, <1>1, <2>2, <3>1
  <2> QED BY <2>1, <2>3, <2>4, <2>5, <2>6, <2>7
<1>2. CASE op = "RESTART"
  <2>1. Left(op) = {<<"stop", "start">>,
                    <<"start">>}
    BY <1>2 DEF Left
  <2>2. Success(op) = "READY"
    BY <1>2 DEF Success
  <2>3. CASE todo = <<"stop", "start">>
    <3>1. /\ Head(todo) = "stop" /\ Len(todo) = 2 /\ todo # <<>>
      BY <2>3
    <3>2. Tail(todo) \in Left(op)
      <4>1. Tail(todo) = <<"start">>
        BY <2>3
      <4> QED BY <2>1, <4>1
    <3> QED BY <1>0, <1>a, <1>2, <2>2, <3>1, <3>2
  <2>4. CASE todo = <<"start">>
    <3>1. /\ Head(todo) = "start" /\ Len(todo) = 1
          /\ todo # <<>>
      BY <2>4
    <3> QED BY <1>0, <1>a, <1>2, <2>1, <2>2, <3>1
  <2> QED BY <2>1, <2>3, <2>4
<1>3. CASE op = "START"
  <2>1. Left(op) = {<<"start">>}
    BY <1>3 DEF Left
  <2>2. Success(op) = "READY"
    BY <1>3 DEF Success
  <2>3. CASE todo = <<"start">>
    <3>1. /\ Head(todo) = "start" /\ Len(todo) = 1
          /\ todo # <<>>
      BY <2>3
    <3> QED BY <1>0, <1>a, <1>3, <2>1, <2>2, <3>1
  <2> QED BY <2>1, <2>3
<1>4. CASE op = "STOP"
  <2>1. Left(op) = {<<"stop">>}
    BY <1>4 DEF Left
  <2>2. Success(op) = "STOPPED"
    BY <1>4 DEF Success
  <2>3. CASE todo = <<"stop">>
    <3>1. /\ Head(todo) = "stop" /\ Len(todo) = 1
          /\ todo # <<>>
      BY <2>3
    <3> QED BY <1>0, <1>a, <1>4, <2>1, <2>2, <3>1
  <2> QED BY <2>1, <2>3
<1>5. CASE op = "DESTROY"
  <2>1. Left(op) = {<<"destroy">>}
    BY <1>5 DEF Left
  <2>2. Success(op) = "DESTROYED"
    BY <1>5 DEF Success
  <2>3. CASE todo = <<"destroy">>
    <3>1. /\ Head(todo) = "destroy" /\ Len(todo) = 1
          /\ todo # <<>>
      BY <2>3
    <3> QED BY <1>0, <1>a, <1>5, <2>1, <2>2, <3>1
  <2> QED BY <2>1, <2>3
<1> QED BY <1>1, <1>2, <1>3, <1>4, <1>5

\* What an operation has left at first.
LEMMA CommandFacts ==
    ASSUME NEW op \in {"CREATE", "START", "STOP", "RESTART", "DESTROY"}
    PROVE  Commands(op) \in Left(op)
<1>1. CASE op = "CREATE"
  BY <1>1 DEF Commands, CreateCommands, Left
<1>2. CASE op = "RESTART"
  BY <1>2 DEF Commands, Left
<1>3. CASE op = "START"
  BY <1>3 DEF Commands, Left
<1>4. CASE op = "STOP"
  BY <1>4 DEF Commands, Left
<1>5. CASE op = "DESTROY"
  BY <1>5 DEF Commands, Left
<1> QED BY <1>1, <1>2, <1>3, <1>4, <1>5

\* The arrivals.
LEMMA Arrive_Inv ==
    ASSUME ComputerInv, NEW w \in Workers, Arrive(w)
    PROVE  ComputerInv'
<1>0. \A c \in Computers : View(c) # NoComputer => View(c) \in Records
  BY DEF ComputerInv, ComputerTables, View, Stored
<1>1. ASSUME NEW c \in Computers, Create(w, c) PROVE ComputerInv'
  <2>1. NewComputer \in Records
    BY DEF NewComputer, Records, ComputerStatuses
  <2>2. Commands("CREATE") \in Left("CREATE") /\ Commands("CREATE") \in Lists
    BY CommandFacts, LeftFacts
  <2> QED BY <1>1, <2>1, <2>2, BeginStep DEF Create
<1>2. ASSUME NEW c \in Computers, NEW op \in {"START", "STOP", "RESTART", "DESTROY"},
             LifecycleComputer(w, op, c)
      PROVE  ComputerInv'
  <2>1. View(c) \in Records /\ MayBegin(w) /\ View(c) # NoComputer
    BY <1>0, <1>2 DEF LifecycleComputer
  <2>2. CASE op = "START" /\ ~View(c).runtime
    <3>1. Begin(w, op, c, [View(c) EXCEPT !.status = "FAILED"], <<>>, "memory")
      BY <1>2, <2>2 DEF LifecycleComputer, Transition
    <3>2. [View(c) EXCEPT !.status = "FAILED"] \in Records
          /\ [View(c) EXCEPT !.status = "FAILED"].status = "FAILED"
      BY <2>1 DEF Records, ComputerStatuses
    <3>3. <<>> \in Lists
      BY DEF Lists, Undo
    <3> QED BY <2>1, <3>1, <3>2, <3>3, BeginStep
  <2>3. CASE ~(op = "START" /\ ~View(c).runtime)
    <3>1. Begin(w, op, c, View(c), Commands(op), "run")
      BY <1>2, <2>3 DEF LifecycleComputer, Transition
    <3>2. Commands(op) \in Left(op) /\ Commands(op) \in Lists
      BY CommandFacts, LeftFacts
    <3> QED BY <2>1, <3>1, <3>2, BeginStep
  <2> QED BY <2>2, <2>3
<1>3. ASSUME NEW c \in Computers, NEW list \in CheckLists, Verify(w, c, list)
      PROVE  ComputerInv'
  <2>1. list \in Lists /\ list \in Seq(STRING) \ {<<>>}
    BY CheckListsAssumption DEF Lists
  <2>2. View(c) \in Records
    BY <1>0, <1>3 DEF Verify
  <2> QED BY <1>3, <2>1, <2>2, BeginStep DEF Verify
<1> QED
  BY <1>1, <1>2, <1>3
  DEF Arrive, Start, Stop, Restart, Destroy, Rebuild, VerifyComputer,
      VerifyEnvironment, RepairEnvironment

\* Who is not overtaken after a command is of another project, or is the
\* computer the command was for and has no rivals.
LEMMA OvertakesFacts ==
    ASSUME ComputerTables, NEW w \in Workers, NEW last, req[w].id \in Computers, Overtakes(w, last)
    PROVE  /\ overtaken' \subseteq Computers
           /\ \A d \in Computers \ overtaken' :
                \/ d \notin overtaken /\ owner[d] # owner[req[w].id]
                \/ d = req[w].id /\ Rivals(w, owner[req[w].id]) = {}
<1> DEFINE c == req[w].id
<1>1. CASE Rivals(w, owner[c]) # {}
  <2>1. overtaken' = overtaken \cup Sharing(owner[c])
    BY <1>1 DEF Overtakes
  <2> QED BY <2>1 DEF Sharing, ComputerTables
<1>2. CASE Rivals(w, owner[c]) = {}
  <2>1. overtaken' = (overtaken \ {d \in {c} : last}) \cup (Sharing(owner[c]) \ {c})
    BY <1>2 DEF Overtakes
  <2> QED BY <1>2, <2>1 DEF Sharing, ComputerTables
<1> QED BY <1>1, <1>2

\* A command of the operation works.
LEMMA CommandSucceeds_Inv ==
    ASSUME ComputerInv, NEW w \in Workers, CommandSucceeds(w)
    PROVE  ComputerInv'
<1> PICK r : r = req[w]
  OBVIOUS
<1>0. /\ ComputerTables /\ r \in Working /\ r.phase = "run"
      /\ r.op \in {"CREATE", "START", "STOP", "RESTART", "DESTROY"}
      /\ r.todo \in Left(r.op) /\ r.id \in Computers /\ r.copy \in Records
  <2>1. ComputerTables /\ r.phase = "run" /\ r.op # "VERIFY"
    BY DEF ComputerInv, CommandSucceeds
  <2>2. r # Idle /\ r \in Working
    BY <2>1, WorkerFacts DEF Idle
  <2> QED BY <2>1, <2>2 DEF ComputerInv, RequestsUnderway, Underway, Working
<1>b. Completed(r) = [r EXCEPT !.todo = <<>>, !.phase = "memory",
                        !.copy = [[r.copy EXCEPT !.status = Success(r.op)]
                                    EXCEPT !.runtime = r.copy.runtime \/ r.op = "CREATE"]]
  BY <1>0 DEF Completed, Working
<1>1. /\ Head(r.todo) \in DOMAIN Needs /\ (Head(r.todo) = "create" => r.op = "CREATE")
      /\ Len(r.todo) = 1 => /\ Success(r.op) \in DOMAIN Promises \cap ComputerStatuses
                            /\ Leaves[Head(r.todo)] = Promises[Success(r.op)]
      /\ Len(r.todo) # 1 => Tail(r.todo) \in Left(r.op) /\ Tail(r.todo) \in Lists
  BY <1>0, LeftFacts
<1>s. PICK s : s = IF Len(r.todo) = 1 THEN Completed(r) ELSE [r EXCEPT !.todo = Tail(r.todo)]
  OBVIOUS
<1>2. /\ s \in Working /\ s.id = r.id /\ s.op = r.op
      /\ s.phase = IF Len(r.todo) = 1 THEN "memory" ELSE "run"
      /\ Len(r.todo) = 1 => s.copy.status = Success(r.op)
      /\ Len(r.todo) # 1 => s.todo = Tail(r.todo)
  <2>1. CASE Len(r.todo) = 1
    <3> DEFINE k == [[r.copy EXCEPT !.status = Success(r.op)]
                       EXCEPT !.runtime = r.copy.runtime \/ r.op = "CREATE"]
    <3>1. s = [r EXCEPT !.todo = <<>>, !.phase = "memory", !.copy = k]
      BY <1>b, <1>s, <2>1
    <3>2. k \in Records /\ k.status = Success(r.op)
      BY <1>0, <1>1, <2>1 DEF Records
    <3> HIDE DEF k
    <3>3. <<>> \in Lists
      BY DEF Lists, Undo
    <3> QED BY <1>0, <2>1, <3>1, <3>2, <3>3 DEF Working
  <2>2. CASE Len(r.todo) # 1
    BY <1>0, <1>1, <1>s, <2>2 DEF Working
  <2> QED BY <2>1, <2>2
<1>3. Underway(s)
  BY <1>0, <1>1, <1>2 DEF Underway
<1>4. /\ container[owner[r.id]] = Needs[Head(r.todo)]
      /\ container' = [container EXCEPT ![owner[r.id]] = Leaves[Head(r.todo)]]
      /\ req' = [req EXCEPT ![w] = s]
      /\ UNCHANGED <<owner, mode, computers, rows, crashes>>
      /\ provisioned' = IF Head(r.todo) = "create" THEN provisioned \ {owner[r.id]} ELSE provisioned
      /\ Overtakes(w, Len(r.todo) = 1)
  BY <1>s DEF CommandSucceeds, Executes
<1>5. /\ owner[r.id] \in Owners
      /\ container'[owner[r.id]] = Leaves[Head(r.todo)]
      /\ container' \in [Owners -> {"none", "stopped", "running"}]
      /\ \A p \in Owners \ {owner[r.id]} : container'[p] = container[p]
  BY <1>0, <1>1, <1>4 DEF ComputerTables, Needs, Leaves
<1>6. Needs[Head(r.todo)] = "none" <=> Head(r.todo) = "create"
  BY <1>1 DEF Needs
<1>7. /\ provisioned' \subseteq Owners
      /\ \A p \in Owners \ provisioned' : p \notin provisioned \/ container[p] = "none"
  BY <1>0, <1>4, <1>6 DEF ComputerTables
<1>8. /\ overtaken' \subseteq Computers
      /\ \A d \in Computers \ overtaken' :
           \/ d \notin overtaken /\ owner[d] # owner[s.id]
           \/ d = s.id /\ Rivals(w, owner[s.id]) = {}
  BY <1>0, <1>2, <1>4, OvertakesFacts
<1>9. /\ req[w].phase \in {"run", "undo"} /\ s.id = req[w].id /\ s.op = req[w].op
      /\ s.phase # "store"
      /\ \A p \in Owners \ {owner[s.id]} : container'[p] = container[p]
      /\ s.phase = "memory" /\ s.copy.status \in DOMAIN Promises
            => container'[owner[s.id]] = Promises[s.copy.status]
      /\ container[owner[s.id]] = "none" /\ container'[owner[s.id]] # "none" => s.op = "CREATE"
  BY <1>0, <1>1, <1>2, <1>4, <1>5, <1>6
<1>10. \A d \in Computers \ overtaken' :
         \/ d \notin overtaken /\ (owner[d] # owner[s.id] \/ container' = container)
         \/ d = s.id /\ Rivals(w, owner[s.id]) = {}
  BY <1>8
<1> HIDE DEF ComputerInv, CommandSucceeds
<1> QED BY <1>2, <1>3, <1>4, <1>5, <1>7, <1>8, <1>9, <1>10, WorkStep

\* A command fails: the operation is over, or its clean-up begins.
LEMMA CommandFails_Inv ==
    ASSUME ComputerInv, NEW w \in Workers, CommandFails(w)
    PROVE  ComputerInv'
<1> PICK r : r = req[w]
  OBVIOUS
<1>0. /\ ComputerTables /\ r \in Working /\ r.phase = "run"
      /\ r.op \in {"CREATE", "START", "STOP", "RESTART", "DESTROY"}
      /\ r.id \in Computers /\ r.copy \in Records /\ owner[r.id] \in Owners
  <2>1. ComputerTables /\ r.phase = "run" /\ r.op # "VERIFY"
    BY DEF ComputerInv, CommandFails
  <2>2. r # Idle /\ r \in Working
    BY <2>1, WorkerFacts DEF Idle
  <2> QED BY <2>1, <2>2 DEF ComputerTables, Working
<1>1. /\ FailedCopy(r) \in Records
      /\ FailedCopy(r).status = IF r.op = "CREATE" THEN "BLOCKED_BY_ENVIRONMENT" ELSE "FAILED"
  BY <1>0 DEF FailedCopy, Records, ComputerStatuses
<1>2. Cleanup(Head(r.todo)) \in Undo /\ <<>> \in Undo
  BY DEF Cleanup, Undo
<1>s. PICK s : s = [r EXCEPT !.todo = IF r.op = "CREATE" THEN Cleanup(Head(r.todo)) ELSE <<>>,
                             !.phase = IF r.op = "CREATE" THEN "undo" ELSE "memory",
                             !.copy = FailedCopy(r)]
  OBVIOUS
<1>3. /\ s \in Working /\ s.id = r.id /\ s.op = r.op /\ s.copy = FailedCopy(r)
      /\ s.phase = IF r.op = "CREATE" THEN "undo" ELSE "memory"
      /\ r.op = "CREATE" => s.todo \in Undo
  BY <1>0, <1>1, <1>2, <1>s DEF Working, Lists
<1>4. Underway(s)
  BY <1>1, <1>3 DEF Underway
<1>5. /\ req' = [req EXCEPT ![w] = s]
      /\ UNCHANGED <<owner, mode, computers, rows, container, crashes, provisioned, overtaken>>
  BY <1>s DEF CommandFails, historyVars
<1>6. s.copy.status \notin DOMAIN Promises
  BY <1>1, <1>3 DEF Promises
<1> QED BY <1>0, <1>3, <1>4, <1>5, <1>6, WorkStep DEF ComputerTables

\* The clean-up of a failed Create.
LEMMA CleanUp_Inv ==
    ASSUME ComputerInv, NEW w \in Workers, CleanUp(w)
    PROVE  ComputerInv'
<1> PICK r : r = req[w]
  OBVIOUS
<1>0. /\ ComputerTables /\ r \in Working /\ r.phase = "undo"
      /\ r.op = "CREATE" /\ r.todo \in Undo
      /\ r.copy.status = "BLOCKED_BY_ENVIRONMENT"
      /\ r.id \in Computers /\ r.copy \in Records /\ owner[r.id] \in Owners
  <2>1. ComputerTables /\ r.phase = "undo"
    BY DEF ComputerInv, CleanUp
  <2>2. r # Idle /\ r \in Working
    BY <2>1, WorkerFacts DEF Idle
  <2> QED BY <2>1, <2>2 DEF ComputerInv, RequestsUnderway, Underway, ComputerTables, Working
<1>1. "BLOCKED_BY_ENVIRONMENT" \notin DOMAIN Promises
  BY DEF Promises
<1>2. CASE r.todo = <<>>
  <2>s. PICK s : s = [r EXCEPT !.phase = "memory"]
    OBVIOUS
  <2>1. /\ s \in Working /\ s.id = r.id /\ s.op = r.op /\ s.copy = r.copy
        /\ s.phase = "memory"
    BY <1>0, <2>s DEF Working
  <2>2. Underway(s)
    BY <2>1 DEF Underway
  <2>3. /\ req' = [req EXCEPT ![w] = s]
        /\ UNCHANGED <<owner, mode, computers, rows, container, crashes, provisioned, overtaken>>
    BY <1>2, <2>s DEF CleanUp, historyVars
  <2> QED BY <1>0, <1>1, <2>1, <2>2, <2>3, WorkStep DEF ComputerTables
<1>3. CASE r.todo # <<>>
  <2>s. PICK s : s = [r EXCEPT !.todo = Tail(r.todo)]
    OBVIOUS
  <2>1. Head(r.todo) \in {"stop", "destroy"} /\ Tail(r.todo) \in Undo
    <3>1. CASE r.todo = <<"stop", "destroy">>
      <4>1. Head(r.todo) = "stop" /\ Tail(r.todo) = <<"destroy">>
        BY <3>1
      <4> QED BY <4>1 DEF Undo
    <3>2. CASE r.todo = <<"destroy">>
      <4>1. Head(r.todo) = "destroy" /\ Tail(r.todo) = <<>>
        BY <3>2
      <4> QED BY <4>1 DEF Undo
    <3> QED BY <1>0, <1>3, <3>1, <3>2 DEF Undo
  <2>2. /\ s \in Working /\ s.id = r.id /\ s.op = r.op /\ s.copy = r.copy
        /\ s.phase = "undo" /\ s.todo \in Undo
    BY <1>0, <2>1, <2>s DEF Working, Lists
  <2>3. Underway(s)
    BY <1>0, <2>2 DEF Underway
  <2>4. /\ req' = [req EXCEPT ![w] = s]
        /\ UNCHANGED <<owner, mode, computers, rows, crashes>>
        /\ \/ /\ container[owner[r.id]] = Needs[Head(r.todo)]
              /\ container' = [container EXCEPT ![owner[r.id]] = Leaves[Head(r.todo)]]
              /\ Overtakes(w, FALSE)
           \/ UNCHANGED <<container, overtaken>>
        /\ provisioned' = provisioned
    BY <1>3, <2>1, <2>s DEF CleanUp, Executes, historyVars
  <2>5. Leaves[Head(r.todo)] \in {"none", "stopped", "running"}
        /\ Needs[Head(r.todo)] # "none"
    BY <2>1 DEF Leaves, Needs
  <2>6. /\ container' \in [Owners -> {"none", "stopped", "running"}]
        /\ \A p \in Owners \ {owner[r.id]} : container'[p] = container[p]
        /\ container[owner[r.id]] = "none" => container' = container
    BY <1>0, <2>4, <2>5 DEF ComputerTables
  <2>7. /\ overtaken' \subseteq Computers
        /\ \A d \in Computers \ overtaken' :
             \/ d \notin overtaken /\ (owner[d] # owner[s.id] \/ container' = container)
             \/ d = s.id /\ Rivals(w, owner[s.id]) = {}
    <3>1. CASE UNCHANGED <<container, overtaken>>
      BY <1>0, <3>1 DEF ComputerTables
    <3>2. CASE Overtakes(w, FALSE)
      BY <1>0, <2>2, <3>2, OvertakesFacts
    <3> QED BY <2>4, <3>1, <3>2
  <2>8. provisioned' \subseteq Owners
    BY <1>0, <2>4 DEF ComputerTables
  <2> QED BY <1>0, <2>2, <2>3, <2>4, <2>6, <2>7, <2>8, WorkStep
<1> QED BY <1>2, <1>3

\* One capability is checked; the last one decides the verdict, and READY is
\* the verdict of a container that just answered.
LEMMA Check_Inv ==
    ASSUME ComputerInv, NEW w \in Workers, Check(w)
    PROVE  ComputerInv'
<1> PICK r : r = req[w]
  OBVIOUS
<1>0. /\ ComputerTables /\ r \in Working /\ r.phase = "run" /\ r.op = "VERIFY"
      /\ r.todo \in Seq(STRING) \ {<<>>} /\ r.id \in Computers /\ r.copy \in Records
      /\ owner[r.id] \in Owners
  <2>1. ComputerTables /\ r.phase = "run" /\ r.op = "VERIFY"
    BY DEF ComputerInv, Check
  <2>2. r # Idle /\ r \in Working
    BY <2>1, WorkerFacts DEF Idle
  <2> QED BY <2>1, <2>2 DEF ComputerInv, RequestsUnderway, Underway, ComputerTables, Working
<1>1. PICK outcome \in {"blocked", "failed", "supported"} :
        /\ outcome = "supported" => container[owner[r.id]] = "running"
        /\ LET k == [r EXCEPT !.todo = Tail(@), !.blocked = @ \/ outcome = "blocked",
                              !.failed = @ \/ outcome = "failed"]
           IN req' = [req EXCEPT ![w] =
                        IF k.todo # <<>> THEN k
                        ELSE [k EXCEPT !.phase = "memory", !.copy.status =
                                VerifiedStatus(k.blocked, k.failed)]]
  BY DEF Check, Needs
<1>k. PICK k : k = [r EXCEPT !.todo = Tail(@), !.blocked = @ \/ outcome = "blocked",
                             !.failed = @ \/ outcome = "failed"]
  OBVIOUS
<1>2. /\ k \in Working /\ k.id = r.id /\ k.op = r.op /\ k.phase = "run"
      /\ k.todo \in Seq(STRING)
      /\ outcome = "blocked" => k.blocked
      /\ outcome = "failed" => k.failed
  <2>0. \A l \in Seq(STRING) \ {<<>>} : Tail(l) \in Seq(STRING)
    OBVIOUS
  <2>1. Tail(r.todo) \in Seq(STRING) /\ Tail(r.todo) \in Lists
    BY <1>0, <2>0 DEF Lists
  <2> QED BY <1>0, <1>k, <2>1 DEF Working
<1>3. UNCHANGED <<owner, mode, computers, rows, container, crashes, provisioned, overtaken>>
  BY DEF Check, historyVars
<1>4. CASE k.todo # <<>>
  <2>1. req' = [req EXCEPT ![w] = k]
    BY <1>1, <1>4, <1>k
  <2>2. Underway(k)
    BY <1>0, <1>2, <1>4 DEF Underway
  <2> QED BY <1>0, <1>2, <1>3, <2>1, <2>2, WorkStep DEF ComputerTables
<1>5. CASE k.todo = <<>>
  <2>s. PICK s : s = [k EXCEPT !.phase = "memory",
                               !.copy.status = VerifiedStatus(k.blocked, k.failed)]
    OBVIOUS
  <2>1. req' = [req EXCEPT ![w] = s]
    BY <1>1, <1>5, <1>k, <2>s
  <2>2. VerifiedStatus(k.blocked, k.failed) \in {"READY", "DEGRADED", "FAILED"}
        /\ (VerifiedStatus(k.blocked, k.failed) = "READY" => outcome = "supported")
    BY <1>2 DEF VerifiedStatus
  <2>3. /\ s \in Working /\ s.id = r.id /\ s.op = r.op /\ s.phase = "memory"
        /\ s.copy.status = VerifiedStatus(k.blocked, k.failed)
    BY <1>2, <2>2, <2>s DEF Working, Records, ComputerStatuses
  <2>4. Underway(s)
    BY <2>3 DEF Underway
  <2>5. s.copy.status \in DOMAIN Promises => container[owner[r.id]] = Promises[s.copy.status]
    BY <1>1, <2>2, <2>3 DEF Promises
  <2> QED BY <1>0, <1>3, <2>1, <2>3, <2>4, <2>5, WorkStep DEF ComputerTables
<1> QED BY <1>4, <1>5

\* A restart: the rows and the containers are left.
LEMMA ComputerCrash_Inv ==
    ASSUME ComputerInv, ServerCrash
    PROVE  ComputerInv'
<1>0. /\ crashes' = crashes + 1 /\ crashes \in 0..MaxCrashes /\ crashes < MaxCrashes
      /\ \A w \in Workers : req'[w] = Idle
      /\ \A c \in Computers : computers'[c] = NoComputer
      /\ UNCHANGED <<owner, mode, rows, container, provisioned, overtaken>>
  BY DEF ServerCrash, ComputerInv, ComputerTables, historyVars
<1>1. ComputerTables'
  <2>1. crashes' \in 0..MaxCrashes
    BY <1>0, MaxCrashesAssumption
  <2>2. /\ computers' \in [Computers -> Records \cup {NoComputer}]
        /\ req' \in [Workers -> {Idle} \cup Working]
    BY DEF ServerCrash
  <2> QED BY <1>0, <2>1, <2>2 DEF ComputerInv, ComputerTables
<1>2. RequestsUnderway'
  BY <1>0 DEF RequestsUnderway
<1>3. Truthful'
  BY <1>0 DEF Truthful, Idle
<1>4. Accounted'
  BY <1>0 DEF Accounted
<1> QED BY <1>1, <1>2, <1>3, <1>4 DEF ComputerInv

\* A command of provisioning: all computers of the project are overtaken.
LEMMA Provision_Inv ==
    ASSUME ComputerInv, NEW p \in Owners, Provision(p)
    PROVE  ComputerInv'
<1>1. PICK cmd \in {"create", "start", "stop", "destroy"} :
        /\ container[p] = Needs[cmd]
        /\ container' = [container EXCEPT ![p] = Leaves[cmd]]
        /\ provisioned' = IF cmd = "create" THEN provisioned \cup {p} ELSE provisioned
  BY DEF Provision
<1>2. /\ overtaken' = overtaken \cup Sharing(p)
      /\ UNCHANGED <<owner, mode, computers, rows, req, crashes>>
  BY DEF Provision
<1>3. Leaves[cmd] \in {"none", "stopped", "running"} /\ (Needs[cmd] = "none" => cmd = "create")
  BY DEF Leaves, Needs
<1>4. ComputerTables'
  BY <1>1, <1>2, <1>3 DEF ComputerInv, ComputerTables, Sharing
<1>5. RequestsUnderway'
  BY <1>2 DEF ComputerInv, RequestsUnderway, Underway
<1>6. Truthful'
  <2>1. ASSUME NEW d \in Computers, d \notin overtaken'
        PROVE  d \notin overtaken /\ owner[d] \in Owners /\ container'[owner[d]] = container[owner[d]]
    BY <1>1, <1>2, <2>1 DEF Sharing, ComputerInv, ComputerTables
  <2> QED BY <1>2, <2>1 DEF ComputerInv, Truthful, TrueOf, Promises
<1>7. Accounted'
  <2>1. \A q \in Owners \ provisioned' : container'[q] # "none" =>
          q \notin provisioned /\ container[q] # "none"
    BY <1>1, <1>3 DEF ComputerInv, ComputerTables
  <2> QED BY <1>2, <2>1 DEF ComputerInv, Accounted, RowsInMap, CreatesAlone, StoresInMap,
                            Claimed, Known, Marked
<1> QED BY <1>4, <1>5, <1>6, <1>7 DEF ComputerInv

\* At the start there is no computer, no request and no container.
LEMMA ComputerInit_Inv ==
    ASSUME ComputerInit
    PROVE  ComputerInv
<1>0. /\ \A w \in Workers : req[w] = Idle
      /\ \A c \in Computers : computers[c] = NoComputer /\ rows[c] = NoComputer
      /\ \A p \in Owners : container[p] = "none"
  BY DEF ComputerInit
<1>1. ComputerTables
  BY MaxCrashesAssumption, ModesAssumption DEF ComputerInit, ComputerTables
<1>2. RequestsUnderway
  BY <1>0 DEF RequestsUnderway
<1>3. Truthful
  BY <1>0 DEF Truthful, Idle
<1>4. Accounted
  BY <1>0 DEF Accounted, RowsInMap, CreatesAlone, StoresInMap, Claimed, Idle
<1> QED BY <1>1, <1>2, <1>3, <1>4 DEF ComputerInv

\* ComputerInv holds in every reachable state.
LEMMA ComputerInvariance == ComputerSpec => []ComputerInv
<1>1. ComputerInv /\ UNCHANGED computerVars => ComputerInv'
  BY DEF computerVars, historyVars, ComputerInv, ComputerTables, RequestsUnderway, Underway, Truthful, TrueOf,
         Accounted, RowsInMap, CreatesAlone, StoresInMap, Claimed, Known, Marked,
         Promises
<1>2. ASSUME ComputerInv, ComputerNext PROVE ComputerInv'
  BY <1>2, Arrive_Inv, CommandSucceeds_Inv, CommandFails_Inv, CleanUp_Inv, Check_Inv,
     SaveMemory_Inv, SaveStore_Inv, ComputerCrash_Inv, Provision_Inv DEF ComputerNext, Serve
<1> QED BY <1>1, <1>2, ComputerInit_Inv, PTL DEF ComputerSpec

\* What the manager answers of a computer is true of its container once the
\* requests of the project have ended, unless somebody else (provisioning,
\* another computer of the project, a request that overlapped) worked on the
\* container since: for any number of computers, projects, capability lists,
\* overlapping requests, failed commands, failed saves and restarts.
THEOREM RecordsAreTrue == ComputerSpec => []RecordsTrue
<1>1. ASSUME ComputerInv PROVE RecordsTrue
  <2>0. ComputerTables
    BY <1>1 DEF ComputerInv
  <2>1. ASSUME NEW w \in InFlight
        PROVE  /\ req[w].id \in Computers /\ req[w].copy \in Records
               /\ req[w].phase \in {"run", "undo", "memory", "store"}
               /\ req[w].phase = "run" => req[w].todo # <<>>
    <3>1. w \in Workers /\ req[w] # Idle /\ req[w] \in Working
      BY <2>0, WorkerFacts DEF InFlight
    <3>2. Underway(req[w])
      BY <1>1, <3>1 DEF ComputerInv, RequestsUnderway
    <3>3. req[w].phase = "run" => req[w].todo # <<>>
      <4>1. CASE req[w].op = "VERIFY"
        BY <3>2, <4>1 DEF Underway
      <4>2. CASE req[w].op # "VERIFY"
        <5>1. req[w].op \in {"CREATE", "START", "STOP", "RESTART", "DESTROY"}
          BY <3>1, <4>2 DEF Working
        <5> QED BY <3>2, <4>2, <5>1, LeftFacts DEF Underway
      <4> QED BY <4>1, <4>2
    <3> QED BY <3>1, <3>3 DEF Working
  <2>2. ComputerTypeOK
    BY <2>0, <2>1 DEF ComputerTables, ComputerTypeOK
  <2>3. MemoryIsTrue
    <3> SUFFICES ASSUME NEW c \in Computers \ overtaken,
                        \A w \in InFlight : owner[req[w].id] # owner[c],
                        computers[c] # NoComputer
                 PROVE  TrueOf(c, computers[c].status)
      BY DEF MemoryIsTrue, TrueOf
    <3>1. \A w \in Workers : req[w] # Idle => req[w].id # c
      BY DEF InFlight
    <3> QED BY <1>1, <3>1 DEF ComputerInv, Truthful, Idle
  <2> QED BY <2>2, <2>3 DEF RecordsTrue
<1> QED BY <1>1, ComputerInvariance, PTL

\* Until the first restart no container but one of provisioning's is left behind
\* by computers that are all called DESTROYED, however many requests overlap on however many computers of
\* one project, and whichever of their commands fail.
THEOREM NoOrphans == ComputerSpec => []NoSilentOrphan
<1>1. ComputerInv => NoSilentOrphan
  BY DEF ComputerInv, Accounted, Claimed, NoSilentOrphan, Known, Marked, InFlight
<1> QED BY <1>1, ComputerInvariance, PTL
=============================================================================
