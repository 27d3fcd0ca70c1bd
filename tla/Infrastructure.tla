--------------------------- MODULE Infrastructure ---------------------------
(***************************************************************************)
(* One server with the port registry and the shared infrastructure: a stop *)
(* of the server ends the requests of both.                                *)
(***************************************************************************)
EXTENDS Ports, SharedInfra

CONSTANT Parts      \* what a behaviour follows: "ports" or "shared"

VARIABLE part

vars == <<part, portVars, sharedVars>>

Init == part \in Parts /\ PortInit /\ SharedInit

\* The server stops.
Crash ==
    /\ IF part = "ports" THEN PortsCrash /\ UNCHANGED sharedVars
       ELSE SharedCrash /\ UNCHANGED portVars
    /\ UNCHANGED part

Next ==
    \/ part = "ports" /\ PortsNext /\ UNCHANGED <<part, sharedVars>>
    \/ part = "shared" /\ SharedNext /\ UNCHANGED <<part, portVars>>
    \/ Crash

Spec == Init /\ [][Next]_vars

-----------------------------------------------------------------------------
BindingIDs == {BindingID(b) : b \in Bindings}
Projects == {b.project : b \in Bindings}
PortRows == [id : BindingIDs, project : Projects]
Sums == {a.sum : a \in Artifacts}
Statuses == {"HIT", "CORRUPT", "INVALID"}

\* Types, and the cache is in use only while the server runs.
TypeOK ==
    /\ part \in Parts /\ released \in BOOLEAN /\ misled \in BOOLEAN
    /\ \A p \in Endpoints :
         /\ ports[p] \in PortRows \cup {None}
         /\ recorded[p] \in BindingIDs \cup {None}
    /\ \A w \in PortWorkers :
         reserving[w] \in [at : {"insert", "save"}, b : Bindings, told : BOOLEAN,
                           row : PortRows \cup {None}] \cup {None}
    /\ granted \in [id : BindingIDs, project : Projects, port : Endpoints, fresh : BOOLEAN]
                   \cup {None}
    /\ phase \in {"off", "load", "seed", "hydrate", "up"} /\ faults \in BOOLEAN
    /\ \A t \in Tools :
         /\ toolRows[t] \in (SUBSET VersionsOf(t)) \cup {Absent}
         /\ registry[t] \in Seq([version : VersionsOf(t), sum : Sums \cup {Absent}])
    /\ cut \subseteq Tools /\ short \subseteq Tools
    /\ \A i \in IDs :
         /\ artifactRows[i] \in Sums \cup {Absent}
         /\ entryRows[i] \in Statuses \cup {Absent}
         /\ blobRows[i] \in Sums \cup {Rotten, Absent}
    /\ \A a \in Artifacts :
         entries[a] \in Statuses \cup {Absent} /\ blobs[a] \in Sums \cup {Absent}
    /\ call # Absent => phase = "up" /\ call.a \in Artifacts
    /\ held \subseteq Artifacts /\ dropped \subseteq Artifacts

\* The state is well formed, who is told RESERVED after a look-up that still
\* holds has the port, and both tables agree until somebody is misled.
PortsSound == TypeOK /\ GrantedIsHeld /\ RecordAgrees

\* The cache answers for what it holds: no false hit, nothing put is lost,
\* nothing invalidated comes back.
CacheSound == NoFalseHit /\ PutIsFound /\ InvalidStays
=============================================================================
