------------------------------- MODULE Ports -------------------------------
(***************************************************************************)
(* Reservation of external ports: PostgresPortRegistry of                  *)
(* internal/deployment/port_store.go behind deploymentReservePort.         *)
(*                                                                         *)
(* Reserve looks the port up and inserts its row in two statements without *)
(* a transaction; a look-up that fails counts as a free port.  The table   *)
(* is unique in the binding's id and in protocol and port; the insertion   *)
(* updates the row of the port if it has the same id and otherwise does    *)
(* nothing, without an error.  The handler then records the binding in a   *)
(* second table and drops the result.                                      *)
(***************************************************************************)
EXTENDS Naturals, FiniteSets

CONSTANTS
    Bindings,       \* requests: project, id (None: to be derived) and port
    Endpoints,      \* external ports: protocol and number
    PortWorkers,    \* requests that can be in flight
    None

\* The id of the row: the one of the request, or one of project and number,
\* which a port of the other protocol shares.
BindingID(b) == IF b.id = None THEN <<b.project, b.port.number>> ELSE b.id

\* Requests are for these ports, a derived id is never the empty one, and a row
\* is not the absence of one.
ASSUME BindingsAssumption ==
    \A b \in Bindings :
        /\ b.port \in Endpoints
        /\ <<b.project, b.port.number>> # None
        /\ [id |-> BindingID(b), project |-> b.project] # None

VARIABLES
    ports,          \* deployment_port_bindings, by port: id and project
    recorded,       \* deployment_ports, by port: the id
    reserving,      \* the requests in flight
    granted,        \* the binding the last step reported RESERVED, else None
    released,       \* history: a binding was released
    misled          \* history: RESERVED was reported to one who has no row

portVars == <<ports, recorded, reserving, granted, released, misled>>

PortInit ==
    /\ ports = [p \in Endpoints |-> None]
    /\ recorded = [p \in Endpoints |-> None]
    /\ reserving = [w \in PortWorkers |-> None]
    /\ granted = None
    /\ released = FALSE /\ misled = FALSE

\* Mutant: the port's owner is not looked up.
LookedUpFree(b) == TRUE

\* The SELECT of Reserve: no row, or the row of the binding that is asked for.
\* (A binding without an id never equals the one it was given.)
LookedUp(b) == ports[b.port] # None => ports[b.port].id = b.id

\* deploymentReservePort and Reserve, up to the check; a conflict is answered.
\* A SELECT that fails is not told from one that finds no row.
Reserve(w, b) ==
    /\ reserving[w] = None
    /\ \E told \in BOOLEAN :
        /\ told => LookedUp(b)
        /\ reserving' = [reserving EXCEPT ![w] =
                            [at |-> "insert", b |-> b, told |-> told, row |-> ports[b.port]]]
    /\ granted' = None
    /\ UNCHANGED <<ports, recorded, released, misled>>

\* The row a request wants.
RowOf(b) == [id |-> BindingID(b), project |-> b.project]

\* The primary key: the port has no row and the id is the id of another's.
Taken(b) ==
    /\ ports[b.port] = None
    /\ \E p \in Endpoints : ports[p] # None /\ ports[p].id = BindingID(b)

\* Mutant: the update has no condition.
UpsertAlways(b) == [ports EXCEPT ![b.port] = RowOf(b)]

\* INSERT ... ON CONFLICT(protocol,external_port) DO UPDATE ... WHERE the id is equal.
Upsert(b) ==
    IF ports[b.port] = None \/ ports[b.port].id = BindingID(b)
    THEN [ports EXCEPT ![b.port] = RowOf(b)]
    ELSE ports

\* The statement succeeds, changing a row or not: the request is told RESERVED.
\* (fresh: the look-up was answered and the row is still the one it found.)
Insert(w) ==
    LET r == reserving[w] IN
    /\ r # None /\ r.at = "insert"
    /\ ~Taken(r.b)
    /\ ports' = Upsert(r.b)
    /\ reserving' = [reserving EXCEPT ![w].at = "save"]
    /\ granted' = [id |-> BindingID(r.b), project |-> r.b.project, port |-> r.b.port,
                   fresh |-> r.told /\ ports[r.b.port] = r.row]
    /\ misled' = (misled \/ ports'[r.b.port] # RowOf(r.b))
    /\ UNCHANGED <<recorded, released>>

\* The statement violates the primary key, or the database fails it, before or
\* after it was carried out: an error is answered.
InsertFails(w) ==
    LET r == reserving[w] IN
    /\ r # None /\ r.at = "insert"
    /\ \/ UNCHANGED ports
       \/ ~Taken(r.b) /\ ports' = Upsert(r.b)
    /\ reserving' = [reserving EXCEPT ![w] = None]
    /\ granted' = None
    /\ UNCHANGED <<recorded, released, misled>>

\* SavePort: the second table has the same keys, and its update leaves the port;
\* it may fail (a foreign key, the database), which nobody hears of.
SavePort(w) ==
    LET b == reserving[w].b
        known == \E p \in Endpoints : recorded[p] = BindingID(b)
    IN
    /\ reserving[w] # None /\ reserving[w].at = "save"
    /\ \/ ~known /\ recorded[b.port] = None
          /\ recorded' = [recorded EXCEPT ![b.port] = BindingID(b)]
       \/ UNCHANGED recorded
    /\ reserving' = [reserving EXCEPT ![w] = None]
    /\ granted' = None
    /\ UNCHANGED <<ports, released, misled>>

\* Release deletes the row of the registry; deployment_ports keeps its own.
Release(p) ==
    /\ ports[p] # None
    /\ ports' = [ports EXCEPT ![p] = None]
    /\ released' = TRUE /\ granted' = None
    /\ UNCHANGED <<recorded, reserving, misled>>

\* The server stops: requests end where they are.
PortsCrash ==
    /\ reserving' = [w \in PortWorkers |-> None]
    /\ granted' = None
    /\ UNCHANGED <<ports, recorded, released, misled>>

PortsNext ==
    \/ \E w \in PortWorkers :
          \/ \E b \in Bindings : Reserve(w, b)
          \/ Insert(w) \/ InsertFails(w) \/ SavePort(w)
    \/ \E p \in Endpoints : Release(p)

-----------------------------------------------------------------------------
\* Whoever is told RESERVED holds the port, however requests overlap, unless its
\* look-up failed or the row changed between its look-up and its insertion.
\* (Then the insertion changes nothing and reports no error.)
GrantedIsHeld ==
    granted # None /\ granted.fresh =>
        ports[granted.port] = [id |-> granted.id, project |-> granted.project]

\* However requests overlap, a reserved port keeps its binding until the
\* binding is released.
PortKept ==
    [][\A p \in Endpoints : ports[p] # None /\ ports'[p] # None
                                  => ports'[p].id = ports[p].id]_portVars

\* As long as nothing was released and nobody was misled, the second table
\* names for every port the binding that holds it, however requests overlap.
RecordAgrees ==
    ~misled /\ ~released =>
        \A p \in Endpoints : recorded[p] # None =>
            ports[p] # None /\ ports[p].id = recorded[p]
=============================================================================
