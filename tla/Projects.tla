------------------------------ MODULE Projects ------------------------------
(***************************************************************************)
(* Projects: the lifecycle service (internal/lifecycle), the status        *)
(* machine of domain/project, the projects table and the handlers of       *)
(* httpapi/server.go, composed with Accounts: who may act on a project is  *)
(* decided by sessions and memberships, and creating a project ends with   *)
(* making its creator the owner.                                           *)
(*                                                                         *)
(* ChangeStatus reads the row, acts on the runtime, and only then asks     *)
(* whether the change of status is allowed.                                *)
(***************************************************************************)
EXTENDS Accounts

VARIABLES
    projects,       \* the projects table
    container,      \* the runtime of each project, "suda-<slug>"
    unsaved         \* history: projects whose last change of the runtime could
                    \* not be saved

vars == <<mode, accountVars, req, projects, container, unsaved>>

Statuses == {"CREATING", "PREPARING", "READY", "RUNNING", "STOPPING", "STOPPED",
             "RECOVERING", "FAILED", "DESTROYED"}

\* Mutant: a stopped project cannot be started again.
AllowedOnce(from, to) ==
    <<from, to>> \in {<<"READY", "RUNNING">>, <<"READY", "STOPPED">>}

\* project.allowed.
Allowed(from, to) ==
    \/ from = "CREATING"   /\ to \in {"PREPARING", "FAILED"}
    \/ from = "PREPARING"  /\ to \in {"READY", "FAILED"}
    \/ from = "READY"      /\ to \in {"RUNNING", "STOPPED", "FAILED"}
    \/ from = "RUNNING"    /\ to \in {"STOPPING", "RECOVERING", "FAILED"}
    \/ from = "STOPPING"   /\ to \in {"STOPPED", "FAILED"}
    \/ from = "STOPPED"    /\ to \in {"RUNNING", "RECOVERING", "DESTROYED"}
    \/ from = "RECOVERING" /\ to \in {"READY", "RUNNING", "FAILED"}
    \/ from = "FAILED"     /\ to \in {"RECOVERING", "DESTROYED"}

\* runtime: the row carries a runtime_id.
Rows == [status : Statuses, runtime : BOOLEAN]

ASSUME RowsAssumption == None \notin Rows

\* project.New, the row Projects.Create inserts.
NewProject == [status |-> "CREATING", runtime |-> FALSE]

\* Projects.Update writes the whole row.
Update(p, row) == projects' = [projects EXCEPT ![p] = row]

projectUnchanged == UNCHANGED <<mode, projects, container, unsaved>>

accountUnchanged == UNCHANGED <<mode, accountVars>>

-----------------------------------------------------------------------------
\* createProject: an authenticated user, a name whose slug is new.
CreateProject(w, by, p) ==
    /\ MayBegin(w)
    /\ Authenticated(by)
    /\ projects[p] = None
    /\ \A v \in InFlight : req[v].op = "create" => req[v].project # p
    /\ req' = [req EXCEPT ![w] = [op |-> "create", at |-> "row", project |-> p,
                                  user |-> by]]
    /\ accountUnchanged /\ UNCHANGED <<projects, container, unsaved>>

\* Lifecycle.Create, before the runtime: the row is inserted, then PREPARING.
InsertProject(w) ==
    /\ req[w].at = "row"
    /\ Update(req[w].project, NewProject)
    /\ Goto(w, "prepare")
    /\ accountUnchanged /\ UNCHANGED <<container, unsaved>>

PrepareProject(w) ==
    /\ req[w].at = "prepare"
    /\ Update(req[w].project, [status |-> "PREPARING", runtime |-> FALSE])
    /\ Goto(w, "runtime")
    /\ accountUnchanged /\ UNCHANGED <<container, unsaved>>

\* Runtime.Create leaves a stopped runtime, or fails and may leave one too.
CreateRuntime(w) ==
    LET p == req[w].project IN
    /\ req[w].at = "runtime"
    /\ \/ /\ container[p] = "none"
          /\ container' = [container EXCEPT ![p] = "stopped"]
          /\ Goto(w, "ready") \/ Goto(w, "failed")
       \/ Goto(w, "failed") /\ UNCHANGED container
    /\ accountUnchanged /\ UNCHANGED <<projects, unsaved>>

\* The failure is saved, then the handler returns the error.
SaveFailed(w) ==
    /\ req[w].at = "failed"
    /\ Update(req[w].project, [status |-> "FAILED", runtime |-> FALSE])
    /\ Finish(w)
    /\ accountUnchanged /\ UNCHANGED <<container, unsaved>>

\* Lifecycle.Create, after the runtime.
SaveReady(w) ==
    /\ req[w].at = "ready"
    /\ Update(req[w].project, [status |-> "READY", runtime |-> TRUE])
    /\ Goto(w, "grant")
    /\ accountUnchanged /\ UNCHANGED <<container, unsaved>>

\* The last step of createProject: the creator becomes the owner.
GrantOwner(w) ==
    /\ req[w].at = "grant"
    /\ members' = [members EXCEPT ![req[w].project][req[w].user] = "owner"]
    /\ Finish(w)
    /\ projectUnchanged /\ UNCHANGED <<users, credentials, sessions, lock>>

-----------------------------------------------------------------------------
\* ChangeStatus, first part: read the row; without a runtime nothing is done.
ChangeStatus(w, p, next) ==
    /\ projects[p] # None /\ projects[p].runtime
    /\ req' = [req EXCEPT ![w] = [op |-> "change", at |-> "act", project |-> p,
                                  next |-> next, row |-> projects[p]]]
    /\ accountUnchanged /\ UNCHANGED <<projects, container, unsaved>>

\* changeProjectStatus, the handler of start and stop.
ChangeProjectStatus(w, by, p, next) ==
    /\ MayBegin(w)
    /\ Authenticated(by)
    /\ MayAccess(by, p, "run")
    /\ ChangeStatus(w, p, next)

StartProject(w, by, p) == ChangeProjectStatus(w, by, p, "RUNNING")

StopProject(w, by, p) == ChangeProjectStatus(w, by, p, "STOPPED")

\* Start needs a stopped runtime and stop a running one; both can fail.
ActOnRuntime(w) ==
    LET p == req[w].project
        from == IF req[w].next = "RUNNING" THEN "stopped" ELSE "running"
        to == IF req[w].next = "RUNNING" THEN "running" ELSE "stopped"
    IN
    /\ req[w].at = "act"
    /\ \/ /\ container[p] = from
          /\ container' = [container EXCEPT ![p] = to]
          /\ Goto(w, "save")
       \/ Finish(w) /\ UNCHANGED container
    /\ accountUnchanged /\ UNCHANGED <<projects, unsaved>>

\* Transition on the row read at the start, then Update.
SaveStatus(w) ==
    LET r == req[w] IN
    /\ r.at = "save"
    /\ IF Allowed(r.row.status, r.next)
       THEN Update(r.project, [r.row EXCEPT !.status = r.next])
       ELSE UNCHANGED projects
    /\ Finish(w)
    /\ unsaved' = unsaved \ {r.project}
    /\ accountUnchanged /\ UNCHANGED container

\* A statement of the request fails; at "save" the runtime has been changed.
RequestFails(w) ==
    /\ StatementFails(w)
    /\ unsaved' = IF req[w].at = "save" THEN unsaved \cup {req[w].project} ELSE unsaved
    /\ UNCHANGED <<mode, projects, container>>

-----------------------------------------------------------------------------
Init ==
    /\ mode \in Modes
    /\ AccountInit
    /\ projects = [p \in Projects |-> None]
    /\ container = [p \in Projects |-> "none"]
    /\ unsaved = {}
    /\ req = [w \in Workers |-> Idle]

ServeProject(w) ==
    \/ InsertProject(w) \/ PrepareProject(w) \/ CreateRuntime(w) \/ SaveFailed(w)
    \/ SaveReady(w) \/ GrantOwner(w) \/ ActOnRuntime(w) \/ SaveStatus(w)

\* Requests on the project of the path; its row must exist (foreign key).
ProjectRequest(w, by, p) ==
    \/ CreateProject(w, by, p) \/ StartProject(w, by, p) \/ StopProject(w, by, p)
    \/ /\ projects[p] # None
       /\ \E u \in Users :
            \/ RemoveMember(w, by, p, u)
            \/ \E role \in Roles : SetMember(w, by, p, u, role)
       /\ projectUnchanged

Serve(w) ==
    \/ ServeProject(w)
    \/ ServeAccount(w) /\ projectUnchanged

Next ==
    \/ AccountRequest /\ projectUnchanged
    \/ \E w \in Workers :
         \/ Serve(w)
         \/ RequestFails(w)
         \/ \E by \in Users, p \in Projects : ProjectRequest(w, by, p)

\* The server and the database keep executing an accepted request.
Spec == Init /\ [][Next]_vars /\ \A w \in Workers : WF_vars(Serve(w))

-----------------------------------------------------------------------------
\* Every table holds rows of its type and every request is at a known step.
TypeOK ==
    /\ AccountTypeOK
    /\ projects \in [Projects -> Rows \cup {None}]
    /\ container \in [Projects -> {"none", "stopped", "running"}]
    /\ unsaved \subseteq Projects
    /\ \A w \in InFlight : req[w].at \in
         {"lock", "recount", "insert", "session", "upsert", "count", "delete",
          "row", "prepare", "runtime", "failed", "ready", "grant", "act", "save"}

\* A bootstrap that waits for the advisory lock gets it or its transaction
\* ends: every path of the transaction that holds the lock frees it.
LockComes == \A w \in Workers : req[w].at = "lock" ~> req[w].at # "lock"

\* "cannot remove the last owner" (httpapi/project_members.go): one request at
\* a time, a project that has an owner loses the last one only when that owner
\* is given another role, never by a removal.
LastOwnerStays ==
    [][~mode.overlap =>
        \A p \in Projects :
            Owners(p) # {} /\ Owners(p)' = {} =>
                \E w \in InFlight : req[w].op = "set"]_vars

\* One request at a time, a runtime that runs is known: its project is saved
\* RUNNING, or is about to be, unless the last change could not be saved.
\* ChangeStatus asks for the transition only after the runtime was started, so
\* every status a project with a runtime can have must allow what was done.
RunningIsKnown ==
    ~mode.overlap =>
        \A p \in Projects :
            container[p] = "running" /\ p \notin unsaved =>
                \/ projects[p] # None /\ projects[p].status = "RUNNING"
                \/ \E w \in Workers : req[w].at = "save" /\ req[w].project = p

\* The tables are well formed, and however bootstraps race or fail there is
\* one administrator and every session has its account.
AccountsSound == TypeOK /\ OneAdministrator /\ SessionHasAccount
=============================================================================
