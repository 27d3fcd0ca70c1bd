--------------------------- MODULE ProjectsProofs ---------------------------
(***************************************************************************)
(* Proofs about accounts and projects, for any users, projects, roles,     *)
(* sessions and requests in flight, with statements that fail anywhere.    *)
(***************************************************************************)
EXTENDS Projects, FiniteSetTheorems, TLAPS

\* The requests, by handler, and the steps at which they can be.
Bootstrapping ==
    [op : {"bootstrap"}, at : {"lock", "recount", "insert", "session"}, user : Users]
LoggingIn == [op : {"login"}, at : {"session"}, user : Users]
Setting ==
    [op : {"set"}, at : {"upsert"}, user : Users, project : Projects, role : Roles]
Counting == [op : {"remove"}, at : {"count"}, user : Users, project : Projects]
\* What the subquery counted is whatever Cardinality is of a set of users.
Deleting ==
    [op : {"remove"}, at : {"delete"}, user : Users, project : Projects,
     owners : {Cardinality(U) : U \in SUBSET Users}]
Creating ==
    [op : {"create"}, at : {"row", "prepare", "runtime", "failed", "ready", "grant"},
     project : Projects, user : Users]
Changing ==
    [op : {"change"}, at : {"act", "save"}, project : Projects,
     next : {"RUNNING", "STOPPED"}, row : {r \in Rows : r.runtime}]

AccountRequests == Bootstrapping \cup LoggingIn \cup Setting \cup Counting \cup Deleting
Requests == {Idle} \cup AccountRequests \cup Creating \cup Changing

\* Every request is one of these.
ReqOK == req \in [Workers -> Requests]

\* A request in the critical section of the bootstrap holds the lock, one that
\* is about to insert has seen no user, one about to open a session has an
\* account.
Secured(w) ==
    /\ req[w].at \in {"recount", "insert"} => lock = w
    /\ req[w].at = "insert" => NoUsers
    /\ req[w].at = "session" => Exists(req[w].user) /\ req[w].user \in credentials
BootInv == \A w \in Workers : Secured(w)

\* There are no two administrators.
SoleAdmin == \A u, v \in Users : users[u] = "admin" /\ users[v] = "admin" => u = v

\* What a request read is still so when it acts on it.
Current(w) ==
    LET p == req[w].project IN
    /\ req[w].at = "delete" => req[w].owners = Cardinality(Owners(p))
    /\ req[w].at = "row" => projects[p] = None
    /\ req[w].at \in {"prepare", "runtime", "failed", "ready"} =>
          projects[p].status # "RUNNING"
    /\ req[w].at \in {"act", "save"} => projects[p] = req[w].row

\* One request at a time.
Calm ==
    ~mode.overlap =>
        /\ \A v, w \in Workers : req[v] # Idle /\ req[w] # Idle => v = w
        /\ \A w \in Workers : Current(w)

Tables ==
    /\ AccountTypeOK
    /\ projects \in [Projects -> Rows \cup {None}]
    /\ container \in [Projects -> {"none", "stopped", "running"}]

IInv == Tables /\ ReqOK /\ BootInv /\ SoleAdmin /\ SessionHasAccount /\ Calm

-----------------------------------------------------------------------------
\* Which request is at a step.
LEMMA RequestAt ==
    ASSUME NEW r \in Requests
    PROVE  /\ r # Idle <=> r.at # "idle"
           /\ r.at \in {"lock", "recount", "insert"} => r \in Bootstrapping
           /\ r.at = "session" => r \in Bootstrapping \cup LoggingIn
           /\ r.at = "upsert" => r \in Setting
           /\ r.at = "count" => r \in Counting
           /\ r.at = "delete" => r \in Deleting
           /\ r.at \in {"row", "prepare", "runtime", "failed", "ready", "grant"}
                 => r \in Creating
           /\ r.at \in {"act", "save"} => r \in Changing
BY DEF Requests, AccountRequests, Idle, Bootstrapping, LoggingIn, Setting, Counting,
       Deleting, Creating, Changing

\* The invariant gives the types the runs check.
LEMMA IInvTypes == IInv /\ unsaved \subseteq Projects => TypeOK
BY RequestAt DEF IInv, Tables, ReqOK, TypeOK, InFlight, Requests, AccountRequests,
    Bootstrapping, LoggingIn, Setting, Counting, Deleting, Creating, Changing, Idle

\* A set with at most one element.
LEMMA AtMostOne == SoleAdmin => OneAdministrator
<1> SUFFICES ASSUME SoleAdmin PROVE OneAdministrator
    OBVIOUS
<1> DEFINE admins == {u \in Users : users[u] = "admin"}
<1>1. CASE admins = {}
    BY <1>1, FS_EmptySet DEF OneAdministrator
<1>2. CASE admins # {}
    <2>1. PICK u \in Users : users[u] = "admin"
        BY <1>2
    <2>2. admins = {u}
        BY <2>1 DEF SoleAdmin
    <2> QED
        BY <2>2, FS_Singleton DEF OneAdministrator
<1> QED
    BY <1>1, <1>2

LEMMA InitIInv == Init => IInv
<1> SUFFICES ASSUME Init PROVE IInv
    OBVIOUS
<1> USE DEF Init, AccountInit
<1>1. Tables
    BY DEF Tables, AccountTypeOK
<1>2. ReqOK
    BY DEF ReqOK, Requests
<1>3. BootInv /\ Calm
    BY DEF BootInv, Secured, Calm, Current, Idle
<1>4. SoleAdmin /\ SessionHasAccount
    BY NoneAssumption DEF SoleAdmin, SessionHasAccount
<1> QED
    BY <1>1, <1>2, <1>3, <1>4 DEF IInv

-----------------------------------------------------------------------------
\* What a step of one request owes the invariant: alone, the others are idle.
LEMMA Served ==
    ASSUME IInv, NEW w \in Workers, NEW r \in Requests, req' = [req EXCEPT ![w] = r],
           mode' = mode, req[w] # Idle \/ MayBegin(w),
           Tables', BootInv', SoleAdmin', SessionHasAccount',
           ~mode.overlap => Current(w)'
    PROVE  IInv'
<1>1. ReqOK'
    BY DEF IInv, ReqOK
<1>2. Calm'
    <2> SUFFICES ASSUME ~mode.overlap PROVE Calm'
        BY DEF Calm
    <2>1. \A v \in Workers : v # w => req[v] = Idle
        BY DEF IInv, Calm, MayBegin, InFlight
    <2>2. \A v \in Workers : v # w => req'[v] = Idle
        BY <2>1 DEF IInv, ReqOK
    <2>3. \A v \in Workers : v # w => Current(v)'
        BY <2>2 DEF Current, Idle
    <2> QED
        BY <2>2, <2>3 DEF Calm
<1> QED
    BY <1>1, <1>2 DEF IInv

\* A step that leaves the accounts alone and enters no critical step.
LEMMA AccountsFrame ==
    ASSUME IInv, NEW w \in Workers, NEW r \in Requests, req' = [req EXCEPT ![w] = r],
           UNCHANGED <<users, credentials, sessions, lock>>,
           r.at \notin {"recount", "insert", "session"}
    PROVE  BootInv' /\ SoleAdmin' /\ SessionHasAccount'
<1>1. BootInv'
    <2> SUFFICES ASSUME NEW v \in Workers PROVE Secured(v)'
        BY DEF BootInv
    <2>1. CASE v = w
        BY <2>1 DEF Secured, IInv, ReqOK
    <2>2. CASE v # w
        BY <2>2 DEF Secured, IInv, ReqOK, BootInv, NoUsers, Exists
    <2> QED
        BY <2>1, <2>2
<1> QED
    BY <1>1 DEF IInv, SoleAdmin, SessionHasAccount, Exists

\* A request ends.
LEMMA Ends ==
    ASSUME IInv, NEW w \in Workers, Finish(w), req[w] # Idle, mode' = mode,
           UNCHANGED <<users, credentials, sessions, lock>>, Tables'
    PROVE  IInv'
<1>1. Idle \in Requests /\ Idle.at = "idle"
    BY DEF Requests, Idle
<1>2. BootInv' /\ SoleAdmin' /\ SessionHasAccount'
    BY <1>1, AccountsFrame DEF Finish
<1>3. Current(w)'
    BY <1>1 DEF Current, Finish, IInv, ReqOK
<1> QED
    BY <1>1, <1>2, <1>3, Served DEF Finish

\* The tables when only req changes.
LEMMA TablesFrame ==
    ASSUME IInv, UNCHANGED <<mode, accountVars, projects, container>>
    PROVE  Tables'
BY DEF IInv, Tables, AccountTypeOK, accountVars

-----------------------------------------------------------------------------
\* Requests about accounts.
LEMMA Bootstrap_Inv ==
    ASSUME IInv, NEW w \in Workers, NEW u \in Users, AuthBootstrap(w, u), projectUnchanged
    PROVE  IInv'
<1> DEFINE r == [op |-> "bootstrap", at |-> "lock", user |-> u]
<1>1. r \in Requests
    BY DEF Requests, AccountRequests, Bootstrapping
<1>2. req' = [req EXCEPT ![w] = r]
    BY DEF AuthBootstrap, Bootstrap
<1>3. UNCHANGED <<mode, accountVars, projects, container>> /\ MayBegin(w)
    BY DEF AuthBootstrap, Bootstrap, projectUnchanged
<1>4. BootInv' /\ SoleAdmin' /\ SessionHasAccount'
    BY <1>1, <1>2, <1>3, AccountsFrame DEF accountVars
<1>5. Current(w)'
    BY <1>2 DEF Current, IInv, ReqOK
<1> QED
    BY <1>1, <1>2, <1>3, <1>4, <1>5, TablesFrame, Served

LEMMA Login_Inv ==
    ASSUME IInv, NEW w \in Workers, NEW u \in Users, AuthLogin(w, u), projectUnchanged
    PROVE  IInv'
<1> DEFINE r == [op |-> "login", at |-> "session", user |-> u]
<1>1. r \in Requests
    BY DEF Requests, AccountRequests, LoggingIn
<1>2. req' = [req EXCEPT ![w] = r]
    BY DEF AuthLogin, Login
<1>3. UNCHANGED <<mode, accountVars, projects, container>> /\ MayBegin(w)
    BY DEF AuthLogin, Login, projectUnchanged
<1>4. SoleAdmin' /\ SessionHasAccount'
    BY <1>3 DEF IInv, SoleAdmin, SessionHasAccount, Exists, accountVars
<1>5. BootInv'
    BY <1>2, <1>3 DEF IInv, ReqOK, BootInv, Secured, NoUsers, Exists, accountVars,
                      AuthLogin, Login, FindByEmail
<1>6. Current(w)'
    BY <1>2 DEF Current, IInv, ReqOK
<1> QED
    BY <1>1, <1>2, <1>3, <1>4, <1>5, <1>6, TablesFrame, Served

\* Sessions end, accounts are added: no request moves, no administrator is made
\* and no account is lost.
LEMMA Sessions_Inv ==
    ASSUME IInv, projectUnchanged,
           \/ \E u \in Users : RevokeAll(u) \/ AddAccount(u)
           \/ \E s \in SessionSlots : Logout(s) \/ Expire(s)
    PROVE  IInv'
<1> USE NoneAssumption
<1>0. UNCHANGED <<mode, members, lock, req, projects, container>>
    BY DEF projectUnchanged, RevokeAll, AddAccount, Logout, Expire
<1>1. CASE \E u \in Users : AddAccount(u)
    <2>1. PICK u \in Users : AddAccount(u)
        BY <1>1
    <2>2. /\ users' = [users EXCEPT ![u] = "member"] /\ ~NoUsers
          /\ credentials' = credentials \cup {u} /\ sessions' = sessions
        BY <2>1 DEF AddAccount
    <2>3. Tables'
        BY <1>0, <2>2 DEF IInv, Tables, AccountTypeOK
    <2>4. SoleAdmin' /\ SessionHasAccount'
        BY <2>2 DEF IInv, Tables, AccountTypeOK, SoleAdmin, SessionHasAccount, Exists
    <2>5. BootInv'
        BY <1>0, <2>2 DEF IInv, Tables, AccountTypeOK, BootInv, Secured, Exists
    <2> QED
        BY <1>0, <2>3, <2>4, <2>5 DEF IInv, ReqOK, Calm, Current, Owners, RoleIn
<1>2. CASE ~\E u \in Users : AddAccount(u)
    <2>1. /\ UNCHANGED <<users, credentials>>
          /\ sessions' \in [SessionSlots -> Users \cup {None}]
          /\ \A s \in SessionSlots : sessions'[s] \in {sessions[s], None}
        BY <1>2 DEF RevokeAll, RevokeSessionsOf, Logout, RevokeSession, Expire,
                    IInv, Tables, AccountTypeOK
    <2>2. Tables' /\ SoleAdmin' /\ SessionHasAccount'
        BY <1>0, <2>1 DEF IInv, Tables, AccountTypeOK, SoleAdmin, SessionHasAccount, Exists
    <2> QED
        BY <1>0, <2>1, <2>2 DEF IInv, ReqOK, BootInv, Secured, NoUsers, Exists, Calm,
                                Current, Owners, RoleIn
<1> QED
    BY <1>1, <1>2

-----------------------------------------------------------------------------
\* The bootstrap: the lock admits one request to the second count.
LEMMA TakeLock_Inv ==
    ASSUME IInv, NEW w \in Workers, TakeLock(w), projectUnchanged
    PROVE  IInv'
<1> DEFINE r == [req[w] EXCEPT !.at = "recount"]
<1>0. req[w] \in Bootstrapping /\ req[w] # Idle
    BY RequestAt DEF IInv, ReqOK, TakeLock
<1>1. r \in Requests /\ r.at = "recount"
    BY <1>0 DEF Requests, AccountRequests, Bootstrapping
<1>2. req' = [req EXCEPT ![w] = r] /\ lock = None /\ lock' = w
    BY DEF TakeLock, Goto
<1>3. UNCHANGED <<mode, users, credentials, sessions, members, projects, container>>
    BY DEF TakeLock, projectUnchanged
<1>4. Tables' /\ SoleAdmin' /\ SessionHasAccount'
    BY <1>2, <1>3 DEF IInv, Tables, AccountTypeOK, SoleAdmin, SessionHasAccount, Exists
<1>5. BootInv'
    <2> SUFFICES ASSUME NEW v \in Workers PROVE Secured(v)'
        BY DEF BootInv
    <2>1. CASE v = w
        BY <1>1, <1>2, <2>1 DEF Secured, IInv, ReqOK
    <2>2. CASE v # w
        BY <1>2, <1>3, <2>2, NoneAssumption
           DEF Secured, IInv, ReqOK, BootInv, Exists
    <2> QED
        BY <2>1, <2>2
<1>6. Current(w)'
    BY <1>1, <1>2 DEF Current, IInv, ReqOK
<1> QED
    BY <1>0, <1>1, <1>2, <1>3, <1>4, <1>5, <1>6, Served

\* The holder sees no user, or gives the lock back.
LEMMA Recount_Inv ==
    ASSUME IInv, NEW w \in Workers, Recount(w), projectUnchanged
    PROVE  IInv'
<1> DEFINE r == IF NoUsers THEN [req[w] EXCEPT !.at = "insert"] ELSE Idle
<1>0. req[w] \in Bootstrapping /\ req[w] # Idle /\ lock = w
    BY RequestAt DEF IInv, ReqOK, Recount, BootInv, Secured
<1>1. r \in Requests /\ r.at \in {"insert", "idle"} /\ (r.at = "insert" => NoUsers)
    BY <1>0 DEF Requests, AccountRequests, Bootstrapping, Idle
<1>2. req' = [req EXCEPT ![w] = r] /\ (NoUsers => lock' = lock) /\ lock' \in {w, None}
    BY <1>0 DEF Recount, Goto, Finish
<1>3. UNCHANGED <<mode, users, credentials, sessions, members, projects, container>>
    BY DEF Recount, projectUnchanged
<1>4. Tables' /\ SoleAdmin' /\ SessionHasAccount'
    BY <1>2, <1>3 DEF IInv, Tables, AccountTypeOK, SoleAdmin, SessionHasAccount, Exists
<1>5. BootInv'
    <2> SUFFICES ASSUME NEW v \in Workers PROVE Secured(v)'
        BY DEF BootInv
    <2>1. CASE v = w
        BY <1>0, <1>1, <1>2, <1>3, <2>1 DEF Secured, IInv, ReqOK, NoUsers, Exists
    <2>2. CASE v # w
        BY <1>0, <1>2, <1>3, <2>2 DEF Secured, IInv, ReqOK, BootInv, Exists
    <2> QED
        BY <2>1, <2>2
<1>6. Current(w)'
    BY <1>1, <1>2 DEF Current, IInv, ReqOK
<1> QED
    BY <1>0, <1>1, <1>2, <1>3, <1>4, <1>5, <1>6, Served

\* The holder inserts the only administrator, because it has seen no user and
\* nobody else could insert one since.
LEMMA CommitAdmin_Inv ==
    ASSUME IInv, NEW w \in Workers, CommitAdmin(w), projectUnchanged
    PROVE  IInv'
<1> USE NoneAssumption
<1> DEFINE r == [req[w] EXCEPT !.at = "session"]
<1> DEFINE u == req[w].user
<1>0. req[w] \in Bootstrapping /\ req[w] # Idle /\ lock = w /\ NoUsers /\ u \in Users
    BY RequestAt DEF IInv, ReqOK, CommitAdmin, BootInv, Secured, Bootstrapping
<1>1. r \in Requests /\ r.at = "session" /\ r.user = u
    BY <1>0 DEF Requests, AccountRequests, Bootstrapping
<1>2. /\ req' = [req EXCEPT ![w] = r] /\ lock' = None
      /\ users' = [users EXCEPT ![u] = "admin"]
      /\ credentials' = credentials \cup {u}
    BY DEF CommitAdmin, Goto
<1>3. UNCHANGED <<mode, sessions, members, projects, container>>
    BY DEF CommitAdmin, projectUnchanged
<1>4. Tables'
    BY <1>0, <1>2, <1>3 DEF IInv, Tables, AccountTypeOK
<1>5. SoleAdmin' /\ SessionHasAccount'
    BY <1>0, <1>2, <1>3 DEF IInv, Tables, AccountTypeOK, SoleAdmin, SessionHasAccount,
                            NoUsers, Exists
<1>6. BootInv'
    <2> SUFFICES ASSUME NEW v \in Workers PROVE Secured(v)'
        BY DEF BootInv
    <2>1. CASE v = w
        BY <1>0, <1>1, <1>2, <2>1
           DEF Secured, IInv, ReqOK, Tables, AccountTypeOK, Exists
    <2>2. CASE v # w
        BY <1>0, <1>2, <2>2
           DEF Secured, IInv, ReqOK, BootInv, Tables, AccountTypeOK, Exists
    <2> QED
        BY <2>1, <2>2
<1>7. Current(w)'
    BY <1>1, <1>2 DEF Current, IInv, ReqOK
<1> QED
    BY <1>0, <1>1, <1>2, <1>3, <1>4, <1>5, <1>6, <1>7, Served

\* A session is opened for the account of the request.
LEMMA CreateSession_Inv ==
    ASSUME IInv, NEW w \in Workers, CreateSession(w), projectUnchanged
    PROVE  IInv'
<1> DEFINE u == req[w].user
<1>0. /\ req[w] \in Bootstrapping \cup LoggingIn /\ req[w] # Idle
      /\ u \in Users /\ Exists(u) /\ u \in credentials
    BY RequestAt DEF IInv, ReqOK, CreateSession, BootInv, Secured, Bootstrapping, LoggingIn
<1>1. PICK s \in SessionSlots : sessions' = [sessions EXCEPT ![s] = u]
    BY DEF CreateSession, InsertSession
<1>2. /\ req' = [req EXCEPT ![w] = Idle]
      /\ UNCHANGED <<mode, users, credentials, members, lock, projects, container>>
    BY DEF CreateSession, Finish, projectUnchanged
<1>3. Tables'
    BY <1>0, <1>1, <1>2 DEF IInv, Tables, AccountTypeOK
<1>4. SoleAdmin' /\ SessionHasAccount'
    BY <1>0, <1>1, <1>2 DEF IInv, Tables, AccountTypeOK, SoleAdmin, SessionHasAccount, Exists
<1>5. BootInv' /\ Current(w)'
    BY <1>2 DEF IInv, ReqOK, BootInv, Secured, Current, Idle, NoUsers, Exists
<1>6. Idle \in Requests
    BY DEF Requests
<1> QED
    BY <1>0, <1>2, <1>3, <1>4, <1>5, <1>6, Served

\* A failing statement ends the request; its transaction's lock is free again.
LEMMA StatementFails_Inv ==
    ASSUME IInv, NEW w \in Workers, RequestFails(w)
    PROVE  IInv'
<1>1. /\ req' = [req EXCEPT ![w] = Idle] /\ req[w] # Idle
      /\ lock' = (IF lock = w THEN None ELSE lock)
      /\ UNCHANGED <<mode, users, credentials, sessions, members, projects, container>>
    BY DEF RequestFails, StatementFails, Finish
<1>2. Tables' /\ SoleAdmin' /\ SessionHasAccount'
    BY <1>1 DEF IInv, Tables, AccountTypeOK, SoleAdmin, SessionHasAccount, Exists
<1>3. BootInv' /\ Current(w)'
    BY <1>1 DEF IInv, ReqOK, BootInv, Secured, Current, Idle, NoUsers, Exists
<1>4. Idle \in Requests
    BY DEF Requests
<1> QED
    BY <1>1, <1>2, <1>3, <1>4, Served

-----------------------------------------------------------------------------
\* Requests on a project leave the accounts alone.
LEMMA ProjectRequest_Inv ==
    ASSUME IInv, NEW w \in Workers, NEW by \in Users, NEW p \in Projects,
           ProjectRequest(w, by, p)
    PROVE  IInv'
<1>1. ASSUME NEW r \in Requests, req' = [req EXCEPT ![w] = r], MayBegin(w),
             UNCHANGED <<mode, accountVars, projects, container>>,
             r.at \notin {"recount", "insert", "session"}, Current(w)'
      PROVE  IInv'
    BY <1>1, AccountsFrame, TablesFrame, Served DEF accountVars
<1>2. CASE CreateProject(w, by, p)
    <2> DEFINE r == [op |-> "create", at |-> "row", project |-> p, user |-> by]
    <2>1. r \in Requests
        BY DEF Requests, Creating
    <2>2. /\ req' = [req EXCEPT ![w] = r] /\ MayBegin(w) /\ projects[p] = None
          /\ UNCHANGED <<mode, accountVars, projects, container>>
        BY <1>2 DEF CreateProject, accountUnchanged
    <2>3. Current(w)'
        BY <2>2 DEF Current, IInv, ReqOK
    <2> QED
        BY <1>1, <2>1, <2>2, <2>3
<1>3. ASSUME NEW next \in {"RUNNING", "STOPPED"}, ChangeProjectStatus(w, by, p, next)
      PROVE  IInv'
    <2> DEFINE r == [op |-> "change", at |-> "act", project |-> p, next |-> next,
                     row |-> projects[p]]
    <2>1. r \in Requests
        BY <1>3 DEF Requests, Changing, ChangeProjectStatus, ChangeStatus, IInv, Tables
    <2>2. /\ req' = [req EXCEPT ![w] = r] /\ MayBegin(w)
          /\ UNCHANGED <<mode, accountVars, projects, container>>
        BY <1>3 DEF ChangeProjectStatus, ChangeStatus, accountUnchanged
    <2>3. Current(w)'
        BY <2>2 DEF Current, IInv, ReqOK
    <2> QED
        BY <1>1, <2>1, <2>2, <2>3
<1>4. ASSUME NEW u \in Users, RemoveMember(w, by, p, u), projectUnchanged
      PROVE  IInv'
    <2> DEFINE r == [op |-> "remove", at |-> "count", user |-> u, project |-> p]
    <2>1. r \in Requests
        BY DEF Requests, AccountRequests, Counting
    <2>2. /\ req' = [req EXCEPT ![w] = r] /\ MayBegin(w)
          /\ UNCHANGED <<mode, accountVars, projects, container>>
        BY <1>4 DEF RemoveMember, projectUnchanged
    <2>3. Current(w)'
        BY <2>2 DEF Current, IInv, ReqOK
    <2> QED
        BY <1>1, <2>1, <2>2, <2>3
<1>5. ASSUME NEW u \in Users, NEW role \in Roles, SetMember(w, by, p, u, role),
             projectUnchanged
      PROVE  IInv'
    <2> DEFINE r == [op |-> "set", at |-> "upsert", user |-> u, project |-> p,
                     role |-> role]
    <2>1. r \in Requests
        BY DEF Requests, AccountRequests, Setting
    <2>2. /\ req' = [req EXCEPT ![w] = r] /\ MayBegin(w)
          /\ UNCHANGED <<mode, accountVars, projects, container>>
        BY <1>5 DEF SetMember, projectUnchanged
    <2>3. Current(w)'
        BY <2>2 DEF Current, IInv, ReqOK
    <2> QED
        BY <1>1, <2>1, <2>2, <2>3
<1> QED
    BY <1>2, <1>3, <1>4, <1>5 DEF ProjectRequest, StartProject, StopProject

\* Memberships: nobody else changes them between the count and the deletion.
LEMMA Members_Inv ==
    ASSUME IInv, NEW w \in Workers, SetMembership(w) \/ DeleteMembership(w) \/ GrantOwner(w),
           projectUnchanged
    PROVE  IInv'
<1>1. /\ req[w] \in Setting \cup Deleting \cup Creating /\ req[w] # Idle
      /\ req[w].at = "upsert" => req[w] \in Setting
    BY RequestAt DEF IInv, ReqOK, SetMembership, DeleteMembership, GrantOwner
<1>2. /\ Finish(w)
      /\ UNCHANGED <<mode, users, credentials, sessions, lock, projects, container>>
    BY DEF SetMembership, DeleteMembership, GrantOwner, projectUnchanged
<1>3. members' \in [Projects -> [Users -> Roles \cup {None}]]
    <2>1. /\ members \in [Projects -> [Users -> Roles \cup {None}]]
          /\ req[w].project \in Projects
        BY <1>1 DEF IInv, Tables, AccountTypeOK, Setting, Deleting, Creating
    <2>2. CASE SetMembership(w)
        BY <1>1, <2>1, <2>2 DEF SetMembership, Setting
    <2>3. CASE DeleteMembership(w)
        BY <1>1, <2>1, <2>3 DEF DeleteMembership
    <2>4. CASE GrantOwner(w)
        BY <1>1, <2>1, <2>4, RolesAssumption DEF GrantOwner
    <2> QED
        BY <2>2, <2>3, <2>4
<1>4. Tables'
    BY <1>2, <1>3 DEF IInv, Tables, AccountTypeOK
<1> QED
    BY <1>1, <1>2, <1>4, Ends

LEMMA CountOwners_Inv ==
    ASSUME IInv, NEW w \in Workers, CountOwners(w), projectUnchanged
    PROVE  IInv'
<1> DEFINE p == req[w].project
<1> DEFINE r == [op |-> "remove", at |-> "delete", user |-> req[w].user, project |-> p,
                 owners |-> Cardinality(Owners(p))]
<1>0. req[w] \in Counting /\ req[w] # Idle
    BY RequestAt DEF IInv, ReqOK, CountOwners
<1>1. r \in Requests
    <2>1. Cardinality(Owners(p)) \in {Cardinality(U) : U \in SUBSET Users}
        BY DEF Owners
    <2> QED
        BY <1>0, <2>1 DEF Requests, AccountRequests, Counting, Deleting
<1>2. /\ req' = [req EXCEPT ![w] = r]
      /\ UNCHANGED <<mode, accountVars, projects, container>>
    BY DEF CountOwners, projectUnchanged
<1>3. Current(w)'
    BY <1>2 DEF Current, IInv, ReqOK, Owners, RoleIn, accountVars
<1>4. BootInv' /\ SoleAdmin' /\ SessionHasAccount'
    BY <1>1, <1>2, AccountsFrame DEF accountVars
<1> QED
    BY <1>0, <1>1, <1>2, <1>3, <1>4, TablesFrame, Served

-----------------------------------------------------------------------------
\* Creating a project, and changing its status.
LEMMA Create_Inv ==
    ASSUME IInv, NEW w \in Workers,
           InsertProject(w) \/ PrepareProject(w) \/ CreateRuntime(w) \/ SaveReady(w)
    PROVE  IInv'
<1> DEFINE p == req[w].project
<1>0. req[w] \in Creating /\ req[w] # Idle /\ p \in Projects
    BY RequestAt DEF IInv, ReqOK, InsertProject, PrepareProject, CreateRuntime, SaveReady,
                     Creating
<1>1. PICK step \in {"prepare", "runtime", "failed", "ready", "grant"} :
         /\ Goto(w, step)
         /\ step # "grant" =>
              \/ UNCHANGED projects /\ req[w].at = "runtime"
              \/ \E status \in {"CREATING", "PREPARING"} :
                   Update(p, [status |-> status, runtime |-> FALSE])
    BY DEF InsertProject, PrepareProject, CreateRuntime, SaveReady, NewProject
<1> DEFINE r == [req[w] EXCEPT !.at = step]
<1>2. r \in Requests /\ r.at = step /\ r.project = p
    BY <1>0 DEF Requests, Creating
<1>3. req' = [req EXCEPT ![w] = r] /\ UNCHANGED <<mode, accountVars>>
    BY <1>1 DEF InsertProject, PrepareProject, CreateRuntime, SaveReady, Goto,
                accountUnchanged
<1>4. Tables'
    <2>1. projects' \in [Projects -> Rows \cup {None}]
        <3>1. \/ UNCHANGED projects
              \/ \E status \in Statuses, runtime \in BOOLEAN :
                   Update(p, [status |-> status, runtime |-> runtime])
            BY DEF InsertProject, PrepareProject, CreateRuntime, SaveReady, NewProject,
                   Statuses
        <3>2. \/ UNCHANGED projects
              \/ \E row \in Rows : Update(p, row)
            BY <3>1 DEF Rows
        <3> QED
            BY <1>0, <3>2 DEF IInv, Tables, Update
    <2>2. container' \in [Projects -> {"none", "stopped", "running"}]
        BY <1>0 DEF IInv, Tables, InsertProject, PrepareProject, CreateRuntime, SaveReady
    <2> QED
        BY <1>3, <2>1, <2>2 DEF IInv, Tables, AccountTypeOK, accountVars
<1>5. ~mode.overlap => Current(w)'
    <2>1. ~mode.overlap /\ req[w].at = "runtime" => projects[p].status # "RUNNING"
        BY DEF IInv, Calm, Current
    <2>2. ~mode.overlap /\ step # "grant" => projects'[p].status # "RUNNING"
        BY <1>0, <1>1, <2>1 DEF Update, IInv, Tables
    <2> QED
        BY <1>2, <1>3, <2>2 DEF Current, IInv, ReqOK
<1>6. BootInv' /\ SoleAdmin' /\ SessionHasAccount'
    BY <1>2, <1>3, AccountsFrame DEF accountVars
<1> QED
    BY <1>0, <1>2, <1>3, <1>4, <1>5, <1>6, Served

LEMMA SaveFailed_Inv ==
    ASSUME IInv, NEW w \in Workers, SaveFailed(w)
    PROVE  IInv'
<1>0. req[w] \in Creating /\ req[w] # Idle
    BY RequestAt DEF IInv, ReqOK, SaveFailed
<1>1. Finish(w) /\ UNCHANGED <<mode, accountVars, container>>
    BY DEF SaveFailed, accountUnchanged
<1>2. projects' \in [Projects -> Rows \cup {None}]
    BY <1>0 DEF IInv, Tables, SaveFailed, Update, Rows, Statuses, Creating
<1>3. Tables'
    BY <1>1, <1>2 DEF IInv, Tables, AccountTypeOK, accountVars
<1> QED
    BY <1>0, <1>1, <1>3, Ends DEF accountVars

LEMMA ActOnRuntime_Inv ==
    ASSUME IInv, NEW w \in Workers, ActOnRuntime(w)
    PROVE  IInv'
<1>0. req[w] \in Changing /\ req[w] # Idle /\ req[w].at = "act"
    BY RequestAt DEF IInv, ReqOK, ActOnRuntime
<1>1. UNCHANGED <<mode, accountVars, projects>>
    BY DEF ActOnRuntime, accountUnchanged
<1>2. container' \in [Projects -> {"none", "stopped", "running"}]
    BY <1>0 DEF ActOnRuntime, IInv, Tables, Changing
<1>3. Tables'
    BY <1>1, <1>2 DEF IInv, Tables, AccountTypeOK, accountVars
<1>4. CASE Goto(w, "save")
    <2> DEFINE r == [req[w] EXCEPT !.at = "save"]
    <2>1. r \in Requests /\ r.at = "save" /\ r.project = req[w].project /\ r.row = req[w].row
        BY <1>0 DEF Requests, Changing
    <2>2. req' = [req EXCEPT ![w] = r]
        BY <1>4 DEF Goto
    <2>3. ~mode.overlap => Current(w)'
        BY <1>0, <1>1, <2>1, <2>2 DEF IInv, ReqOK, Calm, Current
    <2>4. BootInv' /\ SoleAdmin' /\ SessionHasAccount'
        BY <1>1, <2>1, <2>2, AccountsFrame DEF accountVars
    <2> QED
        BY <1>0, <1>1, <1>3, <2>1, <2>2, <2>3, <2>4, Served
<1>5. CASE Finish(w)
    BY <1>0, <1>1, <1>3, <1>5, Ends DEF accountVars
<1> QED
    BY <1>4, <1>5 DEF ActOnRuntime

LEMMA SaveStatus_Inv ==
    ASSUME IInv, NEW w \in Workers, SaveStatus(w)
    PROVE  IInv'
<1>0. req[w] \in Changing /\ req[w] # Idle
    BY RequestAt DEF IInv, ReqOK, SaveStatus
<1>1. Finish(w) /\ UNCHANGED <<mode, accountVars, container>>
    BY DEF SaveStatus, accountUnchanged
<1>2. projects' \in [Projects -> Rows \cup {None}]
    BY <1>0 DEF IInv, Tables, SaveStatus, Update, Rows, Statuses, Changing
<1>3. Tables'
    BY <1>1, <1>2 DEF IInv, Tables, AccountTypeOK, accountVars
<1> QED
    BY <1>0, <1>1, <1>3, Ends DEF accountVars

-----------------------------------------------------------------------------
\* IInv is inductive.
LEMMA NextIInv == IInv /\ [Next]_vars => IInv'
<1> SUFFICES ASSUME IInv, [Next]_vars PROVE IInv'
    OBVIOUS
<1>1. CASE UNCHANGED vars
    BY <1>1 DEF vars, accountVars, IInv, Tables, AccountTypeOK, ReqOK, BootInv, Secured,
        NoUsers, Exists, SoleAdmin, SessionHasAccount, Calm, Current, Owners, RoleIn
<1>2. CASE AccountRequest /\ projectUnchanged
    BY <1>2, Bootstrap_Inv, Login_Inv, Sessions_Inv DEF AccountRequest
<1>3. ASSUME NEW w \in Workers, Serve(w) PROVE IInv'
    <2>1. CASE ServeProject(w)
        <3>1. GrantOwner(w) => projectUnchanged
            BY DEF GrantOwner
        <3> QED
            BY <2>1, <3>1, Create_Inv, SaveFailed_Inv, Members_Inv, ActOnRuntime_Inv,
               SaveStatus_Inv DEF ServeProject
    <2>2. CASE ServeAccount(w) /\ projectUnchanged
        BY <2>2, TakeLock_Inv, Recount_Inv, CommitAdmin_Inv, CreateSession_Inv, Members_Inv,
           CountOwners_Inv DEF ServeAccount
    <2> QED
        BY <1>3, <2>1, <2>2 DEF Serve
<1>4. ASSUME NEW w \in Workers, RequestFails(w) PROVE IInv'
    BY <1>4, StatementFails_Inv
<1>5. ASSUME NEW w \in Workers, NEW by \in Users, NEW p \in Projects,
             ProjectRequest(w, by, p)
      PROVE  IInv'
    BY <1>5, ProjectRequest_Inv
<1> QED
    BY <1>1, <1>2, <1>3, <1>4, <1>5 DEF Next

\* IInv holds of every behaviour.
LEMMA Invariance == Spec => []IInv
BY InitIInv, NextIInv, PTL DEF Spec

\* The steps that change memberships.
LEMMA MemberSteps ==
    ASSUME Next
    PROVE  \/ UNCHANGED members
           \/ \E w \in Workers : SetMembership(w) \/ DeleteMembership(w) \/ GrantOwner(w)
<1>1. AccountRequest => UNCHANGED members
    BY DEF AccountRequest, AuthBootstrap, Bootstrap, AuthLogin, Login, RevokeAll, AddAccount,
           Logout, Expire, accountVars
<1>2. ASSUME NEW w \in Workers, ServeAccount(w), ~SetMembership(w), ~DeleteMembership(w)
      PROVE  UNCHANGED members
    BY <1>2 DEF ServeAccount, TakeLock, Recount, CommitAdmin, CreateSession, CountOwners,
                accountVars
<1>3. ASSUME NEW w \in Workers, ServeProject(w), ~GrantOwner(w) PROVE UNCHANGED members
    BY <1>3 DEF ServeProject, InsertProject, PrepareProject, CreateRuntime, SaveFailed,
                SaveReady, ActOnRuntime, SaveStatus, accountUnchanged, accountVars
<1>4. ASSUME NEW w \in Workers, RequestFails(w) PROVE UNCHANGED members
    BY <1>4 DEF RequestFails, StatementFails
<1>5. ASSUME NEW w \in Workers, NEW by \in Users, NEW p \in Projects,
             ProjectRequest(w, by, p)
      PROVE  UNCHANGED members
    BY <1>5 DEF ProjectRequest, CreateProject, StartProject, StopProject,
                ChangeProjectStatus, ChangeStatus, RemoveMember, SetMember,
                accountUnchanged, accountVars
<1> QED
    BY <1>1, <1>2, <1>3, <1>4, <1>5 DEF Next, Serve

\* The count inside the DELETE of RemoveMembership protects the last owner of
\* any project with any number of members, one request at a time.
THEOREM LastOwnerKept == Spec => LastOwnerStays
<1>1. ASSUME IInv, Next, ~mode.overlap, NEW p \in Projects,
             Owners(p) # {}, Owners(p)' = {}
      PROVE  \E w \in InFlight : req[w].op = "set"
    <2>1. members \in [Projects -> [Users -> Roles \cup {None}]]
        BY <1>1 DEF IInv, Tables, AccountTypeOK
    <2>2. ~UNCHANGED members
        BY <1>1 DEF Owners, RoleIn
    <2>3. PICK w \in Workers : SetMembership(w) \/ DeleteMembership(w) \/ GrantOwner(w)
        BY <1>1, <2>2, MemberSteps
    <2>4. CASE SetMembership(w)
        <3>1. req[w] \in Setting /\ req[w] # Idle
            BY <1>1, <2>4, RequestAt DEF SetMembership, IInv, ReqOK
        <3> QED
            BY <3>1 DEF Setting, InFlight
    <2>5. CASE GrantOwner(w)
        <3>1. req[w].project \in Projects /\ req[w].user \in Users
            BY <1>1, <2>5, RequestAt DEF GrantOwner, IInv, ReqOK, Creating
        <3>2. members' = [members EXCEPT ![req[w].project][req[w].user] = "owner"]
            BY <2>5 DEF GrantOwner
        <3>3. \A u \in Users : members[p][u] = "owner" => members'[p][u] = "owner"
            BY <2>1, <3>1, <3>2
        <3> QED
            BY <1>1, <3>3 DEF Owners, RoleIn
    <2>6. CASE DeleteMembership(w)
        <3> DEFINE u == req[w].user
        <3>1. /\ req[w].project \in Projects /\ u \in Users /\ req[w].at = "delete"
              /\ req[w].owners = Cardinality(Owners(req[w].project))
            BY <1>1, <2>6, RequestAt
               DEF DeleteMembership, IInv, ReqOK, Deleting, Calm, Current
        <3>2. /\ members' = [members EXCEPT ![req[w].project][u] = None]
              /\ SparesLastOwner(members[req[w].project][u], req[w].owners)
            BY <2>2, <2>6 DEF DeleteMembership
        <3>3. req[w].project = p
            BY <1>1, <2>1, <3>1, <3>2 DEF Owners, RoleIn
        <3>4. \A v \in Users : v # u => members'[p][v] = members[p][v]
            BY <2>1, <3>1, <3>2, <3>3
        <3>5. Owners(p) = {u}
            BY <1>1, <3>4 DEF Owners, RoleIn
        <3>6. members[p][u] = "owner" /\ Cardinality(Owners(p)) = 1
            BY <3>5, FS_Singleton DEF Owners, RoleIn
        <3> QED
            BY <3>1, <3>2, <3>3, <3>6 DEF SparesLastOwner
    <2> QED
        BY <2>3, <2>4, <2>5, <2>6
<1>2. IInv /\ [Next]_vars =>
        [~mode.overlap => \A p \in Projects : Owners(p) # {} /\ Owners(p)' = {} =>
            \E w \in InFlight : req[w].op = "set"]_vars
    BY <1>1
<1> QED
    BY <1>2, Invariance, PTL DEF Spec, LastOwnerStays

-----------------------------------------------------------------------------
\* A project with a runtime has been created and not more than started and
\* stopped since.
Settled ==
    \A p \in Projects : projects[p] # None /\ projects[p].runtime =>
        projects[p].status \in {"READY", "RUNNING", "STOPPED"}

\* A request that is about to save its change has made it.
Acted(w) ==
    req[w].at = "save" =>
        container[req[w].project] = IF req[w].next = "RUNNING" THEN "running" ELSE "stopped"

KnownInv ==
    /\ unsaved \subseteq Projects
    /\ ~mode.overlap => Settled /\ \A w \in Workers : Acted(w)
    /\ RunningIsKnown

\* Steps that leave the projects alone and neither begin nor end a save.
Quiet ==
    /\ UNCHANGED <<mode, projects, container, unsaved>>
    /\ \E w \in Workers, r \in Requests :
        /\ req' = [req EXCEPT ![w] = r]
        /\ req[w].at # "save" /\ r.at # "save"

LEMMA QuietKnown ==
    ASSUME IInv, KnownInv, Quiet
    PROVE  KnownInv'
<1>1. PICK w \in Workers, r \in Requests :
        req' = [req EXCEPT ![w] = r] /\ req[w].at # "save" /\ r.at # "save"
    BY DEF Quiet
<1>2. req \in [Workers -> Requests] /\ UNCHANGED <<mode, projects, container, unsaved>>
    BY DEF IInv, ReqOK, Quiet
<1>3. \A v \in Workers : /\ req'[v].at = "save" <=> req[v].at = "save"
                         /\ req[v].at = "save" => req'[v] = req[v]
    BY <1>1, <1>2
<1> QED
    BY <1>2, <1>3 DEF KnownInv, Settled, Acted, RunningIsKnown

\* Most steps are quiet.
LEMMA QuietSteps ==
    ASSUME IInv, IInv', Next
    PROVE  \/ UNCHANGED <<mode, req, projects, container, unsaved>>
           \/ Quiet
           \/ \E w \in Workers : \/ InsertProject(w) \/ PrepareProject(w) \/ CreateRuntime(w)
                                 \/ SaveFailed(w) \/ SaveReady(w) \/ ActOnRuntime(w)
                                 \/ SaveStatus(w) \/ RequestFails(w)
<1>0. req \in [Workers -> Requests] /\ req' \in [Workers -> Requests]
    BY DEF IInv, ReqOK
<1>a. ASSUME NEW w \in Workers, projectUnchanged, NEW r, req' = [req EXCEPT ![w] = r],
             req[w].at # "save", r.at # "save"
      PROVE  Quiet
    <2>1. r = req'[w]
        BY <1>0, <1>a
    <2>2. r \in Requests
        BY <1>0, <2>1
    <2> QED
        BY <1>a, <2>2 DEF Quiet, projectUnchanged
<1>b. Idle.at = "idle"
    BY DEF Idle
<1>1. ASSUME AccountRequest, projectUnchanged
      PROVE  UNCHANGED <<mode, req, projects, container, unsaved>> \/ Quiet
    <2>1. ASSUME NEW w \in Workers, NEW u \in Users, AuthBootstrap(w, u) PROVE Quiet
        <3> DEFINE r == [op |-> "bootstrap", at |-> "lock", user |-> u]
        <3>1. req' = [req EXCEPT ![w] = r] /\ req[w] = Idle /\ r.at = "lock"
            BY <2>1 DEF AuthBootstrap, MayBegin, Bootstrap
        <3> HIDE DEF r
        <3> QED
            BY <1>1, <1>a, <1>b, <3>1
    <2>2. ASSUME NEW w \in Workers, NEW u \in Users, AuthLogin(w, u) PROVE Quiet
        <3> DEFINE r == [op |-> "login", at |-> "session", user |-> u]
        <3>1. req' = [req EXCEPT ![w] = r] /\ req[w] = Idle /\ r.at = "session"
            BY <2>2 DEF AuthLogin, MayBegin, Login
        <3> HIDE DEF r
        <3> QED
            BY <1>1, <1>a, <1>b, <3>1
    <2> QED
        BY <1>1, <2>1, <2>2 DEF AccountRequest, RevokeAll, AddAccount, Logout, Expire,
                                projectUnchanged
<1>2. ASSUME NEW w \in Workers, ServeAccount(w), projectUnchanged PROVE Quiet
    <2>1. req' = [req EXCEPT ![w] = req'[w]] /\ req[w].at # "save" /\ req'[w].at # "save"
        BY <1>0, <1>2, <1>b, RequestAt
        DEF ServeAccount, TakeLock, Recount, CommitAdmin, CreateSession, SetMembership,
            CountOwners, DeleteMembership, Goto, Finish, Requests, Idle, AccountRequests,
            Bootstrapping, LoggingIn, Setting, Counting, Deleting
    <2> QED
        BY <1>2, <1>a, <2>1
<1>3. ASSUME NEW w \in Workers, GrantOwner(w) PROVE Quiet
    BY <1>3, <1>a, <1>b DEF GrantOwner, Finish
<1>4. ASSUME NEW w \in Workers, NEW by \in Users, NEW p \in Projects,
             ProjectRequest(w, by, p)
      PROVE  Quiet
    <2>1. projectUnchanged /\ req[w] = Idle
        BY <1>4 DEF ProjectRequest, CreateProject, StartProject, StopProject,
                    ChangeProjectStatus, ChangeStatus, RemoveMember, SetMember, MayBegin,
                    accountUnchanged, projectUnchanged
    <2>2. req' = [req EXCEPT ![w] = req'[w]] /\ req'[w].at # "save"
        BY <1>0, <1>4 DEF ProjectRequest, CreateProject, StartProject, StopProject,
                    ChangeProjectStatus, ChangeStatus, RemoveMember, SetMember
    <2> QED
        BY <1>a, <1>b, <2>1, <2>2
<1> QED
    BY <1>1, <1>2, <1>3, <1>4 DEF Next, Serve, ServeProject

\* A step of the only request, on project q: what is left to show concerns q.
LEMMA OneProject ==
    ASSUME IInv, IInv', KnownInv, NEW w \in Workers, mode' = mode, req[w] # Idle,
           NEW q \in Projects, req[w].project = q, NEW r, req' = [req EXCEPT ![w] = r],
           r # Idle => r.project = q,
           \A p \in Projects \ {q} : /\ projects'[p] = projects[p] /\ container'[p] = container[p]
                                     /\ (p \in unsaved' <=> p \in unsaved),
           unsaved' \subseteq Projects,
           ~mode.overlap =>
              /\ projects'[q] # None /\ projects'[q].runtime =>
                    projects'[q].status \in {"READY", "RUNNING", "STOPPED"}
              /\ r.at = "save" => container'[q] =
                    IF r.next = "RUNNING" THEN "running" ELSE "stopped"
              /\ container'[q] = "running" /\ q \notin unsaved' =>
                    \/ projects'[q] # None /\ projects'[q].status = "RUNNING"
                    \/ r.at = "save"
    PROVE  KnownInv'
<1> SUFFICES ASSUME ~mode.overlap PROVE KnownInv'
    BY DEF KnownInv, RunningIsKnown
<1>0. req \in [Workers -> Requests] /\ Idle.at = "idle"
    BY DEF IInv, ReqOK, Idle
<1>1. \A v \in Workers \ {w} : req[v] = Idle /\ req'[v] = Idle
    BY <1>0 DEF IInv, Calm
<1>2. req'[w] = r
    BY <1>0
<1>3. \A v \in Workers : Acted(v)'
    BY <1>0, <1>1, <1>2 DEF Acted
<1>4. Settled'
    BY DEF KnownInv, Settled
<1>5. ASSUME NEW p \in Projects, container'[p] = "running", p \notin unsaved'
      PROVE  \/ projects'[p] # None /\ projects'[p].status = "RUNNING"
             \/ \E v \in Workers : req'[v].at = "save" /\ req'[v].project = p
    <2>1. CASE p = q
        BY <1>0, <1>2, <1>5, <2>1
    <2>2. CASE p # q
        <3>1. \A v \in Workers : ~(req[v].at = "save" /\ req[v].project = p)
            BY <1>0, <1>1, <2>2
        <3> QED
            BY <1>5, <2>2, <3>1 DEF KnownInv, RunningIsKnown
    <2> QED
        BY <2>1, <2>2
<1> QED
    BY <1>3, <1>4, <1>5 DEF KnownInv, RunningIsKnown

\* A project that is being created is not running.
LEMMA CreatingKnown ==
    ASSUME IInv, IInv', KnownInv, NEW w \in Workers,
           \/ InsertProject(w) \/ PrepareProject(w) \/ CreateRuntime(w)
           \/ SaveFailed(w) \/ SaveReady(w)
    PROVE  KnownInv'
<1> DEFINE q == req[w].project
<1>0. /\ req[w] \in Creating /\ req[w] # Idle /\ q \in Projects /\ req[w].at # "save"
      /\ req \in [Workers -> Requests] /\ projects \in [Projects -> Rows \cup {None}]
      /\ container \in [Projects -> {"none", "stopped", "running"}]
    BY RequestAt DEF IInv, ReqOK, Tables, Creating, InsertProject, PrepareProject, CreateRuntime,
                     SaveFailed, SaveReady
<1>1. /\ UNCHANGED <<mode, unsaved>>
      /\ \A p \in Projects \ {q} : projects'[p] = projects[p] /\ container'[p] = container[p]
    BY <1>0 DEF InsertProject, PrepareProject, CreateRuntime, SaveFailed, SaveReady, Update,
           accountUnchanged
<1>2. PICK r : /\ req' = [req EXCEPT ![w] = r] /\ (r # Idle => r.project = q)
               /\ r.at # "save"
    <2>1. \A s \in {"prepare", "runtime", "failed", "ready", "grant"} :
            LET r == [req[w] EXCEPT !.at = s]
            IN  r.project = q /\ r.at = s /\ (Goto(w, s) => req' = [req EXCEPT ![w] = r])
        BY <1>0 DEF Creating, Goto
    <2>2. CASE SaveFailed(w)
        <3>1. req' = [req EXCEPT ![w] = Idle] /\ Idle.at # "save"
            BY <2>2 DEF SaveFailed, Finish, Idle
        <3> QED
            BY <3>1
    <2>3. CASE ~SaveFailed(w)
        <3>1. PICK s \in {"prepare", "runtime", "failed", "ready", "grant"} : Goto(w, s)
            BY <2>3 DEF InsertProject, PrepareProject, CreateRuntime, SaveReady
        <3> QED
            BY <2>1, <3>1
    <2> QED
        BY <2>2, <2>3
<1>3. ASSUME ~mode.overlap
      PROVE  /\ projects'[q] # None /\ projects'[q].runtime =>
                    projects'[q].status \in {"READY", "RUNNING", "STOPPED"}
             /\ container'[q] = "running" => q \in unsaved
    <2>1. Settled /\ Current(w) /\ \A v \in Workers \ {w} : req[v] = Idle
        BY <1>0, <1>3 DEF KnownInv, IInv, Calm
    <2>2. container[q] = "running" => q \in unsaved
        <3>1. ~(projects[q] # None /\ projects[q].status = "RUNNING")
            BY <1>0, <2>1 DEF Current, InsertProject, PrepareProject, CreateRuntime, SaveFailed,
                              SaveReady
        <3>2. \A v \in Workers : req[v].at # "save"
            BY <1>0, <2>1 DEF Idle
        <3> QED
            BY <1>0, <1>3, <3>1, <3>2 DEF KnownInv, RunningIsKnown
    <2>3. container'[q] = "running" => container[q] = "running"
        BY <1>0 DEF InsertProject, PrepareProject, CreateRuntime, SaveFailed, SaveReady
    <2>4. \/ projects'[q] = projects[q]
          \/ ~projects'[q].runtime
          \/ projects'[q].status = "READY"
        BY <1>0 DEF InsertProject, PrepareProject, CreateRuntime, SaveFailed, SaveReady, Update,
                    NewProject
    <2> QED
        BY <1>0, <2>1, <2>2, <2>3, <2>4 DEF Settled
<1>4. unsaved' \subseteq Projects /\ \A p \in Projects : p \in unsaved' <=> p \in unsaved
    BY <1>1 DEF KnownInv
<1> HIDE DEF q
<1>5. req[w].project = q
    BY DEF q
<1> QED
    BY <1>0, <1>1, <1>2, <1>3, <1>4, <1>5, OneProject

\* The runtime is changed.
LEMMA ActKnown ==
    ASSUME IInv, IInv', KnownInv, NEW w \in Workers, ActOnRuntime(w)
    PROVE  KnownInv'
<1> DEFINE q == req[w].project
<1>0. /\ req[w] \in Changing /\ req[w] # Idle /\ q \in Projects /\ req[w].at = "act"
      /\ req[w].next \in {"RUNNING", "STOPPED"}
      /\ req \in [Workers -> Requests]
      /\ container \in [Projects -> {"none", "stopped", "running"}]
    BY RequestAt DEF IInv, ReqOK, Tables, Changing, ActOnRuntime
<1>1. /\ UNCHANGED <<mode, unsaved, projects>>
      /\ \A p \in Projects \ {q} : container'[p] = container[p]
      /\ unsaved' \subseteq Projects
    BY <1>0 DEF ActOnRuntime, accountUnchanged, KnownInv
<1>2. ASSUME ~mode.overlap PROVE Settled /\ \A v \in Workers : req[v].at # "save"
    BY <1>0, <1>2 DEF KnownInv, IInv, Calm, Idle
<1>3. CASE Goto(w, "save")
    <2> DEFINE r == [req[w] EXCEPT !.at = "save"]
    <2>1. /\ r.at = "save" /\ r.project = q /\ r.next = req[w].next
          /\ req' = [req EXCEPT ![w] = r]
        BY <1>0, <1>3 DEF Changing, Goto
    <2>2. ~Finish(w)
        BY <1>0, <2>1 DEF Finish, Idle
    <2>3. container'[q] = IF r.next = "RUNNING" THEN "running" ELSE "stopped"
        BY <1>0, <2>1, <2>2 DEF ActOnRuntime
    <2> HIDE DEF q, r
    <2>4. req[w].project = q
        BY DEF q
    <2> QED
        BY <1>0, <1>1, <1>2, <2>1, <2>3, <2>4, OneProject DEF Settled
<1>4. CASE Finish(w) /\ UNCHANGED container
    <2>1. Quiet
        <3>1. Idle \in Requests /\ Idle.at = "idle" /\ req' = [req EXCEPT ![w] = Idle]
            BY <1>4 DEF Requests, Finish, Idle
        <3> HIDE DEF q
        <3> QED
            BY <1>0, <1>1, <1>4, <3>1 DEF Quiet
    <2> QED
        BY <2>1, QuietKnown
<1> QED
    BY <1>3, <1>4 DEF ActOnRuntime

\* The change is saved, refused, or lost.
LEMMA SaveKnown ==
    ASSUME IInv, IInv', KnownInv, NEW w \in Workers, SaveStatus(w) \/ RequestFails(w)
    PROVE  KnownInv'
<1> DEFINE q == req[w].project
<1>1. CASE req[w].at # "save"
    <2>1. Quiet
        BY <1>1 DEF SaveStatus, RequestFails, StatementFails, Finish, Quiet, Requests, Idle
    <2> QED
        BY <2>1, QuietKnown
<1>2. CASE req[w].at = "save"
    <2>0. /\ req[w] \in Changing /\ req[w] # Idle /\ q \in Projects
          /\ req[w].next \in {"RUNNING", "STOPPED"} /\ req[w].row \in Rows
          /\ projects \in [Projects -> Rows \cup {None}] /\ unsaved \subseteq Projects
        BY <1>2, RequestAt DEF IInv, ReqOK, Tables, Changing, KnownInv
    <2>1. /\ mode' = mode /\ container' = container /\ req' = [req EXCEPT ![w] = Idle]
          /\ unsaved' \subseteq Projects
          /\ \A p \in Projects \ {q} : /\ projects'[p] = projects[p]
                                       /\ (p \in unsaved' <=> p \in unsaved)
        BY <2>0 DEF SaveStatus, RequestFails, StatementFails, Finish, Update, accountUnchanged
    <2>2. Idle.at = "idle"
        BY DEF Idle
    <2>3. ASSUME ~mode.overlap
          PROVE  /\ projects'[q] # None /\ projects'[q].runtime =>
                    projects'[q].status \in {"READY", "RUNNING", "STOPPED"}
                 /\ container'[q] = "running" /\ q \notin unsaved' =>
                    projects'[q] # None /\ projects'[q].status = "RUNNING"
        <3>1. /\ Settled /\ projects[q] = req[w].row
              /\ container[q] = IF req[w].next = "RUNNING" THEN "running" ELSE "stopped"
            BY <1>2, <2>3 DEF KnownInv, IInv, Calm, Current, Acted
        <3>2. CASE RequestFails(w)
            BY <1>2, <2>0, <3>1, <3>2 DEF RequestFails, Settled
        <3>3. CASE SaveStatus(w)
            <4>1. CASE Allowed(req[w].row.status, req[w].next)
                <5> DEFINE row == [req[w].row EXCEPT !.status = req[w].next]
                <5>0. row.status = req[w].next /\ projects'[q] = row
                    BY <2>0, <3>3, <4>1 DEF SaveStatus, Update, Rows
                <5>1. projects'[q].status = req[w].next /\ projects'[q] # None
                    BY <2>0, <5>0, RowsAssumption DEF Statuses, Rows
                <5> QED
                    BY <2>0, <2>1, <3>1, <5>1
            <4>2. CASE ~Allowed(req[w].row.status, req[w].next)
                <5>1. projects' = projects
                    BY <3>3, <4>2 DEF SaveStatus
                <5>2. projects[q].runtime
                    BY <2>0, <3>1 DEF Changing
                <5> QED
                    BY <2>0, <2>1, <3>1, <4>2, <5>1, <5>2, RowsAssumption DEF Settled, Allowed
            <4> QED
                BY <4>1, <4>2
        <3> QED
            BY <3>2, <3>3
    <2> HIDE DEF q
    <2>4. req[w].project = q
        BY DEF q
    <2>5. \A p \in Projects \ {q} : /\ projects'[p] = projects[p] /\ container'[p] = container[p]
                                    /\ (p \in unsaved' <=> p \in unsaved)
        BY <2>1
    <2>6. PICK r : r.at # "save" /\ (r # Idle => r.project = q) /\ req' = [req EXCEPT ![w] = r]
        BY <2>1, <2>2
    <2>7. ~mode.overlap =>
              /\ projects'[q] # None /\ projects'[q].runtime =>
                    projects'[q].status \in {"READY", "RUNNING", "STOPPED"}
              /\ r.at = "save" => container'[q] =
                    IF r.next = "RUNNING" THEN "running" ELSE "stopped"
              /\ container'[q] = "running" /\ q \notin unsaved' =>
                    \/ projects'[q] # None /\ projects'[q].status = "RUNNING"
                    \/ r.at = "save"
        BY <2>3, <2>6
    <2>8. mode' = mode /\ req[w] # Idle /\ q \in Projects /\ unsaved' \subseteq Projects
        BY <2>0, <2>1
    <2>9. req' = [req EXCEPT ![w] = r] /\ (r # Idle => r.project = q)
        BY <2>6
    <2> QED
        BY <2>4, <2>5, <2>7, <2>8, <2>9, OneProject
<1> QED
    BY <1>1, <1>2

LEMMA KnownInvariance == Spec => []KnownInv
<1>1. Init => KnownInv
    BY DEF Init, KnownInv, Settled, Acted, RunningIsKnown, Idle
<1>2. ASSUME IInv, IInv', KnownInv, [Next]_vars PROVE KnownInv'
    <2>1. CASE UNCHANGED <<mode, req, projects, container, unsaved>>
        BY <1>2, <2>1 DEF KnownInv, Settled, Acted, RunningIsKnown
    <2>2. CASE UNCHANGED vars
        BY <2>1, <2>2 DEF vars
    <2> QED
        BY <1>2, <2>1, <2>2, QuietSteps, QuietKnown, CreatingKnown, ActKnown, SaveKnown
<1> QED
    BY <1>1, <1>2, Invariance, PTL DEF Spec

\* For any number of bootstrap requests, however they race and wherever a
\* statement fails: one administrator, and no session without its account and
\* password (AuthService.Bootstrap, CreateAdmin, SessionService.Create).
THEOREM AccountsHold == Spec => []AccountsSound
<1>1. IInv /\ KnownInv => AccountsSound
    BY IInvTypes, AtMostOne DEF IInv, KnownInv, AccountsSound
<1> QED
    BY <1>1, Invariance, KnownInvariance, PTL

\* One request at a time and wherever statements fail, a runtime that runs
\* belongs to a project saved RUNNING, unless the save itself failed, for any
\* number of projects.
THEOREM RunningRuntimesKnown == Spec => []RunningIsKnown
<1>1. KnownInv => RunningIsKnown
    BY DEF KnownInv
<1> QED
    BY <1>1, KnownInvariance, PTL
=============================================================================
