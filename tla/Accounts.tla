------------------------------ MODULE Accounts ------------------------------
(***************************************************************************)
(* Accounts, sessions and project memberships (internal/auth, the handlers *)
(* of httpapi/auth.go and httpapi/project_members.go) on PostgreSQL at its *)
(* default isolation level: a statement sees what was committed before it  *)
(* began.  Two places are protected against races: the bootstrap of the    *)
(* first administrator by an advisory lock and a second count, the last    *)
(* owner of a project by a count inside the DELETE.                        *)
(*                                                                         *)
(* Passwords are right or wrong, so a login succeeds or changes nothing.   *)
(* A session is in `sessions` while FindActiveSession would find it; no    *)
(* code ever makes a revoked or expired one active again.                  *)
(***************************************************************************)
EXTENDS Naturals, FiniteSets

CONSTANTS
    Users,          \* accounts that can come to exist
    Projects,       \* project ids
    Roles,          \* roles a membership can have
    SessionSlots,   \* active sessions at one time
    Workers,        \* requests that can be in flight together
    Modes,          \* which kinds of behaviour are explored, see mode
    None            \* no value

ASSUME RolesAssumption == "owner" \in Roles
\* None is the absence of an account, of a role and of a holder of the lock.
ASSUME NoneAssumption ==
    None \notin Users \cup Workers \cup {"admin", "operator", "member", "viewer"}
ASSUME ModesAssumption == Modes \subseteq [overlap : BOOLEAN, faults : BOOLEAN]

VARIABLES
    mode,           \* may requests overlap? may statements fail?
    users,          \* users: the global role of each account
    credentials,    \* password_credentials
    sessions,       \* active sessions: whose they are
    members,        \* project_memberships: the role of each user
    lock,           \* holder of the advisory lock of the bootstrap
    req             \* the request each worker is serving

accountVars == <<users, credentials, sessions, members, lock>>

Idle == [at |-> "idle"]

InFlight == {w \in Workers : req[w] # Idle}

MayBegin(w) == req[w] = Idle /\ (mode.overlap \/ InFlight = {})

\* FindByID.
Exists(u) == users[u] # None

\* FindByEmail, with a password that can be verified.
FindByEmail(u) == Exists(u) /\ u \in credentials

\* CountUsers.
NoUsers == \A u \in Users : ~Exists(u)

\* FindActiveSession: not revoked, not expired.
ActiveSession(u) == \E s \in SessionSlots : sessions[s] = u

\* authMiddleware: an active session of an existing account.
Authenticated(u) == ActiveSession(u) /\ Exists(u)

\* GetMembership.
RoleIn(p, u) == members[p][u]

Owners(p) == {u \in Users : RoleIn(p, u) = "owner"}

\* projectPermissionAllowed.
Grants(role, permission) ==
    CASE permission = "deploy" -> role = "owner"
      [] permission = "edit"   -> role \in {"owner", "editor"}
      [] permission = "run"    -> role \in {"owner", "editor", "runner"}
      [] permission = "read"   -> role # None

\* RequireProjectAccess: global roles pass, otherwise the membership decides.
MayAccess(u, p, permission) ==
    users[u] \in {"admin", "operator"} \/ Grants(RoleIn(p, u), permission)

Goto(w, step) == req' = [req EXCEPT ![w].at = step]

Finish(w) == req' = [req EXCEPT ![w] = Idle]

\* Mutant: a failed transaction is not rolled back.
StatementFailsOpen(w) ==
    /\ mode.faults
    /\ req[w] # Idle
    /\ Finish(w)
    /\ UNCHANGED accountVars

\* A statement fails and the handler returns its error; a transaction that
\* fails is rolled back, which frees the advisory lock.
StatementFails(w) ==
    /\ mode.faults
    /\ req[w] # Idle
    /\ Finish(w)
    /\ lock' = IF lock = w THEN None ELSE lock
    /\ UNCHANGED <<users, credentials, sessions, members>>

-----------------------------------------------------------------------------
\* AuthService.Bootstrap counts the users outside any transaction.
Bootstrap(w, u) ==
    /\ NoUsers
    /\ req' = [req EXCEPT ![w] = [op |-> "bootstrap", at |-> "lock", user |-> u]]
    /\ UNCHANGED accountVars

\* authBootstrap: the bootstrap, then a session for the new account.
AuthBootstrap(w, u) == MayBegin(w) /\ Bootstrap(w, u)

\* CreateAdmin: pg_advisory_xact_lock waits for the transaction holding it.
TakeLock(w) ==
    /\ req[w].at = "lock"
    /\ lock = None
    /\ lock' = w
    /\ Goto(w, "recount")
    /\ UNCHANGED <<users, credentials, sessions, members>>

\* Mutant: the count made before the transaction is trusted.
RecountTrusted(w) ==
    /\ req[w].at = "recount"
    /\ Goto(w, "insert")
    /\ UNCHANGED accountVars

\* CreateAdmin counts again under the lock.
Recount(w) ==
    /\ req[w].at = "recount"
    /\ \/ NoUsers /\ Goto(w, "insert") /\ UNCHANGED lock
       \/ ~NoUsers /\ Finish(w) /\ lock' = None
    /\ UNCHANGED <<users, credentials, sessions, members>>

\* CreateAdmin: both rows appear and the lock is freed at the commit.
CommitAdmin(w) ==
    /\ req[w].at = "insert"
    /\ users' = [users EXCEPT ![req[w].user] = "admin"]
    /\ credentials' = credentials \cup {req[w].user}
    /\ lock' = None
    /\ Goto(w, "session")
    /\ UNCHANGED <<sessions, members>>

\* AuthService.Login: the account is found with a password that fits.
Login(w, u) ==
    /\ FindByEmail(u)
    /\ req' = [req EXCEPT ![w] = [op |-> "login", at |-> "session", user |-> u]]
    /\ UNCHANGED accountVars

AuthLogin(w, u) == MayBegin(w) /\ Login(w, u)

InsertSession(s, u) == sessions' = [sessions EXCEPT ![s] = u]

\* SessionService.Create: the row and, only now, the token.
CreateSession(w) ==
    /\ req[w].at = "session"
    /\ \E s \in SessionSlots : sessions[s] = None /\ InsertSession(s, req[w].user)
    /\ Finish(w)
    /\ UNCHANGED <<users, credentials, members, lock>>

RevokeSession(s) == sessions' = [sessions EXCEPT ![s] = None]

\* authLogout revokes the session of the cookie.
Logout(s) ==
    /\ sessions[s] # None
    /\ RevokeSession(s)
    /\ UNCHANGED <<users, credentials, members, lock, req>>

\* RevokeAllUserSessions: one UPDATE.
RevokeSessionsOf(u) ==
    sessions' = [s \in SessionSlots |-> IF sessions[s] = u THEN None ELSE sessions[s]]

\* authRevokeAll, on an authenticated request.
RevokeAll(u) ==
    /\ Authenticated(u)
    /\ RevokeSessionsOf(u)
    /\ UNCHANGED <<users, credentials, members, lock, req>>

\* Time passes expires_at.
Expire(s) ==
    /\ sessions[s] # None
    /\ sessions' = [sessions EXCEPT ![s] = None]
    /\ UNCHANGED <<users, credentials, members, lock, req>>

\* An operator inserts further accounts; the server has no code for it.
AddAccount(u) ==
    /\ ~NoUsers /\ ~Exists(u)
    /\ users' = [users EXCEPT ![u] = "member"]
    /\ credentials' = credentials \cup {u}
    /\ UNCHANGED <<sessions, members, lock, req>>

-----------------------------------------------------------------------------
\* setProjectMember: check the caller, then the upsert.
SetMember(w, by, p, u, role) ==
    /\ MayBegin(w)
    /\ Authenticated(by) /\ MayAccess(by, p, "deploy") /\ Exists(u)
    /\ req' = [req EXCEPT ![w] = [op |-> "set", at |-> "upsert", user |-> u,
                                  project |-> p, role |-> role]]
    /\ UNCHANGED accountVars

\* SetMembership: INSERT ... ON CONFLICT DO UPDATE, whatever the role was.
SetMembership(w) ==
    /\ req[w].at = "upsert"
    /\ members' = [members EXCEPT ![req[w].project][req[w].user] = req[w].role]
    /\ Finish(w)
    /\ UNCHANGED <<users, credentials, sessions, lock>>

\* removeProjectMember: check the caller, then the DELETE.
RemoveMember(w, by, p, u) ==
    /\ MayBegin(w)
    /\ Authenticated(by) /\ MayAccess(by, p, "deploy")
    /\ req' = [req EXCEPT ![w] = [op |-> "remove", at |-> "count", user |-> u,
                                  project |-> p]]
    /\ UNCHANGED accountVars

\* RemoveMembership begins: its subquery counts the owners in a snapshot.
CountOwners(w) ==
    /\ req[w].at = "count"
    /\ req' = [req EXCEPT ![w] = [op |-> "remove", at |-> "delete",
                 user |-> req[w].user, project |-> req[w].project,
                 owners |-> Cardinality(Owners(req[w].project))]]
    /\ UNCHANGED accountVars

\* Mutant: an owner is never the last one.
SparesLastOwnerNot(role, owners) == TRUE

\* The condition of the DELETE.
SparesLastOwner(role, owners) == ~(role = "owner" /\ owners <= 1)

\* The row, in its latest version, is deleted if the condition holds.
DeleteMembership(w) ==
    LET r == req[w] IN
    /\ r.at = "delete"
    /\ members' = IF SparesLastOwner(members[r.project][r.user], r.owners)
                  THEN [members EXCEPT ![r.project][r.user] = None]
                  ELSE members
    /\ Finish(w)
    /\ UNCHANGED <<users, credentials, sessions, lock>>

-----------------------------------------------------------------------------
AccountInit ==
    /\ users = [u \in Users |-> None]
    /\ credentials = {}
    /\ sessions = [s \in SessionSlots |-> None]
    /\ members = [p \in Projects |-> [u \in Users |-> None]]
    /\ lock = None

\* Steps of a request that is being served.
ServeAccount(w) ==
    \/ TakeLock(w) \/ Recount(w) \/ CommitAdmin(w) \/ CreateSession(w)
    \/ SetMembership(w) \/ CountOwners(w) \/ DeleteMembership(w)

\* Requests about accounts, and what happens to sessions by itself.
AccountRequest ==
    \/ \E w \in Workers, u \in Users : AuthBootstrap(w, u) \/ AuthLogin(w, u)
    \/ \E u \in Users : RevokeAll(u) \/ AddAccount(u)
    \/ \E s \in SessionSlots : Logout(s) \/ Expire(s)

AccountTypeOK ==
    /\ mode \in Modes
    /\ users \in [Users -> {"admin", "operator", "member", "viewer", None}]
    /\ credentials \subseteq Users
    /\ sessions \in [SessionSlots -> Users \cup {None}]
    /\ members \in [Projects -> [Users -> Roles \cup {None}]]
    /\ lock \in Workers \cup {None}

\* "The first administrator is created exactly once" (README.md): however many
\* bootstrap requests count zero users at the same time, one account comes out.
OneAdministrator == Cardinality({u \in Users : users[u] = "admin"}) <= 1

\* A session belongs to an account that is committed with its password, also
\* when bootstraps race, fail half-way and are rolled back.
SessionHasAccount ==
    \A s \in SessionSlots :
        sessions[s] # None => Exists(sessions[s]) /\ sessions[s] \in credentials
=============================================================================
