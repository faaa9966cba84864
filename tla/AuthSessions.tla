---------------------------- MODULE AuthSessions ----------------------------
(***************************************************************************)
(* Authentication of the api: AuthService and AuthCache, the middleware    *)
(* withAuth / withPermission, and the user and role administration behind  *)
(* it.  Users and roles live in PostgreSQL, refresh sessions and a cache   *)
(* of user profiles in Redis, access tokens with the client.  A request    *)
(* is a goroutine; each of its steps is one call to Redis or PostgreSQL.   *)
(*                                                                         *)
(* A profile is reduced to what access depends on, its role names and its  *)
(* permissions; they are read by two queries and need not fit together.    *)
(***************************************************************************)
EXTENDS Naturals, FiniteSets

CONSTANTS
  Users,        \* ids of users; an id is given once
  Requests,     \* goroutines of the HTTP server
  Tokens,       \* refresh tokens; NewRandomToken never repeats one
  RoleIds,      \* rows of the table roles, the first two are seeded
  AdminRole,    \* the row seeded with the name "admin"
  InitialUsers, \* tables users the process may find when it starts
  Absent,       \* no row, no key
  GivenRoles, GivenPermissions, \* what an administrator gives users and roles
  MaxEdits,     \* changes administrators make
  MaxFaults     \* calls to Redis whose error the code ignores

RoleNames == {"admin", "viewer"}
Permissions == {"user:read", "user:write"}

ASSUME RolesAssumption == AdminRole \in RoleIds /\ Absent \notin Users \cup Tokens
ASSUME UsersAssumption == IsFiniteSet(Users)
\* What a row of users says: whether the user is active, and its rows of user_roles.
UserRows == [active: BOOLEAN, roles: SUBSET RoleIds]
\* A row of roles, with its rows of role_permissions.
RoleRows == [name: RoleNames, perms: SUBSET Permissions]
ASSUME RowsAssumption == Absent \notin UserRows \cup RoleRows
ASSUME GivenAssumption ==
  /\ InitialUsers \subseteq [Users -> {Absent} \cup UserRows]
  /\ GivenRoles \subseteq SUBSET RoleNames /\ GivenPermissions \subseteq SUBSET Permissions
ASSUME AuthBoundsAssumption == MaxEdits \in Nat /\ MaxFaults \in Nat

VARIABLES
  users,        \* table users with user_roles: [active, roles] or Absent
  roles,        \* table roles with role_permissions: [name, perms] or Absent
  cache,        \* hft:api:auth:user:{id}, a profile or Absent
  sessions,     \* hft:api:auth:refresh:{hash}: [user, names, perms, login] or Absent
  bearer,       \* users who got an access token; it may last as long as the run
  req,          \* what each goroutine is doing
  used,         \* ids and tokens that were given
  had,          \* ghost: permissions the tables ever gave a user
  contested,    \* ghost: logins two refreshes, or one and a logout, raced for
  out,          \* ghost: logins that were logged out
  raced,        \* ghost: a setup was between count and insert while another counted
                \* or a user was created
  second,       \* ghost: a setup inserted a user beside another
  edits, faults

authVars == <<users, roles, cache, sessions, bearer, req, used, had, contested,
              out, raced, second, edits, faults>>

Profiles == [names: SUBSET RoleNames, perms: SUBSET Permissions]
Nobody == [names |-> {}, perms |-> {}]

\* "create" is before the insert of Setup, "forget" before DeleteUser of the
\* cache, "delete" before DeleteRefreshSession, "cache" before Me, "load" to
\* "perms" before its queries, "session" before SetRefreshSession, "store" before
\* SetUser; "handler" is behind withPermission.
Stages == {"idle", "create", "forget", "delete", "cache", "load", "roles", "perms",
           "session", "store", "handler"}
Ops == {"none", "setup", "login", "refresh", "guarded", "profile"}

SessionRows == [user: Users, login: Tokens, profile: Profiles]
Handlers == [op: Ops, pc: Stages, user: Users \cup {Absent}, token: Tokens \cup {Absent},
             login: Tokens \cup {Absent}, profile: Profiles]

Serving(op, pc, u, profile) == [op |-> op, pc |-> pc, user |-> u, token |-> Absent,
                             login |-> Absent, profile |-> profile]
Idle == Serving("none", "idle", Absent, Nobody)

AuthTypeOK ==
  /\ users \in [Users -> {Absent} \cup UserRows]
  /\ roles \in [RoleIds -> {Absent} \cup RoleRows]
  /\ cache \in [Users -> {Absent} \cup Profiles]
  /\ sessions \in [Tokens -> {Absent} \cup SessionRows]
  /\ bearer \subseteq Users
  /\ req \in [Requests -> Handlers]
  /\ used \subseteq Users \cup Tokens
  /\ had \in [Users -> SUBSET Permissions]
  /\ contested \subseteq Tokens /\ out \subseteq Tokens
  /\ raced \in BOOLEAN /\ second \in BOOLEAN
  /\ edits \in 0..MaxEdits /\ faults \in 0..MaxFaults

-----------------------------------------------------------------------------
\* What the tables say.

Exists(u) == users[u] # Absent
CountUsers == Cardinality({u \in Users : Exists(u)})
Live(u) == Exists(u) /\ users[u].active

\* Roles that are deleted leave their holders (ON DELETE CASCADE).
HeldRoles(u) == IF Exists(u) THEN users[u].roles ELSE {}
ListRoleNames(u) == {roles[i].name : i \in HeldRoles(u)}
ListPermissionNames(u) == UNION {roles[i].perms : i \in HeldRoles(u)}
Named(names) == {i \in RoleIds : roles[i] # Absent /\ roles[i].name \in names}
Profile(u) == [names |-> ListRoleNames(u), perms |-> ListPermissionNames(u)]

HasPermission(profile, p) == "admin" \in profile.names \/ p \in profile.perms
Granted(u) == {p \in Permissions : HasPermission(Profile(u), p)}

AuthInit ==
  /\ users \in InitialUsers
  /\ roles = [i \in RoleIds |->
                IF i = AdminRole THEN [name |-> "admin", perms |-> Permissions]
                ELSE [name |-> "viewer", perms |-> {"user:read"}]]
  /\ cache = [u \in Users |-> Absent] /\ sessions = [t \in Tokens |-> Absent]
  /\ bearer = {} /\ req = [r \in Requests |-> Idle] /\ used = {u \in Users : Exists(u)}
  /\ had = [u \in Users |-> Granted(u)] /\ contested = {} /\ out = {}
  /\ raced = FALSE /\ second = FALSE
  /\ edits \in 0..MaxEdits /\ faults \in 0..MaxFaults

-----------------------------------------------------------------------------
\* Steps of a request.

\* The request r goes on at pc; Leave ends it, with an answer or an error.
Goto(r, pc) == req' = [req EXCEPT ![r].pc = pc]
Leave(r) == req' = [req EXCEPT ![r] = Idle]
\* A request arrives, makes its first call and goes on at pc.
Enter(r, op, pc, u) ==
  /\ req[r].pc = "idle"
  /\ req' = [req EXCEPT ![r] = Serving(op, pc, u, Nobody)]

tables == <<users, roles, edits, had>>
redis == <<cache, sessions>>
ghosts == <<contested, out, raced, second>>
\* The ghost had follows the tables.
Remember == had' = [u \in Users |-> had[u] \cup Granted(u)']

\* gen_random_uuid and NewRandomToken: one that was never given.
Unused(S) == S \ used
Fresh(S) == CHOOSE x \in S : x \notin used

\* Statements of APIAuthRepository, each a transaction.
InsertUser(u, active, given) ==
  /\ users' = [users EXCEPT ![u] = [active |-> active, roles |-> given]]
  /\ used' = used \cup {u}
\* given is Absent when the body names no roles.
WriteUser(u, active, given) ==
  users' = [users EXCEPT ![u] =
              [active |-> active, roles |-> IF given = Absent THEN @.roles ELSE given]]
RemoveUser(u) == users' = [users EXCEPT ![u] = Absent]
NameFree(i, n) == \A j \in RoleIds \ {i} : roles[j] # Absent => roles[j].name # n
WriteRole(i, n, perms) ==
  /\ NameFree(i, n)
  /\ roles' = [roles EXCEPT ![i] = [name |-> n, perms |-> perms]]
RemoveRole(i) ==
  /\ roles' = [roles EXCEPT ![i] = Absent]
  /\ users' = [u \in Users |-> IF Exists(u) THEN [users[u] EXCEPT !.roles = @ \ {i}]
                               ELSE Absent]
RemovePermission(p) ==
  roles' = [i \in RoleIds |-> IF roles[i] = Absent THEN Absent
                              ELSE [roles[i] EXCEPT !.perms = @ \ {p}]]

\* Access tokens, which carry their proof with them.
SignToken(u) == bearer' = bearer \cup {u}
VerifyToken(u) == u \in bearer

\* Calls of AuthCache; an ignored error leaves the key as it was.
Ignored == faults < MaxFaults /\ faults' = faults + 1
CacheUser(u, profile) == \/ cache' = [cache EXCEPT ![u] = profile] /\ faults' = faults
                         \/ Ignored /\ cache' = cache
DropUser(u) == \/ cache' = [cache EXCEPT ![u] = Absent] /\ faults' = faults
               \/ Ignored /\ cache' = cache
Session(t) == sessions[t]
SetRefreshSession(t, u, login, profile) ==
  sessions' = [sessions EXCEPT ![t] = [user |-> u, login |-> login, profile |-> profile]]
DeleteRefreshSession(t) == sessions' = [sessions EXCEPT ![t] = Absent]

\* A setup has counted and not inserted yet.
Racing == \E q \in Requests : req[q].pc = "create"

\* The count is not looked at.
MutSetup(r) ==
  /\ Enter(r, "setup", "create", Absent)
  /\ raced' = (raced \/ Racing)
  /\ UNCHANGED <<tables, redis, bearer, used, contested, out, second, faults>>

\* Setup: CountUsers, and the insert with the role admin in a transaction.
Setup(r) ==
  /\ CountUsers = 0
  /\ Enter(r, "setup", "create", Absent)
  /\ raced' = (raced \/ Racing)
  /\ UNCHANGED <<tables, redis, bearer, used, contested, out, second, faults>>
CreateAdmin(r) ==
  LET u == Fresh(Users) IN
  /\ req[r].pc = "create" /\ Unused(Users) # {}
  /\ InsertUser(u, TRUE, Named({"admin"}))
  /\ second' = (second \/ CountUsers > 0)
  /\ req' = [req EXCEPT ![r] = Serving("setup", "roles", u, Nobody)]
  /\ UNCHANGED <<roles, edits, redis, bearer, contested, out, raced, faults>>
  /\ Remember

\* A token that was signed here for u and has not expired.
WithAuth(u) == VerifyToken(u)

\* The active check is missing.
MutLogin(r, u) ==
  /\ Exists(u) /\ Enter(r, "login", "forget", u)
  /\ UNCHANGED <<tables, redis, bearer, used, ghosts, faults>>

\* Login: GetUserByEmail with the checks; UpdateProfile: GetUserByID with its
\* check, for a user whose access token withAuth verified.
Login(r, u) ==
  /\ Live(u) /\ Enter(r, "login", "forget", u)
  /\ UNCHANGED <<tables, redis, bearer, used, ghosts, faults>>
UpdateProfile(r, u) ==
  /\ WithAuth(u) /\ Live(u) /\ Enter(r, "profile", "forget", u)
  /\ UNCHANGED <<tables, redis, bearer, used, ghosts, faults>>

\* UpdateLastLogin or UpdateUserProfile, then DeleteUser of the cache, whose
\* error is ignored.
Forget(r) ==
  LET u == req[r].user IN
  /\ req[r].pc = "forget"
  /\ req[r].op = "login" \/ Exists(u)
  /\ Goto(r, IF req[r].op = "login" THEN "roles" ELSE "cache")
  /\ DropUser(u)
  /\ UNCHANGED <<tables, sessions, bearer, used, ghosts>>

\* Me, for GET /me and in withPermission: the cache first, then the tables, in
\* three queries.
Guarded(r, u) ==
  /\ WithAuth(u)
  /\ IF cache[u] = Absent THEN Enter(r, "guarded", "load", u)
     ELSE /\ req[r].pc = "idle" /\ HasPermission(cache[u], "user:read")
          /\ req' = [req EXCEPT ![r] = Serving("guarded", "handler", u, cache[u])]
  /\ UNCHANGED <<tables, redis, bearer, used, ghosts, faults>>
Me(r) ==
  /\ req[r].pc = "cache"
  /\ IF cache[req[r].user] = Absent THEN Goto(r, "load") ELSE Leave(r)
  /\ UNCHANGED <<tables, redis, bearer, used, ghosts, faults>>
LoadUser(r) ==
  /\ req[r].pc = "load"
  /\ IF Live(req[r].user) THEN Goto(r, "roles") ELSE Leave(r)
  /\ UNCHANGED <<tables, redis, bearer, used, ghosts, faults>>
\* The query is not restricted to the user.
MutReadRoles(r) ==
  /\ req[r].pc = "roles"
  /\ req' = [req EXCEPT ![r].pc = "perms",
                        ![r].profile.names = UNION {ListRoleNames(u) : u \in Users}]
  /\ UNCHANGED <<tables, redis, bearer, used, ghosts, faults>>

ReadRoles(r) ==
  /\ req[r].pc = "roles"
  /\ req' = [req EXCEPT ![r].pc = "perms", ![r].profile.names = ListRoleNames(req[r].user)]
  /\ UNCHANGED <<tables, redis, bearer, used, ghosts, faults>>
ReadPermissions(r) ==
  /\ req[r].pc = "perms"
  /\ req' = [req EXCEPT ![r].pc = IF req[r].op \in {"setup", "login"} THEN "session" ELSE "store",
                        ![r].profile.perms = ListPermissionNames(req[r].user)]
  /\ UNCHANGED <<tables, redis, bearer, used, ghosts, faults>>

\* A session whose user was not decoded is accepted.
MutRefresh(r, t) ==
  /\ req[r].pc = "idle" /\ Session(t) # Absent
  /\ req' = [req EXCEPT ![r] = [op |-> "refresh", pc |-> "delete", token |-> t,
                user |-> Absent, login |-> Session(t).login,
                profile |-> Session(t).profile]]
  /\ UNCHANGED <<tables, redis, bearer, used, ghosts, faults>>

\* Refresh: GetRefreshSession, then DeleteRefreshSession whose error is ignored.
\* The user is not looked up again.
Refresh(r, t) ==
  /\ req[r].pc = "idle" /\ Session(t) # Absent
  /\ req' = [req EXCEPT ![r] = [op |-> "refresh", pc |-> "delete", token |-> t,
                user |-> Session(t).user, login |-> Session(t).login,
                profile |-> Session(t).profile]]
  /\ contested' = IF \E q \in Requests : req[q].pc = "delete" /\ req[q].token = t
                  THEN contested \cup {Session(t).login} ELSE contested
  /\ UNCHANGED <<tables, redis, bearer, used, out, raced, second, faults>>
\* The exchanged session stays.
MutDeleteOld(r) ==
  /\ req[r].pc = "delete"
  /\ Goto(r, "session")
  /\ UNCHANGED <<tables, redis, bearer, used, ghosts, faults>>

DeleteOld(r) ==
  /\ req[r].pc = "delete"
  /\ Goto(r, "session")
  /\ \/ DeleteRefreshSession(req[r].token) /\ UNCHANGED <<contested, faults>>
     \/ /\ Ignored
        /\ contested' = contested \cup {req[r].login}
        /\ sessions' = sessions
  /\ UNCHANGED <<tables, cache, bearer, used, out, raced, second>>

\* issue and issueFromAuthUser: sign an access token, store the new session.
StoreSession(r) ==
  /\ req[r].pc = "session" /\ Unused(Tokens) # {}
  /\ LET t == Fresh(Tokens) IN
     /\ SetRefreshSession(t, req[r].user, IF req[r].op = "refresh" THEN req[r].login ELSE t,
                          req[r].profile)
     /\ used' = used \cup {t}
  /\ Goto(r, "store")
  /\ UNCHANGED <<tables, cache, bearer, ghosts, faults>>

\* SetUser, whose error is ignored; then the answer with the access token, or
\* the decision of withPermission.
StoreUser(r) ==
  LET u == req[r].user IN
  /\ req[r].pc = "store"
  /\ CacheUser(u, req[r].profile)
  /\ IF req[r].op \in {"setup", "login", "refresh"} THEN SignToken(u) ELSE bearer' = bearer
  /\ IF req[r].op = "guarded" /\ HasPermission(req[r].profile, "user:read")
     THEN Goto(r, "handler") ELSE Leave(r)
  /\ UNCHANGED <<tables, sessions, used, ghosts>>

\* Any other call that fails ends the request.
FailRequest(r) ==
  /\ req[r].pc \in Stages \ {"idle", "delete", "store", "handler"}
  /\ Leave(r)
  /\ UNCHANGED <<tables, redis, bearer, used, ghosts, faults>>

\* Logout behind withAuth: one Del.  The handler hashes the token as it was
\* sent, Refresh hashes it trimmed: a padded token deletes nothing.
Logout(t, padded) ==
  /\ \E u \in Users : WithAuth(u)
  /\ t \in used
  /\ IF padded \/ sessions[t] = Absent
     THEN UNCHANGED <<sessions, out, contested>>
     ELSE LET login == sessions[t].login IN
          /\ DeleteRefreshSession(t)
          /\ out' = out \cup {login}
          /\ contested' = IF \E q \in Requests : req[q].login = login
                                                 /\ req[q].pc \in {"delete", "session"}
                          THEN contested \cup {login} ELSE contested
  /\ UNCHANGED <<tables, cache, bearer, req, used, raced, second, faults>>

-----------------------------------------------------------------------------
\* Handlers behind withPermission: GET ends the request, the others pass
\* requirePermission with the same profile first.

RequirePermission(r, p) == HasPermission(req[r].profile, p)

\* Each writes in one transaction and leaves Redis as it is.
Edit(r) == /\ req[r].pc = "handler" /\ RequirePermission(r, "user:write")
           /\ edits < MaxEdits /\ edits' = edits + 1 /\ Leave(r)

Answer(r) == /\ req[r].pc = "handler" /\ Leave(r)
             /\ UNCHANGED <<tables, redis, bearer, used, ghosts, faults>>

CreateUser(r, active, given) ==
  /\ Edit(r) /\ Unused(Users) # {}
  /\ InsertUser(Fresh(Users), active, given)
  /\ raced' = (raced \/ Racing)
  /\ UNCHANGED <<roles, redis, bearer, contested, out, second, faults>>
  /\ Remember
UpdateUser(r, u, active, given) ==
  /\ Edit(r) /\ Exists(u)
  /\ WriteUser(u, active, given)
  /\ UNCHANGED <<roles, redis, bearer, used, ghosts, faults>>
  /\ Remember
DeleteUser(r, u) ==
  /\ Edit(r) /\ Exists(u)
  /\ RemoveUser(u)
  /\ UNCHANGED <<roles, redis, bearer, used, ghosts, faults>>
  /\ Remember
\* CreateRole and UpdateRole.
PutRole(r, i, n, perms) ==
  /\ Edit(r)
  /\ WriteRole(i, n, perms)
  /\ UNCHANGED <<users, redis, bearer, used, ghosts, faults>>
  /\ Remember
DeleteRole(r, i) ==
  /\ Edit(r) /\ roles[i] # Absent
  /\ RemoveRole(i)
  /\ UNCHANGED <<redis, bearer, used, ghosts, faults>>
  /\ Remember
\* A deleted permission may be created again, without the roles it had.
DeletePermission(r, p) ==
  /\ Edit(r)
  /\ RemovePermission(p)
  /\ UNCHANGED <<users, redis, bearer, used, ghosts, faults>>
  /\ Remember

\* Time.
ExpireUser(u) == /\ cache[u] # Absent /\ cache' = [cache EXCEPT ![u] = Absent]
                 /\ UNCHANGED <<tables, sessions, bearer, req, used, ghosts, faults>>
ExpireSession(t) == /\ sessions[t] # Absent /\ sessions' = [sessions EXCEPT ![t] = Absent]
                    /\ UNCHANGED <<tables, cache, bearer, req, used, ghosts, faults>>
-----------------------------------------------------------------------------
GoOn(r) == \/ CreateAdmin(r) \/ Forget(r) \/ Me(r) \/ LoadUser(r)
           \/ ReadRoles(r) \/ ReadPermissions(r)
           \/ DeleteOld(r) \/ StoreSession(r) \/ StoreUser(r)

AuthHandlers(r) ==
  \/ Setup(r)
  \/ \E u \in Users : Login(r, u)
  \/ \E t \in Tokens : Refresh(r, t)
ProfileHandlers(r) == \E u \in Users : UpdateProfile(r, u) \/ Guarded(r, u)
LogoutHandler == \E t \in Tokens, padded \in BOOLEAN : Logout(t, padded)
UserHandlers(r) ==
  \E u \in Users, active \in BOOLEAN, names \in GivenRoles :
    \/ CreateUser(r, active, Named(names))
    \/ UpdateUser(r, u, active, Named(names)) \/ UpdateUser(r, u, active, Absent)
    \/ DeleteUser(r, u)
RoleHandlers(r) ==
  \E i \in RoleIds :
    \/ \E n \in RoleNames, perms \in GivenPermissions : PutRole(r, i, n, perms)
    \/ DeleteRole(r, i)
PermissionHandlers(r) == \E p \in Permissions : DeletePermission(r, p)

AuthNext ==
  \/ \E r \in Requests : GoOn(r) \/ FailRequest(r) \/ Answer(r)
  \/ \E r \in Requests : AuthHandlers(r) \/ ProfileHandlers(r)
  \/ LogoutHandler
  \/ \E r \in Requests : UserHandlers(r) \/ RoleHandlers(r) \/ PermissionHandlers(r)
  \/ \E u \in Users : ExpireUser(u)
  \/ \E t \in Tokens : ExpireSession(t)

AuthSpec == AuthInit /\ [][AuthNext]_authVars

-----------------------------------------------------------------------------
\* Properties.

\* What a request may do, its user could do by the tables at some time: the
\* profile withPermission decides on may be cached, come from a session or be
\* put together from two queries, but it never adds to what was granted.
AuthorityWasReal ==
  \A r \in Requests : req[r].pc = "handler" =>
    \A p \in Permissions : HasPermission(req[r].profile, p) => p \in had[req[r].user]

\* "Refresh rotates the refresh token by deleting the old Redis key"
\* (docs/API_SERVICE.md:84): one login has one session, or a refresh that is
\* between deleting the old and storing the new one, and none once it was
\* logged out - unless the calls of two of them were mixed or a Del failed.
Alive(login) ==
  Cardinality({t \in Tokens : sessions[t] # Absent /\ sessions[t].login = login})
  + Cardinality({r \in Requests : req[r].pc = "session" /\ req[r].login = login})
OneSessionPerLogin ==
  \A login \in Tokens \ contested : Alive(login) <= IF login \in out THEN 0 ELSE 1

\* "Create the first admin user. Fails after a user exists"
\* (docs/API_SERVICE.md:189): unless another setup counted, or an administrator
\* whose row is already deleted created a user, between its count and its insert.
SetupOnce == second => raced

\* Nothing of a user is left: no key in Redis and no request that took over its
\* row or profile.
Leftover(u) ==
  \/ cache[u] # Absent
  \/ \E t \in Tokens : sessions[t] # Absent /\ sessions[t].user = u
  \/ \E r \in Requests : req[r].user = u /\ req[r].pc \in
       {"forget", "delete", "roles", "perms", "session", "store", "handler"}

\* A user who is deactivated or deleted and has nothing left gets no profile, no
\* session and no handler again, whoever still holds a token, until the table
\* makes it active: every way in that does not take a stored profile passes the
\* active check.
RevokedStaysOut ==
  [][\A u \in Users : ~Live(u) /\ ~Leftover(u) => Live(u)' \/ ~Leftover(u)']_authVars
=============================================================================
