------------------------- MODULE AuthSessionsProofs -------------------------
(***************************************************************************)
(* Theorems about AuthSessions, for every set of users, requests, tokens   *)
(* and roles, any number of administrative changes and of ignored errors,  *)
(* and about the api process, where OrderDesk works next to it.            *)
(***************************************************************************)
EXTENDS MCApi, OrderDeskProofs, FiniteSetTheorems

\* A profile that allows its user nothing the tables never gave it.
RealProfile(u, profile) == \A p \in Permissions : HasPermission(profile, p) => p \in had[u]

\* The tables: their types, roles that users hold exist (the foreign key of
\* user_roles), and had covers what they give.
TablesOK ==
  /\ users \in [Users -> {Absent} \cup UserRows]
  /\ roles \in [RoleIds -> {Absent} \cup RoleRows]
  /\ had \in [Users -> SUBSET Permissions]
  /\ \A u \in Users : \A i \in HeldRoles(u) : roles[i] # Absent
  /\ \A u \in Users : Granted(u) \subseteq had[u]

\* Redis: what is stored is real.
CacheOK ==
  /\ cache \in [Users -> {Absent} \cup Profiles]
  /\ \A u \in Users : cache[u] # Absent => RealProfile(u, cache[u])
SessionsOK ==
  /\ sessions \in [Tokens -> {Absent} \cup SessionRows]
  /\ \A t \in Tokens : sessions[t] # Absent => RealProfile(sessions[t].user, sessions[t].profile)

\* A request: from its first call on it is about a user, a refresh about a login
\* too, and the profile it carries, as far as it is read, is real.
GoodRequest(q) ==
  /\ q \in Handlers
  /\ q.pc \notin {"idle", "create"} => q.user \in Users
  /\ q.op = "refresh" => q.login \in Tokens /\ q.token \in Tokens
  /\ q.pc = "create" => q.profile = Nobody
  /\ q.pc = "delete" => q.op = "refresh"
  /\ q.user \in Users => RealProfile(q.user, q.profile)
RequestsOK == req \in [Requests -> Handlers] /\ \A r \in Requests : GoodRequest(req[r])

RestOK ==
  /\ bearer \subseteq Users /\ used \subseteq Users \cup Tokens
  /\ contested \subseteq Tokens /\ out \subseteq Tokens
  /\ raced \in BOOLEAN /\ second \in BOOLEAN
  /\ edits \in 0..MaxEdits /\ faults \in 0..MaxFaults

AuthInv == TablesOK /\ CacheOK /\ SessionsOK /\ RequestsOK /\ RestOK

-----------------------------------------------------------------------------
\* Permissions are never taken out of had.
HadGrows == \A u \in Users : had[u] \subseteq had'[u]

\* What was real stays real.
LEMMA StaysReal ==
  ASSUME HadGrows, NEW u \in Users, NEW profile, RealProfile(u, profile)
  PROVE  RealProfile(u, profile)'
  BY DEF HadGrows, RealProfile, HasPermission

\* A profile that names no role and no permission allows nothing.
LEMMA NobodyReal ==
  ASSUME NEW u
  PROVE  RealProfile(u, Nobody) /\ Nobody \in Profiles
  BY DEF RealProfile, HasPermission, Nobody, Profiles

\* What the two queries return is of the right type, ...
LEMMA ListsTyped ==
  ASSUME TablesOK, NEW u \in Users
  PROVE  ListRoleNames(u) \subseteq RoleNames /\ ListPermissionNames(u) \subseteq Permissions
<1>1. \A i \in HeldRoles(u) : i \in RoleIds
  BY DEF TablesOK, HeldRoles, Exists, UserRows
<1>2. \A i \in HeldRoles(u) : roles[i] \in RoleRows
  BY <1>1 DEF TablesOK
<1>3. \A i \in HeldRoles(u) : roles[i].name \in RoleNames /\ roles[i].perms \subseteq Permissions
  BY <1>2 DEF RoleRows
<1>4. QED
  BY <1>3 DEF ListRoleNames, ListPermissionNames

\* ... and each of them alone returns what the user has.
LEMMA NamesReal ==
  ASSUME TablesOK, NEW u \in Users, NEW perms, RealProfile(u, [names |-> {}, perms |-> perms])
  PROVE  RealProfile(u, [names |-> ListRoleNames(u), perms |-> perms])
<1>1. ASSUME "admin" \in ListRoleNames(u)
      PROVE  \A p \in Permissions : p \in had[u]
  BY <1>1 DEF TablesOK, Granted, HasPermission, Profile
<1>2. QED
  BY <1>1 DEF RealProfile, HasPermission

LEMMA PermissionsReal ==
  ASSUME TablesOK, NEW u \in Users, NEW profile, RealProfile(u, profile)
  PROVE  RealProfile(u, [names |-> profile.names, perms |-> ListPermissionNames(u)])
<1>1. \A p \in Permissions : p \in ListPermissionNames(u) => p \in had[u]
  BY DEF TablesOK, Granted, HasPermission, Profile
<1>2. QED
  BY <1>1 DEF RealProfile, HasPermission

\* Fresh returns one of the ids that are left.
LEMMA FreshOne ==
  ASSUME NEW S, Unused(S) # {}
  PROVE  Fresh(S) \in S
  BY DEF Unused, Fresh

-----------------------------------------------------------------------------
\* The steps, by what they leave alone

\* Statements write users and roles; then had takes what they give.
WritesTables(r) ==
  \/ CreateAdmin(r)
  \/ \E u \in Users, live \in BOOLEAN, names \in GivenRoles :
       CreateUser(r, live, Named(names))
  \/ \E u \in Users, live \in BOOLEAN, given \in {Absent} \cup {Named(n) : n \in GivenRoles} :
       UpdateUser(r, u, live, given)
  \/ \E u \in Users : DeleteUser(r, u)
  \/ \E i \in RoleIds, n \in RoleNames, perms \in GivenPermissions : PutRole(r, i, n, perms)
  \/ \E i \in RoleIds : DeleteRole(r, i)
  \/ \E p \in Permissions : DeletePermission(r, p)

\* Other requests move without them.
Moves(r) ==
  \/ Forget(r) \/ Me(r) \/ LoadUser(r) \/ ReadRoles(r) \/ ReadPermissions(r)
  \/ DeleteOld(r) \/ StoreSession(r) \/ StoreUser(r) \/ FailRequest(r) \/ Answer(r)
  \/ Setup(r)
  \/ \E u \in Users : Login(r, u) \/ UpdateProfile(r, u) \/ Guarded(r, u)
  \/ \E t \in Tokens : Refresh(r, t)

Expires == \/ \E u \in Users : ExpireUser(u)
           \/ \E t \in Tokens : ExpireSession(t)

\* Every step is one of these.
LEMMA StepKinds ==
  ASSUME AuthNext
  PROVE  \/ \E r \in Requests : WritesTables(r) \/ Moves(r)
         \/ LogoutHandler \/ Expires
<1>1. ASSUME NEW r \in Requests, GoOn(r) \/ FailRequest(r) \/ Answer(r)
      PROVE  WritesTables(r) \/ Moves(r)
  BY <1>1 DEF GoOn, WritesTables, Moves
<1>2. ASSUME NEW r \in Requests, AuthHandlers(r) \/ ProfileHandlers(r)
      PROVE  Moves(r)
  BY <1>2 DEF AuthHandlers, ProfileHandlers, Moves
<1>3. ASSUME NEW r \in Requests, UserHandlers(r)
      PROVE  WritesTables(r)
  BY <1>3 DEF UserHandlers, WritesTables
<1>4. ASSUME NEW r \in Requests, RoleHandlers(r) \/ PermissionHandlers(r)
      PROVE  WritesTables(r)
  BY <1>4 DEF RoleHandlers, PermissionHandlers, WritesTables
<1>5. QED
  BY <1>1, <1>2, <1>3, <1>4 DEF AuthNext, Expires

\* Remember adds what the tables now give.
LEMMA RememberCovers ==
  ASSUME had \in [Users -> SUBSET Permissions], Remember
  PROVE  /\ HadGrows /\ had' \in [Users -> SUBSET Permissions]
         /\ \A u \in Users : Granted(u)' \subseteq had'[u]
<1>1. \A u \in Users : Granted(u)' \subseteq Permissions
  BY DEF Granted
<1>2. QED
  BY <1>1 DEF Remember, HadGrows

\* The roles an administrator names exist.
LEMMA NamedExist ==
  ASSUME NEW names
  PROVE  /\ Named(names) \subseteq RoleIds
         /\ \A i \in Named(names) : roles[i] # Absent
  BY DEF Named

\* Tables that nothing writes stay as they are.
LEMMA AuthTablesRest ==
  ASSUME TablesOK, UNCHANGED <<users, roles, had>>
  PROVE  TablesOK' /\ HadGrows
<1>1. HadGrows
  BY DEF HadGrows
<1>2. \A u \in Users : HeldRoles(u)' = HeldRoles(u) /\ Granted(u)' = Granted(u)
  BY DEF HeldRoles, Exists, Granted, HasPermission, Profile, ListRoleNames, ListPermissionNames
<1>3. QED
  BY <1>1, <1>2 DEF TablesOK

\* The row of one user is written, with roles that exist.
LEMMA UserWritten ==
  ASSUME TablesOK, UNCHANGED roles, Remember, NEW u \in Users, NEW row \in {Absent} \cup UserRows,
         row # Absent => \A i \in row.roles : roles[i] # Absent,
         users' = [users EXCEPT ![u] = row]
  PROVE  TablesOK' /\ HadGrows
<1>1. HadGrows /\ had' \in [Users -> SUBSET Permissions]
      /\ \A v \in Users : Granted(v)' \subseteq had'[v]
  BY RememberCovers DEF TablesOK
<1>2. users' \in [Users -> {Absent} \cup UserRows]
  BY DEF TablesOK
<1>3. \A v \in Users : \A i \in HeldRoles(v)' : roles'[i] # Absent
  <2> SUFFICES ASSUME NEW v \in Users, NEW i \in HeldRoles(v)'
               PROVE  roles[i] # Absent
    OBVIOUS
  <2>1. CASE v = u
    <3>1. users'[v] = row
      BY <2>1 DEF TablesOK
    <3>2. QED
      BY <3>1 DEF HeldRoles, Exists
  <2>2. CASE v # u
    <3>1. users'[v] = users[v]
      BY <2>2 DEF TablesOK
    <3>2. i \in HeldRoles(v)
      BY <3>1 DEF HeldRoles, Exists
    <3>3. QED
      BY <3>2 DEF TablesOK
  <2>3. QED
    BY <2>1, <2>2
<1>4. roles' \in [RoleIds -> {Absent} \cup RoleRows]
  BY DEF TablesOK
<1>5. QED
  BY <1>1, <1>2, <1>3, <1>4 DEF TablesOK

\* The rows of roles are written and none is lost.
LEMMA RolesWritten ==
  ASSUME TablesOK, UNCHANGED users, Remember,
         roles' \in [RoleIds -> {Absent} \cup RoleRows],
         \A i \in RoleIds : roles[i] # Absent => roles'[i] # Absent
  PROVE  TablesOK' /\ HadGrows
<1>1. HadGrows /\ had' \in [Users -> SUBSET Permissions]
      /\ \A v \in Users : Granted(v)' \subseteq had'[v]
  BY RememberCovers DEF TablesOK
<1>2. \A v \in Users : HeldRoles(v)' = HeldRoles(v) /\ HeldRoles(v) \subseteq RoleIds
  BY DEF HeldRoles, Exists, TablesOK, UserRows
<1>3. \A v \in Users : \A i \in HeldRoles(v)' : roles'[i] # Absent
  BY <1>2 DEF TablesOK
<1>4. QED
  BY <1>1, <1>3 DEF TablesOK

\* A role is deleted, and its holders lose it.
LEMMA RoleRemoved ==
  ASSUME TablesOK, Remember, NEW i \in RoleIds, RemoveRole(i)
  PROVE  TablesOK' /\ HadGrows
<1>1. HadGrows /\ had' \in [Users -> SUBSET Permissions]
      /\ \A v \in Users : Granted(v)' \subseteq had'[v]
  BY RememberCovers DEF TablesOK
<1>2. \A v \in Users : users'[v] = IF Exists(v) THEN [users[v] EXCEPT !.roles = @ \ {i}]
                                   ELSE Absent
  BY DEF RemoveRole
<1>3. \A v \in Users : Exists(v) => /\ users[v] \in UserRows
                                    /\ users'[v] \in UserRows
                                    /\ users'[v].roles = users[v].roles \ {i}
  BY <1>2 DEF TablesOK, Exists, UserRows
<1>4. users' \in [Users -> {Absent} \cup UserRows]
  BY <1>2, <1>3 DEF RemoveRole
<1>5. roles' \in [RoleIds -> {Absent} \cup RoleRows]
  BY DEF RemoveRole, TablesOK
<1>6. \A v \in Users : HeldRoles(v)' \subseteq HeldRoles(v) \ {i}
  BY <1>2, <1>3 DEF HeldRoles, Exists
<1>7. \A j \in RoleIds \ {i} : roles'[j] = roles[j]
  BY DEF RemoveRole, TablesOK
<1>8. \A v \in Users : HeldRoles(v) \subseteq RoleIds
  BY <1>3 DEF HeldRoles, UserRows
<1>9. \A v \in Users : \A j \in HeldRoles(v)' : roles'[j] # Absent
  BY <1>6, <1>7, <1>8 DEF TablesOK
<1>10. QED
  BY <1>1, <1>4, <1>5, <1>9 DEF TablesOK

\* Every statement of the administration and of Setup keeps the tables sound.
LEMMA TablesWritten ==
  ASSUME AuthInv, NEW r \in Requests, WritesTables(r)
  PROVE  TablesOK' /\ HadGrows
<1> USE DEF AuthInv
<1>1. CASE CreateAdmin(r)
  <2>1. /\ Fresh(Users) \in Users
        /\ InsertUser(Fresh(Users), TRUE, Named({"admin"})) /\ roles' = roles /\ Remember
    BY <1>1, FreshOne DEF CreateAdmin
  <2>2. [active |-> TRUE, roles |-> Named({"admin"})] \in UserRows
    BY NamedExist DEF UserRows
  <2>3. QED
    BY <2>1, <2>2, NamedExist, UserWritten DEF InsertUser
<1>2. ASSUME NEW live \in BOOLEAN, NEW names \in GivenRoles,
             CreateUser(r, live, Named(names))
      PROVE  TablesOK' /\ HadGrows
  <2>1. /\ Fresh(Users) \in Users
        /\ InsertUser(Fresh(Users), live, Named(names)) /\ roles' = roles /\ Remember
    BY <1>2, FreshOne DEF CreateUser
  <2>2. [active |-> live, roles |-> Named(names)] \in UserRows
    BY NamedExist DEF UserRows
  <2>3. QED
    BY <2>1, <2>2, NamedExist, UserWritten DEF InsertUser
<1>3. ASSUME NEW u \in Users, NEW live \in BOOLEAN,
             NEW given \in {Absent} \cup {Named(n) : n \in GivenRoles},
             UpdateUser(r, u, live, given)
      PROVE  TablesOK' /\ HadGrows
  <2> DEFINE held == IF given = Absent THEN users[u].roles ELSE given
  <2>1. users[u] \in UserRows /\ HeldRoles(u) = users[u].roles
    BY <1>3 DEF UpdateUser, TablesOK, Exists, HeldRoles
  <2>2. held \subseteq RoleIds /\ \A i \in held : roles[i] # Absent
    BY <2>1, NamedExist DEF UserRows, TablesOK
  <2>3. [active |-> live, roles |-> held] \in UserRows
    BY <2>2 DEF UserRows
  <2>4. /\ users' = [users EXCEPT ![u] = [active |-> live, roles |-> held]]
        /\ roles' = roles /\ Remember
    BY <1>3 DEF UpdateUser, WriteUser, TablesOK
  <2>5. \A i \in [active |-> live, roles |-> held].roles : roles[i] # Absent
    BY <2>2
  <2> HIDE DEF held
  <2>6. QED
    BY <2>3, <2>4, <2>5, UserWritten
<1>4. ASSUME NEW u \in Users, DeleteUser(r, u)
      PROVE  TablesOK' /\ HadGrows
  BY <1>4, UserWritten DEF DeleteUser, RemoveUser
<1>5. ASSUME NEW i \in RoleIds, NEW n \in RoleNames, NEW perms \in GivenPermissions,
             PutRole(r, i, n, perms)
      PROVE  TablesOK' /\ HadGrows
  <2>1. roles' = [roles EXCEPT ![i] = [name |-> n, perms |-> perms]] /\ users' = users /\ Remember
    BY <1>5 DEF PutRole, WriteRole
  <2>2. [name |-> n, perms |-> perms] \in RoleRows
    BY GivenAssumption DEF RoleRows
  <2>3. roles' \in [RoleIds -> {Absent} \cup RoleRows]
    BY <2>1, <2>2 DEF TablesOK
  <2>4. \A j \in RoleIds : roles[j] # Absent => roles'[j] # Absent
    BY <2>1, <2>2, RowsAssumption DEF TablesOK
  <2>5. QED
    BY <2>1, <2>3, <2>4, RolesWritten
<1>6. ASSUME NEW i \in RoleIds, DeleteRole(r, i)
      PROVE  TablesOK' /\ HadGrows
  BY <1>6, RoleRemoved DEF DeleteRole
<1>7. ASSUME NEW p \in Permissions, DeletePermission(r, p)
      PROVE  TablesOK' /\ HadGrows
  <2>1. /\ roles' = [i \in RoleIds |-> IF roles[i] = Absent THEN Absent
                                      ELSE [roles[i] EXCEPT !.perms = @ \ {p}]]
        /\ users' = users /\ Remember
    BY <1>7 DEF DeletePermission, RemovePermission
  <2>2. \A i \in RoleIds : roles[i] # Absent => [roles[i] EXCEPT !.perms = @ \ {p}] \in RoleRows
    BY DEF TablesOK, RoleRows
  <2>3. roles' \in [RoleIds -> {Absent} \cup RoleRows]
    BY <2>1, <2>2
  <2>4. \A i \in RoleIds : roles[i] # Absent => roles'[i] # Absent
    BY <2>1, <2>2, RowsAssumption
  <2>5. QED
    BY <2>1, <2>3, <2>4, RolesWritten
<1>8. QED
  BY <1>1, <1>2, <1>3, <1>4, <1>5, <1>6, <1>7 DEF WritesTables

-----------------------------------------------------------------------------
\* Redis and the requests, while had grows

LEMMA CacheRests ==
  ASSUME CacheOK, HadGrows, UNCHANGED cache
  PROVE  CacheOK'
  BY StaysReal DEF CacheOK

LEMMA CacheWritten ==
  ASSUME CacheOK, HadGrows, NEW u \in Users, NEW profile \in {Absent} \cup Profiles,
         profile # Absent => RealProfile(u, profile),
         cache' = [cache EXCEPT ![u] = profile]
  PROVE  CacheOK'
<1>1. cache' \in [Users -> {Absent} \cup Profiles]
  BY DEF CacheOK
<1>2. ASSUME NEW v \in Users, NEW p, p = cache'[v], p # Absent
      PROVE  RealProfile(v, p)
  BY <1>2 DEF CacheOK
<1>3. ASSUME NEW v \in Users, NEW p, p = cache'[v], p # Absent
      PROVE  RealProfile(v, p)'
  BY <1>2, <1>3, StaysReal
<1>4. QED
  BY <1>1, <1>3 DEF CacheOK, RealProfile

\* Both calls, whether their error is ignored or there is none.
LEMMA CacheCalled ==
  ASSUME CacheOK, HadGrows, NEW u \in Users, NEW profile \in Profiles, RealProfile(u, profile),
         CacheUser(u, profile) \/ DropUser(u)
  PROVE  CacheOK'
  BY CacheRests, CacheWritten DEF CacheUser, DropUser, Ignored

LEMMA SessionsRest ==
  ASSUME SessionsOK, HadGrows, UNCHANGED sessions
  PROVE  SessionsOK'
<1>1. \A t \in Tokens : sessions[t] # Absent => sessions[t].user \in Users
  BY DEF SessionsOK, SessionRows
<1>2. QED
  BY <1>1, StaysReal DEF SessionsOK

LEMMA SessionWritten ==
  ASSUME SessionsOK, HadGrows, NEW t \in Tokens, NEW row \in {Absent} \cup SessionRows,
         row # Absent => RealProfile(row.user, row.profile),
         sessions' = [sessions EXCEPT ![t] = row]
  PROVE  SessionsOK'
<1>1. sessions' \in [Tokens -> {Absent} \cup SessionRows]
  BY DEF SessionsOK
<1>2. ASSUME NEW s \in Tokens, NEW v, v = sessions'[s], v # Absent
      PROVE  v.user \in Users /\ RealProfile(v.user, v.profile)
  BY <1>2 DEF SessionsOK, SessionRows
<1>3. ASSUME NEW s \in Tokens, NEW v, v = sessions'[s], v # Absent
      PROVE  RealProfile(v.user, v.profile)'
  BY <1>2, <1>3, StaysReal
<1>4. QED
  BY <1>1, <1>3 DEF SessionsOK, RealProfile

\* A request that was good stays so while had grows.
LEMMA GoodStays ==
  ASSUME HadGrows, NEW q, GoodRequest(q)
  PROVE  GoodRequest(q)'
  BY StaysReal DEF GoodRequest

LEMMA RequestsRest ==
  ASSUME RequestsOK, HadGrows, UNCHANGED req
  PROVE  RequestsOK'
  BY GoodStays DEF RequestsOK

LEMMA RequestWritten ==
  ASSUME RequestsOK, HadGrows, NEW r \in Requests, NEW q, GoodRequest(q),
         req' = [req EXCEPT ![r] = q]
  PROVE  RequestsOK'
<1>1. q \in Handlers
  BY DEF GoodRequest
<1>2. req' \in [Requests -> Handlers]
  BY <1>1 DEF RequestsOK
<1>3. ASSUME NEW s \in Requests, NEW v, v = req'[s]
      PROVE  GoodRequest(v)'
  <2>1. GoodRequest(v)
    BY <1>3 DEF RequestsOK
  <2>2. QED
    BY <2>1, GoodStays
<1>4. QED
  BY <1>2, <1>3 DEF RequestsOK, GoodRequest, RealProfile

LEMMA IdleGood ==
  GoodRequest(Idle) /\ Idle \in Handlers /\ Idle.user \notin Users /\ Idle.profile = Nobody
  BY RolesAssumption, NobodyReal DEF GoodRequest, Idle, Serving, Handlers, Stages, Ops

\* Leave and Goto keep the requests good.
LEMMA Leaves ==
  ASSUME RequestsOK, HadGrows, NEW r \in Requests, Leave(r)
  PROVE  RequestsOK'
  BY RequestWritten, IdleGood DEF Leave

LEMMA PcChanged ==
  ASSUME NEW q, GoodRequest(q), NEW pc \in Stages \ {"idle", "create", "delete"}, q.user \in Users
  PROVE  GoodRequest([q EXCEPT !.pc = pc])
<1>1. q \in Handlers
  BY DEF GoodRequest
<1>2. [q EXCEPT !.pc = pc] = [op |-> q.op, pc |-> pc, user |-> q.user, token |-> q.token,
                              login |-> q.login, profile |-> q.profile]
  BY <1>1 DEF Handlers
<1>3. QED
  BY <1>1, <1>2 DEF GoodRequest, Handlers

LEMMA Goes ==
  ASSUME RequestsOK, HadGrows, NEW r \in Requests, req[r].pc \notin {"idle", "create"},
         NEW pc \in Stages \ {"idle", "create", "delete"}, Goto(r, pc)
  PROVE  RequestsOK'
<1>1. GoodRequest(req[r]) /\ req[r].user \in Users
  BY DEF RequestsOK, GoodRequest
<1>2. GoodRequest([req[r] EXCEPT !.pc = pc])
  BY <1>1, PcChanged
<1>3. req' = [req EXCEPT ![r] = [req[r] EXCEPT !.pc = pc]]
  BY DEF Goto, RequestsOK
<1>4. QED
  BY <1>2, <1>3, RequestWritten

\* A request that was entered without a profile.
LEMMA RequestEnters ==
  ASSUME RequestsOK, HadGrows, NEW r \in Requests, NEW op \in Ops \ {"refresh"},
         NEW pc \in Stages \ {"idle", "delete"}, NEW u \in Users \cup {Absent},
         pc # "create" => u \in Users, Enter(r, op, pc, u)
  PROVE  RequestsOK'
<1>1. Serving(op, pc, u, Nobody) \in Handlers
  BY NobodyReal DEF Handlers, Serving
<1>2. GoodRequest(Serving(op, pc, u, Nobody))
  BY <1>1, NobodyReal DEF GoodRequest, Serving
<1>3. QED
  BY <1>2, RequestWritten DEF Enter

-----------------------------------------------------------------------------
\* The invariant

\* Statements leave Redis alone and the request goes on or ends.
LEMMA WritesKeep ==
  ASSUME AuthInv, NEW r \in Requests, WritesTables(r)
  PROVE  AuthInv'
<1>1. TablesOK' /\ HadGrows
  BY TablesWritten
<1>2. CacheOK' /\ SessionsOK' /\ RequestsOK' /\ RestOK'
  <2>1. CASE CreateAdmin(r)
    <3> DEFINE u == Fresh(Users)
    <3>1. u \in Users
      BY <2>1, FreshOne DEF CreateAdmin
    <3>2. GoodRequest(Serving("setup", "roles", u, Nobody))
      BY <3>1, NobodyReal DEF GoodRequest, Serving, Handlers, Stages, Ops
    <3>3. RequestsOK'
      BY <1>1, <2>1, <3>2, RequestWritten DEF CreateAdmin, AuthInv
    <3>4. CacheOK' /\ SessionsOK'
      BY <1>1, <2>1, CacheRests, SessionsRest DEF CreateAdmin, redis, AuthInv
    <3>5. RestOK'
      BY <2>1, <3>1 DEF CreateAdmin, InsertUser, AuthInv, RestOK
    <3>6. QED
      BY <3>3, <3>4, <3>5
  <2>2. ASSUME Edit(r), UNCHANGED <<redis, bearer, contested, out, second, faults>>,
               raced' \in BOOLEAN, used' \subseteq Users \cup Tokens
        PROVE  CacheOK' /\ SessionsOK' /\ RequestsOK' /\ RestOK'
    <3>1. RequestsOK'
      BY <1>1, <2>2, Leaves DEF Edit, AuthInv
    <3>2. CacheOK' /\ SessionsOK'
      BY <1>1, <2>2, CacheRests, SessionsRest DEF redis, AuthInv
    <3>3. edits' \in 0..MaxEdits
      BY <2>2, AuthBoundsAssumption DEF Edit, AuthInv, RestOK
    <3>4. RestOK'
      BY <2>2, <3>3 DEF AuthInv, RestOK
    <3>5. QED
      BY <3>1, <3>2, <3>4
  <2>3. ASSUME NEW live \in BOOLEAN, NEW names \in GivenRoles,
               CreateUser(r, live, Named(names))
        PROVE  /\ Edit(r) /\ UNCHANGED <<redis, bearer, contested, out, second, faults>>
               /\ raced' \in BOOLEAN /\ used' \subseteq Users \cup Tokens
    BY <2>3, FreshOne DEF CreateUser, InsertUser, AuthInv, RestOK
  <2>4. ASSUME NEW u \in Users, NEW live \in BOOLEAN,
               NEW given \in {Absent} \cup {Named(n) : n \in GivenRoles},
               UpdateUser(r, u, live, given)
        PROVE  /\ Edit(r) /\ UNCHANGED <<redis, bearer, contested, out, second, faults>>
               /\ raced' \in BOOLEAN /\ used' \subseteq Users \cup Tokens
    BY <2>4 DEF UpdateUser, ghosts, AuthInv, RestOK
  <2>5. ASSUME NEW u \in Users, DeleteUser(r, u)
        PROVE  /\ Edit(r) /\ UNCHANGED <<redis, bearer, contested, out, second, faults>>
               /\ raced' \in BOOLEAN /\ used' \subseteq Users \cup Tokens
    BY <2>5 DEF DeleteUser, ghosts, AuthInv, RestOK
  <2>6. ASSUME \/ \E i \in RoleIds : DeleteRole(r, i)
               \/ \E p \in Permissions : DeletePermission(r, p)
        PROVE  /\ Edit(r) /\ UNCHANGED <<redis, bearer, contested, out, second, faults>>
               /\ raced' \in BOOLEAN /\ used' \subseteq Users \cup Tokens
    BY <2>6 DEF DeleteRole, DeletePermission, ghosts, AuthInv, RestOK
  <2>7. ASSUME NEW i \in RoleIds, NEW n \in RoleNames, NEW perms \in GivenPermissions,
               PutRole(r, i, n, perms)
        PROVE  /\ Edit(r) /\ UNCHANGED <<redis, bearer, contested, out, second, faults>>
               /\ raced' \in BOOLEAN /\ used' \subseteq Users \cup Tokens
    BY <2>7 DEF PutRole, ghosts, AuthInv, RestOK
  <2>8. QED
    BY <2>1, <2>2, <2>3, <2>4, <2>5, <2>6, <2>7 DEF WritesTables
<1>3. QED
  BY <1>1, <1>2 DEF AuthInv

\* What a request writes in its own record, field by field.
LEMMA RequestMoved ==
  ASSUME RequestsOK, HadGrows, NEW r \in Requests, req' \in [Requests -> Handlers],
         \A s \in Requests \ {r} : req'[s] = req[s],
         NEW q, q = req'[r], GoodRequest(q)
  PROVE  RequestsOK'
<1>1. req' = [req EXCEPT ![r] = q]
  BY DEF RequestsOK
<1>2. QED
  BY <1>1, RequestWritten

\* The queries of LoadUser's request.
LEMMA ReadsKeep ==
  ASSUME AuthInv, HadGrows, NEW r \in Requests, ReadRoles(r) \/ ReadPermissions(r)
  PROVE  RequestsOK'
<1> USE DEF AuthInv
<1> DEFINE u == req[r].user
<1>1. GoodRequest(req[r]) /\ req[r] \in Handlers /\ u \in Users /\ RealProfile(u, req[r].profile)
  BY DEF ReadRoles, ReadPermissions, RequestsOK, GoodRequest
<1>2. req[r].profile \in Profiles
  BY <1>1 DEF Handlers
<1>3. CASE ReadRoles(r)
  <2> DEFINE profile == [names |-> ListRoleNames(u), perms |-> req[r].profile.perms]
  <2>1. profile \in Profiles
    BY <1>1, <1>2, ListsTyped DEF Profiles
  <2>2. RealProfile(u, [names |-> {}, perms |-> req[r].profile.perms])
    BY <1>1 DEF RealProfile, HasPermission
  <2>3. RealProfile(u, profile)
    BY <1>1, <2>2, NamesReal
  <2>4. /\ req' \in [Requests -> Handlers]
        /\ \A s \in Requests \ {r} : req'[s] = req[s]
        /\ req'[r].pc = "perms" /\ req'[r].profile = profile /\ req'[r].user = u
        /\ req'[r].op = req[r].op /\ req'[r].login = req[r].login
        /\ req'[r].token = req[r].token
    <3>1. [req[r].profile EXCEPT !.names = ListRoleNames(u)] = profile
      BY <1>2 DEF Profiles
    <3>2. req' = [req EXCEPT ![r].pc = "perms",
                             ![r].profile = [req[r].profile EXCEPT !.names = ListRoleNames(u)]]
      BY <1>1, <1>3 DEF ReadRoles
    <3>3. req' = [req EXCEPT ![r].pc = "perms", ![r].profile = profile]
      BY <3>1, <3>2
    <3> HIDE DEF profile
    <3>4. QED
      BY <2>1, <3>3 DEF RequestsOK, Handlers, Stages
  <2> HIDE DEF profile
  <2>5. ASSUME NEW q, q = req'[r]
        PROVE  GoodRequest(q)
    BY <1>1, <2>3, <2>4, <2>5 DEF GoodRequest
  <2>6. QED
    BY <2>4, <2>5, RequestMoved
<1>4. CASE ReadPermissions(r)
  <2> DEFINE profile == [names |-> req[r].profile.names, perms |-> ListPermissionNames(u)]
             pc == IF req[r].op \in {"setup", "login"} THEN "session" ELSE "store"
  <2>1. profile \in Profiles
    BY <1>1, <1>2, ListsTyped DEF Profiles
  <2>2. RealProfile(u, profile)
    BY <1>1, PermissionsReal
  <2>3. pc \in {"session", "store"}
    OBVIOUS
  <2>4. /\ req' \in [Requests -> Handlers]
        /\ \A s \in Requests \ {r} : req'[s] = req[s]
        /\ req'[r].pc = pc /\ req'[r].profile = profile /\ req'[r].user = u
        /\ req'[r].op = req[r].op /\ req'[r].login = req[r].login
        /\ req'[r].token = req[r].token
    <3>1. [req[r].profile EXCEPT !.perms = ListPermissionNames(u)] = profile
      BY <1>2 DEF Profiles
    <3>2. req' = [req EXCEPT ![r].pc = pc,
                             ![r].profile = [req[r].profile EXCEPT !.perms = ListPermissionNames(u)]]
      BY <1>1, <1>4 DEF ReadPermissions
    <3>3. req' = [req EXCEPT ![r].pc = pc, ![r].profile = profile]
      BY <3>1, <3>2
    <3> HIDE DEF profile, pc
    <3>4. QED
      BY <2>1, <2>3, <3>3 DEF RequestsOK, Handlers, Stages
  <2> HIDE DEF profile, pc
  <2>5. ASSUME NEW q, q = req'[r]
        PROVE  GoodRequest(q)
    BY <1>1, <2>2, <2>3, <2>4, <2>5 DEF GoodRequest
  <2>6. QED
    BY <2>4, <2>5, RequestMoved
<1>5. QED
  BY <1>3, <1>4

\* Calls of the request r that leave Redis and the tokens as they are.
LEMMA QuietKeep ==
  ASSUME AuthInv, HadGrows, NEW r \in Requests,
         \/ Me(r) \/ LoadUser(r) \/ ReadRoles(r) \/ ReadPermissions(r) \/ FailRequest(r)
         \/ Answer(r) \/ Setup(r)
         \/ \E u \in Users : Login(r, u) \/ UpdateProfile(r, u) \/ Guarded(r, u)
  PROVE  RequestsOK'
<1> USE DEF AuthInv
<1>1. CASE Me(r) \/ LoadUser(r)
  <2>1. \/ Leave(r)
        \/ \E pc \in {"load", "roles"} : Goto(r, pc) /\ req[r].pc \notin {"idle", "create"}
    BY <1>1 DEF Me, LoadUser
  <2>2. QED
    BY <2>1, Leaves, Goes DEF Stages
<1>2. CASE ReadRoles(r) \/ ReadPermissions(r)
  BY <1>2, ReadsKeep
<1>3. CASE FailRequest(r) \/ Answer(r)
  BY <1>3, Leaves DEF FailRequest, Answer
<1>4. CASE Setup(r)
  BY <1>4, RequestEnters DEF Setup, Ops, Stages
<1>5. ASSUME NEW u \in Users, Login(r, u) \/ UpdateProfile(r, u)
      PROVE  RequestsOK'
  BY <1>5, RequestEnters DEF Login, UpdateProfile, Ops, Stages
<1>6. ASSUME NEW u \in Users, Guarded(r, u)
      PROVE  RequestsOK'
  <2>1. CASE cache[u] = Absent
    BY <1>6, <2>1, RequestEnters DEF Guarded, Ops, Stages
  <2>2. CASE cache[u] # Absent
    <3>1. cache[u] \in Profiles /\ RealProfile(u, cache[u])
      BY <2>2 DEF CacheOK
    <3>2. GoodRequest(Serving("guarded", "handler", u, cache[u]))
      BY <3>1 DEF GoodRequest, Serving, Handlers, Ops, Stages
    <3>3. QED
      BY <1>6, <2>2, <3>2, RequestWritten DEF Guarded
  <2>3. QED
    BY <2>1, <2>2
<1>7. QED
  BY <1>1, <1>2, <1>3, <1>4, <1>5, <1>6

\* Refresh takes over the session with what it says.
LEMMA RefreshKeeps ==
  ASSUME AuthInv, HadGrows, NEW r \in Requests, NEW t \in Tokens, Refresh(r, t)
  PROVE  RequestsOK' /\ RestOK'
<1> DEFINE q == [op |-> "refresh", pc |-> "delete", token |-> t, user |-> sessions[t].user,
                 login |-> sessions[t].login, profile |-> sessions[t].profile]
<1>1. /\ sessions[t] \in SessionRows
      /\ RealProfile(sessions[t].user, sessions[t].profile)
  BY DEF Refresh, Session, AuthInv, SessionsOK
<1>2. GoodRequest(q)
  BY <1>1 DEF GoodRequest, SessionRows, Handlers, Ops, Stages
<1>3. req' = [req EXCEPT ![r] = q]
  BY DEF Refresh, Session
<1>4. RequestsOK'
  <2> HIDE DEF q
  <2>1. QED
    BY <1>2, <1>3, RequestWritten DEF AuthInv
<1>5. RestOK'
  BY <1>1 DEF Refresh, Session, SessionRows, tables, AuthInv, RestOK
<1>6. QED
  BY <1>4, <1>5

\* An ignored error counts against its bound.
LEMMA FaultsBounded ==
  ASSUME RestOK, Ignored \/ faults' = faults
  PROVE  faults' \in 0..MaxFaults
  BY AuthBoundsAssumption DEF RestOK, Ignored

LEMMA StoresKeep ==
  ASSUME AuthInv, HadGrows, NEW r \in Requests, DeleteOld(r) \/ StoreSession(r)
  PROVE  RequestsOK' /\ SessionsOK' /\ CacheOK' /\ RestOK'
<1> USE DEF AuthInv
<1>1. /\ GoodRequest(req[r]) /\ req[r] \in Handlers
      /\ req[r].user \in Users /\ RealProfile(req[r].user, req[r].profile)
  BY DEF DeleteOld, StoreSession, RequestsOK, GoodRequest
<1>2. CacheOK'
  BY CacheRests DEF DeleteOld, StoreSession
<1>3. RequestsOK'
  BY Goes DEF DeleteOld, StoreSession, Stages
<1>4. CASE DeleteOld(r)
  <2>1. req[r].login \in Tokens /\ req[r].token \in Tokens
    BY <1>1, <1>4 DEF DeleteOld, GoodRequest
  <2>2. SessionsOK'
    BY <1>4, <2>1, SessionWritten, SessionsRest DEF DeleteOld, DeleteRefreshSession
  <2>3. faults' \in 0..MaxFaults
    BY <1>4, FaultsBounded DEF DeleteOld
  <2>4. RestOK'
    BY <1>4, <2>1, <2>3 DEF DeleteOld, tables, RestOK
  <2>5. QED
    BY <1>2, <1>3, <2>2, <2>4
<1>5. CASE StoreSession(r)
  <2> DEFINE t == Fresh(Tokens)
             login == IF req[r].op = "refresh" THEN req[r].login ELSE t
             row == [user |-> req[r].user, login |-> login, profile |-> req[r].profile]
  <2>1. t \in Tokens
    BY <1>5, FreshOne DEF StoreSession
  <2>2. login \in Tokens
    BY <1>1, <2>1 DEF GoodRequest
  <2>3. row \in SessionRows
    BY <1>1, <2>2 DEF SessionRows, Handlers
  <2>4. RealProfile(row.user, row.profile)
    BY <1>1
  <2>5. sessions' = [sessions EXCEPT ![t] = row]
    BY <1>5 DEF StoreSession, SetRefreshSession
  <2>6. RestOK'
    BY <1>5, <2>1 DEF StoreSession, tables, ghosts, RestOK
  <2> HIDE DEF t, row
  <2>7. SessionsOK'
    BY <2>1, <2>3, <2>4, <2>5, SessionWritten
  <2>8. QED
    BY <1>2, <1>3, <2>6, <2>7
<1>6. QED
  BY <1>4, <1>5

LEMMA CachesKeep ==
  ASSUME AuthInv, HadGrows, NEW r \in Requests, Forget(r) \/ StoreUser(r)
  PROVE  RequestsOK' /\ SessionsOK' /\ CacheOK' /\ RestOK'
<1> USE DEF AuthInv
<1>1. /\ GoodRequest(req[r]) /\ req[r] \in Handlers
      /\ req[r].user \in Users /\ RealProfile(req[r].user, req[r].profile)
  BY DEF Forget, StoreUser, RequestsOK, GoodRequest
<1>2. req[r].profile \in Profiles
  BY <1>1 DEF Handlers
<1>3. CacheOK'
  BY <1>1, <1>2, CacheCalled DEF Forget, StoreUser
<1>4. SessionsOK'
  BY SessionsRest DEF Forget, StoreUser
<1>5. RequestsOK'
  <2>1. \/ Leave(r)
        \/ \E pc \in {"roles", "cache", "handler"} :
             Goto(r, pc) /\ req[r].pc \notin {"idle", "create"}
    BY DEF Forget, StoreUser
  <2>2. QED
    BY <2>1, Leaves, Goes DEF Stages
<1>6. faults' \in 0..MaxFaults
  BY FaultsBounded DEF Forget, StoreUser, CacheUser, DropUser
<1>7. bearer' \subseteq Users
  BY <1>1 DEF Forget, StoreUser, SignToken, RestOK
<1>8. RestOK'
  BY <1>6, <1>7 DEF Forget, StoreUser, tables, ghosts, RestOK
<1>9. QED
  BY <1>3, <1>4, <1>5, <1>8

LEMMA MovesKeep ==
  ASSUME AuthInv, NEW r \in Requests, Moves(r)
  PROVE  AuthInv'
<1> USE DEF AuthInv
<1>1. UNCHANGED <<users, roles, had>>
  BY DEF Moves, Forget, Me, LoadUser, ReadRoles, ReadPermissions, DeleteOld, StoreSession,
         StoreUser, FailRequest, Answer, Setup, Login, UpdateProfile, Guarded, Refresh, tables
<1>2. TablesOK' /\ HadGrows
  BY <1>1, AuthTablesRest
<1>3. CASE Forget(r) \/ StoreUser(r)
  BY <1>2, <1>3, CachesKeep
<1>4. CASE DeleteOld(r) \/ StoreSession(r)
  BY <1>2, <1>4, StoresKeep
<1>5. ASSUME NEW t \in Tokens, Refresh(r, t)
      PROVE  AuthInv'
  <2>1. CacheOK' /\ SessionsOK'
    BY <1>2, <1>5, CacheRests, SessionsRest DEF Refresh, redis
  <2>2. QED
    BY <1>2, <1>5, <2>1, RefreshKeeps
<1>6. ASSUME \/ Me(r) \/ LoadUser(r) \/ ReadRoles(r) \/ ReadPermissions(r) \/ FailRequest(r)
             \/ Answer(r) \/ Setup(r)
             \/ \E u \in Users : Login(r, u) \/ UpdateProfile(r, u) \/ Guarded(r, u)
      PROVE  AuthInv'
  <2>1. /\ UNCHANGED <<cache, sessions, bearer, used, contested, out, second, edits, faults>>
        /\ raced' = raced \/ raced' = (raced \/ Racing)
    BY <1>6 DEF Me, LoadUser, ReadRoles, ReadPermissions, FailRequest, Answer, Setup, Login,
                UpdateProfile, Guarded, tables, redis, ghosts
  <2>2. CacheOK' /\ SessionsOK'
    BY <1>2, <2>1, CacheRests, SessionsRest
  <2>3. RestOK'
    BY <2>1 DEF RestOK
  <2>4. QED
    BY <1>2, <1>6, <2>2, <2>3, QuietKeep
<1>7. QED
  BY <1>3, <1>4, <1>5, <1>6 DEF Moves

\* Logout and time take sessions and cached profiles away.
LEMMA RemovalsKeep ==
  ASSUME AuthInv, LogoutHandler \/ Expires
  PROVE  AuthInv'
<1> USE DEF AuthInv
<1>1. UNCHANGED <<users, roles, had, req>>
  BY DEF LogoutHandler, Logout, Expires, ExpireUser, ExpireSession, tables
<1>2. TablesOK' /\ HadGrows
  BY <1>1, AuthTablesRest
<1>3. RequestsOK'
  BY <1>1, <1>2, RequestsRest
<1>4. ASSUME NEW t \in Tokens, NEW padded \in BOOLEAN, Logout(t, padded)
      PROVE  CacheOK' /\ SessionsOK' /\ RestOK'
  <2>1. CacheOK'
    BY <1>2, <1>4, CacheRests DEF Logout
  <2>2. SessionsOK'
    BY <1>2, <1>4, SessionWritten, SessionsRest DEF Logout, DeleteRefreshSession
  <2>3. sessions[t] # Absent => sessions[t].login \in Tokens
    BY DEF SessionsOK, SessionRows
  <2>4. out' \subseteq Tokens /\ contested' \subseteq Tokens
    BY <1>4, <2>3 DEF Logout, RestOK
  <2>5. RestOK'
    BY <1>4, <2>4 DEF Logout, tables, RestOK
  <2>6. QED
    BY <2>1, <2>2, <2>5
<1>5. ASSUME NEW u \in Users, ExpireUser(u)
      PROVE  CacheOK' /\ SessionsOK' /\ RestOK'
  BY <1>2, <1>5, CacheWritten, SessionsRest DEF ExpireUser, tables, ghosts, RestOK
<1>6. ASSUME NEW t \in Tokens, ExpireSession(t)
      PROVE  CacheOK' /\ SessionsOK' /\ RestOK'
  BY <1>2, <1>6, CacheRests, SessionWritten DEF ExpireSession, tables, ghosts, RestOK
<1>7. QED
  BY <1>2, <1>3, <1>4, <1>5, <1>6 DEF LogoutHandler, Expires

\* When the process starts, Redis holds nothing and the seeded roles exist.
LEMMA InitInv == AuthInit => AuthInv
<1> SUFFICES ASSUME AuthInit
             PROVE  AuthInv
  OBVIOUS
<1>1. users \in [Users -> {Absent} \cup UserRows]
  BY GivenAssumption DEF AuthInit
<1>2. roles \in [RoleIds -> RoleRows]
  BY DEF AuthInit, RoleRows, RoleNames, Permissions
<1>3. had \in [Users -> SUBSET Permissions] /\ \A u \in Users : Granted(u) \subseteq had[u]
  BY DEF AuthInit, Granted
<1>4. \A u \in Users : \A i \in HeldRoles(u) : roles[i] # Absent
  BY <1>1, <1>2, RowsAssumption DEF HeldRoles, Exists, UserRows
<1>5. TablesOK
  BY <1>1, <1>2, <1>3, <1>4 DEF TablesOK
<1>6. CacheOK /\ SessionsOK
  BY DEF AuthInit, CacheOK, SessionsOK
<1>7. RequestsOK
  BY IdleGood DEF AuthInit, RequestsOK
<1>8. RestOK
  BY DEF AuthInit, RestOK
<1>9. QED
  BY <1>5, <1>6, <1>7, <1>8 DEF AuthInv

\* The invariant is inductive.
LEMMA StepInv == AuthInv /\ [AuthNext]_authVars => AuthInv'
<1>1. ASSUME AuthInv, AuthNext
      PROVE  AuthInv'
  BY <1>1, StepKinds, WritesKeep, MovesKeep, RemovalsKeep
<1>2. ASSUME AuthInv, UNCHANGED authVars
      PROVE  AuthInv'
  <2>1. TablesOK' /\ HadGrows
    BY <1>2, AuthTablesRest DEF authVars, AuthInv
  <2>2. CacheOK' /\ SessionsOK' /\ RequestsOK'
    BY <1>2, <2>1, CacheRests, SessionsRest, RequestsRest DEF authVars, AuthInv
  <2>3. RestOK'
    BY <1>2 DEF authVars, AuthInv, RestOK
  <2>4. QED
    BY <2>1, <2>2, <2>3 DEF AuthInv
<1>3. QED
  BY <1>1, <1>2

\* Every variable holds what the tables, Redis and the handlers can hold.
THEOREM AuthTypes == AuthSpec => []AuthTypeOK
<1>1. AuthInv => AuthTypeOK
  BY DEF AuthInv, TablesOK, CacheOK, SessionsOK, RequestsOK, RestOK, AuthTypeOK
<1>2. QED
  BY <1>1, InitInv, StepInv, PTL DEF AuthSpec

\* A handler behind withPermission never runs with a permission its user was
\* never given, however cached profiles, sessions, the two queries of a load,
\* administration and ignored errors of Redis mix.
THEOREM AuthorityIsReal == AuthSpec => []AuthorityWasReal
<1>1. AuthInv => AuthorityWasReal
  BY DEF AuthInv, RequestsOK, GoodRequest, RealProfile, AuthorityWasReal
<1>2. QED
  BY <1>1, InitInv, StepInv, PTL DEF AuthSpec

-----------------------------------------------------------------------------
\* Setup counts before it inserts.  Unless something came between, one setup at
\* most is past its count, and while it is there is no user.
CountHolds ==
  raced \/ /\ Racing => \A u \in Users : ~Exists(u)
           /\ \A q, r \in Requests : req[q].pc = "create" /\ req[r].pc = "create" => q = r
SetupInv == CountHolds /\ SetupOnce

LEMMA NoneCounted == CountUsers = 0 <=> \A u \in Users : ~Exists(u)
<1>1. IsFiniteSet({u \in Users : Exists(u)})
  BY UsersAssumption, FS_Subset
<1>2. CountUsers = 0 <=> {u \in Users : Exists(u)} = {}
  BY <1>1, FS_EmptySet DEF CountUsers
<1>3. QED
  BY <1>2

\* A request that is not entered by Setup does not get to the insert.
LEMMA OthersStay ==
  ASSUME RequestsOK, NEW r \in Requests, WritesTables(r) \/ Moves(r), ~Setup(r)
  PROVE  \A q \in Requests : req'[q].pc = "create" => req[q].pc = "create" /\ q # r
<1>1. ASSUME Leave(r)
      PROVE  \A q \in Requests : req'[q].pc = "create" => req[q].pc = "create" /\ q # r
  BY <1>1 DEF Leave, RequestsOK, Idle, Serving
<1>2. ASSUME NEW pc \in Stages \ {"create"}, Goto(r, pc)
      PROVE  \A q \in Requests : req'[q].pc = "create" => req[q].pc = "create" /\ q # r
  BY <1>2 DEF Goto, RequestsOK, Handlers
<1>3. ASSUME NEW op, NEW pc \in Stages \ {"create"}, NEW u, Enter(r, op, pc, u)
      PROVE  \A q \in Requests : req'[q].pc = "create" => req[q].pc = "create" /\ q # r
  BY <1>3 DEF Enter, RequestsOK, Serving
<1>4. CASE CreateAdmin(r)
  BY <1>4 DEF CreateAdmin, RequestsOK, Serving
<1>5. CASE WritesTables(r) /\ ~CreateAdmin(r)
  BY <1>1, <1>5 DEF WritesTables, CreateUser, UpdateUser, DeleteUser, PutRole, DeleteRole,
                    DeletePermission, Edit
<1>6. CASE Me(r) \/ LoadUser(r) \/ DeleteOld(r) \/ StoreSession(r)
  BY <1>1, <1>2, <1>6 DEF Me, LoadUser, DeleteOld, StoreSession, Stages
<1>7. CASE Forget(r) \/ StoreUser(r) \/ FailRequest(r) \/ Answer(r)
  BY <1>1, <1>2, <1>7 DEF Forget, StoreUser, FailRequest, Answer, Stages
<1>8. CASE ReadRoles(r) \/ ReadPermissions(r)
  BY <1>8 DEF ReadRoles, ReadPermissions, RequestsOK, Handlers
<1>9. CASE \E u \in Users : Login(r, u) \/ UpdateProfile(r, u) \/ Guarded(r, u)
  BY <1>3, <1>9 DEF Login, UpdateProfile, Guarded, Stages, RequestsOK, Serving
<1>10. CASE \E t \in Tokens : Refresh(r, t)
  BY <1>10 DEF Refresh, RequestsOK
<1>11. QED
  BY <1>4, <1>5, <1>6, <1>7, <1>8, <1>9, <1>10 DEF Moves

LEMMA CountInit == AuthInit => SetupInv
  BY DEF AuthInit, SetupInv, CountHolds, SetupOnce, Racing, Idle, Serving

\* Logout and time do not touch what is counted.
LEMMA CountRests ==
  ASSUME SetupInv, UNCHANGED <<users, req, raced, second>>
  PROVE  SetupInv'
  BY DEF SetupInv, CountHolds, SetupOnce, Racing, Exists

LEMMA CountStep ==
  ASSUME AuthInv, SetupInv, NEW r \in Requests, WritesTables(r) \/ Moves(r)
  PROVE  SetupInv'
<1> USE DEF AuthInv, SetupInv
<1>1. CASE Setup(r)
  <2>1. /\ \A u \in Users : ~Exists(u)
        /\ users' = users /\ second' = second /\ raced' = (raced \/ Racing)
    BY <1>1, NoneCounted DEF Setup, tables
  <2>2. \A q \in Requests : req'[q].pc = "create" => q = r \/ req[q].pc = "create"
    BY <1>1 DEF Setup, Enter, RequestsOK, Serving
  <2>3. QED
    BY <2>1, <2>2 DEF CountHolds, SetupOnce, Racing, Exists
<1>2. CASE CreateAdmin(r)
  <2>1. /\ req[r].pc = "create" /\ raced' = raced /\ second' = (second \/ CountUsers > 0)
        /\ \A q \in Requests : req'[q].pc = "create" => req[q].pc = "create" /\ q # r
    <3>1. ~Setup(r)
      BY <1>2 DEF CreateAdmin, Setup, Enter
    <3>2. QED
      BY <1>2, <3>1, OthersStay DEF CreateAdmin, WritesTables
  <2>2. CASE raced
    BY <2>1, <2>2 DEF CountHolds, SetupOnce
  <2>3. CASE ~raced
    <3>1. CountUsers = 0
      BY <2>1, <2>3, NoneCounted DEF CountHolds, Racing
    <3>2. ~second'
      <4>1. ~(CountUsers > 0)
        BY <3>1
      <4>2. ~second
        BY <2>3 DEF SetupOnce
      <4>3. QED
        BY <2>1, <4>1, <4>2
    <3>3. \A q \in Requests : req'[q].pc # "create"
      BY <2>1, <2>3 DEF CountHolds
    <3>4. QED
      BY <2>1, <3>2, <3>3 DEF CountHolds, SetupOnce, Racing
  <2>4. QED
    BY <2>2, <2>3
<1>3. CASE ~Setup(r) /\ ~CreateAdmin(r)
  <2>1. \A q \in Requests : req'[q].pc = "create" => req[q].pc = "create" /\ q # r
    BY <1>3, OthersStay
  <2>2. second' = second /\ (raced' = raced \/ raced' = (raced \/ Racing))
    <3>1. CASE WritesTables(r)
      <4>1. ASSUME NEW live, NEW names, CreateUser(r, live, names)
            PROVE  second' = second /\ raced' = (raced \/ Racing)
        BY <4>1 DEF CreateUser
      <4>2. ASSUME NEW u, NEW live, NEW given, UpdateUser(r, u, live, given)
            PROVE  second' = second /\ raced' = raced
        BY <4>2 DEF UpdateUser, ghosts
      <4>3. ASSUME NEW u, DeleteUser(r, u)
            PROVE  second' = second /\ raced' = raced
        BY <4>3 DEF DeleteUser, ghosts
      <4>4. ASSUME NEW i, NEW n, NEW perms, PutRole(r, i, n, perms)
            PROVE  second' = second /\ raced' = raced
        BY <4>4 DEF PutRole, ghosts
      <4>5. ASSUME NEW i, DeleteRole(r, i) \/ DeletePermission(r, i)
            PROVE  second' = second /\ raced' = raced
        BY <4>5 DEF DeleteRole, DeletePermission, ghosts
      <4>6. QED
        BY <1>3, <3>1, <4>1, <4>2, <4>3, <4>4, <4>5 DEF WritesTables
    <3>2. CASE Moves(r)
      BY <1>3, <3>2 DEF Moves, Forget, Me, LoadUser, ReadRoles, ReadPermissions, DeleteOld,
                        StoreSession, StoreUser, FailRequest, Answer, Login, UpdateProfile,
                        Guarded, Refresh, ghosts
    <3>3. QED
      BY <3>1, <3>2
  <2>3. raced' \/ ~Racing \/ \A u \in Users : users'[u] = Absent \/ Exists(u)
    <3>1. ASSUME NEW u \in Users, NEW live \in BOOLEAN,
                 NEW given \in {Absent} \cup {Named(n) : n \in GivenRoles},
                 UpdateUser(r, u, live, given)
          PROVE  \A v \in Users : users'[v] = Absent \/ Exists(v)
      BY <3>1 DEF UpdateUser, WriteUser, Exists, TablesOK
    <3>2. ASSUME NEW u \in Users, DeleteUser(r, u)
          PROVE  \A v \in Users : users'[v] = Absent \/ Exists(v)
      BY <3>2 DEF DeleteUser, RemoveUser, Exists, TablesOK
    <3>3. ASSUME NEW i \in RoleIds, DeleteRole(r, i)
          PROVE  \A v \in Users : users'[v] = Absent \/ Exists(v)
      BY <3>3 DEF DeleteRole, RemoveRole, Exists, TablesOK
    <3>4. ASSUME NEW live \in BOOLEAN, NEW names \in GivenRoles,
                 CreateUser(r, live, Named(names))
          PROVE  raced' \/ ~Racing
      BY <3>4 DEF CreateUser
    <3>5. ASSUME users' = users
          PROVE  \A v \in Users : users'[v] = Absent \/ Exists(v)
      BY <3>5 DEF Exists
    <3>6. ASSUME \/ \E i \in RoleIds, n \in RoleNames, perms \in GivenPermissions :
                      PutRole(r, i, n, perms)
                 \/ \E p \in Permissions : DeletePermission(r, p)
                 \/ Moves(r)
          PROVE  users' = users
      BY <3>6 DEF PutRole, DeletePermission, Moves, Forget, Me, LoadUser, ReadRoles,
                  ReadPermissions, DeleteOld, StoreSession, StoreUser, FailRequest, Answer,
                  Setup, Login, UpdateProfile, Guarded, Refresh, tables
    <3>7. QED
      BY <1>3, <3>1, <3>2, <3>3, <3>4, <3>5, <3>6 DEF WritesTables
  <2>4. QED
    BY <2>1, <2>2, <2>3 DEF CountHolds, SetupOnce, Racing, Exists
<1>4. QED
  BY <1>1, <1>2, <1>3

\* Setup creates one administrator, as long as nothing comes between its count
\* and its insert.
THEOREM SetupIsOnce == AuthSpec => []SetupOnce
<1>1. AuthInit => AuthInv /\ SetupInv
  BY InitInv, CountInit
<1>2. AuthInv /\ SetupInv /\ [AuthNext]_authVars => AuthInv' /\ SetupInv'
  <2>1. ASSUME AuthInv, SetupInv, AuthNext
        PROVE  SetupInv'
    <3>1. ASSUME LogoutHandler \/ Expires
          PROVE  UNCHANGED <<users, req, raced, second>>
      BY <3>1 DEF LogoutHandler, Logout, Expires, ExpireUser, ExpireSession, tables, ghosts
    <3>2. QED
      BY <2>1, <3>1, StepKinds, CountStep, CountRests
  <2>2. ASSUME SetupInv, UNCHANGED authVars
        PROVE  SetupInv'
    BY <2>2, CountRests DEF authVars
  <2>3. QED
    BY <2>1, <2>2, StepInv
<1>3. QED
  BY <1>1, <1>2, PTL DEF AuthSpec, SetupInv

-----------------------------------------------------------------------------
\* A login is held by the session that says it, and carried by a request that
\* took the session over and has not stored the next one.
Holds(t, login) == sessions[t] # Absent /\ sessions[t].login = login
Carries(q, login) == q.pc \in {"delete", "session"} /\ q.login = login

\* One session and one request at most; when both, the request is the one that is
\* about to delete that session.  Nothing is left of a login that was logged out.
OneHolder(login) ==
  /\ \A s, t \in Tokens : Holds(s, login) /\ Holds(t, login) => s = t
  /\ \A q, r \in Requests : Carries(req[q], login) /\ Carries(req[r], login) => q = r
  /\ \A r \in Requests, t \in Tokens :
       Carries(req[r], login) /\ Holds(t, login) => req[r].pc = "delete" /\ req[r].token = t
  /\ login \in out => /\ \A t \in Tokens : ~Holds(t, login)
                      /\ \A r \in Requests : ~Carries(req[r], login)

\* A token that was never given is no login and has no session; only a refresh
\* carries a login.
LoginsUsed ==
  /\ out \subseteq used
  /\ \A t \in Tokens : sessions[t] # Absent => t \in used /\ sessions[t].login \in used
  /\ \A r \in Requests : req[r].login # Absent => req[r].login \in used /\ req[r].op = "refresh"

LoginInv == LoginsUsed /\ \A login \in Tokens \ contested : OneHolder(login)

LEMMA LoginInit == AuthInit => LoginInv
  BY DEF AuthInit, LoginInv, LoginsUsed, OneHolder, Holds, Carries, Idle, Serving

\* Sessions may go, and the request r may drop its login or carry on with it.
LEMMA LoginsRest ==
  ASSUME LoginInv, UNCHANGED out, contested \subseteq contested', used \subseteq used',
         \A t \in Tokens : sessions'[t] = Absent \/ sessions'[t] = sessions[t],
         NEW r \in Requests, \A q \in Requests \ {r} : req'[q] = req[q],
         \/ req'[r].login = Absent
         \/ /\ req'[r].login = req[r].login /\ req'[r].op = req[r].op
            /\ req'[r].token = req[r].token
            /\ req'[r].pc \in {"delete", "session"} => req'[r].pc = req[r].pc
  PROVE  LoginInv'
<1>1. LoginsUsed'
  BY DEF LoginInv, LoginsUsed
<1>2. ASSUME NEW login \in Tokens \ contested'
      PROVE  OneHolder(login)'
  <2>1. OneHolder(login) /\ login # Absent
    BY <1>2, RolesAssumption DEF LoginInv
  <2>2. \A t \in Tokens : Holds(t, login)' => Holds(t, login)
    BY DEF Holds
  <2>3. \A q \in Requests : Carries(req'[q], login) =>
           /\ Carries(req[q], login)
           /\ req'[q].pc = req[q].pc /\ req'[q].token = req[q].token
    BY <2>1 DEF Carries
  <2>4. QED
    BY <2>1, <2>2, <2>3 DEF OneHolder
<1>3. QED
  BY <1>1, <1>2 DEF LoginInv

\* The statements of the administration and of Setup.
LEMMA LoginsWritten ==
  ASSUME AuthInv, LoginInv, NEW r \in Requests, WritesTables(r)
  PROVE  LoginInv'
<1>1. UNCHANGED <<sessions, out, contested>> /\ used \subseteq used'
  <2>1. ASSUME NEW live, NEW names, CreateUser(r, live, names)
        PROVE  UNCHANGED <<sessions, out, contested>> /\ used \subseteq used'
    BY <2>1 DEF CreateUser, InsertUser, redis
  <2>2. ASSUME NEW u, NEW live, NEW given, UpdateUser(r, u, live, given)
        PROVE  UNCHANGED <<sessions, out, contested>> /\ used \subseteq used'
    BY <2>2 DEF UpdateUser, redis, ghosts
  <2>3. ASSUME NEW u, DeleteUser(r, u) \/ DeleteRole(r, u) \/ DeletePermission(r, u)
        PROVE  UNCHANGED <<sessions, out, contested>> /\ used \subseteq used'
    BY <2>3 DEF DeleteUser, DeleteRole, DeletePermission, redis, ghosts
  <2>4. ASSUME NEW i, NEW n, NEW perms, PutRole(r, i, n, perms)
        PROVE  UNCHANGED <<sessions, out, contested>> /\ used \subseteq used'
    BY <2>4 DEF PutRole, redis, ghosts
  <2>5. CASE CreateAdmin(r)
    BY <2>5 DEF CreateAdmin, InsertUser, redis
  <2>6. QED
    BY <2>1, <2>2, <2>3, <2>4, <2>5 DEF WritesTables
<1>2. /\ \A q \in Requests \ {r} : req'[q] = req[q]
      /\ req'[r].login = Absent
  <2>1. CASE CreateAdmin(r)
    BY <2>1 DEF CreateAdmin, Serving, AuthInv, RequestsOK
  <2>2. CASE ~CreateAdmin(r)
    <3>1. Leave(r)
      BY <2>2 DEF WritesTables, CreateUser, UpdateUser, DeleteUser, PutRole, DeleteRole,
                  DeletePermission, Edit
    <3>2. QED
      BY <3>1 DEF Leave, Idle, Serving, AuthInv, RequestsOK
  <2>3. QED
    BY <2>1, <2>2
<1>3. QED
  BY <1>1, <1>2, LoginsRest

\* Steps of a request that neither take over nor store a session.
LEMMA LoginsQuiet ==
  ASSUME AuthInv, LoginInv, NEW r \in Requests, Moves(r),
         ~DeleteOld(r), ~StoreSession(r), \A t \in Tokens : ~Refresh(r, t)
  PROVE  LoginInv'
<1> DEFINE Same == /\ req'[r].login = req[r].login /\ req'[r].op = req[r].op
                   /\ req'[r].token = req[r].token
                   /\ req'[r].pc \in {"delete", "session"} => req'[r].pc = req[r].pc
           Steps == /\ \A q \in Requests \ {r} : req'[q] = req[q]
                    /\ req'[r].login = Absent \/ Same
<1>1. UNCHANGED <<sessions, out, contested, used>>
  BY DEF Moves, Forget, Me, LoadUser, ReadRoles, ReadPermissions, StoreUser, FailRequest,
         Answer, Setup, Login, UpdateProfile, Guarded, redis, ghosts
<1>2. ASSUME Leave(r)
      PROVE  Steps
  BY <1>2 DEF Leave, Idle, Serving, AuthInv, RequestsOK
<1>3. ASSUME NEW op, NEW pc, NEW u, Enter(r, op, pc, u)
      PROVE  Steps
  BY <1>3 DEF Enter, Serving, AuthInv, RequestsOK
<1>4. ASSUME NEW pc \in Stages \ {"delete", "session"}, Goto(r, pc)
      PROVE  Steps
  <2>1. /\ \A q \in Requests \ {r} : req'[q] = req[q]
        /\ req'[r] = [req[r] EXCEPT !.pc = pc] /\ req[r] \in Handlers
    BY <1>4 DEF Goto, AuthInv, RequestsOK
  <2>2. QED
    BY <2>1 DEF Handlers
<1>5. CASE Me(r) \/ LoadUser(r) \/ Answer(r) \/ FailRequest(r)
  BY <1>1, <1>2, <1>4, <1>5, LoginsRest DEF Me, LoadUser, Answer, FailRequest, Stages
<1>6. CASE Forget(r) \/ StoreUser(r)
  BY <1>1, <1>2, <1>4, <1>6, LoginsRest DEF Forget, StoreUser, Stages
<1>7. CASE Setup(r) \/ \E u \in Users : Login(r, u) \/ UpdateProfile(r, u)
  BY <1>1, <1>3, <1>7, LoginsRest DEF Setup, Login, UpdateProfile
<1>8. ASSUME NEW u \in Users, Guarded(r, u)
      PROVE  LoginInv'
  <2>1. CASE cache[u] = Absent
    BY <1>1, <1>3, <1>8, <2>1, LoginsRest DEF Guarded
  <2>2. CASE cache[u] # Absent
    BY <1>1, <1>8, <2>2, LoginsRest DEF Guarded, Serving, AuthInv, RequestsOK
  <2>3. QED
    BY <2>1, <2>2
<1>9. CASE ReadRoles(r) \/ ReadPermissions(r)
  <2>1. req[r] \in Handlers /\ req \in [Requests -> Handlers]
    BY DEF AuthInv, RequestsOK
  <2>2. \A q \in Requests \ {r} : req'[q] = req[q]
    BY <1>9, <2>1 DEF ReadRoles, ReadPermissions
  <2>3. /\ req'[r].login = req[r].login /\ req'[r].op = req[r].op
        /\ req'[r].token = req[r].token
        /\ \/ req'[r].pc \in {"perms", "store"}
           \/ req'[r].pc = "session" /\ req[r].op \in {"setup", "login"}
    BY <1>9, <2>1 DEF ReadRoles, ReadPermissions, Handlers
  <2>4. req[r].op \in {"setup", "login"} => req[r].login = Absent
    BY DEF LoginInv, LoginsUsed
  <2>5. QED
    BY <1>1, <2>2, <2>3, <2>4, LoginsRest
<1>10. QED
  BY <1>5, <1>6, <1>7, <1>8, <1>9 DEF Moves

\* Refresh takes over a session that no other request has, or the login is
\* contested from then on.
LEMMA LoginsTaken ==
  ASSUME AuthInv, LoginInv, NEW r \in Requests, NEW t \in Tokens, Refresh(r, t)
  PROVE  LoginInv'
<1> DEFINE L == sessions[t].login
<1>1. /\ UNCHANGED <<sessions, out, used>> /\ contested \subseteq contested'
      /\ sessions[t] # Absent
      /\ req[r].pc = "idle"
  BY DEF Refresh, Session, redis
<1>2. /\ \A q \in Requests \ {r} : req'[q] = req[q]
      /\ req'[r].pc = "delete" /\ req'[r].token = t /\ req'[r].login = L
      /\ req'[r].op = "refresh"
  BY DEF Refresh, Session, AuthInv, RequestsOK
<1>3. L \in contested' \/ \A q \in Requests : ~(req[q].pc = "delete" /\ req[q].token = t)
  BY DEF Refresh, Session
<1> HIDE DEF L
<1>4. LoginsUsed'
  BY <1>1, <1>2 DEF LoginInv, LoginsUsed, L
<1>5. ASSUME NEW login \in Tokens \ contested'
      PROVE  OneHolder(login)'
  <2>1. OneHolder(login)
    BY <1>1 DEF LoginInv
  <2>2. \A s \in Tokens : Holds(s, login)' <=> Holds(s, login)
    BY <1>1 DEF Holds
  <2>3. CASE login = L
    <3>1. Holds(t, login)
      BY <1>1, <2>3 DEF Holds, L
    <3>2. \A q \in Requests : ~Carries(req[q], login)
      BY <1>3, <1>5, <2>1, <2>3, <3>1 DEF OneHolder
    <3>3. \A q \in Requests : Carries(req'[q], login) => q = r
      BY <1>2, <3>2
    <3>4. QED
      BY <1>1, <1>2, <2>1, <2>2, <3>1, <3>3 DEF OneHolder
  <2>4. CASE login # L
    <3>1. \A q \in Requests : Carries(req'[q], login) => Carries(req[q], login) /\ req'[q] = req[q]
      BY <1>2, <2>4 DEF Carries
    <3>2. QED
      BY <1>1, <2>1, <2>2, <3>1 DEF OneHolder
  <2>5. QED
    BY <2>3, <2>4
<1>6. QED
  BY <1>4, <1>5 DEF LoginInv

\* The exchanged session goes, or the login is contested.
LEMMA LoginsFreed ==
  ASSUME AuthInv, LoginInv, NEW r \in Requests, DeleteOld(r)
  PROVE  LoginInv'
<1> DEFINE L == req[r].login
           old == req[r].token
<1>1. /\ UNCHANGED <<out, used>> /\ contested \subseteq contested'
      /\ req[r].pc = "delete" /\ L \in Tokens /\ old \in Tokens
  BY DEF DeleteOld, AuthInv, RequestsOK, GoodRequest
<1>2. /\ \A q \in Requests \ {r} : req'[q] = req[q]
      /\ req'[r].pc = "session" /\ req'[r].login = L /\ req'[r].op = req[r].op
  <2>1. req[r] \in Handlers
    BY DEF AuthInv, RequestsOK
  <2>2. QED
    BY <2>1 DEF DeleteOld, Goto, AuthInv, RequestsOK, Handlers
<1>3. /\ \A s \in Tokens : sessions'[s] = Absent \/ sessions'[s] = sessions[s]
      /\ sessions'[old] = Absent \/ L \in contested'
  BY <1>1 DEF DeleteOld, DeleteRefreshSession, AuthInv, SessionsOK
<1> HIDE DEF L, old
<1>4. LoginsUsed'
  BY <1>1, <1>2, <1>3 DEF LoginInv, LoginsUsed, L
<1>5. ASSUME NEW login \in Tokens \ contested'
      PROVE  OneHolder(login)'
  <2>1. OneHolder(login)
    BY <1>1 DEF LoginInv
  <2>2. \A s \in Tokens : Holds(s, login)' => Holds(s, login) /\ sessions'[s] # Absent
    BY <1>3 DEF Holds
  <2>3. \A q \in Requests : Carries(req'[q], login) =>
           Carries(req[q], login) /\ (q # r => req'[q] = req[q])
    BY <1>1, <1>2 DEF Carries, L
  <2>4. CASE login = L
    <3>1. Carries(req[r], login)
      BY <1>1, <2>4 DEF Carries, L
    <3>2. \A s \in Tokens : ~Holds(s, login)'
      BY <1>3, <1>5, <2>1, <2>2, <2>4, <3>1 DEF OneHolder, old
    <3>3. QED
      BY <1>1, <2>1, <2>3, <3>1, <3>2 DEF OneHolder
  <2>5. CASE login # L
    <3>1. \A q \in Requests : Carries(req'[q], login) => q # r
      BY <1>2, <2>5 DEF Carries
    <3>2. QED
      BY <1>1, <2>1, <2>2, <2>3, <3>1 DEF OneHolder
  <2>6. QED
    BY <2>4, <2>5
<1>6. QED
  BY <1>4, <1>5 DEF LoginInv

\* The new session takes the place of the request that carried the login, or
\* starts a login of its own.
LEMMA LoginsStored ==
  ASSUME AuthInv, LoginInv, NEW r \in Requests, StoreSession(r)
  PROVE  LoginInv'
<1> DEFINE t == Fresh(Tokens)
           L == IF req[r].op = "refresh" THEN req[r].login ELSE t
<1>1. t \in Tokens /\ t \notin used
  BY DEF StoreSession, Unused, Fresh
<1>2. /\ req[r].pc = "session" /\ UNCHANGED <<out, contested>>
      /\ used' = used \cup {t}
  BY DEF StoreSession, ghosts
<1>3. /\ \A s \in Tokens \ {t} : sessions'[s] = sessions[s]
      /\ sessions'[t].login = L
  BY <1>1 DEF StoreSession, SetRefreshSession, AuthInv, SessionsOK
<1>4. /\ \A q \in Requests \ {r} : req'[q] = req[q]
      /\ req'[r].pc = "store" /\ req'[r].login = req[r].login /\ req'[r].op = req[r].op
  <2>1. req[r] \in Handlers
    BY DEF AuthInv, RequestsOK
  <2>2. QED
    BY <2>1 DEF StoreSession, Goto, AuthInv, RequestsOK, Handlers
<1>5. \/ L = t
      \/ L = req[r].login /\ L \in Tokens /\ L \in used
  BY RolesAssumption DEF AuthInv, RequestsOK, GoodRequest, LoginInv, LoginsUsed
<1> HIDE DEF t, L
<1>6. LoginsUsed'
  BY <1>1, <1>2, <1>3, <1>4, <1>5 DEF LoginInv, LoginsUsed
<1>7. ASSUME NEW login \in Tokens \ contested'
      PROVE  OneHolder(login)'
  <2>1. OneHolder(login)
    BY <1>2, <1>7 DEF LoginInv
  <2>2. \A s \in Tokens : Holds(s, login)' => (Holds(s, login) /\ s # t) \/ (s = t /\ login = L)
    BY <1>3 DEF Holds
  <2>3. \A q \in Requests : Carries(req'[q], login) =>
           Carries(req[q], login) /\ q # r /\ req'[q] = req[q]
    BY <1>4 DEF Carries
  <2>4. CASE login = L /\ L = req[r].login
    <3>1. Carries(req[r], login)
      BY <1>2, <2>4 DEF Carries
    <3>2. /\ \A s \in Tokens : ~Holds(s, login)
          /\ login \notin out
          /\ \A q \in Requests : Carries(req[q], login) => q = r
      BY <1>2, <2>1, <3>1 DEF OneHolder
    <3>3. QED
      BY <1>2, <2>2, <2>3, <3>2 DEF OneHolder
  <2>5. CASE login = L /\ L = t
    <3>1. login \notin used
      BY <1>1, <2>5
    <3>2. /\ \A s \in Tokens : ~Holds(s, login)
          /\ login \notin out
          /\ \A q \in Requests : ~Carries(req[q], login)
      BY <3>1, <1>7, RolesAssumption DEF LoginInv, LoginsUsed, Holds, Carries
    <3>3. QED
      BY <1>2, <2>2, <2>3, <3>2 DEF OneHolder
  <2>6. CASE login # L
    BY <1>2, <2>1, <2>2, <2>3, <2>6 DEF OneHolder
  <2>7. QED
    BY <1>5, <2>4, <2>5, <2>6
<1>8. QED
  BY <1>6, <1>7 DEF LoginInv

\* A logout leaves nothing of the login, unless a refresh has it.
LEMMA LoginsLeft ==
  ASSUME AuthInv, LoginInv, NEW t \in Tokens, NEW padded \in BOOLEAN, Logout(t, padded)
  PROVE  LoginInv'
<1>1. UNCHANGED <<req, used>>
  BY DEF Logout
<1>2. CASE padded \/ sessions[t] = Absent
  <2>1. UNCHANGED <<sessions, out, contested>>
    BY <1>2 DEF Logout
  <2>2. QED
    BY <1>1, <2>1 DEF LoginInv, LoginsUsed, OneHolder, Holds, Carries
<1>3. CASE ~(padded \/ sessions[t] = Absent)
  <2> DEFINE L == sessions[t].login
  <2>1. /\ \A s \in Tokens \ {t} : sessions'[s] = sessions[s]
        /\ sessions'[t] = Absent
        /\ out' = out \cup {L} /\ contested \subseteq contested'
        /\ L \in contested' \/ \A q \in Requests : ~Carries(req[q], L)
    BY <1>3 DEF Logout, DeleteRefreshSession, Carries, AuthInv, SessionsOK
  <2>2. Holds(t, L) /\ L \in used
    BY <1>3 DEF Holds, LoginInv, LoginsUsed
  <2> HIDE DEF L
  <2>3. LoginsUsed'
    BY <1>1, <2>1, <2>2 DEF LoginInv, LoginsUsed
  <2>4. ASSUME NEW login \in Tokens \ contested'
        PROVE  OneHolder(login)'
    <3>1. OneHolder(login)
      BY <2>1 DEF LoginInv
    <3>2. \A s \in Tokens : Holds(s, login)' => Holds(s, login) /\ s # t
      BY <2>1 DEF Holds
    <3>3. \A q \in Requests : Carries(req'[q], login) <=> Carries(req[q], login)
      BY <1>1
    <3>4. CASE login = L
      BY <1>1, <2>1, <2>2, <2>4, <3>1, <3>2, <3>3, <3>4 DEF OneHolder
    <3>5. CASE login # L
      BY <1>1, <2>1, <3>1, <3>2, <3>3, <3>5 DEF OneHolder
    <3>6. QED
      BY <3>4, <3>5
  <2>5. QED
    BY <2>3, <2>4 DEF LoginInv
<1>4. QED
  BY <1>2, <1>3

\* Time takes sessions away.
LEMMA LoginsExpire ==
  ASSUME AuthInv, LoginInv, UNCHANGED <<req, used, out, contested>>,
         \A t \in Tokens : sessions'[t] = Absent \/ sessions'[t] = sessions[t]
  PROVE  LoginInv'
  BY DEF LoginInv, LoginsUsed, OneHolder, Holds, Carries

LEMMA LoginStep ==
  ASSUME AuthInv, LoginInv, [AuthNext]_authVars
  PROVE  LoginInv'
<1>1. ASSUME NEW r \in Requests, WritesTables(r) \/ Moves(r)
      PROVE  LoginInv'
  BY <1>1, LoginsWritten, LoginsQuiet, LoginsTaken, LoginsFreed, LoginsStored
<1>2. CASE LogoutHandler
  BY <1>2, LoginsLeft DEF LogoutHandler
<1>3. ASSUME NEW u \in Users, ExpireUser(u)
      PROVE  LoginInv'
  BY <1>3, LoginsExpire DEF ExpireUser, ghosts
<1>4. ASSUME NEW t \in Tokens, ExpireSession(t)
      PROVE  LoginInv'
  BY <1>4, LoginsExpire DEF ExpireSession, ghosts, AuthInv, SessionsOK
<1>5. CASE UNCHANGED authVars
  BY <1>5, LoginsExpire DEF authVars
<1>6. QED
  BY <1>1, <1>2, <1>3, <1>4, <1>5, StepKinds DEF Expires

\* A set with no two elements has one at most.
LEMMA AtMostOne ==
  ASSUME NEW S, \A x, y \in S : x = y
  PROVE  IF S = {} THEN Cardinality(S) = 0 ELSE Cardinality(S) = 1
<1>1. ASSUME NEW x \in S
      PROVE  S = {x}
  BY <1>1
<1>2. QED
  BY <1>1, FS_Singleton, FS_EmptySet

LEMMA OneHolderOneSession ==
  ASSUME NEW login \in Tokens, OneHolder(login)
  PROVE  Alive(login) <= IF login \in out THEN 0 ELSE 1
<1> DEFINE T == {t \in Tokens : sessions[t] # Absent /\ sessions[t].login = login}
           R == {r \in Requests : req[r].pc = "session" /\ req[r].login = login}
<1>1. /\ \A s, t \in T : s = t
      /\ \A q, r \in R : q = r
      /\ T = {} \/ R = {}
      /\ login \in out => T = {} /\ R = {}
  BY DEF OneHolder, Holds, Carries
<1>2. Alive(login) = Cardinality(T) + Cardinality(R)
  BY DEF Alive
<1> HIDE DEF T, R
<1>3. /\ IF T = {} THEN Cardinality(T) = 0 ELSE Cardinality(T) = 1
      /\ IF R = {} THEN Cardinality(R) = 0 ELSE Cardinality(R) = 1
  BY <1>1, AtMostOne
<1>4. QED
  BY <1>1, <1>2, <1>3

\* A login that no two calls raced for has one session at a time, or the refresh
\* that is between deleting the old session and storing the new one, however many
\* refreshes, expiries and requests there were; once it was logged out it has none.
THEOREM SessionIsOne == AuthSpec => []OneSessionPerLogin
<1>1. LoginInv => OneSessionPerLogin
  BY OneHolderOneSession DEF LoginInv, OneSessionPerLogin
<1>2. AuthInit => AuthInv /\ LoginInv
  BY InitInv, LoginInit
<1>3. AuthInv /\ LoginInv /\ [AuthNext]_authVars => AuthInv' /\ LoginInv'
  BY StepInv, LoginStep
<1>4. QED
  BY <1>1, <1>2, <1>3, PTL DEF AuthSpec

-----------------------------------------------------------------------------
\* Who is out stays out

\* Stages of a request that took over a row or a profile.
Inside == {"forget", "delete", "roles", "perms", "session", "store", "handler"}

\* What a step of the request r must do to leave nothing of u.
Clear(r, u) ==
  /\ cache'[u] = Absent
  /\ \A t \in Tokens : sessions'[t] = Absent \/ sessions'[t].user # u
  /\ \A q \in Requests \ {r} : req'[q] = req[q]
  /\ req'[r].user # u \/ req'[r].pc \notin Inside

LEMMA ClearStays ==
  ASSUME NEW u \in Users, ~Leftover(u), NEW r \in Requests, Clear(r, u)
  PROVE  ~Leftover(u)'
  BY DEF Leftover, Clear, Inside

\* Nothing of u before: no session, no cached profile, no request inside.
LEMMA NothingLeft ==
  ASSUME NEW u \in Users, ~Leftover(u)
  PROVE  /\ cache[u] = Absent
         /\ \A t \in Tokens : sessions[t] = Absent \/ sessions[t].user # u
         /\ \A r \in Requests : req[r].user = u => req[r].pc \notin Inside
  BY DEF Leftover, Inside

\* How a request ends, starts and goes on.
LEMMA LeaveClears ==
  ASSUME AuthInv, NEW u \in Users, ~Leftover(u), NEW r \in Requests, Leave(r),
         UNCHANGED <<cache, sessions>>
  PROVE  Clear(r, u)
  BY NothingLeft, RolesAssumption DEF Clear, Leave, Idle, Serving, Inside, AuthInv, RequestsOK

LEMMA EnterClears ==
  ASSUME AuthInv, NEW u \in Users, ~Leftover(u), NEW r \in Requests,
         NEW op, NEW pc, NEW v, Enter(r, op, pc, v), v # u \/ pc \notin Inside,
         UNCHANGED <<cache, sessions>>
  PROVE  Clear(r, u)
<1>1. /\ req'[r] = Serving(op, pc, v, Nobody)
      /\ \A q \in Requests \ {r} : req'[q] = req[q]
  BY DEF Enter, AuthInv, RequestsOK
<1>2. req'[r].user = v /\ req'[r].pc = pc
  BY <1>1 DEF Serving
<1>3. QED
  BY <1>1, <1>2, NothingLeft DEF Clear

\* A request about another user goes on with it.
LEMMA GoClears ==
  ASSUME AuthInv, NEW u \in Users, NEW r \in Requests, NEW pc, Goto(r, pc),
         req[r].user # u \/ pc \notin Inside,
         cache'[u] = Absent, \A t \in Tokens : sessions'[t] = Absent \/ sessions'[t].user # u
  PROVE  Clear(r, u)
<1>1. /\ \A q \in Requests \ {r} : req'[q] = req[q]
      /\ req'[r] = [req[r] EXCEPT !.pc = pc] /\ req[r] \in Handlers
  BY DEF Goto, AuthInv, RequestsOK
<1>2. req'[r].user = req[r].user /\ req'[r].pc = pc
  BY <1>1 DEF Handlers
<1>3. QED
  BY <1>1, <1>2 DEF Clear

\* The statements of the administration, and Setup, which creates an active user.
LEMMA WritesClear ==
  ASSUME AuthInv, NEW r \in Requests, WritesTables(r),
         NEW u \in Users, ~Leftover(u), ~Live(u)'
  PROVE  Clear(r, u)
<1>1. CASE CreateAdmin(r)
  <2> DEFINE v == Fresh(Users)
  <2>1. v \in Users /\ UNCHANGED <<cache, sessions>>
    BY <1>1, FreshOne DEF CreateAdmin, redis
  <2>2. users'[v] = [active |-> TRUE, roles |-> Named({"admin"})]
    BY <1>1, <2>1 DEF CreateAdmin, InsertUser, AuthInv, TablesOK
  <2>3. users'[v] \in UserRows /\ users'[v].active
    BY <2>2, NamedExist DEF UserRows
  <2>4. v # u
    BY <2>3, RowsAssumption DEF Live, Exists
  <2>5. /\ \A q \in Requests \ {r} : req'[q] = req[q]
        /\ req'[r].user = v
    BY <1>1 DEF CreateAdmin, Serving, AuthInv, RequestsOK
  <2>6. QED
    BY <2>1, <2>4, <2>5, NothingLeft DEF Clear
<1>2. CASE ~CreateAdmin(r)
  <2>1. Leave(r)
    BY <1>2 DEF WritesTables, CreateUser, UpdateUser, DeleteUser, PutRole, DeleteRole,
                DeletePermission, Edit
  <2>2. UNCHANGED <<cache, sessions>>
    <3>1. ASSUME NEW a, NEW b, NEW c, NEW d,
                 \/ CreateUser(r, a, b) \/ UpdateUser(r, a, b, c) \/ DeleteUser(r, a)
                 \/ PutRole(r, a, b, c) \/ DeleteRole(r, a) \/ DeletePermission(r, a)
          PROVE  UNCHANGED <<cache, sessions>>
      BY <3>1 DEF CreateUser, UpdateUser, DeleteUser, PutRole, DeleteRole, DeletePermission, redis
    <3>2. QED
      BY <1>2, <3>1 DEF WritesTables
  <2>3. QED
    BY <2>1, <2>2, LeaveClears
<1>3. QED
  BY <1>1, <1>2

\* The steps of a request.
LEMMA MovesClear ==
  ASSUME AuthInv, NEW r \in Requests, Moves(r),
         NEW u \in Users, ~Live(u), ~Leftover(u)
  PROVE  Clear(r, u)
<1>1. /\ cache[u] = Absent
      /\ \A t \in Tokens : sessions[t] = Absent \/ sessions[t].user # u
      /\ req[r].user = u => req[r].pc \notin Inside
      /\ req[r] \in Handlers
  BY NothingLeft DEF AuthInv, RequestsOK
<1>2. CASE Me(r) \/ LoadUser(r)
  <2>1. UNCHANGED <<cache, sessions>>
    BY <1>2 DEF Me, LoadUser, redis
  <2>2. Leave(r) \/ Goto(r, "load") \/ (Goto(r, "roles") /\ Live(req[r].user))
    BY <1>2 DEF Me, LoadUser
  <2>3. QED
    BY <1>1, <2>1, <2>2, LeaveClears, GoClears DEF Inside
<1>3. CASE FailRequest(r) \/ Answer(r)
  BY <1>3, LeaveClears DEF FailRequest, Answer, redis
<1>4. CASE Setup(r)
  BY <1>4, EnterClears, RolesAssumption DEF Setup, redis
<1>5. ASSUME NEW v \in Users, Login(r, v) \/ UpdateProfile(r, v)
      PROVE  Clear(r, u)
  <2>1. v # u /\ UNCHANGED <<cache, sessions>>
    BY <1>5 DEF Login, UpdateProfile, redis
  <2>2. QED
    BY <1>5, <2>1, EnterClears DEF Login, UpdateProfile
<1>6. ASSUME NEW v \in Users, Guarded(r, v)
      PROVE  Clear(r, u)
  <2>1. UNCHANGED <<cache, sessions>>
    BY <1>6 DEF Guarded, redis
  <2>2. CASE cache[v] = Absent
    BY <1>6, <2>1, <2>2, EnterClears DEF Guarded, Inside
  <2>3. CASE cache[v] # Absent
    <3>1. /\ v # u
          /\ req' = [req EXCEPT ![r] = Serving("guarded", "handler", v, cache[v])]
      BY <1>1, <1>6, <2>3 DEF Guarded
    <3>2. QED
      BY <1>1, <2>1, <3>1 DEF Clear, Serving, AuthInv, RequestsOK
  <2>4. QED
    BY <2>2, <2>3
<1>7. ASSUME NEW t \in Tokens, Refresh(r, t)
      PROVE  Clear(r, u)
  <2>1. UNCHANGED <<cache, sessions>> /\ sessions[t].user # u
    BY <1>1, <1>7 DEF Refresh, Session, redis
  <2>2. /\ \A q \in Requests \ {r} : req'[q] = req[q]
        /\ req'[r].user = sessions[t].user
    BY <1>7 DEF Refresh, Session, AuthInv, RequestsOK
  <2>3. QED
    BY <1>1, <2>1, <2>2 DEF Clear
<1>8. CASE ReadRoles(r) \/ ReadPermissions(r)
  <2>1. UNCHANGED <<cache, sessions>> /\ req[r].user # u
    BY <1>1, <1>8 DEF ReadRoles, ReadPermissions, redis, Inside
  <2>2. /\ \A q \in Requests \ {r} : req'[q] = req[q]
        /\ req'[r].user = req[r].user
    <3>1. req \in [Requests -> Handlers]
      BY DEF AuthInv, RequestsOK
    <3>2. QED
      BY <1>1, <1>8, <3>1 DEF ReadRoles, ReadPermissions, Handlers
  <2>3. QED
    BY <1>1, <2>1, <2>2 DEF Clear
<1>9. CASE DeleteOld(r)
  <2>1. /\ req[r].user # u /\ UNCHANGED cache /\ Goto(r, "session")
        /\ \A t \in Tokens : sessions'[t] = Absent \/ sessions'[t] = sessions[t]
    BY <1>1, <1>9 DEF DeleteOld, DeleteRefreshSession, Inside, AuthInv, SessionsOK
  <2>2. QED
    BY <1>1, <2>1, GoClears
<1>10. CASE StoreSession(r)
  <2> DEFINE t == Fresh(Tokens)
  <2>1. /\ req[r].user # u /\ UNCHANGED cache /\ Goto(r, "store") /\ t \in Tokens
    BY <1>1, <1>10, FreshOne DEF StoreSession, Inside
  <2>2. /\ sessions'[t].user = req[r].user
        /\ \A q \in Tokens \ {t} : sessions'[q] = sessions[q]
    BY <1>10, <2>1 DEF StoreSession, SetRefreshSession, AuthInv, SessionsOK
  <2> HIDE DEF t
  <2>3. QED
    BY <1>1, <2>1, <2>2, GoClears
<1>11. CASE Forget(r) \/ StoreUser(r)
  <2>1. /\ req[r].user # u /\ UNCHANGED sessions
        /\ Leave(r) \/ \E pc : Goto(r, pc)
    BY <1>1, <1>11 DEF Forget, StoreUser, Inside
  <2>2. cache'[u] = Absent
    BY <1>1, <1>11, <2>1 DEF Forget, StoreUser, DropUser, CacheUser, AuthInv, CacheOK
  <2>3. CASE Leave(r)
    BY <1>1, <2>1, <2>2, <2>3, RolesAssumption
       DEF Clear, Leave, Idle, Serving, AuthInv, RequestsOK
  <2>4. CASE \E pc : Goto(r, pc)
    BY <1>1, <2>1, <2>2, <2>4, GoClears
  <2>5. QED
    BY <2>1, <2>3, <2>4
<1>12. QED
  BY <1>2, <1>3, <1>4, <1>5, <1>6, <1>7, <1>8, <1>9, <1>10, <1>11 DEF Moves

LEMMA OutStep ==
  ASSUME AuthInv, [AuthNext]_authVars, NEW u \in Users, ~Live(u), ~Leftover(u)
  PROVE  Live(u)' \/ ~Leftover(u)'
<1>1. ASSUME NEW r \in Requests, WritesTables(r) \/ Moves(r), ~Live(u)'
      PROVE  ~Leftover(u)'
  BY <1>1, WritesClear, MovesClear, ClearStays
<1>2. ASSUME UNCHANGED req, \A v \in Users : cache'[v] = Absent \/ cache'[v] = cache[v],
             \A t \in Tokens : sessions'[t] = Absent \/ sessions'[t] = sessions[t]
      PROVE  ~Leftover(u)'
  BY <1>2 DEF Leftover
<1>3. CASE LogoutHandler \/ Expires
  <2>1. ASSUME NEW t \in Tokens, NEW padded \in BOOLEAN, Logout(t, padded)
        PROVE  ~Leftover(u)'
    BY <1>2, <2>1 DEF Logout, DeleteRefreshSession, AuthInv, SessionsOK
  <2>2. ASSUME NEW v \in Users, ExpireUser(v)
        PROVE  ~Leftover(u)'
    BY <1>2, <2>2 DEF ExpireUser, AuthInv, CacheOK
  <2>3. ASSUME NEW t \in Tokens, ExpireSession(t)
        PROVE  ~Leftover(u)'
    BY <1>2, <2>3 DEF ExpireSession, AuthInv, SessionsOK
  <2>4. QED
    BY <1>3, <2>1, <2>2, <2>3 DEF LogoutHandler, Expires
<1>4. CASE UNCHANGED authVars
  BY <1>2, <1>4 DEF authVars
<1>5. QED
  BY <1>1, <1>3, <1>4, StepKinds

\* A user who is not active and has nothing left in Redis or in a running request
\* stays out until the tables make it active: every way to a profile, a session or
\* a handler that does not start from a stored profile passes the active check.
THEOREM OutStaysOut == AuthSpec => RevokedStaysOut
<1>1. AuthInv /\ [AuthNext]_authVars =>
        [\A u \in Users : ~Live(u) /\ ~Leftover(u) => Live(u)' \/ ~Leftover(u)']_authVars
  BY OutStep
<1>2. QED
  BY <1>1, InitInv, StepInv, PTL DEF AuthSpec, RevokedStaysOut

-----------------------------------------------------------------------------
\* The api process

\* Handlers of authentication and of the desk take their steps in any order.
ApiProcess ==
  /\ AuthInit /\ DeskInit
  /\ [][\/ AuthNext /\ UNCHANGED deskVars
        \/ DeskNext /\ UNCHANGED authVars]_<<authVars, deskVars>>

\* Each half of the process behaves as if it were alone, whatever the other does.
LEMMA ApiIsBoth == ApiProcess => AuthSpec /\ DeskSpec
<1>1. ASSUME [\/ AuthNext /\ UNCHANGED deskVars
              \/ DeskNext /\ UNCHANGED authVars]_<<authVars, deskVars>>
      PROVE  [AuthNext]_authVars /\ [DeskNext]_deskVars
  BY <1>1
<1>2. QED
  BY <1>1, PTL DEF ApiProcess, AuthSpec, DeskSpec

\* What the runs show of the halves holds when goroutines of the HTTP server work on
\* logins, roles, orders and configs at the same time.
THEOREM ApiIsSafe ==
  ApiProcess => /\ [](AuthorityWasReal /\ OneSessionPerLogin /\ SetupOnce)
                /\ [](ClosedIsFlat /\ DisableCloses)
                /\ RevokedStaysOut /\ OnlyAskedChanges
  BY ApiIsBoth, AuthorityIsReal, SessionIsOne, SetupIsOnce, ClosedEntriesAreFlat,
     DisablingCloses, OutStaysOut, OnlyAskedIsChanged, PTL

\* The run of MCApi, in which one half rests, is a behaviour of the process.
LEMMA ApiRuns == ApiSpec => ApiProcess
<1>1. ApiInit => AuthInit /\ DeskInit
  BY DEF ApiInit, MCAuthInit, MCDeskInit
<1>2. [ApiNext]_apiVars => [\/ AuthNext /\ UNCHANGED deskVars
                            \/ DeskNext /\ UNCHANGED authVars]_<<authVars, deskVars>>
  BY DEF ApiNext, apiVars
<1>3. QED
  BY <1>1, <1>2, PTL DEF ApiSpec, ApiProcess

\* Every table, key of Redis, message and request of the api process keeps its type.
THEOREM ApiTypes == ApiSpec \/ ApiProcess => []ApiTypeOK
<1>1. AuthTypeOK /\ DeskTypeOK => ApiTypeOK
  BY DEF ApiTypeOK
<1>2. QED
  BY <1>1, ApiRuns, ApiIsBoth, AuthTypes, DeskTypes, PTL
=============================================================================
