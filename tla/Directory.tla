------------------------------ MODULE Directory ------------------------------
(***************************************************************************)
(* Tenants, users and roles of the auth service: tenant_service.py,        *)
(* user_service.py, their repositories and the routers tenants, users and  *)
(* roles.  A request reads and checks (the actions named after the         *)
(* handlers), then writes and commits (Commit), where the constraints of   *)
(* the database decide once more.  The three PATCH handlers of tenants and *)
(* users never commit (UpdateUser).                                        *)
(***************************************************************************)
EXTENDS Integers, FiniteSets

CONSTANTS
    TenantIds, UserIds, RoleIds,   \* primary keys
    Slugs, Emails, Permissions,
    OtherRoles,                    \* the keys of _SYSTEM_ROLES besides tenant_admin
    CustomRoles,                   \* names that tenants give to roles of their own
    Sessions,
    None

Admin == "tenant_admin"
SystemRoles == {Admin} \cup OtherRoles
RoleNames == SystemRoles \cup CustomRoles

Tenant == [slug : Slugs, deleted : BOOLEAN]
User == [tenant : TenantIds, email : Emails, active : BOOLEAN, deleted : BOOLEAN]
Role == [tenant : TenantIds, name : RoleNames, system : BOOLEAN, perms : Permissions]
Unused == [unused |-> TRUE]
Gone == [unused |-> FALSE]    \* deleted: primary keys are not used again

Idle == [op |-> "idle"]

VARIABLES
    tenants, users, roles,   \* the tables, by primary key
    userRoles,               \* the table user_roles
    txn                      \* what each session is about to write

vars == <<tenants, users, roles, userRoles, txn>>
tables == <<tenants, users, roles, userRoles>>

Live(table) == {k \in DOMAIN table : table[k] \notin {Unused, Gone}}
Free(table) == {k \in DOMAIN table : table[k] = Unused}

TypeOK ==
    /\ tenants \in [TenantIds -> Tenant \cup {Unused}]
    /\ users \in [UserIds -> User \cup {Unused}]
    /\ roles \in [RoleIds -> Role \cup {Unused, Gone}]
    /\ userRoles \subseteq UserIds \X RoleIds

Init ==
    /\ tenants = [t \in TenantIds |-> Unused]
    /\ users = [u \in UserIds |-> Unused]
    /\ roles = [r \in RoleIds |-> Unused]
    /\ userRoles = {}
    /\ txn = [s \in Sessions |-> Idle]

-----------------------------------------------------------------------------
(* Queries *)

RolesOf(u) == {roles[p[2]].name : p \in {x \in userRoles : x[1] = u}}

\* get_current_user, require_tenant_admin
CurrentUser(u) == u \in Live(users) /\ users[u].active
TenantAdmin(u) == CurrentUser(u) /\ Admin \in RolesOf(u)

\* get_by_slug, get_by_email: rows that are not soft-deleted
SlugTaken(slug) == \E t \in Live(tenants) : tenants[t].slug = slug /\ ~tenants[t].deleted
EmailTaken(t, e) ==
    \E u \in Live(users) : users[u].tenant = t /\ users[u].email = e /\ ~users[u].deleted

\* get_role and the reads of update_role and delete_role: a role of the caller's tenant
GetRole(u, r) == r \in Live(roles) /\ roles[r].tenant = users[u].tenant

Begin(s, t) ==
    /\ txn[s] = Idle
    /\ txn' = [txn EXCEPT ![s] = t]
    /\ UNCHANGED tables

-----------------------------------------------------------------------------
(* Handlers *)

\* POST /tenants
RegisterTenant(s, slug, email) ==
    /\ ~SlugTaken(slug)
    /\ Begin(s, [op |-> "register", slug |-> slug, email |-> email])

\* UserService.create_user; role names that do not exist are passed over
CreateUser(s, t, email, names) ==
    /\ t \in Live(tenants)
    /\ ~EmailTaken(t, email)
    /\ Begin(s, [op |-> "user", tenant |-> t, email |-> email,
                 grant |-> {r \in Live(roles) : roles[r].tenant = t /\ roles[r].name \in names}])

\* DELETE /users/{id}
DeactivateUser(s, admin, u) ==
    TenantAdmin(admin) /\ u \in Live(users) /\ Begin(s, [op |-> "deactivate", user |-> u])

\* POST and DELETE /users/{id}/roles/{role_id}
AssignRole(s, admin, u, r) ==
    /\ TenantAdmin(admin) /\ u \in Live(users) /\ r \in Live(roles)
    /\ <<u, r>> \notin userRoles
    /\ Begin(s, [op |-> "assign", user |-> u, role |-> r])
RemoveRole(s, admin, u, r) ==
    /\ TenantAdmin(admin) /\ <<u, r>> \in userRoles
    /\ Begin(s, [op |-> "remove", user |-> u, role |-> r])

\* POST /roles: nothing is looked up
CreateRole(s, admin, name, perms) ==
    /\ TenantAdmin(admin)
    /\ Begin(s, [op |-> "role", tenant |-> users[admin].tenant, name |-> name, perms |-> perms])

\* PATCH and DELETE /roles/{id}
UpdateRole(s, admin, r, perms) ==
    /\ TenantAdmin(admin) /\ GetRole(admin, r) /\ ~roles[r].system
    /\ Begin(s, [op |-> "perms", role |-> r, perms |-> perms])

\* Plausible slip: DELETE trusts the foreign key of user_roles to protect the roles in use.
DeleteRole_InUseOnly(s, admin, r) ==
    /\ TenantAdmin(admin) /\ GetRole(admin, r)
    /\ Begin(s, [op |-> "drop", role |-> r])

DeleteRole(s, admin, r) ==
    /\ TenantAdmin(admin) /\ GetRole(admin, r) /\ ~roles[r].system
    /\ Begin(s, [op |-> "drop", role |-> r])

\* DELETE /tenants/me: its users and roles stay.
DeleteTenant(s, admin) ==
    TenantAdmin(admin) /\ Begin(s, [op |-> "close", tenant |-> users[admin].tenant])

\* PATCH /users/me and /users/{id}, and likewise PATCH /tenants/me: flushed, answered and
\* never committed, so that the session ends in a rollback.
UpdateUser(s, by, u) ==
    /\ u \in Live(users)
    /\ IF by = u THEN CurrentUser(by) ELSE TenantAdmin(by)
    /\ Begin(s, [op |-> "patch"])

-----------------------------------------------------------------------------
(* Writing *)

\* Rows as SQLAlchemy's defaults fill them in.
NewUser(t, email) ==
    [tenant |-> t, email |-> email, active |-> TRUE, deleted |-> FALSE]
NewRole(t, name, system, perms) ==
    [tenant |-> t, name |-> name, system |-> system, perms |-> perms]
SystemRole(t, name) == NewRole(t, name, TRUE, CHOOSE p \in Permissions : TRUE)

\* create_tenant: tenant, system roles, admin and its role in one transaction
WriteTenant(x, t, u, seed) ==
    /\ tenants' = [tenants EXCEPT ![t] = [slug |-> x.slug, deleted |-> FALSE]]
    /\ roles' = [r \in RoleIds |->
           IF \E n \in SystemRoles : seed[n] = r
           THEN SystemRole(t, CHOOSE n \in SystemRoles : seed[n] = r)
           ELSE roles[r]]
    /\ users' = [users EXCEPT ![u] = NewUser(t, x.email)]
    /\ userRoles' = userRoles \cup {<<u, seed[Admin]>>}

\* The statements of a request.
Write(x) ==
    \/ /\ x.op = "register"
       /\ \E t \in Free(tenants), u \in Free(users),
             seed \in [SystemRoles -> Free(roles)] :
            /\ \A m, n \in SystemRoles : seed[m] = seed[n] => m = n
            /\ WriteTenant(x, t, u, seed)
    \/ /\ x.op = "user"
       /\ \E u \in Free(users) :
            /\ users' = [users EXCEPT ![u] = NewUser(x.tenant, x.email)]
            /\ userRoles' = userRoles \cup ({u} \X x.grant)
       /\ UNCHANGED <<tenants, roles>>
    \/ /\ x.op = "deactivate"
       /\ users' = [users EXCEPT ![x.user].active = FALSE, ![x.user].deleted = TRUE]
       /\ UNCHANGED <<tenants, roles, userRoles>>
    \/ /\ x.op = "assign"
       /\ <<x.user, x.role>> \notin userRoles
       /\ userRoles' = userRoles \cup {<<x.user, x.role>>}
       /\ UNCHANGED <<tenants, users, roles>>
    \/ /\ x.op = "remove"
       /\ <<x.user, x.role>> \in userRoles
       /\ userRoles' = userRoles \ {<<x.user, x.role>>}
       /\ UNCHANGED <<tenants, users, roles>>
    \/ /\ x.op = "role"
       /\ \E r \in Free(roles) :
            roles' = [roles EXCEPT ![r] = NewRole(x.tenant, x.name, FALSE, x.perms)]
       /\ UNCHANGED <<tenants, users, userRoles>>
    \/ /\ x.op = "perms" /\ x.role \in Live(roles)
       /\ roles' = [roles EXCEPT ![x.role].perms = x.perms]
       /\ UNCHANGED <<tenants, users, userRoles>>
    \/ /\ x.op = "drop" /\ x.role \in Live(roles)
       /\ roles' = [roles EXCEPT ![x.role] = Gone]
       /\ UNCHANGED <<tenants, users, userRoles>>
    \/ /\ x.op = "close"
       /\ tenants' = [tenants EXCEPT ![x.tenant].deleted = TRUE]
       /\ UNCHANGED <<users, roles, userRoles>>

\* The unique constraints, which count soft-deleted rows, and the foreign keys.
Constraints ==
    /\ \A t, v \in Live(tenants) : tenants[t].slug = tenants[v].slug => t = v
    /\ \A u, v \in Live(users) : (/\ users[u].tenant = users[v].tenant
                                  /\ users[u].email = users[v].email) => u = v
    /\ \A r, q \in Live(roles) : (/\ roles[r].tenant = roles[q].tenant
                                  /\ roles[r].name = roles[q].name) => r = q
    /\ userRoles \subseteq Live(users) \X Live(roles)

\* The statements and session.commit()
Commit(s) ==
    /\ txn[s] # Idle
    /\ Write(txn[s])
    /\ Constraints'
    /\ txn' = [txn EXCEPT ![s] = Idle]

\* The request fails, on a constraint (a 500) or otherwise.
Rollback(s) ==
    /\ txn[s] # Idle
    /\ txn' = [txn EXCEPT ![s] = Idle]
    /\ UNCHANGED tables

AdminRequest(s, a) ==
    \/ DeleteTenant(s, a)
    \/ \E u \in UserIds : DeactivateUser(s, a, u)
    \/ \E u \in UserIds, r \in RoleIds : AssignRole(s, a, u, r) \/ RemoveRole(s, a, u, r)
    \/ \E n \in RoleNames, p \in Permissions : CreateRole(s, a, n, p)
    \/ \E r \in RoleIds, p \in Permissions : UpdateRole(s, a, r, p)
    \/ \E r \in RoleIds : DeleteRole(s, a, r)

Request(s) ==
    \/ \E g \in Slugs, e \in Emails : RegisterTenant(s, g, e)
    \/ \E t \in TenantIds, e \in Emails, ns \in SUBSET RoleNames : CreateUser(s, t, e, ns)
    \/ \E a, u \in UserIds : UpdateUser(s, a, u)
    \/ \E a \in {u \in UserIds : TenantAdmin(u)} : AdminRequest(s, a)

Next ==
    \E s \in Sessions :
        \/ txn[s] = Idle /\ Request(s)
        \/ Commit(s) \/ Rollback(s)

Spec == Init /\ [][Next]_vars

-----------------------------------------------------------------------------
(* Properties *)

\* A tenant, deleted or not, always has every role of _SYSTEM_ROLES with the permissions it
\* was registered with, whatever roles its administrators create, change, assign and delete at
\* the same time: create_user passes over a role it does not find, and without tenant_admin
\* nobody administers the tenant.
SystemRolesStay ==
    \A t \in Live(tenants), n \in SystemRoles : \E r \in RoleIds : roles[r] = SystemRole(t, n)

=============================================================================
