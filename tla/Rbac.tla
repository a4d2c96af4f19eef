-------------------------------- MODULE Rbac --------------------------------
(***************************************************************************)
(* Tenant memberships, roles and their permissions                         *)
(* (internal/server/rbac/handlers.go, resolvePermissions, InitBootstrap).  *)
(* A handler checks with SELECTs and then writes, in one statement or one  *)
(* transaction; other requests run in between.  What the schema forbids    *)
(* (UNIQUE, REFERENCES, NOT NULL) fails the write.                         *)
(***************************************************************************)
EXTENDS Naturals, FiniteSets

CONSTANTS
    Users, Tenants,
    DefaultTenant, BootstrapAdmin,
    NewTenants,       \* tenants that platform admins ask for
    CustomRoles,      \* the role IDs that may be drawn
    Requests,         \* slots for requests that run at the same time
    Workloads         \* what is sent to the server, see below

AllOps == {"create-tenant", "create-membership", "disable-membership", "add-role",
           "remove-role", "create-role", "delete-role", "role-permissions"}

(* A workload: the kinds of requests, the tenants they are about, how many *)
(* run at a time, and the bound on restarts of the server.                 *)
WorkloadType == [ops: SUBSET AllOps, tenants: SUBSET Tenants, slots: Nat, restarts: Nat]

ASSUME RbacAssumption ==
    /\ BootstrapAdmin \in Users /\ DefaultTenant \in Tenants
    /\ NewTenants \cap Tenants = {} /\ "none" \notin Tenants
    /\ \A w \in Workloads : w \in WorkloadType

VARIABLES
    load,         \* the workload of this behaviour
    memberships,  \* tenant_memberships with their tenant_membership_roles
    roles,        \* custom roles with their role_permissions
    tenants,      \* table tenants
    req, restarts

vars == <<load, memberships, roles, tenants, req, restarts>>

\* A part of the permission catalog: what the modelled routes ask for, and a
\* platform permission.
Permissions == {"membership:write", "role:write", "node:read", "platform:user:manage"}
Platform == {"platform:user:manage"}

\* The built-in roles and the permissions InitBootstrap gives them.
Builtin == [admin |-> Permissions \ Platform, viewer |-> {"node:read"}]
Roles == CustomRoles \cup DOMAIN Builtin

NoMembership == [status |-> "none", roles |-> {}]
NoRole == [tenant |-> "none", perms |-> {}]
Idle == [op |-> "none"]
Memberships == Users \X Tenants

Exists(ro) == ro \in DOMAIN Builtin \/ roles[ro] # NoRole
PermissionsOf(ro) == IF ro \in DOMAIN Builtin THEN Builtin[ro] ELSE roles[ro].perms

(* The type invariant.                                                     *)
TypeOK ==
    /\ load \in Workloads
    /\ memberships \in [Memberships -> [status: {"none", "active", "disabled"}, roles: SUBSET Roles]]
    /\ roles \in [CustomRoles -> [tenant: Tenants \cup {"none"}, perms: SUBSET Permissions]]
    /\ tenants \subseteq Tenants \cup NewTenants
    /\ \A r \in Requests : req[r].op \in AllOps \cup {"none"}
    /\ restarts \in 0..load.restarts

(* InitBootstrap: the default tenant with the bootstrap admin, bound to    *)
(* the built-in admin role.  The other tenants have an admin too.          *)
Init ==
    /\ load \in Workloads
    /\ memberships = [m \in Memberships |->
           IF m[1] = BootstrapAdmin THEN [status |-> "active", roles |-> {"admin"}] ELSE NoMembership]
    /\ roles = [ro \in CustomRoles |-> NoRole]
    /\ tenants = Tenants
    /\ req = [r \in Requests |-> Idle]
    /\ restarts = 0

Done(r) == req' = [req EXCEPT ![r] = Idle]

-----------------------------------------------------------------------------
(* resolvePermissions: the union over the roles of the active membership   *)
(* in the session's tenant, and the platform permissions of a platform     *)
(* admin (the bootstrap admin).                                            *)
resolvePermissions(u, t) ==
    LET m == memberships[<<u, t>>] IN
    (IF m.status = "active" THEN UNION {PermissionsOf(ro) : ro \in m.roles} ELSE {})
      \cup (IF u = BootstrapAdmin THEN Platform ELSE {})

\* The permission a route is registered with.
Required(op) == CASE op = "create-tenant" -> "platform:user:manage"
                  [] op \in {"create-role", "delete-role", "role-permissions"} -> "role:write"
                  [] OTHER -> "membership:write"

\* A request passes the middleware in the name of u, with a session in t.  It
\* names a membership (by its user and tenant), roles and permissions.
Accept(r, u, t, op, member, rs, ps) ==
    /\ req[r] = Idle
    /\ Required(op) \in resolvePermissions(u, t)
    /\ req' = [req EXCEPT ![r] = [op |-> op, tenant |-> t, member |-> member, roles |-> rs,
                                  perms |-> ps, pc |-> "check"]]
    /\ UNCHANGED <<load, memberships, roles, tenants, restarts>>

At(r, op, pc) == req[r].op = op /\ req[r].pc = pc
Role(r) == CHOOSE ro \in req[r].roles : TRUE

\* The checks answer 4xx, or the request goes on to its write.
Check(r, ok) ==
    /\ req' = IF ok THEN [req EXCEPT ![r].pc = "write"] ELSE [req EXCEPT ![r] = Idle]
    /\ UNCHANGED <<load, memberships, roles, tenants, restarts>>

\* A role that may be bound in tenant t: a built-in one or one of the tenant.
RoleFits(ro, t) == Exists(ro) /\ (ro \in DOMAIN Builtin \/ roles[ro].tenant = t)

\* A custom role of tenant t, the only kind that may be changed or deleted there.
OwnRole(ro, t) == ro \in CustomRoles /\ roles[ro].tenant = t

-----------------------------------------------------------------------------
(* Memberships.  A membership is created in the session's tenant; the      *)
(* other handlers compare the tenant of the membership with it.            *)

CreateMembershipCheck(r) ==
    /\ At(r, "create-membership", "check")
    /\ LET m == <<req[r].member[1], req[r].tenant>> IN
       Check(r, /\ memberships[m] = NoMembership /\ req[r].roles # {}
                /\ \A ro \in req[r].roles : RoleFits(ro, req[r].tenant))

\* UNIQUE(user_id, tenant_id) and the reference to roles fail the transaction.
CreateMembershipWrite(r) ==
    /\ At(r, "create-membership", "write")
    /\ LET m == <<req[r].member[1], req[r].tenant>> IN
       memberships' = IF memberships[m] = NoMembership /\ \A ro \in req[r].roles : Exists(ro)
                      THEN [memberships EXCEPT ![m] = [status |-> "active", roles |-> req[r].roles]]
                      ELSE memberships
    /\ Done(r) /\ UNCHANGED <<load, roles, tenants, restarts>>

\* Whether the request's membership exists and belongs to the session's tenant.
OwnMembership(r) == memberships[req[r].member] # NoMembership /\ req[r].member[2] = req[r].tenant

HandleDisableMembership(r) ==
    /\ At(r, "disable-membership", "check")
    /\ memberships' = IF OwnMembership(r) THEN [memberships EXCEPT ![req[r].member].status = "disabled"]
                      ELSE memberships
    /\ Done(r) /\ UNCHANGED <<load, roles, tenants, restarts>>

AddMembershipRoleCheck(r) ==
    /\ At(r, "add-role", "check")
    /\ Check(r, /\ OwnMembership(r) /\ memberships[req[r].member].status = "active"
                /\ RoleFits(Role(r), req[r].tenant))

\* UNIQUE(membership_id, role_id) makes a second INSERT fail.
AddMembershipRoleWrite(r) ==
    /\ At(r, "add-role", "write")
    /\ memberships' = IF Exists(Role(r)) THEN [memberships EXCEPT ![req[r].member].roles = @ \cup {Role(r)}]
                      ELSE memberships
    /\ Done(r) /\ UNCHANGED <<load, roles, tenants, restarts>>

\* An active membership with its last role.
LastRole(r) == /\ memberships[req[r].member].status = "active"
               /\ Cardinality(memberships[req[r].member].roles) <= 1

RemoveMembershipRoleCheck(r) ==
    /\ At(r, "remove-role", "check")
    /\ Check(r, OwnMembership(r) /\ ~LastRole(r))

RemoveMembershipRoleWrite(r) ==
    /\ At(r, "remove-role", "write")
    /\ memberships' = [memberships EXCEPT ![req[r].member].roles = @ \ {Role(r)}]
    /\ Done(r) /\ UNCHANGED <<load, roles, tenants, restarts>>

-----------------------------------------------------------------------------
(* Roles *)

HandleCreateRole(r) ==
    /\ At(r, "create-role", "check")
    /\ \E ro \in CustomRoles : \* a fresh uuid, in no running request
                               /\ roles[ro] = NoRole
                               /\ \A q \in Requests : req[q].op # "none" /\ q # r => ro \notin req[q].roles
                               /\ roles' = [roles EXCEPT ![ro].tenant = req[r].tenant]
    /\ Done(r) /\ UNCHANGED <<load, memberships, tenants, restarts>>

Assigned(ro) == \E m \in Memberships : ro \in memberships[m].roles

DeleteRoleCheck(r) ==
    /\ At(r, "delete-role", "check")
    /\ Check(r, OwnRole(Role(r), req[r].tenant) /\ ~Assigned(Role(r)))

DeleteRoleWrite_Unreferenced(r) ==
    /\ At(r, "delete-role", "write")
    /\ roles' = [roles EXCEPT ![Role(r)] = NoRole]
    /\ Done(r) /\ UNCHANGED <<load, memberships, tenants, restarts>>

\* The references of tenant_membership_roles and of role_permissions to roles
\* (foreign_keys=on, without ON DELETE) make the DELETE fail.
DeleteRoleWrite(r) ==
    /\ At(r, "delete-role", "write")
    /\ roles' = IF Assigned(Role(r)) \/ roles[Role(r)].perms # {} THEN roles
                ELSE [roles EXCEPT ![Role(r)] = NoRole]
    /\ Done(r) /\ UNCHANGED <<load, memberships, tenants, restarts>>

UpdateRolePermissionsCheck(r) ==
    /\ At(r, "role-permissions", "check")
    /\ Check(r, OwnRole(Role(r), req[r].tenant))

GrantOK_Any(r) == TRUE
\* Every permission is tenant scope, and an INSERT for a deleted role fails.
GrantOK(r) == req[r].perms \cap Platform = {} /\ (req[r].perms # {} => Exists(Role(r)))

\* One transaction: DELETE the old permissions, INSERT the new ones.
UpdateRolePermissionsWrite(r) ==
    /\ At(r, "role-permissions", "write")
    /\ roles' = IF GrantOK(r) THEN [roles EXCEPT ![Role(r)].perms = req[r].perms] ELSE roles
    /\ Done(r) /\ UNCHANGED <<load, memberships, tenants, restarts>>

-----------------------------------------------------------------------------
(* Tenants, and the restart of the server *)

\* tenants: NOT NULL columns without a default, and the columns of the INSERT.
RequiredColumns == {"id", "slug", "name"}
InsertedColumns == {"id", "name", "status", "created_at", "updated_at"}

\* HandleCreateTenant: tenant, first membership and admin role in one
\* transaction, which fails when the first INSERT does.
HandleCreateTenant(r) ==
    /\ At(r, "create-tenant", "check")
    /\ tenants' = IF RequiredColumns \subseteq InsertedColumns
                  THEN tenants \cup NewTenants ELSE tenants
    /\ Done(r) /\ UNCHANGED <<load, memberships, roles, restarts>>

\* InitBootstrap on a filled database: INSERT OR IGNORE of the membership and
\* of its admin role.
ServerRestart ==
    /\ restarts < load.restarts
    /\ restarts' = restarts + 1
    /\ req' = [r \in Requests |-> Idle]
    /\ memberships' = [memberships EXCEPT ![<<BootstrapAdmin, DefaultTenant>>].roles = @ \cup {"admin"}]
    /\ UNCHANGED <<load, roles, tenants>>

\* The membership an operation names; a new one is named by its user.
MemberArgs(op) == IF op = "create-membership" THEN Users \X {DefaultTenant}
                  ELSE IF op \in {"disable-membership", "add-role", "remove-role"} THEN Users \X load.tenants
                  ELSE {<<BootstrapAdmin, DefaultTenant>>}
OneRole == {"add-role", "remove-role", "delete-role", "role-permissions"}
\* Role lists and permissions as the request bodies of an operation have them.
RoleArgs(op) == IF op \in OneRole THEN {{ro} : ro \in Roles}
                ELSE IF op = "create-membership" THEN {{ro} : ro \in Roles} \cup {{"viewer", ro} : ro \in Roles}
                ELSE {{}}
PermArgs(op) == IF op = "role-permissions" THEN SUBSET {"node:read", "platform:user:manage"} ELSE {{}}

Handle(r) ==
    \/ CreateMembershipCheck(r) \/ CreateMembershipWrite(r)
    \/ HandleDisableMembership(r)
    \/ AddMembershipRoleCheck(r) \/ AddMembershipRoleWrite(r)
    \/ RemoveMembershipRoleCheck(r) \/ RemoveMembershipRoleWrite(r)
    \/ HandleCreateRole(r)
    \/ DeleteRoleCheck(r) \/ DeleteRoleWrite(r)
    \/ UpdateRolePermissionsCheck(r) \/ UpdateRolePermissionsWrite(r)
    \/ HandleCreateTenant(r)

Next ==
    \/ \E r \in Requests :
         \/ /\ Cardinality({x \in Requests : req[x] # Idle}) < load.slots
            /\ \E u \in Users, t \in load.tenants, op \in load.ops :
               \E member \in MemberArgs(op), rs \in RoleArgs(op), ps \in PermArgs(op) :
                  Accept(r, u, t, op, member, rs, ps)
         \/ Handle(r)
    \/ ServerRestart

Spec == Init /\ [][Next]_vars

-----------------------------------------------------------------------------
(* Properties *)

(* No membership is ever bound to a role that does not exist or that       *)
(* belongs to another tenant, also when a role is deleted while a request  *)
(* that checked it is about to bind it.                                    *)
RolesOfTenant ==
    \A m \in Memberships : \A ro \in memberships[m].roles : RoleFits(ro, m[2])

(* Nobody but the platform admin holds a platform permission, in any       *)
(* tenant and by any sequence of role and membership changes.              *)
PlatformOnlyForPlatformAdmin ==
    \A u \in Users \ {BootstrapAdmin}, t \in Tenants : resolvePermissions(u, t) \cap Platform = {}

(* An active membership keeps at least one role: removing the last one is  *)
(* refused.  The count and the DELETE are not one transaction, so requests *)
(* come one at a time.                                                     *)
ActiveMembershipHasRole ==
    load.slots = 1 => \A m \in Memberships : memberships[m].status = "active" => memberships[m].roles # {}

(* The invariant of the role tables: types, RolesOfTenant also when        *)
(* requests overlap, and ActiveMembershipHasRole when they do not.         *)
RbacInv == TypeOK /\ RolesOfTenant /\ ActiveMembershipHasRole
=============================================================================
