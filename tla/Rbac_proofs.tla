----------------------------- MODULE Rbac_proofs -----------------------------
(***************************************************************************)
(* The role tables stay sound for every set of users, tenants, roles and   *)
(* overlapping requests.  A handler's checks and its write are two steps;  *)
(* the invariant says which of the checks still holds at the write, and    *)
(* what the schema's constraints have to add.                              *)
(***************************************************************************)
EXTENDS Rbac, FiniteSetTheorems, TLAPS

(* Requests in flight.                                                     *)
Request == [op: AllOps, tenant: Tenants, member: Memberships, roles: SUBSET Roles,
            perms: SUBSET Permissions, pc: {"check", "write"}]

(* Slots hold requests; the routes with a role in their path name one.     *)
RequestType ==
    /\ req \in [Requests -> Request \cup {Idle}]
    /\ \A r \in Requests : req[r].op \in OneRole => \E ro \in Roles : req[r].roles = {ro}

(* What is left of the checks of r when it is about to write: a role it    *)
(* may bind is one of its tenant, if it still exists.                      *)
CheckedFacts(r) ==
    /\ req[r].op \in {"create-membership", "add-role"} =>
          \A ro \in req[r].roles : Exists(ro) => RoleFits(ro, req[r].tenant)
    /\ req[r].op = "create-membership" => req[r].roles # {}
    /\ req[r].op = "add-role" => req[r].member[2] = req[r].tenant
    /\ req[r].op \in {"delete-role", "role-permissions"} => req[r].roles \subseteq CustomRoles

Checked == \A r \in Requests : req[r] # Idle /\ req[r].pc = "write" => CheckedFacts(r)

(* No custom role carries a platform permission.                           *)
CleanRoles == \A ro \in CustomRoles : roles[ro].perms \cap Platform = {}

(* With one slot there is one request, and nothing happens between the     *)
(* count of RemoveMembershipRole and its DELETE.                           *)
OneAtATime ==
    load.slots = 1 =>
       /\ \A q, r \in Requests : req[q] # Idle /\ req[r] # Idle => q = r
       /\ \A r \in Requests : At(r, "remove-role", "write") => ~LastRole(r)

(* The inductive invariant.                                                *)
IndInv == RbacInv /\ RequestType /\ Checked /\ CleanRoles /\ OneAtATime

-----------------------------------------------------------------------------
(* Operators.                                                              *)

(* The built-in roles.                                                     *)
LEMMA BuiltinRoles ==
    /\ DOMAIN Builtin = {"admin", "viewer"}
    /\ \A ro \in DOMAIN Builtin : Builtin[ro] \cap Platform = {}
BY DEF Builtin, Platform, Permissions

(* A workload's fields.                                                    *)
LEMMA LoadType ==
    ASSUME load \in Workloads
    PROVE  /\ load.ops \subseteq AllOps /\ load.tenants \subseteq Tenants
           /\ load.slots \in Nat /\ load.restarts \in Nat
BY RbacAssumption DEF WorkloadType

(* An idle slot runs no operation; one that does holds a request.          *)
LEMMA RunningIsRequest ==
    ASSUME RequestType, NEW r \in Requests, req[r].op # "none"
    PROVE  req[r] \in Request /\ req[r] # Idle
BY DEF RequestType, Idle

(* The role of a request that names one.                                   *)
LEMMA TheRole ==
    ASSUME RequestType, NEW r \in Requests, req[r].op \in OneRole
    PROVE  Role(r) \in Roles /\ req[r].roles = {Role(r)}
BY DEF RequestType, Role

(* A role of the tenant carries no platform permission.                    *)
LEMMA NoPlatformInRoles ==
    ASSUME CleanRoles, NEW ro \in Roles
    PROVE  PermissionsOf(ro) \cap Platform = {}
BY BuiltinRoles DEF CleanRoles, Roles, PermissionsOf

(* A set with more than one member keeps one when one is removed.          *)
LEMMA RemoveOne ==
    ASSUME NEW S, NEW x, ~(Cardinality(S) <= 1)
    PROVE  S \ {x} # {}
<1> SUFFICES ASSUME S \ {x} = {} PROVE FALSE
  OBVIOUS
<1>1. S = {} \/ S = {x}
  OBVIOUS
<1> QED
  BY <1>1, FS_EmptySet, FS_Singleton

-----------------------------------------------------------------------------
(* Shapes of steps.                                                        *)

(* The end of a request empties its slot.                                  *)
LEMMA DoneFacts ==
    ASSUME IndInv, NEW r \in Requests, req[r].op # "none", Done(r), load' = load
    PROVE  /\ RequestType'
           /\ \A q \in Requests : req'[q] # Idle => q # r /\ req'[q] = req[q]
           /\ load.slots = 1 => \A q \in Requests : req'[q] = Idle
           /\ \A q \in Requests : req'[q].op \in AllOps \cup {"none"}
<1>1. req' = [req EXCEPT ![r] = Idle] /\ req \in [Requests -> Request \cup {Idle}] /\ req[r] # Idle
  BY RunningIsRequest DEF Done, IndInv, RequestType
<1>2. \A q \in Requests : req'[q] = IF q = r THEN Idle ELSE req[q]
  BY <1>1
<1>3. RequestType'
  BY <1>1, <1>2 DEF RequestType, Idle, OneRole, IndInv
<1>4. \A q \in Requests : req'[q].op \in AllOps \cup {"none"}
  BY <1>2 DEF IndInv, RbacInv, TypeOK, Idle
<1> QED
  BY <1>1, <1>2, <1>3, <1>4 DEF IndInv, OneAtATime

(* A request that ends with a write of memberships: the invariant needs    *)
(* only what is said of memberships.                                       *)
LEMMA MembershipWrite ==
    ASSUME IndInv, NEW r \in Requests, req[r].op # "none", Done(r),
           UNCHANGED <<load, roles, tenants, restarts>>,
           memberships' \in [Memberships -> [status: {"none", "active", "disabled"}, roles: SUBSET Roles]],
           RolesOfTenant', ActiveMembershipHasRole'
    PROVE  IndInv'
<1>1. TypeOK'
  BY DoneFacts DEF IndInv, RbacInv, TypeOK
<1>2. Checked'
  BY DoneFacts DEF IndInv, Checked, CheckedFacts, Exists, RoleFits
<1>3. CleanRoles'
  BY DEF IndInv, CleanRoles
<1>4. OneAtATime'
  BY DoneFacts DEF OneAtATime, At, Idle
<1> QED
  BY <1>1, <1>2, <1>3, <1>4, DoneFacts DEF IndInv, RbacInv

(* A request that ends with a write of roles: no bound role disappears or  *)
(* moves, and none comes into being under a request that names it.         *)
LEMMA RoleWrite ==
    ASSUME IndInv, NEW r \in Requests, req[r].op # "none", Done(r),
           UNCHANGED <<load, memberships, tenants, restarts>>,
           roles' \in [CustomRoles -> [tenant: Tenants \cup {"none"}, perms: SUBSET Permissions]],
           CleanRoles',
           \A m \in Memberships : \A ro \in memberships[m].roles : RoleFits(ro, m[2])',
           \A q \in Requests \ {r} : req[q] # Idle =>
              \A ro \in req[q].roles : Exists(ro)' => /\ Exists(ro)
                                                      /\ \/ ro \in DOMAIN Builtin
                                                         \/ roles'[ro].tenant = roles[ro].tenant
    PROVE  IndInv'
<1>1. TypeOK'
  BY DoneFacts DEF IndInv, RbacInv, TypeOK
<1>2. Checked'
  <2> SUFFICES ASSUME NEW q \in Requests, req'[q] # Idle, req'[q].pc = "write"
               PROVE  CheckedFacts(q)'
    BY DEF Checked
  <2>1. q # r /\ req'[q] = req[q] /\ CheckedFacts(q)
    BY DoneFacts DEF IndInv, Checked
  <2>2. \A ro \in req[q].roles : Exists(ro)' /\ RoleFits(ro, req[q].tenant) => RoleFits(ro, req[q].tenant)'
    BY <2>1 DEF RoleFits
  <2> QED
    BY <2>1, <2>2 DEF CheckedFacts
<1>3. RolesOfTenant' /\ ActiveMembershipHasRole'
  BY DEF RolesOfTenant, ActiveMembershipHasRole, IndInv, RbacInv
<1>4. OneAtATime'
  BY DoneFacts DEF OneAtATime, At, Idle
<1> QED
  BY <1>1, <1>2, <1>3, <1>4, DoneFacts DEF IndInv, RbacInv

(* A check: a refused request ends; one that goes on keeps its arguments   *)
(* and has established the facts of its write.                             *)
LEMMA CheckStep ==
    ASSUME IndInv, NEW r \in Requests, req[r].op # "none", req[r].pc = "check",
           NEW ok \in BOOLEAN, Check(r, ok),
           ok => CheckedFacts(r),
           ok /\ req[r].op = "remove-role" => ~LastRole(r)
    PROVE  IndInv'
<1>0. /\ UNCHANGED <<load, memberships, roles, tenants, restarts>>
      /\ req \in [Requests -> Request \cup {Idle}]
      /\ req[r] \in Request /\ req[r] # Idle
  BY RunningIsRequest DEF Check, IndInv, RequestType
<1>1. CASE ~ok
  <2>1. Done(r)
    BY <1>1 DEF Check, Done
  <2> QED
    BY <1>0, <2>1, MembershipWrite DEF IndInv, RbacInv, TypeOK, RolesOfTenant, ActiveMembershipHasRole, RoleFits, Exists
<1>2. CASE ok
  <2> DEFINE new == [req[r] EXCEPT !.pc = "write"]
  <2>1. /\ req' = [req EXCEPT ![r] = new]
        /\ new \in Request /\ new # Idle /\ new.pc = "write"
        /\ new.op = req[r].op /\ new.tenant = req[r].tenant /\ new.member = req[r].member
        /\ new.roles = req[r].roles
    <3>1. req' = [req EXCEPT ![r] = new]
      BY <1>2, <1>0 DEF Check
    <3>2. /\ new \in Request /\ new.pc = "write"
          /\ new.op = req[r].op /\ new.tenant = req[r].tenant /\ new.member = req[r].member
          /\ new.roles = req[r].roles
      BY <1>0 DEF Request
    <3>3. new # Idle
      BY <1>0, <3>2 DEF Idle
    <3> QED
      BY <3>1, <3>2, <3>3
  <2> HIDE DEF new
  <2>2. \A q \in Requests : req'[q] = IF q = r THEN new ELSE req[q]
    BY <1>0, <2>1
  <2>3. RequestType'
    BY <1>0, <2>1, <2>2 DEF IndInv, RequestType
  <2>4. TypeOK'
    BY <1>0, <2>1, <2>2 DEF IndInv, RbacInv, TypeOK
  <2>5. CheckedFacts(r)'
    BY <1>0, <1>2, <2>1, <2>2 DEF CheckedFacts, Exists, RoleFits
  <2>6. Checked'
    <3> SUFFICES ASSUME NEW q \in Requests, req'[q] # Idle, req'[q].pc = "write", q # r
                 PROVE  CheckedFacts(q)'
      BY <2>5 DEF Checked
    <3> QED
      BY <1>0, <2>2 DEF IndInv, Checked, CheckedFacts, Exists, RoleFits
  <2>7. OneAtATime'
    <3> SUFFICES ASSUME load.slots = 1
                 PROVE  /\ \A q, p \in Requests : req'[q] # Idle /\ req'[p] # Idle => q = p
                        /\ \A q \in Requests : At(q, "remove-role", "write")' => ~LastRole(q)'
      BY <1>0 DEF OneAtATime
    <3>1. \A q \in Requests : req'[q] # Idle => q = r
      BY <1>0, <2>2 DEF IndInv, OneAtATime
    <3>2. At(r, "remove-role", "write")' => ~LastRole(r)'
      BY <1>0, <1>2, <2>1, <2>2 DEF At, LastRole
    <3>3. \A q \in Requests : At(q, "remove-role", "write")' => req'[q] # Idle
      BY DEF At, Idle
    <3> QED
      BY <3>1, <3>2, <3>3
  <2>8. RolesOfTenant' /\ ActiveMembershipHasRole' /\ CleanRoles'
    BY <1>0 DEF IndInv, RbacInv, RolesOfTenant, ActiveMembershipHasRole, CleanRoles, RoleFits, Exists
  <2> QED
    BY <2>3, <2>4, <2>6, <2>7, <2>8 DEF IndInv, RbacInv
<1> QED
  BY <1>1, <1>2

-----------------------------------------------------------------------------
(* The handlers.                                                           *)

(* Whatever is checked and not bound keeps the invariant.                  *)
LEMMA ChecksKeepInv ==
    ASSUME IndInv, NEW r \in Requests,
           \/ CreateMembershipCheck(r) \/ AddMembershipRoleCheck(r) \/ RemoveMembershipRoleCheck(r)
           \/ DeleteRoleCheck(r) \/ UpdateRolePermissionsCheck(r)
    PROVE  IndInv'
<1>0. RequestType
  BY DEF IndInv
<1>1. CASE CreateMembershipCheck(r)
  <2> DEFINE ok == /\ memberships[<<req[r].member[1], req[r].tenant>>] = NoMembership
                   /\ req[r].roles # {}
                   /\ \A ro \in req[r].roles : RoleFits(ro, req[r].tenant)
  <2>1. req[r].op = "create-membership" /\ req[r].pc = "check" /\ Check(r, ok)
    BY <1>1 DEF CreateMembershipCheck, At
  <2>2. ok => CheckedFacts(r)
    BY <2>1 DEF CheckedFacts
  <2>3. ok \in BOOLEAN
    OBVIOUS
  <2> HIDE DEF ok
  <2> QED
    BY <2>1, <2>2, <2>3, CheckStep
<1>2. CASE AddMembershipRoleCheck(r)
  <2> DEFINE ok == /\ OwnMembership(r) /\ memberships[req[r].member].status = "active"
                   /\ RoleFits(Role(r), req[r].tenant)
  <2>1. req[r].op = "add-role" /\ req[r].pc = "check" /\ Check(r, ok)
    BY <1>2 DEF AddMembershipRoleCheck, At
  <2>2. req[r].roles = {Role(r)}
    BY <1>0, <2>1, TheRole DEF OneRole
  <2>3. ok => CheckedFacts(r)
    BY <2>1, <2>2 DEF CheckedFacts, OwnMembership
  <2>4. ok \in BOOLEAN
    BY DEF OwnMembership
  <2> HIDE DEF ok
  <2> QED
    BY <2>1, <2>3, <2>4, CheckStep
<1>3. CASE RemoveMembershipRoleCheck(r)
  <2> DEFINE ok == OwnMembership(r) /\ ~LastRole(r)
  <2>1. req[r].op = "remove-role" /\ req[r].pc = "check" /\ Check(r, ok)
    BY <1>3 DEF RemoveMembershipRoleCheck, At
  <2>2. ok => CheckedFacts(r) /\ ~LastRole(r)
    BY <2>1 DEF CheckedFacts
  <2>3. ok \in BOOLEAN
    BY DEF OwnMembership
  <2> HIDE DEF ok
  <2> QED
    BY <2>1, <2>2, <2>3, CheckStep
<1>4. CASE DeleteRoleCheck(r)
  <2> DEFINE ok == OwnRole(Role(r), req[r].tenant) /\ ~Assigned(Role(r))
  <2>1. req[r].op = "delete-role" /\ req[r].pc = "check" /\ Check(r, ok)
    BY <1>4 DEF DeleteRoleCheck, At
  <2>2. ok => CheckedFacts(r)
    BY <1>0, <2>1, TheRole DEF CheckedFacts, OwnRole, OneRole
  <2>3. ok \in BOOLEAN
    BY DEF OwnRole
  <2> HIDE DEF ok
  <2> QED
    BY <2>1, <2>2, <2>3, CheckStep
<1>5. CASE UpdateRolePermissionsCheck(r)
  <2> DEFINE ok == OwnRole(Role(r), req[r].tenant)
  <2>1. req[r].op = "role-permissions" /\ req[r].pc = "check" /\ Check(r, ok)
    BY <1>5 DEF UpdateRolePermissionsCheck, At
  <2>2. ok => CheckedFacts(r)
    BY <1>0, <2>1, TheRole DEF CheckedFacts, OwnRole, OneRole
  <2>3. ok \in BOOLEAN
    BY DEF OwnRole
  <2> HIDE DEF ok
  <2> QED
    BY <2>1, <2>2, <2>3, CheckStep
<1> QED
  BY <1>1, <1>2, <1>3, <1>4, <1>5

(* The rows of memberships.                                                *)
MembershipRows == [status: {"none", "active", "disabled"}, roles: SUBSET Roles]

(* A membership is created with the roles that were checked.  The ones     *)
(* deleted since fail the INSERT, so every bound role is of the tenant.    *)
LEMMA CreateKeepsInv ==
    ASSUME IndInv, NEW r \in Requests, CreateMembershipWrite(r)
    PROVE  IndInv'
<1> DEFINE m == <<req[r].member[1], req[r].tenant>>
<1>0. /\ req[r].op = "create-membership" /\ req[r].pc = "write" /\ Done(r)
      /\ UNCHANGED <<load, roles, tenants, restarts>>
  BY DEF CreateMembershipWrite, At
<1>1. req[r] \in Request /\ CheckedFacts(r)
  BY <1>0, RunningIsRequest DEF IndInv, Checked
<1>2. m \in Memberships /\ m[2] = req[r].tenant /\ req[r].roles \subseteq Roles
  BY <1>1 DEF Request, Memberships
<1>3. CASE memberships' = memberships
  BY <1>0, <1>3, MembershipWrite DEF IndInv, RbacInv, TypeOK, RolesOfTenant, ActiveMembershipHasRole, RoleFits, Exists
<1>4. CASE /\ memberships' = [memberships EXCEPT ![m] = [status |-> "active", roles |-> req[r].roles]]
           /\ \A ro \in req[r].roles : Exists(ro)
  <2> DEFINE new == [status |-> "active", roles |-> req[r].roles]
  <2>1. new \in MembershipRows /\ new.roles = req[r].roles /\ new.status = "active"
    BY <1>2 DEF MembershipRows
  <2>2. \A k \in Memberships : memberships'[k] = IF k = m THEN new ELSE memberships[k]
    BY <1>4 DEF IndInv, RbacInv, TypeOK
  <2> HIDE DEF new, m
  <2>3. memberships' \in [Memberships -> MembershipRows]
    BY <1>2, <1>4, <2>1 DEF IndInv, RbacInv, TypeOK, MembershipRows, new
  <2>4. RolesOfTenant'
    <3> SUFFICES ASSUME NEW k \in Memberships, NEW ro \in memberships'[k].roles
                 PROVE  RoleFits(ro, k[2])
      BY <1>0 DEF RolesOfTenant, RoleFits, Exists
    <3> QED
      BY <1>0, <1>1, <1>2, <1>4, <2>1, <2>2 DEF IndInv, RbacInv, RolesOfTenant, CheckedFacts
  <2>5. ActiveMembershipHasRole'
    BY <1>0, <1>1, <2>1, <2>2 DEF IndInv, RbacInv, ActiveMembershipHasRole, CheckedFacts
  <2> QED
    BY <1>0, <2>3, <2>4, <2>5, MembershipWrite DEF MembershipRows
<1> QED
  BY <1>3, <1>4 DEF CreateMembershipWrite

(* The other writes of one membership: what its row may become.            *)
LEMMA OneRowKeepsInv ==
    ASSUME IndInv, NEW r \in Requests, req[r].op # "none", Done(r),
           UNCHANGED <<load, roles, tenants, restarts>>,
           NEW m \in Memberships, NEW new \in MembershipRows,
           memberships' = [memberships EXCEPT ![m] = new],
           \A ro \in new.roles : RoleFits(ro, m[2]),
           load.slots = 1 /\ new.status = "active" => new.roles # {}
    PROVE  IndInv'
<1>1. \A k \in Memberships : memberships'[k] = IF k = m THEN new ELSE memberships[k]
  BY DEF IndInv, RbacInv, TypeOK
<1>2. memberships' \in [Memberships -> MembershipRows]
  BY DEF IndInv, RbacInv, TypeOK, MembershipRows
<1>3. RolesOfTenant'
  <2> SUFFICES ASSUME NEW k \in Memberships, NEW ro \in memberships'[k].roles
               PROVE  RoleFits(ro, k[2])
    BY DEF RolesOfTenant, RoleFits, Exists
  <2> QED
    BY <1>1 DEF IndInv, RbacInv, RolesOfTenant
<1>4. ActiveMembershipHasRole'
  BY <1>1 DEF IndInv, RbacInv, ActiveMembershipHasRole
<1> QED
  BY <1>2, <1>3, <1>4, MembershipWrite DEF MembershipRows

(* The membership of a request and its row.                                *)
LEMMA NamedMembership ==
    ASSUME IndInv, NEW r \in Requests, req[r].op # "none"
    PROVE  /\ req[r].member \in Memberships
           /\ memberships[req[r].member] \in MembershipRows
           /\ \A ro \in memberships[req[r].member].roles : RoleFits(ro, req[r].member[2])
<1>1. req[r].member \in Memberships
  BY RunningIsRequest DEF IndInv, Request
<1> QED
  BY <1>1 DEF IndInv, RbacInv, TypeOK, RolesOfTenant, MembershipRows

(* Disabling, and adding and removing a role.                              *)
LEMMA MembershipHandlersKeepInv ==
    ASSUME IndInv, NEW r \in Requests,
           HandleDisableMembership(r) \/ AddMembershipRoleWrite(r) \/ RemoveMembershipRoleWrite(r)
    PROVE  IndInv'
<1> DEFINE m == req[r].member
           old == memberships[m]
<1>0. ASSUME memberships' = memberships, req[r].op # "none", Done(r),
             UNCHANGED <<load, roles, tenants, restarts>>
      PROVE  IndInv'
  BY <1>0, MembershipWrite DEF IndInv, RbacInv, TypeOK, RolesOfTenant, ActiveMembershipHasRole, RoleFits, Exists
<1>1. CASE HandleDisableMembership(r)
  <2>1. req[r].op = "disable-membership" /\ Done(r) /\ UNCHANGED <<load, roles, tenants, restarts>>
    BY <1>1 DEF HandleDisableMembership, At
  <2>2. /\ m \in Memberships /\ old \in MembershipRows
        /\ \A ro \in old.roles : RoleFits(ro, m[2])
    BY <2>1, NamedMembership
  <2>3. CASE memberships' = memberships
    BY <1>0, <2>1, <2>3
  <2>4. CASE memberships' = [memberships EXCEPT ![m].status = "disabled"]
    <3>1. memberships' = [memberships EXCEPT ![m] = [old EXCEPT !.status = "disabled"]]
      BY <2>4
    <3> HIDE DEF m, old
    <3> DEFINE new == [old EXCEPT !.status = "disabled"]
    <3>2. new \in MembershipRows /\ new.roles = old.roles /\ new.status = "disabled"
      BY <2>2 DEF MembershipRows
    <3> HIDE DEF new
    <3>3. memberships' = [memberships EXCEPT ![m] = new]
      BY <3>1 DEF new
    <3> QED
      BY <2>1, <2>2, <3>2, <3>3, OneRowKeepsInv
  <2> QED
    BY <1>1, <2>3, <2>4 DEF HandleDisableMembership
<1>2. CASE AddMembershipRoleWrite(r)
  <2>1. /\ req[r].op = "add-role" /\ req[r].pc = "write" /\ Done(r)
        /\ UNCHANGED <<load, roles, tenants, restarts>>
    BY <1>2 DEF AddMembershipRoleWrite, At
  <2>2. /\ m \in Memberships /\ old \in MembershipRows
        /\ \A ro \in old.roles : RoleFits(ro, m[2])
    BY <2>1, NamedMembership
  <2>3. Role(r) \in Roles /\ req[r].roles = {Role(r)}
    BY <2>1, TheRole DEF IndInv, OneRole
  <2>4. Exists(Role(r)) => RoleFits(Role(r), m[2])
    BY <2>1, <2>3, RunningIsRequest DEF IndInv, Checked, CheckedFacts
  <2>5. CASE memberships' = memberships
    BY <1>0, <2>1, <2>5
  <2>6. CASE Exists(Role(r)) /\ memberships' = [memberships EXCEPT ![m].roles = @ \cup {Role(r)}]
    <3>1. memberships' = [memberships EXCEPT ![m] = [old EXCEPT !.roles = old.roles \cup {Role(r)}]]
      BY <2>6
    <3> HIDE DEF m, old
    <3> DEFINE new == [old EXCEPT !.roles = old.roles \cup {Role(r)}]
    <3>2. new \in MembershipRows /\ new.roles = old.roles \cup {Role(r)}
      BY <2>2, <2>3 DEF MembershipRows
    <3> HIDE DEF new
    <3>3. memberships' = [memberships EXCEPT ![m] = new]
      BY <3>1 DEF new
    <3> QED
      BY <2>1, <2>2, <2>4, <2>6, <3>2, <3>3, OneRowKeepsInv
  <2> QED
    BY <1>2, <2>5, <2>6 DEF AddMembershipRoleWrite
<1>3. CASE RemoveMembershipRoleWrite(r)
  <2>1. /\ At(r, "remove-role", "write") /\ req[r].op = "remove-role" /\ Done(r)
        /\ UNCHANGED <<load, roles, tenants, restarts>>
    BY <1>3 DEF RemoveMembershipRoleWrite, At
  <2>2. /\ m \in Memberships /\ old \in MembershipRows
        /\ \A ro \in old.roles : RoleFits(ro, m[2])
    BY <2>1, NamedMembership
  <2>3. load.slots = 1 => ~(old.status = "active" /\ Cardinality(old.roles) <= 1)
    BY <2>1 DEF IndInv, OneAtATime, LastRole
  <2>4. memberships' = [memberships EXCEPT ![m] = [old EXCEPT !.roles = old.roles \ {Role(r)}]]
    BY <1>3 DEF RemoveMembershipRoleWrite
  <2> HIDE DEF m, old
  <2> DEFINE new == [old EXCEPT !.roles = old.roles \ {Role(r)}]
  <2>5. new \in MembershipRows /\ new.roles = old.roles \ {Role(r)} /\ new.status = old.status
    BY <2>2 DEF MembershipRows
  <2> HIDE DEF new
  <2>6. memberships' = [memberships EXCEPT ![m] = new]
    BY <2>4 DEF new
  <2>7. load.slots = 1 /\ new.status = "active" => new.roles # {}
    BY <2>3, <2>5, RemoveOne
  <2> QED
    BY <2>1, <2>2, <2>5, <2>6, <2>7, OneRowKeepsInv
<1> QED
  BY <1>1, <1>2, <1>3

(* The rows of roles.                                                      *)
RoleRows == [tenant: Tenants \cup {"none"}, perms: SUBSET Permissions]

(* Writes of roles: a new role is one that no membership is bound to and   *)
(* no request names; a DELETE is refused by the references; permissions    *)
(* are replaced in a role that exists, without platform permissions.       *)
LEMMA RoleHandlersKeepInv ==
    ASSUME IndInv, NEW r \in Requests,
           HandleCreateRole(r) \/ DeleteRoleWrite(r) \/ UpdateRolePermissionsWrite(r)
    PROVE  IndInv'
<1>0. roles \in [CustomRoles -> RoleRows] /\ CleanRoles
  BY DEF IndInv, RbacInv, TypeOK, RoleRows
<1>a. \A m \in Memberships : \A ro \in memberships[m].roles : RoleFits(ro, m[2]) /\ m[2] \in Tenants
  BY DEF IndInv, RbacInv, RolesOfTenant, Memberships
<1>b. ASSUME roles' = roles, req[r].op # "none", Done(r), UNCHANGED <<load, memberships, tenants, restarts>>
      PROVE  IndInv'
  BY <1>b, MembershipWrite DEF IndInv, RbacInv, TypeOK, RolesOfTenant, ActiveMembershipHasRole, RoleFits, Exists
<1>1. CASE HandleCreateRole(r)
  <2>1. /\ req[r].op = "create-role" /\ Done(r) /\ UNCHANGED <<load, memberships, tenants, restarts>>
    BY <1>1 DEF HandleCreateRole, At
  <2>2. PICK ro \in CustomRoles :
           /\ roles[ro] = NoRole
           /\ \A q \in Requests : req[q].op # "none" /\ q # r => ro \notin req[q].roles
           /\ roles' = [roles EXCEPT ![ro].tenant = req[r].tenant]
    BY <1>1 DEF HandleCreateRole
  <2>3. req[r].tenant \in Tenants
    BY <2>1, RunningIsRequest DEF IndInv, Request
  <2> DEFINE new == [tenant |-> req[r].tenant, perms |-> {}]
  <2>4. new \in RoleRows /\ new.perms = {} /\ roles' = [roles EXCEPT ![ro] = new]
    <3>1. new \in RoleRows /\ new.perms = {}
      BY <2>3 DEF RoleRows
    <3>2. [NoRole EXCEPT !.tenant = req[r].tenant] = new
      BY DEF NoRole
    <3>3. roles' = [roles EXCEPT ![ro] = [roles[ro] EXCEPT !.tenant = req[r].tenant]]
      BY <2>2
    <3> HIDE DEF new
    <3> QED
      BY <2>2, <3>1, <3>2, <3>3
  <2> HIDE DEF new
  <2>5. roles' \in [CustomRoles -> RoleRows] /\ CleanRoles'
    BY <1>0, <2>4 DEF CleanRoles
  <2>6. \A k \in CustomRoles : k # ro => roles'[k] = roles[k]
    BY <1>0, <2>4
  <2>7. ASSUME NEW m \in Memberships, NEW k \in memberships[m].roles
        PROVE  RoleFits(k, m[2])'
    <3>1. RoleFits(k, m[2]) /\ (k = ro => k \in DOMAIN Builtin)
      BY <1>a, <2>2 DEF RoleFits, Exists
    <3>2. k \in Roles
      BY DEF IndInv, RbacInv, TypeOK
    <3> QED
      BY <2>6, <3>1, <3>2 DEF RoleFits, Exists, Roles
  <2>8. ASSUME NEW q \in Requests \ {r}, req[q] # Idle, NEW k \in req[q].roles, Exists(k)'
        PROVE  Exists(k) /\ (k \in DOMAIN Builtin \/ roles'[k].tenant = roles[k].tenant)
    <3>1. req[q] \in Request
      BY <2>8 DEF IndInv, RequestType
    <3>2. req[q].op # "none" /\ k \in Roles
      BY <3>1 DEF Request, AllOps
    <3> QED
      BY <2>2, <2>6, <2>8, <3>2 DEF Exists, Roles
  <2> QED
    BY <2>1, <2>5, <2>7, <2>8, RoleWrite DEF RoleRows
<1>2. CASE DeleteRoleWrite(r)
  <2> DEFINE ro == Role(r)
  <2>1. /\ req[r].op = "delete-role" /\ req[r].pc = "write" /\ Done(r)
        /\ UNCHANGED <<load, memberships, tenants, restarts>>
    BY <1>2 DEF DeleteRoleWrite, At
  <2>2. ro \in CustomRoles
    BY <2>1, TheRole, RunningIsRequest DEF IndInv, OneRole, Checked, CheckedFacts
  <2> HIDE DEF ro
  <2>3. CASE roles' = roles
    BY <1>b, <2>1, <2>3
  <2>4. CASE ~Assigned(ro) /\ roles' = [roles EXCEPT ![ro] = NoRole]
    <3>1. NoRole \in RoleRows /\ NoRole.perms = {}
      BY DEF NoRole, RoleRows
    <3>2. roles' \in [CustomRoles -> RoleRows] /\ CleanRoles'
      BY <1>0, <2>4, <3>1 DEF CleanRoles
    <3>3. \A k \in CustomRoles : roles'[k] = IF k = ro THEN NoRole ELSE roles[k]
      BY <1>0, <2>4
    <3>4. ASSUME NEW m \in Memberships, NEW k \in memberships[m].roles
          PROVE  RoleFits(k, m[2])'
      <4>1. RoleFits(k, m[2]) /\ k # ro /\ k \in Roles
        BY <1>a, <2>4 DEF Assigned, IndInv, RbacInv, TypeOK
      <4> QED
        BY <3>3, <4>1 DEF RoleFits, Exists, Roles
    <3>5. ASSUME NEW q \in Requests \ {r}, req[q] # Idle, NEW k \in req[q].roles, Exists(k)'
          PROVE  Exists(k) /\ (k \in DOMAIN Builtin \/ roles'[k].tenant = roles[k].tenant)
      <4>1. k \in Roles
        BY <3>5 DEF IndInv, RequestType, Request
      <4> QED
        BY <3>3, <3>5, <4>1 DEF Exists, Roles
    <3> QED
      BY <2>1, <3>2, <3>4, <3>5, RoleWrite DEF RoleRows
  <2> QED
    BY <1>2, <2>3, <2>4 DEF DeleteRoleWrite, ro
<1>3. CASE UpdateRolePermissionsWrite(r)
  <2>1. /\ req[r].op = "role-permissions" /\ req[r].pc = "write" /\ Done(r)
        /\ UNCHANGED <<load, memberships, tenants, restarts>>
    BY <1>3 DEF UpdateRolePermissionsWrite, At
  <2>2. PICK ro \in CustomRoles, ps \in SUBSET Permissions : ro = Role(r) /\ ps = req[r].perms
    BY <2>1, TheRole, RunningIsRequest DEF IndInv, OneRole, Checked, CheckedFacts, Request
  <2>3. CASE roles' = roles
    BY <1>b, <2>1, <2>3
  <2>4. CASE GrantOK(r) /\ roles' = [roles EXCEPT ![ro].perms = ps]
    <3>1. ps \cap Platform = {} /\ (ps # {} => Exists(ro))
      BY <2>2, <2>4 DEF GrantOK
    <3> DEFINE old == roles[ro]
               new == [old EXCEPT !.perms = ps]
    <3>2. roles' = [roles EXCEPT ![ro] = new] /\ old \in RoleRows /\ (Exists(ro) <=> ro \in DOMAIN Builtin \/ old # NoRole)
      BY <1>0, <2>2, <2>4 DEF Exists
    <3> HIDE DEF old
    <3>3. /\ new \in RoleRows /\ new.perms = ps /\ new.tenant = old.tenant
          /\ old = [tenant |-> old.tenant, perms |-> old.perms]
          /\ new = [tenant |-> old.tenant, perms |-> ps]
      BY <2>2, <3>2 DEF RoleRows
    <3> HIDE DEF new
    <3>4. \A k \in CustomRoles : roles'[k] = IF k = ro THEN new ELSE roles[k]
      BY <1>0, <3>2
    <3>5. roles' \in [CustomRoles -> RoleRows] /\ CleanRoles'
      BY <1>0, <2>2, <3>1, <3>2, <3>3 DEF CleanRoles
    <3>6. roles[ro] = old
      BY DEF old
    <3>7. Exists(ro)' => Exists(ro)
      <4>1. ro \notin DOMAIN Builtin /\ old = NoRole /\ ps = {} => new = NoRole
        BY <3>3 DEF NoRole
      <4> QED
        BY <3>1, <3>2, <3>4, <4>1 DEF Exists
    <3>8. ASSUME NEW m \in Memberships, NEW k \in memberships[m].roles
          PROVE  RoleFits(k, m[2])'
      <4>1. RoleFits(k, m[2]) /\ m[2] \in Tenants /\ k \in Roles
        BY <1>a DEF IndInv, RbacInv, TypeOK
      <4>2. CASE k # ro \/ k \in DOMAIN Builtin
        BY <3>4, <4>1, <4>2 DEF RoleFits, Exists, Roles
      <4>3. CASE k = ro /\ k \notin DOMAIN Builtin
        <5>1. new.tenant = m[2] /\ new.tenant # NoRole.tenant
          BY <3>3, <3>6, <4>1, <4>3, RbacAssumption DEF RoleFits, NoRole
        <5> QED
          BY <2>2, <3>4, <4>3, <5>1 DEF RoleFits, Exists
      <4> QED
        BY <4>2, <4>3
    <3>9. ASSUME NEW q \in Requests \ {r}, req[q] # Idle, NEW k \in req[q].roles, Exists(k)'
          PROVE  Exists(k) /\ (k \in DOMAIN Builtin \/ roles'[k].tenant = roles[k].tenant)
      <4>1. k \in Roles
        BY <3>9 DEF IndInv, RequestType, Request
      <4>2. CASE k = ro
        BY <2>2, <3>3, <3>4, <3>6, <3>7, <3>9, <4>2
      <4>3. CASE k # ro
        BY <3>4, <3>9, <4>1, <4>3 DEF Exists, Roles
      <4> QED
        BY <4>2, <4>3
    <3> QED
      BY <2>1, <3>5, <3>8, <3>9, RoleWrite DEF RoleRows
  <2> QED
    BY <1>3, <2>2, <2>3, <2>4 DEF UpdateRolePermissionsWrite
<1> QED
  BY <1>1, <1>2, <1>3

(* Creating a tenant writes the table of tenants at most.                  *)
LEMMA CreateTenantKeepsInv ==
    ASSUME IndInv, NEW r \in Requests, HandleCreateTenant(r)
    PROVE  IndInv'
<1>1. /\ req[r].op = "create-tenant" /\ Done(r) /\ UNCHANGED <<load, memberships, roles, restarts>>
      /\ tenants' \subseteq Tenants \cup NewTenants
  BY DEF HandleCreateTenant, At, IndInv, RbacInv, TypeOK
<1>2. TypeOK'
  BY <1>1, DoneFacts DEF IndInv, RbacInv, TypeOK
<1>3. Checked'
  BY <1>1, DoneFacts DEF IndInv, Checked, CheckedFacts, Exists, RoleFits
<1>4. OneAtATime'
  BY <1>1, DoneFacts DEF OneAtATime, At, Idle
<1>5. RolesOfTenant' /\ ActiveMembershipHasRole' /\ CleanRoles'
  BY <1>1 DEF IndInv, RbacInv, RolesOfTenant, ActiveMembershipHasRole, CleanRoles, RoleFits, Exists
<1> QED
  BY <1>1, <1>2, <1>3, <1>4, <1>5, DoneFacts DEF IndInv, RbacInv

(* InitBootstrap binds the bootstrap admin to the built-in admin role; the *)
(* requests in flight are gone.                                            *)
LEMMA RestartKeepsInv ==
    ASSUME IndInv, ServerRestart
    PROVE  IndInv'
<1> DEFINE m == <<BootstrapAdmin, DefaultTenant>>
           old == memberships[m]
           new == [old EXCEPT !.roles = old.roles \cup {"admin"}]
<1>1. /\ restarts' = restarts + 1 /\ restarts < load.restarts /\ UNCHANGED <<load, roles, tenants>>
      /\ req' = [r \in Requests |-> Idle]
      /\ memberships' = [memberships EXCEPT ![m] = new]
      /\ memberships \in [Memberships -> MembershipRows]
  BY DEF ServerRestart, IndInv, RbacInv, TypeOK, MembershipRows
<1>2. m \in Memberships /\ old \in MembershipRows
  BY <1>1, RbacAssumption DEF Memberships
<1> HIDE DEF m, old
<1>3. "admin" \in Roles /\ "admin" \in DOMAIN Builtin
  BY BuiltinRoles DEF Roles
<1>4. new \in MembershipRows /\ new.roles = old.roles \cup {"admin"} /\ new.status = old.status
  BY <1>2, <1>3 DEF MembershipRows
<1> HIDE DEF new
<1>5. \A k \in Memberships : memberships'[k] = IF k = m THEN new ELSE memberships[k]
  BY <1>1
<1>6. \A r \in Requests : req'[r] = Idle /\ req'[r].op = "none"
  BY <1>1 DEF Idle
<1>7. TypeOK'
  <2>1. memberships' \in [Memberships -> MembershipRows]
    BY <1>1, <1>4
  <2>2. restarts' \in 0 .. load'.restarts
    BY <1>1, LoadType DEF IndInv, RbacInv, TypeOK
  <2> QED
    BY <1>1, <1>6, <2>1, <2>2 DEF IndInv, RbacInv, TypeOK, MembershipRows
<1>8. RequestType' /\ Checked' /\ OneAtATime'
  BY <1>1, <1>6 DEF RequestType, Checked, OneAtATime, At, OneRole
<1>9. RolesOfTenant'
  <2> SUFFICES ASSUME NEW k \in Memberships, NEW ro \in memberships'[k].roles
               PROVE  RoleFits(ro, k[2])
    BY <1>1 DEF RolesOfTenant, RoleFits, Exists
  <2>1. CASE ro \in memberships[k].roles
    BY <2>1 DEF IndInv, RbacInv, RolesOfTenant
  <2>2. CASE ro = "admin"
    BY <1>3, <2>2 DEF RoleFits, Exists
  <2> QED
    BY <1>4, <1>5, <2>1, <2>2 DEF old
<1>10. ActiveMembershipHasRole' /\ CleanRoles'
  BY <1>1, <1>4, <1>5 DEF IndInv, RbacInv, ActiveMembershipHasRole, CleanRoles
<1> QED
  BY <1>7, <1>8, <1>9, <1>10 DEF IndInv, RbacInv

(* The arguments of a request.                                             *)
LEMMA RequestArgs ==
    ASSUME load \in Workloads, NEW op \in AllOps,
           NEW member \in MemberArgs(op), NEW rs \in RoleArgs(op), NEW ps \in PermArgs(op)
    PROVE  /\ member \in Memberships /\ rs \in SUBSET Roles /\ ps \in SUBSET Permissions
           /\ op \in OneRole => \E ro \in Roles : rs = {ro}
<1>1. member \in Memberships
  BY LoadType, RbacAssumption DEF MemberArgs, Memberships
<1>2. rs \in SUBSET Roles /\ (op \in OneRole => \E ro \in Roles : rs = {ro})
  BY BuiltinRoles DEF RoleArgs, Roles
<1>3. ps \in SUBSET Permissions
  BY DEF PermArgs, Permissions
<1> QED
  BY <1>1, <1>2, <1>3

(* A request is accepted into an empty slot; with one slot, when no other  *)
(* request runs.                                                           *)
LEMMA AcceptKeepsInv ==
    ASSUME IndInv, NEW r \in Requests,
           Cardinality({x \in Requests : req[x] # Idle}) < load.slots,
           NEW u \in Users, NEW t \in load.tenants, NEW op \in load.ops,
           NEW member \in MemberArgs(op), NEW rs \in RoleArgs(op), NEW ps \in PermArgs(op),
           Accept(r, u, t, op, member, rs, ps)
    PROVE  IndInv'
<1>0. load \in Workloads /\ op \in AllOps /\ t \in Tenants
  BY LoadType DEF IndInv, RbacInv, TypeOK
<1> DEFINE new == [op |-> op, tenant |-> t, member |-> member, roles |-> rs, perms |-> ps, pc |-> "check"]
<1>1. /\ req' = [req EXCEPT ![r] = new] /\ UNCHANGED <<load, memberships, roles, tenants, restarts>>
      /\ req \in [Requests -> Request \cup {Idle}]
  BY DEF Accept, IndInv, RequestType
<1>2. /\ new \in Request /\ new.pc = "check" /\ new.op = op /\ new.roles = rs
      /\ op \in OneRole => \E ro \in Roles : rs = {ro}
  BY <1>0, RequestArgs DEF Request
<1> HIDE DEF new
<1>3. \A q \in Requests : req'[q] = IF q = r THEN new ELSE req[q]
  BY <1>1
<1>4. TypeOK'
  BY <1>0, <1>1, <1>2, <1>3 DEF IndInv, RbacInv, TypeOK
<1>5. RequestType'
  BY <1>1, <1>2, <1>3 DEF IndInv, RequestType
<1>6. Checked'
  BY <1>1, <1>2, <1>3 DEF IndInv, Checked, CheckedFacts, Exists, RoleFits
<1>7. OneAtATime'
  <2> SUFFICES ASSUME load.slots = 1
               PROVE  /\ \A q, p \in Requests : req'[q] # Idle /\ req'[p] # Idle => q = p
                      /\ \A q \in Requests : At(q, "remove-role", "write")' => ~LastRole(q)'
    BY <1>1 DEF OneAtATime
  <2>1. \A q \in Requests : req[q] = Idle
    <3> SUFFICES ASSUME NEW q \in Requests, req[q] # Idle PROVE FALSE
      OBVIOUS
    <3> DEFINE Running == {x \in Requests : req[x] # Idle}
    <3>1. Running = {q}
      BY DEF IndInv, OneAtATime
    <3>2. Cardinality(Running) < 1
      OBVIOUS
    <3> HIDE DEF Running
    <3>3. Cardinality({q}) = 1
      BY FS_Singleton
    <3>4. Cardinality(Running) = 1
      BY <3>1, <3>3
    <3>5. 1 < 1
      BY <3>2, <3>4
    <3> QED
      BY <3>5
  <2> QED
    BY <1>2, <1>3, <2>1 DEF At, Idle
<1>8. RolesOfTenant' /\ ActiveMembershipHasRole' /\ CleanRoles'
  BY <1>1 DEF IndInv, RbacInv, RolesOfTenant, ActiveMembershipHasRole, CleanRoles, RoleFits, Exists
<1> QED
  BY <1>4, <1>5, <1>6, <1>7, <1>8 DEF IndInv, RbacInv

-----------------------------------------------------------------------------
(* The induction.                                                          *)

(* The bootstrapped database satisfies the invariant.                      *)
LEMMA InitIndInv == Init => IndInv
<1> SUFFICES ASSUME Init PROVE IndInv
  OBVIOUS
<1>1. "admin" \in Roles /\ "admin" \in DOMAIN Builtin
  BY BuiltinRoles DEF Roles
<1>2. \A m \in Memberships : memberships[m] = IF m[1] = BootstrapAdmin
                                              THEN [status |-> "active", roles |-> {"admin"}] ELSE NoMembership
  BY DEF Init
<1>3. memberships \in [Memberships -> MembershipRows]
  BY <1>1 DEF Init, MembershipRows, NoMembership
<1>4. \A r \in Requests : req[r] = Idle /\ req[r].op = "none"
  BY DEF Init, Idle
<1>5. TypeOK
  BY <1>3, <1>4, LoadType DEF Init, TypeOK, MembershipRows, NoRole
<1>6. RolesOfTenant
  BY <1>1, <1>2 DEF RolesOfTenant, RoleFits, Exists, NoMembership
<1>7. ActiveMembershipHasRole
  BY <1>2 DEF ActiveMembershipHasRole, NoMembership
<1>8. RequestType /\ Checked /\ OneAtATime
  BY <1>4 DEF Init, RequestType, Checked, OneAtATime, At, OneRole
<1>9. CleanRoles
  BY DEF Init, CleanRoles, NoRole
<1> QED
  BY <1>5, <1>6, <1>7, <1>8, <1>9 DEF IndInv, RbacInv

(* Every step preserves it.                                                *)
LEMMA StepIndInv == IndInv /\ [Next]_vars => IndInv'
<1> SUFFICES ASSUME IndInv, [Next]_vars PROVE IndInv'
  OBVIOUS
<1>1. CASE UNCHANGED vars
  BY <1>1 DEF vars, IndInv, RbacInv, TypeOK, RolesOfTenant, ActiveMembershipHasRole, RequestType,
              Checked, CheckedFacts, CleanRoles, OneAtATime, At, LastRole, RoleFits, Exists
<1>2. ASSUME NEW r \in Requests, Handle(r)
      PROVE  IndInv'
  BY <1>2, ChecksKeepInv, CreateKeepsInv, MembershipHandlersKeepInv, RoleHandlersKeepInv,
     CreateTenantKeepsInv DEF Handle
<1> QED
  BY <1>1, <1>2, AcceptKeepsInv, RestartKeepsInv DEF Next

(* The invariant holds throughout.                                         *)
LEMMA Inductive == Spec => []IndInv
BY InitIndInv, StepIndInv, PTL DEF Spec

(* Every binding is to a role that exists and is of the membership's       *)
(* tenant, for any number of overlapping requests; and an active           *)
(* membership keeps a role where requests come one at a time.              *)
THEOREM BindingsStaySound == Spec => []RbacInv
<1>1. IndInv => RbacInv
  BY DEF IndInv
<1> QED
  BY <1>1, Inductive, PTL

(* No sequence of grants, bindings, deletions and restarts gives a         *)
(* platform permission to a user who is not the platform admin.            *)
THEOREM NoEscalationToPlatform == Spec => []PlatformOnlyForPlatformAdmin
<1>1. IndInv => PlatformOnlyForPlatformAdmin
  <2> SUFFICES ASSUME IndInv, NEW u \in Users \ {BootstrapAdmin}, NEW t \in Tenants
               PROVE  resolvePermissions(u, t) \cap Platform = {}
    BY DEF PlatformOnlyForPlatformAdmin
  <2>1. <<u, t>> \in Memberships
    BY DEF Memberships
  <2>2. memberships[<<u, t>>].roles \subseteq Roles
    BY <2>1 DEF IndInv, RbacInv, TypeOK
  <2>3. \A ro \in memberships[<<u, t>>].roles : PermissionsOf(ro) \cap Platform = {}
    BY <2>2, NoPlatformInRoles DEF IndInv
  <2> QED
    BY <2>3 DEF resolvePermissions
<1> QED
  BY <1>1, Inductive, PTL
=============================================================================
