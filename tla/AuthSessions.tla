---------------------------- MODULE AuthSessions ----------------------------
(***************************************************************************)
(* User sessions of the server: login, ValidateSession with its sliding    *)
(* expiration, logout, /me, change-password, switch-tenant, and the        *)
(* platform administration of users and tenants that revokes sessions      *)
(* (internal/server/auth, internal/server/rbac).                           *)
(*                                                                         *)
(* Every HTTP request runs in a goroutine of its own and its statements    *)
(* are not in a transaction: a request holds what it read in `req' and     *)
(* other requests run between its statements.  A password is the version   *)
(* of the user's hash it matches; a session ID is drawn fresh and stored   *)
(* under an HMAC key drawn on every start of the server (`epoch').         *)
(* Time is counted in units of the refresh window's granularity.           *)
(***************************************************************************)
EXTENDS Naturals, FiniteSets

CONSTANTS
    Users,            \* usernames
    BootstrapAdmin,   \* the username of auth.bootstrap, "admin"
    Registered,       \* users that exist when the model begins
    Admins,           \* those of them that are platform admins
    Tenants,          \* tenants in the database
    Members,          \* the memberships, as pairs of user and tenant
    SessionIds,       \* the session IDs that may be drawn
    Requests,         \* slots for the requests that run at the same time
    Workloads,        \* what is sent to the server and what goes wrong, see below
    Idle,             \* SessionConfig.IdleTimeoutHours
    Refresh           \* SessionConfig.RefreshWindowHours

(* The requests that change state behind the session middleware.           *)
SessionOps == {"logout", "me", "password", "switch"}
AdminOps == {"create-user", "demote", "promote", "disable-user", "reset", "disable-tenant"}
TenantOps == {"disable-membership"}
AllOps == SessionOps \cup AdminOps \cup TenantOps

(* A workload: the kinds of requests users send, the users these name, the *)
(* tenants that are not disabled at the start, how many requests run at a  *)
(* time, how many sessions are opened, and the bounds on the clock, on     *)
(* password versions, on rotations of a CSRF secret, on restarts of the    *)
(* server, on failed revocations and on uses of --reset-admin-password.    *)
WorkloadType ==
    [ops: SUBSET AllOps, users: SUBSET Users, tenants: SUBSET Tenants, slots: Nat, logins: Nat, time: Nat, passwords: Nat,
     rotations: Nat, restarts: Nat, dbErrors: Nat, cliResets: Nat]

ASSUME AuthAssumption ==
    /\ BootstrapAdmin \in Admins /\ Admins \subseteq Registered /\ Registered \subseteq Users
    /\ Members \subseteq Registered \X Tenants
    /\ Idle \in Nat /\ Refresh \in Nat /\ Refresh < Idle
    /\ "none" \notin SessionIds
    /\ \A w \in Workloads : w \in WorkloadType

VARIABLES
    load,         \* the workload of this behaviour
    users,        \* table users
    tenants,      \* tenants.status
    memberships,  \* tenant_memberships: status by user and tenant
    sessions,     \* table sessions
    req,          \* what each running request has read
    clock,
    epoch,        \* the HMAC key of this process
    dbErrors, cliResets,
    lastUse,      \* (auxiliary) when a session was last accepted or refreshed
    proof,        \* (auxiliary) the password version a session's holder last showed
    everAdmin     \* (auxiliary) users that were platform admin at some time

vars == <<load, users, tenants, memberships, sessions, req, clock, epoch, dbErrors,
          cliResets, lastUse, proof, everAdmin>>
aux == <<lastUse, proof, everAdmin>>
env == <<load, clock, epoch, dbErrors, cliResets>>

Ops == load.ops
MaxTime == load.time
MaxPassword == load.passwords
MaxCsrf == load.rotations
MaxRestarts == load.restarts
MaxDbErrors == load.dbErrors
MaxCliResets == load.cliResets

\* A session that was not drawn yet, and a request slot that is free.
Unborn == [user |-> "none"]
Idling == [op |-> "none"]

\* last_seen_at as datetime('now') writes it: time.Parse fails and yields the
\* zero time, longer ago than any refresh window.
ZeroTime == 0
StartTime == Refresh + 1
Times == StartTime..(StartTime + MaxTime)

UserRows == [status: {"none", "active", "disabled"}, admin: BOOLEAN,
             pw: 0..MaxPassword, mustChange: BOOLEAN]

SessionRows ==
    [user: Users, tenant: Tenants, csrf: 0..MaxCsrf, lastSeen: Times \cup {ZeroTime},
     expires: 0..(StartTime + MaxTime + Idle), revoked: BOOLEAN, epoch: 0..MaxRestarts]

Born(s) == sessions[s] # Unborn

(* The type invariant.                                                     *)
TypeOK ==
    /\ load \in Workloads
    /\ users \in [Users -> UserRows]
    /\ tenants \in [Tenants -> {"active", "disabled"}]
    /\ memberships \in [Users \X Tenants -> {"none", "active", "disabled"}]
    /\ \A s \in SessionIds : Born(s) => sessions[s] \in SessionRows
    /\ \A r \in Requests : req[r].op \in {"none", "login"} \cup AllOps
    /\ clock \in Times /\ epoch \in 0..MaxRestarts
    /\ dbErrors \in 0..MaxDbErrors /\ cliResets \in 0..MaxCliResets
    /\ proof \in [SessionIds -> 0..MaxPassword]

(* InitBootstrap has made the default tenant, the bootstrap admin and its  *)
(* membership; the other users and memberships are what administrators     *)
(* made before the model begins.                                           *)
Init ==
    /\ load \in Workloads
    /\ users = [u \in Users |-> [status |-> IF u \in Registered THEN "active" ELSE "none",
                                admin |-> u \in Admins, pw |-> 0, mustChange |-> FALSE]]
    /\ tenants = [t \in Tenants |-> IF t \in load.tenants THEN "active" ELSE "disabled"]
    /\ memberships = [m \in Users \X Tenants |-> IF m \in Members THEN "active" ELSE "none"]
    /\ sessions = [s \in SessionIds |-> Unborn]
    /\ req = [r \in Requests |-> Idling]
    /\ clock = StartTime /\ epoch = 0 /\ dbErrors = 0 /\ cliResets = 0
    /\ lastUse = [s \in SessionIds |-> 0] /\ proof = [s \in SessionIds |-> 0]
    /\ everAdmin = Admins

Done(r) == req' = [req EXCEPT ![r] = Idling]
Goes(r, rec) == req' = [req EXCEPT ![r] = rec]

-----------------------------------------------------------------------------
(* Login *)

(* The user is looked up and the password verified against the hash that   *)
(* was read; the slow Argon2 run ends this step.                           *)
LoginVerify(r, u, t) ==
    /\ req[r] = Idling
    /\ users[u].status = "active"
    /\ Goes(r, [op |-> "login", user |-> u, tenant |-> t, pw |-> users[u].pw])
    /\ UNCHANGED <<users, tenants, memberships, sessions, env, aux>>

\* The tenants a login may enter: active ones with an active membership.
Enterable(u) == {t \in Tenants : memberships[u, t] = "active" /\ tenants[t] = "active"}

(* The tenant of the session: the requested one, or the only enterable one *)
(* when none was requested (two or more answer 409, none 403).             *)
LoginTenants(u, wanted) ==
    IF wanted = "auto" THEN {t \in Enterable(u) : Enterable(u) = {t}}
                       ELSE {wanted} \cap Enterable(u)

(* CreateSession: a row with a fresh ID, hashed with the key of this       *)
(* process.                                                                *)
CreateSession(s, u, t) ==
    sessions' = [sessions EXCEPT ![s] =
        [user |-> u, tenant |-> t, csrf |-> 0, lastSeen |-> clock,
         expires |-> clock + Idle, revoked |-> FALSE, epoch |-> epoch]]

LoginCreate(r) ==
    /\ req[r].op = "login"
    /\ LET u == req[r].user IN
       \/ \E t \in LoginTenants(u, req[r].tenant), s \in SessionIds :
             /\ ~Born(s) /\ Cardinality({x \in SessionIds : Born(x)}) < load.logins
             /\ CreateSession(s, u, t)
             /\ lastUse' = [lastUse EXCEPT ![s] = clock]
             /\ proof' = [proof EXCEPT ![s] = req[r].pw]
       \/ LoginTenants(u, req[r].tenant) = {} /\ UNCHANGED <<sessions, lastUse, proof>>
    /\ Done(r)
    /\ UNCHANGED <<users, tenants, memberships, env, everAdmin>>

-----------------------------------------------------------------------------
(* The session middleware *)

(* ValidateSession: the row is found under this process's key, not         *)
(* revoked, not expired, of an active user in an active tenant.            *)
Valid(s) ==
    /\ Born(s)
    /\ sessions[s].epoch = epoch
    /\ ~sessions[s].revoked
    /\ clock <= sessions[s].expires
    /\ users[sessions[s].user].status = "active"
    /\ tenants[sessions[s].tenant] = "active"

\* The session has not been refreshed for longer than the refresh window.
Stale(s) == clock - sessions[s].lastSeen > Refresh

(* SessionMiddleware with ValidateSession and the permission checks of the *)
(* route: SessionInfo is what the handler sees from now on.  Platform      *)
(* routes need is_platform_admin, tenant routes an active membership with  *)
(* the permission, both a password that need not be changed.  A request    *)
(* with a stale session must still write the new expiry.                   *)
Accept(r, s, op, arg) ==
    /\ req[r] = Idling
    /\ Valid(s)
    /\ LET u == sessions[s].user
           t == sessions[s].tenant IN
       /\ op \in AdminOps => users[u].admin /\ ~users[u].mustChange
       /\ op \in TenantOps => memberships[u, t] = "active" /\ ~users[u].mustChange
       /\ Goes(r, [op |-> op, arg |-> arg, sid |-> s, user |-> u, tenant |-> t,
                   admin |-> users[u].admin, pc |-> IF Stale(s) THEN "refresh" ELSE "run"])
    /\ lastUse' = [lastUse EXCEPT ![s] = clock]
    /\ UNCHANGED <<users, tenants, memberships, sessions, env, proof, everAdmin>>

At(r, ops, pc) == req[r].op \in ops /\ req[r].pc = pc

RefreshSession_Revives(r) ==
    /\ At(r, Ops, "refresh")
    /\ sessions' = [sessions EXCEPT ![req[r].sid].lastSeen = clock,
                                    ![req[r].sid].revoked = FALSE,
                                    ![req[r].sid].expires = clock + Idle]
    /\ lastUse' = [lastUse EXCEPT ![req[r].sid] = clock]
    /\ Goes(r, [req[r] EXCEPT !.pc = "run"])
    /\ UNCHANGED <<users, tenants, memberships, env, proof, everAdmin>>

(* The refresh: an UPDATE by session ID alone, after the SELECT that found *)
(* the session valid.                                                      *)
RefreshSession(r) ==
    /\ At(r, Ops, "refresh")
    /\ sessions' = [sessions EXCEPT ![req[r].sid].lastSeen = clock,
                                    ![req[r].sid].expires = clock + Idle]
    /\ lastUse' = [lastUse EXCEPT ![req[r].sid] = clock]
    /\ Goes(r, [req[r] EXCEPT !.pc = "run"])
    /\ UNCHANGED <<users, tenants, memberships, env, proof, everAdmin>>

-----------------------------------------------------------------------------
(* The session's own requests *)

HandleLogout(r) ==
    /\ At(r, {"logout"}, "run")
    /\ sessions' = [sessions EXCEPT ![req[r].sid].revoked = TRUE]
    /\ Done(r)
    /\ UNCHANGED <<users, tenants, memberships, env, aux>>

(* /me draws a new CSRF secret, so that a reloaded page has one.           *)
HandleMe(r) ==
    /\ At(r, {"me"}, "run")
    /\ LET s == sessions[req[r].sid] IN
       sessions' = IF s.revoked \/ s.csrf = MaxCsrf THEN sessions
                   ELSE [sessions EXCEPT ![req[r].sid].csrf = @ + 1]
    /\ Done(r)
    /\ UNCHANGED <<users, tenants, memberships, env, aux>>

(* The current password is verified against the hash read now ...          *)
ChangePasswordVerify(r) ==
    /\ At(r, {"password"}, "run")
    /\ \/ req[r].arg = users[req[r].user].pw /\ Goes(r, [req[r] EXCEPT !.pc = "update"])
       \/ req[r].arg # users[req[r].user].pw /\ Done(r)
    /\ UNCHANGED <<users, tenants, memberships, sessions, env, aux>>

(* ... the new hash is written ...                                         *)
ChangePasswordUpdate(r) ==
    /\ At(r, {"password"}, "update")
    /\ users[req[r].user].pw < MaxPassword
    /\ users' = [users EXCEPT ![req[r].user].pw = @ + 1, ![req[r].user].mustChange = FALSE]
    /\ proof' = [proof EXCEPT ![req[r].sid] = users[req[r].user].pw + 1]
    /\ Goes(r, [req[r] EXCEPT !.pc = "revoke"])
    /\ UNCHANGED <<tenants, memberships, sessions, env, lastUse, everAdmin>>

RevokeUserSessions_KeepsOthers(u, except) ==
    [s \in SessionIds |-> IF s = except THEN [sessions[s] EXCEPT !.revoked = TRUE] ELSE sessions[s]]

\* The sessions after RevokeUserSessions(u, except).
RevokeUserSessions(u, except) ==
    [s \in SessionIds |-> IF Born(s) /\ sessions[s].user = u /\ s # except
                          THEN [sessions[s] EXCEPT !.revoked = TRUE] ELSE sessions[s]]

(* ... and the user's other sessions are revoked; an error is only logged. *)
ChangePasswordRevoke(r) ==
    /\ At(r, {"password"}, "revoke")
    /\ \/ sessions' = RevokeUserSessions(req[r].user, req[r].sid) /\ UNCHANGED dbErrors
       \/ dbErrors < MaxDbErrors /\ dbErrors' = dbErrors + 1 /\ UNCHANGED sessions
    /\ Done(r)
    /\ UNCHANGED <<load, users, tenants, memberships, clock, epoch, cliResets, aux>>

SwitchAllowed_Anyone(r, t) == tenants[t] = "active"

(* A platform admin (as of the SELECT of the session) enters any active    *)
(* tenant, another user one with an active membership.                     *)
SwitchAllowed(r, t) ==
    /\ req[r].admin \/ memberships[req[r].user, t] = "active"
    /\ tenants[t] = "active"

HandleSwitchTenant_SeenNow(r) ==
    /\ At(r, {"switch"}, "run")
    /\ sessions' = IF SwitchAllowed(r, req[r].arg)
                   THEN [sessions EXCEPT ![req[r].sid].tenant = req[r].arg,
                                         ![req[r].sid].lastSeen = clock]
                   ELSE sessions
    /\ Done(r)
    /\ UNCHANGED <<users, tenants, memberships, env, aux>>

(* last_seen_at is written as datetime('now').                             *)
HandleSwitchTenant(r) ==
    /\ At(r, {"switch"}, "run")
    /\ sessions' = IF SwitchAllowed(r, req[r].arg)
                   THEN [sessions EXCEPT ![req[r].sid].tenant = req[r].arg,
                                         ![req[r].sid].lastSeen = ZeroTime]
                   ELSE sessions
    /\ Done(r)
    /\ UNCHANGED <<users, tenants, memberships, env, aux>>

-----------------------------------------------------------------------------
(* Platform administration *)

\* username is UNIQUE: an existing user answers 409.
HandleCreateUser(r) ==
    /\ At(r, {"create-user"}, "run")
    /\ users' = IF users[req[r].arg].status = "none"
                THEN [users EXCEPT ![req[r].arg].status = "active"] ELSE users
    /\ Done(r)
    /\ UNCHANGED <<tenants, memberships, sessions, env, aux>>

\* The active platform admins besides u.
OtherAdmins(u) == {v \in Users : users[v].admin /\ users[v].status = "active"} \ {u}

HandleUpdateUserPromote(r) ==
    /\ At(r, {"promote"}, "run")
    /\ users' = [users EXCEPT ![req[r].arg].admin = @ \/ users[req[r].arg].status # "none"]
    /\ everAdmin' = everAdmin \cup {req[r].arg}
    /\ Done(r)
    /\ UNCHANGED <<tenants, memberships, sessions, env, lastUse, proof>>

(* The count of the other active platform admins, for a demotion and for   *)
(* the disabling of a platform admin.                                      *)
LastAdminCheck(r) ==
    /\ At(r, {"demote", "disable-user"}, "run")
    /\ \/ /\ \/ req[r].op = "disable-user" /\ ~users[req[r].arg].admin
             \/ OtherAdmins(req[r].arg) # {}
          /\ Goes(r, [req[r] EXCEPT !.pc = "update"])
       \/ /\ req[r].op = "demote" \/ users[req[r].arg].admin
          /\ OtherAdmins(req[r].arg) = {}
          /\ Done(r)
    /\ UNCHANGED <<users, tenants, memberships, sessions, env, aux>>

(* HandleDisableUser does not look at the error of its SELECT: a failed     *)
(* read of is_platform_admin leaves 0, and the count is left out.          *)
AdminLookupFails(r) ==
    /\ At(r, {"disable-user"}, "run")
    /\ dbErrors < MaxDbErrors /\ dbErrors' = dbErrors + 1
    /\ Goes(r, [req[r] EXCEPT !.pc = "update"])
    /\ UNCHANGED <<load, users, tenants, memberships, sessions, clock, epoch, cliResets, aux>>

HandleUpdateUserDemote(r) ==
    /\ At(r, {"demote"}, "update")
    /\ users' = [users EXCEPT ![req[r].arg].admin = FALSE]
    /\ Done(r)
    /\ UNCHANGED <<tenants, memberships, sessions, env, aux>>

DisableUserUpdate(r) ==
    /\ At(r, {"disable-user"}, "update")
    /\ users' = [users EXCEPT ![req[r].arg].status =
                     IF @ = "none" THEN "none" ELSE "disabled"]
    /\ Goes(r, [req[r] EXCEPT !.pc = "revoke"])
    /\ UNCHANGED <<tenants, memberships, sessions, env, aux>>

ResetPasswordUpdate(r) ==
    /\ At(r, {"reset"}, "run")
    /\ users[req[r].arg].pw < MaxPassword
    /\ users' = [users EXCEPT ![req[r].arg].pw = @ + 1, ![req[r].arg].mustChange = TRUE]
    /\ Goes(r, [req[r] EXCEPT !.pc = "revoke"])
    /\ UNCHANGED <<tenants, memberships, sessions, env, aux>>

(* The last statement of disable and reset; its error is not looked at.    *)
AdminRevoke(r) ==
    /\ At(r, {"disable-user", "reset"}, "revoke")
    /\ \/ sessions' = RevokeUserSessions(req[r].arg, "none") /\ UNCHANGED dbErrors
       \/ dbErrors < MaxDbErrors /\ dbErrors' = dbErrors + 1 /\ UNCHANGED sessions
    /\ Done(r)
    /\ UNCHANGED <<load, users, tenants, memberships, clock, epoch, cliResets, aux>>

DisableTenantUpdate(r) ==
    /\ At(r, {"disable-tenant"}, "run")
    /\ tenants' = [tenants EXCEPT ![req[r].arg] = "disabled"]
    /\ Goes(r, [req[r] EXCEPT !.pc = "revoke"])
    /\ UNCHANGED <<users, memberships, sessions, env, aux>>

DisableTenantRevoke(r) ==
    /\ At(r, {"disable-tenant"}, "revoke")
    /\ sessions' = [s \in SessionIds |-> IF Born(s) /\ sessions[s].tenant = req[r].arg
                                         THEN [sessions[s] EXCEPT !.revoked = TRUE]
                                         ELSE sessions[s]]
    /\ Done(r)
    /\ UNCHANGED <<users, tenants, memberships, env, aux>>

(* Only a membership of the session's tenant; sessions are left alone.     *)
HandleDisableMembership(r) ==
    /\ At(r, {"disable-membership"}, "run")
    /\ LET m == <<req[r].arg, req[r].tenant>> IN
       memberships' = IF memberships[m] = "none" THEN memberships
                      ELSE [memberships EXCEPT ![m] = "disabled"]
    /\ Done(r)
    /\ UNCHANGED <<users, tenants, sessions, env, aux>>

-----------------------------------------------------------------------------
(* The server and its surroundings *)

(* --reset-admin-password: a process of its own on the same database.      *)
CliResetPassword ==
    /\ cliResets < MaxCliResets /\ users[BootstrapAdmin].pw < MaxPassword
    /\ cliResets' = cliResets + 1
    /\ users' = [users EXCEPT ![BootstrapAdmin].pw = @ + 1, ![BootstrapAdmin].mustChange = TRUE]
    /\ UNCHANGED <<load, tenants, memberships, sessions, req, clock, epoch, dbErrors, aux>>

(* NewSessionStore draws a new key, the running requests are gone, and     *)
(* InitBootstrap finds everything it would insert.                         *)
ServerRestart ==
    /\ epoch < MaxRestarts
    /\ epoch' = epoch + 1
    /\ req' = [r \in Requests |-> Idling]
    /\ UNCHANGED <<load, users, tenants, memberships, sessions, clock, dbErrors, cliResets, aux>>

Tick ==
    /\ clock + 1 \in Times
    /\ clock' = clock + 1
    /\ UNCHANGED <<load, users, tenants, memberships, sessions, req, epoch, dbErrors, cliResets, aux>>

\* The argument of a request: a password version, a tenant or a user.
Args(op) == CASE op \in {"logout", "me"} -> {"none"}
              [] op = "password" -> 0..MaxPassword
              [] op \in {"switch", "disable-tenant"} -> Tenants
              [] OTHER -> load.users

Begin(r) ==
  /\ Cardinality({x \in Requests : req[x] # Idling}) < load.slots
  /\ \/ \E u \in Users, t \in Tenants \cup {"auto"} : LoginVerify(r, u, t)
     \/ \E s \in SessionIds, op \in Ops : \E arg \in Args(op) : Accept(r, s, op, arg)

Step(r) ==
    \/ LoginCreate(r)
    \/ RefreshSession(r)
    \/ HandleLogout(r) \/ HandleMe(r) \/ HandleSwitchTenant(r)
    \/ ChangePasswordVerify(r) \/ ChangePasswordUpdate(r) \/ ChangePasswordRevoke(r)
    \/ HandleCreateUser(r) \/ HandleUpdateUserPromote(r)
    \/ LastAdminCheck(r) \/ AdminLookupFails(r) \/ HandleUpdateUserDemote(r) \/ DisableUserUpdate(r)
    \/ ResetPasswordUpdate(r) \/ AdminRevoke(r)
    \/ DisableTenantUpdate(r) \/ DisableTenantRevoke(r)
    \/ HandleDisableMembership(r)

Next ==
    \/ \E r \in Requests : Begin(r) \/ Step(r)
    \/ CliResetPassword
    \/ ServerRestart
    \/ Tick

Spec == Init /\ [][Next]_vars

-----------------------------------------------------------------------------
(* Properties *)

\* A change or reset of u's password that has not revoked sessions yet.
Settling(u) == \E r \in Requests :
    /\ req[r].op \in {"password", "reset"} /\ req[r].pc = "revoke"
    /\ u = IF req[r].op = "reset" THEN req[r].arg ELSE req[r].user

\* Requests do not overlap, and no revocation failed or was left out.
Sequential == load.slots = 1 /\ dbErrors = 0 /\ cliResets = 0

(* Once HandleChangePassword or HandleResetPassword has finished, every    *)
(* session that ValidateSession accepts was opened, or confirmed by the    *)
(* change itself, with the user's present password.  A login that verified *)
(* the old password before the change and opens its session after it, a    *)
(* failed RevokeUserSessions and --reset-admin-password break this.        *)
OldPasswordLocksOut ==
    Sequential => \A s \in SessionIds :
        Valid(s) /\ ~Settling(sessions[s].user) => proof[s] = users[sessions[s].user].pw

(* HandleUpdateUser and HandleDisableUser never leave the system without   *)
(* an active platform admin when they run one at a time and no statement   *)
(* fails; the count and the write are not one transaction, and the error   *)
(* of the look-up before the count is ignored.                             *)
AdminRemains ==
    load.slots = 1 /\ load.dbErrors = 0 =>
        \E u \in Users : users[u].admin /\ users[u].status = "active"

(* A session that was revoked, or that was opened before a restart of the  *)
(* server, is never accepted again, whatever UPDATE of a request that had  *)
(* read it earlier comes after that.                                       *)
EndedStaysEnded ==
    [][\A s \in SessionIds :
          Born(s) /\ (sessions[s].revoked \/ sessions[s].epoch # epoch) => ~Valid(s)']_vars

(* The sliding expiration of ValidateSession: counted from its last use a  *)
(* session lives at least Idle - Refresh and at most Idle, also when the   *)
(* tenant was switched and when requests refresh it at the same time.      *)
SlidingWindow ==
    \A s \in SessionIds :
        /\ Born(s) => sessions[s].expires <= lastUse[s] + Idle
        /\ Valid(s) /\ (\A r \in Requests : req[r].op \in Ops /\ req[r].sid = s => req[r].pc # "refresh")
           => sessions[s].expires + Refresh >= lastUse[s] + Idle

(* A session ValidateSession accepts is in a tenant its user has been a    *)
(* member of, unless the user has been a platform admin: neither login nor *)
(* HandleSwitchTenant lets a regular user into another tenant.             *)
TenantEntitled ==
    \A s \in SessionIds :
        Valid(s) => \/ memberships[sessions[s].user, sessions[s].tenant] # "none"
                    \/ sessions[s].user \in everAdmin

(* The invariant of the sessions: types, TenantEntitled (the tenants that  *)
(* login and HandleSwitchTenant let users into) and AdminRemains.          *)
SessionsInv == TypeOK /\ TenantEntitled /\ AdminRemains
=============================================================================
