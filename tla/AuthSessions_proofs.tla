------------------------- MODULE AuthSessions_proofs -------------------------
(***************************************************************************)
(* What the session store guarantees for every set of users, tenants,      *)
(* sessions and overlapping requests: ended sessions stay ended, the       *)
(* sliding window holds, nobody enters a foreign tenant.  With one request *)
(* at a time, an admin remains and an old password locks out.              *)
(***************************************************************************)
EXTENDS AuthSessions, FiniteSetTheorems, TLAPS

-----------------------------------------------------------------------------
(* The inductive invariant, part by part.                                  *)

(* What a request in flight has read: a login the user and the version of  *)
(* the password it verified, the others what SessionMiddleware passes on.  *)
ArgValues == UNION {Args(op) : op \in AllOps}
LoginRequests ==
    [op: {"login"}, user: Users, tenant: Tenants \cup {"auto"}, pw: 0..MaxPassword]
SessionRequests ==
    [op: AllOps, arg: ArgValues, sid: SessionIds, user: Users, tenant: Tenants,
     admin: BOOLEAN, pc: {"refresh", "run", "update", "revoke"}]

(* Types, also of the slots and of the auxiliary variables.                *)
Types ==
    /\ TypeOK
    /\ sessions \in [SessionIds -> SessionRows \cup {Unborn}]
    /\ req \in [Requests -> LoginRequests \cup SessionRequests \cup {Idling}]
    /\ lastUse \in [SessionIds -> Nat]
    /\ everAdmin \subseteq Users

(* The session of a request is still there and still its user's, and who   *)
(* was taken for a platform admin has been one.                            *)
RequestFacts ==
    \A r \in Requests : req[r].op \in AllOps =>
        /\ req[r].op \in Ops /\ req[r].arg \in Args(req[r].op)
        /\ Born(req[r].sid) /\ sessions[req[r].sid].user = req[r].user
        /\ req[r].admin => req[r].user \in everAdmin

(* A row: its key is of this process or an earlier one; its expiry was     *)
(* written together with last_seen_at, which a switch of the tenant spoils;*)
(* nothing is used in the future; and its tenant is one the user may enter.*)
SessionFacts ==
    \A s \in SessionIds : Born(s) =>
        /\ sessions[s].epoch <= epoch
        /\ sessions[s].lastSeen = ZeroTime \/ sessions[s].expires = sessions[s].lastSeen + Idle
        /\ sessions[s].expires <= lastUse[s] + Idle /\ lastUse[s] <= clock
        /\ \/ memberships[sessions[s].user, sessions[s].tenant] # "none"
           \/ sessions[s].user \in everAdmin

(* Platform admins are recorded.                                           *)
AdminFacts == \A u \in Users : users[u].admin => u \in everAdmin

(* No request still has to write the new expiry of s.                      *)
NoRefresh(s) == \A r \in Requests : req[r].op \in Ops /\ req[r].sid = s => req[r].pc # "refresh"

(* The lower end of the sliding window, also for sessions that are not     *)
(* valid for another reason than the key.                                  *)
Window ==
    \A s \in SessionIds :
        Born(s) /\ sessions[s].epoch = epoch /\ NoRefresh(s)
           => sessions[s].expires + Refresh >= lastUse[s] + Idle

(* With one slot there is at most one request.                             *)
Alone ==
    load.slots = 1 => \A q, r \in Requests : req[q] # Idling /\ req[r] # Idling => q = r

(* Then the count of the other admins still holds at the write.            *)
LastAdmin ==
    load.slots = 1 /\ load.dbErrors = 0 =>
        /\ \E u \in Users : users[u].admin /\ users[u].status = "active"
        /\ \A r \in Requests : At(r, {"demote"}, "update") => OtherAdmins(req[r].arg) # {}
        /\ \A r \in Requests : At(r, {"disable-user"}, "update") =>
              ~users[req[r].arg].admin \/ OtherAdmins(req[r].arg) # {}

(* And a session that is neither revoked nor of an older key shows the     *)
(* present password, unless its revocation is on the way; a login in       *)
(* flight verified the present one; and the session that changes the       *)
(* password, which is not revoked, has shown it.                           *)
Passwords ==
    Sequential =>
        /\ \A s \in SessionIds :
              Born(s) /\ ~sessions[s].revoked /\ sessions[s].epoch = epoch /\ ~Settling(sessions[s].user)
                => proof[s] = users[sessions[s].user].pw
        /\ \A r \in Requests : req[r].op = "login" => req[r].pw = users[req[r].user].pw
        /\ \A r \in Requests : At(r, {"password"}, "revoke") =>
              proof[req[r].sid] = users[req[r].user].pw

Core == Types /\ RequestFacts /\ SessionFacts /\ AdminFacts /\ Window /\ Alone
IndInv == Core /\ LastAdmin /\ Passwords

(* The lengths and bounds of a workload are numbers.                       *)
LEMMA LoadType ==
    ASSUME load \in Workloads
    PROVE  /\ Ops \subseteq AllOps /\ load.users \subseteq Users
           /\ load.slots \in Nat /\ MaxTime \in Nat /\ MaxPassword \in Nat /\ MaxCsrf \in Nat
           /\ MaxRestarts \in Nat /\ MaxDbErrors \in Nat /\ MaxCliResets \in Nat
BY AuthAssumption DEF WorkloadType, Ops, MaxTime, MaxPassword, MaxCsrf, MaxRestarts, MaxDbErrors,
   MaxCliResets

(* The workload is fixed, and with it every bound.                         *)
LEMMA SameBounds ==
    ASSUME load' = load
    PROVE  /\ Ops' = Ops /\ Times' = Times /\ MaxRestarts' = MaxRestarts
           /\ MaxDbErrors' = MaxDbErrors /\ MaxCliResets' = MaxCliResets /\ MaxPassword' = MaxPassword
           /\ UserRows' = UserRows /\ SessionRows' = SessionRows
           /\ LoginRequests' = LoginRequests /\ SessionRequests' = SessionRequests
           /\ \A op \in AllOps : Args(op)' = Args(op)
BY DEF Ops, Times, MaxTime, MaxRestarts, MaxDbErrors, MaxCliResets, MaxPassword, MaxCsrf, UserRows,
       SessionRows, LoginRequests, SessionRequests, ArgValues, Args

(* Slots: a request of a session, a login, or nothing.                     *)
LEMMA Kinds ==
    ASSUME Types, NEW r \in Requests
    PROVE  /\ req[r].op \in AllOps => req[r] \in SessionRequests /\ req[r] # Idling
           /\ req[r].op = "login" => req[r] \in LoginRequests /\ req[r] # Idling
           /\ req[r] # Idling => req[r].op \in AllOps \cup {"login"}
<1>1. req[r] \in LoginRequests \cup SessionRequests \cup {Idling}
  BY DEF Types
<1>2. Idling.op = "none" /\ \A q \in LoginRequests : q.op = "login"
  BY DEF Idling, LoginRequests
<1>3. \A q \in SessionRequests : q.op \in AllOps
  BY DEF SessionRequests
<1>4. "none" \notin AllOps \cup {"login"} /\ "login" \notin AllOps
  BY DEF AllOps, SessionOps, AdminOps, TenantOps
<1> QED
  BY <1>1, <1>2, <1>3, <1>4

(* Rows of sessions.                                                       *)
LEMMA BornRow ==
    ASSUME Types, NEW s \in SessionIds
    PROVE  Born(s) => sessions[s] \in SessionRows
BY DEF Types, Born

(* A row of the table is not the absence of one.                           *)
LEMMA RowIsBorn == \A row \in SessionRows : row # Unborn
<1>1. \A row \in SessionRows : "tenant" \in DOMAIN row
  BY DEF SessionRows
<1>2. "tenant" \notin DOMAIN Unborn
  BY DEF Unborn
<1> QED
  BY <1>1, <1>2

(* The type invariant after a step, from the types of the new values.      *)
LEMMA TypesStep ==
    ASSUME Types, load' = load,
           users' \in [Users -> UserRows],
           tenants' \in [Tenants -> {"active", "disabled"}],
           memberships' \in [Users \X Tenants -> {"none", "active", "disabled"}],
           sessions' \in [SessionIds -> SessionRows \cup {Unborn}],
           req' \in [Requests -> LoginRequests \cup SessionRequests \cup {Idling}],
           clock' \in Times, epoch' \in 0..MaxRestarts,
           dbErrors' \in 0..MaxDbErrors, cliResets' \in 0..MaxCliResets,
           proof' \in [SessionIds -> 0..MaxPassword],
           lastUse' \in [SessionIds -> Nat], everAdmin' \subseteq Users
    PROVE  Types'
<1>1. \A r \in Requests : req'[r].op \in {"none", "login"} \cup AllOps
  <2>1. Idling.op = "none" /\ \A q \in LoginRequests : q.op = "login"
    BY DEF Idling, LoginRequests
  <2>2. \A q \in SessionRequests : q.op \in AllOps
    BY DEF SessionRequests
  <2> QED
    BY <2>1, <2>2
<1>2. \A s \in SessionIds : Born(s)' => sessions'[s] \in SessionRows'
  BY SameBounds DEF Born
<1>3. TypeOK'
  BY <1>1, <1>2, SameBounds DEF Types, TypeOK
<1> QED
  BY <1>3, SameBounds DEF Types

-----------------------------------------------------------------------------
(* Shapes of steps.                                                        *)

(* A request of a session ends or goes on to another of its statements.    *)
Moves(r) ==
    \/ Done(r)
    \/ \E p \in {"run", "update", "revoke"} : Goes(r, [req[r] EXCEPT !.pc = p])

(* The request that goes on is the same, and no other slot changes.        *)
LEMMA MovesFacts ==
    ASSUME Types, NEW r \in Requests, req[r].op \in AllOps, Moves(r)
    PROVE  /\ req' \in [Requests -> LoginRequests \cup SessionRequests \cup {Idling}]
           /\ \A q \in Requests : q # r => req'[q] = req[q]
           /\ \/ Done(r) /\ req'[r] = Idling
              \/ /\ req'[r] \in SessionRequests /\ req'[r].pc \in {"run", "update", "revoke"}
                 /\ req'[r].op = req[r].op /\ req'[r].arg = req[r].arg /\ req'[r].sid = req[r].sid
                 /\ req'[r].user = req[r].user /\ req'[r].tenant = req[r].tenant
                 /\ req'[r].admin = req[r].admin
<1>0. req[r] \in SessionRequests /\ req \in [Requests -> LoginRequests \cup SessionRequests \cup {Idling}]
  BY Kinds DEF Types
<1>1. CASE Done(r)
  BY <1>0, <1>1 DEF Done
<1>2. ASSUME NEW p \in {"run", "update", "revoke"}, Goes(r, [req[r] EXCEPT !.pc = p])
      PROVE  /\ req' \in [Requests -> LoginRequests \cup SessionRequests \cup {Idling}]
             /\ \A q \in Requests : q # r => req'[q] = req[q]
             /\ req'[r] \in SessionRequests /\ req'[r].pc = p
             /\ req'[r].op = req[r].op /\ req'[r].arg = req[r].arg /\ req'[r].sid = req[r].sid
             /\ req'[r].user = req[r].user /\ req'[r].tenant = req[r].tenant
             /\ req'[r].admin = req[r].admin
  <2> DEFINE new == [req[r] EXCEPT !.pc = p]
  <2>1. /\ new \in SessionRequests /\ new.pc = p
        /\ new.op = req[r].op /\ new.arg = req[r].arg /\ new.sid = req[r].sid
        /\ new.user = req[r].user /\ new.tenant = req[r].tenant /\ new.admin = req[r].admin
    BY <1>0 DEF SessionRequests
  <2>2. req' = [req EXCEPT ![r] = new]
    BY <1>2 DEF Goes
  <2> HIDE DEF new
  <2> QED
    BY <1>0, <2>1, <2>2
<1> QED
  BY <1>1, <1>2 DEF Moves

(* What a statement of a handler may do to the rows of sessions: it opens  *)
(* none, changes neither user nor key nor expiry, revives none, and leaves *)
(* last_seen_at alone or unreadable.                                       *)
RowsKept ==
    /\ sessions' \in [SessionIds -> SessionRows \cup {Unborn}]
    /\ \A s \in SessionIds :
          /\ Born(s)' <=> Born(s)
          /\ Born(s) =>
                /\ sessions'[s].user = sessions[s].user /\ sessions'[s].epoch = sessions[s].epoch
                /\ sessions'[s].expires = sessions[s].expires
                /\ sessions[s].revoked => sessions'[s].revoked
                /\ sessions'[s].lastSeen \in {sessions[s].lastSeen, ZeroTime}
                /\ \/ sessions'[s].tenant = sessions[s].tenant
                   \/ memberships'[sessions[s].user, sessions'[s].tenant] # "none"
                   \/ sessions[s].user \in everAdmin'

(* Memberships and the history of admins only grow.                        *)
Grows ==
    /\ memberships' \in [Users \X Tenants -> {"none", "active", "disabled"}]
    /\ \A m \in Users \X Tenants : memberships[m] # "none" => memberships'[m] # "none"
    /\ everAdmin \subseteq everAdmin' /\ everAdmin' \subseteq Users

(* A statement of a handler, after the refresh: the part of the invariant  *)
(* that holds for overlapping requests.                                    *)
LEMMA HandlerStep ==
    ASSUME Core, NEW r \in Requests, req[r].op \in AllOps, req[r].pc # "refresh", Moves(r),
           RowsKept, Grows,
           UNCHANGED <<load, clock, epoch, cliResets, lastUse>>,
           users' \in [Users -> UserRows], \A u \in Users : users'[u].admin => u \in everAdmin',
           tenants' \in [Tenants -> {"active", "disabled"}],
           dbErrors' \in 0..MaxDbErrors, proof' \in [SessionIds -> 0..MaxPassword]
    PROVE  Core'
<1>1. Types'
  BY TypesStep, MovesFacts DEF Core, RowsKept, Grows, Types, TypeOK
<1>2. RequestFacts'
  <2> SUFFICES ASSUME NEW q \in Requests, req'[q].op \in AllOps
               PROVE  /\ req'[q].op \in Ops' /\ (req[q].arg \in Args(req[q].op))'
                      /\ sessions'[req'[q].sid] # Unborn
                      /\ sessions'[req'[q].sid].user = req'[q].user
                      /\ req'[q].admin => req'[q].user \in everAdmin'
    BY DEF RequestFacts, Born
  <2>1. /\ req[q].op \in AllOps /\ req'[q].op = req[q].op /\ req'[q].arg = req[q].arg
        /\ req'[q].sid = req[q].sid /\ req'[q].user = req[q].user /\ req'[q].admin = req[q].admin
    <3>1. CASE q # r
      BY <3>1, MovesFacts DEF Core
    <3>2. CASE q = r
      <4>1. req'[r] # Idling
        BY <3>2 DEF Idling, AllOps, SessionOps, AdminOps, TenantOps
      <4> QED
        BY <3>2, <4>1, MovesFacts DEF Core
    <3> QED
      BY <3>1, <3>2
  <2>2. req[q].sid \in SessionIds
    BY <2>1, Kinds DEF Core, SessionRequests
  <2>3. /\ req[q].op \in Ops /\ req[q].arg \in Args(req[q].op)
        /\ Born(req[q].sid) /\ sessions[req[q].sid].user = req[q].user
        /\ req[q].admin => req[q].user \in everAdmin
    BY <2>1 DEF Core, RequestFacts
  <2>4. sessions'[req[q].sid] # Unborn /\ sessions'[req[q].sid].user = sessions[req[q].sid].user
    BY <2>2, <2>3 DEF RowsKept, Born
  <2>5. (req[q].arg \in Args(req[q].op))'
    BY <2>1, <2>3 DEF Args, MaxPassword
  <2> QED
    BY <2>1, <2>3, <2>4, <2>5, SameBounds DEF Grows
<1>3. SessionFacts'
  <2> SUFFICES ASSUME NEW s \in SessionIds, Born(s)'
               PROVE  /\ sessions'[s].epoch <= epoch'
                      /\ sessions'[s].lastSeen = ZeroTime \/ sessions'[s].expires = sessions'[s].lastSeen + Idle
                      /\ sessions'[s].expires <= lastUse'[s] + Idle /\ lastUse'[s] <= clock'
                      /\ \/ memberships'[sessions'[s].user, sessions'[s].tenant] # "none"
                         \/ sessions'[s].user \in everAdmin'
    BY DEF SessionFacts, ZeroTime
  <2>1. Born(s) /\ sessions[s] \in SessionRows
    BY BornRow DEF RowsKept, Core
  <2>2. sessions[s].user \in Users /\ sessions[s].tenant \in Tenants
    BY <2>1 DEF SessionRows
  <2>3. \/ memberships'[sessions[s].user, sessions[s].tenant] # "none"
        \/ sessions[s].user \in everAdmin'
    BY <2>1, <2>2 DEF Core, SessionFacts, Grows
  <2> QED
    BY <2>1, <2>3 DEF Core, SessionFacts, RowsKept
<1>4. AdminFacts'
  BY DEF AdminFacts
<1>5. Window'
  <2> SUFFICES ASSUME NEW s \in SessionIds, Born(s)', sessions'[s].epoch = epoch', NoRefresh(s)'
               PROVE  sessions'[s].expires + Refresh >= lastUse'[s] + Idle
    BY DEF Window
  <2>1. NoRefresh(s)
    BY MovesFacts, SameBounds DEF NoRefresh, Core
  <2> QED
    BY <2>1 DEF Core, Window, RowsKept
<1>6. Alone'
  BY MovesFacts, Kinds DEF Core, Alone
<1> QED
  BY <1>1, <1>2, <1>3, <1>4, <1>5, <1>6 DEF Core

(* With one slot the other slots are empty.                                *)
LEMMA OnlyMover ==
    ASSUME Core, NEW r \in Requests, req[r].op \in AllOps, Moves(r), load.slots = 1
    PROVE  \A q \in Requests : (req[q] # Idling \/ req'[q] # Idling) => q = r
BY MovesFacts, Kinds DEF Core, Alone

(* A statement that takes the role or the status of no active admin.       *)
LEMMA AdminsStay ==
    ASSUME Core, LastAdmin, NEW r \in Requests, req[r].op \in AllOps, Moves(r), load' = load,
           \A u \in Users : users[u].admin /\ users[u].status = "active"
                              => users'[u].admin /\ users'[u].status = "active",
           \/ req'[r] = Idling \/ req'[r].pc # "update"
           \/ req[r].op \notin {"demote", "disable-user"}
    PROVE  LastAdmin'
<1> SUFFICES ASSUME load.slots = 1 /\ load.dbErrors = 0
             PROVE  /\ \E u \in Users : users'[u].admin /\ users'[u].status = "active"
                    /\ \A q \in Requests : ~At(q, {"demote"}, "update")' /\ ~At(q, {"disable-user"}, "update")'
  BY DEF LastAdmin
<1>1. \E u \in Users : users'[u].admin /\ users'[u].status = "active"
  BY DEF LastAdmin
<1>2. \A q \in Requests : q # r => req'[q] = Idling
  BY OnlyMover
<1>3. Idling.op = "none"
  BY DEF Idling
<1>4. req'[r] = Idling \/ (req'[r].op = req[r].op)
  BY MovesFacts DEF Core
<1> QED
  BY <1>1, <1>2, <1>3, <1>4 DEF At

(* A statement that changes no password and neither begins nor ends a      *)
(* revocation after a change.                                              *)
LEMMA PasswordsStay ==
    ASSUME Core, Passwords, NEW r \in Requests, req[r].op \in AllOps, Moves(r), RowsKept,
           UNCHANGED <<load, epoch, dbErrors, cliResets, proof>>,
           \A u \in Users : users'[u].pw = users[u].pw,
           \/ req[r].op \notin {"password", "reset"}
           \/ req[r].pc # "revoke" /\ (req'[r] = Idling \/ req'[r].pc # "revoke")
    PROVE  Passwords'
<1> SUFFICES ASSUME Sequential
             PROVE  /\ \A s \in SessionIds :
                          Born(s)' /\ ~sessions'[s].revoked /\ sessions'[s].epoch = epoch'
                            => proof'[s] = users'[sessions'[s].user].pw
                    /\ \A q \in Requests : req'[q].op # "login"
                    /\ \A q \in Requests : ~At(q, {"password"}, "revoke")'
  BY DEF Passwords, Sequential
<1>1. \A q \in Requests : req[q] # Idling \/ req'[q] # Idling => q = r
  BY OnlyMover DEF Sequential
<1>2. Idling.op = "none" /\ "login" \notin AllOps
  BY DEF Idling, AllOps, SessionOps, AdminOps, TenantOps
<1>3. req'[r] = Idling \/ (req'[r].op = req[r].op)
  BY MovesFacts DEF Core
<1>4. \A u : ~Settling(u)
  BY <1>1, <1>2 DEF Settling
<1>5. ASSUME NEW s \in SessionIds, Born(s)', ~sessions'[s].revoked, sessions'[s].epoch = epoch'
      PROVE  proof'[s] = users'[sessions'[s].user].pw
  <2>1. /\ Born(s) /\ ~sessions[s].revoked /\ sessions[s].epoch = epoch
        /\ sessions'[s].user = sessions[s].user
    BY <1>5 DEF RowsKept
  <2>2. sessions[s].user \in Users
    BY <2>1, BornRow DEF Core, SessionRows
  <2> QED
    BY <1>4, <2>1, <2>2 DEF Passwords
<1>6. \A q \in Requests : req'[q].op # "login" /\ ~At(q, {"password"}, "revoke")'
  BY <1>1, <1>2, <1>3 DEF At
<1> QED
  BY <1>5, <1>6

(* Rows that do not change are kept.                                       *)
LEMMA SameRows ==
    ASSUME Types, sessions' = sessions
    PROVE  RowsKept
BY DEF Types, RowsKept, Born

(* An UPDATE of the session of a request.                                  *)
LEMMA OneRow ==
    ASSUME Types, NEW s \in SessionIds, Born(s), NEW new \in SessionRows,
           sessions' = [sessions EXCEPT ![s] = new],
           new.user = sessions[s].user, new.epoch = sessions[s].epoch,
           new.expires = sessions[s].expires, sessions[s].revoked => new.revoked,
           new.lastSeen \in {sessions[s].lastSeen, ZeroTime},
           \/ new.tenant = sessions[s].tenant
           \/ memberships'[new.user, new.tenant] # "none"
           \/ new.user \in everAdmin'
    PROVE  RowsKept
<1>1. sessions \in [SessionIds -> SessionRows \cup {Unborn}]
  BY DEF Types
<1>2. \A k \in SessionIds : sessions'[k] = IF k = s THEN new ELSE sessions[k]
  BY <1>1
<1>3. new # Unborn
  BY RowIsBorn
<1> QED
  BY <1>1, <1>2, <1>3 DEF RowsKept, Born

(* UPDATE sessions SET revoked_at for the sessions S.                      *)
LEMMA RevokedRows ==
    ASSUME Types, NEW S \in SUBSET SessionIds, \A s \in S : Born(s),
           sessions' = [s \in SessionIds |->
              IF s \in S THEN [sessions[s] EXCEPT !.revoked = TRUE] ELSE sessions[s]]
    PROVE  RowsKept /\ \A s \in S : sessions'[s].revoked
<1>1. ASSUME NEW s \in SessionIds
      PROVE  /\ sessions'[s] \in SessionRows \cup {Unborn}
             /\ Born(s)' <=> Born(s)
             /\ Born(s) =>
                   /\ sessions'[s].user = sessions[s].user /\ sessions'[s].epoch = sessions[s].epoch
                   /\ sessions'[s].expires = sessions[s].expires
                   /\ sessions[s].revoked => sessions'[s].revoked
                   /\ sessions'[s].lastSeen = sessions[s].lastSeen
                   /\ sessions'[s].tenant = sessions[s].tenant
             /\ s \in S => sessions'[s].revoked
  <2>1. CASE s \in S
    <3> DEFINE old == sessions[s]
               new == [old EXCEPT !.revoked = TRUE]
    <3>1. sessions'[s] = new /\ Born(s) /\ old \in SessionRows
      BY <2>1, BornRow
    <3> HIDE DEF old
    <3>2. /\ new \in SessionRows /\ new.user = old.user /\ new.epoch = old.epoch
          /\ new.expires = old.expires /\ new.revoked = TRUE /\ new.lastSeen = old.lastSeen
          /\ new.tenant = old.tenant
      BY <3>1 DEF SessionRows
    <3>3. new # Unborn
      BY <3>2, RowIsBorn
    <3> HIDE DEF new
    <3> QED
      BY <3>1, <3>2, <3>3 DEF Born, old
  <2>2. CASE s \notin S
    BY <2>2 DEF Types, Born
  <2> QED
    BY <2>1, <2>2
<1> QED
  BY <1>1 DEF RowsKept

(* Handlers that leave memberships and the history of admins alone.        *)
LEMMA NothingGrows ==
    ASSUME Types, memberships' = memberships, everAdmin' = everAdmin
    PROVE  Grows
BY DEF Types, TypeOK, Grows

(* What a running request knows of its session.                            *)
LEMMA OfRequest ==
    ASSUME Core, NEW r \in Requests, req[r].op \in AllOps
    PROVE  /\ req[r] \in SessionRequests /\ req[r].sid \in SessionIds /\ req[r].user \in Users
           /\ req[r].arg \in Args(req[r].op) /\ Born(req[r].sid)
           /\ sessions[req[r].sid] \in SessionRows /\ sessions[req[r].sid].user = req[r].user
<1>1. req[r] \in SessionRequests /\ req[r].sid \in SessionIds /\ req[r].user \in Users
  BY Kinds DEF Core, SessionRequests
<1>2. /\ req[r].arg \in Args(req[r].op) /\ Born(req[r].sid)
      /\ sessions[req[r].sid].user = req[r].user
  BY DEF Core, RequestFacts
<1> QED
  BY <1>1, <1>2, BornRow DEF Core

(* The arguments of the administrators' requests are users, those of the   *)
(* tenants' requests tenants.                                              *)
LEMMA ArgTypes ==
    ASSUME load \in Workloads
    PROVE  /\ \A op \in {"create-user", "demote", "promote", "disable-user", "reset", "disable-membership"} :
                 Args(op) \subseteq Users
           /\ \A op \in {"switch", "disable-tenant"} : Args(op) \subseteq Tenants
BY LoadType DEF Args

-----------------------------------------------------------------------------
(* The handlers.                                                           *)

(* A request that ends with a write of sessions, and is not the last       *)
(* statement of a change of a password.                                    *)
LEMMA SessionsWritten ==
    ASSUME IndInv, NEW r \in Requests, req[r].op \in AllOps, req[r].pc # "refresh",
           req[r].op \notin {"password", "reset"}, Done(r), RowsKept,
           UNCHANGED <<users, tenants, memberships, env, aux>>
    PROVE  IndInv'
<1>1. Core /\ LastAdmin /\ Passwords /\ Types /\ Moves(r)
  BY DEF IndInv, Core, Moves
<1>2. UNCHANGED <<load, clock, epoch, cliResets, dbErrors, lastUse, proof, everAdmin, users, tenants, memberships>>
  BY DEF env, aux
<1>3. Core'
  <2>1. Grows
    BY <1>1, <1>2, NothingGrows
  <2>2. /\ users' \in [Users -> UserRows] /\ \A u \in Users : users'[u].admin => u \in everAdmin'
        /\ tenants' \in [Tenants -> {"active", "disabled"}]
        /\ dbErrors' \in 0..MaxDbErrors /\ proof' \in [SessionIds -> 0..MaxPassword]
    BY <1>1, <1>2 DEF Types, TypeOK, Core, AdminFacts
  <2> QED
    BY <1>1, <1>2, <2>1, <2>2, HandlerStep
<1>4. LastAdmin'
  <2>1. req'[r] = Idling
    BY <1>1 DEF Done, Types
  <2> QED
    BY <1>1, <1>2, <2>1, AdminsStay
<1>5. Passwords'
  BY <1>1, <1>2, PasswordsStay
<1> QED
  BY <1>3, <1>4, <1>5 DEF IndInv

(* Logout, /me, the switch of the tenant and the end of the disabling of a *)
(* tenant.                                                                 *)
LEMMA SessionHandlers ==
    ASSUME IndInv, NEW r \in Requests,
           HandleLogout(r) \/ HandleMe(r) \/ HandleSwitchTenant(r) \/ DisableTenantRevoke(r)
    PROVE  IndInv'
<1>0. Core /\ Types /\ load \in Workloads
  BY DEF IndInv, Core, Types, TypeOK
<1> DEFINE s == req[r].sid
           old == sessions[s]
<1>1. ASSUME req[r].op \in AllOps
      PROVE  s \in SessionIds /\ Born(s) /\ old \in SessionRows /\ old.user = req[r].user
  BY <1>0, <1>1, OfRequest
<1>2. CASE HandleLogout(r)
  <2>1. /\ req[r].op = "logout" /\ req[r].pc = "run" /\ Done(r)
        /\ UNCHANGED <<users, tenants, memberships, env, aux>>
        /\ sessions' = [sessions EXCEPT ![s] = [old EXCEPT !.revoked = TRUE]]
    BY <1>2 DEF HandleLogout, At
  <2>2. req[r].op \in AllOps
    BY <2>1 DEF AllOps, SessionOps
  <2>3. s \in SessionIds /\ Born(s) /\ old \in SessionRows
    BY <1>1, <2>2
  <2> DEFINE new == [old EXCEPT !.revoked = TRUE]
  <2> HIDE DEF old, s
  <2>4. /\ new \in SessionRows /\ new.user = old.user /\ new.epoch = old.epoch
        /\ new.expires = old.expires /\ new.revoked = TRUE /\ new.lastSeen = old.lastSeen
        /\ new.tenant = old.tenant
    BY <2>3 DEF SessionRows
  <2>5. sessions' = [sessions EXCEPT ![s] = new] /\ old = sessions[s]
    BY <2>1 DEF old
  <2> HIDE DEF new
  <2>6. RowsKept
    BY <1>0, <2>3, <2>4, <2>5, OneRow
  <2> QED
    BY <2>1, <2>2, <2>6, SessionsWritten
<1>3. CASE HandleMe(r)
  <2>1. /\ req[r].op = "me" /\ req[r].pc = "run" /\ Done(r)
        /\ UNCHANGED <<users, tenants, memberships, env, aux>>
        /\ \/ sessions' = sessions
           \/ old.csrf # MaxCsrf /\ sessions' = [sessions EXCEPT ![s] = [old EXCEPT !.csrf = old.csrf + 1]]
    BY <1>3 DEF HandleMe, At
  <2>2. req[r].op \in AllOps
    BY <2>1 DEF AllOps, SessionOps
  <2>3. s \in SessionIds /\ Born(s) /\ old \in SessionRows
    BY <1>1, <2>2
  <2>4. CASE sessions' = sessions
    BY <1>0, <2>1, <2>2, <2>4, SameRows, SessionsWritten
  <2>5. CASE old.csrf # MaxCsrf /\ sessions' = [sessions EXCEPT ![s] = [old EXCEPT !.csrf = old.csrf + 1]]
    <3> DEFINE new == [old EXCEPT !.csrf = old.csrf + 1]
    <3> HIDE DEF old, s
    <3>1. old.csrf + 1 \in 0..MaxCsrf
      BY <1>0, <2>3, <2>5, LoadType DEF SessionRows
    <3>2. /\ new \in SessionRows /\ new.user = old.user /\ new.epoch = old.epoch
          /\ new.expires = old.expires /\ new.revoked = old.revoked /\ new.lastSeen = old.lastSeen
          /\ new.tenant = old.tenant
      BY <2>3, <3>1 DEF SessionRows
    <3>3. sessions' = [sessions EXCEPT ![s] = new] /\ old = sessions[s]
      BY <2>5 DEF old
    <3> HIDE DEF new
    <3>4. RowsKept
      BY <1>0, <2>3, <3>2, <3>3, OneRow
    <3> QED
      BY <2>1, <2>2, <3>4, SessionsWritten
  <2> QED
    BY <2>1, <2>4, <2>5
<1>4. CASE HandleSwitchTenant(r)
  <2> DEFINE t == req[r].arg
  <2>1. /\ req[r].op = "switch" /\ req[r].pc = "run" /\ Done(r)
        /\ UNCHANGED <<users, tenants, memberships, env, aux>>
        /\ \/ sessions' = sessions
           \/ /\ SwitchAllowed(r, t)
              /\ sessions' = [sessions EXCEPT ![s] = [old EXCEPT !.tenant = t, !.lastSeen = ZeroTime]]
    BY <1>4 DEF HandleSwitchTenant, At
  <2>2. req[r].op \in AllOps
    BY <2>1 DEF AllOps, SessionOps
  <2>3. s \in SessionIds /\ Born(s) /\ old \in SessionRows /\ old.user = req[r].user
    BY <1>1, <2>2
  <2>4. CASE sessions' = sessions
    BY <1>0, <2>1, <2>2, <2>4, SameRows, SessionsWritten
  <2>5. CASE /\ SwitchAllowed(r, t)
             /\ sessions' = [sessions EXCEPT ![s] = [old EXCEPT !.tenant = t, !.lastSeen = ZeroTime]]
    <3>1. t \in Tenants
      BY <1>0, <2>1, <2>2, OfRequest, ArgTypes
    <3>2. memberships'[old.user, t] # "none" \/ old.user \in everAdmin'
      BY <1>0, <2>1, <2>2, <2>3, <2>5 DEF SwitchAllowed, Core, RequestFacts, aux
    <3> DEFINE new == [old EXCEPT !.tenant = t, !.lastSeen = ZeroTime]
    <3> HIDE DEF old, s, t
    <3>3. /\ new \in SessionRows /\ new.user = old.user /\ new.epoch = old.epoch
          /\ new.expires = old.expires /\ new.revoked = old.revoked /\ new.lastSeen = ZeroTime
          /\ new.tenant = t
      BY <2>3, <3>1 DEF SessionRows
    <3>4. sessions' = [sessions EXCEPT ![s] = new] /\ old = sessions[s]
      BY <2>5 DEF old
    <3> HIDE DEF new
    <3>5. RowsKept
      BY <1>0, <2>3, <3>2, <3>3, <3>4, OneRow
    <3> QED
      BY <2>1, <2>2, <3>5, SessionsWritten
  <2> QED
    BY <2>1, <2>4, <2>5
<1>5. CASE DisableTenantRevoke(r)
  <2> DEFINE S == {k \in SessionIds : Born(k) /\ sessions[k].tenant = req[r].arg}
  <2>1. /\ req[r].op = "disable-tenant" /\ req[r].pc = "revoke" /\ Done(r)
        /\ UNCHANGED <<users, tenants, memberships, env, aux>>
        /\ sessions' = [k \in SessionIds |->
              IF k \in S THEN [sessions[k] EXCEPT !.revoked = TRUE] ELSE sessions[k]]
    BY <1>5 DEF DisableTenantRevoke, At
  <2>2. req[r].op \in AllOps /\ S \in SUBSET SessionIds /\ \A k \in S : Born(k)
    BY <2>1 DEF AllOps, AdminOps
  <2> HIDE DEF S
  <2>3. RowsKept
    BY <1>0, <2>1, <2>2, RevokedRows
  <2> QED
    BY <2>1, <2>2, <2>3, SessionsWritten
<1> QED
  BY <1>2, <1>3, <1>4, <1>5

(* RevokeUserSessions(u, except) at the end of a change or a reset of a    *)
(* password or of the disabling of a user, or its failure.                 *)
LEMMA RevokeStep ==
    ASSUME IndInv, NEW r \in Requests, req[r].op \in {"password", "disable-user", "reset"},
           req[r].pc = "revoke", Done(r),
           NEW u \in Users, u = IF req[r].op = "password" THEN req[r].user ELSE req[r].arg,
           NEW except, except = IF req[r].op = "password" THEN req[r].sid ELSE "none",
           \/ sessions' = RevokeUserSessions(u, except) /\ UNCHANGED dbErrors
           \/ dbErrors < MaxDbErrors /\ dbErrors' = dbErrors + 1 /\ UNCHANGED sessions,
           UNCHANGED <<load, users, tenants, memberships, clock, epoch, cliResets, aux>>
    PROVE  IndInv'
<1> DEFINE S == {s \in SessionIds : Born(s) /\ sessions[s].user = u /\ s # except}
<1>0. /\ Core /\ LastAdmin /\ Passwords /\ Types /\ Moves(r) /\ load \in Workloads
      /\ req[r].op \in AllOps
  BY DEF IndInv, Core, Types, TypeOK, Moves, AllOps, SessionOps, AdminOps
<1>1. UNCHANGED <<lastUse, proof, everAdmin>>
  BY DEF aux
<1>2. RowsKept /\ (dbErrors' = dbErrors => \A s \in S : sessions'[s].revoked)
  <2>1. CASE sessions' = RevokeUserSessions(u, except)
    <3>1. /\ S \in SUBSET SessionIds /\ \A s \in S : Born(s)
          /\ sessions' = [s \in SessionIds |->
                IF s \in S THEN [sessions[s] EXCEPT !.revoked = TRUE] ELSE sessions[s]]
      BY <2>1 DEF RevokeUserSessions
    <3> HIDE DEF S
    <3> QED
      BY <1>0, <3>1, RevokedRows
  <2>2. CASE dbErrors < MaxDbErrors /\ dbErrors' = dbErrors + 1 /\ UNCHANGED sessions
    <3>1. dbErrors \in Nat
      BY <1>0, LoadType DEF Types, TypeOK
    <3> QED
      BY <1>0, <2>2, <3>1, SameRows
  <2> QED
    BY <2>1, <2>2
<1>3. dbErrors' \in 0..MaxDbErrors /\ (dbErrors' # 0 \/ (dbErrors = 0 /\ dbErrors' = dbErrors))
  BY <1>0, LoadType DEF Types, TypeOK
<1>4. Core'
  <2>1. Grows
    BY <1>0, <1>1, NothingGrows
  <2>2. /\ users' \in [Users -> UserRows] /\ \A v \in Users : users'[v].admin => v \in everAdmin'
        /\ tenants' \in [Tenants -> {"active", "disabled"}]
        /\ proof' \in [SessionIds -> 0..MaxPassword]
    BY <1>0, <1>1 DEF Types, TypeOK, Core, AdminFacts
  <2> QED
    BY <1>0, <1>1, <1>2, <1>3, <2>1, <2>2, HandlerStep
<1>5. req'[r] = Idling
  BY <1>0 DEF Done, Types
<1>6. LastAdmin'
  BY <1>0, <1>5, AdminsStay
<1>7. Passwords'
  <2> SUFFICES ASSUME Sequential, dbErrors' = dbErrors
               PROVE  /\ \A s \in SessionIds :
                            Born(s)' /\ ~sessions'[s].revoked /\ sessions'[s].epoch = epoch'
                              => proof'[s] = users'[sessions'[s].user].pw
                      /\ \A q \in Requests : req'[q].op # "login"
                      /\ \A q \in Requests : ~At(q, {"password"}, "revoke")'
    BY <1>3 DEF Passwords, Sequential
  <2>1. \A q \in Requests : (req[q] # Idling => q = r) /\ req'[q] = Idling
    BY <1>0, <1>5, OnlyMover DEF Sequential
  <2>2. Idling.op = "none"
    BY DEF Idling
  <2>3. \A v : Settling(v) => v = u
    BY <2>1, <2>2 DEF Settling
  <2>4. ASSUME NEW s \in SessionIds, Born(s)', ~sessions'[s].revoked, sessions'[s].epoch = epoch'
        PROVE  proof'[s] = users'[sessions'[s].user].pw
    <3>1. /\ Born(s) /\ ~sessions[s].revoked /\ sessions[s].epoch = epoch
          /\ sessions'[s].user = sessions[s].user
      BY <1>2, <2>4 DEF RowsKept
    <3>2. CASE sessions[s].user # u
      BY <1>0, <1>1, <2>3, <3>1, <3>2 DEF Passwords
    <3>3. CASE sessions[s].user = u
      <4>1. s = except
        BY <1>2, <2>4, <3>1, <3>3
      <4>2. req[r].op = "password" /\ s = req[r].sid /\ u = req[r].user
        BY <4>1, AuthAssumption
      <4>3. proof[s] = users[u].pw
        BY <1>0, <4>2 DEF Passwords, At
      <4> QED
        BY <1>1, <3>1, <3>3, <4>3
    <3> QED
      BY <3>2, <3>3
  <2> QED
    BY <2>1, <2>2, <2>4 DEF At
<1> QED
  BY <1>4, <1>6, <1>7 DEF IndInv

(* The two handlers that end so.                                           *)
LEMMA RevokeHandlers ==
    ASSUME IndInv, NEW r \in Requests, ChangePasswordRevoke(r) \/ AdminRevoke(r)
    PROVE  IndInv'
<1>0. Core /\ load \in Workloads
  BY DEF IndInv, Core, Types, TypeOK
<1>1. CASE ChangePasswordRevoke(r)
  <2>1. /\ req[r].op = "password" /\ req[r].pc = "revoke" /\ Done(r)
        /\ \/ sessions' = RevokeUserSessions(req[r].user, req[r].sid) /\ UNCHANGED dbErrors
           \/ dbErrors < MaxDbErrors /\ dbErrors' = dbErrors + 1 /\ UNCHANGED sessions
        /\ UNCHANGED <<load, users, tenants, memberships, clock, epoch, cliResets, aux>>
    BY <1>1 DEF ChangePasswordRevoke, At
  <2>2. req[r].user \in Users
    BY <1>0, <2>1, OfRequest DEF AllOps, SessionOps
  <2> QED
    BY <2>1, <2>2, RevokeStep
<1>2. CASE AdminRevoke(r)
  <2>1. /\ req[r].op \in {"disable-user", "reset"} /\ req[r].pc = "revoke" /\ Done(r)
        /\ \/ sessions' = RevokeUserSessions(req[r].arg, "none") /\ UNCHANGED dbErrors
           \/ dbErrors < MaxDbErrors /\ dbErrors' = dbErrors + 1 /\ UNCHANGED sessions
        /\ UNCHANGED <<load, users, tenants, memberships, clock, epoch, cliResets, aux>>
    BY <1>2 DEF AdminRevoke, At
  <2>2. req[r].arg \in Users
    <3>1. req[r].op \in AllOps
      BY <2>1 DEF AllOps, AdminOps
    <3> QED
      BY <1>0, <2>1, <3>1, OfRequest, ArgTypes
  <2> QED
    BY <2>1, <2>2, RevokeStep
<1> QED
  BY <1>1, <1>2

(* The core of the invariant for statements that leave sessions alone.     *)
LEMMA CoreOfWrite ==
    ASSUME IndInv, NEW r \in Requests, req[r].op \in AllOps, req[r].pc # "refresh", Moves(r),
           UNCHANGED <<sessions, env, lastUse>>, Grows,
           users' \in [Users -> UserRows], \A u \in Users : users'[u].admin => u \in everAdmin',
           tenants' \in [Tenants -> {"active", "disabled"}],
           proof' \in [SessionIds -> 0..MaxPassword]
    PROVE  Core' /\ RowsKept
<1>1. Core /\ Types /\ UNCHANGED <<load, clock, epoch, dbErrors, cliResets, lastUse>>
  BY DEF IndInv, Core, env
<1>2. RowsKept
  BY <1>1, SameRows
<1>3. dbErrors' \in 0..MaxDbErrors
  BY <1>1 DEF Types, TypeOK
<1> QED
  BY <1>1, <1>2, <1>3, HandlerStep

(* A new version of the password of u: the request goes on to revoke the   *)
(* sessions of u, and a session that changed its own password has shown    *)
(* the new one.                                                            *)
LEMMA NewPassword ==
    ASSUME IndInv, NEW r \in Requests, NEW u \in Users,
           \/ /\ At(r, {"password"}, "update") /\ u = req[r].user
              /\ proof' = [proof EXCEPT ![req[r].sid] = users[u].pw + 1]
           \/ /\ At(r, {"reset"}, "run") /\ u = req[r].arg
              /\ proof' = proof,
           users[u].pw < MaxPassword,
           NEW new \in UserRows, users' = [users EXCEPT ![u] = new],
           new.pw = users[u].pw + 1, new.admin = users[u].admin, new.status = users[u].status,
           Goes(r, [req[r] EXCEPT !.pc = "revoke"]),
           UNCHANGED <<tenants, memberships, sessions, env, lastUse, everAdmin>>
    PROVE  IndInv'
<1>0. /\ Core /\ LastAdmin /\ Passwords /\ Types /\ Moves(r) /\ load \in Workloads
      /\ req[r].op \in AllOps /\ req[r].pc # "refresh" /\ req[r].op \in {"password", "reset"}
      /\ req[r].pc # "revoke"
  BY DEF IndInv, Core, Types, TypeOK, Moves, At, AllOps, SessionOps, AdminOps
<1>1. UNCHANGED <<load, clock, epoch, dbErrors, cliResets>>
  BY DEF env
<1>2. \A v \in Users : users'[v] = IF v = u THEN new ELSE users[v]
  BY <1>0 DEF Types, TypeOK
<1>3. users' \in [Users -> UserRows] /\ proof' \in [SessionIds -> 0..MaxPassword]
  <2>1. users[u].pw + 1 \in 0..MaxPassword
    BY <1>0, LoadType DEF Types, TypeOK, UserRows
  <2> QED
    BY <1>0, <2>1 DEF Types, TypeOK
<1>4. Core' /\ RowsKept
  <2>1. Grows
    BY <1>0, NothingGrows
  <2>2. \A v \in Users : users'[v].admin => v \in everAdmin'
    BY <1>0, <1>2 DEF Core, AdminFacts
  <2>3. tenants' \in [Tenants -> {"active", "disabled"}]
    BY <1>0 DEF Types, TypeOK
  <2> QED
    BY <1>0, <1>3, <2>1, <2>2, <2>3, CoreOfWrite
<1>5. LastAdmin'
  BY <1>0, <1>1, <1>2, AdminsStay
<1>6. Passwords'
  <2>0. /\ req'[r].pc = "revoke" /\ req'[r].op = req[r].op /\ req'[r].sid = req[r].sid
        /\ req'[r].user = req[r].user /\ req'[r].arg = req[r].arg
    <3>1. req[r] \in SessionRequests /\ req' = [req EXCEPT ![r] = [req[r] EXCEPT !.pc = "revoke"]]
      BY <1>0, OfRequest DEF Goes
    <3>2. req'[r] = [req[r] EXCEPT !.pc = "revoke"]
      BY <1>0, <3>1 DEF Types
    <3> QED
      BY <3>1, <3>2 DEF SessionRequests
  <2> SUFFICES ASSUME Sequential
               PROVE  /\ \A s \in SessionIds :
                            (Born(s)' /\ ~sessions'[s].revoked /\ sessions'[s].epoch = epoch')
                              => Settling(sessions[s].user)' \/ proof'[s] = users'[sessions'[s].user].pw
                      /\ \A q \in Requests : req'[q].op # "login"
                      /\ At(r, {"password"}, "revoke")' =>
                            proof'[req'[r].sid] = users'[req'[r].user].pw
                      /\ \A q \in Requests : q # r => req'[q].op # "password"
    BY <1>1 DEF Passwords, Sequential, At
  <2>2. \A q \in Requests : req[q] # Idling \/ req'[q] # Idling => q = r
    BY <1>0, OnlyMover DEF Sequential
  <2>3. Idling.op = "none" /\ "login" \notin AllOps
    BY DEF Idling, AllOps, SessionOps, AdminOps, TenantOps
  <2>4. \A v : ~Settling(v)
    BY <1>0, <2>2, <2>3 DEF Settling
  <2>5. Settling(u)'
    BY <2>0 DEF Settling, At
  <2>6. ASSUME NEW s \in SessionIds, Born(s)', ~sessions'[s].revoked, sessions'[s].epoch = epoch',
               ~Settling(sessions[s].user)'
        PROVE  proof'[s] = users'[sessions'[s].user].pw
    <3>1. Born(s) /\ ~sessions[s].revoked /\ sessions[s].epoch = epoch /\ sessions' = sessions
      BY <1>1, <2>6 DEF Born
    <3>2. sessions[s].user \in Users /\ sessions[s].user # u
      <4>1. sessions[s].user \in Users
        BY <1>0, <3>1, BornRow DEF SessionRows
      <4> QED
        BY <2>5, <2>6, <3>1, <4>1
    <3>3. proof'[s] = proof[s]
      <4>1. req[r].op = "password" => sessions[req[r].sid].user = req[r].user
        BY <1>0, OfRequest
      <4> QED
        BY <1>0, <3>2, <4>1 DEF At, Types, TypeOK
    <3>4. proof[s] = users[sessions[s].user].pw
      BY <1>0, <2>4, <3>1 DEF Passwords
    <3> QED
      BY <1>2, <3>1, <3>2, <3>3, <3>4
  <2>7. At(r, {"password"}, "revoke")' => proof'[req'[r].sid] = users'[req'[r].user].pw
    <3>1. req[r].sid \in SessionIds
      BY <1>0, OfRequest
    <3> QED
      BY <1>0, <1>2, <2>0, <3>1 DEF At, Types, TypeOK
  <2> QED
    BY <1>0, <2>0, <2>2, <2>3, <2>6, <2>7
<1> QED
  BY <1>4, <1>5, <1>6 DEF IndInv

(* HandleChangePassword and HandleResetPassword.                           *)
LEMMA PasswordHandlers ==
    ASSUME IndInv, NEW r \in Requests,
           ChangePasswordVerify(r) \/ ChangePasswordUpdate(r) \/ ResetPasswordUpdate(r)
    PROVE  IndInv'
<1>0. /\ Core /\ LastAdmin /\ Passwords /\ Types /\ load \in Workloads
      /\ users \in [Users -> UserRows]
  BY DEF IndInv, Core, Types, TypeOK
<1>1. CASE ChangePasswordVerify(r)
  <2>1. /\ req[r].op = "password" /\ req[r].pc = "run"
        /\ Done(r) \/ Goes(r, [req[r] EXCEPT !.pc = "update"])
        /\ UNCHANGED <<users, tenants, memberships, sessions, env, aux>>
    BY <1>1 DEF ChangePasswordVerify, At
  <2>2. req[r].op \in AllOps /\ Moves(r)
    BY <2>1 DEF AllOps, SessionOps, Moves
  <2>3. UNCHANGED <<load, clock, epoch, dbErrors, cliResets, lastUse, proof, everAdmin, sessions>>
    BY <2>1 DEF env, aux
  <2>4. Core' /\ RowsKept
    <3>1. Grows
      BY <1>0, <2>1, <2>3, NothingGrows
    <3>2. /\ \A u \in Users : users'[u].admin => u \in everAdmin'
          /\ tenants' \in [Tenants -> {"active", "disabled"}]
          /\ proof' \in [SessionIds -> 0..MaxPassword] /\ users' \in [Users -> UserRows]
      BY <1>0, <2>1, <2>3 DEF Types, TypeOK, Core, AdminFacts
    <3> QED
      BY <2>1, <2>2, <2>3, <3>1, <3>2, CoreOfWrite
  <2>5. LastAdmin'
    BY <1>0, <2>1, <2>2, <2>3, AdminsStay
  <2>6. req'[r] = Idling \/ req'[r].pc # "revoke"
    <3>1. req[r] \in SessionRequests
      BY <1>0, <2>2, OfRequest
    <3>2. req'[r] = Idling \/ req'[r] = [req[r] EXCEPT !.pc = "update"]
      BY <1>0, <2>1 DEF Done, Goes, Types
    <3> QED
      BY <3>1, <3>2 DEF SessionRequests
  <2>7. Passwords'
    BY <1>0, <2>1, <2>2, <2>3, <2>4, <2>6, PasswordsStay
  <2> QED
    BY <2>4, <2>5, <2>7 DEF IndInv
<1>2. CASE ChangePasswordUpdate(r)
  <2>1. req[r].user \in Users
    BY <1>0, <1>2, OfRequest DEF ChangePasswordUpdate, At, AllOps, SessionOps
  <2>2. PICK u \in Users : u = req[r].user
    BY <2>1
  <2> DEFINE old == users[u]
             new == [old EXCEPT !.pw = old.pw + 1, !.mustChange = FALSE]
  <2>3. /\ At(r, {"password"}, "update") /\ old.pw < MaxPassword
        /\ users' = [users EXCEPT ![u] = new]
        /\ proof' = [proof EXCEPT ![req[r].sid] = users[u].pw + 1]
        /\ Goes(r, [req[r] EXCEPT !.pc = "revoke"])
        /\ UNCHANGED <<tenants, memberships, sessions, env, lastUse, everAdmin>>
    BY <1>2, <2>2 DEF ChangePasswordUpdate
  <2>4. old \in UserRows
    BY <1>0
  <2> HIDE DEF old
  <2>5. old.pw + 1 \in 0..MaxPassword
    BY <1>0, <2>3, <2>4, LoadType DEF UserRows
  <2>6. /\ new \in UserRows /\ new.pw = old.pw + 1 /\ new.admin = old.admin /\ new.status = old.status
    BY <2>4, <2>5 DEF UserRows
  <2> HIDE DEF new
  <2> QED
    BY <2>2, <2>3, <2>6, NewPassword DEF old
<1>3. CASE ResetPasswordUpdate(r)
  <2>1. req[r].arg \in Users
    <3>1. req[r].op = "reset" /\ req[r].op \in AllOps
      BY <1>3 DEF ResetPasswordUpdate, At, AllOps, AdminOps
    <3> QED
      BY <1>0, <3>1, OfRequest, ArgTypes
  <2>2. PICK u \in Users : u = req[r].arg
    BY <2>1
  <2> DEFINE old == users[u]
             new == [old EXCEPT !.pw = old.pw + 1, !.mustChange = TRUE]
  <2>3. /\ At(r, {"reset"}, "run") /\ old.pw < MaxPassword
        /\ users' = [users EXCEPT ![u] = new] /\ proof' = proof
        /\ Goes(r, [req[r] EXCEPT !.pc = "revoke"])
        /\ UNCHANGED <<tenants, memberships, sessions, env, lastUse, everAdmin>>
    BY <1>3, <2>2 DEF ResetPasswordUpdate, aux
  <2>4. old \in UserRows
    BY <1>0
  <2> HIDE DEF old
  <2>5. old.pw + 1 \in 0..MaxPassword
    BY <1>0, <2>3, <2>4, LoadType DEF UserRows
  <2>6. /\ new \in UserRows /\ new.pw = old.pw + 1 /\ new.admin = old.admin /\ new.status = old.status
    BY <2>4, <2>5 DEF UserRows
  <2> HIDE DEF new
  <2> QED
    BY <2>2, <2>3, <2>6, NewPassword DEF old
<1> QED
  BY <1>1, <1>2, <1>3

(* The check of a demotion or a disabling: what it establishes is what     *)
(* LastAdmin asks of the request that goes on.                             *)
LEMMA AdminCheck ==
    ASSUME IndInv, NEW r \in Requests, LastAdminCheck(r)
    PROVE  IndInv'
<1>0. /\ Core /\ LastAdmin /\ Passwords /\ Types /\ load \in Workloads
  BY DEF IndInv, Core, Types, TypeOK
<1>1. /\ req[r].op \in {"demote", "disable-user"} /\ req[r].pc = "run"
      /\ \/ /\ Goes(r, [req[r] EXCEPT !.pc = "update"])
            /\ \/ req[r].op = "disable-user" /\ ~users[req[r].arg].admin
               \/ OtherAdmins(req[r].arg) # {}
         \/ Done(r)
      /\ UNCHANGED <<users, tenants, memberships, sessions, env, aux>>
  BY DEF LastAdminCheck, At
<1>2. req[r].op \in AllOps /\ Moves(r)
  BY <1>1 DEF AllOps, AdminOps, Moves
<1>3. UNCHANGED <<load, clock, epoch, dbErrors, cliResets, lastUse, proof, everAdmin, sessions, users>>
  BY <1>1 DEF env, aux
<1>4. Core' /\ RowsKept
  <2>1. Grows
    BY <1>0, <1>1, <1>3, NothingGrows
  <2>2. /\ \A u \in Users : users'[u].admin => u \in everAdmin'
        /\ tenants' \in [Tenants -> {"active", "disabled"}]
        /\ proof' \in [SessionIds -> 0..MaxPassword] /\ users' \in [Users -> UserRows]
    BY <1>0, <1>1, <1>3 DEF Types, TypeOK, Core, AdminFacts
  <2> QED
    BY <1>1, <1>2, <1>3, <2>1, <2>2, CoreOfWrite
<1>5. Passwords'
  BY <1>0, <1>1, <1>2, <1>3, <1>4, PasswordsStay
<1>6. LastAdmin'
  <2>1. CASE Done(r)
    <3>1. req'[r] = Idling
      BY <1>0, <2>1 DEF Done, Types
    <3> QED
      BY <1>0, <1>2, <1>3, <3>1, AdminsStay
  <2>2. CASE \/ req[r].op = "disable-user" /\ ~users[req[r].arg].admin
             \/ OtherAdmins(req[r].arg) # {}
    <3> SUFFICES ASSUME load.slots = 1 /\ load.dbErrors = 0
                 PROVE  /\ \E u \in Users : users'[u].admin /\ users'[u].status = "active"
                        /\ \A q \in Requests : At(q, {"demote"}, "update")' => (OtherAdmins(req[q].arg) # {})'
                        /\ \A q \in Requests : At(q, {"disable-user"}, "update")' =>
                              (~users[req[q].arg].admin \/ OtherAdmins(req[q].arg) # {})'
      BY <1>3 DEF LastAdmin
    <3>1. \A q \in Requests : q # r => req'[q] = Idling
      BY <1>0, <1>2, OnlyMover
    <3>2. Idling.op = "none"
      BY DEF Idling
    <3>3. req'[r] = Idling \/ (req'[r].op = req[r].op /\ req'[r].arg = req[r].arg)
      BY <1>0, <1>2, MovesFacts
    <3>4. \E u \in Users : users'[u].admin /\ users'[u].status = "active"
      BY <1>0, <1>3 DEF LastAdmin
    <3> QED
      BY <1>3, <2>2, <3>1, <3>2, <3>3, <3>4 DEF At, OtherAdmins
  <2> QED
    BY <1>1, <2>1, <2>2
<1> QED
  BY <1>4, <1>5, <1>6 DEF IndInv

(* A look-up that fails counts no admins: the workload is one with errors. *)
LEMMA AdminCheckFails ==
    ASSUME IndInv, NEW r \in Requests, AdminLookupFails(r)
    PROVE  IndInv'
<1>0. /\ Core /\ LastAdmin /\ Passwords /\ Types /\ load \in Workloads
      /\ dbErrors \in 0..MaxDbErrors
  BY DEF IndInv, Core, Types, TypeOK
<1>1. /\ req[r].op = "disable-user" /\ req[r].pc = "run"
      /\ Goes(r, [req[r] EXCEPT !.pc = "update"])
      /\ dbErrors < MaxDbErrors /\ dbErrors' = dbErrors + 1
      /\ UNCHANGED <<load, users, tenants, memberships, sessions, clock, epoch, cliResets, aux>>
  BY DEF AdminLookupFails, At
<1>2. req[r].op \in AllOps /\ Moves(r)
  BY <1>1 DEF AllOps, AdminOps, Moves
<1>3. /\ UNCHANGED <<load, clock, epoch, cliResets, lastUse, proof, everAdmin, sessions, users>>
      /\ MaxDbErrors \in Nat
  BY <1>0, <1>1, LoadType DEF aux
<1>4. dbErrors' \in 0..MaxDbErrors /\ dbErrors' # 0 /\ load.dbErrors # 0
  BY <1>0, <1>1, <1>3 DEF MaxDbErrors
<1>5. Core'
  <2>1. Grows
    BY <1>0, <1>1, <1>3, NothingGrows
  <2>2. /\ \A u \in Users : users'[u].admin => u \in everAdmin'
        /\ tenants' \in [Tenants -> {"active", "disabled"}]
        /\ proof' \in [SessionIds -> 0..MaxPassword] /\ users' \in [Users -> UserRows]
    BY <1>0, <1>1, <1>3 DEF Types, TypeOK, Core, AdminFacts
  <2> QED
    BY <1>0, <1>1, <1>2, <1>3, <1>4, <2>1, <2>2, SameRows, HandlerStep
<1>6. Passwords'
  BY <1>4 DEF Passwords, Sequential
<1>7. LastAdmin'
  BY <1>3, <1>4 DEF LastAdmin
<1> QED
  BY <1>5, <1>6, <1>7 DEF IndInv

(* A write of the row of one user that leaves the password alone.          *)
LEMMA UserWritten ==
    ASSUME IndInv, NEW r \in Requests, req[r].op \in AllOps, req[r].op \notin {"password", "reset"},
           req[r].pc # "refresh", Moves(r),
           NEW u \in Users, NEW new \in UserRows, users' = [users EXCEPT ![u] = new],
           new.pw = users[u].pw, new.admin => u \in everAdmin',
           everAdmin \subseteq everAdmin', everAdmin' \subseteq Users,
           UNCHANGED <<tenants, memberships, sessions, env, lastUse, proof>>,
           LastAdmin'
    PROVE  IndInv'
<1>0. Core /\ Passwords /\ Types /\ users \in [Users -> UserRows]
  BY DEF IndInv, Core, Types, TypeOK
<1>1. UNCHANGED <<load, clock, epoch, dbErrors, cliResets>>
  BY DEF env
<1>2. users' \in [Users -> UserRows] /\ \A v \in Users : users'[v] = IF v = u THEN new ELSE users[v]
  BY <1>0
<1>3. Core' /\ RowsKept
  <2>1. Grows
    BY <1>0 DEF Types, TypeOK, Grows
  <2>2. /\ \A v \in Users : users'[v].admin => v \in everAdmin'
        /\ tenants' \in [Tenants -> {"active", "disabled"}]
        /\ proof' \in [SessionIds -> 0..MaxPassword]
    BY <1>0, <1>2 DEF Types, TypeOK, Core, AdminFacts
  <2> QED
    BY <1>2, <2>1, <2>2, CoreOfWrite
<1>4. Passwords'
  BY <1>0, <1>1, <1>2, <1>3, PasswordsStay
<1> QED
  BY <1>3, <1>4 DEF IndInv

(* The administration of users.                                            *)
LEMMA UserHandlers ==
    ASSUME IndInv, NEW r \in Requests,
           \/ HandleCreateUser(r) \/ HandleUpdateUserPromote(r)
           \/ HandleUpdateUserDemote(r) \/ DisableUserUpdate(r)
    PROVE  IndInv'
<1>0. /\ Core /\ LastAdmin /\ Types /\ load \in Workloads /\ AdminFacts
      /\ users \in [Users -> UserRows] /\ everAdmin \subseteq Users
  BY DEF IndInv, Core, Types, TypeOK
<1>1. /\ req[r].op \in {"create-user", "promote", "demote", "disable-user"} /\ req[r].op \in AllOps
      /\ req[r].pc # "refresh"
  BY DEF HandleCreateUser, HandleUpdateUserPromote, HandleUpdateUserDemote, DisableUserUpdate, At,
         AllOps, AdminOps
<1>2. req[r].arg \in Users
  BY <1>0, <1>1, OfRequest, ArgTypes
<1>3. PICK u \in Users : u = req[r].arg
  BY <1>2
<1> DEFINE old == users[u]
<1>4. old \in UserRows /\ (old.admin => u \in everAdmin)
  BY <1>0 DEF AdminFacts
<1>5. CASE HandleCreateUser(r)
  <2>1. /\ Done(r) /\ req'[r] = Idling /\ UNCHANGED <<tenants, memberships, sessions, env, aux>>
        /\ users' = [users EXCEPT ![u] = IF old.status = "none" THEN [old EXCEPT !.status = "active"] ELSE old]
    BY <1>0, <1>3, <1>5 DEF HandleCreateUser, Done, Types
  <2> DEFINE new == IF old.status = "none" THEN [old EXCEPT !.status = "active"] ELSE old
  <2> HIDE DEF old
  <2>2. /\ new \in UserRows /\ new.pw = old.pw /\ new.admin = old.admin
        /\ old.status = "active" => new.status = "active"
    BY <1>4 DEF UserRows
  <2> HIDE DEF new
  <2>3. users' = [users EXCEPT ![u] = new] /\ UNCHANGED <<load, lastUse, proof, everAdmin>>
    BY <2>1 DEF new, env, aux
  <2>4. LastAdmin'
    <3>1. \A v \in Users : users'[v] = IF v = u THEN new ELSE users[v]
      BY <1>0, <2>3
    <3>2. Moves(r)
      BY <2>1 DEF Moves
    <3> QED
      BY <1>0, <1>1, <2>1, <2>2, <2>3, <3>1, <3>2, AdminsStay DEF old
  <2> QED
    BY <1>0, <1>1, <1>4, <2>1, <2>2, <2>3, <2>4, UserWritten DEF Moves, old
<1>6. CASE HandleUpdateUserPromote(r)
  <2>1. /\ Done(r) /\ req'[r] = Idling /\ UNCHANGED <<tenants, memberships, sessions, env, lastUse, proof>>
        /\ users' = [users EXCEPT ![u] = [old EXCEPT !.admin = old.admin \/ old.status # "none"]]
        /\ everAdmin' = everAdmin \cup {u}
    BY <1>0, <1>3, <1>6 DEF HandleUpdateUserPromote, Done, Types
  <2> DEFINE new == [old EXCEPT !.admin = old.admin \/ old.status # "none"]
  <2> HIDE DEF old
  <2>2. (old.admin \/ old.status # "none") \in BOOLEAN
    OBVIOUS
  <2>3. /\ new \in UserRows /\ new.pw = old.pw /\ new.status = old.status
        /\ old.admin => new.admin
    BY <1>4, <2>2 DEF UserRows
  <2> HIDE DEF new
  <2>4. users' = [users EXCEPT ![u] = new] /\ load' = load
    BY <2>1 DEF new, env
  <2>5. LastAdmin'
    <3>1. \A v \in Users : users'[v] = IF v = u THEN new ELSE users[v]
      BY <1>0, <2>4
    <3>2. Moves(r)
      BY <2>1 DEF Moves
    <3> QED
      BY <1>0, <1>1, <2>1, <2>3, <2>4, <3>1, <3>2, AdminsStay DEF old
  <2> QED
    BY <1>0, <1>1, <1>4, <2>1, <2>3, <2>4, <2>5, UserWritten DEF Moves, old
<1>7. CASE HandleUpdateUserDemote(r)
  <2>1. /\ Done(r) /\ req'[r] = Idling /\ UNCHANGED <<tenants, memberships, sessions, env, aux>>
        /\ users' = [users EXCEPT ![u] = [old EXCEPT !.admin = FALSE]]
        /\ At(r, {"demote"}, "update")
    BY <1>0, <1>3, <1>7 DEF HandleUpdateUserDemote, Done, Types
  <2> DEFINE new == [old EXCEPT !.admin = FALSE]
  <2> HIDE DEF old
  <2>2. new \in UserRows /\ new.pw = old.pw /\ new.admin = FALSE
    BY <1>4 DEF UserRows
  <2> HIDE DEF new
  <2>3. users' = [users EXCEPT ![u] = new] /\ UNCHANGED <<load, lastUse, proof, everAdmin>>
    BY <2>1 DEF new, env, aux
  <2>4. LastAdmin'
    <3>1. \A v \in Users : v # u => users'[v] = users[v]
      BY <1>0, <2>3
    <3>2. ASSUME load.slots = 1 /\ load.dbErrors = 0
          PROVE  \A q \in Requests : req'[q] = Idling /\ Idling.op = "none"
      BY <1>0, <1>1, <2>1, <3>2, OnlyMover DEF Moves, Idling
    <3>3. load.slots = 1 /\ load.dbErrors = 0 => \E v \in Users \ {u} : users[v].admin /\ users[v].status = "active"
      BY <1>0, <1>3, <2>1 DEF LastAdmin, OtherAdmins
    <3> QED
      BY <2>3, <3>1, <3>2, <3>3 DEF LastAdmin, At
  <2> QED
    BY <1>0, <1>1, <2>1, <2>2, <2>3, <2>4, UserWritten DEF Moves, old
<1>8. CASE DisableUserUpdate(r)
  <2>1. /\ Goes(r, [req[r] EXCEPT !.pc = "revoke"])
        /\ UNCHANGED <<tenants, memberships, sessions, env, aux>>
        /\ users' = [users EXCEPT ![u] = [old EXCEPT !.status = IF old.status = "none" THEN "none" ELSE "disabled"]]
        /\ At(r, {"disable-user"}, "update")
    BY <1>0, <1>3, <1>8 DEF DisableUserUpdate
  <2>a. Moves(r)
    BY <2>1 DEF Moves
  <2> DEFINE new == [old EXCEPT !.status = IF old.status = "none" THEN "none" ELSE "disabled"]
  <2> HIDE DEF old
  <2>2. new \in UserRows /\ new.pw = old.pw /\ new.admin = old.admin
    BY <1>4 DEF UserRows
  <2> HIDE DEF new
  <2>3. users' = [users EXCEPT ![u] = new] /\ UNCHANGED <<load, lastUse, proof, everAdmin>>
    BY <2>1 DEF new, env, aux
  <2>4. LastAdmin'
    <3>1. \A v \in Users : v # u => users'[v] = users[v]
      BY <1>0, <2>3
    <3>2. ASSUME load.slots = 1 /\ load.dbErrors = 0
          PROVE  \A q \in Requests : q # r => req'[q] = Idling
      BY <1>0, <1>1, <2>a, <3>2, OnlyMover
    <3>3. Idling.op = "none"
      BY DEF Idling
    <3>4. req'[r].pc = "revoke"
      <4>1. req[r] \in SessionRequests /\ req'[r] = [req[r] EXCEPT !.pc = "revoke"]
        BY <1>0, <1>1, <2>1, OfRequest DEF Goes, Types
      <4> QED
        BY <4>1 DEF SessionRequests
    <3>5. load.slots = 1 /\ load.dbErrors = 0 => \E v \in Users \ {u} : users[v].admin /\ users[v].status = "active"
      <4>1. load.slots = 1 /\ load.dbErrors = 0 => ~users[u].admin \/ OtherAdmins(u) # {}
        BY <1>0, <1>3, <2>1 DEF LastAdmin
      <4>2. load.slots = 1 /\ load.dbErrors = 0 => \E v \in Users : users[v].admin /\ users[v].status = "active"
        BY <1>0 DEF LastAdmin
      <4> QED
        BY <4>1, <4>2 DEF OtherAdmins
    <3> QED
      BY <2>3, <3>1, <3>2, <3>3, <3>4, <3>5 DEF LastAdmin, At
  <2> QED
    BY <1>0, <1>1, <1>4, <2>1, <2>a, <2>2, <2>3, <2>4, UserWritten DEF old
<1> QED
  BY <1>5, <1>6, <1>7, <1>8

(* Disabling a tenant or a membership.                                     *)
LEMMA TenantHandlers ==
    ASSUME IndInv, NEW r \in Requests, DisableTenantUpdate(r) \/ HandleDisableMembership(r)
    PROVE  IndInv'
<1>0. /\ Core /\ LastAdmin /\ Passwords /\ Types /\ load \in Workloads /\ AdminFacts
      /\ users \in [Users -> UserRows] /\ tenants \in [Tenants -> {"active", "disabled"}]
      /\ memberships \in [Users \X Tenants -> {"none", "active", "disabled"}]
      /\ everAdmin \subseteq Users
  BY DEF IndInv, Core, Types, TypeOK
<1>1. /\ req[r].op \in {"disable-tenant", "disable-membership"} /\ req[r].op \in AllOps
      /\ req[r].pc # "refresh" /\ Moves(r)
  BY DEF DisableTenantUpdate, HandleDisableMembership, At, AllOps, AdminOps, TenantOps, Moves
<1>2. /\ UNCHANGED <<load, clock, epoch, dbErrors, cliResets, lastUse, proof, everAdmin, sessions, users>>
      /\ UNCHANGED <<sessions, env, lastUse>>
  BY DEF DisableTenantUpdate, HandleDisableMembership, env, aux
<1>3. tenants' \in [Tenants -> {"active", "disabled"}] /\ Grows
  <2>1. CASE DisableTenantUpdate(r)
    <3>1. memberships' = memberships /\ tenants' = [tenants EXCEPT ![req[r].arg] = "disabled"]
      BY <2>1 DEF DisableTenantUpdate
    <3> QED
      BY <1>0, <1>2, <3>1, NothingGrows
  <2>2. CASE HandleDisableMembership(r)
    <3> DEFINE m == <<req[r].arg, req[r].tenant>>
    <3>1. /\ tenants' = tenants
          /\ \/ memberships' = memberships
             \/ memberships[m] # "none" /\ memberships' = [memberships EXCEPT ![m] = "disabled"]
      BY <2>2 DEF HandleDisableMembership
    <3> HIDE DEF m
    <3> QED
      BY <1>0, <1>2, <3>1 DEF Grows
  <2> QED
    BY <2>1, <2>2
<1>4. Core' /\ RowsKept
  <2>1. /\ \A v \in Users : users'[v].admin => v \in everAdmin'
        /\ proof' \in [SessionIds -> 0..MaxPassword] /\ users' \in [Users -> UserRows]
    BY <1>0, <1>2 DEF Types, TypeOK, AdminFacts
  <2> QED
    BY <1>1, <1>2, <1>3, <2>1, CoreOfWrite
<1>5. LastAdmin'
  BY <1>0, <1>1, <1>2, AdminsStay
<1>6. Passwords'
  BY <1>0, <1>1, <1>2, <1>4, PasswordsStay
<1> QED
  BY <1>4, <1>5, <1>6 DEF IndInv

-----------------------------------------------------------------------------
(* Logins, the middleware, and the process.                                *)

(* A free slot among one is the only slot in use.                          *)
LEMMA NobodyElse ==
    ASSUME Core, Cardinality({x \in Requests : req[x] # Idling}) < load.slots, load.slots = 1
    PROVE  \A q \in Requests : req[q] = Idling
<1> DEFINE Running == {x \in Requests : req[x] # Idling}
<1> SUFFICES ASSUME NEW q \in Requests, req[q] # Idling PROVE FALSE
  OBVIOUS
<1>1. Running = {q}
  BY DEF Core, Alone
<1>2. Cardinality(Running) < 1
  OBVIOUS
<1> HIDE DEF Running
<1>3. Cardinality({q}) = 1
  BY FS_Singleton
<1>4. Cardinality(Running) = 1
  BY <1>1, <1>3
<1>5. 1 < 1
  BY <1>2, <1>4
<1> QED
  BY <1>5

(* A request that begins: it waits for no revocation and is past no check. *)
LEMMA BeginStep ==
    ASSUME IndInv, NEW r \in Requests, req[r] = Idling,
           Cardinality({x \in Requests : req[x] # Idling}) < load.slots,
           NEW new \in LoginRequests \cup SessionRequests, Goes(r, new),
           UNCHANGED <<users, tenants, memberships, sessions, env, proof, everAdmin>>,
           lastUse' \in [SessionIds -> Nat],
           \A s \in SessionIds : Born(s) => lastUse'[s] \in {lastUse[s], clock},
           new \in SessionRequests =>
              /\ new.op \in Ops /\ new.arg \in Args(new.op) /\ new.pc \in {"refresh", "run"}
              /\ Born(new.sid) /\ sessions[new.sid].user = new.user
              /\ new.admin => new.user \in everAdmin,
           \A s \in SessionIds : Born(s) /\ lastUse'[s] # lastUse[s] =>
              \/ new \in SessionRequests /\ new.sid = s /\ new.pc = "refresh"
              \/ sessions[s].expires + Refresh >= lastUse'[s] + Idle,
           new \in LoginRequests => new.pw = users[new.user].pw
    PROVE  IndInv'
<1>0. Core /\ Types /\ LastAdmin /\ Passwords /\ load \in Workloads
  BY DEF IndInv, Core, Types, TypeOK
<1>1. UNCHANGED <<load, clock, epoch, dbErrors, cliResets, users, tenants, memberships, sessions, proof, everAdmin>>
  BY DEF env
<1>2. \A q \in Requests : req'[q] = IF q = r THEN new ELSE req[q]
  BY <1>0 DEF Goes, Types
<1>3. /\ new \in LoginRequests => new.op = "login"
      /\ new \in SessionRequests => new.op \in AllOps /\ new.sid \in SessionIds
      /\ Idling.op = "none" /\ {"login", "none"} \cap AllOps = {}
  BY DEF LoginRequests, SessionRequests, Idling, AllOps, SessionOps, AdminOps, TenantOps
<1>4. Types'
  <2>1. req' \in [Requests -> LoginRequests \cup SessionRequests \cup {Idling}]
    BY <1>0 DEF Goes, Types
  <2> QED
    BY <1>0, <1>1, <2>1, TypesStep DEF Types, TypeOK
<1>5. RequestFacts'
  <2> SUFFICES ASSUME NEW q \in Requests, req'[q].op \in AllOps
               PROVE  /\ req'[q].op \in Ops' /\ (req[q].arg \in Args(req[q].op))'
                      /\ sessions'[req'[q].sid] # Unborn
                      /\ sessions'[req'[q].sid].user = req'[q].user
                      /\ req'[q].admin => req'[q].user \in everAdmin'
    BY DEF RequestFacts, Born
  <2>1. Ops' = Ops
    BY <1>1, SameBounds
  <2>2. CASE q = r
    <3>1. req'[q] = new /\ new \in SessionRequests
      BY <1>2, <1>3, <2>2
    <3>2. (req[q].arg \in Args(req[q].op))'
      BY <1>1, <3>1 DEF Args, MaxPassword
    <3> QED
      BY <1>1, <2>1, <3>1, <3>2 DEF Born
  <2>3. CASE q # r
    <3>1. req'[q] = req[q]
      BY <1>2, <2>3
    <3>2. (req[q].arg \in Args(req[q].op))'
      BY <1>0, <1>1, <3>1 DEF Args, MaxPassword, Core, RequestFacts
    <3> QED
      BY <1>0, <1>1, <2>1, <3>1, <3>2 DEF Core, RequestFacts, Born
  <2> QED
    BY <2>2, <2>3
<1>6. SessionFacts'
  <2> SUFFICES ASSUME NEW s \in SessionIds, Born(s)
               PROVE  sessions[s].expires <= lastUse'[s] + Idle /\ lastUse'[s] <= clock
    BY <1>0, <1>1 DEF Core, SessionFacts, Born
  <2>1. /\ sessions[s].expires <= lastUse[s] + Idle /\ lastUse[s] <= clock
        /\ lastUse[s] \in Nat /\ lastUse'[s] \in {lastUse[s], clock}
    BY <1>0 DEF Core, SessionFacts, Types
  <2>2. sessions[s].expires \in Nat /\ clock \in Nat /\ Idle \in Nat
    <3>1. sessions[s] \in SessionRows
      BY <1>0, BornRow
    <3> QED
      BY <1>0, <3>1, LoadType, AuthAssumption DEF SessionRows, Types, TypeOK, Times, StartTime
  <2> QED
    BY <2>1, <2>2
<1>7. AdminFacts'
  BY <1>0, <1>1 DEF Core, AdminFacts
<1>8. Window'
  <2> SUFFICES ASSUME NEW s \in SessionIds, Born(s), sessions[s].epoch = epoch, NoRefresh(s)'
               PROVE  sessions[s].expires + Refresh >= lastUse'[s] + Idle
    BY <1>1 DEF Window, Born
  <2>1. NoRefresh(s)
    <3>1. Ops' = Ops /\ Ops \subseteq AllOps
      BY <1>0, <1>1, SameBounds, LoadType
    <3> QED
      BY <1>2, <1>3, <3>1 DEF NoRefresh
  <2>2. new \in SessionRequests /\ new.sid = s => new.pc # "refresh"
    <3>1. Ops' = Ops
      BY <1>1, SameBounds
    <3> QED
      BY <1>2, <3>1 DEF NoRefresh
  <2>3. sessions[s].expires + Refresh >= lastUse[s] + Idle
    BY <1>0, <2>1 DEF Core, Window
  <2> QED
    BY <2>2, <2>3
<1>9. load.slots = 1 => \A q \in Requests : req[q] = Idling /\ (q # r => req'[q] = Idling)
  BY <1>0, <1>2, NobodyElse
<1>10. Alone'
  BY <1>1, <1>9 DEF Alone
<1>11. LastAdmin'
  <2>1. load.slots = 1 => \A q \in Requests : ~At(q, {"demote"}, "update")' /\ ~At(q, {"disable-user"}, "update")'
    BY <1>2, <1>3, <1>9 DEF At
  <2> QED
    BY <1>0, <1>1, <2>1 DEF LastAdmin
<1>12. Passwords'
  <2> SUFFICES ASSUME Sequential
               PROVE  /\ \A s \in SessionIds : (Born(s) /\ ~sessions[s].revoked /\ sessions[s].epoch = epoch)
                            => proof[s] = users[sessions[s].user].pw
                      /\ \A q \in Requests : req'[q].op = "login" => req'[q].pw = users[req'[q].user].pw
                      /\ \A q \in Requests : ~At(q, {"password"}, "revoke")'
    BY <1>1 DEF Passwords, Sequential, Born
  <2>1. \A q \in Requests : req[q] = Idling /\ (q # r => req'[q] = Idling)
    BY <1>9 DEF Sequential
  <2>2. \A v : ~Settling(v)
    BY <1>3, <2>1 DEF Settling
  <2> QED
    BY <1>0, <1>2, <1>3, <2>1, <2>2 DEF Passwords, At
<1> QED
  BY <1>4, <1>5, <1>6, <1>7, <1>8, <1>10, <1>11, <1>12 DEF IndInv, Core

(* A login that has verified a password.                                   *)
LEMMA LoginVerifyStep ==
    ASSUME IndInv, NEW r \in Requests,
           Cardinality({x \in Requests : req[x] # Idling}) < load.slots,
           NEW u \in Users, NEW t \in Tenants \cup {"auto"}, LoginVerify(r, u, t)
    PROVE  IndInv'
<1> DEFINE new == [op |-> "login", user |-> u, tenant |-> t, pw |-> users[u].pw]
<1>0. Types
  BY DEF IndInv, Core
<1>1. users[u].pw \in 0..MaxPassword
  BY <1>0 DEF Types, TypeOK, UserRows
<1>2. new \in LoginRequests /\ new.op = "login" /\ new.pw = users[u].pw /\ new.user = u
  BY <1>1 DEF LoginRequests
<1>3. new \notin SessionRequests
  BY <1>2 DEF SessionRequests, AllOps, SessionOps, AdminOps, TenantOps
<1>4. /\ req[r] = Idling /\ Goes(r, new)
      /\ UNCHANGED <<users, tenants, memberships, sessions, env, proof, everAdmin, lastUse>>
  BY DEF LoginVerify, aux
<1>5. lastUse' \in [SessionIds -> Nat]
  BY <1>0, <1>4 DEF Types
<1> HIDE DEF new
<1> QED
  BY <1>2, <1>3, <1>4, <1>5, BeginStep

(* A request that SessionMiddleware lets pass.  If it need not refresh the *)
(* session, its expiry is less than the refresh window behind.             *)
LEMMA AcceptStep ==
    ASSUME IndInv, NEW r \in Requests,
           Cardinality({x \in Requests : req[x] # Idling}) < load.slots,
           NEW s \in SessionIds, NEW op \in Ops, NEW arg \in Args(op), Accept(r, s, op, arg)
    PROVE  IndInv'
<1> DEFINE u == sessions[s].user
           t == sessions[s].tenant
           pc == IF Stale(s) THEN "refresh" ELSE "run"
           new == [op |-> op, arg |-> arg, sid |-> s, user |-> u, tenant |-> t,
                   admin |-> users[u].admin, pc |-> pc]
<1>0. Core /\ Types /\ load \in Workloads /\ op \in AllOps
  BY LoadType DEF IndInv, Core, Types, TypeOK
<1>1. Born(s) /\ sessions[s] \in SessionRows /\ clock \in Nat
  <2>1. Born(s)
    BY DEF Accept, Valid
  <2>2. clock \in Nat
    BY <1>0, LoadType, AuthAssumption DEF Types, TypeOK, Times, StartTime
  <2> QED
    BY <1>0, <2>1, <2>2, BornRow
<1>2. /\ req[r] = Idling /\ Goes(r, new)
      /\ lastUse' = [lastUse EXCEPT ![s] = clock]
      /\ UNCHANGED <<users, tenants, memberships, sessions, env, proof, everAdmin>>
  BY DEF Accept
<1>3. u \in Users /\ t \in Tenants /\ users[u].admin \in BOOLEAN /\ (users[u].admin => u \in everAdmin)
  BY <1>0, <1>1 DEF SessionRows, Types, TypeOK, UserRows, Core, AdminFacts
<1>4. arg \in ArgValues /\ pc \in {"refresh", "run"}
  BY <1>0 DEF ArgValues
<1>5. /\ new \in SessionRequests /\ new.op = op /\ new.arg = arg /\ new.sid = s /\ new.user = u
      /\ new.admin = users[u].admin /\ new.pc = pc
  <2> HIDE DEF u, t, pc
  <2> QED
    BY <1>0, <1>3, <1>4 DEF SessionRequests
<1>6. new \notin LoginRequests
  BY <1>0, <1>5 DEF LoginRequests, AllOps, SessionOps, AdminOps, TenantOps
<1>7. pc = "refresh" \/ sessions[s].expires + Refresh >= clock + Idle
  <2> SUFFICES ASSUME ~Stale(s)
               PROVE  sessions[s].expires + Refresh >= clock + Idle
    OBVIOUS
  <2>1. /\ sessions[s].lastSeen \in Nat /\ sessions[s].expires \in Nat
        /\ clock >= Refresh + 1 /\ Refresh \in Nat /\ Idle \in Nat
    BY <1>0, <1>1, LoadType, AuthAssumption DEF SessionRows, Types, TypeOK, Times, StartTime, ZeroTime
  <2>2. clock - sessions[s].lastSeen <= Refresh
    BY <1>1, <2>1 DEF Stale
  <2>3. sessions[s].lastSeen = 0 \/ sessions[s].expires = sessions[s].lastSeen + Idle
    BY <1>0, <1>1 DEF Core, SessionFacts, ZeroTime
  <2> QED
    BY <1>1, <2>1, <2>2, <2>3
<1>8. /\ lastUse' \in [SessionIds -> Nat]
      /\ \A k \in SessionIds : lastUse'[k] = IF k = s THEN clock ELSE lastUse[k]
  BY <1>0, <1>1, <1>2 DEF Types
<1> HIDE DEF new, u, t, pc
<1>9. sessions[s].user = u
  BY DEF u
<1> QED
  BY <1>1, <1>2, <1>3, <1>4, <1>5, <1>6, <1>7, <1>8, <1>9, BeginStep

(* Nothing but the slots, the clock, the key or a new session changes.     *)
LEMMA AdminsSame ==
    ASSUME LastAdmin, load' = load, users' = users,
           load.slots = 1 => \A q \in Requests : req'[q] = Idling
    PROVE  LastAdmin'
<1>1. Idling.op = "none"
  BY DEF Idling
<1> QED
  BY <1>1 DEF LastAdmin, At

(* CreateSession at the end of a login.                                    *)
LEMMA LoginCreateStep ==
    ASSUME IndInv, NEW r \in Requests, LoginCreate(r)
    PROVE  IndInv'
<1>0. Core /\ Types /\ LastAdmin /\ Passwords /\ load \in Workloads
  BY DEF IndInv, Core, Types, TypeOK
<1>1. /\ req[r].op = "login" /\ Done(r) /\ UNCHANGED <<users, tenants, memberships, env, everAdmin>>
      /\ req[r] \in LoginRequests /\ req[r] # Idling
  BY <1>0, Kinds DEF LoginCreate
<1>2. UNCHANGED <<load, clock, epoch, dbErrors, cliResets, users, tenants, memberships, everAdmin>>
  BY <1>1 DEF env
<1>3. /\ req' \in [Requests -> LoginRequests \cup SessionRequests \cup {Idling}]
      /\ \A q \in Requests : req'[q] = IF q = r THEN Idling ELSE req[q]
  BY <1>0, <1>1 DEF Done, Types
<1>4. req[r].user \in Users /\ req[r].pw \in 0..MaxPassword
  BY <1>1 DEF LoginRequests
<1>5. Idling.op = "none" /\ {"login", "none"} \cap AllOps = {} /\ Ops \subseteq AllOps /\ Ops' = Ops
  BY <1>0, <1>2, LoadType, SameBounds DEF Idling, AllOps, SessionOps, AdminOps, TenantOps
<1>6. load.slots = 1 => \A q \in Requests : req'[q] = Idling
  BY <1>0, <1>1, <1>3 DEF Core, Alone
<1>7. AdminFacts' /\ Alone' /\ LastAdmin'
  BY <1>0, <1>2, <1>6, AdminsSame DEF Core, AdminFacts, Alone
<1>8. \A s \in SessionIds : NoRefresh(s)' => NoRefresh(s)
  BY <1>1, <1>3, <1>5 DEF NoRefresh
<1>9. ASSUME Sequential
      PROVE  /\ \A v : ~Settling(v)
             /\ \A q \in Requests : req'[q].op # "login" /\ ~At(q, {"password"}, "revoke")'
  BY <1>0, <1>1, <1>3, <1>5, <1>6, <1>9 DEF Sequential, Settling, At, Core, Alone
<1>a. ASSUME UNCHANGED <<sessions, lastUse, proof>>
      PROVE  IndInv'
  <2>1. Types'
    BY <1>0, <1>2, <1>3, <1>a, TypesStep DEF Types, TypeOK
  <2>2. RequestFacts'
    <3> SUFFICES ASSUME NEW q \in Requests, req'[q].op \in AllOps, q # r, req'[q] = req[q]
                 PROVE  /\ req'[q].op \in Ops' /\ (req[q].arg \in Args(req[q].op))'
                        /\ sessions'[req'[q].sid] # Unborn
                        /\ sessions'[req'[q].sid].user = req'[q].user
                        /\ req'[q].admin => req'[q].user \in everAdmin'
      BY <1>3, <1>5 DEF RequestFacts, Born
    <3>1. (req[q].arg \in Args(req[q].op))'
      BY <1>0, <1>2 DEF Args, MaxPassword, Core, RequestFacts
    <3> QED
      BY <1>0, <1>2, <1>5, <1>a, <3>1 DEF Core, RequestFacts, Born
  <2>3. SessionFacts' /\ Window'
    BY <1>0, <1>2, <1>8, <1>a DEF Core, SessionFacts, Window, Born
  <2>4. Passwords'
    BY <1>0, <1>2, <1>9, <1>a DEF Passwords, Sequential, Born
  <2> QED
    BY <1>7, <2>1, <2>2, <2>3, <2>4 DEF IndInv, Core
<1>b. ASSUME NEW t \in LoginTenants(req[r].user, req[r].tenant), NEW s \in SessionIds, ~Born(s),
             CreateSession(s, req[r].user, t),
             lastUse' = [lastUse EXCEPT ![s] = clock],
             proof' = [proof EXCEPT ![s] = req[r].pw]
      PROVE  IndInv'
  <2>1. PICK u \in Users : u = req[r].user
    BY <1>4
  <2>2. t \in Tenants /\ memberships[u, t] = "active"
    BY <1>b, <2>1 DEF LoginTenants, Enterable
  <2> DEFINE new == [user |-> u, tenant |-> t, csrf |-> 0, lastSeen |-> clock,
                     expires |-> clock + Idle, revoked |-> FALSE, epoch |-> epoch]
  <2>3. /\ clock \in Times /\ clock \in Nat /\ clock + Idle \in 0..(StartTime + MaxTime + Idle)
        /\ 0 \in 0..MaxCsrf /\ epoch \in 0..MaxRestarts /\ Idle \in Nat /\ epoch \in Nat /\ Refresh \in Nat
    BY <1>0, LoadType, AuthAssumption DEF Types, TypeOK, Times, StartTime
  <2>4. /\ new \in SessionRows /\ new.user = u /\ new.tenant = t /\ new.lastSeen = clock
        /\ new.expires = clock + Idle /\ new.revoked = FALSE /\ new.epoch = epoch
    BY <2>2, <2>3 DEF SessionRows
  <2>5. sessions' = [sessions EXCEPT ![s] = new]
    BY <1>b, <2>1 DEF CreateSession
  <2> HIDE DEF new
  <2>6. new # Unborn
    BY <2>4, RowIsBorn
  <2>7. /\ \A k \in SessionIds : sessions'[k] = IF k = s THEN new ELSE sessions[k]
        /\ \A k \in SessionIds : lastUse'[k] = IF k = s THEN clock ELSE lastUse[k]
        /\ \A k \in SessionIds : proof'[k] = IF k = s THEN req[r].pw ELSE proof[k]
    BY <1>0, <1>b, <2>5 DEF Types, TypeOK
  <2>8. Types'
    <3>1. /\ sessions' \in [SessionIds -> SessionRows \cup {Unborn}]
          /\ lastUse' \in [SessionIds -> Nat] /\ proof' \in [SessionIds -> 0..MaxPassword]
      BY <1>0, <1>4, <1>b, <2>3, <2>4, <2>5 DEF Types, TypeOK
    <3> QED
      BY <1>0, <1>2, <1>3, <3>1, TypesStep DEF Types, TypeOK
  <2>9. RequestFacts'
    <3> SUFFICES ASSUME NEW q \in Requests, req'[q].op \in AllOps, q # r, req'[q] = req[q]
                 PROVE  /\ req'[q].op \in Ops' /\ (req[q].arg \in Args(req[q].op))'
                        /\ sessions'[req'[q].sid] # Unborn
                        /\ sessions'[req'[q].sid].user = req'[q].user
                        /\ req'[q].admin => req'[q].user \in everAdmin'
      BY <1>3, <1>5 DEF RequestFacts, Born
    <3>1. (req[q].arg \in Args(req[q].op))'
      BY <1>0, <1>2 DEF Args, MaxPassword, Core, RequestFacts
    <3>2. req[q].sid \in SessionIds /\ Born(req[q].sid) /\ req[q].sid # s
      BY <1>0, <1>b, OfRequest
    <3> QED
      BY <1>0, <1>2, <1>5, <2>7, <3>1, <3>2 DEF Core, RequestFacts, Born
  <2>10. SessionFacts'
    <3> SUFFICES ASSUME NEW k \in SessionIds, Born(k)'
                 PROVE  /\ sessions'[k].epoch <= epoch
                        /\ sessions'[k].lastSeen = 0 \/ sessions'[k].expires = sessions'[k].lastSeen + Idle
                        /\ sessions'[k].expires <= lastUse'[k] + Idle /\ lastUse'[k] <= clock
                        /\ \/ memberships[sessions'[k].user, sessions'[k].tenant] # "none"
                           \/ sessions'[k].user \in everAdmin
      BY <1>2 DEF SessionFacts, ZeroTime
    <3>1. CASE k = s
      <4>1. sessions'[k] = new /\ lastUse'[k] = clock
        BY <2>7, <3>1
      <4>2. memberships[u, t] # "none"
        BY <2>2
      <4>3. clock + Idle <= clock + Idle /\ clock <= clock /\ epoch <= epoch
        BY <2>3
      <4>4. memberships[new.user, new.tenant] # "none"
        BY <2>4, <4>2
      <4> QED
        BY <2>4, <4>1, <4>3, <4>4
    <3>2. CASE k # s
      BY <1>0, <2>7, <3>2 DEF Core, SessionFacts, Born, ZeroTime
    <3> QED
      BY <3>1, <3>2
  <2>11. Window'
    <3> SUFFICES ASSUME NEW k \in SessionIds, Born(k)', sessions'[k].epoch = epoch, NoRefresh(k)'
                 PROVE  sessions'[k].expires + Refresh >= lastUse'[k] + Idle
      BY <1>2 DEF Window
    <3>1. CASE k = s
      BY <2>3, <2>4, <2>7, <3>1
    <3>2. CASE k # s
      BY <1>0, <1>8, <2>7, <3>2 DEF Core, Window, Born
    <3> QED
      BY <3>1, <3>2
  <2>12. Passwords'
    <3> SUFFICES ASSUME Sequential
                 PROVE  /\ \A k \in SessionIds :
                              (Born(k)' /\ ~sessions'[k].revoked /\ sessions'[k].epoch = epoch)
                                => proof'[k] = users[sessions'[k].user].pw
                        /\ \A q \in Requests : req'[q].op # "login" /\ ~At(q, {"password"}, "revoke")'
      BY <1>2 DEF Passwords, Sequential
    <3>1. ASSUME NEW k \in SessionIds, Born(k)', ~sessions'[k].revoked, sessions'[k].epoch = epoch
          PROVE  proof'[k] = users[sessions'[k].user].pw
      <4>1. CASE k = s
        <5>1. req[r].pw = users[u].pw
          BY <1>0, <1>1, <2>1 DEF Passwords
        <5> QED
          BY <2>4, <2>7, <4>1, <5>1
      <4>2. CASE k # s
        <5>1. Born(k) /\ sessions'[k] = sessions[k] /\ proof'[k] = proof[k]
          BY <2>7, <3>1, <4>2 DEF Born
        <5> QED
          BY <1>0, <1>9, <3>1, <5>1 DEF Passwords
      <4> QED
        BY <4>1, <4>2
    <3> QED
      BY <1>9, <3>1
  <2> QED
    BY <1>7, <2>8, <2>9, <2>10, <2>11, <2>12 DEF IndInv, Core
<1> QED
  BY <1>a, <1>b DEF LoginCreate

(* The refresh, whatever has happened to the session since it was read.    *)
LEMMA RefreshStep ==
    ASSUME IndInv, NEW r \in Requests, RefreshSession(r)
    PROVE  IndInv'
<1>0. Core /\ Types /\ LastAdmin /\ Passwords /\ load \in Workloads /\ Ops \subseteq AllOps
  BY LoadType DEF IndInv, Core, Types, TypeOK
<1>1. /\ req[r].op \in AllOps /\ req[r].op \in Ops /\ req[r].pc = "refresh" /\ Moves(r)
      /\ Goes(r, [req[r] EXCEPT !.pc = "run"])
  BY <1>0 DEF RefreshSession, At, Moves
<1>2. UNCHANGED <<load, clock, epoch, dbErrors, cliResets, users, tenants, memberships, proof, everAdmin>>
  BY DEF RefreshSession, env
<1>3. PICK s \in SessionIds : s = req[r].sid
  BY <1>0, <1>1, OfRequest
<1>4. Born(s) /\ sessions[s] \in SessionRows
  BY <1>0, <1>1, <1>3, OfRequest
<1> DEFINE old == sessions[s]
           new == [old EXCEPT !.lastSeen = clock, !.expires = clock + Idle]
<1>5. sessions' = [sessions EXCEPT ![s] = new] /\ lastUse' = [lastUse EXCEPT ![s] = clock]
  BY <1>3 DEF RefreshSession
<1>6. /\ clock \in Times /\ clock \in Nat /\ clock + Idle \in 0..(StartTime + MaxTime + Idle)
      /\ Idle \in Nat /\ Refresh \in Nat
  BY <1>0, LoadType, AuthAssumption DEF Types, TypeOK, Times, StartTime
<1>7. /\ new \in SessionRows /\ new.user = old.user /\ new.tenant = old.tenant /\ new.epoch = old.epoch
      /\ new.revoked = old.revoked /\ new.lastSeen = clock /\ new.expires = clock + Idle
  <2> HIDE DEF old
  <2>1. old \in SessionRows
    BY <1>4 DEF old
  <2> QED
    BY <1>6, <2>1 DEF SessionRows
<1> HIDE DEF new
<1>8. new # Unborn
  BY <1>7, RowIsBorn
<1>9. /\ \A k \in SessionIds : sessions'[k] = IF k = s THEN new ELSE sessions[k]
      /\ \A k \in SessionIds : lastUse'[k] = IF k = s THEN clock ELSE lastUse[k]
      /\ \A k \in SessionIds : Born(k)' <=> Born(k)
  <2>1. /\ \A k \in SessionIds : sessions'[k] = IF k = s THEN new ELSE sessions[k]
        /\ \A k \in SessionIds : lastUse'[k] = IF k = s THEN clock ELSE lastUse[k]
    BY <1>0, <1>5 DEF Types
  <2> QED
    BY <1>4, <1>8, <2>1 DEF Born
<1>10. /\ req'[r].op = req[r].op /\ req'[r].arg = req[r].arg /\ req'[r].sid = req[r].sid
       /\ req'[r].user = req[r].user /\ req'[r].admin = req[r].admin /\ req'[r].pc = "run"
  <2>1. req[r] \in SessionRequests /\ req'[r] = [req[r] EXCEPT !.pc = "run"]
    BY <1>0, <1>1, OfRequest DEF Goes, Types
  <2> QED
    BY <2>1 DEF SessionRequests
<1>11. \A q \in Requests : q # r => req'[q] = req[q]
  BY <1>0, <1>1, MovesFacts
<1>12. Types'
  <2>1. /\ sessions' \in [SessionIds -> SessionRows \cup {Unborn}]
        /\ lastUse' \in [SessionIds -> Nat]
    BY <1>0, <1>5, <1>6, <1>7 DEF Types
  <2> QED
    BY <1>0, <1>1, <1>2, <2>1, TypesStep, MovesFacts DEF Types, TypeOK
<1>13. RequestFacts'
  <2> SUFFICES ASSUME NEW q \in Requests, req'[q].op \in AllOps
               PROVE  /\ req'[q].op \in Ops' /\ (req[q].arg \in Args(req[q].op))'
                      /\ sessions'[req'[q].sid] # Unborn
                      /\ sessions'[req'[q].sid].user = req'[q].user
                      /\ req'[q].admin => req'[q].user \in everAdmin'
    BY DEF RequestFacts, Born
  <2>1. /\ req[q].op \in AllOps /\ req'[q].op = req[q].op /\ req'[q].arg = req[q].arg
        /\ req'[q].sid = req[q].sid /\ req'[q].user = req[q].user /\ req'[q].admin = req[q].admin
    BY <1>10, <1>11
  <2>2. (req[q].arg \in Args(req[q].op))'
    BY <1>0, <1>2, <2>1 DEF Args, MaxPassword, Core, RequestFacts
  <2>3. req[q].sid \in SessionIds /\ Born(req[q].sid) /\ sessions[req[q].sid].user = req[q].user
    BY <1>0, <2>1, OfRequest
  <2>4. sessions'[req[q].sid] # Unborn /\ sessions'[req[q].sid].user = req[q].user
    BY <1>7, <1>8, <1>9, <2>3 DEF Born
  <2> QED
    BY <1>0, <1>2, <2>1, <2>2, <2>4, SameBounds DEF Core, RequestFacts
<1>14. SessionFacts'
  <2> SUFFICES ASSUME NEW k \in SessionIds, Born(k)
               PROVE  /\ sessions'[k].epoch <= epoch
                      /\ sessions'[k].lastSeen = 0 \/ sessions'[k].expires = sessions'[k].lastSeen + Idle
                      /\ sessions'[k].expires <= lastUse'[k] + Idle /\ lastUse'[k] <= clock
                      /\ \/ memberships[sessions'[k].user, sessions'[k].tenant] # "none"
                         \/ sessions'[k].user \in everAdmin
    BY <1>2, <1>9 DEF SessionFacts, ZeroTime
  <2>1. CASE k = s
    <3>1. sessions'[k] = new /\ lastUse'[k] = clock
      BY <1>9, <2>1
    <3>2. /\ old.epoch <= epoch
          /\ memberships[old.user, old.tenant] # "none" \/ old.user \in everAdmin
      BY <1>0, <1>4 DEF Core, SessionFacts
    <3> HIDE DEF old
    <3>3. clock + Idle <= clock + Idle /\ clock <= clock
      BY <1>6
    <3>4. new.epoch <= epoch /\ new.expires = new.lastSeen + Idle
      BY <1>7, <3>2
    <3>5. memberships[new.user, new.tenant] # "none" \/ new.user \in everAdmin
      BY <1>7, <3>2
    <3> QED
      BY <1>7, <3>1, <3>3, <3>4, <3>5
  <2>2. CASE k # s
    BY <1>0, <1>9, <2>2 DEF Core, SessionFacts, ZeroTime
  <2> QED
    BY <2>1, <2>2
<1>15. Window'
  <2> SUFFICES ASSUME NEW k \in SessionIds, Born(k), sessions'[k].epoch = epoch, NoRefresh(k)'
               PROVE  sessions'[k].expires + Refresh >= lastUse'[k] + Idle
    BY <1>2, <1>9 DEF Window
  <2>1. CASE k = s
    BY <1>6, <1>7, <1>9, <2>1
  <2>2. CASE k # s
    <3>1. Ops' = Ops
      BY <1>2, SameBounds
    <3>2. NoRefresh(k)
      BY <1>3, <1>11, <2>2, <3>1 DEF NoRefresh
    <3> QED
      BY <1>0, <1>9, <2>2, <3>2 DEF Core, Window
  <2> QED
    BY <2>1, <2>2
<1>16. AdminFacts' /\ Alone'
  BY <1>0, <1>1, <1>2, MovesFacts, Kinds DEF Core, AdminFacts, Alone
<1>17. LastAdmin'
  BY <1>0, <1>1, <1>2, <1>10, AdminsStay
<1>18. Passwords'
  <2> SUFFICES ASSUME Sequential
               PROVE  /\ \A k \in SessionIds :
                            (Born(k) /\ ~sessions'[k].revoked /\ sessions'[k].epoch = epoch)
                              => proof[k] = users[sessions'[k].user].pw
                      /\ \A q \in Requests : req'[q].op # "login" /\ ~At(q, {"password"}, "revoke")'
    BY <1>2, <1>9 DEF Passwords, Sequential
  <2>1. \A q \in Requests : req[q] # Idling \/ req'[q] # Idling => q = r
    BY <1>0, <1>1, OnlyMover DEF Sequential
  <2>2. Idling.op = "none" /\ "login" \notin AllOps
    BY DEF Idling, AllOps, SessionOps, AdminOps, TenantOps
  <2>3. \A v : ~Settling(v)
    BY <1>1, <2>1, <2>2 DEF Settling
  <2>4. \A k \in SessionIds :
           /\ sessions'[k].revoked = sessions[k].revoked /\ sessions'[k].epoch = sessions[k].epoch
           /\ sessions'[k].user = sessions[k].user
    BY <1>7, <1>9
  <2> QED
    BY <1>0, <1>1, <1>10, <2>1, <2>2, <2>3, <2>4 DEF Passwords, At
<1> QED
  BY <1>12, <1>13, <1>14, <1>15, <1>16, <1>17, <1>18 DEF IndInv, Core

-----------------------------------------------------------------------------
(* The surroundings, and the invariant of every behaviour.                 *)

(* --reset-admin-password changes a password and counts as a revocation    *)
(* that was left out.                                                      *)
LEMMA CliStep ==
    ASSUME IndInv, CliResetPassword
    PROVE  IndInv'
<1>0. /\ Core /\ LastAdmin /\ Types /\ load \in Workloads /\ BootstrapAdmin \in Users
      /\ users \in [Users -> UserRows]
  BY AuthAssumption DEF IndInv, Core, Types, TypeOK
<1>1. /\ UNCHANGED <<load, tenants, memberships, sessions, req, clock, epoch, dbErrors, lastUse, proof, everAdmin>>
      /\ cliResets < MaxCliResets /\ cliResets' = cliResets + 1
      /\ users[BootstrapAdmin].pw < MaxPassword
  BY DEF CliResetPassword, aux
<1> DEFINE old == users[BootstrapAdmin]
           new == [old EXCEPT !.pw = @ + 1, !.mustChange = TRUE]
<1>2. users' = [users EXCEPT ![BootstrapAdmin] = new]
  BY DEF CliResetPassword
<1>3. new \in UserRows /\ new.admin = old.admin /\ new.status = old.status
  <2>1. old \in UserRows /\ old.pw < MaxPassword /\ MaxPassword \in Nat
    BY <1>0, <1>1, LoadType
  <2> HIDE DEF old
  <2>2. old.pw \in 0..MaxPassword
    BY <2>1 DEF UserRows
  <2>3. old.pw + 1 \in 0..MaxPassword
    BY <2>1, <2>2
  <2> QED
    BY <2>1, <2>3 DEF UserRows
<1> HIDE DEF new
<1>4. /\ users' \in [Users -> UserRows]
      /\ \A u \in Users : users'[u].admin = users[u].admin /\ users'[u].status = users[u].status
  BY <1>0, <1>2, <1>3
<1>5. cliResets' \in 0..MaxCliResets /\ cliResets' # 0
  BY <1>0, <1>1, LoadType DEF Types, TypeOK
<1>6. Types'
  BY <1>0, <1>1, <1>4, <1>5, TypesStep DEF Types, TypeOK
<1>7. RequestFacts'
  BY <1>0, <1>1 DEF Core, RequestFacts, Born, Args, MaxPassword, Ops
<1>8. SessionFacts' /\ Window' /\ Alone'
  BY <1>0, <1>1 DEF Core, SessionFacts, Window, Alone, NoRefresh, Born, Ops
<1>9. AdminFacts'
  BY <1>0, <1>1, <1>4 DEF Core, AdminFacts
<1>10. LastAdmin'
  <2>1. \A u : OtherAdmins(u)' = OtherAdmins(u)
    BY <1>4 DEF OtherAdmins
  <2>2. \A q \in Requests : req[q].op \in {"demote", "disable-user"} => req[q].arg \in Users
    <3>1. {"demote", "disable-user"} \subseteq AllOps
      BY DEF AllOps, SessionOps, AdminOps, TenantOps
    <3> QED
      BY <1>0, <3>1, ArgTypes, OfRequest
  <2> QED
    BY <1>0, <1>1, <1>4, <2>1, <2>2 DEF LastAdmin, At
<1>11. Passwords'
  BY <1>5 DEF Passwords, Sequential
<1> QED
  BY <1>6, <1>7, <1>8, <1>9, <1>10, <1>11 DEF IndInv, Core

(* With a new key every session there is has an older one.                 *)
LEMMA RestartStep ==
    ASSUME IndInv, ServerRestart
    PROVE  IndInv'
<1>0. /\ Core /\ LastAdmin /\ Types /\ load \in Workloads
  BY DEF IndInv, Core, Types, TypeOK
<1>1. /\ UNCHANGED <<load, users, tenants, memberships, sessions, clock, dbErrors, cliResets, lastUse, proof, everAdmin>>
      /\ epoch < MaxRestarts /\ epoch' = epoch + 1
      /\ req' = [r \in Requests |-> Idling]
  BY DEF ServerRestart, aux
<1>2. epoch' \in 0..MaxRestarts /\ epoch \in Nat
  BY <1>0, <1>1, LoadType DEF Types, TypeOK
<1>3. Idling.op = "none" /\ "none" \notin AllOps
  BY DEF Idling, AllOps, SessionOps, AdminOps, TenantOps
<1>4. Types'
  BY <1>0, <1>1, <1>2, TypesStep DEF Types, TypeOK
<1>5. RequestFacts' /\ Alone' /\ AdminFacts'
  BY <1>0, <1>1, <1>3 DEF Core, RequestFacts, Alone, AdminFacts
<1>6. \A s \in SessionIds : Born(s) => sessions[s].epoch \in Nat /\ sessions[s].epoch <= epoch
  <2> SUFFICES ASSUME NEW s \in SessionIds, Born(s)
               PROVE  sessions[s].epoch \in Nat /\ sessions[s].epoch <= epoch
    OBVIOUS
  <2>1. sessions[s] \in SessionRows
    BY <1>0, BornRow
  <2>2. sessions[s].epoch \in 0..MaxRestarts /\ MaxRestarts \in Nat
    BY <1>0, <2>1, LoadType DEF SessionRows
  <2>3. sessions[s].epoch <= epoch
    BY <1>0 DEF Core, SessionFacts
  <2> QED
    BY <2>2, <2>3
<1>7. \A s \in SessionIds : Born(s) => sessions[s].epoch <= epoch' /\ sessions[s].epoch # epoch'
  BY <1>1, <1>2, <1>6
<1>8. SessionFacts' /\ Window'
  BY <1>0, <1>1, <1>7 DEF Core, SessionFacts, Window, Born
<1>9. LastAdmin'
  BY <1>0, <1>1, AdminsSame
<1>10. Passwords'
  BY <1>1, <1>3, <1>7 DEF Passwords, Born, At
<1> QED
  BY <1>4, <1>5, <1>8, <1>9, <1>10 DEF IndInv, Core

(* Time passes.                                                            *)
LEMMA TickStep ==
    ASSUME IndInv, Tick
    PROVE  IndInv'
<1>0. /\ Core /\ LastAdmin /\ Passwords /\ Types /\ load \in Workloads
  BY DEF IndInv, Core, Types, TypeOK
<1>1. /\ UNCHANGED <<load, users, tenants, memberships, sessions, req, epoch, dbErrors, cliResets, lastUse, proof, everAdmin>>
      /\ clock + 1 \in Times /\ clock' = clock + 1
  BY DEF Tick, aux
<1>2. clock \in Nat /\ \A s \in SessionIds : lastUse[s] \in Nat
  BY <1>0, LoadType, AuthAssumption DEF Types, TypeOK, Times, StartTime
<1>3. Types'
  BY <1>0, <1>1, TypesStep DEF Types, TypeOK
<1>4. RequestFacts' /\ Alone' /\ AdminFacts' /\ Window'
  BY <1>0, <1>1 DEF Core, RequestFacts, Alone, AdminFacts, Window, NoRefresh, Born, Args, MaxPassword, Ops
<1>5. SessionFacts'
  <2>1. \A s \in SessionIds : lastUse[s] <= clock => lastUse[s] <= clock'
    BY <1>1, <1>2
  <2> QED
    BY <1>0, <1>1, <2>1 DEF Core, SessionFacts, Born
<1>6. LastAdmin'
  BY <1>0, <1>1 DEF LastAdmin, OtherAdmins, At
<1>7. Passwords'
  BY <1>0, <1>1 DEF Passwords, Sequential, Settling, Born, At
<1> QED
  BY <1>3, <1>4, <1>5, <1>6, <1>7 DEF IndInv, Core

(* The database after InitBootstrap.                                       *)
LEMMA InitIndInv == Init => IndInv
<1> SUFFICES ASSUME Init
             PROVE  IndInv
  OBVIOUS
<1>1. /\ load \in Workloads /\ clock = StartTime /\ epoch = 0 /\ dbErrors = 0 /\ cliResets = 0
      /\ lastUse = [s \in SessionIds |-> 0] /\ proof = [s \in SessionIds |-> 0]
      /\ everAdmin = Admins /\ sessions = [s \in SessionIds |-> Unborn]
      /\ req = [r \in Requests |-> Idling]
      /\ users = [u \in Users |-> [status |-> IF u \in Registered THEN "active" ELSE "none",
                                   admin |-> u \in Admins, pw |-> 0, mustChange |-> FALSE]]
  BY DEF Init
<1>2. /\ MaxTime \in Nat /\ MaxPassword \in Nat /\ MaxRestarts \in Nat /\ MaxDbErrors \in Nat
      /\ MaxCliResets \in Nat /\ Refresh \in Nat /\ BootstrapAdmin \in Users
      /\ BootstrapAdmin \in Registered /\ BootstrapAdmin \in Admins /\ Admins \subseteq Users
  BY <1>1, LoadType, AuthAssumption
<1>3. Idling.op = "none" /\ "none" \notin AllOps
  BY DEF Idling, AllOps, SessionOps, AdminOps, TenantOps
<1>4. /\ clock \in Times /\ epoch \in 0..MaxRestarts /\ dbErrors \in 0..MaxDbErrors
      /\ cliResets \in 0..MaxCliResets /\ proof \in [SessionIds -> 0..MaxPassword]
      /\ lastUse \in [SessionIds -> Nat]
  BY <1>1, <1>2 DEF Times, StartTime
<1>5. users \in [Users -> UserRows]
  BY <1>1, <1>2 DEF UserRows
<1>6. /\ tenants \in [Tenants -> {"active", "disabled"}]
      /\ memberships \in [Users \X Tenants -> {"none", "active", "disabled"}]
  BY DEF Init
<1>7. \A s \in SessionIds : ~Born(s)
  BY <1>1 DEF Born
<1>8. \A r \in Requests : req[r] = Idling /\ req[r].op = "none"
  BY <1>1, <1>3
<1>9. Types
  BY <1>1, <1>2, <1>4, <1>5, <1>6, <1>7, <1>8 DEF Types, TypeOK
<1>10. RequestFacts /\ SessionFacts /\ Window /\ Alone
  BY <1>3, <1>7, <1>8 DEF RequestFacts, SessionFacts, Window, Alone
<1>11. AdminFacts
  BY <1>1 DEF AdminFacts
<1>12. LastAdmin
  <2>1. users[BootstrapAdmin].admin /\ users[BootstrapAdmin].status = "active"
    BY <1>1, <1>2
  <2> QED
    BY <1>2, <1>8, <2>1 DEF LastAdmin, At
<1>13. Passwords
  BY <1>7, <1>8 DEF Passwords, At
<1> QED
  BY <1>9, <1>10, <1>11, <1>12, <1>13 DEF IndInv, Core

(* Every step, one case per group of actions.                              *)
LEMMA StepIndInv == IndInv /\ [Next]_vars => IndInv'
<1> SUFFICES ASSUME IndInv, [Next]_vars
             PROVE  IndInv'
  OBVIOUS
<1>1. ASSUME NEW r \in Requests, Begin(r)
      PROVE  IndInv'
  BY <1>1, LoginVerifyStep, AcceptStep DEF Begin
<1>2. ASSUME NEW r \in Requests, Step(r)
      PROVE  IndInv'
  BY <1>2, LoginCreateStep, RefreshStep, SessionHandlers, RevokeHandlers, PasswordHandlers,
     AdminCheck, AdminCheckFails, UserHandlers, TenantHandlers DEF Step
<1>3. CASE CliResetPassword \/ ServerRestart \/ Tick
  BY <1>3, CliStep, RestartStep, TickStep
<1>4. CASE UNCHANGED vars
  <2>1. UNCHANGED <<load, users, tenants, memberships, sessions, req, clock, epoch, dbErrors,
                    cliResets, lastUse, proof, everAdmin>>
    BY <1>4 DEF vars
  <2>2. Types'
    BY <2>1, TypesStep DEF IndInv, Core, Types, TypeOK
  <2>3. RequestFacts' /\ SessionFacts' /\ AdminFacts' /\ Window' /\ Alone'
    BY <2>1 DEF IndInv, Core, RequestFacts, SessionFacts, AdminFacts, Window, Alone, NoRefresh, Born,
       Args, MaxPassword, Ops
  <2>4. LastAdmin' /\ Passwords'
    BY <2>1 DEF IndInv, LastAdmin, OtherAdmins, Passwords, Sequential, Settling, Born, At
  <2> QED
    BY <2>2, <2>3, <2>4 DEF IndInv, Core
<1> QED
  BY <1>1, <1>2, <1>3, <1>4 DEF Next

(* The inductive invariant holds in every reachable state.                 *)
LEMMA Inductive == Spec => []IndInv
BY InitIndInv, StepIndInv, PTL DEF Spec

-----------------------------------------------------------------------------
(* The theorems.                                                           *)

(* SessionsInv: whichever requests overlap, login and HandleSwitchTenant   *)
(* let nobody into a tenant that is not the user's own or a platform       *)
(* admin's, and with one request at a time HandleUpdateUser and            *)
(* HandleDisableUser leave an active platform admin.                       *)
THEOREM SessionsStayInTheirTenant == Spec => []SessionsInv
<1>1. IndInv => SessionsInv
  <2> SUFFICES ASSUME IndInv
               PROVE  SessionsInv
    OBVIOUS
  <2>1. TypeOK
    BY DEF IndInv, Core, Types
  <2>2. TenantEntitled
    BY DEF IndInv, Core, SessionFacts, TenantEntitled, Valid
  <2>3. AdminRemains
    BY DEF IndInv, LastAdmin, AdminRemains
  <2> QED
    BY <2>1, <2>2, <2>3 DEF SessionsInv
<1> QED
  BY <1>1, Inductive, PTL

(* SlidingWindow: ValidateSession keeps a session for at least Idle less   *)
(* Refresh and at most Idle after its last use, however many requests      *)
(* refresh it at the same time or switch its tenant.                       *)
THEOREM SessionsSlide == Spec => []SlidingWindow
<1>1. IndInv => SlidingWindow
  BY DEF IndInv, Core, SessionFacts, Window, NoRefresh, SlidingWindow, Valid
<1> QED
  BY <1>1, Inductive, PTL

(* OldPasswordLocksOut: with one request at a time and no failed           *)
(* revocation, a session that ValidateSession accepts after                *)
(* HandleChangePassword or HandleResetPassword has shown the new password. *)
THEOREM PasswordChangeLocksOut == Spec => []OldPasswordLocksOut
<1>1. IndInv => OldPasswordLocksOut
  BY DEF IndInv, Passwords, OldPasswordLocksOut, Valid
<1> QED
  BY <1>1, Inductive, PTL

(* What a statement writes to one row.                                     *)
LEMMA OneRowEnded ==
    ASSUME Types, NEW s \in SessionIds, Born(s), NEW new,
           sessions' = [sessions EXCEPT ![s] = new],
           new.epoch = sessions[s].epoch, sessions[s].revoked => new.revoked
    PROVE  \A k \in SessionIds : Born(k) =>
              sessions'[k].epoch = sessions[k].epoch /\ (sessions[k].revoked => sessions'[k].revoked)
<1>1. \A k \in SessionIds : sessions'[k] = IF k = s THEN new ELSE sessions[k]
  BY DEF Types
<1> QED
  BY <1>1

(* No step gives a session another key or takes a revocation back.         *)
LEMMA RowsOutlive ==
    ASSUME IndInv, Next
    PROVE  /\ \A k \in SessionIds : Born(k) =>
                 sessions'[k].epoch = sessions[k].epoch /\ (sessions[k].revoked => sessions'[k].revoked)
           /\ epoch' = epoch \/ epoch' = epoch + 1
<1> DEFINE Kept == \A k \in SessionIds : Born(k) =>
                 sessions'[k].epoch = sessions[k].epoch /\ (sessions[k].revoked => sessions'[k].revoked)
<1>0. Core /\ Types /\ load \in Workloads /\ Ops \subseteq AllOps
  BY LoadType DEF IndInv, Core, Types, TypeOK
<1>a. UNCHANGED sessions => Kept
  OBVIOUS
<1>b. \A k \in SessionIds : Born(k) => sessions[k] \in SessionRows
  BY <1>0, BornRow
<1>c. {"logout", "me", "switch", "password", "disable-user", "reset", "disable-tenant"} \subseteq AllOps
  BY DEF AllOps, SessionOps, AdminOps, TenantOps
<1>1. ASSUME NEW r \in Requests, Begin(r)
      PROVE  Kept /\ epoch' = epoch
  BY <1>1, <1>a DEF Begin, LoginVerify, Accept, env
<1>2. ASSUME NEW r \in Requests, Step(r)
      PROVE  Kept /\ epoch' = epoch
  <2>0. epoch' = epoch
    BY <1>2 DEF Step, LoginCreate, RefreshSession, HandleLogout, HandleMe, HandleSwitchTenant,
       ChangePasswordVerify, ChangePasswordUpdate, ChangePasswordRevoke, HandleCreateUser,
       HandleUpdateUserPromote, LastAdminCheck, AdminLookupFails, HandleUpdateUserDemote, DisableUserUpdate,
       ResetPasswordUpdate, AdminRevoke, DisableTenantUpdate, DisableTenantRevoke,
       HandleDisableMembership, env
  <2>1. CASE LoginCreate(r)
    <3>1. CASE UNCHANGED sessions
      BY <1>a, <2>0, <3>1
    <3>2. CASE \E t \in LoginTenants(req[r].user, req[r].tenant), s \in SessionIds :
                  ~Born(s) /\ CreateSession(s, req[r].user, t)
      BY <1>0, <2>0, <3>2 DEF CreateSession, Types
    <3> QED
      BY <2>1, <3>1, <3>2 DEF LoginCreate
  <2>2. CASE RefreshSession(r) \/ HandleLogout(r) \/ HandleMe(r) \/ HandleSwitchTenant(r)
    <3> DEFINE s == req[r].sid
               old == sessions[s]
    <3>1. req[r].op \in AllOps
      BY <1>0, <1>c, <2>2 DEF RefreshSession, HandleLogout, HandleMe, HandleSwitchTenant, At
    <3>2. s \in SessionIds /\ Born(s) /\ old \in SessionRows
      BY <1>0, <3>1, OfRequest
    <3>3. \E new : /\ sessions' = [sessions EXCEPT ![s] = new]
                   /\ new.epoch = old.epoch /\ (old.revoked => new.revoked)
      <4>1. CASE RefreshSession(r)
        <5> DEFINE new == [old EXCEPT !.lastSeen = clock, !.expires = clock + Idle]
        <5>1. sessions' = [sessions EXCEPT ![s] = new]
          BY <4>1 DEF RefreshSession
        <5>2. new.epoch = old.epoch /\ new.revoked = old.revoked
          BY <3>2 DEF SessionRows
        <5> QED
          BY <5>1, <5>2
      <4>2. CASE HandleLogout(r)
        <5> DEFINE new == [old EXCEPT !.revoked = TRUE]
        <5>1. sessions' = [sessions EXCEPT ![s] = new]
          BY <4>2 DEF HandleLogout
        <5>2. new.epoch = old.epoch /\ new.revoked
          BY <3>2 DEF SessionRows
        <5> QED
          BY <5>1, <5>2
      <4>3. CASE UNCHANGED sessions
        <5>1. sessions' = [sessions EXCEPT ![s] = old]
          BY <1>0, <4>3 DEF Types
        <5> QED
          BY <5>1
      <4>4. CASE sessions' = [sessions EXCEPT ![s].csrf = @ + 1]
        <5> DEFINE new == [old EXCEPT !.csrf = @ + 1]
        <5>1. sessions' = [sessions EXCEPT ![s] = new]
          BY <4>4
        <5>2. new.epoch = old.epoch /\ new.revoked = old.revoked
          BY <3>2 DEF SessionRows
        <5> QED
          BY <5>1, <5>2
      <4>5. CASE sessions' = [sessions EXCEPT ![s].tenant = req[r].arg, ![s].lastSeen = ZeroTime]
        <5> DEFINE new == [old EXCEPT !.tenant = req[r].arg, !.lastSeen = ZeroTime]
        <5>1. sessions' = [sessions EXCEPT ![s] = new]
          BY <4>5
        <5>2. new.epoch = old.epoch /\ new.revoked = old.revoked
          BY <3>2 DEF SessionRows
        <5> QED
          BY <5>1, <5>2
      <4> QED
        BY <2>2, <4>1, <4>2, <4>3, <4>4, <4>5 DEF HandleMe, HandleSwitchTenant
    <3> HIDE DEF s
    <3> QED
      BY <1>0, <2>0, <3>2, <3>3, OneRowEnded
  <2>3. CASE ChangePasswordRevoke(r) \/ AdminRevoke(r) \/ DisableTenantRevoke(r)
    <3>1. CASE UNCHANGED sessions
      BY <1>a, <2>0, <3>1
    <3>2. CASE \A k \in SessionIds : sessions'[k] \in {sessions[k], [sessions[k] EXCEPT !.revoked = TRUE]}
      BY <1>b, <2>0, <3>2 DEF SessionRows
    <3> QED
      BY <2>3, <3>1, <3>2 DEF ChangePasswordRevoke, AdminRevoke, DisableTenantRevoke, RevokeUserSessions
  <2>4. CASE UNCHANGED sessions
    BY <1>a, <2>0, <2>4
  <2> HIDE DEF Kept
  <2> QED
    BY <1>2, <2>0, <2>1, <2>2, <2>3, <2>4 DEF Step, ChangePasswordVerify, ChangePasswordUpdate,
       HandleCreateUser, HandleUpdateUserPromote, LastAdminCheck, AdminLookupFails, HandleUpdateUserDemote,
       DisableUserUpdate, ResetPasswordUpdate, DisableTenantUpdate, HandleDisableMembership
<1>3. CASE CliResetPassword \/ ServerRestart \/ Tick
  BY <1>3, <1>a DEF CliResetPassword, ServerRestart, Tick
<1> QED
  BY <1>1, <1>2, <1>3 DEF Next

(* EndedStaysEnded: neither the UPDATE of a refresh nor that of a switch   *)
(* of the tenant, by a request that read the session earlier, makes        *)
(* ValidateSession accept a session that was revoked or whose key is gone. *)
THEOREM EndedSessionsStayEnded == Spec => EndedStaysEnded
<1>1. ASSUME IndInv, [Next]_vars, NEW s \in SessionIds, Born(s),
             sessions[s].revoked \/ sessions[s].epoch # epoch
      PROVE  ~Valid(s)'
  <2>1. sessions[s].epoch <= epoch /\ sessions[s].epoch \in Nat /\ epoch \in Nat
    <3>1. load \in Workloads /\ sessions[s] \in SessionRows /\ epoch \in 0..MaxRestarts
      BY <1>1, BornRow DEF IndInv, Core, Types, TypeOK
    <3>2. sessions[s].epoch \in 0..MaxRestarts /\ MaxRestarts \in Nat
      BY <3>1, LoadType DEF SessionRows
    <3>3. sessions[s].epoch <= epoch
      BY <1>1 DEF IndInv, Core, SessionFacts
    <3> QED
      BY <3>1, <3>2, <3>3
  <2>2. /\ sessions'[s].epoch = sessions[s].epoch /\ (sessions[s].revoked => sessions'[s].revoked)
        /\ epoch' = epoch \/ epoch' = epoch + 1
    <3>1. CASE Next
      BY <1>1, <3>1, RowsOutlive
    <3>2. CASE UNCHANGED vars
      BY <3>2 DEF vars
    <3> QED
      BY <1>1, <3>1, <3>2
  <2>3. sessions[s].epoch # epoch => sessions'[s].epoch # epoch'
    BY <2>1, <2>2
  <2> QED
    BY <1>1, <2>2, <2>3 DEF Valid
<1>2. IndInv /\ [Next]_vars =>
        [\A s \in SessionIds : Born(s) /\ (sessions[s].revoked \/ sessions[s].epoch # epoch) => ~Valid(s)']_vars
  BY <1>1
<1> QED
  BY <1>2, Inductive, PTL DEF Spec, EndedStaysEnded
=============================================================================
