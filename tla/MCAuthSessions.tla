--------------------------- MODULE MCAuthSessions ---------------------------
(***************************************************************************)
(* An instance of AuthSessions: the bootstrap admin ua, who has joined     *)
(* both tenants, a user ub of t1, and uc, whom nobody has created yet.     *)
(***************************************************************************)
EXTENDS AuthSessions, TLC
CONSTANTS ua, ub, t1, t2

MCMembers == {<<ua, t1>>, <<ua, t2>>, <<ub, t1>>}

(* Every operation, one request at a time, two sessions and a restart.     *)
OneByOne ==
    [ops |-> AllOps, users |-> {ua, ub}, tenants |-> {t1}, slots |-> 1, logins |-> 2, time |-> 0, passwords |-> 2,
     rotations |-> 0, restarts |-> 1, dbErrors |-> 0, cliResets |-> 0]

(* Every operation in one session, with a failed revocation and the CLI.   *)
Failing ==
    [OneByOne EXCEPT !.users = Users, !.passwords = 1, !.logins = 1, !.rotations = 1, !.restarts = 0, !.dbErrors = 1, !.cliResets = 1]

(* Two requests at a time while sessions are refreshed, switched and ended.*)
Overlapping ==
    [ops |-> {"logout", "switch", "disable-tenant"}, users |-> {}, tenants |-> Tenants, slots |-> 2, logins |-> 2,
     time |-> 2, passwords |-> 0, rotations |-> 0, restarts |-> 0, dbErrors |-> 0,
     cliResets |-> 0]

MCWorkloads == {OneByOne, Failing, Overlapping}

Symmetry == Permutations(SessionIds) \cup Permutations(Requests)
=============================================================================
