------------------------------- MODULE MCRbac -------------------------------
(* An instance of Rbac for TLC.                                            *)
EXTENDS Rbac, TLC

(* Every request in one tenant, one at a time, with a restart; and two     *)
(* requests at a time about the roles of two tenants.                      *)
MCWorkloads ==
    {[ops |-> AllOps, tenants |-> {DefaultTenant}, slots |-> 1, restarts |-> 1],
     [ops |-> {"create-membership", "add-role", "create-role", "delete-role"},
      tenants |-> Tenants, slots |-> 2, restarts |-> 0]}

Symmetry == Permutations(Requests) \cup Permutations(CustomRoles)
=============================================================================
