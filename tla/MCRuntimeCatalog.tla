-------------------------- MODULE MCRuntimeCatalog --------------------------
(* An instance of RuntimeCatalog for TLC.                                  *)
EXTENDS RuntimeCatalog, TLC
CONSTANTS i1, u1, u2, n1

VersionOps == {"version-create", "version-patch", "version-delete"}
RuntimeOps == {"runtime-create", "runtime-clone", "runtime-patch", "runtime-delete"}

(* Versions and templates under two revisions of the catalog.              *)
Templates ==
    [ops |-> VersionOps \cup RuntimeOps \cup {"reload"}, versions |-> UserVersions,
     runtimes |-> UserRuntimes, names |-> Names, items |-> {"image", "env"}, values |-> Values, slots |-> 1, revisions |-> 2]

(* A node backend runtime and a deployment, with a node and its images     *)
(* that come and go.                                                       *)
NbrOps == {"nbr-enable", "nbr-check", "nbr-patch", "nbr-disable", "nbr-edit", "nbr-delete"}
OnNode ==
    [ops |-> NbrOps \cup {"deploy-create", "deploy-delete"} \cup Events, versions |-> {}, runtimes |-> {},
     names |-> {n1}, items |-> {"env"}, values |-> Values, slots |-> 1, revisions |-> 1]

(* A deployment that is edited, patched and synchronised with its template.*)
Editing ==
    [ops |-> {"nbr-enable", "nbr-check", "nbr-patch", "deploy-create", "deploy-patch", "deploy-edit", "sync", "docker"},
     versions |-> {}, runtimes |-> {}, names |-> {n1}, items |-> {"image", "binding"}, values |-> Values,
     slots |-> 1, revisions |-> 1]

(* Rows are deleted while other requests refer to them.                    *)
References ==
    [ops |-> {"version-create", "version-delete", "runtime-create", "runtime-delete",
              "nbr-enable", "nbr-delete"}, versions |-> UserVersions,
     runtimes |-> {u1}, names |-> {n1}, items |-> {"image"}, values |-> {i1}, slots |-> 2, revisions |-> 1]

MCWorkloads == {Templates, OnNode, Editing, References}

Symmetry == Permutations(Requests)
=============================================================================
