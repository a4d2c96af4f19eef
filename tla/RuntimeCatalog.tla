--------------------------- MODULE RuntimeCatalog ---------------------------
(***************************************************************************)
(* Backend versions, backend runtimes (templates), node backend runtimes   *)
(* (NBR) and the configuration of deployments: each layer is created with  *)
(* a copy of the configuration above it.  api/backend_handlers.go,         *)
(* runtime_handlers.go, node_runtime_handlers.go, config_edit_handlers.go, *)
(* the configuration part of deployment_lifecycle_handlers.go, and         *)
(* catalog/loader.go (SeedCatalog).  One node, one tenant.                 *)
(* A handler reads, computes, and writes with one statement; other         *)
(* requests run in between, and while the agent is being asked.            *)
(***************************************************************************)
EXTENDS Naturals, FiniteSets

CONSTANTS
    Values,                     \* values of configuration items; images
    SysVersions, UserVersions,  \* IDs of backend_versions
    SysRuntimes, UserRuntimes,  \* IDs of backend_runtimes
    Names,                      \* display names
    Deployments,
    Requests,                   \* slots for requests that run at the same time
    Workloads                   \* what is sent to the server, see below

(* Kinds of requests, and of what happens around the server.               *)
AllOps == {"version-create", "version-patch", "version-delete", "runtime-create", "runtime-clone",
           "runtime-patch", "runtime-delete", "nbr-enable", "nbr-check", "nbr-patch", "nbr-disable",
           "nbr-edit", "nbr-delete", "deploy-create", "deploy-patch", "deploy-edit", "deploy-delete",
           "sync", "reload"}
Events == {"node", "docker"}

(* launcher.image; one more item; and the items that are derived from the  *)
(* placement and the service of a deployment (service.port_binding,        *)
(* runtime.device_binding and the like), as one.                           *)
Items == {"image", "env", "binding"}

(* A workload: its requests and events, the IDs, names, items and values   *)
(* they use, how many requests run at a time, and the number of revisions  *)
(* of the catalog files.                                                   *)
WorkloadType ==
    [ops: SUBSET (AllOps \cup Events), versions: SUBSET UserVersions, runtimes: SUBSET UserRuntimes,
     names: SUBSET Names, items: SUBSET Items, values: SUBSET Values, slots: Nat, revisions: Nat \ {0}]

(* A new version or runtime has an ID of its own, which no document of the *)
(* catalog has: the server draws a UUID.  (HandleCreateBackendVersion also *)
(* takes one from the caller; it is not one of a later catalog.)           *)
ASSUME CatalogAssumption ==
    /\ (\E v, w \in Values : v # w) /\ SysVersions # {} /\ SysRuntimes # {} /\ Names # {}
    /\ SysVersions \cap UserVersions = {} /\ SysRuntimes \cap UserRuntimes = {}
    /\ \A w \in Workloads : w \in WorkloadType

VARIABLES
    load,         \* the workload of this behaviour
    revision,     \* of the catalog files under configs/backend-catalog
    versions, runtimes, nbrs, deployments,   \* tables
    online,       \* status of the node
    present,      \* images on the node (Docker)
    req,
    verified      \* history: the last probe of an NBR, and the images its probes found

tables == <<versions, runtimes, nbrs, deployments>>
vars == <<load, revision, tables, online, present, req, verified>>

Configs == [Items -> Values]
Versions == SysVersions \cup UserVersions
Runtimes == SysRuntimes \cup UserRuntimes
NoRow == [row |-> "none"]
Empty == [value |-> "none"]         \* an image_ref or a service_json that is empty
OrEmpty == Values \cup {Empty}
Rows(f) == {x \in DOMAIN f : f[x] # NoRow}
Idle == [op |-> "none"]

\* The catalog documents of a revision.  The versions after the first are
\* shipped from revision 2 on, and the configuration and the display names of
\* the runtimes change with it: a user's runtime may have the new name already.
FirstVersion == CHOOSE v \in SysVersions : TRUE
Shipped(rev) == IF rev = 1 THEN {FirstVersion} ELSE SysVersions
FirstValue == CHOOSE v \in Values : TRUE
DocConfig(rev) == [i \in Items |->
    IF rev = 1 \/ i = "image" THEN FirstValue ELSE CHOOSE v \in Values : v # FirstValue]

LaterName == CHOOSE n \in Names : TRUE
DocDisplay(t, rev) == IF rev = 1 THEN t ELSE LaterName

Labels == Versions     \* version strings: a user may choose one that a later catalog uses

NbrStatus == {"needs_check", "failed", "ready", "ready_with_warnings", "missing_image", "inspect_failed",
              "agent_unreachable", "disabled"}

(* The type invariant.                                                     *)
TypeOK ==
    /\ load \in Workloads
    /\ revision \in 1..load.revisions /\ online \in BOOLEAN /\ present \subseteq Values
    /\ \A v \in Rows(versions) : versions[v] \in [system: BOOLEAN, label: Labels, cfg: Configs]
    /\ \A t \in Rows(runtimes) : runtimes[t] \in [system: BOOLEAN, version: Versions,
                                                  display: Names \cup SysRuntimes, cfg: Configs]
    /\ \A n \in Rows(nbrs) : nbrs[n] \in [image: OrEmpty, cfg: Configs, status: NbrStatus]
    /\ \A d \in Rows(deployments) :
          deployments[d] \in [nbr: Runtimes, cfg: Configs, service: OrEmpty, over: SUBSET Items]
    /\ \A r \in Requests : req[r].op \in AllOps \cup {"none"}

VersionDoc(v, rev) == [system |-> TRUE, label |-> v, cfg |-> DocConfig(rev)]
RuntimeDoc(t, rev) == [system |-> TRUE, version |-> FirstVersion, display |-> DocDisplay(t, rev),
                       cfg |-> DocConfig(rev)]

\* After the first start of the server: the schema is new and seeded.
Init ==
    /\ load \in Workloads
    /\ revision = 1 /\ online = TRUE
    /\ versions = [v \in Versions |-> IF v \in Shipped(1) THEN VersionDoc(v, 1) ELSE NoRow]
    /\ runtimes = [t \in Runtimes |-> IF t \in SysRuntimes THEN RuntimeDoc(t, 1) ELSE NoRow]
    /\ nbrs = [t \in Runtimes |-> NoRow]
    /\ deployments = [d \in Deployments |-> NoRow]
    /\ present = {}
    /\ req = [r \in Requests |-> Idle]
    /\ verified = [t \in Runtimes |-> [last |-> NoRow, found |-> {}]]

-----------------------------------------------------------------------------
(* Requests: op, and what the path and the body name.                      *)
Accept(r, op, a) ==
    /\ req[r] = Idle
    /\ req' = [req EXCEPT ![r] = [op |-> op, pc |-> "read", arg |-> a]]
    /\ UNCHANGED <<load, revision, tables, online, present, verified>>

At(r, op, pc) == req[r].op = op /\ req[r].pc = pc
Arg(r) == req[r].arg
Done(r) == req' = [req EXCEPT ![r] = Idle]
\* The read step: an early return, or a write is prepared from what was read.
Read(r, ok, saw) ==
    /\ req' = [req EXCEPT ![r] = IF ok THEN [op |-> @.op, pc |-> "write", arg |-> @.arg, saw |-> saw] ELSE Idle]
    /\ UNCHANGED <<load, revision, tables, online, present, verified>>
KeepWorld == UNCHANGED <<load, revision, online, present>>

\* setConfigValue, applyConfigOverrides and ApplyEditPatchToConfigSet for one item.
setConfigValue(cfg, item, val) == [cfg EXCEPT ![item] = val]
Edited(r, cfg) == setConfigValue(cfg, Arg(r).item, Arg(r).val)

-----------------------------------------------------------------------------
(* Backend versions (backend_handlers.go) *)

\* HandleCreateBackendVersion and HandleCloneBackendVersion.
VersionCreateRead(r) ==
    /\ At(r, "version-create", "read")
    /\ LET src == versions[Arg(r).src] IN
       Read(r, src # NoRow, IF src = NoRow THEN NoRow ELSE src.cfg)

\* PRIMARY KEY and UNIQUE(backend_id, version).
VersionInsertable(id, label) == versions[id] = NoRow /\ \A v \in Rows(versions) : versions[v].label # label

InsertVersion(r, cfg) ==
    versions' = IF VersionInsertable(Arg(r).id, Arg(r).label)
                THEN [versions EXCEPT ![Arg(r).id] = [system |-> FALSE, label |-> Arg(r).label, cfg |-> cfg]]
                ELSE versions

VersionCreateWrite(r) ==
    /\ At(r, "version-create", "write")
    /\ InsertVersion(r, req[r].saw)
    /\ Done(r) /\ KeepWorld /\ UNCHANGED <<runtimes, nbrs, deployments, verified>>

VersionEditable(v) == versions[v] # NoRow /\ ~versions[v].system

VersionPatchRead(r) ==
    /\ At(r, "version-patch", "read")
    /\ Read(r, VersionEditable(Arg(r).id), versions[Arg(r).id])

\* upsertBackendVersionFromRequest reads the row again and then writes all of
\* it; a row deleted since the first read is inserted anew.
VersionPatchWrite(r) ==
    /\ At(r, "version-patch", "write")
    /\ LET row == versions[Arg(r).id] IN
       IF row = NoRow THEN InsertVersion(r, Edited(r, req[r].saw.cfg))
       ELSE versions' = [versions EXCEPT ![Arg(r).id].cfg = Edited(r, @)]
    /\ Done(r) /\ KeepWorld /\ UNCHANGED <<runtimes, nbrs, deployments, verified>>

VersionUsed(v) == \E t \in Rows(runtimes) : runtimes[t].version = v

VersionDeleteRead(r) ==
    /\ At(r, "version-delete", "read")
    /\ Read(r, VersionEditable(Arg(r).id) /\ ~VersionUsed(Arg(r).id), NoRow)

\* backend_runtimes.backend_version_id REFERENCES backend_versions.
VersionReferenced(v) == \E t \in Rows(runtimes) : runtimes[t].version = v

\* The error of the DELETE is ignored and the answer is "deleted".
VersionDeleteWrite(r) ==
    /\ At(r, "version-delete", "write")
    /\ versions' = IF VersionReferenced(Arg(r).id) THEN versions ELSE [versions EXCEPT ![Arg(r).id] = NoRow]
    /\ Done(r) /\ KeepWorld /\ UNCHANGED <<runtimes, nbrs, deployments, verified>>

-----------------------------------------------------------------------------
(* Backend runtimes (runtime_handlers.go, node_runtime_handlers.go).       *)
(* uniqueRuntimeName gives every row a name of its own, so that only the   *)
(* display name is modelled.                                               *)

runtimeDisplayNameExists(name, except) == \E t \in Rows(runtimes) \ {except} : runtimes[t].display = name

\* HandleCreateBackendRuntimeFromTemplate: a copy of the version's configuration.
RuntimeCreateRead(r) ==
    /\ At(r, "runtime-create", "read")
    /\ LET v == versions[Arg(r).src] IN
       Read(r, ~runtimeDisplayNameExists(Arg(r).name, Arg(r).id) /\ v # NoRow,
            IF v = NoRow THEN NoRow ELSE [version |-> Arg(r).src, cfg |-> Edited(r, v.cfg)])

\* HandleCloneBackendRuntime: a copy of the other runtime's configuration.
RuntimeCloneRead(r) ==
    /\ At(r, "runtime-clone", "read")
    /\ LET t == runtimes[Arg(r).src] IN
       Read(r, t # NoRow /\ ~runtimeDisplayNameExists(Arg(r).name, Arg(r).id),
            IF t = NoRow THEN NoRow ELSE [version |-> t.version, cfg |-> Edited(r, t.cfg)])

RuntimeInsert(r) ==
    /\ At(r, "runtime-create", "write") \/ At(r, "runtime-clone", "write")
    /\ runtimes' = IF runtimes[Arg(r).id] = NoRow /\ versions[req[r].saw.version] # NoRow
                   THEN [runtimes EXCEPT ![Arg(r).id] = [system |-> FALSE, version |-> req[r].saw.version,
                                                         display |-> Arg(r).name, cfg |-> req[r].saw.cfg]]
                   ELSE runtimes
    /\ Done(r) /\ KeepWorld /\ UNCHANGED <<versions, nbrs, deployments, verified>>

RuntimeEditable(t) == runtimes[t] # NoRow /\ ~runtimes[t].system

\* HandlePatchBackendRuntime, and HandleConfigEditApply for a backend_runtime:
\* the configuration read is changed and written back as a whole.
RuntimePatchRead(r) ==
    /\ At(r, "runtime-patch", "read")
    /\ Read(r, RuntimeEditable(Arg(r).id) /\ ~runtimeDisplayNameExists(Arg(r).name, Arg(r).id),
            IF runtimes[Arg(r).id] = NoRow THEN NoRow ELSE Edited(r, runtimes[Arg(r).id].cfg))

RuntimePatchWrite(r) ==
    /\ At(r, "runtime-patch", "write")
    /\ runtimes' = IF runtimes[Arg(r).id] = NoRow THEN runtimes
                   ELSE [runtimes EXCEPT ![Arg(r).id].cfg = req[r].saw, ![Arg(r).id].display = Arg(r).name]
    /\ Done(r) /\ KeepWorld /\ UNCHANGED <<versions, nbrs, deployments, verified>>

RuntimeDeleteRead(r) ==
    /\ At(r, "runtime-delete", "read")
    /\ Read(r, RuntimeEditable(Arg(r).id), NoRow)

RuntimeReferenced_Never(t) == FALSE
\* node_backend_runtimes.backend_runtime_id REFERENCES backend_runtimes.  (So
\* does resolved_run_plans, whose rows belong to deployments of the NBR.)
RuntimeReferenced(t) == nbrs[t] # NoRow

RuntimeDeleteWrite(r) ==
    /\ At(r, "runtime-delete", "write")
    /\ runtimes' = IF RuntimeReferenced(Arg(r).id) THEN runtimes ELSE [runtimes EXCEPT ![Arg(r).id] = NoRow]
    /\ Done(r) /\ KeepWorld /\ UNCHANGED <<versions, nbrs, deployments, verified>>

-----------------------------------------------------------------------------
(* Node backend runtimes.  The ID of an NBR is made of its node and its    *)
(* runtime, so that one that is enabled anew has the ID of the old one.    *)

\* evaluateNodeBackendRuntime without evidence of Docker and the image: what
\* the enable handler keeps of it.
evaluateNodeBackendRuntime == IF online THEN "needs_check" ELSE "failed"

\* upsertNodeBackendRuntime.  The request's image overrides the runtime's, and
\* buildRuntimeConfigSnapshot writes it into the copy.
EnableRead(r) ==
    /\ At(r, "nbr-enable", "read")
    /\ LET t == runtimes[Arg(r).id] IN
       Read(r, t # NoRow,
            IF t = NoRow THEN NoRow
            ELSE [exists |-> nbrs[Arg(r).id] # NoRow, status |-> evaluateNodeBackendRuntime,
                  row |-> [image |-> Arg(r).val, cfg |-> setConfigValue(t.cfg, "image", Arg(r).val),
                           status |-> evaluateNodeBackendRuntime]])

\* An existing row keeps its configuration and its image.
EnableWrite(r) ==
    /\ At(r, "nbr-enable", "write")
    /\ LET n == Arg(r).id  saw == req[r].saw IN
       nbrs' = IF saw.exists /\ nbrs[n] # NoRow THEN [nbrs EXCEPT ![n].status = saw.status]
               ELSE IF ~saw.exists /\ nbrs[n] = NoRow /\ runtimes[n] # NoRow THEN [nbrs EXCEPT ![n] = saw.row]
               ELSE nbrs
    /\ Done(r) /\ KeepWorld /\ UNCHANGED <<versions, runtimes, deployments, verified>>

\* HandleRequestNodeBackendRuntimeCheck: the image is read, the agent is asked
\* (docker-images, then docker-image-inspect), the status is written.  An
\* empty image_ref falls back to the image of the runtime template.
CheckRead(r) ==
    /\ At(r, "nbr-check", "read")
    /\ LET n == nbrs[Arg(r).id]  t == runtimes[Arg(r).id]  ok == n # NoRow /\ t # NoRow IN
       Read(r, ok, IF ~ok THEN NoRow
                   ELSE [image |-> IF n.image = Empty THEN t.cfg["image"] ELSE n.image, cfg |-> n.cfg])

\* What matchBackendType finds in the tags and labels of an image: an expected
\* pattern, or none.  It never finds a mismatch.
matchBackendType == {"confirmed_match", "declared_match_unverified"}
\* Level 3 of the probe; level 4, the version, is skipped without a warning.
Level3(inspect) == IF inspect = "ok" THEN matchBackendType ELSE {"not_checked"}

\* reached: docker-images was answered.  inspect: the outcome of the image
\* inspect, which alone decides whether the image is there.
evaluateProbeStatus(reached, inspect, match) ==
    CASE ~reached -> "agent_unreachable"
      [] reached /\ inspect = "not found" -> "missing_image"
      [] reached /\ inspect = "error" -> "inspect_failed"
      [] reached /\ inspect = "ok" /\ match = "confirmed_match" -> "ready"
      [] reached /\ inspect = "ok" /\ match # "confirmed_match" -> "ready_with_warnings"

\* The agent answers, or does not.  verified records an image that was found.
CheckProbe(r) ==
    /\ At(r, "nbr-check", "write") /\ "image" \in DOMAIN req[r].saw
    /\ \E reached \in BOOLEAN, inspect \in {"ok", "not found", "error"} : \E match \in Level3(inspect) :
          /\ inspect # "error" => (inspect = "ok" <=> req[r].saw.image \in present)
          /\ req' = [req EXCEPT ![r].saw = [status |-> evaluateProbeStatus(reached, inspect, match), of |-> @]]
          /\ verified' = IF reached /\ inspect = "ok"
                         THEN [verified EXCEPT ![Arg(r).id].found = @ \cup {req[r].saw.image}] ELSE verified
    /\ KeepWorld /\ UNCHANGED tables

CheckWrite(r) ==
    /\ At(r, "nbr-check", "write") /\ "of" \in DOMAIN req[r].saw
    /\ nbrs' = IF nbrs[Arg(r).id] = NoRow THEN nbrs
               ELSE [nbrs EXCEPT ![Arg(r).id].status = req[r].saw.status]
    /\ verified' = [verified EXCEPT ![Arg(r).id].last = req[r].saw.of]
    /\ Done(r) /\ KeepWorld /\ UNCHANGED <<versions, runtimes, deployments>>

\* HandlePatchNodeBackendRuntime is one UPDATE: of the image, which may be made
\* empty, or of the status.
HandlePatchNodeBackendRuntime_KeepsStatus(r) ==
    /\ At(r, "nbr-patch", "read") \/ At(r, "nbr-disable", "read")
    /\ nbrs' = IF nbrs[Arg(r).id] = NoRow THEN nbrs
               ELSE IF req[r].op = "nbr-patch" THEN [nbrs EXCEPT ![Arg(r).id].image = Arg(r).val]
               ELSE [nbrs EXCEPT ![Arg(r).id].status = "disabled"]
    /\ Done(r) /\ KeepWorld /\ UNCHANGED <<versions, runtimes, deployments, verified>>

HandlePatchNodeBackendRuntime(r) ==
    /\ At(r, "nbr-patch", "read") \/ At(r, "nbr-disable", "read")
    /\ nbrs' = IF nbrs[Arg(r).id] = NoRow THEN nbrs
               ELSE IF req[r].op = "nbr-patch"
               THEN [nbrs EXCEPT ![Arg(r).id].image = Arg(r).val, ![Arg(r).id].status = "needs_check"]
               ELSE [nbrs EXCEPT ![Arg(r).id].status = "disabled"]
    /\ Done(r) /\ KeepWorld /\ UNCHANGED <<versions, runtimes, deployments, verified>>

\* HandleConfigEditApply for a node_backend_runtime.
NbrEditRead(r) ==
    /\ At(r, "nbr-edit", "read")
    /\ LET n == nbrs[Arg(r).id] IN Read(r, n # NoRow, IF n = NoRow THEN NoRow ELSE Edited(r, n.cfg))

NbrEditWrite(r) ==
    /\ At(r, "nbr-edit", "write")
    /\ nbrs' = IF nbrs[Arg(r).id] = NoRow THEN nbrs
               ELSE [nbrs EXCEPT ![Arg(r).id].cfg = req[r].saw, ![Arg(r).id].status = "needs_check"]
    /\ Done(r) /\ KeepWorld /\ UNCHANGED <<versions, runtimes, deployments, verified>>

\* Instances belong to deployments, so the second count of the handler finds none.
NbrUsed(n) == \E d \in Rows(deployments) : deployments[d].nbr = n

NbrDeleteRead(r) ==
    /\ At(r, "nbr-delete", "read")
    /\ Read(r, nbrs[Arg(r).id] # NoRow /\ ~NbrUsed(Arg(r).id), NoRow)

\* model_deployments has no foreign key to node_backend_runtimes.
NbrDeleteWrite(r) ==
    /\ At(r, "nbr-delete", "write")
    /\ nbrs' = [nbrs EXCEPT ![Arg(r).id] = NoRow]
    /\ Done(r) /\ KeepWorld /\ UNCHANGED <<versions, runtimes, deployments, verified>>

-----------------------------------------------------------------------------
(* The configuration of deployments *)

isNBRDeployable(n) == nbrs[n] # NoRow /\ nbrs[n].status \in {"ready", "ready_with_warnings"}

\* deploymentConfigSnapshotFromNBR: the image of the row, if it has one, goes
\* over the image of the configuration.
deploymentConfigSnapshotFromNBR(n) ==
    IF nbrs[n].image = Empty THEN nbrs[n].cfg ELSE setConfigValue(nbrs[n].cfg, "image", nbrs[n].image)

\* The items derived from the service and the placement of the deployment.
materializeDeploymentCompatConfig(cfg, service) ==
    IF service = Empty THEN cfg ELSE setConfigValue(cfg, "binding", service)

\* What HandleCreateDeployment copies, with one of config_overrides.  over: the
\* items that are not a copy of what a check of the NBR was asked for.
CopyOfNbr(r) ==
    [cfg  |-> materializeDeploymentCompatConfig(
                  Edited(r, deploymentConfigSnapshotFromNBR(Arg(r).src)), Arg(r).service),
     over |-> {Arg(r).item} \cup (IF nbrs[Arg(r).src].image = Empty THEN {"image"} ELSE {})]

DeployCreateRead_AnyStatus(r) ==
    /\ At(r, "deploy-create", "read")
    /\ LET n == nbrs[Arg(r).src] IN Read(r, n # NoRow, IF n = NoRow THEN NoRow ELSE CopyOfNbr(r))

DeployCreateRead(r) ==
    /\ At(r, "deploy-create", "read")
    /\ Read(r, isNBRDeployable(Arg(r).src), IF nbrs[Arg(r).src] = NoRow THEN NoRow ELSE CopyOfNbr(r))

DeployCreateWrite(r) ==
    /\ At(r, "deploy-create", "write")
    /\ deployments' = IF deployments[Arg(r).id] # NoRow THEN deployments
                      ELSE [deployments EXCEPT ![Arg(r).id] =
                               [nbr |-> Arg(r).src, cfg |-> req[r].saw.cfg, service |-> Arg(r).service,
                                over |-> req[r].saw.over]]
    /\ Done(r) /\ KeepWorld /\ UNCHANGED <<versions, runtimes, nbrs, verified>>

\* HandlePatchDeployment with service_json (or placement_json) and one of
\* config_overrides.  HandleConfigEditApply edits what configEditObject returns,
\* the configuration with the derived items made anew: an edit of one of these
\* is gone at the next edit of another item.
DeployPatchRead(r) ==
    /\ At(r, "deploy-patch", "read") \/ At(r, "deploy-edit", "read")
    /\ LET d == deployments[Arg(r).id] IN
       Read(r, d # NoRow,
            IF d = NoRow THEN NoRow
            ELSE IF req[r].op = "deploy-patch" THEN Edited(r, d.cfg)
            ELSE Edited(r, materializeDeploymentCompatConfig(d.cfg, d.service)))

\* The column service_json is written by HandlePatchDeployment alone.
DeployPatchWrite(r) ==
    /\ At(r, "deploy-patch", "write") \/ At(r, "deploy-edit", "write")
    /\ deployments' = IF deployments[Arg(r).id] = NoRow THEN deployments
                      ELSE [deployments EXCEPT
                               ![Arg(r).id].cfg = req[r].saw,
                               ![Arg(r).id].over = @ \cup {Arg(r).item},
                               ![Arg(r).id].service = IF req[r].op = "deploy-patch" THEN Arg(r).service ELSE @]
    /\ Done(r) /\ KeepWorld /\ UNCHANGED <<versions, runtimes, nbrs, verified>>

HandleDeleteDeployment(r) ==
    /\ At(r, "deploy-delete", "read")
    /\ deployments' = [deployments EXCEPT ![Arg(r).id] = NoRow]
    /\ Done(r) /\ KeepWorld /\ UNCHANGED <<versions, runtimes, nbrs, verified>>

\* HandleDeploymentTemplateSyncApply with the strategy preserve_overrides: the
\* differences are computed, and then the runtime's configuration is written,
\* which no check of the NBR has seen.
SyncRead(r) ==
    /\ At(r, "sync", "read")
    /\ LET d == deployments[Arg(r).id]
           t == IF d = NoRow THEN NoRow ELSE runtimes[d.nbr] IN
       Read(r, t # NoRow, IF t = NoRow THEN NoRow ELSE t.cfg)

SyncWrite(r) ==
    /\ At(r, "sync", "write")
    /\ deployments' = IF deployments[Arg(r).id] = NoRow THEN deployments
                      ELSE [deployments EXCEPT ![Arg(r).id].cfg = req[r].saw, ![Arg(r).id].over = Items]
    /\ Done(r) /\ KeepWorld /\ UNCHANGED <<versions, runtimes, nbrs, verified>>

-----------------------------------------------------------------------------
(* SeedCatalog, at the start of the server and by HandleReloadBackendCatalog: *)
(* the documents are read, and then upserted row by row, versions first.      *)
ReloadRead(r) ==
    /\ At(r, "reload", "read")
    /\ Read(r, TRUE, [rev |-> revision, todo |-> Shipped(revision) \cup SysRuntimes])

\* An INSERT that UNIQUE(backend_id, version) refuses ends the reload.
SeedVersion(r) ==
    /\ At(r, "reload", "write")
    /\ \E v \in req[r].saw.todo \cap SysVersions :
         IF \E w \in Rows(versions) \ {v} : versions[w].label = v
         THEN Done(r) /\ UNCHANGED versions
         ELSE /\ versions' = [versions EXCEPT ![v] = VersionDoc(v, req[r].saw.rev)]
              /\ req' = [req EXCEPT ![r].saw.todo = @ \ {v}]
    /\ KeepWorld /\ UNCHANGED <<runtimes, nbrs, deployments, verified>>

\* The display name is written whichever row has it already.
SeedRuntime(r) ==
    /\ At(r, "reload", "write") /\ req[r].saw.todo \cap SysVersions = {}
    /\ \E t \in req[r].saw.todo :
         /\ runtimes' = [runtimes EXCEPT ![t] = RuntimeDoc(t, req[r].saw.rev)]
         /\ req' = [req EXCEPT ![r].saw.todo = @ \ {t}]
    /\ KeepWorld /\ UNCHANGED <<versions, nbrs, deployments, verified>>

ReloadDone(r) ==
    /\ At(r, "reload", "write") /\ req[r].saw.todo = {}
    /\ Done(r) /\ KeepWorld /\ UNCHANGED <<tables, verified>>

-----------------------------------------------------------------------------
(* The world around: catalog files are replaced, the node comes and goes,  *)
(* images are pulled and removed.                                          *)
CatalogUpgrade ==
    /\ revision < load.revisions
    /\ revision' = revision + 1
    /\ UNCHANGED <<load, tables, online, present, req, verified>>

NodeStatus == "node" \in load.ops /\ online' = ~online /\ UNCHANGED <<load, revision, tables, present, req, verified>>

DockerImages == /\ "docker" \in load.ops
                /\ \E i \in load.values : present' = IF i \in present THEN present \ {i} ELSE present \cup {i}
                /\ UNCHANGED <<load, revision, tables, online, req, verified>>

\* A new row has an ID that no row has; the others name what the caller saw.
NoArg == [id |-> "-"]
VersionIds == Shipped(load.revisions) \cup load.versions
RuntimeIds == SysRuntimes \cup load.runtimes
Args(op) ==
    CASE op = "version-create" -> [id: load.versions, src: VersionIds, label: VersionIds]
      [] op = "version-patch"  -> [id: VersionIds, label: load.versions, item: load.items, val: load.values]
      [] op = "version-delete" -> [id: VersionIds]
      [] op = "runtime-create" -> [id: load.runtimes, src: VersionIds, name: load.names, item: {"image"}, val: load.values]
      [] op = "runtime-clone"  -> [id: load.runtimes, src: RuntimeIds, name: load.names, item: {"image"}, val: load.values]
      [] op = "runtime-patch"  -> [id: RuntimeIds, name: load.names, item: load.items, val: load.values]
      [] op = "runtime-delete" -> [id: RuntimeIds]
      [] op = "nbr-enable"     -> [id: RuntimeIds, val: load.values]
      [] op \in {"nbr-check", "nbr-disable", "nbr-delete"} -> [id: RuntimeIds]
      [] op = "nbr-patch"      -> [id: RuntimeIds, val: load.values \cup {Empty}]
      [] op = "nbr-edit"       -> [id: RuntimeIds, item: load.items, val: load.values]
      [] op = "deploy-create"  -> [id: Deployments, src: RuntimeIds, item: load.items, val: load.values,
                                   service: load.values \cup {Empty}]
      [] op = "deploy-patch"   -> [id: Deployments, item: load.items, val: load.values,
                                   service: load.values \cup {Empty}]
      [] op = "deploy-edit"    -> [id: Deployments, item: load.items, val: load.values]
      [] op \in {"deploy-delete", "sync"} -> [id: Deployments]
      [] OTHER -> {NoArg}

Handle(r) ==
    \/ VersionCreateRead(r) \/ VersionCreateWrite(r) \/ VersionPatchRead(r) \/ VersionPatchWrite(r)
    \/ VersionDeleteRead(r) \/ VersionDeleteWrite(r)
    \/ RuntimeCreateRead(r) \/ RuntimeCloneRead(r) \/ RuntimeInsert(r)
    \/ RuntimePatchRead(r) \/ RuntimePatchWrite(r) \/ RuntimeDeleteRead(r) \/ RuntimeDeleteWrite(r)
    \/ EnableRead(r) \/ EnableWrite(r) \/ CheckRead(r) \/ CheckProbe(r) \/ CheckWrite(r)
    \/ HandlePatchNodeBackendRuntime(r) \/ NbrEditRead(r) \/ NbrEditWrite(r)
    \/ NbrDeleteRead(r) \/ NbrDeleteWrite(r)
    \/ DeployCreateRead(r) \/ DeployCreateWrite(r) \/ DeployPatchRead(r) \/ DeployPatchWrite(r)
    \/ HandleDeleteDeployment(r) \/ SyncRead(r) \/ SyncWrite(r)
    \/ ReloadRead(r) \/ SeedVersion(r) \/ SeedRuntime(r) \/ ReloadDone(r)

Next ==
    \/ \E r \in Requests :
         \/ /\ Cardinality({x \in Requests : req[x] # Idle}) < load.slots
            /\ \E op \in load.ops \cap AllOps : \E a \in Args(op) : Accept(r, op, a)
         \/ Handle(r)
    \/ CatalogUpgrade \/ NodeStatus \/ DockerImages

Spec == Init /\ [][Next]_vars

-----------------------------------------------------------------------------
(* Properties *)

(* Requests come one at a time: no write is between another request's read *)
(* and its write.                                                          *)
OneAtATime == load.slots = 1

(* An NBR that is deployable was probed with the configuration it has now, *)
(* and, if it has an image_ref, the probe found the very image on the node *)
(* that a deployment made from it runs: editing either of them invalidates *)
(* the status.  An edit while the agent is being asked breaks this, and an *)
(* NBR without image_ref is probed with the template's image.              *)
ReadyIsVerified ==
    OneAtATime => \A n \in Runtimes : isNBRDeployable(n) =>
        /\ verified[n].last.cfg = nbrs[n].cfg
        /\ nbrs[n].image # Empty =>
              /\ verified[n].last.image = deploymentConfigSnapshotFromNBR(n)["image"]
              /\ verified[n].last.image \in verified[n].found

(* The image of a deployment that nobody has set on the deployment itself, *)
(* by an override, an edit or a synchronisation with the template, is one  *)
(* that a check of its NBR found on the node, whatever happened to the NBR *)
(* and its template since HandleCreateDeployment copied it.                *)
DeployedImageWasFound ==
    OneAtATime => \A d \in Rows(deployments) :
        "image" \notin deployments[d].over => deployments[d].cfg["image"] \in verified[deployments[d].nbr].found

(* A node backend runtime that a deployment was made from is not deleted;  *)
(* no foreign key guards a deployment inserted after the counts.           *)
DeploymentHasNbr == OneAtATime => \A d \in Rows(deployments) : nbrs[deployments[d].nbr] # NoRow

(* No two backend runtimes of users have the same display name, and none   *)
(* has that of a system runtime as long as the catalog keeps its names; the *)
(* schema does not say so, only the lookup before the INSERT.  A reload     *)
(* writes the display names of a later catalog without a lookup.            *)
DisplayNamesUnique ==
    OneAtATime => \A t, u \in Rows(runtimes) : runtimes[t].display = runtimes[u].display =>
        t = u \/ (revision > 1 /\ (runtimes[t].system \/ runtimes[u].system))

(* Rows that the catalog manages hold what a revision of the catalog files *)
(* says; no request edits or deletes one.                                  *)
SystemRowsFromCatalog ==
    /\ \A v \in SysVersions : v = FirstVersion \/ versions[v] # NoRow =>
          \E rev \in 1..revision : versions[v] = VersionDoc(v, rev)
    /\ \A t \in SysRuntimes : \E rev \in 1..revision : runtimes[t] = RuntimeDoc(t, rev)

(* Every runtime's version and every NBR's runtime exist, also when they   *)
(* are deleted while a request that has read them is under way.            *)
ReferencesHold ==
    /\ \A t \in Rows(runtimes) : versions[runtimes[t].version] # NoRow
    /\ \A n \in Rows(nbrs) : runtimes[n] # NoRow

(* The invariant of the layers: types, references that hold also when rows *)
(* are deleted under a request, system rows as the catalog files say, and, *)
(* while requests do not overlap, DeploymentHasNbr and DisplayNamesUnique. *)
CatalogInv == /\ TypeOK /\ ReferencesHold /\ SystemRowsFromCatalog
              /\ DeploymentHasNbr /\ DisplayNamesUnique
=============================================================================
