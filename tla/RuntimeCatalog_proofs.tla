------------------------ MODULE RuntimeCatalog_proofs ------------------------
(***************************************************************************)
(* What the layers of configuration guarantee for every catalog, every set *)
(* of rows and every number of overlapping requests: references hold and   *)
(* no request edits what the catalog manages.  With one request at a time, *)
(* a deployable node backend runtime was probed as it is, deployments keep *)
(* their node backend runtime and run an image that was found on its node, *)
(* and users' display names are unique.                                    *)
(***************************************************************************)
EXTENDS RuntimeCatalog, FiniteSetTheorems, TLAPS

-----------------------------------------------------------------------------
(* The inductive invariant, part by part.                                  *)

VersionRows == [system: BOOLEAN, label: Labels, cfg: Configs]
RuntimeRows == [system: BOOLEAN, version: Versions, display: Names \cup SysRuntimes, cfg: Configs]
NbrRows == [image: OrEmpty, cfg: Configs, status: NbrStatus]
DeploymentRows == [nbr: Runtimes, cfg: Configs, service: OrEmpty, over: SUBSET Items]

(* What a probe is asked for, and a row that was not probed yet.           *)
Probes == [image: Values, cfg: Configs]
Unchecked == {"needs_check", "failed"}
Ready == {"ready", "ready_with_warnings"}
VerifiedRows == [last: Probes \cup {NoRow}, found: SUBSET Values]
NewNbrs == [image: Values, cfg: Configs, status: Unchecked]

(* The tables, and the world around the server.                            *)
World ==
    load \in Workloads /\ revision \in 1..load.revisions /\ online \in BOOLEAN /\ present \subseteq Values
Tables ==
    /\ versions \in [Versions -> VersionRows \cup {NoRow}]
    /\ runtimes \in [Runtimes -> RuntimeRows \cup {NoRow}]
    /\ nbrs \in [Runtimes -> NbrRows \cup {NoRow}]
    /\ deployments \in [Deployments -> DeploymentRows \cup {NoRow}]
    /\ verified \in [Runtimes -> VerifiedRows]

(* What a handler has kept of its reads when it comes to its write: s, of  *)
(* a request op with the arguments a.  Rows that the catalog manages were  *)
(* refused by then.                                                        *)
Seen(op, a, s) ==
    /\ op \in {"version-create", "nbr-edit", "deploy-patch", "deploy-edit", "sync"} => s \in Configs
    /\ op = "deploy-create" => s \in [cfg: Configs, over: SUBSET Items]
    /\ op = "version-patch" => s \in VersionRows /\ a.id \notin SysVersions
    /\ op = "version-delete" => a.id \notin SysVersions
    /\ op \in {"runtime-create", "runtime-clone"} => s \in [version: Versions, cfg: Configs]
    /\ op = "runtime-patch" => s \in Configs /\ a.id \notin SysRuntimes
    /\ op = "runtime-delete" => a.id \notin SysRuntimes
    /\ op = "nbr-enable" => s \in [exists: BOOLEAN, status: Unchecked, row: NewNbrs]
    /\ op = "nbr-check" => s \in Probes \cup [status: NbrStatus, of: Probes]
    /\ op = "reload" => s \in [rev: 1..revision, todo: SUBSET (SysVersions \cup SysRuntimes)]

ReadReq(op, a) == [op |-> op, pc |-> "read", arg |-> a]
WriteReq(op, a, s) == [op |-> op, pc |-> "write", arg |-> a, saw |-> s]

(* A slot is free, or its request is before its read or before its write.  *)
Slots ==
    /\ DOMAIN req = Requests /\ req = [r \in Requests |-> req[r]]
    /\ \A r \in Requests :
          \/ req[r] = Idle
          \/ /\ req[r].op \in AllOps /\ Arg(r) \in Args(req[r].op)
             /\ \/ req[r] = ReadReq(req[r].op, Arg(r))
                \/ /\ req[r] = WriteReq(req[r].op, Arg(r), req[r].saw)
                   /\ Seen(req[r].op, Arg(r), req[r].saw)

(* With one slot there is at most one request.                             *)
Alone == OneAtATime => \A q, r \in Requests : req[q] # Idle /\ req[r] # Idle => q = r

(* A probe is asked for what the row of an NBR holds, and found its image. *)
Asked(row, p) == p.cfg = row.cfg /\ (row.image # Empty => p.image = row.image)
ReadyNow(row, v) == Asked(row, v.last) /\ (row.image # Empty => row.image \in v.found)
ReadyProbed == \A n \in Runtimes : isNBRDeployable(n) => ReadyNow(nbrs[n], verified[n])

(* The image of a deployment that was not set on the deployment itself.    *)
ImageFound(row) == "image" \notin row.over => row.cfg["image"] \in verified[row.nbr].found
ImagesFound == \A d \in Deployments : deployments[d] # NoRow => ImageFound(deployments[d])

(* What was read is still so at the write.                                 *)
Current(op, a, s) ==
    /\ op \in {"runtime-create", "runtime-clone", "runtime-patch"} => ~runtimeDisplayNameExists(a.name, a.id)
    /\ op = "runtime-patch" => runtimes[a.id] # NoRow
    /\ op = "nbr-check" =>
          /\ nbrs[a.id] # NoRow
          /\ "of" \notin DOMAIN s => Asked(nbrs[a.id], s)
          /\ "of" \in DOMAIN s => /\ Asked(nbrs[a.id], s.of)
                                  /\ s.status \in Ready => s.of.image \in verified[a.id].found
    /\ op = "nbr-delete" => ~NbrUsed(a.id)
    /\ op = "deploy-create" =>
          nbrs[a.src] # NoRow /\ ("image" \notin s.over => s.cfg["image"] \in verified[a.src].found)
    /\ op \in {"deploy-patch", "deploy-edit"} =>
          deployments[a.id] # NoRow /\ (a.item # "image" => s["image"] = deployments[a.id].cfg["image"])

AllCurrent ==
    OneAtATime => \A r \in Requests :
        req[r] # Idle /\ req[r].pc = "write" => Current(req[r].op, Arg(r), req[r].saw)

Core == World /\ Tables /\ Slots /\ Alone /\ ReferencesHold /\ SystemRowsFromCatalog
Layers == OneAtATime => DisplayNamesUnique /\ DeploymentHasNbr /\ ReadyProbed /\ ImagesFound
IndInv == Core /\ AllCurrent /\ Layers

-----------------------------------------------------------------------------
(* Workloads, arguments and documents.                                     *)

(* The parts of a workload.                                                *)
LEMMA LoadType ==
    ASSUME load \in Workloads
    PROVE  /\ load.slots \in Nat /\ load.revisions \in Nat \ {0}
           /\ load.versions \subseteq UserVersions /\ load.runtimes \subseteq UserRuntimes
           /\ load.names \subseteq Names /\ load.values \subseteq Values /\ load.items \subseteq Items
BY CatalogAssumption DEF WorkloadType

(* What the path and the body of a request name.                           *)
LEMMA ArgTypes ==
    ASSUME load \in Workloads, NEW op \in AllOps, NEW a \in Args(op)
    PROVE  /\ op = "version-create" => a.id \in UserVersions /\ a.src \in Versions /\ a.label \in Labels
           /\ op = "version-patch" => /\ a.id \in Versions /\ a.label \in Labels
                                      /\ a.item \in Items /\ a.val \in Values
           /\ op = "version-delete" => a.id \in Versions
           /\ op = "runtime-create" => /\ a.id \in UserRuntimes /\ a.src \in Versions /\ a.name \in Names
                                       /\ a.item \in Items /\ a.val \in Values
           /\ op = "runtime-clone" => /\ a.id \in UserRuntimes /\ a.src \in Runtimes /\ a.name \in Names
                                      /\ a.item \in Items /\ a.val \in Values
           /\ op = "runtime-patch" => /\ a.id \in Runtimes /\ a.name \in Names
                                      /\ a.item \in Items /\ a.val \in Values
           /\ op \in {"runtime-delete", "nbr-check", "nbr-disable", "nbr-delete"} => a.id \in Runtimes
           /\ op = "nbr-enable" => a.id \in Runtimes /\ a.val \in Values
           /\ op = "nbr-patch" => a.id \in Runtimes /\ a.val \in OrEmpty
           /\ op = "nbr-edit" => a.id \in Runtimes /\ a.item \in Items /\ a.val \in Values
           /\ op = "deploy-create" => /\ a.id \in Deployments /\ a.src \in Runtimes /\ a.item \in Items
                                      /\ a.val \in Values /\ a.service \in OrEmpty
           /\ op = "deploy-patch" => /\ a.id \in Deployments /\ a.item \in Items
                                     /\ a.val \in Values /\ a.service \in OrEmpty
           /\ op = "deploy-edit" => a.id \in Deployments /\ a.item \in Items /\ a.val \in Values
           /\ op \in {"deploy-delete", "sync"} => a.id \in Deployments
<1>1. VersionIds \subseteq Versions /\ load.versions \subseteq Versions
  BY LoadType, CatalogAssumption DEF VersionIds, Versions, Shipped, FirstVersion
<1>2. RuntimeIds \subseteq Runtimes
  BY LoadType DEF RuntimeIds, Runtimes
<1>3. /\ op = "version-create" => a \in [id: load.versions, src: VersionIds, label: VersionIds]
      /\ op = "version-patch" => a \in [id: VersionIds, label: load.versions, item: load.items, val: load.values]
      /\ op = "version-delete" => a \in [id: VersionIds]
      /\ op = "runtime-create" => a \in [id: load.runtimes, src: VersionIds, name: load.names, item: {"image"}, val: load.values]
      /\ op = "runtime-clone" => a \in [id: load.runtimes, src: RuntimeIds, name: load.names, item: {"image"}, val: load.values]
      /\ op = "runtime-patch" => a \in [id: RuntimeIds, name: load.names, item: load.items, val: load.values]
  BY DEF Args
<1>4. /\ op \in {"runtime-delete", "nbr-check", "nbr-disable", "nbr-delete"} => a \in [id: RuntimeIds]
      /\ op = "nbr-enable" => a \in [id: RuntimeIds, val: load.values]
      /\ op = "nbr-patch" => a \in [id: RuntimeIds, val: load.values \cup {Empty}]
      /\ op = "nbr-edit" => a \in [id: RuntimeIds, item: load.items, val: load.values]
      /\ op = "deploy-create" => a \in [id: Deployments, src: RuntimeIds, item: load.items, val: load.values,
                                        service: load.values \cup {Empty}]
      /\ op = "deploy-patch" => a \in [id: Deployments, item: load.items, val: load.values,
                                       service: load.values \cup {Empty}]
      /\ op = "deploy-edit" => a \in [id: Deployments, item: load.items, val: load.values]
      /\ op \in {"deploy-delete", "sync"} => a \in [id: Deployments]
  BY DEF Args
<1>5. "image" \in Items /\ Labels = Versions
  BY DEF Items, Labels
<1>6. /\ op = "version-create" => a.id \in UserVersions /\ a.src \in Versions /\ a.label \in Labels
      /\ op = "version-patch" => /\ a.id \in Versions /\ a.label \in Labels
                                 /\ a.item \in Items /\ a.val \in Values
      /\ op = "version-delete" => a.id \in Versions
  BY <1>1, <1>3, <1>5, LoadType
<1>7. /\ op = "runtime-create" => /\ a.id \in UserRuntimes /\ a.src \in Versions /\ a.name \in Names
                                  /\ a.item \in Items /\ a.val \in Values
      /\ op = "runtime-clone" => /\ a.id \in UserRuntimes /\ a.src \in Runtimes /\ a.name \in Names
                                 /\ a.item \in Items /\ a.val \in Values
      /\ op = "runtime-patch" => /\ a.id \in Runtimes /\ a.name \in Names
                                 /\ a.item \in Items /\ a.val \in Values
  BY <1>1, <1>2, <1>3, <1>5, LoadType
<1>8. /\ op \in {"runtime-delete", "nbr-check", "nbr-disable", "nbr-delete"} => a.id \in Runtimes
      /\ op = "nbr-enable" => a.id \in Runtimes /\ a.val \in Values
      /\ op = "nbr-patch" => a.id \in Runtimes /\ a.val \in OrEmpty
      /\ op = "nbr-edit" => a.id \in Runtimes /\ a.item \in Items /\ a.val \in Values
      /\ op \in {"deploy-delete", "sync"} => a.id \in Deployments
  BY <1>2, <1>4, LoadType DEF OrEmpty
<1>9. /\ op = "deploy-create" => /\ a.id \in Deployments /\ a.src \in Runtimes /\ a.item \in Items
                                 /\ a.val \in Values /\ a.service \in OrEmpty
      /\ op = "deploy-patch" => /\ a.id \in Deployments /\ a.item \in Items
                                /\ a.val \in Values /\ a.service \in OrEmpty
      /\ op = "deploy-edit" => a.id \in Deployments /\ a.item \in Items /\ a.val \in Values
  BY <1>2, <1>4, LoadType DEF OrEmpty
<1> QED
  BY <1>6, <1>7, <1>8, <1>9

(* An edit of a configuration is one.                                      *)
LEMMA EditIsConfig ==
    ASSUME NEW cfg \in Configs, NEW item, NEW val \in Values
    PROVE  setConfigValue(cfg, item, val) \in Configs
BY DEF setConfigValue, Configs

(* The derived items are not the image, and other edits keep it.           *)
LEMMA KeepsImage ==
    /\ \A cfg \in Configs : \A item, val : item # "image" => setConfigValue(cfg, item, val)["image"] = cfg["image"]
    /\ \A cfg \in Configs : \A val : setConfigValue(cfg, "image", val)["image"] = val
    /\ \A cfg \in Configs : \A service \in OrEmpty :
          /\ materializeDeploymentCompatConfig(cfg, service) \in Configs
          /\ materializeDeploymentCompatConfig(cfg, service)["image"] = cfg["image"]
<1>1. "image" \in Items
  BY DEF Items
<1>2. /\ \A cfg \in Configs : \A item, val : item # "image" => setConfigValue(cfg, item, val)["image"] = cfg["image"]
      /\ \A cfg \in Configs : \A val : setConfigValue(cfg, "image", val)["image"] = val
  BY <1>1 DEF setConfigValue, Configs
<1>3. ASSUME NEW cfg \in Configs, NEW service \in OrEmpty
      PROVE  /\ materializeDeploymentCompatConfig(cfg, service) \in Configs
             /\ materializeDeploymentCompatConfig(cfg, service)["image"] = cfg["image"]
  <2>1. service = Empty \/ service \in Values
    BY DEF OrEmpty
  <2>2. CASE service = Empty
    BY <2>2 DEF materializeDeploymentCompatConfig
  <2>3. CASE service # Empty
    BY <1>2, <2>1, <2>3, EditIsConfig DEF materializeDeploymentCompatConfig
  <2> QED
    BY <2>2, <2>3
<1> QED
  BY <1>2, <1>3

(* The documents of the catalog are rows that the catalog manages.         *)
LEMMA Documents ==
    /\ FirstVersion \in SysVersions
    /\ \A rev : \A v \in SysVersions : VersionDoc(v, rev) \in VersionRows /\ VersionDoc(v, rev).system
    /\ \A rev : \A t \in SysRuntimes :
          /\ RuntimeDoc(t, rev) \in RuntimeRows /\ RuntimeDoc(t, rev).system
          /\ RuntimeDoc(t, rev).version = FirstVersion /\ (rev = 1 => RuntimeDoc(t, rev).display = t)
<1>1. FirstVersion \in SysVersions
  BY CatalogAssumption DEF FirstVersion
<1>2. FirstValue \in Values /\ (CHOOSE v \in Values : v # FirstValue) \in Values
  <2>1. FirstValue \in Values
    BY CatalogAssumption DEF FirstValue
  <2>2. \E v \in Values : v # FirstValue
    BY CatalogAssumption
  <2> QED
    BY <2>1, <2>2
<1>3. \A rev : DocConfig(rev) \in Configs
  BY <1>2 DEF DocConfig, Configs
<1>4. SysVersions \subseteq Versions /\ SysVersions \subseteq Labels
  BY DEF Versions, Labels
<1>5. \A rev : \A t \in SysRuntimes : DocDisplay(t, rev) \in Names \cup SysRuntimes /\ DocDisplay(t, 1) = t
  <2>1. LaterName \in Names
    BY CatalogAssumption DEF LaterName
  <2> QED
    BY <2>1 DEF DocDisplay
<1>6. \A rev : \A v \in SysVersions : VersionDoc(v, rev) \in VersionRows /\ VersionDoc(v, rev).system
  BY <1>3, <1>4 DEF VersionDoc, VersionRows
<1>7. \A rev : \A t \in SysRuntimes :
          /\ RuntimeDoc(t, rev) \in RuntimeRows /\ RuntimeDoc(t, rev).system
          /\ RuntimeDoc(t, rev).version = FirstVersion /\ (rev = 1 => RuntimeDoc(t, rev).display = t)
  BY <1>1, <1>3, <1>4, <1>5 DEF RuntimeDoc, RuntimeRows
<1> QED
  BY <1>1, <1>6, <1>7

(* Rows are not the absence of one.                                        *)
LEMMA RowsAreRows ==
    /\ \A x \in VersionRows : x # NoRow
    /\ \A x \in RuntimeRows : x # NoRow
    /\ \A x \in NbrRows : x # NoRow
    /\ \A x \in DeploymentRows : x # NoRow
    /\ \A x \in Probes : x # NoRow
<1>1. "cfg" \notin DOMAIN NoRow
  BY DEF NoRow
<1>2. /\ \A x \in VersionRows \cup RuntimeRows : "cfg" \in DOMAIN x
      /\ \A x \in NbrRows \cup DeploymentRows \cup Probes : "cfg" \in DOMAIN x
  BY DEF VersionRows, RuntimeRows, NbrRows, DeploymentRows, Probes
<1> QED
  BY <1>1, <1>2

(* The rows of the tables.                                                 *)
LEMMA TableRows ==
    ASSUME Tables
    PROVE  /\ \A v : v \in Rows(versions) <=> v \in Versions /\ versions[v] # NoRow
           /\ \A t : t \in Rows(runtimes) <=> t \in Runtimes /\ runtimes[t] # NoRow
           /\ \A n : n \in Rows(nbrs) <=> n \in Runtimes /\ nbrs[n] # NoRow
           /\ \A d : d \in Rows(deployments) <=> d \in Deployments /\ deployments[d] # NoRow
BY DEF Tables, Rows

(* The type invariant says less.                                           *)
LEMMA TypeFromTables == World /\ Tables /\ Slots => TypeOK
<1> SUFFICES ASSUME World, Tables, Slots
             PROVE  TypeOK
  OBVIOUS
<1>1. \A r \in Requests : req[r].op \in AllOps \cup {"none"}
  BY DEF Slots, Idle
<1>2. \A v \in Rows(versions) : versions[v] \in VersionRows
  BY TableRows DEF Tables
<1>3. \A t \in Rows(runtimes) : runtimes[t] \in RuntimeRows
  BY TableRows DEF Tables
<1>4. \A n \in Rows(nbrs) : nbrs[n] \in NbrRows
  BY TableRows DEF Tables
<1>5. \A d \in Rows(deployments) : deployments[d] \in DeploymentRows
  BY TableRows DEF Tables
<1> QED
  BY <1>1, <1>2, <1>3, <1>4, <1>5 DEF TypeOK, World, VersionRows, RuntimeRows, NbrRows, DeploymentRows

-----------------------------------------------------------------------------
(* Shapes of steps.                                                        *)

(* A value that a slot may hold.                                           *)
SlotValue(new) ==
    \/ new = Idle
    \/ \E op \in AllOps : \E a \in Args(op) :
          \/ new = ReadReq(op, a)
          \/ \E s : new = WriteReq(op, a, s) /\ Seen(op, a, s)

(* The fields of a slot.                                                   *)
LEMMA SlotFields ==
    /\ Idle.op = "none" /\ "none" \notin AllOps
    /\ \A op, a : /\ ReadReq(op, a).op = op /\ ReadReq(op, a).pc = "read" /\ ReadReq(op, a).arg = a
                  /\ op \in AllOps => ReadReq(op, a) # Idle
    /\ \A op, a, s : /\ WriteReq(op, a, s).op = op /\ WriteReq(op, a, s).pc = "write"
                     /\ WriteReq(op, a, s).arg = a /\ WriteReq(op, a, s).saw = s
                     /\ op \in AllOps => WriteReq(op, a, s) # Idle
BY DEF Idle, AllOps, ReadReq, WriteReq

(* One slot changes.                                                       *)
LEMMA OneSlot ==
    ASSUME Slots, NEW r \in Requests, NEW new, req' = [req EXCEPT ![r] = new]
    PROVE  \A q \in Requests : req'[q] = IF q = r THEN new ELSE req[q]
BY DEF Slots

(* The slots after a step of one request, or after nothing of the kind.    *)
LEMMA SlotsStep ==
    ASSUME Slots, NEW r \in Requests, NEW new, req' = [req EXCEPT ![r] = new], SlotValue(new),
           load' = load, revision' = revision
    PROVE  Slots'
<1>1. \A q \in Requests : req'[q] = IF q = r THEN new ELSE req[q]
  BY OneSlot
<1>2. \A op : Args(op)' = Args(op)
  BY DEF Args, VersionIds, RuntimeIds, Shipped
<1>3. \A op, a, s : Seen(op, a, s)' <=> Seen(op, a, s)
  BY DEF Seen
<1>4. DOMAIN req' = Requests /\ req' = [q \in Requests |-> req'[q]]
  BY DEF Slots
<1> SUFFICES ASSUME NEW q \in Requests, req'[q] # Idle
             PROVE  /\ req'[q].op \in AllOps /\ req'[q].arg \in Args(req'[q].op)
                    /\ \/ req'[q] = ReadReq(req'[q].op, req'[q].arg)
                       \/ /\ req'[q] = WriteReq(req'[q].op, req'[q].arg, req'[q].saw)
                          /\ Seen(req'[q].op, req'[q].arg, req'[q].saw)
  BY <1>2, <1>3, <1>4 DEF Slots, Arg, ReadReq, WriteReq, Idle
<1>5. CASE q = r
  BY <1>1, <1>5, SlotFields DEF SlotValue
<1>6. CASE q # r
  BY <1>1, <1>6 DEF Slots, Arg
<1> QED
  BY <1>5, <1>6

(* With one slot, no other request is under way.                           *)
LEMMA NobodyElse ==
    ASSUME Slots, Alone, NEW r \in Requests, req[r] # Idle, NEW new, req' = [req EXCEPT ![r] = new], load' = load
    PROVE  Alone' /\ (OneAtATime => \A q \in Requests : req'[q] # Idle => q = r)
BY OneSlot DEF Alone, OneAtATime

(* The last statement of a handler, as far as the slots are concerned.     *)
LEMMA DoneStep ==
    ASSUME Core, NEW r \in Requests, req[r] # Idle, Done(r), KeepWorld
    PROVE  World' /\ Slots' /\ Alone' /\ AllCurrent'
<1>1. req' = [req EXCEPT ![r] = Idle] /\ load' = load /\ revision' = revision
  BY DEF Done, KeepWorld
<1>2. Slots'
  BY <1>1, SlotsStep DEF Core, SlotValue
<1>3. World'
  BY DEF KeepWorld, World, Core
<1>4. Alone' /\ (OneAtATime => \A q \in Requests : req'[q] # Idle => q = r)
  BY <1>1, NobodyElse DEF Core
<1>5. req'[r] = Idle
  <2>1. DOMAIN req = Requests
    BY DEF Core, Slots
  <2> QED
    BY <1>1, <2>1
<1>6. AllCurrent'
  BY <1>1, <1>4, <1>5 DEF AllCurrent, OneAtATime
<1> QED
  BY <1>2, <1>3, <1>4, <1>6

(* The request of a slot before its read.                                  *)
LEMMA AtRead ==
    ASSUME Core, NEW r \in Requests, NEW op \in AllOps, At(r, op, "read")
    PROVE  req[r] = ReadReq(op, Arg(r)) /\ Arg(r) \in Args(op) /\ req[r] # Idle
BY SlotFields DEF Core, Slots, At, Arg

(* The request of a slot before its write.                                 *)
LEMMA AtWrite ==
    ASSUME Core, NEW r \in Requests, NEW op \in AllOps, At(r, op, "write")
    PROVE  /\ req[r] = WriteReq(op, Arg(r), req[r].saw) /\ Arg(r) \in Args(op) /\ req[r] # Idle
           /\ Seen(op, Arg(r), req[r].saw)
           /\ AllCurrent /\ OneAtATime => Current(op, Arg(r), req[r].saw)
<1>1. req[r].op = op /\ req[r].pc = "write" /\ req[r] # Idle
  BY SlotFields DEF At
<1>2. /\ req[r] = WriteReq(op, Arg(r), req[r].saw) /\ Arg(r) \in Args(op)
      /\ Seen(op, Arg(r), req[r].saw)
  BY <1>1, SlotFields DEF Core, Slots, Arg
<1>3. AllCurrent /\ OneAtATime => Current(op, Arg(r), req[r].saw)
  BY <1>1 DEF AllCurrent
<1> QED
  BY <1>1, <1>2, <1>3

(* What depends on the tables alone stays when they stay.                  *)
LEMMA SameTables ==
    ASSUME UNCHANGED <<tables, verified, load>>, revision > 1 => revision' > 1
    PROVE  /\ Tables => Tables'
           /\ ReferencesHold => ReferencesHold'
           /\ Layers => Layers'
           /\ \A op, a, s : Current(op, a, s)' <=> Current(op, a, s)
<1>1. UNCHANGED <<versions, runtimes, nbrs, deployments, verified, load>>
  BY DEF tables
<1>2. (Tables => Tables') /\ (ReferencesHold => ReferencesHold')
  BY <1>1 DEF Tables, ReferencesHold, Rows
<1>3. Layers => Layers'
  BY <1>1 DEF Layers, OneAtATime, DisplayNamesUnique, DeploymentHasNbr, ReadyProbed, ReadyNow, Asked,
     ImagesFound, ImageFound, isNBRDeployable, Rows
<1>4. \A op, a, s : Current(op, a, s)' <=> Current(op, a, s)
  BY <1>1 DEF Current, runtimeDisplayNameExists, NbrUsed, Asked, Rows
<1> QED
  BY <1>2, <1>3, <1>4

(* The system rows stay when they stay and no older revision comes back.   *)
LEMMA SameSystemRows ==
    ASSUME SystemRowsFromCatalog, revision \in Nat, revision' \in Nat, revision <= revision',
           \A v \in SysVersions : versions'[v] = versions[v],
           \A t \in SysRuntimes : runtimes'[t] = runtimes[t]
    PROVE  SystemRowsFromCatalog'
<1>1. 1..revision \subseteq 1..revision'
  OBVIOUS
<1>2. \A v \in SysVersions : (v = FirstVersion \/ versions[v] # NoRow) => \E rev \in 1..revision' : versions[v] = VersionDoc(v, rev)
  BY <1>1 DEF SystemRowsFromCatalog
<1>3. \A t \in SysRuntimes : \E rev \in 1..revision' : runtimes[t] = RuntimeDoc(t, rev)
  BY <1>1 DEF SystemRowsFromCatalog
<1> QED
  BY <1>2, <1>3 DEF SystemRowsFromCatalog

(* The reads of a handler: the slot is free again, or holds what the write *)
(* will use.                                                               *)
LEMMA ReadStep ==
    ASSUME IndInv, NEW r \in Requests, NEW op \in AllOps, At(r, op, "read"), NEW ok, NEW s, Read(r, ok, s),
           ok => Seen(op, Arg(r), s) /\ (OneAtATime => Current(op, Arg(r), s))
    PROVE  IndInv'
<1>0. Core /\ Slots /\ World /\ Alone /\ Tables
  BY DEF IndInv, Core
<1>1. req[r] = ReadReq(op, Arg(r)) /\ Arg(r) \in Args(op) /\ req[r] # Idle
  BY <1>0, AtRead
<1> DEFINE new == IF ok THEN WriteReq(op, Arg(r), s) ELSE Idle
<1>2. UNCHANGED <<load, revision, online, present, tables, verified>>
  BY DEF Read
<1>3. req' = [req EXCEPT ![r] = new]
  <2>1. req' = [req EXCEPT ![r] = IF ok THEN WriteReq(req[r].op, req[r].arg, s) ELSE Idle]
    BY DEF Read, WriteReq
  <2>2. req[r].op = op /\ req[r].arg = Arg(r)
    BY DEF At, Arg
  <2> QED
    BY <2>1, <2>2
<1>4. SlotValue(new)
  BY <1>1 DEF SlotValue
<1>5. (new = Idle \/ ok) /\ (new # Idle => new.op = op /\ new.arg = Arg(r) /\ new.saw = s)
  BY SlotFields
<1> HIDE DEF new
<1>6. Slots' /\ Alone' /\ World'
  BY <1>0, <1>1, <1>2, <1>3, <1>4, SlotsStep, NobodyElse DEF World
<1>7. Tables' /\ ReferencesHold' /\ Layers'
  BY <1>0, <1>2, SameTables DEF IndInv, Core
<1>8. SystemRowsFromCatalog'
  <2>1. UNCHANGED <<versions, runtimes, revision>>
    BY <1>2 DEF tables
  <2> QED
    BY <2>1 DEF IndInv, Core, SystemRowsFromCatalog
<1>9. AllCurrent'
  <2> SUFFICES ASSUME OneAtATime, NEW q \in Requests, req'[q] # Idle
               PROVE  Current(req'[q].op, req'[q].arg, req'[q].saw)
    BY <1>2, SameTables DEF AllCurrent, OneAtATime, Arg
  <2>1. q = r /\ req'[q] = new
    <3>1. \A x \in Requests : req'[x] # Idle => x = r
      BY <1>0, <1>1, <1>2, <1>3, NobodyElse
    <3>2. req'[r] = new
      BY <1>0, <1>3 DEF Slots
    <3> QED
      BY <3>1, <3>2
  <2> QED
    BY <1>5, <2>1
<1> QED
  BY <1>6, <1>7, <1>8, <1>9 DEF IndInv, Core

(* Revisions are numbers.                                                  *)
LEMMA RevisionType ==
    ASSUME World
    PROVE  revision \in Nat /\ revision >= 1
BY LoadType DEF World

(* Last statements that write a version, a runtime, an NBR, a deployment.  *)
LEMMA WriteVersions ==
    ASSUME IndInv, NEW r \in Requests, req[r] # Idle, Done(r), KeepWorld,
           UNCHANGED <<runtimes, nbrs, deployments, verified>>,
           versions' \in [Versions -> VersionRows \cup {NoRow}],
           \A v \in SysVersions : versions'[v] = versions[v],
           \A t \in Rows(runtimes) : versions'[runtimes[t].version] # NoRow
    PROVE  IndInv'
<1>1. World' /\ Slots' /\ Alone' /\ AllCurrent'
  BY DoneStep DEF IndInv
<1>2. Tables'
  BY DEF IndInv, Core, Tables
<1>3. ReferencesHold'
  BY DEF IndInv, Core, ReferencesHold, Rows
<1>4. SystemRowsFromCatalog'
  BY RevisionType, SameSystemRows DEF IndInv, Core, KeepWorld
<1>5. Layers'
  BY DEF IndInv, Layers, KeepWorld, OneAtATime, DisplayNamesUnique, DeploymentHasNbr, ReadyProbed, ReadyNow,
     Asked, ImagesFound, ImageFound, isNBRDeployable, Rows
<1> QED
  BY <1>1, <1>2, <1>3, <1>4, <1>5 DEF IndInv, Core

(* A runtime's version exists, an NBR's runtime is kept.                   *)
LEMMA WriteRuntimes ==
    ASSUME IndInv, NEW r \in Requests, req[r] # Idle, Done(r), KeepWorld,
           UNCHANGED <<versions, nbrs, deployments, verified>>,
           runtimes' \in [Runtimes -> RuntimeRows \cup {NoRow}],
           \A t \in SysRuntimes : runtimes'[t] = runtimes[t],
           \A t \in Runtimes : runtimes'[t] # NoRow => versions[runtimes'[t].version] # NoRow,
           \A n \in Runtimes : nbrs[n] # NoRow => runtimes'[n] # NoRow,
           OneAtATime => DisplayNamesUnique'
    PROVE  IndInv'
<1>1. World' /\ Slots' /\ Alone' /\ AllCurrent'
  BY DoneStep DEF IndInv
<1>2. Tables'
  BY DEF IndInv, Core, Tables
<1>3. ReferencesHold'
  BY <1>2 DEF Tables, ReferencesHold, Rows
<1>4. SystemRowsFromCatalog'
  BY RevisionType, SameSystemRows DEF IndInv, Core, KeepWorld
<1>5. Layers'
  BY DEF IndInv, Layers, KeepWorld, OneAtATime, DeploymentHasNbr, ReadyProbed, ReadyNow, Asked,
     ImagesFound, ImageFound, isNBRDeployable, Rows
<1> QED
  BY <1>1, <1>2, <1>3, <1>4, <1>5 DEF IndInv, Core

(* An NBR of a runtime that exists.                                        *)
LEMMA WriteNbrs ==
    ASSUME IndInv, NEW r \in Requests, req[r] # Idle, Done(r), KeepWorld,
           UNCHANGED <<versions, runtimes, deployments>>,
           nbrs' \in [Runtimes -> NbrRows \cup {NoRow}],
           verified' \in [Runtimes -> VerifiedRows],
           \A n \in Runtimes : nbrs'[n] # NoRow => runtimes[n] # NoRow,
           OneAtATime => DeploymentHasNbr' /\ ReadyProbed' /\ ImagesFound'
    PROVE  IndInv'
<1>1. World' /\ Slots' /\ Alone' /\ AllCurrent'
  BY DoneStep DEF IndInv
<1>2. Tables'
  BY DEF IndInv, Core, Tables
<1>3. ReferencesHold'
  BY <1>2 DEF IndInv, Core, Tables, ReferencesHold, Rows
<1>4. SystemRowsFromCatalog'
  BY RevisionType, SameSystemRows DEF IndInv, Core, KeepWorld
<1>5. Layers'
  BY DEF IndInv, Layers, KeepWorld, OneAtATime, DisplayNamesUnique, Rows
<1> QED
  BY <1>1, <1>2, <1>3, <1>4, <1>5 DEF IndInv, Core

(* A deployment.                                                           *)
LEMMA WriteDeployments ==
    ASSUME IndInv, NEW r \in Requests, req[r] # Idle, Done(r), KeepWorld,
           UNCHANGED <<versions, runtimes, nbrs, verified>>,
           deployments' \in [Deployments -> DeploymentRows \cup {NoRow}],
           OneAtATime => DeploymentHasNbr' /\ ImagesFound'
    PROVE  IndInv'
<1>1. World' /\ Slots' /\ Alone' /\ AllCurrent'
  BY DoneStep DEF IndInv
<1>2. Tables'
  BY DEF IndInv, Core, Tables
<1>3. ReferencesHold'
  BY DEF IndInv, Core, ReferencesHold, Rows
<1>4. SystemRowsFromCatalog'
  BY RevisionType, SameSystemRows DEF IndInv, Core, KeepWorld
<1>5. Layers'
  BY DEF IndInv, Layers, KeepWorld, OneAtATime, DisplayNamesUnique, ReadyProbed, ReadyNow, Asked,
     isNBRDeployable, Rows
<1> QED
  BY <1>1, <1>2, <1>3, <1>4, <1>5 DEF IndInv, Core

-----------------------------------------------------------------------------
(* The handlers.                                                           *)

(* Versions.                                                               *)
LEMMA VersionHandlers ==
    ASSUME IndInv, NEW r \in Requests,
           \/ VersionCreateRead(r) \/ VersionCreateWrite(r) \/ VersionPatchRead(r) \/ VersionPatchWrite(r)
           \/ VersionDeleteRead(r) \/ VersionDeleteWrite(r)
    PROVE  IndInv'
<1> DEFINE a == Arg(r)
<1>0. /\ Core /\ AllCurrent /\ load \in Workloads /\ {"version-create", "version-patch", "version-delete"} \subseteq AllOps
      /\ versions \in [Versions -> VersionRows \cup {NoRow}]
  BY DEF IndInv, Core, World, Tables, AllOps
<1>a. \A row \in VersionRows : row.cfg \in Configs /\ row.label \in Labels /\ row.system \in BOOLEAN
  BY DEF VersionRows
<1>b. \A t \in Rows(runtimes) : runtimes[t].version \in Versions /\ versions[runtimes[t].version] # NoRow
  BY TableRows DEF IndInv, Core, Tables, RuntimeRows, ReferencesHold
<1>c. UserVersions \subseteq Versions /\ UserVersions \cap SysVersions = {} /\ SysVersions \subseteq Versions
  BY CatalogAssumption DEF Versions
<1>d. \A v \in SysVersions : versions[v] # NoRow => versions[v].system
  BY Documents DEF IndInv, Core, SystemRowsFromCatalog
<1>1. CASE VersionCreateRead(r)
  <2>1. At(r, "version-create", "read") /\ a \in Args("version-create") /\ a.src \in Versions
    BY <1>0, <1>1, AtRead, ArgTypes DEF VersionCreateRead
  <2>2. PICK s : Read(r, versions[a.src] # NoRow, s) /\ (versions[a.src] # NoRow => s = versions[a.src].cfg)
    BY <1>1 DEF VersionCreateRead
  <2>3. versions[a.src] # NoRow => Seen("version-create", a, s)
    BY <1>0, <1>a, <2>1, <2>2 DEF Seen
  <2> QED
    BY <1>0, <2>1, <2>2, <2>3, ReadStep DEF Current
<1>2. CASE VersionPatchRead(r)
  <2>1. At(r, "version-patch", "read") /\ a \in Args("version-patch") /\ a.id \in Versions
    BY <1>0, <1>2, AtRead, ArgTypes DEF VersionPatchRead
  <2>2. Read(r, VersionEditable(a.id), versions[a.id])
    BY <1>2 DEF VersionPatchRead
  <2>3. VersionEditable(a.id) => Seen("version-patch", a, versions[a.id])
    BY <1>0, <1>d, <2>1 DEF Seen, VersionEditable
  <2> QED
    BY <1>0, <2>1, <2>2, <2>3, ReadStep DEF Current
<1>3. CASE VersionDeleteRead(r)
  <2>1. At(r, "version-delete", "read") /\ a \in Args("version-delete") /\ a.id \in Versions
    BY <1>0, <1>3, AtRead, ArgTypes DEF VersionDeleteRead
  <2>2. Read(r, VersionEditable(a.id) /\ ~VersionUsed(a.id), NoRow)
    BY <1>3 DEF VersionDeleteRead
  <2>3. VersionEditable(a.id) => Seen("version-delete", a, NoRow)
    BY <1>0, <1>d, <2>1 DEF Seen, VersionEditable
  <2> QED
    BY <1>0, <2>1, <2>2, <2>3, ReadStep DEF Current
<1>4. ASSUME NEW cfg \in Configs, InsertVersion(r, cfg), a.id \in Versions \ SysVersions, a.label \in Labels
      PROVE  /\ versions' \in [Versions -> VersionRows \cup {NoRow}]
             /\ \A v \in SysVersions : versions'[v] = versions[v]
             /\ \A t \in Rows(runtimes) : versions'[runtimes[t].version] # NoRow
  <2> DEFINE new == [system |-> FALSE, label |-> a.label, cfg |-> cfg]
  <2>1. new \in VersionRows /\ new # NoRow
    BY <1>4, RowsAreRows DEF VersionRows
  <2>2. CASE UNCHANGED versions
    BY <1>0, <1>b, <2>2
  <2>3. CASE versions' = [versions EXCEPT ![a.id] = new]
    <3> HIDE DEF new, a
    <3> QED
      BY <1>0, <1>4, <1>b, <1>c, <2>1, <2>3
  <2> QED
    BY <1>4, <2>2, <2>3 DEF InsertVersion
<1>5. CASE VersionCreateWrite(r)
  <2>1. /\ At(r, "version-create", "write") /\ InsertVersion(r, req[r].saw) /\ Done(r) /\ KeepWorld
        /\ UNCHANGED <<runtimes, nbrs, deployments, verified>>
    BY <1>5 DEF VersionCreateWrite
  <2>2. a \in Args("version-create") /\ Seen("version-create", a, req[r].saw) /\ req[r] # Idle
    BY <1>0, <2>1, AtWrite
  <2>3. req[r].saw \in Configs /\ a.id \in Versions \ SysVersions /\ a.label \in Labels
    BY <1>0, <1>c, <2>2, ArgTypes DEF Seen
  <2> QED
    BY <1>4, <2>1, <2>2, <2>3, WriteVersions
<1>6. CASE VersionPatchWrite(r)
  <2>1. /\ At(r, "version-patch", "write") /\ Done(r) /\ KeepWorld
        /\ UNCHANGED <<runtimes, nbrs, deployments, verified>>
    BY <1>6 DEF VersionPatchWrite
  <2>2. a \in Args("version-patch") /\ Seen("version-patch", a, req[r].saw) /\ req[r] # Idle
    BY <1>0, <2>1, AtWrite
  <2>3. req[r].saw \in VersionRows /\ a.id \in Versions \ SysVersions /\ a.label \in Labels /\ a.val \in Values
    BY <1>0, <2>2, ArgTypes DEF Seen
  <2>4. CASE versions[a.id] = NoRow
    <3>1. InsertVersion(r, Edited(r, req[r].saw.cfg))
      BY <1>6, <2>4 DEF VersionPatchWrite
    <3>2. Edited(r, req[r].saw.cfg) \in Configs
      BY <1>a, <2>3, EditIsConfig DEF Edited
    <3> QED
      BY <1>4, <2>1, <2>2, <2>3, <3>1, <3>2, WriteVersions
  <2>5. CASE versions[a.id] # NoRow
    <3> DEFINE old == versions[a.id]
               new == [old EXCEPT !.cfg = Edited(r, @)]
    <3>1. versions' = [versions EXCEPT ![a.id] = new]
      BY <1>6, <2>5 DEF VersionPatchWrite
    <3>2. old \in VersionRows
      BY <1>0, <2>3, <2>5
    <3>3. Edited(r, old.cfg) \in Configs
      BY <1>a, <2>3, <3>2, EditIsConfig DEF Edited
    <3>4. new \in VersionRows /\ new # NoRow
      <4>1. new \in VersionRows
        <5> HIDE DEF old
        <5> QED
          BY <3>2, <3>3 DEF VersionRows
      <4> QED
        BY <4>1, RowsAreRows
    <3>5. /\ versions' \in [Versions -> VersionRows \cup {NoRow}]
          /\ \A v \in SysVersions : versions'[v] = versions[v]
          /\ \A t \in Rows(runtimes) : versions'[runtimes[t].version] # NoRow
      <4> HIDE DEF new, a
      <4> QED
        BY <1>0, <1>b, <1>c, <2>3, <3>1, <3>4
    <3> QED
      BY <2>1, <2>2, <3>5, WriteVersions
  <2> QED
    BY <2>4, <2>5
<1>7. CASE VersionDeleteWrite(r)
  <2>1. /\ At(r, "version-delete", "write") /\ Done(r) /\ KeepWorld
        /\ UNCHANGED <<runtimes, nbrs, deployments, verified>>
        /\ versions' = IF VersionReferenced(a.id) THEN versions ELSE [versions EXCEPT ![a.id] = NoRow]
    BY <1>7 DEF VersionDeleteWrite
  <2>2. a \in Args("version-delete") /\ Seen("version-delete", a, req[r].saw) /\ req[r] # Idle
    BY <1>0, <2>1, AtWrite
  <2>3. a.id \in Versions \ SysVersions
    BY <1>0, <2>2, ArgTypes DEF Seen
  <2>4. /\ versions' \in [Versions -> VersionRows \cup {NoRow}]
        /\ \A v \in SysVersions : versions'[v] = versions[v]
        /\ \A t \in Rows(runtimes) : versions'[runtimes[t].version] # NoRow
    <3>1. CASE VersionReferenced(a.id)
      BY <1>0, <1>b, <2>1, <3>1
    <3>2. CASE ~VersionReferenced(a.id)
      <4>1. \A t \in Rows(runtimes) : runtimes[t].version # a.id
        BY <3>2 DEF VersionReferenced
      <4> QED
        BY <1>0, <1>b, <1>c, <2>1, <2>3, <3>2, <4>1
    <3> QED
      BY <3>1, <3>2
  <2> QED
    BY <2>1, <2>2, <2>4, WriteVersions
<1> QED
  BY <1>1, <1>2, <1>3, <1>5, <1>6, <1>7

(* One row of the runtimes changes: display names stay unique when the new *)
(* row's name is nobody else's.                                            *)
LEMMA NamesStayUnique ==
    ASSUME Tables, DisplayNamesUnique, load' = load, revision' = revision, NEW i \in Runtimes, NEW new \in RuntimeRows \cup {NoRow},
           runtimes' = [runtimes EXCEPT ![i] = new],
           OneAtATime /\ new # NoRow => ~runtimeDisplayNameExists(new.display, i)
    PROVE  DisplayNamesUnique'
<1> SUFFICES ASSUME OneAtATime, NEW t \in Rows(runtimes'), NEW u \in Rows(runtimes'),
                    runtimes'[t].display = runtimes'[u].display
             PROVE  t = u \/ (revision > 1 /\ (runtimes'[t].system \/ runtimes'[u].system))
  BY DEF DisplayNamesUnique, OneAtATime
<1>1. /\ \A x \in Runtimes : runtimes'[x] = IF x = i THEN new ELSE runtimes[x]
      /\ DOMAIN runtimes = Runtimes /\ DOMAIN runtimes' = Runtimes
  BY DEF Tables
<1>2. t \in Runtimes /\ u \in Runtimes /\ runtimes'[t] # NoRow /\ runtimes'[u] # NoRow
  BY <1>1 DEF Rows
<1>3. \A x \in Runtimes \ {i} : runtimes'[x] # NoRow => x \in Rows(runtimes) \ {i}
  BY <1>1 DEF Rows
<1>4. CASE t = i /\ u # i
  BY <1>1, <1>2, <1>3, <1>4 DEF runtimeDisplayNameExists
<1>5. CASE t # i /\ u = i
  BY <1>1, <1>2, <1>3, <1>5 DEF runtimeDisplayNameExists
<1>6. CASE t # i /\ u # i
  BY <1>1, <1>2, <1>3, <1>6 DEF DisplayNamesUnique
<1> QED
  BY <1>4, <1>5, <1>6

(* Runtimes.                                                               *)
LEMMA RuntimeHandlers ==
    ASSUME IndInv, NEW r \in Requests,
           \/ RuntimeCreateRead(r) \/ RuntimeCloneRead(r) \/ RuntimeInsert(r)
           \/ RuntimePatchRead(r) \/ RuntimePatchWrite(r) \/ RuntimeDeleteRead(r) \/ RuntimeDeleteWrite(r)
    PROVE  IndInv'
<1> DEFINE a == Arg(r)
<1>0. /\ Core /\ AllCurrent /\ Tables /\ load \in Workloads
      /\ {"runtime-create", "runtime-clone", "runtime-patch", "runtime-delete"} \subseteq AllOps
      /\ versions \in [Versions -> VersionRows \cup {NoRow}]
      /\ runtimes \in [Runtimes -> RuntimeRows \cup {NoRow}]
  BY DEF IndInv, Core, World, Tables, AllOps
<1>a. \A row \in VersionRows : row.cfg \in Configs
  BY DEF VersionRows
<1>b. \A row \in RuntimeRows : row.cfg \in Configs /\ row.version \in Versions
  BY DEF RuntimeRows
<1>c. UserRuntimes \subseteq Runtimes /\ UserRuntimes \cap SysRuntimes = {} /\ SysRuntimes \subseteq Runtimes
  BY CatalogAssumption DEF Runtimes
<1>d. \A t \in SysRuntimes : runtimes[t].system
  BY Documents DEF IndInv, Core, SystemRowsFromCatalog
<1>e. /\ \A t \in Runtimes : runtimes[t] # NoRow => versions[runtimes[t].version] # NoRow
      /\ \A n \in Runtimes : nbrs[n] # NoRow => runtimes[n] # NoRow
  BY <1>0, TableRows DEF IndInv, Core, ReferencesHold
<1>f. DisplayNamesUnique
  BY DEF IndInv, Layers, DisplayNamesUnique
<1>1. CASE RuntimeCreateRead(r)
  <2>1. /\ At(r, "runtime-create", "read") /\ a \in Args("runtime-create") /\ a.src \in Versions
        /\ a.val \in Values
    BY <1>0, <1>1, AtRead, ArgTypes DEF RuntimeCreateRead
  <2> DEFINE ok == ~runtimeDisplayNameExists(a.name, a.id) /\ versions[a.src] # NoRow
  <2>2. PICK s : Read(r, ok, s) /\ (versions[a.src] # NoRow =>
                     s = [version |-> a.src, cfg |-> Edited(r, versions[a.src].cfg)])
    BY <1>1 DEF RuntimeCreateRead
  <2>3. versions[a.src] # NoRow => Edited(r, versions[a.src].cfg) \in Configs
    BY <1>0, <1>a, <2>1, EditIsConfig DEF Edited
  <2>4. ok => Seen("runtime-create", a, s) /\ Current("runtime-create", a, s)
    BY <2>1, <2>2, <2>3 DEF Seen, Current
  <2> QED
    BY <1>0, <2>1, <2>2, <2>4, ReadStep
<1>2. CASE RuntimeCloneRead(r)
  <2>1. /\ At(r, "runtime-clone", "read") /\ a \in Args("runtime-clone") /\ a.src \in Runtimes
        /\ a.val \in Values
    BY <1>0, <1>2, AtRead, ArgTypes DEF RuntimeCloneRead
  <2> DEFINE ok == runtimes[a.src] # NoRow /\ ~runtimeDisplayNameExists(a.name, a.id)
  <2>2. PICK s : Read(r, ok, s) /\ (runtimes[a.src] # NoRow =>
                     s = [version |-> runtimes[a.src].version, cfg |-> Edited(r, runtimes[a.src].cfg)])
    BY <1>2 DEF RuntimeCloneRead
  <2>3. runtimes[a.src] # NoRow => Edited(r, runtimes[a.src].cfg) \in Configs /\ runtimes[a.src].version \in Versions
    BY <1>0, <1>b, <2>1, EditIsConfig DEF Edited
  <2>4. ok => Seen("runtime-clone", a, s) /\ Current("runtime-clone", a, s)
    BY <2>1, <2>2, <2>3 DEF Seen, Current
  <2> QED
    BY <1>0, <2>1, <2>2, <2>4, ReadStep
<1>3. CASE RuntimePatchRead(r)
  <2>1. /\ At(r, "runtime-patch", "read") /\ a \in Args("runtime-patch") /\ a.id \in Runtimes
        /\ a.val \in Values
    BY <1>0, <1>3, AtRead, ArgTypes DEF RuntimePatchRead
  <2> DEFINE ok == RuntimeEditable(a.id) /\ ~runtimeDisplayNameExists(a.name, a.id)
  <2>2. PICK s : Read(r, ok, s) /\ (runtimes[a.id] # NoRow => s = setConfigValue(runtimes[a.id].cfg, a.item, a.val))
    BY <1>3 DEF RuntimePatchRead, Edited
  <2>3. runtimes[a.id] # NoRow => setConfigValue(runtimes[a.id].cfg, a.item, a.val) \in Configs
    BY <1>0, <1>b, <2>1, EditIsConfig
  <2>4. ok => Seen("runtime-patch", a, s) /\ Current("runtime-patch", a, s)
    BY <1>d, <2>1, <2>2, <2>3 DEF Seen, Current, RuntimeEditable
  <2> QED
    BY <1>0, <2>1, <2>2, <2>4, ReadStep
<1>4. CASE RuntimeDeleteRead(r)
  <2>1. At(r, "runtime-delete", "read") /\ a \in Args("runtime-delete") /\ a.id \in Runtimes
    BY <1>0, <1>4, AtRead, ArgTypes DEF RuntimeDeleteRead
  <2>2. Read(r, RuntimeEditable(a.id), NoRow)
    BY <1>4 DEF RuntimeDeleteRead
  <2>3. RuntimeEditable(a.id) => Seen("runtime-delete", a, NoRow) /\ Current("runtime-delete", a, NoRow)
    BY <1>d, <2>1 DEF Seen, Current, RuntimeEditable
  <2> QED
    BY <1>0, <2>1, <2>2, <2>3, ReadStep
<1>5. ASSUME req[r] # Idle, Done(r), KeepWorld, UNCHANGED <<versions, nbrs, deployments, verified>>,
             NEW i \in Runtimes \ SysRuntimes, NEW new \in RuntimeRows \cup {NoRow},
             runtimes' = [runtimes EXCEPT ![i] = new],
             new # NoRow => versions[new.version] # NoRow,
             new = NoRow => nbrs[i] = NoRow,
             OneAtATime /\ new # NoRow => ~runtimeDisplayNameExists(new.display, i)
      PROVE  IndInv'
  <2>1. \A x \in Runtimes : runtimes'[x] = IF x = i THEN new ELSE runtimes[x]
    BY <1>0, <1>5
  <2>2. runtimes' \in [Runtimes -> RuntimeRows \cup {NoRow}]
    BY <1>0, <1>5
  <2>3. DisplayNamesUnique'
    BY <1>0, <1>5, <1>f, NamesStayUnique DEF KeepWorld
  <2>4. \A t \in SysRuntimes : runtimes'[t] = runtimes[t]
    BY <1>c, <2>1
  <2>5. /\ \A t \in Runtimes : runtimes'[t] # NoRow => versions[runtimes'[t].version] # NoRow
        /\ \A n \in Runtimes : nbrs[n] # NoRow => runtimes'[n] # NoRow
    BY <1>5, <1>e, <2>1
  <2> QED
    BY <1>5, <2>2, <2>3, <2>4, <2>5, WriteRuntimes
<1>6. ASSUME req[r] # Idle, Done(r), KeepWorld, UNCHANGED <<runtimes, versions, nbrs, deployments, verified>>
      PROVE  IndInv'
  <2>1. DisplayNamesUnique'
    BY <1>6, <1>f DEF DisplayNamesUnique, OneAtATime, KeepWorld
  <2> QED
    BY <1>0, <1>6, <1>e, <2>1, WriteRuntimes
<1>7. CASE RuntimeInsert(r)
  <2> DEFINE s == req[r].saw
             new == [system |-> FALSE, version |-> s.version, display |-> a.name, cfg |-> s.cfg]
  <2>1. /\ Done(r) /\ KeepWorld /\ UNCHANGED <<versions, nbrs, deployments, verified>>
        /\ runtimes' = IF runtimes[a.id] = NoRow /\ versions[s.version] # NoRow
                       THEN [runtimes EXCEPT ![a.id] = new] ELSE runtimes
        /\ At(r, "runtime-create", "write") \/ At(r, "runtime-clone", "write")
    BY <1>7 DEF RuntimeInsert
  <2>2. PICK op \in {"runtime-create", "runtime-clone"} : At(r, op, "write")
    BY <2>1
  <2>3. a \in Args(op) /\ Seen(op, a, s) /\ req[r] # Idle /\ (OneAtATime => Current(op, a, s))
    BY <1>0, <2>2, AtWrite
  <2>4. s \in [version: Versions, cfg: Configs] /\ a.id \in UserRuntimes /\ a.name \in Names
    BY <1>0, <2>2, <2>3, ArgTypes DEF Seen
  <2>5. new \in RuntimeRows /\ new.version = s.version /\ new.display = a.name /\ new # NoRow
    <3>1. new \in RuntimeRows
      BY <2>4 DEF RuntimeRows
    <3> QED
      BY <3>1, RowsAreRows
  <2>6. OneAtATime => ~runtimeDisplayNameExists(a.name, a.id)
    BY <2>2, <2>3 DEF Current
  <2>7. a.id \in Runtimes \ SysRuntimes
    BY <1>c, <2>4
  <2> HIDE DEF new, s, a
  <2>8. CASE runtimes' = [runtimes EXCEPT ![a.id] = new] /\ versions[s.version] # NoRow
    BY <1>5, <2>1, <2>3, <2>5, <2>6, <2>7, <2>8
  <2>9. CASE runtimes' = runtimes
    BY <1>6, <2>1, <2>3, <2>9
  <2> QED
    BY <2>1, <2>8, <2>9
<1>8. CASE RuntimePatchWrite(r)
  <2> DEFINE s == req[r].saw
             old == runtimes[a.id]
             new == [old EXCEPT !.cfg = s, !.display = a.name]
  <2>1. /\ Done(r) /\ KeepWorld /\ UNCHANGED <<versions, nbrs, deployments, verified>>
        /\ runtimes' = IF runtimes[a.id] = NoRow THEN runtimes ELSE [runtimes EXCEPT ![a.id] = new]
        /\ At(r, "runtime-patch", "write")
    BY <1>8 DEF RuntimePatchWrite
  <2>2. /\ a \in Args("runtime-patch") /\ Seen("runtime-patch", a, s) /\ req[r] # Idle
        /\ OneAtATime => Current("runtime-patch", a, s)
    BY <1>0, <2>1, AtWrite
  <2>3. s \in Configs /\ a.id \in Runtimes \ SysRuntimes /\ a.name \in Names
    BY <1>0, <2>2, ArgTypes DEF Seen
  <2>4. OneAtATime => ~runtimeDisplayNameExists(a.name, a.id)
    BY <2>2 DEF Current
  <2>5. CASE old = NoRow
    BY <1>6, <2>1, <2>2, <2>5
  <2>6. CASE old # NoRow
    <3>1. old \in RuntimeRows /\ versions[old.version] # NoRow
      BY <1>0, <1>e, <2>3, <2>6
    <3>2. runtimes' = [runtimes EXCEPT ![a.id] = new]
      BY <2>1, <2>6
    <3> HIDE DEF old, s
    <3>3. new \in RuntimeRows /\ new.version = old.version /\ new.display = a.name
      BY <2>3, <3>1 DEF RuntimeRows
    <3>4. new # NoRow
      BY <3>3, RowsAreRows
    <3> HIDE DEF new, a
    <3> QED
      BY <1>5, <2>1, <2>2, <2>3, <2>4, <3>1, <3>2, <3>3, <3>4
  <2> QED
    BY <2>5, <2>6
<1>9. CASE RuntimeDeleteWrite(r)
  <2>1. /\ Done(r) /\ KeepWorld /\ UNCHANGED <<versions, nbrs, deployments, verified>>
        /\ runtimes' = IF RuntimeReferenced(a.id) THEN runtimes ELSE [runtimes EXCEPT ![a.id] = NoRow]
        /\ At(r, "runtime-delete", "write")
    BY <1>9 DEF RuntimeDeleteWrite
  <2>2. a \in Args("runtime-delete") /\ Seen("runtime-delete", a, req[r].saw) /\ req[r] # Idle
    BY <1>0, <2>1, AtWrite
  <2>3. a.id \in Runtimes \ SysRuntimes
    BY <1>0, <2>2, ArgTypes DEF Seen
  <2>4. CASE RuntimeReferenced(a.id)
    BY <1>6, <2>1, <2>2, <2>4
  <2>5. CASE ~RuntimeReferenced(a.id)
    BY <1>5, <2>1, <2>2, <2>3, <2>5 DEF RuntimeReferenced
  <2> QED
    BY <2>4, <2>5
<1> QED
  BY <1>1, <1>2, <1>3, <1>4, <1>7, <1>8, <1>9

(* One row of the NBRs changes: it exists with its runtime, it is not      *)
(* deployable unless the probe it shows was asked for what it holds, and   *)
(* it is not deleted under a deployment.                                   *)
LEMMA WriteOneNbr ==
    ASSUME IndInv, NEW r \in Requests, req[r] # Idle, Done(r), KeepWorld,
           UNCHANGED <<versions, runtimes, deployments>>,
           NEW i \in Runtimes, NEW new \in NbrRows \cup {NoRow}, nbrs' = [nbrs EXCEPT ![i] = new],
           NEW seen \in VerifiedRows, verified' = [verified EXCEPT ![i] = seen],
           verified[i].found \subseteq seen.found,
           new # NoRow => runtimes[i] # NoRow,
           OneAtATime /\ new # NoRow /\ new.status \in {"ready", "ready_with_warnings"} => ReadyNow(new, seen),
           OneAtATime /\ new = NoRow => ~NbrUsed(i)
    PROVE  IndInv'
<1>0. Core /\ Tables /\ Layers /\ load' = load
  BY DEF IndInv, Core, KeepWorld
<1>1. /\ \A x \in Runtimes : nbrs'[x] = IF x = i THEN new ELSE nbrs[x]
      /\ \A x \in Runtimes : verified'[x] = IF x = i THEN seen ELSE verified[x]
      /\ nbrs' \in [Runtimes -> NbrRows \cup {NoRow}]
      /\ verified' \in [Runtimes -> VerifiedRows]
      /\ \A x \in Runtimes : verified[x].found \subseteq verified'[x].found
  BY <1>0 DEF Tables
<1>2. \A n \in Runtimes : nbrs'[n] # NoRow => runtimes[n] # NoRow
  BY <1>0, <1>1, TableRows DEF Core, ReferencesHold
<1>3. DeploymentHasNbr'
  <2> SUFFICES ASSUME OneAtATime, NEW d \in Rows(deployments)
               PROVE  nbrs'[deployments[d].nbr] # NoRow
    BY <1>0 DEF DeploymentHasNbr, OneAtATime, Rows
  <2>1. deployments[d].nbr \in Runtimes /\ nbrs[deployments[d].nbr] # NoRow
    BY <1>0, TableRows DEF Layers, DeploymentHasNbr, Tables, DeploymentRows
  <2> QED
    BY <1>1, <2>1 DEF NbrUsed
<1>4. OneAtATime => ReadyProbed'
  <2> SUFFICES ASSUME OneAtATime, NEW n \in Runtimes, nbrs'[n] # NoRow,
                      nbrs'[n].status \in {"ready", "ready_with_warnings"}
               PROVE  ReadyNow(nbrs'[n], verified'[n])
    BY DEF ReadyProbed, ReadyNow, Asked, isNBRDeployable
  <2>1. CASE n = i
    BY <1>1, <2>1
  <2>2. CASE n # i
    BY <1>0, <1>1, <2>2 DEF Layers, ReadyProbed, isNBRDeployable
  <2> QED
    BY <2>1, <2>2
<1>5. OneAtATime => ImagesFound'
  <2> SUFFICES ASSUME OneAtATime, NEW d \in Deployments, deployments[d] # NoRow,
                      "image" \notin deployments[d].over
               PROVE  deployments[d].cfg["image"] \in verified'[deployments[d].nbr].found
    BY DEF ImagesFound, ImageFound
  <2>1. deployments[d].nbr \in Runtimes
    BY <1>0 DEF Tables, DeploymentRows
  <2>2. deployments[d].cfg["image"] \in verified[deployments[d].nbr].found
    BY <1>0 DEF Layers, ImagesFound, ImageFound
  <2> QED
    BY <1>1, <2>1, <2>2
<1> QED
  BY <1>0, <1>1, <1>2, <1>3, <1>4, <1>5, WriteNbrs

(* A last statement that finds nothing to write.                           *)
LEMMA WriteNothing ==
    ASSUME IndInv, NEW r \in Requests, req[r] # Idle, Done(r), KeepWorld, UNCHANGED <<tables, verified>>
    PROVE  IndInv'
<1>1. World' /\ Slots' /\ Alone' /\ AllCurrent'
  BY DoneStep DEF IndInv
<1>2. load' = load /\ UNCHANGED <<versions, runtimes, revision>>
  BY DEF KeepWorld, tables
<1>3. Tables' /\ ReferencesHold' /\ Layers'
  BY <1>2, SameTables DEF IndInv, Core
<1>4. SystemRowsFromCatalog'
  BY <1>2 DEF IndInv, Core, SystemRowsFromCatalog
<1> QED
  BY <1>1, <1>3, <1>4 DEF IndInv, Core

(* The rows of NBRs, and the status before a check.                        *)
LEMMA NbrFields ==
    /\ \A x \in NbrRows : x.image \in OrEmpty /\ x.cfg \in Configs /\ x.status \in NbrStatus
    /\ \A x \in NewNbrs : x \in NbrRows /\ x.status \notin {"ready", "ready_with_warnings"}
    /\ \A x \in NbrRows : \A st \in NbrStatus :
          LET y == [x EXCEPT !.status = st] IN
            y \in NbrRows /\ y.status = st /\ y.image = x.image /\ y.cfg = x.cfg
    /\ \A x \in Probes : x.image \in Values /\ x.cfg \in Configs /\ x = [image |-> x.image, cfg |-> x.cfg]
<1>1. Unchecked \subseteq NbrStatus /\ \A st \in Unchecked : st \notin {"ready", "ready_with_warnings"}
  BY DEF Unchecked, NbrStatus
<1>2. \A x \in NewNbrs : x \in NbrRows /\ x.status \notin {"ready", "ready_with_warnings"}
  BY <1>1 DEF NewNbrs, NbrRows, OrEmpty
<1>3. \A x \in NbrRows : \A st \in NbrStatus :
          LET y == [x EXCEPT !.status = st] IN
            y \in NbrRows /\ y.status = st /\ y.image = x.image /\ y.cfg = x.cfg
  BY DEF NbrRows
<1>4. \A x \in Probes : x.image \in Values /\ x.cfg \in Configs /\ x = [image |-> x.image, cfg |-> x.cfg]
  BY DEF Probes
<1> QED
  BY <1>2, <1>3, <1>4 DEF NbrRows

(* What evaluateProbeStatus answers.                                       *)
LEMMA ProbeStatus ==
    ASSUME NEW reached \in BOOLEAN, NEW inspect \in {"ok", "not found", "error"}, NEW match
    PROVE  /\ evaluateProbeStatus(reached, inspect, match) \in NbrStatus
           /\ evaluateProbeStatus(reached, inspect, match) \in Ready => reached /\ inspect = "ok"
BY DEF evaluateProbeStatus, NbrStatus, Ready

(* A handler that changes one NBR and asked no probe for it.               *)
LEMMA WriteUnprobed ==
    ASSUME IndInv, NEW r \in Requests, req[r] # Idle, Done(r), KeepWorld,
           UNCHANGED <<versions, runtimes, deployments, verified>>,
           NEW i \in Runtimes, NEW new \in NbrRows \cup {NoRow}, nbrs' = [nbrs EXCEPT ![i] = new],
           new # NoRow => runtimes[i] # NoRow,
           new # NoRow => new.status \notin {"ready", "ready_with_warnings"},
           OneAtATime /\ new = NoRow => ~NbrUsed(i)
    PROVE  IndInv'
<1>1. PICK seen \in VerifiedRows : verified[i] = seen
  BY DEF IndInv, Core, Tables
<1>2. verified' = [verified EXCEPT ![i] = seen]
  BY <1>1 DEF IndInv, Core, Tables
<1> QED
  BY <1>1, <1>2, WriteOneNbr

(* HandleRequestNodeBackendRuntimeCheck.                                   *)
LEMMA CheckHandlers ==
    ASSUME IndInv, NEW r \in Requests, CheckRead(r) \/ CheckProbe(r) \/ CheckWrite(r)
    PROVE  IndInv'
<1> DEFINE a == Arg(r)
           s == req[r].saw
<1>0. /\ Core /\ AllCurrent /\ Tables /\ Slots /\ Alone /\ World /\ load \in Workloads /\ "nbr-check" \in AllOps
      /\ nbrs \in [Runtimes -> NbrRows \cup {NoRow}]
      /\ runtimes \in [Runtimes -> RuntimeRows \cup {NoRow}]
      /\ verified \in [Runtimes -> VerifiedRows]
  BY DEF IndInv, Core, World, Tables, AllOps
<1>1. CASE CheckRead(r)
  <2>1. At(r, "nbr-check", "read") /\ a \in Args("nbr-check") /\ a.id \in Runtimes
    BY <1>0, <1>1, AtRead, ArgTypes DEF CheckRead
  <2> DEFINE n == nbrs[a.id]
             t == runtimes[a.id]
             ok == n # NoRow /\ t # NoRow
             image == IF n.image = Empty THEN t.cfg["image"] ELSE n.image
  <2>2. PICK x : Read(r, ok, x) /\ (ok => x = [image |-> image, cfg |-> n.cfg])
    BY <1>1 DEF CheckRead
  <2>3. ok => image \in Values /\ n.cfg \in Configs
    <3>1. ok => n \in NbrRows /\ t \in RuntimeRows
      BY <1>0, <2>1
    <3>2. ok => n.image \in OrEmpty /\ n.cfg \in Configs /\ t.cfg \in Configs
      BY <3>1, NbrFields DEF RuntimeRows
    <3> QED
      BY <3>2 DEF OrEmpty, Configs, Items
  <2>4. ok => (n.image # Empty => image = n.image)
    OBVIOUS
  <2> HIDE DEF image
  <2>5. ok => /\ x \in Probes /\ "of" \notin DOMAIN x
              /\ x.cfg = n.cfg /\ (n.image # Empty => x.image = n.image)
    BY <2>2, <2>3, <2>4 DEF Probes
  <2>6. ok => Seen("nbr-check", a, x) /\ Current("nbr-check", a, x)
    BY <2>5 DEF Seen, Current, Asked
  <2> HIDE DEF ok
  <2> QED
    BY <1>0, <2>1, <2>2, <2>6, ReadStep
<1>2. ASSUME At(r, "nbr-check", "write")
      PROVE  /\ a \in Args("nbr-check") /\ a.id \in Runtimes /\ req[r] # Idle /\ req[r] = WriteReq("nbr-check", a, s)
             /\ s \in Probes \cup [status: NbrStatus, of: Probes]
             /\ OneAtATime => Current("nbr-check", a, s)
  <2>1. /\ a \in Args("nbr-check") /\ Seen("nbr-check", a, s) /\ req[r] # Idle
        /\ req[r] = WriteReq("nbr-check", a, s)
        /\ OneAtATime => Current("nbr-check", a, s)
    BY <1>0, <1>2, AtWrite
  <2> QED
    BY <1>0, <2>1, ArgTypes DEF Seen
<1>3. CASE CheckProbe(r)
  <2>1. PICK st \in NbrStatus, f \in BOOLEAN :
             /\ req' = [req EXCEPT ![r].saw = [status |-> st, of |-> @]]
             /\ verified' = IF f THEN [verified EXCEPT ![a.id].found = @ \cup {s.image}] ELSE verified
             /\ st \in Ready => f
    <3>1. PICK reached, inspect, match :
             /\ reached \in BOOLEAN /\ inspect \in {"ok", "not found", "error"}
             /\ req' = [req EXCEPT ![r].saw = [status |-> evaluateProbeStatus(reached, inspect, match), of |-> @]]
             /\ verified' = IF reached /\ inspect = "ok"
                            THEN [verified EXCEPT ![a.id].found = @ \cup {s.image}] ELSE verified
      BY <1>3 DEF CheckProbe
    <3>2. /\ evaluateProbeStatus(reached, inspect, match) \in NbrStatus
          /\ evaluateProbeStatus(reached, inspect, match) \in Ready => reached /\ inspect = "ok"
      BY <3>1, ProbeStatus
    <3> QED
      BY <3>1, <3>2
  <2>2. At(r, "nbr-check", "write") /\ "image" \in DOMAIN s /\ KeepWorld /\ UNCHANGED tables
    BY <1>3 DEF CheckProbe
  <2>3. UNCHANGED <<load, revision, online, present>> /\ UNCHANGED <<versions, runtimes, nbrs, deployments>>
    BY <2>2 DEF KeepWorld, tables
  <2>4. s \in Probes /\ "of" \notin DOMAIN s
    <3>1. \A x \in [status: NbrStatus, of: Probes] : "image" \notin DOMAIN x
      OBVIOUS
    <3>2. \A x \in Probes : "of" \notin DOMAIN x
      BY DEF Probes
    <3> QED
      BY <1>2, <2>2, <3>1, <3>2
  <2> DEFINE saw == [status |-> st, of |-> s]
             new == WriteReq("nbr-check", a, saw)
  <2>5. req' = [req EXCEPT ![r] = new]
    <3>1. [req[r] EXCEPT !.saw = saw] = new
      BY <1>2, <2>2 DEF WriteReq
    <3> QED
      BY <2>1, <3>1
  <2>a. PICK seen \in VerifiedRows : /\ verified' = [verified EXCEPT ![a.id] = seen]
                                     /\ seen.last = verified[a.id].last
                                     /\ verified[a.id].found \subseteq seen.found
                                     /\ f => s.image \in seen.found
    <3> DEFINE old == verified[a.id]
               row == [old EXCEPT !.found = @ \cup {s.image}]
    <3>1. old \in VerifiedRows /\ old.found \cup {s.image} \in SUBSET Values
      BY <1>0, <1>2, <2>2, <2>4 DEF VerifiedRows, Probes
    <3>2. CASE ~f
      <4>1. verified' = [verified EXCEPT ![a.id] = old]
        BY <1>0, <1>2, <2>1, <2>2, <3>2
      <4> QED
        BY <3>1, <3>2, <4>1
    <3>3. CASE f
      <4>1. verified' = [verified EXCEPT ![a.id] = row]
        BY <2>1, <3>3
      <4> HIDE DEF old, s
      <4>2. row \in VerifiedRows /\ row.last = old.last /\ row.found = old.found \cup {s.image}
        BY <3>1 DEF VerifiedRows
      <4> HIDE DEF row
      <4> QED
        BY <4>1, <4>2 DEF old
    <3> QED
      BY <3>2, <3>3
  <2>b. /\ \A x \in Runtimes : verified'[x] = IF x = a.id THEN seen ELSE verified[x]
        /\ verified' \in [Runtimes -> VerifiedRows] /\ a.id \in Runtimes
        /\ \A x \in Runtimes : verified'[x].last = verified[x].last /\ verified[x].found \subseteq verified'[x].found
    BY <1>0, <1>2, <2>2, <2>a
  <2>6. Seen("nbr-check", a, saw)
    BY <2>4 DEF Seen
  <2>c. PICK op0, a0, s0 : op0 = "nbr-check" /\ a0 = a /\ s0 = saw
    OBVIOUS
  <2>7. OneAtATime => Current(op0, a0, s0)'
    <3>1. OneAtATime => nbrs[a0.id] # NoRow /\ Asked(nbrs[a0.id], s)
      BY <1>2, <2>2, <2>4, <2>c DEF Current
    <3>2. DOMAIN s0 = {"status", "of"} /\ s0.of = s /\ s0.status = st
      BY <2>c
    <3>3. st \in Ready => s.image \in verified'[a0.id].found
      BY <2>1, <2>a, <2>b, <2>c
    <3>4. OneAtATime => /\ nbrs'[a0.id] # NoRow /\ "of" \in DOMAIN s0 /\ Asked(nbrs'[a0.id], s0.of)
                        /\ s0.status \in Ready => s0.of.image \in verified'[a0.id].found
      BY <2>3, <3>1, <3>2, <3>3
    <3> HIDE DEF saw, a, s
    <3> QED
      BY <2>c, <3>4 DEF Current, Asked
  <2>8. SlotValue(new)
    BY <1>0, <1>2, <2>2, <2>6 DEF SlotValue
  <2>9. new.op = "nbr-check" /\ new.arg = a /\ new.saw = saw
    BY SlotFields
  <2> HIDE DEF new, saw
  <2>10. Slots' /\ Alone' /\ World' /\ req'[r] = new
    BY <1>0, <1>2, <2>2, <2>3, <2>5, <2>8, SlotsStep, NobodyElse DEF World, Slots
  <2>11. Tables' /\ ReferencesHold' /\ Layers'
    <3>1. Tables' /\ ReferencesHold'
      BY <1>0, <2>3, <2>b DEF IndInv, Core, Tables, ReferencesHold, Rows
    <3>2. OneAtATime => ReadyProbed'
      BY <1>0, <2>3, <2>b DEF IndInv, Layers, ReadyProbed, ReadyNow, Asked, isNBRDeployable
    <3>3. OneAtATime => ImagesFound'
      <4> SUFFICES ASSUME OneAtATime, NEW d \in Deployments, deployments[d] # NoRow,
                          "image" \notin deployments[d].over
                   PROVE  deployments[d].cfg["image"] \in verified'[deployments[d].nbr].found
        BY <2>3 DEF ImagesFound, ImageFound
      <4>1. deployments[d].nbr \in Runtimes
        BY <1>0 DEF Tables, DeploymentRows
      <4>2. deployments[d].cfg["image"] \in verified[deployments[d].nbr].found
        BY DEF IndInv, Layers, ImagesFound, ImageFound
      <4> QED
        BY <2>b, <4>1, <4>2
    <3>4. OneAtATime => DisplayNamesUnique' /\ DeploymentHasNbr'
      BY <2>3 DEF IndInv, Layers, OneAtATime, DisplayNamesUnique, DeploymentHasNbr, Rows
    <3>5. OneAtATime' <=> OneAtATime
      BY <2>3 DEF OneAtATime
    <3> QED
      BY <3>1, <3>2, <3>3, <3>4, <3>5 DEF Layers
  <2>12. SystemRowsFromCatalog'
    BY <2>3 DEF IndInv, Core, SystemRowsFromCatalog
  <2>13. AllCurrent'
    <3> SUFFICES ASSUME OneAtATime, NEW q \in Requests, req'[q] # Idle
                 PROVE  Current(req[q].op, req[q].arg, req[q].saw)'
      BY <2>3 DEF AllCurrent, OneAtATime, Arg
    <3>1. q = r
      BY <1>0, <1>2, <2>2, <2>3, <2>5, NobodyElse
    <3>2. req'[q].op = "nbr-check" /\ req'[q].arg = a /\ req'[q].saw = saw
      BY <2>9, <2>10, <3>1
    <3> QED
      BY <2>7, <2>c, <3>2 DEF Current, Asked, NbrUsed, runtimeDisplayNameExists
  <2> QED
    BY <2>10, <2>11, <2>12, <2>13 DEF IndInv, Core
<1>4. CASE CheckWrite(r)
  <2>1. /\ At(r, "nbr-check", "write") /\ "of" \in DOMAIN s /\ Done(r) /\ KeepWorld
        /\ UNCHANGED <<versions, runtimes, deployments>>
        /\ verified' = [verified EXCEPT ![a.id].last = s.of]
    BY <1>4 DEF CheckWrite
  <2>2. s \in [status: NbrStatus, of: Probes] /\ s.status \in NbrStatus /\ s.of \in Probes
    <3>1. \A x \in Probes : "of" \notin DOMAIN x
      BY DEF Probes
    <3> QED
      BY <1>2, <2>1, <3>1
  <2>a. PICK seen \in VerifiedRows : /\ verified' = [verified EXCEPT ![a.id] = seen]
                                     /\ seen.last = s.of /\ seen.found = verified[a.id].found
    <3> DEFINE old == verified[a.id]
               row == [old EXCEPT !.last = s.of]
    <3>1. old \in VerifiedRows
      BY <1>0, <1>2, <2>1
    <3>2. verified' = [verified EXCEPT ![a.id] = row]
      BY <2>1
    <3> HIDE DEF old, s
    <3>3. row \in VerifiedRows /\ row.last = s.of /\ row.found = old.found
      BY <2>2, <3>1 DEF VerifiedRows
    <3> HIDE DEF row
    <3> QED
      BY <3>2, <3>3 DEF old
  <2>3. OneAtATime => /\ nbrs[a.id] # NoRow /\ Asked(nbrs[a.id], s.of)
                      /\ s.status \in Ready => s.of.image \in verified[a.id].found
    BY <1>2, <2>1 DEF Current
  <2>4. CASE nbrs[a.id] = NoRow
    <3>1. nbrs' = [nbrs EXCEPT ![a.id] = NoRow] /\ ~OneAtATime
      BY <1>0, <1>2, <1>4, <2>1, <2>3, <2>4 DEF CheckWrite
    <3> HIDE DEF a, s
    <3> QED
      BY <1>2, <2>1, <2>2, <2>a, <3>1, WriteOneNbr
  <2>5. CASE nbrs[a.id] # NoRow
    <3> DEFINE old == nbrs[a.id]
               new == [old EXCEPT !.status = s.status]
    <3>1. nbrs' = [nbrs EXCEPT ![a.id] = new]
      BY <1>4, <2>5 DEF CheckWrite
    <3>2. old \in NbrRows
      BY <1>0, <1>2, <2>1, <2>5
    <3>3. new \in NbrRows /\ new.image = old.image /\ new.cfg = old.cfg /\ new.status = s.status /\ new # NoRow
      BY <2>2, <3>2, NbrFields, RowsAreRows
    <3>4. OneAtATime /\ new.status \in {"ready", "ready_with_warnings"} => ReadyNow(new, seen)
      BY <2>3, <2>a, <3>3 DEF ReadyNow, Asked, Ready
    <3>5. runtimes[a.id] # NoRow
      BY <1>0, <1>2, <2>1, <2>5, TableRows DEF Core, ReferencesHold
    <3>6. /\ new \in NbrRows \cup {NoRow} /\ new # NoRow
          /\ verified[a.id].found \subseteq seen.found /\ a.id \in Runtimes /\ req[r] # Idle
      BY <1>2, <2>1, <2>a, <3>3
    <3>7. Done(r) /\ KeepWorld /\ UNCHANGED <<versions, runtimes, deployments>>
      BY <2>1
    <3>8. verified' = [verified EXCEPT ![a.id] = seen]
      BY <2>a
    <3> HIDE DEF new, old, a, s
    <3> QED
      BY <3>1, <3>4, <3>5, <3>6, <3>7, <3>8, WriteOneNbr
  <2> QED
    BY <2>4, <2>5
<1> QED
  BY <1>1, <1>3, <1>4

(* The other handlers of NBRs.                                             *)
LEMMA NbrHandlers ==
    ASSUME IndInv, NEW r \in Requests,
           \/ EnableRead(r) \/ EnableWrite(r) \/ HandlePatchNodeBackendRuntime(r)
           \/ NbrEditRead(r) \/ NbrEditWrite(r) \/ NbrDeleteRead(r) \/ NbrDeleteWrite(r)
    PROVE  IndInv'
<1> DEFINE a == Arg(r)
           s == req[r].saw
<1>0. /\ Core /\ AllCurrent /\ Tables /\ load \in Workloads
      /\ {"nbr-enable", "nbr-patch", "nbr-disable", "nbr-edit", "nbr-delete"} \subseteq AllOps
      /\ nbrs \in [Runtimes -> NbrRows \cup {NoRow}]
      /\ runtimes \in [Runtimes -> RuntimeRows \cup {NoRow}]
  BY DEF IndInv, Core, World, Tables, AllOps
<1>a. \A n \in Runtimes : nbrs[n] # NoRow => nbrs[n] \in NbrRows /\ runtimes[n] # NoRow
  BY <1>0, TableRows DEF Core, ReferencesHold
<1>b. {"needs_check", "failed", "disabled"} \subseteq NbrStatus /\ Unchecked = {"needs_check", "failed"}
  BY DEF NbrStatus, Unchecked
<1>c. ASSUME req[r] # Idle, Done(r), KeepWorld, UNCHANGED <<nbrs, versions, runtimes, deployments, verified>>
      PROVE  IndInv'
  BY <1>c, WriteNothing DEF tables
<1>1. CASE EnableRead(r)
  <2>1. At(r, "nbr-enable", "read") /\ a \in Args("nbr-enable") /\ a.id \in Runtimes /\ a.val \in Values
    BY <1>0, <1>1, AtRead, ArgTypes DEF EnableRead
  <2> DEFINE st == evaluateNodeBackendRuntime
             new == [image |-> a.val, cfg |-> setConfigValue(runtimes[a.id].cfg, "image", a.val), status |-> st]
  <2>2. PICK x : /\ Read(r, runtimes[a.id] # NoRow, x)
                 /\ runtimes[a.id] # NoRow => x = [exists |-> nbrs[a.id] # NoRow, status |-> st, row |-> new]
    BY <1>1 DEF EnableRead
  <2>3. st \in Unchecked
    BY DEF evaluateNodeBackendRuntime, Unchecked
  <2> HIDE DEF st
  <2>4. runtimes[a.id] # NoRow => setConfigValue(runtimes[a.id].cfg, "image", a.val) \in Configs
    BY <1>0, <2>1, EditIsConfig DEF RuntimeRows
  <2>5. runtimes[a.id] # NoRow => new \in NewNbrs
    BY <2>1, <2>3, <2>4 DEF NewNbrs
  <2> HIDE DEF new
  <2>6. runtimes[a.id] # NoRow => Seen("nbr-enable", a, x) /\ Current("nbr-enable", a, x)
    <3>1. PICK e \in BOOLEAN : e = (nbrs[a.id] # NoRow)
      OBVIOUS
    <3>2. runtimes[a.id] # NoRow => x = [exists |-> e, status |-> st, row |-> new]
      BY <2>2, <3>1
    <3>3. runtimes[a.id] # NoRow => x \in [exists: BOOLEAN, status: Unchecked, row: NewNbrs]
      BY <2>3, <2>5, <3>2
    <3> QED
      BY <3>3 DEF Seen, Current
  <2> QED
    BY <1>0, <2>1, <2>2, <2>6, ReadStep
<1>2. CASE EnableWrite(r)
  <2>1. /\ At(r, "nbr-enable", "write") /\ Done(r) /\ KeepWorld
        /\ UNCHANGED <<versions, runtimes, deployments, verified>>
    BY <1>2 DEF EnableWrite
  <2>2. a \in Args("nbr-enable") /\ a.id \in Runtimes /\ Seen("nbr-enable", a, s) /\ req[r] # Idle
    BY <1>0, <2>1, AtWrite, ArgTypes
  <2>3. s.status \in Unchecked /\ s.row \in NewNbrs
    BY <2>2 DEF Seen
  <2>4. CASE UNCHANGED nbrs
    BY <1>c, <2>1, <2>2, <2>4
  <2>5. CASE nbrs[a.id] # NoRow /\ nbrs' = [nbrs EXCEPT ![a.id].status = s.status]
    <3> DEFINE old == nbrs[a.id]
               new == [old EXCEPT !.status = s.status]
    <3>1. new \in NbrRows /\ new.status = s.status /\ nbrs' = [nbrs EXCEPT ![a.id] = new]
      BY <1>a, <1>b, <2>2, <2>3, <2>5, NbrFields
    <3>2. new.status \notin {"ready", "ready_with_warnings"} /\ new # NoRow
      BY <1>b, <2>3, <3>1, RowsAreRows
    <3> HIDE DEF new, a, s
    <3> QED
      BY <1>a, <2>1, <2>2, <2>5, <3>1, <3>2, WriteUnprobed
  <2>6. CASE runtimes[a.id] # NoRow /\ nbrs' = [nbrs EXCEPT ![a.id] = s.row]
    <3>1. s.row \in NbrRows /\ s.row # NoRow /\ s.row.status \notin {"ready", "ready_with_warnings"}
      BY <2>3, NbrFields, RowsAreRows
    <3> HIDE DEF a, s
    <3> QED
      BY <2>1, <2>2, <2>6, <3>1, WriteUnprobed
  <2> QED
    BY <1>2, <2>4, <2>5, <2>6 DEF EnableWrite
<1>3. CASE HandlePatchNodeBackendRuntime(r)
  <2>1. /\ Done(r) /\ KeepWorld /\ UNCHANGED <<versions, runtimes, deployments, verified>>
        /\ At(r, "nbr-patch", "read") \/ At(r, "nbr-disable", "read")
    BY <1>3 DEF HandlePatchNodeBackendRuntime
  <2>2. /\ a.id \in Runtimes /\ req[r] # Idle
        /\ req[r].op = "nbr-patch" => a.val \in OrEmpty
    BY <1>0, <2>1, AtRead, ArgTypes DEF At
  <2>3. CASE nbrs[a.id] = NoRow
    BY <1>3, <1>c, <2>1, <2>2, <2>3 DEF HandlePatchNodeBackendRuntime
  <2>4. CASE nbrs[a.id] # NoRow
    <3> DEFINE old == nbrs[a.id]
    <3>1. old \in NbrRows /\ runtimes[a.id] # NoRow
      BY <1>a, <2>2, <2>4
    <3>2. CASE req[r].op = "nbr-patch"
      <4> DEFINE new == [old EXCEPT !.image = a.val, !.status = "needs_check"]
      <4>1. nbrs' = [nbrs EXCEPT ![a.id] = new]
        BY <1>3, <2>4, <3>2 DEF HandlePatchNodeBackendRuntime
      <4>2. new \in NbrRows /\ new.status = "needs_check"
        <5> HIDE DEF old
        <5> QED
          BY <1>b, <2>2, <3>1, <3>2 DEF NbrRows
      <4>3. new # NoRow
        BY <4>2, RowsAreRows
      <4> HIDE DEF new, a
      <4> QED
        BY <2>1, <2>2, <3>1, <4>1, <4>2, <4>3, WriteUnprobed
    <3>3. CASE req[r].op # "nbr-patch"
      <4> DEFINE new == [old EXCEPT !.status = "disabled"]
      <4>1. nbrs' = [nbrs EXCEPT ![a.id] = new]
        BY <1>3, <2>4, <3>3 DEF HandlePatchNodeBackendRuntime
      <4>2. new \in NbrRows /\ new.status = "disabled" /\ new # NoRow
        BY <1>b, <3>1, NbrFields, RowsAreRows
      <4> HIDE DEF new, a
      <4> QED
        BY <2>1, <2>2, <3>1, <4>1, <4>2, WriteUnprobed
    <3> QED
      BY <3>2, <3>3
  <2> QED
    BY <2>3, <2>4
<1>4. CASE NbrEditRead(r)
  <2>1. At(r, "nbr-edit", "read") /\ a \in Args("nbr-edit") /\ a.id \in Runtimes /\ a.val \in Values
    BY <1>0, <1>4, AtRead, ArgTypes DEF NbrEditRead
  <2>2. PICK x : /\ Read(r, nbrs[a.id] # NoRow, x)
                 /\ nbrs[a.id] # NoRow => x = setConfigValue(nbrs[a.id].cfg, a.item, a.val)
    BY <1>4 DEF NbrEditRead, Edited
  <2>3. nbrs[a.id] # NoRow => setConfigValue(nbrs[a.id].cfg, a.item, a.val) \in Configs
    BY <1>a, <2>1, EditIsConfig, NbrFields
  <2>4. nbrs[a.id] # NoRow => Seen("nbr-edit", a, x) /\ Current("nbr-edit", a, x)
    BY <2>2, <2>3 DEF Seen, Current
  <2> QED
    BY <1>0, <2>1, <2>2, <2>4, ReadStep
<1>5. CASE NbrEditWrite(r)
  <2>1. /\ At(r, "nbr-edit", "write") /\ Done(r) /\ KeepWorld
        /\ UNCHANGED <<versions, runtimes, deployments, verified>>
    BY <1>5 DEF NbrEditWrite
  <2>2. a \in Args("nbr-edit") /\ a.id \in Runtimes /\ Seen("nbr-edit", a, s) /\ req[r] # Idle
    BY <1>0, <2>1, AtWrite, ArgTypes
  <2>3. s \in Configs
    BY <2>2 DEF Seen
  <2>4. CASE nbrs[a.id] = NoRow
    BY <1>5, <1>c, <2>1, <2>2, <2>4 DEF NbrEditWrite
  <2>5. CASE nbrs[a.id] # NoRow
    <3> DEFINE old == nbrs[a.id]
               new == [old EXCEPT !.cfg = s, !.status = "needs_check"]
    <3>1. old \in NbrRows /\ runtimes[a.id] # NoRow
      BY <1>a, <2>2, <2>5
    <3>2. nbrs' = [nbrs EXCEPT ![a.id] = new]
      BY <1>5, <2>5 DEF NbrEditWrite
    <3>3. new \in NbrRows /\ new.status = "needs_check"
      <4> HIDE DEF old, s
      <4> QED
        BY <1>b, <2>3, <3>1 DEF NbrRows
    <3>4. new # NoRow
      BY <3>3, RowsAreRows
    <3> HIDE DEF new, a
    <3> QED
      BY <2>1, <2>2, <3>1, <3>2, <3>3, <3>4, WriteUnprobed
  <2> QED
    BY <2>4, <2>5
<1>6. CASE NbrDeleteRead(r)
  <2>1. At(r, "nbr-delete", "read")
    BY <1>6 DEF NbrDeleteRead
  <2>2. Read(r, nbrs[a.id] # NoRow /\ ~NbrUsed(a.id), NoRow)
    BY <1>6 DEF NbrDeleteRead
  <2>3. ~NbrUsed(a.id) => Seen("nbr-delete", a, NoRow) /\ Current("nbr-delete", a, NoRow)
    BY DEF Seen, Current
  <2> QED
    BY <1>0, <2>1, <2>2, <2>3, ReadStep
<1>7. CASE NbrDeleteWrite(r)
  <2>1. /\ At(r, "nbr-delete", "write") /\ Done(r) /\ KeepWorld
        /\ UNCHANGED <<versions, runtimes, deployments, verified>>
        /\ nbrs' = [nbrs EXCEPT ![a.id] = NoRow]
    BY <1>7 DEF NbrDeleteWrite
  <2>2. /\ a \in Args("nbr-delete") /\ a.id \in Runtimes /\ req[r] # Idle
        /\ OneAtATime => Current("nbr-delete", a, s)
    BY <1>0, <2>1, AtWrite, ArgTypes
  <2>3. OneAtATime => ~NbrUsed(a.id)
    BY <2>2 DEF Current
  <2> HIDE DEF a
  <2> QED
    BY <2>1, <2>2, <2>3, WriteUnprobed
<1> QED
  BY <1>1, <1>2, <1>3, <1>4, <1>5, <1>6, <1>7

(* Deployments, their configuration and its synchronization.               *)
LEMMA DeploymentHandlers ==
    ASSUME IndInv, NEW r \in Requests,
           \/ DeployCreateRead(r) \/ DeployCreateWrite(r) \/ DeployPatchRead(r) \/ DeployPatchWrite(r)
           \/ HandleDeleteDeployment(r) \/ SyncRead(r) \/ SyncWrite(r)
    PROVE  IndInv'
<1> DEFINE a == Arg(r)
           s == req[r].saw
<1>0. /\ Core /\ AllCurrent /\ Tables /\ load \in Workloads
      /\ {"deploy-create", "deploy-patch", "deploy-edit", "deploy-delete", "sync"} \subseteq AllOps
      /\ nbrs \in [Runtimes -> NbrRows \cup {NoRow}]
      /\ runtimes \in [Runtimes -> RuntimeRows \cup {NoRow}]
      /\ deployments \in [Deployments -> DeploymentRows \cup {NoRow}]
  BY DEF IndInv, Core, World, Tables, AllOps
<1>a. \A x \in DeploymentRows : /\ x.cfg \in Configs /\ x.nbr \in Runtimes /\ x.over \subseteq Items
                                /\ x.service \in OrEmpty
  BY DEF DeploymentRows
<1>b. ASSUME req[r] # Idle, Done(r), KeepWorld, UNCHANGED <<nbrs, versions, runtimes, deployments, verified>>
      PROVE  IndInv'
  BY <1>b, WriteNothing DEF tables
<1>c. ASSUME req[r] # Idle, Done(r), KeepWorld, UNCHANGED <<nbrs, versions, runtimes, verified>>,
             NEW i \in Deployments, NEW new \in DeploymentRows \cup {NoRow},
             deployments' = [deployments EXCEPT ![i] = new],
             OneAtATime /\ new # NoRow => nbrs[new.nbr] # NoRow /\ ImageFound(new)
      PROVE  IndInv'
  <2>1. /\ deployments' \in [Deployments -> DeploymentRows \cup {NoRow}]
        /\ \A d \in Deployments : deployments'[d] = IF d = i THEN new ELSE deployments[d]
    BY <1>0, <1>c
  <2>2. DeploymentHasNbr'
    <3> SUFFICES ASSUME OneAtATime, NEW d \in Rows(deployments')
                 PROVE  nbrs[deployments'[d].nbr] # NoRow
      BY <1>c DEF DeploymentHasNbr, OneAtATime, KeepWorld
    <3>1. d \in Deployments /\ deployments'[d] # NoRow
      BY <2>1 DEF Rows
    <3>2. CASE d = i
      BY <1>c, <2>1, <3>1, <3>2
    <3>3. CASE d # i
      <4>1. d \in Rows(deployments) /\ deployments'[d] = deployments[d]
        BY <1>0, <2>1, <3>1, <3>3, TableRows
      <4> QED
        BY <4>1 DEF IndInv, Layers, DeploymentHasNbr
    <3> QED
      BY <3>2, <3>3
  <2>3. OneAtATime => ImagesFound'
    <3> SUFFICES ASSUME OneAtATime, NEW d \in Deployments, deployments'[d] # NoRow
                 PROVE  ImageFound(deployments'[d])
      BY <1>c DEF ImagesFound, ImageFound
    <3> QED
      BY <1>c, <2>1 DEF IndInv, Layers, ImagesFound
  <2> QED
    BY <1>c, <2>1, <2>2, <2>3, WriteDeployments
<1>d. \A d \in Deployments : OneAtATime /\ deployments[d] # NoRow =>
          nbrs[deployments[d].nbr] # NoRow /\ ImageFound(deployments[d])
  BY <1>0, TableRows DEF IndInv, Layers, DeploymentHasNbr, ImagesFound
<1>1. CASE DeployCreateRead(r)
  <2>1. /\ At(r, "deploy-create", "read") /\ a \in Args("deploy-create") /\ a.src \in Runtimes
        /\ a.item \in Items /\ a.val \in Values /\ a.service \in OrEmpty
    BY <1>0, <1>1, AtRead, ArgTypes DEF DeployCreateRead
  <2> DEFINE n == nbrs[a.src]
             base == deploymentConfigSnapshotFromNBR(a.src)
             edit == setConfigValue(base, a.item, a.val)
             cfg == materializeDeploymentCompatConfig(edit, a.service)
             over == {a.item} \cup (IF n.image = Empty THEN {"image"} ELSE {})
  <2>2. PICK x : Read(r, isNBRDeployable(a.src), x) /\ (n # NoRow => x = [cfg |-> cfg, over |-> over])
    BY <1>1 DEF DeployCreateRead, CopyOfNbr, Edited
  <2>3. ASSUME n # NoRow
        PROVE  /\ n \in NbrRows /\ base \in Configs /\ edit \in Configs /\ cfg \in Configs /\ over \in SUBSET Items
               /\ "image" \notin over => n.image # Empty /\ cfg["image"] = n.image
    <3>1. n \in NbrRows /\ n.image \in OrEmpty /\ n.cfg \in Configs
      BY <1>0, <2>1, <2>3, NbrFields
    <3>2. base = IF n.image = Empty THEN n.cfg ELSE setConfigValue(n.cfg, "image", n.image)
      BY DEF deploymentConfigSnapshotFromNBR
    <3>3. base \in Configs /\ (n.image # Empty => base["image"] = n.image)
      BY <3>1, <3>2, EditIsConfig, KeepsImage DEF OrEmpty
    <3>4. over \in SUBSET Items /\ ("image" \notin over => n.image # Empty /\ a.item # "image")
      BY <2>1 DEF Items
    <3> HIDE DEF base, n, a, over
    <3>5. edit \in Configs /\ (a.item # "image" => edit["image"] = base["image"])
      BY <2>1, <3>3, EditIsConfig, KeepsImage
    <3> HIDE DEF edit
    <3>6. cfg \in Configs /\ cfg["image"] = edit["image"]
      BY <2>1, <3>5, KeepsImage
    <3> HIDE DEF cfg
    <3> QED
      BY <3>1, <3>3, <3>4, <3>5, <3>6
  <2>4. ASSUME isNBRDeployable(a.src)
        PROVE  Seen("deploy-create", a, x) /\ (OneAtATime => Current("deploy-create", a, x))
    <3>1. n # NoRow
      BY <2>4 DEF isNBRDeployable
    <3>2. OneAtATime => (n.image # Empty => n.image \in verified[a.src].found)
      BY <2>1, <2>4 DEF IndInv, Layers, ReadyProbed, ReadyNow
    <3> HIDE DEF cfg, over, edit, base
    <3>3. x.cfg = cfg /\ x.over = over /\ x \in [cfg: Configs, over: SUBSET Items]
      BY <2>2, <2>3, <3>1
    <3>4. OneAtATime => ("image" \notin x.over => x.cfg["image"] \in verified[a.src].found)
      BY <2>3, <3>1, <3>2, <3>3
    <3> HIDE DEF a
    <3>5. Seen("deploy-create", a, x)
      BY <3>3 DEF Seen
    <3>6. OneAtATime => Current("deploy-create", a, x)
      BY <3>1, <3>4 DEF Current
    <3> QED
      BY <3>5, <3>6
  <2> HIDE DEF n, base, edit, cfg, over
  <2> QED
    BY <1>0, <2>1, <2>2, <2>4, ReadStep
<1>2. CASE DeployCreateWrite(r)
  <2> DEFINE new == [nbr |-> a.src, cfg |-> s.cfg, service |-> a.service, over |-> s.over]
  <2>1. /\ At(r, "deploy-create", "write") /\ Done(r) /\ KeepWorld /\ UNCHANGED <<versions, runtimes, nbrs, verified>>
        /\ deployments' = IF deployments[a.id] # NoRow THEN deployments
                          ELSE [deployments EXCEPT ![a.id] = new]
    BY <1>2 DEF DeployCreateWrite
  <2>2. /\ a \in Args("deploy-create") /\ a.id \in Deployments /\ a.src \in Runtimes /\ req[r] # Idle
        /\ a.service \in OrEmpty
        /\ Seen("deploy-create", a, s) /\ (OneAtATime => Current("deploy-create", a, s))
    BY <1>0, <2>1, AtWrite, ArgTypes
  <2>3. /\ s.cfg \in Configs /\ s.over \in SUBSET Items
        /\ OneAtATime => nbrs[a.src] # NoRow /\ ("image" \notin s.over => s.cfg["image"] \in verified[a.src].found)
    BY <2>2 DEF Seen, Current
  <2>4. new \in DeploymentRows /\ new.nbr = a.src /\ (OneAtATime => ImageFound(new))
    BY <2>2, <2>3 DEF DeploymentRows, ImageFound
  <2> HIDE DEF new, a
  <2> QED
    BY <1>b, <1>c, <2>1, <2>2, <2>3, <2>4
<1>3. CASE DeployPatchRead(r)
  <2>1. PICK op \in {"deploy-patch", "deploy-edit"} : op = req[r].op /\ At(r, op, "read")
    BY <1>3 DEF DeployPatchRead, At
  <2>2. op \in AllOps /\ a \in Args(op) /\ a.id \in Deployments /\ a.item \in Items /\ a.val \in Values
    <3>1. op \in AllOps /\ a \in Args(op)
      BY <1>0, <2>1, AtRead
    <3> QED
      BY <1>0, <2>1, <3>1, ArgTypes
  <2> DEFINE d == deployments[a.id]
             base == IF op = "deploy-patch" THEN d.cfg ELSE materializeDeploymentCompatConfig(d.cfg, d.service)
             edit == setConfigValue(base, a.item, a.val)
  <2>3. PICK x : Read(r, d # NoRow, x) /\ (d # NoRow => x = edit)
    BY <1>3, <2>1 DEF DeployPatchRead, Edited
  <2>4. ASSUME d # NoRow
        PROVE  edit \in Configs /\ (a.item # "image" => edit["image"] = d.cfg["image"])
    <3>1. d.cfg \in Configs /\ d.service \in OrEmpty
      BY <1>0, <1>a, <2>2, <2>4
    <3> HIDE DEF d
    <3>2. base \in Configs /\ base["image"] = d.cfg["image"]
      BY <3>1, KeepsImage
    <3> HIDE DEF base, a
    <3> QED
      BY <2>2, <3>2, EditIsConfig, KeepsImage
  <2>5. d # NoRow => Seen(op, a, x) /\ (OneAtATime => Current(op, a, x))
    <3> HIDE DEF edit, a
    <3> QED
      BY <2>1, <2>3, <2>4 DEF Seen, Current
  <2> HIDE DEF d, edit
  <2> QED
    BY <2>1, <2>2, <2>3, <2>5, ReadStep
<1>4. CASE DeployPatchWrite(r)
  <2> DEFINE old == deployments[a.id]
             service == IF req[r].op = "deploy-patch" THEN a.service ELSE old.service
             new == [old EXCEPT !.cfg = s, !.over = @ \cup {a.item},
                                !.service = IF req[r].op = "deploy-patch" THEN a.service ELSE @]
  <2>1. PICK op \in {"deploy-patch", "deploy-edit"} : op = req[r].op /\ At(r, op, "write")
    BY <1>4 DEF DeployPatchWrite, At
  <2>2. /\ Done(r) /\ KeepWorld /\ UNCHANGED <<versions, runtimes, nbrs, verified>>
        /\ deployments' = IF old = NoRow THEN deployments ELSE [deployments EXCEPT ![a.id] = new]
    BY <1>4 DEF DeployPatchWrite
  <2>3. /\ a.id \in Deployments /\ a.item \in Items /\ req[r] # Idle
        /\ op = "deploy-patch" => a.service \in OrEmpty
        /\ s \in Configs
        /\ OneAtATime /\ old # NoRow => (a.item # "image" => s["image"] = old.cfg["image"])
    <3>1. op \in AllOps /\ a \in Args(op) /\ req[r] # Idle /\ Seen(op, a, s) /\ (OneAtATime => Current(op, a, s))
      BY <1>0, <2>1, AtWrite
    <3>2. a.id \in Deployments /\ a.item \in Items /\ (op = "deploy-patch" => a.service \in OrEmpty)
      BY <1>0, <2>1, <3>1, ArgTypes
    <3>3. s \in Configs
      BY <2>1, <3>1 DEF Seen
    <3>4. OneAtATime => (a.item # "image" => s["image"] = old.cfg["image"])
      BY <2>1, <3>1 DEF Current
    <3> QED
      BY <3>1, <3>2, <3>3, <3>4
  <2>4. CASE old = NoRow
    BY <1>b, <2>2, <2>3, <2>4
  <2>5. CASE old # NoRow
    <3>1. old \in DeploymentRows /\ (OneAtATime => nbrs[old.nbr] # NoRow /\ ImageFound(old))
      BY <1>0, <1>d, <2>3, <2>5
    <3>2. service \in OrEmpty
      BY <1>a, <2>1, <2>3, <3>1
    <3>3. /\ new \in DeploymentRows /\ new.nbr = old.nbr /\ new.cfg = s /\ new.over = old.over \cup {a.item}
      <4>1. old.over \cup {a.item} \in SUBSET Items
        BY <1>a, <2>3, <3>1
      <4>2. new = [old EXCEPT !.cfg = s, !.over = @ \cup {a.item}, !.service = service]
        BY <3>1 DEF DeploymentRows
      <4> HIDE DEF old, s, a, service, new
      <4> QED
        BY <2>3, <3>1, <3>2, <4>1, <4>2 DEF DeploymentRows
    <3>4. deployments' = [deployments EXCEPT ![a.id] = new]
      BY <2>2, <2>5
    <3>5. OneAtATime => ImageFound(new)
      <4> HIDE DEF new, old, a, s
      <4> QED
        BY <2>3, <2>5, <3>1, <3>3 DEF ImageFound
    <3> HIDE DEF new, a, old
    <3> QED
      BY <1>c, <2>2, <2>3, <3>1, <3>3, <3>4, <3>5
  <2> QED
    BY <2>4, <2>5
<1>5. CASE HandleDeleteDeployment(r)
  <2>1. /\ At(r, "deploy-delete", "read") /\ Done(r) /\ KeepWorld /\ UNCHANGED <<versions, runtimes, nbrs, verified>>
        /\ deployments' = [deployments EXCEPT ![a.id] = NoRow]
    BY <1>5 DEF HandleDeleteDeployment
  <2>2. a \in Args("deploy-delete") /\ a.id \in Deployments /\ req[r] # Idle
    BY <1>0, <2>1, AtRead, ArgTypes
  <2> HIDE DEF a
  <2> QED
    BY <1>c, <2>1, <2>2
<1>6. CASE SyncRead(r)
  <2>1. At(r, "sync", "read") /\ a \in Args("sync") /\ a.id \in Deployments
    BY <1>0, <1>6, AtRead, ArgTypes DEF SyncRead
  <2> DEFINE d == deployments[a.id]
             t == IF d = NoRow THEN NoRow ELSE runtimes[d.nbr]
  <2>2. PICK x : Read(r, t # NoRow, x) /\ (t # NoRow => x = t.cfg)
    BY <1>6 DEF SyncRead
  <2>3. t # NoRow => t.cfg \in Configs
    <3> SUFFICES ASSUME t # NoRow
                 PROVE  t.cfg \in Configs
      OBVIOUS
    <3>1. d \in DeploymentRows
      BY <1>0, <2>1
    <3>2. t \in RuntimeRows
      BY <1>0, <1>a, <3>1
    <3> QED
      BY <3>2 DEF RuntimeRows
  <2> HIDE DEF t
  <2>4. t # NoRow => Seen("sync", a, x) /\ Current("sync", a, x)
    BY <2>2, <2>3 DEF Seen, Current
  <2> QED
    BY <1>0, <2>1, <2>2, <2>4, ReadStep
<1>7. CASE SyncWrite(r)
  <2> DEFINE old == deployments[a.id]
             new == [old EXCEPT !.cfg = s, !.over = Items]
  <2>1. /\ At(r, "sync", "write") /\ Done(r) /\ KeepWorld /\ UNCHANGED <<versions, runtimes, nbrs, verified>>
        /\ deployments' = IF old = NoRow THEN deployments ELSE [deployments EXCEPT ![a.id] = new]
    BY <1>7 DEF SyncWrite
  <2>2. a \in Args("sync") /\ a.id \in Deployments /\ req[r] # Idle /\ Seen("sync", a, s)
    BY <1>0, <2>1, AtWrite, ArgTypes
  <2>3. s \in Configs
    BY <2>2 DEF Seen
  <2>4. CASE old = NoRow
    BY <1>b, <2>1, <2>2, <2>4
  <2>5. CASE old # NoRow
    <3>1. old \in DeploymentRows /\ (OneAtATime => nbrs[old.nbr] # NoRow)
      BY <1>0, <1>d, <2>2, <2>5
    <3>2. new \in DeploymentRows /\ new.nbr = old.nbr /\ new.over = Items
      <4> HIDE DEF old, s
      <4> QED
        BY <2>3, <3>1 DEF DeploymentRows
    <3>3. deployments' = [deployments EXCEPT ![a.id] = new]
      BY <2>1, <2>5
    <3>4. ImageFound(new)
      BY <3>2 DEF ImageFound, Items
    <3> HIDE DEF new, a, old
    <3> QED
      BY <1>c, <2>1, <2>2, <3>1, <3>2, <3>3, <3>4
  <2> QED
    BY <2>4, <2>5
<1> QED
  BY <1>1, <1>2, <1>3, <1>4, <1>5, <1>6, <1>7

(* SeedCatalog, row by row.                                                *)
LEMMA ReloadHandlers ==
    ASSUME IndInv, NEW r \in Requests,
           ReloadRead(r) \/ SeedVersion(r) \/ SeedRuntime(r) \/ ReloadDone(r)
    PROVE  IndInv'
<1> DEFINE a == Arg(r)
           s == req[r].saw
<1>0. /\ Core /\ AllCurrent /\ Tables /\ Slots /\ Alone /\ World /\ Layers /\ SystemRowsFromCatalog
      /\ load \in Workloads /\ "reload" \in AllOps
      /\ versions \in [Versions -> VersionRows \cup {NoRow}]
      /\ runtimes \in [Runtimes -> RuntimeRows \cup {NoRow}]
      /\ SysVersions \subseteq Versions /\ SysRuntimes \subseteq Runtimes
  BY DEF IndInv, Core, World, Tables, AllOps, Versions, Runtimes
<1>1. CASE ReloadRead(r)
  <2> DEFINE x == [rev |-> revision, todo |-> Shipped(revision) \cup SysRuntimes]
  <2>1. At(r, "reload", "read") /\ Read(r, TRUE, x)
    BY <1>1 DEF ReloadRead
  <2>2. Shipped(revision) \cup SysRuntimes \in SUBSET (SysVersions \cup SysRuntimes)
    BY Documents DEF Shipped
  <2>3. revision \in 1..revision
    BY <1>0, RevisionType
  <2>4. Seen("reload", a, x) /\ Current("reload", a, x)
    BY <2>2, <2>3 DEF Seen, Current
  <2> HIDE DEF x
  <2> QED
    BY <1>0, <2>1, <2>4, ReadStep
<1>2. ASSUME At(r, "reload", "write")
      PROVE  /\ req[r] = WriteReq("reload", a, s) /\ a \in Args("reload") /\ req[r] # Idle
             /\ s \in [rev: 1..revision, todo: SUBSET (SysVersions \cup SysRuntimes)]
  BY <1>0, <1>2, AtWrite DEF Seen
<1>3. CASE ReloadDone(r)
  <2>1. At(r, "reload", "write") /\ Done(r) /\ KeepWorld /\ UNCHANGED <<tables, verified>>
    BY <1>3 DEF ReloadDone
  <2> QED
    BY <1>2, <2>1, WriteNothing
<1>4. ASSUME At(r, "reload", "write"), KeepWorld, NEW x \in SysVersions \cup SysRuntimes,
             req' = [req EXCEPT ![r].saw.todo = @ \ {x}]
      PROVE  World' /\ Slots' /\ Alone' /\ AllCurrent'
  <2> DEFINE saw == [s EXCEPT !.todo = @ \ {x}]
             new == WriteReq("reload", a, saw)
  <2>0. UNCHANGED <<load, revision, online, present>>
    BY <1>4 DEF KeepWorld
  <2>1. saw \in [rev: 1..revision, todo: SUBSET (SysVersions \cup SysRuntimes)]
    <3>1. s \in [rev: 1..revision, todo: SUBSET (SysVersions \cup SysRuntimes)]
      BY <1>2, <1>4
    <3>2. s.todo \ {x} \in SUBSET (SysVersions \cup SysRuntimes)
      BY <3>1
    <3> HIDE DEF s
    <3> QED
      BY <3>1, <3>2
  <2>2. req' = [req EXCEPT ![r] = new]
    <3>0. req[r] = WriteReq("reload", a, s)
      BY <1>2, <1>4
    <3> HIDE DEF a, s, saw
    <3>1. [req[r] EXCEPT !.saw = saw] = new
      BY <3>0 DEF WriteReq
    <3> USE DEF a, s, saw
    <3>2. req' = [req EXCEPT ![r] = [req[r] EXCEPT !.saw = saw]]
      BY <1>4
    <3> QED
      BY <3>1, <3>2
  <2>3. new.op = "reload"
    BY SlotFields
  <2>4. SlotValue(new)
    BY <1>0, <1>2, <1>4, <2>1 DEF SlotValue, Seen
  <2> HIDE DEF new
  <2>5. Slots' /\ Alone' /\ World' /\ req'[r] = new
    BY <1>0, <1>2, <1>4, <2>0, <2>2, <2>4, SlotsStep, NobodyElse DEF World, Slots
  <2>6. AllCurrent'
    <3> SUFFICES ASSUME OneAtATime, NEW q \in Requests, req'[q] # Idle
                 PROVE  req'[q].op = "reload"
      BY <2>0 DEF AllCurrent, OneAtATime, Current
    <3>1. q = r
      BY <1>0, <1>2, <1>4, <2>0, <2>2, NobodyElse
    <3> QED
      BY <2>3, <2>5, <3>1
  <2> QED
    BY <2>5, <2>6
<1>5. CASE SeedVersion(r)
  <2>1. At(r, "reload", "write") /\ KeepWorld /\ UNCHANGED <<runtimes, nbrs, deployments, verified>>
    BY <1>5 DEF SeedVersion
  <2>2. CASE Done(r) /\ UNCHANGED versions
    BY <1>2, <2>1, <2>2, WriteNothing DEF tables
  <2>3. ASSUME NEW v \in SysVersions,
               versions' = [versions EXCEPT ![v] = VersionDoc(v, s.rev)],
               req' = [req EXCEPT ![r].saw.todo = @ \ {v}]
        PROVE  IndInv'
    <3>1. PICK rev \in 1..revision : rev = s.rev
      BY <1>2, <2>1
    <3>2. PICK new \in VersionRows : new = VersionDoc(v, rev) /\ new # NoRow
      BY Documents, RowsAreRows
    <3>3. versions' = [versions EXCEPT ![v] = new]
      BY <2>3, <3>1, <3>2
    <3>4. /\ versions' \in [Versions -> VersionRows \cup {NoRow}]
          /\ \A w \in Versions : versions'[w] = IF w = v THEN new ELSE versions[w]
      BY <1>0, <3>2, <3>3
    <3>5. World' /\ Slots' /\ Alone' /\ AllCurrent'
      BY <1>4, <2>1, <2>3
    <3>6. Tables'
      BY <1>0, <2>1, <3>4 DEF Tables
    <3>7. ReferencesHold'
      <4>1. \A t \in Rows(runtimes) : runtimes[t].version \in Versions /\ versions[runtimes[t].version] # NoRow
        BY <1>0, TableRows DEF Core, ReferencesHold, RuntimeRows
      <4>2. \A t \in Rows(runtimes) : versions'[runtimes[t].version] # NoRow
        BY <3>2, <3>4, <4>1
      <4> QED
        BY <1>0, <2>1, <4>2 DEF Core, ReferencesHold, Rows
    <3>8. SystemRowsFromCatalog'
      <4> SUFFICES ASSUME NEW w \in SysVersions, w = FirstVersion \/ versions'[w] # NoRow
                   PROVE  \E k \in 1..revision : versions'[w] = VersionDoc(w, k)
        BY <1>0, <2>1 DEF SystemRowsFromCatalog, KeepWorld
      <4> QED
        BY <1>0, <3>2, <3>4 DEF SystemRowsFromCatalog
    <3>9. Layers'
      BY <1>0, <2>1 DEF Layers, KeepWorld, OneAtATime, DisplayNamesUnique, DeploymentHasNbr, ReadyProbed, ReadyNow,
         Asked, ImagesFound, ImageFound, isNBRDeployable, Rows
    <3> QED
      BY <3>5, <3>6, <3>7, <3>8, <3>9 DEF IndInv, Core
  <2> QED
    BY <1>5, <2>2, <2>3 DEF SeedVersion
<1>6. CASE SeedRuntime(r)
  <2>1. /\ At(r, "reload", "write") /\ KeepWorld /\ UNCHANGED <<versions, nbrs, deployments, verified>>
        /\ s.todo \cap SysVersions = {}
    BY <1>6 DEF SeedRuntime
  <2>2. PICK t \in s.todo : /\ runtimes' = [runtimes EXCEPT ![t] = RuntimeDoc(t, s.rev)]
                            /\ req' = [req EXCEPT ![r].saw.todo = @ \ {t}]
    BY <1>6 DEF SeedRuntime
  <2>3. t \in SysRuntimes
    BY <1>2, <2>1
  <2>4. PICK rev \in 1..revision : rev = s.rev
    BY <1>2, <2>1
  <2>5. PICK new \in RuntimeRows : /\ new = RuntimeDoc(t, rev) /\ new # NoRow
                                   /\ new.version = FirstVersion /\ new.system /\ (rev = 1 => new.display = t)
    BY <2>3, Documents, RowsAreRows
  <2>6. /\ runtimes' \in [Runtimes -> RuntimeRows \cup {NoRow}]
        /\ \A x \in Runtimes : runtimes'[x] = IF x = t THEN new ELSE runtimes[x]
    <3>1. runtimes' = [runtimes EXCEPT ![t] = new]
      BY <2>2, <2>4, <2>5
    <3> QED
      BY <1>0, <2>3, <2>5, <3>1
  <2>7. World' /\ Slots' /\ Alone' /\ AllCurrent'
    BY <1>4, <2>1, <2>2, <2>3
  <2>8. Tables'
    BY <1>0, <2>1, <2>6 DEF Tables
  <2>9. versions[FirstVersion] # NoRow /\ runtimes[t] # NoRow /\ (revision = 1 => runtimes[t].display = t)
    <3>1. revision = 1 => 1..revision = {1}
      OBVIOUS
    <3> QED
      BY <1>0, <2>3, <3>1, Documents, RowsAreRows DEF SystemRowsFromCatalog
  <2>10. ReferencesHold'
    <3>1. \A x \in Runtimes : runtimes'[x] # NoRow => versions[runtimes'[x].version] # NoRow
      BY <1>0, <2>5, <2>6, <2>9, TableRows DEF Core, ReferencesHold
    <3>2. \A n \in Runtimes : nbrs[n] # NoRow => runtimes'[n] # NoRow
      BY <1>0, <2>5, <2>6, TableRows DEF Core, ReferencesHold
    <3> QED
      BY <2>1, <2>8, <3>1, <3>2 DEF Tables, ReferencesHold, Rows
  <2>11. SystemRowsFromCatalog'
    <3> SUFFICES ASSUME NEW x \in SysRuntimes
                 PROVE  \E k \in 1..revision : runtimes'[x] = RuntimeDoc(x, k)
      BY <1>0, <2>1 DEF SystemRowsFromCatalog, KeepWorld
    <3> QED
      BY <1>0, <2>5, <2>6 DEF SystemRowsFromCatalog
  <2>12. DisplayNamesUnique'
    <3>0. revision' = revision /\ revision \in Nat /\ revision >= 1 /\ (OneAtATime' <=> OneAtATime)
      BY <1>0, <2>1, RevisionType DEF KeepWorld, OneAtATime
    <3> SUFFICES ASSUME OneAtATime, NEW x \in Runtimes, NEW y \in Runtimes, runtimes'[x] # NoRow,
                        runtimes'[y] # NoRow, runtimes'[x].display = runtimes'[y].display, x # y
                 PROVE  revision > 1 /\ (runtimes'[x].system \/ runtimes'[y].system)
      BY <2>6, <3>0 DEF DisplayNamesUnique, Rows
    <3>1. \A u, v \in Runtimes : runtimes[u] # NoRow /\ runtimes[v] # NoRow /\ runtimes[u].display = runtimes[v].display =>
             u = v \/ (revision > 1 /\ (runtimes[u].system \/ runtimes[v].system))
      BY <1>0, TableRows DEF Layers, DisplayNamesUnique
    <3>2. CASE revision = 1
      <4>1. \A u \in Runtimes : (runtimes'[u] # NoRow <=> runtimes[u] # NoRow) /\ runtimes'[u].display = runtimes[u].display
        BY <2>4, <2>5, <2>6, <2>9, <3>2
      <4> QED
        BY <3>1, <3>2, <4>1
    <3>3. CASE revision # 1
      <4>1. revision > 1
        BY <3>0, <3>3
      <4>2. CASE x = t \/ y = t
        BY <2>5, <2>6, <4>1, <4>2
      <4>3. CASE x # t /\ y # t
        BY <2>6, <3>1, <4>3
      <4> QED
        BY <4>1, <4>2, <4>3
    <3> QED
      BY <3>2, <3>3
  <2>13. Layers'
    BY <1>0, <2>1, <2>12 DEF Layers, KeepWorld, OneAtATime, DeploymentHasNbr, ReadyProbed, ReadyNow, Asked,
     ImagesFound, ImageFound, isNBRDeployable, Rows
  <2> QED
    BY <2>7, <2>8, <2>10, <2>11, <2>13 DEF IndInv, Core
<1> QED
  BY <1>1, <1>3, <1>5, <1>6

-----------------------------------------------------------------------------
(* Requests that arrive, and the world around.                             *)

(* A request is let in: with one slot, only when no other is under way.    *)
LEMMA AcceptStep ==
    ASSUME IndInv, NEW r \in Requests, Cardinality({x \in Requests : req[x] # Idle}) < load.slots,
           NEW op \in AllOps, NEW a \in Args(op), Accept(r, op, a)
    PROVE  IndInv'
<1> DEFINE Running == {x \in Requests : req[x] # Idle}
           new == ReadReq(op, a)
<1>0. Core /\ Slots /\ World /\ Alone
  BY DEF IndInv, Core
<1>1. req' = [req EXCEPT ![r] = new] /\ UNCHANGED <<load, revision, online, present, tables, verified>>
  BY DEF Accept, ReadReq
<1>2. new.pc = "read" /\ SlotValue(new)
  BY SlotFields DEF SlotValue
<1> HIDE DEF new
<1>3. \A q \in Requests : req'[q] = IF q = r THEN new ELSE req[q]
  BY <1>0, <1>1 DEF Slots
<1>4. ASSUME OneAtATime, NEW q \in Requests, req[q] # Idle
      PROVE  FALSE
  <2>1. Running = {q}
    BY <1>0, <1>4 DEF Alone
  <2>2. Cardinality(Running) < 1
    BY <1>4 DEF OneAtATime
  <2> HIDE DEF Running
  <2>3. Cardinality({q}) = 1
    BY FS_Singleton
  <2>4. Cardinality(Running) = 1
    BY <2>1, <2>3
  <2>5. 1 < 1
    BY <2>2, <2>4
  <2> QED
    BY <2>5
<1>5. Slots' /\ World'
  BY <1>0, <1>1, <1>2, SlotsStep DEF World
<1>6. Alone'
  BY <1>1, <1>3, <1>4 DEF Alone, OneAtATime
<1>7. AllCurrent'
  BY <1>1, <1>2, <1>3, <1>4 DEF AllCurrent, OneAtATime
<1>8. Tables' /\ ReferencesHold' /\ Layers'
  BY <1>1, SameTables DEF IndInv, Core
<1>9. SystemRowsFromCatalog'
  BY <1>1 DEF tables, IndInv, Core, SystemRowsFromCatalog
<1> QED
  BY <1>5, <1>6, <1>7, <1>8, <1>9 DEF IndInv, Core

(* The catalog files, the node and its images change, and the tables and   *)
(* the requests do not.                                                    *)
LEMMA WorldStep ==
    ASSUME IndInv, UNCHANGED <<load, tables, req, verified>>, World', revision <= revision'
    PROVE  IndInv'
<1>0. Slots /\ World /\ Alone /\ AllCurrent
  BY DEF IndInv, Core
<1>1. revision \in Nat /\ revision' \in Nat
  <2>1. load.revisions \in Nat
    BY <1>0, LoadType DEF World
  <2> QED
    BY <1>0, <2>1 DEF World
<1>2. 1..revision \subseteq 1..revision'
  BY <1>1
<1>3. Slots'
  <2>1. \A op : Args(op)' = Args(op)
    BY DEF Args, VersionIds, RuntimeIds, Shipped
  <2>2. \A op, x, s : Seen(op, x, s) => Seen(op, x, s)'
    <3> SUFFICES ASSUME NEW s \in [rev: 1..revision, todo: SUBSET (SysVersions \cup SysRuntimes)]
                 PROVE  s \in [rev: 1..revision', todo: SUBSET (SysVersions \cup SysRuntimes)]
      BY DEF Seen
    <3> QED
      BY <1>2
  <2> QED
    BY <1>0, <2>1, <2>2 DEF Slots, Arg, Idle, ReadReq, WriteReq
<1>4. Alone'
  BY <1>0 DEF Alone, OneAtATime
<1>a. revision > 1 => revision' > 1
  BY <1>1
<1>5. Tables' /\ ReferencesHold' /\ Layers'
  BY <1>a, SameTables DEF IndInv, Core
<1>6. AllCurrent'
  BY <1>0, <1>a, SameTables DEF AllCurrent, OneAtATime, Arg
<1>7. SystemRowsFromCatalog'
  BY <1>1, SameSystemRows DEF IndInv, Core, tables
<1> QED
  BY <1>3, <1>4, <1>5, <1>6, <1>7 DEF IndInv, Core

(* The environment, and steps that change nothing.                         *)
LEMMA EnvironmentStep ==
    ASSUME IndInv, CatalogUpgrade \/ NodeStatus \/ DockerImages \/ UNCHANGED vars
    PROVE  IndInv'
<1>0. World /\ revision \in Nat /\ load.revisions \in Nat /\ load.values \subseteq Values
  BY RevisionType, LoadType DEF IndInv, Core, World
<1>1. CASE CatalogUpgrade
  <2>1. /\ revision < load.revisions /\ revision' = revision + 1
        /\ UNCHANGED <<load, tables, online, present, req, verified>>
    BY <1>1 DEF CatalogUpgrade
  <2>2. revision' \in 1..load.revisions /\ revision <= revision'
    BY <1>0, <2>1
  <2> QED
    BY <1>0, <2>1, <2>2, WorldStep DEF World
<1>2. CASE NodeStatus
  <2>1. online' \in BOOLEAN /\ UNCHANGED <<load, revision, tables, present, req, verified>>
    BY <1>2 DEF NodeStatus
  <2> QED
    BY <1>0, <2>1, WorldStep DEF World
<1>3. CASE DockerImages
  <2>1. present' \subseteq Values /\ UNCHANGED <<load, revision, tables, online, req, verified>>
    BY <1>0, <1>3 DEF DockerImages, World
  <2> QED
    BY <1>0, <2>1, WorldStep DEF World
<1>4. CASE UNCHANGED vars
  <2>1. UNCHANGED <<load, revision, tables, online, present, req, verified>>
    BY <1>4 DEF vars
  <2> QED
    BY <1>0, <2>1, WorldStep DEF World
<1> QED
  BY <1>1, <1>2, <1>3, <1>4

(* The database after the first start.                                     *)
LEMMA InitIndInv == Init => IndInv
<1> SUFFICES ASSUME Init
             PROVE  IndInv
  OBVIOUS
<1>1. /\ load \in Workloads /\ revision = 1 /\ online = TRUE /\ present = {}
      /\ versions = [v \in Versions |-> IF v \in Shipped(1) THEN VersionDoc(v, 1) ELSE NoRow]
      /\ runtimes = [t \in Runtimes |-> IF t \in SysRuntimes THEN RuntimeDoc(t, 1) ELSE NoRow]
      /\ nbrs = [t \in Runtimes |-> NoRow] /\ deployments = [d \in Deployments |-> NoRow]
      /\ req = [r \in Requests |-> Idle] /\ verified = [t \in Runtimes |-> [last |-> NoRow, found |-> {}]]
  BY DEF Init
<1>2. World
  BY <1>1, LoadType DEF World
<1>3. /\ Shipped(1) = {FirstVersion} /\ FirstVersion \in SysVersions /\ FirstVersion \in Versions
      /\ SysRuntimes \subseteq Runtimes /\ SysVersions \subseteq Versions
  BY Documents DEF Shipped, Versions, Runtimes
<1>4. /\ versions \in [Versions -> VersionRows \cup {NoRow}]
      /\ \A v \in Versions : versions[v] # NoRow => v = FirstVersion
      /\ versions[FirstVersion] = VersionDoc(FirstVersion, 1) /\ versions[FirstVersion] # NoRow
  BY <1>1, <1>3, Documents, RowsAreRows
<1>5. /\ runtimes \in [Runtimes -> RuntimeRows \cup {NoRow}]
      /\ \A t \in Runtimes : runtimes[t] # NoRow => t \in SysRuntimes
      /\ \A t \in SysRuntimes : /\ runtimes[t] = RuntimeDoc(t, 1)
                                /\ runtimes[t].version = FirstVersion /\ runtimes[t].display = t
  BY <1>1, <1>3, Documents
<1>6. Tables
  <2>1. [last |-> NoRow, found |-> {}] \in VerifiedRows
    BY DEF VerifiedRows
  <2> QED
    BY <1>1, <1>4, <1>5, <2>1 DEF Tables
<1>7. Slots /\ Alone /\ AllCurrent
  BY <1>1 DEF Slots, Alone, AllCurrent
<1>8. ReferencesHold
  BY <1>1, <1>4, <1>5, <1>6, TableRows DEF ReferencesHold
<1>9. SystemRowsFromCatalog
  <2>1. 1 \in 1..revision
    BY <1>1
  <2> QED
    BY <1>3, <1>4, <1>5, <2>1 DEF SystemRowsFromCatalog
<1>10. Layers
  <2>1. \A n \in Runtimes : nbrs[n] = NoRow
    BY <1>1
  <2>2. \A d \in Deployments : deployments[d] = NoRow
    BY <1>1
  <2>3. DisplayNamesUnique
    BY <1>5, <1>6, TableRows DEF DisplayNamesUnique
  <2>4. DeploymentHasNbr /\ ReadyProbed /\ ImagesFound
    BY <1>6, <2>1, <2>2, TableRows DEF DeploymentHasNbr, ReadyProbed, ImagesFound, isNBRDeployable
  <2> QED
    BY <2>3, <2>4 DEF Layers
<1> QED
  BY <1>2, <1>6, <1>7, <1>8, <1>9, <1>10 DEF IndInv, Core

(* Every step.                                                             *)
LEMMA StepIndInv == IndInv /\ [Next]_vars => IndInv'
<1> SUFFICES ASSUME IndInv, [Next]_vars
             PROVE  IndInv'
  OBVIOUS
<1>1. ASSUME NEW r \in Requests, Cardinality({x \in Requests : req[x] # Idle}) < load.slots,
             NEW op \in load.ops \cap AllOps, NEW a \in Args(op), Accept(r, op, a)
      PROVE  IndInv'
  BY <1>1, AcceptStep
<1>2. ASSUME NEW r \in Requests, Handle(r)
      PROVE  IndInv'
  BY <1>2, VersionHandlers, RuntimeHandlers, NbrHandlers, CheckHandlers, DeploymentHandlers, ReloadHandlers
     DEF Handle
<1>3. CASE CatalogUpgrade \/ NodeStatus \/ DockerImages \/ UNCHANGED vars
  BY <1>3, EnvironmentStep
<1> QED
  BY <1>1, <1>2, <1>3 DEF Next

(* The inductive invariant holds in every reachable state.                 *)
LEMMA Inductive == Spec => []IndInv
BY InitIndInv, StepIndInv, PTL DEF Spec

-----------------------------------------------------------------------------
(* The theorems.                                                           *)

(* CatalogInv: foreign keys keep the references between the layers also    *)
(* when rows are deleted under a request, no handler edits or deletes what *)
(* SeedCatalog manages, and with one request at a time users have unique   *)
(* display names and no deployment loses its node backend runtime.         *)
THEOREM LayersStayConsistent == Spec => []CatalogInv
<1>1. IndInv => CatalogInv
  BY TypeFromTables DEF IndInv, Core, Layers, CatalogInv, DisplayNamesUnique, DeploymentHasNbr
<1> QED
  BY <1>1, Inductive, PTL

(* ReadyIsVerified: with one request at a time a node backend runtime that *)
(* isNBRDeployable accepts was probed with the configuration it has now,   *)
(* and found on its node the image that deployments copy from its row.     *)
THEOREM ReadyWasProbed == Spec => []ReadyIsVerified
<1>1. IndInv => ReadyIsVerified
  <2> SUFFICES ASSUME IndInv, OneAtATime, NEW n \in Runtimes, isNBRDeployable(n)
               PROVE  /\ verified[n].last.cfg = nbrs[n].cfg
                      /\ nbrs[n].image # Empty =>
                            /\ verified[n].last.image = deploymentConfigSnapshotFromNBR(n)["image"]
                            /\ verified[n].last.image \in verified[n].found
    BY DEF ReadyIsVerified
  <2>1. ReadyNow(nbrs[n], verified[n])
    BY DEF IndInv, Layers, ReadyProbed
  <2>2. nbrs[n].cfg \in Configs
    BY NbrFields DEF IndInv, Core, Tables, isNBRDeployable
  <2>3. nbrs[n].image # Empty => deploymentConfigSnapshotFromNBR(n)["image"] = nbrs[n].image
    BY <2>2, KeepsImage DEF deploymentConfigSnapshotFromNBR
  <2> QED
    BY <2>1, <2>3 DEF ReadyNow, Asked
<1> QED
  BY <1>1, Inductive, PTL

(* DeployedImageWasFound: with one request at a time the image that        *)
(* HandleCreateDeployment copied into a deployment, and that no override,  *)
(* edit or synchronisation replaced, was found on the node by a check.     *)
THEOREM DeployedImagesWereFound == Spec => []DeployedImageWasFound
<1>1. IndInv => DeployedImageWasFound
  BY TableRows DEF IndInv, Core, Layers, ImagesFound, ImageFound, DeployedImageWasFound
<1> QED
  BY <1>1, Inductive, PTL
=============================================================================
