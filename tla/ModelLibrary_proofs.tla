------------------------- MODULE ModelLibrary_proofs -------------------------
(***************************************************************************)
(* What the model library guarantees for every node, every set of rows and *)
(* every number of overlapping requests: no location and no deployment     *)
(* without its model, locations of their model's tenant, no write of an    *)
(* ordinary user into another tenant (roots aside when the node changes    *)
(* hands meanwhile), sound answers of the scanner, locations that are what *)
(* the scan said, and no instance of what a scan does not call deployable; *)
(* with one request at a time, no write that breaks what is in use.  What  *)
(* a handler checked before its write still holds at the write, because    *)
(* rows keep their tenant and their IDs are used once.                     *)
(***************************************************************************)
EXTENDS ModelLibrary, FiniteSetTheorems, WellFoundedInduction, TLAPS

-----------------------------------------------------------------------------
(* The inductive invariant, part by part.                                  *)

(* The columns of the tables.                                              *)
ArtifactRow(x) ==
    /\ x = [name |-> x.name, tenant |-> x.tenant, path |-> x.path, format |-> x.format, task |-> x.task,
            caps |-> x.caps, sources |-> x.sources, params |-> x.params]
    /\ x.name \in Names /\ x.format \in Formats
LocationFields(x) ==
    /\ x = [artifact |-> x.artifact, root |-> x.root, abs |-> x.abs, status |-> x.status, match |-> x.match,
            tenant |-> x.tenant, type |-> x.type, meta |-> x.meta]
    /\ x.artifact \in Artifacts /\ x.status \in Statuses /\ x.match \in Matches
RootRow(x) ==
    /\ x = [path |-> x.path, status |-> x.status, source |-> x.source, tenant |-> x.tenant]
    /\ x.status \in {"enabled", "disabled"}
DeploymentRow(x) ==
    /\ x = [artifact |-> x.artifact, tenant |-> x.tenant, state |-> x.state, from |-> x.from]
    /\ x.artifact \in Artifacts /\ x.state \in {"none", "active", "ended"}

(* The tables.  A row's ID was given out.                                  *)
World == load \in Workloads /\ dir \in DirType /\ agent \in load.agents
ArtifactTable ==
    /\ DOMAIN artifacts = Artifacts /\ artifacts = [a \in Artifacts |-> artifacts[a]]
    /\ \A a \in Artifacts : artifacts[a] # NoRow => ArtifactRow(artifacts[a]) /\ a \in used
LocationTable ==
    /\ DOMAIN locations = Locations /\ locations = [l \in Locations |-> locations[l]]
    /\ \A l \in Locations : locations[l] # NoRow => LocationFields(locations[l]) /\ l \in used
RootTable ==
    /\ DOMAIN roots = Roots /\ roots = [x \in Roots |-> roots[x]]
    /\ \A x \in Roots : roots[x] # NoRow => RootRow(roots[x]) /\ x \in used
DeploymentTable ==
    /\ DOMAIN deployments = Deployments /\ deployments = [d \in Deployments |-> deployments[d]]
    /\ \A d \in Deployments : deployments[d] # NoRow => DeploymentRow(deployments[d]) /\ d \in used
Tables ==
    /\ used \subseteq Artifacts \cup Locations \cup Roots \cup Deployments
    /\ ArtifactTable /\ LocationTable /\ RootTable /\ DeploymentTable

(* What the path and the body of a request name.                           *)
ArgOf(op, a) ==
    /\ op \in {"artifact-create", "discover"} => a.name \in Names /\ a.format \in Formats
    /\ op = "wizard" => a.name \in Names /\ a.cand.format \in Formats
    /\ op \in {"artifact-patch", "artifact-delete", "location-create", "deploy", "deploy-patch"} =>
          a.artifact \in Artifacts \cap used
    /\ op = "artifact-patch" => a.body \in load.patches
    /\ op = "location-create" => a.status \in Statuses /\ a.match \in Matches
    /\ op \in {"location-patch", "location-delete", "rescan", "attest"} => a.location \in Locations \cap used
    /\ op = "location-patch" => a.body \in load.moves
    /\ op \in {"root-patch", "root-delete"} => a.root \in Roots \cap used
    /\ op = "root-patch" => a.status \in {"enabled", "disabled"}
    /\ op \in {"start", "deploy-patch", "deploy-delete"} => a.deployment \in Deployments \cap used
    /\ op = "transfer" => "transfer" \in load.ops

(* tenantScopeCheck, for the user of a request.                            *)
May(u, tenant) == u.admin \/ tenant = u.tenant

(* What the checks of a handler have left at its write, also when other    *)
(* requests came in between: the row that was checked is gone, or it is    *)
(* still one the user may change.                                          *)
Held(op, u, a, s) ==
    /\ op \in {"root-patch", "root-delete"} => (roots[a.root] # NoRow => May(u, roots[a.root].tenant))
    /\ op \in {"artifact-patch", "artifact-delete"} =>
          (artifacts[a.artifact] # NoRow => May(u, artifacts[a.artifact].tenant))
    /\ op = "location-create" =>
          /\ May(u, s.tenant)
          /\ artifacts[a.artifact] # NoRow => s.tenant = artifacts[a.artifact].tenant
    /\ op \in {"location-patch", "location-delete"} =>
          (locations[a.location] # NoRow => May(u, locations[a.location].tenant))
    /\ op \in {"start", "deploy-patch", "deploy-delete"} =>
          (deployments[a.deployment] # NoRow => May(u, deployments[a.deployment].tenant))

ReadReq(op, u, a) == [op |-> op, pc |-> "read", user |-> u, arg |-> a]
WriteReq(op, pc, u, a, s) == [op |-> op, pc |-> pc, user |-> u, arg |-> a, saw |-> s]

(* A value that a slot may hold: nothing, a request before its reads, or   *)
(* one before its last write.                                              *)
SlotValue(v) ==
    \/ v = Idle
    \/ /\ v.op \in Ops /\ ArgOf(v.op, v.arg)
       /\ \/ v = ReadReq(v.op, v.user, v.arg)
          \/ /\ v = WriteReq(v.op, v.pc, v.user, v.arg, v.saw) /\ v.pc \in {"write", "enable"}
             /\ Held(v.op, v.user, v.arg, v.saw)
Slots ==
    /\ DOMAIN req = Requests /\ req = [r \in Requests |-> req[r]]
    /\ \A r \in Requests : SlotValue(req[r])

(* Candidates that were shown have a format that a model can have.         *)
ShownFormats == shown.kind = "scan" => \A c \in shown.found : c.format \in Formats

IndInv ==
    /\ World /\ Tables /\ Slots /\ NoDanglingRows /\ LocationOfModelsTenant
    /\ ShownFormats

-----------------------------------------------------------------------------
(* Operators.                                                              *)

(* A new ID is one of the table and was not given out.                     *)
LEMMA FreeFacts ==
    ASSUME NEW ids, NEW x \in Free(ids)
    PROVE  x \in ids /\ x \notin used
BY DEF Free

(* Rows are not the absence of one.                                        *)
LEMMA RowsAreRows ==
    \A x : ArtifactRow(x) \/ LocationFields(x) \/ RootRow(x) \/ DeploymentRow(x) => x # NoRow
<1> SUFFICES ASSUME NEW x, ArtifactRow(x) \/ LocationFields(x) \/ RootRow(x) \/ DeploymentRow(x)
             PROVE  x # NoRow
  OBVIOUS
<1>1. DOMAIN NoRow = {"row"}
  BY DEF NoRow
<1>2. ArtifactRow(x) => "name" \in DOMAIN x
  BY DEF ArtifactRow
<1>3. LocationFields(x) \/ DeploymentRow(x) => "artifact" \in DOMAIN x
  BY DEF LocationFields, DeploymentRow
<1>4. RootRow(x) => "path" \in DOMAIN x
  BY DEF RootRow
<1> QED
  BY <1>1, <1>2, <1>3, <1>4

(* The rows of the tables.                                                 *)
LEMMA TableRows ==
    ASSUME Tables
    PROVE  /\ \A a : a \in Rows(artifacts) <=> a \in Artifacts /\ artifacts[a] # NoRow
           /\ \A l : l \in Rows(locations) <=> l \in Locations /\ locations[l] # NoRow
           /\ \A x : x \in Rows(roots) <=> x \in Roots /\ roots[x] # NoRow
           /\ \A d : d \in Rows(deployments) <=> d \in Deployments /\ deployments[d] # NoRow
BY DEF Tables, ArtifactTable, LocationTable, RootTable, DeploymentTable, Rows

(* The fields of a slot.                                                   *)
LEMMA SlotFields ==
    /\ Idle.op = "none" /\ "none" \notin Ops
    /\ \A op, u, a : /\ ReadReq(op, u, a).op = op /\ ReadReq(op, u, a).pc = "read"
                     /\ ReadReq(op, u, a).user = u /\ ReadReq(op, u, a).arg = a
                     /\ op \in Ops => ReadReq(op, u, a) # Idle
    /\ \A op, pc, u, a, s :
          /\ WriteReq(op, pc, u, a, s).op = op /\ WriteReq(op, pc, u, a, s).pc = pc
          /\ WriteReq(op, pc, u, a, s).user = u /\ WriteReq(op, pc, u, a, s).arg = a
          /\ WriteReq(op, pc, u, a, s).saw = s
          /\ op \in Ops => WriteReq(op, pc, u, a, s) # Idle
BY DEF Idle, Ops, ReadReq, WriteReq

(* Every candidate has a format that a model can have.                     *)
LEMMA CandidateFormats ==
    ASSUME NEW path, NEW d
    PROVE  /\ \A c \in scanDirectory(path, d) : c.format \in Formats
           /\ \A c \in scanSingleFile(path, d) : c.format \in Formats
<1> DEFINE Shape(c) == /\ DOMAIN c = {"path", "type", "format", "task", "caps", "mode", "deployable", "backends",
                                      "ctx", "quants", "auto"}
                       /\ c.format \in Formats
<1>1. \A p \in DOMAIN Defaults : Defaults[p].format \in Formats
  BY DEF Formats
<1>2. \A type, meta, q, def : def.format \in Formats => Shape(applyDefaults(q, type, meta, def))
  BY DEF applyDefaults
<1>3. "gguf" \in DOMAIN Defaults /\ "onnx" \in DOMAIN Defaults
  BY DEF Defaults
<1>4. \A p \in DirectoryPlugins(d) : p.id \in DOMAIN Defaults
  BY DEF DirectoryPlugins, Defaults
<1>5. \A c \in Detected(path, d) : Shape(c)
  <2>1. \A c \in DetectGGUF(path, d) : Shape(c)
    BY <1>1, <1>2, <1>3 DEF DetectGGUF
  <2>2. \A c \in DetectONNX(path, d) : Shape(c)
    BY <1>1, <1>2, <1>3 DEF DetectONNX
  <2>3. \A p \in DirectoryPlugins(d) : Shape(applyDefaults(path, "directory", p.meta, Defaults[p.id]))
    BY <1>1, <1>2, <1>4
  <2> QED
    BY <2>1, <2>2, <2>3 DEF Detected
<1>6. \A c \in Deduplicated(Detected(path, d)) : Shape(c)
  BY <1>5 DEF Deduplicated
<1>7. \A c : Shape(c) => [c EXCEPT !.auto = TRUE].format \in Formats
  OBVIOUS
<1>8. \A c \in scanDirectory(path, d) : c.format \in Formats
  BY <1>6, <1>7 DEF scanDirectory, AutoSelected
<1>9. Default("custom", "unknown", {}, "", {}).format \in Formats
  BY DEF Default, Formats
<1>10. \A c \in scanSingleFile(path, d) : c.format \in Formats
  <2> DEFINE n == Last(path)
             g == applyDefaults(path, "file", extractGGUFMetadata(n, d.headers[n]), Defaults.gguf)
             o == applyDefaults(path, "file", NoMetadata, Default("custom", "unknown", {}, "", {}))
  <2>1. Shape(g) /\ Shape(o)
    BY <1>1, <1>2, <1>3, <1>9
  <2>2. scanSingleFile(path, d) = {[(IF n \in GgufNames THEN g ELSE o) EXCEPT !.auto = TRUE]}
    BY DEF scanSingleFile
  <2> HIDE DEF g, o, n
  <2> QED
    BY <1>7, <2>1, <2>2
<1> QED
  BY <1>8, <1>10

(* What the agent answers to a scan has such formats.                      *)
LEMMA ScanFormats ==
    ASSUME NEW abs
    PROVE  \A c \in ScanModelPath(abs) : c.format \in Formats
<1>1. \/ ScanModelPath(abs) = {}
      \/ \E d : ScanModelPath(abs) = scanDirectory(abs, d)
      \/ ScanModelPath(abs) = scanSingleFile(abs, dir)
  BY DEF ScanModelPath
<1> QED
  BY <1>1, CandidateFormats

-----------------------------------------------------------------------------
(* Shapes of steps.                                                        *)

(* What every step leaves alone: IDs stay given out, so that a row that is *)
(* there was there before if its ID was; and it has the tenant it had.     *)
Kept ==
    /\ load' = load /\ used \subseteq used'
    /\ \A a \in Artifacts \cap used : artifacts'[a] # NoRow =>
          artifacts[a] # NoRow /\ artifacts'[a].tenant = artifacts[a].tenant
    /\ \A l \in Locations \cap used : locations'[l] # NoRow =>
          locations[l] # NoRow /\ locations'[l].tenant = locations[l].tenant
    /\ \A x \in Roots \cap used : roots'[x] # NoRow =>
          roots[x] # NoRow /\ roots'[x].tenant = roots[x].tenant
    /\ \A d \in Deployments \cap used : deployments'[d] # NoRow =>
          deployments[d] # NoRow /\ deployments'[d].tenant = deployments[d].tenant

(* The part of TenantConfined that is about one request, without its       *)
(* premise that the step is the request's own; roots that are added are    *)
(* left for later, because they have the tenant of the node.               *)
Confines(r) ==
    ~User(r).admin =>
       /\ \A a \in Artifacts : artifacts'[a] # artifacts[a] => Owner(artifacts[a], artifacts'[a]) = User(r).tenant
       /\ \A l \in Locations : locations'[l] # locations[l] => Owner(locations[l], locations'[l]) = User(r).tenant
       /\ \A d \in Deployments : deployments'[d] # deployments[d] =>
            Owner(deployments[d], deployments'[d]) = User(r).tenant
       /\ \A x \in Roots : roots'[x] # roots[x] =>
            req[r].op = "root-add" \/ Owner(roots[x], roots'[x]) = User(r).tenant

(* A request in flight is not disturbed by others.                         *)
LEMMA ValueStays ==
    ASSUME Kept, NEW v, SlotValue(v)
    PROVE  SlotValue(v)'
<1>1. ASSUME NEW op \in Ops, NEW a, ArgOf(op, a)
      PROVE  ArgOf(op, a)'
  BY <1>1 DEF ArgOf, Kept
<1>2. ASSUME NEW op \in Ops, NEW u, NEW a, NEW s, ArgOf(op, a), Held(op, u, a, s)
      PROVE  Held(op, u, a, s)'
  BY <1>2 DEF ArgOf, Held, May, Kept
<1> QED
  BY <1>1, <1>2 DEF SlotValue, ReadReq, WriteReq

(* The slots after a step of one request.                                  *)
LEMMA SlotsStep ==
    ASSUME Slots, Kept, NEW r \in Requests, NEW new, req' = [req EXCEPT ![r] = new], SlotValue(new)'
    PROVE  Slots'
<1>1. \A q \in Requests : req'[q] = IF q = r THEN new ELSE req[q]
  BY DEF Slots
<1>2. DOMAIN req' = Requests /\ req' = [q \in Requests |-> req'[q]]
  BY DEF Slots
<1>3. ASSUME NEW q \in Requests, q # r
      PROVE  SlotValue(req[q])'
  <2>1. PICK v : v = req[q]
    OBVIOUS
  <2>2. SlotValue(v)'
    BY <2>1, ValueStays DEF Slots
  <2>3. req'[q] = v
    BY <1>1, <1>3, <2>1
  <2> QED
    BY <2>2, <2>3
<1>4. SlotValue(req[r])'
  BY <1>1
<1> QED
  BY <1>2, <1>3, <1>4 DEF Slots

(* The end of a handler.                                                   *)
LEMMA DoneStep ==
    ASSUME Slots, Kept, NEW r \in Requests, Done(r)
    PROVE  Slots'
<1>1. SlotValue(Idle)'
  BY DEF SlotValue, Idle
<1>2. req' = [req EXCEPT ![r] = Idle]
  BY DEF Done
<1> HIDE DEF Idle
<1> QED
  BY <1>1, <1>2, SlotsStep

(* Nothing is written.                                                     *)
LEMMA SameTables ==
    ASSUME IndInv, UNCHANGED <<world, tables, shown>>
    PROVE  /\ World' /\ Tables' /\ NoDanglingRows' /\ LocationOfModelsTenant' /\ ShownFormats'
           /\ Kept /\ \A r \in Requests : Confines(r)
<1>1. /\ load' = load /\ dir' = dir /\ agent' = agent /\ artifacts' = artifacts /\ locations' = locations
      /\ roots' = roots /\ deployments' = deployments /\ used' = used /\ shown' = shown
  BY DEF world, tables
<1>2. World' /\ Tables'
  BY <1>1 DEF IndInv, World, Tables, ArtifactTable, LocationTable, RootTable, DeploymentTable, ArtifactRow,
     LocationFields, RootRow, DeploymentRow
<1>3. NoDanglingRows' /\ LocationOfModelsTenant'
  BY <1>1 DEF IndInv, NoDanglingRows, LocationOfModelsTenant, Rows
<1>4. ShownFormats'
  BY <1>1 DEF IndInv, ShownFormats
<1>5. Kept
  BY <1>1 DEF Kept
<1>6. \A r \in Requests : Confines(r)
  BY <1>1 DEF Confines
<1> QED
  BY <1>2, <1>3, <1>4, <1>5, <1>6

(* A request that is under way.                                            *)
LEMMA Under ==
    ASSUME IndInv, NEW r \in Requests, NEW op \in Ops, req[r].op = op
    PROVE  /\ req[r] # Idle /\ ArgOf(op, Arg(r))
           /\ req[r].pc = "read" => req[r] = ReadReq(op, User(r), Arg(r))
           /\ req[r].pc # "read" => /\ req[r] = WriteReq(op, req[r].pc, User(r), Arg(r), req[r].saw)
                                    /\ Held(op, User(r), Arg(r), req[r].saw)
BY SlotFields DEF IndInv, Slots, SlotValue, User, Arg

(* The reads of a handler, which end with a return or leave what the write *)
(* needs.                                                                  *)
LEMMA ReadOn ==
    ASSUME IndInv, NEW r \in Requests, NEW op \in Ops, req[r].op = op, NEW ok, NEW saw, Read(r, ok, saw),
           ok => Held(op, User(r), Arg(r), saw)
    PROVE  IndInv' /\ Confines(r)
<1>1. ArgOf(op, Arg(r)) /\ req[r] # Idle
  BY Under
<1>2. PICK u, a : u = User(r) /\ a = Arg(r)
  OBVIOUS
<1>3. PICK new : /\ req' = [req EXCEPT ![r] = new]
                 /\ new = IF ok THEN WriteReq(op, "write", u, a, saw) ELSE Idle
  BY <1>1, <1>2, SlotFields DEF Read, User, Arg, WriteReq
<1>4. SlotValue(new)
  BY <1>1, <1>2, <1>3, SlotFields DEF SlotValue
<1>5. UNCHANGED <<world, tables, shown>>
  BY DEF Read, Keep
<1>6. Slots'
  BY <1>3, <1>4, <1>5, SameTables, ValueStays, SlotsStep DEF IndInv
<1> QED
  BY <1>5, <1>6, SameTables DEF IndInv

(* The first of them.                                                      *)
LEMMA ReadStep ==
    ASSUME IndInv, NEW r \in Requests, NEW op \in Ops, At(r, op, "read"), NEW ok, NEW saw, Read(r, ok, saw),
           ok => Held(op, User(r), Arg(r), saw)
    PROVE  IndInv' /\ Confines(r)
BY ReadOn DEF At

(* One row of the models is inserted, changed or deleted.                  *)
LEMMA WriteArtifact ==
    ASSUME ArtifactTable, NEW a \in Artifacts, NEW row, artifacts' = [artifacts EXCEPT ![a] = row],
           used \subseteq used', row # NoRow => ArtifactRow(row) /\ a \in used'
    PROVE  /\ ArtifactTable'
           /\ \A b \in Artifacts : artifacts'[b] = IF b = a THEN row ELSE artifacts[b]
<1>1. \A b \in Artifacts : artifacts'[b] = IF b = a THEN row ELSE artifacts[b]
  BY DEF ArtifactTable
<1>2. DOMAIN artifacts' = Artifacts /\ artifacts' = [b \in Artifacts |-> artifacts'[b]]
  BY DEF ArtifactTable
<1>3. ASSUME NEW b \in Artifacts, artifacts'[b] # NoRow
      PROVE  ArtifactRow(artifacts[b])' /\ b \in used'
  <2>1. PICK v : v = artifacts'[b]
    OBVIOUS
  <2>2. ArtifactRow(v) /\ b \in used'
    BY <1>1, <1>3, <2>1 DEF ArtifactTable
  <2> QED
    BY <2>1, <2>2 DEF ArtifactRow
<1> QED
  BY <1>1, <1>2, <1>3 DEF ArtifactTable

(* One row of the locations.                                               *)
LEMMA WriteLocation ==
    ASSUME LocationTable, NEW l \in Locations, NEW row, locations' = [locations EXCEPT ![l] = row],
           used \subseteq used', row # NoRow => LocationFields(row) /\ l \in used'
    PROVE  /\ LocationTable'
           /\ \A m \in Locations : locations'[m] = IF m = l THEN row ELSE locations[m]
<1>1. \A b \in Locations : locations'[b] = IF b = l THEN row ELSE locations[b]
  BY DEF LocationTable
<1>2. DOMAIN locations' = Locations /\ locations' = [b \in Locations |-> locations'[b]]
  BY DEF LocationTable
<1>3. ASSUME NEW b \in Locations, locations'[b] # NoRow
      PROVE  LocationFields(locations[b])' /\ b \in used'
  <2>1. PICK v : v = locations'[b]
    OBVIOUS
  <2>2. LocationFields(v) /\ b \in used'
    BY <1>1, <1>3, <2>1 DEF LocationTable
  <2> QED
    BY <2>1, <2>2 DEF LocationFields
<1> QED
  BY <1>1, <1>2, <1>3 DEF LocationTable

(* One row of the roots.                                                   *)
LEMMA WriteRoot ==
    ASSUME RootTable, NEW x \in Roots, NEW row, roots' = [roots EXCEPT ![x] = row],
           used \subseteq used', row # NoRow => RootRow(row) /\ x \in used'
    PROVE  /\ RootTable'
           /\ \A y \in Roots : roots'[y] = IF y = x THEN row ELSE roots[y]
<1>1. \A b \in Roots : roots'[b] = IF b = x THEN row ELSE roots[b]
  BY DEF RootTable
<1>2. DOMAIN roots' = Roots /\ roots' = [b \in Roots |-> roots'[b]]
  BY DEF RootTable
<1>3. ASSUME NEW b \in Roots, roots'[b] # NoRow
      PROVE  RootRow(roots[b])' /\ b \in used'
  <2>1. PICK v : v = roots'[b]
    OBVIOUS
  <2>2. RootRow(v) /\ b \in used'
    BY <1>1, <1>3, <2>1 DEF RootTable
  <2> QED
    BY <2>1, <2>2 DEF RootRow
<1> QED
  BY <1>1, <1>2, <1>3 DEF RootTable

(* One row of the deployments.                                             *)
LEMMA WriteDeployment ==
    ASSUME DeploymentTable, NEW d \in Deployments, NEW row, deployments' = [deployments EXCEPT ![d] = row],
           used \subseteq used', row # NoRow => DeploymentRow(row) /\ d \in used'
    PROVE  /\ DeploymentTable'
           /\ \A e \in Deployments : deployments'[e] = IF e = d THEN row ELSE deployments[e]
<1>1. \A b \in Deployments : deployments'[b] = IF b = d THEN row ELSE deployments[b]
  BY DEF DeploymentTable
<1>2. DOMAIN deployments' = Deployments /\ deployments' = [b \in Deployments |-> deployments'[b]]
  BY DEF DeploymentTable
<1>3. ASSUME NEW b \in Deployments, deployments'[b] # NoRow
      PROVE  DeploymentRow(deployments[b])' /\ b \in used'
  <2>1. PICK v : v = deployments'[b]
    OBVIOUS
  <2>2. DeploymentRow(v) /\ b \in used'
    BY <1>1, <1>3, <2>1 DEF DeploymentTable
  <2> QED
    BY <2>1, <2>2 DEF DeploymentRow
<1> QED
  BY <1>1, <1>2, <1>3 DEF DeploymentTable

(* A table that is not written stays one.                                  *)
LEMMA OtherTables ==
    ASSUME Tables, used \subseteq used'
    PROVE  /\ artifacts' = artifacts => ArtifactTable'
           /\ locations' = locations => LocationTable'
           /\ roots' = roots => RootTable'
           /\ deployments' = deployments => DeploymentTable'
BY DEF Tables, ArtifactTable, LocationTable, RootTable, DeploymentTable, ArtifactRow, LocationFields, RootRow,
   DeploymentRow

(* What depends on the world alone.                                        *)
LEMMA SameWorld ==
    ASSUME IndInv, Keep
    PROVE  World' /\ load' = load /\ (shown' = shown => ShownFormats')
BY DEF IndInv, Keep, world, World, ShownFormats

(* References hold as long as no model goes, and locations and deployments *)
(* are as before or refer to one that is there.                            *)
LEMMA RefsStep ==
    ASSUME IndInv, Tables',
           \A a \in Artifacts : artifacts[a] # NoRow =>
              artifacts'[a] # NoRow /\ artifacts'[a].tenant = artifacts[a].tenant,
           \A l \in Locations : locations'[l] # NoRow =>
              \/ /\ locations[l] # NoRow
                 /\ locations'[l].artifact = locations[l].artifact /\ locations'[l].tenant = locations[l].tenant
              \/ /\ artifacts'[locations'[l].artifact] # NoRow
                 /\ locations'[l].tenant = artifacts'[locations'[l].artifact].tenant,
           \A d \in Deployments : deployments'[d] # NoRow =>
              \/ deployments[d] # NoRow /\ deployments'[d].artifact = deployments[d].artifact
              \/ artifacts'[deployments'[d].artifact] # NoRow
    PROVE  NoDanglingRows' /\ LocationOfModelsTenant'
<1>1. /\ \A l : l \in Rows(locations) <=> l \in Locations /\ locations[l] # NoRow
      /\ \A d : d \in Rows(deployments) <=> d \in Deployments /\ deployments[d] # NoRow
  BY TableRows DEF IndInv
<1>2. /\ \A l : l \in Rows(locations') <=> l \in Locations /\ locations'[l] # NoRow
      /\ \A d : d \in Rows(deployments') <=> d \in Deployments /\ deployments'[d] # NoRow
  BY DEF Tables, LocationTable, DeploymentTable, Rows
<1>3. /\ \A l \in Rows(locations) : locations[l].artifact \in Artifacts
      /\ \A d \in Rows(deployments) : deployments[d].artifact \in Artifacts
  BY <1>1 DEF IndInv, Tables, LocationTable, DeploymentTable, LocationFields, DeploymentRow
<1>4. /\ \A l \in Rows(locations) : /\ artifacts[locations[l].artifact] # NoRow
                                    /\ locations[l].tenant = artifacts[locations[l].artifact].tenant
      /\ \A d \in Rows(deployments) : artifacts[deployments[d].artifact] # NoRow
  BY DEF IndInv, NoDanglingRows, LocationOfModelsTenant
<1>5. ASSUME NEW l \in Rows(locations')
      PROVE  /\ artifacts'[locations'[l].artifact] # NoRow
             /\ locations'[l].tenant = artifacts'[locations'[l].artifact].tenant
  BY <1>1, <1>2, <1>3, <1>4, <1>5
<1>6. ASSUME NEW d \in Rows(deployments')
      PROVE  artifacts'[deployments'[d].artifact] # NoRow
  BY <1>1, <1>2, <1>3, <1>4, <1>6
<1> QED
  BY <1>5, <1>6 DEF NoDanglingRows, LocationOfModelsTenant, Rows

-----------------------------------------------------------------------------
(* The reads of the handlers.                                              *)

(* tenantScopeCheck, in the words of the invariant.                        *)
LEMMA TenantCheck ==
    ASSUME NEW r \in Requests, NEW tenant
    PROVE  tenantScopeCheck(r, tenant) <=> May(User(r), tenant)
BY DEF tenantScopeCheck, May

(* Roots: the tenant of the row is the user's.                             *)
LEMMA RootReads ==
    ASSUME IndInv, NEW r \in Requests, RootAddRead(r) \/ RootAddTenant(r) \/ RootPatchRead(r) \/ RootDeleteRead(r)
    PROVE  IndInv' /\ Confines(r)
<1>1. CASE RootAddRead(r) \/ RootAddTenant(r)
  <2>1. req[r].op = "root-add" /\ "root-add" \in Ops
    BY <1>1 DEF RootAddRead, RootAddTenant, At, Ops
  <2>2. PICK ok, saw : Read(r, ok, saw)
    BY <1>1 DEF RootAddRead, RootAddTenant
  <2>3. Held("root-add", User(r), Arg(r), saw)
    BY DEF Held
  <2> QED
    BY <2>1, <2>2, <2>3, ReadOn
<1>3. CASE RootPatchRead(r)
  <2>1. At(r, "root-patch", "read") /\ "root-patch" \in Ops
    BY <1>3 DEF RootPatchRead, Ops
  <2>2. PICK ok, saw : Read(r, ok, saw) /\ (ok => tenantScopeCheck(r, roots[Arg(r).root].tenant))
    BY <1>3 DEF RootPatchRead
  <2>4. ok => Held("root-patch", User(r), Arg(r), saw)
    BY <2>2, TenantCheck DEF Held
  <2> QED
    BY <2>1, <2>2, <2>4, ReadStep
<1>4. CASE RootDeleteRead(r)
  <2>1. At(r, "root-delete", "read") /\ "root-delete" \in Ops
    BY <1>4 DEF RootDeleteRead, Ops
  <2>2. PICK ok, saw : Read(r, ok, saw) /\ (ok => tenantScopeCheck(r, roots[Arg(r).root].tenant))
    BY <1>4 DEF RootDeleteRead
  <2>4. ok => Held("root-delete", User(r), Arg(r), saw)
    BY <2>2, TenantCheck DEF Held
  <2> QED
    BY <2>1, <2>2, <2>4, ReadStep
<1> QED
  BY <1>1, <1>3, <1>4

(* Models: the tenant of the model is the user's.                          *)
LEMMA ArtifactReads ==
    ASSUME IndInv, NEW r \in Requests, ArtifactPatchRead(r) \/ ArtifactDeleteRead(r)
    PROVE  IndInv' /\ Confines(r)
<1>1. CASE ArtifactPatchRead(r)
  <2>1. At(r, "artifact-patch", "read") /\ "artifact-patch" \in Ops
    BY <1>1 DEF ArtifactPatchRead, Ops
  <2>2. PICK ok, saw : Read(r, ok, saw) /\ (ok => tenantScopeCheck(r, artifacts[Arg(r).artifact].tenant))
    BY <1>1 DEF ArtifactPatchRead
  <2>3. ok => Held("artifact-patch", User(r), Arg(r), saw)
    BY <2>2, TenantCheck DEF Held
  <2> QED
    BY <2>1, <2>2, <2>3, ReadStep
<1>2. CASE ArtifactDeleteRead(r)
  <2>1. At(r, "artifact-delete", "read") /\ "artifact-delete" \in Ops
    BY <1>2 DEF ArtifactDeleteRead, Ops
  <2>2. PICK ok, saw : Read(r, ok, saw) /\ (ok => tenantScopeCheck(r, artifacts[Arg(r).artifact].tenant))
    BY <1>2 DEF ArtifactDeleteRead
  <2>3. ok => Held("artifact-delete", User(r), Arg(r), saw)
    BY <2>2, TenantCheck DEF Held
  <2> QED
    BY <2>1, <2>2, <2>3, ReadStep
<1> QED
  BY <1>1, <1>2

(* Locations: the tenant of the model, or of the location, is the user's.  *)
LEMMA LocationReads ==
    ASSUME IndInv, NEW r \in Requests, LocationCreateRead(r) \/ LocationPatchRead(r) \/ LocationDeleteRead(r)
    PROVE  IndInv' /\ Confines(r)
<1>1. CASE LocationCreateRead(r)
  <2>1. At(r, "location-create", "read") /\ "location-create" \in Ops
    BY <1>1 DEF LocationCreateRead, Ops
  <2>2. PICK ok, w, saw : /\ Read(r, ok, saw)
                          /\ ok => /\ tenantScopeCheck(r, artifacts[Arg(r).artifact].tenant)
                                   /\ saw = [root |-> w.root, abs |-> w.abs, tenant |-> artifacts[Arg(r).artifact].tenant]
    <3> DEFINE a == artifacts[Arg(r).artifact]
               where == resolveModelLocationRequestPath(Arg(r))
               good == /\ a # NoRow /\ tenantScopeCheck(r, a.tenant) /\ where # {}
                       /\ a.format = "gguf" => \A w \in where : IsGguf(w.abs)
    <3>1. PICK w : Read(r, good, IF good THEN [root |-> w.root, abs |-> w.abs, tenant |-> a.tenant] ELSE NoRow)
      BY <1>1 DEF LocationCreateRead
    <3>2. good => tenantScopeCheck(r, a.tenant)
      OBVIOUS
    <3> HIDE DEF good
    <3>3. \E saw : /\ Read(r, good, saw)
                   /\ good => saw = [root |-> w.root, abs |-> w.abs, tenant |-> a.tenant]
      BY <3>1
    <3> QED
      BY <3>2, <3>3
  <2>3. ok => saw.tenant = artifacts[Arg(r).artifact].tenant
    BY <2>2
  <2>4. ok => Held("location-create", User(r), Arg(r), saw)
    BY <2>2, <2>3, TenantCheck DEF Held
  <2> QED
    BY <2>1, <2>2, <2>4, ReadStep
<1>2. CASE LocationPatchRead(r)
  <2>1. At(r, "location-patch", "read") /\ "location-patch" \in Ops
    BY <1>2 DEF LocationPatchRead, Ops
  <2>2. PICK ok, saw : Read(r, ok, saw) /\ (ok => tenantScopeCheck(r, locations[Arg(r).location].tenant))
    BY <1>2 DEF LocationPatchRead
  <2>3. ok => Held("location-patch", User(r), Arg(r), saw)
    BY <2>2, TenantCheck DEF Held
  <2> QED
    BY <2>1, <2>2, <2>3, ReadStep
<1>3. CASE LocationDeleteRead(r)
  <2>1. At(r, "location-delete", "read") /\ "location-delete" \in Ops
    BY <1>3 DEF LocationDeleteRead, Ops
  <2>2. PICK ok, saw : Read(r, ok, saw) /\ (ok => tenantScopeCheck(r, locations[Arg(r).location].tenant))
    BY <1>3 DEF LocationDeleteRead
  <2>3. ok => Held("location-delete", User(r), Arg(r), saw)
    BY <2>2, TenantCheck DEF Held
  <2> QED
    BY <2>1, <2>2, <2>3, ReadStep
<1> QED
  BY <1>1, <1>2, <1>3

(* The proxies, a transfer and the creation of a deployment check nothing  *)
(* that the write needs; the tenant of a deployment is the user's.         *)
LEMMA OtherReads ==
    ASSUME IndInv, NEW r \in Requests,
           \/ HandleProxyNodeFiles(r) \/ HandleProxyNodeModelScan(r) \/ DeployRead(r) \/ TransferRead(r)
           \/ DeployPatchRead(r) \/ DeployDeleteRead(r) \/ StartRead(r) \/ StartCheck(r)
    PROVE  IndInv' /\ Confines(r)
<1>1. ASSUME NEW op \in {"browse", "scan"}, ProxyRead(r, op)
      PROVE  IndInv' /\ Confines(r)
  <2>1. At(r, op, "read") /\ op \in Ops
    BY <1>1 DEF ProxyRead, Ops
  <2>2. PICK ok, saw : Read(r, ok, saw)
    BY <1>1 DEF ProxyRead
  <2>3. Held(op, User(r), Arg(r), saw)
    BY DEF Held
  <2> QED
    BY <2>1, <2>2, <2>3, ReadStep
<1>2. CASE DeployRead(r)
  <2>1. At(r, "deploy", "read") /\ "deploy" \in Ops
    BY <1>2 DEF DeployRead, Ops
  <2>2. PICK ok, saw : Read(r, ok, saw)
    BY <1>2 DEF DeployRead
  <2>3. Held("deploy", User(r), Arg(r), saw)
    BY DEF Held
  <2> QED
    BY <2>1, <2>2, <2>3, ReadStep
<1>3. CASE StartRead(r)
  <2>1. At(r, "start", "read") /\ "start" \in Ops
    BY <1>3 DEF StartRead, Ops
  <2>2. PICK ok, saw : Read(r, ok, saw) /\ (ok => tenantScopeCheck(r, deployments[Arg(r).deployment].tenant))
    BY <1>3 DEF StartRead
  <2>3. ok => Held("start", User(r), Arg(r), saw)
    BY <2>2, TenantCheck DEF Held
  <2> QED
    BY <2>1, <2>2, <2>3, ReadStep
<1>4. CASE StartCheck(r)
  <2>1. req[r].op = "start" /\ req[r].pc = "write" /\ "start" \in Ops
    BY <1>4 DEF StartCheck, At, Ops
  <2>2. PICK ok, saw : Read(r, ok, saw)
    BY <1>4 DEF StartCheck
  <2>3. Held("start", User(r), Arg(r), saw)
    BY <2>1, Under DEF Held
  <2> QED
    BY <2>1, <2>2, <2>3, ReadOn
<1>5. CASE TransferRead(r)
  <2>1. At(r, "transfer", "read") /\ "transfer" \in Ops
    BY <1>5 DEF TransferRead, Ops
  <2>2. PICK ok, saw : Read(r, ok, saw)
    BY <1>5 DEF TransferRead
  <2>3. Held("transfer", User(r), Arg(r), saw)
    BY DEF Held
  <2> QED
    BY <2>1, <2>2, <2>3, ReadStep
<1>6. CASE DeployPatchRead(r)
  <2>1. At(r, "deploy-patch", "read") /\ "deploy-patch" \in Ops
    BY <1>6 DEF DeployPatchRead, Ops
  <2>2. PICK ok, saw : Read(r, ok, saw) /\ (ok => tenantScopeCheck(r, deployments[Arg(r).deployment].tenant))
    BY <1>6 DEF DeployPatchRead
  <2>3. ok => Held("deploy-patch", User(r), Arg(r), saw)
    BY <2>2, TenantCheck DEF Held
  <2> QED
    BY <2>1, <2>2, <2>3, ReadStep
<1>7. CASE DeployDeleteRead(r)
  <2>1. At(r, "deploy-delete", "read") /\ "deploy-delete" \in Ops
    BY <1>7 DEF DeployDeleteRead, Ops
  <2>2. PICK ok, saw : Read(r, ok, saw) /\ (ok => tenantScopeCheck(r, deployments[Arg(r).deployment].tenant))
    BY <1>7 DEF DeployDeleteRead
  <2>3. ok => Held("deploy-delete", User(r), Arg(r), saw)
    BY <2>2, TenantCheck DEF Held
  <2> QED
    BY <2>1, <2>2, <2>3, ReadStep
<1> QED
  BY <1>1, <1>2, <1>3, <1>4, <1>5, <1>6, <1>7 DEF HandleProxyNodeFiles, HandleProxyNodeModelScan

-----------------------------------------------------------------------------
(* Writes of roots.                                                        *)

(* What a step of r may do to roots: add one, or change one that the user  *)
(* may change; rows keep their tenant.                                     *)
RootMoves(r) ==
    /\ \A x \in Roots \cap used : roots'[x] # NoRow => roots[x] # NoRow /\ roots'[x].tenant = roots[x].tenant
    /\ \A x \in Roots : roots'[x] # roots[x] =>
          req[r].op = "root-add" \/ (roots[x] # NoRow /\ May(User(r), roots[x].tenant))

(* A step that writes roots only.                                          *)
LEMMA RootsOnly ==
    ASSUME IndInv, NEW r \in Requests, Keep, UNCHANGED <<artifacts, locations, deployments, shown>>,
           used \subseteq used', used' \subseteq Artifacts \cup Locations \cup Roots \cup Deployments,
           RootTable', RootMoves(r), Done(r) \/ (Kept => Slots')
    PROVE  IndInv' /\ Confines(r)
<1>1. World' /\ load' = load /\ ShownFormats'
  BY SameWorld
<1>2. Tables'
  BY OtherTables DEF IndInv, Tables
<1>3. NoDanglingRows' /\ LocationOfModelsTenant'
  BY <1>2, RefsStep
<1>4. Kept
  BY <1>1 DEF Kept, RootMoves
<1>5. Slots'
  BY <1>4, DoneStep DEF IndInv
<1>6. Confines(r)
  BY DEF Confines, May, RootMoves, Owner
<1> QED
  BY <1>1, <1>2, <1>3, <1>5, <1>6 DEF IndInv

(* HandleAddNodeModelRoot, HandlePatchNodeModelRoot and                    *)
(* HandleDeleteNodeModelRoot.                                              *)
LEMMA RootWrites ==
    ASSUME IndInv, NEW r \in Requests,
           RootAddWrite(r) \/ RootAddEnable(r) \/ RootPatchWrite(r) \/ RootDeleteWrite(r)
    PROVE  IndInv' /\ Confines(r) /\ RootMoves(r)
<1>1. /\ RootTable /\ Slots /\ Tables
      /\ used \subseteq Artifacts \cup Locations \cup Roots \cup Deployments
  BY DEF IndInv, Tables
<1>2. \A v, s : RootRow(v) /\ s \in {"enabled", "disabled"} => RootRow([v EXCEPT !.status = s])
  BY DEF RootRow
<1>3. /\ "root-add" \in Ops
      /\ \A op \in {"root-patch", "root-delete"} :
            /\ op \in Ops
            /\ req[r].op = op /\ req[r].pc # "read" =>
                 (roots[Arg(r).root] # NoRow => May(User(r), roots[Arg(r).root].tenant))
  BY Under DEF Ops, Held
<1>4. CASE RootAddWrite(r)
  <2>1. At(r, "root-add", "write") /\ Keep /\ UNCHANGED <<artifacts, locations, deployments, shown>>
    BY <1>4 DEF RootAddWrite
  <2>3. CASE /\ Done(r)
             /\ \E x \in Free(Roots) :
                 /\ roots' = Insert(roots, x, [path |-> Arg(r).path, status |-> "enabled",
                                               source |-> Arg(r).source, tenant |-> req[r].saw.tenant])
                 /\ used' = used \cup {x}
    <3>1. PICK x \in Free(Roots) :
                 /\ roots' = Insert(roots, x, [path |-> Arg(r).path, status |-> "enabled",
                                               source |-> Arg(r).source, tenant |-> req[r].saw.tenant])
                 /\ used' = used \cup {x}
      BY <2>3
    <3> DEFINE row == [path |-> Arg(r).path, status |-> "enabled", source |-> Arg(r).source, tenant |-> req[r].saw.tenant]
    <3>2. RootRow(row) /\ roots' = [roots EXCEPT ![x] = row]
      BY <3>1 DEF RootRow, Insert
    <3>3. x \in Roots /\ x \notin used
      BY FreeFacts
    <3> HIDE DEF row
    <3>4. RootTable' /\ \A y \in Roots : roots'[y] = IF y = x THEN row ELSE roots[y]
      BY <1>1, <3>1, <3>2, <3>3, WriteRoot
    <3>5. RootMoves(r)
      BY <2>1, <3>3, <3>4 DEF RootMoves, At
    <3> QED
      BY <1>1, <2>1, <2>3, <3>1, <3>3, <3>4, <3>5, RootsOnly
  <2>4. CASE /\ UNCHANGED <<roots, used>>
             /\ \E there : req' = [req EXCEPT ![r].pc = "enable", ![r].saw = there]
    <3>1. PICK there : req' = [req EXCEPT ![r].pc = "enable", ![r].saw = there]
      BY <2>4
    <3>2. RootMoves(r)
      BY <2>4 DEF RootMoves
    <3>3. PICK u, a, s : u = User(r) /\ a = Arg(r) /\ s = req[r].saw
      OBVIOUS
    <3>4. /\ req[r] = WriteReq("root-add", "write", u, a, s) /\ ArgOf("root-add", a)
          /\ Held("root-add", u, a, s)
      BY <1>3, <2>1, <3>3, Under DEF At
    <3>5. req' = [req EXCEPT ![r] = WriteReq("root-add", "enable", u, a, there)]
      <4>1. [[req[r] EXCEPT !.pc = "enable"] EXCEPT !.saw = there] = WriteReq("root-add", "enable", u, a, there)
        <5>1. PICK v : v = req[r] /\ v = WriteReq("root-add", "write", u, a, s)
          BY <3>4
        <5>2. PICK w : w = [[v EXCEPT !.pc = "enable"] EXCEPT !.saw = there]
          OBVIOUS
        <5>3. DOMAIN v = {"op", "pc", "user", "arg", "saw"} /\ v.op = "root-add" /\ v.user = u /\ v.arg = a
          BY <5>1 DEF WriteReq
        <5>4. /\ DOMAIN w = {"op", "pc", "user", "arg", "saw"} /\ w.op = "root-add" /\ w.pc = "enable"
              /\ w.user = u /\ w.arg = a /\ w.saw = there
              /\ w = [f \in {"op", "pc", "user", "arg", "saw"} |-> w[f]]
          BY <5>2, <5>3
        <5>5. w = [op |-> "root-add", pc |-> "enable", user |-> u, arg |-> a, saw |-> there]
          BY <5>4
        <5> QED
          BY <5>1, <5>2, <5>5 DEF WriteReq
      <4>2. req' = [req EXCEPT ![r] = [[req[r] EXCEPT !.pc = "enable"] EXCEPT !.saw = there]]
        BY <1>1, <3>1 DEF Slots
      <4> QED
        BY <4>1, <4>2
    <3>6. SlotValue(WriteReq("root-add", "enable", u, a, there))
      BY <1>3, <3>4, SlotFields DEF SlotValue, Held
    <3>7. PICK new : new = WriteReq("root-add", "enable", u, a, there)
      OBVIOUS
    <3>8. Kept => SlotValue(new)'
      BY <3>6, <3>7, ValueStays
    <3>9. Kept => Slots'
      BY <1>1, <3>5, <3>7, <3>8, SlotsStep
    <3>10. RootTable' /\ used' = used
      BY <1>1, <2>4, OtherTables
    <3> QED
      BY <1>1, <2>1, <3>2, <3>9, <3>10, RootsOnly
  <2> QED
    BY <1>4, <2>3, <2>4 DEF RootAddWrite
<1>5. CASE RootAddEnable(r)
  <2>1. /\ At(r, "root-add", "enable") /\ Keep /\ Done(r)
        /\ UNCHANGED <<artifacts, locations, deployments, used, shown>>
        /\ roots' = [x \in Roots |-> IF x \in req[r].saw \cap Rows(roots)
                                     THEN [roots[x] EXCEPT !.status = "enabled"] ELSE roots[x]]
    BY <1>5 DEF RootAddEnable
  <2>3. ASSUME NEW x \in Roots, roots'[x] # NoRow
        PROVE  RootRow(roots[x])' /\ x \in used'
    <3>1. PICK v : v = roots'[x]
      OBVIOUS
    <3>2. /\ x \in Rows(roots) => RootRow(roots[x]) /\ x \in used
          /\ roots[x] # NoRow => RootRow(roots[x]) /\ x \in used
      BY <1>1, TableRows DEF RootTable
    <3>3. \/ v = roots[x] /\ roots[x] # NoRow
          \/ v = [roots[x] EXCEPT !.status = "enabled"] /\ x \in Rows(roots)
      BY <2>1, <2>3, <3>1
    <3>4. RootRow(v) /\ x \in used
      BY <1>2, <3>2, <3>3
    <3> QED
      BY <2>1, <3>1, <3>4 DEF RootRow
  <2>4. RootTable'
    BY <2>1, <2>3 DEF RootTable
  <2>5. ASSUME NEW x \in Roots, roots'[x] # NoRow
        PROVE  roots[x] # NoRow /\ roots'[x].tenant = roots[x].tenant
    <3>1. CASE roots'[x] = roots[x]
      BY <2>5, <3>1
    <3>2. CASE roots'[x] # roots[x]
      <4>1. x \in Rows(roots) /\ roots'[x] = [roots[x] EXCEPT !.status = "enabled"]
        BY <2>1, <3>2
      <4>2. roots[x] # NoRow /\ RootRow(roots[x])
        BY <1>1, <4>1, TableRows DEF RootTable
      <4> QED
        BY <4>1, <4>2 DEF RootRow
    <3> QED
      BY <3>1, <3>2
  <2>6. RootMoves(r)
    BY <2>1, <2>5 DEF RootMoves, At
  <2> QED
    BY <1>1, <2>1, <2>4, <2>6, RootsOnly
<1>6. CASE RootPatchWrite(r)
  <2>1. /\ At(r, "root-patch", "write") /\ Keep /\ Done(r)
        /\ UNCHANGED <<artifacts, locations, deployments, used, shown>>
        /\ roots' = IF roots[Arg(r).root] = NoRow THEN roots
                    ELSE [roots EXCEPT ![Arg(r).root].status = Arg(r).status]
    BY <1>6 DEF RootPatchWrite
  <2>2. roots[Arg(r).root] # NoRow => May(User(r), roots[Arg(r).root].tenant)
    BY <1>3, <2>1 DEF At
  <2>3. Arg(r).root \in Roots /\ Arg(r).status \in {"enabled", "disabled"}
    BY <1>3, <2>1, Under DEF At, ArgOf
  <2>4. RootTable' /\ RootMoves(r)
    <3>1. CASE roots[Arg(r).root] = NoRow
      BY <1>1, <2>1, <3>1, OtherTables DEF RootMoves
    <3>2. CASE roots[Arg(r).root] # NoRow
      <4> DEFINE row == [roots[Arg(r).root] EXCEPT !.status = Arg(r).status]
      <4>1. RootRow(row) /\ Arg(r).root \in used
        BY <1>1, <1>2, <2>3, <3>2 DEF RootTable
      <4>2. roots' = [roots EXCEPT ![Arg(r).root] = row]
        BY <2>1, <3>2
      <4>3. row.tenant = roots[Arg(r).root].tenant
        BY <1>1, <2>3, <3>2 DEF RootTable, RootRow
      <4> HIDE DEF row
      <4>4. RootTable' /\ \A y \in Roots : roots'[y] = IF y = Arg(r).root THEN row ELSE roots[y]
        BY <1>1, <2>1, <2>3, <4>1, <4>2, WriteRoot
      <4> QED
        BY <2>2, <3>2, <4>3, <4>4 DEF RootMoves
    <3> QED
      BY <3>1, <3>2
  <2> QED
    BY <1>1, <2>1, <2>4, RootsOnly
<1>7. CASE RootDeleteWrite(r)
  <2>1. /\ At(r, "root-delete", "write") /\ Keep /\ Done(r)
        /\ UNCHANGED <<artifacts, locations, deployments, used, shown>>
    BY <1>7 DEF RootDeleteWrite
  <2>2. roots[Arg(r).root] # NoRow => May(User(r), roots[Arg(r).root].tenant)
    BY <1>3, <2>1 DEF At
  <2>3. Arg(r).root \in Roots
    BY <1>3, <2>1, Under DEF At, ArgOf
  <2>4. PICK row : /\ roots' = [roots EXCEPT ![Arg(r).root] = row]
                   /\ \/ row = NoRow
                      \/ /\ row = [roots[Arg(r).root] EXCEPT !.status = "disabled"]
                         /\ roots[Arg(r).root] # NoRow
    BY <1>7 DEF RootDeleteWrite
  <2>5. row # NoRow => RootRow(row) /\ Arg(r).root \in used
    BY <1>1, <1>2, <2>3, <2>4 DEF RootTable
  <2>6. RootTable' /\ \A y \in Roots : roots'[y] = IF y = Arg(r).root THEN row ELSE roots[y]
    BY <1>1, <2>1, <2>3, <2>4, <2>5, WriteRoot
  <2>7. row # NoRow => row.tenant = roots[Arg(r).root].tenant
    BY <1>1, <2>3, <2>4 DEF RootTable, RootRow
  <2>8. RootMoves(r)
    BY <2>2, <2>4, <2>6, <2>7 DEF RootMoves
  <2> QED
    BY <1>1, <2>1, <2>6, <2>8, RootsOnly
<1> QED
  BY <1>4, <1>5, <1>6, <1>7

-----------------------------------------------------------------------------
(* Writes of models.                                                       *)

(* What a step of r may do to models without deleting one: insert one of   *)
(* the user's tenant with a new ID, or change one that the user may change *)
(* and keep its tenant.                                                    *)
ArtifactMoves(r) ==
    \A a \in Artifacts :
        \/ artifacts'[a] = artifacts[a]
        \/ artifacts[a] = NoRow /\ a \notin used /\ artifacts'[a] # NoRow /\ artifacts'[a].tenant = User(r).tenant
        \/ /\ artifacts[a] # NoRow /\ artifacts'[a] # NoRow /\ artifacts'[a].tenant = artifacts[a].tenant
           /\ May(User(r), artifacts[a].tenant)

(* Such a step, and no other table is written.                             *)
LEMMA ArtifactsOnly ==
    ASSUME IndInv, NEW r \in Requests, Keep, UNCHANGED <<locations, roots, deployments, shown>>,
           used \subseteq used', used' \subseteq Artifacts \cup Locations \cup Roots \cup Deployments,
           ArtifactTable', ArtifactMoves(r)
    PROVE  Kept /\ (Slots' => IndInv' /\ Confines(r))
<1>1. World' /\ load' = load /\ ShownFormats'
  BY SameWorld
<1>2. Tables'
  BY OtherTables DEF IndInv, Tables
<1>3. NoDanglingRows' /\ LocationOfModelsTenant'
  BY <1>2, RefsStep DEF ArtifactMoves
<1>4. Kept
  BY <1>1 DEF Kept, ArtifactMoves
<1>5. Confines(r)
  BY DEF Confines, Owner, May, ArtifactMoves
<1> QED
  BY <1>1, <1>2, <1>3, <1>4, <1>5 DEF IndInv

(* The row of a new model.                                                 *)
LEMMA NewArtifactRow ==
    ASSUME NEW r \in Requests, NEW b, b.name \in Names, b.format \in Formats
    PROVE  ArtifactRow(NewArtifact(r, b)) /\ NewArtifact(r, b).tenant = User(r).tenant
BY DEF ArtifactRow, NewArtifact

(* It is inserted with a new ID.                                           *)
LEMMA InsertArtifact ==
    ASSUME IndInv, NEW r \in Requests, NEW b, b.name \in Names, b.format \in Formats, NEW a \in Free(Artifacts),
           artifacts' = Insert(artifacts, a, NewArtifact(r, b)), used' = used \cup {a} \/ \E l : used' = used \cup {a, l}
    PROVE  /\ a \in Artifacts /\ a \notin used /\ artifacts[a] = NoRow
           /\ ArtifactTable' /\ ArtifactMoves(r) /\ artifacts'[a] = NewArtifact(r, b)
           /\ \A c \in Artifacts : c # a => artifacts'[c] = artifacts[c]
<1>1. a \in Artifacts /\ a \notin used
  BY FreeFacts
<1>2. artifacts[a] = NoRow /\ ArtifactTable
  BY <1>1 DEF IndInv, Tables, ArtifactTable
<1>3. PICK row : row = NewArtifact(r, b)
  OBVIOUS
<1>4. ArtifactRow(row) /\ row.tenant = User(r).tenant /\ row # NoRow
  BY <1>3, NewArtifactRow, RowsAreRows
<1>5. artifacts' = [artifacts EXCEPT ![a] = row] /\ used \subseteq used' /\ a \in used'
  BY <1>3 DEF Insert
<1>6. ArtifactTable' /\ \A c \in Artifacts : artifacts'[c] = IF c = a THEN row ELSE artifacts[c]
  BY <1>1, <1>2, <1>4, <1>5, WriteArtifact
<1> QED
  BY <1>1, <1>2, <1>3, <1>4, <1>6 DEF ArtifactMoves

(* HandleCreateArtifact.                                                   *)
LEMMA CreateArtifact ==
    ASSUME IndInv, NEW r \in Requests, ArtifactCreate(r)
    PROVE  IndInv' /\ Confines(r)
<1>1. /\ At(r, "artifact-create", "read") /\ "artifact-create" \in Ops
      /\ Done(r) /\ Keep /\ UNCHANGED <<locations, roots, deployments, shown>>
  BY DEF ArtifactCreate, Ops
<1>2. Arg(r).name \in Names /\ Arg(r).format \in Formats
  BY <1>1, Under DEF At, ArgOf
<1>3. Slots /\ Tables /\ used \subseteq Artifacts \cup Locations \cup Roots \cup Deployments
  BY DEF IndInv, Tables
<1>4. CASE UNCHANGED <<artifacts, used>>
  <2>1. UNCHANGED <<world, tables, shown>>
    BY <1>1, <1>4 DEF tables, Keep
  <2> QED
    BY <1>1, <1>3, <2>1, SameTables, DoneStep DEF IndInv
<1>5. ASSUME NEW a \in Free(Artifacts), artifacts' = Insert(artifacts, a, NewArtifact(r, Arg(r))), used' = used \cup {a}
      PROVE  IndInv' /\ Confines(r)
  <2>1. ArtifactTable' /\ ArtifactMoves(r) /\ a \in Artifacts
    BY <1>2, <1>5, InsertArtifact
  <2>2. Kept /\ (Slots' => IndInv' /\ Confines(r))
    BY <1>1, <1>3, <1>5, <2>1, ArtifactsOnly
  <2> QED
    BY <1>1, <1>3, <2>2, DoneStep
<1> QED
  BY <1>4, <1>5 DEF ArtifactCreate

(* The console's wizard, which goes on to the location of its model.       *)
LEMMA Wizard ==
    ASSUME IndInv, NEW r \in Requests, WizardCreate(r)
    PROVE  IndInv' /\ Confines(r)
<1> DEFINE c == Arg(r).cand
           b == [name |-> Arg(r).name, path |-> c.path, format |-> c.format, task |-> c.task, caps |-> c.caps]
           at == [artifact |-> "", by |-> "root", root |-> Arg(r).root, type |-> c.type,
                  rel |-> [abs |-> FALSE, path |-> SubSeq(c.path, Len(Arg(r).under) + 1, Len(c.path))],
                  status |-> "verified", match |-> "exact_match", meta |-> IF c.deployable THEN "yes" ELSE "no"]
<1>1. /\ At(r, "wizard", "read") /\ "wizard" \in Ops
      /\ Keep /\ UNCHANGED <<locations, roots, deployments, shown>>
  BY DEF WizardCreate, Ops
<1>2. b.name \in Names /\ b.format \in Formats
  BY <1>1, Under DEF At, ArgOf
<1>3. Slots /\ Tables /\ used \subseteq Artifacts \cup Locations \cup Roots \cup Deployments
  BY DEF IndInv, Tables
<1>4. CASE Done(r) /\ UNCHANGED <<artifacts, used>>
  <2>1. UNCHANGED <<world, tables, shown>>
    BY <1>1, <1>4 DEF tables, Keep
  <2> QED
    BY <1>1, <1>3, <1>4, <2>1, SameTables, DoneStep DEF IndInv
<1>5. ASSUME NEW a \in Free(Artifacts), artifacts' = Insert(artifacts, a, NewArtifact(r, b)), used' = used \cup {a},
             \/ req' = [req EXCEPT ![r] = [op |-> "location-create", pc |-> "read", user |-> @.user,
                                           arg |-> [at EXCEPT !.artifact = a]]]
             \/ Done(r)
      PROVE  IndInv' /\ Confines(r)
  <2>1. PICK bb : bb = b
    OBVIOUS
  <2>2. ArtifactTable' /\ ArtifactMoves(r) /\ a \in Artifacts
    BY <1>2, <1>5, <2>1, InsertArtifact
  <2>3. Kept /\ (Slots' => IndInv' /\ Confines(r))
    BY <1>1, <1>3, <1>5, <2>2, ArtifactsOnly
  <2>4. CASE req' = [req EXCEPT ![r] = [op |-> "location-create", pc |-> "read", user |-> @.user,
                                        arg |-> [at EXCEPT !.artifact = a]]]
    <3>1. PICK u, x : u = User(r) /\ x = [at EXCEPT !.artifact = a]
      OBVIOUS
    <3>2. x.artifact = a /\ x.status = "verified" /\ x.match = "exact_match"
      BY <3>1
    <3>3. req' = [req EXCEPT ![r] = ReadReq("location-create", u, x)]
      BY <1>3, <2>4, <3>1 DEF ReadReq, Slots, User
    <3>4. PICK new : new = ReadReq("location-create", u, x)
      OBVIOUS
    <3>5. ArgOf("location-create", x)'
      BY <1>5, <2>2, <3>2 DEF ArgOf, Statuses, Matches
    <3>6. SlotValue(new)'
      BY <3>4, <3>5, SlotFields DEF SlotValue, Ops
    <3> QED
      BY <1>3, <2>3, <3>3, <3>4, <3>6, SlotsStep
  <2> QED
    BY <1>3, <1>5, <2>3, <2>4, DoneStep
<1> QED
  BY <1>4, <1>5 DEF WizardCreate

(* A patched row is one, of the tenant it was.                             *)
LEMMA PatchedRow ==
    ASSUME NEW row, NEW old, NEW b, ArtifactRow(row), "format" \in DOMAIN b => b.format \in Formats
    PROVE  ArtifactRow(Patched(row, old, b)) /\ Patched(row, old, b).tenant = row.tenant
<1>1. PICK path, format, task, caps, sources, params :
        /\ Patched(row, old, b) = [row EXCEPT !.path = path, !.format = format, !.task = task, !.caps = caps,
                                              !.sources = sources, !.params = params]
        /\ format = Or(b, "format", row.format)
  BY DEF Patched
<1>2. format \in Formats
  BY <1>1 DEF Or, ArtifactRow
<1>3. DOMAIN row = {"name", "tenant", "path", "format", "task", "caps", "sources", "params"}
  BY DEF ArtifactRow
<1>4. PICK new : new = Patched(row, old, b)
  OBVIOUS
<1>5. /\ DOMAIN new = DOMAIN row /\ new.name = row.name /\ new.tenant = row.tenant /\ new.format = format
      /\ new = [f \in DOMAIN row |-> new[f]]
  BY <1>1, <1>3, <1>4
<1>6. new = [name |-> new.name, tenant |-> new.tenant, path |-> new.path, format |-> new.format, task |-> new.task,
             caps |-> new.caps, sources |-> new.sources, params |-> new.params]
  BY <1>3, <1>5
<1> QED
  BY <1>2, <1>4, <1>5, <1>6 DEF ArtifactRow

(* HandlePatchArtifact.                                                    *)
LEMMA PatchArtifact ==
    ASSUME IndInv, NEW r \in Requests, ArtifactPatchWrite(r)
    PROVE  IndInv' /\ Confines(r)
<1>1. /\ At(r, "artifact-patch", "write") /\ "artifact-patch" \in Ops
      /\ Done(r) /\ Keep /\ UNCHANGED <<locations, roots, deployments, used, shown>>
  BY DEF ArtifactPatchWrite, Ops
<1>2. PICK a, b : a = Arg(r).artifact /\ b = Arg(r).body
  OBVIOUS
<1>3. /\ a \in Artifacts /\ b \in load.patches
      /\ artifacts[a] # NoRow => May(User(r), artifacts[a].tenant)
  BY <1>1, <1>2, Under DEF At, ArgOf, Held
<1>4. Slots /\ Tables /\ ArtifactTable /\ used \subseteq Artifacts \cup Locations \cup Roots \cup Deployments
  BY DEF IndInv, Tables
<1>5. CASE artifacts[a] = NoRow
  <2>1. UNCHANGED <<world, tables, shown>>
    BY <1>1, <1>2, <1>5 DEF ArtifactPatchWrite, tables, Keep
  <2> QED
    BY <1>1, <1>4, <2>1, SameTables, DoneStep DEF IndInv
<1>6. CASE artifacts[a] # NoRow
  <2>1. PICK row : /\ artifacts' = [artifacts EXCEPT ![a] = row]
                   /\ row = Patched(artifacts[a], req[r].saw, b)
    BY <1>2, <1>6 DEF ArtifactPatchWrite
  <2>2. ArtifactRow(artifacts[a]) /\ a \in used
    BY <1>3, <1>4, <1>6 DEF ArtifactTable
  <2>3. "format" \in DOMAIN b => b.format \in Formats
    BY <1>3, BodyAssumption DEF IndInv, World
  <2>4. ArtifactRow(row) /\ row.tenant = artifacts[a].tenant /\ row # NoRow
    BY <2>1, <2>2, <2>3, PatchedRow, RowsAreRows
  <2>5. ArtifactTable' /\ \A c \in Artifacts : artifacts'[c] = IF c = a THEN row ELSE artifacts[c]
    <3>1. a \in Artifacts /\ used \subseteq used' /\ a \in used'
      BY <1>1, <1>3, <2>2
    <3>2. artifacts' = [artifacts EXCEPT ![a] = row]
      BY <2>1
    <3> QED
      BY <1>4, <2>4, <3>1, <3>2, WriteArtifact
  <2>6. ArtifactMoves(r)
    BY <1>3, <1>6, <2>4, <2>5 DEF ArtifactMoves
  <2>7. Kept /\ (Slots' => IndInv' /\ Confines(r))
    BY <1>1, <1>4, <2>5, <2>6, ArtifactsOnly
  <2> QED
    BY <1>1, <1>4, <2>7, DoneStep
<1> QED
  BY <1>5, <1>6

(* HandleDeleteArtifact: the locations that go are of the tenant of the    *)
(* model, also those that were added after the handler's check.            *)
LEMMA RemoveArtifact ==
    ASSUME IndInv, NEW r \in Requests, ArtifactDeleteWrite(r)
    PROVE  IndInv' /\ Confines(r)
<1>1. /\ At(r, "artifact-delete", "write") /\ "artifact-delete" \in Ops
      /\ Done(r) /\ Keep /\ UNCHANGED <<roots, deployments, used, shown>>
  BY DEF ArtifactDeleteWrite, Ops
<1>2. PICK a : a = Arg(r).artifact
  OBVIOUS
<1>3. a \in Artifacts /\ (artifacts[a] # NoRow => May(User(r), artifacts[a].tenant))
  BY <1>1, <1>2, Under DEF At, ArgOf, Held
<1>4. /\ Slots /\ Tables /\ ArtifactTable /\ LocationTable
      /\ used \subseteq Artifacts \cup Locations \cup Roots \cup Deployments
  BY DEF IndInv, Tables
<1>5. CASE UNCHANGED <<artifacts, locations>>
  <2>1. UNCHANGED <<world, tables, shown>>
    BY <1>1, <1>5 DEF tables, Keep
  <2> QED
    BY <1>1, <1>4, <2>1, SameTables, DoneStep DEF IndInv
<1>6. CASE /\ ~\E d \in Rows(deployments) : deployments[d].artifact = a
           /\ locations' = [l \in Locations |-> IF l \in LocationsOf(a) THEN NoRow ELSE locations[l]]
           /\ artifacts' = [artifacts EXCEPT ![a] = NoRow]
  <2>1. ArtifactTable' /\ \A c \in Artifacts : artifacts'[c] = IF c = a THEN NoRow ELSE artifacts[c]
    <3>1. PICK row : row = NoRow /\ artifacts' = [artifacts EXCEPT ![a] = row]
      BY <1>6
    <3> QED
      BY <1>1, <1>3, <1>4, <3>1, WriteArtifact
  <2>2. \A l \in Locations : locations'[l] = IF l \in LocationsOf(a) THEN NoRow ELSE locations[l]
    BY <1>6
  <2>3. LocationTable'
    <3>1. DOMAIN locations' = Locations /\ locations' = [l \in Locations |-> locations'[l]]
      BY <1>6
    <3>2. ASSUME NEW l \in Locations, locations'[l] # NoRow
          PROVE  LocationFields(locations[l])' /\ l \in used'
      BY <1>1, <1>4, <2>2, <3>2 DEF LocationTable, LocationFields
    <3> QED
      BY <3>1, <3>2 DEF LocationTable
  <2>4. Tables'
    BY <1>1, <1>4, <2>1, <2>3, OtherTables DEF Tables
  <2>5. \A l \in LocationsOf(a) : /\ l \in Locations /\ locations[l] # NoRow
                                  /\ artifacts[a] # NoRow /\ locations[l].tenant = artifacts[a].tenant
    BY <1>4, TableRows DEF LocationsOf, IndInv, NoDanglingRows, LocationOfModelsTenant
  <2>6. NoDanglingRows' /\ LocationOfModelsTenant'
    <3>1. ASSUME NEW l \in Locations, locations'[l] # NoRow
          PROVE  /\ artifacts'[locations'[l].artifact] # NoRow
                 /\ locations'[l].tenant = artifacts'[locations'[l].artifact].tenant
      <4>1. locations'[l] = locations[l] /\ l \in Rows(locations) /\ locations[l].artifact # a
        BY <1>4, <2>2, <3>1, TableRows DEF LocationsOf
      <4>2. locations[l].artifact \in Artifacts
        BY <1>4, <3>1, <4>1 DEF LocationTable, LocationFields
      <4> QED
        BY <2>1, <4>1, <4>2 DEF IndInv, NoDanglingRows, LocationOfModelsTenant
    <3>2. ASSUME NEW d \in Rows(deployments)
          PROVE  artifacts'[deployments[d].artifact] # NoRow
      <4>1. deployments[d].artifact \in Artifacts
        BY <1>4, <3>2, TableRows DEF Tables, DeploymentTable, DeploymentRow
      <4> QED
        BY <1>6, <2>1, <4>1 DEF IndInv, NoDanglingRows
    <3>3. \A l \in Rows(locations') : l \in Locations /\ locations'[l] # NoRow
      BY <2>3 DEF LocationTable, Rows
    <3> QED
      BY <1>1, <3>1, <3>2, <3>3 DEF NoDanglingRows, LocationOfModelsTenant, Rows
  <2>7. World' /\ load' = load /\ ShownFormats'
    BY <1>1, SameWorld
  <2>8. Kept
    BY <1>1, <2>1, <2>2, <2>7 DEF Kept
  <2>9. Confines(r)
    BY <1>1, <1>3, <2>1, <2>2, <2>5 DEF Confines, Owner, May
  <2> QED
    BY <1>1, <1>4, <2>4, <2>6, <2>7, <2>8, <2>9, DoneStep DEF IndInv
<1> QED
  BY <1>2, <1>5, <1>6 DEF ArtifactDeleteWrite

(* HandleDiscoverArtifact: the model and its location, of the user's       *)
(* tenant both.                                                            *)
LEMMA DiscoverArtifact ==
    ASSUME IndInv, NEW r \in Requests, Discover(r)
    PROVE  IndInv' /\ Confines(r)
<1>1. /\ At(r, "discover", "read") /\ "discover" \in Ops
      /\ Done(r) /\ Keep /\ UNCHANGED <<roots, deployments, shown>>
  BY DEF Discover, Ops
<1>2. Arg(r).name \in Names /\ Arg(r).format \in Formats
  BY <1>1, Under DEF At, ArgOf
<1>3. /\ Slots /\ Tables /\ LocationTable /\ DeploymentTable
      /\ used \subseteq Artifacts \cup Locations \cup Roots \cup Deployments
  BY DEF IndInv, Tables
<1>4. CASE UNCHANGED <<artifacts, locations, used>>
  <2>1. UNCHANGED <<world, tables, shown>>
    BY <1>1, <1>4 DEF tables, Keep
  <2> QED
    BY <1>1, <1>3, <2>1, SameTables, DoneStep DEF IndInv
<1>5. ASSUME NEW a \in Free(Artifacts), NEW l \in Free(Locations),
             artifacts' = Insert(artifacts, a, NewArtifact(r, Arg(r))),
             locations' = Insert(locations, l, Discovered(r, a)), used' = used \cup {a, l}
      PROVE  IndInv' /\ Confines(r)
  <2>1. /\ a \in Artifacts /\ a \notin used /\ artifacts[a] = NoRow
        /\ ArtifactTable' /\ ArtifactMoves(r) /\ artifacts'[a] = NewArtifact(r, Arg(r))
    BY <1>2, <1>5, InsertArtifact
  <2>2. /\ artifacts'[a] # NoRow /\ artifacts'[a].tenant = User(r).tenant
    BY <1>2, <2>1, NewArtifactRow, RowsAreRows
  <2>3. l \in Locations /\ l \notin used /\ locations[l] = NoRow
    BY <1>3, FreeFacts DEF LocationTable
  <2>4. PICK row : row = Discovered(r, a)
    OBVIOUS
  <2>5. LocationFields(row) /\ row.artifact = a /\ row.tenant = User(r).tenant
    BY <2>1, <2>4 DEF LocationFields, Discovered, Statuses, Matches
  <2>6. row # NoRow
    BY <2>5, RowsAreRows
  <2>7. locations' = [locations EXCEPT ![l] = row] /\ used \subseteq used' /\ l \in used'
    BY <1>5, <2>4 DEF Insert
  <2>8. LocationTable' /\ \A m \in Locations : locations'[m] = IF m = l THEN row ELSE locations[m]
    BY <1>3, <2>3, <2>5, <2>7, WriteLocation
  <2>9. Tables'
    <3>1. RootTable' /\ DeploymentTable'
      BY <1>1, <1>3, <2>7, OtherTables
    <3>2. used' \subseteq Artifacts \cup Locations \cup Roots \cup Deployments
      BY <1>3, <1>5, <2>1, <2>3
    <3> QED
      BY <2>1, <2>8, <3>1, <3>2 DEF Tables
  <2>10. NoDanglingRows' /\ LocationOfModelsTenant'
    <3>1. \A b \in Artifacts : artifacts[b] # NoRow => artifacts'[b] # NoRow /\ artifacts'[b].tenant = artifacts[b].tenant
      BY <2>1 DEF ArtifactMoves
    <3>2. \A m \in Locations : locations'[m] # NoRow =>
              \/ /\ locations[m] # NoRow
                 /\ locations'[m].artifact = locations[m].artifact /\ locations'[m].tenant = locations[m].tenant
              \/ /\ artifacts'[locations'[m].artifact] # NoRow
                 /\ locations'[m].tenant = artifacts'[locations'[m].artifact].tenant
      BY <2>2, <2>5, <2>8
    <3>3. deployments' = deployments
      BY <1>1
    <3> QED
      BY <2>9, <3>1, <3>2, <3>3, RefsStep
  <2>11. World' /\ load' = load /\ ShownFormats'
    BY <1>1, SameWorld
  <2>12. Kept
    BY <1>1, <2>1, <2>3, <2>7, <2>8, <2>11 DEF Kept, ArtifactMoves
  <2>13. Confines(r)
    <3>1. \A m \in Locations : locations'[m] # locations[m] => locations[m] = NoRow /\ locations'[m].tenant = User(r).tenant
      BY <2>3, <2>5, <2>8
    <3> QED
      BY <1>1, <2>1, <3>1 DEF Confines, Owner, ArtifactMoves, May
  <2> QED
    BY <1>1, <1>3, <2>9, <2>10, <2>11, <2>12, <2>13, DoneStep DEF IndInv
<1> QED
  BY <1>4, <1>5 DEF Discover

-----------------------------------------------------------------------------
(* Writes of locations.                                                    *)

(* What a step of r may do to locations: insert one of a model that exists *)
(* and whose tenant the user may change, with a new ID; or change or       *)
(* delete one of such a tenant, and not move it to another model.          *)
LocationMoves(r) ==
    \A l \in Locations :
        \/ locations'[l] = locations[l]
        \/ /\ locations[l] = NoRow /\ l \notin used /\ artifacts[locations'[l].artifact] # NoRow
           /\ locations'[l].tenant = artifacts[locations'[l].artifact].tenant /\ May(User(r), locations'[l].tenant)
        \/ /\ locations[l] # NoRow /\ May(User(r), locations[l].tenant)
           /\ locations'[l] # NoRow => /\ locations'[l].artifact = locations[l].artifact
                                       /\ locations'[l].tenant = locations[l].tenant

(* Such a step, at the end of a handler that writes no other table.        *)
LEMMA LocationsOnly ==
    ASSUME IndInv, NEW r \in Requests, Done(r), Keep, UNCHANGED <<artifacts, roots, deployments, shown>>,
           used \subseteq used', used' \subseteq Artifacts \cup Locations \cup Roots \cup Deployments,
           LocationTable', LocationMoves(r)
    PROVE  IndInv' /\ Confines(r)
<1>1. World' /\ load' = load /\ ShownFormats'
  BY SameWorld
<1>2. Tables'
  BY OtherTables DEF IndInv, Tables
<1>3. NoDanglingRows' /\ LocationOfModelsTenant'
  <2>1. \A l \in Locations : locations'[l] # NoRow =>
              \/ /\ locations[l] # NoRow
                 /\ locations'[l].artifact = locations[l].artifact /\ locations'[l].tenant = locations[l].tenant
              \/ /\ artifacts'[locations'[l].artifact] # NoRow
                 /\ locations'[l].tenant = artifacts'[locations'[l].artifact].tenant
    BY DEF LocationMoves
  <2>2. artifacts' = artifacts /\ deployments' = deployments
    OBVIOUS
  <2> QED
    BY <1>2, <2>1, <2>2, RefsStep
<1>4. Kept
  BY <1>1 DEF Kept, LocationMoves
<1>5. Slots'
  BY <1>4, DoneStep DEF IndInv
<1>6. Confines(r)
  BY DEF Confines, Owner, May, LocationMoves
<1> QED
  BY <1>1, <1>2, <1>3, <1>5, <1>6 DEF IndInv

(* HandleCreateModelLocation: the tenant that was read with the model is   *)
(* still the model's, if the model is there.                               *)
LEMMA CreateLocation ==
    ASSUME IndInv, NEW r \in Requests, LocationCreateWrite(r)
    PROVE  IndInv' /\ Confines(r)
<1>1. /\ At(r, "location-create", "write") /\ "location-create" \in Ops
      /\ Done(r) /\ Keep /\ UNCHANGED <<artifacts, roots, deployments, shown>>
  BY DEF LocationCreateWrite, Ops
<1>2. /\ Arg(r).artifact \in Artifacts /\ Arg(r).status \in Statuses /\ Arg(r).match \in Matches
      /\ May(User(r), req[r].saw.tenant)
      /\ artifacts[Arg(r).artifact] # NoRow => req[r].saw.tenant = artifacts[Arg(r).artifact].tenant
  BY <1>1, Under DEF At, ArgOf, Held
<1>3. /\ Slots /\ Tables /\ LocationTable
      /\ used \subseteq Artifacts \cup Locations \cup Roots \cup Deployments
  BY DEF IndInv, Tables
<1>4. CASE UNCHANGED <<locations, used>>
  <2>1. UNCHANGED <<world, tables, shown>>
    BY <1>1, <1>4 DEF tables, Keep
  <2> QED
    BY <1>1, <1>3, <2>1, SameTables, DoneStep DEF IndInv
<1>5. ASSUME NEW l \in Free(Locations), LocationInsertable(NewLocation(r)),
             locations' = Insert(locations, l, NewLocation(r)), used' = used \cup {l}
      PROVE  IndInv' /\ Confines(r)
  <2>1. PICK row : row = NewLocation(r)
    OBVIOUS
  <2>2. LocationFields(row) /\ row.artifact = Arg(r).artifact /\ row.tenant = req[r].saw.tenant
    BY <1>2, <2>1 DEF NewLocation, LocationRow, LocationFields
  <2>3. artifacts[row.artifact] # NoRow
    BY <1>5, <2>1 DEF LocationInsertable
  <2>4. l \in Locations /\ l \notin used /\ locations[l] = NoRow
    BY <1>3, FreeFacts DEF LocationTable
  <2>5. /\ locations' = [locations EXCEPT ![l] = row] /\ used \subseteq used' /\ l \in used'
        /\ used' \subseteq Artifacts \cup Locations \cup Roots \cup Deployments
    BY <1>3, <1>5, <2>1, <2>4 DEF Insert
  <2>6. LocationTable' /\ \A m \in Locations : locations'[m] = IF m = l THEN row ELSE locations[m]
    BY <1>3, <2>2, <2>4, <2>5, WriteLocation
  <2>7. LocationMoves(r)
    BY <1>2, <2>2, <2>3, <2>4, <2>6 DEF LocationMoves
  <2> QED
    BY <1>1, <2>5, <2>6, <2>7, LocationsOnly
<1> QED
  BY <1>4, <1>5 DEF LocationCreateWrite

(* A changed location is one, of the model and the tenant it was.          *)
LEMMA ChangedLocation ==
    ASSUME NEW row, NEW new, NEW s, NEW m, NEW p, NEW q, LocationFields(row), s \in Statuses, m \in Matches,
           new = [row EXCEPT !.status = s, !.match = m, !.root = p, !.abs = q]
    PROVE  LocationFields(new) /\ new.artifact = row.artifact /\ new.tenant = row.tenant
<1>1. DOMAIN row = {"artifact", "root", "abs", "status", "match", "tenant", "type", "meta"}
  BY DEF LocationFields
<1>2. /\ DOMAIN new = DOMAIN row /\ new.artifact = row.artifact /\ new.tenant = row.tenant
      /\ new.status = s /\ new.match = m /\ new = [f \in DOMAIN row |-> new[f]]
  BY <1>1
<1>3. new = [artifact |-> new.artifact, root |-> new.root, abs |-> new.abs, status |-> new.status,
             match |-> new.match, tenant |-> new.tenant, type |-> new.type, meta |-> new.meta]
  BY <1>1, <1>2
<1> QED
  BY <1>2, <1>3 DEF LocationFields

(* Such a change, or the deletion, of a location the user may change.      *)
LEMMA OneLocation ==
    ASSUME IndInv, NEW r \in Requests, Done(r), Keep, UNCHANGED <<artifacts, roots, deployments, used, shown>>,
           NEW l \in Locations, locations[l] # NoRow, May(User(r), locations[l].tenant),
           NEW new, locations' = [locations EXCEPT ![l] = new],
           \/ new = NoRow
           \/ LocationFields(new) /\ new.artifact = locations[l].artifact /\ new.tenant = locations[l].tenant
    PROVE  IndInv' /\ Confines(r)
<1>1. /\ LocationTable /\ used \subseteq Artifacts \cup Locations \cup Roots \cup Deployments
  BY DEF IndInv, Tables
<1>2. l \in used /\ used' = used
  BY <1>1 DEF LocationTable
<1>3. LocationTable' /\ \A m \in Locations : locations'[m] = IF m = l THEN new ELSE locations[m]
  BY <1>1, <1>2, WriteLocation
<1>4. LocationMoves(r)
  BY <1>3 DEF LocationMoves
<1> QED
  BY <1>1, <1>2, <1>3, <1>4, LocationsOnly

(* What a patch makes of a location.                                       *)
LEMMA MovedLocation ==
    ASSUME IndInv, NEW r \in Requests, LocationPatchWrite(r), NEW l, l = Arg(r).location
    PROVE  /\ l \in Locations
           /\ \/ locations' = locations
              \/ /\ locations[l] # NoRow /\ May(User(r), locations[l].tenant)
                 /\ \E new : /\ locations' = [locations EXCEPT ![l] = new] /\ LocationFields(new)
                             /\ new.artifact = locations[l].artifact /\ new.tenant = locations[l].tenant
<1>1. At(r, "location-patch", "write") /\ "location-patch" \in Ops
  BY DEF LocationPatchWrite, Ops
<1>2. PICK b : b = Arg(r).body
  OBVIOUS
<1>3. /\ l \in Locations /\ b \in load.moves
      /\ locations[l] # NoRow => May(User(r), locations[l].tenant)
  BY <1>1, <1>2, Under DEF At, ArgOf, Held
<1>4. LocationTable
  BY DEF IndInv, Tables
<1>5. CASE locations[l] = NoRow \/ "disabled" \in DOMAIN b
  BY <1>2, <1>3, <1>5 DEF LocationPatchWrite
<1>6. CASE ~(locations[l] = NoRow \/ "disabled" \in DOMAIN b)
  <2>1. LocationFields(locations[l])
    BY <1>3, <1>4, <1>6 DEF LocationTable
  <2>2. PICK row : row = locations[l]
    OBVIOUS
  <2>3. PICK s, m, p, q : /\ s = Or(b, "status", row.status) /\ m = Or(b, "match", row.match)
                          /\ p = Or(b, "root", row.root) /\ q = Or(b, "abs", row.abs)
    OBVIOUS
  <2>4. PICK new : new = [row EXCEPT !.status = s, !.match = m, !.root = p, !.abs = q]
    OBVIOUS
  <2>5. locations' = [locations EXCEPT ![l].status = Or(b, "status", @), ![l].match = Or(b, "match", @),
                                       ![l].root = Or(b, "root", @), ![l].abs = Or(b, "abs", @)]
    BY <1>2, <1>6 DEF LocationPatchWrite
  <2>6. locations' = [locations EXCEPT ![l] = new]
    <3>1. DOMAIN row = {"artifact", "root", "abs", "status", "match", "tenant", "type", "meta"}
      BY <2>1, <2>2 DEF LocationFields
    <3>2. DOMAIN locations = Locations
      BY <1>4 DEF LocationTable
    <3>3. locations' = [locations EXCEPT ![l].status = s, ![l].match = m, ![l].root = p, ![l].abs = q]
      BY <1>3, <2>2, <2>3, <2>5, <3>1, <3>2
    <3> QED
      BY <1>3, <2>2, <2>4, <3>2, <3>3
  <2>7. s \in Statuses /\ m \in Matches
    <3>1. row.status \in Statuses /\ row.match \in Matches
      BY <2>1, <2>2 DEF LocationFields
    <3>2. load \in Workloads
      BY DEF IndInv, World
    <3>3. /\ "status" \in DOMAIN b => b.status \in Statuses
          /\ "match" \in DOMAIN b => b.match \in Matches
      BY <1>3, <3>2, BodyAssumption
    <3> QED
      BY <2>3, <3>1, <3>3 DEF Or
  <2>8. LocationFields(new) /\ new.artifact = locations[l].artifact /\ new.tenant = locations[l].tenant
    <3>1. LocationFields(row)
      BY <2>1, <2>2
    <3>2. LocationFields(new) /\ new.artifact = row.artifact /\ new.tenant = row.tenant
      BY <2>4, <2>7, <3>1, ChangedLocation
    <3> QED
      BY <2>2, <3>2
  <2> QED
    BY <1>3, <1>6, <2>6, <2>8
<1> QED
  BY <1>5, <1>6

(* HandlePatchModelLocation.                                               *)
LEMMA PatchLocation ==
    ASSUME IndInv, NEW r \in Requests, LocationPatchWrite(r)
    PROVE  IndInv' /\ Confines(r)
<1>1. Done(r) /\ Keep /\ UNCHANGED <<artifacts, roots, deployments, used, shown>>
  BY DEF LocationPatchWrite
<1>2. PICK l : l = Arg(r).location
  OBVIOUS
<1>3. CASE locations' = locations
  <2>1. UNCHANGED <<world, tables, shown>>
    BY <1>1, <1>3 DEF tables, Keep
  <2> QED
    BY <1>1, <2>1, SameTables, DoneStep DEF IndInv
<1>4. CASE locations' # locations
  BY <1>1, <1>2, <1>4, MovedLocation, OneLocation
<1> QED
  BY <1>3, <1>4

(* HandleDeleteModelLocation, HandleRescanModelLocation and                *)
(* HandleAttestModelLocation, which checks the tenant as it writes.        *)
LEMMA OtherLocationWrites ==
    ASSUME IndInv, NEW r \in Requests, LocationDeleteWrite(r) \/ LocationMark(r)
    PROVE  IndInv' /\ Confines(r)
<1>1. /\ Done(r) /\ Keep /\ UNCHANGED <<artifacts, roots, deployments, used, shown>>
  BY DEF LocationDeleteWrite, LocationMark
<1>2. PICK l : l = Arg(r).location
  OBVIOUS
<1>3. Slots /\ LocationTable
  BY DEF IndInv, Tables
<1>4. CASE locations' = locations
  <2>1. UNCHANGED <<world, tables, shown>>
    BY <1>1, <1>4 DEF tables, Keep
  <2> QED
    BY <1>1, <1>3, <2>1, SameTables, DoneStep DEF IndInv
<1>5. CASE LocationDeleteWrite(r) /\ locations' # locations
  <2>1. At(r, "location-delete", "write") /\ "location-delete" \in Ops
    BY <1>5 DEF LocationDeleteWrite, Ops
  <2>2. l \in Locations /\ (locations[l] # NoRow => May(User(r), locations[l].tenant))
    BY <1>2, <2>1, Under DEF At, ArgOf, Held
  <2>3. PICK new : new = NoRow /\ locations' = [locations EXCEPT ![l] = new]
    BY <1>2, <1>5 DEF LocationDeleteWrite
  <2>4. locations[l] # NoRow
    BY <1>3, <1>5, <2>2, <2>3 DEF LocationTable
  <2> QED
    BY <1>1, <2>2, <2>3, <2>4, OneLocation
<1>6. CASE LocationMark(r) /\ locations' # locations
  <2>1. /\ locations[l] # NoRow /\ tenantScopeCheck(r, locations[l].tenant)
        /\ locations' = [locations EXCEPT ![l].status = "manually_accepted", ![l].match = "manual_attested"]
    BY <1>2, <1>6 DEF LocationMark
  <2>2. l \in Locations
    BY <1>2, <1>6, Under DEF LocationMark, ArgOf, Ops
  <2>3. LocationFields(locations[l]) /\ May(User(r), locations[l].tenant)
    BY <1>3, <2>1, <2>2, TenantCheck DEF LocationTable
  <2>4. PICK row, s, m, p, q : /\ row = locations[l] /\ s = "manually_accepted" /\ m = "manual_attested"
                               /\ p = row.root /\ q = row.abs
    OBVIOUS
  <2>5. PICK new : new = [row EXCEPT !.status = s, !.match = m, !.root = p, !.abs = q]
    OBVIOUS
  <2>6. DOMAIN row = {"artifact", "root", "abs", "status", "match", "tenant", "type", "meta"}
    BY <2>3, <2>4 DEF LocationFields
  <2>7. locations' = [locations EXCEPT ![l] = new]
    <3>1. new = [row EXCEPT !.status = s, !.match = m]
      BY <2>4, <2>5, <2>6
    <3>2. DOMAIN locations = Locations
      BY <1>3 DEF LocationTable
    <3> QED
      BY <2>1, <2>2, <2>4, <3>1, <3>2
  <2>8. s \in Statuses /\ m \in Matches /\ LocationFields(row)
    BY <2>3, <2>4 DEF Statuses, Matches
  <2>9. LocationFields(new) /\ new.artifact = row.artifact /\ new.tenant = row.tenant
    BY <2>5, <2>8, ChangedLocation
  <2>10. LocationFields(new) /\ new.artifact = locations[l].artifact /\ new.tenant = locations[l].tenant
    BY <2>4, <2>9
  <2> QED
    BY <1>1, <2>1, <2>2, <2>3, <2>7, <2>10, OneLocation
<1> QED
  BY <1>4, <1>5, <1>6

-----------------------------------------------------------------------------
(* Deployments.                                                            *)

(* What a step may do to deployments: insert, change or delete one, each   *)
(* of a model that exists; a row keeps its tenant.                         *)
DeploymentsKept ==
    \A d \in Deployments : deployments'[d] # NoRow =>
        \/ /\ deployments[d] # NoRow /\ deployments'[d].tenant = deployments[d].tenant
           /\ \/ deployments'[d].artifact = deployments[d].artifact
              \/ artifacts[deployments'[d].artifact] # NoRow
        \/ d \notin used /\ artifacts[deployments'[d].artifact] # NoRow

(* A step that writes deployments only.                                    *)
LEMMA DeploymentsOnly ==
    ASSUME IndInv, Keep, UNCHANGED <<artifacts, locations, roots, shown>>,
           used \subseteq used', used' \subseteq Artifacts \cup Locations \cup Roots \cup Deployments,
           DeploymentTable', DeploymentsKept
    PROVE  Kept /\ (Slots' => IndInv')
<1>1. World' /\ load' = load /\ ShownFormats'
  BY SameWorld
<1>2. Tables'
  BY OtherTables DEF IndInv, Tables
<1>3. NoDanglingRows' /\ LocationOfModelsTenant'
  <2>1. \A d \in Deployments : deployments'[d] # NoRow =>
              \/ deployments[d] # NoRow /\ deployments'[d].artifact = deployments[d].artifact
              \/ artifacts'[deployments'[d].artifact] # NoRow
    BY DEF DeploymentsKept
  <2>2. artifacts' = artifacts /\ locations' = locations
    OBVIOUS
  <2> QED
    BY <1>2, <2>1, <2>2, RefsStep
<1>4. Kept
  BY <1>1 DEF Kept, DeploymentsKept
<1> QED
  BY <1>1, <1>2, <1>3, <1>4 DEF IndInv

(* HandleCreateDeployment.                                                 *)
LEMMA Deploy ==
    ASSUME IndInv, NEW r \in Requests, DeployWrite(r)
    PROVE  IndInv' /\ Confines(r)
<1>1. /\ At(r, "deploy", "write") /\ "deploy" \in Ops
      /\ Done(r) /\ Keep /\ UNCHANGED <<artifacts, locations, roots, shown>>
  BY DEF DeployWrite, Ops
<1>2. Arg(r).artifact \in Artifacts
  BY <1>1, Under DEF At, ArgOf
<1>3. /\ Slots /\ Tables /\ DeploymentTable
      /\ used \subseteq Artifacts \cup Locations \cup Roots \cup Deployments
  BY DEF IndInv, Tables
<1>4. CASE UNCHANGED <<deployments, used>>
  <2>1. UNCHANGED <<world, tables, shown>>
    BY <1>1, <1>4 DEF tables, Keep
  <2> QED
    BY <1>1, <1>3, <2>1, SameTables, DoneStep DEF IndInv
<1>5. ASSUME NEW d \in Free(Deployments), artifacts[Arg(r).artifact] # NoRow, used' = used \cup {d},
             deployments' = Insert(deployments, d, [artifact |-> Arg(r).artifact, tenant |-> User(r).tenant,
                                                    state |-> "none", from |-> NoRow])
      PROVE  IndInv' /\ Confines(r)
  <2>1. PICK row : row = [artifact |-> Arg(r).artifact, tenant |-> User(r).tenant, state |-> "none", from |-> NoRow]
    OBVIOUS
  <2>2. DeploymentRow(row) /\ row.artifact = Arg(r).artifact /\ row.tenant = User(r).tenant
    BY <1>2, <2>1 DEF DeploymentRow
  <2>3. d \in Deployments /\ d \notin used
    BY FreeFacts
  <2>4. /\ deployments' = [deployments EXCEPT ![d] = row] /\ used \subseteq used' /\ d \in used'
        /\ used' \subseteq Artifacts \cup Locations \cup Roots \cup Deployments
    BY <1>3, <1>5, <2>1, <2>3 DEF Insert
  <2>5. DeploymentTable' /\ \A e \in Deployments : deployments'[e] = IF e = d THEN row ELSE deployments[e]
    BY <1>3, <2>2, <2>3, <2>4, WriteDeployment
  <2>6. DeploymentsKept
    BY <1>5, <2>2, <2>3, <2>5 DEF DeploymentsKept
  <2>7. Kept /\ (Slots' => IndInv')
    BY <1>1, <2>4, <2>5, <2>6, DeploymentsOnly
  <2>8. deployments[d] = NoRow
    BY <1>3, <2>3 DEF DeploymentTable
  <2>9. Confines(r)
    BY <1>1, <2>2, <2>5, <2>8 DEF Confines, Owner
  <2> QED
    BY <1>1, <1>3, <2>7, <2>9, DoneStep
<1> QED
  BY <1>4, <1>5 DEF DeployWrite

(* A step that writes one deployment that is there.                        *)
LEMMA OneDeployment ==
    ASSUME IndInv, Keep, UNCHANGED <<artifacts, locations, roots, used, shown>>,
           NEW d \in Deployments, deployments[d] # NoRow, NEW new, deployments' = [deployments EXCEPT ![d] = new],
           new # NoRow => /\ DeploymentRow(new) /\ new.tenant = deployments[d].tenant
                          /\ new.artifact = deployments[d].artifact \/ artifacts[new.artifact] # NoRow
    PROVE  /\ Kept /\ (Slots' => IndInv')
           /\ \A r \in Requests : May(User(r), deployments[d].tenant) => Confines(r)
<1>1. /\ DeploymentTable /\ used \subseteq Artifacts \cup Locations \cup Roots \cup Deployments
  BY DEF IndInv, Tables
<1>2. d \in used /\ used' = used
  BY <1>1 DEF DeploymentTable
<1>3. DeploymentTable' /\ \A e \in Deployments : deployments'[e] = IF e = d THEN new ELSE deployments[e]
  <2>1. used \subseteq used' /\ (new # NoRow => DeploymentRow(new) /\ d \in used')
    BY <1>2
  <2> QED
    BY ONLY <1>1, <2>1, d \in Deployments, deployments' = [deployments EXCEPT ![d] = new], WriteDeployment
<1>4. DeploymentsKept
  BY <1>3 DEF DeploymentsKept
<1>5. Kept /\ (Slots' => IndInv')
  BY <1>1, <1>2, <1>3, <1>4, DeploymentsOnly
<1>6. \A r \in Requests : May(User(r), deployments[d].tenant) => Confines(r)
  BY <1>3 DEF Confines, Owner, May
<1> QED
  BY <1>5, <1>6

Redone(row, a, s, from) == [row EXCEPT !.artifact = a, !.state = s, !.from = from]

(* A deployment with another model, state or origin.                       *)
LEMMA ChangedDeployment ==
    ASSUME NEW row, NEW new, NEW a, NEW s, NEW from, DeploymentRow(row), a \in Artifacts,
           s \in {"none", "active", "ended"}, new = Redone(row, a, s, from)
    PROVE  DeploymentRow(new) /\ new.artifact = a /\ new.tenant = row.tenant /\ new.state = s /\ new.from = from
<1>1. DOMAIN row = {"artifact", "tenant", "state", "from"}
  BY DEF DeploymentRow
<1>2. /\ DOMAIN new = DOMAIN row /\ new.tenant = row.tenant /\ new.artifact = a /\ new.state = s /\ new.from = from
      /\ new = [f \in DOMAIN row |-> new[f]]
  BY <1>1 DEF Redone
<1>3. new = [artifact |-> new.artifact, tenant |-> new.tenant, state |-> new.state, from |-> new.from]
  BY <1>1, <1>2
<1> QED
  BY <1>2, <1>3 DEF DeploymentRow

(* What the writes of a deployment's handlers and the end of an instance   *)
(* do to the row of a deployment d.                                        *)
NewModel(d, a, new) ==
    /\ deployments' = [deployments EXCEPT ![d] = new] /\ DeploymentRow(new) /\ new.tenant = deployments[d].tenant
    /\ new.artifact = a /\ new.state = deployments[d].state /\ new.from = deployments[d].from
NewState(d, s, from, new) ==
    /\ deployments' = [deployments EXCEPT ![d] = new] /\ DeploymentRow(new) /\ new.tenant = deployments[d].tenant
    /\ new.artifact = deployments[d].artifact /\ new.state = s /\ new.from = from

(* The row that a PATCH leaves.                                            *)
LEMMA PatchedDeployment ==
    ASSUME Tables, NEW d \in Deployments, NEW a \in Artifacts, deployments[d] # NoRow,
           deployments' = [deployments EXCEPT ![d].artifact = a]
    PROVE  \E new : NewModel(d, a, new)
<1>1. PICK row, s, from : row = deployments[d] /\ s = row.state /\ from = row.from
  OBVIOUS
<1>2. DeploymentRow(row) /\ DOMAIN deployments = Deployments /\ s \in {"none", "active", "ended"}
  BY <1>1 DEF Tables, DeploymentTable, DeploymentRow
<1>3. PICK new : new = Redone(row, a, s, from)
  OBVIOUS
<1>4. new = [row EXCEPT !.artifact = a]
  BY <1>1, <1>2, <1>3 DEF DeploymentRow, Redone
<1>5. deployments' = [deployments EXCEPT ![d] = new]
  BY <1>1, <1>2, <1>4
<1>6. DeploymentRow(new) /\ new.artifact = a /\ new.tenant = row.tenant /\ new.state = s /\ new.from = from
  BY <1>2, <1>3, ChangedDeployment
<1> QED
  BY <1>1, <1>5, <1>6 DEF NewModel

(* The row that a start leaves, and the one that the end of an instance    *)
(* leaves.                                                                 *)
LEMMA StartedDeployment ==
    ASSUME Tables, NEW d \in Deployments, NEW from, deployments[d] # NoRow,
           deployments' = [deployments EXCEPT ![d].state = "active", ![d].from = from]
    PROVE  \E new : NewState(d, "active", from, new)
<1>1. PICK row, a, s : row = deployments[d] /\ a = row.artifact /\ s = "active"
  OBVIOUS
<1>2. DeploymentRow(row) /\ DOMAIN deployments = Deployments /\ a \in Artifacts /\ s \in {"none", "active", "ended"}
  BY <1>1 DEF Tables, DeploymentTable, DeploymentRow
<1>3. PICK new : new = Redone(row, a, s, from)
  OBVIOUS
<1>4. new = [[row EXCEPT !.state = "active"] EXCEPT !.from = from]
  <2>1. DOMAIN row = {"artifact", "tenant", "state", "from"}
    BY <1>2 DEF DeploymentRow
  <2>2. PICK other : other = [[row EXCEPT !.state = "active"] EXCEPT !.from = from]
    OBVIOUS
  <2>3. /\ DOMAIN other = DOMAIN row /\ other = [f \in DOMAIN row |-> other[f]]
        /\ other.artifact = a /\ other.tenant = row.tenant /\ other.state = "active" /\ other.from = from
    BY <1>1, <2>1, <2>2
  <2>4. /\ DOMAIN new = DOMAIN row /\ new = [f \in DOMAIN row |-> new[f]]
        /\ new.artifact = a /\ new.tenant = row.tenant /\ new.state = "active" /\ new.from = from
    BY <1>1, <1>3, <2>1 DEF Redone
  <2>5. new = other
    BY <2>1, <2>3, <2>4
  <2> QED
    BY <2>2, <2>5
<1>5. deployments' = [deployments EXCEPT ![d] = new]
  BY <1>1, <1>2, <1>4
<1>6. DeploymentRow(new) /\ new.artifact = a /\ new.tenant = row.tenant /\ new.state = s /\ new.from = from
  BY <1>2, <1>3, ChangedDeployment
<1> QED
  BY <1>1, <1>5, <1>6 DEF NewState

(* The same for the end.                                                   *)
LEMMA EndedDeployment ==
    ASSUME Tables, NEW d \in Deployments, deployments[d] # NoRow,
           deployments' = [deployments EXCEPT ![d].state = "ended"]
    PROVE  \E new : NewState(d, "ended", deployments[d].from, new)
<1>1. PICK row, a, from, s : row = deployments[d] /\ a = row.artifact /\ from = row.from /\ s = "ended"
  OBVIOUS
<1>2. DeploymentRow(row) /\ DOMAIN deployments = Deployments /\ a \in Artifacts /\ s \in {"none", "active", "ended"}
  BY <1>1 DEF Tables, DeploymentTable, DeploymentRow
<1>3. PICK new : new = Redone(row, a, s, from)
  OBVIOUS
<1>4. new = [row EXCEPT !.state = "ended"]
  BY <1>1, <1>2, <1>3 DEF DeploymentRow, Redone
<1>5. deployments' = [deployments EXCEPT ![d] = new]
  BY <1>1, <1>2, <1>4
<1>6. DeploymentRow(new) /\ new.artifact = a /\ new.tenant = row.tenant /\ new.state = s /\ new.from = from
  BY <1>2, <1>3, ChangedDeployment
<1> QED
  BY <1>1, <1>5, <1>6 DEF NewState

(* HandleStartDeployment after its preflight, HandlePatchDeployment and    *)
(* HandleDeleteDeployment.                                                 *)
LEMMA DeploymentWrites ==
    ASSUME IndInv, NEW r \in Requests, StartWrite(r) \/ DeployPatchWrite(r) \/ DeployDeleteWrite(r)
    PROVE  IndInv' /\ Confines(r)
<1>1. Done(r) /\ Keep /\ UNCHANGED <<artifacts, locations, roots, used, shown>>
  BY DEF StartWrite, DeployPatchWrite, DeployDeleteWrite
<1>2. PICK d : d = Arg(r).deployment
  OBVIOUS
<1>3. d \in Deployments /\ (deployments[d] # NoRow => May(User(r), deployments[d].tenant))
  BY <1>2, Under DEF StartWrite, DeployPatchWrite, DeployDeleteWrite, At, ArgOf, Held, Ops
<1>4. Slots /\ Tables
  BY DEF IndInv
<1>5. CASE deployments' = deployments
  <2>1. UNCHANGED <<world, tables, shown>>
    BY <1>1, <1>5 DEF tables, Keep
  <2> QED
    BY <1>1, <1>4, <2>1, SameTables, DoneStep DEF IndInv
<1>6. ASSUME deployments[d] # NoRow, NEW new, deployments' = [deployments EXCEPT ![d] = new],
             new # NoRow => /\ DeploymentRow(new) /\ new.tenant = deployments[d].tenant
                            /\ new.artifact = deployments[d].artifact \/ artifacts[new.artifact] # NoRow
      PROVE  IndInv' /\ Confines(r)
  <2>1. Kept /\ (Slots' => IndInv') /\ (May(User(r), deployments[d].tenant) => Confines(r))
    BY <1>1, <1>3, <1>6, OneDeployment
  <2> QED
    BY <1>1, <1>3, <1>4, <1>6, <2>1, DoneStep
<1>7. CASE StartWrite(r) /\ deployments' # deployments
  <2>1. deployments[d] # NoRow /\ deployments' = [deployments EXCEPT ![d].state = "active", ![d].from = req[r].saw]
    BY <1>2, <1>7 DEF StartWrite
  <2>2. PICK new : NewState(d, "active", req[r].saw, new)
    BY <1>3, <1>4, <2>1, StartedDeployment
  <2> QED
    BY <1>6, <2>1, <2>2 DEF NewState
<1>8. CASE DeployPatchWrite(r) /\ deployments' # deployments
  <2>1. PICK a : a = Arg(r).artifact
    OBVIOUS
  <2>2. deployments[d] # NoRow /\ artifacts[a] # NoRow /\ deployments' = [deployments EXCEPT ![d].artifact = a]
    BY <1>2, <1>8, <2>1 DEF DeployPatchWrite
  <2>3. a \in Artifacts
    BY <1>8, <2>1, Under DEF DeployPatchWrite, At, ArgOf, Ops
  <2>4. PICK new : NewModel(d, a, new)
    BY <1>3, <1>4, <2>2, <2>3, PatchedDeployment
  <2> QED
    BY <1>6, <2>2, <2>4 DEF NewModel
<1>9. CASE DeployDeleteWrite(r) /\ deployments' # deployments
  <2>1. PICK new : new = NoRow /\ deployments' = [deployments EXCEPT ![d] = new]
    BY <1>2, <1>9 DEF DeployDeleteWrite
  <2>2. deployments[d] # NoRow
    BY <1>3, <1>4, <1>9, <2>1 DEF Tables, DeploymentTable
  <2> QED
    BY <1>6, <2>1, <2>2
<1> QED
  BY <1>5, <1>7, <1>8, <1>9

(* The instance ends.                                                      *)
LEMMA EndInstance ==
    ASSUME IndInv, NEW d \in Deployments, InstanceEnds(d)
    PROVE  IndInv'
<1>1. /\ deployments[d] # NoRow /\ Keep /\ UNCHANGED <<artifacts, locations, roots, used, shown, req>>
      /\ Slots /\ Tables
  BY TableRows DEF InstanceEnds, IndInv
<1>2. PICK new : NewState(d, "ended", deployments[d].from, new)
  BY <1>1, EndedDeployment DEF InstanceEnds
<1>3. Kept /\ (Slots' => IndInv')
  BY <1>1, <1>2, OneDeployment DEF NewState
<1>4. Slots'
  <2>1. ASSUME NEW q \in Requests
        PROVE  SlotValue(req[q])'
    <3>1. PICK v : v = req[q] /\ v = req'[q]
      BY <1>1
    <3>2. SlotValue(v)'
      BY <1>1, <1>3, <3>1, ValueStays DEF Slots
    <3> QED
      BY <3>1, <3>2
  <2> QED
    BY <1>1, <2>1 DEF Slots
<1> QED
  BY <1>3, <1>4

(* HandleTransfer writes none of the tables.                               *)
LEMMA Transfer ==
    ASSUME IndInv, NEW r \in Requests, TransferWrite(r)
    PROVE  IndInv' /\ Confines(r)
<1>1. Done(r) /\ UNCHANGED <<world, tables, shown>> /\ Slots
  BY DEF TransferWrite, IndInv
<1> QED
  BY <1>1, SameTables, DoneStep DEF IndInv

-----------------------------------------------------------------------------
(* The agent.                                                              *)

(* What it answers to a scan has formats that a model can have.            *)
LEMMA AnswerStep ==
    ASSUME IndInv, NEW r \in Requests, Done(r), Keep, UNCHANGED tables, NEW kind, NEW found,
           Answer(r, kind, found), kind = "scan" => \A c \in found : c.format \in Formats
    PROVE  IndInv' /\ Confines(r)
<1>1. PICK under, root, abs : /\ under = req[r].saw /\ root = Arg(r).root
                              /\ abs = CleanAbs(req[r].saw \o Clean(Arg(r).rel.path))
  OBVIOUS
<1>2. shown' = [kind |-> kind, root |-> root, under |-> under, abs |-> abs, found |-> found]
  BY <1>1 DEF Answer
<1>3. /\ load' = load /\ dir' = dir /\ agent' = agent /\ artifacts' = artifacts /\ locations' = locations
      /\ roots' = roots /\ deployments' = deployments /\ used' = used
  BY DEF Keep, world, tables
<1>5. shown'.kind = kind /\ shown'.found = found
  BY <1>2
<1>6. ShownFormats'
  BY <1>5 DEF ShownFormats
<1>8. World' /\ load' = load
  BY SameWorld
<1>9. Tables'
  BY <1>3, OtherTables DEF IndInv, Tables
<1>10. NoDanglingRows' /\ LocationOfModelsTenant'
  BY <1>3 DEF IndInv, NoDanglingRows, LocationOfModelsTenant, Rows
<1>11. Kept
  BY <1>3 DEF Kept
<1>12. Slots'
  BY <1>11, DoneStep DEF IndInv
<1>13. Confines(r)
  BY <1>3 DEF Confines
<1> QED
  BY <1>6, <1>8, <1>9, <1>10, <1>12, <1>13 DEF IndInv

(* The scan, the list of files, and the agent that does not answer.        *)
LEMMA AgentSteps ==
    ASSUME IndInv, NEW r \in Requests, AgentScan(r) \/ AgentFiles(r) \/ AgentRefuses(r)
    PROVE  IndInv' /\ Confines(r)
<1>1. Done(r) /\ Keep /\ UNCHANGED tables
  BY DEF AgentScan, AgentFiles, AgentRefuses
<1>2. CASE UNCHANGED shown
  BY <1>1, <1>2, SameTables, DoneStep DEF IndInv, Keep
<1>3. CASE AgentScan(r) /\ ~UNCHANGED shown
  <2>1. PICK abs, found : Answer(r, "scan", found) /\ found = ScanModelPath(abs)
    BY <1>3 DEF AgentScan
  <2>3. \A c \in found : c.format \in Formats
    BY <2>1, ScanFormats
  <2> QED
    BY <1>1, <2>1, <2>3, AnswerStep
<1>4. CASE AgentFiles(r)
  <2>1. PICK found : Answer(r, "browse", found)
    BY <1>4 DEF AgentFiles
  <2> QED
    BY <1>1, <2>1, AnswerStep
<1> QED
  BY <1>2, <1>3, <1>4 DEF AgentRefuses

-----------------------------------------------------------------------------
(* New requests.                                                           *)

(* A request that is well formed takes a slot that was free.               *)
LEMMA AcceptStep ==
    ASSUME IndInv, NEW r \in Requests, NEW op \in Ops, NEW args, Accept(r, op, args), \A a \in args : op \in load.ops => ArgOf(op, a)
    PROVE  IndInv' /\ req[r] = Idle /\ \A q \in Requests : q # r => req'[q] = req[q]
<1>1. UNCHANGED <<world, tables, shown>> /\ req[r] = Idle /\ op \in load.ops
  BY DEF Accept, Keep
<1>2. PICK u \in load.users, a \in args : req' = [req EXCEPT ![r] = [op |-> op, pc |-> "read", user |-> u, arg |-> a]]
  BY DEF Accept
<1>3. PICK new : new = ReadReq(op, u, a) /\ req' = [req EXCEPT ![r] = new]
  BY <1>2 DEF ReadReq
<1>4. SlotValue(new)
  BY <1>1, <1>3, SlotFields DEF SlotValue
<1>5. Slots'
  BY <1>1, <1>3, <1>4, SameTables, ValueStays, SlotsStep DEF IndInv
<1>6. \A q \in Requests : q # r => req'[q] = req[q]
  BY <1>3 DEF IndInv, Slots
<1> QED
  BY <1>1, <1>5, <1>6, SameTables DEF IndInv

(* Every request that a workload sends is well formed.                     *)
LEMMA AcceptSteps ==
    ASSUME IndInv, NEW r \in Requests, AcceptAny(r)
    PROVE  IndInv' /\ req[r] = Idle /\ \A q \in Requests : q # r => req'[q] = req[q]
<1> DEFINE Goal == IndInv' /\ req[r] = Idle /\ \A q \in Requests : q # r => req'[q] = req[q]
           Good(op, args) == op \in Ops /\ \A a \in args : op \in load.ops => ArgOf(op, a)
<1>1. \A op, args : Good(op, args) /\ Accept(r, op, args) => Goal
  BY AcceptStep
<1>2. /\ load \in Workloads /\ load.statuses \subseteq Statuses /\ load.matches \subseteq Matches
      /\ \A b \in load.bodies : b.format \in Formats
  BY BodyAssumption DEF IndInv, World
<1>3. {"gguf", "custom"} \subseteq Formats
  BY DEF Formats, Defaults, Default
<1>4. Good("root-add", {[path |-> p, source |-> s] : p \in load.paths, s \in {"user", "config"}})
  BY DEF Ops, ArgOf
<1>5. /\ Good("root-patch", {[root |-> x, status |-> s] : x \in Roots \cap used, s \in {"enabled", "disabled"}})
      /\ Good("root-delete", {[root |-> x] : x \in Roots \cap used})
  BY DEF Ops, ArgOf
<1>6. Good("artifact-create", {[name |-> n, path |-> p, format |-> f, task |-> "chat", caps |-> {}] :
                                        n \in Names, p \in load.paths, f \in {"gguf", "custom"}})
  BY <1>3 DEF Ops, ArgOf
<1>7. /\ Good("artifact-patch", {[artifact |-> a, body |-> b] : a \in Artifacts \cap used, b \in load.patches})
      /\ Good("artifact-delete", {[artifact |-> a] : a \in Artifacts \cap used})
      /\ Good("deploy", {[artifact |-> a] : a \in Artifacts \cap used})
  BY DEF Ops, ArgOf
<1>8. Good("discover", ToDiscover)
  <2>1. \A c \in CandidatesOnDisk : c.format \in Formats
    BY CandidateFormats DEF CandidatesOnDisk
  <2>2. \A a \in ToDiscover : a.name \in Names /\ a.format \in Formats
    BY <1>2, <2>1 DEF ToDiscover
  <2> QED
    BY <2>2 DEF Ops, ArgOf
<1>9. Good("location-create", LocationArgs)
  <2>1. \A a \in LocationArgs : a.artifact \in Artifacts \cap used /\ a.status \in Statuses /\ a.match \in Matches
    BY <1>2 DEF LocationArgs
  <2> QED
    BY <2>1 DEF Ops, ArgOf
<1>10. /\ Good("location-patch", {[location |-> l, body |-> b] : l \in Locations \cap used, b \in load.moves})
       /\ Good("location-delete", {[location |-> l] : l \in Locations \cap used})
  BY DEF Ops, ArgOf
<1>11. \A op \in {"rescan", "attest"} : Good(op, {[location |-> l] : l \in Locations \cap used})
  BY DEF Ops, ArgOf
<1>12. \A op \in {"scan", "browse"} : Good(op, {[root |-> x, rel |-> rel] : x \in Roots \cap used, rel \in load.rels})
  BY DEF Ops, ArgOf
<1>13. Good("wizard", ShownCandidates)
  <2>1. \A a \in ShownCandidates : a.name \in Names /\ a.cand.format \in Formats
    BY DEF ShownCandidates, IndInv, ShownFormats
  <2> QED
    BY <2>1 DEF Ops, ArgOf
<1>14. /\ Good("deploy-patch", {[deployment |-> d, artifact |-> a] : d \in Deployments \cap used, a \in Artifacts \cap used})
       /\ \A op \in {"deploy-delete", "start"} : Good(op, {[deployment |-> d] : d \in Deployments \cap used})
       /\ Good("transfer", {[tenant |-> u.tenant] : u \in load.users})
  BY DEF Ops, ArgOf
<1> HIDE DEF Goal, Good
<1>15. Goal
  BY <1>1, <1>4, <1>5, <1>6, <1>7, <1>8, <1>9, <1>10, <1>11, <1>12, <1>13, <1>14 DEF AcceptAny
<1> QED
  BY <1>15 DEF Goal

-----------------------------------------------------------------------------
(* The specification.                                                      *)

(* At the start there are roots, each with an ID of its own, and no rows   *)
(* in the other tables.                                                    *)
LEMMA InitHolds == Init => IndInv
<1> SUFFICES ASSUME Init PROVE IndInv
  OBVIOUS
<1> DEFINE at == CHOOSE f \in [load.known -> Roots] : \A p, q \in load.known : p # q => f[p] # f[q]
<1>1. World
  BY LibraryAssumption DEF Init, World
<1>2. at \in [load.known -> Roots]
  BY <1>1, BodyAssumption DEF World
<1>3. /\ roots = [x \in Roots |-> IF \E p \in load.known : at[p] = x
                                  THEN [path |-> CHOOSE p \in load.known : at[p] = x, status |-> "enabled",
                                        source |-> "user", tenant |-> NodeTenant]
                                  ELSE NoRow]
      /\ used = {at[p] : p \in load.known}
  BY DEF Init
<1> HIDE DEF at
<1>4. RootTable /\ used \subseteq Roots
  <2>1. DOMAIN roots = Roots /\ roots = [x \in Roots |-> roots[x]]
    BY <1>3
  <2>2. ASSUME NEW x \in Roots, roots[x] # NoRow
        PROVE  RootRow(roots[x]) /\ x \in used
    <3>1. PICK path : roots[x] = [path |-> path, status |-> "enabled", source |-> "user", tenant |-> NodeTenant]
      BY <1>3, <2>2
    <3>2. x \in used
      BY <1>3, <2>2
    <3> QED
      BY <3>1, <3>2 DEF RootRow
  <2> QED
    BY <1>2, <1>3, <2>1, <2>2 DEF RootTable
<1>5. ArtifactTable /\ LocationTable /\ DeploymentTable
  BY DEF Init, ArtifactTable, LocationTable, DeploymentTable
<1>6. Tables
  BY <1>4, <1>5 DEF Tables
<1>7. NoDanglingRows /\ LocationOfModelsTenant
  <2>1. Rows(locations) = {} /\ Rows(deployments) = {}
    BY <1>6, TableRows DEF Init
  <2> QED
    BY <2>1 DEF NoDanglingRows, LocationOfModelsTenant
<1>8. Slots
  BY DEF Init, Slots, SlotValue
<1>9. ShownFormats
  BY DEF Init, ShownFormats, Nothing
<1> QED
  BY <1>1, <1>6, <1>7, <1>8, <1>9 DEF IndInv

(* A step of a handler.                                                    *)
LEMMA ServeStep ==
    ASSUME IndInv, NEW r \in Requests, Serve(r)
    PROVE  IndInv' /\ Confines(r)
<1>1. CASE \/ RootAddRead(r) \/ RootAddTenant(r) \/ RootPatchRead(r) \/ RootDeleteRead(r)
           \/ ArtifactPatchRead(r) \/ ArtifactDeleteRead(r)
           \/ LocationCreateRead(r) \/ LocationPatchRead(r) \/ LocationDeleteRead(r)
           \/ HandleProxyNodeFiles(r) \/ HandleProxyNodeModelScan(r) \/ DeployRead(r) \/ TransferRead(r)
           \/ DeployPatchRead(r) \/ DeployDeleteRead(r) \/ StartRead(r) \/ StartCheck(r)
  BY <1>1, RootReads, ArtifactReads, LocationReads, OtherReads
<1>2. CASE RootAddWrite(r) \/ RootAddEnable(r) \/ RootPatchWrite(r) \/ RootDeleteWrite(r)
  BY <1>2, RootWrites
<1>3. CASE \/ ArtifactCreate(r) \/ ArtifactPatchWrite(r) \/ ArtifactDeleteWrite(r) \/ Discover(r) \/ WizardCreate(r)
  BY <1>3, CreateArtifact, PatchArtifact, RemoveArtifact, DiscoverArtifact, Wizard
<1>4. CASE LocationCreateWrite(r) \/ LocationPatchWrite(r) \/ LocationDeleteWrite(r) \/ LocationMark(r)
  BY <1>4, CreateLocation, PatchLocation, OtherLocationWrites
<1>5. CASE AgentScan(r) \/ AgentFiles(r) \/ AgentRefuses(r)
  BY <1>5, AgentSteps
<1>6. CASE DeployWrite(r) \/ DeployPatchWrite(r) \/ DeployDeleteWrite(r) \/ StartWrite(r) \/ TransferWrite(r)
  BY <1>6, Deploy, DeploymentWrites, Transfer
<1> QED
  BY <1>1, <1>2, <1>3, <1>4, <1>5, <1>6 DEF Serve

(* Every step keeps the invariant.                                         *)
LEMMA StepHolds == IndInv /\ [Next]_vars => IndInv'
<1> SUFFICES ASSUME IndInv, [Next]_vars PROVE IndInv'
  OBVIOUS
<1>1. CASE UNCHANGED vars
  <2>1. UNCHANGED <<world, tables, shown>> /\ req' = req
    BY <1>1 DEF vars
  <2>2. ASSUME NEW q \in Requests
        PROVE  SlotValue(req[q])'
    <3>1. PICK v : v = req[q] /\ v = req'[q]
      BY <2>1
    <3>2. SlotValue(v)'
      BY <2>1, <3>1, SameTables, ValueStays DEF IndInv, Slots
    <3> QED
      BY <3>1, <3>2
  <2>3. Slots'
    BY <2>1, <2>2 DEF IndInv, Slots
  <2> QED
    BY <2>1, <2>3, SameTables DEF IndInv
<1>2. CASE Next
  BY <1>2, AcceptSteps, ServeStep, EndInstance DEF Next
<1> QED
  BY <1>1, <1>2

(* The invariant holds always.                                             *)
LEMMA Inductive == Spec => []IndInv
BY InitHolds, StepHolds, PTL DEF Spec

(* LibraryInv: whatever requests overlap, no location and no deployment is *)
(* without its model, and a location is of the tenant of its model.        *)
THEOREM LibraryStaysConsistent == Spec => []LibraryInv
<1>1. IndInv => LibraryInv
  <2> SUFFICES ASSUME IndInv PROVE LibraryInv
    OBVIOUS
  <2>1. /\ \A a : a \in Rows(artifacts) <=> a \in Artifacts /\ artifacts[a] # NoRow
        /\ \A l : l \in Rows(locations) <=> l \in Locations /\ locations[l] # NoRow
        /\ \A x : x \in Rows(roots) <=> x \in Roots /\ roots[x] # NoRow
        /\ \A d : d \in Rows(deployments) <=> d \in Deployments /\ deployments[d] # NoRow
    BY TableRows DEF IndInv
  <2>2. /\ Rows(artifacts) \subseteq used
        /\ \A a \in Rows(artifacts) : artifacts[a].name \in Names /\ artifacts[a].format \in Formats
    BY <2>1 DEF IndInv, Tables, ArtifactTable, ArtifactRow
  <2>3. /\ Rows(locations) \subseteq used
        /\ \A l \in Rows(locations) : locations[l].status \in Statuses /\ locations[l].match \in Matches
    BY <2>1 DEF IndInv, Tables, LocationTable, LocationFields
  <2>4. /\ Rows(roots) \subseteq used
        /\ \A x \in Rows(roots) : roots[x].status \in {"enabled", "disabled"}
    BY <2>1 DEF IndInv, Tables, RootTable, RootRow
  <2>5. /\ Rows(deployments) \subseteq used
        /\ \A d \in Rows(deployments) : deployments[d].state \in {"none", "active", "ended"}
    BY <2>1 DEF IndInv, Tables, DeploymentTable, DeploymentRow
  <2>6. \A r \in Requests : req[r].op \in Ops \cup {"none"}
    BY SlotFields DEF IndInv, Slots, SlotValue
  <2>7. TypeOK
    BY <2>2, <2>3, <2>4, <2>5, <2>6 DEF TypeOK, IndInv, World, Tables
  <2> QED
    BY <2>7 DEF LibraryInv, IndInv
<1> QED
  BY <1>1, Inductive, PTL

-----------------------------------------------------------------------------
(* The steps of a handler: its reads, the writes that end it, and the two  *)
(* steps that go on.                                                       *)
ReadActs(r) ==
    \/ RootAddRead(r) \/ RootAddTenant(r) \/ RootPatchRead(r) \/ RootDeleteRead(r)
    \/ ArtifactPatchRead(r) \/ ArtifactDeleteRead(r)
    \/ LocationCreateRead(r) \/ LocationPatchRead(r) \/ LocationDeleteRead(r)
    \/ HandleProxyNodeFiles(r) \/ HandleProxyNodeModelScan(r) \/ DeployRead(r) \/ TransferRead(r)
    \/ DeployPatchRead(r) \/ DeployDeleteRead(r) \/ StartRead(r) \/ StartCheck(r)
RootActs(r) == RootAddEnable(r) \/ RootPatchWrite(r) \/ RootDeleteWrite(r)
ModelActs(r) == ArtifactCreate(r) \/ ArtifactPatchWrite(r) \/ ArtifactDeleteWrite(r) \/ Discover(r)
LocationActs(r) == LocationCreateWrite(r) \/ LocationPatchWrite(r) \/ LocationDeleteWrite(r) \/ LocationMark(r)
AgentActs(r) == AgentScan(r) \/ AgentFiles(r) \/ AgentRefuses(r)
DeploymentActs(r) == DeployWrite(r) \/ DeployPatchWrite(r) \/ DeployDeleteWrite(r) \/ StartWrite(r)
LastActs(r) == RootActs(r) \/ ModelActs(r) \/ LocationActs(r) \/ AgentActs(r) \/ DeploymentActs(r) \/ TransferWrite(r)

(* There are no others.                                                    *)
LEMMA ServeActs ==
    ASSUME NEW r \in Requests, Serve(r)
    PROVE  ReadActs(r) \/ LastActs(r) \/ RootAddWrite(r) \/ WizardCreate(r)
BY DEF Serve, ReadActs, LastActs, RootActs, ModelActs, LocationActs, AgentActs, DeploymentActs

(* Reads are reads.                                                        *)
LEMMA ActsRead ==
    ASSUME NEW r \in Requests, ReadActs(r)
    PROVE  \E ok, saw : Read(r, ok, saw)
<1>1. CASE RootAddRead(r) \/ RootAddTenant(r) \/ RootPatchRead(r) \/ RootDeleteRead(r)
  BY <1>1 DEF RootAddRead, RootAddTenant, RootPatchRead, RootDeleteRead
<1>2. CASE ArtifactPatchRead(r) \/ ArtifactDeleteRead(r)
  BY <1>2 DEF ArtifactPatchRead, ArtifactDeleteRead
<1>3. CASE LocationCreateRead(r) \/ LocationPatchRead(r) \/ LocationDeleteRead(r)
  BY <1>3 DEF LocationCreateRead, LocationPatchRead, LocationDeleteRead
<1>4. CASE HandleProxyNodeFiles(r) \/ HandleProxyNodeModelScan(r) \/ DeployRead(r) \/ TransferRead(r)
  BY <1>4 DEF HandleProxyNodeFiles, HandleProxyNodeModelScan, ProxyRead, DeployRead, TransferRead
<1>5. CASE DeployPatchRead(r) \/ DeployDeleteRead(r) \/ StartRead(r) \/ StartCheck(r)
  BY <1>5 DEF DeployPatchRead, DeployDeleteRead, StartRead, StartCheck
<1> QED
  BY <1>1, <1>2, <1>3, <1>4, <1>5 DEF ReadActs

(* Last steps end a request that was under way.                            *)
LEMMA ActsEnd ==
    ASSUME NEW r \in Requests, LastActs(r)
    PROVE  Done(r) /\ req[r].op \in Ops
<1>1. CASE RootActs(r)
  BY <1>1 DEF RootActs, RootAddEnable, RootPatchWrite, RootDeleteWrite, At, Ops
<1>2. CASE ModelActs(r)
  BY <1>2 DEF ModelActs, ArtifactCreate, ArtifactPatchWrite, ArtifactDeleteWrite, Discover, At, Ops
<1>3. CASE LocationActs(r)
  BY <1>3 DEF LocationActs, LocationCreateWrite, LocationPatchWrite, LocationDeleteWrite, LocationMark, At, Ops
<1>4. CASE AgentActs(r)
  BY <1>4 DEF AgentActs, AgentScan, AgentFiles, AgentRefuses, Asked, At, Ops
<1>5. CASE DeploymentActs(r) \/ TransferWrite(r)
  BY <1>5 DEF DeploymentActs, DeployWrite, DeployPatchWrite, DeployDeleteWrite, StartWrite, TransferWrite, At, Ops
<1> QED
  BY <1>1, <1>2, <1>3, <1>4, <1>5 DEF LastActs

(* A step of a handler leaves the other slots alone.                       *)
LEMMA ServeOwnSlot ==
    ASSUME Slots, NEW q \in Requests, Serve(q)
    PROVE  \A r \in Requests : r # q => req'[r] = req[r]
<1>1. SUFFICES \E new : req' = [req EXCEPT ![q] = new]
  BY <1>1 DEF Slots
<1>3. Done(q) => \E new : req' = [req EXCEPT ![q] = new]
  BY DEF Done
<1>4. CASE ReadActs(q)
  <2>1. PICK ok, saw : Read(q, ok, saw)
    BY <1>4, ActsRead
  <2> QED
    BY <2>1 DEF Read
<1>5. CASE LastActs(q)
  BY <1>3, <1>5, ActsEnd
<1>6. CASE RootAddWrite(q)
  <2>1. Done(q) \/ \E there : req' = [req EXCEPT ![q].pc = "enable", ![q].saw = there]
    BY <1>6 DEF RootAddWrite
  <2> QED
    BY <1>3, <2>1
<1>7. CASE WizardCreate(q)
  <2>1. Done(q) \/ \E u, x : req' = [req EXCEPT ![q] = [op |-> "location-create", pc |-> "read", user |-> u, arg |-> x]]
    BY <1>7 DEF WizardCreate
  <2> QED
    BY <1>3, <2>1
<1> QED
  BY <1>4, <1>5, <1>6, <1>7, ServeActs

-----------------------------------------------------------------------------
(* One request at a time.                                                  *)

(* Paths of roots are paths.                                               *)
PathOf(v) == v.op = "root-add" => v.arg.path \in Seq(STRING)
Typed ==
    /\ \A x \in Roots : roots[x] # NoRow => roots[x].path \in Seq(STRING)
    /\ \A r \in Requests : req[r] # Idle => PathOf(req[r])

(* No two requests are under way.                                          *)
Alone == \A q, r \in Requests : req[q] # Idle /\ req[r] # Idle => q = r

(* What a request that is about to write has found out is still so.        *)
Current(v) ==
    /\ v.op = "root-delete" /\ ~load.dbErrors => InRoot(v.arg.root) = {}
    /\ v.op = "location-delete" /\ ~load.dbErrors => ActiveOf(locations[v.arg.location].artifact) = {}
    /\ v.op = "location-create" =>
          \E x \in EnabledRoots : roots[x].path = v.saw.root /\ IsPrefix(roots[x].path, v.saw.abs)
    /\ v.op = "artifact-patch" => artifacts[v.arg.artifact] = v.saw /\ PatchValid(v.saw, v.arg.body)
StillSo == \A r \in Requests : req[r] # Idle /\ req[r].pc = "write" => Current(req[r])

SoundInv == Typed /\ (OneAtATime => Alone /\ StillSo)

(* A set of natural numbers with an element has a smallest one.            *)
LEMMA NatMin ==
    ASSUME NEW T, T \subseteq Nat, T # {}
    PROVE  \E x \in T : \A y \in T : x <= y
<1>1. PICK R : R = OpToRel(<, Nat)
  OBVIOUS
<1>2. \A a, b \in Nat : <<a, b>> \in R <=> a < b
  BY <1>1 DEF OpToRel
<1>3. IsWellFoundedOn(R, Nat)
  BY <1>1, NatLessThanWellFounded
<1>4. PICK x \in T : \A y \in T : ~(<<y, x>> \in R)
  BY <1>3, WFMin
<1>5. \A y \in T : ~(y < x)
  BY <1>2, <1>4
<1>6. \A y \in T : x <= y
  BY <1>5
<1> QED
  BY <1>6

(* A location that is asked for lies in an enabled root, with or without   *)
(* dots in the path, and if several roots hold it one of them is outermost.*)
LEMMA WhereInRoot ==
    ASSUME IndInv, Typed, NEW b, NEW w \in resolveModelLocationRequestPath(b)
    PROVE  \E x \in EnabledRoots : roots[x].path = w.root /\ IsPrefix(roots[x].path, w.abs)
<1> DEFINE Goal == \E x \in EnabledRoots : roots[x].path = w.root /\ IsPrefix(roots[x].path, w.abs)
<1>1. \A x \in EnabledRoots : \A rel : w \in Resolved(x, rel) => Goal
  <2> SUFFICES ASSUME NEW x \in EnabledRoots, NEW rel, w \in Resolved(x, rel)
               PROVE  roots[x].path = w.root /\ IsPrefix(roots[x].path, w.abs)
    OBVIOUS
  <2>1. PICK abs : w = [root |-> roots[x].path, abs |-> abs] /\ pathWithinRoot(abs, roots[x].path)
    BY DEF Resolved
  <2> QED
    BY <2>1 DEF pathWithinRoot, IsPrefix
<1>2. CASE b.by = "root"
  BY <1>1, <1>2 DEF resolveModelLocationRequestPath, resolveNodeModelRoot
<1>3. CASE b.by # "root"
  <2>1. PICK p : p = CleanAbs(b.path)
    OBVIOUS
  <2> DEFINE Holding == {x \in EnabledRoots : pathWithinRoot(p, roots[x].path)}
             Lengths == {Len(roots[x].path) : x \in Holding}
  <2>2. Holding # {} /\ \E rel : w \in Resolved(Outermost(p), rel)
    BY <1>3, <2>1 DEF resolveModelLocationRequestPath
  <2>3. \A x \in EnabledRoots : Len(roots[x].path) \in Nat
    BY TableRows DEF EnabledRoots, IndInv, Typed
  <2>4. Lengths \subseteq Nat /\ Lengths # {}
    BY <2>2, <2>3
  <2>5. PICK n \in Lengths : \A m \in Lengths : n <= m
    BY <2>4, NatMin
  <2>6. PICK x \in Holding : n = Len(roots[x].path)
    BY <2>5
  <2>7. \A y \in Holding : Len(roots[x].path) <= Len(roots[y].path)
    BY <2>5, <2>6
  <2>8. Outermost(p) \in EnabledRoots
    BY <2>6, <2>7 DEF Outermost
  <2> QED
    BY <1>1, <2>2, <2>8
<1> QED
  BY <1>2, <1>3

(* The slot of a request after one of its steps.                           *)
NextCurrent(r) == req'[r] = Idle \/ req'[r].pc # "write" \/ Current(req[r])'

(* What the reads of a handler found is so when the write comes next.      *)
LEMMA CurrentRead ==
    ASSUME IndInv, NEW r \in Requests, NEW op \in Ops, req[r].op = op, NEW ok, NEW saw, Read(r, ok, saw),
           ok => Current(WriteReq(op, "write", User(r), Arg(r), saw))
    PROVE  NextCurrent(r) /\ req[r] # Idle
<1>1. req[r] # Idle
  BY Under
<1>2. PICK u, a : u = User(r) /\ a = Arg(r)
  OBVIOUS
<1>3. PICK new : /\ req' = [req EXCEPT ![r] = new]
                 /\ new = IF ok THEN WriteReq(op, "write", u, a, saw) ELSE Idle
  BY <1>1, <1>2, SlotFields DEF Read, User, Arg, WriteReq
<1>4. req'[r] = new
  BY <1>3 DEF IndInv, Slots
<1>5. ok => Current(new)
  BY <1>2, <1>3
<1>6. /\ artifacts' = artifacts /\ locations' = locations /\ roots' = roots /\ deployments' = deployments
      /\ load' = load
  BY DEF Read, tables, Keep, world
<1>7. ok => Current(new)'
  BY <1>5, <1>6 DEF Current, InRoot, ActiveOf, EnabledRoots, Rows
<1>8. ok => Current(req[r])'
  BY <1>4, <1>7
<1>9. ~ok => req'[r] = Idle
  BY <1>3, <1>4
<1> QED
  BY <1>1, <1>8, <1>9 DEF NextCurrent

(* The checks of the handlers, for the write that follows.                 *)
LEMMA CurrentReads ==
    ASSUME IndInv, Typed, NEW r \in Requests, ReadActs(r)
    PROVE  NextCurrent(r) /\ req[r] # Idle
<1> DEFINE Goal == NextCurrent(r) /\ req[r] # Idle
           W(op, saw) == WriteReq(op, "write", User(r), Arg(r), saw)
<1>1. ASSUME NEW op \in Ops \ {"root-delete", "location-delete", "location-create", "artifact-patch"}, NEW ok, NEW saw,
             req[r].op = op, Read(r, ok, saw)
      PROVE  Goal
  <2>1. Current(W(op, saw))
    BY SlotFields DEF Current
  <2> QED
    BY <1>1, <2>1, CurrentRead
<1>2. CASE RootAddRead(r) \/ RootAddTenant(r) \/ RootPatchRead(r)
  BY <1>1, <1>2 DEF RootAddRead, RootAddTenant, RootPatchRead, At, Ops
<1>3. CASE ArtifactDeleteRead(r) \/ LocationPatchRead(r) \/ DeployRead(r) \/ TransferRead(r)
  BY <1>1, <1>3 DEF ArtifactDeleteRead, LocationPatchRead, DeployRead, TransferRead, At, Ops
<1>4. CASE HandleProxyNodeFiles(r) \/ HandleProxyNodeModelScan(r)
  BY <1>1, <1>4 DEF HandleProxyNodeFiles, HandleProxyNodeModelScan, ProxyRead, At, Ops
<1>5. CASE DeployPatchRead(r) \/ DeployDeleteRead(r) \/ StartRead(r) \/ StartCheck(r)
  BY <1>1, <1>5 DEF DeployPatchRead, DeployDeleteRead, StartRead, StartCheck, At, Ops
<1>6. CASE RootDeleteRead(r)
  <2>1. PICK ok : /\ Read(r, ok, {Arg(r).root}) /\ At(r, "root-delete", "read")
                  /\ ok /\ ~load.dbErrors => InRoot(Arg(r).root) = {}
    BY <1>6 DEF RootDeleteRead, Counted
  <2>2. ok => Current(W("root-delete", {Arg(r).root}))
    BY <2>1, SlotFields DEF Current
  <2> QED
    BY <2>1, <2>2, CurrentRead DEF Ops, At
<1>7. CASE LocationDeleteRead(r)
  <2>1. PICK ok : /\ Read(r, ok, {}) /\ At(r, "location-delete", "read")
                  /\ ok /\ ~load.dbErrors => ActiveOf(locations[Arg(r).location].artifact) = {}
    BY <1>7 DEF LocationDeleteRead, Counted
  <2>2. ok => Current(W("location-delete", {}))
    BY <2>1, SlotFields DEF Current
  <2> QED
    BY <2>1, <2>2, CurrentRead DEF Ops, At
<1>8. CASE ArtifactPatchRead(r)
  <2>1. PICK ok, saw : /\ Read(r, ok, saw) /\ At(r, "artifact-patch", "read") /\ saw = artifacts[Arg(r).artifact]
                       /\ ok => PatchValid(saw, Arg(r).body)
    BY <1>8 DEF ArtifactPatchRead
  <2>2. ok => Current(W("artifact-patch", saw))
    BY <2>1, SlotFields DEF Current
  <2> QED
    BY <2>1, <2>2, CurrentRead DEF Ops, At
<1>9. CASE LocationCreateRead(r)
  <2>1. PICK w, ok, tenant :
             /\ Read(r, ok, IF ok THEN [root |-> w.root, abs |-> w.abs, tenant |-> tenant] ELSE NoRow)
             /\ At(r, "location-create", "read")
             /\ ok => w \in resolveModelLocationRequestPath(Arg(r))
    <3> DEFINE where == resolveModelLocationRequestPath(Arg(r))
               a == artifacts[Arg(r).artifact]
               good == /\ a # NoRow /\ tenantScopeCheck(r, a.tenant) /\ where # {}
                       /\ a.format = "gguf" => \A w \in where : IsGguf(w.abs)
    <3>1. PICK w \in where \cup {NoRow} :
              /\ where # {} => w # NoRow
              /\ Read(r, good, IF good THEN [root |-> w.root, abs |-> w.abs, tenant |-> a.tenant] ELSE NoRow)
      BY <1>9 DEF LocationCreateRead
    <3>2. good => w \in where
      BY <3>1
    <3>3. At(r, "location-create", "read")
      BY <1>9 DEF LocationCreateRead
    <3> HIDE DEF good, a, where
    <3> QED
      BY <3>1, <3>2, <3>3 DEF where
  <2>2. PICK saw : saw = IF ok THEN [root |-> w.root, abs |-> w.abs, tenant |-> tenant] ELSE NoRow
    OBVIOUS
  <2>3. ok => \E x \in EnabledRoots : roots[x].path = saw.root /\ IsPrefix(roots[x].path, saw.abs)
    BY <2>1, <2>2, WhereInRoot
  <2>4. ok => Current(W("location-create", saw))
    BY <2>3, SlotFields DEF Current
  <2> QED
    BY <2>1, <2>2, <2>4, CurrentRead DEF Ops, At
<1> QED
  BY <1>2, <1>3, <1>4, <1>5, <1>6, <1>7, <1>8, <1>9 DEF ReadActs

(* Every step of a handler.                                                *)
LEMMA ServeCurrent ==
    ASSUME IndInv, Typed, NEW r \in Requests, Serve(r)
    PROVE  NextCurrent(r) /\ req[r] # Idle
<1>1. ASSUME NEW op \in Ops, req[r].op = op
      PROVE  req[r] # Idle
  BY <1>1, Under
<1>2. CASE ReadActs(r)
  BY <1>2, CurrentReads
<1>3. Done(r) => NextCurrent(r)
  BY DEF Done, NextCurrent, IndInv, Slots
<1>4. CASE LastActs(r)
  BY <1>1, <1>3, <1>4, ActsEnd
<1>6. CASE RootAddWrite(r)
  <2>1. req[r].op = "root-add" /\ req[r].pc = "write"
    BY <1>6 DEF RootAddWrite, At
  <2>2. Done(r) \/ \E there : req' = [req EXCEPT ![r].pc = "enable", ![r].saw = there]
    BY <1>6 DEF RootAddWrite
  <2>3. req[r] = WriteReq("root-add", "write", User(r), Arg(r), req[r].saw) /\ req[r] # Idle
    BY <2>1, Under DEF Ops
  <2>4. ASSUME NEW there, req' = [req EXCEPT ![r].pc = "enable", ![r].saw = there]
        PROVE  req'[r].pc = "enable"
    <3>1. req'[r] = [req[r] EXCEPT !.pc = "enable", !.saw = there]
      BY <2>4 DEF IndInv, Slots
    <3> QED
      BY <2>3, <3>1 DEF WriteReq
  <2> QED
    BY <1>3, <2>2, <2>3, <2>4 DEF NextCurrent
<1>7. CASE WizardCreate(r)
  <2>1. Done(r) \/ \E u, x : req' = [req EXCEPT ![r] = [op |-> "location-create", pc |-> "read", user |-> u, arg |-> x]]
    BY <1>7 DEF WizardCreate
  <2>2. ASSUME NEW u, NEW x, req' = [req EXCEPT ![r] = [op |-> "location-create", pc |-> "read", user |-> u, arg |-> x]]
        PROVE  req'[r].pc = "read"
    <3>1. req'[r] = [op |-> "location-create", pc |-> "read", user |-> u, arg |-> x]
      BY <2>2 DEF IndInv, Slots
    <3> QED
      BY <3>1
  <2>3. req[r] # Idle
    BY <1>1, <1>7 DEF WizardCreate, At, Ops
  <2> QED
    BY <1>3, <2>1, <2>2, <2>3 DEF NextCurrent
<1> QED
  BY <1>2, <1>4, <1>6, <1>7, ServeActs

(* A request begins only when there is none, and its reads come first.     *)
LEMMA AcceptAlone ==
    ASSUME IndInv, NEW r \in Requests, AcceptAny(r)
    PROVE  /\ Keep /\ UNCHANGED <<tables, shown>> /\ req[r] = Idle
           /\ Cardinality({q \in Requests : req[q] # Idle}) < load.slots
           /\ \E op \in Ops : \E u, a : req' = [req EXCEPT ![r] = ReadReq(op, u, a)]
<1> DEFINE Goal == /\ Keep /\ UNCHANGED <<tables, shown>> /\ req[r] = Idle
                   /\ Cardinality({q \in Requests : req[q] # Idle}) < load.slots
                   /\ \E op \in Ops : \E u, a : req' = [req EXCEPT ![r] = ReadReq(op, u, a)]
<1>1. \A op \in Ops : \A args : Accept(r, op, args) => Goal
  BY DEF Accept, ReadReq
<1> HIDE DEF Goal
<1>2. Goal
  BY <1>1 DEF AcceptAny, Ops
<1> QED
  BY <1>2 DEF Goal

(* An instance that ends changes nothing that a request has found out.     *)
LEMMA EndsCurrent ==
    ASSUME IndInv, NEW d \in Deployments, InstanceEnds(d), NEW v, Current(v)
    PROVE  Current(v)'
<1>1. artifacts' = artifacts /\ locations' = locations /\ roots' = roots /\ load' = load
  BY DEF InstanceEnds, Keep, world
<1>2. /\ Rows(deployments)' \subseteq Rows(deployments)
      /\ \A e \in Deployments : /\ deployments'[e].artifact = deployments[e].artifact
                                /\ deployments'[e].state = "active" => deployments[e].state = "active"
  <2>1. deployments[d] # NoRow /\ DeploymentRow(deployments[d])
    BY DEF InstanceEnds, IndInv, Tables, DeploymentTable, Rows
  <2>2. \A e \in Deployments : deployments'[e] = IF e = d THEN [deployments[d] EXCEPT !.state = "ended"] ELSE deployments[e]
    BY DEF InstanceEnds, IndInv, Tables, DeploymentTable
  <2>3. DOMAIN deployments' = Deployments /\ DOMAIN deployments = Deployments
    BY DEF InstanceEnds, IndInv, Tables, DeploymentTable
  <2>4. PICK new : new = [deployments[d] EXCEPT !.state = "ended"]
    OBVIOUS
  <2>5. new.artifact = deployments[d].artifact /\ new.state = "ended"
    BY <2>1, <2>4 DEF DeploymentRow
  <2> QED
    BY <2>1, <2>2, <2>3, <2>4, <2>5 DEF Rows
<1>3. \A a : ActiveOf(a)' \subseteq ActiveOf(a)
  BY <1>2 DEF ActiveOf, Rows, IndInv, Tables, DeploymentTable
<1>4. PICK l : l = locations[v.arg.location].artifact
  OBVIOUS
<1>5. v.op = "location-delete" /\ ~load.dbErrors => ActiveOf(l)' = {}
  BY <1>3, <1>4 DEF Current
<1>6. v.op = "location-delete" /\ ~load.dbErrors => ActiveOf(locations[v.arg.location].artifact)' = {}
  BY <1>1, <1>4, <1>5
<1> QED
  BY <1>1, <1>6 DEF Current, InRoot, EnabledRoots, Rows

(* A request keeps its kind and its arguments up to its end; the wizard    *)
(* goes on as the creation of a location.                                  *)
KeepsArg(r) ==
    \/ req'[r] = Idle
    \/ req'[r].op = req[r].op /\ req'[r].arg = req[r].arg
    \/ req'[r].op = "location-create" /\ req[r].op = "wizard"

(* A request keeps its kind and its body; only the wizard's goes on with   *)
(* the location.                                                           *)
LEMMA ServeKeepsArg ==
    ASSUME IndInv, NEW r \in Requests, Serve(r)
    PROVE  KeepsArg(r)
<1>1. Done(r) => KeepsArg(r)
  BY DEF Done, KeepsArg, IndInv, Slots
<1>2. \A ok, saw : Read(r, ok, saw) => KeepsArg(r)
  <2> SUFFICES ASSUME NEW ok, NEW saw, Read(r, ok, saw)
               PROVE  KeepsArg(r)
    OBVIOUS
  <2>1. req'[r] = IF ok THEN [op |-> req[r].op, pc |-> "write", user |-> req[r].user, arg |-> req[r].arg, saw |-> saw]
                  ELSE Idle
    BY DEF Read, IndInv, Slots
  <2> QED
    BY <2>1 DEF KeepsArg
<1>3. CASE ReadActs(r)
  BY <1>2, <1>3, ActsRead
<1>4. CASE LastActs(r)
  BY <1>1, <1>4, ActsEnd
<1>5. CASE RootAddWrite(r)
  <2>1. Done(r) \/ \E there : req' = [req EXCEPT ![r].pc = "enable", ![r].saw = there]
    BY <1>5 DEF RootAddWrite
  <2>2. req[r] = WriteReq("root-add", "write", User(r), Arg(r), req[r].saw)
    BY <1>5, Under DEF RootAddWrite, At, Ops
  <2>3. ASSUME NEW there, req' = [req EXCEPT ![r].pc = "enable", ![r].saw = there]
        PROVE  KeepsArg(r)
    <3>1. req'[r] = [req[r] EXCEPT !.pc = "enable", !.saw = there]
      BY <2>3 DEF IndInv, Slots
    <3>2. req'[r].op = req[r].op /\ req'[r].arg = req[r].arg
      BY <2>2, <3>1 DEF WriteReq
    <3> QED
      BY <3>2 DEF KeepsArg
  <2> QED
    BY <1>1, <2>1, <2>3
<1>6. CASE WizardCreate(r)
  <2>1. Done(r) \/ \E u, x : req' = [req EXCEPT ![r] = [op |-> "location-create", pc |-> "read", user |-> u, arg |-> x]]
    BY <1>6 DEF WizardCreate
  <2>2. req[r].op = "wizard"
    BY <1>6 DEF WizardCreate, At
  <2>3. ASSUME NEW u, NEW x, req' = [req EXCEPT ![r] = [op |-> "location-create", pc |-> "read", user |-> u, arg |-> x]]
        PROVE  KeepsArg(r)
    <3>1. req'[r] = [op |-> "location-create", pc |-> "read", user |-> u, arg |-> x]
      BY <2>3 DEF IndInv, Slots
    <3> QED
      BY <2>2, <3>1 DEF KeepsArg
  <2> QED
    BY <1>1, <2>1, <2>3
<1> QED
  BY <1>3, <1>4, <1>5, <1>6, ServeActs

(* Which handlers write which tables.                                      *)
LEMMA TablesStay ==
    ASSUME NEW r \in Requests, Serve(r)
    PROVE  /\ roots' = roots \/ RootAddWrite(r) \/ RootActs(r)
           /\ artifacts' = artifacts \/ ModelActs(r) \/ WizardCreate(r)
           /\ locations' = locations \/ LocationActs(r) \/ ArtifactDeleteWrite(r) \/ Discover(r)
           /\ deployments' = deployments \/ DeploymentActs(r)
           /\ used \subseteq used'
<1>1. CASE ReadActs(r)
  <2>1. PICK ok, saw : Read(r, ok, saw)
    BY <1>1, ActsRead
  <2> QED
    BY <2>1 DEF Read, tables
<1>3. CASE RootAddWrite(r) \/ RootActs(r)
  BY <1>3 DEF RootAddWrite, RootActs, RootAddEnable, RootPatchWrite, RootDeleteWrite
<1>4. CASE ModelActs(r) \/ WizardCreate(r)
  BY <1>4 DEF ModelActs, ArtifactCreate, ArtifactPatchWrite, ArtifactDeleteWrite, Discover, WizardCreate
<1>5. CASE LocationActs(r)
  BY <1>5 DEF LocationActs, LocationCreateWrite, LocationPatchWrite, LocationDeleteWrite, LocationMark
<1>6. CASE AgentActs(r) \/ TransferWrite(r)
  BY <1>6 DEF AgentActs, AgentScan, AgentFiles, AgentRefuses, TransferWrite, tables
<1>7. CASE DeploymentActs(r)
  BY <1>7 DEF DeploymentActs, DeployWrite, DeployPatchWrite, DeployDeleteWrite, StartWrite
<1> QED
  BY <1>1, <1>3, <1>4, <1>5, <1>6, <1>7, ServeActs DEF LastActs

(* The candidates of a directory: one of a kind for the directory itself,  *)
(* and one for each GGUF and each ONNX file.                               *)
IsCandidate(c, path, d) ==
    \/ \E id \in DOMAIN Defaults \ {"gguf", "onnx"} : \E meta : c = applyDefaults(path, "directory", meta, Defaults[id])
    \/ \E n \in GgufNames \cap d.files :
          c = applyDefaults(Append(path, n), "file", extractGGUFMetadata(n, d.headers[n]), Defaults.gguf)
    \/ \E n \in OnnxNames \cap d.files : c = applyDefaults(Append(path, n), "file", NoMetadata, Defaults.onnx)

(* Every candidate that is detected is one of these.                       *)
LEMMA Candidates ==
    ASSUME NEW path, NEW d
    PROVE  \A c \in Detected(path, d) : IsCandidate(c, path, d)
<1>1. \A p \in DirectoryPlugins(d) : p.id \in DOMAIN Defaults \ {"gguf", "onnx"}
  BY DEF DirectoryPlugins, Defaults
<1> QED
  BY <1>1 DEF Detected, DetectGGUF, DetectONNX, IsCandidate

(* Two candidates that differ at most in whether they are selected.        *)
Alike(b, c) ==
    /\ c.path = b.path /\ c.format = b.format /\ c.task = b.task /\ c.caps = b.caps /\ c.mode = b.mode
    /\ c.deployable = b.deployable /\ c.quants = b.quants

(* A candidate that a scan returns is a detected one, selected or not.     *)
LEMMA FromDetected ==
    ASSUME NEW path, NEW d, NEW c \in scanDirectory(path, d)
    PROVE  \E b \in Deduplicated(Detected(path, d)) : Alike(b, c)
<1>1. PICK cs : cs = Deduplicated(Detected(path, d))
  OBVIOUS
<1>2. cs \subseteq Detected(path, d)
  BY <1>1 DEF Deduplicated
<1>3. PICK b \in cs : c = b \/ c = [b EXCEPT !.auto = TRUE]
  BY <1>1 DEF scanDirectory, AutoSelected
<1>4. PICK q, type, meta, def : b = applyDefaults(q, type, meta, def)
  BY <1>2, <1>3, Candidates DEF IsCandidate
<1>5. Alike(b, c)
  BY <1>3, <1>4 DEF applyDefaults, Alike
<1> QED
  BY <1>1, <1>3, <1>5

(* Roots have paths, and requests name paths.                              *)
LEMMA TypedStep ==
    ASSUME IndInv, Typed, [Next]_vars
    PROVE  Typed'
<1> DEFINE Paths == \A x \in Roots : roots'[x] # NoRow => roots'[x].path \in Seq(STRING)
           Args == \A r \in Requests : req'[r] # Idle => PathOf(req'[r])
<1>1. SUFFICES Paths /\ Args
  BY <1>1 DEF Typed, PathOf
<1>2. ASSUME NEW r \in Requests, AcceptAny(r)
      PROVE  Paths /\ Args
  <2>1. Paths
    BY <1>2, AcceptAlone DEF Typed, tables
  <2>2. ASSUME NEW op, NEW args, Accept(r, op, args),
               op = "root-add" => \A a \in args : a.path \in Seq(STRING)
        PROVE  Args
    <3>1. PICK u \in load.users, a \in args :
              req' = [req EXCEPT ![r] = [op |-> op, pc |-> "read", user |-> u, arg |-> a]]
      BY <2>2 DEF Accept
    <3>2. PICK new : new = [op |-> op, pc |-> "read", user |-> u, arg |-> a]
      OBVIOUS
    <3>3. \A q \in Requests : req'[q] = IF q = r THEN new ELSE req[q]
      BY <3>1, <3>2 DEF IndInv, Slots
    <3>4. new.op = op /\ new.arg = a
      BY <3>2
    <3>5. PathOf(new)
      BY <2>2, <3>1, <3>4 DEF PathOf
    <3> QED
      BY <3>3, <3>5 DEF Typed
  <2>3. load.paths \subseteq Seq(STRING)
    BY PathAssumption DEF IndInv, World
  <2>4. ASSUME Accept(r, "root-add", {[path |-> p, source |-> s] : p \in load.paths, s \in {"user", "config"}})
        PROVE  Args
    BY <2>2, <2>3, <2>4
  <2>6. \A op, args : op # "root-add" /\ Accept(r, op, args) => Args
    BY <2>2
  <2> HIDE DEF Args
  <2> QED
    BY <1>2, <2>1, <2>4, <2>6 DEF AcceptAny
<1>3. ASSUME NEW r \in Requests, Serve(r)
      PROVE  Paths
  <2>1. CASE roots' = roots
    BY <2>1 DEF Typed
  <2>2. DOMAIN roots = Roots /\ \A x \in Roots : roots[x] # NoRow => RootRow(roots[x])
    BY DEF IndInv, Tables, RootTable
  <2>3. CASE RootAddWrite(r)
    <3>1. CASE roots' = roots
      BY <3>1 DEF Typed
    <3>2. CASE roots' # roots
      <4>1. PICK x \in Free(Roots) : roots' = Insert(roots, x, [path |-> Arg(r).path, status |-> "enabled",
                                               source |-> Arg(r).source, tenant |-> req[r].saw.tenant])
        BY <2>3, <3>2 DEF RootAddWrite
      <4>2. req[r].op = "root-add" /\ req[r] # Idle
        BY <2>3, Under DEF RootAddWrite, At, Ops
      <4>3. Arg(r).path \in Seq(STRING)
        BY <4>2 DEF Typed, PathOf, Arg
      <4> QED
        BY <2>2, <4>1, <4>3, FreeFacts DEF Typed, Insert
    <3> QED
      BY <3>1, <3>2
  <2>4. CASE RootAddEnable(r)
    <3>1. \A x \in Roots : \/ roots'[x] = [roots[x] EXCEPT !.status = "enabled"] /\ roots[x] # NoRow
                           \/ roots'[x] = roots[x]
      BY <2>4 DEF RootAddEnable, Rows
    <3> QED
      BY <2>2, <3>1 DEF Typed, RootRow
  <2>5. CASE RootPatchWrite(r)
    <3>1. \A x \in Roots : \/ roots[x] # NoRow /\ \E s : roots'[x] = [roots[x] EXCEPT !.status = s]
                           \/ roots'[x] = roots[x]
      BY <2>2, <2>5 DEF RootPatchWrite
    <3> QED
      BY <2>2, <3>1 DEF Typed, RootRow
  <2>6. CASE RootDeleteWrite(r)
    <3>1. \A x \in Roots : \/ roots'[x] = [roots[x] EXCEPT !.status = "disabled"] /\ roots[x] # NoRow
                           \/ roots'[x] = roots[x] \/ roots'[x] = NoRow
      BY <2>2, <2>6 DEF RootDeleteWrite
    <3> QED
      BY <2>2, <3>1 DEF Typed, RootRow
  <2> QED
    BY <1>3, <2>1, <2>3, <2>4, <2>5, <2>6, TablesStay DEF RootActs
<1>4. ASSUME NEW r \in Requests, Serve(r)
      PROVE  Args
  <2>1. \A q \in Requests : q # r => req'[q] = req[q]
    BY <1>4, ServeOwnSlot DEF IndInv
  <2>2. req'[r] # Idle => PathOf(req'[r])
    BY <1>4, ServeKeepsArg, ServeCurrent DEF Typed, PathOf, KeepsArg
  <2> QED
    BY <2>1, <2>2 DEF Typed
<1>5. CASE UNCHANGED vars \/ \E d \in Deployments : InstanceEnds(d)
  <2>1. roots' = roots /\ req' = req
    BY <1>5 DEF vars, tables, InstanceEnds
  <2> QED
    BY <2>1 DEF Typed
<1> QED
  BY <1>2, <1>3, <1>4, <1>5 DEF Next

(* The workload, the directory and the agent's configuration stay.         *)
LEMMA WorldStays ==
    ASSUME IndInv, [Next]_vars
    PROVE  load' = load /\ dir' = dir /\ agent' = agent
<1>1. SUFFICES UNCHANGED world
  BY <1>1 DEF world
<1>2. ASSUME NEW r \in Requests, Serve(r)
      PROVE  UNCHANGED world
  <2>1. CASE ReadActs(r)
    <3>1. PICK ok, saw : Read(r, ok, saw)
      BY <2>1, ActsRead
    <3> QED
      BY <3>1 DEF Read, Keep
  <2>2. CASE RootActs(r) \/ ModelActs(r) \/ RootAddWrite(r) \/ WizardCreate(r)
    BY <2>2 DEF RootActs, RootAddEnable, RootPatchWrite, RootDeleteWrite, ModelActs, ArtifactCreate, ArtifactPatchWrite,
       ArtifactDeleteWrite, Discover, RootAddWrite, WizardCreate, Keep
  <2>3. CASE LocationActs(r) \/ AgentActs(r)
    BY <2>3 DEF LocationActs, LocationCreateWrite, LocationPatchWrite, LocationDeleteWrite, LocationMark,
       AgentActs, AgentScan, AgentFiles, AgentRefuses, Keep
  <2>4. CASE DeploymentActs(r) \/ TransferWrite(r)
    BY <2>4 DEF DeploymentActs, DeployWrite, DeployPatchWrite, DeployDeleteWrite, StartWrite, TransferWrite, Keep
  <2> QED
    BY <1>2, <2>1, <2>2, <2>3, <2>4, ServeActs DEF LastActs
<1>3. CASE UNCHANGED vars \/ \E d \in Deployments : InstanceEnds(d)
  BY <1>3 DEF vars, InstanceEnds, Keep
<1> QED
  BY <1>2, <1>3, AcceptAlone DEF Next, Keep

(* While no two requests overlap, what one has found out stays so.         *)
LEMMA SoundStep ==
    ASSUME IndInv, SoundInv, [Next]_vars
    PROVE  SoundInv'
<1>1. Typed /\ Typed'
  BY TypedStep DEF SoundInv
<1>2. load' = load
  BY WorldStays
<1>3. SUFFICES ASSUME OneAtATime
               PROVE  Alone' /\ StillSo'
  BY <1>1, <1>2, <1>3 DEF SoundInv, OneAtATime
<1>4. Alone /\ StillSo /\ load.slots = 1
  BY <1>3 DEF SoundInv, OneAtATime
<1>5. ASSUME NEW r \in Requests, AcceptAny(r)
      PROVE  Alone' /\ StillSo'
  <2>1. PICK op, u, a : op \in Ops /\ req' = [req EXCEPT ![r] = ReadReq(op, u, a)]
    BY <1>5, AcceptAlone
  <2>2. PICK new : new = ReadReq(op, u, a) /\ req' = [req EXCEPT ![r] = new]
    BY <2>1
  <2>3. \A q \in Requests : req'[q] = IF q = r THEN new ELSE req[q]
    BY <2>2 DEF IndInv, Slots
  <2>4. new.pc = "read"
    BY <2>2, SlotFields
  <2>5. \A q \in Requests : req[q] = Idle
    <3> SUFFICES ASSUME NEW q \in Requests, req[q] # Idle PROVE FALSE
      OBVIOUS
    <3>1. {p \in Requests : req[p] # Idle} = {q}
      BY <1>4 DEF Alone
    <3>2. Cardinality({q}) = 1
      BY FS_Singleton
    <3>3. Cardinality({p \in Requests : req[p] # Idle}) < 1
      BY <1>4, <1>5, AcceptAlone
    <3> QED
      BY <3>1, <3>2, <3>3
  <2>6. Alone'
    BY <2>3, <2>5 DEF Alone
  <2>7. StillSo'
    BY <2>3, <2>4, <2>5 DEF StillSo
  <2> QED
    BY <2>6, <2>7
<1>6. ASSUME NEW r \in Requests, Serve(r)
      PROVE  Alone' /\ StillSo'
  <2>1. NextCurrent(r) /\ req[r] # Idle
    BY <1>1, <1>6, ServeCurrent
  <2>2. \A q \in Requests : q # r => req'[q] = Idle
    BY <1>4, <1>6, <2>1, ServeOwnSlot DEF Alone, IndInv
  <2>3. Alone'
    BY <2>2 DEF Alone
  <2>4. ASSUME NEW q \in Requests, req'[q] # Idle /\ req'[q].pc = "write"
        PROVE  Current(req[q])'
    BY <2>1, <2>2, <2>4 DEF NextCurrent
  <2> QED
    BY <2>3, <2>4 DEF StillSo
<1>7. ASSUME NEW d \in Deployments, InstanceEnds(d)
      PROVE  Alone' /\ StillSo'
  <2>1. req' = req
    BY <1>7 DEF InstanceEnds
  <2>2. ASSUME NEW r \in Requests, req'[r] # Idle /\ req'[r].pc = "write"
        PROVE  Current(req[r])'
    <3>1. PICK v : v = req[r] /\ v = req'[r]
      BY <2>1
    <3>2. Current(v)
      BY <1>4, <2>2, <3>1 DEF StillSo
    <3>3. Current(v)'
      BY <1>7, <3>2, EndsCurrent
    <3> QED
      BY <3>1, <3>3
  <2> QED
    BY <1>4, <2>1, <2>2 DEF Alone, StillSo
<1>8. CASE UNCHANGED vars
  BY <1>4, <1>8 DEF vars, tables, world, Alone, StillSo, Current, InRoot, ActiveOf, EnabledRoots, Rows
<1> QED
  BY <1>5, <1>6, <1>7, <1>8 DEF Next

(* It holds always.                                                        *)
LEMMA SoundInvHolds == Spec => [](IndInv /\ SoundInv)
<1>1. Init => SoundInv
  <2> SUFFICES ASSUME Init PROVE SoundInv
    OBVIOUS
  <2>1. \A r \in Requests : req[r] = Idle
    BY DEF Init
  <2>2. \A x \in Roots : roots[x] # NoRow => roots[x].path \in Seq(STRING)
    <3>1. load.known \subseteq Seq(STRING)
      BY PathAssumption DEF Init
    <3>2. PICK at : roots = [x \in Roots |-> IF \E p \in load.known : at[p] = x
                                THEN [path |-> CHOOSE p \in load.known : at[p] = x, status |-> "enabled",
                                      source |-> "user", tenant |-> NodeTenant]
                                ELSE NoRow]
      BY DEF Init
    <3> SUFFICES ASSUME NEW x \in Roots, roots[x] # NoRow PROVE roots[x].path \in Seq(STRING)
      OBVIOUS
    <3>3. PICK p \in load.known : roots[x] = [path |-> p, status |-> "enabled", source |-> "user", tenant |-> NodeTenant]
      <4>1. \E p \in load.known : at[p] = x
        BY <3>2
      <4>2. (CHOOSE p \in load.known : at[p] = x) \in load.known
        BY <4>1
      <4> QED
        BY <3>2, <4>1, <4>2
    <3> QED
      BY <3>1, <3>3
  <2> QED
    BY <2>1, <2>2 DEF SoundInv, Typed, Alone, StillSo
<1>2. IndInv /\ SoundInv /\ [Next]_vars => SoundInv'
  BY SoundStep
<1> QED
  BY <1>1, <1>2, InitHolds, StepHolds, PTL DEF Spec

-----------------------------------------------------------------------------
(* The tenant of the node.                                                 *)

(* Roots have the tenant of the node, unless it may be transferred.  A     *)
(* request to add a root was let through for the tenant that the node has, *)
(* unless the node is transferred while the request is under way.          *)
Stays == "transfer" \notin load.ops
Added(v) ==
    v.op = "root-add" /\ v.pc # "read" =>
        /\ May(v.user, nodeTenant)
        /\ v.pc = "write" /\ v.saw # NoRow => v.saw.tenant = nodeTenant
NodeRoots ==
    Stays => nodeTenant = NodeTenant /\ \A x \in Roots : roots[x] # NoRow => roots[x].tenant = NodeTenant
NodeInv == NodeRoots /\ (OneAtATime \/ Stays => \A r \in Requests : Added(req[r]))

(* Only a transfer changes the tenant of the node.                         *)
LEMMA NodeTenantStays ==
    ASSUME NEW r \in Requests, Serve(r)
    PROVE  nodeTenant' = nodeTenant \/ TransferWrite(r)
<1>1. SUFFICES UNCHANGED <<world, nodeTenant>> \/ TransferWrite(r)
  BY <1>1
<1>2. CASE ReadActs(r)
  <2>1. PICK ok, saw : Read(r, ok, saw)
    BY <1>2, ActsRead
  <2> QED
    BY <2>1 DEF Read, Keep
<1>3. CASE RootActs(r) \/ ModelActs(r) \/ RootAddWrite(r) \/ WizardCreate(r)
  BY <1>3 DEF RootActs, RootAddEnable, RootPatchWrite, RootDeleteWrite, ModelActs, ArtifactCreate, ArtifactPatchWrite,
     ArtifactDeleteWrite, Discover, RootAddWrite, WizardCreate, Keep
<1>4. CASE LocationActs(r) \/ AgentActs(r)
  BY <1>4 DEF LocationActs, LocationCreateWrite, LocationPatchWrite, LocationDeleteWrite, LocationMark,
     AgentActs, AgentScan, AgentFiles, AgentRefuses, Keep
<1>5. CASE DeploymentActs(r)
  BY <1>5 DEF DeploymentActs, DeployWrite, DeployPatchWrite, DeployDeleteWrite, StartWrite, Keep
<1> QED
  BY <1>2, <1>3, <1>4, <1>5, ServeActs DEF LastActs

(* A step of a request to add a root.                                      *)
LEMMA AddedStep ==
    ASSUME IndInv, NEW r \in Requests, Serve(r), Added(req[r])
    PROVE  Added(req[r])'
<1>1. ASSUME NEW v, req'[r] = v, v.op # "root-add"
      PROVE  Added(req[r])'
  BY <1>1 DEF Added
<1>2. Done(r) => Added(req[r])'
  BY <1>1, SlotFields DEF Done, IndInv, Slots
<1>3. ASSUME NEW ok, NEW saw, Read(r, ok, saw),
             req[r].op = "root-add" /\ ok =>
                 May(User(r), nodeTenant) /\ (saw # NoRow => saw.tenant = nodeTenant)
      PROVE  Added(req[r])'
  <2>1. req'[r] = IF ok THEN [op |-> req[r].op, pc |-> "write", user |-> req[r].user, arg |-> req[r].arg, saw |-> saw]
                  ELSE Idle
    BY <1>3 DEF Read, IndInv, Slots
  <2>2. nodeTenant' = nodeTenant
    BY <1>3 DEF Read, Keep
  <2>3. CASE ok
    <3>1. PICK v : v = [op |-> req[r].op, pc |-> "write", user |-> req[r].user, arg |-> req[r].arg, saw |-> saw]
      OBVIOUS
    <3>2. v.op = req[r].op /\ v.pc = "write" /\ v.user = User(r) /\ v.saw = saw
      BY <3>1 DEF User
    <3>3. req'[r] = v
      BY <2>1, <2>3, <3>1
    <3> QED
      BY <1>3, <2>2, <2>3, <3>2, <3>3 DEF Added, May
  <2>4. CASE ~ok
    BY <1>1, <2>1, <2>4, SlotFields
  <2> QED
    BY <2>3, <2>4
<1>4. CASE ReadActs(r)
  <2>1. CASE RootAddRead(r)
    <3>1. PICK ok : Read(r, ok, NoRow) /\ (ok => tenantScopeCheck(r, nodeTenant))
      BY <2>1 DEF RootAddRead
    <3> QED
      BY <1>3, <3>1 DEF tenantScopeCheck, May
  <2>2. CASE RootAddTenant(r)
    <3>1. Read(r, TRUE, [tenant |-> nodeTenant]) /\ At(r, "root-add", "write")
      BY <2>2 DEF RootAddTenant
    <3>2. May(User(r), nodeTenant)
      BY <3>1 DEF At, Added, User
    <3> QED
      BY <1>3, <3>1, <3>2
  <2>3. CASE req[r].op # "root-add"
    <3>1. PICK ok, saw : Read(r, ok, saw)
      BY <1>4, ActsRead
    <3> QED
      BY <1>3, <2>3, <3>1
  <2>4. RootAddRead(r) \/ RootAddTenant(r) \/ req[r].op # "root-add"
    BY <1>4 DEF ReadActs, RootPatchRead, RootDeleteRead, ArtifactPatchRead, ArtifactDeleteRead, LocationCreateRead,
       LocationPatchRead, LocationDeleteRead, HandleProxyNodeFiles, HandleProxyNodeModelScan, ProxyRead, DeployRead,
       TransferRead, DeployPatchRead, DeployDeleteRead, StartRead, StartCheck, At
  <2> QED
    BY <2>1, <2>2, <2>3, <2>4
<1>5. CASE LastActs(r)
  BY <1>2, <1>5, ActsEnd
<1>6. CASE RootAddWrite(r)
  <2>1. Done(r) \/ \E there : req' = [req EXCEPT ![r].pc = "enable", ![r].saw = there]
    BY <1>6 DEF RootAddWrite
  <2>2. /\ req[r] = WriteReq("root-add", "write", User(r), Arg(r), req[r].saw)
        /\ req[r].op = "root-add" /\ req[r].pc = "write" /\ nodeTenant' = nodeTenant
    BY <1>6, Under DEF RootAddWrite, At, Ops, Keep
  <2>3. ASSUME NEW there, req' = [req EXCEPT ![r].pc = "enable", ![r].saw = there]
        PROVE  Added(req[r])'
    <3>1. req'[r] = [req[r] EXCEPT !.pc = "enable", !.saw = there]
      BY <2>3 DEF IndInv, Slots
    <3>2. PICK v : v = [req[r] EXCEPT !.pc = "enable", !.saw = there]
      OBVIOUS
    <3>3. v.user = req[r].user /\ v.pc = "enable"
      BY <2>2, <3>2 DEF WriteReq
    <3>4. req'[r] = v
      BY <3>1, <3>2
    <3> QED
      BY <2>2, <3>3, <3>4 DEF Added, May
  <2> QED
    BY <1>2, <2>1, <2>3
<1>7. CASE WizardCreate(r)
  <2>1. Done(r) \/ \E u, x : req' = [req EXCEPT ![r] = [op |-> "location-create", pc |-> "read", user |-> u, arg |-> x]]
    BY <1>7 DEF WizardCreate
  <2>2. ASSUME NEW u, NEW x, req' = [req EXCEPT ![r] = [op |-> "location-create", pc |-> "read", user |-> u, arg |-> x]]
        PROVE  Added(req[r])'
    <3>1. req'[r] = [op |-> "location-create", pc |-> "read", user |-> u, arg |-> x]
      BY <2>2 DEF IndInv, Slots
    <3> QED
      BY <1>1, <3>1
  <2> QED
    BY <1>2, <2>1, <2>2
<1> QED
  BY <1>4, <1>5, <1>6, <1>7, ServeActs

(* A root that was there keeps its tenant, and one that is added gets the  *)
(* tenant that the request has read.                                       *)
LEMMA RootTenants ==
    ASSUME IndInv, NEW r \in Requests, Serve(r), NEW x \in Roots, roots'[x] # NoRow
    PROVE  \/ roots[x] # NoRow /\ roots'[x].tenant = roots[x].tenant
           \/ /\ roots[x] = NoRow /\ roots'[x].tenant = req[r].saw.tenant
              /\ At(r, "root-add", "write") /\ req[r].saw # NoRow
<1>1. CASE roots' = roots
  BY <1>1
<1>2. CASE RootActs(r)
  <2>1. RootMoves(r) /\ RootTable'
    BY <1>2, RootWrites DEF RootActs, IndInv, Tables
  <2>2. used' = used
    BY <1>2 DEF RootActs, RootAddEnable, RootPatchWrite, RootDeleteWrite
  <2> QED
    BY <2>1, <2>2 DEF RootMoves, RootTable
<1>3. CASE RootAddWrite(r)
  <2>1. At(r, "root-add", "write") /\ req[r].saw # NoRow
    BY <1>3 DEF RootAddWrite
  <2>2. CASE roots' = roots
    BY <2>2
  <2>3. CASE \E y \in Free(Roots) :
                 roots' = Insert(roots, y, [path |-> Arg(r).path, status |-> "enabled",
                                            source |-> Arg(r).source, tenant |-> req[r].saw.tenant])
    <3>1. PICK y \in Free(Roots) :
                 roots' = Insert(roots, y, [path |-> Arg(r).path, status |-> "enabled",
                                            source |-> Arg(r).source, tenant |-> req[r].saw.tenant])
      BY <2>3
    <3>2. y \notin used /\ y \in Roots
      BY FreeFacts
    <3>3. roots[y] = NoRow
      BY <3>2 DEF IndInv, Tables, RootTable
    <3>4. CASE x # y
      <4>1. roots'[x] = roots[x]
        BY <3>1, <3>4 DEF Insert, IndInv, Tables, RootTable
      <4> QED
        BY <4>1
    <3>5. CASE x = y
      <4>1. roots'[x].tenant = req[r].saw.tenant
        BY <3>1, <3>5 DEF Insert, IndInv, Tables, RootTable
      <4> QED
        BY <2>1, <3>3, <3>5, <4>1
    <3> QED
      BY <3>4, <3>5
  <2>4. \/ roots' = roots
        \/ \E y \in Free(Roots) :
                 roots' = Insert(roots, y, [path |-> Arg(r).path, status |-> "enabled",
                                            source |-> Arg(r).source, tenant |-> req[r].saw.tenant])
    BY <1>3 DEF RootAddWrite
  <2> QED
    BY <2>2, <2>3, <2>4
<1> QED
  BY <1>1, <1>2, <1>3, TablesStay

(* The requests and the roots after a step.                                *)
LEMMA NodeStep ==
    ASSUME IndInv, SoundInv, NodeInv, [Next]_vars
    PROVE  NodeInv'
<1>1. load' = load
  BY WorldStays
<1>2. ASSUME NEW q \in Requests, req'[q] = req[q], nodeTenant' = nodeTenant, Added(req[q])
      PROVE  Added(req[q])'
  <2>1. PICK v : v = req[q] /\ v = req'[q]
    BY <1>2
  <2> QED
    BY <1>2, <2>1 DEF Added
<1>3. ASSUME req' = req, nodeTenant' = nodeTenant, roots' = roots
      PROVE  NodeInv'
  BY <1>1, <1>2, <1>3 DEF NodeInv, NodeRoots, Stays, OneAtATime
<1>4. ASSUME NEW r \in Requests, AcceptAny(r)
      PROVE  NodeInv'
  <2>1. nodeTenant' = nodeTenant /\ roots' = roots
    BY <1>4, AcceptAlone DEF tables, Keep
  <2>2. PICK op, u, a : op \in Ops /\ req' = [req EXCEPT ![r] = ReadReq(op, u, a)]
    BY <1>4, AcceptAlone
  <2>3. PICK new : new = ReadReq(op, u, a)
    OBVIOUS
  <2>4. new.pc = "read"
    BY <2>3 DEF ReadReq
  <2>5. \A q \in Requests : req'[q] = IF q = r THEN new ELSE req[q]
    BY <2>2, <2>3 DEF IndInv, Slots
  <2>6. Added(req[r])'
    BY <2>4, <2>5 DEF Added
  <2> QED
    BY <1>1, <1>2, <2>1, <2>5, <2>6 DEF NodeInv, NodeRoots, Stays, OneAtATime
<1>5. ASSUME NEW r \in Requests, Serve(r), ~TransferWrite(r)
      PROVE  NodeInv'
  <2>1. nodeTenant' = nodeTenant
    BY <1>5, NodeTenantStays
  <2>2. ASSUME OneAtATime \/ Stays, NEW q \in Requests
        PROVE  Added(req[q])'
    <3>1. Added(req[q])
      BY <2>2 DEF NodeInv
    <3>2. CASE q = r
      BY <1>5, <3>1, <3>2, AddedStep
    <3>3. CASE q # r
      BY <1>2, <1>5, <2>1, <3>1, <3>3, ServeOwnSlot DEF IndInv
    <3> QED
      BY <3>2, <3>3
  <2>3. ASSUME Stays, NEW x \in Roots, roots'[x] # NoRow
        PROVE  roots'[x].tenant = NodeTenant
    <3>1. /\ roots[x] # NoRow => roots[x].tenant = NodeTenant
          /\ At(r, "root-add", "write") /\ req[r].saw # NoRow => req[r].saw.tenant = NodeTenant
      BY <2>3 DEF NodeInv, NodeRoots, Added, At
    <3> QED
      BY <1>5, <2>3, <3>1, RootTenants
  <2> QED
    BY <1>1, <2>1, <2>2, <2>3 DEF NodeInv, NodeRoots, Stays, OneAtATime
<1>6. ASSUME NEW r \in Requests, TransferWrite(r)
      PROVE  NodeInv'
  <2>1. At(r, "transfer", "write") /\ Done(r)
    BY <1>6 DEF TransferWrite
  <2>2. ~Stays /\ req[r] # Idle
    BY <2>1, Under DEF At, ArgOf, Ops, Stays
  <2>3. ASSUME OneAtATime, NEW q \in Requests
        PROVE  Added(req[q])'
    <3>1. req'[q] = Idle
      BY <2>1, <2>2, <2>3 DEF SoundInv, Alone, Done, IndInv, Slots
    <3> QED
      BY <3>1, SlotFields DEF Added
  <2> QED
    BY <1>1, <2>2, <2>3 DEF NodeInv, NodeRoots, Stays, OneAtATime
<1>7. ASSUME NEW d \in Deployments, InstanceEnds(d)
      PROVE  NodeInv'
  BY <1>3, <1>7 DEF InstanceEnds, Keep
<1>8. CASE UNCHANGED vars
  BY <1>3, <1>8 DEF vars, tables
<1> QED
  BY <1>4, <1>5, <1>6, <1>7, <1>8 DEF Next

(* It holds always.                                                        *)
LEMMA NodeInvHolds == Spec => []NodeInv
<1>1. Init => NodeInv
  <2> SUFFICES ASSUME Init PROVE NodeInv
    OBVIOUS
  <2>1. \A r \in Requests : Added(req[r])
    BY SlotFields DEF Init, Added
  <2>2. PICK at : roots = [x \in Roots |-> IF \E p \in load.known : at[p] = x
                              THEN [path |-> CHOOSE p \in load.known : at[p] = x, status |-> "enabled",
                                    source |-> "user", tenant |-> NodeTenant]
                              ELSE NoRow]
    BY DEF Init
  <2>3. \A x \in Roots : roots[x] # NoRow => roots[x].tenant = NodeTenant
    BY <2>2
  <2> QED
    BY <2>1, <2>3 DEF NodeInv, NodeRoots, Init
<1>2. IndInv /\ SoundInv /\ NodeInv /\ [Next]_vars => NodeInv'
  BY NodeStep
<1> QED
  BY <1>1, <1>2, SoundInvHolds, PTL DEF Spec

(* The roots that a request to add one changes: it is the user's own       *)
(* tenant's, or one that was there before the node was transferred.        *)
LEMMA RootConfined ==
    ASSUME IndInv, NodeInv, NEW r \in Requests, Serve(r), ~User(r).admin, OneAtATime \/ Stays,
           NEW x \in Roots, roots'[x] # roots[x], req[r].op = "root-add"
    PROVE  Owner(roots[x], roots'[x]) = User(r).tenant \/ (~Stays /\ Reenabled(r, x))
<1>1. Added(req[r])
  BY DEF NodeInv
<1>2. RootAddWrite(r) \/ RootAddEnable(r)
  BY TablesStay DEF RootActs, RootPatchWrite, RootDeleteWrite, At
<1>3. CASE RootAddWrite(r)
  <2>1. At(r, "root-add", "write") /\ req[r].saw # NoRow
    BY <1>3 DEF RootAddWrite
  <2>2. req[r].saw.tenant = User(r).tenant
    BY <1>1, <2>1 DEF Added, At, May, User
  <2>3. \E y \in Free(Roots) :
                 roots' = Insert(roots, y, [path |-> Arg(r).path, status |-> "enabled",
                                            source |-> Arg(r).source, tenant |-> req[r].saw.tenant])
    BY <1>3 DEF RootAddWrite
  <2>4. roots[x] = NoRow /\ roots'[x] # NoRow
    <3>1. PICK y \in Free(Roots) :
                 roots' = Insert(roots, y, [path |-> Arg(r).path, status |-> "enabled",
                                            source |-> Arg(r).source, tenant |-> req[r].saw.tenant])
      BY <2>3
    <3>2. x = y
      BY <3>1 DEF Insert, IndInv, Tables, RootTable
    <3> QED
      BY <3>2, FreeFacts DEF IndInv, Tables, RootTable
  <2> QED
    BY <2>2, <2>4, RootTenants DEF Owner
<1>4. CASE RootAddEnable(r)
  <2>1. /\ At(r, "root-add", "enable") /\ x \in Rows(roots)
        /\ roots'[x] = [roots[x] EXCEPT !.status = "enabled"]
    BY <1>4 DEF RootAddEnable
  <2>2. roots[x] # NoRow
    BY <2>1 DEF Rows
  <2>3. May(User(r), nodeTenant)
    BY <1>1, <2>1 DEF Added, At, User
  <2>4. Stays => roots[x].tenant = User(r).tenant
    BY <2>2, <2>3 DEF NodeInv, NodeRoots, May
  <2> QED
    BY <2>1, <2>2, <2>4 DEF Owner, Reenabled
<1> QED
  BY <1>2, <1>3, <1>4

(* TenantConfined: a request of an ordinary user changes only models,      *)
(* locations, deployments and roots of the user's tenant, also when rows   *)
(* it checked were changed, deleted or made anew before it wrote; what a   *)
(* transfer leaves of roots may be enabled again.                          *)
THEOREM TenantsStayApart == Spec => TenantConfined
<1>1. IndInv /\ NodeInv /\ [Next]_vars =>
        \A r \in Requests :
         req[r] # Idle /\ req'[r] # req[r] /\ ~User(r).admin =>
           /\ \A a \in Artifacts : artifacts'[a] # artifacts[a] => Owner(artifacts[a], artifacts'[a]) = User(r).tenant
           /\ \A l \in Locations : locations'[l] # locations[l] => Owner(locations[l], locations'[l]) = User(r).tenant
           /\ \A d \in Deployments : deployments'[d] # deployments[d] => Owner(deployments[d], deployments'[d]) = User(r).tenant
           /\ \A x \in Roots : roots'[x] # roots[x] /\ (OneAtATime \/ "transfer" \notin load.ops) =>
                \/ Owner(roots[x], roots'[x]) = User(r).tenant
                \/ "transfer" \in load.ops /\ Reenabled(r, x)
  <2> SUFFICES ASSUME IndInv, NodeInv, [Next]_vars, NEW r \in Requests, req[r] # Idle, req'[r] # req[r], ~User(r).admin
               PROVE  /\ Confines(r)
                      /\ \A x \in Roots : roots'[x] # roots[x] /\ (OneAtATime \/ Stays) /\ req[r].op = "root-add" =>
                            Owner(roots[x], roots'[x]) = User(r).tenant \/ (~Stays /\ Reenabled(r, x))
    BY DEF Confines, Stays
  <2>1. Serve(r)
    <3>1. \A q \in Requests : AcceptAny(q) => q = r /\ req[r] = Idle
      <4> SUFFICES ASSUME NEW q \in Requests, AcceptAny(q) PROVE q = r /\ req[r] = Idle
        OBVIOUS
      <4>1. req[q] = Idle /\ \E new : req' = [req EXCEPT ![q] = new]
        BY AcceptAlone
      <4> QED
        BY <4>1 DEF IndInv, Slots
    <3>2. \A q \in Requests : Serve(q) => q = r
      BY ServeOwnSlot DEF IndInv
    <3>3. ~\E d \in Deployments : InstanceEnds(d)
      BY DEF InstanceEnds
    <3>4. ~UNCHANGED vars
      BY DEF vars
    <3> QED
      BY <3>1, <3>2, <3>3, <3>4 DEF Next
  <2> QED
    BY <2>1, ServeStep, RootConfined
<1> QED
  BY <1>1, Inductive, NodeInvHolds, PTL DEF Spec, TenantConfined

-----------------------------------------------------------------------------
(* Where an instance comes from.                                           *)

(* A location as before, but for its status and whether it matches, and    *)
(* but for its path if a PATCH may change that.                            *)
SameSite(new, row) == new.artifact = row.artifact /\ new.meta = row.meta /\ (AsScanned => new.abs = row.abs)
LocationsHold ==
    /\ used \subseteq used'
    /\ \A l \in Locations \cap used : locations'[l] # NoRow => locations[l] # NoRow /\ SameSite(locations'[l], locations[l])

(* HandlePatchModelLocation and HandleAttestModelLocation.                 *)
LEMMA SiteChanged ==
    ASSUME IndInv, NEW r \in Requests, LocationPatchWrite(r) \/ LocationMark(r),
           NEW l \in Locations, locations'[l] # NoRow
    PROVE  locations[l] # NoRow /\ SameSite(locations'[l], locations[l])
<1>1. DOMAIN locations = Locations /\ (locations[l] # NoRow => LocationFields(locations[l]))
  BY DEF IndInv, Tables, LocationTable
<1>2. CASE locations'[l] = locations[l]
  BY <1>2 DEF SameSite
<1>3. CASE LocationPatchWrite(r) /\ locations'[l] # locations[l]
  <2>1. ArgOf("location-patch", Arg(r))
    BY <1>3, Under DEF LocationPatchWrite, At, Ops
  <2>2. PICK k, b : k = Arg(r).location /\ b = Arg(r).body
    OBVIOUS
  <2>3. AsScanned => "abs" \notin DOMAIN b
    BY <2>1, <2>2 DEF ArgOf, AsScanned
  <2>4. /\ locations[k] # NoRow
        /\ locations' = [locations EXCEPT ![k].status = Or(b, "status", @), ![k].match = Or(b, "match", @),
                                          ![k].root = Or(b, "root", @), ![k].abs = Or(b, "abs", @)]
    BY <1>3, <2>2 DEF LocationPatchWrite
  <2>5. k = l
    BY <1>1, <1>3, <2>4
  <2>6. PICK row, new : row = locations[l] /\ new = locations'[l]
    OBVIOUS
  <2>7. DOMAIN row = {"artifact", "root", "abs", "status", "match", "tenant", "type", "meta"}
    BY <1>1, <2>4, <2>5, <2>6 DEF LocationFields
  <2>8. new = [row EXCEPT !.status = Or(b, "status", row.status), !.match = Or(b, "match", row.match),
                          !.root = Or(b, "root", row.root), !.abs = Or(b, "abs", row.abs)]
    BY <1>1, <2>4, <2>5, <2>6, <2>7
  <2>9. new.artifact = row.artifact /\ new.meta = row.meta /\ new.abs = Or(b, "abs", row.abs)
    BY <2>7, <2>8
  <2>10. AsScanned => new.abs = row.abs
    BY <2>3, <2>9 DEF Or
  <2> QED
    BY <2>4, <2>5, <2>6, <2>9, <2>10 DEF SameSite
<1>4. CASE LocationMark(r) /\ locations'[l] # locations[l]
  <2>1. PICK k : /\ k = Arg(r).location /\ locations[k] # NoRow
                 /\ locations' = [locations EXCEPT ![k].status = "manually_accepted", ![k].match = "manual_attested"]
    BY <1>4 DEF LocationMark
  <2>2. k = l
    BY <1>1, <1>4, <2>1
  <2>3. PICK row, new : row = locations[l] /\ new = locations'[l]
    OBVIOUS
  <2>4. DOMAIN row = {"artifact", "root", "abs", "status", "match", "tenant", "type", "meta"}
    BY <1>1, <2>1, <2>2, <2>3 DEF LocationFields
  <2>5. new = [row EXCEPT !.status = "manually_accepted", !.match = "manual_attested"]
    BY <1>1, <2>1, <2>2, <2>3, <2>4
  <2>6. new.artifact = row.artifact /\ new.meta = row.meta /\ new.abs = row.abs
    BY <2>4, <2>5
  <2> QED
    BY <2>1, <2>2, <2>3, <2>6 DEF SameSite
<1> QED
  BY <1>2, <1>3, <1>4 DEF SameSite

(* Every step keeps the locations what they were, or removes them.         *)
LEMMA LocationsHeld ==
    ASSUME IndInv, [Next]_vars
    PROVE  LocationsHold
<1>1. CASE locations' = locations /\ used \subseteq used'
  BY <1>1 DEF LocationsHold, SameSite
<1>2. ASSUME NEW r \in Requests, Serve(r)
      PROVE  LocationsHold
  <2>1. used \subseteq used'
    BY <1>2, TablesStay
  <2>2. CASE locations' = locations
    BY <1>1, <2>1, <2>2
  <2>3. CASE locations' # locations
    <3> SUFFICES ASSUME NEW l \in Locations \cap used, locations'[l] # NoRow
                 PROVE  locations[l] # NoRow /\ SameSite(locations'[l], locations[l])
      BY <2>1 DEF LocationsHold
    <3>1. DOMAIN locations = Locations
      BY DEF IndInv, Tables, LocationTable
    <3>2. ASSUME locations'[l] = locations[l]
          PROVE  locations[l] # NoRow /\ SameSite(locations'[l], locations[l])
      BY <3>2 DEF SameSite
    <3>3. CASE LocationPatchWrite(r) \/ LocationMark(r)
      BY <3>3, SiteChanged
    <3>4. CASE LocationDeleteWrite(r) \/ ArtifactDeleteWrite(r)
      <4>1. locations'[l] = locations[l]
        BY <2>3, <3>1, <3>4 DEF LocationDeleteWrite, ArtifactDeleteWrite
      <4> QED
        BY <3>2, <4>1
    <3>5. CASE LocationCreateWrite(r) \/ Discover(r)
      <4>1. \E m \in Free(Locations) : \E row : locations' = [locations EXCEPT ![m] = row]
        BY <2>3, <3>5 DEF LocationCreateWrite, Discover, Insert
      <4>2. \A m \in Free(Locations) : m # l
        BY FreeFacts
      <4> QED
        BY <3>1, <3>2, <4>1, <4>2
    <3> QED
      BY <1>2, <2>3, <3>3, <3>4, <3>5, TablesStay DEF LocationActs
  <2> QED
    BY <2>2, <2>3
<1>3. ASSUME NEW r \in Requests, AcceptAny(r)
      PROVE  LocationsHold
  BY <1>1, <1>3, AcceptAlone DEF tables
<1>4. CASE UNCHANGED vars \/ \E d \in Deployments : InstanceEnds(d)
  BY <1>1, <1>4 DEF vars, tables, InstanceEnds
<1> QED
  BY <1>2, <1>3, <1>4 DEF Next

(* What a start has seen of a location is so while the location is there.  *)
OriginOf(s) ==
    /\ s = [loc |-> s.loc, row |-> s.row, model |-> s.model, task |-> s.task, again |-> s.again]
    /\ s.loc \in Locations \cap used
    /\ locations[s.loc] # NoRow => locations[s.loc].artifact = s.model /\ locations[s.loc].meta = s.row.meta
Origins ==
    /\ \A r \in Requests : At(r, "start", "write") => OriginOf(req[r].saw)
    /\ \A d \in Deployments : deployments[d] # NoRow /\ deployments[d].state = "active" => OriginOf(deployments[d].from)

(* It stays so.                                                            *)
LEMMA OriginStays ==
    ASSUME LocationsHold, NEW s, OriginOf(s)
    PROVE  OriginOf(s)'
<1>1. PICK l : l = s.loc
  OBVIOUS
<1>2. l \in Locations \cap used /\ l \in Locations \cap used'
  BY <1>1 DEF OriginOf, LocationsHold
<1>3. ASSUME locations'[l] # NoRow
      PROVE  locations'[l].artifact = s.model /\ locations'[l].meta = s.row.meta
  BY <1>1, <1>2, <1>3 DEF OriginOf, LocationsHold, SameSite
<1> QED
  BY <1>1, <1>2, <1>3 DEF OriginOf

(* An instance that is active after a step was so before, or starts.       *)
WasActive(d) == /\ deployments[d] # NoRow /\ deployments[d].state = "active"
                /\ deployments'[d].from = deployments[d].from
(* The steps of handlers.                                                  *)
LEMMA InstanceFrom ==
    ASSUME IndInv, NEW r \in Requests, Serve(r), NEW d \in Deployments, deployments'[d] # NoRow,
           deployments'[d].state = "active"
    PROVE  WasActive(d) \/ (StartWrite(r) /\ deployments'[d].from = req[r].saw)
<1>1. DOMAIN deployments = Deployments /\ Tables
  BY DEF IndInv, Tables, DeploymentTable
<1>2. ASSUME deployments'[d] = deployments[d] PROVE WasActive(d)
  BY <1>2 DEF WasActive
<1>3. CASE DeployWrite(r) /\ deployments'[d] # deployments[d]
  <2>1. PICK e, row : /\ deployments' = [deployments EXCEPT ![e] = row]
                      /\ row = [artifact |-> Arg(r).artifact, tenant |-> User(r).tenant, state |-> "none", from |-> NoRow]
    BY <1>3 DEF DeployWrite, Insert
  <2>2. deployments'[d] = row /\ row.state = "none"
    BY <1>1, <1>3, <2>1
  <2> QED
    BY <2>2
<1>4. CASE DeployDeleteWrite(r)
  BY <1>1, <1>2, <1>4 DEF DeployDeleteWrite
<1>5. PICK e : e = Arg(r).deployment
  OBVIOUS
<1>6. CASE StartWrite(r) /\ deployments'[d] # deployments[d]
  <2>1. deployments[e] # NoRow /\ deployments' = [deployments EXCEPT ![e].state = "active", ![e].from = req[r].saw]
    BY <1>5, <1>6 DEF StartWrite
  <2>2. e \in Deployments
    BY <1>5, <1>6, Under DEF StartWrite, At, ArgOf, Ops
  <2>3. PICK new : NewState(e, "active", req[r].saw, new)
    BY <1>1, <2>1, <2>2, StartedDeployment
  <2> QED
    BY <1>1, <1>6, <2>3 DEF NewState
<1>7. CASE DeployPatchWrite(r) /\ deployments'[d] # deployments[d]
  <2>1. PICK a : a = Arg(r).artifact
    OBVIOUS
  <2>2. deployments[e] # NoRow /\ deployments' = [deployments EXCEPT ![e].artifact = a]
    BY <1>5, <1>7, <2>1 DEF DeployPatchWrite
  <2>3. e \in Deployments /\ a \in Artifacts
    BY <1>5, <1>7, <2>1, Under DEF DeployPatchWrite, At, ArgOf, Ops
  <2>4. PICK new : NewModel(e, a, new)
    BY <1>1, <2>2, <2>3, PatchedDeployment
  <2>5. e = d /\ deployments'[d] = new
    BY <1>1, <1>7, <2>4 DEF NewModel
  <2> QED
    BY <2>2, <2>4, <2>5 DEF NewModel, WasActive
<1>8. deployments' = deployments \/ DeploymentActs(r)
  BY TablesStay
<1> QED
  BY <1>2, <1>3, <1>4, <1>6, <1>7, <1>8 DEF DeploymentActs

(* A start is one of three steps.                                          *)
LEMMA StartActs ==
    ASSUME NEW r \in Requests, Serve(r), req[r].op = "start"
    PROVE  StartRead(r) \/ StartCheck(r) \/ StartWrite(r)
<1>1. ~(RootAddWrite(r) \/ WizardCreate(r) \/ RootActs(r) \/ ModelActs(r))
  BY DEF RootAddWrite, WizardCreate, RootActs, RootAddEnable, RootPatchWrite, RootDeleteWrite, ModelActs,
     ArtifactCreate, ArtifactPatchWrite, ArtifactDeleteWrite, Discover, At
<1>2. ~(LocationActs(r) \/ AgentActs(r) \/ TransferWrite(r))
  BY DEF LocationActs, LocationCreateWrite, LocationPatchWrite, LocationDeleteWrite, LocationMark, AgentActs,
     AgentScan, AgentFiles, AgentRefuses, Asked, TransferWrite, At
<1>3. CASE DeploymentActs(r)
  BY <1>3 DEF DeploymentActs, DeployWrite, DeployPatchWrite, DeployDeleteWrite, At
<1>4. CASE ReadActs(r)
  <2>1. ~(RootAddRead(r) \/ RootAddTenant(r) \/ RootPatchRead(r) \/ RootDeleteRead(r) \/ ArtifactPatchRead(r) \/ ArtifactDeleteRead(r))
    BY DEF RootAddRead, RootAddTenant, RootPatchRead, RootDeleteRead, ArtifactPatchRead, ArtifactDeleteRead, At
  <2>2. ~(LocationCreateRead(r) \/ LocationPatchRead(r) \/ LocationDeleteRead(r))
    BY DEF LocationCreateRead, LocationPatchRead, LocationDeleteRead, At
  <2>3. ~(HandleProxyNodeFiles(r) \/ HandleProxyNodeModelScan(r) \/ DeployRead(r) \/ TransferRead(r)
          \/ DeployPatchRead(r) \/ DeployDeleteRead(r))
    BY DEF HandleProxyNodeFiles, HandleProxyNodeModelScan, ProxyRead, DeployRead, TransferRead, DeployPatchRead,
       DeployDeleteRead, At
  <2> QED
    BY <1>4, <2>1, <2>2, <2>3 DEF ReadActs
<1> QED
  BY <1>1, <1>2, <1>3, <1>4, ServeActs DEF LastActs

(* The slot after the reads of a handler.                                  *)
LEMMA ReadSlot ==
    ASSUME IndInv, NEW r \in Requests, NEW ok, NEW saw, Read(r, ok, saw), req'[r] # Idle
    PROVE  /\ ok /\ UNCHANGED tables
           /\ \E new : /\ new = req'[r] /\ new.op = req[r].op /\ new.pc = "write" /\ new.arg = req[r].arg /\ new.saw = saw
<1>1. PICK new : /\ new = (IF ok THEN [op |-> req[r].op, pc |-> "write", user |-> req[r].user,
                                       arg |-> req[r].arg, saw |-> saw] ELSE Idle)
                 /\ req' = [req EXCEPT ![r] = new]
  BY DEF Read
<1>2. req'[r] = new
  BY <1>1 DEF IndInv, Slots
<1>3. ok /\ new = [op |-> req[r].op, pc |-> "write", user |-> req[r].user, arg |-> req[r].arg, saw |-> saw]
  BY <1>1, <1>2
<1>4. new.op = req[r].op /\ new.pc = "write" /\ new.arg = req[r].arg /\ new.saw = saw
  BY <1>3
<1> QED
  BY <1>2, <1>3, <1>4 DEF Read

(* What a start takes along: what it reads first, and whether the location *)
(* is still there when it is read again.                                   *)
FirstRead(s, l, a) ==
    s = [loc |-> l, row |-> locations[l], model |-> a, task |-> artifacts[a].task, again |-> "not yet"]
ReadAgain(s, old) ==
    /\ s = [loc |-> old.loc, row |-> old.row, model |-> old.model, task |-> old.task,
            again |-> IF locations[old.loc] = NoRow THEN "gone" ELSE "there"]
    /\ locations[old.loc] = NoRow \/ locations[old.loc].meta # "no"
(* The steps of a start.                                                   *)
LEMMA StartSees ==
    ASSUME IndInv, Origins, NEW r \in Requests, Serve(r), req'[r] # Idle, req'[r].op = "start"
    PROVE  /\ UNCHANGED tables
           /\ \E s : /\ req'[r].saw = s
                     /\ \/ \E a, l : l \in Deployable(a) /\ FirstRead(s, l, a)
                        \/ At(r, "start", "write") /\ ReadAgain(s, req[r].saw)
<1>1. req[r].op = "start"
  BY ServeKeepsArg DEF KeepsArg
<1>2. ~Done(r)
  BY DEF Done, IndInv, Slots
<1>3. CASE StartRead(r)
  <2>1. \A saw : ~Read(r, FALSE, saw)
    <3> SUFFICES ASSUME NEW ok, NEW saw, Read(r, ok, saw) PROVE ok
      OBVIOUS
    <3> QED
      BY ReadSlot
  <2>2. PICK a, l, s, ok : l \in Deployable(a) /\ FirstRead(s, l, a) /\ Read(r, ok, s)
    BY <1>3, <2>1 DEF StartRead, FirstRead
  <2>3. UNCHANGED tables /\ req'[r].saw = s
    BY <2>2, ReadSlot
  <2> QED
    BY <2>2, <2>3
<1>4. CASE StartCheck(r)
  <2>1. PICK old, now, s, ok : /\ old = req[r].saw /\ now = locations[old.loc]
                               /\ s = [old EXCEPT !.again = IF now = NoRow THEN "gone" ELSE "there"]
                               /\ Read(r, ok, s) /\ (ok => now = NoRow \/ now.meta # "no")
    BY <1>4 DEF StartCheck
  <2>2. At(r, "start", "write")
    BY <1>4 DEF StartCheck
  <2>3. old = [loc |-> old.loc, row |-> old.row, model |-> old.model, task |-> old.task, again |-> old.again]
    BY <2>1, <2>2 DEF Origins, OriginOf
  <2>4. PICK g : g = IF now = NoRow THEN "gone" ELSE "there"
    OBVIOUS
  <2>5. s = [loc |-> old.loc, row |-> old.row, model |-> old.model, task |-> old.task, again |-> g]
    BY <2>1, <2>3, <2>4
  <2>6. ok /\ UNCHANGED tables /\ req'[r].saw = s
    BY <2>1, ReadSlot
  <2>7. ReadAgain(s, old)
    BY <2>1, <2>4, <2>5, <2>6 DEF ReadAgain
  <2> QED
    BY <2>1, <2>2, <2>6, <2>7
<1>5. CASE StartWrite(r)
  BY <1>2, <1>5 DEF StartWrite
<1> QED
  BY <1>1, <1>3, <1>4, <1>5, StartActs

(* The slot of a start keeps to what it has seen.                          *)
LEMMA OwnOrigin ==
    ASSUME IndInv, Origins, LocationsHold, NEW r \in Requests, Serve(r), req'[r] # Idle, req'[r].op = "start"
    PROVE  OriginOf(req[r].saw)'
<1>1. UNCHANGED tables
  BY StartSees
<1>2. PICK s : /\ req'[r].saw = s
               /\ \/ \E a, l : l \in Deployable(a) /\ FirstRead(s, l, a)
                  \/ At(r, "start", "write") /\ ReadAgain(s, req[r].saw)
  BY StartSees
<1>3. CASE \E a, l : l \in Deployable(a) /\ FirstRead(s, l, a)
  <2>1. PICK a, l : l \in Deployable(a) /\ FirstRead(s, l, a)
    BY <1>3
  <2>2. l \in Locations \cap used /\ locations[l].artifact = a
    BY <2>1 DEF Deployable, LocationsOf, Rows, IndInv, Tables, LocationTable
  <2>3. s.loc = l /\ s.row = locations[l] /\ s.model = a
    BY <2>1 DEF FirstRead
  <2>4. s = [loc |-> s.loc, row |-> s.row, model |-> s.model, task |-> s.task, again |-> s.again]
    BY <2>1 DEF FirstRead
  <2>5. OriginOf(s)
    BY <2>2, <2>3, <2>4 DEF OriginOf
  <2>6. OriginOf(s)'
    BY <2>5, OriginStays
  <2> QED
    BY <1>2, <2>6
<1>4. CASE At(r, "start", "write") /\ ReadAgain(s, req[r].saw)
  <2>1. PICK old : old = req[r].saw /\ OriginOf(old) /\ ReadAgain(s, old)
    BY <1>4 DEF Origins
  <2>2. s.loc = old.loc /\ s.row = old.row /\ s.model = old.model
    BY <2>1 DEF ReadAgain
  <2>3. s = [loc |-> s.loc, row |-> s.row, model |-> s.model, task |-> s.task, again |-> s.again]
    BY <2>1 DEF ReadAgain
  <2>4. OriginOf(s)
    BY <2>1, <2>2, <2>3 DEF OriginOf
  <2>5. OriginOf(s)'
    BY <2>4, OriginStays
  <2> QED
    BY <1>2, <2>5
<1> QED
  BY <1>2, <1>3, <1>4

(* The parts of Origins that a step does not touch.                        *)
LEMMA SlotOrigin ==
    ASSUME Origins, LocationsHold, NEW r \in Requests, At(r, "start", "write"), req'[r] = req[r]
    PROVE  OriginOf(req[r].saw)'
<1>1. PICK s : s = req[r].saw /\ s = req'[r].saw /\ OriginOf(s)
  BY DEF Origins
<1>2. OriginOf(s)'
  BY <1>1, OriginStays
<1> QED
  BY <1>1, <1>2

(* The deployments.                                                        *)
LEMMA InstanceOrigin ==
    ASSUME Origins, LocationsHold, NEW d \in Deployments, WasActive(d)
    PROVE  OriginOf(deployments[d].from)'
<1>1. PICK s : s = deployments[d].from /\ s = deployments'[d].from /\ OriginOf(s)
  BY DEF Origins, WasActive
<1>2. OriginOf(s)'
  BY <1>1, OriginStays
<1> QED
  BY <1>1, <1>2

(* The end of an instance.                                                 *)
LEMMA EndsFrom ==
    ASSUME IndInv, NEW e \in Deployments, InstanceEnds(e), NEW d \in Deployments, deployments'[d] # NoRow,
           deployments'[d].state = "active"
    PROVE  WasActive(d)
<1>1. /\ deployments[e] # NoRow /\ Tables /\ DOMAIN deployments = Deployments
  BY TableRows DEF InstanceEnds, IndInv, Tables, DeploymentTable
<1>2. PICK new : NewState(e, "ended", deployments[e].from, new)
  BY <1>1, EndedDeployment DEF InstanceEnds
<1>3. deployments'[d] = deployments[d]
  BY <1>1, <1>2 DEF NewState
<1> QED
  BY <1>3 DEF WasActive

(* Every step.                                                             *)
LEMMA OriginsStep == IndInv /\ Origins /\ [Next]_vars => Origins'
<1> SUFFICES ASSUME IndInv, Origins, [Next]_vars PROVE Origins'
  OBVIOUS
<1>1. LocationsHold
  BY LocationsHeld
<1>2. ASSUME NEW r \in Requests, Serve(r)
      PROVE  Origins'
  <2>1. ASSUME NEW q \in Requests, At(q, "start", "write")'
        PROVE  OriginOf(req[q].saw)'
    <3>1. CASE q = r
      <4>1. req'[r] # Idle /\ req'[r].op = "start"
        BY <2>1, <3>1, SlotFields DEF At
      <4> QED
        BY <1>1, <1>2, <3>1, <4>1, OwnOrigin
    <3>2. CASE q # r
      <4>1. req'[q] = req[q]
        BY <1>2, <3>2, ServeOwnSlot DEF IndInv
      <4>2. At(q, "start", "write")
        BY <2>1, <4>1 DEF At
      <4> QED
        BY <1>1, <4>1, <4>2, SlotOrigin
    <3> QED
      BY <3>1, <3>2
  <2>2. ASSUME NEW d \in Deployments, deployments'[d] # NoRow, deployments'[d].state = "active"
        PROVE  OriginOf(deployments[d].from)'
    <3>1. CASE WasActive(d)
      BY <1>1, <3>1, InstanceOrigin
    <3>2. CASE StartWrite(r) /\ deployments'[d].from = req[r].saw
      <4>1. PICK s : s = req[r].saw /\ s = deployments'[d].from /\ OriginOf(s)
        BY <3>2 DEF StartWrite, Origins
      <4>2. OriginOf(s)'
        BY <1>1, <4>1, OriginStays
      <4> QED
        BY <4>1, <4>2
    <3> QED
      BY <1>2, <2>2, <3>1, <3>2, InstanceFrom
  <2> QED
    BY <2>1, <2>2 DEF Origins
<1>3. ASSUME \A d \in Deployments : deployments'[d] # NoRow /\ deployments'[d].state = "active" => WasActive(d),
             \A r \in Requests : At(r, "start", "write")' => At(r, "start", "write") /\ req'[r] = req[r]
      PROVE  Origins'
  <2>1. ASSUME NEW r \in Requests, At(r, "start", "write")'
        PROVE  OriginOf(req[r].saw)'
    BY <1>1, <1>3, <2>1, SlotOrigin
  <2>2. ASSUME NEW d \in Deployments, deployments'[d] # NoRow, deployments'[d].state = "active"
        PROVE  OriginOf(deployments[d].from)'
    BY <1>1, <1>3, <2>2, InstanceOrigin
  <2> QED
    BY <2>1, <2>2 DEF Origins
<1>4. ASSUME NEW r \in Requests, AcceptAny(r)
      PROVE  Origins'
  <2>1. deployments' = deployments
    BY <1>4, AcceptAlone DEF tables
  <2>2. PICK op, u, a : op \in Ops /\ req' = [req EXCEPT ![r] = ReadReq(op, u, a)]
    BY <1>4, AcceptAlone
  <2>3. PICK new : new = ReadReq(op, u, a)
    OBVIOUS
  <2> new.pc = "read"
    BY <2>3 DEF ReadReq
  <2>4. \A q \in Requests : req'[q] = IF q = r THEN new ELSE req[q]
    BY <2>2, <2>3 DEF IndInv, Slots
  <2>5. \A q \in Requests : At(q, "start", "write")' => At(q, "start", "write") /\ req'[q] = req[q]
    BY <2>3, <2>4 DEF At
  <2>6. \A d \in Deployments : deployments'[d] # NoRow /\ deployments'[d].state = "active" => WasActive(d)
    BY <2>1 DEF WasActive
  <2> QED
    BY <1>3, <2>5, <2>6
<1>5. ASSUME NEW e \in Deployments, InstanceEnds(e)
      PROVE  Origins'
  <2>1. \A r \in Requests : At(r, "start", "write")' => At(r, "start", "write") /\ req'[r] = req[r]
    BY <1>5 DEF InstanceEnds, At
  <2> QED
    BY <1>3, <1>5, <2>1, EndsFrom
<1>6. CASE UNCHANGED vars
  <2>1. req' = req /\ deployments' = deployments
    BY <1>6 DEF vars, tables
  <2> QED
    BY <1>3, <2>1 DEF At, WasActive
<1> QED
  BY <1>2, <1>4, <1>5, <1>6 DEF Next

(* It holds always.                                                        *)
LEMMA OriginsHold == Spec => []Origins
<1>1. Init => Origins
  BY SlotFields DEF Init, Origins, At, Idle
<1> QED
  BY <1>1, OriginsStep, Inductive, PTL DEF Spec

-----------------------------------------------------------------------------
(* What no write does while requests do not overlap.                       *)

(* A row with the fields of another is a row.                              *)
LEMMA SameFields ==
    ASSUME NEW row, NEW new, DOMAIN new = DOMAIN row, ArtifactRow(row) \/ LocationFields(row) \/ RootRow(row)
    PROVE  new # NoRow
<1>1. DOMAIN NoRow = {"row"}
  BY DEF NoRow
<1>2. ArtifactRow(row) => "name" \in DOMAIN row
  BY DEF ArtifactRow
<1>3. LocationFields(row) => "artifact" \in DOMAIN row
  BY DEF LocationFields
<1>4. RootRow(row) => "path" \in DOMAIN row
  BY DEF RootRow
<1> QED
  BY <1>1, <1>2, <1>3, <1>4

(* HandleDeleteNodeModelRoot removes no root with locations in it.         *)
LEMMA UsedRootsKept ==
    ASSUME IndInv, SoundInv, OneAtATime, ~load.dbErrors, NEW r \in Requests, Serve(r)
    PROVE  KeepsUsedRoots
<1> SUFFICES ASSUME NEW x \in Rows(roots), roots'[x] = NoRow
             PROVE  \A l \in Rows(locations) : locations[l].root # roots[x].path
  BY DEF KeepsUsedRoots
<1>1. x \in Roots /\ roots[x] # NoRow /\ RootRow(roots[x]) /\ DOMAIN roots = Roots
  BY DEF Rows, IndInv, Tables, RootTable
<1>2. ASSUME roots'[x] = roots[x] PROVE FALSE
  BY <1>1, <1>2
<1>3. ASSUME DOMAIN roots'[x] = DOMAIN roots[x] PROVE FALSE
  <2>1. PICK row, new : row = roots[x] /\ new = roots'[x]
    OBVIOUS
  <2> QED
    BY <1>1, <1>3, <2>1, SameFields
<1>4. CASE RootAddWrite(r)
  <2>1. \/ roots' = roots
        \/ \E y \in Free(Roots) : \E row : roots' = [roots EXCEPT ![y] = row]
    BY <1>4 DEF RootAddWrite, Insert
  <2>2. \A y \in Free(Roots) : y # x
    BY <1>1, FreeFacts DEF IndInv, Tables, RootTable
  <2> QED
    BY <1>1, <1>2, <2>1, <2>2
<1>5. CASE RootAddEnable(r)
  <2>1. roots'[x] = roots[x] \/ roots'[x] = [roots[x] EXCEPT !.status = "enabled"]
    BY <1>1, <1>5 DEF RootAddEnable
  <2> QED
    BY <1>2, <1>3, <2>1
<1>6. CASE RootPatchWrite(r)
  <2>1. roots'[x] = roots[x] \/ \E s : roots'[x] = [roots[x] EXCEPT !.status = s]
    BY <1>1, <1>6 DEF RootPatchWrite
  <2> QED
    BY <1>2, <1>3, <2>1
<1>7. CASE RootDeleteWrite(r)
  <2>1. At(r, "root-delete", "write") /\ "root-delete" \in Ops
    BY <1>7 DEF RootDeleteWrite, Ops
  <2>2. req[r] # Idle /\ req[r].pc = "write" /\ req[r].op = "root-delete"
    BY <2>1, Under DEF At
  <2>3. InRoot(Arg(r).root) = {}
    BY <2>2 DEF SoundInv, StillSo, Current, Arg
  <2>4. x = Arg(r).root
    BY <1>1, <1>2, <1>7 DEF RootDeleteWrite
  <2> QED
    BY <1>1, <2>3, <2>4 DEF InRoot
<1>8. CASE roots' = roots
  BY <1>2, <1>8
<1> QED
  BY <1>4, <1>5, <1>6, <1>7, <1>8, TablesStay DEF RootActs

(* HandleDeleteModelLocation removes no location of a model with an active *)
(* instance, and HandleDeleteArtifact none of a model with a deployment:   *)
(* the instance that was started from a location is one of its model.      *)
LEMMA UsedLocationsKept ==
    ASSUME IndInv, SoundInv, Origins, OneAtATime, ~load.dbErrors, NEW r \in Requests, Serve(r)
    PROVE  KeepsUsedLocations
<1>0. ASSUME NEW l \in Rows(locations), ActiveOf(locations[l].artifact) = {}
      PROVE  StartedFrom(l) = {}
  <2> SUFFICES ASSUME NEW d \in StartedFrom(l) PROVE FALSE
    OBVIOUS
  <2>1. d \in Rows(deployments) /\ d \in Deployments /\ deployments[d] # NoRow /\ deployments[d].state = "active"
    BY TableRows DEF StartedFrom, IndInv
  <2>2. locations[l].artifact = deployments[d].artifact
    BY <2>1 DEF StartedFrom, Origins, OriginOf, Rows
  <2> QED
    BY <1>0, <2>1, <2>2 DEF ActiveOf
<1> SUFFICES ASSUME NEW l \in Rows(locations), locations'[l] = NoRow
             PROVE  ActiveOf(locations[l].artifact) = {}
  BY <1>0 DEF KeepsUsedLocations
<1>1. l \in Locations /\ locations[l] # NoRow /\ LocationFields(locations[l]) /\ DOMAIN locations = Locations
  BY DEF Rows, IndInv, Tables, LocationTable
<1>2. ASSUME locations'[l] = locations[l] PROVE FALSE
  BY <1>1, <1>2
<1>3. ASSUME DOMAIN locations'[l] = DOMAIN locations[l] PROVE FALSE
  <2>1. PICK row, new : row = locations[l] /\ new = locations'[l]
    OBVIOUS
  <2> QED
    BY <1>1, <1>3, <2>1, SameFields
<1>4. CASE LocationCreateWrite(r) \/ Discover(r)
  <2>1. \/ locations' = locations
        \/ \E m \in Free(Locations) : \E row : locations' = [locations EXCEPT ![m] = row]
    BY <1>4 DEF LocationCreateWrite, Discover, Insert
  <2>2. \A m \in Free(Locations) : m # l
    BY <1>1, FreeFacts DEF IndInv, Tables, LocationTable
  <2> QED
    BY <1>1, <1>2, <2>1, <2>2
<1>5. CASE LocationPatchWrite(r)
  <2>1. \/ locations' = locations
        \/ \E m, new : locations' = [locations EXCEPT ![m] = new] /\ LocationFields(new)
    BY <1>5, MovedLocation
  <2>2. \A new : LocationFields(new) => new # NoRow
    BY RowsAreRows
  <2> QED
    BY <1>1, <1>2, <2>1, <2>2
<1>6. CASE LocationMark(r)
  <2>1. \/ locations' = locations
        \/ \E m : locations' = [locations EXCEPT ![m].status = "manually_accepted", ![m].match = "manual_attested"]
    BY <1>6 DEF LocationMark
  <2>2. DOMAIN locations'[l] = DOMAIN locations[l]
    BY <1>1, <2>1
  <2> QED
    BY <1>3, <2>2
<1>7. CASE LocationDeleteWrite(r)
  <2>1. At(r, "location-delete", "write") /\ "location-delete" \in Ops
    BY <1>7 DEF LocationDeleteWrite, Ops
  <2>2. req[r] # Idle /\ req[r].pc = "write" /\ req[r].op = "location-delete"
    BY <2>1, Under DEF At
  <2>3. ActiveOf(locations[Arg(r).location].artifact) = {}
    BY <2>2 DEF SoundInv, StillSo, Current, Arg
  <2>4. l = Arg(r).location
    BY <1>1, <1>2, <1>7 DEF LocationDeleteWrite
  <2> QED
    BY <2>3, <2>4
<1>8. CASE ArtifactDeleteWrite(r)
  <2>1. PICK a : /\ a = Arg(r).artifact
                 /\ \A d \in Rows(deployments) : deployments[d].artifact # a
                 /\ locations' = [m \in Locations |-> IF m \in LocationsOf(a) THEN NoRow ELSE locations[m]]
    BY <1>2, <1>8 DEF ArtifactDeleteWrite
  <2>2. locations[l].artifact = a
    BY <1>1, <1>2, <2>1 DEF LocationsOf
  <2> QED
    BY <2>1, <2>2 DEF ActiveOf
<1>9. CASE locations' = locations
  BY <1>2, <1>9
<1> QED
  BY <1>4, <1>5, <1>6, <1>7, <1>8, <1>9, TablesStay DEF LocationActs

(* HandleCreateModelLocation puts a location into an enabled root.         *)
LEMMA LocatedUnderRoots ==
    ASSUME IndInv, SoundInv, OneAtATime, NEW q \in Requests, Serve(q)
    PROVE  LocatesUnderRoots
<1> SUFFICES ASSUME NEW r \in Requests, At(r, "location-create", "write"),
                    NEW l \in Locations, locations'[l] # locations[l]
             PROVE  \E x \in EnabledRoots : /\ roots[x].path = locations'[l].root
                                            /\ IsPrefix(roots[x].path, locations'[l].abs)
  BY DEF LocatesUnderRoots
<1>1. req[r] # Idle /\ req[r].pc = "write" /\ req[r].op = "location-create"
  BY Under DEF At, Ops
<1>2. q = r
  BY <1>1, ServeCurrent DEF SoundInv, Alone
<1>3. LocationCreateWrite(r)
  BY <1>1, <1>2, TablesStay DEF LocationActs, LocationPatchWrite, LocationDeleteWrite, LocationMark,
     ArtifactDeleteWrite, Discover, At
<1>4. PICK row : row = NewLocation(r)
  OBVIOUS
<1>5. PICK m \in Free(Locations) : locations' = [locations EXCEPT ![m] = row]
  BY <1>3, <1>4 DEF LocationCreateWrite, Insert
<1>6. locations'[l] = row
  BY <1>5 DEF IndInv, Tables, LocationTable
<1>7. row.root = req[r].saw.root /\ row.abs = req[r].saw.abs
  BY <1>4 DEF NewLocation, LocationRow
<1>8. \E x \in EnabledRoots : roots[x].path = req[r].saw.root /\ IsPrefix(roots[x].path, req[r].saw.abs)
  BY <1>1 DEF SoundInv, StillSo, Current
<1> QED
  BY <1>6, <1>7, <1>8

(* What a patch makes of the row that it read.                             *)
LEMMA PatchedFields ==
    ASSUME NEW row, NEW b, ArtifactRow(row)
    PROVE  LET new == Patched(row, row, b) IN
           /\ new.path = Or(b, "path", row.path) /\ new.format = Or(b, "format", row.format)
           /\ "caps" \notin DOMAIN b => new.caps = row.caps
           /\ "params" \notin DOMAIN b => new.params = row.params
           /\ DOMAIN b \cap {"caps", "sources"} = {} => new.sources = row.sources
<1>1. DOMAIN row = {"name", "tenant", "path", "format", "task", "caps", "sources", "params"}
  BY DEF ArtifactRow
<1>2. PICK set : set = IF DOMAIN b \cap {"caps", "sources", "params"} = {} THEN row ELSE CapabilitySet(row, b)
  OBVIOUS
<1>3. PICK new : /\ new = Patched(row, row, b)
                 /\ new = [row EXCEPT !.path = Or(b, "path", row.path), !.format = Or(b, "format", row.format),
                                      !.task = Or(b, "task", row.task), !.caps = set.caps,
                                      !.sources = set.sources, !.params = set.params]
  BY <1>1, <1>2 DEF Patched
<1>4. /\ new.path = Or(b, "path", row.path) /\ new.format = Or(b, "format", row.format)
      /\ new.caps = set.caps /\ new.sources = set.sources /\ new.params = set.params
  BY <1>1, <1>3
<1>5. /\ "caps" \notin DOMAIN b => set.caps = row.caps
      /\ "params" \notin DOMAIN b => set.params = row.params
      /\ DOMAIN b \cap {"caps", "sources"} = {} => set.sources = row.sources
  BY <1>2 DEF CapabilitySet, Or
<1> QED
  BY <1>3, <1>4, <1>5

(* HandlePatchArtifact, when the row is still the one that was read.       *)
LEMMA PatchedInPlace ==
    ASSUME IndInv, SoundInv, OneAtATime, NEW r \in Requests, ArtifactPatchWrite(r)
    PROVE  \E a, b, row : /\ a = Arg(r).artifact /\ b = Arg(r).body /\ a \in Artifacts
                          /\ artifacts[a] = row /\ PatchValid(row, b) /\ At(r, "artifact-patch", "write")
                          /\ artifacts' = IF row = NoRow THEN artifacts
                                          ELSE [artifacts EXCEPT ![a] = Patched(row, row, b)]
                          /\ row # NoRow => ArtifactRow(row)
<1>1. At(r, "artifact-patch", "write") /\ "artifact-patch" \in Ops
  BY DEF ArtifactPatchWrite, Ops
<1>2. req[r] # Idle /\ ArgOf("artifact-patch", Arg(r))
  BY <1>1, Under DEF At
<1>3. PICK a, b, row : a = Arg(r).artifact /\ b = Arg(r).body /\ row = artifacts[a]
  OBVIOUS
<1>4. a \in Artifacts /\ (row # NoRow => ArtifactRow(row))
  BY <1>2, <1>3 DEF ArgOf, IndInv, Tables, ArtifactTable
<1>5. req[r].saw = row /\ PatchValid(row, b)
  BY <1>1, <1>2, <1>3 DEF SoundInv, StillSo, Current, At, Arg
<1> QED
  BY <1>1, <1>3, <1>4, <1>5 DEF ArtifactPatchWrite

(* Handlers leave no GGUF model with a path without .gguf in it.           *)
LEMMA GgufFilesKept ==
    ASSUME IndInv, SoundInv, OneAtATime, NEW r \in Requests, Serve(r)
    PROVE  KeepsGgufFiles
<1> SUFFICES ASSUME ~Unchecked(r), NEW a \in Artifacts, GgufIsFile(artifacts[a])
             PROVE  GgufIsFile(artifacts[a])'
  BY DEF KeepsGgufFiles
<1>1. DOMAIN artifacts = Artifacts
  BY DEF IndInv, Tables, ArtifactTable
<1>2. ASSUME artifacts'[a] = artifacts[a]
      PROVE  GgufIsFile(artifacts[a])'
  BY <1>2 DEF GgufIsFile, ContainsGguf
<1>a. ASSUME NEW row, artifacts'[a] = row, row.format = "gguf" => ContainsGguf(row.path)
      PROVE  GgufIsFile(artifacts[a])'
  BY <1>a DEF GgufIsFile, ContainsGguf
<1>3. ASSUME NEW b, NEW c \in Free(Artifacts), artifacts' = Insert(artifacts, c, NewArtifact(r, b)),
             b.format = "gguf" => ContainsGguf(b.path)
      PROVE  GgufIsFile(artifacts[a])'
  <2>1. PICK row : row = NewArtifact(r, b) /\ artifacts' = [artifacts EXCEPT ![c] = row]
    BY <1>3 DEF Insert
  <2>2. row.format = b.format /\ row.path = b.path
    BY <2>1 DEF NewArtifact
  <2>3. artifacts'[a] = artifacts[a] \/ artifacts'[a] = row
    BY <1>1, <2>1
  <2> QED
    BY <1>2, <1>3, <1>a, <2>2, <2>3
<1>4. CASE ArtifactCreate(r)
  <2>1. \/ artifacts' = artifacts
        \/ \E b : Creatable(b) /\ \E c \in Free(Artifacts) : artifacts' = Insert(artifacts, c, NewArtifact(r, b))
    BY <1>4 DEF ArtifactCreate
  <2> QED
    BY <1>2, <1>3, <2>1 DEF Creatable
<1>5. CASE Discover(r)
  BY <1>5 DEF Discover, Unchecked
<1>6. CASE WizardCreate(r)
  <2>1. \/ artifacts' = artifacts
        \/ \E b : Creatable(b) /\ \E c \in Free(Artifacts) : artifacts' = Insert(artifacts, c, NewArtifact(r, b))
    BY <1>6 DEF WizardCreate
  <2> QED
    BY <1>2, <1>3, <2>1 DEF Creatable
<1>7. CASE ArtifactPatchWrite(r)
  <2>1. PICK c, b, row : /\ artifacts[c] = row /\ PatchValid(row, b) /\ b = Arg(r).body
                         /\ At(r, "artifact-patch", "write")
                         /\ artifacts' = IF row = NoRow THEN artifacts
                                         ELSE [artifacts EXCEPT ![c] = Patched(row, row, b)]
                         /\ row # NoRow => ArtifactRow(row)
    BY <1>7, PatchedInPlace
  <2>2. PICK new : new = Patched(row, row, b)
    OBVIOUS
  <2>3. ASSUME row # NoRow, new.format = "gguf" PROVE ContainsGguf(new.path)
    <3>1. new.path = Or(b, "path", row.path) /\ new.format = Or(b, "format", row.format)
      BY <2>1, <2>2, <2>3, PatchedFields
    <3>2. "raw" \notin DOMAIN b
      BY <2>1 DEF Unchecked
    <3>3. strVal(b, "path", row.path) = Or(b, "path", row.path) /\ strVal(b, "format", row.format) = Or(b, "format", row.format)
      BY <3>2 DEF strVal, Or
    <3> QED
      BY <2>1, <2>3, <3>1, <3>3 DEF PatchValid
  <2>4. artifacts'[a] = artifacts[a] \/ (row # NoRow /\ artifacts'[a] = new)
    BY <1>1, <2>1, <2>2
  <2> QED
    BY <1>2, <1>a, <2>3, <2>4
<1>8. CASE ArtifactDeleteWrite(r)
  <2>1. artifacts' = artifacts \/ \E c : artifacts' = [artifacts EXCEPT ![c] = NoRow]
    BY <1>8 DEF ArtifactDeleteWrite
  <2>2. artifacts'[a] = artifacts[a] \/ artifacts'[a] = NoRow
    BY <1>1, <2>1
  <2> QED
    BY <1>2, <2>2 DEF GgufIsFile
<1>9. CASE artifacts' = artifacts
  BY <1>2, <1>9
<1> QED
  BY <1>4, <1>5, <1>6, <1>7, <1>8, <1>9, TablesStay DEF ModelActs

(* Of a capability set only what a patch names is changed.                 *)
LEMMA TheRestKept ==
    ASSUME IndInv, SoundInv, OneAtATime, NEW r \in Requests, Serve(r)
    PROVE  KeepsTheRest
<1> SUFFICES ASSUME NEW a \in Rows(artifacts), artifacts'[a] # NoRow
             PROVE  /\ artifacts'[a].caps # artifacts[a].caps => "caps" \in NamedParts(a)
                    /\ artifacts'[a].params # artifacts[a].params => "params" \in NamedParts(a)
                    /\ artifacts'[a].sources # artifacts[a].sources => NamedParts(a) \cap {"caps", "sources"} # {}
  BY DEF KeepsTheRest
<1>1. DOMAIN artifacts = Artifacts /\ a \in Artifacts /\ a \in used /\ artifacts[a] # NoRow
  BY DEF IndInv, Tables, ArtifactTable, Rows
<1>2. SUFFICES artifacts'[a] = artifacts[a] \/ ArtifactPatchWrite(r)
  <2>1. CASE artifacts'[a] = artifacts[a]
    BY <2>1
  <2>2. CASE ArtifactPatchWrite(r)
    <3>1. PICK c, b, row :
               /\ c = Arg(r).artifact /\ b = Arg(r).body /\ At(r, "artifact-patch", "write")
               /\ artifacts[c] = row
               /\ artifacts' = IF row = NoRow THEN artifacts ELSE [artifacts EXCEPT ![c] = Patched(row, row, b)]
               /\ row # NoRow => ArtifactRow(row)
      BY <2>2, PatchedInPlace
    <3>2. CASE c # a
      BY <1>1, <3>1, <3>2
    <3>3. CASE c = a
      <4>1. DOMAIN b \subseteq NamedParts(a)
        BY <3>1, <3>3 DEF NamedParts
      <4>2. PICK new : new = Patched(row, row, b)
        OBVIOUS
      <4>3. artifacts'[a] = new /\ artifacts[a] = row /\ ArtifactRow(row)
        BY <1>1, <3>1, <3>3, <4>2
      <4>4. /\ "caps" \notin DOMAIN b => new.caps = row.caps
            /\ "params" \notin DOMAIN b => new.params = row.params
            /\ DOMAIN b \cap {"caps", "sources"} = {} => new.sources = row.sources
        BY <4>2, <4>3, PatchedFields
      <4> QED
        BY <4>1, <4>3, <4>4
    <3> QED
      BY <3>2, <3>3
  <2> QED
    BY <1>2, <2>1, <2>2
<1>3. ASSUME NEW c \in Free(Artifacts), NEW row, artifacts' = [artifacts EXCEPT ![c] = row]
      PROVE  artifacts'[a] = artifacts[a]
  BY <1>1, <1>3, FreeFacts
<1>4. CASE ArtifactCreate(r) \/ Discover(r) \/ WizardCreate(r)
  <2>1. \/ artifacts' = artifacts
        \/ \E c \in Free(Artifacts) : \E row : artifacts' = [artifacts EXCEPT ![c] = row]
    BY <1>4 DEF ArtifactCreate, Discover, WizardCreate, Insert
  <2> QED
    BY <1>3, <2>1
<1>5. CASE ArtifactDeleteWrite(r)
  <2>1. artifacts' = artifacts \/ \E c : artifacts' = [artifacts EXCEPT ![c] = NoRow]
    BY <1>5 DEF ArtifactDeleteWrite
  <2> QED
    BY <1>1, <2>1
<1> QED
  BY <1>4, <1>5, TablesStay DEF ModelActs

(* WritesSound: while no two requests overlap and no count fails, no root  *)
(* with locations and no location that an instance was started from is     *)
(* removed, no location leads out of the enabled roots, no GGUF model      *)
(* loses its file, and a patch changes what it names.                      *)
THEOREM WritesAreSound == Spec => WritesSound
<1> DEFINE Sound == /\ KeepsUsedRoots /\ KeepsUsedLocations /\ LocatesUnderRoots
                    /\ KeepsGgufFiles /\ KeepsTheRest
<1>1. IndInv /\ SoundInv /\ Origins /\ [Next]_vars => (OneAtATime /\ ~load.dbErrors => Sound)
  <2> SUFFICES ASSUME IndInv, SoundInv, Origins, [Next]_vars, OneAtATime, ~load.dbErrors
               PROVE  Sound
    OBVIOUS
  <2>1. CASE \E r \in Requests : Serve(r)
    BY <2>1, UsedRootsKept, UsedLocationsKept, LocatedUnderRoots, GgufFilesKept, TheRestKept
  <2>2. CASE ~\E r \in Requests : Serve(r)
    <3>1. artifacts' = artifacts /\ locations' = locations /\ roots' = roots
      BY <2>2, AcceptAlone DEF Next, vars, tables, InstanceEnds
    <3>2. LocatesUnderRoots
      BY <3>1 DEF LocatesUnderRoots
    <3>3. KeepsUsedRoots /\ KeepsUsedLocations
      BY <3>1 DEF KeepsUsedRoots, KeepsUsedLocations, Rows
    <3>4. KeepsGgufFiles /\ KeepsTheRest
      BY <3>1 DEF KeepsGgufFiles, KeepsTheRest, Rows
    <3> QED
      BY <3>2, <3>3, <3>4
  <2> QED
    BY <2>1, <2>2
<1> QED
  BY <1>1, SoundInvHolds, OriginsHold, PTL DEF Spec, WritesSound

-----------------------------------------------------------------------------
(* Folds over a sequence, which the path and the tensor operators are.     *)

(* The largest element of a set of positions.                              *)
LEMMA MaxIn ==
    ASSUME NEW n \in Nat, NEW s, s \subseteq 1..n, s # {}
    PROVE  Max(s) \in s /\ \A y \in s : Max(s) >= y
<1> DEFINE T == {n - x : x \in s}
<1>a. \A x \in s : x \in Nat /\ n - x \in Nat
  OBVIOUS
<1>1. T \subseteq Nat /\ T # {}
  BY <1>a
<1>2. PICK z \in T : \A y \in T : z <= y
  BY <1>1, NatMin
<1>3. PICK x \in s : z = n - x
  BY <1>2
<1>4. \A y \in s : n - y \in T
  OBVIOUS
<1>5. \A y \in s : x >= y
  BY <1>a, <1>2, <1>3, <1>4
<1>6. \E u \in s : \A y \in s : u >= y
  BY <1>5
<1> QED
  BY <1>6, Zenon DEF Max

(* The recursion of a fold over the positions 1..n has a solution.         *)
Unfolds(g, n, base, F, seq) ==
    \A s \in SUBSET (1..n) : g[s] = IF s = {} THEN base ELSE F[<<g[s \ {Max(s)}], seq[Max(s)]>>]

(* Such a function exists, for a step F that stays within A.               *)
LEMMA FoldExists ==
    ASSUME NEW n \in Nat, NEW A, NEW E, NEW base \in A, NEW F \in [A \X E -> A], NEW seq \in [1..n -> E]
    PROVE  \E g \in [SUBSET (1..n) -> A] : Unfolds(g, n, base, F, seq)
<1> DEFINE Good(k) == \E g \in [SUBSET (1..k) -> A] : Unfolds(g, k, base, F, seq)
           T == {k \in 0..n : ~Good(k)}
<1>1. SUFFICES ASSUME T # {} PROVE FALSE
  <2>1. n \in 0..n
    OBVIOUS
  <2> HIDE DEF Good
  <2>2. Good(n)
    BY <1>1, <2>1
  <2> QED
    BY <2>2 DEF Good
<1>2. PICK k \in T : \A j \in T : k <= j
  <2> HIDE DEF Good
  <2>1. T \subseteq Nat
    OBVIOUS
  <2> HIDE DEF T
  <2> QED
    BY <1>1, <2>1, NatMin
<1>3. Good(0)
  <2>1. SUBSET (1..0) = {{}}
    OBVIOUS
  <2> DEFINE g == [s \in SUBSET (1..0) |-> base]
  <2>2. g \in [SUBSET (1..0) -> A]
    OBVIOUS
  <2>3. Unfolds(g, 0, base, F, seq)
    BY <2>1 DEF Unfolds
  <2> QED
    BY <2>2, <2>3
<1>4. k \in 1..n
  <2> HIDE DEF Good
  <2> QED
    BY <1>2, <1>3
<1>5. PICK g \in [SUBSET (1..(k - 1)) -> A] : Unfolds(g, k - 1, base, F, seq)
  <2> HIDE DEF Good
  <2>1. k - 1 \in 0..n /\ ~(k <= k - 1)
    BY <1>4
  <2>2. Good(k - 1)
    BY <1>2, <2>1
  <2> QED
    BY <2>2 DEF Good
<1> DEFINE h == [s \in SUBSET (1..k) |-> IF k \in s THEN F[<<g[s \ {k}], seq[k]>>] ELSE g[s]]
<1>6. \A s \in SUBSET (1..k) : /\ s \ {k} \in SUBSET (1..(k - 1))
                               /\ k \notin s => s \in SUBSET (1..(k - 1))
  BY <1>4
<1>7. h \in [SUBSET (1..k) -> A]
  <2>1. \A s \in SUBSET (1..k) : h[s] \in A
    <3> SUFFICES ASSUME NEW s \in SUBSET (1..k) PROVE h[s] \in A
      OBVIOUS
    <3>1. seq[k] \in E /\ g[s \ {k}] \in A
      BY <1>4, <1>6
    <3>2. CASE k \in s
      BY <3>1, <3>2
    <3>3. CASE k \notin s
      BY <1>6, <3>3
    <3> QED
      BY <3>2, <3>3
  <2> QED
    BY <2>1
<1>8. Unfolds(h, k, base, F, seq)
  <2> SUFFICES ASSUME NEW s \in SUBSET (1..k)
               PROVE  h[s] = IF s = {} THEN base ELSE F[<<h[s \ {Max(s)}], seq[Max(s)]>>]
    BY DEF Unfolds
  <2>1. CASE s = {}
    <3>1. h[s] = g[{}] /\ {} \in SUBSET (1..(k - 1))
      BY <2>1
    <3> QED
      BY <1>5, <2>1, <3>1 DEF Unfolds
  <2>2. CASE s # {} /\ k \in s
    <3>1. Max(s) = k
      <4>1. k \in Nat /\ s \subseteq 1..k /\ s # {}
        BY <1>4, <2>2
      <4>2. PICK m : m = Max(s) /\ m \in s /\ \A y \in s : m >= y
        BY <4>1, MaxIn
      <4>3. m \in 1..k /\ m >= k
        BY <2>2, <4>1, <4>2
      <4>4. m = k
        BY <4>1, <4>3
      <4> QED
        BY <4>2, <4>4
    <3>2. h[s \ {k}] = g[s \ {k}] /\ h[s] = F[<<g[s \ {k}], seq[k]>>]
      BY <1>6, <2>2
    <3> QED
      BY <2>2, <3>1, <3>2
  <2>3. CASE s # {} /\ k \notin s
    <3>1. s \in SUBSET (1..(k - 1)) /\ h[s] = g[s]
      BY <1>6, <2>3
    <3>2. PICK m : m = Max(s) /\ m \in s
      <4>1. k \in Nat /\ s \subseteq 1..k /\ s # {}
        BY <1>4, <2>3
      <4> QED
        BY <4>1, MaxIn
    <3>3. h[s \ {m}] = g[s \ {m}]
      BY <1>6, <2>3
    <3>4. g[s] = F[<<g[s \ {m}], seq[m]>>]
      BY <1>5, <2>3, <3>1, <3>2 DEF Unfolds
    <3> QED
      BY <2>3, <3>1, <3>2, <3>3, <3>4
  <2> QED
    BY <2>1, <2>2, <2>3
<1>9. Good(k)
  <2> HIDE DEF h
  <2> QED
    BY <1>7, <1>8
<1> HIDE DEF Good, h
<1> QED
  BY <1>2, <1>9

(* The positions up to one of them.                                        *)
LEMMA PositionsUpTo ==
    ASSUME NEW n \in Nat, NEW k \in 1..n
    PROVE  /\ Max(1..k) = k /\ (1..k) \ {k} = 1..(k - 1) /\ 1..k # {}
           /\ 1..k \in SUBSET (1..n) /\ 1..(k - 1) \in SUBSET (1..n) /\ k - 1 \in 0..n
<1>1. PICK m : m = Max(1..k) /\ m \in 1..k /\ \A y \in 1..k : m >= y
  <2>1. k \in Nat /\ 1..k \subseteq 1..k /\ 1..k # {}
    OBVIOUS
  <2> QED
    BY <2>1, MaxIn
<1>2. m = k
  BY <1>1
<1> QED
  BY <1>1, <1>2

(* What holds at the start and from one position to the next holds at all. *)
LEMMA AllPositions ==
    ASSUME NEW n \in Nat, NEW S, 0 \in S, \A k \in 1..n : k - 1 \in S => k \in S
    PROVE  0..n \subseteq S
<1> DEFINE T == {k \in 0..n : k \notin S}
<1>1. SUFFICES ASSUME T # {} PROVE FALSE
  OBVIOUS
<1>2. PICK k \in T : \A j \in T : k <= j
  <2>1. T \subseteq Nat
    OBVIOUS
  <2> HIDE DEF T
  <2> QED
    BY <1>1, <2>1, NatMin
<1>3. k \in 1..n
  BY <1>2
<1>4. k - 1 \in 0..n /\ ~(k <= k - 1)
  BY <1>3
<1>5. k - 1 \in S
  BY <1>2, <1>4
<1> QED
  BY <1>2, <1>3, <1>5

(* A function of sets of positions that unfolds a fold by a typed step F,  *)
(* read off along the positions.                                           *)
Folding(f, n, A, base, F, seq) ==
    /\ f[{}] = base
    /\ \A s \in SUBSET (1..n) : s # {} /\ f[s \ {Max(s)}] \in A => f[s] = F[<<f[s \ {Max(s)}], seq[Max(s)]>>]
Along(h, n, base, F, seq) == h[0] = base /\ \A k \in 1..n : h[k] = F[<<h[k - 1], seq[k]>>]

(* Along the positions it starts with the base and applies the step.       *)
LEMMA FoldRead ==
    ASSUME NEW n \in Nat, NEW A, NEW E, NEW base \in A, NEW F \in [A \X E -> A], NEW seq \in [1..n -> E],
           NEW f, Folding(f, n, A, base, F, seq)
    PROVE  \E h \in [0..n -> A] : h[n] = f[1..n] /\ Along(h, n, base, F, seq)
<1> USE DEF Folding
<1> DEFINE h == [k \in 0..n |-> f[1..k]]
<1>1. h[0] = base
  <2>1. 0 \in 0..n /\ 1..0 = {}
    OBVIOUS
  <2>2. h[0] = f[1..0]
    BY <2>1
  <2> QED
    BY <2>1, <2>2
<1>2. h[n] = f[1..n]
  OBVIOUS
<1>3. ASSUME NEW k \in 1..n, h[k - 1] \in A
      PROVE  h[k] = F[<<h[k - 1], seq[k]>>] /\ h[k] \in A
  <2>1. /\ Max(1..k) = k /\ (1..k) \ {k} = 1..(k - 1) /\ 1..k # {}
        /\ 1..k \in SUBSET (1..n) /\ k - 1 \in 0..n /\ k \in 0..n
    BY PositionsUpTo
  <2>2. h[k - 1] = f[1..(k - 1)] /\ h[k] = f[1..k]
    BY <2>1
  <2> HIDE DEF h
  <2>3. f[1..k] = F[<<f[1..(k - 1)], seq[k]>>]
    BY <1>3, <2>1, <2>2
  <2> QED
    BY <1>3, <2>2, <2>3
<1> HIDE DEF h
<1>4. \A k \in 0..n : h[k] \in A
  <2> DEFINE S == {k \in 0..n : h[k] \in A}
  <2>1. 0 \in S
    BY <1>1
  <2>2. \A k \in 1..n : k - 1 \in S => k \in S
    <3> SUFFICES ASSUME NEW k \in 1..n, k - 1 \in S PROVE k \in S
      OBVIOUS
    <3>1. h[k - 1] \in A /\ k \in 0..n
      OBVIOUS
    <3>2. h[k] \in A
      BY <1>3, <3>1
    <3> QED
      BY <3>1, <3>2
  <2>3. 0..n \subseteq S
    <3> HIDE DEF S
    <3> QED
      BY <2>1, <2>2, AllPositions
  <2> QED
    BY <2>3
<1>5. h \in [0..n -> A]
  BY <1>4 DEF h
<1>6. \A k \in 1..n : h[k] = F[<<h[k - 1], seq[k]>>]
  <2> SUFFICES ASSUME NEW k \in 1..n PROVE h[k] = F[<<h[k - 1], seq[k]>>]
    OBVIOUS
  <2>1. k - 1 \in 0..n
    OBVIOUS
  <2> QED
    BY <1>3, <1>4, <2>1
<1> QED
  BY <1>1, <1>2, <1>5, <1>6 DEF Along

(* A component more or less is a path again.                               *)
LEMMA PathSteps ==
    ASSUME NEW Name, NEW acc \in Seq(Name), NEW c \in Name
    PROVE  Append(acc, c) \in Seq(Name) /\ (acc # <<>> => Front(acc) \in Seq(Name))
<1>1. Append(acc, c) \in Seq(Name)
  OBVIOUS
<1>2. ASSUME acc # <<>> PROVE Front(acc) \in Seq(Name)
  <2>1. Len(acc) \in Nat /\ Len(acc) >= 1
    BY <1>2
  <2>2. \A i \in 1..(Len(acc) - 1) : acc[i] \in Name
    BY <2>1
  <2>3. SubSeq(acc, 1, Len(acc) - 1) = [i \in 1..(Len(acc) - 1) |-> acc[i]]
    BY <2>1
  <2>4. Len(acc) - 1 \in Nat
    BY <2>1
  <2> QED
    BY <2>1, <2>2, <2>3, <2>4 DEF Front
<1> QED
  BY <1>1, <1>2

(* filepath.Clean of an absolute path, component by component.             *)
CleanAbsStep(acc, c) == IF c # ".." THEN Append(acc, c) ELSE IF acc = <<>> THEN acc ELSE Front(acc)

(* The path after each component.                                          *)
LEMMA CleanAbsAlong ==
    ASSUME NEW Name, NEW p \in Seq(Name)
    PROVE  \E h : /\ h \in [0..Len(p) -> Seq(Name)] /\ h[0] = <<>> /\ CleanAbs(p) = h[Len(p)]
                  /\ \A k \in 1..Len(p) : h[k] = CleanAbsStep(h[k - 1], p[k])
<1> DEFINE P(f) == f = [s \in SUBSET DOMAIN p |-> IF s = {} THEN <<>> ELSE CleanAbsStep(f[s \ {Max(s)}], p[Max(s)])]
<1>1. CleanAbs(p) = (CHOOSE f : P(f))[DOMAIN p]
  BY DEF CleanAbs, FoldLeft, MapThenFoldSet, CleanAbsStep
<1>2. PICK n \in Nat : n = Len(p) /\ DOMAIN p = 1..n /\ p \in [1..n -> Name]
  OBVIOUS
<1>3. <<>> \in Seq(Name)
  OBVIOUS
<1>4. \A acc \in Seq(Name), c \in Name : CleanAbsStep(acc, c) \in Seq(Name)
  BY PathSteps DEF CleanAbsStep
<1>5. PICK F : F = [x \in Seq(Name) \X Name |-> CleanAbsStep(x[1], x[2])]
  OBVIOUS
<1>6. F \in [Seq(Name) \X Name -> Seq(Name)]
  BY <1>4, <1>5
<1>7. \A acc \in Seq(Name), c \in Name : F[<<acc, c>>] = CleanAbsStep(acc, c)
  BY <1>5
<1>8. \E f : P(f)
  <2>1. PICK g \in [SUBSET (1..n) -> Seq(Name)] : Unfolds(g, n, <<>>, F, p)
    BY <1>2, <1>3, <1>6, FoldExists
  <2>2. ASSUME NEW s \in SUBSET (1..n)
        PROVE  g[s] = IF s = {} THEN <<>> ELSE CleanAbsStep(g[s \ {Max(s)}], p[Max(s)])
    <3>1. CASE s = {}
      BY <2>1, <3>1 DEF Unfolds
    <3>2. CASE s # {}
      <4>1. PICK m \in s : m = Max(s)
        BY <3>2, MaxIn
      <4>2. g[s \ {m}] \in Seq(Name) /\ p[m] \in Name
        BY <1>2
      <4>3. F[<<g[s \ {m}], p[m]>>] = CleanAbsStep(g[s \ {m}], p[m])
        BY <1>7, <4>2
      <4> QED
        BY <2>1, <3>2, <4>1, <4>3 DEF Unfolds
    <3> QED
      BY <3>1, <3>2
  <2>3. P(g)
    BY <1>2, <2>2
  <2> HIDE DEF P
  <2> QED
    BY <2>3
<1>9. PICK f : P(f) /\ CleanAbs(p) = f[DOMAIN p]
  <2> HIDE DEF P
  <2> QED
    BY <1>1, <1>8
<1>10. f[{}] = <<>>
  BY <1>9
<1>11. ASSUME NEW s \in SUBSET (1..n), s # {}, f[s \ {Max(s)}] \in Seq(Name)
       PROVE  f[s] = F[<<f[s \ {Max(s)}], p[Max(s)]>>]
  <2>1. PICK m \in s : m = Max(s)
    BY <1>11, MaxIn
  <2>2. f[s] = CleanAbsStep(f[s \ {m}], p[m]) /\ p[m] \in Name
    BY <1>2, <1>9, <1>11, <2>1
  <2> QED
    BY <1>7, <1>11, <2>1, <2>2
<1> HIDE DEF P
<1>12. \E h \in [0..n -> Seq(Name)] : h[n] = f[1..n] /\ Along(h, n, <<>>, F, p)
  <2>1. PICK A, E : A = Seq(Name) /\ E = Name
    OBVIOUS
  <2>2. Folding(f, n, A, <<>>, F, p)
    BY <1>10, <1>11, <2>1 DEF Folding
  <2>3. p \in [1..n -> E] /\ <<>> \in A /\ F \in [A \X E -> A]
    BY <1>2, <1>3, <1>6, <2>1
  <2>4. \E h \in [0..n -> A] : h[n] = f[1..n] /\ Along(h, n, <<>>, F, p)
    BY <2>2, <2>3, FoldRead
  <2> QED
    BY <2>1, <2>4
<1>13. PICK h \in [0..n -> Seq(Name)] : h[n] = f[1..n] /\ Along(h, n, <<>>, F, p)
  BY <1>12
<1>14. ASSUME NEW k \in 1..n PROVE h[k] = CleanAbsStep(h[k - 1], p[k])
  <2>1. k - 1 \in 0..n /\ h[k - 1] \in Seq(Name) /\ p[k] \in Name
    BY <1>2
  <2>2. h[k] = F[<<h[k - 1], p[k]>>]
    BY <1>13 DEF Along
  <2> QED
    BY <1>7, <2>1, <2>2
<1>15. h[0] = <<>> /\ CleanAbs(p) = h[n]
  BY <1>2, <1>9, <1>13 DEF Along
<1> QED
  BY <1>2, <1>14, <1>15

(* The same of a relative path.                                            *)
CleanStep(acc, c) == IF c # ".." \/ acc = <<>> \/ Last(acc) = ".." THEN Append(acc, c) ELSE Front(acc)

(* The path after each component.                                          *)
LEMMA CleanAlong ==
    ASSUME NEW Name, NEW p \in Seq(Name)
    PROVE  \E h : /\ h \in [0..Len(p) -> Seq(Name)] /\ h[0] = <<>> /\ Clean(p) = h[Len(p)]
                  /\ \A k \in 1..Len(p) : h[k] = CleanStep(h[k - 1], p[k])
<1> DEFINE P(f) == f = [s \in SUBSET DOMAIN p |-> IF s = {} THEN <<>> ELSE CleanStep(f[s \ {Max(s)}], p[Max(s)])]
<1>1. Clean(p) = (CHOOSE f : P(f))[DOMAIN p]
  BY DEF Clean, FoldLeft, MapThenFoldSet, CleanStep
<1>2. PICK n \in Nat : n = Len(p) /\ DOMAIN p = 1..n /\ p \in [1..n -> Name]
  OBVIOUS
<1>3. <<>> \in Seq(Name)
  OBVIOUS
<1>4. \A acc \in Seq(Name), c \in Name : CleanStep(acc, c) \in Seq(Name)
  BY PathSteps DEF CleanStep
<1>5. PICK F : F = [x \in Seq(Name) \X Name |-> CleanStep(x[1], x[2])]
  OBVIOUS
<1>6. F \in [Seq(Name) \X Name -> Seq(Name)]
  BY <1>4, <1>5
<1>7. \A acc \in Seq(Name), c \in Name : F[<<acc, c>>] = CleanStep(acc, c)
  BY <1>5
<1>8. \E f : P(f)
  <2>1. PICK g \in [SUBSET (1..n) -> Seq(Name)] : Unfolds(g, n, <<>>, F, p)
    BY <1>2, <1>3, <1>6, FoldExists
  <2>2. ASSUME NEW s \in SUBSET (1..n)
        PROVE  g[s] = IF s = {} THEN <<>> ELSE CleanStep(g[s \ {Max(s)}], p[Max(s)])
    <3>1. CASE s = {}
      BY <2>1, <3>1 DEF Unfolds
    <3>2. CASE s # {}
      <4>1. PICK m \in s : m = Max(s)
        BY <3>2, MaxIn
      <4>2. g[s \ {m}] \in Seq(Name) /\ p[m] \in Name
        BY <1>2
      <4>3. F[<<g[s \ {m}], p[m]>>] = CleanStep(g[s \ {m}], p[m])
        BY <1>7, <4>2
      <4> QED
        BY <2>1, <3>2, <4>1, <4>3 DEF Unfolds
    <3> QED
      BY <3>1, <3>2
  <2>3. P(g)
    BY <1>2, <2>2
  <2> HIDE DEF P
  <2> QED
    BY <2>3
<1>9. PICK f : P(f) /\ Clean(p) = f[DOMAIN p]
  <2> HIDE DEF P
  <2> QED
    BY <1>1, <1>8
<1>10. f[{}] = <<>>
  BY <1>9
<1>11. ASSUME NEW s \in SUBSET (1..n), s # {}, f[s \ {Max(s)}] \in Seq(Name)
       PROVE  f[s] = F[<<f[s \ {Max(s)}], p[Max(s)]>>]
  <2>1. PICK m \in s : m = Max(s)
    BY <1>11, MaxIn
  <2>2. f[s] = CleanStep(f[s \ {m}], p[m]) /\ p[m] \in Name
    BY <1>2, <1>9, <1>11, <2>1
  <2> QED
    BY <1>7, <1>11, <2>1, <2>2
<1> HIDE DEF P
<1>12. \E h \in [0..n -> Seq(Name)] : h[n] = f[1..n] /\ Along(h, n, <<>>, F, p)
  <2>1. PICK A, E : A = Seq(Name) /\ E = Name
    OBVIOUS
  <2>2. Folding(f, n, A, <<>>, F, p)
    BY <1>10, <1>11, <2>1 DEF Folding
  <2>3. p \in [1..n -> E] /\ <<>> \in A /\ F \in [A \X E -> A]
    BY <1>2, <1>3, <1>6, <2>1
  <2>4. \E h \in [0..n -> A] : h[n] = f[1..n] /\ Along(h, n, <<>>, F, p)
    BY <2>2, <2>3, FoldRead
  <2> QED
    BY <2>1, <2>4
<1>13. PICK h \in [0..n -> Seq(Name)] : h[n] = f[1..n] /\ Along(h, n, <<>>, F, p)
  BY <1>12
<1>14. ASSUME NEW k \in 1..n PROVE h[k] = CleanStep(h[k - 1], p[k])
  <2>1. k - 1 \in 0..n /\ h[k - 1] \in Seq(Name) /\ p[k] \in Name
    BY <1>2
  <2>2. h[k] = F[<<h[k - 1], p[k]>>]
    BY <1>13 DEF Along
  <2> QED
    BY <1>7, <2>1, <2>2
<1>15. h[0] = <<>> /\ Clean(p) = h[n]
  BY <1>2, <1>9, <1>13 DEF Along
<1> QED
  BY <1>2, <1>14, <1>15

(* A clean path is a path.                                                 *)
LEMMA CleanAbsPath ==
    ASSUME NEW Name, NEW p \in Seq(Name)
    PROVE  CleanAbs(p) \in Seq(Name)
<1>1. Len(p) \in 0..Len(p)
  OBVIOUS
<1>2. \E h : h \in [0..Len(p) -> Seq(Name)] /\ CleanAbs(p) = h[Len(p)]
  BY CleanAbsAlong
<1> QED
  BY <1>1, <1>2

(* A clean relative path too.                                              *)
LEMMA CleanPath ==
    ASSUME NEW Name, NEW p \in Seq(Name)
    PROVE  Clean(p) \in Seq(Name)
<1>1. Len(p) \in 0..Len(p)
  OBVIOUS
<1>2. \E h : h \in [0..Len(p) -> Seq(Name)] /\ Clean(p) = h[Len(p)]
  BY CleanAlong
<1> QED
  BY <1>1, <1>2

(* The counts of detectGGUFQuantization, tensor by tensor.                 *)
Tally == [counts : [TensorTypes -> Nat], top : TensorTypes \cup {""}, most : Nat]
NoTally == [counts |-> [t \in TensorTypes |-> 0], top |-> "", most |-> 0]
Tallied(s, t) ==
    LET n == s.counts[t] + 1 IN
    [counts |-> [s.counts EXCEPT ![t] = n], top |-> IF n > s.most THEN t ELSE s.top,
     most |-> IF n > s.most THEN n ELSE s.most]

(* Dominant is the type in front at the end of such a tally.               *)
LEMMA DominantAlong ==
    ASSUME NEW p \in Seq(TensorTypes)
    PROVE  \E h : /\ h \in [0..Len(p) -> Tally] /\ h[0] = NoTally /\ Dominant(p) = h[Len(p)].top
                  /\ \A k \in 1..Len(p) : h[k] = Tallied(h[k - 1], p[k])
<1> DEFINE P(f) == f = [s \in SUBSET DOMAIN p |-> IF s = {} THEN NoTally ELSE Tallied(f[s \ {Max(s)}], p[Max(s)])]
<1>1. Dominant(p) = (CHOOSE f : P(f))[DOMAIN p].top
  BY DEF Dominant, FoldLeft, MapThenFoldSet, NoTally, Tallied
<1>2. PICK n \in Nat : n = Len(p) /\ DOMAIN p = 1..n /\ p \in [1..n -> TensorTypes]
  OBVIOUS
<1>3. NoTally \in Tally
  <2>1. PICK none : none = ""
    OBVIOUS
  <2>2. [t \in TensorTypes |-> 0] \in [TensorTypes -> Nat]
    OBVIOUS
  <2> QED
    BY <2>1, <2>2 DEF NoTally, Tally
<1>4. ASSUME NEW acc \in Tally, NEW t \in TensorTypes PROVE Tallied(acc, t) \in Tally
  <2>1. PICK none : none = ""
    OBVIOUS
  <2>2. /\ acc.counts \in [TensorTypes -> Nat] /\ acc.top \in TensorTypes \cup {none} /\ acc.most \in Nat
        /\ Tally = [counts : [TensorTypes -> Nat], top : TensorTypes \cup {none}, most : Nat]
    BY <2>1 DEF Tally
  <2>3. PICK m \in Nat : m = acc.counts[t] + 1
    BY <2>2
  <2>4. [acc.counts EXCEPT ![t] = m] \in [TensorTypes -> Nat]
    BY <2>2
  <2>5. Tallied(acc, t) = [counts |-> [acc.counts EXCEPT ![t] = m], top |-> IF m > acc.most THEN t ELSE acc.top,
                           most |-> IF m > acc.most THEN m ELSE acc.most]
    BY <2>3 DEF Tallied
  <2> QED
    BY <2>2, <2>4, <2>5
<1>5. PICK F : F = [x \in Tally \X TensorTypes |-> Tallied(x[1], x[2])]
  OBVIOUS
<1>6. F \in [Tally \X TensorTypes -> Tally]
  BY <1>4, <1>5
<1>7. \A acc \in Tally, c \in TensorTypes : F[<<acc, c>>] = Tallied(acc, c)
  BY <1>5
<1>8. \E f : P(f)
  <2>1. PICK g \in [SUBSET (1..n) -> Tally] : Unfolds(g, n, NoTally, F, p)
    BY <1>2, <1>3, <1>6, FoldExists
  <2>2. ASSUME NEW s \in SUBSET (1..n)
        PROVE  g[s] = IF s = {} THEN NoTally ELSE Tallied(g[s \ {Max(s)}], p[Max(s)])
    <3>1. CASE s = {}
      BY <2>1, <3>1 DEF Unfolds
    <3>2. CASE s # {}
      <4>1. PICK m \in s : m = Max(s)
        BY <3>2, MaxIn
      <4>2. g[s \ {m}] \in Tally /\ p[m] \in TensorTypes
        BY <1>2
      <4>3. F[<<g[s \ {m}], p[m]>>] = Tallied(g[s \ {m}], p[m])
        BY <1>7, <4>2
      <4> QED
        BY <2>1, <3>2, <4>1, <4>3 DEF Unfolds
    <3> QED
      BY <3>1, <3>2
  <2>3. P(g)
    BY <1>2, <2>2
  <2> HIDE DEF P
  <2> QED
    BY <2>3
<1>9. PICK f : P(f) /\ Dominant(p) = f[DOMAIN p].top
  <2> HIDE DEF P
  <2> QED
    BY <1>1, <1>8
<1>10. f[{}] = NoTally
  BY <1>9
<1>11. ASSUME NEW s \in SUBSET (1..n), s # {}, f[s \ {Max(s)}] \in Tally
       PROVE  f[s] = F[<<f[s \ {Max(s)}], p[Max(s)]>>]
  <2>1. PICK m \in s : m = Max(s)
    BY <1>11, MaxIn
  <2>2. f[s] = Tallied(f[s \ {m}], p[m]) /\ p[m] \in TensorTypes
    BY <1>2, <1>9, <1>11, <2>1
  <2> QED
    BY <1>7, <1>11, <2>1, <2>2
<1> HIDE DEF P
<1>12. \E h \in [0..n -> Tally] : h[n] = f[1..n] /\ Along(h, n, NoTally, F, p)
  <2>1. PICK A, E : A = Tally /\ E = TensorTypes
    OBVIOUS
  <2>2. Folding(f, n, A, NoTally, F, p)
    BY <1>10, <1>11, <2>1 DEF Folding
  <2>3. p \in [1..n -> E] /\ NoTally \in A /\ F \in [A \X E -> A]
    BY <1>2, <1>3, <1>6, <2>1
  <2>4. \E h \in [0..n -> A] : h[n] = f[1..n] /\ Along(h, n, NoTally, F, p)
    BY <2>2, <2>3, FoldRead
  <2> QED
    BY <2>1, <2>4
<1>13. PICK h \in [0..n -> Tally] : h[n] = f[1..n] /\ Along(h, n, NoTally, F, p)
  BY <1>12
<1>14. ASSUME NEW k \in 1..n PROVE h[k] = Tallied(h[k - 1], p[k])
  <2>1. k - 1 \in 0..n /\ h[k - 1] \in Tally /\ p[k] \in TensorTypes
    BY <1>2
  <2>2. h[k] = F[<<h[k - 1], p[k]>>]
    BY <1>13 DEF Along
  <2> QED
    BY <1>7, <2>1, <2>2
<1>15. h[0] = NoTally /\ Dominant(p) = h[n].top
  BY <1>2, <1>9, <1>13 DEF Along
<1> QED
  BY <1>2, <1>14, <1>15

(* Nothing is counted at first.                                            *)
LEMMA AtFirst == NoTally.most = 0 /\ \A t \in TensorTypes : NoTally.counts[t] = 0
<1>1. PICK none : none = ""
  OBVIOUS
<1>2. NoTally = [counts |-> [t \in TensorTypes |-> 0], top |-> none, most |-> 0]
  BY <1>1 DEF NoTally
<1>3. NoTally.most = 0 /\ NoTally.counts = [t \in TensorTypes |-> 0]
  BY <1>2
<1> QED
  BY <1>3

(* One tensor more counts for its own type only.                           *)
UpTo(p, k, t) == Cardinality({i \in 1..k : p[i] = t})
(* What is counted up to a position, from the position before.             *)
LEMMA OneMore ==
    ASSUME NEW p \in Seq(TensorTypes), NEW k \in 1..Len(p), NEW t
    PROVE  UpTo(p, k, t) = UpTo(p, k - 1, t) + (IF p[k] = t THEN 1 ELSE 0)
<1> DEFINE A == {i \in 1..(k - 1) : p[i] = t}
           B == {i \in 1..k : p[i] = t}
<1>1. k \in Nat /\ k - 1 \in Int /\ 1 \in Int /\ 1..k = (1..(k - 1)) \cup {k} /\ k \notin 1..(k - 1)
  OBVIOUS
<1>2. IsFiniteSet(A) /\ Cardinality(A) \in Nat
  <2>1. A \subseteq 1..(k - 1) /\ IsFiniteSet(1..(k - 1))
    BY <1>1, FS_Interval
  <2> HIDE DEF A
  <2> QED
    BY <2>1, FS_Subset, FS_CardinalityType
<1>3. CASE p[k] = t
  <2>1. B = A \cup {k} /\ k \notin A
    BY <1>1, <1>3
  <2> HIDE DEF A, B
  <2>2. Cardinality(A \cup {k}) = Cardinality(A) + 1
    BY <1>2, <2>1, FS_AddElement
  <2> QED
    BY <1>2, <1>3, <2>1, <2>2 DEF A, B, UpTo
<1>4. CASE p[k] # t
  <2>1. B = A
    BY <1>1, <1>4
  <2> HIDE DEF A, B
  <2>2. Cardinality(B) = Cardinality(A) + 0
    BY <1>2, <2>1
  <2> QED
    BY <1>2, <1>4, <2>2 DEF A, B, UpTo
<1> QED
  BY <1>3, <1>4

(* The dominant type of a file with tensors is a type with the most.       *)
LEMMA DominantHasMost ==
    ASSUME NEW p \in Seq(TensorTypes), p # <<>>
    PROVE  /\ Dominant(p) \in TensorTypes
           /\ CountOf(p, Dominant(p)) \in Nat /\ CountOf(p, Dominant(p)) > 0
           /\ \A t \in TensorTypes : CountOf(p, t) \in Nat /\ CountOf(p, t) <= CountOf(p, Dominant(p))
<1>1. PICK h : /\ h \in [0..Len(p) -> Tally] /\ h[0] = NoTally /\ Dominant(p) = h[Len(p)].top
               /\ \A k \in 1..Len(p) : h[k] = Tallied(h[k - 1], p[k])
  BY DominantAlong
<1>2. PICK n \in Nat : n = Len(p) /\ n > 0 /\ DOMAIN p = 1..n
  OBVIOUS
<1> DEFINE Same(k) == \A t \in TensorTypes : /\ h[k].counts[t] = UpTo(p, k, t)
                                             /\ h[k].counts[t] \in Nat /\ h[k].counts[t] <= h[k].most
           Ahead(k) == k > 0 => /\ h[k].top \in TensorTypes /\ h[k].most \in Nat /\ h[k].most > 0
                                /\ h[k].counts[h[k].top] = h[k].most
           S == {k \in 0..n : Same(k) /\ Ahead(k)}
<1>3. 0 \in S
  <2>1. \A t : {i \in 1..0 : p[i] = t} = {}
    OBVIOUS
  <2>2. \A t : UpTo(p, 0, t) = 0
    BY <2>1, FS_EmptySet DEF UpTo
  <2>3. \A t \in TensorTypes : h[0].counts[t] = 0
    BY <1>1, AtFirst
  <2>4. h[0].most = 0
    BY <1>1, AtFirst
  <2>5. Same(0)
    BY <2>2, <2>3, <2>4
  <2> HIDE DEF Same
  <2> QED
    BY <1>2, <2>5
<1>4. ASSUME NEW k \in 1..n, k - 1 \in S PROVE k \in S
  <2>1. Same(k - 1) /\ Ahead(k - 1) /\ k - 1 \in 0..n /\ k \in 0..n
    <3> HIDE DEF Same, Ahead
    <3>1. k \in 0..n
      OBVIOUS
    <3> QED
      BY <1>4, <3>1
  <2>2. PICK s \in Tally : s = h[k - 1]
    BY <1>1, <1>2, <2>1
  <2>3. PICK t \in TensorTypes : t = p[k]
    BY <1>2
  <2>4. /\ s.counts \in [TensorTypes -> Nat] /\ s.most \in Nat
    BY <2>2 DEF Tally
  <2>5. PICK m \in Nat : m = s.counts[t] + 1
    BY <2>4
  <2>6. h[k] = [counts |-> [s.counts EXCEPT ![t] = m], top |-> IF m > s.most THEN t ELSE s.top,
                most |-> IF m > s.most THEN m ELSE s.most]
    BY <1>1, <1>2, <2>2, <2>3, <2>5 DEF Tallied
  <2>7. /\ h[k].counts = [s.counts EXCEPT ![t] = m] /\ h[k].top = (IF m > s.most THEN t ELSE s.top)
        /\ h[k].most = (IF m > s.most THEN m ELSE s.most)
    BY <2>6
  <2>8. h[k].most \in Nat /\ h[k].most >= s.most /\ h[k].most >= m
    BY <2>4, <2>5, <2>7
  <2>9. ASSUME NEW u \in TensorTypes
        PROVE  /\ h[k].counts[u] = UpTo(p, k, u)
               /\ h[k].counts[u] \in Nat /\ h[k].counts[u] <= h[k].most
    <3>1. s.counts[u] = UpTo(p, k - 1, u) /\ s.counts[u] <= s.most
      BY <2>1, <2>2
    <3>2. UpTo(p, k, u) = UpTo(p, k - 1, u) + (IF p[k] = u THEN 1 ELSE 0)
      <4>1. k \in 1..Len(p)
        BY <1>2
      <4> QED
        BY <4>1, OneMore
    <3>3. PICK c : c = UpTo(p, k, u)
      OBVIOUS
    <3>4. CASE u = t
      <4>1. h[k].counts[u] = m /\ c = s.counts[u] + 1
        BY <2>3, <2>4, <2>7, <3>1, <3>2, <3>3, <3>4
      <4>2. c = m
        BY <2>5, <3>4, <4>1
      <4> QED
        BY <2>8, <3>3, <4>1, <4>2
    <3>5. CASE u # t
      <4>1. h[k].counts[u] = s.counts[u] /\ c = s.counts[u] + 0
        BY <2>3, <2>4, <2>7, <3>1, <3>2, <3>3, <3>5
      <4> QED
        BY <2>4, <2>8, <3>1, <3>3, <4>1
    <3> QED
      BY <3>4, <3>5
  <2>10. Same(k)
    BY <2>9
  <2>11. Ahead(k)
    <3>1. CASE m > s.most
      <4>1. h[k].top = t /\ h[k].most = m /\ h[k].counts[t] = m /\ m > 0
        BY <2>4, <2>5, <2>7, <3>1
      <4> QED
        BY <4>1
    <3>2. CASE ~(m > s.most)
      <4>1. h[k].top = s.top /\ h[k].most = s.most /\ s.most > 0
        BY <2>4, <2>5, <2>7, <3>2
      <4>2. k - 1 > 0
        <5>1. CASE k = 1
          <6>1. s = NoTally
            BY <1>1, <2>2, <5>1
          <6>2. s.most = 0
            BY <6>1, AtFirst
          <6> QED
            BY <4>1, <6>2
        <5>2. CASE k # 1
          BY <5>2
        <5> QED
          BY <5>1, <5>2
      <4>3. s.top \in TensorTypes /\ s.counts[s.top] = s.most
        BY <2>1, <2>2, <4>2
      <4>4. s.top # t
        <5>1. SUFFICES ASSUME s.top = t PROVE FALSE
          OBVIOUS
        <5>2. s.counts[t] = s.most
          BY <4>3, <5>1
        <5> QED
          BY <2>4, <2>5, <3>2, <5>2
      <4>5. h[k].counts[s.top] = s.counts[s.top]
        BY <2>4, <2>7, <4>3, <4>4
      <4> QED
        BY <2>4, <4>1, <4>3, <4>5
    <3> QED
      BY <3>1, <3>2
  <2> HIDE DEF Same, Ahead
  <2> QED
    BY <2>1, <2>10, <2>11
<1>5. n \in S
  <2>1. \A k \in 1..n : k - 1 \in S => k \in S
    BY <1>4
  <2> HIDE DEF S
  <2>2. 0..n \subseteq S
    BY <1>3, <2>1, AllPositions
  <2> QED
    BY <1>2, <2>2
<1>6. Same(n) /\ Ahead(n)
  BY <1>5
<1>7. \A t \in TensorTypes : h[n].counts[t] = CountOf(p, t)
  BY <1>2, <1>6 DEF CountOf, UpTo
<1>8. Dominant(p) = h[n].top /\ Dominant(p) \in TensorTypes
  BY <1>1, <1>2, <1>6
<1>9. CountOf(p, Dominant(p)) = h[n].most
  BY <1>2, <1>6, <1>7, <1>8
<1>10. h[n].most \in Nat /\ h[n].most > 0
  BY <1>2, <1>6
<1>11. \A t \in TensorTypes : CountOf(p, t) \in Nat /\ CountOf(p, t) <= h[n].most
  BY <1>6, <1>7
<1> QED
  BY <1>8, <1>9, <1>10, <1>11

(* The names of the types that detectGGUFQuantization returns.             *)
LEMMA TypeNames ==
    /\ "" \notin TensorTypes
    /\ \A t \in TensorTypes : Canonical[t] # "unknown" /\ Canonical[t] \notin FloatTypes /\ t # "unknown"
    /\ FloatTypes \subseteq TensorTypes /\ QuantizedTypes \subseteq TensorTypes
<1>1. "" \notin TensorTypes
  BY Zenon DEF TensorTypes, FloatTypes, QuantizedTypes
<1>2. \A t \in TensorTypes : Canonical[t] # "unknown" /\ Canonical[t] \notin FloatTypes /\ t # "unknown"
  BY DEF TensorTypes, FloatTypes, QuantizedTypes, Canonical
<1> QED
  BY <1>1, <1>2 DEF TensorTypes

(* A quarter of a count, rounded down.                                     *)
LEMMA Quarter == \A a, b \in Nat : a > b \div 4 <=> 4 * a > b
  OBVIOUS

(* A type has more than a quarter of the tensors of any other.             *)
IsFrequent(ts, t) == \A u \in TensorTypes : 4 * CountOf(ts, t) > CountOf(ts, u)

(* What detectGGUFQuantization returns for a file with tensors.            *)
LEMMA QuantizationFound ==
    ASSUME NEW ts \in Seq(TensorTypes), ts # <<>>, NEW q \in detectGGUFQuantization(ts)
    PROVE  /\ q # "unknown"
           /\ \E t \in TensorTypes : q \in {t, Canonical[t]} /\ IsFrequent(ts, t)
           /\ q \in FloatTypes => \A t \in QuantizedTypes : ~IsFrequent(ts, t)
<1>1. PICK d \in TensorTypes :
        /\ d = Dominant(ts) /\ CountOf(ts, d) \in Nat /\ CountOf(ts, d) > 0
        /\ \A t \in TensorTypes : CountOf(ts, t) \in Nat /\ CountOf(ts, t) <= CountOf(ts, d)
  BY DominantHasMost
<1>2. PICK Few : Few = {t \in QuantizedTypes : CountOf(ts, t) > CountOf(ts, d) \div 4}
  OBVIOUS
<1>3. q \in (IF d \notin FloatTypes THEN {Canonical[d]}
             ELSE IF Few = {} THEN {d} ELSE {Canonical[t] : t \in Few})
  <2>1. d # ""
    BY TypeNames
  <2> QED
    BY <1>1, <1>2, <2>1, Zenon DEF detectGGUFQuantization
<1>4. IsFrequent(ts, d)
  BY <1>1 DEF IsFrequent
<1>5. \A t \in QuantizedTypes : t \in TensorTypes /\ (t \in Few <=> 4 * CountOf(ts, t) > CountOf(ts, d))
  BY <1>1, <1>2, TypeNames, Quarter
<1>6. CASE d \notin FloatTypes
  <2>1. q = Canonical[d]
    BY <1>3, <1>6
  <2> QED
    BY <1>4, <2>1, TypeNames
<1>7. CASE d \in FloatTypes /\ Few = {}
  <2>1. q = d
    BY <1>3, <1>7
  <2>2. \A t \in QuantizedTypes : ~IsFrequent(ts, t)
    BY <1>5, <1>7 DEF IsFrequent
  <2> QED
    BY <1>4, <2>1, <2>2, TypeNames
<1>8. CASE d \in FloatTypes /\ Few # {}
  <2>1. PICK t \in Few : q = Canonical[t]
    BY <1>3, <1>8
  <2>2. t \in TensorTypes /\ 4 * CountOf(ts, t) > CountOf(ts, d)
    BY <1>2, <1>5
  <2>3. IsFrequent(ts, t)
    BY <1>1, <2>2 DEF IsFrequent
  <2> QED
    BY <2>1, <2>2, <2>3, TypeNames
<1> QED
  BY <1>6, <1>7, <1>8

(* The quantizations that a candidate of a GGUF file carries.              *)
LEMMA QuantsOfFile ==
    ASSUME NEW n, NEW h, h.valid, h.tensors \in Seq(TensorTypes), h.tensors # <<>>
    PROVE  \A q \in extractGGUFMetadata(n, h).quants :
             /\ \E t \in TensorTypes : q \in {t, Canonical[t]} /\ IsFrequent(h.tensors, t)
             /\ q \in FloatTypes => \A t \in QuantizedTypes : ~IsFrequent(h.tensors, t)
<1>1. PICK meta : meta = readGGUFMeta(h)
  OBVIOUS
<1>2. meta.quants = detectGGUFQuantization(h.tensors)
  BY <1>1 DEF readGGUFMeta
<1>3. extractGGUFMetadata(n, h).quants = {IF q = "unknown" THEN guessQuantFromFilename(n) ELSE q : q \in meta.quants}
  BY <1>1 DEF extractGGUFMetadata
<1> SUFFICES ASSUME NEW q \in extractGGUFMetadata(n, h).quants
             PROVE  /\ \E t \in TensorTypes : q \in {t, Canonical[t]} /\ IsFrequent(h.tensors, t)
                    /\ q \in FloatTypes => \A t \in QuantizedTypes : ~IsFrequent(h.tensors, t)
  OBVIOUS
<1>4. PICK z \in meta.quants : q = IF z = "unknown" THEN guessQuantFromFilename(n) ELSE z
  BY <1>3
<1>5. PICK ts : ts = h.tensors
  OBVIOUS
<1>6. /\ z # "unknown"
      /\ \E t \in TensorTypes : z \in {t, Canonical[t]} /\ IsFrequent(ts, t)
      /\ z \in FloatTypes => \A t \in QuantizedTypes : ~IsFrequent(ts, t)
  BY <1>2, <1>5, QuantizationFound
<1> QED
  BY <1>4, <1>5, <1>6

-----------------------------------------------------------------------------
(* What a scan returns.                                                    *)

(* The image of a finite set is finite.                                    *)
LEMMA ImageFinite ==
    ASSUME NEW S, IsFiniteSet(S), NEW f, DOMAIN f = S
    PROVE  IsFiniteSet({f[x] : x \in S})
<1>1. PICK T : T = {f[x] : x \in S}
  OBVIOUS
<1>2. PICK g : g = [x \in S |-> f[x]]
  OBVIOUS
<1>3. g \in Surjection(S, T)
  BY <1>1, <1>2 DEF Surjection
<1> QED
  BY <1>1, <1>3, FS_Surjection

(* A set of at most eleven elements is finite.                             *)
LEMMA FewFinite ==
    ASSUME NEW a, NEW b, NEW c, NEW d, NEW e, NEW f, NEW g, NEW h, NEW i, NEW j, NEW k
    PROVE  IsFiniteSet({a, b, c, d, e, f, g, h, i, j, k})
<1>1. IsFiniteSet({a, b}) /\ IsFiniteSet({c, d}) /\ IsFiniteSet({e, f}) /\ IsFiniteSet({g, h})
      /\ IsFiniteSet({i, j}) /\ IsFiniteSet({k})
  <2>1. \A x, y : IsFiniteSet({x, y})
    <3> SUFFICES ASSUME NEW x, NEW y PROVE IsFiniteSet({x, y})
      OBVIOUS
    <3>1. IsFiniteSet({x} \cup {y})
      BY FS_Singleton, FS_AddElement
    <3>2. {x, y} = {x} \cup {y}
      OBVIOUS
    <3> QED
      BY <3>1, <3>2
  <2> QED
    BY <2>1, FS_Singleton
<1>2. \A S, T : IsFiniteSet(S) /\ IsFiniteSet(T) => IsFiniteSet(S \cup T)
  BY FS_Union
<1>3. IsFiniteSet((({a, b} \cup {c, d}) \cup ({e, f} \cup {g, h})) \cup ({i, j} \cup {k}))
  BY <1>1, <1>2
<1>4. {a, b, c, d, e, f, g, h, i, j, k} = (({a, b} \cup {c, d}) \cup ({e, f} \cup {g, h})) \cup ({i, j} \cup {k})
  OBVIOUS
<1> QED
  BY <1>3, <1>4

(* A scan detects finitely many candidates.                                *)
LEMMA DetectedFinite ==
    ASSUME NEW path, NEW d
    PROVE  IsFiniteSet(Detected(path, d))
<1>1. IsFiniteSet(DirectoryPlugins(d))
  <2>1. PICK S : IsFiniteSet(S) /\ DirectoryPlugins(d) \subseteq S
    BY FewFinite DEF DirectoryPlugins
  <2> QED
    BY <2>1, FS_Subset
<1>2. IsFiniteSet({applyDefaults(path, "directory", p.meta, Defaults[p.id]) : p \in DirectoryPlugins(d)})
  <2>1. PICK f : f = [p \in DirectoryPlugins(d) |-> applyDefaults(path, "directory", p.meta, Defaults[p.id])]
    OBVIOUS
  <2>2. IsFiniteSet({f[p] : p \in DirectoryPlugins(d)})
    BY <1>1, <2>1, ImageFinite
  <2>3. {f[p] : p \in DirectoryPlugins(d)}
          = {applyDefaults(path, "directory", p.meta, Defaults[p.id]) : p \in DirectoryPlugins(d)}
    BY <2>1
  <2> QED
    BY <2>2, <2>3
<1>3. \A x, y, S : S \subseteq {x, y} => IsFiniteSet(S)
  <2> SUFFICES ASSUME NEW x, NEW y, NEW S, S \subseteq {x, y} PROVE IsFiniteSet(S)
    OBVIOUS
  <2>1. IsFiniteSet({x} \cup {y})
    BY FS_Singleton, FS_AddElement
  <2>2. S \subseteq {x} \cup {y}
    OBVIOUS
  <2> QED
    BY <2>1, <2>2, FS_Subset
<1>4. IsFiniteSet(DetectGGUF(path, d))
  <2>1. PICK f : f = [n \in GgufNames |->
                        applyDefaults(Append(path, n), "file", extractGGUFMetadata(n, d.headers[n]), Defaults.gguf)]
    OBVIOUS
  <2>2. DetectGGUF(path, d) = {f[n] : n \in GgufNames \cap d.files}
    BY <2>1 DEF DetectGGUF
  <2>3. DetectGGUF(path, d) \subseteq {f["a.gguf"], f["b-q8_0.gguf"]}
    BY <2>2 DEF GgufNames
  <2> QED
    BY <1>3, <2>3
<1>5. IsFiniteSet(DetectONNX(path, d))
  <2>1. PICK f : f = [n \in OnnxNames |-> applyDefaults(Append(path, n), "file", NoMetadata, Defaults.onnx)]
    OBVIOUS
  <2>2. DetectONNX(path, d) = {f[n] : n \in OnnxNames \cap d.files}
    BY <2>1 DEF DetectONNX
  <2>3. DetectONNX(path, d) \subseteq {f["a.onnx"], f["b.onnx"]}
    BY <2>2 DEF OnnxNames
  <2> QED
    BY <1>3, <2>3
<1> QED
  BY <1>2, <1>4, <1>5, FS_Union DEF Detected

(* The candidates by their defaults.  One that is not specific is generic  *)
(* or a GGUF file; one that is deployable has tasks, capabilities and a    *)
(* test mode that the server knows.                                        *)
LEMMA ByDefaults ==
    /\ \A id \in DOMAIN Defaults :
         /\ Defaults[id].format = "gguf" => id = "gguf"
         /\ ~Specific(Defaults[id]) => Defaults[id].task = "chat" /\ Defaults[id].format \in {"huggingface", "gguf"}
         /\ Defaults[id].deployable =>
               /\ Defaults[id].task \in allowedTaskTypes /\ Defaults[id].caps \subseteq allowedCapabilities
               /\ Defaults[id].mode \in allowedTestModes
    /\ DOMAIN Defaults \cap {"gguf", "onnx"} = {"gguf", "onnx"}
    /\ Defaults["gguf"] = Defaults.gguf /\ Defaults["onnx"] = Defaults.onnx
<1>1. {"chat", "embedding", "rerank"} \subseteq allowedTestModes
  BY Zenon DEF allowedTestModes
<1>2. \A id \in DOMAIN Defaults :
         /\ Defaults[id].format = "gguf" => id = "gguf"
         /\ ~Specific(Defaults[id]) => Defaults[id].task = "chat" /\ Defaults[id].format \in {"huggingface", "gguf"}
  BY DEF Defaults, Default, Specific
<1>3. \A id \in DOMAIN Defaults : Defaults[id].deployable =>
               /\ Defaults[id].task \in allowedTaskTypes /\ Defaults[id].caps \subseteq allowedCapabilities
               /\ Defaults[id].mode \in {"chat", "embedding", "rerank"}
  <2>1. \A f, t, c, m, b : Default(f, t, c, m, b).deployable <=> b # {}
    BY DEF Default
  <2>2. \A id \in {"lora_adapter", "diffusers", "asr", "tts", "classification", "openvino", "tensorrt", "onnx"} :
           \E f, t, c, m : Defaults[id] = Default(f, t, c, m, {})
    BY DEF Defaults
  <2>3. \A id \in DOMAIN Defaults : Defaults[id].deployable =>
            id \in {"sentence_transformers", "reranker", "vision_language", "hf_chat", "gguf"}
    <3>1. \A id \in {"lora_adapter", "diffusers", "asr", "tts", "classification", "openvino", "tensorrt", "onnx"} :
             ~Defaults[id].deployable
      BY <2>1, <2>2
    <3>2. DOMAIN Defaults = {"lora_adapter", "diffusers", "asr", "tts", "classification", "openvino", "tensorrt", "onnx",
                             "sentence_transformers", "reranker", "vision_language", "hf_chat", "gguf"}
      BY DEF Defaults
    <3> QED
      BY <3>1, <3>2
  <2>4. \A id \in {"sentence_transformers", "reranker", "vision_language", "hf_chat", "gguf"} :
          /\ Defaults[id].task \in allowedTaskTypes /\ Defaults[id].caps \subseteq allowedCapabilities
          /\ Defaults[id].mode \in {"chat", "embedding", "rerank"}
    BY DEF Defaults, Default, allowedTaskTypes, allowedCapabilities
  <2> QED
    BY <2>3, <2>4
<1>4. DOMAIN Defaults \cap {"gguf", "onnx"} = {"gguf", "onnx"}
  BY DEF Defaults
<1> QED
  BY <1>1, <1>2, <1>3, <1>4

(* A candidate that is deployable is one the server lets the user register. *)
Registrable(c) ==
    c.deployable => c.task \in allowedTaskTypes /\ c.caps \subseteq allowedCapabilities /\ c.mode \in allowedTestModes

(* A candidate is one of a GGUF file of a directory.                       *)
OfFile(b, path, d) == \E n \in GgufNames \cap d.files :
    b.path = Append(path, n) /\ b.quants = extractGGUFMetadata(n, d.headers[n]).quants

(* What is so of every candidate, by its defaults.                         *)
LEMMA DetectedFacts ==
    ASSUME NEW path, NEW d, NEW b \in Detected(path, d)
    PROVE  /\ b.auto = FALSE /\ [b EXCEPT !.auto = TRUE].auto = TRUE
           /\ ~Specific(b) => b.task = "chat" /\ b.format \in {"huggingface", "gguf"}
           /\ Registrable(b)
           /\ b.format = "gguf" => OfFile(b, path, d)
<1>1. IsCandidate(b, path, d)
  BY Candidates
<1>2. PICK id \in DOMAIN Defaults : \E q, type, meta : b = applyDefaults(q, type, meta, Defaults[id])
  BY <1>1, ByDefaults DEF IsCandidate
<1>3. PICK q, type, meta : b = applyDefaults(q, type, meta, Defaults[id])
  BY <1>2
<1>4. PICK def : def = Defaults[id]
  OBVIOUS
<1>5. /\ b.format = def.format /\ b.task = def.task /\ b.caps = def.caps /\ b.mode = def.mode
      /\ b.deployable = def.deployable
  BY <1>3, <1>4 DEF applyDefaults
<1>6. b.auto = FALSE /\ [b EXCEPT !.auto = TRUE].auto = TRUE
  BY <1>3 DEF applyDefaults
<1>7. ~Specific(b) => b.task = "chat" /\ b.format \in {"huggingface", "gguf"}
  BY <1>4, <1>5, ByDefaults DEF Specific
<1>8. Registrable(b)
  BY <1>4, <1>5, ByDefaults DEF Registrable
<1>9. ASSUME b.format = "gguf"
      PROVE  OfFile(b, path, d)
  <2>1. \A s, t, m, e : /\ applyDefaults(s, t, m, e).format = e.format /\ applyDefaults(s, t, m, e).path = s
                        /\ applyDefaults(s, t, m, e).quants = m.quants
    BY DEF applyDefaults
  <2>2. ASSUME NEW i \in DOMAIN Defaults \ {"gguf", "onnx"}, NEW m, b = applyDefaults(path, "directory", m, Defaults[i])
        PROVE  FALSE
    BY <1>9, <2>1, <2>2, ByDefaults
  <2>3. ASSUME NEW n, b = applyDefaults(Append(path, n), "file", NoMetadata, Defaults.onnx)
        PROVE  FALSE
    BY <1>9, <2>1, <2>3, ByDefaults
  <2>4. PICK n \in GgufNames \cap d.files :
          b = applyDefaults(Append(path, n), "file", extractGGUFMetadata(n, d.headers[n]), Defaults.gguf)
    BY <1>1, <2>2, <2>3 DEF IsCandidate
  <2>5. PICK m : m = extractGGUFMetadata(n, d.headers[n])
    OBVIOUS
  <2>6. PICK s, e : s = Append(path, n) /\ e = Defaults.gguf
    OBVIOUS
  <2>7. b = applyDefaults(s, "file", m, e)
    BY <2>4, <2>5, <2>6
  <2>8. b.path = s /\ b.quants = m.quants
    BY <2>1, <2>7
  <2> QED
    BY <2>5, <2>6, <2>8 DEF OfFile
<1> QED
  BY <1>6, <1>7, <1>8, <1>9

(* The generic candidate of a directory is the last resort, and a          *)
(* candidate is selected exactly when it is the only one.                  *)
Generic(c) == c.format = "huggingface" /\ c.task = "chat"
(* The two facts for the scan of a directory.                              *)
LEMMA DirectoryScan ==
    ASSUME NEW path, NEW d, NEW found, found = scanDirectory(path, d)
    PROVE  /\ (\E c \in found : Generic(c)) => \A c \in found : c.task = "chat" /\ c.format \in {"huggingface", "gguf"}
           /\ \A c \in found : c.auto <=> found = {c}
<1>1. PICK ds, cs : ds = Detected(path, d) /\ cs = Deduplicated(ds)
  OBVIOUS
<1>2. cs \subseteq ds /\ IsFiniteSet(ds) /\ IsFiniteSet(cs)
  <2>1. cs \subseteq ds
    BY <1>1 DEF Deduplicated
  <2> QED
    BY <1>1, <2>1, DetectedFinite, FS_Subset
<1>3. \A c \in found : \E b \in cs : Alike(b, c)
  BY <1>1, FromDetected
<1>4. ASSUME NEW c \in found, Generic(c), NEW e \in found
      PROVE  e.task = "chat" /\ e.format \in {"huggingface", "gguf"}
  <2>1. PICK b \in cs : Generic(b)
    BY <1>3, <1>4 DEF Alike, Generic
  <2>2. \A x \in ds : ~Specific(x)
    BY <1>1, <2>1 DEF Deduplicated, Generic
  <2>3. PICK x \in cs : Alike(x, e)
    BY <1>3
  <2>4. x.task = "chat" /\ x.format \in {"huggingface", "gguf"}
    BY <1>1, <1>2, <2>2, DetectedFacts
  <2> QED
    BY <2>3, <2>4 DEF Alike
<1>5. CASE Cardinality(cs) = 1
  <2>1. PICK b : cs = {b}
    BY <1>2, <1>5, FS_Singleton
  <2>2. PICK e : e = [b EXCEPT !.auto = TRUE] /\ e.auto = TRUE
    BY <1>1, <1>2, <2>1, DetectedFacts
  <2>3. found = {e}
    BY <1>1, <1>5, <2>1, <2>2 DEF scanDirectory, AutoSelected
  <2> QED
    BY <1>4, <2>2, <2>3
<1>6. CASE Cardinality(cs) # 1
  <2>1. found = cs
    BY <1>1, <1>6 DEF scanDirectory, AutoSelected
  <2>2. \A c \in found : c.auto = FALSE
    BY <1>1, <1>2, <2>1, DetectedFacts
  <2>3. \A c : found # {c}
    BY <1>6, <2>1, FS_Singleton
  <2> QED
    BY <1>4, <2>2, <2>3
<1> QED
  BY <1>5, <1>6

(* A single file is the only candidate, and one of a GGUF file or of one   *)
(* that nothing is known of.                                               *)
LEMMA FileScan ==
    ASSUME NEW path, NEW d
    PROVE  \E c : /\ scanSingleFile(path, d) = {c} /\ c.auto = TRUE /\ c.path = path /\ ~Generic(c) /\ Registrable(c)
                  /\ c.format = "gguf" => /\ Last(path) \in GgufNames
                                          /\ c.quants = extractGGUFMetadata(Last(path), d.headers[Last(path)]).quants
<1>1. PICK n : n = Last(path)
  OBVIOUS
<1>2. \A s, t, m, e : DOMAIN applyDefaults(s, t, m, e)
         = {"path", "type", "format", "task", "caps", "mode", "deployable", "backends", "ctx", "quants", "auto"}
  BY DEF applyDefaults
<1>3. \A s, t, m, e : /\ applyDefaults(s, t, m, e).path = s /\ applyDefaults(s, t, m, e).format = e.format
                      /\ applyDefaults(s, t, m, e).task = e.task /\ applyDefaults(s, t, m, e).caps = e.caps
                      /\ applyDefaults(s, t, m, e).mode = e.mode /\ applyDefaults(s, t, m, e).deployable = e.deployable
                      /\ applyDefaults(s, t, m, e).quants = m.quants
  BY DEF applyDefaults
<1>4. ASSUME NEW b, DOMAIN b = {"path", "type", "format", "task", "caps", "mode", "deployable", "backends", "ctx",
                                "quants", "auto"}
      PROVE  /\ [b EXCEPT !.auto = TRUE].auto = TRUE /\ Alike(b, [b EXCEPT !.auto = TRUE])
  BY <1>4 DEF Alike
<1>5. CASE n \in GgufNames
  <2>1. PICK b : b = applyDefaults(path, "file", extractGGUFMetadata(n, d.headers[n]), Defaults.gguf)
    OBVIOUS
  <2>2. PICK c : c = [b EXCEPT !.auto = TRUE] /\ scanSingleFile(path, d) = {c}
    BY <1>1, <1>5, <2>1 DEF scanSingleFile
  <2>3. c.auto = TRUE /\ Alike(b, c)
    BY <1>2, <1>4, <2>1, <2>2
  <2>4. /\ b.path = path /\ b.format = Defaults.gguf.format /\ b.task = Defaults.gguf.task
        /\ b.caps = Defaults.gguf.caps /\ b.mode = Defaults.gguf.mode /\ b.deployable = Defaults.gguf.deployable
        /\ b.quants = extractGGUFMetadata(n, d.headers[n]).quants
    BY <1>3, <2>1
  <2>5. Defaults.gguf.format = "gguf"
    BY DEF Defaults, Default
  <2>6. Registrable(Defaults.gguf)
    BY ByDefaults DEF Registrable
  <2>7. Registrable(b) /\ ~Generic(b)
    BY <2>4, <2>5, <2>6 DEF Registrable, Generic
  <2>8. c.path = path /\ Registrable(c) /\ ~Generic(c) /\ c.quants = extractGGUFMetadata(n, d.headers[n]).quants
    BY <2>3, <2>4, <2>7 DEF Alike, Registrable, Generic
  <2> QED
    BY <1>1, <1>5, <2>2, <2>3, <2>8
<1>6. CASE n \notin GgufNames
  <2>1. PICK def : def = Default("custom", "unknown", {}, "", {})
    OBVIOUS
  <2>2. PICK b : b = applyDefaults(path, "file", NoMetadata, def)
    OBVIOUS
  <2>3. PICK c : c = [b EXCEPT !.auto = TRUE] /\ scanSingleFile(path, d) = {c}
    BY <1>1, <1>6, <2>1, <2>2 DEF scanSingleFile
  <2>4. c.auto = TRUE /\ Alike(b, c)
    BY <1>2, <1>4, <2>2, <2>3
  <2>5. b.path = path /\ b.format = def.format /\ b.task = def.task /\ b.deployable = def.deployable
    BY <1>3, <2>2
  <2>6. def.format = "custom" /\ ~def.deployable
    BY <2>1 DEF Default
  <2>7. c.path = path /\ c.format = "custom" /\ ~c.deployable
    BY <2>4, <2>5, <2>6 DEF Alike
  <2> QED
    BY <2>3, <2>4, <2>7 DEF Registrable, Generic
<1> QED
  BY <1>5, <1>6

(* What ScanSound says of the candidates of one scan.                      *)
InFile(c) ==
    c.format = "gguf" /\ dir.headers[Last(c.path)].valid /\ dir.headers[Last(c.path)].tensors # <<>> =>
        \A q \in c.quants :
            /\ \E t \in TensorTypes : q \in {t, Canonical[t]} /\ IsFrequent(dir.headers[Last(c.path)].tensors, t)
            /\ q \in FloatTypes => \A t \in QuantizedTypes : ~IsFrequent(dir.headers[Last(c.path)].tensors, t)
LastResort(found) ==
    /\ (\E c \in found : Generic(c)) => \A c \in found : c.task = "chat" /\ c.format \in {"huggingface", "gguf"}
    /\ \A c \in found : c.auto <=> found = {c}

(* The scan of a path: the directory, another directory, or a file.        *)
LEMMA ScanIsSound ==
    ASSUME World, NEW abs \in Seq(STRING), NEW found, found = ScanModelPath(abs)
    PROVE  LastResort(found) /\ \A c \in found : Registrable(c) /\ InFile(c)
<1>1. dir \in DirType
  BY DEF World
<1>2. \A n \in GgufNames : dir.headers[n].tensors \in Seq(TensorTypes)
  BY <1>1 DEF DirType, HeaderType
<1>3. ASSUME NEW c, NEW n \in GgufNames, Last(c.path) = n,
             c.quants = extractGGUFMetadata(n, dir.headers[n]).quants
      PROVE  InFile(c)
  <2> SUFFICES ASSUME dir.headers[n].valid, dir.headers[n].tensors # <<>>
               PROVE  \A q \in c.quants :
                        /\ \E t \in TensorTypes : q \in {t, Canonical[t]} /\ IsFrequent(dir.headers[n].tensors, t)
                        /\ q \in FloatTypes => \A t \in QuantizedTypes : ~IsFrequent(dir.headers[n].tensors, t)
    BY <1>3 DEF InFile
  <2>1. PICK h : h = dir.headers[n] /\ h.tensors \in Seq(TensorTypes)
    BY <1>2
  <2> QED
    BY <1>3, <2>1, QuantsOfFile
<1>4. CASE found = {}
  BY <1>4 DEF LastResort
<1>5. ASSUME NEW d, found = scanDirectory(abs, d), d = dir \/ d.files = {}
      PROVE  LastResort(found) /\ \A c \in found : Registrable(c) /\ InFile(c)
  <2>1. LastResort(found)
    BY <1>5, DirectoryScan DEF LastResort
  <2>2. ASSUME NEW c \in found PROVE Registrable(c) /\ InFile(c)
    <3>1. PICK b \in Detected(abs, d) : Alike(b, c)
      BY <1>5, FromDetected DEF Deduplicated
    <3>2. Registrable(c)
      BY <3>1, DetectedFacts DEF Alike, Registrable
    <3>3. InFile(c)
      <4> SUFFICES ASSUME c.format = "gguf" PROVE InFile(c)
        BY DEF InFile
      <4>1. PICK n \in GgufNames \cap d.files :
                b.path = Append(abs, n) /\ b.quants = extractGGUFMetadata(n, d.headers[n]).quants
        <5>1. OfFile(b, abs, d)
          BY <3>1, DetectedFacts DEF Alike
        <5> QED
          BY <5>1 DEF OfFile
      <4>2. d = dir
        BY <1>5, <4>1
      <4>3. Last(Append(abs, n)) = n
        <5>1. Append(abs, n)[Len(abs) + 1] = n /\ Len(Append(abs, n)) = Len(abs) + 1
          OBVIOUS
        <5> QED
          BY <5>1 DEF Last
      <4>4. Last(c.path) = n /\ c.quants = extractGGUFMetadata(n, dir.headers[n]).quants
        BY <3>1, <4>1, <4>2, <4>3 DEF Alike
      <4> QED
        BY <1>3, <4>1, <4>4
    <3> QED
      BY <3>2, <3>3
  <2> QED
    BY <2>1, <2>2
<1>6. CASE found = scanSingleFile(abs, dir)
  <2>1. PICK c : /\ found = {c} /\ c.auto = TRUE /\ c.path = abs /\ ~Generic(c) /\ Registrable(c)
                 /\ c.format = "gguf" => /\ Last(abs) \in GgufNames
                                         /\ c.quants = extractGGUFMetadata(Last(abs), dir.headers[Last(abs)]).quants
    <3>1. PICK d : d = dir /\ found = scanSingleFile(abs, d)
      BY <1>6
    <3>2. \E c : /\ scanSingleFile(abs, d) = {c} /\ c.auto = TRUE /\ c.path = abs /\ ~Generic(c) /\ Registrable(c)
                 /\ c.format = "gguf" => /\ Last(abs) \in GgufNames
                                         /\ c.quants = extractGGUFMetadata(Last(abs), d.headers[Last(abs)]).quants
      BY FileScan, Zenon
    <3> QED
      BY <3>1, <3>2, Zenon
  <2>2. LastResort(found)
    BY <2>1 DEF LastResort
  <2>3. InFile(c)
    <3> SUFFICES ASSUME c.format = "gguf" PROVE InFile(c)
      BY DEF InFile
    <3>1. PICK n \in GgufNames : n = Last(c.path) /\ c.quants = extractGGUFMetadata(n, dir.headers[n]).quants
      BY <2>1
    <3> QED
      BY <1>3, <3>1
  <2> QED
    BY <2>1, <2>2, <2>3
<1>7. EmptyDir.files = {}
  BY <1>1 DEF EmptyDir, DirType
<1> QED
  BY <1>4, <1>5, <1>6, <1>7 DEF ScanModelPath

-----------------------------------------------------------------------------
(* What was shown is what the scan of its path returns.                    *)

(* A request to the agent names paths, and what was shown came from a scan *)
(* of a path.                                                              *)
ProbeOf(v) ==
    v.op \in {"scan", "browse"} => v.arg.rel.path \in Seq(STRING) /\ (v.pc = "write" => v.saw \in Seq(STRING))
Probes == \A r \in Requests : req[r] # Idle => ProbeOf(req[r])
FromScan == shown.kind = "scan" => shown.abs \in Seq(STRING) /\ shown.found = ScanModelPath(shown.abs)
ScanInv == Probes /\ FromScan

(* The steps of handlers that do not ask the agent.                        *)
LEMMA OtherServe ==
    ASSUME IndInv, NEW r \in Requests, Serve(r)
    PROVE  \/ HandleProxyNodeFiles(r) \/ HandleProxyNodeModelScan(r)
           \/ AgentScan(r) \/ AgentFiles(r) \/ AgentRefuses(r)
           \/ shown' = shown /\ req[r].op \notin {"scan", "browse"}
<1>1. CASE ReadActs(r)
  <2>1. shown' = shown
    BY <1>1, ActsRead DEF Read
  <2>2. HandleProxyNodeFiles(r) \/ HandleProxyNodeModelScan(r) \/ req[r].op \notin {"scan", "browse"}
    BY <1>1 DEF ReadActs, RootAddRead, RootAddTenant, RootPatchRead, RootDeleteRead, ArtifactPatchRead,
       ArtifactDeleteRead, LocationCreateRead, LocationPatchRead, LocationDeleteRead, DeployRead, TransferRead,
       DeployPatchRead, DeployDeleteRead, StartRead, StartCheck, At
  <2> QED
    BY <2>1, <2>2
<1>2. CASE RootAddWrite(r) \/ RootActs(r)
  BY <1>2 DEF RootActs, RootAddWrite, RootAddEnable, RootPatchWrite, RootDeleteWrite, At
<1>3. CASE ModelActs(r) \/ WizardCreate(r)
  BY <1>3 DEF ModelActs, ArtifactCreate, ArtifactPatchWrite, ArtifactDeleteWrite, Discover, WizardCreate, At
<1>4. CASE LocationActs(r)
  BY <1>4 DEF LocationActs, LocationCreateWrite, LocationPatchWrite, LocationDeleteWrite, LocationMark, At
<1>5. CASE DeploymentActs(r) \/ TransferWrite(r)
  BY <1>5 DEF DeploymentActs, DeployWrite, DeployPatchWrite, DeployDeleteWrite, StartWrite, TransferWrite, At
<1> QED
  BY <1>1, <1>2, <1>3, <1>4, <1>5, ServeActs DEF LastActs, AgentActs

(* The proxies send the path of an enabled root along.                     *)
LEMMA ProxySends ==
    ASSUME IndInv, Typed, Probes, NEW r \in Requests, HandleProxyNodeFiles(r) \/ HandleProxyNodeModelScan(r)
    PROVE  /\ shown' = shown /\ \A q \in Requests : q # r => req'[q] = req[q]
           /\ req'[r] # Idle => ProbeOf(req'[r])
<1>1. PICK x, ok, saw : /\ Read(r, ok, saw) /\ x = Arg(r).root /\ (ok => resolveNodeModelRoot(x))
                        /\ saw = (IF roots[x] = NoRow THEN <<>> ELSE roots[x].path)
                        /\ req[r].op \in {"scan", "browse"} /\ req[r].pc = "read"
  BY DEF HandleProxyNodeFiles, HandleProxyNodeModelScan, ProxyRead, At
<1>2. PICK new : /\ new = (IF ok THEN [op |-> req[r].op, pc |-> "write", user |-> req[r].user,
                                       arg |-> req[r].arg, saw |-> saw] ELSE Idle)
                 /\ req' = [req EXCEPT ![r] = new]
  BY <1>1 DEF Read
<1>3. \A q \in Requests : req'[q] = IF q = r THEN new ELSE req[q]
  BY <1>2 DEF IndInv, Slots
<1>4. shown' = shown
  BY <1>1 DEF Read
<1>5. ASSUME new # Idle PROVE ProbeOf(new)
  <2>1. ok /\ new = [op |-> req[r].op, pc |-> "write", user |-> req[r].user, arg |-> req[r].arg, saw |-> saw]
    BY <1>2, <1>5
  <2>2. x \in Roots /\ roots[x] # NoRow
    BY <1>1, <2>1 DEF resolveNodeModelRoot, EnabledRoots, Rows, IndInv, Tables, RootTable
  <2>3. saw \in Seq(STRING)
    BY <1>1, <2>2 DEF Typed
  <2>4. req[r] # Idle
    BY <1>1 DEF Idle
  <2>5. req[r].arg.rel.path \in Seq(STRING)
    BY <1>1, <2>4 DEF Probes, ProbeOf
  <2>6. new.arg = req[r].arg /\ new.saw = saw
    BY <2>1
  <2> QED
    BY <2>3, <2>5, <2>6 DEF ProbeOf
<1> QED
  BY <1>3, <1>4, <1>5

(* A scan depends on the directory only.                                   *)
LEMMA SameScan ==
    ASSUME dir' = dir, NEW abs
    PROVE  ScanModelPath(abs)' = ScanModelPath(abs)
BY DEF ScanModelPath, Stat, EmptyDir

(* What was shown stays the scan of its path.                              *)
LEMMA FromScanStays ==
    ASSUME FromScan, dir' = dir, shown' = shown
    PROVE  FromScan'
<1>1. PICK abs : abs = shown.abs
  OBVIOUS
<1>2. ScanModelPath(abs)' = ScanModelPath(abs)
  BY SameScan
<1> QED
  BY <1>1, <1>2 DEF FromScan

(* The agent's answer to a scan is the scan of the path it was asked for.  *)
LEMMA ScanAnswered ==
    ASSUME IndInv, ScanInv, NEW r \in Requests, dir' = dir, AgentScan(r) \/ AgentFiles(r) \/ AgentRefuses(r)
    PROVE  ScanInv'
<1>1. \A q \in Requests : req'[q] = IF q = r THEN Idle ELSE req[q]
  BY DEF AgentScan, AgentFiles, AgentRefuses, Done, IndInv, Slots
<1>2. Probes'
  BY <1>1 DEF ScanInv, Probes, ProbeOf
<1>3. CASE shown' = shown
  BY <1>2, <1>3, FromScanStays DEF ScanInv
<1>4. CASE AgentFiles(r)
  <2>1. PICK found : Answer(r, "browse", found)
    BY <1>4 DEF AgentFiles
  <2>2. shown'.kind = "browse"
    BY <2>1 DEF Answer
  <2> QED
    BY <1>2, <2>2 DEF ScanInv, FromScan
<1>5. CASE AgentScan(r) /\ shown' # shown
  <2>1. PICK abs, found : /\ abs = CleanAbs(req[r].saw \o Clean(Arg(r).rel.path)) /\ found = ScanModelPath(abs)
                          /\ Answer(r, "scan", found)
    BY <1>5 DEF AgentScan
  <2>2. PICK root, under : shown' = [kind |-> "scan", root |-> root, under |-> under, abs |-> abs, found |-> found]
    BY <2>1 DEF Answer
  <2>3. shown'.abs = abs /\ shown'.found = found
    BY <2>2
  <2>4. req[r].op = "scan" /\ req[r].pc = "write" /\ req[r] # Idle
    BY <1>5, Under DEF AgentScan, Asked, At, Ops
  <2>5. req[r].saw \in Seq(STRING) /\ Arg(r).rel.path \in Seq(STRING)
    BY <2>4 DEF ScanInv, Probes, ProbeOf, Arg
  <2>6. PICK s, rel : s = req[r].saw /\ rel = Clean(Arg(r).rel.path) /\ s \in Seq(STRING) /\ rel \in Seq(STRING)
    BY <2>5, CleanPath
  <2>7. s \o rel \in Seq(STRING)
    BY <2>6
  <2>8. abs \in Seq(STRING)
    BY <2>1, <2>6, <2>7, CleanAbsPath
  <2>9. ScanModelPath(abs)' = found
    BY <2>1, SameScan
  <2>10. FromScan'
    BY <2>3, <2>8, <2>9 DEF FromScan
  <2> QED
    BY <1>2, <2>10 DEF ScanInv
<1>6. CASE AgentRefuses(r)
  BY <1>3, <1>6 DEF AgentRefuses
<1> QED
  BY <1>3, <1>4, <1>5, <1>6

(* The invariant holds at the start and is kept by every step.             *)
LEMMA ScanStep ==
    ASSUME IndInv, Typed, ScanInv, [Next]_vars
    PROVE  ScanInv'
<1>1. dir' = dir
  BY WorldStays
<1>2. ASSUME NEW r \in Requests, AcceptAny(r)
      PROVE  ScanInv'
  <2>1. shown' = shown
    BY <1>2, AcceptAlone
  <2>2. ASSUME NEW op, NEW args, Accept(r, op, args),
               op \in {"scan", "browse"} => \A a \in args : a.rel.path \in Seq(STRING)
        PROVE  Probes'
    <3>1. PICK u \in load.users, a \in args :
              req' = [req EXCEPT ![r] = [op |-> op, pc |-> "read", user |-> u, arg |-> a]]
      BY <2>2 DEF Accept
    <3>2. PICK new : new = [op |-> op, pc |-> "read", user |-> u, arg |-> a]
      OBVIOUS
    <3>3. \A q \in Requests : req'[q] = IF q = r THEN new ELSE req[q]
      BY <3>1, <3>2 DEF IndInv, Slots
    <3>4. new.op = op /\ new.arg = a /\ new.pc = "read"
      BY <3>2
    <3>5. ProbeOf(new)
      BY <2>2, <3>1, <3>4 DEF ProbeOf
    <3> QED
      BY <3>3, <3>5 DEF ScanInv, Probes
  <2>3. \A rel \in load.rels : rel.path \in Seq(STRING)
    BY PathAssumption DEF IndInv, World
  <2>4. ASSUME NEW op \in {"scan", "browse"},
               Accept(r, op, {[root |-> x, rel |-> rel] : x \in Roots \cap used, rel \in load.rels})
        PROVE  Probes'
    <3>1. \A a \in {[root |-> x, rel |-> rel] : x \in Roots \cap used, rel \in load.rels} : a.rel.path \in Seq(STRING)
      BY <2>3
    <3> QED
      BY <2>2, <2>4, <3>1
  <2>5. \A op, args : op \notin {"scan", "browse"} /\ Accept(r, op, args) => Probes'
    BY <2>2
  <2>6. Probes'
    BY <1>2, <2>4, <2>5 DEF AcceptAny
  <2> QED
    BY <1>1, <2>1, <2>6, FromScanStays DEF ScanInv
<1>3. ASSUME NEW r \in Requests, Serve(r)
      PROVE  ScanInv'
  <2>1. CASE HandleProxyNodeFiles(r) \/ HandleProxyNodeModelScan(r)
    <3>1. /\ shown' = shown /\ \A q \in Requests : q # r => req'[q] = req[q]
          /\ req'[r] # Idle => ProbeOf(req'[r])
      BY <2>1, ProxySends DEF ScanInv
    <3>2. Probes'
      BY <3>1 DEF ScanInv, Probes, ProbeOf
    <3> QED
      BY <1>1, <3>1, <3>2, FromScanStays DEF ScanInv
  <2>2. CASE AgentScan(r) \/ AgentFiles(r) \/ AgentRefuses(r)
    BY <1>1, <2>2, ScanAnswered
  <2>3. CASE shown' = shown /\ req[r].op \notin {"scan", "browse"}
    <3>1. \A q \in Requests : q # r => req'[q] = req[q]
      BY <1>3, ServeOwnSlot DEF IndInv
    <3>2. req'[r] # Idle => req'[r].op \notin {"scan", "browse"}
      BY <1>3, <2>3, ServeKeepsArg DEF KeepsArg
    <3>3. Probes'
      BY <3>1, <3>2 DEF ScanInv, Probes, ProbeOf
    <3> QED
      BY <1>1, <2>3, <3>3, FromScanStays DEF ScanInv
  <2> QED
    BY <1>3, <2>1, <2>2, <2>3, OtherServe
<1>4. CASE UNCHANGED vars \/ \E d \in Deployments : InstanceEnds(d)
  <2>1. shown' = shown /\ req' = req
    BY <1>4 DEF vars, InstanceEnds
  <2>2. Probes'
    BY <2>1 DEF ScanInv, Probes, ProbeOf
  <2> QED
    BY <1>1, <2>1, <2>2, FromScanStays DEF ScanInv
<1> QED
  BY <1>2, <1>3, <1>4 DEF Next

(* The invariant holds in every state that can be reached.                 *)
LEMMA ScanInvHolds == Spec => [](IndInv /\ SoundInv /\ ScanInv)
<1>1. Init => ScanInv
  BY DEF Init, Nothing, ScanInv, Probes, FromScan
<1>2. IndInv /\ SoundInv /\ ScanInv /\ [Next]_vars => ScanInv'
  BY ScanStep DEF SoundInv
<1> QED
  BY <1>1, <1>2, SoundInvHolds, PTL DEF Spec

(* ScanSound: whatever lies in the directory, and however requests         *)
(* overlap, the candidates shown to the user are sound.  The generic chat  *)
(* candidate is the last resort, one is selected exactly when it is alone, *)
(* what is deployable can be registered, and a quantization is a frequent  *)
(* type of the file's tensors, for every sequence of tensors.              *)
THEOREM ScansAreSound == Spec => []ScanSound
<1>1. IndInv /\ ScanInv => ScanSound
  <2> SUFFICES ASSUME IndInv, ScanInv, shown.kind = "scan"
               PROVE  ScanSound
    BY DEF ScanSound, GenericIsLastResort, DeployableIsRegistrable, QuantizationIsInFile
  <2>1. PICK abs, found : abs \in Seq(STRING) /\ found = shown.found /\ found = ScanModelPath(abs)
    BY DEF ScanInv, FromScan
  <2>2. LastResort(found) /\ \A c \in found : Registrable(c) /\ InFile(c)
    BY <2>1, ScanIsSound DEF IndInv
  <2>3. GenericIsLastResort
    BY <2>1, <2>2 DEF GenericIsLastResort, LastResort, Generic
  <2>4. DeployableIsRegistrable
    BY <2>1, <2>2 DEF DeployableIsRegistrable, Registrable
  <2>5. QuantizationIsInFile
    BY <2>1, <2>2 DEF QuantizationIsInFile, InFile, IsFrequent
  <2> QED
    BY <2>3, <2>4, <2>5 DEF ScanSound
<1> QED
  BY <1>1, ScanInvHolds, PTL

-----------------------------------------------------------------------------
(* From the scan to the instance.                                          *)

(* Names in paths, also those the scanner adds; paths without dots; and a  *)
(* path at which a scan finds a model of a task, deployable or not.        *)
PathNames == STRING \cup FileNames
DotFree(p) == \A i \in DOMAIN p : p[i] # ".."
Meta(c) == IF c.deployable THEN "yes" ELSE "no"
Runs(p, task, meta) == \E c \in FoundAt(p, task) : c.deployable <=> meta = "yes"

(* What a scan under way, an answer, the wizard, the request it sends, a   *)
(* location, a start and an instance know of the path they are about.  A   *)
(* root that is gone does not come back under its ID, and a model that is  *)
(* gone neither.                                                           *)
SameRoot(x, under) == x \in Roots \cap used /\ (roots[x] # NoRow => roots[x].path = under)
ScanKnows(v) == v.arg.root \in Roots \cap used /\ (v.pc = "write" => SameRoot(v.arg.root, v.saw))
ShownKnows ==
    shown.kind = "scan" => /\ SameRoot(shown.root, shown.under) /\ shown.under \in Seq(STRING)
                           /\ IsPrefix(shown.under, shown.abs) /\ DotFree(shown.abs)
WizardKnows(a) ==
    /\ SameRoot(a.root, a.under) /\ a.under \in Seq(STRING)
    /\ a.cand.path \in Seq(PathNames) /\ DotFree(a.cand.path) /\ IsPrefix(a.under, a.cand.path)
    /\ Runs(a.cand.path, a.cand.task, Meta(a.cand))
Fits(under, rel, task, meta) ==
    /\ under \in Seq(STRING) /\ rel \in Seq(PathNames) /\ DotFree(under \o rel) /\ Runs(under \o rel, task, meta)
Metas == {"none", "yes", "no"}
CreateKnows(v) ==
    /\ v.arg.meta \in Metas /\ v.arg.artifact \in Artifacts \cap used
    /\ v.arg.meta # "none" /\ artifacts[v.arg.artifact] # NoRow =>
         IF v.pc = "read"
         THEN /\ v.arg.by = "root" /\ v.arg.root \in Roots \cap used
              /\ roots[v.arg.root] # NoRow =>
                   Fits(roots[v.arg.root].path, v.arg.rel.path, artifacts[v.arg.artifact].task, v.arg.meta)
         ELSE Runs(v.saw.abs, artifacts[v.arg.artifact].task, v.arg.meta)
RowKnows(row, task) == row.meta \in Metas /\ (row.meta # "none" => Runs(row.abs, task, row.meta))
RunsFrom(s) ==
    /\ RowKnows(s.row, s.task) /\ s.again \in {"not yet", "gone", "there"}
    /\ s.again = "there" => s.row.meta # "no"
StartKnows(v) == v.pc = "write" => RunsFrom(v.saw)
Knows(v) ==
    /\ v.op \in {"scan", "browse"} => ScanKnows(v)
    /\ v.op = "wizard" => WizardKnows(v.arg)
    /\ v.op = "location-create" => CreateKnows(v)
    /\ v.op = "start" => StartKnows(v)
SiteKnows(row) == RowKnows(row, artifacts[row.artifact].task)
InstanceKnows(row) == row.state = "active" => RunsFrom(row.from) /\ row.from.again # "not yet"
Knowing == \A r \in Requests : req[r] # Idle => Knows(req[r])
Sites == \A l \in Locations : locations[l] # NoRow => SiteKnows(locations[l])
Instances == \A d \in Deployments : deployments[d] # NoRow => InstanceKnows(deployments[d])
WayInv == ShownKnows /\ Knowing /\ Sites /\ Instances
DeployInv == AsScanned => WayInv

(* A clean absolute path has no dots.                                      *)
LEMMA CleanHasNoDots ==
    ASSUME NEW Name, NEW p \in Seq(Name)
    PROVE  DotFree(CleanAbs(p))
<1>1. PICK h : /\ h \in [0..Len(p) -> Seq(Name)] /\ h[0] = <<>> /\ CleanAbs(p) = h[Len(p)]
               /\ \A k \in 1..Len(p) : h[k] = CleanAbsStep(h[k - 1], p[k])
  BY CleanAbsAlong
<1>2. PICK n \in Nat : n = Len(p) /\ \A k \in 1..n : p[k] \in Name
  OBVIOUS
<1> DEFINE S == {k \in 0..n : DotFree(h[k])}
<1>3. 0 \in S
  BY <1>1, <1>2 DEF DotFree
<1>4. ASSUME NEW k \in 1..n, k - 1 \in S PROVE k \in S
  <2>1. PICK acc, c : /\ acc = h[k - 1] /\ c = p[k] /\ acc \in Seq(Name) /\ c \in Name /\ DotFree(acc)
                      /\ h[k] = CleanAbsStep(acc, c) /\ k \in 0..n
    BY <1>1, <1>2, <1>4
  <2>2. CASE c # ".."
    <3>1. \A i \in DOMAIN Append(acc, c) : Append(acc, c)[i] # ".."
      BY <2>1, <2>2 DEF DotFree
    <3> QED
      BY <2>1, <2>2, <3>1 DEF CleanAbsStep, DotFree
  <2>3. CASE c = ".." /\ acc = <<>>
    BY <2>1, <2>3 DEF CleanAbsStep
  <2>4. CASE c = ".." /\ acc # <<>>
    <3>1. Len(acc) \in Nat /\ Len(acc) >= 1
      BY <2>1, <2>4
    <3>2. Front(acc) = [i \in 1..(Len(acc) - 1) |-> acc[i]]
      BY <2>1, <3>1 DEF Front
    <3>3. \A i \in 1..(Len(acc) - 1) : acc[i] # ".."
      BY <2>1, <3>1 DEF DotFree
    <3>4. DotFree(Front(acc))
      BY <3>2, <3>3 DEF DotFree
    <3> QED
      BY <2>1, <2>4, <3>4 DEF CleanAbsStep
  <2> QED
    BY <2>2, <2>3, <2>4
<1>5. 0..n \subseteq S
  <2>1. \A k \in 1..n : k - 1 \in S => k \in S
    BY <1>4
  <2> HIDE DEF S
  <2> QED
    BY <1>3, <2>1, AllPositions
<1> QED
  BY <1>1, <1>2, <1>5

(* A path without dots is clean already.                                   *)
LEMMA CleanAlready ==
    ASSUME NEW Name, NEW p \in Seq(Name), DotFree(p)
    PROVE  CleanAbs(p) = p /\ Clean(p) = p
<1>1. ASSUME NEW h, h \in [0..Len(p) -> Seq(Name)], h[0] = <<>>, \A k \in 1..Len(p) : h[k] = Append(h[k - 1], p[k])
      PROVE  h[Len(p)] = p
  <2>1. PICK n \in Nat : n = Len(p) /\ \A k \in 1..n : p[k] \in Name
    OBVIOUS
  <2> DEFINE S == {k \in 0..n : Len(h[k]) = k /\ \A i \in 1..k : h[k][i] = p[i]}
  <2>2. 0 \in S
    BY <1>1, <2>1
  <2>3. ASSUME NEW k \in 1..n, k - 1 \in S PROVE k \in S
    <3>1. Len(h[k - 1]) = k - 1 /\ \A i \in 1..(k - 1) : h[k - 1][i] = p[i]
      BY <2>3
    <3> HIDE DEF S
    <3>2. k - 1 \in 0..n /\ k \in 0..n /\ k \in 1..Len(p) /\ p[k] \in Name
      BY <2>1
    <3>3. h[k - 1] \in Seq(Name) /\ h[k] = Append(h[k - 1], p[k])
      BY <1>1, <2>1, <3>2
    <3>4. PICK acc, c : acc = h[k - 1] /\ c = p[k]
      OBVIOUS
    <3>5. acc \in Seq(Name) /\ c \in Name /\ h[k] = Append(acc, c) /\ Len(acc) = k - 1
      BY <3>1, <3>2, <3>3, <3>4
    <3>6. Len(h[k]) = k
      BY <3>5
    <3>7. \A i \in 1..k : h[k][i] = p[i]
      BY <3>1, <3>4, <3>5
    <3> QED
      BY <3>2, <3>6, <3>7 DEF S
  <2>4. n \in S
    <3>1. \A k \in 1..n : k - 1 \in S => k \in S
      BY <2>3
    <3> HIDE DEF S
    <3>2. 0..n \subseteq S
      BY <2>2, <3>1, AllPositions
    <3> QED
      BY <3>2
  <2>5. PICK e : e = h[n] /\ e \in Seq(Name) /\ Len(e) = Len(p) /\ \A i \in 1..Len(p) : e[i] = p[i]
    BY <1>1, <2>1, <2>4
  <2>6. e = p
    BY <2>5
  <2> QED
    BY <2>1, <2>5, <2>6
<1>2. \A k \in 1..Len(p) : p[k] # ".."
  BY DEF DotFree
<1>3. CleanAbs(p) = p
  <2>1. PICK h : /\ h \in [0..Len(p) -> Seq(Name)] /\ h[0] = <<>> /\ CleanAbs(p) = h[Len(p)]
                 /\ \A k \in 1..Len(p) : h[k] = CleanAbsStep(h[k - 1], p[k])
    BY CleanAbsAlong
  <2>2. \A k \in 1..Len(p) : h[k] = Append(h[k - 1], p[k])
    BY <1>2, <2>1 DEF CleanAbsStep
  <2> QED
    BY <1>1, <2>1, <2>2
<1>4. Clean(p) = p
  <2>1. PICK h : /\ h \in [0..Len(p) -> Seq(Name)] /\ h[0] = <<>> /\ Clean(p) = h[Len(p)]
                 /\ \A k \in 1..Len(p) : h[k] = CleanStep(h[k - 1], p[k])
    BY CleanAlong
  <2>2. \A k \in 1..Len(p) : h[k] = Append(h[k - 1], p[k])
    BY <1>2, <2>1 DEF CleanStep
  <2> QED
    BY <1>1, <2>1, <2>2
<1> QED
  BY <1>3, <1>4

(* A path below another is that path and the rest.                         *)
LEMMA RestOfPath ==
    ASSUME NEW Name, NEW u \in Seq(Name), NEW p \in Seq(Name), IsPrefix(u, p)
    PROVE  /\ SubSeq(p, Len(u) + 1, Len(p)) \in Seq(Name)
           /\ u \o SubSeq(p, Len(u) + 1, Len(p)) = p
<1>1. PICK m \in Nat, n \in Nat : m = Len(u) /\ n = Len(p)
  OBVIOUS
<1>2. m <= n /\ SubSeq(u, 1, m) = SubSeq(p, 1, m)
  BY <1>1 DEF IsPrefix
<1>3. \A i \in 1..m : u[i] = p[i]
  <2> SUFFICES ASSUME NEW i \in 1..m PROVE u[i] = p[i]
    OBVIOUS
  <2>1. SubSeq(u, 1, m)[i] = u[i] /\ SubSeq(p, 1, m)[i] = p[i]
    BY <1>1, <1>2
  <2> QED
    BY <1>2, <2>1
<1>4. PICK rest : rest = SubSeq(p, m + 1, n)
  OBVIOUS
<1>5. rest \in Seq(Name) /\ Len(rest) = n - m /\ \A i \in 1..(n - m) : rest[i] = p[m + i]
  <2>1. rest = [i \in 1..(n - m) |-> p[m + i]]
    BY <1>1, <1>2, <1>4
  <2>2. n - m \in Nat /\ \A i \in 1..(n - m) : p[m + i] \in Name
    BY <1>1, <1>2
  <2> QED
    BY <2>1, <2>2
<1>6. PICK e : e = u \o rest
  OBVIOUS
<1>7. e \in Seq(Name)
  BY <1>5, <1>6
<1>8. Len(e) = m + Len(rest)
  <2>1. rest \in Seq(Name) /\ u \in Seq(Name)
    BY <1>5
  <2>2. Len(u \o rest) = Len(u) + Len(rest)
    BY <2>1
  <2> QED
    BY <1>1, <1>6, <2>2
<1>9. Len(e) = Len(p)
  BY <1>1, <1>2, <1>5, <1>8
<1>10. \A i \in 1..Len(p) : e[i] = p[i]
  <2> SUFFICES ASSUME NEW i \in 1..n PROVE e[i] = p[i]
    BY <1>1
  <2>1. CASE i <= m
    <3>1. i \in 1..m /\ i \in 1..Len(u)
      BY <1>1, <2>1
    <3>2. e[i] = u[i]
      BY <1>5, <1>6, <3>1
    <3> QED
      BY <1>3, <3>1, <3>2
  <2>2. CASE i > m
    <3>1. i - m \in 1..(n - m) /\ m + (i - m) = i
      BY <1>1, <2>2
    <3>2. e[i] = rest[i - m]
      BY <1>1, <1>5, <1>6, <2>2, <3>1
    <3> QED
      BY <1>5, <3>1, <3>2
  <2>3. i \in Int /\ m \in Int
    BY <1>1
  <2> QED
    BY <2>1, <2>2, <2>3
<1>11. e = p
  BY <1>7, <1>9, <1>10
<1> QED
  BY <1>1, <1>4, <1>5, <1>6, <1>11

(* One path is a prefix of another, name by name.                          *)
LEMMA PrefixByNames ==
    ASSUME NEW Name, NEW u \in Seq(Name), NEW p \in Seq(Name)
    PROVE  IsPrefix(u, p) <=> Len(u) <= Len(p) /\ \A i \in 1..Len(u) : u[i] = p[i]
<1>1. PICK m \in Nat, n \in Nat : m = Len(u) /\ n = Len(p)
  OBVIOUS
<1>2. PICK a : a = SubSeq(u, 1, m) /\ DOMAIN a = 1..m /\ \A i \in 1..m : a[i] = u[i]
  <2>1. SubSeq(u, 1, m) = [i \in 1..m |-> u[i]]
    BY <1>1
  <2> QED
    BY <2>1
<1>3. CASE m <= n
  <2>1. SubSeq(p, 1, m) = [i \in 1..m |-> p[i]]
    BY <1>1, <1>3
  <2>2. PICK b : b = SubSeq(p, 1, m) /\ b = [i \in 1..m |-> p[i]]
    BY <2>1
  <2>3. a = [i \in 1..m |-> u[i]]
    BY <1>1, <1>2
  <2>4. a = b <=> \A i \in 1..m : u[i] = p[i]
    BY <2>2, <2>3
  <2> QED
    BY <1>1, <1>2, <1>3, <2>2, <2>4 DEF IsPrefix
<1>4. CASE ~(m <= n)
  BY <1>1, <1>4 DEF IsPrefix
<1> QED
  BY <1>3, <1>4

(* Of two prefixes of a path, one is a prefix of the other.                *)
LEMMA PrefixesOfOne ==
    ASSUME NEW Name, NEW k \in Seq(Name), NEW l \in Seq(Name), NEW p \in Seq(Name), IsPrefix(k, p), IsPrefix(l, p)
    PROVE  IsPrefix(k, l) \/ IsPrefix(l, k)
<1>1. PICK m \in Nat, n \in Nat : m = Len(k) /\ n = Len(l)
  OBVIOUS
<1>2. \A i \in 1..m : k[i] = p[i]
  BY <1>1, PrefixByNames
<1>3. \A i \in 1..n : l[i] = p[i]
  BY <1>1, PrefixByNames
<1>4. CASE m <= n
  <2>1. \A i \in 1..m : k[i] = l[i]
    BY <1>2, <1>3, <1>4
  <2> QED
    BY <1>1, <1>4, <2>1, PrefixByNames
<1>5. CASE n <= m
  <2>1. \A i \in 1..n : l[i] = k[i]
    BY <1>2, <1>3, <1>5
  <2> QED
    BY <1>1, <1>5, <2>1, PrefixByNames
<1>6. m <= n \/ n <= m
  OBVIOUS
<1> QED
  BY <1>4, <1>5, <1>6

(* The names of paths: STRING and those the scanner adds, none of them "..". *)
LEMMA NamesInPaths ==
    /\ Seq(STRING) \subseteq Seq(PathNames) /\ FileNames \subseteq PathNames
    /\ GgufNames \subseteq FileNames /\ OnnxNames \subseteq FileNames /\ ".." \notin GgufNames \cup OnnxNames
<1>1. STRING \subseteq PathNames /\ FileNames \subseteq PathNames
  BY DEF PathNames
<1>2. GgufNames \subseteq FileNames /\ OnnxNames \subseteq FileNames
  BY DEF FileNames
<1>3. ".." \notin GgufNames \cup OnnxNames
  BY DEF GgufNames, OnnxNames
<1>4. \A p \in Seq(STRING) : p \in Seq(PathNames)
  <2> SUFFICES ASSUME NEW p \in Seq(STRING) PROVE p \in Seq(PathNames)
    OBVIOUS
  <2>1. p = [i \in 1..Len(p) |-> p[i]] /\ Len(p) \in Nat /\ \A i \in 1..Len(p) : p[i] \in STRING
    OBVIOUS
  <2>2. \A i \in 1..Len(p) : p[i] \in PathNames
    BY <1>1, <2>1
  <2>3. [i \in 1..Len(p) |-> p[i]] \in Seq(PathNames)
    BY <2>1, <2>2
  <2> QED
    BY <2>1, <2>3
<1> QED
  BY <1>1, <1>2, <1>3, <1>4

(* A prefix of a prefix is a prefix.                                       *)
LEMMA PrefixOfPrefix ==
    ASSUME NEW k \in Seq(STRING), NEW l \in Seq(STRING), NEW p \in Seq(PathNames), IsPrefix(k, l), IsPrefix(l, p)
    PROVE  IsPrefix(k, p)
<1>1. k \in Seq(PathNames) /\ l \in Seq(PathNames)
  BY NamesInPaths
<1>2. Len(k) <= Len(l) /\ \A i \in 1..Len(k) : k[i] = l[i]
  BY <1>1, PrefixByNames
<1>3. Len(l) <= Len(p) /\ \A i \in 1..Len(l) : l[i] = p[i]
  BY <1>1, PrefixByNames
<1>4. Len(k) \in Nat /\ Len(l) \in Nat /\ Len(p) \in Nat
  BY <1>1
<1>5. Len(k) <= Len(p) /\ \A i \in 1..Len(k) : k[i] = p[i]
  BY <1>2, <1>3, <1>4
<1> QED
  BY <1>1, <1>5, PrefixByNames

(* The path of a name in a directory.                                      *)
LEMMA NameBelow ==
    ASSUME NEW Name, NEW abs \in Seq(Name), NEW n \in Name, NEW p, p = Append(abs, n)
    PROVE  /\ p \in Seq(Name) /\ Len(p) = Len(abs) + 1 /\ p[Len(abs) + 1] = n /\ p # <<>>
           /\ \A i \in 1..Len(abs) : p[i] = abs[i]
           /\ IsPrefix(abs, p)
           /\ DotFree(abs) /\ n # ".." => DotFree(p)
<1>1. PICK m \in Nat : m = Len(abs)
  OBVIOUS
<1>2. p \in Seq(Name) /\ Len(p) = m + 1 /\ p[m + 1] = n /\ \A i \in 1..m : p[i] = abs[i]
  BY <1>1
<1>3. p # <<>>
  BY <1>2
<1>4. IsPrefix(abs, p)
  <2>1. Len(abs) <= Len(p) /\ \A i \in 1..Len(abs) : abs[i] = p[i]
    BY <1>1, <1>2
  <2> QED
    BY <1>2, <2>1, PrefixByNames
<1>5. ASSUME DotFree(abs), n # ".." PROVE DotFree(p)
  BY <1>5, <1>1, <1>2 DEF DotFree
<1> QED
  BY <1>1, <1>2, <1>3, <1>4, <1>5

(* Its directory and its last name.                                        *)
LEMMA LastName ==
    ASSUME NEW Name, NEW abs \in Seq(Name), NEW n \in Name
    PROVE  Front(Append(abs, n)) = abs /\ Last(Append(abs, n)) = n
<1>1. PICK p : p = Append(abs, n)
  OBVIOUS
<1>2. PICK m \in Nat : m = Len(abs)
  OBVIOUS
<1>3. p \in Seq(Name) /\ Len(p) = m + 1 /\ p[m + 1] = n /\ \A i \in 1..m : p[i] = abs[i]
  BY <1>1, <1>2
<1>4. Front(p) = abs
  <2>1. Front(p) = SubSeq(p, 1, m)
    BY <1>3 DEF Front
  <2>2. SubSeq(p, 1, m) = [i \in 1..m |-> p[i]]
    BY <1>3
  <2>3. [i \in 1..m |-> p[i]] = [i \in 1..m |-> abs[i]]
    BY <1>3
  <2>4. abs = [i \in 1..m |-> abs[i]]
    BY <1>2
  <2> QED
    BY <2>1, <2>2, <2>3, <2>4
<1>5. Last(p) = n
  BY <1>3 DEF Last
<1> QED
  BY <1>1, <1>4, <1>5

(* A name after two paths.                                                 *)
LEMMA NameAfter ==
    ASSUME NEW Name, NEW a \in Seq(Name), NEW b \in Seq(Name), NEW n \in Name
    PROVE  a \o Append(b, n) = Append(a \o b, n)
<1>1. PICK j \in Nat, k \in Nat : j = Len(a) /\ k = Len(b)
  OBVIOUS
<1>2. PICK c, d : c = Append(b, n) /\ d = a \o b
  OBVIOUS
<1>3. c \in Seq(Name) /\ d \in Seq(Name)
  BY <1>2
<1>4. Len(c) = k + 1 /\ c[k + 1] = n /\ \A i \in 1..k : c[i] = b[i]
  BY <1>1, <1>2
<1>5. Len(d) = j + k /\ (\A i \in 1..j : d[i] = a[i]) /\ (\A i \in 1..k : d[j + i] = b[i])
  BY <1>1, <1>2
<1>6. PICK e, f : e = a \o c /\ f = Append(d, n)
  OBVIOUS
<1>7. e \in Seq(Name) /\ f \in Seq(Name)
  BY <1>3, <1>6
<1>8. Len(e) = j + k + 1 /\ (\A i \in 1..j : e[i] = a[i]) /\ (\A i \in 1..(k + 1) : e[j + i] = c[i])
  <2>1. Len(a \o c) = Len(a) + Len(c)
    BY <1>3
  <2>2. \A i \in 1..Len(a) : (a \o c)[i] = a[i]
    BY <1>3
  <2>3. \A i \in 1..Len(c) : (a \o c)[Len(a) + i] = c[i]
    BY <1>3
  <2> QED
    BY <1>1, <1>4, <1>6, <2>1, <2>2, <2>3
<1>9. Len(f) = j + k + 1 /\ f[j + k + 1] = n /\ \A i \in 1..(j + k) : f[i] = d[i]
  BY <1>3, <1>5, <1>6
<1>10. \A i \in 1..Len(f) : e[i] = f[i]
  <2> SUFFICES ASSUME NEW i \in 1..(j + k + 1) PROVE e[i] = f[i]
    BY <1>9
  <2>1. CASE i \in 1..j
    BY <1>5, <1>8, <1>9, <2>1
  <2>2. CASE i - j \in 1..k
    <3>1. i = j + (i - j) /\ i - j \in 1..(k + 1) /\ i \in 1..(j + k)
      BY <2>2
    <3>2. e[i] = c[i - j] /\ f[i] = d[i] /\ d[i] = b[i - j] /\ c[i - j] = b[i - j]
      BY <1>4, <1>5, <1>8, <1>9, <2>2, <3>1
    <3> QED
      BY <3>2
  <2>3. CASE i = j + k + 1
    <3>1. i = j + (k + 1) /\ k + 1 \in 1..(k + 1)
      BY <2>3
    <3> QED
      BY <1>4, <1>8, <1>9, <2>3, <3>1
  <2> QED
    BY <2>1, <2>2, <2>3
<1>11. e = f
  <2>1. e = [i \in 1..Len(e) |-> e[i]] /\ f = [i \in 1..Len(f) |-> f[i]]
    BY <1>7
  <2>2. Len(e) = Len(f)
    BY <1>8, <1>9
  <2> QED
    BY ONLY <1>10, <2>1, <2>2
<1> QED
  BY <1>2, <1>6, <1>11

(* A file of the model's directory, by whatever path that is reached.      *)
LEMMA FileReached ==
    ASSUME NEW abs \in Seq(STRING), Real(abs) = ModelDir, NEW n \in GgufNames \cup OnnxNames
    PROVE  Real(Append(abs, n)) = Append(ModelDir, n)
<1>1. n \in PathNames /\ abs \in Seq(PathNames) /\ ModelDir \in Seq(PathNames)
  BY NamesInPaths, PathAssumption
<1>2. PICK p : p = Append(abs, n)
  OBVIOUS
<1>3. /\ p \in Seq(PathNames) /\ Len(p) = Len(abs) + 1 /\ p[Len(abs) + 1] = n
      /\ \A i \in 1..Len(abs) : p[i] = abs[i]
  BY <1>1, <1>2, NameBelow
<1>4. PICK m \in Nat : m = Len(abs)
  OBVIOUS
<1>5. \A l \in DOMAIN Links : l \in Seq(PathNames) /\ Links[l] \in Seq(PathNames)
  BY NamesInPaths, LinkAssumption
<1>6. ASSUME NEW k \in DOMAIN Links, NEW l \in DOMAIN Links, IsPrefix(k, p), IsPrefix(l, p)
      PROVE  k = l
  <2>1. IsPrefix(k, l) \/ IsPrefix(l, k)
    <3>1. k \in Seq(PathNames) /\ l \in Seq(PathNames)
      BY <1>5
    <3> QED
      BY <1>3, <1>6, <3>1, PrefixesOfOne
  <2> QED
    BY <2>1, LinkAssumption
<1>7. ASSUME NEW l \in DOMAIN Links, IsPrefix(l, p), ~IsPrefix(l, abs)
      PROVE  IsPrefix(abs, l)
  <2>1. l \in Seq(PathNames) /\ Len(l) \in Nat
    BY <1>5
  <2>2. Len(l) <= m + 1 /\ \A i \in 1..Len(l) : l[i] = p[i]
    BY <1>3, <1>4, <1>7, <2>1, PrefixByNames
  <2>3. CASE Len(l) <= m
    <3>1. \A i \in 1..Len(l) : l[i] = abs[i]
      BY <1>3, <1>4, <2>1, <2>2, <2>3
    <3>2. IsPrefix(l, abs)
      BY <1>1, <1>4, <2>1, <2>3, <3>1, PrefixByNames
    <3> QED
      BY <1>7, <3>2
  <2>4. CASE Len(l) = m + 1
    <3>1. \A i \in 1..m : abs[i] = l[i]
      BY <1>3, <1>4, <2>2, <2>4
    <3> QED
      BY <1>1, <1>4, <2>1, <2>4, <3>1, PrefixByNames
  <2>5. Len(l) <= m \/ Len(l) = m + 1
    BY <2>1, <2>2
  <2> QED
    BY <2>3, <2>4, <2>5
<1>8. CASE \E l \in DOMAIN Links : IsPrefix(l, abs)
  <2>1. PICK l : l \in DOMAIN Links /\ IsPrefix(l, abs) /\ Real(abs) = Links[l] \o SubSeq(abs, Len(l) + 1, Len(abs))
    BY <1>8, Zenon DEF Real
  <2>2. l \in Seq(PathNames) /\ Len(l) \in Nat /\ Links[l] \in Seq(PathNames)
    BY <1>5, <2>1
  <2>3. Len(l) <= m /\ \A i \in 1..Len(l) : l[i] = abs[i]
    BY <1>1, <1>4, <2>1, <2>2, PrefixByNames
  <2>4. IsPrefix(l, p)
    <3>1. Len(l) <= Len(p) /\ \A i \in 1..Len(l) : l[i] = p[i]
      BY <1>3, <1>4, <2>2, <2>3
    <3> QED
      BY <1>3, <2>2, <3>1, PrefixByNames
  <2>5. PICK k : k \in DOMAIN Links /\ IsPrefix(k, p) /\ Real(p) = Links[k] \o SubSeq(p, Len(k) + 1, Len(p))
    BY <2>1, <2>4, Zenon DEF Real
  <2>6. k = l
    BY <1>6, <2>1, <2>4, <2>5
  <2>7. PICK s, t, target : s = SubSeq(abs, Len(l) + 1, Len(abs)) /\ t = SubSeq(p, Len(l) + 1, Len(p)) /\ target = Links[l]
    OBVIOUS
  <2>8. PICK j \in Nat : j = Len(l)
    BY <2>2
  <2>9. s = [i \in 1..(m - j) |-> abs[j + i]] /\ s \in Seq(PathNames) /\ Len(s) = m - j
    <3>1. s = [i \in 1..(m - j) |-> abs[j + i]]
      BY <1>1, <1>4, <2>3, <2>7, <2>8
    <3>2. \A i \in 1..(m - j) : abs[j + i] \in PathNames
      BY <1>1, <1>4, <2>8
    <3>3. m - j \in Nat
      BY <2>3, <2>8
    <3> QED
      BY <3>1, <3>2, <3>3
  <2>10. t = [i \in 1..(m + 1 - j) |-> p[j + i]]
    BY <1>3, <1>4, <2>3, <2>7, <2>8
  <2>11. t = Append(s, n)
    <3>1. Append(s, n) = [i \in 1..(m - j + 1) |-> IF i = m - j + 1 THEN n ELSE s[i]]
      BY <1>1, <2>3, <2>8, <2>9
    <3>2. \A i \in 1..(m - j + 1) : p[j + i] = IF i = m - j + 1 THEN n ELSE s[i]
      BY <1>3, <1>4, <2>3, <2>8, <2>9
    <3>3. m + 1 - j = m - j + 1
      BY <2>8
    <3> QED
      BY <2>10, <3>1, <3>2, <3>3
  <2>12. target \o Append(s, n) = Append(target \o s, n)
    <3>1. target \in Seq(PathNames) /\ s \in Seq(PathNames)
      BY <2>2, <2>7, <2>9
    <3> QED
      BY <1>1, <3>1, NameAfter
  <2> QED
    BY <1>2, <2>1, <2>5, <2>6, <2>7, <2>11, <2>12
<1>9. CASE ~\E l \in DOMAIN Links : IsPrefix(l, abs)
  <2>1. abs = ModelDir
    BY <1>9 DEF Real
  <2>2. ~\E l \in DOMAIN Links : IsPrefix(l, p)
    BY <1>7, <1>9, <2>1, LinkAssumption
  <2> QED
    BY <1>2, <2>1, <2>2 DEF Real
<1> QED
  BY <1>8, <1>9

(* A GGUF file is deployable as a chat model, in its directory and alone.  *)
LEMMA GgufRuns ==
    ASSUME NEW path, NEW d, Last(path) \in GgufNames
    PROVE  \E c \in scanSingleFile(path, d) : c.path = path /\ c.deployable /\ c.task = "chat"
<1>1. PICK n : n = Last(path)
  OBVIOUS
<1>2. PICK b, def : def = Defaults.gguf /\ b = applyDefaults(path, "file", extractGGUFMetadata(n, d.headers[n]), def)
  OBVIOUS
<1>3. PICK c : c = [b EXCEPT !.auto = TRUE] /\ scanSingleFile(path, d) = {c}
  BY <1>1, <1>2 DEF scanSingleFile
<1>4. def.deployable /\ def.task = "chat"
  <2>1. {"llamacpp"} # {}
    OBVIOUS
  <2> QED
    BY <1>2, <2>1 DEF Defaults, Default
<1>5. PICK m : b = applyDefaults(path, "file", m, def)
  BY <1>2
<1>6. c.path = path /\ c.deployable = def.deployable /\ c.task = def.task
  BY <1>3, <1>5 DEF applyDefaults
<1> QED
  BY <1>3, <1>4, <1>6

(* An ONNX file is not deployable, and of no task that is known.           *)
LEMMA OnnxFound ==
    ASSUME NEW path, NEW d, Last(path) \in OnnxNames
    PROVE  \E c \in scanSingleFile(path, d) : c.path = path /\ ~c.deployable /\ c.task = "unknown"
<1>1. PICK n : n = Last(path) /\ n \notin GgufNames
  BY DEF OnnxNames, GgufNames
<1>2. PICK b, def : def = Default("custom", "unknown", {}, "", {}) /\ b = applyDefaults(path, "file", NoMetadata, def)
  OBVIOUS
<1>3. PICK c : c = [b EXCEPT !.auto = TRUE] /\ scanSingleFile(path, d) = {c}
  BY <1>1, <1>2, Zenon DEF scanSingleFile
<1>4. ~def.deployable /\ def.task = "unknown"
  <2>1. PICK mode : def = Default("custom", "unknown", {}, mode, {})
    BY <1>2
  <2> QED
    BY <2>1 DEF Default
<1>5. PICK m : b = applyDefaults(path, "file", m, def)
  BY <1>2
<1>6. c.path = path /\ c.deployable = def.deployable /\ c.task = def.task
  BY <1>3, <1>5 DEF applyDefaults
<1> QED
  BY <1>3, <1>4, <1>6

(* The path of a file in the model's directory is one of a file.           *)
LEMMA FileIsFile ==
    ASSUME World, NEW abs \in Seq(STRING), Real(abs) = ModelDir, NEW n \in (GgufNames \cup OnnxNames) \cap dir.files
    PROVE  ScanModelPath(Append(abs, n)) = scanSingleFile(Append(abs, n), dir)
<1>1. PICK q : q = Append(ModelDir, n) /\ Real(Append(abs, n)) = q
  BY FileReached
<1>2. n \in PathNames /\ ModelDir \in Seq(PathNames)
  BY NamesInPaths, PathAssumption
<1>3. Len(q) = Len(ModelDir) + 1 /\ Last(q) = n /\ Front(q) = ModelDir /\ q # <<>>
  <2>1. q = Append(ModelDir, n)
    BY <1>1
  <2>2. Len(q) = Len(ModelDir) + 1 /\ q[Len(ModelDir) + 1] = n
    BY <1>2, <2>1, NameBelow
  <2>4. q # <<>> /\ Len(q) \in Nat
    BY <1>2, <2>2
  <2>3. Front(q) = ModelDir
    <3>1. Front(Append(ModelDir, n)) = ModelDir
      BY <1>2, LastName
    <3> QED
      BY <2>1, <3>1
  <2> QED
    BY <2>2, <2>3, <2>4 DEF Last
<1>4. q # ModelDir
  BY <1>2, <1>3
<1>5. q \notin PlainDirs
  BY <1>3, LinkAssumption
<1>6. Stat(Append(abs, n)) = "file"
  BY <1>1, <1>3, <1>4, <1>5 DEF Stat
<1> QED
  BY <1>6 DEF ScanModelPath

(* Where the candidates of a scan lie, and that they are found again by a  *)
(* scan of their own path.                                                 *)
Below(p, abs) == p \in Seq(PathNames) /\ DotFree(p) /\ IsPrefix(abs, p)
(* A name in a directory.                                                  *)
LEMMA InDirectory ==
    ASSUME NEW abs \in Seq(PathNames), DotFree(abs), NEW n \in PathNames, n # "..", NEW p, p = Append(abs, n)
    PROVE  Below(p, abs) /\ Last(p) = n
<1>1. p \in Seq(PathNames)
  BY NameBelow
<1>2. Last(p) = n
  <2>1. Len(p) = Len(abs) + 1 /\ p[Len(abs) + 1] = n
    BY NameBelow
  <2> QED
    BY <2>1 DEF Last
<1>3. IsPrefix(abs, p)
  BY NameBelow
<1>4. DotFree(p)
  BY NameBelow
<1> QED
  BY <1>1, <1>2, <1>3, <1>4 DEF Below

(* The lemma.                                                              *)
LEMMA ScanRuns ==
    ASSUME World, NEW abs \in Seq(STRING), DotFree(abs), NEW c \in ScanModelPath(abs)
    PROVE  Below(c.path, abs) /\ Runs(c.path, c.task, Meta(c))
<1>1. abs \in Seq(PathNames)
  BY NamesInPaths
<1>2. ASSUME c.path = abs
      PROVE  Below(c.path, abs) /\ Runs(c.path, c.task, Meta(c))
  <2>1. IsPrefix(abs, abs)
    <3>1. Len(abs) <= Len(abs) /\ \A i \in 1..Len(abs) : abs[i] = abs[i]
      OBVIOUS
    <3> QED
      BY <3>1, PrefixByNames
  <2> QED
    BY <1>1, <1>2, <2>1 DEF Below, Runs, FoundAt, Meta
<1>3. ASSUME NEW d, c \in scanDirectory(abs, d), (d = dir /\ Real(abs) = ModelDir) \/ d.files = {}
      PROVE  Below(c.path, abs) /\ Runs(c.path, c.task, Meta(c))
  <2>1. PICK b \in Detected(abs, d) : Alike(b, c)
    BY <1>3, FromDetected DEF Deduplicated
  <2>2. IsCandidate(b, abs, d)
    BY <2>1, Candidates
  <2>3. \A s, t, m, e : /\ applyDefaults(s, t, m, e).path = s /\ applyDefaults(s, t, m, e).task = e.task
                        /\ applyDefaults(s, t, m, e).deployable = e.deployable
    BY DEF applyDefaults
  <2>4. CASE \E id \in DOMAIN Defaults \ {"gguf", "onnx"} : \E meta : b = applyDefaults(abs, "directory", meta, Defaults[id])
    <3>1. b.path = abs
      BY <2>3, <2>4
    <3> QED
      BY <1>2, <2>1, <3>1 DEF Alike
  <2>5. ASSUME NEW n \in GgufNames \cap d.files,
               b = applyDefaults(Append(abs, n), "file", extractGGUFMetadata(n, d.headers[n]), Defaults.gguf)
        PROVE  Below(c.path, abs) /\ Runs(c.path, c.task, Meta(c))
    <3>0. PICK p, m, e : p = Append(abs, n) /\ e = Defaults.gguf /\ b = applyDefaults(p, "file", m, e)
      BY <2>5
    <3>1. b.path = Append(abs, n) /\ b.task = e.task /\ b.deployable = e.deployable
      <4>1. b.path = p /\ b.task = e.task /\ b.deployable = e.deployable
        BY <3>0 DEF applyDefaults
      <4> QED
        BY <3>0, <4>1
    <3>2. e.task = "chat" /\ e.deployable
      <4>1. {"llamacpp"} # {}
        OBVIOUS
      <4> QED
        BY <3>0, <4>1 DEF Defaults, Default
    <3>3. c.path = Append(abs, n) /\ c.task = "chat" /\ c.deployable
      BY <2>1, <3>1, <3>2 DEF Alike
    <3>4. n \in PathNames /\ n # ".."
      BY NamesInPaths
    <3>5. Below(c.path, abs) /\ Last(c.path) = n
      BY <1>1, <3>3, <3>4, InDirectory
    <3>6. d = dir /\ Real(abs) = ModelDir /\ n \in GgufNames \cap dir.files
      BY <1>3, <2>5
    <3>7. ScanModelPath(c.path) = scanSingleFile(c.path, dir)
      BY <3>3, <3>6, FileIsFile
    <3>8. PICK at, on : at = c.path /\ on = dir
      OBVIOUS
    <3>9. \E g \in scanSingleFile(at, on) : g.path = at /\ g.deployable /\ g.task = "chat"
      BY <3>5, <3>8, GgufRuns
    <3> QED
      BY <3>3, <3>5, <3>7, <3>8, <3>9 DEF Runs, FoundAt, Meta
  <2>6. ASSUME NEW n \in OnnxNames \cap d.files, b = applyDefaults(Append(abs, n), "file", NoMetadata, Defaults.onnx)
        PROVE  Below(c.path, abs) /\ Runs(c.path, c.task, Meta(c))
    <3>0. PICK p, m, e : p = Append(abs, n) /\ e = Defaults.onnx /\ b = applyDefaults(p, "file", m, e)
      BY <2>6
    <3>1. b.path = Append(abs, n) /\ b.task = e.task /\ b.deployable = e.deployable
      <4>1. b.path = p /\ b.task = e.task /\ b.deployable = e.deployable
        BY <3>0 DEF applyDefaults
      <4> QED
        BY <3>0, <4>1
    <3>2. e.task = "unknown" /\ ~e.deployable
      BY <3>0 DEF Defaults, Default
    <3>3. c.path = Append(abs, n) /\ c.task = "unknown" /\ ~c.deployable
      BY <2>1, <3>1, <3>2 DEF Alike
    <3>4. n \in PathNames /\ n # ".."
      BY NamesInPaths
    <3>5. Below(c.path, abs) /\ Last(c.path) = n
      BY <1>1, <3>3, <3>4, InDirectory
    <3>6. d = dir /\ Real(abs) = ModelDir /\ n \in OnnxNames \cap dir.files
      BY <1>3, <2>6
    <3>7. ScanModelPath(c.path) = scanSingleFile(c.path, dir)
      BY <3>3, <3>6, FileIsFile
    <3>8. PICK at, on : at = c.path /\ on = dir
      OBVIOUS
    <3>9. \E g \in scanSingleFile(at, on) : g.path = at /\ ~g.deployable /\ g.task = "unknown"
      BY <3>5, <3>6, <3>8, OnnxFound
    <3> QED
      BY <3>3, <3>5, <3>7, <3>8, <3>9 DEF Runs, FoundAt, Meta
  <2> QED
    BY <2>2, <2>4, <2>5, <2>6 DEF IsCandidate
<1>4. CASE ScanModelPath(abs) = scanSingleFile(abs, dir)
  <2>1. PICK d : d = dir /\ c \in scanSingleFile(abs, d)
    BY <1>4
  <2>2. PICK e : scanSingleFile(abs, d) = {e} /\ e.path = abs
    BY FileScan, Zenon
  <2> QED
    BY <1>2, <2>1, <2>2
<1>5. EmptyDir.files = {}
  BY DEF EmptyDir, World, DirType
<1> QED
  BY <1>3, <1>4, <1>5 DEF ScanModelPath

(* A location that the wizard asked for lies where its candidate was.      *)
LEMMA ResolvesAsScanned ==
    ASSUME NEW x, NEW rel, NEW task, NEW meta, Fits(roots[x].path, rel.path, task, meta), NEW w \in Resolved(x, rel)
    PROVE  Runs(w.abs, task, meta)
<1>1. PICK u, q : u = roots[x].path /\ q = rel.path
  OBVIOUS
<1>2. u \in Seq(PathNames) /\ q \in Seq(PathNames) /\ DotFree(u \o q) /\ Runs(u \o q, task, meta)
  BY <1>1, NamesInPaths DEF Fits
<1>3. PICK p : p = u \o q /\ p \in Seq(PathNames)
  <2>1. u \o q \in Seq(PathNames)
    BY <1>2
  <2> QED
    BY <2>1
<1>4. DotFree(q)
  <2> SUFFICES ASSUME NEW i \in DOMAIN q PROVE q[i] # ".."
    BY DEF DotFree
  <2>1. i \in 1..Len(q) /\ Len(u) \in Nat /\ Len(q) \in Nat
    BY <1>2
  <2>2. (u \o q)[Len(u) + i] = q[i]
    BY <1>2, <2>1
  <2>3. Len(u \o q) = Len(u) + Len(q)
    BY <1>2
  <2>4. Len(u) + i \in 1..Len(p) /\ DOMAIN p = 1..Len(p)
    BY <1>3, <2>1, <2>3
  <2> QED
    BY <1>2, <1>3, <2>2, <2>4 DEF DotFree
<1>5. Clean(q) = q
  BY <1>2, <1>4, CleanAlready
<1>6. CleanAbs(p) = p
  BY <1>2, <1>3, CleanAlready
<1>7. w.abs = p
  <2>1. PICK abs : abs = CleanAbs(u \o Clean(q)) /\ w = [root |-> roots[x].path, abs |-> abs]
    BY <1>1 DEF Resolved
  <2>2. abs = p
    BY <1>3, <1>5, <1>6, <2>1
  <2> QED
    BY <2>1, <2>2
<1> QED
  BY <1>2, <1>3, <1>7

(* The path of a candidate in a request of the wizard.                     *)
LEMMA WizardFits ==
    ASSUME NEW a, WizardKnows(a)
    PROVE  Fits(a.under, SubSeq(a.cand.path, Len(a.under) + 1, Len(a.cand.path)), a.cand.task, Meta(a.cand))
<1>1. PICK u, p, task, meta : u = a.under /\ p = a.cand.path /\ task = a.cand.task /\ meta = Meta(a.cand)
  OBVIOUS
<1>2. /\ u \in Seq(STRING) /\ u \in Seq(PathNames) /\ p \in Seq(PathNames) /\ DotFree(p) /\ IsPrefix(u, p)
      /\ Runs(p, task, meta)
  BY <1>1, NamesInPaths DEF WizardKnows
<1>3. SubSeq(p, Len(u) + 1, Len(p)) \in Seq(PathNames) /\ u \o SubSeq(p, Len(u) + 1, Len(p)) = p
  BY <1>2, RestOfPath
<1> QED
  BY <1>1, <1>2, <1>3 DEF Fits

(* What the knowledge rests on: the paths of the roots and the tasks of    *)
(* the models stay, and no ID is used again.                               *)
Steady ==
    /\ used \subseteq used'
    /\ \A x \in Roots \cap used : roots'[x] # NoRow => roots[x] # NoRow /\ roots'[x].path = roots[x].path
    /\ \A a \in Artifacts \cap used : artifacts'[a] # NoRow => artifacts[a] # NoRow /\ artifacts'[a].task = artifacts[a].task

(* The roots.                                                              *)
LEMMA RootsSteady ==
    ASSUME IndInv, NEW r \in Requests, Serve(r), NEW x \in Roots \cap used, roots'[x] # NoRow
    PROVE  roots[x] # NoRow /\ roots'[x].path = roots[x].path
<1>1. DOMAIN roots = Roots /\ x \in Roots /\ x \in used /\ (roots[x] # NoRow => RootRow(roots[x]))
  BY DEF IndInv, Tables, RootTable
<1>2. ASSUME roots'[x] = roots[x] PROVE roots[x] # NoRow /\ roots'[x].path = roots[x].path
  BY <1>2
<1>3. ASSUME NEW s, roots[x] # NoRow, roots'[x] = [roots[x] EXCEPT !.status = s]
      PROVE  roots[x] # NoRow /\ roots'[x].path = roots[x].path
  <2>1. PICK row, new : row = roots[x] /\ new = roots'[x] /\ new = [row EXCEPT !.status = s]
    BY <1>3
  <2>2. new.path = row.path
    BY <1>1, <1>3, <2>1 DEF RootRow
  <2> QED
    BY <1>3, <2>1, <2>2
<1>4. CASE RootAddWrite(r)
  <2>1. \/ roots' = roots
        \/ \E y \in Free(Roots) : \E row : roots' = [roots EXCEPT ![y] = row]
    BY <1>4 DEF RootAddWrite, Insert
  <2>2. \A y \in Free(Roots) : y # x
    BY <1>1, FreeFacts
  <2> QED
    BY <1>1, <1>2, <2>1, <2>2
<1>5. CASE RootAddEnable(r)
  <2>1. roots'[x] = roots[x] \/ (roots[x] # NoRow /\ roots'[x] = [roots[x] EXCEPT !.status = "enabled"])
    BY <1>1, <1>5 DEF RootAddEnable, Rows
  <2> QED
    BY <1>2, <1>3, <2>1
<1>6. CASE RootPatchWrite(r)
  <2>1. roots'[x] = roots[x] \/ (roots[x] # NoRow /\ \E s : roots'[x] = [roots[x] EXCEPT !.status = s])
    BY <1>1, <1>6 DEF RootPatchWrite
  <2> QED
    BY <1>2, <1>3, <2>1
<1>7. CASE RootDeleteWrite(r)
  <2>1. \/ roots'[x] = roots[x] \/ roots'[x] = NoRow
        \/ roots[x] # NoRow /\ roots'[x] = [roots[x] EXCEPT !.status = "disabled"]
    BY <1>1, <1>7 DEF RootDeleteWrite
  <2> QED
    BY <1>2, <1>3, <2>1
<1>8. CASE roots' = roots
  BY <1>2, <1>8
<1> QED
  BY <1>4, <1>5, <1>6, <1>7, <1>8, TablesStay DEF RootActs

(* The models.                                                             *)
LEMMA ArtifactsSteady ==
    ASSUME IndInv, AsScanned, NEW r \in Requests, Serve(r), NEW a \in Artifacts \cap used, artifacts'[a] # NoRow
    PROVE  artifacts[a] # NoRow /\ artifacts'[a].task = artifacts[a].task
<1>1. DOMAIN artifacts = Artifacts /\ a \in Artifacts /\ a \in used /\ (artifacts[a] # NoRow => ArtifactRow(artifacts[a]))
  BY DEF IndInv, Tables, ArtifactTable
<1>2. ASSUME artifacts'[a] = artifacts[a] PROVE artifacts[a] # NoRow /\ artifacts'[a].task = artifacts[a].task
  BY <1>2
<1>3. CASE ArtifactCreate(r) \/ Discover(r) \/ WizardCreate(r)
  <2>1. \/ artifacts' = artifacts
        \/ \E c \in Free(Artifacts) : \E row : artifacts' = [artifacts EXCEPT ![c] = row]
    BY <1>3 DEF ArtifactCreate, Discover, WizardCreate, Insert
  <2>2. \A c \in Free(Artifacts) : c # a
    BY <1>1, FreeFacts
  <2> QED
    BY <1>1, <1>2, <2>1, <2>2
<1>4. CASE ArtifactDeleteWrite(r)
  <2>1. artifacts' = artifacts \/ \E c : artifacts' = [artifacts EXCEPT ![c] = NoRow]
    BY <1>4 DEF ArtifactDeleteWrite
  <2> QED
    BY <1>1, <1>2, <2>1
<1>5. CASE ArtifactPatchWrite(r)
  <2>1. ArgOf("artifact-patch", Arg(r))
    BY <1>5, Under DEF ArtifactPatchWrite, At, Ops
  <2>2. PICK c, b, old : c = Arg(r).artifact /\ b = Arg(r).body /\ old = req[r].saw
    OBVIOUS
  <2>3. "task" \notin DOMAIN b
    BY <2>1, <2>2 DEF ArgOf, AsScanned
  <2>4. artifacts' = IF artifacts[c] = NoRow THEN artifacts ELSE [artifacts EXCEPT ![c] = Patched(@, old, b)]
    BY <1>5, <2>2 DEF ArtifactPatchWrite
  <2>5. CASE c # a \/ artifacts[c] = NoRow
    BY <1>1, <1>2, <2>4, <2>5
  <2>6. CASE c = a /\ artifacts[a] # NoRow
    <3>1. PICK row, new, set : /\ row = artifacts[a] /\ new = artifacts'[a]
                               /\ set = IF DOMAIN b \cap {"caps", "sources", "params"} = {} THEN row ELSE CapabilitySet(old, b)
      OBVIOUS
    <3>2. new = Patched(row, old, b)
      BY <1>1, <2>4, <2>6, <3>1
    <3>3. DOMAIN row = {"name", "tenant", "path", "format", "task", "caps", "sources", "params"}
      BY <1>1, <2>6, <3>1 DEF ArtifactRow
    <3>4. new = [row EXCEPT !.path = Or(b, "path", row.path), !.format = Or(b, "format", row.format),
                            !.task = Or(b, "task", row.task), !.caps = set.caps,
                            !.sources = set.sources, !.params = set.params]
      BY <3>1, <3>2, <3>3 DEF Patched
    <3>5. new.task = Or(b, "task", row.task)
      BY <3>3, <3>4
    <3>6. new.task = row.task
      BY <2>3, <3>5 DEF Or
    <3> QED
      BY <2>6, <3>1, <3>6
  <2> QED
    BY <2>5, <2>6
<1>6. CASE artifacts' = artifacts
  BY <1>2, <1>6
<1> QED
  BY <1>3, <1>4, <1>5, <1>6, TablesStay DEF ModelActs

(* Every step.                                                             *)
LEMMA SteadyStep ==
    ASSUME IndInv, AsScanned, [Next]_vars
    PROVE  Steady
<1>1. CASE artifacts' = artifacts /\ roots' = roots /\ used' = used
  BY <1>1 DEF Steady
<1>2. ASSUME NEW r \in Requests, Serve(r)
      PROVE  Steady
  <2>1. \A x \in Roots \cap used : roots'[x] # NoRow => roots[x] # NoRow /\ roots'[x].path = roots[x].path
    BY <1>2, RootsSteady
  <2>2. \A a \in Artifacts \cap used : artifacts'[a] # NoRow => artifacts[a] # NoRow /\ artifacts'[a].task = artifacts[a].task
    BY <1>2, ArtifactsSteady
  <2>3. used \subseteq used'
    BY <1>2, TablesStay
  <2> QED
    BY <2>1, <2>2, <2>3 DEF Steady
<1>3. ASSUME NEW r \in Requests, AcceptAny(r)
      PROVE  Steady
  BY <1>1, <1>3, AcceptAlone DEF tables
<1>4. ASSUME NEW e \in Deployments, InstanceEnds(e)
      PROVE  Steady
  BY <1>1, <1>4 DEF InstanceEnds
<1>5. CASE UNCHANGED vars
  BY <1>1, <1>5 DEF vars, tables
<1> QED
  BY <1>2, <1>3, <1>4, <1>5 DEF Next

(* A scan says the same before and after a step.                           *)
LEMMA RunsStays ==
    ASSUME dir' = dir, NEW p, NEW task, NEW meta
    PROVE  Runs(p, task, meta)' <=> Runs(p, task, meta)
<1>1. ScanModelPath(p)' = ScanModelPath(p)
  BY SameScan
<1> QED
  BY <1>1 DEF Runs, FoundAt

(* So does what a location knows of its path, and a start of its location. *)
LEMMA RowKnowsStays ==
    ASSUME dir' = dir, NEW row, NEW task, RowKnows(row, task)
    PROVE  RowKnows(row, task)'
<1>1. PICK p, meta : p = row.abs /\ meta = row.meta
  OBVIOUS
<1>2. Runs(p, task, meta)' <=> Runs(p, task, meta)
  BY RunsStays
<1>3. meta # "none" => Runs(p, task, meta)'
  BY <1>1, <1>2 DEF RowKnows
<1> QED
  BY <1>1, <1>3 DEF RowKnows, Metas

(* The start.                                                              *)
LEMMA RunsFromStays ==
    ASSUME dir' = dir, NEW s, RunsFrom(s)
    PROVE  RunsFrom(s)'
<1>1. PICK row, task : row = s.row /\ task = s.task
  OBVIOUS
<1>2. RowKnows(row, task)'
  BY <1>1, RowKnowsStays DEF RunsFrom
<1> QED
  BY <1>1, <1>2 DEF RunsFrom

(* A root's path, and what the wizard knows.                               *)
LEMMA SameRootStays ==
    ASSUME Steady, NEW x, NEW under, SameRoot(x, under)
    PROVE  SameRoot(x, under)'
BY DEF SameRoot, Steady

(* A request of the wizard.                                                *)
LEMMA WizardStays ==
    ASSUME Steady, dir' = dir, NEW a, WizardKnows(a)
    PROVE  WizardKnows(a)'
<1>1. PICK p, task, meta : p = a.cand.path /\ task = a.cand.task /\ meta = Meta(a.cand)
  OBVIOUS
<1>2. Runs(p, task, meta)'
  BY <1>1, RunsStays DEF WizardKnows
<1>3. PICK x, under : x = a.root /\ under = a.under
  OBVIOUS
<1>4. SameRoot(x, under)'
  BY <1>3, SameRootStays DEF WizardKnows
<1> QED
  BY <1>1, <1>2, <1>3, <1>4 DEF WizardKnows, Meta

(* A request for a location.                                               *)
LEMMA CreateStays ==
    ASSUME Steady, dir' = dir, NEW v, CreateKnows(v)
    PROVE  CreateKnows(v)'
<1>1. PICK a, meta : a = v.arg.artifact /\ a \in Artifacts \cap used /\ meta = v.arg.meta /\ meta \in Metas
  BY DEF CreateKnows
<1>2. v.arg.meta \in Metas /\ a \in Artifacts \cap used'
  BY <1>1 DEF Steady
<1>3. SUFFICES ASSUME meta # "none", artifacts'[a] # NoRow
               PROVE  IF v.pc = "read"
                      THEN /\ v.arg.by = "root" /\ v.arg.root \in Roots \cap used'
                           /\ roots'[v.arg.root] # NoRow =>
                                Fits(roots[v.arg.root].path, v.arg.rel.path, artifacts[a].task, meta)'
                      ELSE Runs(v.saw.abs, artifacts[a].task, meta)'
  BY <1>1, <1>2 DEF CreateKnows, Metas
<1>4. PICK task : task = artifacts[a].task /\ task = artifacts'[a].task /\ artifacts[a] # NoRow
  BY <1>1, <1>3 DEF Steady
<1>5. CASE v.pc # "read"
  <2>1. PICK p : p = v.saw.abs
    OBVIOUS
  <2>2. Runs(p, task, meta)'
    BY <1>1, <1>3, <1>4, <1>5, <2>1, RunsStays DEF CreateKnows
  <2> QED
    BY <1>4, <1>5, <2>1, <2>2
<1>6. CASE v.pc = "read"
  <2>1. PICK x, rel : x = v.arg.root /\ rel = v.arg.rel.path
    OBVIOUS
  <2>2. v.arg.by = "root" /\ x \in Roots \cap used /\ (roots[x] # NoRow => Fits(roots[x].path, rel, task, meta))
    BY <1>1, <1>3, <1>4, <1>6, <2>1 DEF CreateKnows
  <2>3. ASSUME roots'[x] # NoRow PROVE Fits(roots[x].path, rel, task, meta)'
    <3>1. PICK u : u = roots[x].path /\ u = roots'[x].path /\ roots[x] # NoRow
      BY <2>2, <2>3 DEF Steady
    <3>2. Fits(u, rel, task, meta)
      BY <2>2, <3>1
    <3>3. PICK p : p = u \o rel
      OBVIOUS
    <3>4. Runs(p, task, meta)'
      BY <3>2, <3>3, RunsStays DEF Fits
    <3>5. Fits(u, rel, task, meta)'
      BY <3>2, <3>3, <3>4 DEF Fits
    <3> QED
      BY <3>1, <3>5
  <2>4. x \in Roots \cap used'
    BY <2>2 DEF Steady
  <2> QED
    BY <1>4, <1>6, <2>1, <2>2, <2>3, <2>4
<1> QED
  BY <1>5, <1>6

(* What a request knows is not disturbed by others.                        *)
LEMMA KnowsStays ==
    ASSUME Steady, dir' = dir, NEW v, Knows(v)
    PROVE  Knows(v)'
<1>1. v.op \in {"scan", "browse"} => ScanKnows(v)'
  <2>1. PICK x, under : x = v.arg.root /\ under = v.saw
    OBVIOUS
  <2>2. SameRoot(x, under) => SameRoot(x, under)'
    BY SameRootStays
  <2>3. x \in Roots \cap used => x \in Roots \cap used'
    BY DEF Steady
  <2> QED
    BY <2>1, <2>2, <2>3 DEF Knows, ScanKnows
<1>2. v.op = "wizard" => WizardKnows(v.arg)'
  <2>1. PICK a : a = v.arg
    OBVIOUS
  <2>2. WizardKnows(a) => WizardKnows(a)'
    BY WizardStays
  <2> QED
    BY <2>1, <2>2 DEF Knows
<1>3. v.op = "location-create" => CreateKnows(v)'
  BY CreateStays DEF Knows
<1>4. v.op = "start" => StartKnows(v)'
  <2>1. PICK s : s = v.saw
    OBVIOUS
  <2>2. RunsFrom(s) => RunsFrom(s)'
    BY RunsFromStays
  <2> QED
    BY <2>1, <2>2 DEF Knows, StartKnows
<1> QED
  BY <1>1, <1>2, <1>3, <1>4 DEF Knows

(* A location that is as it was knows what it knew.                        *)
LEMMA SiteStays ==
    ASSUME IndInv, IndInv', AsScanned, Sites, Steady, dir' = dir, NEW l \in Locations, locations[l] # NoRow,
           locations'[l] # NoRow, SameSite(locations'[l], locations[l])
    PROVE  SiteKnows(locations[l])'
<1>1. PICK row, new, a : row = locations[l] /\ new = locations'[l] /\ a = row.artifact
  OBVIOUS
<1>2. new.artifact = a /\ new.abs = row.abs /\ new.meta = row.meta
  BY <1>1 DEF SameSite
<1>3. l \in Rows(locations)
  BY TableRows DEF IndInv
<1>4. a \in Artifacts /\ artifacts[a] # NoRow
  BY <1>1, <1>3 DEF IndInv, NoDanglingRows, Tables, LocationTable, LocationFields
<1>5. a \in used
  BY <1>4 DEF IndInv, Tables, ArtifactTable
<1>6. l \in Rows(locations)'
  BY DEF IndInv, Tables, LocationTable, Rows
<1>7. artifacts'[a] # NoRow
  BY <1>1, <1>2, <1>6 DEF IndInv, NoDanglingRows
<1>8. PICK task : task = artifacts[a].task /\ task = artifacts'[a].task
  BY <1>4, <1>5, <1>7 DEF Steady
<1>9. RowKnows(new, task)
  BY <1>1, <1>2, <1>8 DEF Sites, SiteKnows, RowKnows
<1>10. RowKnows(new, task)'
  BY <1>9, RowKnowsStays
<1>11. SiteKnows(new)'
  BY <1>2, <1>8, <1>10 DEF SiteKnows
<1> QED
  BY <1>1, <1>11

(* The locations after a step of a handler.                                *)
LEMMA SitesStep ==
    ASSUME IndInv, IndInv', WayInv, AsScanned, Steady, dir' = dir, NEW r \in Requests, Serve(r)
    PROVE  Sites'
<1> SUFFICES ASSUME NEW l \in Locations, locations'[l] # NoRow
             PROVE  SiteKnows(locations[l])'
  BY DEF Sites
<1>1. DOMAIN locations = Locations /\ Sites
  BY DEF IndInv, Tables, LocationTable, WayInv
<1>2. CASE locations'[l] = locations[l]
  <2>1. SameSite(locations'[l], locations[l]) /\ locations[l] # NoRow
    BY <1>2 DEF SameSite
  <2> QED
    BY <1>1, <2>1, SiteStays
<1>3. CASE LocationPatchWrite(r) \/ LocationMark(r)
  BY <1>1, <1>3, SiteChanged, SiteStays
<1>4. CASE LocationDeleteWrite(r) \/ ArtifactDeleteWrite(r)
  <2>1. locations'[l] = locations[l]
    BY <1>1, <1>4 DEF LocationDeleteWrite, ArtifactDeleteWrite
  <2> QED
    BY <1>2, <2>1
<1>5. CASE Discover(r) /\ locations'[l] # locations[l]
  <2>1. PICK a, k : locations' = [locations EXCEPT ![k] = Discovered(r, a)]
    BY <1>5 DEF Discover, Insert
  <2>2. PICK row : row = locations'[l] /\ row = Discovered(r, a)
    BY <1>1, <1>5, <2>1
  <2>3. row.meta = "none"
    BY <2>2 DEF Discovered
  <2> QED
    BY <2>2, <2>3 DEF SiteKnows, RowKnows, Metas
<1>6. CASE LocationCreateWrite(r) /\ locations'[l] # locations[l]
  <2>1. At(r, "location-create", "write") /\ req[r] # Idle
    BY <1>6, Under DEF LocationCreateWrite, At, Ops
  <2>2. PICK v : v = req[r] /\ v.op = "location-create" /\ v.pc = "write" /\ CreateKnows(v)
    BY <2>1 DEF At, WayInv, Knowing, Knows
  <2>3. PICK row : row = NewLocation(r) /\ LocationInsertable(row) /\ \E k : locations' = [locations EXCEPT ![k] = row]
    BY <1>6 DEF LocationCreateWrite, Insert
  <2>4. row = locations'[l]
    BY <1>1, <1>6, <2>3
  <2>5. row.artifact = v.arg.artifact /\ row.abs = v.saw.abs /\ row.meta = v.arg.meta
    BY <2>2, <2>3 DEF NewLocation, LocationRow, Arg
  <2>6. PICK a : a = v.arg.artifact /\ a \in Artifacts \cap used /\ artifacts[a] # NoRow
    BY <2>2, <2>3, <2>5 DEF CreateKnows, LocationInsertable
  <2>7. PICK task : task = artifacts[a].task /\ task = artifacts'[a].task
    BY <1>6 DEF LocationCreateWrite
  <2>8. RowKnows(row, task)
    BY <2>2, <2>5, <2>6, <2>7 DEF CreateKnows, RowKnows
  <2>9. RowKnows(row, task)'
    BY <2>8, RowKnowsStays
  <2> QED
    BY <2>4, <2>5, <2>6, <2>7, <2>9 DEF SiteKnows
<1>7. CASE locations' = locations
  BY <1>2, <1>7
<1> QED
  BY <1>2, <1>3, <1>4, <1>5, <1>6, <1>7, TablesStay DEF LocationActs

(* An instance that was active before.                                     *)
LEMMA InstanceStays ==
    ASSUME Instances, dir' = dir, NEW d \in Deployments, WasActive(d)
    PROVE  InstanceKnows(deployments[d])'
<1>1. PICK s : s = deployments[d].from /\ s = deployments'[d].from /\ RunsFrom(s) /\ s.again # "not yet"
  BY DEF WasActive, Instances, InstanceKnows
<1>2. RunsFrom(s)'
  BY <1>1, RunsFromStays
<1> QED
  BY <1>1, <1>2 DEF InstanceKnows

(* The instances after a step of a handler.                                *)
LEMMA InstancesStep ==
    ASSUME IndInv, WayInv, dir' = dir, NEW r \in Requests, Serve(r)
    PROVE  Instances'
<1> SUFFICES ASSUME NEW d \in Deployments, deployments'[d] # NoRow, deployments'[d].state = "active"
             PROVE  InstanceKnows(deployments[d])'
  BY DEF Instances, InstanceKnows
<1>1. CASE WasActive(d)
  BY <1>1, InstanceStays DEF WayInv
<1>2. CASE StartWrite(r) /\ deployments'[d].from = req[r].saw
  <2>1. PICK s : s = req[r].saw /\ s = deployments'[d].from
    BY <1>2
  <2>2. At(r, "start", "write") /\ req[r] # Idle /\ s.again # "not yet"
    BY <1>2, <2>1, Under DEF StartWrite, At, Ops
  <2>3. RunsFrom(s)
    BY <2>1, <2>2 DEF WayInv, Knowing, Knows, StartKnows, At
  <2>4. RunsFrom(s)'
    BY <2>3, RunsFromStays
  <2> QED
    BY <2>1, <2>2, <2>4 DEF InstanceKnows
<1> QED
  BY <1>1, <1>2, InstanceFrom

(* What is shown after a step of a handler.                                *)
LEMMA ShownStep ==
    ASSUME IndInv, ScanInv, WayInv, Steady, NEW r \in Requests, Serve(r)
    PROVE  ShownKnows'
<1>1. CASE shown' = shown
  <2>1. PICK x, under : x = shown.root /\ under = shown.under
    OBVIOUS
  <2>2. SameRoot(x, under) => SameRoot(x, under)'
    BY SameRootStays
  <2> QED
    BY <1>1, <2>1, <2>2 DEF WayInv, ShownKnows
<1>2. CASE AgentFiles(r)
  <2>1. PICK found : Answer(r, "browse", found)
    BY <1>2 DEF AgentFiles
  <2>2. shown'.kind = "browse"
    BY <2>1 DEF Answer
  <2> QED
    BY <2>2 DEF ShownKnows
<1>3. CASE AgentScan(r) /\ shown' # shown
  <2>1. PICK abs, found : /\ abs = CleanAbs(req[r].saw \o Clean(Arg(r).rel.path))
                          /\ Answer(r, "scan", found)
    BY <1>3 DEF AgentScan
  <2>2. PICK x, under : x = Arg(r).root /\ under = req[r].saw
    OBVIOUS
  <2>3. shown'.abs = abs /\ shown'.root = x /\ shown'.under = under
    BY <2>1, <2>2 DEF Answer
  <2>4. req[r].op = "scan" /\ req[r].pc = "write" /\ req[r] # Idle
    BY <1>3, Under DEF AgentScan, Asked, At, Ops
  <2>5. under \in Seq(STRING) /\ Arg(r).rel.path \in Seq(STRING)
    BY <2>2, <2>4 DEF ScanInv, Probes, ProbeOf, Arg
  <2>6. PICK rel : rel = Clean(Arg(r).rel.path) /\ rel \in Seq(STRING)
    BY <2>5, CleanPath
  <2>7. PICK p : p = under \o rel /\ p \in Seq(STRING)
    <3>1. under \o rel \in Seq(STRING)
      BY <2>5, <2>6
    <3> QED
      BY <3>1
  <2>8. DotFree(abs)
    BY <2>1, <2>2, <2>6, <2>7, CleanHasNoDots
  <2>9. IsPrefix(under, abs)
    <3>1. agentValidateModelPath(under, Arg(r).rel)
      BY <1>3, <2>2 DEF AgentScan, Asked
    <3>2. pathWithinRoot(abs, under)
      BY <2>1, <2>2, <3>1 DEF agentValidateModelPath
    <3>3. abs \in Seq(STRING)
      BY <2>1, <2>2, <2>6, <2>7, CleanAbsPath
    <3>4. CASE under = <<>>
      <4>1. Len(under) = 0
        BY <3>4
      <4>2. Len(under) <= Len(abs) /\ \A i \in 1..Len(under) : under[i] = abs[i]
        BY <3>3, <4>1
      <4> QED
        BY <2>5, <3>3, <4>2, PrefixByNames
    <3>5. CASE under # <<>>
      BY <3>2, <3>5 DEF pathWithinRoot
    <3> QED
      BY <3>4, <3>5
  <2>10. SameRoot(x, under)
    BY <2>2, <2>4 DEF WayInv, Knowing, Knows, ScanKnows, Arg
  <2>11. SameRoot(x, under)'
    BY <2>10, SameRootStays
  <2> QED
    BY <2>3, <2>5, <2>8, <2>9, <2>11 DEF ShownKnows
<1>4. CASE AgentRefuses(r) \/ HandleProxyNodeFiles(r) \/ HandleProxyNodeModelScan(r)
  <2>1. shown' = shown
    BY <1>4 DEF AgentRefuses, HandleProxyNodeFiles, HandleProxyNodeModelScan, ProxyRead, Read
  <2> QED
    BY <1>1, <2>1
<1> QED
  BY <1>1, <1>2, <1>3, <1>4, OtherServe

(* What a request knows when no table is written.                          *)
LEMMA KnowsSame ==
    ASSUME UNCHANGED tables, dir' = dir, NEW v, Knows(v)
    PROVE  Knows(v)'
<1>1. Steady
  BY DEF tables, Steady
<1> QED
  BY <1>1, KnowsStays

(* The proxies.                                                            *)
LEMMA ProxyKnows ==
    ASSUME IndInv, WayInv, dir' = dir, NEW r \in Requests, HandleProxyNodeFiles(r) \/ HandleProxyNodeModelScan(r),
           req'[r] # Idle
    PROVE  Knows(req[r])'
<1>1. PICK x, ok, saw : /\ Read(r, ok, saw) /\ x = Arg(r).root
                        /\ saw = (IF roots[x] = NoRow THEN <<>> ELSE roots[x].path)
                        /\ req[r].op \in {"scan", "browse"}
  BY DEF HandleProxyNodeFiles, HandleProxyNodeModelScan, ProxyRead, At
<1>2. UNCHANGED tables
  BY <1>1, ReadSlot
<1>3. PICK new : new = req'[r] /\ new.op = req[r].op /\ new.arg = req[r].arg /\ new.saw = saw
  BY <1>1, ReadSlot
<1>4. req[r] # Idle
  BY <1>1 DEF Idle
<1>5. x = new.arg.root /\ x \in Roots \cap used
  BY <1>1, <1>3, <1>4 DEF WayInv, Knowing, Knows, ScanKnows, Arg
<1>6. SameRoot(x, saw)
  BY <1>1, <1>5 DEF SameRoot
<1>7. Knows(new)
  BY <1>1, <1>3, <1>5, <1>6 DEF Knows, ScanKnows
<1>8. Knows(new)'
  BY <1>2, <1>7, KnowsSame
<1> QED
  BY <1>3, <1>8

(* The preflight of a start: its first read, and the one that follows.     *)
LEMMA StartReadKnows ==
    ASSUME IndInv, Origins, WayInv, dir' = dir, NEW r \in Requests, Serve(r), req'[r] # Idle, req'[r].op = "start"
    PROVE  Knows(req[r])'
<1>1. PICK s : /\ req'[r].saw = s
               /\ \/ \E a, l : l \in Deployable(a) /\ FirstRead(s, l, a)
                  \/ At(r, "start", "write") /\ ReadAgain(s, req[r].saw)
  BY StartSees
<1>2. ASSUME \E a, l : l \in Deployable(a) /\ FirstRead(s, l, a)
      PROVE  RunsFrom(s)
  <2>1. PICK a, l : l \in Deployable(a) /\ FirstRead(s, l, a)
    BY <1>2
  <2>2. PICK row, task : row = locations[l] /\ task = artifacts[a].task
    OBVIOUS
  <2>3. s.row = row /\ s.task = task /\ s.again = "not yet"
    BY <2>1, <2>2 DEF FirstRead
  <2>4. l \in Locations /\ locations[l] # NoRow /\ row.artifact = a
    BY <2>1, <2>2 DEF Deployable, LocationsOf, Rows, IndInv, Tables, LocationTable
  <2>5. RowKnows(row, task)
    BY <2>2, <2>4 DEF WayInv, Sites, SiteKnows
  <2> QED
    BY <2>3, <2>5 DEF RunsFrom
<1>3. ASSUME At(r, "start", "write"), ReadAgain(s, req[r].saw)
      PROVE  RunsFrom(s)
  <2>1. PICK old : old = req[r].saw
    OBVIOUS
  <2>2. req[r] # Idle
    BY <1>3, Under DEF At, Ops
  <2>3. RunsFrom(old) /\ OriginOf(old)
    BY <1>3, <2>1, <2>2 DEF WayInv, Knowing, Knows, StartKnows, At, Origins
  <2>4. /\ s.row = old.row /\ s.task = old.task
        /\ s.again = (IF locations[old.loc] = NoRow THEN "gone" ELSE "there")
        /\ locations[old.loc] = NoRow \/ locations[old.loc].meta # "no"
    BY <1>3, <2>1 DEF ReadAgain
  <2>5. s.again = "there" => s.row.meta # "no"
    BY <2>3, <2>4 DEF OriginOf
  <2> QED
    BY <2>3, <2>4, <2>5 DEF RunsFrom
<1>4. RunsFrom(s)'
  BY <1>1, <1>2, <1>3, RunsFromStays
<1> QED
  BY <1>1, <1>4 DEF Knows, StartKnows

(* HandleCreateModelLocation finds the path the wizard means.              *)
LEMMA LocationReadKnows ==
    ASSUME IndInv, WayInv, dir' = dir, NEW r \in Requests, LocationCreateRead(r), req'[r] # Idle
    PROVE  Knows(req[r])'
<1>1. PICK v, where, art : /\ v = req[r] /\ v.op = "location-create" /\ v.pc = "read" /\ art = artifacts[v.arg.artifact]
                           /\ where = resolveModelLocationRequestPath(v.arg)
  BY DEF LocationCreateRead, At
<1>2. v # Idle /\ CreateKnows(v)
  BY <1>1 DEF Idle, WayInv, Knowing, Knows
<1>3. PICK w, ok, saw : /\ w \in where \cup {NoRow} /\ (where # {} => w # NoRow) /\ (ok => where # {})
                        /\ Read(r, ok, saw) /\ (ok => saw = [root |-> w.root, abs |-> w.abs, tenant |-> art.tenant])
  BY <1>1 DEF LocationCreateRead, Arg
<1>4. ok /\ UNCHANGED tables
  BY <1>3, ReadSlot
<1>5. PICK new : new = req'[r] /\ new.op = v.op /\ new.pc = "write" /\ new.arg = v.arg /\ new.saw = saw
  BY <1>1, <1>3, ReadSlot
<1>6. w \in where /\ saw.abs = w.abs
  BY <1>3, <1>4
<1>7. CreateKnows(new)
  <2> SUFFICES ASSUME v.arg.meta # "none", artifacts[v.arg.artifact] # NoRow
               PROVE  Runs(w.abs, artifacts[v.arg.artifact].task, v.arg.meta)
    BY <1>2, <1>5, <1>6 DEF CreateKnows
  <2>1. PICK x, rel, task, meta : x = v.arg.root /\ rel = v.arg.rel /\ task = artifacts[v.arg.artifact].task /\ meta = v.arg.meta
    OBVIOUS
  <2>2. v.arg.by = "root" /\ (roots[x] # NoRow => Fits(roots[x].path, rel.path, task, meta))
    BY <1>1, <1>2, <2>1 DEF CreateKnows
  <2>3. resolveNodeModelRoot(x) /\ w \in Resolved(x, rel)
    BY <1>1, <1>6, <2>1, <2>2 DEF resolveModelLocationRequestPath
  <2>4. Fits(roots[x].path, rel.path, task, meta)
    BY <2>2, <2>3 DEF resolveNodeModelRoot, EnabledRoots, Rows
  <2>5. Runs(w.abs, task, meta)
    BY <2>3, <2>4, ResolvesAsScanned
  <2> QED
    BY <2>1, <2>5
<1>8. Knows(new)
  BY <1>1, <1>5, <1>7 DEF Knows
<1>9. Knows(new)'
  BY <1>4, <1>8, KnowsSame
<1> QED
  BY <1>5, <1>9

(* The wizard's request for the location of the model it has created.      *)
LEMMA WizardGoesOn ==
    ASSUME IndInv, WayInv, Steady, dir' = dir, NEW r \in Requests, WizardCreate(r), req'[r] # Idle
    PROVE  Knows(req[r])'
<1>1. PICK arg, c : arg = Arg(r) /\ c = arg.cand
  OBVIOUS
<1>2. PICK rel : rel = SubSeq(c.path, Len(arg.under) + 1, Len(c.path))
  OBVIOUS
<1>3. req[r].op = "wizard" /\ roots' = roots
  BY DEF WizardCreate, At
<1>4. WizardKnows(arg)
  BY <1>1, <1>3 DEF Idle, WayInv, Knowing, Knows, Arg
<1>5. PICK at : at = [artifact |-> "", by |-> "root", root |-> arg.root, type |-> c.type,
                      rel |-> [abs |-> FALSE, path |-> rel], status |-> "verified", match |-> "exact_match",
                      meta |-> IF c.deployable THEN "yes" ELSE "no"]
  OBVIOUS
<1>6. PICK b : b = [name |-> arg.name, path |-> c.path, format |-> c.format, task |-> c.task, caps |-> c.caps]
  OBVIOUS
<1>7. PICK a, u : /\ a \in Free(Artifacts) /\ artifacts' = Insert(artifacts, a, NewArtifact(r, b)) /\ used' = used \cup {a}
                  /\ req' = [req EXCEPT ![r] = [op |-> "location-create", pc |-> "read", user |-> u,
                                                arg |-> [at EXCEPT !.artifact = a]]]
  <2>1. ~Done(r)
    BY DEF Done, IndInv, Slots
  <2>2. \E a \in Free(Artifacts) :
           /\ artifacts' = Insert(artifacts, a, NewArtifact(r, b)) /\ used' = used \cup {a}
           /\ req' = [req EXCEPT ![r] = [op |-> "location-create", pc |-> "read", user |-> req[r].user,
                                         arg |-> [at EXCEPT !.artifact = a]]]
    BY <1>1, <1>2, <1>5, <1>6, <2>1 DEF WizardCreate
  <2>3. PICK u : u = req[r].user
    OBVIOUS
  <2> QED
    BY <2>2, <2>3
<1>8. PICK to : to = [at EXCEPT !.artifact = a]
  OBVIOUS
<1>9. /\ to.artifact = a /\ to.by = "root" /\ to.root = arg.root /\ to.rel = [abs |-> FALSE, path |-> rel]
      /\ to.meta = Meta(c)
  BY <1>5, <1>8 DEF Meta
<1>10. PICK new : new = [op |-> "location-create", pc |-> "read", user |-> u, arg |-> to] /\ new = req'[r]
  BY <1>7, <1>8 DEF IndInv, Slots
<1>11. new.op = "location-create" /\ new.pc = "read" /\ new.arg = to
  BY <1>10
<1>12. a \in Artifacts \cap used'
  BY <1>7, FreeFacts
<1>13. PICK task : task = c.task /\ task = artifacts'[a].task
  <2>1. artifacts'[a] = NewArtifact(r, b)
    BY <1>7, <1>12 DEF Insert, IndInv, Tables, ArtifactTable
  <2>2. NewArtifact(r, b).task = b.task /\ b.task = c.task
    BY <1>6 DEF NewArtifact
  <2> QED
    BY <2>1, <2>2
<1>14. PICK x, under : x = arg.root /\ under = arg.under
  OBVIOUS
<1>15. SameRoot(x, under)'
  BY <1>4, <1>14, SameRootStays DEF WizardKnows
<1>16. PICK meta : meta = Meta(c) /\ meta \in Metas
  BY DEF Meta, Metas
<1>17. Fits(under, rel, task, meta)'
  <2>1. Fits(under, rel, task, meta)
    BY <1>1, <1>2, <1>4, <1>13, <1>14, <1>16, WizardFits
  <2>2. PICK p : p = under \o rel
    OBVIOUS
  <2>3. Runs(p, task, meta)'
    BY <2>1, <2>2, RunsStays DEF Fits
  <2> QED
    BY <2>1, <2>2, <2>3 DEF Fits
<1>18. CreateKnows(new)'
  <2>1. new.arg.meta = meta /\ new.arg.artifact = a
    BY <1>9, <1>11, <1>16
  <2>2. new.arg.by = "root" /\ new.arg.root = x /\ new.arg.rel.path = rel
    BY <1>9, <1>11, <1>14
  <2>3. x \in Roots \cap used' /\ (roots'[x] # NoRow => roots'[x].path = under)
    BY <1>15 DEF SameRoot
  <2>4. roots'[x] # NoRow => Fits(roots[x].path, rel, artifacts[a].task, meta)'
    BY <1>13, <1>17, <2>3
  <2> QED
    BY <1>11, <1>12, <1>16, <2>1, <2>2, <2>3, <2>4 DEF CreateKnows, Metas
<1>19. Knows(new)'
  BY <1>11, <1>18 DEF Knows
<1> QED
  BY <1>10, <1>19

(* The slot of the request that takes a step.                              *)
LEMMA OwnSlotKnows ==
    ASSUME IndInv, Origins, WayInv, Steady, dir' = dir, NEW r \in Requests, Serve(r), req'[r] # Idle
    PROVE  Knows(req[r])'
<1>1. CASE WizardCreate(r)
  BY <1>1, WizardGoesOn
<1>2. CASE LocationCreateRead(r)
  BY <1>2, LocationReadKnows
<1>3. CASE HandleProxyNodeFiles(r) \/ HandleProxyNodeModelScan(r)
  BY <1>3, ProxyKnows
<1>4. CASE StartRead(r) \/ StartCheck(r)
  <2>1. req[r].op = "start" /\ "start" # "wizard"
    BY <1>4 DEF StartRead, StartCheck, At
  <2>2. req'[r].op = "start"
    BY <2>1, ServeKeepsArg DEF KeepsArg
  <2> QED
    BY <2>2, StartReadKnows
<1>5. CASE LastActs(r)
  BY <1>5, ActsEnd DEF Done, IndInv, Slots
<1>6. ASSUME req[r].op \notin {"scan", "browse", "wizard", "location-create", "start"}
      PROVE  Knows(req[r])'
  <2>1. req'[r].op = req[r].op
    BY <1>6, ServeKeepsArg DEF KeepsArg
  <2> QED
    BY <1>6, <2>1 DEF Knows
<1>7. CASE RootAddRead(r) \/ RootAddTenant(r) \/ RootAddWrite(r) \/ RootPatchRead(r) \/ RootDeleteRead(r)
  BY <1>6, <1>7 DEF RootAddRead, RootAddTenant, RootAddWrite, RootPatchRead, RootDeleteRead, At
<1>8. CASE ArtifactPatchRead(r) \/ ArtifactDeleteRead(r) \/ LocationPatchRead(r) \/ LocationDeleteRead(r)
  BY <1>6, <1>8 DEF ArtifactPatchRead, ArtifactDeleteRead, LocationPatchRead, LocationDeleteRead, At
<1>9. CASE DeployRead(r) \/ DeployPatchRead(r) \/ DeployDeleteRead(r) \/ TransferRead(r)
  BY <1>6, <1>9 DEF DeployRead, DeployPatchRead, DeployDeleteRead, TransferRead, At
<1> QED
  BY <1>1, <1>2, <1>3, <1>4, <1>5, <1>7, <1>8, <1>9, ServeActs DEF ReadActs

(* A request that begins.                                                  *)
LEMMA AcceptedKnows ==
    ASSUME IndInv, ScanInv, WayInv, dir' = dir, NEW r \in Requests, AcceptAny(r)
    PROVE  Knows(req[r])'
<1>1. UNCHANGED tables
  BY AcceptAlone
<1>2. ASSUME NEW op, NEW args, Accept(r, op, args), \A u : \A a \in args : Knows(ReadReq(op, u, a))
      PROVE  Knows(req[r])'
  <2>1. PICK u, a : a \in args /\ req' = [req EXCEPT ![r] = ReadReq(op, u, a)]
    BY <1>2 DEF Accept, ReadReq
  <2>2. PICK new : new = ReadReq(op, u, a) /\ new = req'[r]
    BY <2>1 DEF IndInv, Slots
  <2>3. Knows(new)
    BY <1>2, <2>1, <2>2
  <2>4. Knows(new)'
    BY <1>1, <2>3, KnowsSame
  <2> QED
    BY <2>2, <2>4
<1>3. \A op, u, a : op \notin {"scan", "browse", "wizard", "location-create", "start"} => Knows(ReadReq(op, u, a))
  BY SlotFields DEF Knows
<1>4. \A u, a : Knows(ReadReq("start", u, a))
  BY SlotFields DEF Knows, StartKnows
<1>5. ASSUME NEW op \in {"scan", "browse"}, NEW u, NEW a, a.root \in Roots \cap used
      PROVE  Knows(ReadReq(op, u, a))
  BY <1>5, SlotFields DEF Knows, ScanKnows
<1>6. ASSUME NEW u, NEW a \in LocationArgs
      PROVE  Knows(ReadReq("location-create", u, a))
  <2>1. a.meta = "none" /\ a.artifact \in Artifacts \cap used
    BY DEF LocationArgs
  <2>2. PICK v : v = ReadReq("location-create", u, a) /\ v.op = "location-create" /\ v.arg = a
    BY SlotFields
  <2>3. CreateKnows(v)
    BY <2>1, <2>2 DEF CreateKnows, Metas
  <2> QED
    BY <2>2, <2>3 DEF Knows
<1>7. ASSUME NEW u, NEW a \in ShownCandidates
      PROVE  Knows(ReadReq("wizard", u, a))
  <2>1. shown.kind = "scan"
    BY DEF ShownCandidates
  <2>2. PICK c \in shown.found : a.cand = c /\ a.root = shown.root /\ a.under = shown.under
    BY <2>1 DEF ShownCandidates
  <2>3. PICK abs, under : abs = shown.abs /\ under = shown.under /\ abs \in Seq(STRING) /\ c \in ScanModelPath(abs)
    BY <2>1, <2>2 DEF ScanInv, FromScan
  <2>4. SameRoot(a.root, under) /\ under \in Seq(STRING) /\ IsPrefix(under, abs) /\ DotFree(abs)
    BY <2>1, <2>2, <2>3 DEF WayInv, ShownKnows
  <2>5. Below(c.path, abs) /\ Runs(c.path, c.task, Meta(c))
    BY <2>3, <2>4, ScanRuns DEF IndInv
  <2>6. IsPrefix(under, c.path)
    BY <2>3, <2>4, <2>5, PrefixOfPrefix DEF Below
  <2>7. WizardKnows(a)
    BY <2>2, <2>3, <2>4, <2>5, <2>6 DEF WizardKnows, Below
  <2> QED
    BY <2>7, SlotFields DEF Knows
<1>8. ASSUME NEW op \in {"scan", "browse"},
             Accept(r, op, {[root |-> x, rel |-> rel] : x \in Roots \cap used, rel \in load.rels})
      PROVE  Knows(req[r])'
  <2>1. \A a \in {[root |-> x, rel |-> rel] : x \in Roots \cap used, rel \in load.rels} : a.root \in Roots \cap used
    OBVIOUS
  <2> QED
    BY <1>2, <1>5, <1>8, <2>1
<1>9. \A op \in {"start", "location-create", "wizard"} : \A args :
         /\ Accept(r, op, args) /\ op = "start" => Knows(req[r])'
         /\ Accept(r, op, args) /\ op = "location-create" /\ args = LocationArgs => Knows(req[r])'
         /\ Accept(r, op, args) /\ op = "wizard" /\ args = ShownCandidates => Knows(req[r])'
  BY <1>2, <1>4, <1>6, <1>7
<1>10. \A op, args : op \notin {"scan", "browse", "wizard", "location-create", "start"} /\ Accept(r, op, args) => Knows(req[r])'
  BY <1>2, <1>3
<1> QED
  BY <1>8, <1>9, <1>10 DEF AcceptAny

(* The requests, when only one of them takes a step.                       *)
LEMMA OthersKnow ==
    ASSUME WayInv, Steady, dir' = dir, NEW r \in Requests,
           \A q \in Requests : q # r => req'[q] = req[q], req'[r] # Idle => Knows(req[r])'
    PROVE  Knowing'
<1> SUFFICES ASSUME NEW q \in Requests, req'[q] # Idle
             PROVE  Knows(req[q])'
  BY DEF Knowing
<1>1. CASE q = r
  BY <1>1
<1>2. CASE q # r
  <2>1. PICK v : v = req[q] /\ v = req'[q]
    BY <1>2
  <2>2. Knows(v)
    BY <2>1 DEF WayInv, Knowing
  <2>3. Knows(v)'
    BY <2>2, KnowsStays
  <2> QED
    BY <2>1, <2>3
<1> QED
  BY <1>1, <1>2

(* The rest, when a table is not written.                                  *)
LEMMA SitesSame ==
    ASSUME IndInv, IndInv', AsScanned, WayInv, Steady, dir' = dir, locations' = locations
    PROVE  Sites'
<1> SUFFICES ASSUME NEW l \in Locations, locations'[l] # NoRow
             PROVE  SiteKnows(locations[l])'
  BY DEF Sites
<1>1. SameSite(locations'[l], locations[l]) /\ locations[l] # NoRow
  BY DEF SameSite
<1> QED
  BY <1>1, SiteStays DEF WayInv

(* The instances.                                                          *)
LEMMA InstancesSame ==
    ASSUME WayInv, dir' = dir, deployments' = deployments
    PROVE  Instances'
<1> SUFFICES ASSUME NEW d \in Deployments, deployments'[d] # NoRow, deployments'[d].state = "active"
             PROVE  InstanceKnows(deployments[d])'
  BY DEF Instances, InstanceKnows
<1>1. WasActive(d)
  BY DEF WasActive
<1> QED
  BY <1>1, InstanceStays DEF WayInv

(* What is shown.                                                          *)
LEMMA ShownSame ==
    ASSUME WayInv, Steady, shown' = shown
    PROVE  ShownKnows'
<1>1. PICK x, under : x = shown.root /\ under = shown.under
  OBVIOUS
<1>2. SameRoot(x, under) => SameRoot(x, under)'
  BY SameRootStays
<1> QED
  BY <1>1, <1>2 DEF WayInv, ShownKnows

(* What is known on the way from the scan to the instance is kept by every *)
(* step, when no PATCH moves a location or renames a task.                 *)
LEMMA WayStep ==
    ASSUME IndInv, IndInv', Origins, ScanInv, AsScanned, WayInv, [Next]_vars
    PROVE  WayInv'
<1>1. dir' = dir /\ Steady
  BY WorldStays, SteadyStep
<1>2. ASSUME NEW r \in Requests, AcceptAny(r)
      PROVE  WayInv'
  <2>1. UNCHANGED tables /\ shown' = shown /\ \A q \in Requests : q # r => req'[q] = req[q]
    BY <1>2, AcceptAlone DEF IndInv, Slots
  <2>2. locations' = locations /\ deployments' = deployments
    BY <2>1 DEF tables
  <2>3. Knows(req[r])'
    BY <1>1, <1>2, AcceptedKnows
  <2>4. Knowing'
    BY <1>1, <2>1, <2>3, OthersKnow
  <2>5. ShownKnows' /\ Sites' /\ Instances'
    BY <1>1, <2>1, <2>2, ShownSame, SitesSame, InstancesSame
  <2> QED
    BY <2>4, <2>5 DEF WayInv
<1>3. ASSUME NEW r \in Requests, Serve(r)
      PROVE  WayInv'
  <2>1. \A q \in Requests : q # r => req'[q] = req[q]
    BY <1>3, ServeOwnSlot DEF IndInv
  <2>2. req'[r] # Idle => Knows(req[r])'
    BY <1>1, <1>3, OwnSlotKnows
  <2>3. Knowing'
    BY <1>1, <2>1, <2>2, OthersKnow
  <2>4. ShownKnows'
    BY <1>1, <1>3, ShownStep
  <2>5. Sites'
    BY <1>1, <1>3, SitesStep
  <2>6. Instances'
    BY <1>1, <1>3, InstancesStep
  <2> QED
    BY <2>3, <2>4, <2>5, <2>6 DEF WayInv
<1>4. CASE req' = req /\ shown' = shown /\ locations' = locations /\ Instances'
  <2>1. ASSUME NEW r \in Requests, req'[r] # Idle
        PROVE  Knows(req[r])'
    <3>1. PICK v : v = req[r] /\ v = req'[r]
      BY <1>4
    <3>2. Knows(v)
      BY <2>1, <3>1 DEF WayInv, Knowing
    <3>3. Knows(v)'
      BY <1>1, <3>2, KnowsStays
    <3> QED
      BY <3>1, <3>3
  <2>2. Knowing'
    BY <2>1 DEF Knowing
  <2>3. ShownKnows' /\ Sites'
    BY <1>1, <1>4, ShownSame, SitesSame
  <2> QED
    BY <1>4, <2>2, <2>3 DEF WayInv
<1>5. ASSUME NEW e \in Deployments, InstanceEnds(e)
      PROVE  WayInv'
  <2>1. req' = req /\ shown' = shown /\ locations' = locations
    BY <1>5 DEF InstanceEnds
  <2>2. ASSUME NEW d \in Deployments, deployments'[d] # NoRow, deployments'[d].state = "active"
        PROVE  InstanceKnows(deployments[d])'
    BY <1>1, <1>5, <2>2, EndsFrom, InstanceStays DEF WayInv
  <2>3. Instances'
    BY <2>2 DEF Instances, InstanceKnows
  <2> QED
    BY <1>4, <2>1, <2>3
<1>6. CASE UNCHANGED vars
  <2>1. req' = req /\ shown' = shown /\ locations' = locations /\ deployments' = deployments
    BY <1>6 DEF vars, tables
  <2>2. Instances'
    BY <1>1, <2>1, InstancesSame
  <2> QED
    BY <1>4, <2>1, <2>2
<1> QED
  BY <1>2, <1>3, <1>5, <1>6 DEF Next

(* It holds throughout.                                                    *)
LEMMA DeployInvHolds == Spec => [](IndInv /\ DeployInv)
<1>1. Init => DeployInv
  <2> SUFFICES ASSUME Init PROVE WayInv
    BY DEF DeployInv
  <2>1. shown.kind # "scan"
    BY DEF Init, Nothing
  <2>2. /\ \A r \in Requests : req[r] = Idle
        /\ \A l \in Locations : locations[l] = NoRow
        /\ \A d \in Deployments : deployments[d] = NoRow
    BY DEF Init
  <2> QED
    BY <2>1, <2>2 DEF WayInv, ShownKnows, Knowing, Sites, Instances
<1>2. IndInv /\ IndInv' /\ Origins /\ ScanInv /\ DeployInv /\ [Next]_vars => DeployInv'
  <2> SUFFICES ASSUME IndInv, IndInv', Origins, ScanInv, DeployInv, [Next]_vars, AsScanned'
               PROVE  WayInv'
    BY DEF DeployInv
  <2>1. AsScanned
    BY WorldStays DEF AsScanned
  <2> QED
    BY <2>1, WayStep DEF DeployInv
<1> QED
  BY <1>1, <1>2, OriginsHold, ScanInvHolds, PTL DEF Spec

(* RegisteredAsScanned: for every directory, all roots and links and any   *)
(* number of requests that overlap in any way, a location that the wizard  *)
(* registered lies where a scan finds a model of the task that is stored,  *)
(* and says of it what that scan says.                                     *)
THEOREM WizardRegistersWhatItScanned == Spec => []RegisteredAsScanned
<1>1. IndInv /\ DeployInv => RegisteredAsScanned
  <2> SUFFICES ASSUME IndInv, DeployInv, AsScanned, NEW l \in Rows(locations), locations[l].meta # "none"
               PROVE  \E c \in FoundAt(locations[l].abs, artifacts[locations[l].artifact].task) :
                        c.deployable <=> locations[l].meta = "yes"
    BY DEF RegisteredAsScanned
  <2>1. l \in Locations /\ locations[l] # NoRow
    BY TableRows DEF IndInv
  <2>2. SiteKnows(locations[l])
    BY <2>1 DEF DeployInv, WayInv, Sites
  <2> QED
    BY <2>2 DEF SiteKnows, RowKnows, Runs
<1> QED
  BY <1>1, DeployInvHolds, PTL

(* OnlyDeployableStarts: for every directory, all roots and links and any  *)
(* number of requests that overlap in any way, an instance that runs from  *)
(* a location the wizard registered runs a model which the scan of that    *)
(* path calls deployable for the model's task, unless the location was     *)
(* deleted between the two reads of the start.                             *)
THEOREM OnlyDeployableModelsStart == Spec => []OnlyDeployableStarts
<1>1. IndInv /\ DeployInv => OnlyDeployableStarts
  <2> SUFFICES ASSUME IndInv, DeployInv, AsScanned, NEW d \in Rows(deployments),
                      deployments[d].state = "active", deployments[d].from.row.meta # "none"
               PROVE  \E c \in FoundAt(deployments[d].from.row.abs, deployments[d].from.task) :
                        c.deployable \/ deployments[d].from.again = "gone"
    BY DEF OnlyDeployableStarts
  <2>1. d \in Deployments /\ deployments[d] # NoRow
    BY TableRows DEF IndInv
  <2>2. PICK s : s = deployments[d].from /\ RunsFrom(s) /\ s.again # "not yet"
    BY <2>1 DEF DeployInv, WayInv, Instances, InstanceKnows
  <2>3. PICK c \in FoundAt(s.row.abs, s.task) : c.deployable <=> s.row.meta = "yes"
    BY <2>2 DEF RunsFrom, RowKnows, Runs
  <2>4. s.again = "gone" \/ s.row.meta = "yes"
    BY <2>2 DEF RunsFrom, RowKnows, Metas
  <2> QED
    BY <2>2, <2>3, <2>4
<1> QED
  BY <1>1, DeployInvHolds, PTL
=============================================================================
