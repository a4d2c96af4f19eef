---------------------------- MODULE ModelLibrary ----------------------------
(***************************************************************************)
(* Model roots of a node, the models (artifacts) and where they lie        *)
(* (locations): api/model_browser_handlers.go, artifact_handlers.go,       *)
(* model_location_handlers.go, model_location_eligibility.go, the proxies  *)
(* of agent_proxy_handlers.go with the agent's file browser and scanner    *)
(* (cmd/agent/main.go), and what a deployment and its start ask of them.   *)
(*                                                                         *)
(* One node.  A path is the sequence of its components.  A handler is its  *)
(* reads and its last write, as two steps; the statements before the last  *)
(* write only read, and one step stands for all of them.  Constraints of   *)
(* the schema make a write fail.  Rows get fresh IDs.                      *)
(***************************************************************************)
EXTENDS ModelScanner

CONSTANTS
    Artifacts, Locations, Roots, Deployments,    \* IDs, used once each
    Names,                 \* of artifacts
    NodeTenant,            \* tenant of the node at the start
    Users,                 \* [tenant, admin]
    ModelDir,              \* the directory that holds a model
    PlainDirs,             \* the other directories of the node
    Links,                 \* symbolic links: a function from paths to paths
    ServerDirs,            \* directories of the server's own machine
    Requests,              \* slots for requests that run at the same time
    Workloads,             \* what is sent to the server, see below
    DirsOf(_)              \* what may lie in ModelDir, by a workload's name for it

\* Kinds of requests.
Ops == {"root-add", "root-patch", "root-delete", "artifact-create", "artifact-patch", "artifact-delete",
        "discover", "location-create", "location-patch", "location-delete", "rescan", "attest",
        "scan", "browse", "wizard", "deploy", "deploy-patch", "deploy-delete", "start", "transfer"}

(* A workload: its requests and who sends them, what may lie in ModelDir,  *)
(* how the agent may be configured, the paths used, which roots and models *)
(* are known at the start, how many rows are made in all (rows), how many  *)
(* requests run at a time (slots), and whether a count may fail (dbErrors).*)
ASSUME LibraryAssumption ==
    /\ \A u \in Users : u.admin \in BOOLEAN
    /\ ModelDir # <<>> /\ ModelDir \notin PlainDirs
    /\ \A w \in Workloads :
        /\ w.ops \subseteq Ops /\ w.users \subseteq Users /\ w.slots \in Nat /\ w.rows \in Nat /\ w.dbErrors \in BOOLEAN
        /\ DirsOf(w.dirs) \subseteq DirType
        /\ \A c \in w.agents : c.enabled \in BOOLEAN /\ c.runtimeAdd \in BOOLEAN /\ c.follow \in BOOLEAN

VARIABLES
    load,                                       \* the workload of this behaviour
    dir,                                        \* what lies in ModelDir
    agent,                                      \* the agent's model_browser configuration
    nodeTenant,                                 \* nodes.tenant_id
    artifacts, locations, roots, deployments,   \* tables
    used,                                       \* IDs given out so far
    shown,                                      \* the last answer of a scan or of the file browser
    req

tables == <<artifacts, locations, roots, deployments, used>>
world == <<load, dir, agent>>
vars == <<world, nodeTenant, tables, shown, req>>

NoRow == [row |-> "none"]
Rows(t) == {x \in DOMAIN t : t[x] # NoRow}
Idle == [op |-> "none"]
Nothing == [kind |-> "nothing"]
OneAtATime == load.slots = 1      \* no two requests overlap

Statuses == {"verified", "warning", "manually_accepted", "failed"}
Matches == {"exact_match", "manual_attested", "mismatch"}
Formats == {Defaults[p].format : p \in DOMAIN Defaults} \cup {"custom"}
Tasks == {Defaults[p].task : p \in DOMAIN Defaults} \cup {"unknown"}

(* The values of a body.  No handler looks at a status, a match or a       *)
(* format further than these tell apart: "failed", "mismatch" and "custom" *)
(* stand for any other.  The roots known at the start have IDs.            *)
ASSUME BodyAssumption ==
    \A w \in Workloads :
        /\ w.statuses \subseteq Statuses /\ w.matches \subseteq Matches
        /\ \A b \in w.bodies : b.format \in Formats /\ b.path \in Seq(STRING) /\ b.path # <<>>
        /\ \A b \in w.patches : "format" \in DOMAIN b => b.format \in Formats
        /\ \A b \in w.moves : /\ "status" \in DOMAIN b => b.status \in Statuses
                              /\ "match" \in DOMAIN b => b.match \in Matches
        /\ \E at \in [w.known -> Roots] : \A p, q \in w.known : p # q => at[p] # at[q]

(* Paths are sequences of names.                                           *)
ASSUME PathAssumption ==
    /\ ModelDir \in Seq(STRING)
    /\ \A w \in Workloads : /\ w.paths \cup w.known \subseteq Seq(STRING)
                           /\ \A rel \in w.rels : rel.path \in Seq(STRING)

(* A path leads through at most one symbolic link before ModelDir, and the *)
(* names in ModelDir are those of dir: none is a directory of its own.     *)
ASSUME LinkAssumption ==
    /\ \A l \in DOMAIN Links : l \in Seq(STRING) /\ Links[l] \in Seq(STRING) /\ ~IsPrefix(ModelDir, l)
    /\ \A k, l \in DOMAIN Links : IsPrefix(k, l) => k = l
    /\ \A p \in PlainDirs : p # <<>> => Front(p) # ModelDir

(* The type invariant.                                                     *)
TypeOK ==
    /\ load \in Workloads /\ dir \in DirType /\ agent \in load.agents
    /\ used \subseteq Artifacts \cup Locations \cup Roots \cup Deployments
    /\ Rows(artifacts) \cup Rows(locations) \cup Rows(roots) \cup Rows(deployments) \subseteq used
    /\ \A a \in Rows(artifacts) : artifacts[a].name \in Names /\ artifacts[a].format \in Formats
    /\ \A l \in Rows(locations) : locations[l].status \in Statuses /\ locations[l].match \in Matches
    /\ \A x \in Rows(roots) : roots[x].status \in {"enabled", "disabled"}
    /\ \A d \in Rows(deployments) : deployments[d].state \in {"none", "active", "ended"}
    /\ \A r \in Requests : req[r].op \in Ops \cup {"none"}

-----------------------------------------------------------------------------
(* Paths (path/filepath, and the checks of the server and the agent) *)

\* filepath.Clean, of a relative and of an absolute path.
Clean(p) == FoldLeft(LAMBDA acc, c : IF c # ".." \/ acc = <<>> \/ Last(acc) = ".."
                                     THEN Append(acc, c) ELSE Front(acc), <<>>, p)
CleanAbs(p) == FoldLeft(LAMBDA acc, c : IF c # ".." THEN Append(acc, c)
                                        ELSE IF acc = <<>> THEN acc ELSE Front(acc), <<>>, p)
\* filepath.EvalSymlinks.
Real(p) == IF \E l \in DOMAIN Links : IsPrefix(l, p)
           THEN LET l == CHOOSE l \in DOMAIN Links : IsPrefix(l, p)
                IN  Links[l] \o SubSeq(p, Len(l) + 1, Len(p))
           ELSE p

\* os.Stat on the node.
Stat(p) == LET q == Real(p) IN
    IF q = ModelDir \/ q \in PlainDirs THEN "directory"
    ELSE IF q # <<>> /\ Front(q) = ModelDir /\ Last(q) \in dir.files THEN "file" ELSE "missing"

\* pathWithinRoot, and agentPathWithinRoot of the agent: "/" holds only itself.
pathWithinRoot(p, root) == IF root = <<>> THEN p = root ELSE IsPrefix(root, p)

\* defaultDeniedModelRoots; the agent's list is the same unless its
\* configuration has one of its own (agentDeniedModelRoots).
Denied == {<<>>, <<"etc">>, <<"root">>}
IsDenied(p) == \E d \in Denied : pathWithinRoot(p, d)
agentDeniedModelRoots == IF agent.denied = {} THEN Denied ELSE agent.denied
AgentDenies(p) == \E d \in agentDeniedModelRoots : pathWithinRoot(p, d)

\* normalizeAllowedModelRoot looks at the server's machine, not at the node.
RootAllowed(p) == ~IsDenied(p) /\ p \in ServerDirs /\ ~IsDenied(Real(p))

\* safeRelativePath: the relative path of a request, which may be absolute.
safeRelativePath(rel) == rel.abs = FALSE /\ ~IsPrefix(<<"..">>, Clean(rel.path))

\* A path is named like a GGUF file, or contains such a name (artifacts).
IsGguf(p) == p # <<>> /\ Last(p) \in GgufNames
ContainsGguf(p) == \E i \in DOMAIN p : p[i] \in GgufNames

-----------------------------------------------------------------------------
(* Requests *)

At(r, op, pc) == req[r].op = op /\ req[r].pc = pc
Arg(r) == req[r].arg
User(r) == req[r].user
\* tenantScopeCheck and authz.Check...Tenant.
tenantScopeCheck(r, tenant) == User(r).admin \/ tenant = User(r).tenant
Done(r) == req' = [req EXCEPT ![r] = Idle]
Keep == UNCHANGED <<world, nodeTenant>>
\* The reads of a handler: an early return, or the write that follows.
Read(r, ok, saw) ==
    /\ req' = [req EXCEPT ![r] = IF ok THEN [op |-> @.op, pc |-> "write", user |-> @.user, arg |-> @.arg, saw |-> saw]
                                 ELSE Idle]
    /\ Keep /\ UNCHANGED <<tables, shown>>
\* A new ID, of which any will do, unless the workload's rows are used up.
Free(ids) == IF ids \subseteq used \/ Cardinality(used) >= load.rows THEN {} ELSE {CHOOSE x \in ids : x \notin used}

\* SELECT COUNT(*) with the error of Scan ignored: a count that fails is 0.
Counted(found) == {found} \cup (IF load.dbErrors THEN {{}} ELSE {})

\* Inserts draw an ID.
Insert(table, x, row) == [table EXCEPT ![x] = row]

-----------------------------------------------------------------------------
(* Model roots (model_browser_handlers.go) *)

EnabledRoots == {x \in Rows(roots) : roots[x].status = "enabled"}
resolveNodeModelRoot(x) == x \in EnabledRoots

\* HandleAddNodeModelRoot: CheckNodeTenant, then nodeTenant reads the tenant
\* again, then the INSERT.  UNIQUE(node_id, path) sends it on to enabling the
\* row that is there, whichever tenant that has.
RootAddRead(r) ==
    /\ At(r, "root-add", "read")
    /\ Read(r, tenantScopeCheck(r, nodeTenant) /\ RootAllowed(Arg(r).path), NoRow)

RootAddTenant(r) ==
    /\ At(r, "root-add", "write") /\ req[r].saw = NoRow
    /\ Read(r, TRUE, [tenant |-> nodeTenant])

RootAddWrite(r) ==
    /\ At(r, "root-add", "write") /\ req[r].saw # NoRow
    /\ LET there == {x \in Rows(roots) : roots[x].path = Arg(r).path} IN
       IF there = {}
       THEN /\ \E x \in Free(Roots) :
                 /\ roots' = Insert(roots, x, [path |-> Arg(r).path, status |-> "enabled",
                                               source |-> Arg(r).source, tenant |-> req[r].saw.tenant])
                 /\ used' = used \cup {x}
            /\ Done(r)
       ELSE /\ req' = [req EXCEPT ![r].pc = "enable", ![r].saw = there]
            /\ UNCHANGED <<roots, used>>
    /\ Keep /\ UNCHANGED <<artifacts, locations, deployments, shown>>

\* The SELECT and the UPDATE; a row deleted in between is updated as no row.
RootAddEnable(r) ==
    /\ At(r, "root-add", "enable")
    /\ roots' = [x \in Roots |-> IF x \in req[r].saw \cap Rows(roots)
                                 THEN [roots[x] EXCEPT !.status = "enabled"] ELSE roots[x]]
    /\ Done(r) /\ Keep /\ UNCHANGED <<artifacts, locations, deployments, used, shown>>

\* HandlePatchNodeModelRoot: only an enabled root is found.
RootPatchRead(r) ==
    /\ At(r, "root-patch", "read")
    /\ LET x == Arg(r).root IN
       Read(r, roots[x] # NoRow /\ resolveNodeModelRoot(x) /\ tenantScopeCheck(r, roots[x].tenant), {})

RootPatchWrite(r) ==
    /\ At(r, "root-patch", "write")
    /\ LET x == Arg(r).root IN
       roots' = IF roots[x] = NoRow THEN roots ELSE [roots EXCEPT ![x].status = Arg(r).status]
    /\ Done(r) /\ Keep /\ UNCHANGED <<artifacts, locations, deployments, used, shown>>

InRoot(x) == {l \in Rows(locations) : roots[x] # NoRow /\ locations[l].root = roots[x].path}

\* HandleDeleteNodeModelRoot: no location may lie in the root; a root that
\* the configuration brought is disabled only.
RootDeleteRead(r) ==
    /\ At(r, "root-delete", "read")
    /\ LET x == Arg(r).root IN
       \E refs \in Counted(InRoot(x)) :
         Read(r, roots[x] # NoRow /\ resolveNodeModelRoot(x) /\ tenantScopeCheck(r, roots[x].tenant) /\ refs = {}, {x})

RootDeleteWrite(r) ==
    /\ At(r, "root-delete", "write")
    /\ LET x == Arg(r).root IN
       roots' = [roots EXCEPT ![x] = IF @ # NoRow /\ @.source = "config"
                                     THEN [@ EXCEPT !.status = "disabled"] ELSE NoRow]
    /\ Done(r) /\ Keep /\ UNCHANGED <<artifacts, locations, deployments, used, shown>>

-----------------------------------------------------------------------------
(* Artifacts (artifact_handlers.go) *)

allowedTaskTypes == {"chat", "completion", "embedding", "rerank", "vision_chat", "adapter", "unknown"}
allowedCapabilities == {"chat", "completion", "embedding", "rerank", "vision", "tool_calling", "structured_output"}
allowedTestModes == {"", "auto", "chat", "completion", "embedding", "rerank"}

\* Every capability the user names counts as the user's own, unless it was probed.
normalizeCapabilitySources(caps, sources) ==
    [c \in caps \cup DOMAIN sources |->
        IF c \in caps /\ (c \notin DOMAIN sources \/ sources[c] \in {"inferred", "scan", ""})
        THEN "user_override" ELSE sources[c]]

NoSources == [c \in {} |-> ""]
NewArtifact(r, b) ==
    [name |-> b.name, tenant |-> User(r).tenant, path |-> b.path, format |-> b.format, task |-> b.task,
     caps |-> b.caps, sources |-> NoSources, params |-> "none"]
NameFree(n) == \A a \in Rows(artifacts) : artifacts[a].name # n     \* name UNIQUE, over all tenants
Creatable(b) == (b.format = "gguf" => ContainsGguf(b.path)) /\ b.task \in allowedTaskTypes

\* HandleCreateArtifact.
ArtifactCreate(r) ==
    /\ At(r, "artifact-create", "read")
    /\ \/ /\ Creatable(Arg(r)) /\ NameFree(Arg(r).name)
          /\ \E a \in Free(Artifacts) :
               artifacts' = Insert(artifacts, a, NewArtifact(r, Arg(r))) /\ used' = used \cup {a}
       \/ ~(Creatable(Arg(r)) /\ NameFree(Arg(r).name)) /\ UNCHANGED <<artifacts, used>>
    /\ Done(r) /\ Keep /\ UNCHANGED <<locations, roots, deployments, shown>>

\* HandlePatchArtifact.  b: the fields of the body, and in b.raw those whose
\* values are no text.  strVal passes these over, so that the old value is
\* checked in their place; what is stored is the value of the body.
Or(b, f, old) == IF f \in DOMAIN b THEN b[f] ELSE old
strVal(b, f, old) == IF f \in DOMAIN b /\ f \notin Or(b, "raw", {}) THEN b[f] ELSE old
PatchValid_Body(old, b) ==
    /\ "format" \in DOMAIN b => (strVal(b, "format", old.format) = "gguf" => ContainsGguf(strVal(b, "path", old.path)))
    /\ strVal(b, "task", "chat") \in allowedTaskTypes
    /\ Or(b, "caps", {}) \subseteq allowedCapabilities
    /\ Or(b, "mode", "") \in allowedTestModes
PatchValid(old, b) ==
    /\ strVal(b, "format", old.format) = "gguf" => ContainsGguf(strVal(b, "path", old.path))
    /\ strVal(b, "task", "chat") \in allowedTaskTypes
    /\ Or(b, "caps", {}) \subseteq allowedCapabilities
    /\ Or(b, "mode", "") \in allowedTestModes

ArtifactPatchRead_AnyTenant(r) ==
    /\ At(r, "artifact-patch", "read")
    /\ LET old == artifacts[Arg(r).artifact] IN Read(r, old # NoRow /\ PatchValid(old, Arg(r).body), old)
ArtifactPatchRead(r) ==
    /\ At(r, "artifact-patch", "read")
    /\ LET old == artifacts[Arg(r).artifact] IN
       Read(r, old # NoRow /\ tenantScopeCheck(r, old.tenant) /\ PatchValid(old, Arg(r).body), old)

\* capability_set_json is rewritten as a whole, from what was read.
CapabilitySet(old, b) ==
    [caps |-> Or(b, "caps", old.caps), params |-> Or(b, "params", old.params),
     sources |-> LET s == Or(b, "sources", old.sources) IN
                 IF "caps" \in DOMAIN b THEN normalizeCapabilitySources(b.caps, s) ELSE s]

Patched(row, old, b) ==
    LET set == IF DOMAIN b \cap {"caps", "sources", "params"} = {} THEN row ELSE CapabilitySet(old, b) IN
    [row EXCEPT !.path = Or(b, "path", @), !.format = Or(b, "format", @), !.task = Or(b, "task", @),
                !.caps = set.caps, !.sources = set.sources, !.params = set.params]

ArtifactPatchWrite(r) ==
    /\ At(r, "artifact-patch", "write")
    /\ LET a == Arg(r).artifact IN
       artifacts' = IF artifacts[a] = NoRow THEN artifacts
                    ELSE [artifacts EXCEPT ![a] = Patched(@, req[r].saw, Arg(r).body)]
    /\ Done(r) /\ Keep /\ UNCHANGED <<locations, roots, deployments, used, shown>>

LocationsOf(a) == {l \in Rows(locations) : locations[l].artifact = a}

\* HandleDeleteArtifact: the rest is one transaction.
ArtifactDeleteRead(r) ==
    /\ At(r, "artifact-delete", "read")
    /\ LET old == artifacts[Arg(r).artifact] IN Read(r, old # NoRow /\ tenantScopeCheck(r, old.tenant), {})

ArtifactDeleteWrite(r) ==
    /\ At(r, "artifact-delete", "write")
    /\ LET a == Arg(r).artifact IN
       IF \E d \in Rows(deployments) : deployments[d].artifact = a
       THEN UNCHANGED <<artifacts, locations>>
       ELSE /\ locations' = [l \in Locations |-> IF l \in LocationsOf(a) THEN NoRow ELSE locations[l]]
            /\ artifacts' = [artifacts EXCEPT ![a] = NoRow]
    /\ Done(r) /\ Keep /\ UNCHANGED <<roots, deployments, used, shown>>

\* HandleDiscoverArtifact: one transaction with the model and its location.
\* No root is asked for, path, format and task of the body are not checked,
\* and nothing of a scan is kept with the location.
Discovered(r, a) ==
    [artifact |-> a, root |-> Front(Arg(r).path), abs |-> Arg(r).path, status |-> "verified",
     match |-> "exact_match", tenant |-> User(r).tenant, type |-> Arg(r).type, meta |-> "none"]
Discover(r) ==
    /\ At(r, "discover", "read")
    /\ LET ok == NameFree(Arg(r).name) /\ Arg(r).node = "known" IN   \* node_id REFERENCES nodes
       \/ /\ ok
          /\ \E a \in Free(Artifacts), l \in Free(Locations) :
               /\ artifacts' = Insert(artifacts, a, NewArtifact(r, Arg(r)))
               /\ locations' = Insert(locations, l, Discovered(r, a))
               /\ used' = used \cup {a, l}
       \/ ~ok /\ UNCHANGED <<artifacts, locations, used>>
    /\ Done(r) /\ Keep /\ UNCHANGED <<roots, deployments, shown>>

-----------------------------------------------------------------------------
(* Locations (artifact_handlers.go, model_location_handlers.go) *)

\* resolveModelLocationRequestPath: the root and the path, if both are right.
\* Without a root, the outermost enabled root that holds the path is taken.
Resolved_Root(x, rel) == IF safeRelativePath(rel) THEN {[root |-> roots[x].path, abs |-> roots[x].path]} ELSE {}
Resolved(x, rel) ==
    LET abs == CleanAbs(roots[x].path \o Clean(rel.path)) IN
    IF safeRelativePath(rel) /\ pathWithinRoot(abs, roots[x].path)
    THEN {[root |-> roots[x].path, abs |-> abs]} ELSE {}
Outermost(p) == CHOOSE x \in EnabledRoots :
    /\ pathWithinRoot(p, roots[x].path)
    /\ \A y \in EnabledRoots : pathWithinRoot(p, roots[y].path) => Len(roots[x].path) <= Len(roots[y].path)
resolveModelLocationRequestPath(b) ==
    IF b.by = "root" THEN IF resolveNodeModelRoot(b.root) THEN Resolved(b.root, b.rel) ELSE {}
    ELSE LET p == CleanAbs(b.path) IN
         IF \E x \in EnabledRoots : pathWithinRoot(p, roots[x].path)
         THEN LET x == Outermost(p) IN
              Resolved(x, [abs |-> FALSE, path |-> SubSeq(p, Len(roots[x].path) + 1, Len(p))])
         ELSE {}

\* HandleCreateModelLocation.
LocationCreateRead(r) ==
    /\ At(r, "location-create", "read")
    /\ LET a == artifacts[Arg(r).artifact]
           where == resolveModelLocationRequestPath(Arg(r))
           ok == /\ a # NoRow /\ tenantScopeCheck(r, a.tenant) /\ where # {}
                 /\ a.format = "gguf" => \A w \in where : IsGguf(w.abs) IN
       \E w \in where \cup {NoRow} :
         /\ where # {} => w # NoRow
         /\ Read(r, ok, IF ok THEN [root |-> w.root, abs |-> w.abs, tenant |-> a.tenant] ELSE NoRow)

LocationRow(r, tenant) ==
    LET s == req[r].saw IN
    [artifact |-> Arg(r).artifact, root |-> s.root, abs |-> s.abs, status |-> Arg(r).status,
     match |-> Arg(r).match, tenant |-> tenant, type |-> Arg(r).type, meta |-> Arg(r).meta]
NewLocation(r) == LocationRow(r, req[r].saw.tenant)

\* REFERENCES model_artifacts, UNIQUE(model_artifact_id, node_id, absolute_path).
LocationInsertable_NoKey(row) == \A l \in LocationsOf(row.artifact) : locations[l].abs # row.abs
LocationInsertable(row) ==
    /\ artifacts[row.artifact] # NoRow
    /\ \A l \in LocationsOf(row.artifact) : locations[l].abs # row.abs

LocationCreateWrite(r) ==
    /\ At(r, "location-create", "write")
    /\ LET row == NewLocation(r) IN
       \/ /\ LocationInsertable(row)
          /\ \E l \in Free(Locations) : locations' = Insert(locations, l, row) /\ used' = used \cup {l}
       \/ ~LocationInsertable(row) /\ UNCHANGED <<locations, used>>
    /\ Done(r) /\ Keep /\ UNCHANGED <<artifacts, roots, deployments, shown>>

\* HandlePatchModelLocation: fields of the body go in unchecked.  Disabling
\* names a column that the table does not have: the statement fails.
LocationPatchRead(r) ==
    /\ At(r, "location-patch", "read")
    /\ LET old == locations[Arg(r).location] IN Read(r, old # NoRow /\ tenantScopeCheck(r, old.tenant), {})

LocationPatchWrite(r) ==
    /\ At(r, "location-patch", "write")
    /\ LET l == Arg(r).location
           b == Arg(r).body IN
       locations' = IF locations[l] = NoRow \/ "disabled" \in DOMAIN b THEN locations
                    ELSE [locations EXCEPT ![l].status = Or(b, "status", @), ![l].match = Or(b, "match", @),
                                           ![l].root = Or(b, "root", @), ![l].abs = Or(b, "abs", @)]
    /\ Done(r) /\ Keep /\ UNCHANGED <<artifacts, roots, deployments, used, shown>>

\* The instances of a model on the node that are pending, starting or running.
ActiveOf(a) == {d \in Rows(deployments) : deployments[d].artifact = a /\ deployments[d].state = "active"}

\* HandleDeleteModelLocation.
LocationDeleteRead(r) ==
    /\ At(r, "location-delete", "read")
    /\ LET old == locations[Arg(r).location] IN
       \E active \in Counted(IF old = NoRow THEN {} ELSE ActiveOf(old.artifact)) :
         Read(r, old # NoRow /\ tenantScopeCheck(r, old.tenant) /\ active = {}, {})

LocationDeleteWrite(r) ==
    /\ At(r, "location-delete", "write")
    /\ locations' = [locations EXCEPT ![Arg(r).location] = NoRow]
    /\ Done(r) /\ Keep /\ UNCHANGED <<artifacts, roots, deployments, used, shown>>

\* HandleRescanModelLocation (which touches times only) and HandleAttestModelLocation.
LocationMark(r) ==
    /\ req[r].op \in {"rescan", "attest"}
    /\ LET l == Arg(r).location IN
       locations' = IF req[r].op = "attest" /\ locations[l] # NoRow /\ tenantScopeCheck(r, locations[l].tenant)
                    THEN [locations EXCEPT ![l].status = "manually_accepted", ![l].match = "manual_attested"]
                    ELSE locations
    /\ Done(r) /\ Keep /\ UNCHANGED <<artifacts, roots, deployments, used, shown>>

-----------------------------------------------------------------------------
(* The file browser and the scanner of the node *)

\* The proxies, up to the call of the agent.
ProxyRead(r, op) ==
    /\ At(r, op, "read")
    /\ LET x == Arg(r).root IN
       Read(r, tenantScopeCheck(r, nodeTenant) /\ resolveNodeModelRoot(x) /\ safeRelativePath(Arg(r).rel),
            IF roots[x] = NoRow THEN <<>> ELSE roots[x].path)
HandleProxyNodeFiles(r) == ProxyRead(r, "browse")
HandleProxyNodeModelScan(r) == ProxyRead(r, "scan")

\* agentAllowedModelRoots, with the root that the server sends along.
agentAllowedModelRoots(extra) == agent.roots \cup (IF agent.runtimeAdd THEN {extra} ELSE {})

\* An entry of ModelDir that is a link to a file outside of every root.
LeadsOut(p) == LET q == Real(p) IN q # <<>> /\ Front(q) = ModelDir /\ Last(q) \in dir.linked

\* Links are looked for in the path asked for; the entries of a directory
\* that is scanned are read through whatever they link to.
agentValidateModelPath(root, rel) ==
    LET abs == CleanAbs(root \o Clean(rel.path)) IN
    /\ ~AgentDenies(root) /\ ~AgentDenies(Real(root))
    /\ root \in agentAllowedModelRoots(root)
    /\ safeRelativePath(rel)
    /\ pathWithinRoot(abs, root)
    /\ agent.follow \/ (pathWithinRoot(Real(abs), root) /\ ~LeadsOut(abs))

\* ScanModelPath.
EmptyDir == [dir EXCEPT !.files = {}]
ScanModelPath(abs) ==
    CASE Stat(abs) = "missing" -> {}
      [] Stat(abs) = "directory" -> scanDirectory(abs, IF Real(abs) = ModelDir THEN dir ELSE EmptyDir)
      [] OTHER -> scanSingleFile(abs, dir)

Answer(r, kind, found) ==
    shown' = [kind |-> kind, root |-> Arg(r).root, under |-> req[r].saw,
              abs |-> CleanAbs(req[r].saw \o Clean(Arg(r).rel.path)), found |-> found]

Asked(r, op) == At(r, op, "write") /\ agent.enabled /\ agentValidateModelPath(req[r].saw, Arg(r).rel)
\* POST /model-paths/scan.  Without candidates the answer is an error.
AgentScan(r) ==
    /\ Asked(r, "scan")
    /\ LET found == ScanModelPath(CleanAbs(req[r].saw \o Clean(Arg(r).rel.path))) IN
       IF found = {} THEN UNCHANGED shown ELSE Answer(r, "scan", found)
    /\ Done(r) /\ Keep /\ UNCHANGED tables

Entries(abs) == IF Real(abs) = ModelDir THEN dir.files ELSE {}
\* GET /files: the first MaxEntries names.
AgentFiles(r) ==
    /\ Asked(r, "browse")
    /\ LET abs == CleanAbs(req[r].saw \o Clean(Arg(r).rel.path)) IN
       /\ Stat(abs) = "directory"
       /\ \E names \in SUBSET Entries(abs) :
            /\ Cardinality(names) = (IF Cardinality(Entries(abs)) < agent.max THEN Cardinality(Entries(abs)) ELSE agent.max)
            /\ Answer(r, "browse", names)
    /\ Done(r) /\ Keep /\ UNCHANGED tables

\* The agent refuses, has no such directory, or cannot be reached.
AgentRefuses(r) ==
    /\ req[r].op \in {"scan", "browse"} /\ req[r].pc = "write"
    /\ Done(r) /\ Keep /\ UNCHANGED <<tables, shown>>

-----------------------------------------------------------------------------
(* The console's wizard: it creates the model of a candidate it was shown, *)
(* and then the location, with two requests; the user may leave between.   *)
WizardCreate(r) ==
    /\ At(r, "wizard", "read")
    /\ LET c == Arg(r).cand
           b == [name |-> Arg(r).name, path |-> c.path, format |-> c.format, task |-> c.task, caps |-> c.caps]
           at == [artifact |-> "", by |-> "root", root |-> Arg(r).root, type |-> c.type,
                  rel |-> [abs |-> FALSE, path |-> SubSeq(c.path, Len(Arg(r).under) + 1, Len(c.path))],
                  status |-> "verified", match |-> "exact_match", meta |-> IF c.deployable THEN "yes" ELSE "no"] IN
       \/ /\ Creatable(b) /\ NameFree(b.name)
          /\ \E a \in Free(Artifacts) :
               /\ artifacts' = Insert(artifacts, a, NewArtifact(r, b)) /\ used' = used \cup {a}
               /\ \/ req' = [req EXCEPT ![r] = [op |-> "location-create", pc |-> "read", user |-> @.user,
                                                arg |-> [at EXCEPT !.artifact = a]]]
                  \/ Done(r)
       \/ ~(Creatable(b) /\ NameFree(b.name)) /\ Done(r) /\ UNCHANGED <<artifacts, used>>
    /\ Keep /\ UNCHANGED <<locations, roots, deployments, shown>>

-----------------------------------------------------------------------------
(* Deployments, as far as models are concerned *)

\* findDeployableModelLocation.
Deployable(a) == {l \in LocationsOf(a) :
    /\ locations[l].status \in {"verified", "warning", "manually_accepted"}
    /\ locations[l].match \in {"exact_match", "probable_match", "manual_attested"}}

\* HandleCreateDeployment; model_artifact_id REFERENCES model_artifacts.
DeployRead(r) ==
    /\ At(r, "deploy", "read")
    /\ Read(r, artifacts[Arg(r).artifact] # NoRow /\ Deployable(Arg(r).artifact) # {}, {})

DeployWrite(r) ==
    /\ At(r, "deploy", "write")
    /\ LET ok == artifacts[Arg(r).artifact] # NoRow IN
       \/ /\ ok
          /\ \E d \in Free(Deployments) :
               /\ deployments' = Insert(deployments, d, [artifact |-> Arg(r).artifact, tenant |-> User(r).tenant,
                                                         state |-> "none", from |-> NoRow])
               /\ used' = used \cup {d}
       \/ ~ok /\ UNCHANGED <<deployments, used>>
    /\ Done(r) /\ Keep /\ UNCHANGED <<artifacts, locations, roots, shown>>

\* HandlePatchDeployment, of its model: neither the state of the deployment
\* nor the locations of the new model are looked at.
DeployPatchRead(r) ==
    /\ At(r, "deploy-patch", "read")
    /\ LET d == deployments[Arg(r).deployment] IN Read(r, d # NoRow /\ tenantScopeCheck(r, d.tenant), {})

DeployPatchWrite(r) ==
    /\ At(r, "deploy-patch", "write")
    /\ LET d == Arg(r).deployment IN
       deployments' = IF deployments[d] = NoRow \/ artifacts[Arg(r).artifact] = NoRow THEN deployments
                      ELSE [deployments EXCEPT ![d].artifact = Arg(r).artifact]
    /\ Done(r) /\ Keep /\ UNCHANGED <<artifacts, locations, roots, used, shown>>

\* HandleDeleteDeployment: the instances go with it, whatever their state.
DeployDeleteRead(r) ==
    /\ At(r, "deploy-delete", "read")
    /\ LET d == deployments[Arg(r).deployment] IN Read(r, d # NoRow /\ tenantScopeCheck(r, d.tenant), {})

DeployDeleteWrite(r) ==
    /\ At(r, "deploy-delete", "write")
    /\ deployments' = [deployments EXCEPT ![Arg(r).deployment] = NoRow]
    /\ Done(r) /\ Keep /\ UNCHANGED <<artifacts, locations, roots, used, shown>>

\* The preflight of a start: a location from which the model may be deployed
\* is found, then read a second time, where the scan that was stored with it
\* may say no; a location that is gone by then counts as deployable.  Other
\* checks may refuse as well.
StartRead(r) ==
    /\ At(r, "start", "read")
    /\ LET d == deployments[Arg(r).deployment] IN
       \/ /\ d # NoRow /\ tenantScopeCheck(r, d.tenant) /\ d.state # "active"
          /\ \E l \in Deployable(d.artifact) :
               Read(r, TRUE, [loc |-> l, row |-> locations[l], model |-> d.artifact,
                              task |-> artifacts[d.artifact].task, again |-> "not yet"])
       \/ Read(r, FALSE, NoRow)

StartCheck_AnyModel(r) ==
    /\ At(r, "start", "write") /\ req[r].saw.again = "not yet"
    /\ Read(r, TRUE, [req[r].saw EXCEPT !.again = IF locations[req[r].saw.loc] = NoRow THEN "gone" ELSE "there"])
StartCheck(r) ==
    /\ At(r, "start", "write") /\ req[r].saw.again = "not yet"
    /\ LET now == locations[req[r].saw.loc] IN
       Read(r, now = NoRow \/ now.meta # "no", [req[r].saw EXCEPT !.again = IF now = NoRow THEN "gone" ELSE "there"])

\* The transaction fails when the deployment is gone.
StartWrite(r) ==
    /\ At(r, "start", "write") /\ req[r].saw.again # "not yet"
    /\ LET d == Arg(r).deployment IN
       deployments' = IF deployments[d] = NoRow THEN deployments
                      ELSE [deployments EXCEPT ![d].state = "active", ![d].from = req[r].saw]
    /\ Done(r) /\ Keep /\ UNCHANGED <<artifacts, locations, roots, used, shown>>

\* The instance stops, or fails.
InstanceEnds(d) ==
    /\ d \in Rows(deployments) /\ deployments[d].state = "active"
    /\ deployments' = [deployments EXCEPT ![d].state = "ended"]
    /\ Keep /\ UNCHANGED <<artifacts, locations, roots, used, shown, req>>

\* HandleTransfer: the node and its GPUs change tenant, the roots do not.
TransferRead(r) ==
    /\ At(r, "transfer", "read")
    /\ Read(r, tenantScopeCheck(r, nodeTenant) /\ \A d \in Rows(deployments) : deployments[d].state # "active", {})

TransferWrite(r) ==
    /\ At(r, "transfer", "write")
    /\ nodeTenant' = Arg(r).tenant
    /\ Done(r) /\ UNCHANGED <<world, tables, shown>>

-----------------------------------------------------------------------------
\* The requests a workload sends.
Accept(r, op, args) ==
    /\ req[r] = Idle /\ op \in load.ops
    /\ Cardinality({q \in Requests : req[q] # Idle}) < load.slots
    /\ \E u \in load.users, a \in args : req' = [req EXCEPT ![r] = [op |-> op, pc |-> "read", user |-> u, arg |-> a]]
    /\ Keep /\ UNCHANGED <<tables, shown>>

CandidatesOnDisk == scanDirectory(ModelDir, dir)
ToDiscover == {[name |-> n, path |-> c.path, format |-> c.format, task |-> c.task, caps |-> c.caps,
                type |-> c.type, node |-> k] :
                  n \in Names, c \in CandidatesOnDisk \cup load.bodies, k \in {"known", "unknown"}}
LocationArgs ==
    {[artifact |-> a, by |-> "root", root |-> x, rel |-> rel, path |-> <<>>, type |-> "directory",
      status |-> s, match |-> m, meta |-> "none"] :
        a \in Artifacts \cap used, x \in Roots \cap used, rel \in load.rels, s \in load.statuses, m \in load.matches}
    \cup {[artifact |-> a, by |-> "path", root |-> "none", rel |-> [abs |-> FALSE, path |-> <<>>], path |-> p,
           type |-> "directory", status |-> s, match |-> m, meta |-> "none"] :
             a \in Artifacts \cap used, p \in load.paths, s \in load.statuses, m \in load.matches}
ShownCandidates == IF shown.kind = "scan"
                   THEN {[name |-> n, cand |-> c, root |-> shown.root, under |-> shown.under] :
                            n \in Names, c \in shown.found}
                   ELSE {}

AcceptAny(r) ==
    \/ Accept(r, "root-add", {[path |-> p, source |-> s] : p \in load.paths, s \in {"user", "config"}})
    \/ Accept(r, "root-patch", {[root |-> x, status |-> s] : x \in Roots \cap used, s \in {"enabled", "disabled"}})
    \/ Accept(r, "root-delete", {[root |-> x] : x \in Roots \cap used})
    \/ Accept(r, "artifact-create", {[name |-> n, path |-> p, format |-> f, task |-> "chat", caps |-> {}] :
                                        n \in Names, p \in load.paths, f \in {"gguf", "custom"}})
    \/ Accept(r, "artifact-patch", {[artifact |-> a, body |-> b] : a \in Artifacts \cap used, b \in load.patches})
    \/ Accept(r, "artifact-delete", {[artifact |-> a] : a \in Artifacts \cap used})
    \/ Accept(r, "discover", ToDiscover)
    \/ Accept(r, "location-create", LocationArgs)
    \/ Accept(r, "location-patch", {[location |-> l, body |-> b] : l \in Locations \cap used, b \in load.moves})
    \/ Accept(r, "location-delete", {[location |-> l] : l \in Locations \cap used})
    \/ \E op \in {"rescan", "attest"} : Accept(r, op, {[location |-> l] : l \in Locations \cap used})
    \/ \E op \in {"scan", "browse"} : Accept(r, op, {[root |-> x, rel |-> rel] : x \in Roots \cap used, rel \in load.rels})
    \/ Accept(r, "wizard", ShownCandidates)
    \/ Accept(r, "deploy", {[artifact |-> a] : a \in Artifacts \cap used})
    \/ Accept(r, "deploy-patch", {[deployment |-> d, artifact |-> a] : d \in Deployments \cap used, a \in Artifacts \cap used})
    \/ \E op \in {"deploy-delete", "start"} : Accept(r, op, {[deployment |-> d] : d \in Deployments \cap used})
    \/ Accept(r, "transfer", {[tenant |-> u.tenant] : u \in load.users})

Init ==
    /\ load \in Workloads /\ dir \in DirsOf(load.dirs) /\ agent \in load.agents /\ nodeTenant = NodeTenant
    /\ artifacts = [a \in Artifacts |-> NoRow] /\ locations = [l \in Locations |-> NoRow]
    /\ LET at == CHOOSE f \in [load.known -> Roots] : \A p, q \in load.known : p # q => f[p] # f[q] IN
         \* roots that were added before
         /\ roots = [x \in Roots |-> IF \E p \in load.known : at[p] = x
                                     THEN [path |-> CHOOSE p \in load.known : at[p] = x, status |-> "enabled",
                                           source |-> "user", tenant |-> NodeTenant]
                                     ELSE NoRow]
         /\ used = {at[p] : p \in load.known}
    /\ deployments = [d \in Deployments |-> NoRow]
    /\ shown = Nothing /\ req = [r \in Requests |-> Idle]

Serve(r) ==
    \/ RootAddRead(r) \/ RootAddTenant(r) \/ RootAddWrite(r) \/ RootAddEnable(r)
    \/ RootPatchRead(r) \/ RootPatchWrite(r) \/ RootDeleteRead(r) \/ RootDeleteWrite(r)
    \/ ArtifactCreate(r) \/ ArtifactPatchRead(r) \/ ArtifactPatchWrite(r)
    \/ ArtifactDeleteRead(r) \/ ArtifactDeleteWrite(r) \/ Discover(r)
    \/ LocationCreateRead(r) \/ LocationCreateWrite(r) \/ LocationPatchRead(r) \/ LocationPatchWrite(r)
    \/ LocationDeleteRead(r) \/ LocationDeleteWrite(r) \/ LocationMark(r)
    \/ HandleProxyNodeFiles(r) \/ HandleProxyNodeModelScan(r) \/ AgentScan(r) \/ AgentFiles(r) \/ AgentRefuses(r)
    \/ WizardCreate(r) \/ DeployRead(r) \/ DeployWrite(r) \/ DeployPatchRead(r) \/ DeployPatchWrite(r)
    \/ DeployDeleteRead(r) \/ DeployDeleteWrite(r) \/ StartRead(r) \/ StartCheck(r) \/ StartWrite(r)
    \/ TransferRead(r) \/ TransferWrite(r)

Next ==
    \/ \E r \in Requests : AcceptAny(r) \/ Serve(r)
    \/ \E d \in Deployments : InstanceEnds(d)

Spec == Init /\ [][Next]_vars

-----------------------------------------------------------------------------
(* Properties *)

(* A location and a deployment refer to a model that exists, however       *)
(* deletions, creations and the PATCH of a deployment overlap.             *)
NoDanglingRows ==
    /\ \A l \in Rows(locations) : artifacts[locations[l].artifact] # NoRow
    /\ \A d \in Rows(deployments) : artifacts[deployments[d].artifact] # NoRow

(* A location belongs to the tenant of its model, whoever created it.      *)
LocationOfModelsTenant ==
    \A l \in Rows(locations) : locations[l].tenant = artifacts[locations[l].artifact].tenant

(* A request of an ordinary user changes only rows of the user's tenant,   *)
(* however requests overlap.  After a transfer of the node, its roots keep *)
(* the old tenant, and adding a root again enables the row that is there;  *)
(* a transfer between the two reads of the node's tenant makes a root of   *)
(* the new tenant.                                                         *)
Owner(old, new) == (IF old = NoRow THEN new ELSE old).tenant
Reenabled(r, x) == At(r, "root-add", "enable") /\ roots[x] # NoRow /\ roots'[x] = [roots[x] EXCEPT !.status = "enabled"]
TenantConfined ==
    [][\A r \in Requests :
         req[r] # Idle /\ req'[r] # req[r] /\ ~User(r).admin =>
           /\ \A a \in Artifacts : artifacts'[a] # artifacts[a] => Owner(artifacts[a], artifacts'[a]) = User(r).tenant
           /\ \A l \in Locations : locations'[l] # locations[l] => Owner(locations[l], locations'[l]) = User(r).tenant
           /\ \A d \in Deployments : deployments'[d] # deployments[d] => Owner(deployments[d], deployments'[d]) = User(r).tenant
           /\ \A x \in Roots : roots'[x] # roots[x] /\ (OneAtATime \/ "transfer" \notin load.ops) =>
                \/ Owner(roots[x], roots'[x]) = User(r).tenant
                \/ "transfer" \in load.ops /\ Reenabled(r, x)]_vars

\* What a step must not do: remove a root with locations in it,
KeepsUsedRoots ==
    \A x \in Rows(roots) : roots'[x] = NoRow => \A l \in Rows(locations) : locations[l].root # roots[x].path

\* remove the location that an active instance was started from (as long as
\* no PATCH gave its deployment another model),
StartedFrom(l) == {d \in Rows(deployments) :
    /\ deployments[d].state = "active" /\ deployments[d].from.loc = l
    /\ deployments[d].artifact = deployments[d].from.model}
KeepsUsedLocations == \A l \in Rows(locations) : locations'[l] = NoRow => StartedFrom(l) = {}

\* put a location of HandleCreateModelLocation outside the enabled roots,
\* also when the path has dots in it,
LocatesUnderRoots ==
    \A r \in Requests : At(r, "location-create", "write") =>
        \A l \in Locations : locations'[l] # locations[l] =>
            \E x \in EnabledRoots : roots[x].path = locations'[l].root /\ IsPrefix(roots[x].path, locations'[l].abs)

\* leave a model of format gguf with a path without .gguf in it, whichever
\* of the two a patch changes (discovery and values that are no text go
\* unchecked),
GgufIsFile(row) == row # NoRow /\ row.format = "gguf" => ContainsGguf(row.path)
Unchecked(r) ==
    \/ At(r, "discover", "read")
    \/ At(r, "artifact-patch", "write") /\ "raw" \in DOMAIN Arg(r).body
KeepsGgufFiles ==
    (\A r \in Requests : ~Unchecked(r)) =>
        \A a \in Artifacts : GgufIsFile(artifacts[a]) => GgufIsFile(artifacts'[a])

\* or change parts of a capability set that no patch of the model names,
\* although capability_set_json is written as a whole: naming capabilities
\* changes their sources too.
NamedParts(a) ==
    UNION {DOMAIN Arg(r).body : r \in {q \in Requests : At(q, "artifact-patch", "write") /\ Arg(q).artifact = a}}
KeepsTheRest ==
    \A a \in Rows(artifacts) : artifacts'[a] # NoRow =>
        /\ artifacts'[a].caps # artifacts[a].caps => "caps" \in NamedParts(a)
        /\ artifacts'[a].params # artifacts[a].params => "params" \in NamedParts(a)
        /\ artifacts'[a].sources # artifacts[a].sources => NamedParts(a) \cap {"caps", "sources"} # {}

(* No sequence of requests removes what is in use, leads out of the        *)
(* enabled roots, or changes more than it names.  The handlers check with  *)
(* SELECTs before they write and take a count that fails for 0, so that    *)
(* this holds while no two requests overlap and no count fails.            *)
WritesSound ==
    [][OneAtATime /\ ~load.dbErrors =>
         /\ KeepsUsedRoots /\ KeepsUsedLocations /\ LocatesUnderRoots
         /\ KeepsGgufFiles /\ KeepsTheRest]_vars

(* The generic chat candidate of a directory is shown only when nothing    *)
(* else but GGUF files was found, and a candidate is selected for the user *)
(* exactly when it is the only one.                                        *)
GenericIsLastResort ==
    shown.kind = "scan" =>
        /\ (\E c \in shown.found : c.format = "huggingface" /\ c.task = "chat") =>
             \A c \in shown.found : c.task = "chat" /\ c.format \in {"huggingface", "gguf"}
        /\ \A c \in shown.found : c.auto <=> shown.found = {c}

(* What the scanner calls deployable, the server lets the user register:   *)
(* the lists of tasks and capabilities of agent and server agree on it.    *)
DeployableIsRegistrable ==
    shown.kind = "scan" =>
        \A c \in shown.found : c.deployable =>
            c.task \in allowedTaskTypes /\ c.caps \subseteq allowedCapabilities /\ c.mode \in allowedTestModes

(* The quantization of a GGUF file is a type of its tensors with more than *)
(* a quarter of the tensors of the most frequent type, and f16 or f32 only *)
(* when no quantized type has that many.  Comments at gguf_reader.go:343   *)
(* and 398 promise the most common quantized type; the code takes the      *)
(* first that has enough, in the order of a Go map.                        *)
QuantizationIsInFile ==
    shown.kind = "scan" =>
        \A c \in shown.found : c.format = "gguf" /\ dir.headers[Last(c.path)].valid /\ dir.headers[Last(c.path)].tensors # <<>> =>
            LET ts == dir.headers[Last(c.path)].tensors
                Frequent(t) == \A u \in TensorTypes : 4 * CountOf(ts, t) > CountOf(ts, u) IN
            \A q \in c.quants :
                /\ \E t \in TensorTypes : q \in {t, Canonical[t]} /\ Frequent(t)
                /\ q \in FloatTypes => \A t \in QuantizedTypes : ~Frequent(t)

(* No PATCH names the task of a model or the path of a location: neither   *)
(* is followed by a new scan, so that what is stored of the old one stays. *)
AsScanned ==
    /\ \A b \in load.patches : "task" \notin DOMAIN b
    /\ \A b \in load.moves : "abs" \notin DOMAIN b

(* A candidate that a scan of the path p finds at p itself, with the task. *)
FoundAt(p, task) == {c \in ScanModelPath(p) : c.path = p /\ c.task = task}

(* A location the wizard registered lies where a scan finds a model of the *)
(* task that is stored, and says of it what the scan says: from the path   *)
(* shown to root and relative path and back, however roots are disabled,   *)
(* deleted and added again in between.                                     *)
RegisteredAsScanned ==
    AsScanned => \A l \in Rows(locations) :
        locations[l].meta # "none" =>
            \E c \in FoundAt(locations[l].abs, artifacts[locations[l].artifact].task) : c.deployable <=> locations[l].meta = "yes"

(* An instance that was started from a location the wizard registered runs *)
(* a model that the scan of that path calls deployable: an adapter, or a   *)
(* model without a backend, is never started, however requests overlap,    *)
(* unless a PATCH has moved the location or renamed the task, or the       *)
(* location was deleted between the two reads of the start.                *)
OnlyDeployableStarts ==
    AsScanned => \A d \in Rows(deployments) :
        deployments[d].state = "active" /\ deployments[d].from.row.meta # "none" =>
            \E c \in FoundAt(deployments[d].from.row.abs, deployments[d].from.task) :
                c.deployable \/ deployments[d].from.again = "gone"

(* The invariant of the tables: types, rows that refer to rows that exist, *)
(* and locations of the tenant of their model.                             *)
LibraryInv == TypeOK /\ NoDanglingRows /\ LocationOfModelsTenant

(* What the scanner says is sound: the generic candidate is the last       *)
(* resort, what is deployable can be registered, and a quantization is one *)
(* that the file has.                                                      *)
ScanSound == GenericIsLastResort /\ DeployableIsRegistrable /\ QuantizationIsInFile
=============================================================================
