------------------------------ MODULE RunPlan ------------------------------
(***************************************************************************)
(* From a configured runtime to a container: a user previews a deployment  *)
(* (HandleDeploymentPreview), creates it (HandleCreateDeployment), edits   *)
(* its configuration (HandleConfigEditApply) and starts it                 *)
(* (preflightDeployment and the agent spec of HandleStartDeployment),      *)
(* while the runtime of the node is edited and checked again and GPUs come *)
(* and go.  Leases, tasks and instances are ControlPlane's; here a start   *)
(* is what it resolved.                                                    *)
(*                                                                         *)
(* A config set is [items, command, env, image, kind, ports, devices]: the *)
(* items that become parameters, with the value and the enabled state of   *)
(* each, and the effective values of launcher.command, runtime.env,        *)
(* launcher.image, launcher.kind, service.port_binding and                 *)
(* runtime.device_binding.  Its items are a Go map, so every pass over     *)
(* them has an order of its own.                                           *)
(***************************************************************************)
EXTENDS RunPlanArgs

CONSTANTS
  Index,          \* the index of a GPU on its node
  Backend,        \* what the backend declares it can run
  Edits,          \* edits of a config set: <<code, enabled, value>>
  DeviceEdits,    \* edits of runtime.device_binding
  PortEdits,      \* edits of service.port_binding
  Sites           \* where the deployment is made, see below

VARIABLES
  site,      \* the site of this behaviour
  nbr,       \* the row of node_backend_runtimes: [cfg, image, status, probe]
  model,     \* the model to deploy
  body,      \* what the user enters
  dep,       \* the deployment: [cfg, service, placement], None before
  avail,     \* the GPUs whose status is "available"
  preview,   \* the answer of the last preview: [canRun, plan], None before
  starts,    \* the answers of the starts
  edits      \* how many edits were made (bound)

vars == <<site, nbr, model, body, dep, avail, preview, starts, edits>>

\* A site: the backend and its vendor, the node's GPUs, the models, images,
\* runtimes, request bodies and item orders that occur, and the bounds.
Family == site.family      \* "vllm", "sglang" or "llamacpp"
Vendor == site.vendor
Gpus == site.gpus          \* ids of the node's rows in gpu_devices
Images == site.images      \* with the shape of their ENTRYPOINT
Orders == site.orders      \* orders of a pass over the items
MaxEdits == site.edits
MaxStarts == site.starts

Nil == "<nil>"    \* what fmt.Sprint prints of an absent key

adapterFlag(key) ==
  CASE key = "model_runtime.max_model_len" ->
         (CASE Family = "sglang" -> "--context-length"
            [] Family = "llamacpp" -> "--ctx-size"
            [] OTHER -> "--max-model-len")
    [] key = "deployment.served_model_name" ->
         (IF Family = "llamacpp" THEN "" ELSE "--served-model-name")

\* kind and flag in the schema of the items that become parameters; a schema
\* without a flag has no arg_name (omitempty)
Codes == {"service.listen_host", "model_runtime.host", "service.container_port",
          "model_runtime.max_model_len", "deployment.served_model_name",
          "backend.extra_args", "launcher.command", "runtime.env"}
Schema ==
  [c \in Codes |->
     CASE c \in {"service.listen_host", "model_runtime.host"} -> [kind |-> "cli_arg", flag |-> "--host"]
       [] c = "service.container_port" -> [kind |-> "cli_arg", flag |-> "--port"]
       [] c = "model_runtime.max_model_len" -> [kind |-> "cli_arg", flag |-> adapterFlag(c)]
       [] c = "deployment.served_model_name" -> [kind |-> "cli_arg", flag |-> "--served-model-name"]
       [] c = "runtime.env" -> [kind |-> "env", flag |-> None]
       [] OTHER -> [kind |-> "cli_args", flag |-> None]]

configValue(cfg, c) ==
  CASE c = "launcher.command" -> [s |-> "[list]", list |-> cfg.command]
    [] c = "runtime.env" -> Scalar("map[]")
    [] OTHER -> Scalar(cfg.items[c].value)

\* an absent schema field and an absent render key read as "<nil>", so no
\* default for an empty one is ever taken
configItemSchemaField(v) == IF v = None THEN Nil ELSE v

configSetParameterValues(cfg, order) ==
  LET listed == SelectSeq(order, LAMBDA c : ~(Schema[c].kind = "cli_args" /\ configValue(cfg, c).s = ""))
      pv(c) == [key |-> c, target |-> IF Schema[c].kind = "env" THEN "env" ELSE "cli",
                cli |-> configItemSchemaField(Schema[c].flag),
                envName |-> configItemSchemaField(None), style |-> configItemSchemaField(None),
                enabled |-> cfg.items[c].enabled, value |-> configValue(cfg, c)]
  IN  [i \in DOMAIN listed |-> pv(listed[i])]

\* the definitions of the cli_arg items; "required" is not copied
configSetParameterDefs(cfg) ==
  {[name |-> c, cli |-> Nil, required |-> FALSE] : c \in {x \in Codes : Schema[x].kind = "cli_arg"}}

(***************************************************************************)
(* setConfigValue and setConfigEnabled on an item.                         *)
(***************************************************************************)
setConfigValue(cfg, c, v) == [cfg EXCEPT !.items[c] = [enabled |-> TRUE, value |-> v]]

FirstPositive(a, b) == IF a > 0 THEN a ELSE b

(***************************************************************************)
(* materializeDeploymentCompatConfig: the bindings as service_json and     *)
(* placement_json have them.                                               *)
(***************************************************************************)
MaterializeService(cfg, s) ==
  LET port == FirstPositive(s.container, s.app)
      a == [cfg EXCEPT !.ports = [host |-> s.host, container |-> port, listen |-> "0.0.0.0"]]
      b == IF port = 0 THEN a ELSE setConfigValue(a, "service.container_port", ToString(port))
  IN  IF s.served = "" THEN b ELSE setConfigValue(b, "deployment.served_model_name", s.served)

MaterializePlacement(cfg, p) ==
  [cfg EXCEPT !.devices =
     [enabled |-> p.binding # "off", ids |-> p.ids, vendor |-> "", key |-> "", value |-> "",
      mode |-> CASE p.binding = "off" -> "disabled" [] p.ids # <<>> -> "manual" [] OTHER -> "auto"]]

materializeDeploymentCompatConfig(cfg, placement, service) ==
  LET a == IF service = None THEN cfg ELSE MaterializeService(cfg, service)
  IN  IF placement = None THEN a ELSE MaterializePlacement(a, placement)

-----------------------------------------------------------------------------
(***************************************************************************)
(* semanticDeploymentSnapshot and ApplySemanticSnapshot: the service ports *)
(* and the parameters of the deployment layer.                             *)
(***************************************************************************)
SemanticPort(cfg, service) ==
  IF service.container > 0 THEN ToString(service.container) ELSE cfg.items["service.container_port"].value

SemanticParameter(cfg, key, value) ==
  [key |-> key, target |-> "arg", cli |-> adapterFlag(key), envName |-> "",
   style |-> "flag_space_value", enabled |-> cfg.items[key].enabled, value |-> Scalar(value)]

\* upsertParameterValue: the parameter of the same key or flag is replaced
upsertParameterValue(values, next) ==
  LET same == {i \in DOMAIN values : values[i].key = next.key \/ values[i].cli = next.cli}
      first == CHOOSE i \in same : \A j \in same : i <= j
  IN  CASE next.cli = "" -> values
        [] next.cli # "" /\ same # {} -> [values EXCEPT ![first] = next]
        [] OTHER -> Append(values, next)

ApplySemanticSnapshot(cfg, service, values) ==
  LET served == IF service.served # "" THEN service.served
                ELSE cfg.items["deployment.served_model_name"].value
  IN  upsertParameterValue(
        upsertParameterValue(values, SemanticParameter(cfg, "deployment.served_model_name", served)),
        SemanticParameter(cfg, "model_runtime.max_model_len", cfg.items["model_runtime.max_model_len"].value))

PortOf(text) == CHOOSE p \in 0..9 : ToString(p) = text

\* effectiveServiceInfo, effectiveContainerPort and effectiveHostPort: the port
\* binding of the config set before the service
effectiveServiceInfo(cfg, service, semantic) ==
  LET b == cfg.ports
      base == IF semantic > 0 THEN semantic ELSE FirstPositive(service.container, service.app)
      container == IF b # None /\ b.container > 0 THEN b.container ELSE base
      port == FirstPositive(container, 8)
  IN  [app |-> container, container |-> port,
       host |-> IF b # None /\ b.host > 0 THEN b.host ELSE FirstPositive(service.host, port),
       listen |-> IF b # None /\ b.listen # "" THEN b.listen ELSE cfg.items["service.listen_host"].value]

\* buildMounts: the model's directory under /models; an empty path, one that
\* leaves the root ("..") and an absolute one cannot be mounted
modelRelativePath(path) == IF path = "/m" THEN "m" ELSE path

buildMounts(path) ==
  IF modelRelativePath(path) \in {"", "."} \/ path \in {"..", "/m"} THEN {}
  ELSE {[host |-> "root/" \o modelRelativePath(path), container |-> "/models/" \o modelRelativePath(path)]}

\* {{HOST_PORT}} is the service's port, whatever the binding says
buildVarMap(in) ==
  [v \in {"{{MODEL_CONTAINER_PATH}}", "{{HOST_PORT}}"} |->
     IF v = "{{HOST_PORT}}" THEN ToString(FirstPositive(in.hostPort, in.service.container))
     ELSE "/models/" \o modelRelativePath(in.path)]

(***************************************************************************)
(* buildDeviceBinding: the ids of the component when it has some, else the *)
(* indexes of the assigned GPUs.                                           *)
(***************************************************************************)
deviceBindingEnabled(cfg) ==
  IF cfg.devices # None THEN cfg.devices.enabled /\ cfg.devices.mode # "disabled"
  ELSE Vendor \notin {"", "cpu", "none"}

defaultVisibleEnvKey(vendor) ==
  IF vendor \in {"huawei", "ascend"} THEN "ASCEND_VISIBLE_DEVICES" ELSE "CUDA_VISIBLE_DEVICES"

Joined(ids) == FoldLeft(LAMBDA s, x : IF s = "" THEN x ELSE s \o "," \o x, "", ids)

NoDevices == [enabled |-> FALSE, ids |-> <<>>, mode |-> "", vendor |-> "", key |-> "", value |-> ""]

\* the component may name the vendor, the variable and its value
buildDeviceBinding(cfg, assigned) ==
  LET d == IF cfg.devices = None THEN NoDevices ELSE cfg.devices
      on == deviceBindingEnabled(cfg)
      ids == CASE d.ids # <<>> -> d.ids
               [] d.ids = <<>> /\ on -> [i \in DOMAIN assigned |-> Index[assigned[i]]]
               [] OTHER -> <<>>
      key == IF d.key # "" THEN d.key ELSE defaultVisibleEnvKey(IF d.vendor # "" THEN d.vendor ELSE Vendor)
  IN  IF on THEN [enabled |-> ids # <<>>, ids |-> ids, key |-> key,
                  value |-> IF d.value # "" THEN d.value ELSE Joined(ids)]
      ELSE [enabled |-> FALSE, ids |-> <<>>, key |-> key, value |-> ""]

(***************************************************************************)
(* buildEnv: runtime.env, then the env items.  The item runtime.env is one *)
(* of them, its name "<nil>" and its value the printed map.                *)
(***************************************************************************)
Put(f, k, v) == [x \in DOMAIN f \cup {k} |-> IF x = k THEN v ELSE f[x]]

buildEnv(cfg, values, vs) ==
  LET good == {k \in DOMAIN cfg.env : Known(cfg.env[k], vs) /\ cfg.env[k] # ""}
      base == [k \in good |-> Substituted(cfg.env[k], vs)]
      add(env, pv) == IF pv.enabled /\ pv.target = "env" /\ pv.value.s # ""
                      THEN Put(env, IF pv.envName = "" THEN pv.key ELSE pv.envName, pv.value.s)
                      ELSE env
  IN  FoldLeft(add, base, values)

\* a variable that is already set stays
BindEnvKeeping(env, binding) ==
  IF binding.enabled /\ binding.key \notin DOMAIN env THEN Put(env, binding.key, binding.value) ELSE env

\* the visible-devices variable follows the binding; one of another name stays
BindEnv(env, binding) ==
  IF binding.enabled THEN Put(env, binding.key, binding.value)
  ELSE [k \in DOMAIN env \ {binding.key} |-> env[k]]

(***************************************************************************)
(* Resolve.  "in": [cfg, values (of the deployment layer), order, service, *)
(* hostPort, assigned, probe, path].  No plan without docker as the        *)
(* launcher, without an image, or when the model's path is not usable      *)
(* (buildMounts).                                                          *)
(***************************************************************************)
Resolve(in) ==
  LET values == configSetParameterValues(in.cfg, in.order)
      vs == buildVarMap(in)
      built == buildArgs([snapshot |-> [command |-> in.cfg.command, values |-> values,
                                        defs |-> configSetParameterDefs(in.cfg)],
                          values |-> in.values, disabled |-> {}, service |-> in.service], vs)
      prefix == IF in.probe = None THEN <<>> ELSE in.probe.prefix
      binding == buildDeviceBinding(in.cfg, in.assigned)
  IN  IF in.cfg.kind # "docker" \/ in.cfg.image = "" \/ buildMounts(in.path) = {}
      THEN [plan |-> None, errs |-> {<<"no", "plan">>}]
      ELSE [errs |-> built.errs,
            plan |-> [image |-> in.cfg.image,
                      mode |-> IF in.probe = None THEN "config" ELSE in.probe.mode,
                      raw |-> built.raw,
                      args |-> [i \in DOMAIN prefix |-> Token(prefix[i])] \o built.args,
                      env |-> BindEnv(buildEnv(in.cfg, values, vs), binding),
                      host |-> in.service.host, container |-> in.service.container,
                      mounts |-> buildMounts(in.path),
                      devices |-> binding.ids, bound |-> binding.enabled, key |-> binding.key]]

\* auto-assign: the ids of the request, else the first available GPU
Assigned(ids) ==
  IF ids # <<>> THEN {ids}
  ELSE IF avail = {} THEN {<<>>} ELSE {<<g>> : g \in avail}

NoService == [host |-> 0, container |-> 0, app |-> 0, health |-> 0, served |-> ""]
OrNoService(s) == IF s = None THEN NoService ELSE s

Deployable(status) == status \in {"ready", "ready_with_warnings"}

(***************************************************************************)
(* preflightDeployment: the runtime must be deployable, the model must fit *)
(* the backend, and any error of the resolver refuses the start.  The      *)
(* context length is compared with params, which at that point hold the    *)
(* ports only, so there is nothing to compare.                             *)
(***************************************************************************)
validateContextLength(params) ==
  IF params = {} THEN {} ELSE {<<"context_length_exceeded", p>> : p \in {x \in params : x = model.over}}

ResolveStart(cfg, service, ids, o) ==
  LET svc == effectiveServiceInfo(cfg, service, PortOf(SemanticPort(cfg, service)))
  IN  Resolve([cfg |-> cfg, order |-> o, service |-> svc, hostPort |-> service.host, assigned |-> ids,
               values |-> ApplySemanticSnapshot(cfg, [service EXCEPT !.served = ""], <<>>),
               probe |-> nbr.probe, path |-> model.root])

\* the container port is read from the live runtime, not from the deployment
PreflightLive(d, ids, o) ==
  IF Deployable(nbr.status)
  THEN ResolveStart([d.cfg EXCEPT !.items["service.container_port"] = nbr.cfg.items["service.container_port"]],
                    OrNoService(d.service), ids, o)
  ELSE [errs |-> {<<"node_backend_runtime_not_ready", nbr.status>>}, plan |-> None]

preflightDeployment(d, ids, o) ==
  LET code == CheckCompatibility(model, Backend)
      context == validateContextLength({})
      r == ResolveStart(d.cfg, OrNoService(d.service), ids, o)
  IN  CASE ~Deployable(nbr.status) -> [errs |-> {<<"node_backend_runtime_not_ready", nbr.status>>}, plan |-> None]
        [] Deployable(nbr.status) /\ code # "ok" -> [errs |-> context \cup {<<code, model.format>>}, plan |-> None]
        [] OTHER -> [r EXCEPT !.errs = @ \cup context]

\* the agent spec: the plan with the indexes of the leased GPUs, whatever the
\* binding says; without one an NVIDIA container gets every GPU
\* (buildCreateOptions).  Probes go to the service's health port, if it has one.
AgentSpec(plan, ids, service) ==
  [args |-> plan.args, env |-> plan.env, host |-> plan.host, container |-> plan.container, mounts |-> plan.mounts,
   image |-> plan.image, mode |-> plan.mode,
   devices |-> [i \in DOMAIN ids |-> Index[ids[i]]],
   all |-> Vendor = "nvidia" /\ ids = <<>>,
   probePort |-> FirstPositive(service.health, plan.host)]

Lint(plan) == LintRunPlan(<<>>, plan.args, plan.env, "", {}, [e \in DOMAIN plan.env |-> "platform"])

Refused(errs) == [ok |-> FALSE, errs |-> errs]

HandleStartDeployment ==
  /\ dep # None
  /\ Len(starts) < MaxStarts
  /\ \E ids \in Assigned(IF dep.placement = None THEN <<>> ELSE dep.placement.ids), o \in Orders :
       LET pf == preflightDeployment(dep, ids, o)
       IN  starts' = Append(starts, IF pf.errs # {} \/ pf.plan = None THEN Refused(pf.errs)
                     ELSE [ok |-> TRUE, errs |-> {}, plan |-> pf.plan, leased |-> ids, cfg |-> dep.cfg,
                           probe |-> nbr.probe, health |-> OrNoService(dep.service).health,
                           spec |-> AgentSpec(pf.plan, ids, OrNoService(dep.service)),
                           lint |-> Lint(pf.plan)])
  /\ UNCHANGED <<site, nbr, model, body, dep, avail, preview, edits>>

(***************************************************************************)
(* HandleDeploymentPreview: the runtime's parameters are the snapshot's    *)
(* and the deployment's, there is no probe, and an error of the resolver   *)
(* is a warning as long as there is a plan.                                *)
(***************************************************************************)
PreviewIds(p) ==
  IF p # None /\ p.binding = "off" THEN {<<>>} ELSE Assigned(IF p = None THEN <<>> ELSE p.ids)

ResolvePreview(cfg, service, ids, o) ==
  LET svc == effectiveServiceInfo(cfg, [NoService EXCEPT !.host = service.host],
                                  PortOf(SemanticPort(cfg, service)))
  IN  Resolve([cfg |-> cfg, order |-> o, service |-> svc, hostPort |-> service.host, assigned |-> ids,
               values |-> ApplySemanticSnapshot(cfg, service, configSetParameterValues(cfg, o)),
               probe |-> None, path |-> model.root])

HandleDeploymentPreview ==
  /\ dep = None
  /\ preview = None
  /\ \E ids \in PreviewIds(body.placement), o \in Orders :
       LET cfg == materializeDeploymentCompatConfig(nbr.cfg, body.placement, body.service)
           r == ResolvePreview(cfg, OrNoService(body.service), ids, o)
       IN  preview' = IF ~Deployable(nbr.status) THEN [canRun |-> FALSE, plan |-> None]
                      ELSE [canRun |-> r.plan # None, plan |-> r.plan]
  /\ UNCHANGED <<site, nbr, model, body, dep, avail, starts, edits>>

(***************************************************************************)
(* HandleCreateDeployment: the runtime's config set is copied, with the    *)
(* image of its row, and the request is written over it.                   *)
(***************************************************************************)
deploymentConfigSnapshotFromNBR(cfg, image) == IF image = "" THEN cfg ELSE [cfg EXCEPT !.image = image]

\* a request without a placement gets one with the node only
PlacementOf(p) == IF p = None THEN [ids |-> <<>>, binding |-> "absent"] ELSE p

HandleCreateDeployment ==
  /\ dep = None
  /\ Deployable(nbr.status)
  /\ LET cfg == deploymentConfigSnapshotFromNBR(nbr.cfg, nbr.image)
         p == PlacementOf(body.placement)
     IN  dep' = [cfg |-> materializeDeploymentCompatConfig(cfg, p, body.service),
                 service |-> body.service, placement |-> p]
  /\ UNCHANGED <<site, nbr, model, body, avail, preview, starts, edits>>

(***************************************************************************)
(* HandleConfigEditApply on a deployment: configEditObject writes the      *)
(* service and the placement over the stored config set, the patch is      *)
(* applied to that and the result stored.                                  *)
(***************************************************************************)
configEditObject(d) == materializeDeploymentCompatConfig(d.cfg, d.placement, d.service)

ApplyEdit(cfg, e) == [cfg EXCEPT !.items[e[1]] = [enabled |-> e[2], value |-> e[3]]]

EditDeployment(cfg) ==
  /\ edits < MaxEdits
  /\ edits' = edits + 1
  /\ dep' = [dep EXCEPT !.cfg = cfg]
  /\ UNCHANGED <<site, nbr, model, body, avail, preview, starts>>

HandleConfigEditApply ==
  /\ dep # None
  /\ \/ \E e \in Edits : EditDeployment(ApplyEdit(configEditObject(dep), e))
     \/ \E b \in DeviceEdits : EditDeployment([configEditObject(dep) EXCEPT !.devices = b])
     \/ \E b \in PortEdits : EditDeployment([configEditObject(dep) EXCEPT !.ports = b])

\* an edit of the runtime's config set, which must be checked again
EditNodeBackendRuntime ==
  /\ edits < MaxEdits
  /\ edits' = edits + 1
  /\ \E e \in Edits :
       nbr' = [nbr EXCEPT !.cfg = ApplyEdit(@, e), !.status = "needs_check"]
  /\ UNCHANGED <<site, model, body, dep, avail, preview, starts>>

\* processStartConfigFromProbe: only a found candidate is used
processStartConfigFromProbe(image) == DetectProcessStart(Family, image)

HandleNodeRuntimeCheckRequest ==
  /\ nbr.status = "needs_check"
  /\ \E i \in Images :
       nbr' = [nbr EXCEPT !.status = IF i.present THEN "ready" ELSE "image_missing",
                          !.probe = IF i.present THEN processStartConfigFromProbe(i) ELSE None]
  /\ UNCHANGED <<site, model, body, dep, avail, preview, starts, edits>>

\* the node reports its GPUs
GpuStatus ==
  /\ \E g \in Gpus : avail' = (avail \ {g}) \cup ({g} \ avail)
  /\ UNCHANGED <<site, nbr, model, body, dep, preview, starts, edits>>

Init ==
  /\ site \in Sites
  /\ \E cfg \in site.runtimes, i \in Images, image \in {"", "checked"} :
       nbr = [cfg |-> cfg, image |-> image, status |-> "ready",
              probe |-> IF i.present THEN processStartConfigFromProbe(i) ELSE None]
  /\ model \in site.models
  /\ body \in site.bodies
  /\ dep = None
  /\ avail = Gpus
  /\ preview = None
  /\ starts = <<>>
  /\ edits = 0

Next ==
  \/ HandleDeploymentPreview
  \/ HandleCreateDeployment
  \/ HandleStartDeployment
  \/ HandleConfigEditApply
  \/ EditNodeBackendRuntime
  \/ HandleNodeRuntimeCheckRequest
  \/ GpuStatus

Spec == Init /\ [][Next]_vars

-----------------------------------------------------------------------------
Started == {i \in DOMAIN starts : starts[i].ok}

\* A start up to the order of its arguments, without what the last check of the
\* image decides: the mode and the command prefix it found.
Flags == {"--host", "--port", "--max-model-len", "--context-length", "--ctx-size", "--served-model-name"}
PrefixLen(s) == IF s.probe = None THEN 0 ELSE Len(s.probe.prefix)
Reading(s) ==
  LET p == s.plan
      own == SubSeq(p.args, PrefixLen(s) + 1, Len(p.args))
  IN  [flags |-> [f \in Flags |-> ValuesOf(own, f)],
       loose |-> {own[i] : i \in {j \in DOMAIN own : ~IsDash(own[j])}},
       env |-> [k \in DOMAIN p.env \ {p.key} |-> p.env[k]], key |-> p.key,
       host |-> p.host, container |-> p.container, image |-> p.image]

\* Every variable has its type.
TypeOK ==
  /\ site \in Sites
  /\ nbr.status \in {"ready", "needs_check", "image_missing"}
  /\ nbr.cfg.items \in [Codes -> [enabled : BOOLEAN, value : STRING]]
  /\ dep # None => dep.cfg.items \in [Codes -> [enabled : BOOLEAN, value : STRING]]
  /\ avail \subseteq Gpus
  /\ preview # None => preview.canRun \in BOOLEAN
  /\ Len(starts) \in 0..MaxStarts
  /\ edits \in 0..MaxEdits

\* Whatever the items, the service and the edits say, and the launcher commands of
\* the sites, which give a flag and its value as two arguments (setLastFlagValue
\* looks for no other form): the port the backend is told to listen on is the
\* container side of the port mapping, it listens on the configured host, and
\* health probes go to the host side, unless the service names a health port,
\* which nothing compares with the mapping
\* (docs/lightai-backend-runtime-runplan-docker-design.md:96).
ListensWhereMapped ==
  \A i \in Started :
    LET s == starts[i].spec
    IN  /\ ValuesOf(s.args, "--port") = <<Val(ToString(s.container))>>
        /\ ValuesOf(s.args, "--host") = <<Val(IF starts[i].cfg.ports = None
                                              THEN starts[i].cfg.items["service.listen_host"].value
                                              ELSE starts[i].cfg.ports.listen)>>
        /\ starts[i].health \in {0, s.host} => s.probePort = s.host

\* A start resolves the deployment's own copy: two starts of an unedited
\* deployment give the same container up to the order of its arguments, also
\* when the runtime it was copied from was edited and checked between them.
\* What the check finds of the image (mode and command prefix) is read from the
\* live row, although the design document says that nothing is
\* (docs/lightai-backend-runtime-runplan-docker-design.md:48, :103).
FrozenSnapshot ==
  \A i, j \in Started :
    starts[i].cfg = starts[j].cfg
      => /\ Reading(starts[i]) = Reading(starts[j])
         /\ starts[i].plan.mode # starts[j].plan.mode => starts[i].probe # starts[j].probe


\* An accepted start has a value for each parameter that is switched on, unless
\* the launcher command gives its flag: an empty one refuses the start.
NoEmptyParameter ==
  \A i \in Started : \A c \in Codes :
    LET it == starts[i].cfg.items[c]
    IN  Schema[c].kind = "cli_arg" /\ it.enabled /\ it.value = ""
          => \E k \in DOMAIN starts[i].cfg.command : Token(starts[i].cfg.command[k]).flag = Schema[c].flag

\* The model a backend is told to load is at a path that is mounted.
ModelMounted ==
  \A i \in Started : \A k \in DOMAIN starts[i].cfg.command :
    starts[i].cfg.command[k] = "{{MODEL_CONTAINER_PATH}}" =>
      \E m \in starts[i].spec.mounts : Val(m.container) \in {starts[i].spec.args[n] : n \in DOMAIN starts[i].spec.args}

\* What a container is told to see: with the binding on and no ids or value of its
\* own, the variable names exactly the GPUs that Docker is asked for, which are the
\* leased ones, whatever the environment of the runtime said before; with the
\* binding off the variable of the binding is not set.  (A variable of another name
\* stays, and the GPUs of the agent's specification do not follow the binding.)
VisibleAsLeased ==
  \A i \in Started :
    LET p == starts[i].plan
        env == starts[i].spec.env
        d == starts[i].cfg.devices
        own == d # None /\ (d.ids # <<>> \/ d.value # "")
    IN  /\ ~p.bound => p.key \notin DOMAIN env
        /\ p.bound /\ ~own => p.key \in DOMAIN env /\ env[p.key] = Joined(starts[i].spec.devices)

\* What is started is sound: types, a value for every parameter that is on, a
\* visible-devices variable that agrees with the leased GPUs, and a model that is
\* mounted.
PlanInv == TypeOK /\ NoEmptyParameter /\ VisibleAsLeased /\ ModelMounted
=============================================================================
