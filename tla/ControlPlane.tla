----------------------------- MODULE ControlPlane -----------------------------
(***************************************************************************)
(* The server side of a deployment's life: the rows of model_deployments,  *)
(* model_instances, gpu_leases and agent_tasks, and the HTTP handlers that *)
(* read and write them (internal/server/api/deployment_lifecycle_handlers, *)
(* internal/server/api/agent_handlers).                                    *)
(*                                                                         *)
(* A handler that runs inside one SQLite transaction is one action.  A     *)
(* handler that issues several autocommitted statements is a sequence of   *)
(* actions with a program counter in startReq, stopReq or report, so that  *)
(* the other handlers interleave between its statements.                   *)
(*                                                                         *)
(* The agent is an environment here: it may report success or failure of   *)
(* any task it was handed, once, several times or never.                   *)
(***************************************************************************)
EXTENDS Naturals, FiniteSets

CONSTANTS
    Deployments,   \* ids of deployments a user may create
    Instances,     \* ids (uuids) of instances; one is consumed by each start
    Gpus,          \* rows of gpu_devices
    Nodes,
    NodeOf,        \* the node of the deployment's node_backend_runtime
    GpuNode,       \* the node a GPU belongs to
    Placements,    \* values of placement_json: accelerators and a node
    MaxTasks,      \* bound: rows ever inserted into agent_tasks
    MaxFaults,     \* bound: server restarts and failed statements
    ClaimLimit,    \* maxTasks of claimAndReturnTasks (10 in the code)
    StartReqs,     \* concurrent executions of HandleStartDeployment
    StopReqs,      \* concurrent executions of HandleStopDeployment
    Reports,       \* concurrent executions of HandleTaskResult
    None

ASSUME NodeAssumption ==
    /\ NodeOf \in [Deployments -> Nodes]
    /\ GpuNode \in [Gpus -> Nodes]
    /\ Placements \subseteq [accel : SUBSET Gpus, node : Nodes \cup {None}]

ASSUME BoundAssumption ==
    /\ MaxTasks \in Nat
    /\ MaxFaults \in Nat
    /\ ClaimLimit \in Nat \ {0}

ASSUME NoneAssumption ==
    /\ None \notin Deployments
    /\ None \notin Instances
    /\ None \notin Nodes

VARIABLES
    dep,        \* model_deployments
    inst,       \* model_instances
    lease,      \* gpu_leases: one row per (instance, GPU)
    task,       \* agent_tasks
    nodeStatus, \* nodes.status
    startReq,   \* HandleStartDeployment between its check and its transaction
    stopReq,    \* HandleStopDeployment in its loop over instances
    report,     \* HandleTaskResult between its statements
    faults      \* server restarts and ignored statement errors so far

dbVars  == <<dep, inst, lease, task, nodeStatus>>
reqVars == <<startReq, stopReq, report>>
vars    == <<dep, inst, lease, task, nodeStatus, startReq, stopReq, report, faults>>

-----------------------------------------------------------------------------
(* Rows.  "none" is an id that is not used yet, "deleted" one whose row is *)
(* gone; ids are uuids and are never used again.                           *)

Tasks == 1 .. MaxTasks

TaskTypes  == {"start", "stop", "logs"}
Finished   == {"completed", "failed", "timed_out"}
TaskStatus == {"none", "pending", "claimed", "deleted"} \cup Finished

InstanceState == {"none", "pending", "running", "stopping", "stopped", "failed", "deleted"}

LiveLease   == {"reserved", "active"}
LeaseStatus == {"none", "released", "failed"} \cup LiveLease

DeploymentStatus == {"none", "saved", "running", "stopped", "failed", "deleted"}

(* desired_state is left out: no handler reads it.  expired is a predicate *)
(* on created_at and timeout_seconds, kept FALSE once the task is finished.*)
PlacementJson == [accel : SUBSET Gpus, node : Nodes \cup {None}]

DepRows  == [status : DeploymentStatus, placement : PlacementJson]
InstRows == [dep : Deployments \cup {None}, actual : InstanceState]
TaskRows == [type : TaskTypes, dep : Deployments \cup {None},
             inst : Instances \cup {None}, status : TaskStatus, expired : BOOLEAN]

StartRequest  == [dep : Deployments, gpus : SUBSET Gpus, pc : {"preflight", "commit"}]
StopRequest   == [dep : Deployments, todo : SUBSET Instances, online : BOOLEAN,
                  wait : 0 .. MaxTasks]
ReportRequest == [task : Tasks, type : TaskTypes, inst : Instances, ok : BOOLEAN,
                  pc : {"task", "inst", "lease"}]

(* None also stands for a slot without a request.                          *)
ASSUME RequestAssumption == None \notin ReportRequest

NoDep  == [status |-> "none", placement |-> [accel |-> {}, node |-> None]]
NoInst == [dep |-> None, actual |-> "none"]
NoTask == [type |-> "start", dep |-> None, inst |-> None,
           status |-> "none", expired |-> FALSE]

DepExists(d)  == dep[d].status \notin {"none", "deleted"}
InstExists(i) == inst[i].actual \notin {"none", "deleted"}
TaskExists(t) == task[t].status \notin {"none", "deleted"}

Leased(g) == \E i \in Instances : lease[i][g] \in LiveLease

(* The id the next INSERT INTO agent_tasks uses: ids follow created_at.    *)
NextTask(t) ==
    /\ task[t].status = "none"
    /\ \A u \in Tasks : u < t => task[u].status # "none"

NewTask(type, d, i) ==
    [type |-> type, dep |-> d, inst |-> i, status |-> "pending", expired |-> FALSE]

Init ==
    /\ dep = [d \in Deployments |-> NoDep]
    /\ inst = [i \in Instances |-> NoInst]
    /\ lease = [i \in Instances |-> [g \in Gpus |-> "none"]]
    /\ task = [t \in Tasks |-> NoTask]
    /\ nodeStatus = [n \in Nodes |-> "online"]
    /\ startReq = [s \in StartReqs |-> None]
    /\ stopReq = [p \in StopReqs |-> None]
    /\ report = [r \in Reports |-> None]
    /\ faults = 0

-----------------------------------------------------------------------------
(* Create and patch.                                                       *)

(* HandleCreateDeployment overwrites the placement's node with the node of *)
(* the node_backend_runtime.                                               *)
CreateDeployment(d, pl) ==
    /\ dep[d].status = "none"
    /\ dep' = [dep EXCEPT ![d] =
          [status |-> "saved", placement |-> [pl EXCEPT !.node = NodeOf[d]]]]
    /\ UNCHANGED <<inst, lease, task, nodeStatus, startReq, stopReq, report, faults>>

(* HandlePatchDeployment stores any placement_json, at any time.           *)
PatchDeployment(d, pl) ==
    /\ DepExists(d)
    /\ dep' = [dep EXCEPT ![d].placement = pl]
    /\ UNCHANGED <<inst, lease, task, nodeStatus, startReq, stopReq, report, faults>>

-----------------------------------------------------------------------------
(* Start: activeDeploymentRun, then preflight, then one transaction.       *)

(* A task that is already claimed does not count as active: the query asks *)
(* for 'pending' and 'in_progress', and nothing ever sets 'in_progress'.   *)
activeDeploymentRun(d) ==
    \/ \E i \in Instances :
          inst[i].dep = d /\ inst[i].actual \in {"pending", "running", "stopping"}
    \/ \E t \in Tasks :
          /\ task[t].dep = d
          /\ task[t].type \in {"start", "stop"}
          /\ task[t].status = "pending"

StartCheck(s, d) ==
    /\ startReq[s] = None
    /\ DepExists(d)
    /\ ~activeDeploymentRun(d)
    /\ startReq' = [startReq EXCEPT ![s] = [dep |-> d, gpus |-> {}, pc |-> "preflight"]]
    /\ UNCHANGED <<dbVars, stopReq, report, faults>>

(* The accelerators of the placement, or else any one GPU of the placement *)
(* node that happens to be 'available', or none.  Leases are not consulted,*)
(* and the node of the instance is NodeOf[d] whatever the placement says.  *)
pickAccelerators(d) ==
    IF dep[d].placement.accel # {}
    THEN {dep[d].placement.accel}
    ELSE {{}} \cup {{g} : g \in {h \in Gpus : GpuNode[h] = dep[d].placement.node}}

preflightDeployment(s) ==
    /\ startReq[s] # None
    /\ startReq[s].pc = "preflight"
    /\ DepExists(startReq[s].dep)
    /\ \E gs \in pickAccelerators(startReq[s].dep) :
          startReq' = [startReq EXCEPT ![s].gpus = gs, ![s].pc = "commit"]
    /\ UNCHANGED <<dbVars, stopReq, report, faults>>

(* The deployment is gone, or any other check of preflightDeployment fails.*)
PreflightRefuses(s) ==
    /\ startReq[s] # None
    /\ startReq[s].pc = "preflight"
    /\ startReq' = [startReq EXCEPT ![s] = None]
    /\ UNCHANGED <<dbVars, stopReq, report, faults>>

(* Mutant: without the unique index.                                       *)
StartAdmissible_NoIndex(d, gs) == DepExists(d)

(* The transaction fails as a whole when the deployment is gone (foreign   *)
(* key of model_instances) or a GPU has a reserved or active lease (unique *)
(* index idx_gpu_leases_reserved_active).                                  *)
StartAdmissible(d, gs) ==
    /\ DepExists(d)
    /\ \A g \in gs : ~Leased(g)

StartCommit(s) ==
    /\ startReq[s] # None
    /\ startReq[s].pc = "commit"
    /\ LET d  == startReq[s].dep
           gs == startReq[s].gpus
       IN  /\ StartAdmissible(d, gs)
           /\ \E i \in Instances, t \in Tasks :
                 /\ inst[i].actual = "none"
                 /\ NextTask(t)
                 /\ inst' = [inst EXCEPT ![i] = [dep |-> d, actual |-> "pending"]]
                 /\ lease' = [lease EXCEPT ![i] =
                        [g \in Gpus |-> IF g \in gs THEN "reserved" ELSE "none"]]
                 /\ task' = [task EXCEPT ![t] = NewTask("start", d, i)]
           /\ dep' = [dep EXCEPT ![d].status = "running"]
    /\ startReq' = [startReq EXCEPT ![s] = None]
    /\ UNCHANGED <<nodeStatus, stopReq, report, faults>>

(* Any other error of the transaction has the same effect.                 *)
StartRollback(s) ==
    /\ startReq[s] # None
    /\ startReq[s].pc = "commit"
    /\ startReq' = [startReq EXCEPT ![s] = None]
    /\ UNCHANGED <<dbVars, stopReq, report, faults>>

-----------------------------------------------------------------------------
(* Stop: the instances and the node status are read once; then each        *)
(* instance in turn gets a stop task, whose end the handler awaits.        *)

StopBegin(p, d) ==
    /\ stopReq[p] = None
    /\ DepExists(d)
    /\ stopReq' = [stopReq EXCEPT ![p] =
          [dep    |-> d,
           todo   |-> {i \in Instances : /\ inst[i].dep = d
                                         /\ InstExists(i)
                                         /\ inst[i].actual # "stopped"},
           online |-> nodeStatus[NodeOf[d]] = "online",
           wait   |-> 0]]
    /\ UNCHANGED <<dbVars, startReq, report, faults>>

(* UPDATE model_instances ... CASE WHEN actual_state = 'running'; no row   *)
(* is touched when the instance was deleted meanwhile.  The handler drops  *)
(* the error of this UPDATE and of the one in StopFinish: inst, or dep, is *)
(* then unchanged.                                                         *)
MarkStopping(i) ==
    IF InstExists(i)
    THEN [inst EXCEPT ![i].actual = IF @ = "running" THEN "stopping" ELSE @]
    ELSE inst

(* Mutant: retries the instance until its node is back.                    *)
StopSkipOffline_Retries(p, i) ==
    /\ stopReq[p] # None
    /\ i \in stopReq[p].todo
    /\ stopReq[p].wait = 0
    /\ ~stopReq[p].online
    /\ inst' \in {inst, MarkStopping(i)}
    /\ UNCHANGED <<dep, lease, task, nodeStatus, startReq, stopReq, report, faults>>

StopSkipOffline(p, i) ==
    /\ stopReq[p] # None
    /\ i \in stopReq[p].todo
    /\ stopReq[p].wait = 0
    /\ ~stopReq[p].online
    /\ inst' \in {inst, MarkStopping(i)}
    /\ stopReq' = [stopReq EXCEPT ![p].todo = @ \ {i}]
    /\ UNCHANGED <<dep, lease, task, nodeStatus, startReq, report, faults>>

(* agent_tasks has no foreign key: the stop task is inserted even when the *)
(* deployment was deleted after the handler read its instances.            *)
StopDispatch(p, i) ==
    /\ stopReq[p] # None
    /\ i \in stopReq[p].todo
    /\ stopReq[p].wait = 0
    /\ stopReq[p].online
    /\ inst' \in {inst, MarkStopping(i)}
    /\ \E t \in Tasks :
          /\ NextTask(t)
          /\ task' = [task EXCEPT ![t] = NewTask("stop", stopReq[p].dep, i)]
          /\ stopReq' = [stopReq EXCEPT ![p].todo = @ \ {i}, ![p].wait = t]
    /\ UNCHANGED <<dep, lease, nodeStatus, startReq, report, faults>>

(* The INSERT fails: a warning, and on to the next instance.               *)
StopInsertFailed(p, i) ==
    /\ stopReq[p] # None
    /\ i \in stopReq[p].todo
    /\ stopReq[p].wait = 0
    /\ stopReq[p].online
    /\ inst' \in {inst, MarkStopping(i)}
    /\ stopReq' = [stopReq EXCEPT ![p].todo = @ \ {i}]
    /\ UNCHANGED <<dep, lease, task, nodeStatus, startReq, report, faults>>

(* waitForAgentTaskResult returns when the task is finished or its row has *)
(* disappeared; StopWaitTimeout is its deadline or a cancelled request.    *)
waitForAgentTaskResult(p) ==
    /\ stopReq[p] # None
    /\ stopReq[p].wait \in Tasks
    /\ task[stopReq[p].wait].status \in Finished \cup {"deleted"}
    /\ stopReq' = [stopReq EXCEPT ![p].wait = 0]
    /\ UNCHANGED <<dbVars, startReq, report, faults>>

StopWaitTimeout(p) ==
    /\ stopReq[p] # None
    /\ stopReq[p].wait \in Tasks
    /\ stopReq' = [stopReq EXCEPT ![p].wait = 0]
    /\ UNCHANGED <<dbVars, startReq, report, faults>>

(* The deployment becomes 'stopped' whatever came of the stop tasks.       *)
StopFinish(p) ==
    /\ stopReq[p] # None
    /\ stopReq[p].todo = {}
    /\ stopReq[p].wait = 0
    /\ \/ dep' = dep
       \/ /\ DepExists(stopReq[p].dep)
          /\ dep' = [dep EXCEPT ![stopReq[p].dep].status = "stopped"]
    /\ stopReq' = [stopReq EXCEPT ![p] = None]
    /\ UNCHANGED <<inst, lease, task, nodeStatus, startReq, report, faults>>

-----------------------------------------------------------------------------
(* Logs and delete.                                                        *)

FetchLogs(i) ==
    /\ InstExists(i)
    /\ nodeStatus[NodeOf[inst[i].dep]] = "online"
    /\ \E t \in Tasks :
          /\ NextTask(t)
          /\ task' = [task EXCEPT ![t] = NewTask("logs", inst[i].dep, i)]
    /\ UNCHANGED <<dep, inst, lease, nodeStatus, startReq, stopReq, report, faults>>

(* Mutant: deletes the instances and forgets their leases.                 *)
DeleteDeployment_KeepsLeases(d) ==
    /\ DepExists(d)
    /\ dep' = [dep EXCEPT ![d] = [NoDep EXCEPT !.status = "deleted"]]
    /\ inst' = [i \in Instances |->
          IF inst[i].dep = d THEN [NoInst EXCEPT !.actual = "deleted"] ELSE inst[i]]
    /\ task' = [t \in Tasks |->
          IF task[t].dep = d THEN [NoTask EXCEPT !.status = "deleted"] ELSE task[t]]
    /\ UNCHANGED <<lease, nodeStatus, startReq, stopReq, report, faults>>

(* One transaction.  No stop task is sent: a container that the agent      *)
(* started for the deployment is not stopped.                              *)
DeleteDeployment(d) ==
    /\ DepExists(d)
    /\ dep' = [dep EXCEPT ![d] = [NoDep EXCEPT !.status = "deleted"]]
    /\ inst' = [i \in Instances |->
          IF inst[i].dep = d THEN [NoInst EXCEPT !.actual = "deleted"] ELSE inst[i]]
    /\ lease' = [i \in Instances |->
          IF inst[i].dep = d THEN [g \in Gpus |-> "none"] ELSE lease[i]]
    /\ task' = [t \in Tasks |->
          IF task[t].dep = d THEN [NoTask EXCEPT !.status = "deleted"] ELSE task[t]]
    /\ UNCHANGED <<nodeStatus, startReq, stopReq, report, faults>>

-----------------------------------------------------------------------------
(* Heartbeat: sweepExpiredTasks and the claim are one transaction.         *)

OnNode(t, n) == TaskExists(t) /\ NodeOf[task[t].dep] = n

(* Mutant: sweeps only tasks that no agent has claimed.                    *)
SweptTask_OnlyPending(t, n) ==
    IF OnNode(t, n) /\ task[t].status = "pending" /\ task[t].expired
    THEN [task[t] EXCEPT !.status = "timed_out", !.expired = FALSE]
    ELSE task[t]

(* sweepExpiredTasks, first statement.                                     *)
SweptTask(t, n) ==
    IF OnNode(t, n) /\ task[t].status \in {"pending", "claimed"} /\ task[t].expired
    THEN [task[t] EXCEPT !.status = "timed_out", !.expired = FALSE]
    ELSE task[t]

(* Mutant: the sweep ends tasks and leaves their instances alone.          *)
SweptInst_Untouched(i, n) == inst[i]

(* Second statement: every instance that has a timed-out task, of whatever *)
(* type and however old, becomes 'failed'.                                 *)
SweptInst(i, n) ==
    IF InstExists(i) /\ \E t \in Tasks :
          /\ OnNode(t, n)
          /\ task[t].inst = i
          /\ SweptTask(t, n).status = "timed_out"
    THEN [inst[i] EXCEPT !.actual = "failed"]
    ELSE inst[i]

(* Last statement: deployments with a failed instance, on any node.  The   *)
(* statement before it, which fails reserved leases past expires_at,       *)
(* matches no row: no INSERT sets expires_at.                              *)
SweptDep(d, n) ==
    IF DepExists(d) /\ \E i \in Instances :
          inst[i].dep = d /\ SweptInst(i, n).actual = "failed"
    THEN [dep[d] EXCEPT !.status = "failed"]
    ELSE dep[d]

(* Mutant: claims what was pending before the sweep.                       *)
Claimable_BeforeSweep(t, n) == OnNode(t, n) /\ task[t].status = "pending"

(* The oldest ClaimLimit tasks that are still pending after the sweep.     *)
Claimable(t, n) == OnNode(t, n) /\ SweptTask(t, n).status = "pending"

ClaimedNow(n) ==
    {t \in Tasks : /\ Claimable(t, n)
                   /\ Cardinality({u \in Tasks : Claimable(u, n) /\ u < t}) < ClaimLimit}

claimAndReturnTasks(n) ==
    /\ dep' = [d \in Deployments |-> SweptDep(d, n)]
    /\ inst' = [i \in Instances |-> SweptInst(i, n)]
    /\ task' = [t \in Tasks |->
          IF t \in ClaimedNow(n)
          THEN [SweptTask(t, n) EXCEPT !.status = "claimed"]
          ELSE SweptTask(t, n)]

Heartbeat(n) ==
    /\ nodeStatus' = [nodeStatus EXCEPT ![n] = "online"]
    /\ claimAndReturnTasks(n)
    /\ UNCHANGED <<lease, startReq, stopReq, report, faults>>

(* The error of the sweep's first statement is only logged: the claim of   *)
(* the same transaction hands out what the sweep should have ended.  The   *)
(* statements between them see the tasks that had timed out before, or     *)
(* fail as well.                                                           *)
UnsweptInst(i, n) ==
    IF InstExists(i) /\ \E t \in Tasks :
          OnNode(t, n) /\ task[t].inst = i /\ task[t].status = "timed_out"
    THEN [inst[i] EXCEPT !.actual = "failed"]
    ELSE inst[i]

UnsweptClaim(n) ==
    LET open == {t \in Tasks : OnNode(t, n) /\ task[t].status = "pending"}
    IN  {t \in open : Cardinality({u \in open : u < t}) < ClaimLimit}

HeartbeatUnswept(n) ==
    /\ faults < MaxFaults
    /\ faults' = faults + 1
    /\ nodeStatus' = [nodeStatus EXCEPT ![n] = "online"]
    /\ inst' \in {inst, [i \in Instances |-> UnsweptInst(i, n)]}
    /\ task' = [t \in Tasks |->
          IF t \in UnsweptClaim(n) THEN [task[t] EXCEPT !.status = "claimed"] ELSE task[t]]
    /\ UNCHANGED <<dep, lease, startReq, stopReq, report>>

(* A resource report is proof of life too, and so is a heartbeat whose     *)
(* claim transaction cannot be committed.                                  *)
HandleResourceReport(n) ==
    /\ nodeStatus' = [nodeStatus EXCEPT ![n] = "online"]
    /\ UNCHANGED <<dep, inst, lease, task, startReq, stopReq, report, faults>>

(* The node health checker: no heartbeat for NodeOfflineThreshold.         *)
MarkOffline(n) ==
    /\ nodeStatus[n] = "online"
    /\ nodeStatus' = [nodeStatus EXCEPT ![n] = "offline"]
    /\ UNCHANGED <<dep, inst, lease, task, startReq, stopReq, report, faults>>

(* Time: created_at is more than timeout_seconds ago.                      *)
Expire(t) ==
    /\ task[t].status \in {"pending", "claimed"}
    /\ ~task[t].expired
    /\ task' = [task EXCEPT ![t].expired = TRUE]
    /\ UNCHANGED <<dep, inst, lease, nodeStatus, startReq, stopReq, report, faults>>

-----------------------------------------------------------------------------
(* HandleTaskResult: the check, then one autocommitted statement each for  *)
(* the task, the instance and the leases.  A result for a task that is     *)
(* gone or finished when the check reads it is ignored.  The task's type   *)
(* and instance are read here and used by the later statements.            *)

ReportBegin(r, t, ok) ==
    /\ report[r] = None
    /\ task[t].status = "claimed"
    /\ report' = [report EXCEPT ![r] = 
          [task |-> t, type |-> task[t].type, inst |-> task[t].inst,
           ok |-> ok, pc |-> "task"]]
    /\ UNCHANGED <<dbVars, startReq, stopReq, faults>>

(* The statement that follows: none after the task of a logs request, and  *)
(* no lease is touched when a stop failed.                                 *)
AfterStatement(rep) ==
    CASE rep.pc = "task" /\ rep.type # "logs"             -> [rep EXCEPT !.pc = "inst"]
      [] rep.pc = "inst" /\ (rep.type = "start" \/ rep.ok) -> [rep EXCEPT !.pc = "lease"]
      [] OTHER -> None

(* UPDATE agent_tasks ... WHERE id = ?: the status is not checked again.   *)
ReportTask(r) ==
    /\ report[r] # None
    /\ report[r].pc = "task"
    /\ task' = IF TaskExists(report[r].task)
               THEN [task EXCEPT
                       ![report[r].task].status = IF report[r].ok THEN "completed" ELSE "failed",
                       ![report[r].task].expired = FALSE]
               ELSE task
    /\ report' = [report EXCEPT ![r] = AfterStatement(@)]
    /\ UNCHANGED <<dep, inst, lease, nodeStatus, startReq, stopReq, faults>>

(* Mutant: a success the state machine does not know.                      *)
ReportedInst_Ready(type, ok) ==
    IF ~ok THEN "failed" ELSE IF type = "stop" THEN "stopped" ELSE "ready"

(* UPDATE model_instances, whatever state the instance is in by now.       *)
ReportedInst(type, ok) ==
    IF ~ok THEN "failed" ELSE IF type = "stop" THEN "stopped" ELSE "running"

ReportInst(r) ==
    /\ report[r] # None
    /\ report[r].pc = "inst"
    /\ inst' = IF InstExists(report[r].inst)
               THEN [inst EXCEPT ![report[r].inst].actual =
                        ReportedInst(report[r].type, report[r].ok)]
               ELSE inst
    /\ report' = [report EXCEPT ![r] = AfterStatement(@)]
    /\ UNCHANGED <<dep, lease, task, nodeStatus, startReq, stopReq, faults>>

(* Mutant: a start activates or fails the leases whatever their status.    *)
ReportedLease_AnyStatus(status, type, ok) ==
    CASE type = "stop" /\ status \in LiveLease    -> "released"
      [] type # "stop" /\ status # "none" /\ ok  -> "active"
      [] type # "stop" /\ status # "none" /\ ~ok -> "failed"
      [] OTHER -> status

(* Mutant: a stop releases active leases only.                             *)
ReportedLease_StopActive(status, type, ok) ==
    CASE type = "stop" /\ status = "active"        -> "released"
      [] type # "stop" /\ status = "reserved" /\ ok  -> "active"
      [] type # "stop" /\ status = "reserved" /\ ~ok -> "failed"
      [] OTHER -> status

(* UPDATE gpu_leases: a stop releases live leases; a start activates, or   *)
(* fails, those that are still reserved.                                   *)
ReportedLease(status, type, ok) ==
    CASE type = "stop" /\ status \in LiveLease     -> "released"
      [] type # "stop" /\ status = "reserved" /\ ok  -> "active"
      [] type # "stop" /\ status = "reserved" /\ ~ok -> "failed"
      [] OTHER -> status

ReportLease(r) ==
    /\ report[r] # None
    /\ report[r].pc = "lease"
    /\ lease' = [lease EXCEPT ![report[r].inst] =
          [g \in Gpus |-> ReportedLease(@[g], report[r].type, report[r].ok)]]
    /\ report' = [report EXCEPT ![r] = AfterStatement(@)]
    /\ UNCHANGED <<dep, inst, task, nodeStatus, startReq, stopReq, faults>>

(* The error of a statement (a busy or full database) is dropped, and the  *)
(* handler goes on to the next one.                                        *)
ReportStatementFails(r) ==
    /\ report[r] # None
    /\ faults < MaxFaults
    /\ faults' = faults + 1
    /\ report' = [report EXCEPT ![r] = AfterStatement(@)]
    /\ UNCHANGED <<dbVars, startReq, stopReq>>

(* A crash or restart of the server drops the requests in flight; the      *)
(* database keeps what their statements committed.                         *)
ServerRestart ==
    /\ faults < MaxFaults
    /\ faults' = faults + 1
    /\ startReq' = [s \in StartReqs |-> None]
    /\ stopReq' = [p \in StopReqs |-> None]
    /\ report' = [r \in Reports |-> None]
    /\ UNCHANGED dbVars

-----------------------------------------------------------------------------

UserNext ==
    \/ \E d \in Deployments, pl \in Placements : CreateDeployment(d, pl)
    \/ \E d \in Deployments, pl \in Placements : PatchDeployment(d, pl)
    \/ \E s \in StartReqs, d \in Deployments : StartCheck(s, d)
    \/ \E p \in StopReqs, d \in Deployments : StopBegin(p, d)
    \/ \E i \in Instances : FetchLogs(i)
    \/ \E d \in Deployments : DeleteDeployment(d)

HandlerNext ==
    \/ \E s \in StartReqs : preflightDeployment(s)
    \/ \E s \in StartReqs : PreflightRefuses(s)
    \/ \E s \in StartReqs : StartCommit(s)
    \/ \E s \in StartReqs : StartRollback(s)
    \/ \E p \in StopReqs, i \in Instances : StopSkipOffline(p, i)
    \/ \E p \in StopReqs, i \in Instances : StopDispatch(p, i)
    \/ \E p \in StopReqs, i \in Instances : StopInsertFailed(p, i)
    \/ \E p \in StopReqs : waitForAgentTaskResult(p)
    \/ \E p \in StopReqs : StopWaitTimeout(p)
    \/ \E p \in StopReqs : StopFinish(p)
    \/ \E r \in Reports : ReportTask(r)
    \/ \E r \in Reports : ReportInst(r)
    \/ \E r \in Reports : ReportLease(r)
    \/ \E r \in Reports : ReportStatementFails(r)

NodeNext ==
    \/ \E n \in Nodes : Heartbeat(n)
    \/ \E n \in Nodes : HeartbeatUnswept(n)
    \/ \E n \in Nodes : HandleResourceReport(n)
    \/ \E n \in Nodes : MarkOffline(n)
    \/ \E t \in Tasks : Expire(t)
    \/ \E r \in Reports, t \in Tasks, ok \in BOOLEAN : ReportBegin(r, t, ok)

Next == UserNext \/ HandlerNext \/ NodeNext \/ ServerRestart

Spec == Init /\ [][Next]_vars

(* Go serves every request that was accepted, the poll of                  *)
(* waitForAgentTaskResult has a deadline, and time passes.  Users and      *)
(* agents promise nothing, except that a node's agent keeps sending        *)
(* heartbeats.                                                             *)
Fairness ==
    /\ \A s \in StartReqs :
          /\ WF_vars(preflightDeployment(s) \/ PreflightRefuses(s))
          /\ WF_vars(StartCommit(s) \/ StartRollback(s))
    /\ \A p \in StopReqs :
          /\ WF_vars(waitForAgentTaskResult(p) \/ StopWaitTimeout(p))
          /\ WF_vars(\E i \in Instances : 
                 StopSkipOffline(p, i) \/ StopDispatch(p, i) \/ StopInsertFailed(p, i))
          /\ WF_vars(StopFinish(p))
    /\ \A r \in Reports : WF_vars(ReportTask(r) \/ ReportInst(r) \/ ReportLease(r))
    /\ \A t \in Tasks : WF_vars(Expire(t))
    /\ \A n \in Nodes : WF_vars(Heartbeat(n))

FairSpec == Spec /\ Fairness

-----------------------------------------------------------------------------
(* Properties.                                                             *)

(* Every row has a status the schema and constants.go know, and every      *)
(* request in flight is at a statement of its handler.                     *)
TypeOK ==
    /\ dep \in [Deployments -> DepRows]
    /\ inst \in [Instances -> InstRows]
    /\ lease \in [Instances -> [Gpus -> LeaseStatus]]
    /\ task \in [Tasks -> TaskRows]
    /\ nodeStatus \in [Nodes -> {"online", "offline"}]
    /\ startReq \in [StartReqs -> StartRequest \cup {None}]
    /\ stopReq \in [StopReqs -> StopRequest \cup {None}]
    /\ report \in [Reports -> ReportRequest \cup {None}]
    /\ faults \in 0 .. MaxFaults

(* No GPU is reserved or active for two instances at once, however start   *)
(* requests, results, sweeps and deletes interleave.  The handlers never   *)
(* look at the leases before they insert one: idx_gpu_leases_reserved_     *)
(* active and the rollback of HandleStartDeployment have to do it.         *)
LeaseExclusive ==
    \A g \in Gpus : \A i, j \in Instances :
        lease[i][g] \in LiveLease /\ lease[j][g] \in LiveLease => i = j

(* A lease that HandleTaskResult released or failed never comes back to    *)
(* life, although late and duplicate results are applied without a         *)
(* transaction; an active lease only ends by release or delete.            *)
LeaseNeverRevived ==
    [][\A i \in Instances, g \in Gpus :
          /\ lease[i][g] \in {"released", "failed"} => lease'[i][g] \in {lease[i][g], "none"}
          /\ lease[i][g] = "active" => lease'[i][g] \in {"active", "released", "none"}]_vars

(* HandleDeleteDeployment leaves no instance or lease behind, not even     *)
(* when it runs between the check and the transaction of a start.          *)
NoOrphanRows ==
    /\ \A i \in Instances : InstExists(i) => inst[i].dep \in Deployments /\ DepExists(inst[i].dep)
    /\ \A i \in Instances, g \in Gpus : lease[i][g] # "none" => InstExists(i)

(* Unless the server was restarted or a statement failed in the middle of  *)
(* HandleTaskResult, a lease that still blocks its GPU belongs to an       *)
(* instance HandleStopDeployment will find (it skips 'stopped' ones), or   *)
(* the handler that is about to release it is still running.               *)
Releasing(r, i) ==
    /\ report[r] # None
    /\ report[r].pc = "lease"
    /\ report[r].ok
    /\ report[r].type = "stop"
    /\ report[r].inst = i

LiveLeaseIsStoppable ==
    faults = 0 =>
        \A i \in Instances, g \in Gpus :
            lease[i][g] \in LiveLease /\ inst[i].actual = "stopped"
                => \E r \in Reports : Releasing(r, i)

(* Unless the server was restarted or a statement failed in the middle of  *)
(* HandleTaskResult, no instance is stuck in 'pending', where              *)
(* activeDeploymentRun refuses every new start: its start task is still    *)
(* open, or the handler of its result is about to update the instance.     *)
OpensPending(t, i) ==
    /\ task[t].type = "start"
    /\ task[t].inst = i
    /\ \/ task[t].status \in {"pending", "claimed"}
       \/ \E r \in Reports : report[r] # None /\ report[r].task = t /\ report[r].pc = "inst"

PendingHasStartTask ==
    faults = 0 =>
        \A i \in Instances :
            inst[i].actual = "pending" => \E t \in Tasks : OpensPending(t, i)

(* A task that has outlived timeout_seconds is never handed to an agent    *)
(* (the sweep comes before the claim) unless the sweep itself fails, and   *)
(* one that is finished is never open again.                               *)
TaskNeverReopened ==
    [][\A t \in Tasks :
          /\ faults' = faults /\ task[t].status = "pending" /\ task[t].expired
                => task'[t].status # "claimed"
          /\ task[t].status \in Finished => task'[t].status \in Finished \cup {"deleted"}
          /\ task[t].status = "claimed" => task'[t].status # "pending"]_vars

(* The lease table implements the allocator.                               *)
OwnerOf(g) ==
    IF Leased(g) THEN CHOOSE i \in Instances : lease[i][g] \in LiveLease ELSE None

Allocator ==
    INSTANCE GpuAllocator WITH
        Free    <- None,
        owner   <- [g \in Gpus |-> OwnerOf(g)],
        started <- {i \in Instances : inst[i].actual # "none"}

(* Every step of every handler is a step of GpuAllocator: a start takes    *)
(* all its GPUs or none, and no GPU changes hands without being free.      *)
ImplementsAllocator == Allocator!Spec

(* Every task ends, whatever the agent does, as long as its node sends     *)
(* heartbeats: the sweep is the only thing that ends a task whose result   *)
(* was lost.                                                               *)
TaskSettles ==
    \A t \in Tasks :
        (task[t].status \in {"pending", "claimed"})
            ~> (task[t].status \in Finished \cup {"deleted"})

(* HandleStopDeployment returns, whatever the agent and the other handlers *)
(* do.                                                                     *)
StopReturns ==
    \A p \in StopReqs : (stopReq[p] # None) ~> (stopReq[p] = None)

(* An instance leaves 'pending', so the deployment can be started again.   *)
PendingResolves ==
    \A i \in Instances :
        (inst[i].actual = "pending") ~> (inst[i].actual # "pending")

(* docs/08-engineering-contracts.md rejects a result that a newer          *)
(* operation has superseded.  A start may still be on its way when a stop  *)
(* completes: HandleTaskResult then sets a stopped instance to 'running',  *)
(* although its leases are released and its GPUs free for another start.   *)
SupersededStartRejected ==
    [][\A i \in Instances :
          inst[i].actual = "stopped" => inst'[i].actual # "running"]_vars

=============================================================================
