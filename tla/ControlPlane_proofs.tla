------------------------- MODULE ControlPlane_proofs -------------------------
(***************************************************************************)
(* Safety of ControlPlane for every value of its constants.                *)
(***************************************************************************)
EXTENDS ControlPlane, TLAPS

-----------------------------------------------------------------------------
(* What the operators of the model return.                                 *)

(* A new status keeps a deployment row well typed.                         *)
LEMMA DepRowStatus ==
    ASSUME NEW row \in DepRows, NEW st \in DeploymentStatus
    PROVE  [row EXCEPT !.status = st] \in DepRows
  BY DEF DepRows

(* A new state keeps an instance row well typed, and its deployment.       *)
LEMMA InstRowState ==
    ASSUME NEW row \in InstRows, NEW st \in InstanceState
    PROVE  /\ [row EXCEPT !.actual = st] \in InstRows
           /\ [row EXCEPT !.actual = st].dep = row.dep
           /\ [row EXCEPT !.actual = st].actual = st
  BY DEF InstRows

(* A new status keeps a task row well typed, and what it refers to.        *)
LEMMA TaskRowStatus ==
    ASSUME NEW row \in TaskRows, NEW st \in TaskStatus
    PROVE  /\ [row EXCEPT !.status = st] \in TaskRows
           /\ [row EXCEPT !.status = st].dep = row.dep
           /\ [row EXCEPT !.status = st].inst = row.inst
           /\ [row EXCEPT !.status = st].status = st
  BY DEF TaskRows

(* So does the passing of its deadline.                                    *)
LEMMA TaskRowExpired ==
    ASSUME NEW row \in TaskRows
    PROVE  /\ [row EXCEPT !.expired = TRUE] \in TaskRows
           /\ [row EXCEPT !.expired = TRUE].dep = row.dep
           /\ [row EXCEPT !.expired = TRUE].inst = row.inst
           /\ [row EXCEPT !.expired = TRUE].status = row.status
  BY DEF TaskRows

(* And the end of the task.                                                *)
LEMMA TaskRowFinished ==
    ASSUME NEW row \in TaskRows, NEW st \in TaskStatus
    PROVE  /\ [row EXCEPT !.status = st, !.expired = FALSE] \in TaskRows
           /\ [row EXCEPT !.status = st, !.expired = FALSE].dep = row.dep
           /\ [row EXCEPT !.status = st, !.expired = FALSE].inst = row.inst
           /\ [row EXCEPT !.status = st, !.expired = FALSE].status = st
  BY DEF TaskRows

(* The row an INSERT INTO agent_tasks adds.                                *)
LEMMA NewTaskRow ==
    ASSUME NEW type \in TaskTypes, NEW d \in Deployments, NEW i \in Instances
    PROVE  /\ NewTask(type, d, i) \in TaskRows
           /\ NewTask(type, d, i).dep = d
           /\ NewTask(type, d, i).inst = i
  BY DEF NewTask, TaskRows, TaskStatus

(* MarkStopping only moves an existing instance between states.            *)
LEMMA MarkStoppingRows ==
    ASSUME inst \in [Instances -> InstRows], NEW i \in Instances
    PROVE  /\ MarkStopping(i) \in [Instances -> InstRows]
           /\ \A j \in Instances : /\ MarkStopping(i)[j].dep = inst[j].dep
                                   /\ MarkStopping(i)[j].actual = "none"
                                         <=> inst[j].actual = "none"
                                   /\ MarkStopping(i)[j].actual = "deleted"
                                         <=> inst[j].actual = "deleted"
  BY DEF MarkStopping, InstExists, InstRows, InstanceState

(* HandleTaskResult goes on to another statement or returns.               *)
LEMMA AfterStatementType ==
    ASSUME NEW rep \in ReportRequest
    PROVE  AfterStatement(rep) \in ReportRequest \cup {None}
  BY DEF AfterStatement, ReportRequest

(* A result never makes a lease that was not there, never brings back one  *)
(* that ended, and keeps an active one until a stop releases it.           *)
LEMMA ReportedLeaseType ==
    ASSUME NEW status \in LeaseStatus, NEW type \in TaskTypes, NEW ok \in BOOLEAN
    PROVE  /\ ReportedLease(status, type, ok) \in LeaseStatus
           /\ ReportedLease(status, type, ok) \in LiveLease => status \in LiveLease
           /\ status \notin LiveLease => ReportedLease(status, type, ok) = status
           /\ status = "active" => ReportedLease(status, type, ok) \in {"active", "released"}
  BY DEF ReportedLease, LeaseStatus, LiveLease

(* The sweep keeps what a task refers to, and skips rows that are gone.    *)
LEMMA SweptTaskRow ==
    ASSUME task \in [Tasks -> TaskRows], NEW t \in Tasks, NEW n \in Nodes
    PROVE  /\ SweptTask(t, n) \in TaskRows
           /\ SweptTask(t, n).dep = task[t].dep
           /\ SweptTask(t, n).inst = task[t].inst
           /\ ~TaskExists(t) => SweptTask(t, n) = task[t]
<1>1. "timed_out" \in TaskStatus
  BY DEF TaskStatus, Finished
<1> QED
  BY <1>1, TaskRowFinished DEF SweptTask, OnNode

-----------------------------------------------------------------------------
(* Types.                                                                  *)

(* Rows in use refer to something: a handler copies the references of one  *)
(* row into the next, so the types do not follow from the types alone.     *)
RefsOK ==
    /\ \A i \in Instances : InstExists(i) => inst[i].dep \in Deployments
    /\ \A t \in Tasks : TaskExists(t) => task[t].dep \in Deployments /\ task[t].inst \in Instances

TypeInv == TypeOK /\ RefsOK

(* The empty tables are well typed.                                        *)
LEMMA InitTypeInv == Init => TypeInv
  BY BoundAssumption
  DEF Init, TypeInv, TypeOK, RefsOK, NoDep, NoInst, NoTask, DepRows, InstRows, TaskRows,
      PlacementJson, InstExists, TaskExists, DeploymentStatus, InstanceState, LeaseStatus,
      TaskStatus, TaskTypes

(* Instance and task rows may move between states and disappear.           *)
InstKept == \A i \in Instances : InstExists(i)' => InstExists(i) /\ inst'[i].dep = inst[i].dep
TaskKept == \A t \in Tasks : TaskExists(t)' =>
                TaskExists(t) /\ task'[t].dep = task[t].dep /\ task'[t].inst = task[t].inst

(* Every step of every handler keeps the rows well typed.                  *)
LEMMA StepTypeInv == TypeInv /\ [Next]_vars => TypeInv'
<1> SUFFICES ASSUME TypeInv, [Next]_vars PROVE TypeInv'
  OBVIOUS
<1>D. dep \in [Deployments -> DepRows]
  BY DEF TypeInv, TypeOK
<1>I. inst \in [Instances -> InstRows]
  BY DEF TypeInv, TypeOK
<1>L. lease \in [Instances -> [Gpus -> LeaseStatus]]
  BY DEF TypeInv, TypeOK
<1>T. task \in [Tasks -> TaskRows]
  BY DEF TypeInv, TypeOK
<1>N. nodeStatus \in [Nodes -> {"online", "offline"}]
  BY DEF TypeInv, TypeOK
<1>Q. startReq \in [StartReqs -> StartRequest \cup {None}]
  BY DEF TypeInv, TypeOK
<1>P. stopReq \in [StopReqs -> StopRequest \cup {None}]
  BY DEF TypeInv, TypeOK
<1>R. report \in [Reports -> ReportRequest \cup {None}]
  BY DEF TypeInv, TypeOK
<1>F. faults \in 0 .. MaxFaults
  BY DEF TypeInv, TypeOK
<1>X. /\ \A i \in Instances : InstExists(i) => inst[i].dep \in Deployments
      /\ \A t \in Tasks : TaskExists(t) => task[t].dep \in Deployments /\ task[t].inst \in Instances
  BY DEF TypeInv, RefsOK
<1>1. ASSUME NEW d \in Deployments, NEW pl \in Placements, CreateDeployment(d, pl) PROVE TypeInv'
  <2>1. [status |-> "saved", placement |-> [pl EXCEPT !.node = NodeOf[d]]] \in DepRows
    BY NodeAssumption DEF DepRows, PlacementJson, DeploymentStatus
  <2>2. dep' \in [Deployments -> DepRows]
    BY <1>1, <1>D, <2>1 DEF CreateDeployment
  <2> QED
    BY <1>1, <2>2 DEF CreateDeployment, dbVars, TypeInv, TypeOK, RefsOK, InstExists, TaskExists
<1>2. ASSUME NEW d \in Deployments, NEW pl \in Placements, PatchDeployment(d, pl) PROVE TypeInv'
  <2>1. [dep[d] EXCEPT !.placement = pl] \in DepRows
    BY <1>D, NodeAssumption DEF DepRows, PlacementJson
  <2>2. dep' \in [Deployments -> DepRows]
    BY <1>2, <1>D, <2>1 DEF PatchDeployment
  <2> QED
    BY <1>2, <2>2 DEF PatchDeployment, dbVars, TypeInv, TypeOK, RefsOK, InstExists, TaskExists
<1>3. ASSUME NEW s \in StartReqs, NEW d \in Deployments, StartCheck(s, d) PROVE TypeInv'
  <2>1. startReq' \in [StartReqs -> StartRequest \cup {None}]
    BY <1>3, <1>Q DEF StartCheck, StartRequest
  <2> QED
    BY <1>3, <2>1 DEF StartCheck, dbVars, TypeInv, TypeOK, RefsOK, InstExists, TaskExists
<1>4. ASSUME NEW s \in StartReqs, preflightDeployment(s) PROVE TypeInv'
  <2>1. startReq[s] \in StartRequest
    BY <1>4, <1>Q DEF preflightDeployment
  <2>2. \A gs \in pickAccelerators(startReq[s].dep) : gs \in SUBSET Gpus
    BY <2>1, <1>D DEF pickAccelerators, StartRequest, DepRows, PlacementJson
  <2>3. PICK gs \in SUBSET Gpus : startReq' = [startReq EXCEPT ![s].gpus = gs, ![s].pc = "commit"]
    BY <1>4, <2>2 DEF preflightDeployment
  <2>4. [startReq[s] EXCEPT !.gpus = gs, !.pc = "commit"] \in StartRequest
    BY <2>1 DEF StartRequest
  <2>5. startReq' \in [StartReqs -> StartRequest \cup {None}]
    BY <1>Q, <2>3, <2>4
  <2> QED
    BY <1>4, <2>5 DEF preflightDeployment, dbVars, TypeInv, TypeOK, RefsOK, InstExists, TaskExists
<1>5. ASSUME NEW s \in StartReqs, PreflightRefuses(s) PROVE TypeInv'
  <2>1. startReq' \in [StartReqs -> StartRequest \cup {None}]
    BY <1>5, <1>Q DEF PreflightRefuses
  <2> QED
    BY <1>5, <2>1 DEF PreflightRefuses, dbVars, TypeInv, TypeOK, RefsOK, InstExists, TaskExists
<1>6. ASSUME NEW s \in StartReqs, StartCommit(s) PROVE TypeInv'
  <2>1. startReq[s].dep \in Deployments
    BY <1>6, <1>Q DEF StartCommit, StartRequest
  <2>2. PICK i \in Instances, t \in Tasks :
           /\ inst' = [inst EXCEPT ![i] = [dep |-> startReq[s].dep, actual |-> "pending"]]
           /\ lease' = [lease EXCEPT ![i] =
                 [g \in Gpus |-> IF g \in startReq[s].gpus THEN "reserved" ELSE "none"]]
           /\ task' = [task EXCEPT ![t] = NewTask("start", startReq[s].dep, i)]
    BY <1>6 DEF StartCommit
  <2>3. "running" \in DeploymentStatus
    BY DEF DeploymentStatus
  <2>4. dep' = [dep EXCEPT ![startReq[s].dep] = [@ EXCEPT !.status = "running"]]
    BY <1>6 DEF StartCommit
  <2>5. dep' \in [Deployments -> DepRows]
    BY <1>D, <2>1, <2>3, <2>4, DepRowStatus
  <2>6. [dep |-> startReq[s].dep, actual |-> "pending"] \in InstRows
    BY <2>1 DEF InstRows, InstanceState
  <2>7. inst' \in [Instances -> InstRows]
    BY <1>I, <2>2, <2>6
  <2>8. \A j \in Instances : InstExists(j)' => inst'[j].dep \in Deployments
    BY <1>I, <1>X, <2>1, <2>2 DEF InstExists
  <2>9. lease' \in [Instances -> [Gpus -> LeaseStatus]]
    BY <1>L, <2>2 DEF LeaseStatus, LiveLease
  <2>10. task' \in [Tasks -> TaskRows] /\ \A u \in Tasks : TaskExists(u)' => task'[u].dep \in Deployments /\ task'[u].inst \in Instances
    BY <1>T, <1>X, <2>1, <2>2, NewTaskRow DEF TaskTypes, TaskExists
  <2>11. startReq' \in [StartReqs -> StartRequest \cup {None}]
    BY <1>6, <1>Q DEF StartCommit
  <2> QED
    BY <1>6, <2>5, <2>7, <2>8, <2>9, <2>10, <2>11 DEF StartCommit, TypeInv, TypeOK, RefsOK
<1>7. ASSUME NEW s \in StartReqs, StartRollback(s) PROVE TypeInv'
  <2>1. startReq' \in [StartReqs -> StartRequest \cup {None}]
    BY <1>7, <1>Q DEF StartRollback
  <2> QED
    BY <1>7, <2>1 DEF StartRollback, dbVars, TypeInv, TypeOK, RefsOK, InstExists, TaskExists
<1>8. ASSUME NEW p \in StopReqs, NEW d \in Deployments, StopBegin(p, d) PROVE TypeInv'
  <2>1. stopReq' \in [StopReqs -> StopRequest \cup {None}]
    BY <1>8, <1>P, BoundAssumption DEF StopBegin, StopRequest
  <2> QED
    BY <1>8, <2>1 DEF StopBegin, dbVars, TypeInv, TypeOK, RefsOK, InstExists, TaskExists
<1>9. ASSUME NEW p \in StopReqs, NEW i \in Instances, StopSkipOffline(p, i) PROVE TypeInv'
  <2>1. stopReq[p] \in StopRequest
    BY <1>9, <1>P DEF StopSkipOffline
  <2>2. [stopReq[p] EXCEPT !.todo = @ \ {i}] \in StopRequest
    BY <2>1 DEF StopRequest
  <2>3. stopReq' \in [StopReqs -> StopRequest \cup {None}]
    BY <1>9, <1>P, <2>2 DEF StopSkipOffline
  <2>4. inst' \in [Instances -> InstRows] /\ InstKept
    BY <1>9, <1>I, MarkStoppingRows DEF StopSkipOffline, InstKept, InstExists
  <2> QED
    BY <1>9, <2>3, <2>4 DEF StopSkipOffline, TypeInv, TypeOK, RefsOK, InstKept, TaskExists
<1>10. ASSUME NEW p \in StopReqs, NEW i \in Instances, StopDispatch(p, i) PROVE TypeInv'
  <2>1. stopReq[p] \in StopRequest
    BY <1>10, <1>P DEF StopDispatch
  <2>2. PICK t \in Tasks :
           /\ task' = [task EXCEPT ![t] = NewTask("stop", stopReq[p].dep, i)]
           /\ stopReq' = [stopReq EXCEPT ![p].todo = @ \ {i}, ![p].wait = t]
    BY <1>10 DEF StopDispatch
  <2>0. t \in 0 .. MaxTasks
    BY BoundAssumption DEF Tasks
  <2>3. [stopReq[p] EXCEPT !.todo = @ \ {i}, !.wait = t] \in StopRequest
    BY <2>0, <2>1 DEF StopRequest
  <2>4. stopReq' \in [StopReqs -> StopRequest \cup {None}]
    BY <1>P, <2>2, <2>3
  <2>5. stopReq[p].dep \in Deployments
    BY <2>1 DEF StopRequest
  <2>6. task' \in [Tasks -> TaskRows] /\ \A u \in Tasks : TaskExists(u)' => task'[u].dep \in Deployments /\ task'[u].inst \in Instances
    BY <1>T, <1>X, <2>2, <2>5, NewTaskRow DEF TaskTypes, TaskExists
  <2>7. inst' \in [Instances -> InstRows] /\ InstKept
    BY <1>10, <1>I, MarkStoppingRows DEF StopDispatch, InstKept, InstExists
  <2> QED
    BY <1>10, <2>4, <2>6, <2>7 DEF StopDispatch, TypeInv, TypeOK, RefsOK, InstKept
<1>11. ASSUME NEW p \in StopReqs, NEW i \in Instances, StopInsertFailed(p, i) PROVE TypeInv'
  <2>1. stopReq[p] \in StopRequest
    BY <1>11, <1>P DEF StopInsertFailed
  <2>2. [stopReq[p] EXCEPT !.todo = @ \ {i}] \in StopRequest
    BY <2>1 DEF StopRequest
  <2>3. stopReq' \in [StopReqs -> StopRequest \cup {None}]
    BY <1>11, <1>P, <2>2 DEF StopInsertFailed
  <2>4. inst' \in [Instances -> InstRows] /\ InstKept
    BY <1>11, <1>I, MarkStoppingRows DEF StopInsertFailed, InstKept, InstExists
  <2> QED
    BY <1>11, <2>3, <2>4 DEF StopInsertFailed, TypeInv, TypeOK, RefsOK, InstKept, TaskExists
<1>12. ASSUME NEW p \in StopReqs, waitForAgentTaskResult(p) PROVE TypeInv'
  <2>1. [stopReq[p] EXCEPT !.wait = 0] \in StopRequest
    BY <1>12, <1>P, BoundAssumption DEF waitForAgentTaskResult, StopRequest
  <2>2. stopReq' \in [StopReqs -> StopRequest \cup {None}]
    BY <1>12, <1>P, <2>1 DEF waitForAgentTaskResult
  <2> QED
    BY <1>12, <2>2 DEF waitForAgentTaskResult, dbVars, TypeInv, TypeOK, RefsOK, InstExists, TaskExists
<1>13. ASSUME NEW p \in StopReqs, StopWaitTimeout(p) PROVE TypeInv'
  <2>1. [stopReq[p] EXCEPT !.wait = 0] \in StopRequest
    BY <1>13, <1>P, BoundAssumption DEF StopWaitTimeout, StopRequest
  <2>2. stopReq' \in [StopReqs -> StopRequest \cup {None}]
    BY <1>13, <1>P, <2>1 DEF StopWaitTimeout
  <2> QED
    BY <1>13, <2>2 DEF StopWaitTimeout, dbVars, TypeInv, TypeOK, RefsOK, InstExists, TaskExists
<1>14. ASSUME NEW p \in StopReqs, StopFinish(p) PROVE TypeInv'
  <2>1. stopReq[p].dep \in Deployments /\ "stopped" \in DeploymentStatus
    BY <1>14, <1>P DEF StopFinish, StopRequest, DeploymentStatus
  <2>2. dep' = dep \/ dep' = [dep EXCEPT ![stopReq[p].dep] = [@ EXCEPT !.status = "stopped"]]
    BY <1>14 DEF StopFinish
  <2>3. dep' \in [Deployments -> DepRows]
    BY <1>D, <2>1, <2>2, DepRowStatus
  <2>4. stopReq' \in [StopReqs -> StopRequest \cup {None}]
    BY <1>14, <1>P DEF StopFinish
  <2> QED
    BY <1>14, <2>3, <2>4 DEF StopFinish, dbVars, TypeInv, TypeOK, RefsOK, InstExists, TaskExists
<1>15. ASSUME NEW i \in Instances, FetchLogs(i) PROVE TypeInv'
  <2>1. inst[i].dep \in Deployments
    BY <1>15, <1>X DEF FetchLogs
  <2>2. task' \in [Tasks -> TaskRows] /\ \A u \in Tasks : TaskExists(u)' => task'[u].dep \in Deployments /\ task'[u].inst \in Instances
    BY <1>15, <1>T, <1>X, <2>1, NewTaskRow DEF FetchLogs, TaskTypes, TaskExists
  <2> QED
    BY <1>15, <2>2 DEF FetchLogs, TypeInv, TypeOK, RefsOK, InstExists
<1>16. ASSUME NEW d \in Deployments, DeleteDeployment(d) PROVE TypeInv'
  <2>1. [NoDep EXCEPT !.status = "deleted"] \in DepRows
    BY DEF NoDep, DepRows, PlacementJson, DeploymentStatus
  <2>2. dep' \in [Deployments -> DepRows]
    BY <1>16, <1>D, <2>1 DEF DeleteDeployment
  <2>3. inst' \in [Instances -> InstRows] /\ InstKept
    BY <1>16, <1>I DEF DeleteDeployment, InstKept, NoInst, InstRows, InstanceState, InstExists
  <2>4. lease' \in [Instances -> [Gpus -> LeaseStatus]]
    BY <1>16, <1>L DEF DeleteDeployment, LeaseStatus
  <2>5. task' \in [Tasks -> TaskRows] /\ TaskKept
    BY <1>16, <1>T DEF DeleteDeployment, TaskKept, NoTask, TaskRows, TaskTypes, TaskStatus, TaskExists
  <2> QED
    BY <1>16, <2>2, <2>3, <2>4, <2>5 DEF DeleteDeployment, TypeInv, TypeOK, RefsOK, InstKept, TaskKept
<1>17. ASSUME NEW n \in Nodes, Heartbeat(n) PROVE TypeInv'
  <2>1. "failed" \in DeploymentStatus /\ "failed" \in InstanceState /\ "claimed" \in TaskStatus
    BY DEF DeploymentStatus, InstanceState, TaskStatus
  <2>2. dep' \in [Deployments -> DepRows]
    BY <1>17, <1>D, <2>1, DepRowStatus DEF Heartbeat, claimAndReturnTasks, SweptDep
  <2>3. inst' \in [Instances -> InstRows] /\ InstKept
    BY <1>17, <1>I, <2>1, InstRowState DEF Heartbeat, claimAndReturnTasks, SweptInst, InstKept, InstExists
  <2>4. \A t \in ClaimedNow(n) : TaskExists(t)
    BY DEF ClaimedNow, Claimable, OnNode
  <2>5. task' \in [Tasks -> TaskRows]
    BY <1>17, <1>T, <2>1, SweptTaskRow, TaskRowStatus DEF Heartbeat, claimAndReturnTasks
  <2>6. TaskKept
    <3> SUFFICES ASSUME NEW t \in Tasks, TaskExists(t)'
                 PROVE  TaskExists(t) /\ task'[t].dep = task[t].dep /\ task'[t].inst = task[t].inst
      BY DEF TaskKept
    <3>1. CASE t \in ClaimedNow(n)
      <4>1. task'[t] = [SweptTask(t, n) EXCEPT !.status = "claimed"]
        BY <1>17, <3>1 DEF Heartbeat, claimAndReturnTasks
      <4> QED
        BY <1>T, <2>1, <2>4, <3>1, <4>1, SweptTaskRow, TaskRowStatus
    <3>2. CASE t \notin ClaimedNow(n)
      <4>1. task'[t] = SweptTask(t, n)
        BY <1>17, <3>2 DEF Heartbeat, claimAndReturnTasks
      <4> QED
        BY <1>T, <4>1, SweptTaskRow DEF TaskExists
    <3> QED
      BY <3>1, <3>2
  <2>7. nodeStatus' \in [Nodes -> {"online", "offline"}]
    BY <1>17, <1>N DEF Heartbeat
  <2> QED
    BY <1>17, <2>2, <2>3, <2>5, <2>6, <2>7 DEF Heartbeat, TypeInv, TypeOK, RefsOK, InstKept, TaskKept
<1>18. ASSUME NEW n \in Nodes, MarkOffline(n) PROVE TypeInv'
  <2>1. nodeStatus' \in [Nodes -> {"online", "offline"}]
    BY <1>18, <1>N DEF MarkOffline
  <2> QED
    BY <1>18, <2>1 DEF MarkOffline, dbVars, TypeInv, TypeOK, RefsOK, InstExists, TaskExists
<1>19. ASSUME NEW t \in Tasks, Expire(t) PROVE TypeInv'
  <2>1. task' = [task EXCEPT ![t] = [@ EXCEPT !.expired = TRUE]]
    BY <1>19 DEF Expire
  <2>2. task' \in [Tasks -> TaskRows] /\ TaskKept
    BY <1>T, <2>1, TaskRowExpired DEF TaskKept, TaskExists
  <2> QED
    BY <1>19, <2>2 DEF Expire, TypeInv, TypeOK, RefsOK, TaskKept, InstExists
<1>20. ASSUME NEW r \in Reports, NEW t \in Tasks, NEW ok \in BOOLEAN, ReportBegin(r, t, ok) PROVE TypeInv'
  <2>1. task[t].type \in TaskTypes /\ task[t].inst \in Instances
    BY <1>20, <1>T, <1>X DEF ReportBegin, TaskExists, TaskRows
  <2>2. report' \in [Reports -> ReportRequest \cup {None}]
    BY <1>20, <1>R, <2>1 DEF ReportBegin, ReportRequest
  <2> QED
    BY <1>20, <2>2 DEF ReportBegin, dbVars, TypeInv, TypeOK, RefsOK, InstExists, TaskExists
<1>21. ASSUME NEW r \in Reports, ReportTask(r) PROVE TypeInv'
  <2>1. report[r] \in ReportRequest
    BY <1>21, <1>R DEF ReportTask
  <2>2. report' \in [Reports -> ReportRequest \cup {None}]
    BY <1>21, <1>R, <2>1, AfterStatementType DEF ReportTask
  <2>3. PICK st \in {"completed", "failed"} :
           task' = IF TaskExists(report[r].task)
                   THEN [task EXCEPT ![report[r].task] = [@ EXCEPT !.status = st, !.expired = FALSE]]
                   ELSE task
    BY <1>21 DEF ReportTask
  <2>4. report[r].task \in Tasks /\ st \in TaskStatus
    BY <2>1 DEF ReportRequest, TaskStatus, Finished
  <2>5. task' \in [Tasks -> TaskRows]
    BY <1>T, <2>3, <2>4, TaskRowFinished
  <2>6. ASSUME TaskExists(report[r].task) PROVE TaskKept
    <3>1. task'[report[r].task] = [task[report[r].task] EXCEPT !.status = st, !.expired = FALSE]
      BY <1>T, <2>3, <2>4, <2>6
    <3>2. \A u \in Tasks \ {report[r].task} : task'[u] = task[u]
      BY <1>T, <2>3, <2>4, <2>6
    <3> DEFINE row == task[report[r].task]
    <3>0. row \in TaskRows
      BY <1>T, <2>4
    <3> HIDE DEF row
    <3>3. /\ [row EXCEPT !.status = st, !.expired = FALSE].dep = row.dep
          /\ [row EXCEPT !.status = st, !.expired = FALSE].inst = row.inst
      BY <2>4, <3>0, TaskRowFinished
    <3> QED
      BY <2>6, <3>1, <3>2, <3>3 DEF row, TaskKept, TaskExists
  <2>7. ASSUME ~TaskExists(report[r].task) PROVE TaskKept
    BY <2>3, <2>7 DEF TaskKept, TaskExists
  <2>8. TaskKept
    BY <2>6, <2>7
  <2> QED
    BY <1>21, <2>2, <2>5, <2>8 DEF ReportTask, TypeInv, TypeOK, RefsOK, TaskKept, InstExists
<1>22. ASSUME NEW r \in Reports, ReportInst(r) PROVE TypeInv'
  <2>1. report[r] \in ReportRequest
    BY <1>22, <1>R DEF ReportInst
  <2>2. report' \in [Reports -> ReportRequest \cup {None}]
    BY <1>22, <1>R, <2>1, AfterStatementType DEF ReportInst
  <2>3. report[r].inst \in Instances /\ ReportedInst(report[r].type, report[r].ok) \in InstanceState
    BY <2>1 DEF ReportRequest, ReportedInst, InstanceState
  <2>4. inst' = IF InstExists(report[r].inst)
                THEN [inst EXCEPT ![report[r].inst] =
                         [@ EXCEPT !.actual = ReportedInst(report[r].type, report[r].ok)]]
                ELSE inst
    BY <1>22 DEF ReportInst
  <2>5. inst' \in [Instances -> InstRows] /\ InstKept
    BY <1>I, <2>3, <2>4, InstRowState DEF InstKept, InstExists
  <2> QED
    BY <1>22, <2>2, <2>5 DEF ReportInst, TypeInv, TypeOK, RefsOK, InstKept, TaskExists
<1>23. ASSUME NEW r \in Reports, ReportLease(r) PROVE TypeInv'
  <2>1. report[r] \in ReportRequest
    BY <1>23, <1>R DEF ReportLease
  <2>2. report' \in [Reports -> ReportRequest \cup {None}]
    BY <1>23, <1>R, <2>1, AfterStatementType DEF ReportLease
  <2>3. report[r].inst \in Instances /\ report[r].type \in TaskTypes /\ report[r].ok \in BOOLEAN
    BY <2>1 DEF ReportRequest
  <2>4. \A g \in Gpus : ReportedLease(lease[report[r].inst][g], report[r].type, report[r].ok) \in LeaseStatus
    BY <1>L, <2>3, ReportedLeaseType
  <2>5. lease' \in [Instances -> [Gpus -> LeaseStatus]]
    BY <1>23, <1>L, <2>3, <2>4 DEF ReportLease
  <2> QED
    BY <1>23, <2>2, <2>5 DEF ReportLease, dbVars, TypeInv, TypeOK, RefsOK, InstExists, TaskExists
<1>24. ASSUME NEW r \in Reports, ReportStatementFails(r) PROVE TypeInv'
  <2>1. report[r] \in ReportRequest
    BY <1>24, <1>R DEF ReportStatementFails
  <2>2. report' \in [Reports -> ReportRequest \cup {None}]
    BY <1>24, <1>R, <2>1, AfterStatementType DEF ReportStatementFails
  <2>3. faults' \in 0 .. MaxFaults
    BY <1>24, <1>F, BoundAssumption DEF ReportStatementFails
  <2> QED
    BY <1>24, <2>2, <2>3 DEF ReportStatementFails, dbVars, TypeInv, TypeOK, RefsOK, InstExists, TaskExists
<1>25. ASSUME ServerRestart PROVE TypeInv'
  <2>1. faults' \in 0 .. MaxFaults
    BY <1>25, <1>F, BoundAssumption DEF ServerRestart
  <2> QED
    BY <1>25, <2>1 DEF ServerRestart, dbVars, TypeInv, TypeOK, RefsOK, InstExists, TaskExists
<1>26. ASSUME NEW n \in Nodes, HandleResourceReport(n) PROVE TypeInv'
  BY <1>26, <1>N DEF HandleResourceReport, TypeInv, TypeOK, RefsOK, InstExists, TaskExists
<1>27. CASE UNCHANGED vars
  BY <1>27 DEF vars, TypeInv, TypeOK, RefsOK, InstExists, TaskExists
<1>28. ASSUME NEW n \in Nodes, HeartbeatUnswept(n) PROVE TypeInv'
  <2>1. "failed" \in InstanceState /\ "claimed" \in TaskStatus
    BY DEF InstanceState, TaskStatus
  <2>2. inst' \in [Instances -> InstRows] /\ InstKept
    <3>1. CASE inst' = inst
      BY <1>I, <3>1 DEF InstKept, InstExists
    <3>2. CASE inst' = [i \in Instances |-> UnsweptInst(i, n)]
      BY <1>I, <2>1, <3>2, InstRowState DEF UnsweptInst, InstKept, InstExists
    <3> QED
      BY <1>28, <3>1, <3>2 DEF HeartbeatUnswept
  <2>3. /\ task' = [t \in Tasks |-> IF t \in UnsweptClaim(n) THEN [task[t] EXCEPT !.status = "claimed"]
                                     ELSE task[t]]
        /\ \A t \in UnsweptClaim(n) : TaskExists(t)
    BY <1>28 DEF HeartbeatUnswept, UnsweptClaim, OnNode
  <2>4. task' \in [Tasks -> TaskRows]
    BY <1>T, <2>1, <2>3, TaskRowStatus
  <2>5. TaskKept
    <3> SUFFICES ASSUME NEW t \in Tasks, TaskExists(t)'
                 PROVE  TaskExists(t) /\ task'[t].dep = task[t].dep /\ task'[t].inst = task[t].inst
      BY DEF TaskKept
    <3>1. CASE t \in UnsweptClaim(n)
      BY <1>T, <2>1, <2>3, <3>1, TaskRowStatus
    <3>2. CASE t \notin UnsweptClaim(n)
      BY <2>3, <3>2 DEF TaskExists
    <3> QED
      BY <3>1, <3>2
  <2>6. nodeStatus' \in [Nodes -> {"online", "offline"}] /\ faults' \in 0 .. MaxFaults
    BY <1>28, <1>N, <1>F, BoundAssumption DEF HeartbeatUnswept
  <2> QED
    BY <1>28, <2>2, <2>4, <2>5, <2>6 DEF HeartbeatUnswept, TypeInv, TypeOK, RefsOK, InstKept, TaskKept
<1> QED
  BY <1>1, <1>2, <1>3, <1>4, <1>5, <1>6, <1>7, <1>8, <1>9, <1>10, <1>11, <1>12, <1>13, <1>14, <1>15, <1>16, <1>17, <1>18, <1>19, <1>20, <1>21, <1>22, <1>23, <1>24, <1>25, <1>26, <1>27, <1>28 DEF Next, UserNext, HandlerNext, NodeNext

(* The tables and the requests in flight always have the shape TypeOK      *)
(* gives them: the state the handlers share is what the schema promises.   *)
THEOREM TypeCorrect == Spec => []TypeOK
<1>1. Spec => []TypeInv
  BY InitTypeInv, StepTypeInv, PTL DEF Spec
<1>2. TypeInv => TypeOK
  BY DEF TypeInv
<1> QED
  BY <1>1, <1>2, PTL

-----------------------------------------------------------------------------
(* Leases.                                                                 *)

(* The steps that leave the leases alone do not make or delete an instance *)
(* and do not delete a deployment either.                                  *)
Quiet ==
    /\ lease' = lease
    /\ \A i \in Instances : /\ InstExists(i)' <=> InstExists(i)
                            /\ inst'[i].actual = "none" <=> inst[i].actual = "none"
                            /\ inst'[i].dep = inst[i].dep
    /\ \A d \in Deployments : DepExists(d) => DepExists(d)'

(* Only the start transaction, the delete transaction and the last         *)
(* statement of HandleTaskResult touch gpu_leases.                         *)
LEMMA LeaseSteps ==
    ASSUME TypeInv, [Next]_vars
    PROVE  \/ Quiet
           \/ \E s \in StartReqs : StartCommit(s)
           \/ \E d \in Deployments : DeleteDeployment(d)
           \/ \E r \in Reports : ReportLease(r)
<1>D. dep \in [Deployments -> DepRows]
  BY DEF TypeInv, TypeOK
<1>I. inst \in [Instances -> InstRows]
  BY DEF TypeInv, TypeOK
<1>R. report \in [Reports -> ReportRequest \cup {None}]
  BY DEF TypeInv, TypeOK
<1>1. ASSUME NEW d \in Deployments, NEW pl \in Placements, CreateDeployment(d, pl) PROVE Quiet
  BY <1>1, <1>D DEF CreateDeployment, Quiet, InstExists, DepExists
<1>2. ASSUME NEW d \in Deployments, NEW pl \in Placements, PatchDeployment(d, pl) PROVE Quiet
  <2>1. dep' = [dep EXCEPT ![d] = [@ EXCEPT !.placement = pl]]
    BY <1>2 DEF PatchDeployment
  <2>2. [dep[d] EXCEPT !.placement = pl].status = dep[d].status
    BY <1>D DEF DepRows
  <2> QED
    BY <1>2, <1>D, <2>1, <2>2 DEF PatchDeployment, Quiet, InstExists, DepExists
<1>3. ASSUME NEW s \in StartReqs, NEW d \in Deployments, StartCheck(s, d) PROVE Quiet
  BY <1>3 DEF StartCheck, dbVars, Quiet, InstExists, DepExists
<1>4. ASSUME NEW s \in StartReqs, preflightDeployment(s) PROVE Quiet
  BY <1>4 DEF preflightDeployment, dbVars, Quiet, InstExists, DepExists
<1>5. ASSUME NEW s \in StartReqs, PreflightRefuses(s) PROVE Quiet
  BY <1>5 DEF PreflightRefuses, dbVars, Quiet, InstExists, DepExists
<1>6. ASSUME NEW s \in StartReqs, StartRollback(s) PROVE Quiet
  BY <1>6 DEF StartRollback, dbVars, Quiet, InstExists, DepExists
<1>7. ASSUME NEW p \in StopReqs, NEW d \in Deployments, StopBegin(p, d) PROVE Quiet
  BY <1>7 DEF StopBegin, dbVars, Quiet, InstExists, DepExists
<1>8. ASSUME NEW p \in StopReqs, NEW i \in Instances, StopSkipOffline(p, i) PROVE Quiet
  BY <1>8, <1>I, MarkStoppingRows DEF StopSkipOffline, Quiet, InstExists, DepExists
<1>9. ASSUME NEW p \in StopReqs, NEW i \in Instances, StopDispatch(p, i) PROVE Quiet
  BY <1>9, <1>I, MarkStoppingRows DEF StopDispatch, Quiet, InstExists, DepExists
<1>10. ASSUME NEW p \in StopReqs, NEW i \in Instances, StopInsertFailed(p, i) PROVE Quiet
  BY <1>10, <1>I, MarkStoppingRows DEF StopInsertFailed, Quiet, InstExists, DepExists
<1>11. ASSUME NEW p \in StopReqs, waitForAgentTaskResult(p) PROVE Quiet
  BY <1>11 DEF waitForAgentTaskResult, dbVars, Quiet, InstExists, DepExists
<1>12. ASSUME NEW p \in StopReqs, StopWaitTimeout(p) PROVE Quiet
  BY <1>12 DEF StopWaitTimeout, dbVars, Quiet, InstExists, DepExists
<1>13. ASSUME NEW p \in StopReqs, StopFinish(p) PROVE Quiet
  <2>1. \A d \in Deployments : [dep[d] EXCEPT !.status = "stopped"].status = "stopped"
    BY <1>D DEF DepRows
  <2>2. dep' = dep \/ dep' = [dep EXCEPT ![stopReq[p].dep] = [@ EXCEPT !.status = "stopped"]]
    BY <1>13 DEF StopFinish
  <2> QED
    BY <1>13, <1>D, <2>1, <2>2 DEF StopFinish, Quiet, InstExists, DepExists
<1>14. ASSUME NEW i \in Instances, FetchLogs(i) PROVE Quiet
  BY <1>14 DEF FetchLogs, dbVars, Quiet, InstExists, DepExists
<1>15. ASSUME NEW n \in Nodes, Heartbeat(n) PROVE Quiet
  <2>1. "failed" \in InstanceState
    BY DEF InstanceState
  <2>2. \A i \in Instances : /\ SweptInst(i, n).dep = inst[i].dep
                             /\ SweptInst(i, n) = inst[i] \/ (InstExists(i) /\ SweptInst(i, n).actual = "failed")
    BY <1>I, <2>1, InstRowState DEF SweptInst
  <2>3. \A d \in Deployments : SweptDep(d, n) = dep[d] \/ SweptDep(d, n).status = "failed"
    BY <1>D DEF SweptDep, DepRows
  <2> QED
    BY <1>15, <2>2, <2>3 DEF Heartbeat, claimAndReturnTasks, Quiet, InstExists, DepExists
<1>16. ASSUME NEW n \in Nodes, MarkOffline(n) PROVE Quiet
  BY <1>16 DEF MarkOffline, dbVars, Quiet, InstExists, DepExists
<1>17. ASSUME NEW t \in Tasks, Expire(t) PROVE Quiet
  BY <1>17 DEF Expire, dbVars, Quiet, InstExists, DepExists
<1>18. ASSUME NEW r \in Reports, NEW t \in Tasks, NEW ok \in BOOLEAN, ReportBegin(r, t, ok) PROVE Quiet
  BY <1>18 DEF ReportBegin, dbVars, Quiet, InstExists, DepExists
<1>19. ASSUME NEW r \in Reports, ReportTask(r) PROVE Quiet
  BY <1>19 DEF ReportTask, dbVars, Quiet, InstExists, DepExists
<1>20. ASSUME NEW r \in Reports, ReportInst(r) PROVE Quiet
  <2>1. report[r].inst \in Instances
    BY <1>20, <1>R DEF ReportInst, ReportRequest
  <2>2. ReportedInst(report[r].type, report[r].ok) \in InstanceState \ {"none", "deleted"}
    BY DEF ReportedInst, InstanceState
  <2>3. inst' = IF InstExists(report[r].inst)
                THEN [inst EXCEPT ![report[r].inst] =
                         [@ EXCEPT !.actual = ReportedInst(report[r].type, report[r].ok)]]
                ELSE inst
    BY <1>20 DEF ReportInst
  <2>4. \A i \in Instances : /\ inst'[i].dep = inst[i].dep
                             /\ inst'[i] = inst[i] \/ (InstExists(i) /\ InstExists(i)')
    BY <1>I, <2>1, <2>2, <2>3, InstRowState DEF InstExists
  <2> QED
    BY <1>20, <2>4 DEF ReportInst, Quiet, InstExists, DepExists
<1>21. ASSUME NEW r \in Reports, ReportStatementFails(r) PROVE Quiet
  BY <1>21 DEF ReportStatementFails, dbVars, Quiet, InstExists, DepExists
<1>22. ASSUME ServerRestart PROVE Quiet
  BY <1>22 DEF ServerRestart, dbVars, Quiet, InstExists, DepExists
<1>23. ASSUME NEW n \in Nodes, HandleResourceReport(n) PROVE Quiet
  BY <1>23 DEF HandleResourceReport, Quiet, InstExists, DepExists
<1>24. CASE UNCHANGED vars
  BY <1>24 DEF vars, Quiet, InstExists, DepExists
<1>25. ASSUME NEW n \in Nodes, HeartbeatUnswept(n) PROVE Quiet
  <2>1. \A i \in Instances :
           /\ UnsweptInst(i, n).dep = inst[i].dep
           /\ UnsweptInst(i, n) = inst[i] \/ (InstExists(i) /\ UnsweptInst(i, n).actual = "failed")
    BY <1>I, InstRowState DEF UnsweptInst, InstanceState
  <2> QED
    BY <1>25, <2>1 DEF HeartbeatUnswept, Quiet, InstExists, DepExists
<1> QED
  BY <1>1, <1>2, <1>3, <1>4, <1>5, <1>6, <1>7, <1>8, <1>9, <1>10, <1>11, <1>12, <1>13, <1>14, <1>15, <1>16, <1>17, <1>18, <1>19, <1>20, <1>21, <1>22, <1>23, <1>24, <1>25 DEF Next, UserNext, HandlerNext, NodeNext

(* The live leases of an instance are all reserved or all active: one      *)
(* statement changes all of them.                                          *)
LeaseUniform ==
    \A i \in Instances : \A g, h \in Gpus :
        lease[i][g] \in LiveLease /\ lease[i][h] \in LiveLease => lease[i][g] = lease[i][h]

(* An instance id that no start has used belongs to no deployment.         *)
UnusedInst == \A i \in Instances : inst[i].actual = "none" => inst[i].dep = None

LeaseInv == LeaseExclusive /\ NoOrphanRows /\ LeaseUniform /\ UnusedInst

(* What the start transaction writes.                                      *)
LEMMA StartCommitRows ==
    ASSUME TypeInv, NoOrphanRows, NEW s \in StartReqs, StartCommit(s)
    PROVE  \E i \in Instances :
              /\ startReq[s].dep \in Deployments
              /\ startReq[s].gpus \in SUBSET Gpus
              /\ \A d \in Deployments : DepExists(d) \/ d = startReq[s].dep => DepExists(d)'
              /\ \A g \in startReq[s].gpus : ~Leased(g)
              /\ inst[i].actual = "none"
              /\ \A g \in Gpus : lease[i][g] = "none"
              /\ inst'[i].dep = startReq[s].dep
              /\ inst'[i].actual = "pending"
              /\ \A g \in Gpus : lease'[i][g] = IF g \in startReq[s].gpus THEN "reserved" ELSE "none"
              /\ \A j \in Instances \ {i} : inst'[j] = inst[j] /\ lease'[j] = lease[j]
<1>1. startReq[s] \in StartRequest
  BY DEF StartCommit, TypeInv, TypeOK
<1>2. PICK i \in Instances :
         /\ inst[i].actual = "none"
         /\ inst' = [inst EXCEPT ![i] = [dep |-> startReq[s].dep, actual |-> "pending"]]
         /\ lease' = [lease EXCEPT ![i] =
               [g \in Gpus |-> IF g \in startReq[s].gpus THEN "reserved" ELSE "none"]]
  BY DEF StartCommit
<1>3. startReq[s].dep \in Deployments /\ startReq[s].gpus \in SUBSET Gpus
  BY <1>1 DEF StartRequest
<1>4. \A g \in startReq[s].gpus : ~Leased(g)
  BY DEF StartCommit, StartAdmissible
<1>5. dep' = [dep EXCEPT ![startReq[s].dep] = [@ EXCEPT !.status = "running"]]
  BY DEF StartCommit
<1>D. dep \in [Deployments -> DepRows]
  BY DEF TypeInv, TypeOK
<1>6. /\ dep'[startReq[s].dep].status = "running"
      /\ \A d \in Deployments \ {startReq[s].dep} : dep'[d] = dep[d]
  BY <1>D, <1>3, <1>5 DEF DepRows
<1>7. \A d \in Deployments : DepExists(d) \/ d = startReq[s].dep => DepExists(d)'
  BY <1>3, <1>6 DEF DepExists
<1>8. /\ inst'[i].dep = startReq[s].dep
      /\ inst'[i].actual = "pending"
      /\ \A j \in Instances \ {i} : inst'[j] = inst[j]
  BY <1>2 DEF TypeInv, TypeOK
<1>9. /\ \A g \in Gpus : lease'[i][g] = IF g \in startReq[s].gpus THEN "reserved" ELSE "none"
      /\ \A j \in Instances \ {i} : lease'[j] = lease[j]
  BY <1>2 DEF TypeInv, TypeOK
<1>10. \A g \in Gpus : lease[i][g] = "none"
  BY <1>2 DEF NoOrphanRows, InstExists
<1> QED
  BY <1>2, <1>3, <1>4, <1>7, <1>8, <1>9, <1>10

(* What the last statement of HandleTaskResult writes.                     *)
LEMMA ReportLeaseRows ==
    ASSUME TypeInv, NEW r \in Reports, ReportLease(r)
    PROVE  /\ report[r].inst \in Instances
           /\ report[r].type \in TaskTypes
           /\ report[r].ok \in BOOLEAN
           /\ inst' = inst /\ dep' = dep
           /\ \A j \in Instances \ {report[r].inst} : lease'[j] = lease[j]
           /\ \A g \in Gpus : lease'[report[r].inst][g] =
                 ReportedLease(lease[report[r].inst][g], report[r].type, report[r].ok)
<1>1. report[r] \in ReportRequest
  BY DEF ReportLease, TypeInv, TypeOK
<1>2. report[r].inst \in Instances /\ report[r].type \in TaskTypes /\ report[r].ok \in BOOLEAN
  BY <1>1 DEF ReportRequest
<1> QED
  BY <1>2 DEF ReportLease, TypeInv, TypeOK

(* The empty lease table is exclusive, uniform and free of orphans.        *)
LEMMA InitLeaseInv == Init => LeaseInv
  BY DEF Init, LeaseInv, LeaseExclusive, NoOrphanRows, LeaseUniform, UnusedInst, NoInst,
         InstExists, LiveLease

(* Every step of every handler keeps it so.                                *)
LEMMA StepLeaseInv == TypeInv /\ LeaseInv /\ [Next]_vars => LeaseInv'
<1> SUFFICES ASSUME TypeInv, LeaseInv, [Next]_vars PROVE LeaseInv'
  OBVIOUS
<1>L. lease \in [Instances -> [Gpus -> LeaseStatus]]
  BY DEF TypeInv, TypeOK
<1>1. CASE Quiet
  BY <1>1 DEF Quiet, LeaseInv, LeaseExclusive, NoOrphanRows, LeaseUniform, UnusedInst
<1>2. ASSUME NEW s \in StartReqs, StartCommit(s) PROVE LeaseInv'
  <2>1. PICK i \in Instances :
              /\ startReq[s].dep \in Deployments
              /\ \A d \in Deployments : DepExists(d) \/ d = startReq[s].dep => DepExists(d)'
              /\ \A g \in startReq[s].gpus : ~Leased(g)
              /\ inst'[i].dep = startReq[s].dep
              /\ inst'[i].actual = "pending"
              /\ \A g \in Gpus : lease'[i][g] = IF g \in startReq[s].gpus THEN "reserved" ELSE "none"
              /\ \A j \in Instances \ {i} : inst'[j] = inst[j] /\ lease'[j] = lease[j]
    BY <1>2, StartCommitRows DEF LeaseInv
  <2>2. LeaseExclusive'
    BY <2>1 DEF LeaseInv, LeaseExclusive, Leased, LiveLease
  <2>3. LeaseUniform'
    BY <2>1 DEF LeaseInv, LeaseUniform, LiveLease
  <2>4. InstExists(i)' /\ \A j \in Instances \ {i} : InstExists(j)' <=> InstExists(j)
    BY <2>1 DEF InstExists
  <2>5. NoOrphanRows'
    BY <2>1, <2>4 DEF LeaseInv, NoOrphanRows, DepExists
  <2>6. UnusedInst'
    BY <2>1 DEF LeaseInv, UnusedInst
  <2> QED
    BY <2>2, <2>3, <2>5, <2>6 DEF LeaseInv
<1>3. ASSUME NEW d \in Deployments, DeleteDeployment(d) PROVE LeaseInv'
  <2>1. \A i \in Instances :
           IF inst[i].dep = d
           THEN ~InstExists(i)' /\ \A g \in Gpus : lease'[i][g] = "none"
           ELSE inst'[i] = inst[i] /\ lease'[i] = lease[i]
    BY <1>3 DEF DeleteDeployment, InstExists, NoInst
  <2>2. \A e \in Deployments \ {d} : dep'[e] = dep[e]
    BY <1>3 DEF DeleteDeployment, TypeInv, TypeOK
  <2>3. LeaseExclusive' /\ LeaseUniform'
    BY <2>1 DEF LeaseInv, LeaseExclusive, LeaseUniform, LiveLease
  <2>4. NoOrphanRows'
    BY <2>1, <2>2 DEF LeaseInv, NoOrphanRows, InstExists, DepExists
  <2>5. UnusedInst'
    BY <1>3 DEF DeleteDeployment, NoInst, LeaseInv, UnusedInst
  <2> QED
    BY <2>3, <2>4, <2>5 DEF LeaseInv
<1>4. ASSUME NEW r \in Reports, ReportLease(r) PROVE LeaseInv'
  <2> DEFINE i == report[r].inst
  <2>1. /\ i \in Instances
        /\ inst' = inst /\ dep' = dep
        /\ \A j \in Instances \ {i} : lease'[j] = lease[j]
        /\ \A g \in Gpus : lease'[i][g] = ReportedLease(lease[i][g], report[r].type, report[r].ok)
        /\ report[r].type \in TaskTypes /\ report[r].ok \in BOOLEAN
    BY <1>4, ReportLeaseRows
  <2> HIDE DEF i
  <2>2. \A g \in Gpus : /\ lease'[i][g] \in LiveLease => lease[i][g] \in LiveLease
                        /\ lease[i][g] \notin LiveLease => lease'[i][g] = lease[i][g]
    BY <1>L, <2>1, ReportedLeaseType
  <2>3. LeaseExclusive'
    BY <2>1, <2>2 DEF LeaseInv, LeaseExclusive
  <2>4. \A g, h \in Gpus : lease[i][g] = lease[i][h] => lease'[i][g] = lease'[i][h]
    BY <2>1
  <2>5. LeaseUniform'
    BY <2>1, <2>2, <2>4 DEF LeaseInv, LeaseUniform
  <2>6. \A g \in Gpus : lease'[i][g] # "none" => lease[i][g] # "none"
    BY <2>2 DEF LiveLease
  <2>7. NoOrphanRows'
    BY <2>1, <2>6 DEF LeaseInv, NoOrphanRows, InstExists, DepExists
  <2>8. UnusedInst'
    BY <2>1 DEF LeaseInv, UnusedInst
  <2> QED
    BY <2>3, <2>5, <2>7, <2>8 DEF LeaseInv
<1> QED
  BY <1>1, <1>2, <1>3, <1>4, LeaseSteps

(* The two invariants together are inductive.                              *)
LEMMA Inductive == Spec => [](TypeInv /\ LeaseInv)
<1>1. Init => TypeInv /\ LeaseInv
  BY InitTypeInv, InitLeaseInv
<1>2. (TypeInv /\ LeaseInv) /\ [Next]_vars => (TypeInv /\ LeaseInv)'
  BY StepTypeInv, StepLeaseInv
<1> QED
  BY <1>1, <1>2, PTL DEF Spec

(* No GPU is ever leased to two instances, for any number of deployments,  *)
(* GPUs, nodes and concurrent handlers, server restarts included.          *)
THEOREM LeaseExclusion == Spec => []LeaseExclusive
<1>1. LeaseInv => LeaseExclusive
  BY DEF LeaseInv
<1> QED
  BY <1>1, Inductive, PTL

(* No instance outlives its deployment and no lease its instance, whatever *)
(* runs concurrently with HandleDeleteDeployment.                          *)
THEOREM NoOrphans == Spec => []NoOrphanRows
<1>1. LeaseInv => NoOrphanRows
  BY DEF LeaseInv
<1> QED
  BY <1>1, Inductive, PTL

(* A lease that ended stays ended: no late, duplicated or reordered result *)
(* takes a GPU that a stop or a failure has given back.                    *)
THEOREM EndedLeaseStaysEnded == Spec => LeaseNeverRevived
<1>1. TypeInv /\ LeaseInv /\ [Next]_vars
         => [\A i \in Instances, g \in Gpus :
               /\ lease[i][g] \in {"released", "failed"} => lease'[i][g] \in {lease[i][g], "none"}
               /\ lease[i][g] = "active" => lease'[i][g] \in {"active", "released", "none"}]_vars
  <2> SUFFICES ASSUME TypeInv, LeaseInv, [Next]_vars, NEW i \in Instances, NEW g \in Gpus
               PROVE  /\ lease[i][g] \in {"released", "failed"} => lease'[i][g] \in {lease[i][g], "none"}
                      /\ lease[i][g] = "active" => lease'[i][g] \in {"active", "released", "none"}
    OBVIOUS
  <2>1. CASE Quiet
    BY <2>1 DEF Quiet
  <2>2. ASSUME NEW s \in StartReqs, StartCommit(s)
        PROVE  lease'[i][g] = lease[i][g] \/ lease[i][g] = "none"
    BY <2>2, StartCommitRows DEF LeaseInv
  <2>3. ASSUME NEW d \in Deployments, DeleteDeployment(d)
        PROVE  lease'[i][g] = lease[i][g] \/ lease'[i][g] = "none"
    BY <2>3 DEF DeleteDeployment
  <2>4. ASSUME NEW r \in Reports, ReportLease(r)
        PROVE  \/ lease'[i][g] = lease[i][g]
               \/ lease[i][g] \in LiveLease /\ (lease[i][g] = "active" => lease'[i][g] \in {"active", "released"})
    <3>1. lease[i][g] \in LeaseStatus
      BY DEF TypeInv, TypeOK
    <3>2. \/ lease'[i] = lease[i]
          \/ /\ lease'[i][g] = ReportedLease(lease[i][g], report[r].type, report[r].ok)
             /\ report[r].type \in TaskTypes /\ report[r].ok \in BOOLEAN
      BY <2>4, ReportLeaseRows
    <3> QED
      BY <3>1, <3>2, ReportedLeaseType
  <2> QED
    BY <2>1, <2>2, <2>3, <2>4, LeaseSteps DEF LiveLease
<1> QED
  BY <1>1, Inductive, PTL DEF Spec, LeaseNeverRevived

-----------------------------------------------------------------------------
(* The lease table implements GpuAllocator.                                *)

(* OwnerOf as a function of the lease table, to speak of it in two states. *)
Own(l, g) ==
    IF \E i \in Instances : l[i][g] \in LiveLease
    THEN CHOOSE i \in Instances : l[i][g] \in LiveLease
    ELSE None

(* In an exclusive table the owner of a GPU is the one instance that has a *)
(* live lease for it.                                                      *)
LEMMA OwnIs ==
    ASSUME NEW l, NEW g,
           \A i, j \in Instances : l[i][g] \in LiveLease /\ l[j][g] \in LiveLease => i = j
    PROVE  /\ Own(l, g) \in Instances \cup {None}
           /\ \A i \in Instances : Own(l, g) = i <=> l[i][g] \in LiveLease
<1>1. CASE \E i \in Instances : l[i][g] \in LiveLease
  <2>1. Own(l, g) \in Instances /\ l[Own(l, g)][g] \in LiveLease
    BY <1>1 DEF Own
  <2> QED
    BY <2>1
<1>2. CASE ~ \E i \in Instances : l[i][g] \in LiveLease
  <2>1. Own(l, g) = None
    BY <1>2 DEF Own
  <2> QED
    BY <1>2, <2>1, NoneAssumption
<1> QED
  BY <1>1, <1>2

(* A result keeps all live leases of its instance alive, or ends them all. *)
LEMMA ReportLeaseAllOrNone ==
    ASSUME TypeInv, LeaseInv, NEW r \in Reports, ReportLease(r)
    PROVE  \/ \A g \in Gpus : lease[report[r].inst][g] \in LiveLease
                                => lease'[report[r].inst][g] \in LiveLease
           \/ \A g \in Gpus : lease'[report[r].inst][g] \notin LiveLease
<1> DEFINE i == report[r].inst
<1>1. /\ i \in Instances
      /\ report[r].type \in TaskTypes /\ report[r].ok \in BOOLEAN
      /\ \A g \in Gpus : lease'[i][g] = ReportedLease(lease[i][g], report[r].type, report[r].ok)
  BY ReportLeaseRows
<1> HIDE DEF i
<1>2. \A g \in Gpus : lease[i][g] \in LeaseStatus
  BY <1>1 DEF TypeInv, TypeOK
<1>3. \A g \in Gpus : lease'[i][g] \in LiveLease => lease[i][g] \in LiveLease
  BY <1>1, <1>2, ReportedLeaseType
<1>4. \A g, h \in Gpus : lease[i][g] \in LiveLease /\ lease[i][h] \in LiveLease
                           => lease'[i][g] = lease'[i][h]
  BY <1>1 DEF LeaseInv, LeaseUniform
<1> QED
  BY <1>3, <1>4 DEF i

(* Every step of the control plane is a step of the allocator, or leaves   *)
(* it alone.                                                               *)
LEMMA AllocatorStep ==
    TypeInv /\ LeaseInv /\ LeaseInv' /\ [Next]_vars => [Allocator!Next]_Allocator!vars
<1> SUFFICES ASSUME TypeInv, LeaseInv, LeaseInv', [Next]_vars
             PROVE  [Allocator!Next]_Allocator!vars
  OBVIOUS
<1> DEFINE owner == [g \in Gpus |-> Own(lease, g)]
           ownerNext == [g \in Gpus |-> Own(lease', g)]
           started == {i \in Instances : inst[i].actual # "none"}
           startedNext == {i \in Instances : inst'[i].actual # "none"}
<1>O. \A g \in Gpus : /\ Own(lease, g) \in Instances \cup {None}
                      /\ \A i \in Instances : Own(lease, g) = i <=> lease[i][g] \in LiveLease
  BY OwnIs DEF LeaseInv, LeaseExclusive
<1>P. \A g \in Gpus : /\ Own(lease', g) \in Instances \cup {None}
                      /\ \A i \in Instances : Own(lease', g) = i <=> lease'[i][g] \in LiveLease
  BY OwnIs DEF LeaseInv, LeaseExclusive
<1>A. ASSUME NEW i \in Instances, NEW S \in SUBSET Gpus,
             i \notin started, \A g \in S : owner[g] = None,
             ownerNext = [g \in Gpus |-> IF g \in S THEN i ELSE owner[g]],
             startedNext = started \cup {i}
      PROVE  Allocator!Next
  <2>1. Allocator!Acquire(i, S)
    BY <1>A DEF Allocator!Acquire, OwnerOf, Own, Leased
  <2> QED
    BY <2>1 DEF Allocator!Next
<1>F. ASSUME NEW I \in SUBSET Instances,
             ownerNext = [g \in Gpus |-> IF owner[g] \in I THEN None ELSE owner[g]],
             startedNext = started
      PROVE  Allocator!Next
  <2>1. Allocator!Release(I)
    BY <1>F DEF Allocator!Release, OwnerOf, Own, Leased
  <2> QED
    BY <2>1 DEF Allocator!Next
<1>1. CASE Quiet
  <2>1. UNCHANGED Allocator!vars
    BY <1>1 DEF Quiet, Allocator!vars, OwnerOf, Leased
  <2> QED
    BY <2>1
<1>2. ASSUME NEW s \in StartReqs, StartCommit(s) PROVE Allocator!Next
  <2>1. PICK i \in Instances :
              /\ startReq[s].gpus \in SUBSET Gpus
              /\ \A g \in startReq[s].gpus : ~Leased(g)
              /\ inst[i].actual = "none"
              /\ \A g \in Gpus : lease[i][g] = "none"
              /\ inst'[i].actual = "pending"
              /\ \A g \in Gpus : lease'[i][g] = IF g \in startReq[s].gpus THEN "reserved" ELSE "none"
              /\ \A j \in Instances \ {i} : inst'[j] = inst[j] /\ lease'[j] = lease[j]
    BY <1>2, StartCommitRows DEF LeaseInv
  <2>2. \A g \in startReq[s].gpus : Own(lease, g) = None /\ Own(lease', g) = i
    BY <2>1, <1>P DEF Own, Leased, LiveLease
  <2>3. \A g \in Gpus \ startReq[s].gpus : Own(lease', g) = Own(lease, g)
    <3> SUFFICES ASSUME NEW g \in Gpus \ startReq[s].gpus PROVE Own(lease', g) = Own(lease, g)
      OBVIOUS
    <3>1. \A j \in Instances : lease'[j][g] \in LiveLease <=> lease[j][g] \in LiveLease
      BY <2>1 DEF LiveLease
    <3> QED
      BY <3>1, <1>O, <1>P
  <2>4. startedNext = started \cup {i} /\ i \notin started
    BY <2>1
  <2> QED
    BY <1>A, <2>1, <2>2, <2>3, <2>4
<1>3. ASSUME NEW d \in Deployments, DeleteDeployment(d) PROVE Allocator!Next
  <2> DEFINE I == {i \in Instances : inst[i].dep = d}
  <2>1. \A i \in Instances, g \in Gpus :
           lease'[i][g] \in LiveLease <=> i \notin I /\ lease[i][g] \in LiveLease
    BY <1>3 DEF DeleteDeployment, LiveLease
  <2>2. \A g \in Gpus : Own(lease', g) = IF Own(lease, g) \in I THEN None ELSE Own(lease, g)
    BY <2>1, <1>O, <1>P, NoneAssumption
  <2>3. \A i \in I : inst'[i].actual = "deleted" /\ inst[i].actual # "none"
    <3>1. \A i \in I : inst'[i].actual = "deleted"
      BY <1>3 DEF DeleteDeployment, NoInst
    <3>2. \A i \in I : inst[i].actual # "none"
      BY NoneAssumption DEF LeaseInv, UnusedInst
    <3> QED
      BY <3>1, <3>2
  <2>4. startedNext = started
    BY <1>3, <2>3 DEF DeleteDeployment
  <2> QED
    BY <1>F, <2>2, <2>4
<1>4. ASSUME NEW r \in Reports, ReportLease(r) PROVE [Allocator!Next]_Allocator!vars
  <2> DEFINE i == report[r].inst
  <2>1. /\ i \in Instances
        /\ inst' = inst
        /\ \A j \in Instances \ {i} : lease'[j] = lease[j]
        /\ \A g \in Gpus : lease'[i][g] = ReportedLease(lease[i][g], report[r].type, report[r].ok)
        /\ report[r].type \in TaskTypes /\ report[r].ok \in BOOLEAN
    BY <1>4, ReportLeaseRows
  <2>2. \A g \in Gpus : lease'[i][g] \in LiveLease => lease[i][g] \in LiveLease
    BY <2>1, ReportedLeaseType DEF TypeInv, TypeOK
  <2>3. \/ \A g \in Gpus : lease[i][g] \in LiveLease => lease'[i][g] \in LiveLease
        \/ \A g \in Gpus : lease'[i][g] \notin LiveLease
    BY <1>4, ReportLeaseAllOrNone
  <2> HIDE DEF i
  <2>4. PICK I \in SUBSET {i} : \A j \in Instances, g \in Gpus :
           lease'[j][g] \in LiveLease <=> j \notin I /\ lease[j][g] \in LiveLease
    <3>1. CASE \A g \in Gpus : lease[i][g] \in LiveLease => lease'[i][g] \in LiveLease
      <4>1. \A j \in Instances, g \in Gpus :
               lease'[j][g] \in LiveLease <=> j \notin {} /\ lease[j][g] \in LiveLease
        BY <2>1, <2>2, <3>1
      <4>2. {} \in SUBSET {i}
        OBVIOUS
      <4> QED
        BY <4>1, <4>2
    <3>2. CASE \A g \in Gpus : lease'[i][g] \notin LiveLease
      <4>1. \A j \in Instances, g \in Gpus :
               lease'[j][g] \in LiveLease <=> j \notin {i} /\ lease[j][g] \in LiveLease
        BY <2>1, <3>2
      <4>2. {i} \in SUBSET {i}
        OBVIOUS
      <4> QED
        BY <4>1, <4>2
    <3> QED
      BY <2>3, <3>1, <3>2
  <2>5. \A g \in Gpus : Own(lease', g) = IF Own(lease, g) \in I THEN None ELSE Own(lease, g)
    BY <2>1, <2>4, <1>O, <1>P, NoneAssumption
  <2>6. I \in SUBSET Instances /\ startedNext = started
    BY <2>1, <2>4
  <2> QED
    BY <1>F, <2>5, <2>6
<1> QED
  BY <1>1, <1>2, <1>3, <1>4, LeaseSteps

(* The handlers implement the allocator: a start takes all its GPUs in one *)
(* step or none, and every GPU it gives up is free before another instance *)
(* gets it.                                                                *)
THEOREM Refinement == Spec => ImplementsAllocator
<1>1. Init => Allocator!Init
  BY DEF Init, Allocator!Init, OwnerOf, Leased, LiveLease, NoInst
<1>2. TypeInv /\ LeaseInv /\ LeaseInv' /\ [Next]_vars => [Allocator!Next]_Allocator!vars
  BY AllocatorStep
<1> QED
  BY <1>1, <1>2, Inductive, PTL DEF Spec, ImplementsAllocator, Allocator!Spec
-----------------------------------------------------------------------------
(* Tasks and instances.                                                    *)

(* What the steps of a user, of a start or stop request, of the clock and  *)
(* of the health checker may do to tasks and instances: mark a running     *)
(* instance as stopping, let a deadline pass, insert a stop or logs task.  *)
Background ==
    /\ lease' = lease /\ report' = report /\ faults' = faults
    /\ \A i \in Instances :
          /\ inst'[i].dep = inst[i].dep
          /\ \/ inst'[i].actual = inst[i].actual
             \/ inst[i].actual = "running" /\ inst'[i].actual = "stopping"
    /\ \A t \in Tasks :
          \/ /\ task'[t].status = task[t].status
             /\ task'[t].type = task[t].type
             /\ task'[t].dep = task[t].dep
             /\ task'[t].inst = task[t].inst
             /\ task[t].expired => task'[t].expired
          \/ /\ task[t].status = "none" /\ task'[t].status = "pending"
             /\ task'[t].type # "start"

(* MarkStopping in these terms.                                            *)
LEMMA MarkStoppingMoves ==
    ASSUME inst \in [Instances -> InstRows], NEW i \in Instances,
           inst' \in {inst, MarkStopping(i)}
    PROVE  \A j \in Instances :
               /\ inst'[j].dep = inst[j].dep
               /\ \/ inst'[j].actual = inst[j].actual
                  \/ inst[j].actual = "running" /\ inst'[j].actual = "stopping"
  BY DEF MarkStopping, InstExists, InstRows

(* An INSERT into agent_tasks in these terms.                              *)
LEMMA InsertMoves ==
    ASSUME task \in [Tasks -> TaskRows], NEW t \in Tasks, task[t].status = "none",
           NEW type \in {"stop", "logs"}, NEW d, NEW i,
           task' = [task EXCEPT ![t] = NewTask(type, d, i)]
    PROVE  \A u \in Tasks : \/ task'[u] = task[u]
                             \/ /\ task[u].status = "none" /\ task'[u].status = "pending"
                                /\ task'[u].type # "start"
  BY DEF NewTask

(* The steps that are not in the background.                               *)
LEMMA TaskSteps ==
    ASSUME TypeInv, [Next]_vars
    PROVE  \/ Background
           \/ \E s \in StartReqs : StartCommit(s)
           \/ \E d \in Deployments : DeleteDeployment(d)
           \/ \E n \in Nodes : Heartbeat(n)
           \/ \E r \in Reports, t \in Tasks, ok \in BOOLEAN : ReportBegin(r, t, ok)
           \/ \E r \in Reports : ReportTask(r)
           \/ \E r \in Reports : ReportInst(r)
           \/ \E r \in Reports : ReportLease(r)
           \/ \E n \in Nodes : HeartbeatUnswept(n)
           \/ faults' # 0 /\ task' = task
<1>I. inst \in [Instances -> InstRows]
  BY DEF TypeInv, TypeOK
<1>T. task \in [Tasks -> TaskRows]
  BY DEF TypeInv, TypeOK
<1>F. faults \in Nat
  BY BoundAssumption DEF TypeInv, TypeOK
<1>1. ASSUME NEW d \in Deployments, NEW pl \in Placements, CreateDeployment(d, pl) PROVE Background
  BY <1>1 DEF CreateDeployment, Background
<1>2. ASSUME NEW d \in Deployments, NEW pl \in Placements, PatchDeployment(d, pl) PROVE Background
  BY <1>2 DEF PatchDeployment, Background
<1>3. ASSUME NEW s \in StartReqs, NEW d \in Deployments, StartCheck(s, d) PROVE Background
  BY <1>3 DEF StartCheck, dbVars, Background
<1>4. ASSUME NEW s \in StartReqs, preflightDeployment(s) PROVE Background
  BY <1>4 DEF preflightDeployment, dbVars, Background
<1>5. ASSUME NEW s \in StartReqs, PreflightRefuses(s) PROVE Background
  BY <1>5 DEF PreflightRefuses, dbVars, Background
<1>6. ASSUME NEW s \in StartReqs, StartRollback(s) PROVE Background
  BY <1>6 DEF StartRollback, dbVars, Background
<1>7. ASSUME NEW p \in StopReqs, NEW d \in Deployments, StopBegin(p, d) PROVE Background
  BY <1>7 DEF StopBegin, dbVars, Background
<1>8. ASSUME NEW p \in StopReqs, NEW i \in Instances, StopSkipOffline(p, i) PROVE Background
  BY <1>8, <1>I, MarkStoppingMoves DEF StopSkipOffline, Background
<1>9. ASSUME NEW p \in StopReqs, NEW i \in Instances, StopDispatch(p, i) PROVE Background
  <2>1. PICK t \in Tasks : /\ task[t].status = "none"
                           /\ task' = [task EXCEPT ![t] = NewTask("stop", stopReq[p].dep, i)]
    BY <1>9 DEF StopDispatch, NextTask
  <2>2. \A u \in Tasks : \/ task'[u] = task[u]
                         \/ /\ task[u].status = "none" /\ task'[u].status = "pending"
                            /\ task'[u].type # "start"
    BY <1>T, <2>1, InsertMoves
  <2> QED
    BY <1>9, <1>I, <2>2, MarkStoppingMoves DEF StopDispatch, Background
<1>10. ASSUME NEW p \in StopReqs, NEW i \in Instances, StopInsertFailed(p, i) PROVE Background
  BY <1>10, <1>I, MarkStoppingMoves DEF StopInsertFailed, Background
<1>11. ASSUME NEW p \in StopReqs, waitForAgentTaskResult(p) PROVE Background
  BY <1>11 DEF waitForAgentTaskResult, dbVars, Background
<1>12. ASSUME NEW p \in StopReqs, StopWaitTimeout(p) PROVE Background
  BY <1>12 DEF StopWaitTimeout, dbVars, Background
<1>13. ASSUME NEW p \in StopReqs, StopFinish(p) PROVE Background
  BY <1>13 DEF StopFinish, Background
<1>14. ASSUME NEW i \in Instances, FetchLogs(i) PROVE Background
  <2>1. PICK t \in Tasks : /\ task[t].status = "none"
                           /\ task' = [task EXCEPT ![t] = NewTask("logs", inst[i].dep, i)]
    BY <1>14 DEF FetchLogs, NextTask
  <2>2. \A u \in Tasks : \/ task'[u] = task[u]
                         \/ /\ task[u].status = "none" /\ task'[u].status = "pending"
                            /\ task'[u].type # "start"
    BY <1>T, <2>1, InsertMoves
  <2> QED
    BY <1>14, <2>2 DEF FetchLogs, Background
<1>15. ASSUME NEW n \in Nodes, MarkOffline(n) PROVE Background
  BY <1>15 DEF MarkOffline, Background
<1>16. ASSUME NEW n \in Nodes, HandleResourceReport(n) PROVE Background
  BY <1>16 DEF HandleResourceReport, Background
<1>17. ASSUME NEW t \in Tasks, Expire(t) PROVE Background
  <2>1. task' = [task EXCEPT ![t] = [@ EXCEPT !.expired = TRUE]]
    BY <1>17 DEF Expire
  <2> QED
    BY <1>17, <1>T, <2>1 DEF Expire, TaskRows, Background
<1>18. ASSUME NEW r \in Reports, ReportStatementFails(r) PROVE faults' # 0 /\ task' = task
  BY <1>18, <1>F DEF ReportStatementFails, dbVars
<1>19. ASSUME ServerRestart PROVE faults' # 0 /\ task' = task
  BY <1>19, <1>F DEF ServerRestart, dbVars
<1>20. CASE UNCHANGED vars
  BY <1>20 DEF vars, Background
<1> QED
  BY <1>1, <1>2, <1>3, <1>4, <1>5, <1>6, <1>7, <1>8, <1>9, <1>10, <1>11, <1>12, <1>13, <1>14, <1>15, <1>16, <1>17, <1>18, <1>19, <1>20 DEF Next, UserNext, HandlerNext, NodeNext

(* What the start transaction does to tasks and instances.                 *)
LEMMA StartCommitTasks ==
    ASSUME TypeInv, NEW s \in StartReqs, StartCommit(s)
    PROVE  \E i \in Instances, t \in Tasks :
              /\ inst[i].actual = "none" /\ task[t].status = "none"
              /\ inst'[i].actual = "pending" /\ inst'[i].dep = startReq[s].dep
              /\ task'[t].type = "start" /\ task'[t].dep = startReq[s].dep /\ task'[t].inst = i
              /\ task'[t].status = "pending" /\ startReq[s].dep \in Deployments
              /\ \A j \in Instances \ {i} : inst'[j] = inst[j] /\ lease'[j] = lease[j]
              /\ \A u \in Tasks \ {t} : task'[u] = task[u]
              /\ report' = report /\ faults' = faults
<1>1. startReq[s].dep \in Deployments
  BY DEF StartCommit, TypeInv, TypeOK, StartRequest
<1>2. PICK i \in Instances, t \in Tasks :
         /\ inst[i].actual = "none" /\ task[t].status = "none"
         /\ inst' = [inst EXCEPT ![i] = [dep |-> startReq[s].dep, actual |-> "pending"]]
         /\ lease' = [lease EXCEPT ![i] =
               [g \in Gpus |-> IF g \in startReq[s].gpus THEN "reserved" ELSE "none"]]
         /\ task' = [task EXCEPT ![t] = NewTask("start", startReq[s].dep, i)]
  BY DEF StartCommit, NextTask
<1>3. report' = report /\ faults' = faults
  BY DEF StartCommit
<1> QED
  BY <1>1, <1>2, <1>3 DEF TypeInv, TypeOK, NewTask

(* What a heartbeat does to a task: it may end it or hand it out, and      *)
(* tells the two apart by its deadline.                                    *)
LEMMA HeartbeatTasks ==
    ASSUME TypeInv, NEW n \in Nodes, Heartbeat(n), NEW t \in Tasks
    PROVE  /\ task'[t].type = task[t].type
           /\ task'[t].dep = task[t].dep
           /\ task'[t].inst = task[t].inst
           /\ \/ task'[t].status = task[t].status
              \/ /\ task[t].status = "pending" /\ ~task[t].expired
                 /\ task'[t].status = "claimed"
              \/ /\ task[t].status \in {"pending", "claimed"}
                 /\ task'[t].status = "timed_out"
                 /\ OnNode(t, n) /\ SweptTask(t, n).status = "timed_out"
<1>T. task[t] \in TaskRows
  BY DEF TypeInv, TypeOK
<1>1. /\ SweptTask(t, n) \in TaskRows
      /\ SweptTask(t, n).type = task[t].type
      /\ SweptTask(t, n).dep = task[t].dep
      /\ SweptTask(t, n).inst = task[t].inst
      /\ \/ SweptTask(t, n) = task[t] /\ ~(OnNode(t, n) /\ task[t].status = "pending" /\ task[t].expired)
         \/ /\ task[t].status \in {"pending", "claimed"} /\ OnNode(t, n)
            /\ SweptTask(t, n).status = "timed_out"
  BY <1>T DEF SweptTask, TaskRows, TaskStatus, Finished
<1>2. CASE t \in ClaimedNow(n)
  <2>1. task'[t] = [SweptTask(t, n) EXCEPT !.status = "claimed"]
    BY <1>2 DEF Heartbeat, claimAndReturnTasks
  <2>2. OnNode(t, n) /\ SweptTask(t, n).status = "pending"
    BY <1>2 DEF ClaimedNow, Claimable
  <2>3. SweptTask(t, n) = task[t] /\ ~task[t].expired
    BY <1>1, <2>2
  <2> QED
    BY <1>T, <2>1, <2>2, <2>3 DEF TaskRows
<1>3. CASE t \notin ClaimedNow(n)
  <2>1. task'[t] = SweptTask(t, n)
    BY <1>3 DEF Heartbeat, claimAndReturnTasks
  <2> QED
    BY <1>1, <2>1
<1> QED
  BY <1>2, <1>3

(* And to an instance: the sweep fails those of the tasks it ended.        *)
LEMMA HeartbeatInsts ==
    ASSUME TypeInv, NEW n \in Nodes, Heartbeat(n), NEW i \in Instances
    PROVE  /\ inst'[i].dep = inst[i].dep
           /\ inst'[i].actual = inst[i].actual \/ (inst'[i].actual = "failed" /\ InstExists(i))
           /\ \A t \in Tasks : /\ InstExists(i) /\ OnNode(t, n) /\ task[t].inst = i
                               /\ SweptTask(t, n).status = "timed_out"
                              => inst'[i].actual = "failed"
<1>1. inst'[i] = SweptInst(i, n)
  BY DEF Heartbeat, claimAndReturnTasks
<1>2. inst[i] \in InstRows
  BY DEF TypeInv, TypeOK
<1> QED
  BY <1>1, <1>2 DEF SweptInst, InstRows

(* What the first statement of HandleTaskResult does to the task.          *)
LEMMA ReportTaskRows ==
    ASSUME TypeInv, NEW r \in Reports, ReportTask(r)
    PROVE  /\ report[r] \in ReportRequest
           /\ \A u \in Tasks : /\ task'[u].type = task[u].type
                               /\ task'[u].dep = task[u].dep
                               /\ task'[u].inst = task[u].inst
           /\ \A u \in Tasks : u # report[r].task \/ ~TaskExists(u) => task'[u] = task[u]
           /\ TaskExists(report[r].task) => task'[report[r].task].status \in {"completed", "failed"}
<1>1. report[r] \in ReportRequest
  BY DEF ReportTask, TypeInv, TypeOK
<1>2. report[r].task \in Tasks
  BY <1>1 DEF ReportRequest
<1>T. task \in [Tasks -> TaskRows]
  BY DEF TypeInv, TypeOK
<1>3. PICK st \in {"completed", "failed"} :
         task' = IF TaskExists(report[r].task)
                 THEN [task EXCEPT ![report[r].task] = [@ EXCEPT !.status = st, !.expired = FALSE]]
                 ELSE task
  BY DEF ReportTask
<1>4. \A row \in TaskRows : /\ [row EXCEPT !.status = st, !.expired = FALSE].type = row.type
                            /\ [row EXCEPT !.status = st, !.expired = FALSE].dep = row.dep
                            /\ [row EXCEPT !.status = st, !.expired = FALSE].inst = row.inst
                            /\ [row EXCEPT !.status = st, !.expired = FALSE].status = st
  BY DEF TaskRows
<1>5. CASE TaskExists(report[r].task)
  <2>1. task'[report[r].task] = [task[report[r].task] EXCEPT !.status = st, !.expired = FALSE]
    BY <1>T, <1>2, <1>3, <1>5
  <2>2. \A u \in Tasks \ {report[r].task} : task'[u] = task[u]
    BY <1>T, <1>2, <1>3, <1>5
  <2> DEFINE row == task[report[r].task]
  <2>3. row \in TaskRows
    BY <1>T, <1>2
  <2>4. task'[report[r].task] = [row EXCEPT !.status = st, !.expired = FALSE]
    BY <2>1
  <2> HIDE DEF row
  <2>5. /\ task'[report[r].task].type = row.type
        /\ task'[report[r].task].dep = row.dep
        /\ task'[report[r].task].inst = row.inst
        /\ task'[report[r].task].status = st
    BY <1>4, <2>3, <2>4
  <2> QED
    BY <1>1, <1>5, <2>2, <2>5 DEF row
<1>6. CASE ~TaskExists(report[r].task)
  BY <1>1, <1>3, <1>6
<1> QED
  BY <1>5, <1>6

(* A task that has timed out or was answered is never open again, and one  *)
(* whose deadline has passed is never handed to an agent.                  *)
THEOREM FinishedTaskStaysFinished == Spec => TaskNeverReopened
<1>1. TypeInv /\ [Next]_vars
         => [\A t \in Tasks :
               /\ faults' = faults /\ task[t].status = "pending" /\ task[t].expired
                     => task'[t].status # "claimed"
               /\ task[t].status \in Finished => task'[t].status \in Finished \cup {"deleted"}
               /\ task[t].status = "claimed" => task'[t].status # "pending"]_vars
  <2> SUFFICES ASSUME TypeInv, [Next]_vars, NEW t \in Tasks
               PROVE  /\ faults' = faults /\ task[t].status = "pending" /\ task[t].expired
                            => task'[t].status # "claimed"
                      /\ task[t].status \in Finished => task'[t].status \in Finished \cup {"deleted"}
                      /\ task[t].status = "claimed" => task'[t].status # "pending"
    OBVIOUS
  <2>1. CASE Background
    BY <2>1 DEF Background, Finished
  <2>2. ASSUME NEW s \in StartReqs, StartCommit(s) PROVE task'[t] = task[t] \/ task[t].status = "none"
    BY <2>2, StartCommitTasks
  <2>3. ASSUME NEW d \in Deployments, DeleteDeployment(d)
        PROVE  task'[t] = task[t] \/ task'[t].status = "deleted"
    BY <2>3 DEF DeleteDeployment, NoTask
  <2>4. ASSUME NEW n \in Nodes, Heartbeat(n)
        PROVE  \/ task'[t].status = task[t].status
               \/ task[t].status = "pending" /\ ~task[t].expired /\ task'[t].status = "claimed"
               \/ task[t].status \in {"pending", "claimed"} /\ task'[t].status = "timed_out"
    BY <2>4, HeartbeatTasks
  <2>5. ASSUME NEW r \in Reports, NEW u \in Tasks, NEW ok \in BOOLEAN, ReportBegin(r, u, ok) PROVE task' = task
    BY <2>5 DEF ReportBegin, dbVars
  <2>6. ASSUME NEW r \in Reports, ReportTask(r)
        PROVE  task'[t] = task[t] \/ task'[t].status \in {"completed", "failed"}
    BY <2>6, ReportTaskRows
  <2>7. ASSUME NEW r \in Reports, ReportInst(r) PROVE task' = task
    BY <2>7 DEF ReportInst
  <2>8. ASSUME NEW r \in Reports, ReportLease(r) PROVE task' = task
    BY <2>8 DEF ReportLease
  <2>9. ASSUME NEW n \in Nodes, HeartbeatUnswept(n)
        PROVE  /\ faults' # faults
               /\ \/ task'[t].status = task[t].status
                  \/ task[t].status = "pending" /\ task'[t].status = "claimed"
    <3>1. faults' # faults
      BY <2>9, BoundAssumption DEF HeartbeatUnswept, TypeInv, TypeOK
    <3>2. CASE t \in UnsweptClaim(n)
      <4>1. task'[t] = [task[t] EXCEPT !.status = "claimed"] /\ task[t].status = "pending"
        BY <2>9, <3>2 DEF HeartbeatUnswept, UnsweptClaim
      <4>2. task[t] \in TaskRows
        BY DEF TypeInv, TypeOK
      <4> QED
        BY <3>1, <4>1, <4>2 DEF TaskRows
    <3>3. CASE t \notin UnsweptClaim(n)
      BY <2>9, <3>1, <3>3 DEF HeartbeatUnswept
    <3> QED
      BY <3>2, <3>3
  <2> QED
    BY <2>1, <2>2, <2>3, <2>4, <2>5, <2>6, <2>7, <2>8, <2>9, TaskSteps DEF Finished
<1> QED
  BY <1>1, Inductive, PTL DEF Spec, TaskNeverReopened

(* A result in flight is about a task that was inserted, and has read the  *)
(* type and the instance the task still has unless it was deleted.         *)
ReportsKnowTheirTask ==
    \A r \in Reports : report[r] # None =>
        /\ task[report[r].task].status # "none"
        /\ TaskExists(report[r].task) =>
              /\ report[r].type = task[report[r].task].type
              /\ report[r].inst = task[report[r].task].inst

(* A start task belongs to an instance that was inserted with it, and to   *)
(* the deployment of that instance: HandleDeleteDeployment deletes both.   *)
(* A task that is gone belongs to none.                                    *)
StartTaskOfInstance ==
    \A t \in Tasks :
        /\ ~TaskExists(t) => task[t].inst = None
        /\ TaskExists(t) /\ task[t].type = "start" =>
              /\ inst[task[t].inst].actual # "none"
              /\ InstExists(task[t].inst) => inst[task[t].inst].dep = task[t].dep

(* The inductive invariant of the two theorems at the end of this module.  *)
ProgressInv ==
    /\ LiveLeaseIsStoppable /\ PendingHasStartTask
    /\ faults = 0 => ReportsKnowTheirTask /\ StartTaskOfInstance

(* It holds at the start, when no row exists and no result is in flight.   *)
LEMMA InitProgressInv == Init => ProgressInv
  BY DEF Init, ProgressInv, LiveLeaseIsStoppable, PendingHasStartTask, ReportsKnowTheirTask,
         StartTaskOfInstance, NoInst, NoTask, LiveLease, TaskExists

(* Steps in the background keep every task that an instance waits for.     *)
LEMMA BackgroundProgress ==
    ASSUME TypeInv, ProgressInv, faults = 0, Background
    PROVE  ProgressInv'
<1>1. LiveLeaseIsStoppable'
  BY DEF Background, ProgressInv, LiveLeaseIsStoppable, Releasing
<1>2. ReportsKnowTheirTask'
  <2> SUFFICES ASSUME NEW r \in Reports, report[r] # None
               PROVE  /\ task'[report[r].task].status # "none"
                      /\ TaskExists(report[r].task)' =>
                            /\ report[r].type = task'[report[r].task].type
                            /\ report[r].inst = task'[report[r].task].inst
    BY DEF ReportsKnowTheirTask, Background
  <2>1. report[r].task \in Tasks
    BY DEF TypeInv, TypeOK, ReportRequest
  <2> QED
    BY <2>1 DEF Background, ProgressInv, ReportsKnowTheirTask, TaskExists
<1>G. \A t \in Tasks : ~TaskExists(t)' => task'[t].inst = None
  BY DEF Background, ProgressInv, StartTaskOfInstance, TaskExists
<1>3. StartTaskOfInstance'
  <2> SUFFICES ASSUME NEW t \in Tasks, TaskExists(t)', task'[t].type = "start"
               PROVE  /\ inst'[task'[t].inst].actual # "none"
                      /\ InstExists(task[t].inst)' => inst'[task'[t].inst].dep = task'[t].dep
    BY <1>G DEF StartTaskOfInstance, InstExists
  <2>1. /\ TaskExists(t) /\ task[t].type = "start"
        /\ task'[t].inst = task[t].inst /\ task'[t].dep = task[t].dep
    BY DEF Background, TaskExists
  <2>2. task[t].inst \in Instances
    BY <2>1 DEF TypeInv, RefsOK
  <2> QED
    BY <2>1, <2>2 DEF Background, ProgressInv, StartTaskOfInstance, InstExists
<1>4. ASSUME NEW i \in Instances, inst'[i].actual = "pending"
      PROVE  \E t \in Tasks : OpensPending(t, i)'
  <2>1. inst[i].actual = "pending"
    BY <1>4 DEF Background
  <2>2. PICK t \in Tasks : OpensPending(t, i)
    BY <2>1 DEF ProgressInv, PendingHasStartTask
  <2>3. task[t].status # "none"
    BY <2>2 DEF OpensPending, ProgressInv, ReportsKnowTheirTask
  <2>4. OpensPending(t, i)'
    BY <2>2, <2>3 DEF OpensPending, Background
  <2> QED
    BY <2>4
<1> QED
  BY <1>1, <1>2, <1>3, <1>4 DEF ProgressInv, PendingHasStartTask

(* The statements of HandleTaskResult in their order.                      *)
LEMMA AfterTask ==
    ASSUME NEW rep \in ReportRequest, rep.pc = "task"
    PROVE  \/ AfterStatement(rep) = None /\ rep.type = "logs"
           \/ /\ AfterStatement(rep).task = rep.task /\ AfterStatement(rep).type = rep.type
              /\ AfterStatement(rep).inst = rep.inst /\ AfterStatement(rep).pc = "inst"
              /\ AfterStatement(rep) \in ReportRequest
  BY DEF AfterStatement, ReportRequest

(* A failed result ends with the statement on the instance, a successful   *)
(* one goes on to the leases.                                              *)
LEMMA AfterInst ==
    ASSUME NEW rep \in ReportRequest, rep.pc = "inst"
    PROVE  \/ AfterStatement(rep) = None /\ ~rep.ok
           \/ /\ AfterStatement(rep).task = rep.task /\ AfterStatement(rep).type = rep.type
              /\ AfterStatement(rep).inst = rep.inst /\ AfterStatement(rep).pc = "lease"
              /\ AfterStatement(rep).ok = rep.ok
              /\ AfterStatement(rep) \in ReportRequest
  BY DEF AfterStatement, ReportRequest

(* The statement on the leases is the last one.                            *)
LEMMA AfterLease ==
    ASSUME NEW rep \in ReportRequest, rep.pc = "lease"
    PROVE  AfterStatement(rep) = None
  BY DEF AfterStatement, ReportRequest

(* Faults are counted and never forgotten.                                 *)
LEMMA FaultsGrow ==
    ASSUME TypeInv, [Next]_vars, faults' = 0
    PROVE  faults = 0
<1>1. faults \in Nat
  BY BoundAssumption DEF TypeInv, TypeOK
<1>2. ASSUME NEW n \in Nodes, HeartbeatUnswept(n) PROVE faults' # 0
  BY <1>1, <1>2 DEF HeartbeatUnswept
<1> QED
  BY <1>2, TaskSteps DEF Background, StartCommit, DeleteDeployment, Heartbeat, ReportBegin, ReportTask,
                         ReportInst, ReportLease

(* Every step keeps the leases releasable and the pending instances open.  *)
LEMMA StepProgressInv == TypeInv /\ ProgressInv /\ [Next]_vars => ProgressInv'
<1> SUFFICES ASSUME TypeInv, ProgressInv, [Next]_vars PROVE ProgressInv'
  OBVIOUS
<1>F. CASE faults' # 0
  BY <1>F DEF ProgressInv, LiveLeaseIsStoppable, PendingHasStartTask
<1>N. ASSUME faults' = faults, faults = 0,
             LiveLeaseIsStoppable', ReportsKnowTheirTask', StartTaskOfInstance',
             \A i \in Instances : inst'[i].actual = "pending" => \E t \in Tasks : OpensPending(t, i)'
      PROVE  ProgressInv'
  BY <1>N DEF ProgressInv, PendingHasStartTask
<1>P. ASSUME faults = 0
      PROVE  /\ \A i \in Instances, g \in Gpus :
                   lease[i][g] \in LiveLease /\ inst[i].actual = "stopped"
                      => \E r \in Reports : Releasing(r, i)
             /\ ReportsKnowTheirTask
             /\ StartTaskOfInstance
             /\ \A i \in Instances : inst[i].actual = "pending" => \E t \in Tasks : OpensPending(t, i)
  BY <1>P DEF ProgressInv, LiveLeaseIsStoppable, PendingHasStartTask
<1>R. \A r \in Reports : report[r] # None => report[r] \in ReportRequest
  BY DEF TypeInv, TypeOK
<1>X. \A t \in Tasks : TaskExists(t) => task[t].inst \in Instances
  BY DEF TypeInv, RefsOK
<1>0. CASE Background /\ faults = 0
  BY <1>0, BackgroundProgress
<1>1. ASSUME faults = 0, NEW s \in StartReqs, StartCommit(s) PROVE ProgressInv'
  <2>1. PICK i \in Instances, t \in Tasks :
              /\ inst[i].actual = "none" /\ task[t].status = "none"
              /\ inst'[i].actual = "pending" /\ inst'[i].dep = startReq[s].dep
              /\ task'[t].type = "start" /\ task'[t].dep = startReq[s].dep /\ task'[t].inst = i
              /\ task'[t].status = "pending" /\ startReq[s].dep \in Deployments
              /\ \A j \in Instances \ {i} : inst'[j] = inst[j] /\ lease'[j] = lease[j]
              /\ \A u \in Tasks \ {t} : task'[u] = task[u]
              /\ report' = report /\ faults' = faults
    BY <1>1, StartCommitTasks
  <2>2. LiveLeaseIsStoppable'
    BY <1>1, <1>P, <2>1 DEF LiveLeaseIsStoppable, Releasing
  <2>3. ReportsKnowTheirTask'
    BY <1>1, <1>P, <1>R, <2>1 DEF ReportsKnowTheirTask, ReportRequest, TaskExists
  <2>4. StartTaskOfInstance'
    BY <1>1, <1>P, <1>X, <2>1 DEF StartTaskOfInstance, TaskExists, InstExists
  <2>5. ASSUME NEW j \in Instances, inst'[j].actual = "pending" PROVE \E u \in Tasks : OpensPending(u, j)'
    <3>1. CASE j = i
      BY <2>1, <3>1 DEF OpensPending
    <3>2. CASE j # i
      <4>1. PICK u \in Tasks : OpensPending(u, j)
        BY <1>1, <1>P, <2>1, <2>5, <3>2
      <4>2. u # t
        BY <1>1, <1>P, <2>1, <4>1 DEF OpensPending, ReportsKnowTheirTask
      <4>3. OpensPending(u, j)'
        BY <2>1, <4>1, <4>2 DEF OpensPending
      <4> QED
        BY <4>3
    <3> QED
      BY <3>1, <3>2
  <2> QED
    BY <1>N, <1>1, <2>1, <2>2, <2>3, <2>4, <2>5
<1>2. ASSUME faults = 0, NEW d \in Deployments, DeleteDeployment(d) PROVE ProgressInv'
  <2>1. /\ report' = report /\ faults' = faults
        /\ \A i \in Instances :
              IF inst[i].dep = d
              THEN inst'[i].actual = "deleted" /\ \A g \in Gpus : lease'[i][g] = "none"
              ELSE inst'[i] = inst[i] /\ lease'[i] = lease[i]
        /\ \A t \in Tasks : IF task[t].dep = d THEN task'[t].status = "deleted" /\ task'[t].inst = None
                                             ELSE task'[t] = task[t]
    BY <1>2 DEF DeleteDeployment, NoInst, NoTask
  <2>2. LiveLeaseIsStoppable'
    BY <1>2, <1>P, <2>1 DEF LiveLeaseIsStoppable, Releasing, LiveLease
  <2>3. ReportsKnowTheirTask'
    BY <1>2, <1>P, <1>R, <2>1 DEF ReportsKnowTheirTask, ReportRequest, TaskExists
  <2>4. StartTaskOfInstance'
    BY <1>2, <1>P, <1>X, <2>1 DEF StartTaskOfInstance, TaskExists, InstExists
  <2>5. ASSUME NEW j \in Instances, inst'[j].actual = "pending" PROVE \E u \in Tasks : OpensPending(u, j)'
    <3>1. inst[j].dep # d /\ inst[j].actual = "pending"
      BY <2>1, <2>5
    <3>2. PICK u \in Tasks : OpensPending(u, j)
      BY <1>2, <1>P, <3>1
    <3>3. task[u].type = "start" /\ task[u].inst = j /\ TaskExists(u)
      BY <1>2, <1>P, <3>2, NoneAssumption DEF OpensPending, StartTaskOfInstance
    <3>4. task[u].dep = inst[j].dep
      BY <1>2, <1>P, <3>1, <3>3 DEF StartTaskOfInstance, InstExists
    <3>5. OpensPending(u, j)'
      BY <2>1, <3>1, <3>2, <3>4 DEF OpensPending
    <3> QED
      BY <3>5
  <2> QED
    BY <1>N, <1>2, <2>1, <2>2, <2>3, <2>4, <2>5
<1>3. ASSUME faults = 0, NEW n \in Nodes, Heartbeat(n) PROVE ProgressInv'
  <2>1. lease' = lease /\ report' = report /\ faults' = faults
    BY <1>3 DEF Heartbeat
  <2>2. \A i \in Instances :
           /\ inst'[i].dep = inst[i].dep
           /\ inst'[i].actual = inst[i].actual \/ (inst'[i].actual = "failed" /\ InstExists(i))
    BY <1>3, HeartbeatInsts
  <2>3. \A t \in Tasks : /\ task'[t].type = task[t].type
                         /\ task'[t].dep = task[t].dep
                         /\ task'[t].inst = task[t].inst
                         /\ TaskExists(t)' <=> TaskExists(t)
                         /\ task'[t].status = "none" <=> task[t].status = "none"
    BY <1>3, HeartbeatTasks DEF TaskExists
  <2>4. LiveLeaseIsStoppable'
    BY <1>3, <1>P, <2>1, <2>2 DEF LiveLeaseIsStoppable, Releasing
  <2>5. ReportsKnowTheirTask'
    BY <1>3, <1>P, <1>R, <2>1, <2>3 DEF ReportsKnowTheirTask, ReportRequest
  <2>6. StartTaskOfInstance'
    BY <1>3, <1>P, <1>X, <2>2, <2>3 DEF StartTaskOfInstance, InstExists
  <2>7. ASSUME NEW j \in Instances, inst'[j].actual = "pending" PROVE \E u \in Tasks : OpensPending(u, j)'
    <3>1. inst[j].actual = "pending"
      BY <2>2, <2>7
    <3>2. PICK u \in Tasks : OpensPending(u, j)
      BY <1>3, <1>P, <3>1
    <3>3. \/ task'[u].status \in {"pending", "claimed"}
          \/ task'[u].status = task[u].status
          \/ OnNode(u, n) /\ SweptTask(u, n).status = "timed_out"
      BY <1>3, HeartbeatTasks
    <3>4. ~(OnNode(u, n) /\ SweptTask(u, n).status = "timed_out")
      BY <1>3, <2>7, <3>1, <3>2, HeartbeatInsts DEF OpensPending, InstExists
    <3>5. OpensPending(u, j)'
      BY <2>1, <2>3, <3>2, <3>3, <3>4 DEF OpensPending
    <3> QED
      BY <3>5
  <2> QED
    BY <1>N, <1>3, <2>1, <2>4, <2>5, <2>6, <2>7
<1>4. ASSUME faults = 0, NEW r \in Reports, NEW t \in Tasks, NEW ok \in BOOLEAN, ReportBegin(r, t, ok)
      PROVE  ProgressInv'
  <2>1. /\ inst' = inst /\ lease' = lease /\ task' = task /\ faults' = faults
        /\ report[r] = None /\ task[t].status = "claimed"
        /\ report'[r] = [task |-> t, type |-> task[t].type, inst |-> task[t].inst, ok |-> ok, pc |-> "task"]
        /\ \A q \in Reports \ {r} : report'[q] = report[q]
    BY <1>4 DEF ReportBegin, dbVars, TypeInv, TypeOK
  <2>2. LiveLeaseIsStoppable'
    BY <1>4, <1>P, <2>1 DEF LiveLeaseIsStoppable, Releasing
  <2>3. ReportsKnowTheirTask'
    BY <1>4, <1>P, <2>1 DEF ReportsKnowTheirTask, TaskExists
  <2>4. StartTaskOfInstance'
    BY <1>4, <1>P, <2>1 DEF StartTaskOfInstance, TaskExists, InstExists
  <2>5. ASSUME NEW j \in Instances, inst'[j].actual = "pending" PROVE \E u \in Tasks : OpensPending(u, j)'
    BY <1>4, <1>P, <2>1, <2>5 DEF OpensPending
  <2> QED
    BY <1>N, <1>4, <2>1, <2>2, <2>3, <2>4, <2>5
<1>5. ASSUME faults = 0, NEW r \in Reports, ReportTask(r) PROVE ProgressInv'
  <2>1. /\ inst' = inst /\ lease' = lease /\ faults' = faults
        /\ report[r] # None /\ report[r].pc = "task"
        /\ report'[r] = AfterStatement(report[r])
        /\ \A q \in Reports \ {r} : report'[q] = report[q]
    BY <1>5 DEF ReportTask, TypeInv, TypeOK
  <2>2. /\ report[r] \in ReportRequest
        /\ \A u \in Tasks : /\ task'[u].type = task[u].type
                            /\ task'[u].dep = task[u].dep
                            /\ task'[u].inst = task[u].inst
        /\ \A u \in Tasks : u # report[r].task \/ ~TaskExists(u) => task'[u] = task[u]
        /\ TaskExists(report[r].task) => task'[report[r].task].status \in {"completed", "failed"}
    BY <1>5, ReportTaskRows
  <2>3. \/ report'[r] = None /\ report[r].type = "logs"
        \/ /\ report'[r].task = report[r].task /\ report'[r].type = report[r].type
           /\ report'[r].inst = report[r].inst /\ report'[r].pc = "inst" /\ report'[r] # None
    BY <2>1, <2>2, AfterTask, RequestAssumption
  <2>4. LiveLeaseIsStoppable'
    BY <1>5, <1>P, <2>1 DEF LiveLeaseIsStoppable, Releasing
  <2>5. \A u \in Tasks : (TaskExists(u)' <=> TaskExists(u)) /\ (task[u].status # "none" => task'[u].status # "none")
    BY <2>2 DEF TaskExists
  <2>6. ReportsKnowTheirTask'
    <3> SUFFICES ASSUME NEW q \in Reports, report'[q] # None
                 PROVE  /\ task'[report'[q].task].status # "none"
                        /\ TaskExists(report[q].task)' =>
                              /\ report'[q].type = task'[report'[q].task].type
                              /\ report'[q].inst = task'[report'[q].task].inst
      BY DEF ReportsKnowTheirTask
    <3>1. /\ report[q] \in ReportRequest /\ report[q] # None /\ report'[q].task = report[q].task
          /\ report'[q].type = report[q].type /\ report'[q].inst = report[q].inst
      BY <1>R, <2>1, <2>2, <2>3
    <3>2. report[q].task \in Tasks
      BY <3>1 DEF ReportRequest
    <3>3. TaskExists(report[q].task)' => TaskExists(report[q].task)
      BY <2>5, <3>1, <3>2 DEF TaskExists
    <3> QED
      BY <1>5, <1>P, <2>2, <2>5, <3>1, <3>2, <3>3 DEF ReportsKnowTheirTask
  <2>7. StartTaskOfInstance'
    BY <1>5, <1>P, <2>1, <2>2, <2>5 DEF StartTaskOfInstance, InstExists
  <2>8. ASSUME NEW j \in Instances, inst'[j].actual = "pending" PROVE \E u \in Tasks : OpensPending(u, j)'
    <3>1. PICK u \in Tasks : OpensPending(u, j)
      BY <1>5, <1>P, <2>1, <2>8
    <3>2. CASE u # report[r].task \/ ~TaskExists(u)
      <4>1. task'[u] = task[u]
        BY <2>2, <3>2
      <4>2. \A q \in Reports : report[q] # None /\ report[q].pc = "inst" => report'[q] = report[q]
        BY <2>1
      <4>3. OpensPending(u, j)'
        BY <3>1, <4>1, <4>2 DEF OpensPending
      <4> QED
        BY <4>3
    <3>3. CASE u = report[r].task /\ TaskExists(u)
      <4>1. report[r].type = "start"
        BY <1>5, <1>P, <2>1, <3>1, <3>3 DEF ReportsKnowTheirTask, OpensPending
      <4>2. OpensPending(u, j)'
        BY <2>2, <2>3, <3>1, <3>3, <4>1 DEF OpensPending
      <4> QED
        BY <4>2
    <3> QED
      BY <3>2, <3>3
  <2> QED
    BY <1>N, <1>5, <2>1, <2>4, <2>6, <2>7, <2>8
<1>6. ASSUME faults = 0, NEW r \in Reports, ReportInst(r) PROVE ProgressInv'
  <2>1. /\ lease' = lease /\ task' = task /\ faults' = faults
        /\ report[r] # None /\ report[r].pc = "inst"
        /\ report'[r] = AfterStatement(report[r])
        /\ \A q \in Reports \ {r} : report'[q] = report[q]
    BY <1>6 DEF ReportInst, TypeInv, TypeOK
  <2>2. report[r] \in ReportRequest
    BY <1>R, <2>1
  <2>3. /\ \A j \in Instances : inst'[j].dep = inst[j].dep
        /\ \A j \in Instances : j # report[r].inst \/ ~InstExists(j) => inst'[j] = inst[j]
        /\ InstExists(report[r].inst) =>
              inst'[report[r].inst].actual = ReportedInst(report[r].type, report[r].ok)
    BY <1>6, <2>2 DEF ReportInst, TypeInv, TypeOK, ReportRequest, InstRows
  <2>4. /\ report'[r] # None =>
             /\ report'[r].task = report[r].task /\ report'[r].type = report[r].type
             /\ report'[r].inst = report[r].inst /\ report'[r].pc = "lease"
             /\ report'[r].ok = report[r].ok
        /\ report[r].ok => report'[r] # None
    BY <2>1, <2>2, AfterInst, RequestAssumption
  <2>5. ASSUME NEW i \in Instances, NEW g \in Gpus, lease'[i][g] \in LiveLease, inst'[i].actual = "stopped"
        PROVE  \E q \in Reports : Releasing(q, i)'
    <3>1. CASE i # report[r].inst \/ ~InstExists(i)
      <4>1. inst[i].actual = "stopped" /\ lease[i][g] \in LiveLease
        BY <2>1, <2>3, <2>5, <3>1
      <4>2. PICK q \in Reports : Releasing(q, i)
        BY <1>6, <1>P, <4>1
      <4>3. q # r
        BY <2>1, <4>2 DEF Releasing
      <4>4. Releasing(q, i)'
        BY <2>1, <4>2, <4>3 DEF Releasing
      <4> QED
        BY <4>4
    <3>2. CASE i = report[r].inst /\ InstExists(i)
      <4>1. report[r].type = "stop" /\ report[r].ok
        BY <2>2, <2>3, <2>5, <3>2 DEF ReportedInst, ReportRequest
      <4>2. Releasing(r, i)'
        BY <2>4, <3>2, <4>1 DEF Releasing
      <4> QED
        BY <4>2
    <3> QED
      BY <3>1, <3>2
  <2>6. LiveLeaseIsStoppable'
    BY <2>5 DEF LiveLeaseIsStoppable
  <2>7. ReportsKnowTheirTask'
    BY <1>6, <1>P, <2>1, <2>4 DEF ReportsKnowTheirTask, TaskExists
  <2>8. \A j \in Instances : /\ inst'[j].actual = "none" <=> inst[j].actual = "none"
                             /\ InstExists(j)' <=> InstExists(j)
    BY <2>2, <2>3 DEF InstExists, ReportedInst, ReportRequest
  <2>9. StartTaskOfInstance'
    BY <1>6, <1>P, <1>X, <2>1, <2>3, <2>8 DEF StartTaskOfInstance, TaskExists, InstExists
  <2>10. ASSUME NEW j \in Instances, inst'[j].actual = "pending" PROVE \E u \in Tasks : OpensPending(u, j)'
    <3>1. inst[j].actual = "pending" /\ j # report[r].inst
      BY <2>2, <2>3, <2>10 DEF ReportedInst, ReportRequest, InstExists
    <3>2. PICK u \in Tasks : OpensPending(u, j)
      BY <1>6, <1>P, <3>1
    <3>3. CASE task[u].status \in {"pending", "claimed"}
      BY <2>1, <3>2, <3>3 DEF OpensPending
    <3>4. CASE task[u].status \notin {"pending", "claimed"}
      <4>1. PICK q \in Reports : report[q] # None /\ report[q].task = u /\ report[q].pc = "inst"
        BY <3>2, <3>4 DEF OpensPending
      <4>2. TaskExists(u)
        BY <1>6, <1>P, <3>2, NoneAssumption DEF StartTaskOfInstance, OpensPending
      <4>3. q # r
        BY <1>6, <1>P, <3>1, <3>2, <4>1, <4>2 DEF ReportsKnowTheirTask, OpensPending
      <4>4. OpensPending(u, j)'
        BY <2>1, <3>2, <4>1, <4>3 DEF OpensPending
      <4> QED
        BY <4>4
    <3> QED
      BY <3>3, <3>4
  <2> QED
    BY <1>N, <1>6, <2>1, <2>6, <2>7, <2>9, <2>10
<1>7. ASSUME faults = 0, NEW r \in Reports, ReportLease(r) PROVE ProgressInv'
  <2>1. /\ inst' = inst /\ task' = task /\ faults' = faults
        /\ report[r] # None /\ report[r].pc = "lease" /\ report[r] \in ReportRequest
        /\ report'[r] = None
        /\ \A q \in Reports \ {r} : report'[q] = report[q]
    BY <1>7, AfterLease DEF ReportLease, TypeInv, TypeOK
  <2>2. /\ \A j \in Instances \ {report[r].inst} : lease'[j] = lease[j]
        /\ \A g \in Gpus : /\ lease'[report[r].inst][g] =
                                 ReportedLease(lease[report[r].inst][g], report[r].type, report[r].ok)
                            /\ lease[report[r].inst][g] \in LeaseStatus
    BY <1>7, <2>1 DEF ReportLease, TypeInv, TypeOK, ReportRequest
  <2>3. \A i \in Instances, g \in Gpus : lease'[i][g] \in LiveLease =>
             lease[i][g] \in LiveLease /\ ~Releasing(r, i)
    BY <2>1, <2>2, ReportedLeaseType DEF Releasing, ReportedLease, LiveLease, ReportRequest
  <2>4. LiveLeaseIsStoppable'
    BY <1>7, <1>P, <2>1, <2>3 DEF LiveLeaseIsStoppable, Releasing
  <2>5. ReportsKnowTheirTask'
    BY <1>7, <1>P, <2>1 DEF ReportsKnowTheirTask, TaskExists
  <2>6. StartTaskOfInstance'
    BY <1>7, <1>P, <2>1 DEF StartTaskOfInstance, TaskExists, InstExists
  <2>7. ASSUME NEW j \in Instances, inst'[j].actual = "pending" PROVE \E u \in Tasks : OpensPending(u, j)'
    BY <1>7, <1>P, <2>1, <2>7 DEF OpensPending
  <2> QED
    BY <1>N, <1>7, <2>1, <2>4, <2>5, <2>6, <2>7
<1>8. ASSUME NEW n \in Nodes, HeartbeatUnswept(n) PROVE faults' # 0
  <2>1. faults \in Nat
    BY BoundAssumption DEF TypeInv, TypeOK
  <2> QED
    BY <1>8, <2>1 DEF HeartbeatUnswept
<1> QED
  BY <1>F, <1>0, <1>1, <1>2, <1>3, <1>4, <1>5, <1>6, <1>7, <1>8, TaskSteps, FaultsGrow

(* The three invariants together are inductive.                            *)
LEMMA ProgressInductive == Spec => [](TypeInv /\ ProgressInv)
<1>1. Init => TypeInv /\ ProgressInv
  BY InitTypeInv, InitProgressInv
<1>2. (TypeInv /\ ProgressInv) /\ [Next]_vars => (TypeInv /\ ProgressInv)'
  BY StepTypeInv, StepProgressInv
<1> QED
  BY <1>1, <1>2, PTL DEF Spec

(* Without a fault, a stopped instance never keeps a GPU: the result that  *)
(* stopped it is about to release the lease.                               *)
THEOREM StoppedLeaseIsReleased == Spec => []LiveLeaseIsStoppable
<1>1. ProgressInv => LiveLeaseIsStoppable
  BY DEF ProgressInv
<1> QED
  BY <1>1, ProgressInductive, PTL

(* Without a fault, a pending instance is waited for by an open start task *)
(* or by a result that is about to update it: the sweep, the delete and    *)
(* duplicate results never strand it.                                      *)
THEOREM PendingIsNeverStranded == Spec => []PendingHasStartTask
<1>1. ProgressInv => PendingHasStartTask
  BY DEF ProgressInv
<1> QED
  BY <1>1, ProgressInductive, PTL
=============================================================================
