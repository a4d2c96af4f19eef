------------------------- MODULE NodeRegistry_proofs -------------------------
(***************************************************************************)
(* The registry's invariant: types, and a GPU row that has the tenant of   *)
(* its node's row, whatever registrations, reports, transfers, checker     *)
(* ticks, restarts and rebuilds of the database interleave.  Tenants agree *)
(* because a GPU row never outlives the row of its node: an INSERT of a    *)
(* node, which sets the default tenant, then meets no GPU rows.            *)
(***************************************************************************)
EXTENDS NodeRegistry, TLAPS

(* GPU rows are inserted for rows of nodes that exist, and only a rebuild  *)
(* of the database, which takes both tables, removes the row of a node.    *)
NoOrphanGpus ==
    \A n \in Nodes, g \in Gpus : gpu[n][g].status # "none" => RowExists(n)

(* A process that is up has an id: register.Do sends no empty agent_id.    *)
UpHasId == \A n \in Nodes : agent[n].pc # "down" => agent[n].id \in AgentIds

(* The inductive invariant.                                                *)
IndInv == RegistryInv /\ NoOrphanGpus /\ UpHasId

USE DEF site

-----------------------------------------------------------------------------
(* Operators.                                                              *)

(* The empty rows are rows.                                                *)
LEMMA EmptyRows == NoRow \in NodeRows /\ NoGpu \in GpuRows
BY RegistryAssumption DEF NoRow, NoGpu, NodeRows, GpuRows

(* A registration leaves a row of its node, of the tenant it had or, for a *)
(* new row, of the default tenant.                                         *)
LEMMA RegisteredRowType ==
    ASSUME TypeOK, NEW r \in reg
    PROVE  /\ r.node \in Nodes
           /\ RegisteredRow(r) \in NodeRows
           /\ RegisteredRow(r).status = "online"
           /\ r.found => RegisteredRow(r).tenant = row[r.node].tenant
<1>1. r \in Registrations
  BY DEF TypeOK
<1>2. r.node \in Nodes /\ r.id \in AgentIds
  BY <1>1 DEF Registrations
<1>3. row[r.node].tenant \in Tenants
  BY <1>2 DEF TypeOK, NodeRows
<1> QED
  BY <1>2, <1>3, RegistryAssumption DEF RegisteredRow, NodeRows

(* A successful register.Do changes no id and makes no process of none.    *)
LEMMA RegisteredType ==
    ASSUME TypeOK, UpHasId, NEW r \in reg
    PROVE  /\ Registered(r) \in [Nodes -> Processes]
           /\ \A n \in Nodes : Registered(r)[n].pc # "down" => Registered(r)[n].id \in AgentIds
<1>1. r.node \in Nodes
  BY RegisteredRowType
<1>2. CASE Registered(r) = agent
  BY <1>2 DEF TypeOK, UpHasId
<1>3. CASE /\ agent[r.node].pc = "registering"
           /\ Registered(r) = [agent EXCEPT ![r.node].pc = "running"]
  <2>1. agent[r.node] \in Processes /\ agent[r.node].id \in AgentIds
    BY <1>1, <1>3 DEF TypeOK, UpHasId
  <2>2. [agent[r.node] EXCEPT !.pc = "running"] \in Processes
    BY <2>1 DEF Processes
  <2>3. [agent[r.node] EXCEPT !.pc = "running"].id = agent[r.node].id
    BY <2>1 DEF Processes
  <2> QED
    BY <1>1, <1>3, <2>1, <2>2, <2>3 DEF TypeOK, UpHasId
<1> QED
  BY <1>2, <1>3 DEF Registered

(* A report leaves typed GPU rows.  An inserted one has the tenant of the  *)
(* node's row, an updated one the tenant it had.                           *)
LEMMA ReportedGpus ==
    ASSUME TypeOK, NEW m \in Nodes, NEW seen \in SUBSET Gpus
    PROVE  /\ GpusAfterReport(m, seen) \in [Gpus -> GpuRows]
           /\ \A g \in Gpus :
                 LET new == GpusAfterReport(m, seen)[g] IN
                 new.status # "none" =>
                     new.tenant = IF gpu[m][g].status = "none" THEN row[m].tenant ELSE gpu[m][g].tenant
<1>1. row[m].tenant \in Tenants /\ \A g \in Gpus : gpu[m][g] \in GpuRows
  BY DEF TypeOK, NodeRows
<1>2. ASSUME NEW g \in Gpus
      PROVE  /\ GpusAfterReport(m, seen)[g] \in GpuRows
             /\ GpusAfterReport(m, seen)[g].status # "none" =>
                   GpusAfterReport(m, seen)[g].tenant
                     = IF gpu[m][g].status = "none" THEN row[m].tenant ELSE gpu[m][g].tenant
  <2>1. CASE g \in seen
    BY <1>1, <2>1 DEF GpusAfterReport, GpuRows
  <2>2. CASE g \notin seen /\ seen # {} /\ gpu[m][g].status # "none"
    BY <1>1, <2>2 DEF GpusAfterReport, GpuRows
  <2>3. CASE g \notin seen /\ ~(seen # {} /\ gpu[m][g].status # "none")
    BY <1>1, <2>3 DEF GpusAfterReport, GpuRows
  <2> QED
    BY <2>1, <2>2, <2>3
<1>3. GpusAfterReport(m, seen) = [g \in Gpus |-> GpusAfterReport(m, seen)[g]]
  BY DEF GpusAfterReport
<1> QED
  BY <1>2, <1>3

(* What Collect reports are GPUs.                                          *)
LEMMA CollectType ==
    ASSUME TypeOK, NEW n \in Nodes
    PROVE  Collect(n) \in SUBSET Gpus
BY DEF TypeOK, Collect, Processes

-----------------------------------------------------------------------------
(* The induction.                                                          *)

(* An empty database satisfies the invariant.                              *)
LEMMA InitIndInv == Init => IndInv
<1> SUFFICES ASSUME Init PROVE IndInv
  OBVIOUS
<1>1. TypeOK
  <2>1. PICK c \in Configs : configured = c[1] /\ ahead = c[2]
    BY DEF Init
  <2>2. <<configured, ahead>> \in Configs
    BY <2>1, RegistryAssumption
  <2> QED
    BY <2>2, EmptyRows, RegistryAssumption DEF Init, TypeOK, Processes, Checkers
<1>2. GpuTenantFollowsNode /\ NoOrphanGpus /\ UpHasId
  BY DEF Init, GpuTenantFollowsNode, NoOrphanGpus, UpHasId, NoGpu
<1> QED
  BY <1>1, <1>2 DEF IndInv, RegistryInv

(* What the invariant says of rows is kept by a step that changes neither  *)
(* a GPU row nor the tenant or the existence of a node's row.              *)
LEMMA SameRows ==
    ASSUME IndInv, gpu' = gpu,
           \A n \in Nodes : /\ row'[n].tenant = row[n].tenant
                            /\ RowExists(n) => RowExists(n)'
    PROVE  GpuTenantFollowsNode' /\ NoOrphanGpus'
BY DEF IndInv, RegistryInv, GpuTenantFollowsNode, NoOrphanGpus

(* Every step of an agent and its handlers.                                *)
LEMMA AgentStep ==
    ASSUME IndInv, AgentNext
    PROVE  IndInv'
<1> USE DEF IndInv, RegistryInv
<1> PICK n \in Nodes : \/ AgentStart(n) \/ AgentStop(n) \/ RegisterSend(n)
                       \/ HandleHeartbeat(n) \/ HeartbeatUnheeded(n) \/ HandleResourceReport(n)
  BY DEF AgentNext
<1>1. CASE AgentStart(n)
  <2>1. PICK id \in IF configured[n] # None THEN {configured[n]} ELSE Uuids \ minted :
          /\ agent' = [agent EXCEPT ![n] = [pc |-> "registering", id |-> id, last |-> {}]]
          /\ minted' = minted \cup ({id} \cap Uuids)
    BY <1>1 DEF AgentStart
  <2>2. id \in AgentIds
    BY <2>1, RegistryAssumption DEF TypeOK
  <2>3. TypeOK'
    BY <1>1, <2>1, <2>2 DEF AgentStart, TypeOK, Processes, bounds
  <2>4. UpHasId'
    BY <2>1, <2>2 DEF UpHasId, TypeOK
  <2> QED
    BY <1>1, <2>3, <2>4, SameRows DEF AgentStart, RowExists
<1>2. CASE AgentStop(n)
  <2>1. TypeOK'
    BY <1>2, RegistryAssumption DEF AgentStop, TypeOK, Processes
  <2>2. UpHasId'
    BY <1>2 DEF AgentStop, UpHasId, TypeOK
  <2> QED
    BY <1>2, <2>1, <2>2, SameRows DEF AgentStop, RowExists
<1>3. CASE RegisterSend(n)
  <2>1. agent[n].id \in AgentIds
    BY <1>3 DEF RegisterSend, UpHasId
  <2>2. TypeOK'
    <3>1. RowExists(n) \in BOOLEAN
      BY DEF RowExists
    <3>2. [node |-> n, id |-> agent[n].id, found |-> RowExists(n)] \in Registrations
      BY <2>1, <3>1 DEF Registrations
    <3>3. reg' \subseteq Registrations
      BY <1>3, <3>2 DEF RegisterSend, TypeOK
    <3> QED
      BY <1>3, <3>3 DEF RegisterSend, TypeOK, bounds
  <2> QED
    BY <1>3, <2>2, SameRows DEF RegisterSend, RowExists, UpHasId
<1>4. CASE HandleHeartbeat(n)
  <2>0. row[n] \in NodeRows /\ row \in [Nodes -> NodeRows]
    BY DEF TypeOK
  <2>a. [row[n] EXCEPT !.status = "online", !.recent = TRUE] \in NodeRows
    BY <2>0 DEF NodeRows
  <2>1. row' \in [Nodes -> NodeRows] /\ \A k \in Nodes : row'[k].tenant = row[k].tenant
    <3>1. row' \in [Nodes -> NodeRows]
      BY <1>4, <2>0, <2>a DEF HandleHeartbeat
    <3>2. \A k \in Nodes : row'[k].tenant = row[k].tenant
      BY <1>4, <2>0 DEF HandleHeartbeat, NodeRows
    <3> QED
      BY <3>1, <3>2
  <2>2. \A k \in Nodes : RowExists(k) => RowExists(k)'
    BY <1>4 DEF HandleHeartbeat, TypeOK, NodeRows, RowExists
  <2>3. TypeOK' /\ UpHasId'
    BY <1>4, <2>1 DEF HandleHeartbeat, TypeOK, bounds, UpHasId
  <2> QED
    BY <1>4, <2>1, <2>2, <2>3, SameRows DEF HandleHeartbeat
<1>5. CASE HeartbeatUnheeded(n)
  BY <1>5 DEF HeartbeatUnheeded, vars, bounds, TypeOK, GpuTenantFollowsNode, NoOrphanGpus, UpHasId, RowExists
<1>6. CASE HandleResourceReport(n)
  <2>1. PICK m \in ReportTargets(n) :
          /\ row' = [row EXCEPT ![m].status = "online", ![m].recent = TRUE]
          /\ gpu' = [gpu EXCEPT ![m] = GpusAfterReport(m, Collect(n))]
    BY <1>6 DEF HandleResourceReport
  <2>2. m \in Nodes /\ RowExists(m)
    BY DEF ReportTargets
  <2>3. row' \in [Nodes -> NodeRows] /\ \A k \in Nodes : row'[k].tenant = row[k].tenant
    BY <2>1, <2>2 DEF TypeOK, NodeRows
  <2>4. \A k \in Nodes : RowExists(k) => RowExists(k)'
    BY <2>1, <2>2 DEF TypeOK, NodeRows, RowExists
  <2>5. agent' \in [Nodes -> Processes] /\ UpHasId'
    BY <1>6, CollectType DEF HandleResourceReport, TypeOK, Processes, UpHasId
  <2>6. gpu' \in [Nodes -> [Gpus -> GpuRows]]
    BY <2>1, <2>2, CollectType, ReportedGpus DEF TypeOK
  <2>7. TypeOK'
    BY <1>6, <2>3, <2>5, <2>6 DEF HandleResourceReport, TypeOK, bounds
  <2>8. ASSUME NEW k \in Nodes, NEW g \in Gpus, gpu'[k][g].status # "none"
        PROVE  gpu'[k][g].tenant = row'[k].tenant /\ RowExists(k)'
    <3>1. CASE k # m
      BY <2>1, <2>3, <2>4, <2>8, <3>1 DEF TypeOK, GpuTenantFollowsNode, NoOrphanGpus
    <3>2. CASE k = m
      <4>1. gpu'[m] = GpusAfterReport(m, Collect(n))
        BY <2>1, <2>2 DEF TypeOK
      <4>2. gpu'[m][g].tenant
              = IF gpu[m][g].status = "none" THEN row[m].tenant ELSE gpu[m][g].tenant
        BY <2>2, <2>8, <3>2, <4>1, CollectType, ReportedGpus
      <4> QED
        BY <2>2, <2>3, <2>4, <3>2, <4>2 DEF GpuTenantFollowsNode
    <3> QED
      BY <3>1, <3>2
  <2> QED
    BY <2>5, <2>7, <2>8 DEF GpuTenantFollowsNode, NoOrphanGpus
<1> QED
  BY <1>1, <1>2, <1>3, <1>4, <1>5, <1>6

(* Every end of a registration.  An INSERT, which resets the tenant, meets *)
(* a node without GPU rows; an UPDATE keeps the tenant.                    *)
LEMMA RegistrationStep ==
    ASSUME IndInv, NEW r \in reg, HandleRegister(r) \/ RegisterRefused(r)
    PROVE  IndInv'
<1> USE DEF IndInv, RegistryInv
<1>1. CASE HandleRegister(r)
  <2>0. r.node \in Nodes
    BY RegisteredRowType
  <2>1. row' \in [Nodes -> NodeRows]
    BY <1>1, RegisteredRowType DEF HandleRegister, TypeOK
  <2>2. agent' \in [Nodes -> Processes] /\ UpHasId'
    <3>1. CASE agent' = agent
      BY <3>1 DEF TypeOK, UpHasId
    <3>2. CASE agent' = Registered(r)
      BY <3>2, RegisteredType DEF UpHasId
    <3> QED
      BY <1>1, <3>1, <3>2 DEF HandleRegister
  <2>3. TypeOK'
    BY <1>1, <2>1, <2>2 DEF HandleRegister, TypeOK, bounds
  <2>4. ASSUME NEW k \in Nodes, NEW g \in Gpus, gpu'[k][g].status # "none"
        PROVE  gpu'[k][g].tenant = row'[k].tenant /\ RowExists(k)'
    <3>1. gpu' = gpu /\ RowExists(k) /\ gpu[k][g].tenant = row[k].tenant
      BY <1>1, <2>4 DEF HandleRegister, NoOrphanGpus, GpuTenantFollowsNode
    <3>2. CASE row' = row
      BY <3>1, <3>2 DEF RowExists
    <3>3. CASE row' = [row EXCEPT ![r.node] = RegisteredRow(r)] /\ (r.found \/ ~RowExists(r.node))
      <4>1. CASE k = r.node
        <5>1. row'[k] = RegisteredRow(r)
          BY <2>0, <3>3, <4>1 DEF TypeOK
        <5>2. r.found
          BY <3>1, <3>3, <4>1
        <5> QED
          BY <3>1, <4>1, <5>1, <5>2, RegisteredRowType DEF RowExists
      <4>2. CASE k # r.node
        BY <3>1, <3>3, <4>2 DEF RowExists, TypeOK
      <4> QED
        BY <4>1, <4>2
    <3> QED
      BY <1>1, <3>2, <3>3 DEF HandleRegister
  <2> QED
    BY <2>2, <2>3, <2>4 DEF GpuTenantFollowsNode, NoOrphanGpus
<1>2. CASE RegisterRefused(r)
  <2>1. TypeOK' /\ UpHasId'
    BY <1>2 DEF RegisterRefused, TypeOK, UpHasId, bounds
  <2> QED
    BY <1>2, <2>1, SameRows DEF RegisterRefused, RowExists
<1> QED
  BY <1>1, <1>2

(* Time, and a GPU that is lost.                                           *)
LEMMA EnvironmentStep ==
    ASSUME IndInv, (\E g \in Gpus : GpuLost(g)) \/ (\E n \in Nodes : Age(n))
    PROVE  IndInv'
<1> USE DEF IndInv, RegistryInv
<1>1. ASSUME NEW g \in Gpus, GpuLost(g)
      PROVE  IndInv'
  <2>1. Home[g] \in Nodes
    BY RegistryAssumption
  <2>2. TypeOK' /\ UpHasId'
    BY <1>1, <2>1 DEF GpuLost, TypeOK, UpHasId, bounds
  <2> QED
    BY <1>1, <2>2, SameRows DEF GpuLost, RowExists
<1>2. ASSUME NEW n \in Nodes, Age(n)
      PROVE  IndInv'
  <2>1. row' \in [Nodes -> NodeRows] /\ \A k \in Nodes : row'[k].tenant = row[k].tenant
    <3>1. row[n] \in NodeRows /\ row' = [row EXCEPT ![n] = [row[n] EXCEPT !.recent = FALSE]]
      BY <1>2 DEF Age, TypeOK
    <3>2. /\ [row[n] EXCEPT !.recent = FALSE] \in NodeRows
          /\ [row[n] EXCEPT !.recent = FALSE].tenant = row[n].tenant
      BY <3>1 DEF NodeRows
    <3> QED
      BY <3>1, <3>2 DEF TypeOK
  <2>2. \A k \in Nodes : RowExists(k) => RowExists(k)'
    BY <1>2 DEF Age, TypeOK, NodeRows, RowExists
  <2>3. TypeOK' /\ UpHasId'
    BY <1>2, <2>1 DEF Age, TypeOK, UpHasId, bounds
  <2> QED
    BY <1>2, <2>1, <2>2, <2>3, SameRows DEF Age
<1> QED
  BY <1>1, <1>2

(* The health checker changes the status of rows and nothing else in them. *)
LEMMA CheckerStep ==
    ASSUME IndInv, CheckerNext
    PROVE  IndInv'
<1> USE DEF IndInv, RegistryInv
<1>1. CASE MarkOfflineNodes
  <2>1. \A k \in Nodes : /\ row'[k] \in NodeRows
                         /\ row'[k].tenant = row[k].tenant
                         /\ RowExists(k) => row'[k].status # "none"
    BY <1>1 DEF MarkOfflineNodes, TypeOK, NodeRows, RowExists
  <2>2. row' \in [Nodes -> NodeRows]
    BY <1>1, <2>1 DEF MarkOfflineNodes
  <2>3. TypeOK' /\ UpHasId'
    BY <1>1, <2>2 DEF MarkOfflineNodes, TypeOK, UpHasId, Checkers, bounds
  <2> QED
    BY <1>1, <2>1, <2>3, SameRows DEF MarkOfflineNodes, RowExists
<1>2. CASE ListOffline
  <2>1. TypeOK' /\ UpHasId'
    BY <1>2 DEF ListOffline, TypeOK, UpHasId, Checkers, bounds
  <2> QED
    BY <1>2, <2>1, SameRows DEF ListOffline, RowExists
<1>3. ASSUME NEW n \in Nodes, MarkStaleGPUs(n)
      PROVE  IndInv'
  <2>1. PICK kept \in SUBSET Gpus :
          gpu' = [gpu EXCEPT ![n] = [g \in Gpus |->
             IF @[g].status = "available" /\ g \notin kept
             THEN [@[g] EXCEPT !.status = "unavailable"]
             ELSE @[g]]]
    BY <1>3 DEF MarkStaleGPUs
  <2>2. \A k \in Nodes, g \in Gpus :
           /\ gpu'[k][g] \in GpuRows
           /\ gpu'[k][g].tenant = gpu[k][g].tenant
           /\ gpu'[k][g].status # "none" => gpu[k][g].status # "none"
    <3> SUFFICES ASSUME NEW k \in Nodes, NEW g \in Gpus
                 PROVE  /\ gpu'[k][g] \in GpuRows
                        /\ gpu'[k][g].tenant = gpu[k][g].tenant
                        /\ gpu'[k][g].status # "none" => gpu[k][g].status # "none"
      OBVIOUS
    <3>1. gpu[k][g] \in GpuRows
      BY DEF TypeOK
    <3>2. gpu'[k][g] = IF k = n /\ gpu[k][g].status = "available" /\ g \notin kept
                       THEN [gpu[k][g] EXCEPT !.status = "unavailable"]
                       ELSE gpu[k][g]
      BY <2>1 DEF TypeOK
    <3> QED
      BY <3>1, <3>2 DEF GpuRows
  <2>3. gpu' \in [Nodes -> [Gpus -> GpuRows]]
    <3>1. gpu'[n] \in [Gpus -> GpuRows]
      <4>1. gpu'[n] = [g \in Gpus |-> gpu'[n][g]]
        BY <2>1 DEF TypeOK
      <4> QED
        BY <2>2, <4>1
    <3> QED
      BY <2>1, <3>1 DEF TypeOK
  <2>4. TypeOK' /\ UpHasId'
    BY <1>3, <2>3 DEF MarkStaleGPUs, TypeOK, UpHasId, Checkers, bounds
  <2>5. row' = row
    BY <1>3 DEF MarkStaleGPUs
  <2> QED
    BY <2>2, <2>4, <2>5 DEF GpuTenantFollowsNode, NoOrphanGpus, RowExists
<1>4. ASSUME NEW n \in Nodes, MarkStaleFails(n)
      PROVE  IndInv'
  <2>1. TypeOK' /\ UpHasId'
    BY <1>4, RegistryAssumption DEF MarkStaleFails, TypeOK, UpHasId, Checkers
  <2> QED
    BY <1>4, <2>1, SameRows DEF MarkStaleFails, RowExists
<1>5. CASE CheckerDone
  <2>1. TypeOK' /\ UpHasId'
    BY <1>5 DEF CheckerDone, TypeOK, UpHasId, Checkers, bounds
  <2> QED
    BY <1>5, <2>1, SameRows DEF CheckerDone, RowExists
<1> QED
  BY <1>1, <1>2, <1>3, <1>4, <1>5 DEF CheckerNext

(* A transfer moves the row and its GPU rows in one commit.  One whose row *)
(* is gone when it commits finds no GPU row either.                        *)
LEMMA TenantStep ==
    ASSUME IndInv, TenantNext
    PROVE  IndInv'
<1> USE DEF IndInv, RegistryInv
<1>1. ASSUME NEW n \in Nodes, LeaseNode(n) \/ ReleaseNode(n)
      PROVE  IndInv'
  <2>1. TypeOK' /\ UpHasId'
    BY <1>1 DEF LeaseNode, ReleaseNode, TypeOK, UpHasId, bounds
  <2> QED
    BY <1>1, <2>1, SameRows DEF LeaseNode, ReleaseNode, RowExists
<1>2. ASSUME NEW n \in Nodes, NEW t \in Tenants, TransferCheck(n, t)
      PROVE  IndInv'
  <2>1. TypeOK' /\ UpHasId'
    BY <1>2, RegistryAssumption DEF TransferCheck, TypeOK, UpHasId
  <2> QED
    BY <1>2, <2>1, SameRows DEF TransferCheck, RowExists
<1>3. CASE TransferCommit
  <2> DEFINE n == transfer.node
             t == transfer.tenant
  <2>1. n \in Nodes /\ t \in Tenants
    BY <1>3 DEF TransferCommit, TypeOK
  <2> HIDE DEF n, t
  <2>2. /\ row' = [row EXCEPT ![n].tenant = IF RowExists(n) THEN t ELSE @]
        /\ gpu' = [gpu EXCEPT ![n] = [g \in Gpus |->
                      IF @[g].status = "none" THEN @[g] ELSE [@[g] EXCEPT !.tenant = t]]]
    BY <1>3 DEF TransferCommit, n, t
  <2>3. \A k \in Nodes :
           /\ row'[k] \in NodeRows
           /\ row'[k].status = row[k].status
           /\ row'[k].tenant = IF k = n /\ RowExists(k) THEN t ELSE row[k].tenant
    BY <2>1, <2>2 DEF TypeOK, NodeRows
  <2>4. \A k \in Nodes, g \in Gpus :
           /\ gpu'[k][g] \in GpuRows
           /\ gpu'[k][g].status = gpu[k][g].status
           /\ gpu'[k][g].tenant = IF k = n /\ gpu[k][g].status # "none" THEN t ELSE gpu[k][g].tenant
    <3>1. gpu \in [Nodes -> [Gpus -> GpuRows]]
      BY DEF TypeOK
    <3> SUFFICES ASSUME NEW k \in Nodes, NEW g \in Gpus
                 PROVE  /\ gpu'[k][g] \in GpuRows
                        /\ gpu'[k][g].status = gpu[k][g].status
                        /\ gpu'[k][g].tenant = IF k = n /\ gpu[k][g].status # "none" THEN t ELSE gpu[k][g].tenant
      OBVIOUS
    <3>2. CASE k = n /\ gpu[k][g].status # "none"
      <4>1. gpu'[k][g] = [gpu[k][g] EXCEPT !.tenant = t]
        BY <2>1, <2>2, <3>1, <3>2
      <4> QED
        BY <2>1, <3>1, <3>2, <4>1 DEF GpuRows
    <3>3. CASE ~(k = n /\ gpu[k][g].status # "none")
      <4>1. gpu'[k][g] = gpu[k][g]
        BY <2>1, <2>2, <3>1, <3>3
      <4> QED
        BY <3>1, <3>3, <4>1
    <3> QED
      BY <3>2, <3>3
  <2>5. row' \in [Nodes -> NodeRows]
    BY <2>2, <2>3 DEF TypeOK
  <2>6. gpu' \in [Nodes -> [Gpus -> GpuRows]]
    <3>1. gpu'[n] \in [Gpus -> GpuRows]
      <4>1. gpu'[n] = [g \in Gpus |-> gpu'[n][g]]
        BY <2>1, <2>2 DEF TypeOK
      <4> QED
        BY <2>1, <2>4, <4>1
    <3> QED
      BY <2>1, <2>2, <3>1 DEF TypeOK
  <2>7. TypeOK' /\ UpHasId'
    BY <1>3, <2>5, <2>6 DEF TransferCommit, TypeOK, UpHasId, bounds
  <2>8. GpuTenantFollowsNode' /\ NoOrphanGpus'
    BY <2>3, <2>4 DEF GpuTenantFollowsNode, NoOrphanGpus, RowExists
  <2> QED
    BY <2>7, <2>8
<1> QED
  BY <1>1, <1>2, <1>3 DEF TenantNext

(* A restarted server, and a database built anew.                          *)
LEMMA ServerStep ==
    ASSUME IndInv, ServerRestart \/ ResetDatabase
    PROVE  IndInv'
<1> USE DEF IndInv, RegistryInv
<1>1. CASE ServerRestart
  <2>1. TypeOK' /\ UpHasId'
    BY <1>1, RegistryAssumption DEF ServerRestart, TypeOK, UpHasId, Checkers
  <2> QED
    BY <1>1, <2>1, SameRows DEF ServerRestart, RowExists
<1>2. CASE ResetDatabase
  <2>1. TypeOK' /\ UpHasId'
    BY <1>2, EmptyRows, RegistryAssumption DEF ResetDatabase, TypeOK, UpHasId, Checkers
  <2>2. GpuTenantFollowsNode' /\ NoOrphanGpus'
    BY <1>2 DEF ResetDatabase, GpuTenantFollowsNode, NoOrphanGpus, NoGpu
  <2> QED
    BY <2>1, <2>2
<1> QED
  BY <1>1, <1>2

(* Every step preserves the invariant.                                     *)
LEMMA StepIndInv == IndInv /\ [Next]_vars => IndInv'
<1> SUFFICES ASSUME IndInv, [Next]_vars PROVE IndInv'
  OBVIOUS
<1>1. CASE UNCHANGED vars
  BY <1>1 DEF vars, bounds, IndInv, RegistryInv, TypeOK, GpuTenantFollowsNode, NoOrphanGpus, UpHasId, RowExists
<1>2. CASE Next
  BY <1>2, AgentStep, RegistrationStep, EnvironmentStep, CheckerStep, TenantStep, ServerStep DEF Next
<1> QED
  BY <1>1, <1>2

(* The GPU rows of a node have the tenant of the node's row, and every     *)
(* variable its type, for any nodes, GPUs, agent ids and tenants and for   *)
(* any number of restarts, faults and transfers: a list filtered by the    *)
(* tenant column of gpu_devices never shows a GPU of a node that the       *)
(* tenant does not own.                                                    *)
THEOREM GpusKeepTheTenantOfTheirNode == Spec => []RegistryInv
<1>1. IndInv => RegistryInv
  BY DEF IndInv
<1> QED
  BY <1>1, InitIndInv, StepIndInv, PTL DEF Spec
=============================================================================
