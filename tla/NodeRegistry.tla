---------------------------- MODULE NodeRegistry ----------------------------
(***************************************************************************)
(* The registry of nodes and of their GPUs: agents register, send          *)
(* heartbeats and resource reports; the server's health checker marks      *)
(* nodes offline and their GPUs unavailable; an administrator moves a node *)
(* to another tenant.  Processes on both sides may restart, and the        *)
(* database may be rebuilt.                                                *)
(***************************************************************************)
EXTENDS Naturals, FiniteSets

CONSTANTS
    Nodes,          \* node ids, one identity file each
    Gpus,           \* GPU uuids
    Home,           \* Home[g]: the node whose machine holds g
    AgentIds,       \* configured agent ids and uuids
    Configs,        \* what agents may be installed with: <<agent_id by node, or None; nodes ahead>>
    Uuids,          \* ids an agent without a configured one may draw
    Tenants,
    DefaultTenant,
    None,
    MaxRestarts,    \* bound: restarts of agents
    MaxFaults,      \* bound: restarts of the server, dropped statements, rebuilds of the database
    MaxTransfers    \* bound: tenant transfers

ASSUME RegistryAssumption ==
    /\ Home \in [Gpus -> Nodes]
    /\ Uuids \subseteq AgentIds
    /\ Configs \subseteq [Nodes -> (AgentIds \ Uuids) \cup {None}] \X SUBSET Nodes
    /\ DefaultTenant \in Tenants
    /\ None \notin AgentIds \cup Nodes
    /\ {MaxRestarts, MaxFaults, MaxTransfers} \subseteq Nat

VARIABLES
    configured, \* configured[n]: agent_id of the node's configuration file, or None
    ahead,      \* nodes whose collected_at text (clock and zone of the agent) is
                \* ahead of the server's own by more than the heartbeat threshold
    row,        \* nodes
    gpu,        \* gpu_devices, by (node_id, uuid)
    agent,      \* the agent processes
    present,    \* the GPUs a node's driver shows
    reg,        \* registrations between their SELECT and their write
    checker,    \* runNodeHealthChecker
    leased,     \* nodes with a live lease or an active instance
    transfer,   \* HandlePatchNodeTenant between its checks and its commit
    minted,     \* uuids drawn so far
    restarts, faults, transfers

bounds == <<restarts, faults, transfers>>
site == <<configured, ahead>>
vars == <<site, row, gpu, agent, present, reg, checker, leased, transfer, minted, bounds>>

-----------------------------------------------------------------------------
(* Rows and processes.                                                     *)

NodeRows ==
    [agent  : AgentIds \cup {None},
     status : {"none", "online", "offline"},
     recent : BOOLEAN,               \* last_heartbeat_at is within the threshold
     tenant : Tenants]

GpuRows == [status : {"none", "available", "unavailable"}, tenant : Tenants]

Processes ==
    [pc   : {"down", "registering", "running"},
     id   : AgentIds \cup {None},
     last : SUBSET Gpus]             \* lastGPUResources of the collector registry

Registrations == [node : Nodes, id : AgentIds, found : BOOLEAN]

Checkers == [pc : {"idle", "list", "mark"}, todo : SUBSET Nodes]

NoRow == [agent |-> None, status |-> "none", recent |-> FALSE, tenant |-> DefaultTenant]
NoGpu == [status |-> "none", tenant |-> DefaultTenant]

RowExists(n) == row[n].status # "none"

(* The type invariant.                                                     *)
TypeOK ==
    /\ <<configured, ahead>> \in Configs
    /\ row \in [Nodes -> NodeRows]
    /\ gpu \in [Nodes -> [Gpus -> GpuRows]]
    /\ agent \in [Nodes -> Processes]
    /\ present \in [Nodes -> SUBSET Gpus]
    /\ reg \subseteq Registrations
    /\ checker \in Checkers
    /\ leased \subseteq Nodes
    /\ transfer \in [node : Nodes, tenant : Tenants] \cup {None}
    /\ minted \subseteq Uuids
    /\ restarts \in 0 .. MaxRestarts
    /\ faults \in 0 .. MaxFaults
    /\ transfers \in 0 .. MaxTransfers

Init ==
    /\ \E c \in Configs : configured = c[1] /\ ahead = c[2]
    /\ row = [n \in Nodes |-> NoRow]
    /\ gpu = [n \in Nodes |-> [g \in Gpus |-> NoGpu]]
    /\ agent = [n \in Nodes |-> [pc |-> "down", id |-> None, last |-> {}]]
    /\ present = [n \in Nodes |-> {g \in Gpus : Home[g] = n}]
    /\ reg = {}
    /\ checker = [pc |-> "idle", todo |-> {}]
    /\ leased = {}
    /\ transfer = None
    /\ minted = {}
    /\ restarts = 0 /\ faults = 0 /\ transfers = 0

-----------------------------------------------------------------------------
(* The agent's process.                                                    *)

(* main: the node id comes from the identity file, the agent id from the   *)
(* configuration or, on every start anew, from uuid.NewString.             *)
AgentStart(n) ==
    /\ agent[n].pc = "down"
    /\ \E id \in IF configured[n] # None THEN {configured[n]} ELSE Uuids \ minted :
          /\ agent' = [agent EXCEPT ![n] = [pc |-> "registering", id |-> id, last |-> {}]]
          /\ minted' = minted \cup ({id} \cap Uuids)
    /\ UNCHANGED <<site, row, gpu, present, reg, checker, leased, transfer, bounds>>

AgentStop(n) ==
    /\ agent[n].pc # "down"
    /\ restarts < MaxRestarts
    /\ restarts' = restarts + 1
    /\ agent' = [agent EXCEPT ![n] = [pc |-> "down", id |-> None, last |-> {}]]
    /\ UNCHANGED <<site, row, gpu, present, reg, checker, leased, transfer, minted,
                   faults, transfers>>

(* A GPU falls off the bus.                                                *)
GpuLost(g) ==
    /\ g \in present[Home[g]]
    /\ present' = [present EXCEPT ![Home[g]] = @ \ {g}]
    /\ UNCHANGED <<site, row, gpu, agent, reg, checker, leased, transfer, minted, bounds>>

-----------------------------------------------------------------------------
(* Registration.  The loop of runAgentLoop repeats register.Do until it    *)
(* succeeds; HandleRegister reads the row and writes it in two statements, *)
(* and goes on when the agent has died meanwhile.                          *)

RegisterSend(n) ==
    /\ agent[n].pc = "registering"
    /\ ~\E r \in reg : r.node = n /\ r.id = agent[n].id
    /\ reg' = reg \cup {[node |-> n, id |-> agent[n].id, found |-> RowExists(n)]}
    /\ UNCHANGED <<site, row, gpu, agent, present, checker, leased, transfer, minted, bounds>>

(* Mutant: a node registers once.                                          *)
BindingOK_Unbound(r) == row[r.node].agent = None

(* The agent_id read before the UPDATE.                                    *)
BindingOK(r) == row[r.node].agent \in {None, r.id}

(* Mutant: the row forgets whose it is, and the next registration too.     *)
RegisteredRow_NoId(r) ==
    [agent |-> CHOOSE a \in AgentIds : a # r.id, status |-> "online", recent |-> TRUE,
     tenant |-> IF r.found THEN row[r.node].tenant ELSE DefaultTenant]

(* The row a successful registration leaves: an INSERT sets the default    *)
(* tenant, an UPDATE keeps the tenant.                                     *)
RegisteredRow(r) ==
    [agent |-> r.id, status |-> "online", recent |-> TRUE,
     tenant |-> IF r.found THEN row[r.node].tenant ELSE DefaultTenant]

(* register.Do succeeds: the loop goes on to heartbeats and reports.       *)
Registered(r) ==
    IF agent[r.node].pc = "registering" /\ agent[r.node].id = r.id
    THEN [agent EXCEPT ![r.node].pc = "running"]
    ELSE agent

(* An INSERT needs that there is still no row, an UPDATE the binding; an   *)
(* UPDATE of a row that is gone changes nothing and is a success.  The     *)
(* response may be lost.                                                   *)
HandleRegister(r) ==
    /\ r.found \/ ~RowExists(r.node)
    /\ r.found => BindingOK(r)
    /\ row' = IF r.found /\ ~RowExists(r.node)
              THEN row
              ELSE [row EXCEPT ![r.node] = RegisteredRow(r)]
    /\ reg' = reg \ {r}
    /\ agent' \in {agent, Registered(r)}
    /\ UNCHANGED <<site, gpu, present, checker, leased, transfer, minted, bounds>>

(* 409 for another agent's node, 500 when the INSERT meets a row: the      *)
(* agent backs off and tries again.                                        *)
RegisterRefused(r) ==
    /\ \/ r.found /\ ~BindingOK(r)
       \/ ~r.found /\ RowExists(r.node)
    /\ reg' = reg \ {r}
    /\ UNCHANGED <<site, row, gpu, agent, present, checker, leased, transfer, minted, bounds>>

-----------------------------------------------------------------------------
(* Heartbeats.                                                             *)

HandleHeartbeat(n) ==
    /\ agent[n].pc = "running"
    /\ RowExists(n)
    /\ row[n].agent \in {None, agent[n].id}
    /\ row' = [row EXCEPT ![n].status = "online", ![n].recent = TRUE]
    /\ UNCHANGED <<site, gpu, agent, present, reg, checker, leased, transfer, minted, bounds>>

(* need_register for an unknown node, 403 for another agent's.  The agent  *)
(* looks at need_register only next to an error, and SendHeartbeat returns *)
(* none: neither the status code nor the flag reaches the loop.            *)
HeartbeatUnheeded(n) ==
    /\ agent[n].pc = "running"
    /\ ~RowExists(n) \/ row[n].agent # agent[n].id
    /\ UNCHANGED vars

-----------------------------------------------------------------------------
(* Resource reports.                                                       *)

(* Registry.Collect: when no device is found, the previous ones stay.      *)
Collect(n) == IF present[n] # {} THEN present[n] ELSE agent[n].last

(* SELECT id FROM nodes WHERE agent_id = ?: one of the matching rows.      *)
ReportTargets(n) == {m \in Nodes : RowExists(m) /\ row[m].agent = agent[n].id}

(* Mutant: GPUs that are no longer reported keep their status.             *)
GpusAfterReport_KeepsLost(m, seen) ==
    [g \in Gpus |->
        IF g \in seen
        THEN [status |-> "available",
              tenant |-> IF gpu[m][g].status = "none" THEN row[m].tenant ELSE gpu[m][g].tenant]
        ELSE gpu[m][g]]

(* Reported GPUs are inserted with the node's tenant or updated; the       *)
(* others become unavailable, unless the report names none.                *)
GpusAfterReport(m, seen) ==
    [g \in Gpus |->
        CASE g \in seen ->
               [status |-> "available",
                tenant |-> IF gpu[m][g].status = "none" THEN row[m].tenant ELSE gpu[m][g].tenant]
          [] g \notin seen /\ seen # {} /\ gpu[m][g].status # "none" ->
               [gpu[m][g] EXCEPT !.status = "unavailable"]
          [] OTHER -> gpu[m][g]]

(* One transaction; it is proof of life like a heartbeat.                  *)
HandleResourceReport(n) ==
    /\ agent[n].pc = "running"
    /\ agent' = [agent EXCEPT ![n].last = Collect(n)]
    /\ \E m \in ReportTargets(n) :
          /\ row' = [row EXCEPT ![m].status = "online", ![m].recent = TRUE]
          /\ gpu' = [gpu EXCEPT ![m] = GpusAfterReport(m, Collect(n))]
    /\ UNCHANGED <<site, present, reg, checker, leased, transfer, minted, bounds>>

-----------------------------------------------------------------------------
(* The health checker.                                                     *)

(* Time: the last heartbeat gets older than the threshold.                 *)
Age(n) ==
    /\ row[n].recent
    /\ row' = [row EXCEPT ![n].recent = FALSE]
    /\ UNCHANGED <<site, gpu, agent, present, reg, checker, leased, transfer, minted, bounds>>

Overdue == {n \in Nodes : row[n].status = "online" /\ ~row[n].recent}

(* The tick: MarkOfflineNodes; GPUs are looked at when it changed a row.   *)
MarkOfflineNodes ==
    /\ checker.pc = "idle"
    /\ Overdue # {}
    /\ row' = [n \in Nodes |->
          IF n \in Overdue THEN [row[n] EXCEPT !.status = "offline"] ELSE row[n]]
    /\ checker' = [checker EXCEPT !.pc = "list"]
    /\ UNCHANGED <<site, gpu, agent, present, reg, leased, transfer, minted, bounds>>

(* Mutant: forgets the GPUs of offline nodes.                              *)
ListOffline_Nothing ==
    /\ checker.pc = "list"
    /\ checker' = [pc |-> "idle", todo |-> {}]
    /\ UNCHANGED <<site, row, gpu, agent, present, reg, leased, transfer, minted, bounds>>

(* SELECT id FROM nodes WHERE status = 'offline'.                          *)
ListOffline ==
    /\ checker.pc = "list"
    /\ checker' = [pc |-> "mark", todo |-> {n \in Nodes : row[n].status = "offline"}]
    /\ UNCHANGED <<site, row, gpu, agent, present, reg, leased, transfer, minted, bounds>>

(* MarkStaleGPUs(n, 0): every GPU whose collected_at, as the agent wrote   *)
(* it, is less as a text than the server's local time.  A node that has    *)
(* reported since the list was read may keep some, and so may one whose    *)
(* clock or zone is ahead.                                                 *)
MarkStaleGPUs(n) ==
    /\ checker.pc = "mark"
    /\ n \in checker.todo
    /\ \E kept \in IF row[n].status = "offline" /\ n \notin ahead THEN {{}} ELSE SUBSET Gpus :
          gpu' = [gpu EXCEPT ![n] = [g \in Gpus |->
             IF @[g].status = "available" /\ g \notin kept
             THEN [@[g] EXCEPT !.status = "unavailable"]
             ELSE @[g]]]
    /\ checker' = [checker EXCEPT !.todo = @ \ {n}]
    /\ UNCHANGED <<site, row, agent, present, reg, leased, transfer, minted, bounds>>

(* The error of MarkStaleGPUs is dropped.                                  *)
MarkStaleFails(n) ==
    /\ checker.pc = "mark"
    /\ n \in checker.todo
    /\ faults < MaxFaults
    /\ faults' = faults + 1
    /\ checker' = [checker EXCEPT !.todo = @ \ {n}]
    /\ UNCHANGED <<site, row, gpu, agent, present, reg, leased, transfer, minted,
                   restarts, transfers>>

CheckerDone ==
    /\ checker.pc = "mark"
    /\ checker.todo = {}
    /\ checker' = [checker EXCEPT !.pc = "idle"]
    /\ UNCHANGED <<site, row, gpu, agent, present, reg, leased, transfer, minted, bounds>>

-----------------------------------------------------------------------------
(* Tenants.                                                                *)

(* Starts and ends of instances, as HandlePatchNodeTenant sees them.       *)
LeaseNode(n) ==
    /\ RowExists(n)
    /\ n \notin leased
    /\ leased' = leased \cup {n}
    /\ UNCHANGED <<site, row, gpu, agent, present, reg, checker, transfer, minted, bounds>>

ReleaseNode(n) ==
    /\ n \in leased
    /\ leased' = leased \ {n}
    /\ UNCHANGED <<site, row, gpu, agent, present, reg, checker, transfer, minted, bounds>>

(* The checks, before the transaction begins.                              *)
TransferCheck(n, t) ==
    /\ transfer = None
    /\ transfers < MaxTransfers
    /\ transfers' = transfers + 1
    /\ RowExists(n)
    /\ n \notin leased
    /\ transfer' = [node |-> n, tenant |-> t]
    /\ UNCHANGED <<site, row, gpu, agent, present, reg, checker, leased, minted,
                   restarts, faults>>

(* Mutant: the GPUs stay with the old tenant.                              *)
TransferCommit_KeepsGpus ==
    /\ transfer # None
    /\ row' = [row EXCEPT ![transfer.node].tenant =
                  IF RowExists(transfer.node) THEN transfer.tenant ELSE @]
    /\ transfer' = None
    /\ UNCHANGED <<site, gpu, agent, present, reg, checker, leased, minted, bounds>>

(* One transaction for the node, its GPUs and the audit entry.             *)
TransferCommit ==
    /\ transfer # None
    /\ row' = [row EXCEPT ![transfer.node].tenant =
                  IF RowExists(transfer.node) THEN transfer.tenant ELSE @]
    /\ gpu' = [gpu EXCEPT ![transfer.node] = [g \in Gpus |->
                  IF @[g].status = "none" THEN @[g]
                  ELSE [@[g] EXCEPT !.tenant = transfer.tenant]]]
    /\ transfer' = None
    /\ UNCHANGED <<site, agent, present, reg, checker, leased, minted, bounds>>

-----------------------------------------------------------------------------
(* The server.                                                             *)

(* A restart drops the requests in flight and what the checker was doing.  *)
ServerRestart ==
    /\ faults < MaxFaults
    /\ faults' = faults + 1
    /\ reg' = {}
    /\ checker' = [pc |-> "idle", todo |-> {}]
    /\ transfer' = None
    /\ UNCHANGED <<site, row, gpu, agent, present, leased, minted, restarts, transfers>>

(* Migrate refuses a database of another schema version: it is removed and *)
(* built anew, while the agents run.                                       *)
ResetDatabase ==
    /\ faults < MaxFaults
    /\ faults' = faults + 1
    /\ row' = [n \in Nodes |-> NoRow]
    /\ gpu' = [n \in Nodes |-> [g \in Gpus |-> NoGpu]]
    /\ reg' = {}
    /\ checker' = [pc |-> "idle", todo |-> {}]
    /\ leased' = {}
    /\ transfer' = None
    /\ UNCHANGED <<site, agent, present, minted, restarts, transfers>>

AgentNext ==
    \E n \in Nodes :
        \/ AgentStart(n)
        \/ AgentStop(n)
        \/ RegisterSend(n)
        \/ HandleHeartbeat(n)
        \/ HeartbeatUnheeded(n)
        \/ HandleResourceReport(n)

CheckerNext ==
    \/ MarkOfflineNodes
    \/ ListOffline
    \/ \E n \in Nodes : MarkStaleGPUs(n) \/ MarkStaleFails(n)
    \/ CheckerDone

TenantNext ==
    \/ \E n \in Nodes : LeaseNode(n) \/ ReleaseNode(n)
    \/ \E n \in Nodes, t \in Tenants : TransferCheck(n, t)
    \/ TransferCommit

Next ==
    \/ AgentNext
    \/ \E r \in reg : HandleRegister(r) \/ RegisterRefused(r)
    \/ \E g \in Gpus : GpuLost(g)
    \/ \E n \in Nodes : Age(n)
    \/ CheckerNext
    \/ TenantNext
    \/ ServerRestart
    \/ ResetDatabase

Spec == Init /\ [][Next]_vars

(* The agent's loops and tickers, the checker's ticker, and time.  Lost    *)
(* responses may repeat but not for ever.                                  *)
Fairness ==
    /\ \A n \in Nodes : /\ WF_vars(RegisterSend(n))
                        /\ WF_vars(HandleHeartbeat(n))
                        /\ WF_vars(HandleResourceReport(n))
                        /\ WF_vars(Age(n))
                        /\ WF_vars(MarkStaleGPUs(n))
                        /\ SF_vars(\E r \in reg : r.node = n /\ HandleRegister(r) /\ agent' = Registered(r))
                        /\ WF_vars(\E r \in reg : r.node = n /\ (HandleRegister(r) \/ RegisterRefused(r)))
    /\ WF_vars(MarkOfflineNodes)
    /\ WF_vars(ListOffline)
    /\ WF_vars(CheckerDone)

FairSpec == Spec /\ Fairness

-----------------------------------------------------------------------------
(* Properties.                                                             *)

(* A GPU row has the tenant of its node's row: reports copy it, and        *)
(* transfers move both in one transaction.                                 *)
GpuTenantFollowsNode ==
    \A n \in Nodes, g \in Gpus :
        gpu[n][g].status # "none" => gpu[n][g].tenant = row[n].tenant

(* An agent with a configured agent_id that stays up gets through          *)
(* registration; one that draws its id is refused after a restart.         *)
AgentRegisters ==
    \A n \in Nodes : (agent[n].pc = "registering" /\ configured[n] # None)
                        ~> (agent[n].pc # "registering")

(* No server restart, dropped statement or rebuilt database.               *)
Undisturbed == [](faults = 0)

(* The node of an agent that stays up is online again and again, unless    *)
(* the database was rebuilt under it.                                      *)
LiveNodeOnline ==
    Undisturbed => \A n \in Nodes :
        (<>[](agent[n].pc = "running")) => []<>(row[n].status = "online")

(* The GPUs of a node whose agent never comes back become unavailable,     *)
(* unless the one tick of the checker that looks at them fails, or the     *)
(* times the agent wrote are ahead of the server's: MarkStaleGPUs compares *)
(* them as texts.                                                          *)
DeadNodeGpusStale ==
    Undisturbed => \A n \in Nodes, g \in Gpus :
        (<>[](agent[n].pc = "down" /\ n \notin ahead)) => <>[](gpu[n][g].status # "available")

(* A GPU that disappears from a node with other GPUs becomes unavailable,  *)
(* and one that stays comes back after the checker took it for stale.      *)
ReportedGpusTrueToNode ==
    Undisturbed => \A g \in Gpus : LET n == Home[g] IN
        (<>[](agent[n].pc = "running")) =>
            /\ (<>[](present[n] \notin {{}} /\ g \notin present[n])) => <>[](gpu[n][g].status # "available")
            /\ ([](g \in present[n])) => []<>(gpu[n][g].status = "available")

(* GetMetricsTargets: the nodes that Prometheus is told to scrape.         *)
MetricsTargets == {n \in Nodes : RowExists(n)}

(* The invariant of the registry: types, and tenants that agree.           *)
RegistryInv == TypeOK /\ GpuTenantFollowsNode
=============================================================================
