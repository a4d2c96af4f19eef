SPECIFICATION FairSpec
CONSTANTS
    n1 = n1  a1 = a1  None = None
    Nodes = {n1}
    Gpus = {g1, g2}
    Home <- MCHome
    AgentIds = {a1, u1, u2}
    Uuids = {u1, u2}
    Configs <- MCConfigs
    Tenants = {t1, t2}
    DefaultTenant = t1
    MaxRestarts = 1
    MaxFaults = 1
    MaxTransfers = 1
INVARIANTS RegistryInv
PROPERTIES AgentRegisters LiveNodeOnline DeadNodeGpusStale ReportedGpusTrueToNode
