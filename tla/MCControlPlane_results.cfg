SPECIFICATION Spec
CONSTANTS
    Deployments = {d1}
    Instances = {i1}
    Gpus = {g1}
    Nodes = {n1}
    NodeOf <- MCNodeOf
    GpuNode <- MCGpuNode
    Placements <- AutoPlacement
    MaxTasks = 2
    MaxFaults = 1
    ClaimLimit = 2
    StartReqs = {s1}
    StopReqs = {p1}
    Reports = {r1, r2}
    None = None
SYMMETRY Symmetry
INVARIANTS TypeOK LiveLeaseIsStoppable PendingHasStartTask
PROPERTIES LeaseNeverRevived TaskNeverReopened
