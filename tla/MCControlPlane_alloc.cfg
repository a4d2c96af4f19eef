SPECIFICATION Spec
CONSTANTS
    Deployments = {d1}
    Instances = {i1, i2}
    Gpus = {g1, g2}
    Nodes = {n1}
    NodeOf <- MCNodeOf
    GpuNode <- MCGpuNode
    Placements <- AllOrAuto
    MaxTasks = 3
    MaxFaults = 0
    ClaimLimit = 1
    StartReqs = {s1, s2}
    StopReqs = {}
    Reports = {r1}
    None = None
SYMMETRY Symmetry
INVARIANTS LeaseExclusive NoOrphanRows
PROPERTIES ImplementsAllocator
