SPECIFICATION Spec
CONSTANTS
    Deployments = {d1}
    Instances = {i1}
    Gpus = {g1}
    Nodes = {n1}
    NodeOf <- MCNodeOf
    GpuNode <- MCGpuNode
    Placements <- AutoPlacement
    MaxTasks = 2
    MaxFaults = 0
    ClaimLimit = 1
    StartReqs = {s1}
    StopReqs = {p1}
    Reports = {r1}
    None = None
PROPERTIES SupersededStartRejected
