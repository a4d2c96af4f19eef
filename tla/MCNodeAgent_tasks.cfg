SPECIFICATION FairSpec
CONSTANTS
    i1 = i1
    tStart = tStart
    tStop = tStop
    tLogs = tLogs
    Instances = {i1}
    TaskIds = {tStart, tStop, tLogs}
    Responses <- MCResponses
    Workers = {w1, w2}
    MaxResponses = 3
    MaxContainers = 2
INVARIANTS TypeOK ContainerAccounted
PROPERTIES CleanupSparesReported QueueDrains
