SPECIFICATION Spec
CONSTANTS
    Artifacts = {a1, a2}
    Locations = {l1, l2}
    Roots = {x1, x2}
    Deployments = {d1}
    Names = {n1, n2}
    NodeTenant = "t1"
    Users <- MCUsers
    ModelDir <- MCModelDir
    PlainDirs <- MCPlainDirs
    Links <- MCLinks
    ServerDirs <- MCServerDirs
    Requests = {r1, r2}
    Workloads <- MCWorkloads
    DirsOf <- MCDirsOf
INVARIANTS LibraryInv ScanSound RegisteredAsScanned OnlyDeployableStarts
PROPERTIES TenantConfined WritesSound
SYMMETRY Symmetry
CHECK_DEADLOCK FALSE
