SPECIFICATION Spec
CONSTANTS
    i1 = i1  u1 = u1  u2 = u2  n1 = n1
    Values = {i1, i2}
    SysVersions = {s1, s2}
    UserVersions = {uv}
    SysRuntimes = {t1}
    UserRuntimes = {u1, u2}
    Names = {n1, n2}
    Deployments = {d1}
    Requests = {r1, r2}
    Workloads <- MCWorkloads
INVARIANTS CatalogInv ReadyIsVerified DeployedImageWasFound
SYMMETRY Symmetry
CHECK_DEADLOCK FALSE
