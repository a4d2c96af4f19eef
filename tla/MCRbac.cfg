SPECIFICATION Spec
CONSTANTS
    Users = {ua, ub}
    BootstrapAdmin = ua
    Tenants = {t1, t2}
    DefaultTenant = t1
    NewTenants = {t3}
    CustomRoles = {k1}
    Requests = {r1, r2}
    Workloads <- MCWorkloads
INVARIANTS RbacInv PlatformOnlyForPlatformAdmin
SYMMETRY Symmetry
CHECK_DEADLOCK FALSE
