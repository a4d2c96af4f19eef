SPECIFICATION Spec
CONSTANTS
    ua = ua  ub = ub  t1 = t1  t2 = t2
    Users = {ua, ub, uc}
    BootstrapAdmin = ua
    Registered = {ua, ub}
    Admins = {ua}
    Tenants = {t1, t2}
    Members <- MCMembers
    SessionIds = {s1, s2}
    Requests = {r1, r2}
    Workloads <- MCWorkloads
    Idle = 2
    Refresh = 1
INVARIANTS SessionsInv OldPasswordLocksOut SlidingWindow
PROPERTIES EndedStaysEnded
SYMMETRY Symmetry
CHECK_DEADLOCK FALSE
