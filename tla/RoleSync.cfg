SPECIFICATION Spec
CONSTANTS
    u1 = u1
    u2 = u2
    r1 = r1
    r2 = r2
    p1 = p1
    p2 = p2
    q1 = q1
    q2 = q2
    w1 = w1
    w2 = w2
    Users = {u1, u2}
    Roles = {r1, r2}
    Permissions = {p1, p2}
    Requests = {q1, q2}
    Workers = {w1, w2}
    Defaults = {r1}
    Direct <- MCDirect
    MaxQueue = 3
    MaxRetries = 1
    MaxMishaps = 1
    MaxChanges = 2
SYMMETRY Interchangeable
INVARIANTS
    RolesSettle
PROPERTIES
    TasksKeepToTheirRole
CHECK_DEADLOCK FALSE
