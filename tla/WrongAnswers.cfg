SPECIFICATION CountsSpec
CONSTANTS
    l1 = l1
    v1 = v1
    v2 = v2
    v3 = v3
    Logins = {l1}
    Admins = {}
    Ladder <- MCLadder
    MaxFailures = 9
    Visits = {v1, v2, v3}
    MaxAttempts = 2
    MaxCounted = 3
CONSTRAINT OneCount
SYMMETRY Interchangeable
INVARIANTS
    BudgetBounds
    BudgetLocks
PROPERTY
    ImplementsPolicy
CHECK_DEADLOCK FALSE
