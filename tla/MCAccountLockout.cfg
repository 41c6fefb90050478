SPECIFICATION FairSpec
CONSTANTS
    l1 = l1
    l2 = l2
    a1 = a1
    Logins = {l1, l2}
    Admins = {a1}
    Ladder <- MCLadder
    MaxFailures = 6
INVARIANTS
    CountWithinFailures
    NeverLocksEarly
PROPERTIES
    LockEnds
