SPECIFICATION Spec
CONSTANTS
    u1 = u1
    u2 = u2
    w1 = w1
    w2 = w2
    q1 = q1
    q2 = q2
    ann = ann
    bob = bob
    None = None
    Users = {u1, u2}
    Addresses = {ann, bob}
    Words = {w1, w2}
    Lower <- MCLower
    Requests = {q1, q2}
    MaxHashes = 3
    MaxStarts = 3
SYMMETRY Interchangeable
INVARIANTS
    TypeOK
    VerifiedMeansProved
    LinkIsSpent
    PasswordIsNewest
CHECK_DEADLOCK FALSE
