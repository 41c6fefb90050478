SPECIFICATION Spec
CONSTANTS
    u1 = u1
    u2 = u2
    o1 = o1
    s1 = s1
    s2 = s2
    f1 = f1
    q1 = q1
    q2 = q2
    ann = ann
    bob = bob
    None = None
    Users = {u1, u2}
    OAuthAccounts = {o1}
    Sessions = {s1, s2}
    Flows = {f1}
    Addresses = {ann, bob}
    Requests = {q1, q2}
SYMMETRY Interchangeable
INVARIANTS
    TypeOK
    LinkedForGood
    OneUserEach
CHECK_DEADLOCK FALSE
