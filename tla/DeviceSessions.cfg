SPECIFICATION Spec
CONSTANTS
    u1 = u1
    c1 = c1
    openid = openid
    offline = offline
    a1 = a1
    n1 = n1
    n2 = n2
    p1 = p1
    p2 = p2
    k1 = k1
    t1 = t1
    t2 = t2
    Codes = {k1}
    Tokens = {t1, t2}
    s1 = s1
    s2 = s2
    Sessions = {s1, s2}
    Users = {u1}
    Clients = {c1}
    Scopes = {openid, offline}
    Agents = {a1}
    Nets = {n1, n2}
    Public = {}
    Offline = offline
    Requests = {p1, p2}
    Consents <- TwoConsents
    Mishaps = {"expire", "crash", "delete"}
    From <- OneNet
SYMMETRY SymIds
INVARIANTS AnswersWithinConsent PkceHolds NoFork UnansweredKept
PROPERTIES StaysDead SignOutReaches
CHECK_DEADLOCK FALSE
