SPECIFICATION Spec
CONSTANTS
    None = None
    u1 = u1
    u2 = u2
    c1 = c1
    c2 = c2
    b1 = b1
    b2 = b2
    openid = openid
    email = email
    phone = phone
    Users = {u1, u2}
    Browsers = {b1, b2}
    Clients = {c1, c2}
    Scopes = {openid, email, phone}
    FirstParty = {c2}
    Tabbed = {b1, b2}
    Required = FALSE
    Enrolments <- Anyone
    Requests <- Overlapping
    Expiries = {"lock", "challenge", "session", "login"}
    MaxLogins = 3
    MaxSessions = 2
CONSTRAINT SharedOrAlone
SYMMETRY Interchangeable
INVARIANTS
    PendingProvedPassword
    FactorFollowsPassword
    RecoveryEvicts
    ConsentCovers
CHECK_DEADLOCK FALSE
