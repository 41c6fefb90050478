SPECIFICATION FairSpec
CONSTANTS
    None = None
    u1 = u1
    u2 = u2
    c1 = c1
    c2 = c2
    b1 = b1
    b2 = b2
    openid = openid
    email = email
    phone = phone
    Users = {u1}
    Browsers = {b1}
    Clients = {c1, c2}
    Scopes = {openid, email}
    FirstParty = {c2}
    Tabbed = {}
    Required = FALSE
    Enrolments <- AnyoneAlone
    Requests <- Asks
    Expiries = {"lock", "login"}
    MaxLogins = 2
    MaxSessions = 2
PROPERTIES
    SignInEnds
CHECK_DEADLOCK FALSE
