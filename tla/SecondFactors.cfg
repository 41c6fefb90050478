SPECIFICATION Spec
CONSTANTS
    x1 = x1
    x2 = x2
    c1 = c1
    c2 = c2
    k1 = k1
    r1 = r1
    r2 = r2
    Requests = {r1, r2}
    Secrets = {x1, x2}
    Codes = {c1, c2}
    Passkeys = {k1}
    NumCodes = 2
    Mishaps = {"crash", "lost_key"}
SYMMETRY Interchangeable
INVARIANTS
    ConfirmedWasProved
    OnceEach
    TogglingHeals
PROPERTIES
    GoneForGood
CHECK_DEADLOCK FALSE
