SPECIFICATION HooksSpec
CONSTANTS
    e1 = e1
    w1 = w1
    w2 = w2
    t1 = t1
    Events = {e1}
    Hooks = {w1, w2}
    Types = {t1}
    MaxAttempts = 1
    MaxCrashes = 1
    MaxChanges = 1
CONSTRAINT ChangesFirst
INVARIANTS
    LogIsComplete
PROPERTIES
    PostsAreAimed
    EventsAreTold
CHECK_DEADLOCK FALSE
