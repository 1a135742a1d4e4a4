\* Are status changes validated when two requests overlap on one entry.
CONSTANTS
    EntryIds = {e1}
    Tenants = {t1, t2}
    Users = {u1, u2}
    t1 = t1
    t2 = t2
    u1 = u1
    u2 = u2
    NoUser = NoUser
    Contexts <- MCContexts
    Sessions = {s1, s2}
    Durations = {1, 2}
    EndTimes = {2}
    TicksPerMinute = 1
    Int4Max = 2
    MaxClock = 0
SPECIFICATION MCSpec
PROPERTIES TransitionsAreValidated
CHECK_DEADLOCK FALSE
