\* Requests on one entry, one after the other or two at a time.
CONSTANTS
    EntryIds = {e1}
    Tenants = {t1, t2}
    Users = {u1, u2}
    t1 = t1
    t2 = t2
    u1 = u1
    u2 = u2
    NoUser = NoUser
    Contexts <- MCContexts
    Sessions = {s1, s2}
    Durations = {1, 2}
    EndTimes = {0, 2, 3}
    TicksPerMinute = 1
    Int4Max = 2
    MaxClock = 2
SPECIFICATION MCSpec
INVARIANTS
    TypeOK
    TrailExplainsStatus
    TrailStartsWithSubmission
    TrailDisorderIsBounded
PROPERTIES
    SerialWorkflow
CHECK_DEADLOCK FALSE
