\* Allocations one request at a time, allocations two at a time, and leave requests.
CONSTANTS
    AllocIds = {a1, a2, a3}
    LeaveIds = {l1, l2}
    Tenants = {t1, t2}
    Users = {u1, u2, u3}
    Contexts <- MCContexts
    Sessions = {s1, s2}
    Days = {1, 2, 3}
    CreateBodies <- MCCreateBodies
    UpdateBodies <- MCUpdateBodies
    t1 = t1
    t2 = t2
    u1 = u1
    u2 = u2
    u3 = u3
SPECIFICATION MCSpec
SYMMETRY MCSymmetry
INVARIANTS
    ExcessIsBounded
    SerialNeverOverallocated
    DecisionIsVisible
CHECK_DEADLOCK FALSE
