\* The rate limiter with checks one after the other and two at a time; two requests on their way.
CONSTANTS
    None = None
    Invalid = Invalid
    Requests = {r1, r2}
    Addresses = {ip1, ip2}
    Tenants = {t1, t2}
    Users = {u1}
    Ids = {i1, i2}
    Window = 4
    Ttl = 5
    PerIp = 1
    PerTenant = 2
    MaxTime = 8
SPECIFICATION MCSpec
INVARIANTS
    BusyMillisecondsAreBounded
    SerialDecidesByTheWindow
    TenantIsOwn
    CorrelationIsKept
PROPERTIES
    RequestsAreAnswered
CHECK_DEADLOCK FALSE
