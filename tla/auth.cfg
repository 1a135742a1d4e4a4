\* Tokens with requests one after the other and two at a time; the directory.
CONSTANTS
    Users = {u1}
    None = None
    TokenIds = {1, 2, 3, 4}
    ResetIds = {q1}
    Secrets = {c1}
    Passwords = {w1, w2}
    Sessions = {s1, s2}
    StoreLogin = TRUE
    HandOut = TRUE
    TenantIds = {1, 2}
    UserIds = {1, 2}
    RoleIds = {1, 2, 3}
    Slugs = {"acme"}
    Emails = {"a", "b"}
    Permissions = {"read", "write"}
    OtherRoles = {}
    CustomRoles = {"custom"}
SPECIFICATION MCSpec
SYMMETRY MCSymmetry
INVARIANTS
    AuthTypeOK
    SpentTokensStayDead
    SerialOneLiveTokenPerFamily
    ResetUsesAreBounded
    SystemRolesStay
PROPERTIES
    SerialDeadFamiliesStayDead
CHECK_DEADLOCK FALSE
