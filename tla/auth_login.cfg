\* Sessions and router as deployed.
CONSTANTS
    Users = {u1}
    None = None
    TokenIds = {k1, k2}
    ResetIds = {r1}
    Secrets = {c1}
    Passwords = {p1, p2}
    Sessions = {s1}
    StoreLogin = FALSE
    HandOut = FALSE
SPECIFICATION Spec
INVARIANT IssuedTokensAreStored
CHECK_DEADLOCK FALSE
