SPECIFICATION Spec
CONSTANTS
    u1 = u1
    u2 = u2
    Users = {u1}
    Second = {}
    Refreshed = {}
    Tokens = {t1, t2}
    Owner <- OwnerOf
    Claim <- OneRefresh
    Procs = {p1, p2}
    MaxActive = 1
    MaxAttempts = 2
    Handlers = {"register", "invalidate", "logout"}
    TtlInSection = FALSE
    Faults = FALSE
    NoUser = NoUser
    NoToken = NoToken
    NoProc = NoProc
INVARIANT RevocationIsFinal
CHECK_DEADLOCK FALSE
