SPECIFICATION Spec
CONSTANTS
    u1 = u1
    u2 = u2
    Users = {u1}
    Second = {}
    Refreshed = {}
    Tokens = {t1, t2}
    Owner <- OwnerOf
    Claim <- OneRefresh
    Procs = {p1, p2}
    MaxActive = 2
    MaxAttempts = 2
    Handlers = {"register", "invalidate", "logout", "clear"}
    TtlInSection = FALSE
    Faults = FALSE
    NoUser = NoUser
    NoToken = NoToken
    NoProc = NoProc
VIEW WithPromises
SYMMETRY Symmetric
INVARIANTS
    TypeOK
    ListBounded
    
PROPERTY ImplementsSessions
CHECK_DEADLOCK FALSE
