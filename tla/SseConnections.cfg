SPECIFICATION FairSpec
CONSTANTS
    u1 = u1
    Users = {u1}
    Emitters = {e1, e2, e3}
    Owner <- OneOwner
    Senders = {s1}
    ConnectThreads = 2
    MAX_CONNECTION = 2
    MaxSends = 1
    NoList = NoList
INVARIANTS
    TypeOK
    NoLeak
    OpenIsListed
    OverIsRePut
PROPERTY MapEmpties
CHECK_DEADLOCK FALSE
