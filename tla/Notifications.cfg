SPECIFICATION Spec
CONSTANTS
    u1 = u1
    Users = {u1, u2}
    Messages = {m1}
    RoleChanges = {c1}
    Failures = {f1}
    Author <- WrittenBy
    Target <- ChangedOf
    Admins = {u2}
    MaxDeliveries = 2
    Joiners = {u2}
    Readers = {u1}
    MaxRequests = 2
    MaxEvents = 1
    MaxRestarts = 1
    MaxRedeliveries = 1
    MaxFaults = 1
    NoList = NoList
INVARIANTS
    TypeOK
    OnlyCommitted
    NotifiedOnce
    SentIsStored
CHECK_DEADLOCK FALSE
