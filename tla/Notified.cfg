SPECIFICATION FairSpec
CONSTANTS
    u1 = u1
    Users = {u1, u2}
    Messages = {m1}
    RoleChanges = {c1}
    Failures = {f1}
    Author <- WrittenBy
    Target <- ChangedOf
    Admins = {u2}
    MaxDeliveries = 2
    Joiners = {u2}
    Readers = {u1}
    MaxRequests = 1
    MaxEvents = 1
    MaxRestarts = 1
    MaxRedeliveries = 0
    MaxFaults = 1
    NoList = NoList
PROPERTIES
    
    CacheCatchesUp
CHECK_DEADLOCK FALSE
