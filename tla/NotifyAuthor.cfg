SPECIFICATION Spec
CONSTANTS
    u1 = u1
    Users = {u1, u2}
    Messages = {m1}
    RoleChanges = {c1}
    Failures = {f1}
    Author <- WrittenBy
    Target <- ChangedOf
    Admins = {u2}
    MaxDeliveries = 2
    Joiners = {u2}
    Readers = {u1}
    MaxRequests = 0
    MaxEvents = 1
    MaxRestarts = 0
    MaxRedeliveries = 0
    MaxFaults = 0
    NoList = NoList
INVARIANT
    AuthorSpared
CHECK_DEADLOCK FALSE
