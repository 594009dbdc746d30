SPECIFICATION Spec
CONSTANTS
    Ids = {e1, e2, e3, e4, e5, e6}
    Savers = {s1, s2, s3}
    MaxQueue = 3
    NoId = NoId
SYMMETRY Symmetric
INVARIANTS
    TypeOK
    QueueBounded
    PopFinds
    QueuedIsStored
CHECK_DEADLOCK FALSE
