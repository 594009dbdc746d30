SPECIFICATION FairSpec
CONSTANTS
    Contents = {c0, c1, c2}
    empty = c0
    EmptyContents = {c0}
    Workers = {w1, w2}
    QueueCapacity = 1
    MaxAttempts = 2
    NoContent = NoContent
INVARIANTS
    TypeOK
    SuccessIsStored
    ReportedFails
PROPERTIES
    OutcomeIsFinal
    UploadsSettle
CHECK_DEADLOCK FALSE
