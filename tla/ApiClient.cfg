SPECIFICATION FairSpec
CONSTANT Requests = {r1, r2, r3, r4}
INVARIANTS
    TypeOK
    OneRefresh
    SentTwice
PROPERTY RequestsSettle
CHECK_DEADLOCK FALSE
