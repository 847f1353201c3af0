SPECIFICATION FairSpec
CONSTANTS
    Sessions = {s1, s2, s3}
    NoSession = NoSession
    Calls = {c1, c2}
CHECK_DEADLOCK FALSE
INVARIANTS TypeOK RefreshKeepsSession
PROPERTIES CallsSettle
