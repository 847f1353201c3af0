SPECIFICATION FairSpec
CONSTANTS
    Sockets = {s1, s2}
    Convs = {v1}
INVARIANTS TypeOK SequencesSettle
PROPERTIES GoneIsRecorded
CHECK_DEADLOCK FALSE
