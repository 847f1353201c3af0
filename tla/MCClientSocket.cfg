SPECIFICATION FairSpec
CONSTANTS
    Sessions = {s1, s2}
    NoSession = NoSession
    Calls = {c1}
CHECK_DEADLOCK FALSE
PROPERTIES SocketComesBack
