SPECIFICATION FairSpec
CONSTANTS
    Sockets = {s1}
    Calls = {c1, c2}
    NoSocket = NoSocket
    KeyTtl = 2
    TimerTtl = 2
    Debounce = 1
    Window = 2
    Limit <- MCLimit
    MaxWire = 1
CHECK_DEADLOCK FALSE
INVARIANTS TypingTypeOK StopHides
PROPERTIES OnlyExcessDisconnects IndicatorEnds
