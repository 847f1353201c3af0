SPECIFICATION Spec
CONSTANTS
    Sessions = {s1, s2}
    Users = {alice}
    Requests = {r1, r2}
    NoSession = NoSession
    Second = 2
    AccessTtl = 4
    RefreshTtl = 3
    MaxNow = 4
SYMMETRY MCSymmetry
CHECK_DEADLOCK FALSE
INVARIANTS TypeOK EndedIsRejected BlacklistTracksExpiry
PROPERTIES SpentStaysSpent ImplementsRegistry
