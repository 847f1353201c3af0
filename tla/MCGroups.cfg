SPECIFICATION Spec
CONSTANTS
    Users = {u1, u2}
    Requests = {r1, r2}
    Nobody = Nobody
    FanOutThreshold = 2
    CacheTtl = 1
    MaxNow = 1
    MaxSends = 1
SYMMETRY MCSymmetry
INVARIANTS TypeOK FanOutIsRecent LastNoticeMatchesRow LastAdminGoesByOwnHand
CHECK_DEADLOCK FALSE
