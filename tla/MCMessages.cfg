SPECIFICATION Spec
CONSTANTS
    alice = alice
    bob = bob
    v1 = v1
    Msgs = {m1, m2}
    ClientIds = {c1}
    Convs = {v1}
    Users = {alice, bob}
    Texts = {t1, t2}
    Requests = {r1, r2}
    NoText = NoText
    Nobody = Nobody
    Author <- MCAuthor
    Target <- MCTarget
    Members <- MCMembers
    FanOutThreshold = 2
    EditWindow = 0
    MaxNow = 1
SYMMETRY MCSymmetry
INVARIANTS TypeOK SendsHappenOnce SettledViewIsRow
PROPERTIES ImplementsLog
CHECK_DEADLOCK FALSE
