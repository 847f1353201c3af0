SPECIFICATION Spec
CONSTANTS
    Fetches = {f1, f2}
    Tabs = {a, b}
    BatchSize = 2
    LowThreshold = 1
    MaxBatches = 2
    MaxId = 6
SYMMETRY MCSymmetry
INVARIANTS TypeOK PoolIsUnspent FirstMessagesDecrypt
CHECK_DEADLOCK FALSE
