SPECIFICATION Spec
CONSTANTS
    Replies = {m1}
    Soft = {t1}
    Hard = {}
    NoId = {}
    Syncs = {s1}
    Window = 2
    Threshold = 3
    MaxEpochs = 1
    MaxFaults = 0
INVARIANTS
    SoftBounceCountedOnce
CHECK_DEADLOCK FALSE
