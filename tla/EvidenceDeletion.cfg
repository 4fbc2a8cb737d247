SPECIFICATION DeletionSpec
CONSTANTS
    Holds = {h1}
    Env = {"backup", "close", "crash", "fault", "restore"}
    HoldsEnv = {"hold", "unledgered", "expire", "retain", "crash", "fault", "restore"}
    MaxRequests = 2
    MaxFaults = 1
    MaxRestores = 1
INVARIANTS
    LossIsRecorded
    HoldGuards
    CompletedIsGone
PROPERTIES
    DeletionEnds
CHECK_DEADLOCK FALSE
