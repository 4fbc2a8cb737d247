SPECIFICATION Spec
CONSTANTS
    Holds = {h1}
    Env = {"hold", "crash", "fault"}
    MaxRequests = 1
    MaxFaults = 1
    MaxRestores = 0
INVARIANT HoldStopsDeletion
CHECK_DEADLOCK FALSE
