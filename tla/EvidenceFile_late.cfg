SPECIFICATION Spec
CONSTANTS
    f1 = f1
    f2 = f2
    Jobs = {f1, f2}
    Sweeper = Sweeper
    MaxAttempts = 2
    MaxFaults = 0
    Uploads = {"good"}
    Env = {"standing"}
INVARIANT VerifiedIsStored
