SPECIFICATION Spec
CONSTANTS
    f1 = f1
    f2 = f2
    Jobs = {f1, f2}
    Sweeper = Sweeper
    MaxAttempts = 2
    MaxFaults = 1
    Uploads = {"good", "bad"}
    Env = {"standing", "cancel", "crash", "fault"}
SYMMETRY FinaliserSymmetry
INVARIANT VerifiedIsStoredWhileEligible
PROPERTY FinalStatusKept
