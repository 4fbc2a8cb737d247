SPECIFICATION FairSpec
CONSTANTS
    f1 = f1
    Jobs = {f1}
    Sweeper = Sweeper
    MaxAttempts = 2
    MaxFaults = 2
    Uploads = {"good", "bad"}
    Env = {"standing", "cancel", "crash", "fault"}
PROPERTY RawUploadGone
PROPERTY PendingSettles
