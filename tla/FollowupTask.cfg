SPECIFICATION FairSpec
CONSTANTS
    Workers = {w1, w2}
    MaxStep = 3
    Delay = 2
    Gap = 1
    MaxDay = 5
    MaxClears = 1
    MaxDefers = 1
    MaxQueued = 2
    FollowupEnv = {"reply", "bounce", "optout", "control", "clear", "crash", "fault", "defer"}
INVARIANTS
    OneMailPerStep
    SequenceStopsAfterReply
    SequenceSpaced
PROPERTIES
    FollowupsImplementSendSlot
    TasksSettle
CHECK_DEADLOCK FALSE
