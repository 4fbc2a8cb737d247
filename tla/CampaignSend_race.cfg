SPECIFICATION Spec
CONSTANTS
    j1 = j1
    j2 = j2
    Leads = {1, 2}
    Jobs = {j1, j2}
    NoJob = NoJob
    DailyLimit = 2
    MonthlyLimit = 9
    AiLimit = 2
    PageSize = 2
    ApprovalRequired = FALSE
    InitDrafts = {"APPROVED"}
    UserStages = {}
    MaxDay = 1
    MaxClears = 1
    Env = {"clear", "crash", "fault", "reject", "research", "bounce"}
SYMMETRY JobSymmetry
INVARIANT ClaimHeld
INVARIANT OneMailPerClear
INVARIANT LedgerMatchesOutbox
PROPERTY ImplementsSendSlot
