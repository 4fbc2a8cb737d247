SPECIFICATION FairSpec
CONSTANTS
    j1 = j1
    Leads = {1}
    Jobs = {j1}
    NoJob = NoJob
    DailyLimit = 2
    MonthlyLimit = 9
    AiLimit = 1
    PageSize = 2
    ApprovalRequired = FALSE
    InitDrafts = {"NONE", "APPROVED", "TAINTED"}
    UserStages = {"DEAD"}
    MaxDay = 2
    MaxClears = 1
    Env = {"crash", "fault", "reject", "suppress", "stage", "reply", "mission", "lostRead", "review", "clear", "research", "bounce"}
INVARIANT AiLedgerBalanced
PROPERTY ClaimsSettle
