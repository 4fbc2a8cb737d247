SPECIFICATION Spec
CONSTANTS
    j1 = j1
    j2 = j2
    Leads = {1}
    Jobs = {j1, j2}
    NoJob = NoJob
    DailyLimit = 2
    MonthlyLimit = 9
    AiLimit = 1
    PageSize = 2
    ApprovalRequired = FALSE
    InitDrafts = {"APPROVED"}
    UserStages = {}
    MaxDay = 1
    MaxClears = 0
    Env = {"fault", "reject"}
SYMMETRY JobSymmetry
INVARIANT FailedMeansRejected
