SPECIFICATION LimitsSpec
CONSTANTS
    j1 = j1
    j2 = j2
    Leads = {1, 2}
    Jobs = {j1, j2}
    NoJob = NoJob
    DailyLimit = 2
    MonthlyLimit = 9
    AiLimit = 2
    PageSize = 2
    ApprovalRequired = TRUE
    InitDrafts = {"DRAFTED", "TAINTED"}
    UserStages = {}
    MaxDay = 1
    MaxClears = 1
    Env = {"review", "mission"}
    CapsEnv = {"reject", "bounce"}
    CapsLeads = {1, 2, 3}
    CapsDrafts = {"APPROVED"}
    Handlers = {h1, h2}
    Subs = {u1, u2}
    NoSub = NoSub
    MaxEvents = 3
    MaxFaults = 1
    Processes = {v1, v2}
    Calls = {z1, z2}
    FailLimit = 2
    MaxOutages = 2
SYMMETRY JobSymmetry
INVARIANTS
    PauseOverrunBounded
    OnlyReviewedCopyLeaves
    DailyCapKept
    MonthlyCeilingKept
    BillingFollowsStripe
    ProbeHasACaller
CHECK_DEADLOCK FALSE
