SPECIFICATION FairSpec
CONSTANTS
    Keys = {k1, k2}
    NoKey = NoKey
    Requests = {r1, r2}
    People = {p1}
    MaxAttempts = 2
    MaxFaults = 2
    Replies = {m1}
    Soft = {}
    Hard = {b1}
    NoId = {b1}
    Syncs = {s1, s2}
    Window = 1
    Threshold = 2
    MaxEpochs = 2
    MailFaults = 1
    Tabs = {t1, t2}
    UploadAttempts = 2
    MaxReinits = 2
    UploadFaults = 3
    Names = {n1, n2}
    Bodies = {x1, x2}
    Appenders = {a1, a2}
    MaxTries = 2
    MaxSeq = 2
    Quotes = {q1, q2}
    NoQuote = NoQuote
    Sites = {w1, w2}
    NoSite = NoSite
    Calls = {c1, c2}
    Shifts = {f1}
    Crew = {g1}
    Closers = {d1, d2}
    MaxVersion = 2
    MaxHours = 2
INVARIANTS
    OneReplyPerKey
    OneSendPerThread
    SentIsInTheLedger
    
    AnalysedOnce
    RecordedBounceActs
    PhotoKept
    ChainIntact
    RecordedStands
    JobOnAcceptedQuote
    LabourHasAJob
    LabourIsAccounted
    CloseoutHistoryKept
PROPERTIES
    
    PhotoSettles
CHECK_DEADLOCK FALSE
