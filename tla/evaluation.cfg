SPECIFICATION MCSpec
CONSTANTS
    Tool = {"read", "write", "delete"}
    Judge = {"j1", "j2"}
    Records <- RecordsVal
    Tasks <- TasksVal
    Oracles <- OraclesVal
    Payloads <- PayloadsVal
    t1 = t1
    t2 = t2
    Task = {t1, t2}
    Change = {"change"}
    Grades <- GradesVal
    MaxRuns = 1
    MaxDecisions = 1
    CaseOrder <- CaseOrderVal
    Stratum <- StratumVal
    Rounds <- RoundsVal
    SuspectOrder <- SuspectOrderVal
    Repeats = 1
    History <- HistoryVal
    MaxReplacements = 1
    ZSquared = 100
    MaxCampaigns = 1
    Gold <- GoldVal
    Observations <- ObservationsVal
    MinSuccess = 2
    MaxRows <- MaxRowsVal
    MaxRepeats = 2
    MaxSaved = 2
INVARIANTS
    JudgesCannotAcquit
    PromotedIsClean
    
    ScoredPlansAgree
    

CHECK_DEADLOCK FALSE
