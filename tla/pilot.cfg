SPECIFICATION FairSpec
CONSTANTS
    FormationTasks <- OneTask
    FutureTasks <- FutureOne
    Commands <- Operator
    Candidate = {c1, c2}
    MaxRetries = 1
    MaxFailures = 2
    MaxCrashes = 1
    None = None
    Legacy = Legacy
    c1 = c1
    c2 = c2
INVARIANTS
    OneRunPerTask
    IntentAgrees
    SharedProposal
PROPERTIES
    GateIsFair
    
CHECK_DEADLOCK FALSE
