SPECIFICATION MCFairSpec
CONSTANTS
    Caller = {c1, c2}
    Version = {v1}
    DeploymentId = {1}
    InstanceId = {1}
    StartMaxAttempts = 1
    StartOutcomes = {"RUNNING", "FAILED"}
    LoadOutcomes = {"LOADED"}
    None = None
    c1 = c1
    c2 = c2
    v1 = v1
INVARIANT LedgerBeforeRecord
 

CHECK_DEADLOCK FALSE
