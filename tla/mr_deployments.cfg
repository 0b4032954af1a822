SPECIFICATION Spec
CONSTANTS
    Caller = {c1}
    Version = {v1}
    DeploymentId = {1, 2}
    InstanceId = {1, 2}
    StartMaxAttempts = 2
    StartOutcomes = {"RUNNING", "FAILED", "RAISES"}
    LoadOutcomes = {"LOADED", "RAISES"}
    None = None
    c1 = c1
    v1 = v1
PROPERTIES
    RevokeReachesDeployments
CHECK_DEADLOCK FALSE
