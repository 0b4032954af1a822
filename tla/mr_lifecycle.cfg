SPECIFICATION Spec
CONSTANTS
    Caller = {c1}
    Version = {v1, v2}
    DeploymentId = {1}
    InstanceId = {1, 2}
    StartMaxAttempts = 2
    StartOutcomes = {"RUNNING", "FAILED", "RAISES"}
    LoadOutcomes = {"LOADED", "RAISES"}
    None = None
    c1 = c1
    v1 = v1
    v2 = v2
INVARIANTS
    AtMostOneRunning
    RunningIsTracked
    RetriesBounded
PROPERTIES
    RevokedIsFinal
    HealthyIsExact
    FillsSlots

CHECK_DEADLOCK FALSE
