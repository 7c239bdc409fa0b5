SPECIFICATION Spec
CONSTANTS
    Runs = {r1}
    NoName = NoName
    MaxGen = 2
    MaxPodID = 2
    MaxFailures = 0
    StuckPods = {}
    SlowPods = {}
    Evictable = {}
    ClaimKinds = {"valid"}
    StatusOrder <- ByName
    RetrySteps = 5
    MaxRestarts = 0
    LagBeyondInterval = TRUE
INVARIANTS ReportIsOwn
CHECK_DEADLOCK FALSE
