SPECIFICATION Spec
CONSTANTS
    Runs = {r1, r2}
    NoName = NoName
    MaxGen = 1
    MaxPodID = 2
    MaxFailures = 0
    StuckPods = {}
    SlowPods = {}
    Evictable = {}
    ClaimKinds = {}
    StatusOrder <- ByName
    RetrySteps = 2
    MaxRestarts = 1
    LagBeyondInterval = TRUE
INVARIANTS DeletesOnlyOwnPod
CHECK_DEADLOCK FALSE
