SPECIFICATION Spec
CONSTANTS
    Runs = {r1, r2}
    NoName = NoName
    MaxGen = 2
    MaxPodID = 2
    MaxFailures = 1
    StuckPods = {1, 2}
    SlowPods = {}
    Evictable = {}
    ClaimKinds = {}
    StatusOrder <- ByName
    RetrySteps = 2
    MaxRestarts = 0
    LagBeyondInterval = TRUE
SYMMETRY Symmetry
INVARIANTS DeletesOwnPod
CHECK_DEADLOCK FALSE
