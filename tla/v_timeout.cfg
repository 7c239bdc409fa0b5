SPECIFICATION FairSpec
CONSTANTS
    Runs = {r1}
    NoName = NoName
    MaxGen = 1
    MaxPodID = 1
    MaxFailures = 0
    StuckPods = {}
    SlowPods = {1}
    Evictable = {}
    ClaimKinds = {"valid"}
    StatusOrder <- ByName
    RetrySteps = 5
    MaxRestarts = 0
    LagBeyondInterval = FALSE
PROPERTIES TimeoutIsReported
CHECK_DEADLOCK FALSE
