SPECIFICATION FairSpec
CONSTANTS
    Runs = {r1}
    NoName = NoName
    MaxGen = 1
    MaxPodID = 2
    MaxFailures = 0
    StuckPods = {}
    SlowPods = {1}
    Evictable = {}
    ClaimKinds = {"valid"}
    StatusOrder <- ByName
    RetrySteps = 5
    MaxRestarts = 2
    LagBeyondInterval = FALSE
PROPERTIES EndsAreNoticed GetsItsPod
CHECK_DEADLOCK FALSE
