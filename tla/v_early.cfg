SPECIFICATION FairSpec
CONSTANTS
    Runs = {r1}
    NoName = NoName
    MaxGen = 1
    MaxPodID = 1
    MaxFailures = 0
    StuckPods = {}
    SlowPods = {}
    Evictable = {}
    ClaimKinds = {"valid"}
    StatusOrder <- ByName
    RetrySteps = 5
    MaxRestarts = 0
    LagBeyondInterval = FALSE
PROPERTIES EarlyFailureIsNoticed
CHECK_DEADLOCK FALSE
