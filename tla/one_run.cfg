SPECIFICATION Spec
CONSTANTS
    Runs = {r1}
    NoName = NoName
    MaxGen = 1
    MaxPodID = 3
    MaxFailures = 2
    StuckPods = {3}
    SlowPods = {1}
    Evictable = {1}
    ClaimKinds = {"valid", "rejected"}
    StatusOrder <- ByName
    RetrySteps = 3
    MaxRestarts = 1
    LagBeyondInterval = FALSE
INVARIANTS TypeOK CopiesFaithful FinishedHasReport OnePodAtWork NoneForgotten
PROPERTIES StatusKept FollowsLifecycle
CHECK_DEADLOCK FALSE
