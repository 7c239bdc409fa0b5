SPECIFICATION FairSpec
CONSTANTS
    Plugins = {p1}
    NoName = NoName
    Last = 3
    MaxGen = 2
    MaxFailures = 1
    MaxRestarts = 1
INVARIANTS TypeOK StatusTells SettledMeansDone
PROPERTIES AllCreated AllRemoved
CHECK_DEADLOCK FALSE
