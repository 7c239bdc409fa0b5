SPECIFICATION FairSpec
CONSTANTS
    Plugins = {p1}
    NoName = NoName
    Last = 2
    MaxGen = 1
    MaxFailures = 1
    MaxRestarts = 0
PROPERTIES RemovedInTheEnd
CHECK_DEADLOCK FALSE
