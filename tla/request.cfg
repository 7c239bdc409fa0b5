SPECIFICATION Spec
CONSTANTS
    ConfigMaps = {"config"}
    Secrets = {"secret"}
    Timeouts = {"short", "largest", "soon"}
    Parsed <- MCParsed
    Default = 1
    Guard = 1
    MaxDuration = 3
    MaxChanges = 2
INVARIANTS TypeOK StartsWithFiles RefusedForCause AdmittedDeploys StopsWhenShown
PROPERTIES OverrunIsNoticed EndIsShown StartsUnlessMissing
CHECK_DEADLOCK FALSE
