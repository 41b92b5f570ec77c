SPECIFICATION Spec
CONSTANTS
    Procs = {p1}
    Maximum = 1
    MaxOutput = 2
    MaxCrashes = 2
CHECK_DEADLOCK FALSE
INVARIANTS
    ExitedIsDead
    DiesWithServer
    ExitCodeMeansLog
PROPERTIES
    ExitIsFinal
    
