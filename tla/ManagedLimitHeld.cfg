SPECIFICATION Spec
CONSTANTS
    Procs = {p1, p2}
    Maximum = 1
    MaxOutput = 1
    MaxCrashes = 1
CHECK_DEADLOCK FALSE
INVARIANTS
    LimitHeld
