SPECIFICATION Spec
CONSTANTS
    Calls = {c1, c2}
CHECK_DEADLOCK FALSE
INVARIANTS
    ActiveCounted
    DrainedIsQuiet
    RowMatchesReply
    HandlesResolve
PROPERTIES
    ShutdownEnds
