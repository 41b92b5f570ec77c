SPECIFICATION Spec
CONSTANTS
    Calls = {c1, c2, c3}
    MaxConcurrent = 2
INVARIANTS
    Counted
    ChildrenBounded
    ResultComplete
PROPERTIES
    RefinesSlots
    Answered
    RunEndsUnlessHeld
