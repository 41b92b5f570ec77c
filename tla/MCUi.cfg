SPECIFICATION Spec
CONSTANTS
    r = r
    h = h
    Rows = {r}
    Handles = {h}
    NoRow = NoRow
    MaxTime = 2
    Lifetimes = {1}
    Calls = {1, 2}
    Writers = {1, 2}
    Pinned = TRUE
    Keys <- LimitKeys
    RATE = 1
    WINDOW = 2
    Requests <- ByCall
INVARIANTS
    TypeOK
    UseAuthorized
    PassedIsEarned
    HandleLeadsToImage
    GdiReturned
    RateHeld
