SPECIFICATION Spec
CONSTANTS
    Ids = {i1}
    Digests = {d1, d2}
    Tasks = {t1, t2, t3}
    None = None
    TTL = 1
    MaxTime = 2
SYMMETRY Symmetry
INVARIANTS
    OneShot
    UsedAsApproved
    UsedInTime
PROPERTIES
    RefinesOneShot
