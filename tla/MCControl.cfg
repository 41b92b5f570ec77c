SPECIFICATION Spec
CONSTANTS
    i = i
    j = j
    k = k
    v = v
    w = w
    Agents = {a, b, c}
    Roots = {p, q}
    Ids = {i, j, k}
    Other = Other
    Vars = {v, w}
    Environ = {w}
    Patches <- SomePatches
    Origins = {"http://127.0.0.1", "http://127.0.0.1:7890"}
    OriginAllowlist = {"http://127.0.0.1", "http://localhost"}
    Missing = Missing
    Torn = Torn
    Absent = Absent
SYMMETRY Symmetry
INVARIANTS
    SettingsKept
    IdsPerRival
    EnvAsGranted
