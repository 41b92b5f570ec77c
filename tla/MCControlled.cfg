SPECIFICATION Spec
CONSTANTS
    Ids = {i1}
    Calls = {c1, c2}
    Workspaces = {w1}
    Args = {good, bad}
    Denied = {bad}
    Projects = {node, python}
    None = None
INVARIANTS
    RunsOnce
    RunsAsGranted
    RunsAsSelected
SYMMETRY Symmetry
