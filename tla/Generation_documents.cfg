SPECIFICATION Spec
CONSTANTS
    Workers = {w1}
    Requests = {r1}
    Types <- Both
    Shapes <- FewShapes
    Lengths = {1, 2}
    MaxClaims = 2
    MaxRepairs = 2
    MaxFaults = 0
    MaxCancels = 0
CHECK_DEADLOCK FALSE
INVARIANT TypeOK
INVARIANT UnbackedUnitsAreGone
INVARIANT ExportedIsUnhurt
