SPECIFICATION Spec
CONSTANTS
    Workers = {w1, w2}
    Requests = {r1, r2}
    Types <- Letters
    Shapes = {}
    Lengths = {0}
    MaxClaims = 0
    MaxRepairs = 2
    MaxFaults = 2
    MaxCancels = 1
CHECK_DEADLOCK FALSE
INVARIANT SecondDocumentNeedsCrash
PROPERTY RunEnds
PROPERTY ImplementsLife
