SPECIFICATION Spec
CONSTANTS
    Requests <- TwoPresses
    MaxRuns = 2
    MaxReloads = 1
INVARIANTS TypeOK PageShowsItsOwn
PROPERTY GeneratingEnds
CHECK_DEADLOCK FALSE
