SPECIFICATION Spec
CONSTANTS
    Workers = {w1, w2}
    Requests = {r1, r2}
    Texts = {t1}
    Evidence = {e1}
    MaxRetries = 1
    MaxFaults = 1
    MaxCancels = 0
INVARIANTS TypeOK BusyHasWork NoDuplicateRequirement
PROPERTY BusySettles
CHECK_DEADLOCK FALSE
