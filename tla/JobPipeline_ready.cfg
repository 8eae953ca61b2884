SPECIFICATION Spec
CONSTANTS
    Workers = {w1, w2}
    Requests = {r1, r2}
    Texts = {t1, t2}
    Evidence = {e1, e2}
    MaxRetries = 1
    MaxFaults = 1
    MaxCancels = 1
SYMMETRY Symmetry
CONSTRAINT NoCoverageOverlap
INVARIANTS ReadyMeansJudged OneMatchPerRequirement
CHECK_DEADLOCK FALSE
