SPECIFICATION Spec
CONSTANTS
    Workers = {w1, w2}
    Runs = {s1, s2}
    NumPaths = 2
    Contents = {a, b}
    Absent = Absent
    Claims = {k1}
    SyncRetries = 2
    ExtractRetries = 1
    MaxPushes = 1
    MaxReviews = 0
    MaxFaults = 1
    MaxDisconnects = 0
SYMMETRY Symmetry
INVARIANTS TypeOK ArtifactsReachExtraction OneLiveRowPerClaim LiveEvidenceIsCurrent
CHECK_DEADLOCK FALSE
