SPECIFICATION Spec
CONSTANTS
    Workers = {w1, w2}
    Runs = {s1, s2}
    NumPaths = 1
    Contents = {a, b}
    Absent = Absent
    Claims = {k1}
    SyncRetries = 2
    ExtractRetries = 1
    MaxPushes = 0
    MaxReviews = 1
    MaxFaults = 1
    MaxDisconnects = 1
PROPERTY SyncRunSettles
CHECK_DEADLOCK FALSE
