SPECIFICATION Spec
CONSTANTS
    Evidence = {1, 2, 3}
    Repos = {"r1", "r2"}
    RepoOf <- TwoAndOne
    Keywords = {"k1", "k2"}
    KeywordCount = 3
    Signals <- TypicalSignals
    Candidates = 2
    Limit = 2
    MaxRetries = 1
    MaxReviews = 1
    MaxRuns = 2
INVARIANTS TypeOK GraphIsHonest RejectedOnlyLate
PROPERTY LeftOutOnlyWhenCrowded
CHECK_DEADLOCK FALSE
