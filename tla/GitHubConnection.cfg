SPECIFICATION Spec
CONSTANTS
    Requests = {r1, r2, r3}
    first = first
    second = second
    Accounts = {first, second}
    Repos = {"p", "q"}
    Access <- OwnRepos
    MaxCallbacks = 2
    MaxStores = 2
CONSTRAINT NoRace
SYMMETRY Symmetry
INVARIANTS TypeOK RepositoriesComeFromConnection SelectionIsKept
CHECK_DEADLOCK FALSE
