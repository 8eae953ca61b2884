SPECIFICATION Spec
CONSTANTS
    Clients = {c1, c2}
    Emails = {guest}
    Demo = guest
    Second = 2
    AccessLife = 2
    RefreshLife = 3
    MaxTime = 3
    MaxUsers = 2
    MaxLogins = 2
    MaxPairs = 3
CONSTRAINT NotForgotten
SYMMETRY Symmetry
INVARIANTS TypeOK LogoutEndsSession RefreshSpentOnce DemoSessionsAreDemo
CHECK_DEADLOCK FALSE
