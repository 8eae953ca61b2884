SPECIFICATION Spec
CONSTANTS
    Users = {u1, u2}
    Captures = {c1, c2}
    Tabs = {t1, t2}
    Requests = {r1, r2}
    Stages = {saved, applied, screen}
    Saved = saved
CONSTRAINT Bounds
SYMMETRY Symmetry
INVARIANTS TypeOK ForgottenOnlyOnceStored PageSaysWhatIsStored OneApplicationPerJob BoardShowsServer
CHECK_DEADLOCK FALSE
