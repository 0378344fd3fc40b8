\* Two threads, no restart: is a token refreshed once?
SPECIFICATION Spec
CONSTANTS
    Workers = {w1, w2}
    Users = {ann}
    Jtis = {j1, j2, j3}
    NoJti = NoJti
    Unissued = Unissued
    RefreshLife = 2
    MaxTime = 3
    MaxRestarts = 0
SYMMETRY Interchangeable
INVARIANT RefreshedOnce
CHECK_DEADLOCK FALSE
