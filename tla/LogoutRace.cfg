\* Two threads, no restart: does logout end the session?
SPECIFICATION Spec
CONSTANTS
    Workers = {w1, w2}
    Users = {ann}
    Jtis = {j1, j2, j3}
    NoJti = NoJti
    Unissued = Unissued
    RefreshLife = 2
    MaxTime = 3
    MaxRestarts = 0
SYMMETRY Interchangeable
PROPERTY LogoutEndsSession
CHECK_DEADLOCK FALSE
