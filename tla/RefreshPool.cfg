\* Two threads, three tokens, one restart: the race window of a rotation.
SPECIFICATION Spec
CONSTANTS
    Workers = {w1, w2}
    Users = {ann}
    Jtis = {j1, j2, j3}
    NoJti = NoJti
    Unissued = Unissued
    RefreshLife = 2
    MaxTime = 3
    MaxRestarts = 1
SYMMETRY Interchangeable
INVARIANTS
    TypeOK
    OneSuccessorPerWorker
    UsedIsAccountedFor
    RotationExtends
PROPERTIES
    LogoutIsFinal
    SingleUseButForTheRace
CHECK_DEADLOCK FALSE
