\* Four requests, two threads, one connection.
SPECIFICATION FairSpec
CONSTANTS
    up = up
    cl = cl
    q1 = q1
    q2 = q2
    Reqs <- MCReqs
    Writers <- MCWriters
    Uploads <- MCUploads
    Threads = 2
    Connections = 1
    NoReq = NoReq
INVARIANTS
    TypeOK
    NothingLeaks
PROPERTIES
    EveryRequestIsAnswered
CHECK_DEADLOCK FALSE
