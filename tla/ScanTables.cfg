\* Uploads, live scans and reads of two accounts that contend for the event loop, with one failure or crash.
SPECIFICATION MCSpec
CONSTANTS
    ann = ann
    bob = bob
    q1 = q1
    q2 = q2
    q3 = q3
    Users <- MCUsers
    Admins = {ann}
    Ops = {"upload", "cloud", "list", "compliance"}
    Reqs <- MCReqs
    ScanIds = {s1, s2}
    Missing = Missing
    r1 = r1
    r2 = r2
    Rules <- MCRules
    Mapped = {r1}
    Batches <- MCBatches
    NoScan = NoScan
    NoReq = NoReq
    MaxFaults = 1
INVARIANTS
    TypeOK
    AcknowledgedIsStored
    StoredByOneRequest
    OnlyTheOwnerIsTold
    RefusalsAreAudited
    UploadsAreSeenWhole
PROPERTIES
    UploadsAreAtomic
    EveryRequestEnds
CHECK_DEADLOCK FALSE
