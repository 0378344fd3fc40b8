\* A live scan and its readers, nothing failing: does PASS mean what it says?
SPECIFICATION Spec
CONSTANTS
    ann = ann
    bob = bob
    q1 = q1
    q2 = q2
    q3 = q3
    Users = {ann}
    Admins = {ann}
    Ops = {"cloud", "list", "compliance"}
    Reqs <- MCReqs
    ScanIds = {s1, s2, s3}
    Missing = Missing
    r1 = r1
    r2 = r2
    Rules <- MCRules
    Mapped <- MCRules
    Batches <- MCBatches
    NoScan = NoScan
    NoReq = NoReq
    MaxFaults = 0
INVARIANT PassMeansNoFinding
CHECK_DEADLOCK FALSE
