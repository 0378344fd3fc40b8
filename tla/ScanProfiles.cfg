\* As ScanAnalysis.cfg: the roles of instances against what the mapper says of them.
SPECIFICATION Spec
CONSTANTS
    None = None
    Null = Null
    NoAction = NoAction
    Ids <- MCIds
    Paths <- MCPaths
    Values <- MCValues
    Anywhere = "0.0.0.0/0"
    Empty = ""
    Arns = {"arn:pol"}
    Profiles = {"pr1", "pr2"}
    Rules <- MCRules
    Holds <- MCHolds
    Jitter <- MCJitter
    ComplianceMap <- MCComplianceMap
    Internet = "internet"
    ArnName <- MCArnName
    Rank <- MCRank
    Cutoff = 5
    MaxPaths = 1
    Actions = {"s3:*", "s3:GetObject"}
    Worlds = {"early", "later"}
    Account <- MCAccount
    MaxDrift = 1
    MaxFailures = 1
    Files = {"aws", "null", "aliased", "deep"}
    Content <- MCContent
    MaxDepth = 2
    MaxUploads = 2
INVARIANT
    AssumedRolesAreLinked
CHECK_DEADLOCK FALSE
