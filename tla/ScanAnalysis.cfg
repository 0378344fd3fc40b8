\* One scan, two states of the account, one change, two uploads.
SPECIFICATION FairSpec
CONSTANTS
    None = None
    Null = Null
    NoAction = NoAction
    Ids <- MCIds
    Paths <- MCPaths
    Values <- MCValues
    Anywhere = "0.0.0.0/0"
    Empty = ""
    Arns = {"arn:pol"}
    Profiles = {"pr1", "pr2"}
    Rules <- MCRules
    Holds <- MCHolds
    Jitter <- MCJitter
    ComplianceMap <- MCComplianceMap
    Internet = "internet"
    ArnName <- MCArnName
    Rank <- MCRank
    Cutoff = 5
    MaxPaths = 1
    Actions = {"s3:*", "s3:GetObject"}
    Worlds = {"early", "later"}
    Account <- MCAccount
    MaxDrift = 1
    MaxFailures = 1
    Files = {"aws", "null", "aliased", "deep"}
    Content <- MCContent
    MaxDepth = 2
    MaxUploads = 2
INVARIANTS
    TypeOK
    FindingsWereTrue
    FailuresCostTheirPart
    PublicBucketsAreFound
    ScoresFollowSeverity
    
    LinksWereTrue
PROPERTIES
    EveryScanEnds
CHECK_DEADLOCK FALSE
