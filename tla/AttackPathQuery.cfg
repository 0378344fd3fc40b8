\* One request, for every choice of eleven resources in either of two orders.
SPECIFICATION Spec
CONSTANTS
    None = None
    Null = Null
    Ids <- MCIds
    Paths = {"public_read", "action", "ingress.cidr"}
    Values = {"true", "s3:*", "0.0.0.0/0", "10.0.0.0/8"}
    Anywhere = "0.0.0.0/0"
    Arns = {"arn:pol"}
    Profiles = {"pr1", "pr2"}
    Rules <- MCRules
    Holds = {}
    Jitter <- MCJitter
    Internet = "internet"
    ArnName <- MCArnName
    Rank <- MCRank
    Cutoff = 5
    MaxPaths = 1
    ResourceLists <- MCResourceLists
    FindingSets <- MCFindingSets
INVARIANTS
    TypeOK
    PathsLeadToAssets
    SeverityReflectsThePath
    ExposedAssetsAreShown
CHECK_DEADLOCK FALSE
