SPECIFICATION ClusterSpec
CONSTANTS
    Nodes <- PairNodes
    Specs <- PairSpecs
    Controllers = {c1}
    None = None
    MaxEdits = 2
INVARIANTS
    SharedOnlyAfterLoss
    CalmIsSafe
CHECK_DEADLOCK FALSE
