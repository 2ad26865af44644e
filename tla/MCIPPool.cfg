SPECIFICATION FairSpec
CONSTANTS
    Nodes <- PairNodes
    Specs <- PairSpecs
    Controllers = {c1}
    None = None
    MaxEdits = 2
INVARIANTS
    DisjointBlocks
    QuietIsSettled
PROPERTIES
    BlocksAreKept
    Converges
CHECK_DEADLOCK FALSE
