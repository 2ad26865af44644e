SPECIFICATION FairSpec
CONSTANTS
    Nodes <- MCNodes
    Specs <- MCSpecs
    None = None
    MaxEdits = 3
INVARIANTS
    TypeOK
    DisjointPrefixes
    QuietIsSettled
PROPERTIES
    PrefixesAreKept
    Converges
CHECK_DEADLOCK FALSE
