SPECIFICATION Spec
CONSTANTS
    Nodes <- MCNodes
    Specs <- TextSpecs
    None = None
    MaxEdits = 2
INVARIANT
    DisjointPrefixes
CHECK_DEADLOCK FALSE
