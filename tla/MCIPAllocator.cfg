SPECIFICATION Spec
CONSTANTS
    MaxIP <- MCMaxIP
    RangeSets <- MCRangeSets
    Exclusions <- MCExclusions
    Statics <- MCStatics
INVARIANTS
    TypeOK
    DynamicIsFirstFree
    NeverRevisits
PROPERTIES
    RunsThroughTheRange
    Terminates
