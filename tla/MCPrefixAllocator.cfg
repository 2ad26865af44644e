SPECIFICATION Spec
CONSTANTS
    MaxIP <- MCMaxIP
    Configs <- MCConfigs
INVARIANTS
    TypeOK
    FoundIsFirstFree
    FullIsFull
    ExcludedIsCovered
CHECK_DEADLOCK FALSE
