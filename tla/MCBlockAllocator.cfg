SPECIFICATION Spec
CONSTANTS
    MaxIP <- MCMaxIP
    Configs <- MCConfigs
INVARIANTS
    TypeOK
    FoundIsFirstFree
    FullIsFull
    ExcludedIsCovered
PROPERTY
    CandidateAdvances
CHECK_DEADLOCK FALSE
