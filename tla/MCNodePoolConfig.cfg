SPECIFICATION FairSpec
CONSTANTS
    MaxIP = 15
    IPPools <- MCIPPools
    CIDRPools <- MCCIDRPools
    None = None
    MaxEdits = 2
INVARIANTS
    OnlyAroundIsOffered
    
    NothingIsLost
PROPERTY
    FollowsAPI
CHECK_DEADLOCK FALSE
