SPECIFICATION Spec
CONSTANTS
    MaxIP = 15
    IPPools <- MCIPPools
    CIDRPools <- MCCIDRPools
    None = None
    MaxEdits = 2
INVARIANT
    ExcludedIsNotOffered
CHECK_DEADLOCK FALSE
