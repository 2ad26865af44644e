SPECIFICATION FairSpec
CONSTANTS
    pA = pA
    pB = pB
    o1 = o1
    o2 = o2
    w1 = w1
    w2 = w2
    pod1 = pod1
    pod2 = pod2
    n1 = n1
    PoolKeys = {pA}
    Owners = {o1}
    Addrs = {0, 1}
    Cooldown = 0
    Workers = {w1, w2}
    Cleaner = Cleaner
    None = None
    CheckCount = 1
    Configs <- SmallConfigs
    Request <- GatewayRequest
    Pods = {pod1, pod2}
    Names = {n1}
    NameOf <- OneName
    PodOf <- FirstPod
    HasUID = {o1}
INVARIANTS
    TypeOK
    MemoryMatchesDisk
    HeldIsReserved
    NoLeakAfterDel
PROPERTIES
    EveryCallEnds
    StaleIsReclaimed
CHECK_DEADLOCK FALSE
