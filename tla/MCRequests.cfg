SPECIFICATION Spec
CONSTANTS
    pA = pA
    pB = pB
    o1 = o1
    o2 = o2
    w1 = w1
    w2 = w2
    pod1 = pod1
    pod2 = pod2
    n1 = n1
    PoolKeys = {pA, pB}
    Owners = {o1, o2}
    Addrs = {0, 1, 2, 3}
    Cooldown = 2
    Workers = {w1}
    Cleaner = Cleaner
    None = None
    CheckCount = 1
    Configs <- ManyConfigs
    Request <- StaticRequest
    Pods = {pod1}
    Names = {n1}
    NameOf <- PodName
    PodOf <- SamePod
    HasUID = {o1}
VIEW WithoutGone
INVARIANTS
    UniqueIP
    RequestedOrNothing
PROPERTIES
    LeaseRefinement
CHECK_DEADLOCK FALSE
