-------------------------------- MODULE Blocks --------------------------------
(***************************************************************************)
(* The blocks of an IPPool in closed form: which address blocks the        *)
(* controller's allocator accepts and hands out                            *)
(* (pkg/ipam-controller/allocator/allocator.go).  BlockAllocator checks    *)
(* that the loops of the code compute this.                                *)
(*                                                                         *)
(* A pool configuration c has the fields                                   *)
(*   net      the subnet, an interval [lo, hi];  v4  its address family    *)
(*   size     perNodeBlockSize;  gw  the gateway or a number below 0       *)
(*   excl     the excluded addresses;  perNode  the excluded block indexes *)
(* A block is known by its first address s.                                *)
(***************************************************************************)
EXTENDS Integers

\* IsPointToPointSubnet or IsSingleIPSubnet.
canUseNetworkAddress(c) == c.net.hi - c.net.lo <= 1

getFirstStartIP(c) == IF canUseNetworkAddress(c) THEN c.net.lo ELSE c.net.lo + 1

\* The last address of the block.
EndOf(c, s) == s + c.size - 1

InNet(c, a) == c.net.lo <= a /\ a <= c.net.hi

IsBroadcast(c, a) == c.v4 /\ ~canUseNetworkAddress(c) /\ a = c.net.hi

allocationValid(c, s) == InNet(c, EndOf(c, s)) /\ ~IsBroadcast(c, EndOf(c, s))

\* isEntireRangeExcluded.
Excluded(c, s) == \A a \in s .. EndOf(c, s) : a \in c.excl \/ a - s \in c.perNode

IsGateway(c, s) == c.size = 1 /\ c.gw = s

Aligned(c, s) ==
    /\ s >= getFirstStartIP(c)
    /\ (s - getFirstStartIP(c)) % c.size = 0

\* checkAllocation returns no error for the range r of a status entry.
checkAllocation(c, r) ==
    /\ InNet(c, r.start) /\ InNet(c, r.end)
    /\ Aligned(c, r.start)
    /\ r.end = EndOf(c, r.start)
    /\ ~IsGateway(c, r.start)
    /\ ~Excluded(c, r.start)

\* The blocks AllocateFromPool may return when those starting in taken are
\* in use; it returns the first of them.
FreeBlocks(c, taken) ==
    {s \in c.net.lo .. c.net.hi :
        /\ Aligned(c, s) /\ allocationValid(c, s)
        /\ s \notin taken
        /\ ~Excluded(c, s) /\ ~IsGateway(c, s)}

IsFirst(S, s) == s \in S /\ \A t \in S : s <= t
=============================================================================
