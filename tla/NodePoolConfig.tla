---------------------------- MODULE NodePoolConfig ----------------------------
(***************************************************************************)
(* How a pool of the API becomes the pool configuration of the node        *)
(* daemon: the node reconcilers (pkg/ipam-node/controllers), the pool      *)
(* manager (pkg/pool) and what allocateInPool makes of a configuration     *)
(* (pkg/ipam-node/handlers/allocate.go).  There is one IPPool and one      *)
(* CIDRPool; GetPoolKey keeps pools of the two types apart.                *)
(*                                                                         *)
(* An object of the API has the fields                                     *)
(*   cidr     the subnet of an IPPool, the CIDR of a CIDRPool              *)
(*   net      IPPool: the subnet again; CIDRPool: the node's prefix        *)
(*   v4       the address family;  gw  the gateway, NoIP for none          *)
(*   alloc    the node's block of an IPPool, [start, end]; NoBlock: no     *)
(*            allocation for this node                                     *)
(*   valid    Validate accepts the CIDRPool, its exclusions aside, and the *)
(*            node's allocation                                            *)
(*   excl     the exclusions;  perNode  the excluded index ranges          *)
(***************************************************************************)
EXTENDS ExcludeRanges

R == INSTANCE IPRange
P == INSTANCE Prefixes

CONSTANTS
    IPPools, CIDRPools,  \* the objects each pool may be, beside None
    None,                \* no such object
    MaxEdits             \* bound on the changes in the API and the restarts

PoolKeys == {"ippool", "cidrpool"}
Objects(k) == {None} \cup (IF k = "ippool" THEN IPPools ELSE CIDRPools)

NoBlock == [start |-> NoIP, end |-> NoIP]

Net == {n \in [lo : Nat, hi : Nat] : n.lo <= n.hi /\ n.hi <= MaxIP}

\* The index ranges of an IPPool count addresses up to the last one from the
\* start of the block: ExcludeIndexRangeToExcludeRange relies on Validate for
\* this, and the IPPool reconciler of the node does not call it.
ASSUME ObjectsAssumption ==
    /\ None \notin IPPools \cup CIDRPools
    /\ \A o \in IPPools \cup CIDRPools :
          /\ o \in [cidr : Net, net : Net, v4 : BOOLEAN, gw : Int, alloc : [start : Int, end : Int],
                    valid : BOOLEAN, excl : Seq([start : Int, end : Int]),
                    perNode : Seq([start : Int, end : Int])]
          /\ o.alloc # NoBlock =>
                 0 <= o.alloc.start /\ o.alloc.start <= o.alloc.end /\ o.alloc.end <= MaxIP
    /\ \A o \in IPPools :
          /\ o.cidr = o.net
          /\ \A i \in DOMAIN o.perNode :
                0 <= o.perNode[i].start /\ o.perNode[i].start <= o.perNode[i].end
          /\ o.alloc # NoBlock =>
                \A i \in DOMAIN o.perNode : o.alloc.start + o.perNode[i].end <= MaxIP

NoPool == [net |-> [lo |-> 0, hi |-> 0], start |-> NoIP, end |-> NoIP, gw |-> NoIP, excl |-> <<>>]

VARIABLES
    api,       \* the two objects in the API
    cache,     \* the daemon's informer cache
    queued,    \* keys in the work queues
    pools,     \* poolManager.pools; NoPool for a missing key
    edits

vars == <<api, cache, queued, pools, edits>>

Init ==
    /\ api \in [PoolKeys -> IPPools \cup CIDRPools \cup {None}]
    /\ \A k \in PoolKeys : api[k] \in Objects(k)
    /\ cache = api
    /\ queued = {k \in PoolKeys : api[k] # None}
    /\ pools = [k \in PoolKeys |-> NoPool]
    /\ edits = 0
-----------------------------------------------------------------------------
(***************************************************************************)
(* The configurations the reconcilers build.                               *)
(***************************************************************************)
Size(o) == o.net.hi - o.net.lo + 1

\* The network address is skipped unless the prefix has one or two addresses.
FirstIP(o) == IF Size(o) <= 2 THEN o.net.lo ELSE o.net.lo + 1
LastIP(o) == P!LastIP([v4 |-> o.v4, size |-> Size(o)], o.net.lo)

\* buildPerNodeExclusions.
buildPerNodeExclusions(o, from, to) ==
    ClampExcludeRanges(ExcludeIndexRangeToExcludeRange(o.perNode, from), from, to)

\* buildExclusions of the CIDRPool reconciler: a range is kept when one of
\* its ends is in the node's prefix, and cut to the usable addresses.
Related(o, r) == R!InSubnet(o.net, r.start) \/ R!InSubnet(o.net, r.end)
Cut(o, r) == [start |-> IF R!InSubnet(o.net, r.start) THEN r.start ELSE FirstIP(o),
              end   |-> IF R!InSubnet(o.net, r.end) THEN r.end ELSE LastIP(o)]

\* Mutant: a range elsewhere is cut to the prefix like one that crosses it.
buildExclusionsOfAll(o) == [i \in DOMAIN o.excl |-> Cut(o, o.excl[i])]

buildExclusions(o) ==
    Concat([i \in DOMAIN o.excl |-> IF ~Related(o, o.excl[i]) THEN <<>> ELSE <<Cut(o, o.excl[i])>>])

IPPoolConfig(o) ==
    IF o = None \/ o.alloc = NoBlock THEN NoPool
    ELSE [net |-> o.net, start |-> o.alloc.start, end |-> o.alloc.end, gw |-> o.gw,
          excl |-> o.excl \o buildPerNodeExclusions(o, o.alloc.start, o.alloc.end)]

\* CIDRPool.Validate and CIDRPoolAllocation.Validate.
Validate(o) ==
    o.valid /\ validateExclusions(o.cidr, o.excl) /\ validatePerNodeExclusions(o.perNode, Size(o))

CIDRPoolConfig(o) ==
    IF o = None \/ ~Validate(o) \/ o.alloc = NoBlock THEN NoPool
    ELSE [net |-> o.net, start |-> FirstIP(o), end |-> LastIP(o), gw |-> o.gw,
          excl |-> buildExclusions(o) \o buildPerNodeExclusions(o, o.net.lo, LastIP(o))]

Config ==
    [k \in PoolKeys |->
       [o \in Objects(k) |-> IF k = "ippool" THEN IPPoolConfig(o) ELSE CIDRPoolConfig(o)]]
-----------------------------------------------------------------------------
Edit == edits < MaxEdits /\ edits' = edits + 1

\* A user or the ipam-controller changes the object.
Change(k, o) ==
    /\ Edit /\ o # api[k]
    /\ api' = [api EXCEPT ![k] = o]
    /\ UNCHANGED <<cache, queued, pools>>

Sync(k) ==
    /\ cache[k] # api[k]
    /\ cache' = [cache EXCEPT ![k] = api[k]]
    /\ queued' = queued \cup {k}
    /\ UNCHANGED <<api, pools, edits>>

\* UpdatePool or RemovePool, whichever the Reconcile ends with.
Published(k) == Config[k][cache[k]]

\* GetPoolKey.
GetPoolKey(k) == k

\* Mutant: a missing object is an error, and the key is tried again.
ReconcileExisting(k) ==
    /\ k \in queued /\ cache[k] # None
    /\ queued' = queued \ {k}
    /\ pools' = [pools EXCEPT ![GetPoolKey(k)] = Published(k)]
    /\ UNCHANGED <<api, cache, edits>>

Reconcile(k) ==
    /\ k \in queued
    /\ queued' = queued \ {k}
    /\ pools' = [pools EXCEPT ![GetPoolKey(k)] = Published(k)]
    /\ UNCHANGED <<api, cache, edits>>

\* The daemon starts again with an empty pool manager.
Restart ==
    /\ Edit
    /\ cache' = api
    /\ queued' = {k \in PoolKeys : api[k] # None}
    /\ pools' = [k \in PoolKeys |-> NoPool]
    /\ UNCHANGED api

Next ==
    \/ \E k \in PoolKeys : \E o \in Objects(k) : Change(k, o)
    \/ \E k \in PoolKeys : Sync(k) \/ Reconcile(k)
    \/ Restart

Spec == Init /\ [][Next]_vars

\* The informers and the work queues of the daemon keep running.
FairSpec == Spec /\ \A k \in PoolKeys : WF_vars(Sync(k)) /\ WF_vars(Reconcile(k))
-----------------------------------------------------------------------------
(***************************************************************************)
(* What allocateInPool can hand out from a configuration.                  *)
(***************************************************************************)
RangeSet(c) == <<[subnet |-> c.net, start |-> c.start, end |-> c.end, gw |-> c.gw]>>
ExclusionRangeSet(c) ==
    [i \in DOMAIN c.excl |->
       [subnet |-> c.net, start |-> c.excl[i].start, end |-> c.excl[i].end, gw |-> NoIP]]

\* Both Canonicalize calls return no error; the pool is refused otherwise.
Accepted(c) ==
    /\ R!CanonicalSet(RangeSet(c))
    /\ c.excl # <<>> => R!CanonicalSet(ExclusionRangeSet(c))

\* The addresses dynamic allocation can choose from.
Offered(c) ==
    IF c = NoPool \/ ~Accepted(c) THEN {}
    ELSE {s[2] : s \in R!Allocatable(RangeSet(c), ExclusionRangeSet(c))}

\* The addresses an object means this node to use when it excludes the
\* addresses in excluded.
Usable(k, o, excluded) ==
    IF o = None \/ o.alloc = NoBlock \/ (k = "cidrpool" /\ ~Validate(o)) THEN {}
    ELSE LET from == IF k = "ippool" THEN o.alloc.start ELSE FirstIP(o)
             to == IF k = "ippool" THEN o.alloc.end ELSE LastIP(o)
             index0 == IF k = "ippool" THEN o.alloc.start ELSE o.net.lo
         IN {a \in from .. to : a # o.gw /\ a \notin excluded /\ a - index0 \notin Denotes(o.perNode)}

\* An exclusion that begins before the node's prefix and ends after it.
Around(o, r) == r.start < o.net.lo /\ r.end > o.net.hi

\* The block of an IPPool lies in its subnet, which a user may have changed
\* since the block was given.
Fits(k, o) == k = "ippool" => R!InSubnet(o.net, o.alloc.start) /\ R!InSubnet(o.net, o.alloc.end)

\* Lists that validation accepts and allocateInPool refuses: two exclusions
\* share an address of the node's subnet, or an exclusion crosses the border
\* of the prefix and holds none of its usable addresses.
Contested(k, o) ==
    LET index0 == IF k = "ippool" THEN o.alloc.start ELSE o.net.lo
        all == o.excl \o [i \in DOMAIN o.perNode |->
                            [start |-> index0 + o.perNode[i].start, end |-> index0 + o.perNode[i].end]]
        Common(i, j) == (all[i].start .. all[i].end) \cap (all[j].start .. all[j].end)
        Crosses(r) == R!InSubnet(o.net, r.start) # R!InSubnet(o.net, r.end)
    IN \/ \E i, j \in DOMAIN all : i < j /\ Common(i, j) \cap (o.net.lo .. o.net.hi) # {}
       \/ \E i \in DOMAIN o.excl :
             Crosses(o.excl[i]) /\ (FirstIP(o) .. LastIP(o)) \cap Denotes(<<o.excl[i]>>) = {}
-----------------------------------------------------------------------------
\* What the API documents of exclusions: once an object is reconciled the node
\* offers no address that the object excludes.  It does not hold: buildExclusions
\* drops an exclusion around the whole prefix of a CIDRPool.
ExcludedIsNotOffered ==
    \A k \in PoolKeys \ queued :
        cache[k] # None => Offered(pools[k]) \cap Denotes(cache[k].excl) = {}

\* Once an object is reconciled the node offers no address that is the gateway,
\* that lies outside the node's part or that an index range excludes, and an
\* address of a listed exclusion only if that exclusion is one around the whole
\* prefix of a CIDRPool: the index arithmetic, the cuts and the iterator
\* together leave no other.
OnlyAroundIsOffered ==
    \A k \in PoolKeys \ queued :
        \A a \in Offered(pools[k]) :
            /\ a \in Usable(k, cache[k], {})
            /\ \A i \in DOMAIN cache[k].excl :
                  a \in Denotes(<<cache[k].excl[i]>>) =>
                      k = "cidrpool" /\ Around(cache[k], cache[k].excl[i])

\* Exclusions of an IPPool that share an address, which its validation lets
\* pass, cost the node the whole pool: once it is reconciled allocateInPool
\* refuses every request, and offers not even what no exclusion covers.
OverlapIsRefused ==
    \A k \in {"ippool"} \ queued :
        cache[k] # None =>
            \A i, j \in DOMAIN cache[k].excl :
                i # j /\ Denotes(<<cache[k].excl[i]>>) \cap Denotes(<<cache[k].excl[j]>>) # {} =>
                    Offered(pools[k]) = {}

\* Once an object with valid exclusions is reconciled the node offers every
\* address the object leaves it, if its block is in the subnet; allocateInPool
\* refuses the pool only because of overlapping exclusions, or of one that is
\* cut to nothing at the border.
NothingIsLost ==
    \A k \in PoolKeys \ queued :
        LET o == cache[k]
        IN o # None /\ Fits(k, o) /\ validateExclusions(o.cidr, o.excl) /\ ~Contested(k, o) =>
              Usable(k, o, Denotes(o.excl)) \subseteq Offered(pools[k])

\* After the last change the pool manager comes to hold, for good, what the
\* objects in the API say; a deleted pool is served no longer.
FollowsAPI == <>[](\A k \in PoolKeys : pools[k] = Config[k][api[k]])
=============================================================================
