-------------------------- MODULE MCBlockAllocator --------------------------
(***************************************************************************)
(* BlockAllocator over an address space of 16: IPv4 and IPv6 subnets of    *)
(* 16, 8, 4, 2 and 1 addresses, inside the space and at its end, block     *)
(* sizes up to 5, up to two exclusions and up to two per-node exclusions.  *)
(***************************************************************************)
EXTENDS BlockAllocator

Excl(a, b) == [start |-> a, end |-> b]
Nets ==
    {[lo |-> 0, hi |-> 15], [lo |-> 8, hi |-> 15], [lo |-> 4, hi |-> 7], [lo |-> 14, hi |-> 15], [lo |-> 15, hi |-> 15]}

\* GetPossibleIPCount, which Validate compares the block size with.
PossibleIPs(n, v4) ==
    LET count == n.hi - n.lo + 1
    IN IF count <= 2 THEN count ELSE IF v4 THEN count - 2 ELSE count - 1

\* Blocks of one address only in the subnets of up to 8, of 3 to 5 in larger ones.
Sizes(n, v4) == {k \in (IF n.hi - n.lo > 7 THEN 3 .. 5 ELSE 1 .. 3) : k <= PossibleIPs(n, v4)}

\* Exclusions of the subnet: none, one, or two in either order, overlapping,
\* adjacent or apart.
Pairs(n) == {Excl(a, b) : a \in n.lo .. n.hi, b \in n.lo .. n.hi}
Proper(n) == {r \in Pairs(n) : r.start <= r.end}
Exclusions(n) ==
    {<<>>} \cup {<<r>> : r \in Proper(n)}
    \cup {<<r, Excl(n.lo + 2, n.lo + 3)>> : r \in {r \in Proper(n) : n.lo + 3 <= n.hi}}

PerNode(size) ==
    {<<>>} \cup {is \in {<<Excl(0, 0)>>, <<Excl(1, 2)>>, <<Excl(1, 1), Excl(0, 0)>>} :
                    \A i \in DOMAIN is : is[i].end < size}

MCMaxIP == 15
MCConfigs ==
    UNION {UNION {UNION {
        {[net |-> n, v4 |-> v, size |-> k, gw |-> g, excl |-> e, perNode |-> q] :
            e \in Exclusions(n), q \in PerNode(k), g \in {NoIP} \cup {a \in {n.lo + 1} : k = 1 /\ a <= n.hi}}
        : k \in Sizes(n, v)} : v \in BOOLEAN} : n \in Nets}
=============================================================================
