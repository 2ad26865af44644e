-------------------------- MODULE MCPrefixAllocator --------------------------
(***************************************************************************)
(* PrefixAllocator over an address space of 16: IPv4 and IPv6 CIDRs inside *)
(* the space and at its end, prefixes of 1, 2 and 4 addresses, up to two   *)
(* exclusions and up to two per-node exclusions.                           *)
(***************************************************************************)
EXTENDS PrefixAllocator

Excl(a, b) == [start |-> a, end |-> b]
Nets == {[lo |-> 0, hi |-> 15], [lo |-> 8, hi |-> 15], [lo |-> 4, hi |-> 7], [lo |-> 15, hi |-> 15]}

Proper(n) == {r \in {Excl(a, b) : a \in n.lo .. n.hi, b \in n.lo .. n.hi} : r.start <= r.end}
Exclusions(n) ==
    {<<>>} \cup {<<r>> : r \in Proper(n)}
    \cup {<<r, Excl(n.lo + 2, n.lo + 3)>> : r \in {r \in Proper(n) : n.lo + 3 <= n.hi}}

PerNode(size) ==
    {<<>>} \cup {is \in {<<Excl(0, 0)>>, <<Excl(1, 2)>>, <<Excl(1, 1), Excl(0, 0)>>} :
                    \A i \in DOMAIN is : is[i].end < size}

\* Prefixes of one or two addresses only in CIDRs of up to 8.
Sizes(n) == {k \in {1, 2, 4} : k <= n.hi - n.lo + 1 /\ (k < 4 => n.hi - n.lo <= 7)}

MCMaxIP == 15
MCConfigs ==
    UNION {UNION {
        {[net |-> n, v4 |-> v, size |-> k, excl |-> e, perNode |-> q] :
            e \in Exclusions(n), q \in PerNode(k), v \in BOOLEAN}
        : k \in Sizes(n)} : n \in Nets}
=============================================================================
