------------------------------- MODULE Prefixes -------------------------------
(***************************************************************************)
(* The node prefixes of a CIDRPool in closed form                          *)
(* (pkg/ipam-controller/controllers/cidrpool/cidrpool.go, pkg/ip/cidr.go,  *)
(* api/v1alpha1/helpers.go).  PrefixAllocator checks that the loops of the *)
(* code compute this.                                                      *)
(*                                                                         *)
(* A pool configuration c has the fields                                   *)
(*   net      the CIDR, an interval [lo, hi];  v4  its address family      *)
(*   size     the number of addresses of a prefix (perNodeNetworkPrefix)   *)
(*   excl     the excluded addresses;  perNode  the excluded indexes       *)
(* A prefix is known by its first address p.                               *)
(***************************************************************************)
EXTENDS Integers

NoGateway == -1

\* GetPossibleIPCount of a subnet of n addresses.
GetPossibleIPCount(v4, n) == IF n <= 2 THEN n ELSE IF v4 THEN n - 2 ELSE n - 1

\* Mutant: the index is not compared with the number of addresses.
GatewayUnchecked(c, p, index) == p + index

\* GetGatewayForSubnet for the prefix p; NoGateway for "".
GetGatewayForSubnet(c, p, index) ==
    LET count == GetPossibleIPCount(c.v4, c.size)
    IN IF c.size <= 2
       THEN IF index <= count - 1 THEN p + index ELSE NoGateway
       ELSE IF index # 0 /\ index <= count THEN p + index ELSE NoGateway

\* LastIP: without the broadcast address of an ordinary IPv4 prefix.
LastIP(c, p) == IF c.v4 /\ c.size > 2 THEN p + c.size - 2 ELSE p + c.size - 1

\* isPrefixFullyExcluded.
isPrefixFullyExcluded(c, p) ==
    \A a \in p .. LastIP(c, p) : a \in c.excl \/ a - p \in c.perNode

\* The prefixes the SubnetIterator walks over.
PrefixesOf(c) == {p \in c.net.lo .. c.net.hi : (p - c.net.lo) % c.size = 0}

\* The prefixes getNewAllocationForNode may return when those in used are
\* allocated or statically allocated; it returns the first of them.
FreePrefixes(c, used) == {p \in PrefixesOf(c) : p \notin used /\ ~isPrefixFullyExcluded(c, p)}

IsFirst(S, p) == p \in S /\ \A q \in S : p <= q
=============================================================================
