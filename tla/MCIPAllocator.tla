---------------------------- MODULE MCIPAllocator ----------------------------
(***************************************************************************)
(* IPAllocator over the four addresses 0..3: every single range and every  *)
(* pair of disjoint ranges, with no gateway, one at the edge of the        *)
(* address space and one inside it.                                        *)
(***************************************************************************)
EXTENDS IPAllocator

MCMaxIP == 3

IPs == 0 .. MCMaxIP
Intervals == {i \in IPs \X IPs : i[1] <= i[2]}
RangeOf(i, g, hi) ==
    [start |-> i[1], end |-> i[2], subnet |-> [lo |-> 0, hi |-> hi], gw |-> g]

MCRangeSets ==
    {<<RangeOf(i, g, MCMaxIP)>> : i \in Intervals, g \in {NoIP, 1, 3}}
    \cup {<<RangeOf(<<1, 2>>, 1, 2)>>}
    \cup {rs \in {<<RangeOf(i, g, MCMaxIP), RangeOf(j, g, MCMaxIP)>> :
                      i \in Intervals, j \in Intervals, g \in {NoIP, 1}} :
             CanonicalSet(rs)}

MCExclusions ==
    {<<>>} \cup {<<RangeOf(i, NoIP, MCMaxIP)>> : i \in {<<0, 0>>, <<1, 2>>, <<0, 3>>}}

MCStatics == {NoIP, 3}
=============================================================================
