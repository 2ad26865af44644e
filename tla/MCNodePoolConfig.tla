--------------------------- MODULE MCNodePoolConfig ---------------------------
(***************************************************************************)
(* Instances of NodePoolConfig: an IPv4 IPPool of 8 addresses, and node    *)
(* prefixes of 1, 2 and 4 addresses in the CIDR 0..15, the last addresses  *)
(* of the family.                                                          *)
(***************************************************************************)
EXTENDS NodePoolConfig

Excl(a, b) == [start |-> a, end |-> b]
Pool(cidr, net, v4, gw, alloc, excl, perNode) ==
    [cidr |-> cidr, net |-> net, v4 |-> v4, gw |-> gw, alloc |-> alloc, valid |-> TRUE,
     excl |-> excl, perNode |-> perNode]

Block(lo, excl, perNode) ==
    Pool([lo |-> 0, hi |-> 7], [lo |-> 0, hi |-> 7], TRUE, 3, Excl(lo, lo + 2), excl, perNode)

\* Exclusions at the ends of a block, across its border and elsewhere in the
\* subnet; some overlap, one has its ends in the wrong order, and one block
\* leaves the subnet.
MCIPPools ==
    {Block(4, <<>>, <<>>), Block(1, <<Excl(0, 1), Excl(6, 7)>>, <<>>), Block(4, <<Excl(6, 7), Excl(2, 4)>>, <<>>),
     Block(1, <<>>, <<Excl(1, 2)>>), Block(4, <<Excl(0, 3)>>, <<Excl(0, 0), Excl(2, 2)>>),
     Block(1, <<Excl(1, 1), Excl(0, 1)>>, <<>>), Block(4, <<Excl(5, 6)>>, <<Excl(1, 1)>>),
     Block(1, <<Excl(2, 1)>>, <<>>),
     [Block(4, <<>>, <<>>) EXCEPT !.alloc = Excl(6, 8)],
     [Block(1, <<>>, <<>>) EXCEPT !.alloc = NoBlock]}

Prefix(lo, size, v4, gw, excl, perNode) ==
    Pool([lo |-> 0, hi |-> 15], [lo |-> lo, hi |-> lo + size - 1], v4, gw,
         Excl(lo, lo + size - 1), excl, perNode)

\* Exclusions inside, across the border of, equal to and around a prefix, and
\* ones that touch only its network or its broadcast address.
MCCIDRPools ==
    {Prefix(12, 4, TRUE, NoIP, e, <<>>) :
        e \in {<<>>, <<Excl(10, 13)>>, <<Excl(14, 15), Excl(3, 5)>>, <<Excl(12, 15)>>}}
    \cup {Prefix(12, 4, FALSE, NoIP, <<Excl(14, 15)>>, <<>>),
          Prefix(4, 4, TRUE, 5, <<Excl(6, 9)>>, <<Excl(0, 1)>>),
          Prefix(12, 4, FALSE, 13, <<>>, <<Excl(2, 3)>>),
          Prefix(14, 2, TRUE, 14, <<>>, <<Excl(1, 1)>>), Prefix(15, 1, TRUE, NoIP, <<>>, <<>>),
          Prefix(14, 2, FALSE, NoIP, <<Excl(13, 14)>>, <<>>),
          Prefix(4, 4, TRUE, NoIP, <<Excl(2, 13)>>, <<>>), Prefix(4, 4, TRUE, NoIP, <<Excl(2, 4)>>, <<>>),
          Prefix(4, 4, TRUE, NoIP, <<Excl(7, 9)>>, <<Excl(2, 4)>>),
          Prefix(4, 4, FALSE, NoIP, <<Excl(7, 9), Excl(0, 4)>>, <<>>),
          [Prefix(4, 4, TRUE, 5, <<>>, <<>>) EXCEPT !.valid = FALSE]}
=============================================================================
