------------------------ MODULE MCCIDRPoolController ------------------------
(***************************************************************************)
(* Instances of CIDRPoolController: a CIDR of 8 addresses with prefixes of *)
(* two or four.                                                            *)
(***************************************************************************)
EXTENDS CIDRPoolController

MCNodes == {1, 2}

Pool(size, excl, gw, static) ==
    [net |-> [lo |-> 0, hi |-> 7], v4 |-> FALSE, size |-> size, excl |-> excl, perNode |-> {},
     gwIndex |-> gw, static |-> static, sel |-> MCNodes]
Static(n, p, size, text) ==
    [node |-> n, prefix |-> [p |-> p, size |-> size, text |-> text], gw |-> NoGateway]

\* Two prefixes of four; prefixes of two with one excluded and a gateway;
\* static allocations for a Node, for the other one and for nobody; a
\* static allocation outside the CIDR; a gateway index that is too large.
MCSpecs ==
    {Pool(4, {}, NoIndex, <<>>),
     Pool(2, {0, 1, 2}, 1, <<>>),
     Pool(4, {}, NoIndex, <<Static(2, 0, 4, "canonical")>>),
     Pool(4, {}, 2, <<Static(NoNode, 4, 4, "canonical"), Static(1, 0, 4, "canonical")>>),
     Pool(4, {}, NoIndex, <<Static(1, 8, 4, "canonical")>>), Pool(4, {}, 4, <<>>)}

\* The same with a static prefix that is not written canonically.
TextSpecs ==
    {Pool(4, {}, NoIndex, <<>>), Pool(4, {}, NoIndex, <<Static(2, 0, 4, "expanded")>>)}
=============================================================================
