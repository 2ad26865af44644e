------------------------- MODULE MCIPPoolController -------------------------
(***************************************************************************)
(* An instance of IPPoolController: an IPv4 subnet of 8 addresses cut into *)
(* three blocks of two or two of three, of which the first is excluded,    *)
(* and a block size that does not fit.                                     *)
(***************************************************************************)
EXTENDS IPPoolController

Pool(size, excl, sel) ==
    [net |-> [lo |-> 0, hi |-> 7], v4 |-> TRUE, size |-> size, gw |-> -1, excl |-> excl,
     perNode |-> {}, sel |-> sel]

PairNodes == {1, 2}
PairSpecs == {Pool(2, {}, PairNodes), Pool(3, {1, 2, 3}, PairNodes), Pool(7, {}, PairNodes)}
=============================================================================
