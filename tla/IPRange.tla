------------------------------- MODULE IPRange -------------------------------
(***************************************************************************)
(* Ranges of IP addresses as the node daemon handles them:                 *)
(* pkg/ipam-node/allocator/range.go and range_set.go, and the closed form  *)
(* of the allocation order that allocator.go produces.                     *)
(*                                                                         *)
(* An address is a natural number of one address family; a subnet is the   *)
(* interval [lo, hi] that its prefix denotes; a range is a record with the *)
(* fields of allocator.Range.  NoIP stands for a nil net.IP.               *)
(***************************************************************************)
EXTENDS Integers, Sequences, FiniteSets

NoIP == -1

InSubnet(net, a) == net.lo <= a /\ a <= net.hi

\* Range.Contains: in the subnet and between the two ends, both inclusive.
Contains(r, a) ==
    /\ InSubnet(r.subnet, a)
    /\ r.start <= a
    /\ a <= r.end

\* Mutant: only the start of the second range is looked for in the first.
OverlapsAtStart(r1, r2) == Contains(r1, r2.start)

Overlaps(r1, r2) ==
    \/ Contains(r1, r2.start)
    \/ Contains(r1, r2.end)
    \/ Contains(r2, r1.start)
    \/ Contains(r2, r1.end)

\* The checks of Range.Canonicalize on a range whose two ends are given, as
\* the handlers always give them (the defaults for missing ends are unused).
CanonicalRange(r) == Contains(r, r.start) /\ Contains(r, r.end)

\* RangeSet.Contains on a set given as a sequence of ranges.
SetContains(rs, a) == \E i \in DOMAIN rs : Contains(rs[i], a)

\* RangeSet.Canonicalize returns no error: not empty, every range sane, and
\* no two ranges of the set overlap.
CanonicalSet(rs) ==
    /\ rs # <<>>
    /\ \A i \in DOMAIN rs : CanonicalRange(rs[i])
    /\ \A i, j \in DOMAIN rs : i < j => ~Overlaps(rs[i], rs[j])

-----------------------------------------------------------------------------
(***************************************************************************)
(* The order in which RangeIter visits a range set.  A slot is a pair      *)
(* <<range index, address>>; the iterator walks the slots in the order of  *)
(* Pos, cyclically, from the slot after the last reserved address (from    *)
(* the first slot when that address is unknown or in no range).            *)
(***************************************************************************)
Slots(rs) == UNION {{<<i, a>> : a \in rs[i].start .. rs[i].end} : i \in DOMAIN rs}

Pos(rs, s) ==
    Cardinality({t \in Slots(rs) : t[1] < s[1] \/ (t[1] = s[1] /\ t[2] < s[2])})

\* Position of the first slot the iterator visits.
FirstPos(rs, last) ==
    LET here == {s \in Slots(rs) : s[2] = last}
    IN IF here = {} THEN 0
       ELSE (Pos(rs, CHOOSE s \in here : \A t \in here : s[1] <= t[1]) + 1)
                % Cardinality(Slots(rs))

\* How many slots the iterator visits before slot s.
Rank(rs, last, s) ==
    (Pos(rs, s) - FirstPos(rs, last)) % Cardinality(Slots(rs))

\* The slots dynamic allocation may use: neither the range's gateway nor
\* excluded.
Allocatable(rs, excl) ==
    {s \in Slots(rs) : s[2] # rs[s[1]].gw /\ ~SetContains(excl, s[2])}

\* The slots dynamic allocation can hand out when the addresses in reserved
\* are taken, and the one it does hand out: the first the iterator meets.
Free(rs, excl, reserved) == {s \in Allocatable(rs, excl) : s[2] \notin reserved}

FirstFree(rs, excl, last, reserved, s) ==
    /\ s \in Free(rs, excl, reserved)
    /\ \A t \in Free(rs, excl, reserved) : Rank(rs, last, s) <= Rank(rs, last, t)
=============================================================================
