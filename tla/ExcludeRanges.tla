---------------------------- MODULE ExcludeRanges ----------------------------
(***************************************************************************)
(* The operations on exclusion lists of api/v1alpha1/helpers.go, as the    *)
(* code performs them on lists: sort, sweep, clamp and merge.  An exclude  *)
(* range is a record [start, end] of two addresses or of two indexes.      *)
(* Addresses are numbers up to MaxIP, the last address of the family,      *)
(* where ip.NextIP returns nil.                                            *)
(***************************************************************************)
EXTENDS Integers, Sequences

CONSTANT MaxIP

ASSUME MaxIPAssumption == MaxIP \in Nat

NoIP == -1

\* Mutant: the end of the address space is not noticed.
NextIPWithOffsetUnchecked(a, n) == a + n

\* ip.NextIPWithOffset, and ip.NextIP for offset 1: nil past the last address.
NextIPWithOffset(a, n) == IF a = NoIP \/ a + n > MaxIP THEN NoIP ELSE a + n
NextIP(a) == NextIPWithOffset(a, 1)

\* ExcludeRange.Contains.
Within(r, a) == a # NoIP /\ r.start <= a /\ a <= r.end

\* The addresses, or indexes, that a list of ranges denotes.
Denotes(rs) == UNION {rs[i].start .. rs[i].end : i \in DOMAIN rs}

\* validateExclusions returns no error: both ends are in the subnet and in
\* order; overlaps are allowed.
validateExclusions(net, rs) ==
    \A i \in DOMAIN rs : net.lo <= rs[i].start /\ rs[i].start <= rs[i].end /\ rs[i].end <= net.hi

\* validatePerNodeExclusions returns no error for nodes of size addresses.
validatePerNodeExclusions(is, size) ==
    \A i \in DOMAIN is : 0 <= is[i].start /\ is[i].start <= is[i].end /\ is[i].end <= size - 1
-----------------------------------------------------------------------------
\* The pieces one after the other: what a loop with append builds.
Concat(pieces) ==
    LET out[n \in 0 .. Len(pieces)] == IF n = 0 THEN <<>> ELSE out[n - 1] \o pieces[n]
    IN out[Len(pieces)]

\* ExcludeIndexRangeToExcludeRange: a range that leaves the address space is
\* dropped.
ExcludeIndexRangeToExcludeRange(is, from) ==
    Concat([i \in DOMAIN is |->
        LET start == NextIPWithOffset(from, is[i].start)
            end == NextIPWithOffset(from, is[i].end)
        IN IF start = NoIP \/ end = NoIP THEN <<>> ELSE <<[start |-> start, end |-> end]>>])

\* A range cut to [lo, hi].
Clamp(r, lo, hi) == [start |-> IF r.start < lo THEN lo ELSE r.start,
                     end   |-> IF r.end > hi THEN hi ELSE r.end]

\* Mutant: ranges that meet the block only at its ends are lost.
ClampStrictly(rs, lo, hi) ==
    Concat([i \in DOMAIN rs |->
        IF rs[i].start >= hi \/ rs[i].end <= lo THEN <<>> ELSE <<Clamp(rs[i], lo, hi)>>])

\* ClampExcludeRanges.
ClampExcludeRanges(rs, lo, hi) ==
    Concat([i \in DOMAIN rs |->
        IF rs[i].start > hi \/ rs[i].end < lo THEN <<>> ELSE <<Clamp(rs[i], lo, hi)>>])

\* sort.Slice: by start, ranges with the same start by end.  (The sort of
\* MergeExcludeRanges leaves the order of equal starts open; they are joined.)
Sorted(rs) ==
    LET Before(a, b) == \/ rs[a].start < rs[b].start
                        \/ rs[a].start = rs[b].start /\ rs[a].end <= rs[b].end
        p == CHOOSE p \in [DOMAIN rs -> DOMAIN rs] :
                 /\ \A i, j \in DOMAIN rs : i < j => Before(p[i], p[j])
                 /\ \A v \in DOMAIN rs : \E i \in DOMAIN rs : p[i] = v
    IN [i \in DOMAIN rs |-> rs[p[i]]]

\* Mutant: the end of the current range is overwritten, not extended.
JoinOverwriting(cur, next) == [start |-> cur.start, end |-> next.end]

\* The current range of MergeExcludeRanges extended by the next one.
Join(cur, next) == [start |-> cur.start, end |-> IF cur.end < next.end THEN next.end ELSE cur.end]

\* One turn of its loop; the last range of done is the current one.
Merge(done, next) ==
    LET cur == done[Len(done)]
    IN IF done # <<>> /\ (cur.end >= next.start \/ NextIP(cur.end) = next.start)
       THEN [done EXCEPT ![Len(done)] = Join(cur, next)]
       ELSE Append(done, next)

\* MergeExcludeRanges: by start, joining what overlaps or is adjacent.
\* merged[n] is the result for the first n ranges.
MergeExcludeRanges(rs) ==
    LET sorted == Sorted(rs)
        merged[n \in 0 .. Len(rs)] == IF n = 0 THEN <<>> ELSE Merge(merged[n - 1], sorted[n])
    IN merged[Len(rs)]

\* One turn of the loop of ExcludeIndexRangesCover: c is coveredThrough, or
\* Gap once the function has returned false.
Gap == -2
Cover(c, r, lastIndex) ==
    IF c = Gap \/ c >= lastIndex THEN c
    ELSE IF r.start < 0 \/ r.end < r.start \/ r.start > c + 1 THEN Gap
    ELSE IF r.end > c THEN r.end ELSE c

\* ExcludeIndexRangesCover: sweep the sorted ranges.
ExcludeIndexRangesCover(is, lastIndex) ==
    LET sorted == Sorted(is)
        covered[n \in 0 .. Len(is)] ==
            IF n = 0 THEN -1 ELSE Cover(covered[n - 1], sorted[n], lastIndex)
    IN is # <<>> /\ covered[Len(is)] >= lastIndex

\* isEntireRangeExcluded and isPrefixFullyExcluded: the global exclusions and
\* the per-node ones counted from index0, clamped to [lo, hi] and merged, are
\* one range that covers it.
FullyExcluded(excl, perNode, index0, lo, hi) ==
    LET all == excl \o ExcludeIndexRangeToExcludeRange(perNode, index0)
        merged == MergeExcludeRanges(ClampExcludeRanges(all, lo, hi))
    IN Len(merged) = 1 /\ merged[1].start <= lo /\ merged[1].end >= hi
=============================================================================
