------------------------ MODULE NodePoolConfigProofs ------------------------
(***************************************************************************)
(* What the node offers of a pool, for every object, exclusion list and    *)
(* address family: once the pool is reconciled the node offers the         *)
(* addresses that the object leaves it, and no other, but for exclusions   *)
(* around the whole prefix of a CIDRPool, which the node drops, and for    *)
(* lists that allocateInPool refuses, of which it offers nothing.          *)
(***************************************************************************)
EXTENDS NodePoolConfig, ExcludeRangesProofs
-----------------------------------------------------------------------------
(***************************************************************************)
(* A list made from another one by dropping elements and changing the      *)
(* others: from tells which element each one comes from.                   *)
(***************************************************************************)
Origins(m, n, from) ==
    /\ from \in [1 .. m -> 1 .. n]
    /\ \A i, j \in 1 .. m : i # j => from[i] # from[j]

\* Origins of origins.
LEMMA OriginsCompose ==
  ASSUME NEW l \in Nat, NEW m \in Nat, NEW n \in Nat, NEW f, NEW g, Origins(l, m, f), Origins(m, n, g)
  PROVE  Origins(l, n, [i \in 1 .. l |-> g[f[i]]])
<1> DEFINE h == [i \in 1 .. l |-> g[f[i]]]
<1>1. \A i \in 1 .. l : h[i] = g[f[i]] /\ f[i] \in 1 .. m
  BY Zenon DEF Origins
<1>2. h \in [1 .. l -> 1 .. n]
  BY <1>1, Zenon DEF Origins
<1> HIDE DEF h
<1>3. ASSUME NEW i \in 1 .. l, NEW j \in 1 .. l, i # j
      PROVE  h[i] # h[j]
  <2>1. f[i] # f[j]
    BY <1>3, Zenon DEF Origins
  <2>2. \A x, y \in 1 .. m : x # y => g[x] # g[y]
    BY Zenon DEF Origins
  <2>3. h[i] = g[f[i]] /\ h[j] = g[f[j]] /\ f[i] \in 1 .. m /\ f[j] \in 1 .. m
    BY <1>1, Zenon
  <2>4. g[f[i]] # g[f[j]]
    BY <2>1, <2>2, <2>3, Zenon
  <2> QED BY <2>3, <2>4, Zenon
<1>4. Origins(l, n, h)
  BY <1>2, <1>3, Zenon DEF Origins
<1> QED BY <1>4, Zenon DEF h

\* A loop that drops or appends: what it appends for an element comes from
\* that element.
LEMMA FilterOrigins ==
  ASSUME NEW X, NEW N \in Nat, NEW drop, NEW item, KeptItems(N, drop, item) \subseteq X
  PROVE  LET out == Concat(Kept(N, drop, item))
         IN  /\ out \in Seq(X)
             /\ \E from : /\ Origins(Len(out), N, from)
                          /\ \A j \in 1 .. Len(out) : ~drop[from[j]] /\ out[j] = item[from[j]]
<1> DEFINE pieces == Kept(N, drop, item)
<1>1. \A i \in 1 .. N : pieces[i] = IF drop[i] THEN <<>> ELSE <<item[i]>>
  BY Zenon DEF Kept
<1>2. \A i \in 1 .. N : pieces[i] \in Seq(X)
  <2>1. <<>> \in Seq(X) /\ \A x \in X : <<x>> \in Seq(X)
    OBVIOUS
  <2>2. \A i \in 1 .. N : ~drop[i] => item[i] \in X
    BY Zenon DEF KeptItems
  <2> QED BY <1>1, <2>1, <2>2, Zenon
<1>3. pieces \in Seq(Seq(X)) /\ Len(pieces) = N
  <2>1. pieces = [i \in 1 .. N |-> pieces[i]]
    BY Zenon DEF Kept
  <2> HIDE DEF pieces
  <2>2. pieces \in [1 .. N -> Seq(X)]
    BY <1>2, <2>1, Zenon
  <2> QED BY <2>2, IsASeq, Zenon
<1> HIDE DEF pieces
<1>4. PICK f \in [0 .. N -> Seq(X)] :
          /\ f[0] = <<>>
          /\ \A n \in 1 .. N : f[n] = f[n - 1] \o pieces[n]
          /\ Concat(pieces) = f[N]
  <2>1. \E f \in [0 .. Len(pieces) -> Seq(X)] :
            /\ f[0] = <<>>
            /\ \A n \in 1 .. Len(pieces) : f[n] = f[n - 1] \o pieces[n]
            /\ Concat(pieces) = f[Len(pieces)]
    BY <1>3, ConcatRuns, Zenon
  <2> QED BY <1>3, <2>1, Zenon
<1> DEFINE Ok(k, from) == /\ Origins(Len(f[k]), k, from)
                          /\ \A j \in 1 .. Len(f[k]) : ~drop[from[j]] /\ f[k][j] = item[from[j]]
           S == {k \in 0 .. N : \E from : Ok(k, from)}
<1>5. 0 \in S
  <2>1. 0 \in 0 .. N /\ Len(f[0]) = 0
    BY <1>4
  <2>2. 1 .. 0 = {}
    OBVIOUS
  <2>3. [i \in 1 .. 0 |-> i] \in [1 .. 0 -> 1 .. 0]
    OBVIOUS
  <2>4. Ok(0, [i \in 1 .. 0 |-> i])
    BY <2>1, <2>2, <2>3, Zenon DEF Origins
  <2> QED BY <2>1, <2>4, Zenon
<1>6. ASSUME NEW k \in 0 .. N - 1, k \in S
      PROVE  k + 1 \in S
  <2>1. k + 1 \in 1 .. N /\ k + 1 \in 0 .. N /\ k \in 0 .. N /\ (k + 1) - 1 = k
    OBVIOUS
  <2>2. PICK g : Ok(k, g)
    BY <1>6, Zenon
  <2>3. f[k + 1] = f[k] \o pieces[k + 1] /\ f[k] \in Seq(X) /\ f[k + 1] \in Seq(X)
    BY <1>4, <2>1, Zenon
  <2>4. PICK L \in Nat : L = Len(f[k])
    BY <2>3
  <2>5. g \in [1 .. L -> 1 .. k] /\ \A i, j \in 1 .. L : i # j => g[i] # g[j]
    BY <2>2, <2>4, Zenon DEF Origins
  <2>6. \A j \in 1 .. L : ~drop[g[j]] /\ f[k][j] = item[g[j]]
    BY <2>2, <2>4, Zenon
  <2>7. CASE drop[k + 1]
    <3>1. pieces[k + 1] = <<>>
      BY <1>1, <2>1, <2>7, Zenon
    <3>2. f[k + 1] = f[k]
      BY <2>3, <3>1
    <3>3. g \in [1 .. L -> 1 .. k + 1]
      BY <2>5
    <3>4. Ok(k + 1, g)
      BY <2>4, <2>5, <2>6, <3>2, <3>3, Zenon DEF Origins
    <3> QED BY <2>1, <3>4, Zenon
  <2>8. CASE ~drop[k + 1]
    <3> DEFINE h == [j \in 1 .. L + 1 |-> IF j = L + 1 THEN k + 1 ELSE g[j]]
    <3>1. pieces[k + 1] = <<item[k + 1]>> /\ item[k + 1] \in X
      BY <1>1, <2>1, <2>8, Zenon DEF KeptItems
    <3>2. /\ Len(f[k + 1]) = L + 1
          /\ f[k + 1][L + 1] = item[k + 1]
          /\ \A j \in 1 .. L : f[k + 1][j] = f[k][j]
      BY <2>3, <2>4, <3>1
    <3>3. h \in [1 .. L + 1 -> 1 .. k + 1]
      BY <2>5, SMTT(30)
    <3>4. h[L + 1] = k + 1 /\ \A j \in 1 .. L : h[j] = g[j] /\ g[j] # k + 1
      BY <2>5
    <3>5. \A j \in 1 .. L + 1 : j = L + 1 \/ j \in 1 .. L
      OBVIOUS
    <3> HIDE DEF h
    <3>6. \A i, j \in 1 .. L + 1 : i # j => h[i] # h[j]
      BY <2>5, <3>4, <3>5, Zenon
    <3>7. \A j \in 1 .. L + 1 : ~drop[h[j]] /\ f[k + 1][j] = item[h[j]]
      BY <2>6, <2>8, <3>2, <3>4, <3>5, Zenon
    <3>8. Ok(k + 1, h)
      BY <3>2, <3>3, <3>6, <3>7, Zenon DEF Origins
    <3> QED BY <2>1, <3>8, Zenon
  <2> QED BY <2>7, <2>8, Zenon
<1>7. N \in S
  <2> HIDE DEF S
  <2>1. 0 .. N \subseteq S
    BY <1>5, <1>6, LoopInduction, Zenon
  <2>2. N \in 0 .. N
    OBVIOUS
  <2> QED BY <2>1, <2>2, Zenon
<1>8. PICK from : Ok(N, from)
  BY <1>7, Zenon
<1>9. f[N] \in Seq(X) /\ Concat(Kept(N, drop, item)) = f[N]
  <2>1. N \in 0 .. N
    OBVIOUS
  <2> QED BY <1>4, <2>1, Zenon DEF pieces
<1> QED BY <1>8, <1>9, Zenon
-----------------------------------------------------------------------------
(***************************************************************************)
(* The lists the reconcilers build.                                        *)
(***************************************************************************)

\* The elements of a list of ranges.
LEMMA RangeSeq ==
  ASSUME NEW rs \in Seq(IntRange)
  PROVE  /\ Len(rs) \in Nat /\ DOMAIN rs = 1 .. Len(rs)
         /\ \A i \in 1 .. Len(rs) : rs[i] \in IntRange /\ rs[i].start \in Int /\ rs[i].end \in Int
<1>1. Len(rs) \in Nat /\ DOMAIN rs = 1 .. Len(rs) /\ \A i \in 1 .. Len(rs) : rs[i] \in IntRange
  OBVIOUS
<1>2. \A r \in IntRange : r.start \in Int /\ r.end \in Int
  BY DEF IntRange
<1> QED BY <1>1, <1>2, Zenon

\* ExcludeIndexRangeToExcludeRange moves a range of indexes by the address
\* they are counted from.
LEMMA ShiftOrigins ==
  ASSUME NEW is \in Seq(IntRange), NEW from \in 0 .. MaxIP,
         \A i \in 1 .. Len(is) : 0 <= is[i].start /\ is[i].start <= is[i].end
  PROVE  LET out == ExcludeIndexRangeToExcludeRange(is, from)
         IN  /\ out \in Seq(IntRange)
             /\ \E f : /\ Origins(Len(out), Len(is), f)
                       /\ \A j \in 1 .. Len(out) : /\ out[j].start = from + is[f[j]].start
                                                   /\ out[j].end = from + is[f[j]].end
<1> DEFINE N == Len(is)
           S(i) == NextIPWithOffset(from, is[i].start)
           E(i) == NextIPWithOffset(from, is[i].end)
           drop == [i \in 1 .. N |-> S(i) = NoIP \/ E(i) = NoIP]
           item == [i \in 1 .. N |-> [start |-> S(i), end |-> E(i)]]
           out == ExcludeIndexRangeToExcludeRange(is, from)
<1>1. N \in Nat /\ DOMAIN is = 1 .. N /\ \A i \in 1 .. N : is[i].start \in Int /\ is[i].end \in Int
  BY RangeSeq, Zenon
<1>2. out = Concat(Kept(N, drop, item))
  <2>1. Kept(N, drop, item)
          = [i \in DOMAIN is |->
                LET start == NextIPWithOffset(from, is[i].start)
                    end == NextIPWithOffset(from, is[i].end)
                IN IF start = NoIP \/ end = NoIP THEN <<>> ELSE <<[start |-> start, end |-> end]>>]
    BY <1>1, Zenon DEF Kept
  <2> QED BY <2>1, Zenon DEF ExcludeIndexRangeToExcludeRange
<1> HIDE DEF N, out
<1>3. \A i \in 1 .. N : /\ item[i] = [start |-> S(i), end |-> E(i)]
                        /\ drop[i] <=> (S(i) = NoIP \/ E(i) = NoIP)
  BY Zenon
<1> HIDE DEF drop, item
<1>4. ASSUME NEW i \in 1 .. N, ~drop[i]
      PROVE  /\ item[i] \in IntRange
             /\ item[i].start = from + is[i].start
             /\ item[i].end = from + is[i].end
  <2>1. 0 <= is[i].start /\ is[i].start <= is[i].end
    BY Zenon DEF N
  <2>2. is[i].start \in Nat /\ is[i].end \in Nat
    BY <1>1, <2>1
  <2>3. /\ S(i) \in Int /\ (S(i) # NoIP => S(i) = from + is[i].start)
        /\ E(i) \in Int /\ (E(i) # NoIP => E(i) = from + is[i].end)
    BY <2>2, NextOffset, Zenon
  <2>4. /\ S(i) = from + is[i].start
        /\ E(i) = from + is[i].end
        /\ item[i] = [start |-> S(i), end |-> E(i)]
    BY <1>3, <1>4, <2>3, Zenon
  <2>5. item[i] \in IntRange /\ item[i].start = S(i) /\ item[i].end = E(i)
    BY <2>3, <2>4 DEF IntRange
  <2> QED BY <2>4, <2>5, Zenon
<1>5. KeptItems(N, drop, item) \subseteq IntRange
  BY <1>4, Zenon DEF KeptItems
<1>6. /\ out \in Seq(IntRange)
      /\ \E f : /\ Origins(Len(out), N, f)
                /\ \A j \in 1 .. Len(out) : ~drop[f[j]] /\ out[j] = item[f[j]]
  <2> DEFINE kept == Concat(Kept(N, drop, item))
  <2>0. N \in Nat
    BY <1>1
  <2>1. /\ kept \in Seq(IntRange)
        /\ \E f : /\ Origins(Len(kept), N, f)
                  /\ \A j \in 1 .. Len(kept) : ~drop[f[j]] /\ kept[j] = item[f[j]]
    BY <2>0, <1>5, FilterOrigins
  <2> HIDE DEF kept
  <2>2. out = kept
    BY <1>2, Zenon DEF kept
  <2> QED BY <2>1, <2>2, Zenon
<1>7. PICK f : /\ Origins(Len(out), N, f)
               /\ \A j \in 1 .. Len(out) : ~drop[f[j]] /\ out[j] = item[f[j]]
  BY <1>6, Zenon
<1>8. ASSUME NEW j \in 1 .. Len(out)
      PROVE  out[j].start = from + is[f[j]].start /\ out[j].end = from + is[f[j]].end
  <2>1. f[j] \in 1 .. N
    BY <1>7, Zenon DEF Origins
  <2> QED BY <1>4, <1>7, <2>1, Zenon
<1>9. \E g : /\ Origins(Len(out), Len(is), g)
             /\ \A j \in 1 .. Len(out) : /\ out[j].start = from + is[g[j]].start
                                         /\ out[j].end = from + is[g[j]].end
  BY <1>7, <1>8, Zenon DEF N
<1> QED BY <1>6, <1>9, Zenon DEF out

\* ClampExcludeRanges cuts a range to a part of it.
LEMMA ClampOrigins ==
  ASSUME NEW rs \in Seq(IntRange), NEW lo \in Int, NEW hi \in Int, lo <= hi,
         \A i \in 1 .. Len(rs) : rs[i].start <= rs[i].end
  PROVE  LET out == ClampExcludeRanges(rs, lo, hi)
         IN  /\ out \in Seq(IntRange)
             /\ \E f : /\ Origins(Len(out), Len(rs), f)
                       /\ \A j \in 1 .. Len(out) :
                             /\ lo <= out[j].start /\ out[j].start <= out[j].end /\ out[j].end <= hi
                             /\ out[j].start .. out[j].end \subseteq rs[f[j]].start .. rs[f[j]].end
<1> DEFINE N == Len(rs)
           drop == [i \in 1 .. N |-> rs[i].start > hi \/ rs[i].end < lo]
           item == [i \in 1 .. N |-> Clamp(rs[i], lo, hi)]
           out == ClampExcludeRanges(rs, lo, hi)
<1>1. N \in Nat /\ DOMAIN rs = 1 .. N /\ \A i \in 1 .. N : rs[i] \in IntRange
  BY RangeSeq, Zenon
<1>2. out = Concat(Kept(N, drop, item))
  <2>1. Kept(N, drop, item)
          = [i \in DOMAIN rs |->
                IF rs[i].start > hi \/ rs[i].end < lo THEN <<>> ELSE <<Clamp(rs[i], lo, hi)>>]
    BY <1>1, Zenon DEF Kept
  <2> QED BY <2>1, Zenon DEF ClampExcludeRanges
<1> HIDE DEF N, out
<1>3. \A i \in 1 .. N : /\ item[i] = Clamp(rs[i], lo, hi)
                        /\ drop[i] <=> (rs[i].start > hi \/ rs[i].end < lo)
  BY Zenon
<1> HIDE DEF drop, item
<1>4. ASSUME NEW i \in 1 .. N
      PROVE  /\ item[i] \in IntRange
             /\ ~drop[i] => /\ lo <= item[i].start /\ item[i].start <= item[i].end /\ item[i].end <= hi
                            /\ \A a \in item[i].start .. item[i].end : a \in rs[i].start .. rs[i].end
  <2>1. PICK r \in IntRange : r = rs[i]
    BY <1>1
  <2>2. r.start <= r.end /\ item[i] = Clamp(r, lo, hi) /\ (drop[i] <=> (r.start > hi \/ r.end < lo))
    BY <1>3, <2>1, Zenon DEF N
  <2>3. /\ Clamp(r, lo, hi) \in IntRange
        /\ ~(r.start > hi \/ r.end < lo) =>
               /\ lo <= Clamp(r, lo, hi).start
               /\ Clamp(r, lo, hi).start <= Clamp(r, lo, hi).end
               /\ Clamp(r, lo, hi).end <= hi
        /\ \A a : (~(r.start > hi \/ r.end < lo) /\ a \in Clamp(r, lo, hi).start .. Clamp(r, lo, hi).end)
                    <=> (a \in r.start .. r.end /\ a \in lo .. hi)
    BY <2>2, ClampOne, Zenon
  <2> QED BY <2>1, <2>2, <2>3, Zenon
<1>5. KeptItems(N, drop, item) \subseteq IntRange
  BY <1>4, Zenon DEF KeptItems
<1>6. /\ out \in Seq(IntRange)
      /\ \E f : /\ Origins(Len(out), N, f)
                /\ \A j \in 1 .. Len(out) : ~drop[f[j]] /\ out[j] = item[f[j]]
  <2> DEFINE kept == Concat(Kept(N, drop, item))
  <2>0. N \in Nat
    BY <1>1
  <2>1. /\ kept \in Seq(IntRange)
        /\ \E f : /\ Origins(Len(kept), N, f)
                  /\ \A j \in 1 .. Len(kept) : ~drop[f[j]] /\ kept[j] = item[f[j]]
    BY <2>0, <1>5, FilterOrigins
  <2> HIDE DEF kept
  <2>2. out = kept
    BY <1>2, Zenon DEF kept
  <2> QED BY <2>1, <2>2, Zenon
<1>7. PICK f : /\ Origins(Len(out), N, f)
               /\ \A j \in 1 .. Len(out) : ~drop[f[j]] /\ out[j] = item[f[j]]
  BY <1>6, Zenon
<1>8. ASSUME NEW j \in 1 .. Len(out)
      PROVE  /\ lo <= out[j].start /\ out[j].start <= out[j].end /\ out[j].end <= hi
             /\ out[j].start .. out[j].end \subseteq rs[f[j]].start .. rs[f[j]].end
  <2>1. f[j] \in 1 .. N
    BY <1>7, Zenon DEF Origins
  <2> QED BY <1>4, <1>7, <2>1, Zenon
<1>9. \E g : /\ Origins(Len(out), Len(rs), g)
             /\ \A j \in 1 .. Len(out) :
                   /\ lo <= out[j].start /\ out[j].start <= out[j].end /\ out[j].end <= hi
                   /\ out[j].start .. out[j].end \subseteq rs[g[j]].start .. rs[g[j]].end
  BY <1>7, <1>8, Zenon DEF N
<1> QED BY <1>6, <1>9, Zenon DEF out

\* Per-node exclusions count from the address from and stay below MaxIP.
IndexesFit(is, from) ==
    \A i \in 1 .. Len(is) : 0 <= is[i].start /\ is[i].start <= is[i].end /\ from + is[i].end <= MaxIP

\* buildPerNodeExclusions: a part of each index range, moved to the node's
\* addresses, and together all that the indexes denote there.
LEMMA PerNodeList ==
  ASSUME NEW o, o.perNode \in Seq(IntRange), NEW from \in 0 .. MaxIP, NEW to \in 0 .. MaxIP, from <= to,
         IndexesFit(o.perNode, from)
  PROVE  LET out == buildPerNodeExclusions(o, from, to)
         IN  /\ out \in Seq(IntRange)
             /\ \E f : /\ Origins(Len(out), Len(o.perNode), f)
                       /\ \A j \in 1 .. Len(out) :
                             /\ from <= out[j].start /\ out[j].start <= out[j].end /\ out[j].end <= to
                             /\ out[j].start .. out[j].end
                                  \subseteq from + o.perNode[f[j]].start .. from + o.perNode[f[j]].end
             /\ \A a \in from .. to : a \in Denotes(out) <=> a - from \in Denotes(o.perNode)
<1> DEFINE is == o.perNode
           mid == ExcludeIndexRangeToExcludeRange(is, from)
           out == ClampExcludeRanges(mid, from, to)
<1>1. /\ is \in Seq(IntRange) /\ Len(is) \in Nat
      /\ \A i \in 1 .. Len(is) : is[i] \in IntRange /\ is[i].start \in Int /\ is[i].end \in Int
  BY RangeSeq, Zenon
<1>2. Elems(is) = {is[i] : i \in 1 .. Len(is)}
  BY <1>1, RangeSeq, Zenon DEF Elems
<1>3. \A i \in 1 .. Len(is) : 0 <= is[i].start /\ is[i].start <= is[i].end /\ from + is[i].end <= MaxIP
  BY Zenon DEF IndexesFit
<1>a. from \in Int /\ to \in Int /\ MaxIP \in Int
  BY MaxIPAssumption
<1> HIDE DEF is
<1>4. mid \in Seq(IntRange)
  BY <1>1, <1>3, ShiftOrigins, Zenon
<1>5. PICK f : /\ Origins(Len(mid), Len(is), f)
               /\ \A j \in 1 .. Len(mid) : mid[j].start = from + is[f[j]].start /\ mid[j].end = from + is[f[j]].end
  BY <1>1, <1>3, ShiftOrigins, Zenon
<1>6. /\ \A r \in Elems(mid) : \E q \in Elems(is) : r.start = from + q.start /\ r.end = from + q.end
      /\ \A q \in Elems(is) : from + q.end <= MaxIP =>
             \E r \in Elems(mid) : r.start = from + q.start /\ r.end = from + q.end
  BY <1>1, <1>2, <1>3, IndexFacts, Zenon
<1> HIDE DEF mid
<1>7. Len(mid) \in Nat /\ DOMAIN mid = 1 .. Len(mid)
      /\ \A j \in 1 .. Len(mid) : mid[j] \in IntRange /\ mid[j].start \in Int /\ mid[j].end \in Int
  BY <1>4, RangeSeq, Zenon
<1>8. ASSUME NEW j \in 1 .. Len(mid)
      PROVE  mid[j].start <= mid[j].end
  <2>1. f[j] \in 1 .. Len(is)
    BY <1>5, Zenon DEF Origins
  <2>2. PICK s \in Int, e \in Int : s = is[f[j]].start /\ e = is[f[j]].end /\ s <= e
    BY <1>1, <1>3, <2>1, Zenon
  <2>3. mid[j].start = from + s /\ mid[j].end = from + e
    BY <1>5, <2>2, Zenon
  <2>4. from + s <= from + e
    BY <1>a, <2>2, SMTT(30)
  <2> QED BY <2>3, <2>4, Zenon
<1>9. out \in Seq(IntRange)
  BY <1>4, <1>8, <1>a, ClampOrigins, Zenon
<1>10. PICK g : /\ Origins(Len(out), Len(mid), g)
                /\ \A j \in 1 .. Len(out) :
                      /\ from <= out[j].start /\ out[j].start <= out[j].end /\ out[j].end <= to
                      /\ out[j].start .. out[j].end \subseteq mid[g[j]].start .. mid[g[j]].end
  BY <1>4, <1>8, <1>a, ClampOrigins, Zenon
<1>11. Denotes(out) = Denotes(mid) \cap (from .. to)
  <2>1. InOrder(mid)
    BY <1>7, <1>8, Zenon DEF InOrder, Elems
  <2> QED BY <1>4, <1>a, <2>1, ClampFacts, Zenon
<1> HIDE DEF out
<1>12. Len(out) \in Nat
  BY <1>9, RangeSeq, Zenon
<1> DEFINE h == [i \in 1 .. Len(out) |-> f[g[i]]]
<1>13. Origins(Len(out), Len(is), h)
  BY <1>1, <1>5, <1>7, <1>10, <1>12, OriginsCompose, Zenon
<1>14. ASSUME NEW j \in 1 .. Len(out)
       PROVE  /\ from <= out[j].start /\ out[j].start <= out[j].end /\ out[j].end <= to
              /\ out[j].start .. out[j].end \subseteq from + is[h[j]].start .. from + is[h[j]].end
  <2>1. g[j] \in 1 .. Len(mid) /\ h[j] = f[g[j]]
    BY <1>10, Zenon DEF Origins
  <2>2. mid[g[j]].start = from + is[h[j]].start /\ mid[g[j]].end = from + is[h[j]].end
    BY <1>5, <2>1, Zenon
  <2> HIDE DEF h
  <2> QED BY <1>10, <2>2, Zenon
<1> HIDE DEF h
<1>15. ASSUME NEW a \in from .. to
       PROVE  a \in Denotes(out) <=> a - from \in Denotes(is)
  <2>1. a \in Denotes(out) <=> \E r \in Elems(mid) : a \in r.start .. r.end
    BY <1>11, DenotesElems, Zenon
  <2>2. a - from \in Denotes(is) <=> \E q \in Elems(is) : a - from \in q.start .. q.end
    BY DenotesElems, Zenon
  <2>3. \A q \in Elems(is) : q.start \in Int /\ q.end \in Int /\ from + q.end <= MaxIP
    BY <1>1, <1>2, <1>3, Zenon
  <2>4. \A s, e \in Int : a - from \in s .. e <=> a \in from + s .. from + e
    BY <1>a
  <2>5. ASSUME NEW r \in Elems(mid), a \in r.start .. r.end
        PROVE  \E q \in Elems(is) : a - from \in q.start .. q.end
    <3>1. PICK q \in Elems(is) : r.start = from + q.start /\ r.end = from + q.end
      BY <1>6, Zenon
    <3>2. a \in from + q.start .. from + q.end
      BY <2>5, <3>1, Zenon
    <3> QED BY <2>3, <2>4, <3>2, Zenon
  <2>6. ASSUME NEW q \in Elems(is), a - from \in q.start .. q.end
        PROVE  \E r \in Elems(mid) : a \in r.start .. r.end
    <3>1. PICK r \in Elems(mid) : r.start = from + q.start /\ r.end = from + q.end
      BY <1>6, <2>3, Zenon
    <3>2. a \in from + q.start .. from + q.end
      BY <2>3, <2>4, <2>6, Zenon
    <3> QED BY <3>1, <3>2, Zenon
  <2> QED BY <2>1, <2>2, <2>5, <2>6, Zenon
<1>16. buildPerNodeExclusions(o, from, to) = out
  BY Zenon DEF buildPerNodeExclusions, out, mid, is
<1>17. \E k : /\ Origins(Len(out), Len(o.perNode), k)
              /\ \A j \in 1 .. Len(out) :
                    /\ from <= out[j].start /\ out[j].start <= out[j].end /\ out[j].end <= to
                    /\ out[j].start .. out[j].end
                         \subseteq from + o.perNode[k[j]].start .. from + o.perNode[k[j]].end
  BY <1>13, <1>14, Zenon DEF is
<1>18. \A a \in from .. to : a \in Denotes(out) <=> a - from \in Denotes(o.perNode)
  BY <1>15, Zenon DEF is
<1> QED BY <1>9, <1>16, <1>17, <1>18, Zenon

\* The usable addresses of a prefix are a part of it, and not empty.
LEMMA PrefixBounds ==
  ASSUME NEW o, o.net \in Net, o.v4 \in BOOLEAN
  PROVE  /\ o.net.lo \in Nat /\ o.net.hi \in Nat /\ o.net.lo <= o.net.hi /\ o.net.hi <= MaxIP
         /\ FirstIP(o) \in Int /\ LastIP(o) \in Int
         /\ o.net.lo <= FirstIP(o) /\ FirstIP(o) <= LastIP(o) /\ LastIP(o) <= o.net.hi
<1>1. PICK lo \in Nat, hi \in Nat : lo = o.net.lo /\ hi = o.net.hi /\ lo <= hi /\ hi <= MaxIP
  BY DEF Net
<1>2. Size(o) = hi - lo + 1
  BY <1>1, Zenon DEF Size
<1>3. /\ FirstIP(o) = IF hi - lo + 1 <= 2 THEN lo ELSE lo + 1
      /\ LastIP(o) = IF o.v4 /\ hi - lo + 1 > 2 THEN lo + (hi - lo + 1) - 2 ELSE lo + (hi - lo + 1) - 1
  BY <1>1, <1>2 DEF FirstIP, LastIP, P!LastIP
<1>4. PICK f, l : f = FirstIP(o) /\ l = LastIP(o)
  OBVIOUS
<1>5. f \in Int /\ l \in Int /\ lo <= f /\ f <= l /\ l <= hi
  BY <1>1, <1>3, <1>4
<1> QED BY <1>1, <1>4, <1>5, Zenon

\* The interval arithmetic of Cut, with lo .. hi for the prefix and f .. l for
\* its usable addresses.
LEMMA CutArithmetic ==
  ASSUME NEW lo \in Int, NEW hi \in Int, NEW f \in Int, NEW l \in Int, lo <= f, f <= l, l <= hi,
         NEW s \in Int, NEW e \in Int, s <= e,
         (lo <= s /\ s <= hi) \/ (lo <= e /\ e <= hi),
         NEW cs, cs = IF lo <= s /\ s <= hi THEN s ELSE f,
         NEW ce, ce = IF lo <= e /\ e <= hi THEN e ELSE l
  PROVE  /\ cs \in Int /\ ce \in Int
         /\ lo <= cs /\ cs <= hi /\ lo <= ce /\ ce <= hi
         /\ \A a \in f .. l : a \in cs .. ce <=> a \in s .. e
         /\ cs .. ce \subseteq s .. e
         /\ \/ cs <= ce
            \/ /\ ~((lo <= s /\ s <= hi) <=> (lo <= e /\ e <= hi))
               /\ \A a \in f .. l : a \notin s .. e
<1>1. CASE lo <= s /\ s <= hi /\ lo <= e /\ e <= hi
  BY <1>1
<1>2. CASE lo <= s /\ s <= hi /\ ~(lo <= e /\ e <= hi)
  <2>1. cs = s /\ ce = l /\ e > hi
    BY <1>2
  <2> QED BY <1>2, <2>1
<1>3. CASE ~(lo <= s /\ s <= hi) /\ lo <= e /\ e <= hi
  <2>1. cs = f /\ ce = e /\ s < lo
    BY <1>3
  <2> QED BY <1>3, <2>1
<1> QED BY <1>1, <1>2, <1>3, Zenon

\* An exclusion cut to a prefix it has an end in: it keeps its usable
\* addresses, gets no others, and is empty only if it has none of them.
LEMMA CutOne ==
  ASSUME NEW o, o.net \in Net, o.v4 \in BOOLEAN, NEW r \in IntRange, r.start <= r.end, Related(o, r)
  PROVE  LET c == Cut(o, r)
         IN  /\ c \in IntRange
             /\ o.net.lo <= c.start /\ c.start <= o.net.hi /\ o.net.lo <= c.end /\ c.end <= o.net.hi
             /\ \A a \in FirstIP(o) .. LastIP(o) : a \in c.start .. c.end <=> a \in r.start .. r.end
             /\ c.start .. c.end \subseteq r.start .. r.end
             /\ \/ c.start <= c.end
                \/ /\ ~(R!InSubnet(o.net, r.start) <=> R!InSubnet(o.net, r.end))
                   /\ \A a \in FirstIP(o) .. LastIP(o) : a \notin r.start .. r.end
<1>1. PICK lo, hi, f, l, s, e : /\ lo = o.net.lo /\ hi = o.net.hi /\ f = FirstIP(o) /\ l = LastIP(o)
                                /\ s = r.start /\ e = r.end
  OBVIOUS
<1>2. /\ lo \in Int /\ hi \in Int /\ f \in Int /\ l \in Int /\ lo <= f /\ f <= l /\ l <= hi
  <2>1. \A n \in Nat : n \in Int
    OBVIOUS
  <2> QED BY <1>1, <2>1, PrefixBounds, Zenon
<1>3. s \in Int /\ e \in Int /\ s <= e
  BY <1>1 DEF IntRange
<1>4. /\ R!InSubnet(o.net, r.start) <=> (lo <= s /\ s <= hi)
      /\ R!InSubnet(o.net, r.end) <=> (lo <= e /\ e <= hi)
  BY <1>1, Zenon DEF R!InSubnet
<1>5. (lo <= s /\ s <= hi) \/ (lo <= e /\ e <= hi)
  BY <1>4, Zenon DEF Related
<1>6. PICK cs, ce : /\ cs = IF lo <= s /\ s <= hi THEN s ELSE f
                    /\ ce = IF lo <= e /\ e <= hi THEN e ELSE l
  OBVIOUS
<1>7. Cut(o, r) = [start |-> cs, end |-> ce]
  BY <1>1, <1>4, <1>6, Zenon DEF Cut
<1>8. /\ cs \in Int /\ ce \in Int
      /\ lo <= cs /\ cs <= hi /\ lo <= ce /\ ce <= hi
      /\ \A a \in f .. l : a \in cs .. ce <=> a \in s .. e
      /\ cs .. ce \subseteq s .. e
      /\ \/ cs <= ce
         \/ /\ ~((lo <= s /\ s <= hi) <=> (lo <= e /\ e <= hi))
            /\ \A a \in f .. l : a \notin s .. e
  BY <1>2, <1>3, <1>5, <1>6, CutArithmetic, SMTT(30)
<1>9. PICK c : c = Cut(o, r)
  OBVIOUS
<1>10. c \in IntRange /\ c.start = cs /\ c.end = ce
  BY <1>7, <1>8, <1>9 DEF IntRange
<1> QED BY <1>1, <1>4, <1>8, <1>9, <1>10, Zenon

\* buildExclusions: the exclusions with an end in the prefix, cut to it.
LEMMA ExclusionList ==
  ASSUME NEW o, o.net \in Net, o.v4 \in BOOLEAN, o.excl \in Seq(IntRange),
         \A i \in 1 .. Len(o.excl) : o.excl[i].start <= o.excl[i].end
  PROVE  LET out == buildExclusions(o)
         IN  /\ out \in Seq(IntRange)
             /\ \E f : /\ Origins(Len(out), Len(o.excl), f)
                       /\ \A j \in 1 .. Len(out) :
                             Related(o, o.excl[f[j]]) /\ out[j] = Cut(o, o.excl[f[j]])
             /\ Elems(out) = {Cut(o, o.excl[i]) : i \in {j \in 1 .. Len(o.excl) : Related(o, o.excl[j])}}
<1> DEFINE N == Len(o.excl)
           drop == [i \in 1 .. N |-> ~Related(o, o.excl[i])]
           item == [i \in 1 .. N |-> Cut(o, o.excl[i])]
           kept == Concat(Kept(N, drop, item))
<1>1. N \in Nat /\ DOMAIN o.excl = 1 .. N /\ \A i \in 1 .. N : o.excl[i] \in IntRange
  BY RangeSeq, Zenon
<1>2. buildExclusions(o) = kept
  <2>1. Kept(N, drop, item)
          = [i \in DOMAIN o.excl |-> IF ~Related(o, o.excl[i]) THEN <<>> ELSE <<Cut(o, o.excl[i])>>]
    BY <1>1, Zenon DEF Kept
  <2> QED BY <2>1, Zenon DEF buildExclusions
<1> HIDE DEF N
<1>3. \A i \in 1 .. N : item[i] = Cut(o, o.excl[i]) /\ (drop[i] <=> ~Related(o, o.excl[i]))
  BY Zenon
<1> HIDE DEF drop, item
<1>4. ASSUME NEW i \in 1 .. N, ~drop[i]
      PROVE  item[i] \in IntRange
  <2>1. PICK r \in IntRange : r = o.excl[i] /\ r.start <= r.end /\ Related(o, r)
    BY <1>1, <1>3, <1>4, Zenon DEF N
  <2>2. Cut(o, r) \in IntRange
    BY <2>1, CutOne, Zenon
  <2> QED BY <1>3, <2>1, <2>2, Zenon
<1>5. KeptItems(N, drop, item) \subseteq IntRange
  BY <1>4, Zenon DEF KeptItems
<1>6. N \in Nat
  BY <1>1
<1>7. /\ kept \in Seq(IntRange)
      /\ \E f : /\ Origins(Len(kept), N, f)
                /\ \A j \in 1 .. Len(kept) : ~drop[f[j]] /\ kept[j] = item[f[j]]
  BY ONLY <1>5, <1>6, FilterOrigins
<1>8. Elems(kept) = KeptItems(N, drop, item)
  BY ONLY <1>5, <1>6, FilterMap
<1> HIDE DEF kept
<1>9. PICK f : /\ Origins(Len(kept), N, f)
               /\ \A j \in 1 .. Len(kept) : ~drop[f[j]] /\ kept[j] = item[f[j]]
  BY <1>7, Zenon
<1>10. \A j \in 1 .. Len(kept) : Related(o, o.excl[f[j]]) /\ kept[j] = Cut(o, o.excl[f[j]])
  <2>1. \A j \in 1 .. Len(kept) : f[j] \in 1 .. N
    BY <1>9, Zenon DEF Origins
  <2> QED BY <1>3, <1>9, <2>1, Zenon
<1>11. Elems(kept) = {Cut(o, o.excl[i]) : i \in {j \in 1 .. N : Related(o, o.excl[j])}}
  BY <1>3, <1>8, Zenon DEF KeptItems
<1> QED BY <1>2, <1>7, <1>9, <1>10, <1>11, Zenon DEF N
-----------------------------------------------------------------------------
(***************************************************************************)
(* What allocateInPool offers of a configuration.                          *)
(***************************************************************************)

\* A configuration that is not the one for a missing pool.
IsConfig(c) ==
    c # NoPool /\ c.net \in Net /\ c.start \in Int /\ c.end \in Int /\ c.excl \in Seq(IntRange)

\* The one range of a pool is canonical when it lies in the subnet.
LEMMA OneRange ==
  ASSUME NEW c, IsConfig(c)
  PROVE  R!CanonicalSet(RangeSet(c)) <=> c.net.lo <= c.start /\ c.start <= c.end /\ c.end <= c.net.hi
<1> DEFINE r == [subnet |-> c.net, start |-> c.start, end |-> c.end, gw |-> c.gw]
<1>1. RangeSet(c) = <<r>>
  BY Zenon DEF RangeSet
<1>2. r.subnet = c.net /\ r.start = c.start /\ r.end = c.end
  OBVIOUS
<1> HIDE DEF r
<1>3. <<r>> # <<>> /\ DOMAIN <<r>> = {1} /\ <<r>>[1] = r /\ ~(1 < 1)
  OBVIOUS
<1>4. R!CanonicalSet(<<r>>) <=> R!CanonicalRange(r)
  BY <1>3, Zenon DEF R!CanonicalSet
<1>5. PICK lo \in Int, hi \in Int, s \in Int, e \in Int :
          lo = c.net.lo /\ hi = c.net.hi /\ s = c.start /\ e = c.end
  BY DEF IsConfig, Net
<1>6. R!CanonicalRange(r) <=> /\ lo <= s /\ s <= hi /\ s <= s /\ s <= e
                              /\ lo <= e /\ e <= hi /\ s <= e /\ e <= e
  BY <1>2, <1>5, Zenon DEF R!CanonicalRange, R!Contains, R!InSubnet
<1>7. R!CanonicalRange(r) <=> lo <= s /\ s <= e /\ e <= hi
  BY <1>5, <1>6
<1> QED BY <1>1, <1>4, <1>5, <1>7, Zenon

\* The exclusions as ranges of the node's subnet.
LEMMA ExclusionRange ==
  ASSUME NEW c, IsConfig(c), NEW i \in 1 .. Len(c.excl)
  PROVE  /\ ExclusionRangeSet(c)[i].subnet = c.net
         /\ ExclusionRangeSet(c)[i].start = c.excl[i].start
         /\ ExclusionRangeSet(c)[i].end = c.excl[i].end
<1>1. DOMAIN c.excl = 1 .. Len(c.excl)
  BY RangeSeq, Zenon DEF IsConfig
<1>2. ExclusionRangeSet(c)[i]
        = [subnet |-> c.net, start |-> c.excl[i].start, end |-> c.excl[i].end, gw |-> NoIP]
  BY <1>1, Zenon DEF ExclusionRangeSet
<1> QED BY <1>2

\* The ranges of the exclusions contain what the list denotes in the subnet.
LEMMA ExclusionsContain ==
  ASSUME NEW c, IsConfig(c), NEW a
  PROVE  R!SetContains(ExclusionRangeSet(c), a) <=> R!InSubnet(c.net, a) /\ \E i \in 1 .. Len(c.excl) :
                                                        c.excl[i].start <= a /\ a <= c.excl[i].end
<1>1. DOMAIN ExclusionRangeSet(c) = 1 .. Len(c.excl)
  BY RangeSeq, Zenon DEF IsConfig, ExclusionRangeSet
<1>2. ASSUME NEW i \in 1 .. Len(c.excl)
      PROVE  R!Contains(ExclusionRangeSet(c)[i], a)
                <=> R!InSubnet(c.net, a) /\ c.excl[i].start <= a /\ a <= c.excl[i].end
  BY ExclusionRange, Zenon DEF R!Contains
<1> QED BY <1>1, <1>2, Zenon DEF R!SetContains

\* The iterator can yield the addresses of the range that are neither the
\* gateway nor excluded, if allocateInPool accepts the configuration.
LEMMA OfferedIs ==
  ASSUME NEW c, IsConfig(c), NEW a
  PROVE  a \in Offered(c)
           <=> Accepted(c) /\ a \in c.start .. c.end /\ a # c.gw /\ a \notin Denotes(c.excl)
<1> DEFINE rs == RangeSet(c)
           r == [subnet |-> c.net, start |-> c.start, end |-> c.end, gw |-> c.gw]
           excl == ExclusionRangeSet(c)
<1>1. rs = <<r>> /\ r.start = c.start /\ r.end = c.end /\ r.gw = c.gw
  BY DEF RangeSet
<1>2. DOMAIN rs = {1} /\ rs[1] = r
  BY <1>1
<1> HIDE DEF rs, r, excl
<1> DEFINE T(i) == {<<i, b>> : b \in rs[i].start .. rs[i].end}
<1>3. R!Slots(rs) = T(1)
  <2>1. R!Slots(rs) = UNION {T(i) : i \in {1}}
    BY <1>2, Zenon DEF R!Slots
  <2> HIDE DEF T
  <2>2. UNION {T(i) : i \in {1}} = T(1)
    BY Zenon
  <2> QED BY <2>1, <2>2, Zenon
<1>4. ASSUME NEW s
      PROVE  s \in R!Slots(rs) <=> \E b \in c.start .. c.end : s = <<1, b>>
  BY <1>1, <1>2, <1>3, Zenon
<1>5. a \in {s[2] : s \in R!Allocatable(rs, excl)}
        <=> a \in c.start .. c.end /\ a # c.gw /\ ~R!SetContains(excl, a)
  <2>1. \A b : <<1, b>>[1] = 1 /\ <<1, b>>[2] = b
    OBVIOUS
  <2>2. \A b : <<1, b>> \in R!Slots(rs) => b \in c.start .. c.end
    <3> SUFFICES ASSUME NEW b, <<1, b>> \in R!Slots(rs)
                 PROVE  b \in c.start .. c.end
      OBVIOUS
    <3>1. PICK d \in c.start .. c.end : <<1, b>> = <<1, d>>
      BY <1>4, Zenon
    <3>2. b = d
      BY <3>1
    <3> QED BY <3>1, <3>2, Zenon
  <2>3. \A b : <<1, b>> \in R!Allocatable(rs, excl)
                 <=> b \in c.start .. c.end /\ b # c.gw /\ ~R!SetContains(excl, b)
    <3> TAKE b
    <3>1. <<1, b>> \in R!Allocatable(rs, excl)
            <=> <<1, b>> \in R!Slots(rs) /\ b # c.gw /\ ~R!SetContains(excl, b)
      BY <1>1, <1>2, <2>1, Zenon DEF R!Allocatable
    <3>2. <<1, b>> \in R!Slots(rs) <=> b \in c.start .. c.end
      BY <1>4, <2>2, Zenon
    <3> QED BY <3>1, <3>2, Zenon
  <2>4. \A s \in R!Allocatable(rs, excl) : \E b \in c.start .. c.end : s = <<1, b>>
    BY <1>4, Zenon DEF R!Allocatable
  <2>5. ASSUME NEW s \in R!Allocatable(rs, excl), a = s[2]
        PROVE  a \in c.start .. c.end /\ a # c.gw /\ ~R!SetContains(excl, a)
    <3>1. PICK b \in c.start .. c.end : s = <<1, b>>
      BY <2>4, Zenon
    <3>2. a = b
      BY <2>1, <2>5, <3>1, Zenon
    <3> QED BY <2>3, <3>1, <3>2, Zenon
  <2>6. ASSUME a \in c.start .. c.end /\ a # c.gw /\ ~R!SetContains(excl, a)
        PROVE  \E s \in R!Allocatable(rs, excl) : a = s[2]
    BY <2>1, <2>3, <2>6, Zenon
  <2> QED BY <2>5, <2>6, Zenon
<1>6. ASSUME Accepted(c), a \in c.start .. c.end
      PROVE  R!SetContains(excl, a) <=> a \in Denotes(c.excl)
  <2>1. c.net.lo <= c.start /\ c.start <= c.end /\ c.end <= c.net.hi
    BY <1>6, OneRange, Zenon DEF Accepted
  <2>2. PICK lo \in Int, hi \in Int, s \in Int, e \in Int :
            lo = c.net.lo /\ hi = c.net.hi /\ s = c.start /\ e = c.end
    BY DEF IsConfig, Net
  <2>3. a \in Int /\ lo <= a /\ a <= hi
    BY <1>6, <2>1, <2>2
  <2>4. R!InSubnet(c.net, a)
    BY <2>2, <2>3, Zenon DEF R!InSubnet
  <2>5. R!SetContains(excl, a) <=> \E i \in 1 .. Len(c.excl) : c.excl[i].start <= a /\ a <= c.excl[i].end
    BY <2>4, ExclusionsContain, Zenon DEF excl
  <2>6. a \in Denotes(c.excl) <=> \E i \in 1 .. Len(c.excl) : a \in c.excl[i].start .. c.excl[i].end
    BY DenotesIndex, Zenon DEF IsConfig
  <2>7. \A i \in 1 .. Len(c.excl) : c.excl[i].start \in Int /\ c.excl[i].end \in Int
    BY RangeSeq, Zenon DEF IsConfig
  <2>8. \A x, y \in Int : a \in x .. y <=> x <= a /\ a <= y
    BY <2>3
  <2> QED BY <2>5, <2>6, <2>7, <2>8, Zenon
<1>7. a \in Offered(c) <=> Accepted(c) /\ a \in {s[2] : s \in R!Allocatable(rs, excl)}
  BY Zenon DEF Offered, rs, excl, IsConfig
<1> QED BY <1>5, <1>6, <1>7, Zenon

\* allocateInPool accepts a configuration whose exclusions come from different
\* ranges of a list, of which no two share an address of the subnet.
LEMMA AcceptedWhen ==
  ASSUME NEW c, IsConfig(c), c.net.lo <= c.start, c.start <= c.end, c.end <= c.net.hi,
         NEW all \in Seq(IntRange), NEW g, Origins(Len(c.excl), Len(all), g),
         \A j \in 1 .. Len(c.excl) :
            /\ c.net.lo <= c.excl[j].start /\ c.excl[j].start <= c.excl[j].end
            /\ c.excl[j].end <= c.net.hi
            /\ c.excl[j].start .. c.excl[j].end \subseteq all[g[j]].start .. all[g[j]].end,
         \A i, j \in 1 .. Len(all) : \A a \in c.net.lo .. c.net.hi :
            i # j => ~(a \in all[i].start .. all[i].end /\ a \in all[j].start .. all[j].end)
  PROVE  Accepted(c)
<1> DEFINE rs == ExclusionRangeSet(c)
           n == Len(c.excl)
<1>1. R!CanonicalSet(RangeSet(c))
  BY OneRange, Zenon
<1>2. DOMAIN rs = 1 .. n /\ n \in Nat
  BY RangeSeq, Zenon DEF IsConfig, ExclusionRangeSet
<1>3. ASSUME NEW j \in 1 .. n
      PROVE  /\ rs[j].subnet = c.net
             /\ rs[j].start = c.excl[j].start
             /\ rs[j].end = c.excl[j].end
  BY ONLY IsConfig(c), j \in 1 .. Len(c.excl), ExclusionRange, Zenon
<1>4. \A j \in 1 .. n : c.excl[j].start \in Int /\ c.excl[j].end \in Int
  BY RangeSeq, Zenon DEF IsConfig
<1>5. PICK lo \in Int, hi \in Int : lo = c.net.lo /\ hi = c.net.hi
  BY DEF IsConfig, Net
<1> HIDE DEF rs
<1>6. ASSUME NEW j \in 1 .. n
      PROVE  R!CanonicalRange(rs[j])
  <2>1. PICK s \in Int, e \in Int : s = c.excl[j].start /\ e = c.excl[j].end
    BY <1>4, Zenon
  <2>2. lo <= s /\ s <= e /\ e <= hi
    BY <1>5, <2>1, Zenon
  <2>3. lo <= e /\ s <= hi /\ s <= s /\ e <= e
    BY ONLY lo \in Int, hi \in Int, s \in Int, e \in Int, <2>2, SMTT(30)
  <2> QED BY <1>3, <1>5, <2>1, <2>2, <2>3, Zenon DEF R!CanonicalRange, R!Contains, R!InSubnet
<1>7. ASSUME NEW i \in 1 .. n, NEW j \in 1 .. n, i # j
      PROVE  ~R!Overlaps(rs[i], rs[j])
  <2>1. g[i] # g[j] /\ g[i] \in 1 .. Len(all) /\ g[j] \in 1 .. Len(all)
    BY <1>7, Zenon DEF Origins
  <2>2. ASSUME NEW a \in lo .. hi, a \in c.excl[i].start .. c.excl[i].end,
               a \in c.excl[j].start .. c.excl[j].end
        PROVE  FALSE
    <3>1. a \in all[g[i]].start .. all[g[i]].end /\ a \in all[g[j]].start .. all[g[j]].end
      BY <2>2, Zenon
    <3> QED BY <1>5, <2>1, <3>1, Zenon
  <2>3. PICK si \in Int, ei \in Int, sj \in Int, ej \in Int :
            si = c.excl[i].start /\ ei = c.excl[i].end /\ sj = c.excl[j].start /\ ej = c.excl[j].end
    BY <1>4, Zenon
  <2>4. lo <= si /\ si <= ei /\ ei <= hi /\ lo <= sj /\ sj <= ej /\ ej <= hi
    BY <1>5, <2>3, Zenon
  <2>5. ASSUME NEW a \in {si, ei, sj, ej}, si <= a, a <= ei, sj <= a, a <= ej
        PROVE  FALSE
    <3>1. a \in lo .. hi /\ a \in si .. ei /\ a \in sj .. ej
      BY <2>4, <2>5
    <3> QED BY <2>2, <2>3, <3>1, Zenon
  <2>6. si <= si /\ ei <= ei /\ sj <= sj /\ ej <= ej
    BY ONLY si \in Int, ei \in Int, sj \in Int, ej \in Int, SMTT(30)
  <2> QED BY <1>3, <2>3, <2>4, <2>5, <2>6, Zenon DEF R!Overlaps, R!Contains
<1>8. ASSUME c.excl # <<>>
      PROVE  R!CanonicalSet(rs)
  <2>1. n # 0
    BY <1>8 DEF IsConfig
  <2>2. rs # <<>>
    <3>1. DOMAIN <<>> = {} /\ 1 \in 1 .. n
      BY <1>2, <2>1
    <3> QED BY <1>2, <3>1, Zenon
  <2>3. \A i, j \in 1 .. n : i < j => i # j
    BY <1>2
  <2> QED BY <1>2, <1>6, <1>7, <2>2, <2>3, Zenon DEF R!CanonicalSet
<1> QED BY <1>1, <1>8, Zenon DEF Accepted, rs
-----------------------------------------------------------------------------
(***************************************************************************)
(* A configuration whose exclusions are a list of addresses e, made from   *)
(* the exclusions of the object, and then the per-node list.               *)
(***************************************************************************)

\* The index ranges of an object, moved to the addresses from index0 on.
Shifted(o, index0) ==
    [i \in DOMAIN o.perNode |->
        [start |-> index0 + o.perNode[i].start, end |-> index0 + o.perNode[i].end]]

\* Two lists one after the other, and the lists they come from.
LEMMA OriginsAppend ==
  ASSUME NEW m1 \in Nat, NEW n1 \in Nat, NEW f, Origins(m1, n1, f),
         NEW m2 \in Nat, NEW n2 \in Nat, NEW h, Origins(m2, n2, h)
  PROVE  Origins(m1 + m2, n1 + n2,
                 [j \in 1 .. m1 + m2 |-> IF j <= m1 THEN f[j] ELSE n1 + h[j - m1]])
<1> DEFINE g == [j \in 1 .. m1 + m2 |-> IF j <= m1 THEN f[j] ELSE n1 + h[j - m1]]
<1>1. /\ \A i \in 1 .. m1 : f[i] \in 1 .. n1
      /\ \A i \in 1 .. m2 : h[i] \in 1 .. n2
      /\ \A i, j \in 1 .. m1 : i # j => f[i] # f[j]
      /\ \A i, j \in 1 .. m2 : i # j => h[i] # h[j]
  BY Zenon DEF Origins
<1>2. \A j \in 1 .. m1 + m2 : g[j] = IF j <= m1 THEN f[j] ELSE n1 + h[j - m1]
  BY Zenon
<1>3. \A j \in 1 .. m1 + m2 : IF j <= m1 THEN j \in 1 .. m1 ELSE j - m1 \in 1 .. m2
  OBVIOUS
<1>4. g = [j \in 1 .. m1 + m2 |-> g[j]]
  BY Zenon
<1> HIDE DEF g
<1>5. ASSUME NEW j \in 1 .. m1 + m2
      PROVE  /\ g[j] \in 1 .. n1 + n2
             /\ j <= m1 => j \in 1 .. m1 /\ g[j] = f[j] /\ g[j] <= n1
             /\ ~(j <= m1) => j - m1 \in 1 .. m2 /\ g[j] = n1 + h[j - m1] /\ n1 < g[j]
  <2>1. CASE j <= m1
    <3>1. g[j] = f[j] /\ f[j] \in 1 .. n1 /\ j \in 1 .. m1
      BY <1>1, <1>2, <1>3, <2>1, Zenon
    <3> QED BY <2>1, <3>1
  <2>2. CASE ~(j <= m1)
    <3>1. PICK d : d = j - m1
      OBVIOUS
    <3>2. g[j] = n1 + h[d] /\ d \in 1 .. m2 /\ h[d] \in 1 .. n2
      BY <1>1, <1>2, <1>3, <2>2, <3>1, Zenon
    <3>3. PICK x \in 1 .. n2 : x = h[d]
      BY <3>2, Zenon
    <3>4. n1 + x \in 1 .. n1 + n2 /\ n1 < n1 + x
      OBVIOUS
    <3> QED BY <2>2, <3>1, <3>2, <3>3, <3>4, Zenon
  <2> QED BY <2>1, <2>2, Zenon
<1>6. ASSUME NEW i \in 1 .. m1 + m2, NEW j \in 1 .. m1 + m2, i # j
      PROVE  g[i] # g[j]
  <2>1. CASE i <= m1 /\ j <= m1
    BY <1>1, <1>5, <1>6, <2>1, Zenon
  <2>2. CASE i <= m1 /\ ~(j <= m1)
    <3>1. g[i] <= n1 /\ n1 < g[j] /\ g[i] \in 1 .. n1 + n2 /\ g[j] \in 1 .. n1 + n2
      BY <1>5, <2>2, Zenon
    <3> QED BY <3>1
  <2>3. CASE ~(i <= m1) /\ j <= m1
    <3>1. g[j] <= n1 /\ n1 < g[i] /\ g[i] \in 1 .. n1 + n2 /\ g[j] \in 1 .. n1 + n2
      BY <1>5, <2>3, Zenon
    <3> QED BY <3>1
  <2>4. CASE ~(i <= m1) /\ ~(j <= m1)
    <3>1. PICK d, e : d = i - m1 /\ e = j - m1
      OBVIOUS
    <3>2. g[i] = n1 + h[d] /\ g[j] = n1 + h[e] /\ d \in 1 .. m2 /\ e \in 1 .. m2
      BY <1>5, <2>4, <3>1, Zenon
    <3>3. d # e
      BY <1>6, <3>1
    <3>4. h[d] # h[e] /\ h[d] \in 1 .. n2 /\ h[e] \in 1 .. n2
      BY <1>1, <3>2, <3>3, Zenon
    <3>5. PICK x \in 1 .. n2, y \in 1 .. n2 : x = h[d] /\ y = h[e]
      BY <3>4, Zenon
    <3>6. n1 + x # n1 + y
      BY <3>4, <3>5
    <3> QED BY <3>2, <3>5, <3>6, Zenon
  <2> QED BY <2>1, <2>2, <2>3, <2>4, Zenon
<1>7. g \in [1 .. m1 + m2 -> 1 .. n1 + n2]
  BY <1>4, <1>5, Zenon
<1>8. Origins(m1 + m2, n1 + n2, g)
  BY <1>6, <1>7, Zenon DEF Origins
<1> QED BY <1>8, Zenon DEF g

\* The elements of two lists one after the other.
LEMMA AppendIndex ==
  ASSUME NEW s \in Seq(IntRange), NEW t \in Seq(IntRange)
  PROVE  /\ s \o t \in Seq(IntRange) /\ Len(s \o t) = Len(s) + Len(t)
         /\ \A i \in 1 .. Len(s) : (s \o t)[i] = s[i]
         /\ \A i \in 1 .. Len(t) : (s \o t)[Len(s) + i] = t[i]
  OBVIOUS

\* What the two lists denote together.
LEMMA AppendDenotes ==
  ASSUME NEW s \in Seq(IntRange), NEW t \in Seq(IntRange), NEW a
  PROVE  a \in Denotes(s \o t) <=> a \in Denotes(s) \/ a \in Denotes(t)
<1>1. Elems(s \o t) = Elems(s) \cup Elems(t)
  BY ElemsOfAppend, ZenonT(60)
<1> QED BY <1>1, DenotesElems, Zenon

\* The moved index ranges.
LEMMA ShiftedList ==
  ASSUME NEW o, o.perNode \in Seq(IntRange), NEW index0 \in Int
  PROVE  /\ Shifted(o, index0) \in Seq(IntRange) /\ Len(Shifted(o, index0)) = Len(o.perNode)
         /\ \A i \in 1 .. Len(o.perNode) : /\ Shifted(o, index0)[i].start = index0 + o.perNode[i].start
                                           /\ Shifted(o, index0)[i].end = index0 + o.perNode[i].end
<1> DEFINE is == o.perNode
           p == Shifted(o, index0)
<1>1. /\ Len(is) \in Nat /\ DOMAIN is = 1 .. Len(is)
      /\ \A i \in 1 .. Len(is) : is[i].start \in Int /\ is[i].end \in Int
  BY RangeSeq, Zenon
<1>2. p = [i \in 1 .. Len(is) |-> [start |-> index0 + is[i].start, end |-> index0 + is[i].end]]
  BY <1>1, Zenon DEF Shifted
<1>3. ASSUME NEW i \in 1 .. Len(is)
      PROVE  p[i].start = index0 + is[i].start /\ p[i].end = index0 + is[i].end /\ p[i] \in IntRange
  <2>1. PICK x \in Int, y \in Int : x = is[i].start /\ y = is[i].end
    BY <1>1, Zenon
  <2>2. p[i] = [start |-> index0 + x, end |-> index0 + y]
    BY <1>2, <2>1, Zenon
  <2> QED BY ONLY index0 \in Int, x \in Int, y \in Int, <2>1, <2>2, SMTT(30) DEF IntRange
<1>4. p \in [1 .. Len(is) -> IntRange]
  BY <1>2, <1>3, Zenon
<1>5. p \in Seq(IntRange) /\ Len(p) = Len(is)
  BY <1>1, <1>4, IsASeq, Zenon
<1> QED BY <1>3, <1>5, Zenon

\* A configuration made of the addresses from start to end of an object, its
\* per-node list counted from index0, and the list e of other exclusions.
MadeOf(c, o, index0, e) ==
    /\ IsConfig(c) /\ o.perNode \in Seq(IntRange) /\ e \in Seq(IntRange)
    /\ index0 \in 0 .. MaxIP /\ c.end \in 0 .. MaxIP /\ index0 <= c.start /\ c.start <= c.end
    /\ IndexesFit(o.perNode, index0)
    /\ c.excl = e \o buildPerNodeExclusions(o, index0, c.end)

\* Its per-node list is a list of ranges.
LEMMA MadePerNode ==
  ASSUME NEW c, NEW o, NEW index0, NEW e, MadeOf(c, o, index0, e)
  PROVE  buildPerNodeExclusions(o, index0, c.end) \in Seq(IntRange)
<1>1. PICK x \in 0 .. MaxIP, y \in 0 .. MaxIP, s \in Int :
          x = index0 /\ y = c.end /\ s = c.start /\ x <= s /\ s <= y
  BY Zenon DEF MadeOf, IsConfig
<1>2. x <= y
  BY <1>1, MaxIPAssumption
<1> QED BY <1>1, <1>2, PerNodeList, Zenon DEF MadeOf

\* The exclusions of such a configuration denote, among its addresses, what e
\* and the indexes denote.
LEMMA MadeDenotes ==
  ASSUME NEW c, NEW o, NEW index0, NEW e, MadeOf(c, o, index0, e), NEW a \in c.start .. c.end
  PROVE  a \in Denotes(c.excl) <=> a \in Denotes(e) \/ a - index0 \in Denotes(o.perNode)
<1> DEFINE pn == buildPerNodeExclusions(o, index0, c.end)
<1>1. PICK x \in 0 .. MaxIP, y \in 0 .. MaxIP, s \in Int :
          x = index0 /\ y = c.end /\ s = c.start /\ x <= s /\ s <= y
  BY Zenon DEF MadeOf, IsConfig
<1>2. x <= y /\ a \in x .. y
  BY <1>1, MaxIPAssumption
<1>3. /\ pn \in Seq(IntRange)
      /\ \A b \in index0 .. c.end : b \in Denotes(pn) <=> b - index0 \in Denotes(o.perNode)
  BY <1>1, <1>2, PerNodeList, Zenon DEF MadeOf
<1> HIDE DEF pn
<1>4. a \in Denotes(pn) <=> a - index0 \in Denotes(o.perNode)
  BY <1>1, <1>2, <1>3, Zenon
<1>5. e \in Seq(IntRange) /\ c.excl = e \o pn
  BY Zenon DEF MadeOf, pn
<1> QED BY <1>3, <1>4, <1>5, AppendDenotes, Zenon

\* allocateInPool accepts such a configuration if its addresses are in the
\* subnet, e is made of parts of the object's exclusions, and no two of the
\* exclusions share an address of the subnet.
LEMMA MadeAccepted ==
  ASSUME NEW c, NEW o, NEW index0, NEW e, MadeOf(c, o, index0, e), o.excl \in Seq(IntRange),
         c.net.lo <= index0, c.end <= c.net.hi,
         NEW f, Origins(Len(e), Len(o.excl), f),
         \A j \in 1 .. Len(e) :
            /\ c.net.lo <= e[j].start /\ e[j].start <= e[j].end /\ e[j].end <= c.net.hi
            /\ e[j].start .. e[j].end \subseteq o.excl[f[j]].start .. o.excl[f[j]].end,
         NEW all, all = o.excl \o Shifted(o, index0),
         \A i, j \in 1 .. Len(all) : \A a \in c.net.lo .. c.net.hi :
            i # j => ~(a \in all[i].start .. all[i].end /\ a \in all[j].start .. all[j].end)
  PROVE  Accepted(c)
<1> DEFINE pn == buildPerNodeExclusions(o, index0, c.end)
           Part(r, q) == /\ c.net.lo <= r.start /\ r.start <= r.end /\ r.end <= c.net.hi
                         /\ r.start .. r.end \subseteq q.start .. q.end
<1>1. PICK x \in 0 .. MaxIP, y \in 0 .. MaxIP, s \in Int, lo \in Int, hi \in Int :
          /\ x = index0 /\ y = c.end /\ s = c.start /\ x <= s /\ s <= y
          /\ lo = c.net.lo /\ hi = c.net.hi /\ lo <= x /\ y <= hi
  <2>1. c.net.lo \in Int /\ c.net.hi \in Int
    BY DEF MadeOf, IsConfig, Net
  <2> QED BY <2>1, Zenon DEF MadeOf, IsConfig
<1>2. x \in Int /\ y \in Int /\ x <= y /\ lo <= s /\ s <= y /\ lo <= x /\ y <= hi
  BY <1>1, MaxIPAssumption
<1>3. /\ pn \in Seq(IntRange)
      /\ \E h : /\ Origins(Len(pn), Len(o.perNode), h)
                /\ \A j \in 1 .. Len(pn) :
                      /\ index0 <= pn[j].start /\ pn[j].start <= pn[j].end /\ pn[j].end <= c.end
                      /\ pn[j].start .. pn[j].end
                           \subseteq index0 + o.perNode[h[j]].start .. index0 + o.perNode[h[j]].end
  BY <1>1, <1>2, PerNodeList, Zenon DEF MadeOf
<1> HIDE DEF pn
<1>4. PICK h : /\ Origins(Len(pn), Len(o.perNode), h)
               /\ \A j \in 1 .. Len(pn) :
                     /\ index0 <= pn[j].start /\ pn[j].start <= pn[j].end /\ pn[j].end <= c.end
                     /\ pn[j].start .. pn[j].end
                          \subseteq index0 + o.perNode[h[j]].start .. index0 + o.perNode[h[j]].end
  BY <1>3, Zenon
<1> DEFINE sh == Shifted(o, index0)
<1>5. index0 \in Int /\ o.perNode \in Seq(IntRange) /\ o.excl \in Seq(IntRange)
  BY <1>1, <1>2, Zenon DEF MadeOf
<1>6. /\ sh \in Seq(IntRange) /\ Len(sh) = Len(o.perNode)
      /\ \A i \in 1 .. Len(o.perNode) : /\ sh[i].start = index0 + o.perNode[i].start
                                        /\ sh[i].end = index0 + o.perNode[i].end
  BY ONLY <1>5, ShiftedList, Zenon
<1>7. /\ e \in Seq(IntRange) /\ c.excl = e \o pn /\ all = o.excl \o sh
  BY Zenon DEF MadeOf, pn
<1> HIDE DEF sh
<1>8. PICK m1 \in Nat, n1 \in Nat, m2 \in Nat, n2 \in Nat :
          m1 = Len(e) /\ n1 = Len(o.excl) /\ m2 = Len(pn) /\ n2 = Len(sh)
  BY <1>3, <1>6, <1>7, SMTT(30)
<1>9. /\ c.excl \in Seq(IntRange) /\ Len(c.excl) = m1 + m2
      /\ \A j \in 1 .. m1 + m2 : c.excl[j] = IF j <= m1 THEN e[j] ELSE pn[j - m1]
  BY <1>3, <1>7, <1>8
<1>10. /\ all \in Seq(IntRange) /\ Len(all) = n1 + n2
       /\ \A i \in 1 .. n1 : all[i] = o.excl[i]
       /\ \A i \in 1 .. n2 : all[n1 + i] = sh[i]
  <2>1. /\ o.excl \o sh \in Seq(IntRange) /\ Len(o.excl \o sh) = Len(o.excl) + Len(sh)
        /\ \A i \in 1 .. Len(o.excl) : (o.excl \o sh)[i] = o.excl[i]
        /\ \A i \in 1 .. Len(sh) : (o.excl \o sh)[Len(o.excl) + i] = sh[i]
    <3>1. sh \in Seq(IntRange)
      BY <1>6, Zenon
    <3> QED BY ONLY <1>5, <3>1, AppendIndex
  <2> QED BY <1>7, <1>8, <2>1, Zenon
<1> DEFINE g == [j \in 1 .. m1 + m2 |-> IF j <= m1 THEN f[j] ELSE n1 + h[j - m1]]
<1>11. Origins(m1 + m2, n1 + n2, g)
  <2>1. Origins(m1, n1, f) /\ Origins(m2, n2, h)
    BY <1>4, <1>6, <1>8, Zenon
  <2> QED BY ONLY m1 \in Nat, n1 \in Nat, m2 \in Nat, n2 \in Nat, <2>1, OriginsAppend, SMTT(30)
<1>12. \A j \in 1 .. m1 + m2 : g[j] = IF j <= m1 THEN f[j] ELSE n1 + h[j - m1]
  BY Zenon
<1> HIDE DEF g
<1>13. \A j \in 1 .. m1 + m2 : IF j <= m1 THEN j \in 1 .. m1 ELSE j - m1 \in 1 .. m2
  OBVIOUS
<1>14. \A j \in 1 .. m1 : f[j] \in 1 .. n1 /\ Part(e[j], o.excl[f[j]])
  BY <1>8, Zenon DEF Origins
<1>15. ASSUME NEW j \in 1 .. m2
       PROVE  h[j] \in 1 .. n2 /\ Part(pn[j], sh[h[j]])
  <2>1. h[j] \in 1 .. n2
    BY <1>4, <1>6, <1>8, Zenon DEF Origins
  <2>2. pn[j].start .. pn[j].end \subseteq sh[h[j]].start .. sh[h[j]].end
    BY <1>4, <1>6, <1>8, <2>1, Zenon
  <2>3. PICK t \in Int, u \in Int : t = pn[j].start /\ u = pn[j].end
    BY <1>3, <1>8, RangeSeq, Zenon
  <2>4. x <= t /\ t <= u /\ u <= y
    BY <1>1, <1>4, <1>8, <2>3, Zenon
  <2>5. lo <= t /\ u <= hi
    BY <1>2, <2>4
  <2> QED BY <1>1, <2>1, <2>2, <2>3, <2>4, <2>5, Zenon
<1>16. ASSUME NEW j \in 1 .. m1 + m2
       PROVE  Part(c.excl[j], all[g[j]])
  <2>1. CASE j <= m1
    <3>1. g[j] = f[j] /\ c.excl[j] = e[j] /\ j \in 1 .. m1
      BY <1>9, <1>12, <1>13, <2>1, Zenon
    <3>2. all[f[j]] = o.excl[f[j]] /\ Part(e[j], o.excl[f[j]])
      BY <1>10, <1>14, <3>1, Zenon
    <3> QED BY <3>1, <3>2, Zenon
  <2>2. CASE ~(j <= m1)
    <3>1. PICK d : d = j - m1
      OBVIOUS
    <3>2. g[j] = n1 + h[d] /\ c.excl[j] = pn[d] /\ d \in 1 .. m2
      BY <1>9, <1>12, <1>13, <2>2, <3>1, Zenon
    <3>3. all[n1 + h[d]] = sh[h[d]] /\ Part(pn[d], sh[h[d]])
      BY <1>10, <1>15, <3>2, Zenon
    <3> QED BY <3>2, <3>3, Zenon
  <2> QED BY <2>1, <2>2, Zenon
<1>17. /\ IsConfig(c) /\ c.net.lo <= c.start /\ c.start <= c.end /\ c.end <= c.net.hi
  BY <1>1, <1>2, Zenon DEF MadeOf
<1>18. Origins(Len(c.excl), Len(all), g)
  BY <1>9, <1>10, <1>11, Zenon
<1>19. \A j \in 1 .. Len(c.excl) :
            /\ c.net.lo <= c.excl[j].start /\ c.excl[j].start <= c.excl[j].end
            /\ c.excl[j].end <= c.net.hi
            /\ c.excl[j].start .. c.excl[j].end \subseteq all[g[j]].start .. all[g[j]].end
  BY <1>9, <1>16, Zenon
<1>20. all \in Seq(IntRange)
  BY <1>10, Zenon
<1> QED BY <1>17, <1>18, <1>19, <1>20, AcceptedWhen, Zenon

\* What such a configuration offers is all or nothing of the addresses that
\* neither X, which e denotes there, nor the indexes exclude.
LEMMA MadeOffers ==
  ASSUME NEW c, NEW o, NEW index0, NEW e, MadeOf(c, o, index0, e),
         NEW X, \A b \in c.start .. c.end : b \in Denotes(e) <=> b \in X, NEW a
  PROVE  a \in Offered(c)
           <=> /\ Accepted(c) /\ a \in c.start .. c.end /\ a # c.gw
               /\ a \notin X /\ a - index0 \notin Denotes(o.perNode)
<1>1. IsConfig(c)
  BY Zenon DEF MadeOf
<1>2. a \in Offered(c) <=> Accepted(c) /\ a \in c.start .. c.end /\ a # c.gw /\ a \notin Denotes(c.excl)
  BY ONLY <1>1, OfferedIs, Zenon
<1>3. ASSUME a \in c.start .. c.end
      PROVE  a \in Denotes(c.excl) <=> a \in Denotes(e) \/ a - index0 \in Denotes(o.perNode)
  BY <1>3, MadeDenotes, Zenon
<1> QED BY <1>2, <1>3, Zenon
-----------------------------------------------------------------------------
(***************************************************************************)
(* The two reconcilers.                                                    *)
(***************************************************************************)

\* The fields of an object.
LEMMA ObjectFacts ==
  ASSUME NEW o \in IPPools \cup CIDRPools
  PROVE  /\ o # None /\ o.cidr \in Net /\ o.net \in Net /\ o.v4 \in BOOLEAN /\ o.gw \in Int
         /\ o.excl \in Seq(IntRange) /\ o.perNode \in Seq(IntRange)
         /\ o.alloc.start \in Int /\ o.alloc.end \in Int
         /\ o.alloc # NoBlock =>
                0 <= o.alloc.start /\ o.alloc.start <= o.alloc.end /\ o.alloc.end <= MaxIP
<1>1. /\ None \notin IPPools \cup CIDRPools
      /\ o \in [cidr : Net, net : Net, v4 : BOOLEAN, gw : Int, alloc : [start : Int, end : Int],
                valid : BOOLEAN, excl : Seq([start : Int, end : Int]),
                perNode : Seq([start : Int, end : Int])]
      /\ o.alloc # NoBlock =>
             0 <= o.alloc.start /\ o.alloc.start <= o.alloc.end /\ o.alloc.end <= MaxIP
  BY ObjectsAssumption, Zenon
<1>2. /\ o.cidr \in Net /\ o.net \in Net /\ o.v4 \in BOOLEAN /\ o.gw \in Int
      /\ o.excl \in Seq([start : Int, end : Int]) /\ o.perNode \in Seq([start : Int, end : Int])
      /\ o.alloc \in [start : Int, end : Int]
  BY <1>1, Zenon
<1>3. o.alloc.start \in Int /\ o.alloc.end \in Int
  BY <1>2, Zenon
<1> QED BY <1>1, <1>2, <1>3, Zenon DEF IntRange

\* The configuration of an IPPool with a block for the node.
LEMMA IPPoolConfigIs ==
  ASSUME NEW o \in IPPools, o.alloc # NoBlock
  PROVE  LET c == IPPoolConfig(o)
         IN  /\ MadeOf(c, o, o.alloc.start, o.excl)
             /\ c.net = o.net /\ c.start = o.alloc.start /\ c.end = o.alloc.end /\ c.gw = o.gw
<1> DEFINE c == IPPoolConfig(o)
           pn == buildPerNodeExclusions(o, o.alloc.start, o.alloc.end)
<1>1. /\ o # None /\ o.net \in Net /\ o.excl \in Seq(IntRange) /\ o.perNode \in Seq(IntRange)
      /\ o.alloc.start \in Int /\ o.alloc.end \in Int
      /\ 0 <= o.alloc.start /\ o.alloc.start <= o.alloc.end /\ o.alloc.end <= MaxIP
  BY ObjectFacts, Zenon
<1>2. PICK x \in Int, y \in Int : x = o.alloc.start /\ y = o.alloc.end /\ 0 <= x /\ x <= y /\ y <= MaxIP
  BY <1>1, Zenon
<1>3. x \in 0 .. MaxIP /\ y \in 0 .. MaxIP /\ x <= x /\ x # -1
  BY <1>2, MaxIPAssumption
<1>4. IndexesFit(o.perNode, o.alloc.start)
  <2>1. DOMAIN o.perNode = 1 .. Len(o.perNode)
    BY <1>1, RangeSeq, Zenon
  <2> QED BY <2>1, ObjectsAssumption, Zenon DEF IndexesFit
<1>5. pn \in Seq(IntRange)
  BY <1>1, <1>2, <1>3, <1>4, PerNodeList, Zenon
<1> HIDE DEF pn
<1>6. c = [net |-> o.net, start |-> o.alloc.start, end |-> o.alloc.end, gw |-> o.gw,
           excl |-> o.excl \o pn]
  BY <1>1, Zenon DEF IPPoolConfig, pn
<1> HIDE DEF c
<1>7. /\ c.net = o.net /\ c.start = o.alloc.start /\ c.end = o.alloc.end /\ c.gw = o.gw
      /\ c.excl = o.excl \o pn
  BY <1>6, Zenon
<1>8. o.excl \o pn \in Seq(IntRange)
  BY <1>1, <1>5
<1>9. NoPool.start = -1
  BY DEF NoPool, NoIP
<1>10. IsConfig(c)
  BY <1>1, <1>2, <1>3, <1>7, <1>8, <1>9, Zenon DEF IsConfig
<1>11. MadeOf(c, o, o.alloc.start, o.excl)
  BY <1>1, <1>2, <1>3, <1>4, <1>7, <1>10, Zenon DEF MadeOf, pn
<1> QED BY <1>7, <1>11, Zenon DEF c

\* FirstIP and LastIP of a valid CIDRPool bound the configuration.
LEMMA CIDRPoolConfigIs ==
  ASSUME NEW o \in CIDRPools, o.alloc # NoBlock, Validate(o)
  PROVE  LET c == CIDRPoolConfig(o)
         IN  /\ MadeOf(c, o, o.net.lo, buildExclusions(o))
             /\ c.net = o.net /\ c.start = FirstIP(o) /\ c.end = LastIP(o) /\ c.gw = o.gw
<1> DEFINE c == CIDRPoolConfig(o)
           pn == buildPerNodeExclusions(o, o.net.lo, LastIP(o))
           e == buildExclusions(o)
<1>1. /\ o # None /\ o.net \in Net /\ o.v4 \in BOOLEAN /\ o.excl \in Seq(IntRange)
      /\ o.perNode \in Seq(IntRange)
  BY ObjectFacts, Zenon
<1>2. PICK lo \in Int, hi \in Int, x \in Int, y \in Int :
          /\ lo = o.net.lo /\ hi = o.net.hi /\ x = FirstIP(o) /\ y = LastIP(o)
          /\ 0 <= lo /\ hi <= MaxIP /\ lo <= x /\ x <= y /\ y <= hi
  <2>1. /\ o.net.lo \in Nat /\ o.net.hi \in Nat /\ o.net.hi <= MaxIP
        /\ FirstIP(o) \in Int /\ LastIP(o) \in Int
        /\ o.net.lo <= FirstIP(o) /\ FirstIP(o) <= LastIP(o) /\ LastIP(o) <= o.net.hi
    BY <1>1, PrefixBounds, Zenon
  <2>2. o.net.lo \in Int /\ o.net.hi \in Int /\ 0 <= o.net.lo
    BY <2>1
  <2> QED BY <2>1, <2>2, Zenon
<1>3. lo \in 0 .. MaxIP /\ y \in 0 .. MaxIP /\ lo <= y /\ x # -1
  BY <1>2, MaxIPAssumption
<1>4. IndexesFit(o.perNode, o.net.lo)
  <2>1. /\ DOMAIN o.perNode = 1 .. Len(o.perNode)
        /\ \A i \in 1 .. Len(o.perNode) : o.perNode[i].start \in Int /\ o.perNode[i].end \in Int
    BY <1>1, RangeSeq, Zenon
  <2>2. \A i \in 1 .. Len(o.perNode) :
            0 <= o.perNode[i].start /\ o.perNode[i].start <= o.perNode[i].end
            /\ o.perNode[i].end <= (hi - lo + 1) - 1
    BY <1>2, <2>1, Zenon DEF Validate, validatePerNodeExclusions, Size
  <2>3. \A z \in Int : z <= (hi - lo + 1) - 1 => lo + z <= MaxIP
    BY <1>2, MaxIPAssumption
  <2> QED BY <1>2, <2>1, <2>2, <2>3, Zenon DEF IndexesFit
<1>5. pn \in Seq(IntRange)
  BY <1>1, <1>2, <1>3, <1>4, PerNodeList, Zenon
<1>6. e \in Seq(IntRange)
  <2>1. \A i \in 1 .. Len(o.excl) : o.excl[i].start <= o.excl[i].end
    BY <1>1, RangeSeq, Zenon DEF Validate, validateExclusions
  <2> QED BY <1>1, <2>1, ExclusionList, Zenon
<1> HIDE DEF pn, e
<1>7. c = [net |-> o.net, start |-> FirstIP(o), end |-> LastIP(o), gw |-> o.gw, excl |-> e \o pn]
  BY <1>1, Zenon DEF CIDRPoolConfig, pn, e
<1> HIDE DEF c
<1>8. /\ c.net = o.net /\ c.start = FirstIP(o) /\ c.end = LastIP(o) /\ c.gw = o.gw
      /\ c.excl = e \o pn
  BY <1>7, Zenon
<1>9. e \o pn \in Seq(IntRange) /\ NoPool.start = -1
  BY <1>5, <1>6 DEF NoPool, NoIP
<1>10. IsConfig(c)
  BY <1>1, <1>2, <1>3, <1>8, <1>9, Zenon DEF IsConfig
<1>11. MadeOf(c, o, o.net.lo, e)
  BY <1>1, <1>2, <1>3, <1>4, <1>6, <1>8, <1>10, Zenon DEF MadeOf, pn
<1> QED BY <1>8, <1>11, Zenon DEF c, e

\* The addresses of the exclusions that the node heeds: those of a CIDRPool
\* around its whole prefix are dropped.
Heeded(k, o) ==
    UNION {o.excl[i].start .. o.excl[i].end :
              i \in {j \in DOMAIN o.excl : k = "cidrpool" => ~Around(o, o.excl[j])}}

\* The same with the indexes of the list.
LEMMA HeededIs ==
  ASSUME NEW k, NEW o, o.excl \in Seq(IntRange), NEW a
  PROVE  a \in Heeded(k, o) <=> \E i \in 1 .. Len(o.excl) :
                                   /\ a \in o.excl[i].start .. o.excl[i].end
                                   /\ k = "cidrpool" => ~Around(o, o.excl[i])
<1>1. DOMAIN o.excl = 1 .. Len(o.excl)
  BY RangeSeq, Zenon
<1> QED BY <1>1, Zenon DEF Heeded

\* An exclusion that holds an address of the prefix has an end in it unless it
\* goes around it.
LEMMA AroundArithmetic ==
  ASSUME NEW lo \in Int, NEW hi \in Int, NEW s \in Int, NEW e \in Int,
         NEW a \in Int, lo <= a, a <= hi, s <= a, a <= e
  PROVE  ~(s < lo /\ e > hi) <=> (lo <= s /\ s <= hi) \/ (lo <= e /\ e <= hi)
  OBVIOUS

\* The cut exclusions of a CIDRPool denote, among the usable addresses, what
\* the node heeds.
LEMMA CutsDenote ==
  ASSUME NEW o \in CIDRPools, validateExclusions(o.cidr, o.excl), NEW a \in FirstIP(o) .. LastIP(o)
  PROVE  a \in Denotes(buildExclusions(o)) <=> a \in Heeded("cidrpool", o)
<1> DEFINE e == buildExclusions(o)
<1>1. o.net \in Net /\ o.v4 \in BOOLEAN /\ o.excl \in Seq(IntRange)
  BY ObjectFacts, Zenon
<1>2. /\ DOMAIN o.excl = 1 .. Len(o.excl)
      /\ \A i \in 1 .. Len(o.excl) :
            o.excl[i] \in IntRange /\ o.excl[i].start \in Int /\ o.excl[i].end \in Int
  BY <1>1, RangeSeq, Zenon
<1>3. \A i \in 1 .. Len(o.excl) : o.excl[i].start <= o.excl[i].end
  BY <1>2, Zenon DEF validateExclusions
<1>4. Elems(e) = {Cut(o, o.excl[i]) : i \in {j \in 1 .. Len(o.excl) : Related(o, o.excl[j])}}
  BY <1>1, <1>3, ExclusionList, Zenon
<1> HIDE DEF e
<1>5. a \in Denotes(e) <=> \E i \in 1 .. Len(o.excl) :
          Related(o, o.excl[i]) /\ a \in Cut(o, o.excl[i]).start .. Cut(o, o.excl[i]).end
  <2>1. a \in Denotes(e) <=> \E r \in Elems(e) : a \in r.start .. r.end
    BY ONLY DenotesElems, Zenon
  <2>2. \A r : r \in Elems(e) <=> \E i \in 1 .. Len(o.excl) : Related(o, o.excl[i]) /\ r = Cut(o, o.excl[i])
    BY ONLY <1>4, Zenon
  <2> QED BY ONLY <2>1, <2>2, Zenon
<1>6. PICK lo \in Int, hi \in Int, x \in Int, y \in Int :
          /\ lo = o.net.lo /\ hi = o.net.hi /\ x = FirstIP(o) /\ y = LastIP(o)
          /\ lo <= x /\ y <= hi
  <2>1. /\ o.net.lo \in Nat /\ o.net.hi \in Nat
        /\ FirstIP(o) \in Int /\ LastIP(o) \in Int
        /\ o.net.lo <= FirstIP(o) /\ LastIP(o) <= o.net.hi
    BY <1>1, PrefixBounds, Zenon
  <2>2. o.net.lo \in Int /\ o.net.hi \in Int
    BY <2>1
  <2> QED BY <2>1, <2>2, Zenon
<1>7. a \in Int /\ lo <= a /\ a <= hi
  BY <1>6
<1>8. ASSUME NEW i \in 1 .. Len(o.excl)
      PROVE  (Related(o, o.excl[i]) /\ a \in Cut(o, o.excl[i]).start .. Cut(o, o.excl[i]).end)
               <=> (a \in o.excl[i].start .. o.excl[i].end /\ ~Around(o, o.excl[i]))
  <2>1. ASSUME Related(o, o.excl[i])
        PROVE  a \in Cut(o, o.excl[i]).start .. Cut(o, o.excl[i]).end
                 <=> a \in o.excl[i].start .. o.excl[i].end
    BY <1>1, <1>2, <1>3, <2>1, CutOne, Zenon
  <2>2. PICK s \in Int, t \in Int : s = o.excl[i].start /\ t = o.excl[i].end
    BY <1>2, Zenon
  <2>3. ASSUME a \in s .. t
        PROVE  ~Around(o, o.excl[i]) <=> Related(o, o.excl[i])
    <3>1. s <= a /\ a <= t
      BY <2>2, <2>3
    <3>2. ~(s < lo /\ t > hi) <=> (lo <= s /\ s <= hi) \/ (lo <= t /\ t <= hi)
      BY ONLY lo \in Int, hi \in Int, s \in Int, t \in Int, <1>7, <3>1, AroundArithmetic, SMTT(30)
    <3> QED BY <1>6, <2>2, <3>2, Zenon DEF Around, Related, R!InSubnet
  <2> QED BY <2>1, <2>2, <2>3, Zenon
<1>9. a \in Heeded("cidrpool", o) <=> \E i \in 1 .. Len(o.excl) :
          a \in o.excl[i].start .. o.excl[i].end /\ ~Around(o, o.excl[i])
  BY <1>1, HeededIs, Zenon
<1>10. a \in Denotes(e) <=> a \in Heeded("cidrpool", o)
  BY <1>5, <1>8, <1>9, Zenon
<1> QED BY <1>10, Zenon DEF e

\* What the node offers of an IPPool.
LEMMA IPPoolOffers ==
  ASSUME NEW o \in IPPools, o.alloc # NoBlock, NEW a
  PROVE  a \in Offered(IPPoolConfig(o))
           <=> Accepted(IPPoolConfig(o)) /\ a \in Usable("ippool", o, Heeded("ippool", o))
<1> DEFINE c == IPPoolConfig(o)
           X == Heeded("ippool", o)
<1>1. /\ MadeOf(c, o, o.alloc.start, o.excl)
      /\ c.net = o.net /\ c.start = o.alloc.start /\ c.end = o.alloc.end /\ c.gw = o.gw
  BY IPPoolConfigIs, Zenon
<1>2. o # None /\ o.excl \in Seq(IntRange)
  BY ObjectFacts, Zenon
<1>3. "ippool" # "cidrpool"
  OBVIOUS
<1>4. \A b \in c.start .. c.end : b \in Denotes(o.excl) <=> b \in X
  BY <1>2, <1>3, HeededIs, DenotesIndex, Zenon
<1> HIDE DEF c, X
<1>5. a \in Offered(c)
        <=> /\ Accepted(c) /\ a \in c.start .. c.end /\ a # c.gw
            /\ a \notin X /\ a - o.alloc.start \notin Denotes(o.perNode)
  BY ONLY <1>1, <1>4, MadeOffers
<1>6. a \in Usable("ippool", o, X)
        <=> /\ a \in o.alloc.start .. o.alloc.end /\ a # o.gw
            /\ a \notin X /\ a - o.alloc.start \notin Denotes(o.perNode)
  BY <1>2, <1>3, Zenon DEF Usable
<1>7. a \in Offered(c) <=> Accepted(c) /\ a \in Usable("ippool", o, X)
  BY <1>1, <1>5, <1>6, Zenon
<1> QED BY <1>7, Zenon DEF c, X

\* What the node offers of a valid CIDRPool.
LEMMA CIDRPoolOffers ==
  ASSUME NEW o \in CIDRPools, o.alloc # NoBlock, Validate(o), NEW a
  PROVE  a \in Offered(CIDRPoolConfig(o))
           <=> Accepted(CIDRPoolConfig(o)) /\ a \in Usable("cidrpool", o, Heeded("cidrpool", o))
<1> DEFINE c == CIDRPoolConfig(o)
           X == Heeded("cidrpool", o)
           e == buildExclusions(o)
<1>1. /\ MadeOf(c, o, o.net.lo, e)
      /\ c.net = o.net /\ c.start = FirstIP(o) /\ c.end = LastIP(o) /\ c.gw = o.gw
  BY CIDRPoolConfigIs, Zenon
<1>2. o # None /\ "ippool" # "cidrpool"
  BY ObjectFacts
<1>3. \A b \in FirstIP(o) .. LastIP(o) : b \in Denotes(e) <=> b \in X
  BY CutsDenote, Zenon DEF Validate
<1> HIDE DEF c, X, e
<1>4. \A b \in c.start .. c.end : b \in Denotes(e) <=> b \in X
  BY <1>1, <1>3, Zenon
<1>5. a \in Offered(c)
        <=> /\ Accepted(c) /\ a \in c.start .. c.end /\ a # c.gw
            /\ a \notin X /\ a - o.net.lo \notin Denotes(o.perNode)
  BY ONLY <1>1, <1>4, MadeOffers
<1>6. a \in Usable("cidrpool", o, X)
        <=> /\ a \in FirstIP(o) .. LastIP(o) /\ a # o.gw
            /\ a \notin X /\ a - o.net.lo \notin Denotes(o.perNode)
  BY <1>2, Zenon DEF Usable
<1>7. a \in Offered(c) <=> Accepted(c) /\ a \in Usable("cidrpool", o, X)
  BY <1>1, <1>5, <1>6, Zenon
<1> QED BY <1>7, Zenon DEF c, X

\* The exclusions of an object that is not contested share no address of the
\* subnet.
LEMMA NoneShared ==
  ASSUME NEW k, NEW o, o.excl \in Seq(IntRange), o.perNode \in Seq(IntRange), ~Contested(k, o),
         NEW index0 \in Int, index0 = IF k = "ippool" THEN o.alloc.start ELSE o.net.lo,
         NEW all, all = o.excl \o Shifted(o, index0)
  PROVE  \A i, j \in 1 .. Len(all) : \A a \in o.net.lo .. o.net.hi :
            i # j => ~(a \in all[i].start .. all[i].end /\ a \in all[j].start .. all[j].end)
<1>1. Shifted(o, index0) \in Seq(IntRange)
  BY ShiftedList, Zenon
<1>2. all \in Seq(IntRange)
  BY <1>1, AppendIndex, Zenon
<1>3. Len(all) \in Nat /\ DOMAIN all = 1 .. Len(all)
  BY <1>2, RangeSeq, Zenon
<1>4. ASSUME NEW i \in DOMAIN all, NEW j \in DOMAIN all, i < j
      PROVE  ((all[i].start .. all[i].end) \cap (all[j].start .. all[j].end))
                 \cap (o.net.lo .. o.net.hi) = {}
  BY <1>4, Zenon DEF Contested, Shifted
<1>5. ASSUME NEW i \in DOMAIN all, NEW j \in DOMAIN all, i < j, NEW a \in o.net.lo .. o.net.hi,
             a \in all[i].start .. all[i].end, a \in all[j].start .. all[j].end
      PROVE  FALSE
  BY <1>4, <1>5, ZenonT(60)
<1>6. \A i, j \in DOMAIN all : i # j => i < j \/ j < i
  BY <1>3
<1> TAKE i, j \in 1 .. Len(all)
<1> TAKE a \in o.net.lo .. o.net.hi
<1> SUFFICES ASSUME i # j, a \in all[i].start .. all[i].end, a \in all[j].start .. all[j].end
             PROVE  FALSE
  BY Zenon
<1>7. i \in DOMAIN all /\ j \in DOMAIN all
  BY <1>3, Zenon
<1>8. CASE i < j
  BY <1>5, <1>7, <1>8, Zenon
<1>9. CASE j < i
  BY <1>5, <1>7, <1>9, Zenon
<1> QED BY <1>6, <1>7, <1>8, <1>9, Zenon

\* allocateInPool accepts an IPPool that fits and is not contested.
LEMMA IPPoolAccepted ==
  ASSUME NEW o \in IPPools, o.alloc # NoBlock, Fits("ippool", o),
         validateExclusions(o.cidr, o.excl), ~Contested("ippool", o)
  PROVE  Accepted(IPPoolConfig(o))
<1> DEFINE c == IPPoolConfig(o)
           all == o.excl \o Shifted(o, o.alloc.start)
           f == [i \in 1 .. Len(o.excl) |-> i]
<1>1. /\ MadeOf(c, o, o.alloc.start, o.excl)
      /\ c.net = o.net /\ c.start = o.alloc.start /\ c.end = o.alloc.end
  BY IPPoolConfigIs, Zenon
<1>2. /\ o.excl \in Seq(IntRange) /\ o.perNode \in Seq(IntRange) /\ o.alloc.start \in Int
      /\ o.cidr = o.net
  BY ObjectFacts, ObjectsAssumption, Zenon
<1>3. Len(o.excl) \in Nat /\ DOMAIN o.excl = 1 .. Len(o.excl)
  BY <1>2, RangeSeq, Zenon
<1>4. \A i \in 1 .. Len(o.excl) : f[i] = i
  BY Zenon
<1>5. Origins(Len(o.excl), Len(o.excl), f)
  BY <1>4, Zenon DEF Origins
<1> HIDE DEF f, c, all
<1>6. o.net.lo <= o.alloc.start /\ o.alloc.end <= o.net.hi
  BY Zenon DEF Fits, R!InSubnet
<1>7. \A j \in 1 .. Len(o.excl) :
          /\ c.net.lo <= o.excl[j].start /\ o.excl[j].start <= o.excl[j].end
          /\ o.excl[j].end <= c.net.hi
          /\ o.excl[j].start .. o.excl[j].end \subseteq o.excl[f[j]].start .. o.excl[f[j]].end
  BY <1>1, <1>2, <1>3, <1>4, Zenon DEF validateExclusions
<1>8. \A i, j \in 1 .. Len(all) : \A a \in o.net.lo .. o.net.hi :
          i # j => ~(a \in all[i].start .. all[i].end /\ a \in all[j].start .. all[j].end)
  BY <1>2, NoneShared, Zenon DEF all
<1>9. \A i, j \in 1 .. Len(all) : \A a \in c.net.lo .. c.net.hi :
          i # j => ~(a \in all[i].start .. all[i].end /\ a \in all[j].start .. all[j].end)
  BY <1>1, <1>8, Zenon
<1>10. c.net.lo <= o.alloc.start /\ c.end <= c.net.hi
  BY <1>1, <1>6, Zenon
<1>11. all = o.excl \o Shifted(o, o.alloc.start)
  BY ZenonT(60) DEF all
<1>12. Accepted(c)
  BY ONLY <1>1, <1>2, <1>5, <1>7, <1>9, <1>10, <1>11, MadeAccepted, ZenonT(60)
<1> QED BY <1>12, Zenon DEF c

\* allocateInPool accepts a valid CIDRPool that is not contested.
LEMMA CIDRPoolAccepted ==
  ASSUME NEW o \in CIDRPools, o.alloc # NoBlock, Validate(o), ~Contested("cidrpool", o)
  PROVE  Accepted(CIDRPoolConfig(o))
<1> DEFINE c == CIDRPoolConfig(o)
           all == o.excl \o Shifted(o, o.net.lo)
           e == buildExclusions(o)
<1>1. /\ MadeOf(c, o, o.net.lo, e)
      /\ c.net = o.net /\ c.start = FirstIP(o) /\ c.end = LastIP(o)
  BY CIDRPoolConfigIs, Zenon
<1>2. /\ o.excl \in Seq(IntRange) /\ o.perNode \in Seq(IntRange) /\ o.net \in Net /\ o.v4 \in BOOLEAN
  BY ObjectFacts, Zenon
<1>3. /\ o.net.lo \in Int /\ LastIP(o) <= o.net.hi /\ o.net.lo <= o.net.lo
  <2>1. o.net.lo \in Nat /\ LastIP(o) <= o.net.hi
    BY <1>2, PrefixBounds, Zenon
  <2> QED BY <2>1
<1>4. /\ Len(o.excl) \in Nat /\ DOMAIN o.excl = 1 .. Len(o.excl)
      /\ \A i \in 1 .. Len(o.excl) : o.excl[i] \in IntRange
  BY <1>2, RangeSeq, Zenon
<1>5. \A i \in 1 .. Len(o.excl) : o.excl[i].start <= o.excl[i].end
  BY <1>4, Zenon DEF Validate, validateExclusions
<1>6. PICK f : /\ Origins(Len(e), Len(o.excl), f)
               /\ \A j \in 1 .. Len(e) : Related(o, o.excl[f[j]]) /\ e[j] = Cut(o, o.excl[f[j]])
  BY <1>2, <1>5, ExclusionList, Zenon
<1> HIDE DEF c, all, e
<1>7. ASSUME NEW j \in 1 .. Len(e)
      PROVE  /\ c.net.lo <= e[j].start /\ e[j].start <= e[j].end /\ e[j].end <= c.net.hi
             /\ e[j].start .. e[j].end \subseteq o.excl[f[j]].start .. o.excl[f[j]].end
  <2>1. PICK i \in 1 .. Len(o.excl) : i = f[j]
    BY <1>6, Zenon DEF Origins
  <2>2. o.excl[i] \in IntRange /\ o.excl[i].start <= o.excl[i].end /\ Related(o, o.excl[i])
        /\ e[j] = Cut(o, o.excl[i])
    BY <1>4, <1>5, <1>6, <2>1, Zenon
  <2> DEFINE r == o.excl[i]
  <2>3. /\ o.net.lo <= Cut(o, r).start /\ Cut(o, r).end <= o.net.hi
        /\ Cut(o, r).start .. Cut(o, r).end \subseteq r.start .. r.end
        /\ \/ Cut(o, r).start <= Cut(o, r).end
           \/ /\ ~(R!InSubnet(o.net, r.start) <=> R!InSubnet(o.net, r.end))
              /\ \A a \in FirstIP(o) .. LastIP(o) : a \notin r.start .. r.end
    BY <1>2, <2>2, CutOne, Zenon
  <2>4. ASSUME ~(R!InSubnet(o.net, r.start) <=> R!InSubnet(o.net, r.end)),
               \A a \in FirstIP(o) .. LastIP(o) : a \notin r.start .. r.end
        PROVE  FALSE
    <3>1. (FirstIP(o) .. LastIP(o)) \cap Denotes(<<r>>) = {}
      <4>1. <<r>> \in Seq(IntRange) /\ Elems(<<r>>) = {r}
        BY <2>2 DEF Elems
      <4> QED BY <2>4, <4>1, DenotesElems, Zenon
    <3>2. R!InSubnet(o.net, r.start) # R!InSubnet(o.net, r.end)
      BY <2>4, Zenon DEF R!InSubnet
    <3>3. i \in DOMAIN o.excl
      BY <1>4, Zenon
    <3> QED BY <3>1, <3>2, <3>3, Zenon DEF Contested
  <2> QED BY <1>1, <2>1, <2>2, <2>3, <2>4, Zenon
<1>8. \A i, j \in 1 .. Len(all) : \A a \in o.net.lo .. o.net.hi :
          i # j => ~(a \in all[i].start .. all[i].end /\ a \in all[j].start .. all[j].end)
  <2>1. o.net.lo = IF "cidrpool" = "ippool" THEN o.alloc.start ELSE o.net.lo
    OBVIOUS
  <2> QED BY <1>2, <1>3, <2>1, NoneShared, ZenonT(60) DEF all
<1>9. \A i, j \in 1 .. Len(all) : \A a \in c.net.lo .. c.net.hi :
          i # j => ~(a \in all[i].start .. all[i].end /\ a \in all[j].start .. all[j].end)
  BY <1>1, <1>8, Zenon
<1>10. c.net.lo <= o.net.lo /\ c.end <= c.net.hi
  BY <1>1, <1>3, Zenon
<1>11. all = o.excl \o Shifted(o, o.net.lo)
  BY Zenon DEF all
<1>12. Accepted(c)
  BY ONLY <1>1, <1>2, <1>6, <1>7, <1>9, <1>10, <1>11, MadeAccepted, ZenonT(60)
<1> QED BY <1>12, Zenon DEF c

\* What the node offers of any object: no more than the addresses it leaves
\* the node when exclusions around the prefix of a CIDRPool are ignored, and
\* all that it leaves the node if the block is in the subnet and the exclusions
\* are valid and not contested, so that allocateInPool accepts them.
THEOREM ConfigOffers ==
  ASSUME NEW k \in PoolKeys, NEW o \in Objects(k)
  PROVE  /\ Offered(Config[k][o]) \subseteq Usable(k, o, Heeded(k, o))
         /\ o # None /\ Fits(k, o) /\ validateExclusions(o.cidr, o.excl) /\ ~Contested(k, o) =>
               Usable(k, o, Denotes(o.excl)) \subseteq Offered(Config[k][o])
<1> DEFINE c == Config[k][o]
<1>1. c = IF k = "ippool" THEN IPPoolConfig(o) ELSE CIDRPoolConfig(o)
  BY Zenon DEF Config
<1> HIDE DEF c
<1>2. k \in {"ippool", "cidrpool"} /\ "ippool" # "cidrpool"
  BY DEF PoolKeys
<1>3. CASE o = None \/ o.alloc = NoBlock \/ (k = "cidrpool" /\ ~Validate(o))
  <2>1. c = NoPool
    BY <1>1, <1>2, <1>3, Zenon DEF IPPoolConfig, CIDRPoolConfig
  <2>2. Offered(c) = {}
    BY <2>1, Zenon DEF Offered
  <2>3. \A X : Usable(k, o, X) = {}
    BY <1>3, Zenon DEF Usable
  <2> QED BY <2>2, <2>3, Zenon DEF c
<1>4. CASE o # None /\ o.alloc # NoBlock /\ (k = "cidrpool" => Validate(o))
  <2>1. o \in IPPools \cup CIDRPools /\ (k = "ippool" => o \in IPPools) /\ (k = "cidrpool" => o \in CIDRPools)
    BY <1>2, <1>4, Zenon DEF Objects
  <2>2. ASSUME NEW a
        PROVE  a \in Offered(c) <=> Accepted(c) /\ a \in Usable(k, o, Heeded(k, o))
    <3>1. CASE k = "ippool"
      BY <1>1, <1>4, <2>1, <3>1, IPPoolOffers, Zenon
    <3>2. CASE k = "cidrpool"
      BY <1>1, <1>2, <1>4, <2>1, <3>2, CIDRPoolOffers, Zenon
    <3> QED BY <1>2, <3>1, <3>2, Zenon
  <2>3. ASSUME Fits(k, o), validateExclusions(o.cidr, o.excl), ~Contested(k, o)
        PROVE  Usable(k, o, Denotes(o.excl)) \subseteq Offered(c)
    <3>1. Accepted(c)
      <4>1. CASE k = "ippool"
        BY <1>1, <1>4, <2>1, <2>3, <4>1, IPPoolAccepted, Zenon
      <4>2. CASE k = "cidrpool"
        BY <1>1, <1>2, <1>4, <2>1, <2>3, <4>2, CIDRPoolAccepted, ZenonT(60)
      <4> QED BY <1>2, <4>1, <4>2, Zenon
    <3>2. o.excl \in Seq(IntRange)
      BY <2>1, ObjectFacts, Zenon
    <3>3. \A a \in Heeded(k, o) : a \in Denotes(o.excl)
      BY <3>2, HeededIs, DenotesIndex, Zenon
    <3>4. Usable(k, o, Denotes(o.excl)) \subseteq Usable(k, o, Heeded(k, o))
      BY <3>3, Zenon DEF Usable
    <3> QED BY <2>2, <3>1, <3>4, Zenon
  <2> QED BY <2>2, <2>3, Zenon DEF c
<1> QED BY <1>2, <1>3, <1>4, Zenon

\* What a list of one exclusion denotes.
LEMMA DenotesOne ==
  ASSUME NEW r
  PROVE  Denotes(<<r>>) = r.start .. r.end
<1>1. DOMAIN <<r>> = {1} /\ <<r>>[1] = r
  OBVIOUS
<1> QED BY <1>1, Zenon DEF Denotes

\* Two sane ranges of one subnet with a common address overlap.
LEMMA SharedOverlaps ==
  ASSUME NEW x, NEW y, NEW a \in Int, x.subnet = y.subnet,
         x.start \in Int, x.end \in Int, y.start \in Int, y.end \in Int,
         x.subnet.lo \in Int, x.subnet.hi \in Int,
         R!CanonicalRange(x), R!CanonicalRange(y),
         x.start <= a, a <= x.end, y.start <= a, a <= y.end
  PROVE  R!Overlaps(x, y)
  BY SMTT(30) DEF R!Overlaps, R!CanonicalRange, R!Contains, R!InSubnet

\* allocateInPool refuses an IPPool with two exclusions that share an address.
LEMMA SharedRefused ==
  ASSUME NEW o \in IPPools, NEW i \in DOMAIN o.excl, NEW j \in DOMAIN o.excl, i # j,
         NEW a, a \in o.excl[i].start .. o.excl[i].end, a \in o.excl[j].start .. o.excl[j].end
  PROVE  Offered(IPPoolConfig(o)) = {}
<1> DEFINE c == IPPoolConfig(o)
           e == ExclusionRangeSet(c)
<1>1. CASE o = None \/ o.alloc = NoBlock
  BY <1>1, Zenon DEF IPPoolConfig, Offered
<1>2. CASE o # None /\ o.alloc # NoBlock
  <2>1. MadeOf(c, o, o.alloc.start, o.excl) /\ c.net = o.net
    BY <1>2, IPPoolConfigIs, Zenon
  <2> DEFINE pn == buildPerNodeExclusions(o, o.alloc.start, c.end)
  <2> HIDE DEF c
  <2>2. IsConfig(c) /\ o.excl \in Seq(IntRange) /\ c.excl = o.excl \o pn /\ c.excl \in Seq(IntRange)
    BY <2>1, Zenon DEF MadeOf, IsConfig
  <2>3. pn \in Seq(IntRange)
    BY <2>1, MadePerNode, Zenon
  <2> HIDE DEF pn
  <2>4. /\ Len(c.excl) = Len(o.excl) + Len(pn) /\ Len(o.excl) \in Nat /\ Len(pn) \in Nat
        /\ \A n \in 1 .. Len(o.excl) : c.excl[n] = o.excl[n]
    <3>1. Len(o.excl) \in Nat /\ Len(pn) \in Nat
      BY <2>2, <2>3, RangeSeq, Zenon
    <3>2. /\ Len(o.excl \o pn) = Len(o.excl) + Len(pn)
          /\ \A n \in 1 .. Len(o.excl) : (o.excl \o pn)[n] = o.excl[n]
      BY ONLY <2>2, <2>3, AppendIndex
    <3> QED BY <2>2, <3>1, <3>2, Zenon
  <2>5. i \in 1 .. Len(o.excl) /\ j \in 1 .. Len(o.excl)
    BY <2>2, RangeSeq, Zenon
  <2>6. i \in 1 .. Len(c.excl) /\ j \in 1 .. Len(c.excl) /\ (i < j \/ j < i)
    BY <2>4, <2>5
  <2>7. \A n \in {i, j} : /\ e[n].subnet = c.net
                         /\ e[n].start = o.excl[n].start /\ e[n].end = o.excl[n].end
    <3>1. \A n \in 1 .. Len(c.excl) : /\ e[n].subnet = c.net
                                     /\ e[n].start = c.excl[n].start /\ e[n].end = c.excl[n].end
      BY ONLY <2>2, ExclusionRange, Zenon DEF e
    <3> HIDE DEF e
    <3> QED BY <2>4, <2>5, <2>6, <3>1, Zenon
  <2>8. \A n \in {i, j} : o.excl[n].start \in Int /\ o.excl[n].end \in Int
    BY <2>2, <2>5, RangeSeq, Zenon
  <2>9. c.net.lo \in Int /\ c.net.hi \in Int
    BY <2>2 DEF IsConfig, Net
  <2>10. a \in Int /\ \A n \in {i, j} : o.excl[n].start <= a /\ a <= o.excl[n].end
    BY <2>8
  <2>11. DOMAIN e = 1 .. Len(c.excl) /\ c.excl # <<>>
    <3>1. c.excl # <<>>
      BY <2>2, <2>6
    <3> QED BY <2>2, <3>1, RangeSeq, Zenon DEF ExclusionRangeSet
  <2> HIDE DEF e
  <2>12. ASSUME Accepted(c)
         PROVE  FALSE
    <3>1. R!CanonicalSet(e)
      BY <2>11, <2>12, Zenon DEF Accepted, e
    <3>2. R!CanonicalRange(e[i]) /\ R!CanonicalRange(e[j])
      BY <2>6, <2>11, <3>1, Zenon DEF R!CanonicalSet
    <3>3. R!Overlaps(e[i], e[j]) /\ R!Overlaps(e[j], e[i])
      BY ONLY <2>7, <2>8, <2>9, <2>10, <3>2, SharedOverlaps, Zenon
    <3> QED BY <2>6, <2>11, <3>1, <3>3, Zenon DEF R!CanonicalSet
  <2> QED BY <2>12, Zenon DEF Offered, c
<1> QED BY <1>1, <1>2, Zenon
-----------------------------------------------------------------------------
(***************************************************************************)
(* The pool manager.                                                       *)
(***************************************************************************)

\* A key that no work queue holds was reconciled with the cached object: the
\* informer queues a key with every change it stores in the cache.
Reconciled ==
    /\ \A k \in PoolKeys : api[k] \in Objects(k) /\ cache[k] \in Objects(k)
    /\ DOMAIN api = PoolKeys /\ DOMAIN cache = PoolKeys /\ DOMAIN pools = PoolKeys
    /\ \A k \in PoolKeys \ queued : pools[k] = Config[k][cache[k]]

\* A missing object has no configuration.
LEMMA NoneHasNoPool ==
  ASSUME NEW k \in PoolKeys
  PROVE  Config[k][None] = NoPool
<1>1. None \in Objects(k)
  BY Zenon DEF Objects
<1> QED BY <1>1, Zenon DEF Config, IPPoolConfig, CIDRPoolConfig

\* The daemon starts with the objects of the API queued and no pool.
LEMMA ReconciledInit == Init => Reconciled
<1> SUFFICES ASSUME Init
             PROVE  Reconciled
  OBVIOUS
<1>1. DOMAIN api = PoolKeys /\ cache = api
  BY Zenon DEF Init
<1>2. ASSUME NEW k \in PoolKeys \ queued
      PROVE  pools[k] = Config[k][cache[k]]
  <2>1. api[k] = None /\ pools[k] = NoPool
    BY Zenon DEF Init
  <2> QED BY <1>1, <2>1, NoneHasNoPool, Zenon
<1>3. DOMAIN pools = PoolKeys
  BY Zenon DEF Init
<1> QED BY <1>1, <1>2, <1>3, Zenon DEF Init, Reconciled

\* Every change in the API, every event, every Reconcile and every restart
\* keeps the pool manager in step with the cache.
LEMMA ReconciledStep == Reconciled /\ [Next]_vars => Reconciled'
<1> SUFFICES ASSUME Reconciled, [Next]_vars
             PROVE  Reconciled'
  OBVIOUS
<1>1. ASSUME NEW k \in PoolKeys, NEW o \in Objects(k), Change(k, o)
      PROVE  Reconciled'
  <2>1. api' = [api EXCEPT ![k] = o] /\ UNCHANGED <<cache, queued, pools>>
    BY <1>1, Zenon DEF Change
  <2>2. DOMAIN api' = PoolKeys /\ \A l \in PoolKeys : api'[l] = IF l = k THEN o ELSE api[l]
    BY <2>1, Zenon DEF Reconciled
  <2> QED BY <2>1, <2>2, Zenon DEF Reconciled
<1>2. ASSUME NEW k \in PoolKeys, Sync(k)
      PROVE  Reconciled'
  <2>1. cache' = [cache EXCEPT ![k] = api[k]] /\ queued' = queued \cup {k} /\ UNCHANGED <<api, pools>>
    BY <1>2, Zenon DEF Sync
  <2>2. DOMAIN cache' = PoolKeys /\ \A l \in PoolKeys : cache'[l] = IF l = k THEN api[k] ELSE cache[l]
    BY <2>1, Zenon DEF Reconciled
  <2> QED BY <2>1, <2>2, Zenon DEF Reconciled
<1>3. ASSUME NEW k \in PoolKeys, Reconcile(k)
      PROVE  Reconciled'
  <2>1. /\ pools' = [pools EXCEPT ![k] = Config[k][cache[k]]]
        /\ queued' = queued \ {k} /\ UNCHANGED <<api, cache>>
    BY <1>3, Zenon DEF Reconcile, GetPoolKey, Published
  <2>2. /\ DOMAIN pools' = PoolKeys
        /\ \A l \in PoolKeys : pools'[l] = IF l = k THEN Config[k][cache[k]] ELSE pools[l]
    BY <2>1, Zenon DEF Reconciled
  <2> QED BY <2>1, <2>2, Zenon DEF Reconciled
<1>4. CASE Restart
  <2>1. /\ cache' = api /\ UNCHANGED api /\ queued' = {k \in PoolKeys : api[k] # None}
        /\ pools' = [k \in PoolKeys |-> NoPool]
    BY <1>4, Zenon DEF Restart
  <2>2. ASSUME NEW k \in PoolKeys \ queued'
        PROVE  pools'[k] = Config[k][cache'[k]]
    <3>1. cache'[k] = None /\ pools'[k] = NoPool
      BY <2>1, Zenon
    <3> QED BY <3>1, NoneHasNoPool, Zenon
  <2>3. DOMAIN pools' = PoolKeys
    BY <2>1, Zenon
  <2> QED BY <2>1, <2>2, <2>3, Zenon DEF Reconciled
<1>5. CASE UNCHANGED vars
  BY <1>5, Zenon DEF Reconciled, vars
<1> QED BY <1>1, <1>2, <1>3, <1>4, <1>5, Zenon DEF Next

\* The pool manager holds, for every key that no work queue holds, the
\* configuration of the cached object.
THEOREM PoolsFollowCache == Spec => []Reconciled
  BY ReconciledInit, ReconciledStep, PTL DEF Spec

\* OnlyAroundIsOffered: for every object, whatever its exclusions, the node
\* offers, once it has reconciled it, only addresses of its own part that are
\* neither the gateway nor excluded by index, and none of a listed exclusion
\* but of one around the whole prefix of a CIDRPool.
THEOREM OnlyAroundIsOfferedHolds == Spec => []OnlyAroundIsOffered
<1>1. ASSUME Reconciled, NEW k \in PoolKeys \ queued, NEW a \in Offered(pools[k])
      PROVE  /\ a \in Usable(k, cache[k], {})
             /\ \A i \in DOMAIN cache[k].excl :
                   a \in Denotes(<<cache[k].excl[i]>>) =>
                       k = "cidrpool" /\ Around(cache[k], cache[k].excl[i])
  <2> DEFINE o == cache[k]
  <2>1. o \in Objects(k) /\ pools[k] = Config[k][o]
    BY <1>1, Zenon DEF Reconciled
  <2> HIDE DEF o
  <2>2. a \in Usable(k, o, Heeded(k, o))
    BY <1>1, <2>1, ConfigOffers, Zenon
  <2>3. o # None /\ a \in Usable(k, o, {}) /\ a \notin Heeded(k, o)
    BY <2>2, Zenon DEF Usable
  <2>4. o \in IPPools \cup CIDRPools
    BY <2>1, <2>3, Zenon DEF Objects
  <2>5. o.excl \in Seq(IntRange)
    BY <2>4, ObjectFacts, Zenon
  <2>6. DOMAIN o.excl = 1 .. Len(o.excl)
    BY <2>5, RangeSeq, Zenon
  <2>7. ASSUME NEW i \in DOMAIN o.excl, a \in Denotes(<<o.excl[i]>>)
        PROVE  k = "cidrpool" /\ Around(o, o.excl[i])
    <3>1. a \in o.excl[i].start .. o.excl[i].end
      BY <2>7, DenotesOne, Zenon
    <3> QED BY <2>3, <2>5, <2>6, <3>1, HeededIs, Zenon
  <2> QED BY <2>3, <2>7, Zenon DEF o
<1>2. Reconciled => OnlyAroundIsOffered
  BY <1>1, Zenon DEF OnlyAroundIsOffered
<1> QED BY <1>2, PoolsFollowCache, PTL

\* OverlapIsRefused: for every IPPool, two exclusions with a common address
\* make RangeSet.Canonicalize fail, and the node offers nothing of the pool.
THEOREM OverlapIsRefusedHolds == Spec => []OverlapIsRefused
<1>1. ASSUME Reconciled, "ippool" \notin queued, cache["ippool"] # None,
             NEW i \in DOMAIN cache["ippool"].excl, NEW j \in DOMAIN cache["ippool"].excl, i # j,
             Denotes(<<cache["ippool"].excl[i]>>) \cap Denotes(<<cache["ippool"].excl[j]>>) # {}
      PROVE  Offered(pools["ippool"]) = {}
  <2> DEFINE o == cache["ippool"]
  <2>1. o \in Objects("ippool") /\ pools["ippool"] = Config["ippool"][o] /\ "ippool" \in PoolKeys
    BY <1>1, Zenon DEF Reconciled, PoolKeys
  <2>2. i \in DOMAIN o.excl /\ j \in DOMAIN o.excl /\ o # None
    BY <1>1, Zenon
  <2>3. PICK a : a \in Denotes(<<o.excl[i]>>) /\ a \in Denotes(<<o.excl[j]>>)
    BY <1>1, Zenon
  <2> HIDE DEF o
  <2>4. o \in IPPools
    BY <2>1, <2>2, Zenon DEF Objects
  <2>5. pools["ippool"] = IPPoolConfig(o)
    BY <2>1, Zenon DEF Config
  <2>6. Offered(IPPoolConfig(o)) = {}
    <3>1. a \in o.excl[i].start .. o.excl[i].end /\ a \in o.excl[j].start .. o.excl[j].end
      BY ONLY <2>3, DenotesOne, Zenon
    <3>2. i # j
      BY <1>1, Zenon
    <3> QED BY ONLY <2>2, <2>4, <3>1, <3>2, SharedRefused, Zenon
  <2> QED BY <2>5, <2>6, Zenon
<1>2. Reconciled => OverlapIsRefused
  BY <1>1, Zenon DEF OverlapIsRefused
<1> QED BY <1>2, PoolsFollowCache, PTL

\* NothingIsLost: for every object with valid exclusions of which no two share
\* an address of the node's subnet and none is cut to nothing at its border,
\* and with a block in the subnet, the node offers every address that the object
\* leaves it.
THEOREM NothingIsLostHolds == Spec => []NothingIsLost
<1>1. Reconciled => NothingIsLost
  BY ConfigOffers, Zenon DEF Reconciled, NothingIsLost
<1> QED BY <1>1, PoolsFollowCache, PTL

\* The safety half of FollowsAPI: when the cache is up to date and the work
\* queues are empty the pool manager holds what the API says, so that it is
\* enough for the informers and the queues to make progress.
THEOREM CaughtUpFollowsAPI ==
  Spec => [](cache = api /\ queued = {} => \A k \in PoolKeys : pools[k] = Config[k][api[k]])
<1>1. Reconciled => (cache = api /\ queued = {} => \A k \in PoolKeys : pools[k] = Config[k][api[k]])
  BY Zenon DEF Reconciled
<1> QED BY <1>1, PoolsFollowCache, PTL
=============================================================================
