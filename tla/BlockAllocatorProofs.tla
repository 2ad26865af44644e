------------------------- MODULE BlockAllocatorProofs -------------------------
(***************************************************************************)
(* AllocateFromPool returns the first free block of any subnet, for any    *)
(* block size, any exclusions and any blocks in use.                       *)
(***************************************************************************)
EXTENDS BlockAllocator, ExcludeRangesProofs

\* The blocks that are free when those starting in taken are in use.
Free(taken) == B!FreeBlocks(AsSets(cfg), taken)

\* The loop can go on at a: a is the start of a block and no free block
\* begins before it; past the last address, there is none.
Stands(taken, a) ==
    IF a = NoIP THEN Free(taken) = {}
    ELSE B!Aligned(cfg, a) /\ \A t \in Free(taken) : a <= t

\* A call can resume after a.
Passed(taken, a) == B!Aligned(cfg, a) /\ \A t \in Free(taken) : a < t

\* The inductive invariant.  Where a call resumes, after the last block
\* allocated, and where the loop stands, at the candidate, no free block has
\* been passed; a candidate past the last address means that there is none.
IInv ==
    /\ cfg \in Configs
    /\ TypeOK
    /\ last # NoIP => Passed(startIps, last)
    /\ pc = "loop" => before = startIps /\ Stands(startIps, cand)
    /\ pc = "found" => B!IsFirst(Free(before), cand)
    /\ pc = "full" => Free(before) = {}
-----------------------------------------------------------------------------
(***************************************************************************)
(* One configuration.                                                      *)
(***************************************************************************)

\* What Validate guarantees of a configuration.
LEMMA ConfigFacts ==
  ASSUME NEW c \in Configs
  PROVE  /\ c.net.lo \in 0 .. MaxIP /\ c.net.hi \in 0 .. MaxIP /\ c.net.lo <= c.net.hi
         /\ c.size \in Int /\ c.size > 0
         /\ c.excl \in Seq(AddrRange)
         /\ c.perNode \in Seq(IntRange)
         /\ \A q \in Elems(c.perNode) : 0 <= q.start /\ q.start <= q.end /\ q.end <= c.size - 1
<1>1. /\ c \in PoolConfigs /\ c.net.lo <= c.net.hi
      /\ validateExclusions(c.net, c.excl)
      /\ validatePerNodeExclusions(c.perNode, c.size)
  BY ConfigsAssumption, Zenon
<1>2. /\ c.net \in [lo : 0 .. MaxIP, hi : 0 .. MaxIP]
      /\ c.size \in Nat \ {0}
      /\ c.excl \in Seq(IntRange) /\ c.perNode \in Seq(IntRange)
  BY <1>1 DEF PoolConfigs, IntRange
<1>3. c.net.lo \in 0 .. MaxIP /\ c.net.hi \in 0 .. MaxIP
  BY <1>2
<1>4. \A r \in Elems(c.excl) : 0 <= r.start /\ r.start <= r.end /\ r.end <= MaxIP
  <2>1. ASSUME NEW r \in Elems(c.excl)
        PROVE  0 <= r.start /\ r.start <= r.end /\ r.end <= MaxIP
    <3>1. c.net.lo <= r.start /\ r.start <= r.end /\ r.end <= c.net.hi
      BY <1>1, Zenon DEF validateExclusions, Elems
    <3>2. r \in IntRange
      BY <1>2, ElemsType, Zenon
    <3>3. r.start \in Int /\ r.end \in Int
      BY <3>2 DEF IntRange
    <3> QED BY <1>3, <3>1, <3>3, MaxIPAssumption
  <2> QED BY <2>1
<1>5. c.excl \in Seq(AddrRange)
  BY <1>2, <1>4, IsAddrRangeSeq, Zenon
<1>6. \A q \in Elems(c.perNode) : 0 <= q.start /\ q.start <= q.end /\ q.end <= c.size - 1
  BY <1>1, Zenon DEF validatePerNodeExclusions, Elems
<1>7. c.size \in Int /\ c.size > 0
  BY <1>2
<1> QED BY <1>1, <1>2, <1>3, <1>5, <1>6, <1>7, Zenon

\* AsSets changes only the exclusions.
LEMMA AsSetsFacts ==
  ASSUME NEW c \in Configs
  PROVE  /\ AsSets(c).net = c.net /\ AsSets(c).v4 = c.v4 /\ AsSets(c).size = c.size
         /\ AsSets(c).gw = c.gw
         /\ AsSets(c).excl = Denotes(c.excl) /\ AsSets(c).perNode = Denotes(c.perNode)
<1>1. c \in PoolConfigs
  BY ConfigsAssumption, Zenon
<1>2. PICK e, p : e = Denotes(c.excl) /\ p = Denotes(c.perNode)
  OBVIOUS
<1>3. AsSets(c) = [c EXCEPT !.excl = e, !.perNode = p]
  BY <1>2, Zenon DEF AsSets
<1> QED BY <1>1, <1>2, <1>3 DEF PoolConfigs

\* The first block begins in the subnet.
LEMMA FirstStart ==
  ASSUME NEW c \in Configs
  PROVE  B!getFirstStartIP(c) \in c.net.lo .. c.net.hi /\ B!getFirstStartIP(c) \in 0 .. MaxIP
<1>1. c.net.lo \in 0 .. MaxIP /\ c.net.hi \in 0 .. MaxIP /\ c.net.lo <= c.net.hi
  BY ConfigFacts, Zenon
<1> QED BY <1>1, MaxIPAssumption DEF B!getFirstStartIP, B!canUseNetworkAddress

\* Blocks begin at multiples of the block size after the first.
LEMMA AlignedFacts ==
  ASSUME NEW c \in Configs, NEW s \in Int, B!Aligned(c, s)
  PROVE  /\ c.net.lo <= s
         /\ B!Aligned(c, s + c.size)
         /\ \A k \in Nat : k * c.size \in Nat /\ B!Aligned(c, s + k * c.size)
         /\ \A t \in Int : B!Aligned(c, t) /\ s < t => s + c.size <= t
<1>1. PICK f \in Int : f = B!getFirstStartIP(c) /\ c.net.lo <= f
  <2>1. c.net.lo \in 0 .. MaxIP /\ c.net.hi \in 0 .. MaxIP
    BY ConfigFacts, Zenon
  <2> QED BY <2>1, FirstStart, MaxIPAssumption
<1>2. PICK z \in Int : z = c.size /\ z > 0
  BY ConfigFacts, Zenon
<1>3. \A t : B!Aligned(c, t) <=> t >= f /\ (t - f) % z = 0
  BY <1>1, <1>2, Zenon DEF B!Aligned
<1>4. s >= f /\ (s - f) % z = 0
  BY <1>3, Zenon
<1>5. z % z = 0
  BY <1>2
<1>6. ASSUME NEW y \in Nat, y % z = 0
      PROVE  B!Aligned(c, s + y)
  <2>1. PICK x \in Int : x = s - f
    BY <1>1
  <2>2. (x + y) % z = 0
    <3>1. x % z = 0 /\ y \in Int
      BY <1>4, <2>1
    <3> QED BY <1>2, <1>6, <3>1, MultipleSum
  <2>3. x + y = (s + y) - f /\ s + y >= f
    BY <1>1, <1>4, <2>1
  <2> QED BY <1>3, <2>2, <2>3, Zenon
<1>7. z \in Nat
  BY <1>2
<1>8. B!Aligned(c, s + z)
  BY <1>5, <1>6, <1>7, Zenon
<1>9. ASSUME NEW k \in Nat
      PROVE  k * z \in Nat /\ B!Aligned(c, s + k * z)
  <2>1. k * z \in Nat
    BY <1>7
  <2>2. (k * z) % z = 0
    BY <1>2, SMTT(30)
  <2> QED BY <1>6, <2>1, <2>2, Zenon
<1>10. ASSUME NEW t \in Int, B!Aligned(c, t), s < t
       PROVE  s + z <= t
  <2>1. PICK x \in Int, y \in Int : x = s - f /\ y = t - f /\ x < y
    BY <1>1, <1>10
  <2>2. x % z = 0 /\ y % z = 0
    BY <1>3, <1>10, <2>1, Zenon
  <2>3. x + z <= y
    BY <1>2, <2>1, <2>2, MultipleGap, Zenon
  <2> QED BY <1>1, <1>2, <2>1, <2>3
<1>11. c.net.lo <= s
  <2>1. c.net.lo \in Int
    BY ConfigFacts, MaxIPAssumption
  <2> QED BY <1>1, <1>4, <2>1
<1> QED BY <1>2, <1>8, <1>9, <1>10, <1>11, Zenon

\* A free block is aligned, fits, is not taken, excluded or the gateway.
LEMMA FreeFacts ==
  ASSUME NEW c \in Configs, NEW T, NEW t \in B!FreeBlocks(AsSets(c), T)
  PROVE  /\ t \in 0 .. MaxIP /\ B!Aligned(c, t) /\ B!allocationValid(c, t)
         /\ t \notin T /\ ~B!Excluded(AsSets(c), t) /\ ~B!IsGateway(c, t)
<1>1. PICK A : A = AsSets(c) /\ A.net = c.net /\ A.v4 = c.v4 /\ A.size = c.size /\ A.gw = c.gw
  BY AsSetsFacts, Zenon
<1>2. /\ t \in A.net.lo .. A.net.hi /\ B!Aligned(A, t) /\ B!allocationValid(A, t)
      /\ t \notin T /\ ~B!Excluded(A, t) /\ ~B!IsGateway(A, t)
  BY <1>1, Zenon DEF B!FreeBlocks
<1>3. c.net.lo \in 0 .. MaxIP /\ c.net.hi \in 0 .. MaxIP
  BY ConfigFacts, Zenon
<1>4. t \in 0 .. MaxIP
  BY <1>1, <1>2, <1>3, MaxIPAssumption
<1>5. B!Aligned(c, t)
  BY <1>1, <1>2, Zenon DEF B!Aligned, B!getFirstStartIP, B!canUseNetworkAddress
<1>6. B!allocationValid(c, t)
  BY <1>1, <1>2, Zenon
     DEF B!allocationValid, B!InNet, B!EndOf, B!IsBroadcast, B!canUseNetworkAddress
<1>7. ~B!IsGateway(c, t)
  BY <1>1, <1>2, Zenon DEF B!IsGateway
<1> QED BY <1>1, <1>2, <1>4, <1>5, <1>6, <1>7, Zenon

\* And such a block is free.
LEMMA IsFree ==
  ASSUME NEW c \in Configs, NEW T, NEW t \in 0 .. MaxIP, B!Aligned(c, t), B!allocationValid(c, t),
         t \notin T, ~B!Excluded(AsSets(c), t), ~B!IsGateway(c, t)
  PROVE  t \in B!FreeBlocks(AsSets(c), T)
<1>1. PICK A : A = AsSets(c) /\ A.net = c.net /\ A.v4 = c.v4 /\ A.size = c.size /\ A.gw = c.gw
  BY AsSetsFacts, Zenon
<1>2. B!Aligned(A, t)
  BY <1>1, Zenon DEF B!Aligned, B!getFirstStartIP, B!canUseNetworkAddress
<1>3. B!allocationValid(A, t)
  BY <1>1, Zenon
     DEF B!allocationValid, B!InNet, B!EndOf, B!IsBroadcast, B!canUseNetworkAddress
<1>4. ~B!IsGateway(A, t)
  BY <1>1, Zenon DEF B!IsGateway
<1>5. t \in c.net.lo .. c.net.hi
  <2>1. /\ c.net.lo \in Int /\ c.net.hi \in Int /\ c.size \in Int /\ c.size > 0
    BY ConfigFacts, MaxIPAssumption
  <2>2. c.net.lo <= t
    BY AlignedFacts, MaxIPAssumption
  <2>3. t + c.size - 1 <= c.net.hi
    BY Zenon DEF B!allocationValid, B!InNet, B!EndOf
  <2> QED BY <2>1, <2>2, <2>3, MaxIPAssumption
<1>6. t \in A.net.lo .. A.net.hi
  BY <1>1, <1>5, Zenon
<1> QED BY <1>1, <1>2, <1>3, <1>4, <1>6, Zenon DEF B!FreeBlocks

\* A candidate that allocationValid accepts, and the block after it.
LEMMA ValidFacts ==
  ASSUME cfg \in Configs, NEW s \in {NoIP} \cup 0 .. MaxIP, Valid(s)
  PROVE  /\ s \in 0 .. MaxIP /\ B!allocationValid(cfg, s)
         /\ EndIP(s) = s + cfg.size - 1 /\ EndIP(s) \in 0 .. MaxIP
         /\ NextIP(EndIP(s)) \in {NoIP} \cup 0 .. MaxIP
         /\ NextIP(EndIP(s)) = NoIP => s + cfg.size > MaxIP
         /\ NextIP(EndIP(s)) # NoIP => NextIP(EndIP(s)) = s + cfg.size
<1>1. s # NoIP /\ EndIP(s) # NoIP /\ B!allocationValid(cfg, s)
  BY Zenon DEF Valid
<1>2. s \in 0 .. MaxIP
  BY <1>1
<1>3. PICK z \in Int : z = cfg.size /\ z > 0
  BY ConfigFacts, Zenon
<1>4. EndIP(s) = s + z - 1 /\ s + z - 1 <= MaxIP
  BY <1>1, <1>2, <1>3, MaxIPAssumption DEF EndIP, NextIPWithOffset
<1>5. PICK e \in 0 .. MaxIP : e = EndIP(s) /\ e = s + z - 1
  BY <1>2, <1>3, <1>4, MaxIPAssumption
<1>6. /\ NextIP(e) \in {NoIP} \cup 0 .. MaxIP
      /\ NextIP(e) = NoIP => e + 1 > MaxIP
      /\ NextIP(e) # NoIP => NextIP(e) = e + 1
  BY MaxIPAssumption DEF NextIP, NextIPWithOffset, NoIP
<1>7. e + 1 = s + z
  BY <1>2, <1>3, <1>5, MaxIPAssumption
<1> QED BY <1>1, <1>2, <1>3, <1>5, <1>6, <1>7, Zenon

\* From a block that is not free the loop can go on at the next one.
LEMMA StepOver ==
  ASSUME cfg \in Configs, NEW T, NEW s \in 0 .. MaxIP, Stands(T, s), s \notin Free(T),
         NEW n \in {NoIP} \cup 0 .. MaxIP,
         n = NoIP => s + cfg.size > MaxIP, n # NoIP => n = s + cfg.size
  PROVE  /\ Stands(T, n)
         /\ B!Aligned(cfg, s + cfg.size) /\ \A t \in Free(T) : s + cfg.size <= t
<1>1. s # NoIP /\ s \in Int
  BY MaxIPAssumption DEF NoIP
<1>2. B!Aligned(cfg, s) /\ \A t \in Free(T) : s <= t
  BY <1>1, Zenon DEF Stands
<1>3. PICK z \in Int : z = cfg.size /\ z > 0
  BY ConfigFacts, Zenon
<1>4. ASSUME NEW t \in Free(T)
      PROVE  s + z <= t /\ t \in 0 .. MaxIP
  <2>1. t \in 0 .. MaxIP /\ B!Aligned(cfg, t)
    BY FreeFacts, Zenon DEF Free
  <2>2. s < t /\ t \in Int
    BY <1>1, <1>2, <2>1, MaxIPAssumption
  <2> QED BY <1>1, <1>2, <1>3, <2>1, <2>2, AlignedFacts, Zenon
<1>5. B!Aligned(cfg, s + z)
  BY <1>1, <1>2, <1>3, AlignedFacts, Zenon
<1>6. CASE n = NoIP
  <2>1. ASSUME NEW t \in Free(T) PROVE FALSE
    BY <1>1, <1>3, <1>4, <1>6, <2>1, MaxIPAssumption
  <2> QED BY <1>3, <1>4, <1>5, <1>6, <2>1, Zenon DEF Stands
<1>7. CASE n # NoIP
  BY <1>3, <1>4, <1>5, <1>7, Zenon DEF Stands
<1> QED BY <1>6, <1>7

\* Excluded of the closed form, written out.
LEMMA ExcludedIs ==
  ASSUME NEW c \in Configs, NEW s
  PROVE  B!Excluded(AsSets(c), s)
           <=> \A a \in s .. s + c.size - 1 : a \in Denotes(c.excl) \/ a - s \in Denotes(c.perNode)
BY AsSetsFacts, Zenon DEF B!Excluded, B!EndOf

\* isEntireRangeExcluded of a valid candidate, as FullyExcluded computes it.
LEMMA CandidateExcluded ==
  ASSUME cfg \in Configs, NEW s \in {NoIP} \cup 0 .. MaxIP, Valid(s)
  PROVE  isEntireRangeExcluded(s) <=> B!Excluded(AsSets(cfg), s)
<1>1. s \in 0 .. MaxIP /\ EndIP(s) = s + cfg.size - 1 /\ EndIP(s) \in 0 .. MaxIP
  BY ValidFacts, Zenon
<1>2. PICK e \in 0 .. MaxIP : e = EndIP(s)
  BY <1>1
<1>3. cfg.excl \in Seq(AddrRange) /\ cfg.perNode \in Seq(IntRange) /\ cfg.size \in Int /\ cfg.size > 0
  BY ConfigFacts, Zenon
<1>4. s <= e
  BY <1>1, <1>2, <1>3, MaxIPAssumption
<1>5. ASSUME NEW q \in Elems(cfg.perNode)
      PROVE  0 <= q.start /\ q.start <= q.end /\ s + q.end <= MaxIP
  <2>1. 0 <= q.start /\ q.start <= q.end /\ q.end <= cfg.size - 1
    BY ConfigFacts, Zenon
  <2>2. q \in IntRange
    BY <1>3, ElemsType, Zenon
  <2>3. q.end \in Int
    BY <2>2 DEF IntRange
  <2> QED BY <1>1, <1>3, <2>1, <2>3, MaxIPAssumption
<1>6. FullyExcluded(cfg.excl, cfg.perNode, s, s, e)
        <=> \A a \in s .. e : a \in Denotes(cfg.excl) \/ a - s \in Denotes(cfg.perNode)
  BY <1>1, <1>3, <1>4, <1>5, FullyExcludedIs, Zenon
<1> QED BY <1>1, <1>2, <1>6, ExcludedIs, Zenon DEF isEntireRangeExcluded

\* When the per-node exclusions cover every index of a block there is no free
\* block, and AllocateFromPool need not search for one.
LEMMA CoveredPool ==
  ASSUME cfg \in Configs, ExcludeIndexRangesCover(cfg.perNode, cfg.size - 1), NEW T
  PROVE  Free(T) = {}
<1>1. cfg.perNode \in Seq(IntRange) /\ cfg.size \in Int /\ cfg.size > 0
  BY ConfigFacts, Zenon
<1>2. \A r \in Elems(cfg.perNode) : 0 <= r.start /\ r.start <= r.end
  BY ConfigFacts, Zenon
<1>3. PICK L \in Nat : L = cfg.size - 1
  BY <1>1
<1>4. 0 .. L \subseteq Denotes(cfg.perNode)
  BY <1>1, <1>2, <1>3, CoverIs, Zenon
<1> SUFFICES ASSUME NEW t \in Free(T) PROVE FALSE
  OBVIOUS
<1>5. t \in 0 .. MaxIP /\ ~B!Excluded(AsSets(cfg), t)
  BY FreeFacts, Zenon DEF Free
<1>6. \A a \in t .. t + cfg.size - 1 : a - t \in 0 .. L
  BY <1>1, <1>3, <1>5, MaxIPAssumption
<1> QED BY <1>4, <1>5, <1>6, ExcludedIs, Zenon

\* A block inside one exclusion is not free.
LEMMA InsideExclusion ==
  ASSUME cfg \in Configs, NEW T, NEW t \in Free(T), NEW lo \in Int, NEW hi \in Int,
         lo .. hi \subseteq Denotes(cfg.excl)
  PROVE  ~(lo <= t /\ t + cfg.size - 1 <= hi)
<1> SUFFICES ASSUME lo <= t, t + cfg.size - 1 <= hi PROVE FALSE
  OBVIOUS
<1>1. t \in 0 .. MaxIP /\ ~B!Excluded(AsSets(cfg), t)
  BY FreeFacts, Zenon DEF Free
<1>2. cfg.size \in Int /\ cfg.size > 0
  BY ConfigFacts, Zenon
<1>3. \A a \in t .. t + cfg.size - 1 : a \in lo .. hi
  BY <1>1, <1>2, MaxIPAssumption
<1> QED BY <1>1, <1>3, ExcludedIs, Zenon

\* getNextNonExcludedCandidates: no free block lies between an excluded
\* block and the candidate it returns, also when it jumps.
LEMMA Jump ==
  ASSUME cfg \in Configs, NEW T, NEW s \in 0 .. MaxIP, Valid(s), Stands(T, s), s \notin Free(T)
  PROVE  /\ NextCandidate(s) \in {NoIP} \cup 0 .. MaxIP
         /\ NextCandidate(s) # NoIP => NextCandidate(s) > s
         /\ Stands(T, NextCandidate(s))
<1>1. PICK z \in Int : z = cfg.size /\ z > 0
  BY ConfigFacts, Zenon
<1> DEFINE next == NextIP(EndIP(s))
           merged == MergeExcludeRanges(cfg.excl)
           over == {i \in DOMAIN merged : Within(merged[i], next) /\ Within(merged[i], EndIP(next))}
           i == CHOOSE i \in over : \A j \in over : i <= j
           free == NextIP(merged[i].end)
           cand0 == NextCandidate(s)
<1>2. next \in {NoIP} \cup 0 .. MaxIP
  BY ValidFacts, Zenon
<1>3. (next = NoIP => s + z > MaxIP) /\ (next # NoIP => next = s + z)
  BY <1>1, ValidFacts, Zenon
<1>4. merged \in Seq(AddrRange) /\ Denotes(merged) = Denotes(cfg.excl)
  BY ConfigFacts, MergeFacts, Zenon
<1>5. \A j : j \in over <=> j \in DOMAIN merged /\ Within(merged[j], next) /\ Within(merged[j], EndIP(next))
  OBVIOUS
<1>6. (\E k \in over : \A j \in over : k <= j) => i \in over
  BY Zenon
<1>7. /\ next = NoIP \/ EndIP(next) = NoIP => cand0 = NoIP
      /\ next # NoIP /\ EndIP(next) # NoIP /\ over = {} => cand0 = next
      /\ next # NoIP /\ EndIP(next) # NoIP /\ over # {} /\ free = NoIP => cand0 = NoIP
      /\ next # NoIP /\ EndIP(next) # NoIP /\ over # {} /\ free # NoIP
           => cand0 = NextIPWithOffset(next, BlocksToSkip(free - next) * cfg.size)
  BY Zenon DEF NextCandidate
<1>8. free = NextIP(merged[i].end)
  OBVIOUS
<1> HIDE DEF next, merged, over, i, free, cand0
<1>9. Stands(T, next)
  BY <1>1, <1>2, <1>3, StepOver, Zenon
<1> SUFFICES /\ cand0 \in {NoIP} \cup 0 .. MaxIP
             /\ cand0 # NoIP => cand0 > s
             /\ Stands(T, cand0)
  BY Zenon DEF cand0
<1>10. CASE next = NoIP
  <2>1. cand0 = NoIP
    BY <1>7, <1>10, Zenon
  <2> QED BY <1>9, <1>10, <2>1, Zenon
<1>11. CASE next # NoIP /\ EndIP(next) = NoIP
  <2>1. cand0 = NoIP
    BY <1>7, <1>11, Zenon
  <2>2. next \in 0 .. MaxIP
    BY <1>2, <1>11
  <2>3. next + z - 1 > MaxIP
    BY <1>1, <1>11, <2>2, MaxIPAssumption DEF EndIP, NextIPWithOffset, NoIP
  <2>4. ASSUME NEW t \in Free(T) PROVE FALSE
    <3>1. next <= t
      BY <1>9, <1>11, Zenon DEF Stands
    <3>2. t \in 0 .. MaxIP /\ B!allocationValid(cfg, t)
      BY FreeFacts, Zenon DEF Free
    <3>3. t + z - 1 <= cfg.net.hi
      BY <1>1, <3>2, Zenon DEF B!allocationValid, B!InNet, B!EndOf
    <3>4. cfg.net.hi \in 0 .. MaxIP
      BY ConfigFacts, Zenon
    <3> QED BY <1>1, <2>2, <2>3, <3>1, <3>2, <3>3, <3>4, MaxIPAssumption
  <2> QED BY <2>1, <2>4, Zenon DEF Stands
<1>12. CASE next # NoIP /\ EndIP(next) # NoIP /\ over = {}
  <2>1. cand0 = next
    BY <1>7, <1>12, Zenon
  <2>2. next > s
    BY <1>1, <1>2, <1>3, <1>12, MaxIPAssumption
  <2> QED BY <1>2, <1>9, <2>1, <2>2, Zenon
<1>13. CASE next # NoIP /\ EndIP(next) # NoIP /\ over # {}
  <2>1. next \in 0 .. MaxIP /\ EndIP(next) = next + z - 1 /\ EndIP(next) \in 0 .. MaxIP
    <3>1. next \in 0 .. MaxIP
      BY <1>2, <1>13
    <3> QED BY <1>1, <1>13, <3>1, MaxIPAssumption DEF EndIP, NextIPWithOffset, NoIP
  <2>3. i \in over
    <3>1. over \subseteq Nat
      <4>1. DOMAIN merged \subseteq Nat
        BY <1>4
      <4> QED BY <1>5, <4>1, Zenon
    <3>2. \E k \in over : \A j \in over : k <= j
      BY <1>13, <3>1, LeastNat, Zenon
    <3> QED BY <1>6, <3>2, Zenon
  <2>4. PICK r \in AddrRange : r = merged[i] /\ Within(r, next) /\ Within(r, EndIP(next)) /\ i \in DOMAIN merged
    BY <1>4, <1>5, <2>3
  <2>5. /\ r.start \in Int /\ r.end \in 0 .. MaxIP
        /\ r.start <= next /\ next + z - 1 <= r.end
    BY <2>1, <2>4, AddrRangeFacts, Zenon DEF Within
  <2>6. r.start .. r.end \subseteq Denotes(cfg.excl)
    BY <1>4, <2>4, Zenon DEF Denotes
  <2>7. free = NextIP(r.end)
    BY <1>8, <2>4, Zenon
  <2>8. cand0 = IF free = NoIP THEN NoIP
                ELSE NextIPWithOffset(next, BlocksToSkip(free - next) * z)
    BY <1>1, <1>7, <1>13, Zenon
  <2>9. /\ free = NoIP => r.end = MaxIP
        /\ free # NoIP => free = r.end + 1 /\ free <= MaxIP
    BY <2>5, <2>7, MaxIPAssumption DEF NextIP, NextIPWithOffset, NoIP
  <2>10. ASSUME NEW t \in Free(T)
         PROVE  t \in 0 .. MaxIP /\ B!Aligned(cfg, t) /\ next <= t /\ t + z - 1 > r.end
    <3>1. t \in 0 .. MaxIP /\ B!Aligned(cfg, t)
      BY FreeFacts, Zenon DEF Free
    <3>2. next <= t
      BY <1>9, <1>13, Zenon DEF Stands
    <3>3. r.end \in Int
      BY <2>5, MaxIPAssumption
    <3>4. ~(r.start <= t /\ t + z - 1 <= r.end)
      BY <1>1, <2>5, <2>6, <3>3, InsideExclusion, Zenon
    <3> QED BY <1>1, <2>1, <2>5, <3>1, <3>2, <3>3, <3>4, MaxIPAssumption
  <2>11. CASE free = NoIP
    <3>1. ASSUME NEW t \in Free(T) PROVE FALSE
      <4>1. t + z - 1 <= MaxIP
        <5>1. t \in 0 .. MaxIP /\ B!allocationValid(cfg, t)
          BY FreeFacts, Zenon DEF Free
        <5>2. t + z - 1 <= cfg.net.hi
          BY <1>1, <5>1, Zenon DEF B!allocationValid, B!InNet, B!EndOf
        <5>3. cfg.net.hi \in 0 .. MaxIP
          BY ConfigFacts, Zenon
        <5> QED BY <1>1, <5>1, <5>2, <5>3, MaxIPAssumption
      <4> QED BY <1>1, <2>9, <2>10, <2>11, <4>1, MaxIPAssumption
    <3> QED BY <2>8, <2>11, <3>1, Zenon DEF Stands
  <2>12. CASE free # NoIP
    <3>1. PICK d \in Nat : d = free - next /\ free \in Int
      BY <1>1, <2>1, <2>5, <2>9, <2>12, MaxIPAssumption
    <3>2. PICK k, m : k = d \div z /\ m = d % z
      OBVIOUS
    <3>3. k \in Int /\ m \in 0 .. z - 1 /\ d = k * z + m
      BY <1>1, <3>1, <3>2, DivFacts, SMTT(30)
    <3>4. k \in Nat
      BY <1>1, <3>1, <3>2
    <3>5. PICK w \in Nat : w = k * z /\ B!Aligned(cfg, next + w)
      <4>1. B!Aligned(cfg, next) /\ next \in Int
        BY <1>9, <1>13, <2>1, MaxIPAssumption DEF Stands
      <4> QED BY <1>1, <3>4, <4>1, AlignedFacts, Zenon
    <3>6. w <= d /\ d < w + z
      BY <1>1, <3>3, <3>5
    <3>7. cand0 = next + w /\ next + w \in 0 .. MaxIP
      <4>1. cand0 = NextIPWithOffset(next, w)
        BY <1>1, <2>8, <2>12, <3>1, <3>2, <3>5, Zenon DEF BlocksToSkip
      <4>2. next + w <= MaxIP
        BY <2>1, <2>9, <2>12, <3>1, <3>6, MaxIPAssumption
      <4> QED BY <2>1, <4>1, <4>2, MaxIPAssumption DEF NextIPWithOffset, NoIP
    <3>8. ASSUME NEW t \in Free(T) PROVE next + w <= t
      <4> SUFFICES ASSUME t < next + w PROVE FALSE
        BY <2>1, <2>10, MaxIPAssumption
      <4>1. t \in Int /\ next + w \in Int
        BY <2>1, <2>10, MaxIPAssumption
      <4>2. t + z <= next + w
        BY <1>1, <2>10, <3>5, <4>1, AlignedFacts, Zenon
      <4>3. r.end = free - 1 /\ r.end \in Int
        BY <2>5, <2>9, <2>12, MaxIPAssumption
      <4> QED BY <1>1, <2>1, <2>10, <3>1, <3>6, <4>1, <4>2, <4>3, MaxIPAssumption, SMTT(30)
    <3>9. next + w # NoIP /\ next + w > s
      BY <1>1, <1>3, <1>13, <2>1, MaxIPAssumption DEF NoIP
    <3> QED BY <3>5, <3>7, <3>8, <3>9, Zenon DEF Stands
  <2> QED BY <2>11, <2>12
<1> QED BY <1>10, <1>11, <1>12, <1>13
-----------------------------------------------------------------------------
(***************************************************************************)
(* The steps of AllocateFromPool.                                          *)
(***************************************************************************)

\* Where a call begins: at the first block, or after the last one allocated.
LEMMA BeginAt ==
  ASSUME cfg \in Configs, last \in {NoIP} \cup 0 .. MaxIP,
         last # NoIP => Passed(startIps, last),
         NEW a, a = IF last = NoIP THEN B!getFirstStartIP(cfg) ELSE NextIPWithOffset(last, cfg.size)
  PROVE  a \in {NoIP} \cup 0 .. MaxIP /\ Stands(startIps, a)
<1>1. PICK z \in Int : z = cfg.size /\ z > 0
  BY ConfigFacts, Zenon
<1>2. CASE last = NoIP
  <2>1. a = B!getFirstStartIP(cfg) /\ a \in 0 .. MaxIP
    BY <1>2, FirstStart, Zenon
  <2>2. a # NoIP /\ a \in Int /\ a >= a /\ (a - a) % z = 0
    BY <1>1, <2>1, MaxIPAssumption DEF NoIP
  <2>3. B!Aligned(cfg, a)
    BY <1>1, <2>1, <2>2, Zenon DEF B!Aligned
  <2>4. ASSUME NEW t \in Free(startIps) PROVE a <= t
    <3>1. t \in 0 .. MaxIP /\ B!Aligned(cfg, t)
      BY FreeFacts, Zenon DEF Free
    <3>2. t >= a
      BY <2>1, <3>1, Zenon DEF B!Aligned
    <3> QED BY <2>1, <3>1, <3>2, MaxIPAssumption
  <2> QED BY <2>1, <2>2, <2>3, <2>4, Zenon DEF Stands
<1>3. CASE last # NoIP
  <2>1. last \in 0 .. MaxIP /\ last \in Int
    BY <1>3, MaxIPAssumption
  <2>2. B!Aligned(cfg, last) /\ \A t \in Free(startIps) : last < t
    BY <1>3, Zenon DEF Passed
  <2>3. ASSUME NEW t \in Free(startIps) PROVE last + z <= t /\ t \in 0 .. MaxIP
    <3>1. t \in 0 .. MaxIP /\ B!Aligned(cfg, t)
      BY FreeFacts, Zenon DEF Free
    <3>2. t \in Int
      BY <3>1, MaxIPAssumption
    <3> QED BY <1>1, <2>1, <2>2, <3>1, <3>2, AlignedFacts, Zenon
  <2>4. a = NextIPWithOffset(last, z)
    BY <1>1, <1>3, Zenon
  <2>5. \/ a = NoIP /\ last + z > MaxIP
        \/ a = last + z /\ a \in 0 .. MaxIP /\ a # NoIP
    BY <1>1, <1>3, <2>1, <2>4, MaxIPAssumption DEF NextIPWithOffset, NoIP
  <2>6. CASE a = NoIP /\ last + z > MaxIP
    <3>1. Free(startIps) = {}
      BY <1>1, <2>1, <2>3, <2>6, MaxIPAssumption
    <3> QED BY <2>6, <3>1, Zenon DEF Stands
  <2>7. CASE a = last + z /\ a \in 0 .. MaxIP /\ a # NoIP
    <3>1. B!Aligned(cfg, a)
      BY <1>1, <2>1, <2>2, <2>7, AlignedFacts, Zenon
    <3> QED BY <2>3, <2>7, <3>1, Zenon DEF Stands
  <2> QED BY <2>5, <2>6, <2>7
<1> QED BY <1>2, <1>3

\* A candidate that is not valid lies past the last block.
LEMMA PastTheEnd ==
  ASSUME cfg \in Configs, NEW T, NEW s \in {NoIP} \cup 0 .. MaxIP, Stands(T, s), ~Valid(s)
  PROVE  Free(T) = {}
<1>1. CASE s = NoIP
  BY <1>1, Zenon DEF Stands
<1>2. CASE s # NoIP
  <2>1. s \in 0 .. MaxIP /\ s \in Int
    BY <1>2, MaxIPAssumption
  <2>2. B!Aligned(cfg, s) /\ \A t \in Free(T) : s <= t
    BY <1>2, Zenon DEF Stands
  <2>3. PICK z \in Int : z = cfg.size /\ z > 0
    BY ConfigFacts, Zenon
  <2>4. PICK hi \in 0 .. MaxIP : hi = cfg.net.hi
    BY ConfigFacts, Zenon
  <2>5. cfg.net.lo \in 0 .. MaxIP /\ cfg.net.lo <= s
    BY <2>1, <2>2, AlignedFacts, ConfigFacts, Zenon
  <2> SUFFICES ASSUME NEW t \in Free(T) PROVE FALSE
    OBVIOUS
  <2>6. t \in 0 .. MaxIP /\ B!allocationValid(cfg, t) /\ s <= t
    BY <2>2, FreeFacts, Zenon DEF Free
  <2>7. /\ t + z - 1 <= hi
        /\ ~B!IsBroadcast(cfg, t + z - 1) \/ B!canUseNetworkAddress(cfg)
    BY <2>3, <2>4, <2>6, Zenon DEF B!allocationValid, B!InNet, B!EndOf
  <2>8. EndIP(s) = s + z - 1 /\ EndIP(s) # NoIP
    BY <1>2, <2>1, <2>3, <2>4, <2>6, <2>7, MaxIPAssumption DEF EndIP, NextIPWithOffset, NoIP
  <2>9. B!allocationValid(cfg, s)
    BY <2>1, <2>3, <2>4, <2>5, <2>6, <2>7, MaxIPAssumption
       DEF B!allocationValid, B!InNet, B!EndOf, B!IsBroadcast
  <2> QED BY <1>2, <2>8, <2>9, Zenon DEF Valid
<1> QED BY <1>1, <1>2

\* A step that keeps the configuration keeps what is free and where one
\* stands.
LEMMA SameConfig ==
  ASSUME UNCHANGED cfg
  PROVE  /\ Free(startIps)' = Free(startIps') /\ Free(before)' = Free(before')
         /\ Stands(startIps, cand)' <=> Stands(startIps', cand')
         /\ Passed(startIps, last)' <=> Passed(startIps', last')
         /\ B!IsFirst(Free(before), cand)' <=> B!IsFirst(Free(before'), cand')
<1>1. Free(startIps)' = Free(startIps') /\ Free(before)' = Free(before')
  BY Zenon DEF Free
<1>2. Stands(startIps, cand)' <=> Stands(startIps', cand')
  BY <1>1, Zenon DEF Stands, NoIP
<1>3. Passed(startIps, last)' <=> Passed(startIps', last')
  BY <1>1, Zenon DEF Passed
<1>4. B!IsFirst(Free(before), cand)' <=> B!IsFirst(Free(before'), cand')
  BY <1>1, Zenon DEF B!IsFirst
<1> QED BY <1>1, <1>2, <1>3, <1>4, Zenon

\* A pool as the reconciler has loaded it satisfies the invariant.
LEMMA InitIInv == Init => IInv
<1> SUFFICES ASSUME Init PROVE IInv
  OBVIOUS
<1>1. cfg \in Configs /\ last = NoIP /\ cand = NoIP /\ pc = "idle" /\ before = startIps
  BY Zenon DEF Init
<1>2. startIps \subseteq 0 .. MaxIP
  <2>1. startIps \subseteq cfg.net.lo .. cfg.net.hi
    BY Zenon DEF Init, Loadable
  <2>2. cfg.net.lo \in 0 .. MaxIP /\ cfg.net.hi \in 0 .. MaxIP
    BY <1>1, ConfigFacts, Zenon
  <2>3. cfg.net.lo .. cfg.net.hi \subseteq 0 .. MaxIP
    BY <2>2, MaxIPAssumption
  <2> QED BY <2>1, <2>3, Zenon
<1> QED BY <1>1, <1>2, Zenon DEF IInv, TypeOK

\* The turn of the loop that skips a candidate keeps the invariant when the
\* loop can go on where it goes.
LEMMA SkipStep ==
  ASSUME IInv, pc = "loop", UNCHANGED <<cfg, startIps, last, pc, before>>,
         cand' \in {NoIP} \cup 0 .. MaxIP, Stands(startIps, cand')
  PROVE  IInv'
<1>1. UNCHANGED cfg /\ startIps' = startIps /\ last' = last /\ pc' = "loop" /\ before' = before
  OBVIOUS
<1>2. TypeOK'
  BY <1>1, Zenon DEF IInv, TypeOK, NoIP
<1>3. Stands(startIps, cand)'
  BY <1>1, SameConfig, Zenon
<1>4. last' # NoIP => Passed(startIps, last)'
  BY <1>1, SameConfig, Zenon DEF IInv
<1> QED BY <1>1, <1>2, <1>3, <1>4, Zenon DEF IInv, NoIP

\* A candidate that is taken, excluded or the gateway is not free.
LEMMA NotFree ==
  ASSUME cfg \in Configs, NEW T, NEW s \in {NoIP} \cup 0 .. MaxIP, Valid(s),
         s \in T \/ isEntireRangeExcluded(s) \/ B!IsGateway(cfg, s)
  PROVE  s \notin Free(T)
<1> SUFFICES ASSUME s \in Free(T) PROVE FALSE
  OBVIOUS
<1>1. s \notin T /\ ~B!Excluded(AsSets(cfg), s) /\ ~B!IsGateway(cfg, s)
  BY FreeFacts, Zenon DEF Free
<1> QED BY <1>1, CandidateExcluded, Zenon

\* Skipping to the block after the candidate.
LEMMA SkipToNext ==
  ASSUME IInv, pc = "loop", Valid(cand), cand \notin Free(startIps)
  PROVE  /\ NextIP(EndIP(cand)) \in {NoIP} \cup 0 .. MaxIP /\ Stands(startIps, NextIP(EndIP(cand)))
         /\ NextIP(EndIP(cand)) # NoIP => NextIP(EndIP(cand)) > cand
<1>1. cfg \in Configs /\ Stands(startIps, cand) /\ cand \in {NoIP} \cup 0 .. MaxIP
  BY Zenon DEF IInv, TypeOK
<1>2. PICK n \in {NoIP} \cup 0 .. MaxIP : n = NextIP(EndIP(cand))
  BY <1>1, ValidFacts, Zenon
<1>3. /\ cand \in 0 .. MaxIP
      /\ n = NoIP => cand + cfg.size > MaxIP
      /\ n # NoIP => n = cand + cfg.size
  BY <1>1, <1>2, ValidFacts, Zenon
<1>4. Stands(startIps, n)
  BY <1>1, <1>3, StepOver, Zenon
<1>5. n # NoIP => n > cand
  <2>1. PICK z \in Int : z = cfg.size /\ z > 0
    BY <1>1, ConfigFacts, Zenon
  <2> QED BY <1>3, <2>1, MaxIPAssumption
<1> QED BY <1>2, <1>4, <1>5, Zenon

\* The block that AllocateFromPool returns is the first free one, and the
\* next call may resume after it.
LEMMA FoundBlock ==
  ASSUME IInv, Found
  PROVE  /\ cand \in 0 .. MaxIP /\ cand # NoIP
         /\ B!IsFirst(Free(startIps), cand)
         /\ Passed(startIps \cup {cand}, cand)
<1>1. /\ cfg \in Configs /\ Stands(startIps, cand) /\ cand \in {NoIP} \cup 0 .. MaxIP
      /\ Valid(cand) /\ cand \notin startIps /\ ~isEntireRangeExcluded(cand) /\ ~B!IsGateway(cfg, cand)
  BY Zenon DEF IInv, TypeOK, Found
<1>2. cand \in 0 .. MaxIP /\ cand \in Int /\ cand # NoIP /\ B!allocationValid(cfg, cand)
  <2>1. cand \in 0 .. MaxIP /\ B!allocationValid(cfg, cand)
    BY <1>1, ValidFacts, Zenon
  <2> QED BY <2>1, MaxIPAssumption DEF NoIP
<1>3. B!Aligned(cfg, cand) /\ \A t \in Free(startIps) : cand <= t
  BY <1>1, <1>2, Zenon DEF Stands
<1>4. ~B!Excluded(AsSets(cfg), cand)
  BY <1>1, CandidateExcluded, Zenon
<1>5. cand \in Free(startIps)
  BY <1>1, <1>2, <1>3, <1>4, IsFree, Zenon DEF Free
<1>6. B!IsFirst(Free(startIps), cand)
  BY <1>3, <1>5, Zenon DEF B!IsFirst
<1>7. ASSUME NEW t \in Free(startIps \cup {cand}) PROVE cand < t
  <2>1. /\ t \in 0 .. MaxIP /\ B!Aligned(cfg, t) /\ B!allocationValid(cfg, t)
        /\ t \notin startIps \cup {cand} /\ ~B!Excluded(AsSets(cfg), t) /\ ~B!IsGateway(cfg, t)
    BY <1>1, FreeFacts, Zenon DEF Free
  <2>2. t \in Free(startIps)
    BY <1>1, <2>1, IsFree, Zenon DEF Free
  <2>3. cand <= t /\ t # cand
    BY <1>3, <2>1, <2>2, Zenon
  <2> QED BY <1>2, <2>1, <2>3, MaxIPAssumption
<1> QED BY <1>2, <1>3, <1>6, <1>7, Zenon DEF Passed

\* Every step of AllocateFromPool keeps the invariant.
LEMMA NextIInv ==
  ASSUME IInv, [Next]_vars
  PROVE  IInv'
<1>1. /\ cfg \in Configs /\ TypeOK
      /\ last # NoIP => Passed(startIps, last)
      /\ pc = "loop" => before = startIps /\ Stands(startIps, cand)
  BY Zenon DEF IInv
<1>2. /\ last \in {NoIP} \cup 0 .. MaxIP /\ cand \in {NoIP} \cup 0 .. MaxIP
      /\ startIps \subseteq 0 .. MaxIP /\ before \subseteq startIps
  BY <1>1, Zenon DEF TypeOK
<1>3. CASE Begin
  <2>1. /\ pc = "idle" /\ before' = startIps
        /\ UNCHANGED cfg /\ startIps' = startIps /\ last' = last
    BY <1>3, Zenon DEF Begin
  <2>2. last' # NoIP => Passed(startIps, last)'
    BY <1>1, <2>1, SameConfig, Zenon
  <2>3. CASE ExcludeIndexRangesCover(cfg.perNode, cfg.size - 1)
    <3>1. pc' = "full" /\ cand' = cand
      BY <1>3, <2>3, Zenon DEF Begin
    <3>2. Free(before)' = {}
      BY <1>1, <2>1, <2>3, CoveredPool, SameConfig, Zenon
    <3>3. TypeOK'
      BY <1>2, <2>1, <3>1, Zenon DEF TypeOK, NoIP
    <3> QED BY <1>1, <2>1, <2>2, <3>1, <3>2, <3>3, Zenon DEF IInv, NoIP
  <2>4. CASE ~ExcludeIndexRangesCover(cfg.perNode, cfg.size - 1)
    <3>1. /\ pc' = "loop"
          /\ cand' = IF last = NoIP THEN B!getFirstStartIP(cfg) ELSE NextIPWithOffset(last, cfg.size)
      BY <1>3, <2>4, Zenon DEF Begin
    <3>2. cand' \in {NoIP} \cup 0 .. MaxIP /\ Stands(startIps, cand')
      BY <1>1, <1>2, <3>1, BeginAt, Zenon
    <3>3. Stands(startIps, cand)'
      BY <2>1, <3>2, SameConfig, Zenon
    <3>4. TypeOK'
      BY <1>2, <2>1, <3>1, <3>2, Zenon DEF TypeOK, NoIP
    <3> QED BY <1>1, <2>1, <2>2, <3>1, <3>3, <3>4, Zenon DEF IInv, NoIP
  <2> QED BY <2>3, <2>4
<1>4. CASE SkipTaken
  <2>1. /\ pc = "loop" /\ Valid(cand) /\ cand \in startIps /\ cand' = NextIP(EndIP(cand))
        /\ UNCHANGED <<cfg, startIps, last, pc, before>>
    BY <1>4, Zenon DEF SkipTaken
  <2>2. cand \notin Free(startIps)
    BY <1>1, <1>2, <2>1, NotFree, Zenon
  <2> QED BY <2>1, <2>2, SkipToNext, SkipStep, Zenon
<1>5. CASE SkipExcluded
  <2>1. /\ pc = "loop" /\ Valid(cand) /\ isEntireRangeExcluded(cand) /\ cand' = NextCandidate(cand)
        /\ UNCHANGED <<cfg, startIps, last, pc, before>>
    BY <1>5, Zenon DEF SkipExcluded
  <2>2. cand \notin Free(startIps)
    BY <1>1, <1>2, <2>1, NotFree, Zenon
  <2>3. cand \in 0 .. MaxIP
    BY <1>1, <1>2, <2>1, ValidFacts, Zenon
  <2>4. cand' \in {NoIP} \cup 0 .. MaxIP /\ Stands(startIps, cand')
    BY <1>1, <2>1, <2>2, <2>3, Jump, Zenon
  <2> QED BY <2>1, <2>4, SkipStep, Zenon
<1>6. CASE SkipGateway
  <2>1. /\ pc = "loop" /\ Valid(cand) /\ B!IsGateway(cfg, cand) /\ cand' = NextIP(EndIP(cand))
        /\ UNCHANGED <<cfg, startIps, last, pc, before>>
    BY <1>6, Zenon DEF SkipGateway
  <2>2. cand \notin Free(startIps)
    BY <1>1, <1>2, <2>1, NotFree, Zenon
  <2> QED BY <2>1, <2>2, SkipToNext, SkipStep, Zenon
<1>7. CASE Found
  <2>1. /\ pc = "loop" /\ pc' = "found" /\ startIps' = startIps \cup {cand} /\ last' = cand
        /\ UNCHANGED cfg /\ cand' = cand /\ before' = before
    BY <1>7, Zenon DEF Found
  <2>2. /\ cand \in 0 .. MaxIP /\ B!IsFirst(Free(startIps), cand)
        /\ Passed(startIps \cup {cand}, cand)
    BY <1>7, FoundBlock, Zenon
  <2>3. Passed(startIps, last)'
    BY <2>1, <2>2, SameConfig, Zenon
  <2>4. B!IsFirst(Free(before), cand)'
    BY <1>1, <2>1, <2>2, SameConfig, Zenon
  <2>5. TypeOK'
    BY <1>2, <2>1, <2>2, Zenon DEF TypeOK, NoIP
  <2> QED BY <1>1, <2>1, <2>3, <2>4, <2>5, Zenon DEF IInv
<1>8. CASE NoFreeRanges
  <2>1. /\ pc = "loop" /\ ~Valid(cand) /\ pc' = "full"
        /\ UNCHANGED cfg /\ startIps' = startIps /\ last' = last /\ cand' = cand /\ before' = before
    BY <1>8, Zenon DEF NoFreeRanges
  <2>2. Free(before)' = {}
    BY <1>1, <1>2, <2>1, PastTheEnd, SameConfig, Zenon
  <2>3. last' # NoIP => Passed(startIps, last)'
    BY <1>1, <2>1, SameConfig, Zenon
  <2>4. TypeOK'
    BY <1>2, <2>1, Zenon DEF TypeOK, NoIP
  <2> QED BY <1>1, <2>1, <2>2, <2>3, <2>4, Zenon DEF IInv, NoIP
<1>9. CASE NextNode
  <2>1. /\ pc' = "idle"
        /\ UNCHANGED cfg /\ startIps' = startIps /\ last' = last /\ cand' = cand /\ before' = before
    BY <1>9, Zenon DEF NextNode
  <2>2. last' # NoIP => Passed(startIps, last)'
    BY <1>1, <2>1, SameConfig, Zenon
  <2>3. TypeOK'
    BY <1>2, <2>1, Zenon DEF TypeOK, NoIP
  <2> QED BY <1>1, <2>1, <2>2, <2>3, Zenon DEF IInv, NoIP
<1>10. CASE UNCHANGED vars
  <2>1. /\ UNCHANGED cfg /\ startIps' = startIps /\ last' = last /\ cand' = cand
        /\ pc' = pc /\ before' = before
    BY <1>10 DEF vars
  <2>2. TypeOK'
    BY <1>1, <2>1, Zenon DEF TypeOK, NoIP
  <2> QED BY <2>1, <2>2, SameConfig, Zenon DEF IInv, NoIP
<1> QED BY <1>3, <1>4, <1>5, <1>6, <1>7, <1>8, <1>9, <1>10, Zenon DEF Next
-----------------------------------------------------------------------------
\* Throughout the calls of AllocateFromPool, for every accepted
\* configuration, the loop passes no free block.
THEOREM BlockInvariant == Spec => []IInv
<1>1. IInv /\ [Next]_vars => IInv'
  BY NextIInv
<1> QED BY InitIInv, <1>1, PTL DEF Spec

\* The allocator's addresses stay in the address space.
THEOREM BlockTypes == Spec => []TypeOK
<1>1. IInv => TypeOK
  BY Zenon DEF IInv
<1> QED BY BlockInvariant, <1>1, PTL

\* The block that AllocateFromPool returns is the first free one of the
\* subnet, although it resumes after the last one and jumps over exclusions.
THEOREM FirstFreeBlock == Spec => []FoundIsFirstFree
<1>1. IInv => FoundIsFirstFree
  BY Zenon DEF IInv, FoundIsFirstFree, Free
<1> QED BY BlockInvariant, <1>1, PTL

\* ErrNoFreeRanges means that no free block is left.
THEOREM FullMeansFull == Spec => []FullIsFull
<1>1. IInv => FullIsFull
  BY Zenon DEF IInv, FullIsFull, Free
<1> QED BY BlockInvariant, <1>1, PTL

\* isEntireRangeExcluded finds a candidate excluded exactly when each of its
\* addresses is, whatever the exclusion lists.
THEOREM ExclusionIsExact == Spec => []ExcludedIsCovered
<1>1. IInv => ExcludedIsCovered
  BY CandidateExcluded, Zenon DEF IInv, TypeOK, ExcludedIsCovered
<1> QED BY BlockInvariant, <1>1, PTL

\* Every turn of AllocateFromPool's loop moves the candidate forward or past
\* the last address, also when getNextNonExcludedCandidates jumps.
THEOREM LoopAdvances == Spec => CandidateAdvances
<1>1. IInv /\ [Next]_vars => [pc = "loop" /\ pc' = "loop" => cand' > cand \/ cand' = NoIP]_vars
  <2> SUFFICES ASSUME IInv, Next, pc = "loop", pc' = "loop"
               PROVE  cand' > cand \/ cand' = NoIP
    BY Zenon
  <2>1. cfg \in Configs /\ Stands(startIps, cand) /\ cand \in {NoIP} \cup 0 .. MaxIP
    BY Zenon DEF IInv, TypeOK
  <2>2. CASE SkipTaken \/ SkipGateway
    <3>1. /\ Valid(cand) /\ (cand \in startIps \/ B!IsGateway(cfg, cand))
          /\ cand' = NextIP(EndIP(cand))
      BY <2>2, Zenon DEF SkipTaken, SkipGateway
    <3>2. cand \notin Free(startIps)
      BY <2>1, <3>1, NotFree, Zenon
    <3> QED BY <3>1, <3>2, SkipToNext, Zenon
  <2>3. CASE SkipExcluded
    <3>1. Valid(cand) /\ isEntireRangeExcluded(cand) /\ cand' = NextCandidate(cand)
      BY <2>3, Zenon DEF SkipExcluded
    <3>2. cand \notin Free(startIps) /\ cand \in 0 .. MaxIP
      BY <2>1, <3>1, NotFree, ValidFacts, Zenon
    <3> QED BY <2>1, <3>1, <3>2, Jump, Zenon
  <2>4. ~Begin /\ ~Found /\ ~NoFreeRanges /\ ~NextNode
    BY Zenon DEF Begin, Found, NoFreeRanges, NextNode
  <2> QED BY <2>2, <2>3, <2>4, Zenon DEF Next
<1> QED BY BlockInvariant, <1>1, PTL DEF Spec, CandidateAdvances
=============================================================================
