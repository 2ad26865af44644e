------------------------ MODULE PrefixAllocatorProofs ------------------------
(***************************************************************************)
(* getNewAllocationForNode returns the first free prefix of any CIDR, for  *)
(* any prefix size, any exclusions and any prefixes in use.                *)
(***************************************************************************)
EXTENDS PrefixAllocator, ExcludeRangesProofs

\* The prefixes that are free when those in taken are in use.
Free(taken) == P!FreePrefixes(AsSets(cfg), taken)

\* The i-th prefix of the CIDR.
At(i) == cfg.net.lo + cfg.size * i

\* The inductive invariant.  The iterator, which the nodes share, has passed
\* no free prefix; while a prefix is judged, it stands just behind it.
IInv ==
    /\ cfg \in Configs
    /\ TypeOK
    /\ pc # "judge" => \A t \in Free(used) : At(nextIndex) <= t
    /\ pc = "judge" => /\ nextIndex > 0 /\ prefix = At(nextIndex - 1)
                       /\ \A t \in Free(used) : prefix <= t
    /\ pc \in {"next", "judge"} => before = used
    /\ pc = "found" => P!IsFirst(Free(before), prefix)
    /\ pc = "full" => Free(before) = {}
-----------------------------------------------------------------------------
(***************************************************************************)
(* One configuration.                                                      *)
(***************************************************************************)

\* What Validate guarantees of a configuration.
LEMMA ConfigFacts ==
  ASSUME NEW c \in Configs
  PROVE  /\ c.net.lo \in 0 .. MaxIP /\ c.net.hi \in 0 .. MaxIP /\ c.net.lo <= c.net.hi
         /\ c.size \in Int /\ c.size > 0 /\ (c.net.hi - c.net.lo + 1) % c.size = 0
         /\ c.excl \in Seq(AddrRange)
         /\ c.perNode \in Seq(IntRange)
         /\ \A q \in Elems(c.perNode) : 0 <= q.start /\ q.start <= q.end /\ q.end <= c.size - 1
<1>1. /\ c \in PoolConfigs /\ c.net.lo <= c.net.hi /\ (c.net.hi - c.net.lo + 1) % c.size = 0
      /\ validateExclusions(c.net, c.excl)
      /\ validatePerNodeExclusions(c.perNode, c.size)
  BY ConfigsAssumption, Zenon
<1>2. /\ c.net \in [lo : 0 .. MaxIP, hi : 0 .. MaxIP]
      /\ c.size \in Nat \ {0}
      /\ c.excl \in Seq(IntRange) /\ c.perNode \in Seq(IntRange)
  BY <1>1 DEF PoolConfigs, IntRange
<1>3. c.net.lo \in 0 .. MaxIP /\ c.net.hi \in 0 .. MaxIP
  BY <1>2
<1>4. \A r \in Elems(c.excl) : 0 <= r.start /\ r.start <= r.end /\ r.end <= MaxIP
  <2>1. ASSUME NEW r \in Elems(c.excl)
        PROVE  0 <= r.start /\ r.start <= r.end /\ r.end <= MaxIP
    <3>1. c.net.lo <= r.start /\ r.start <= r.end /\ r.end <= c.net.hi
      BY <1>1, Zenon DEF validateExclusions, Elems
    <3>2. r \in IntRange
      BY <1>2, ElemsType, Zenon
    <3>3. r.start \in Int /\ r.end \in Int
      BY <3>2 DEF IntRange
    <3> QED BY <1>3, <3>1, <3>3, MaxIPAssumption
  <2> QED BY <2>1
<1>5. c.excl \in Seq(AddrRange)
  BY <1>2, <1>4, IsAddrRangeSeq, Zenon
<1>6. \A q \in Elems(c.perNode) : 0 <= q.start /\ q.start <= q.end /\ q.end <= c.size - 1
  BY <1>1, Zenon DEF validatePerNodeExclusions, Elems
<1>7. c.size \in Int /\ c.size > 0
  BY <1>2
<1> QED BY <1>1, <1>2, <1>3, <1>5, <1>6, <1>7, Zenon

\* AsSets changes only the exclusions.
LEMMA AsSetsFacts ==
  ASSUME NEW c \in Configs
  PROVE  /\ AsSets(c).net = c.net /\ AsSets(c).v4 = c.v4 /\ AsSets(c).size = c.size
         /\ AsSets(c).excl = Denotes(c.excl) /\ AsSets(c).perNode = Denotes(c.perNode)
<1>1. c \in PoolConfigs
  BY ConfigsAssumption, Zenon
<1>2. PICK e, p : e = Denotes(c.excl) /\ p = Denotes(c.perNode)
  OBVIOUS
<1>3. AsSets(c) = [c EXCEPT !.excl = e, !.perNode = p]
  BY <1>2, Zenon DEF AsSets
<1> QED BY <1>1, <1>2, <1>3 DEF PoolConfigs

\* The prefixes follow each other at the distance of their size.
LEMMA AtFacts ==
  ASSUME cfg \in Configs
  PROVE  /\ \A i \in Int : At(i) \in Int /\ At(i + 1) = At(i) + cfg.size
         /\ \A i, j \in Int : i <= j => At(i) <= At(j)
<1>1. PICK z \in Int : z = cfg.size /\ z > 0
  BY ConfigFacts, Zenon
<1>2. PICK lo \in Int : lo = cfg.net.lo
  <2>1. cfg.net.lo \in 0 .. MaxIP
    BY ConfigFacts, Zenon
  <2> QED BY <2>1, MaxIPAssumption
<1>3. \A i : At(i) = lo + z * i
  BY <1>1, <1>2, Zenon DEF At
<1>4. \A i \in Int : lo + z * i \in Int /\ lo + z * (i + 1) = (lo + z * i) + z
  OBVIOUS
<1>5. \A i, j \in Int : i <= j => lo + z * i <= lo + z * j
  BY <1>1
<1> QED BY <1>1, <1>3, <1>4, <1>5, Zenon

\* The SubnetIterator walks over the whole CIDR.
LEMMA CountFacts ==
  ASSUME cfg \in Configs
  PROVE  subnetCount \in Nat /\ At(subnetCount) = cfg.net.hi + 1
<1>1. PICK z \in Int : z = cfg.size /\ z > 0
  BY ConfigFacts, Zenon
<1>2. PICK lo \in 0 .. MaxIP, hi \in 0 .. MaxIP :
        lo = cfg.net.lo /\ hi = cfg.net.hi /\ lo <= hi /\ (hi - lo + 1) % z = 0
  BY <1>1, ConfigFacts, Zenon
<1>3. PICK d \in Nat : d = hi - lo + 1
  BY <1>2, MaxIPAssumption
<1>4. PICK q, r : q = d \div z /\ r = d % z
  OBVIOUS
<1>5. q \in Int /\ r = 0 /\ d = q * z + r
  <2>1. r = 0 /\ d \in Int
    BY <1>2, <1>3, <1>4
  <2> QED BY <1>1, <1>4, <2>1, DivFacts
<1>6. q \in Nat
  BY <1>1, <1>3, <1>4
<1>7. subnetCount = q
  BY <1>1, <1>2, <1>3, <1>4, Zenon DEF subnetCount
<1>8. lo + z * q = hi + 1
  <2>1. z * q = d
    BY <1>1, <1>5
  <2>2. lo + d = hi + 1
    BY <1>2, <1>3, MaxIPAssumption
  <2> QED BY <2>1, <2>2, Zenon
<1> QED BY <1>1, <1>2, <1>6, <1>7, <1>8, Zenon DEF At

\* The i-th prefix is one of the CIDR.
LEMMA AtIsPrefix ==
  ASSUME cfg \in Configs, NEW i \in Int, 0 <= i, i < subnetCount
  PROVE  /\ At(i) \in P!PrefixesOf(cfg) /\ At(i) \in 0 .. MaxIP
         /\ At(i) + cfg.size - 1 <= MaxIP
<1>1. PICK z \in Int : z = cfg.size /\ z > 0
  BY ConfigFacts, Zenon
<1>2. PICK lo \in 0 .. MaxIP, hi \in 0 .. MaxIP : lo = cfg.net.lo /\ hi = cfg.net.hi
  BY ConfigFacts, Zenon
<1>3. PICK n \in Nat : n = subnetCount /\ At(n) = hi + 1
  BY <1>2, CountFacts, Zenon
<1>4. i + 1 \in Int /\ i + 1 <= n
  BY <1>3
<1>5. At(i) \in Int /\ At(i + 1) = At(i) + z /\ At(i + 1) <= At(n)
  <2>1. n \in Int
    BY <1>3
  <2> QED BY <1>1, <1>4, <2>1, AtFacts, Zenon
<1>6. PICK a \in Int : a = At(i) /\ a = lo + z * i
  BY <1>1, <1>2, <1>5, Zenon DEF At
<1>7. a - lo = i * z /\ a >= lo
  BY <1>1, <1>2, <1>6, MaxIPAssumption
<1>8. (a - lo) % z = 0
  <2>1. PICK x \in Int : x = a - lo
    BY <1>2, MaxIPAssumption
  <2>2. x % z = 0
    BY <1>1, <1>7, <2>1, MultipleIs, Zenon
  <2> QED BY <2>1, <2>2, Zenon
<1>9. a + z <= hi + 1
  BY <1>3, <1>5, <1>6, Zenon
<1>10. a \in lo .. hi /\ a \in 0 .. MaxIP /\ a + z - 1 <= MaxIP
  BY <1>1, <1>2, <1>6, <1>7, <1>9, MaxIPAssumption
<1> QED BY <1>1, <1>2, <1>6, <1>8, <1>10, Zenon DEF P!PrefixesOf

\* A prefix of the CIDR is the i-th one for some i.
LEMMA PrefixIsAt ==
  ASSUME cfg \in Configs, NEW p \in P!PrefixesOf(cfg)
  PROVE  \E i \in Int : 0 <= i /\ i < subnetCount /\ p = At(i)
<1>1. PICK z \in Int : z = cfg.size /\ z > 0
  BY ConfigFacts, Zenon
<1>2. PICK lo \in 0 .. MaxIP, hi \in 0 .. MaxIP : lo = cfg.net.lo /\ hi = cfg.net.hi
  BY ConfigFacts, Zenon
<1>3. p \in lo .. hi /\ (p - lo) % z = 0
  BY <1>1, <1>2, Zenon DEF P!PrefixesOf
<1>4. PICK x \in Int : x = p - lo /\ 0 <= x /\ p = lo + x /\ p <= hi /\ p \in Int
  BY <1>2, <1>3, MaxIPAssumption
<1>5. PICK i \in Int : x = i * z
  <2>1. x % z = 0
    BY <1>3, <1>4, Zenon
  <2> QED BY <1>1, <2>1, MultipleIs, Zenon
<1>6. 0 <= i
  <2>1. i <= -1 => i * z <= (-1) * z
    BY <1>1
  <2>2. ~(x <= (-1) * z)
    BY <1>1, <1>4
  <2>3. ~(i <= -1)
    BY <1>5, <2>1, <2>2, Zenon
  <2> QED BY <2>3
<1>7. p = At(i)
  <2>1. z * i = x
    BY <1>1, <1>5
  <2> QED BY <1>1, <1>2, <1>4, <2>1, Zenon DEF At
<1>8. i < subnetCount
  <2>1. PICK n \in Int : n = subnetCount /\ At(n) = hi + 1
    <3>1. subnetCount \in Nat
      BY CountFacts, Zenon
    <3> QED BY <1>2, <3>1, CountFacts
  <2>2. n <= i => At(n) <= At(i)
    BY <2>1, AtFacts, Zenon
  <2>3. ~(hi + 1 <= p)
    BY <1>2, <1>4, MaxIPAssumption
  <2>4. ~(n <= i)
    BY <1>7, <2>1, <2>2, <2>3, Zenon
  <2> QED BY <2>1, <2>4
<1> QED BY <1>6, <1>7, <1>8, Zenon

\* The last address of a prefix that can be used lies in the prefix.
LEMMA LastFacts ==
  ASSUME cfg \in Configs, NEW p \in Int
  PROVE  /\ P!LastIP(cfg, p) \in Int /\ p <= P!LastIP(cfg, p) /\ P!LastIP(cfg, p) <= p + cfg.size - 1
         /\ lastUsableIndex \in Nat /\ P!LastIP(cfg, p) = p + lastUsableIndex
<1>1. PICK z \in Int : z = cfg.size /\ z > 0
  BY ConfigFacts, Zenon
<1>2. \A q : P!LastIP(cfg, q) = IF cfg.v4 /\ z > 2 THEN q + z - 2 ELSE q + z - 1
  BY <1>1, Zenon DEF P!LastIP
<1>3. CASE cfg.v4 /\ z > 2
  <2>1. P!LastIP(cfg, p) = p + z - 2 /\ lastUsableIndex = 0 + z - 2
    BY <1>2, <1>3, Zenon DEF lastUsableIndex
  <2> QED BY <1>1, <1>3, <2>1
<1>4. CASE ~(cfg.v4 /\ z > 2)
  <2>1. P!LastIP(cfg, p) = p + z - 1 /\ lastUsableIndex = 0 + z - 1
    BY <1>2, <1>4, Zenon DEF lastUsableIndex
  <2> QED BY <1>1, <2>1
<1> QED BY <1>3, <1>4

\* isPrefixFullyExcluded of the closed form, written out.
LEMMA ExcludedIs ==
  ASSUME NEW c \in Configs, NEW p
  PROVE  P!isPrefixFullyExcluded(AsSets(c), p)
           <=> \A a \in p .. P!LastIP(c, p) : a \in Denotes(c.excl) \/ a - p \in Denotes(c.perNode)
<1>1. P!LastIP(AsSets(c), p) = P!LastIP(c, p)
  BY AsSetsFacts, Zenon DEF P!LastIP
<1> QED BY <1>1, AsSetsFacts, Zenon DEF P!isPrefixFullyExcluded

\* A free prefix is one of the CIDR, not taken and not fully excluded.
LEMMA FreeFacts ==
  ASSUME NEW c \in Configs, NEW T, NEW t
  PROVE  t \in P!FreePrefixes(AsSets(c), T)
           <=> t \in P!PrefixesOf(c) /\ t \notin T /\ ~P!isPrefixFullyExcluded(AsSets(c), t)
<1>1. P!PrefixesOf(AsSets(c)) = P!PrefixesOf(c)
  BY AsSetsFacts, Zenon DEF P!PrefixesOf
<1> QED BY <1>1, Zenon DEF P!FreePrefixes

\* isPrefixFullyExcluded of the i-th prefix, as FullyExcluded computes it.
LEMMA JudgedExcluded ==
  ASSUME cfg \in Configs, NEW i \in Int, 0 <= i, i < subnetCount, prefix = At(i)
  PROVE  PrefixExcluded <=> P!isPrefixFullyExcluded(AsSets(cfg), prefix)
<1>1. prefix \in 0 .. MaxIP /\ prefix \in Int /\ prefix + cfg.size - 1 <= MaxIP
  <2>1. prefix \in 0 .. MaxIP /\ prefix + cfg.size - 1 <= MaxIP
    BY AtIsPrefix, Zenon
  <2> QED BY <2>1, MaxIPAssumption
<1>2. PICK z \in Int : z = cfg.size /\ z > 0
  BY ConfigFacts, Zenon
<1>3. PICK e \in Int : e = P!LastIP(cfg, prefix) /\ prefix <= e /\ e <= prefix + z - 1
  BY <1>1, <1>2, LastFacts, Zenon
<1>4. e \in 0 .. MaxIP
  BY <1>1, <1>2, <1>3, MaxIPAssumption
<1>5. cfg.excl \in Seq(AddrRange) /\ cfg.perNode \in Seq(IntRange)
  BY ConfigFacts, Zenon
<1>6. ASSUME NEW q \in Elems(cfg.perNode)
      PROVE  0 <= q.start /\ q.start <= q.end /\ prefix + q.end <= MaxIP
  <2>1. 0 <= q.start /\ q.start <= q.end /\ q.end <= z - 1
    BY <1>2, ConfigFacts, Zenon
  <2>2. q \in IntRange
    BY <1>5, ElemsType, Zenon
  <2>3. q.end \in Int
    BY <2>2 DEF IntRange
  <2> QED BY <1>1, <1>2, <2>1, <2>3, MaxIPAssumption
<1>7. FullyExcluded(cfg.excl, cfg.perNode, prefix, prefix, e)
        <=> \A a \in prefix .. e : a \in Denotes(cfg.excl) \/ a - prefix \in Denotes(cfg.perNode)
  BY <1>1, <1>3, <1>4, <1>5, <1>6, FullyExcludedIs, Zenon
<1> QED BY <1>3, <1>7, ExcludedIs, Zenon DEF PrefixExcluded

\* When the per-node exclusions cover every usable index there is no free
\* prefix, and getNewAllocationForNode need not search for one.
LEMMA CoveredPool ==
  ASSUME cfg \in Configs, ExcludeIndexRangesCover(cfg.perNode, lastUsableIndex), NEW T
  PROVE  Free(T) = {}
<1>1. cfg.perNode \in Seq(IntRange)
  BY ConfigFacts, Zenon
<1>2. \A r \in Elems(cfg.perNode) : 0 <= r.start /\ r.start <= r.end
  BY ConfigFacts, Zenon
<1>3. PICK L \in Nat : L = lastUsableIndex
  <2>1. 0 \in Int
    OBVIOUS
  <2> QED BY <2>1, LastFacts, Zenon
<1>4. 0 .. L \subseteq Denotes(cfg.perNode)
  BY <1>1, <1>2, <1>3, CoverIs, Zenon
<1> SUFFICES ASSUME NEW t \in Free(T) PROVE FALSE
  OBVIOUS
<1>5. t \in P!PrefixesOf(cfg) /\ ~P!isPrefixFullyExcluded(AsSets(cfg), t)
  BY FreeFacts, Zenon DEF Free
<1>6. t \in Int
  BY <1>5, PrefixIsAt, AtFacts, Zenon
<1>7. P!LastIP(cfg, t) = t + L
  BY <1>3, <1>6, LastFacts, Zenon
<1>8. \A a \in t .. t + L : a - t \in 0 .. L
  BY <1>3, <1>6
<1> QED BY <1>4, <1>5, <1>7, <1>8, ExcludedIs, Zenon

\* A prefix inside one exclusion is not free.
LEMMA InsideExclusion ==
  ASSUME cfg \in Configs, NEW T, NEW t \in Free(T), NEW lo \in Int, NEW hi \in Int,
         lo .. hi \subseteq Denotes(cfg.excl), lo <= t
  PROVE  t + cfg.size - 1 > hi
<1>1. t \in P!PrefixesOf(cfg) /\ ~P!isPrefixFullyExcluded(AsSets(cfg), t)
  BY FreeFacts, Zenon DEF Free
<1>2. t \in Int
  BY <1>1, PrefixIsAt, AtFacts, Zenon
<1>3. PICK z \in Int : z = cfg.size /\ z > 0
  BY ConfigFacts, Zenon
<1>4. PICK e \in Int : e = P!LastIP(cfg, t) /\ e <= t + z - 1
  BY <1>2, <1>3, LastFacts, Zenon
<1> SUFFICES ASSUME t + z - 1 <= hi PROVE FALSE
  BY <1>2, <1>3
<1>5. \A a \in t .. e : a \in lo .. hi
  BY <1>2, <1>3, <1>4
<1> QED BY <1>1, <1>4, <1>5, ExcludedIs, Zenon

\* A set of addresses has a largest one.
LEMMA Largest ==
  ASSUME NEW S, S \subseteq 0 .. MaxIP, S # {}
  PROVE  \E x \in S : \A y \in S : x >= y
<1>1. PICK T : T = {MaxIP - x : x \in S}
  BY Zenon
<1>2. T \subseteq Nat /\ T # {}
  <2>1. \A x \in S : MaxIP - x \in Nat
    BY MaxIPAssumption
  <2> QED BY <1>1, <2>1, Zenon
<1>3. PICK m \in T : \A y \in T : m <= y
  BY <1>2, LeastNat, Zenon
<1>4. PICK x \in S : m = MaxIP - x
  BY <1>1, Zenon
<1>5. ASSUME NEW y \in S PROVE x >= y
  <2>1. MaxIP - y \in T
    BY <1>1, Zenon
  <2>2. MaxIP - x <= MaxIP - y
    BY <1>3, <1>4, <2>1, Zenon
  <2>3. x \in 0 .. MaxIP /\ y \in 0 .. MaxIP
    OBVIOUS
  <2> QED BY <2>2, <2>3, MaxIPAssumption
<1> QED BY <1>5, Zenon

\* A free prefix as the i-th one.
LEMMA FreeIsAt ==
  ASSUME cfg \in Configs, NEW T, NEW t \in Free(T)
  PROVE  \E i \in Int : 0 <= i /\ i < subnetCount /\ t = At(i)
BY FreeFacts, PrefixIsAt, Zenon DEF Free

\* Behind a prefix that is not free comes the next one.
LEMMA BehindPrefix ==
  ASSUME cfg \in Configs, NEW T, NEW k \in Int,
         \A t \in Free(T) : At(k - 1) <= t, At(k - 1) \notin Free(T),
         NEW i \in Int, At(i) \in Free(T)
  PROVE  k <= i
<1> SUFFICES ASSUME i <= k - 1 PROVE FALSE
  OBVIOUS
<1>1. k - 1 \in Int
  OBVIOUS
<1>2. At(i) <= At(k - 1) /\ At(k - 1) <= At(i) /\ At(i) \in Int /\ At(k - 1) \in Int
  BY <1>1, AtFacts, Zenon
<1>3. \A x, y \in Int : x <= y /\ y <= x => x = y
  OBVIOUS
<1>4. At(i) = At(k - 1)
  BY <1>2, <1>3, Zenon
<1> QED BY <1>4, Zenon

\* Division with a remainder.
LEMMA Quotient ==
  ASSUME NEW d \in Int, NEW z \in Int, z > 0, NEW q, q = d \div z
  PROVE  \E m \in 0 .. z - 1 : q \in Int /\ d = q * z + m
<1>1. PICK m : m = d % z
  BY Zenon
<1>2. q \in Int /\ m \in 0 .. z - 1 /\ d = q * z + m
  BY <1>1, DivFacts
<1> QED BY <1>2, Zenon

\* The index of the prefix in which the address after e lies.
LEMMA TargetIndex ==
  ASSUME cfg \in Configs, NEW e \in Int, NEW q \in Int, NEW m \in Int, 0 <= m,
         e + 1 - cfg.net.lo = q * cfg.size + m, NEW i \in Int, At(i) + cfg.size - 1 > e
  PROVE  q <= i
<1>1. PICK z \in Int : z = cfg.size /\ z > 0
  BY ConfigFacts, Zenon
<1>2. PICK lo \in Int : lo = cfg.net.lo
  <2>1. cfg.net.lo \in 0 .. MaxIP
    BY ConfigFacts, Zenon
  <2> QED BY <2>1, MaxIPAssumption
<1>3. PICK w \in Int : w = q * z /\ w = z * q
  BY <1>1
<1>4. e + 1 - lo = w + m
  BY <1>1, <1>2, <1>3, Zenon
<1>5. At(q) <= e + 1
  <2>1. At(q) = lo + w
    BY <1>1, <1>2, <1>3, Zenon DEF At
  <2>2. lo + w <= e + 1
    BY <1>2, <1>4
  <2> QED BY <2>1, <2>2, Zenon
<1>6. At(i) \in Int /\ At(i + 1) = At(i) + z /\ At(q) \in Int /\ i + 1 \in Int
  <2>1. i + 1 \in Int
    OBVIOUS
  <2> QED BY <1>1, <2>1, AtFacts, Zenon
<1>7. At(i) + z > e + 1
  BY <1>1, <1>6
<1>8. ~(At(i + 1) <= At(q))
  BY <1>1, <1>5, <1>6, <1>7
<1>9. ~(i + 1 <= q)
  BY <1>6, <1>8, AtFacts, Zenon
<1> QED BY <1>9

\* overlappingExclusionEnd and AdvancePastIP: the iterator, moved past the
\* exclusion that a fully excluded prefix meets, passes no free prefix.
LEMMA Advance ==
  ASSUME cfg \in Configs, nextIndex \in 0 .. subnetCount, nextIndex > 0, prefix = At(nextIndex - 1),
         NEW T, \A t \in Free(T) : prefix <= t, prefix \notin Free(T),
         NEW e, e \in overlappingExclusionEnds
  PROVE  /\ AdvancePastIP(e) \in 0 .. subnetCount
         /\ \A t \in Free(T) : At(AdvancePastIP(e)) <= t
<1>1. PICK z \in Int : z = cfg.size /\ z > 0
  BY ConfigFacts, Zenon
<1>2. PICK lo \in 0 .. MaxIP : lo = cfg.net.lo
  BY ConfigFacts, Zenon
<1>3. PICK N \in Nat : N = subnetCount
  BY CountFacts, Zenon
<1>4. PICK k \in Int : k = nextIndex /\ 0 < k /\ k <= N
  BY <1>3
<1>5. prefix \in 0 .. MaxIP /\ prefix \in Int /\ lo <= prefix
  <2>1. k - 1 \in Int /\ 0 <= k - 1 /\ k - 1 < N
    BY <1>3, <1>4
  <2>2. prefix \in P!PrefixesOf(cfg) /\ prefix \in 0 .. MaxIP
    BY <1>3, <1>4, <2>1, AtIsPrefix, Zenon
  <2>3. prefix \in cfg.net.lo .. cfg.net.hi
    BY <2>2, Zenon DEF P!PrefixesOf
  <2>4. cfg.net.hi \in 0 .. MaxIP
    BY ConfigFacts, Zenon
  <2> QED BY <1>2, <2>2, <2>3, <2>4, MaxIPAssumption
<1>6. PICK r : /\ r \in AddrRange /\ r.end = e /\ e >= prefix /\ r.start <= P!LastIP(cfg, prefix)
               /\ r.start .. r.end \subseteq Denotes(cfg.excl)
  <2>1. PICK merged : merged = MergeExcludeRanges(cfg.excl)
    BY Zenon
  <2>2. merged \in Seq(AddrRange) /\ Denotes(merged) = Denotes(cfg.excl)
    BY <2>1, ConfigFacts, MergeFacts, Zenon
  <2>3. PICK j \in DOMAIN merged :
          e = merged[j].end /\ merged[j].end >= prefix /\ merged[j].start <= P!LastIP(cfg, prefix)
    BY <2>1, Zenon DEF overlappingExclusionEnds
  <2>4. merged[j] \in AddrRange
    BY <2>2, <2>3
  <2>5. merged[j].start .. merged[j].end \subseteq Denotes(cfg.excl)
    BY <2>2, <2>3, Zenon DEF Denotes
  <2> QED BY <2>3, <2>4, <2>5, Zenon
<1>7. e \in 0 .. MaxIP /\ e \in Int /\ r.start \in Int /\ r.start <= prefix + z - 1
  <2>1. e \in 0 .. MaxIP /\ e \in Int /\ r.start \in Int
    BY <1>6, AddrRangeFacts, Zenon
  <2>2. PICK l \in Int : l = P!LastIP(cfg, prefix) /\ l <= prefix + z - 1
    BY <1>1, <1>5, LastFacts, Zenon
  <2> QED BY <1>1, <1>5, <1>6, <2>1, <2>2
<1>8. ASSUME NEW i \in Int, At(i) \in Free(T)
      PROVE  k <= i /\ At(i) + z - 1 > e
  <2>1. k <= i
    BY <1>4, <1>8, BehindPrefix, Zenon
  <2>2. At(i) \in Int /\ At(k) \in Int /\ At(k) <= At(i) /\ At((k - 1) + 1) = prefix + z
    <3>1. k - 1 \in Int
      OBVIOUS
    <3> QED BY <1>1, <1>4, <2>1, <3>1, AtFacts, Zenon
  <2>3. (k - 1) + 1 = k
    OBVIOUS
  <2>4. At(k) = prefix + z
    BY <2>2, <2>3, Zenon
  <2>5. r.start <= At(i)
    BY <1>1, <1>5, <1>7, <2>2, <2>4
  <2>6. At(i) + cfg.size - 1 > e
    BY <1>6, <1>7, <1>8, <2>5, InsideExclusion, Zenon
  <2> QED BY <1>1, <2>1, <2>6, Zenon
<1>9. PICK next : next = NextIP(e)
  BY Zenon
<1>10. \/ next = NoIP /\ e = MaxIP
       \/ next = e + 1 /\ next # NoIP
  BY <1>7, <1>9, MaxIPAssumption DEF NextIP, NextIPWithOffset, NoIP
<1>11. PICK n : n = AdvancePastIP(e)
  BY Zenon
<1>12. CASE next = NoIP /\ e = MaxIP
  <2>1. n = N
    BY <1>3, <1>9, <1>11, <1>12, Zenon DEF AdvancePastIP
  <2>2. ASSUME NEW t \in Free(T) PROVE FALSE
    <3>1. PICK i \in Int : 0 <= i /\ i < subnetCount /\ t = At(i)
      BY FreeIsAt, Zenon
    <3>2. At(i) + z - 1 > e
      BY <1>8, <3>1, Zenon
    <3>3. At(i) \in 0 .. MaxIP /\ At(i) + z - 1 <= MaxIP
      BY <1>1, <3>1, AtIsPrefix, Zenon
    <3> QED BY <1>1, <1>12, <3>2, <3>3, MaxIPAssumption
  <2>3. n \in 0 .. N
    BY <1>3, <2>1
  <2> QED BY <1>3, <1>11, <2>2, <2>3, Zenon
<1>13. CASE next = e + 1 /\ next # NoIP
  <2>1. PICK d \in Int : d = next - lo /\ d = e + 1 - lo /\ ~(next < lo)
    BY <1>2, <1>5, <1>6, <1>7, <1>13, MaxIPAssumption
  <2>2. PICK q : q = d \div z
    BY Zenon
  <2>3. n = LET index == IF q > k THEN q ELSE k IN IF index > N THEN N ELSE index
    BY <1>1, <1>2, <1>3, <1>4, <1>9, <1>11, <1>13, <2>1, <2>2, Zenon DEF AdvancePastIP
  <2>4. PICK m \in 0 .. z - 1 : q \in Int /\ d = q * z + m
    <3>1. z > 0
      BY <1>1, Zenon
    <3> QED BY <2>2, <3>1, Quotient
  <2>5. n \in 0 .. N /\ n \in Int
    BY <1>3, <1>4, <2>3, <2>4
  <2>6. ASSUME NEW t \in Free(T) PROVE At(n) <= t
    <3>1. PICK i \in Int : 0 <= i /\ i < subnetCount /\ t = At(i)
      BY FreeIsAt, Zenon
    <3>2. k <= i /\ At(i) + z - 1 > e
      BY <1>8, <3>1, Zenon
    <3>3. q <= i
      <4>1. m \in Int /\ 0 <= m
        BY <1>1, <2>4
      <4>2. e + 1 - cfg.net.lo = q * cfg.size + m
        BY <1>1, <1>2, <2>1, <2>4, Zenon
      <4>3. At(i) + cfg.size - 1 > e
        BY <1>1, <3>2, Zenon
      <4> QED BY <1>7, <2>4, <4>1, <4>2, <4>3, TargetIndex, Zenon
    <3>4. n <= i
      BY <1>3, <1>4, <2>3, <2>4, <3>1, <3>2, <3>3
    <3> QED BY <2>5, <3>1, <3>4, AtFacts, Zenon
  <2> QED BY <1>3, <1>11, <2>5, <2>6, Zenon
<1> QED BY <1>10, <1>12, <1>13

\* The exclusions end in the address space.
LEMMA EndsAreAddresses ==
  ASSUME cfg \in Configs
  PROVE  overlappingExclusionEnds \subseteq 0 .. MaxIP
<1>1. PICK merged : merged = MergeExcludeRanges(cfg.excl)
  BY Zenon
<1>2. merged \in Seq(AddrRange)
  BY <1>1, ConfigFacts, MergeFacts, Zenon
<1>3. \A j \in DOMAIN merged : merged[j] \in AddrRange
  BY <1>2
<1> QED BY <1>1, <1>3, AddrRangeFacts, Zenon DEF overlappingExclusionEnds
-----------------------------------------------------------------------------
(***************************************************************************)
(* The steps of getNewAllocationForNode.                                   *)
(***************************************************************************)

\* A step that keeps the configuration keeps what is free and where the
\* prefixes are.
LEMMA SameConfig ==
  ASSUME UNCHANGED cfg
  PROVE  /\ Free(used)' = Free(used') /\ Free(before)' = Free(before')
         /\ At(nextIndex)' = At(nextIndex') /\ At(nextIndex - 1)' = At(nextIndex' - 1)
         /\ subnetCount' = subnetCount
         /\ P!IsFirst(Free(before), prefix)' <=> P!IsFirst(Free(before'), prefix')
<1>1. Free(used)' = Free(used') /\ Free(before)' = Free(before')
  BY Zenon DEF Free
<1>2. At(nextIndex)' = At(nextIndex') /\ At(nextIndex - 1)' = At(nextIndex' - 1)
  BY Zenon DEF At
<1>3. subnetCount' = subnetCount
  BY Zenon DEF subnetCount
<1>4. P!IsFirst(Free(before), prefix)' <=> P!IsFirst(Free(before'), prefix')
  BY <1>1, Zenon DEF P!IsFirst
<1> QED BY <1>1, <1>2, <1>3, <1>4, Zenon

\* A pool as Reconcile has loaded it satisfies the invariant.
LEMMA InitIInv == Init => IInv
<1> SUFFICES ASSUME Init PROVE IInv
  OBVIOUS
<1>1. /\ cfg \in Configs /\ used \subseteq P!PrefixesOf(cfg) /\ nextIndex = 0 /\ prefix = NoIP
      /\ pc = "idle" /\ before = used
  BY Zenon DEF Init
<1>2. used \subseteq 0 .. MaxIP
  <2>1. ASSUME NEW p \in used PROVE p \in 0 .. MaxIP
    BY <1>1, PrefixIsAt, AtIsPrefix, Zenon
  <2> QED BY <2>1
<1>3. 0 \in 0 .. subnetCount
  <2>1. subnetCount \in Nat
    BY <1>1, CountFacts, Zenon
  <2> QED BY <2>1
<1>4. ASSUME NEW t \in Free(used) PROVE At(0) <= t
  <2>1. PICK i \in Int : 0 <= i /\ t = At(i)
    BY <1>1, FreeIsAt, Zenon
  <2>2. 0 \in Int
    OBVIOUS
  <2> QED BY <1>1, <2>1, <2>2, AtFacts, Zenon
<1> QED BY <1>1, <1>2, <1>3, <1>4, Zenon DEF IInv, TypeOK

\* The prefix that is judged is one of the CIDR.
LEMMA Judged ==
  ASSUME IInv, pc = "judge"
  PROVE  /\ prefix \in P!PrefixesOf(cfg) /\ prefix \in 0 .. MaxIP /\ prefix \in Int
         /\ PrefixExcluded <=> P!isPrefixFullyExcluded(AsSets(cfg), prefix)
<1>1. /\ cfg \in Configs /\ nextIndex \in 0 .. subnetCount /\ nextIndex > 0
      /\ prefix = At(nextIndex - 1)
  BY Zenon DEF IInv, TypeOK
<1>2. PICK i \in Int : i = nextIndex - 1 /\ 0 <= i /\ i < subnetCount
  <2>1. subnetCount \in Nat
    BY <1>1, CountFacts, Zenon
  <2> QED BY <1>1, <2>1
<1>3. prefix \in P!PrefixesOf(cfg) /\ prefix \in 0 .. MaxIP
  BY <1>1, <1>2, AtIsPrefix, Zenon
<1>4. prefix \in Int
  BY <1>3, MaxIPAssumption
<1>5. PrefixExcluded <=> P!isPrefixFullyExcluded(AsSets(cfg), prefix)
  BY <1>1, <1>2, JudgedExcluded, Zenon
<1> QED BY <1>3, <1>4, <1>5, Zenon

\* After a prefix that is not free the iterator has passed no free one.
LEMMA Passed ==
  ASSUME IInv, pc = "judge", prefix \notin Free(used)
  PROVE  \A t \in Free(used) : At(nextIndex) <= t
<1>1. /\ cfg \in Configs /\ nextIndex \in 0 .. subnetCount /\ prefix = At(nextIndex - 1)
      /\ \A t \in Free(used) : prefix <= t
  BY Zenon DEF IInv, TypeOK
<1>2. nextIndex \in Int
  <2>1. subnetCount \in Nat
    BY <1>1, CountFacts, Zenon
  <2> QED BY <1>1, <2>1
<1>3. ASSUME NEW t \in Free(used) PROVE At(nextIndex) <= t
  <2>1. PICK i \in Int : t = At(i)
    BY <1>1, FreeIsAt, Zenon
  <2>2. nextIndex <= i
    BY <1>1, <1>2, <2>1, BehindPrefix, Zenon
  <2> QED BY <1>1, <1>2, <2>1, <2>2, AtFacts, Zenon
<1> QED BY <1>3

\* The prefix that getNewAllocationForNode returns is the first free one, and
\* the iterator stands behind it.
LEMMA FoundPrefix ==
  ASSUME IInv, Found
  PROVE  /\ prefix \in 0 .. MaxIP
         /\ P!IsFirst(Free(used), prefix)
         /\ \A t \in Free(used \cup {prefix}) : At(nextIndex) <= t
<1>1. /\ cfg \in Configs /\ nextIndex \in 0 .. subnetCount /\ prefix = At(nextIndex - 1)
      /\ \A t \in Free(used) : prefix <= t
      /\ pc = "judge" /\ prefix \notin used /\ ~PrefixExcluded
  BY Zenon DEF IInv, TypeOK, Found
<1>2. /\ prefix \in P!PrefixesOf(cfg) /\ prefix \in 0 .. MaxIP
      /\ ~P!isPrefixFullyExcluded(AsSets(cfg), prefix)
  BY <1>1, Judged, Zenon
<1>3. prefix \in Free(used)
  <2>1. cfg \in Configs /\ prefix \notin used
    BY <1>1, Zenon
  <2> QED BY <1>2, <2>1, FreeFacts, Zenon DEF Free
<1>4. nextIndex \in Int
  <2>1. subnetCount \in Nat
    BY <1>1, CountFacts, Zenon
  <2> QED BY <1>1, <2>1
<1>5. PICK S : S = used \cup {prefix}
  BY Zenon
<1>6. prefix \notin Free(S) /\ \A t \in Free(S) : t \in Free(used)
  <2>1. prefix \in S /\ \A t : t \notin S => t \notin used
    BY <1>5, Zenon
  <2>2. \A t \in Free(S) : t \notin S /\ t \in P!PrefixesOf(cfg) /\ ~P!isPrefixFullyExcluded(AsSets(cfg), t)
    BY <1>1, FreeFacts, Zenon DEF Free
  <2>3. \A t \in Free(S) : t \in Free(used)
    BY <1>1, <2>1, <2>2, FreeFacts, Zenon DEF Free
  <2> QED BY <2>1, <2>2, <2>3, Zenon
<1>7. ASSUME NEW t \in Free(S) PROVE At(nextIndex) <= t
  <2>1. PICK i \in Int : t = At(i)
    BY <1>1, FreeIsAt, Zenon
  <2>2. \A u \in Free(S) : prefix <= u
    BY <1>1, <1>6, Zenon
  <2>3. nextIndex <= i
    BY <1>1, <1>4, <1>6, <2>1, <2>2, BehindPrefix, Zenon
  <2> QED BY <1>1, <1>4, <2>1, <2>3, AtFacts, Zenon
<1>8. P!IsFirst(Free(used), prefix)
  BY <1>1, <1>3, Zenon DEF P!IsFirst
<1>9. \A t \in Free(used \cup {prefix}) : At(nextIndex) <= t
  BY <1>5, <1>7, Zenon
<1> QED BY <1>2, <1>8, <1>9, Zenon

\* Every step of getNewAllocationForNode keeps the invariant.
LEMMA NextIInv ==
  ASSUME IInv, [Next]_vars
  PROVE  IInv'
<1>1. /\ cfg \in Configs
      /\ used \subseteq 0 .. MaxIP /\ before \subseteq used
      /\ nextIndex \in 0 .. subnetCount /\ prefix \in {NoIP} \cup 0 .. MaxIP
  BY Zenon DEF IInv, TypeOK
<1>2. PICK N \in Nat : N = subnetCount
  BY <1>1, CountFacts, Zenon
<1>3. CASE Begin
  <2>1. /\ pc = "idle" /\ UNCHANGED cfg /\ before' = used
        /\ used' = used /\ nextIndex' = nextIndex /\ prefix' = prefix
    BY <1>3, Zenon DEF Begin
  <2>2. \A t \in Free(used)' : At(nextIndex)' <= t
    BY <2>1, SameConfig, Zenon DEF IInv
  <2>3. CASE ExcludeIndexRangesCover(cfg.perNode, lastUsableIndex)
    <3>1. pc' = "full"
      BY <1>3, <2>3, Zenon DEF Begin
    <3>2. Free(before)' = {}
      BY <1>1, <2>1, <2>3, CoveredPool, SameConfig, Zenon
    <3>3. TypeOK'
      BY <1>1, <2>1, <3>1, SameConfig, Zenon DEF TypeOK, NoIP
    <3> QED BY <1>1, <2>1, <2>2, <3>1, <3>2, <3>3, Zenon DEF IInv
  <2>4. CASE ~ExcludeIndexRangesCover(cfg.perNode, lastUsableIndex)
    <3>1. pc' = "next"
      BY <1>3, <2>4, Zenon DEF Begin
    <3>2. TypeOK'
      BY <1>1, <2>1, <3>1, SameConfig, Zenon DEF TypeOK, NoIP
    <3> QED BY <1>1, <2>1, <2>2, <3>1, <3>2, Zenon DEF IInv
  <2> QED BY <2>3, <2>4
<1>4. CASE IteratorNext
  <2>1. /\ pc = "next" /\ UNCHANGED cfg /\ used' = used /\ before' = before /\ before = used
        /\ \A t \in Free(used) : At(nextIndex) <= t
    BY <1>4, Zenon DEF IteratorNext, IInv
  <2>2. CASE nextIndex >= subnetCount
    <3>1. pc' = "full" /\ prefix' = NoIP /\ nextIndex' = nextIndex
      BY <1>4, <2>2, Zenon DEF IteratorNext
    <3>2. nextIndex = N /\ nextIndex \in Int
      BY <1>1, <1>2, <2>2
    <3>3. ASSUME NEW t \in Free(used) PROVE FALSE
      <4>1. PICK i \in Int : i < subnetCount /\ t = At(i)
        BY <1>1, FreeIsAt, Zenon
      <4>2. i <= N /\ i + 1 <= N /\ i + 1 \in Int /\ N \in Int
        BY <1>2, <4>1
      <4>3. At(i) \in Int /\ At(i + 1) = At(i) + cfg.size /\ At(i + 1) <= At(N) /\ At(N) \in Int
        BY <1>1, <4>2, AtFacts, Zenon
      <4>4. At(N) <= At(i)
        BY <2>1, <3>2, <4>1, Zenon
      <4>5. PICK z \in Int : z = cfg.size /\ z > 0
        BY <1>1, ConfigFacts, Zenon
      <4>6. At(i) + z <= At(N)
        BY <4>3, <4>5, Zenon
      <4> QED BY <4>3, <4>4, <4>5, <4>6
    <3>4. Free(before)' = {}
      BY <2>1, <3>3, SameConfig, Zenon
    <3>5. \A t \in Free(used)' : At(nextIndex)' <= t
      BY <2>1, <3>1, SameConfig, Zenon
    <3>6. TypeOK'
      BY <1>1, <2>1, <3>1, SameConfig, Zenon DEF TypeOK, NoIP
    <3> QED BY <1>1, <2>1, <3>1, <3>4, <3>5, <3>6, Zenon DEF IInv
  <2>3. CASE ~(nextIndex >= subnetCount)
    <3>1. /\ pc' = "judge" /\ prefix' = cfg.net.lo + cfg.size * nextIndex
          /\ nextIndex' = nextIndex + 1
      BY <1>4, <2>3, Zenon DEF IteratorNext
    <3>2. /\ nextIndex \in Int /\ 0 <= nextIndex /\ nextIndex < N
          /\ nextIndex + 1 \in 0 .. N /\ nextIndex + 1 > 0 /\ (nextIndex + 1) - 1 = nextIndex
      BY <1>1, <1>2, <2>3
    <3>3. prefix' = At(nextIndex)
      BY <3>1, Zenon DEF At
    <3>4. prefix' \in 0 .. MaxIP
      BY <1>1, <1>2, <3>2, <3>3, AtIsPrefix, Zenon
    <3>5. nextIndex' > 0 /\ prefix' = At(nextIndex - 1)'
      <4>1. At(nextIndex - 1)' = At(nextIndex' - 1)
        BY <2>1, SameConfig, Zenon
      <4>2. nextIndex' - 1 = nextIndex
        BY <3>1, <3>2, Zenon
      <4> QED BY <3>1, <3>2, <3>3, <4>1, <4>2, Zenon
    <3>6. \A t \in Free(used)' : prefix' <= t
      BY <2>1, <3>3, SameConfig, Zenon
    <3>7. nextIndex' \in 0 .. subnetCount'
      BY <1>2, <2>1, <3>1, <3>2, SameConfig, Zenon
    <3>8. TypeOK'
      BY <1>1, <2>1, <3>1, <3>4, <3>7, Zenon DEF TypeOK, NoIP
    <3> QED BY <1>1, <2>1, <3>1, <3>5, <3>6, <3>8, Zenon DEF IInv
  <2> QED BY <2>2, <2>3
<1>5. CASE SkipUsed
  <2>1. /\ pc = "judge" /\ prefix \in used /\ pc' = "next" /\ UNCHANGED cfg
        /\ used' = used /\ nextIndex' = nextIndex /\ prefix' = prefix /\ before' = before
        /\ before = used
    BY <1>5, Zenon DEF SkipUsed, IInv
  <2>2. prefix \notin Free(used)
    BY <1>1, <2>1, FreeFacts, Zenon DEF Free
  <2>3. \A t \in Free(used)' : At(nextIndex)' <= t
    BY <2>1, <2>2, Passed, SameConfig, Zenon
  <2>4. TypeOK'
    BY <1>1, <2>1, SameConfig, Zenon DEF TypeOK, NoIP
  <2> QED BY <1>1, <2>1, <2>3, <2>4, Zenon DEF IInv
<1>6. CASE SkipExcluded
  <2>1. /\ pc = "judge" /\ PrefixExcluded /\ pc' = "next" /\ UNCHANGED cfg
        /\ used' = used /\ prefix' = prefix /\ before' = before /\ before = used
    BY <1>6, Zenon DEF SkipExcluded, IInv
  <2>2. prefix \notin Free(used)
    <3>1. P!isPrefixFullyExcluded(AsSets(cfg), prefix)
      BY <2>1, Judged, Zenon
    <3> QED BY <1>1, <3>1, FreeFacts, Zenon DEF Free
  <2>3. nextIndex' \in 0 .. subnetCount /\ \A t \in Free(used) : At(nextIndex') <= t
    <3>1. CASE overlappingExclusionEnds = {}
      <4>1. nextIndex' = nextIndex
        BY <1>6, <3>1, Zenon DEF SkipExcluded
      <4> QED BY <1>1, <2>1, <2>2, <4>1, Passed, Zenon
    <3>2. CASE overlappingExclusionEnds # {}
      <4>1. PICK e \in overlappingExclusionEnds : nextIndex' = AdvancePastIP(e)
        <5>1. overlappingExclusionEnds \subseteq 0 .. MaxIP
          BY <1>1, EndsAreAddresses, Zenon
        <5>2. \E e \in overlappingExclusionEnds : \A f \in overlappingExclusionEnds : e >= f
          BY <3>2, <5>1, Largest, Zenon
        <5> QED BY <1>6, <3>2, <5>2, Zenon DEF SkipExcluded
      <4>2. nextIndex > 0 /\ prefix = At(nextIndex - 1) /\ \A t \in Free(used) : prefix <= t
        BY <2>1, Zenon DEF IInv
      <4> QED BY <1>1, <2>2, <4>1, <4>2, Advance, Zenon
    <3> QED BY <3>1, <3>2
  <2>4. \A t \in Free(used)' : At(nextIndex)' <= t
    BY <2>1, <2>3, SameConfig, Zenon
  <2>5. TypeOK'
    BY <1>1, <2>1, <2>3, SameConfig, Zenon DEF TypeOK, NoIP
  <2> QED BY <1>1, <2>1, <2>4, <2>5, Zenon DEF IInv
<1>7. CASE Found
  <2>1. /\ pc = "judge" /\ pc' = "found" /\ used' = used \cup {prefix} /\ UNCHANGED cfg
        /\ nextIndex' = nextIndex /\ prefix' = prefix /\ before' = before /\ before = used
    BY <1>7, Zenon DEF Found, IInv
  <2>2. /\ prefix \in 0 .. MaxIP /\ P!IsFirst(Free(used), prefix)
        /\ \A t \in Free(used \cup {prefix}) : At(nextIndex) <= t
    BY <1>7, FoundPrefix, Zenon
  <2>3. \A t \in Free(used)' : At(nextIndex)' <= t
    BY <2>1, <2>2, SameConfig, Zenon
  <2>4. P!IsFirst(Free(before), prefix)'
    BY <2>1, <2>2, SameConfig, Zenon
  <2>5. TypeOK'
    BY <1>1, <2>1, <2>2, SameConfig, Zenon DEF TypeOK, NoIP
  <2> QED BY <1>1, <2>1, <2>3, <2>4, <2>5, Zenon DEF IInv
<1>8. CASE NextNode
  <2>1. /\ pc = "found" /\ pc' = "idle" /\ UNCHANGED cfg /\ used' = used
        /\ nextIndex' = nextIndex /\ prefix' = prefix /\ before' = before
        /\ \A t \in Free(used) : At(nextIndex) <= t
    BY <1>8, Zenon DEF NextNode, IInv
  <2>2. \A t \in Free(used)' : At(nextIndex)' <= t
    BY <2>1, SameConfig, Zenon
  <2>3. TypeOK'
    BY <1>1, <2>1, SameConfig, Zenon DEF TypeOK, NoIP
  <2> QED BY <1>1, <2>1, <2>2, <2>3, Zenon DEF IInv
<1>9. CASE UNCHANGED vars
  <2>1. /\ UNCHANGED cfg /\ used' = used /\ nextIndex' = nextIndex /\ prefix' = prefix
        /\ pc' = pc /\ before' = before
    BY <1>9 DEF vars
  <2>2. TypeOK'
    BY <2>1, SameConfig, Zenon DEF IInv, TypeOK, NoIP
  <2>3. At(nextIndex - 1)' = At(nextIndex - 1)
    BY <2>1, SameConfig, Zenon
  <2> QED BY <2>1, <2>2, <2>3, SameConfig, Zenon DEF IInv
<1> QED BY <1>3, <1>4, <1>5, <1>6, <1>7, <1>8, <1>9, Zenon DEF Next
-----------------------------------------------------------------------------
\* Throughout a Reconcile, for every accepted configuration, the shared
\* iterator passes no free prefix.
THEOREM PrefixInvariant == Spec => []IInv
<1>1. IInv /\ [Next]_vars => IInv'
  BY NextIInv
<1> QED BY InitIInv, <1>1, PTL DEF Spec

\* The iterator's index stays within the number of prefixes.
THEOREM PrefixTypes == Spec => []TypeOK
<1>1. IInv => TypeOK
  BY Zenon DEF IInv
<1> QED BY PrefixInvariant, <1>1, PTL

\* The prefix that getNewAllocationForNode returns is the first free one of
\* the CIDR, although the iterator is shared and jumps over exclusions.
THEOREM FirstFreePrefix == Spec => []FoundIsFirstFree
<1>1. IInv => FoundIsFirstFree
  BY Zenon DEF IInv, FoundIsFirstFree, Free
<1> QED BY PrefixInvariant, <1>1, PTL

\* errNoFreePrefixes means that no free prefix is left.
THEOREM FullMeansFull == Spec => []FullIsFull
<1>1. IInv => FullIsFull
  BY Zenon DEF IInv, FullIsFull, Free
<1> QED BY PrefixInvariant, <1>1, PTL

\* isPrefixFullyExcluded finds a prefix excluded exactly when each of its
\* addresses up to LastIP is, whatever the exclusion lists.
THEOREM ExclusionIsExact == Spec => []ExcludedIsCovered
<1>1. IInv => ExcludedIsCovered
  BY Judged, Zenon DEF ExcludedIsCovered
<1> QED BY PrefixInvariant, <1>1, PTL
=============================================================================
