-------------------------- MODULE IPAllocatorProofs --------------------------
(***************************************************************************)
(* What the RangeIter of allocator.go does on every range set: the order   *)
(* of the slots, the inductive invariant of the loop in Allocate, and the  *)
(* proofs of the safety properties of IPAllocator.                         *)
(***************************************************************************)
EXTENDS IPAllocator, FiniteSetTheorems, TLAPS

-----------------------------------------------------------------------------
(***************************************************************************)
(* The order of the slots of a canonical range set.                        *)
(***************************************************************************)
Before(t, s) == t[1] < s[1] \/ (t[1] = s[1] /\ t[2] < s[2])

Preceding(rs, s) == {t \in Slots(rs) : Before(t, s)}

\* The slot RangeIter.Next moves to from slot s.
Following(rs, s) ==
    IF s[2] # rs[s[1]].end THEN <<s[1], s[2] + 1>>
    ELSE IF s[1] # Len(rs) THEN <<s[1] + 1, rs[s[1] + 1].start>>
    ELSE <<1, rs[1].start>>

\* A slot is an index of the set with an address between the ends of that
\* range (Range.Contains, without the subnet check that canonical ranges pass).
LEMMA SlotsAre ==
  ASSUME NEW rs, NEW s
  PROVE  s \in Slots(rs) <=>
             /\ s = <<s[1], s[2]>>
             /\ s[1] \in DOMAIN rs
             /\ s[2] \in rs[s[1]].start .. rs[s[1]].end
<1>1. ASSUME s \in Slots(rs)
      PROVE  /\ s = <<s[1], s[2]>>
             /\ s[1] \in DOMAIN rs
             /\ s[2] \in rs[s[1]].start .. rs[s[1]].end
  <2>1. PICK i \in DOMAIN rs : s \in {<<i, a>> : a \in rs[i].start .. rs[i].end}
    BY <1>1, Zenon DEF Slots
  <2>2. PICK a \in rs[i].start .. rs[i].end : s = <<i, a>>
    BY <2>1, Zenon
  <2>3. s[1] = i /\ s[2] = a
    BY <2>2
  <2> QED BY <2>2, <2>3, Zenon
<1>2. ASSUME s = <<s[1], s[2]>>, s[1] \in DOMAIN rs,
             s[2] \in rs[s[1]].start .. rs[s[1]].end
      PROVE  s \in Slots(rs)
  <2>1. s \in {<<s[1], a>> : a \in rs[s[1]].start .. rs[s[1]].end}
    BY <1>2, Zenon
  <2> QED BY <1>2, <2>1, Zenon DEF Slots
<1> QED BY <1>1, <1>2, Zenon

\* What RangeSet.Canonicalize has checked, in the form the proofs use.
LEMMA RangeFacts ==
  ASSUME NEW rs \in RangeSets
  PROVE  /\ rs \in Seq(Ranges)
         /\ Len(rs) \in Nat /\ Len(rs) >= 1 /\ DOMAIN rs = 1 .. Len(rs)
         /\ \A i \in 1 .. Len(rs) :
                /\ rs[i].start \in 0 .. MaxIP /\ rs[i].end \in 0 .. MaxIP
                /\ rs[i].start <= rs[i].end
                /\ rs[i].gw \in (0 .. MaxIP) \cup {NoIP}
                /\ rs[i].subnet.lo \in 0 .. MaxIP /\ rs[i].subnet.hi \in 0 .. MaxIP
                /\ rs[i].subnet.lo <= rs[i].start /\ rs[i].end <= rs[i].subnet.hi
<1>1. rs \in Seq(Ranges) /\ CanonicalSet(rs)
  BY RangeSetsAssumption
<1>2. Len(rs) \in Nat /\ Len(rs) >= 1 /\ DOMAIN rs = 1 .. Len(rs)
  BY <1>1 DEF CanonicalSet
<1>3. ASSUME NEW i \in 1 .. Len(rs)
      PROVE  /\ rs[i].start \in 0 .. MaxIP /\ rs[i].end \in 0 .. MaxIP
             /\ rs[i].start <= rs[i].end
             /\ rs[i].gw \in (0 .. MaxIP) \cup {NoIP}
             /\ rs[i].subnet.lo \in 0 .. MaxIP /\ rs[i].subnet.hi \in 0 .. MaxIP
             /\ rs[i].subnet.lo <= rs[i].start /\ rs[i].end <= rs[i].subnet.hi
  <2>1. rs[i] \in Ranges
    BY <1>1
  <2>2. CanonicalRange(rs[i])
    BY <1>1, <1>2, Zenon DEF CanonicalSet
  <2> QED BY <2>1, <2>2 DEF Ranges, Addrs, CanonicalRange, Contains, InSubnet
<1> QED BY <1>1, <1>2, <1>3

\* The slots of a canonical set in plain arithmetic.
LEMMA SlotType ==
  ASSUME NEW rs \in RangeSets, NEW s \in Slots(rs)
  PROVE  /\ s = <<s[1], s[2]>>
         /\ s[1] \in 1 .. Len(rs)
         /\ s[2] \in 0 .. MaxIP
         /\ rs[s[1]].start <= s[2] /\ s[2] <= rs[s[1]].end
<1>1. s = <<s[1], s[2]>> /\ s[1] \in DOMAIN rs /\ s[2] \in rs[s[1]].start .. rs[s[1]].end
  BY SlotsAre, Zenon
<1> QED BY <1>1, RangeFacts, MaxIPAssumption

\* An address between the bounds of a range that lies in its subnet is in
\* the range.
LEMMA BetweenBounds ==
  ASSUME NEW r, NEW a \in Int, r.start \in Int, r.end \in Int,
         r.subnet.lo \in Int, r.subnet.hi \in Int,
         r.subnet.lo <= r.start, r.end <= r.subnet.hi, r.start <= a, a <= r.end
  PROVE  Contains(r, a)
  BY DEF Contains, InSubnet

\* The address of a slot is in its range (Range.Contains).
LEMMA SlotContains ==
  ASSUME NEW rs \in RangeSets, NEW s \in Slots(rs)
  PROVE  Contains(rs[s[1]], s[2])
<1>1. /\ s[1] \in 1 .. Len(rs) /\ s[2] \in 0 .. MaxIP
      /\ rs[s[1]].start <= s[2] /\ s[2] <= rs[s[1]].end
  BY SlotType, Zenon
<1>2. PICK r : r = rs[s[1]]
  OBVIOUS
<1>3. PICK a : a = s[2]
  OBVIOUS
<1>4. /\ r.start \in Int /\ r.end \in Int /\ r.subnet.lo \in Int /\ r.subnet.hi \in Int
      /\ r.subnet.lo <= r.start /\ r.end <= r.subnet.hi
  BY <1>1, <1>2, RangeFacts, MaxIPAssumption, SMTT(30)
<1>5. a \in Int /\ r.start <= a /\ a <= r.end
  BY <1>1, <1>2, <1>3, MaxIPAssumption
<1>6. Contains(r, a)
  BY <1>4, <1>5, BetweenBounds, Zenon
<1> QED BY <1>2, <1>3, <1>6, Zenon

\* Two ranges of a canonical set share no address, so an address names one
\* slot: what lets RangeIter compare addresses to see that it is back.
LEMMA AddressNamesSlot ==
  ASSUME NEW rs \in RangeSets, NEW s \in Slots(rs), NEW t \in Slots(rs), s[2] = t[2]
  PROVE  s = t
<1>1. \A i, j \in 1 .. Len(rs) : i < j => ~Overlaps(rs[i], rs[j])
  BY RangeSetsAssumption, RangeFacts, Zenon DEF CanonicalSet
<1>2. ASSUME NEW i \in 1 .. Len(rs), NEW j \in 1 .. Len(rs), NEW a \in 0 .. MaxIP,
             rs[i].start <= a, a <= rs[i].end, rs[j].start <= a, a <= rs[j].end
      PROVE  Overlaps(rs[i], rs[j])
  <2>1. /\ rs[i].start \in Int /\ rs[i].end \in Int
        /\ rs[i].subnet.lo \in Int /\ rs[i].subnet.hi \in Int
        /\ rs[i].subnet.lo <= rs[i].start /\ rs[i].end <= rs[i].subnet.hi
    BY RangeFacts, MaxIPAssumption
  <2>2. /\ rs[j].start \in Int /\ rs[j].end \in Int
        /\ rs[j].subnet.lo \in Int /\ rs[j].subnet.hi \in Int
        /\ rs[j].subnet.lo <= rs[j].start /\ rs[j].end <= rs[j].subnet.hi
    BY RangeFacts, MaxIPAssumption
  <2>3. a \in Int
    BY MaxIPAssumption
  <2>4. rs[j].start <= rs[i].end /\ rs[i].start <= rs[j].end
    BY <1>2, <2>1, <2>2, <2>3, SMTT(30)
  <2>5. CASE rs[i].start <= rs[j].start
    <3>1. Contains(rs[i], rs[j].start)
      BY <2>1, <2>2, <2>5, <2>4, BetweenBounds, Zenon
    <3> QED BY <3>1, Zenon DEF Overlaps
  <2>6. CASE rs[j].start <= rs[i].start
    <3>1. Contains(rs[j], rs[i].start)
      BY <2>1, <2>2, <2>6, <2>4, BetweenBounds, Zenon
    <3> QED BY <3>1, Zenon DEF Overlaps
  <2> QED BY <2>1, <2>2, <2>5, <2>6
<1>3. /\ s = <<s[1], s[2]>> /\ s[1] \in 1 .. Len(rs) /\ s[2] \in 0 .. MaxIP
      /\ rs[s[1]].start <= s[2] /\ s[2] <= rs[s[1]].end
  BY SlotType, Zenon
<1>4. /\ t = <<t[1], t[2]>> /\ t[1] \in 1 .. Len(rs) /\ t[2] \in 0 .. MaxIP
      /\ rs[t[1]].start <= t[2] /\ t[2] <= rs[t[1]].end
  BY SlotType, Zenon
<1>5. Overlaps(rs[s[1]], rs[t[1]]) /\ Overlaps(rs[t[1]], rs[s[1]])
  BY <1>2, <1>3, <1>4, Zenon
<1>6. s[1] = t[1]
  <2>1. s[1] \in Int /\ t[1] \in Int
    BY <1>3, <1>4
  <2>2. ~(s[1] < t[1]) /\ ~(t[1] < s[1])
    BY <1>1, <1>3, <1>4, <1>5, Zenon
  <2> QED BY <2>1, <2>2
<1> QED BY <1>3, <1>4, <1>6, Zenon

\* A range set has finitely many slots, and at least one.
LEMMA SlotsFinite ==
  ASSUME NEW rs \in RangeSets
  PROVE  /\ IsFiniteSet(Slots(rs))
         /\ Cardinality(Slots(rs)) \in Nat
         /\ \A T \in SUBSET Slots(rs) :
                IsFiniteSet(T) /\ Cardinality(T) \in Nat
                /\ Cardinality(T) <= Cardinality(Slots(rs))
<1>1. Len(rs) \in Nat
  BY RangeFacts
<1>2. IsFiniteSet(1 .. Len(rs)) /\ IsFiniteSet(0 .. MaxIP)
  BY <1>1, MaxIPAssumption, FS_Interval
<1>3. IsFiniteSet((1 .. Len(rs)) \X (0 .. MaxIP))
  BY <1>2, FS_Product, Zenon
<1>4. Slots(rs) \subseteq (1 .. Len(rs)) \X (0 .. MaxIP)
  BY SlotType
<1>5. IsFiniteSet(Slots(rs))
  BY <1>3, <1>4, FS_Subset, Zenon
<1>6. Cardinality(Slots(rs)) \in Nat
  BY <1>5, FS_CardinalityType, Zenon
<1>7. ASSUME NEW T \in SUBSET Slots(rs)
      PROVE  IsFiniteSet(T) /\ Cardinality(T) \in Nat
             /\ Cardinality(T) <= Cardinality(Slots(rs))
  <2>1. IsFiniteSet(T) /\ Cardinality(T) <= Cardinality(Slots(rs))
    BY <1>5, FS_Subset, Zenon
  <2> QED BY <2>1, FS_CardinalityType, Zenon
<1> QED BY <1>5, <1>6, <1>7, Zenon

\* A position is a number below the number of slots.
LEMMA PosType ==
  ASSUME NEW rs \in RangeSets, NEW s \in Slots(rs)
  PROVE  /\ Pos(rs, s) = Cardinality(Preceding(rs, s))
         /\ Pos(rs, s) \in 0 .. Cardinality(Slots(rs)) - 1
<1>1. Pos(rs, s) = Cardinality(Preceding(rs, s))
  BY Zenon DEF Pos, Preceding, Before
<1>2. s \notin Preceding(rs, s)
  BY SlotType DEF Preceding, Before
<1>3. Preceding(rs, s) \cup {s} \in SUBSET Slots(rs) /\ Preceding(rs, s) \in SUBSET Slots(rs)
  BY DEF Preceding
<1>4. /\ IsFiniteSet(Preceding(rs, s)) /\ Cardinality(Preceding(rs, s)) \in Nat
      /\ Cardinality(Preceding(rs, s) \cup {s}) <= Cardinality(Slots(rs))
      /\ Cardinality(Slots(rs)) \in Nat
  BY <1>3, SlotsFinite, Zenon
<1>5. Cardinality(Preceding(rs, s) \cup {s}) = Cardinality(Preceding(rs, s)) + 1
  BY <1>2, <1>4, FS_AddElement, Zenon
<1> QED BY <1>1, <1>4, <1>5

\* Positions follow the order of the slots.
LEMMA PosMonotone ==
  ASSUME NEW rs \in RangeSets, NEW s \in Slots(rs), NEW t \in Slots(rs), Before(s, t)
  PROVE  Pos(rs, s) < Pos(rs, t)
<1>1. s \notin Preceding(rs, s)
  BY SlotType DEF Preceding, Before
<1>2. Preceding(rs, s) \cup {s} \subseteq Preceding(rs, t)
  BY SlotType DEF Preceding, Before
<1>3. Preceding(rs, s) \in SUBSET Slots(rs) /\ Preceding(rs, t) \in SUBSET Slots(rs)
  BY DEF Preceding
<1>4. /\ IsFiniteSet(Preceding(rs, s)) /\ Cardinality(Preceding(rs, s)) \in Nat
      /\ IsFiniteSet(Preceding(rs, t)) /\ Cardinality(Preceding(rs, t)) \in Nat
  BY <1>3, SlotsFinite, Zenon
<1>5. Cardinality(Preceding(rs, s) \cup {s}) = Cardinality(Preceding(rs, s)) + 1
  BY <1>1, <1>4, FS_AddElement, Zenon
<1>6. Cardinality(Preceding(rs, s) \cup {s}) <= Cardinality(Preceding(rs, t))
  BY <1>2, <1>4, FS_Subset, Zenon
<1>7. Pos(rs, s) = Cardinality(Preceding(rs, s)) /\ Pos(rs, t) = Cardinality(Preceding(rs, t))
  BY PosType, Zenon
<1> QED BY <1>4, <1>5, <1>6, <1>7

\* Different slots have different positions.
LEMMA PosInjective ==
  ASSUME NEW rs \in RangeSets, NEW s \in Slots(rs), NEW t \in Slots(rs),
         Pos(rs, s) = Pos(rs, t)
  PROVE  s = t
<1>1. ~Before(s, t) /\ ~Before(t, s)
  <2>1. Pos(rs, s) \in Int /\ Pos(rs, t) \in Int
    BY PosType, SlotsFinite
  <2> QED BY <2>1, PosMonotone
<1>2. s = <<s[1], s[2]>> /\ s[1] \in Int /\ s[2] \in Int
  BY SlotType, MaxIPAssumption
<1>3. t = <<t[1], t[2]>> /\ t[1] \in Int /\ t[2] \in Int
  BY SlotType, MaxIPAssumption
<1>4. s[1] = t[1] /\ s[2] = t[2]
  BY <1>1, <1>2, <1>3 DEF Before
<1> QED BY <1>2, <1>3, <1>4, Zenon

\* RangeIter.Next moves to the slot with the next position, and from the last
\* slot back to the first.
LEMMA FollowingPos ==
  ASSUME NEW rs \in RangeSets, NEW s \in Slots(rs)
  PROVE  /\ Following(rs, s) \in Slots(rs)
         /\ \/ Pos(rs, Following(rs, s)) = Pos(rs, s) + 1
            \/ /\ Pos(rs, s) = Cardinality(Slots(rs)) - 1
               /\ Pos(rs, Following(rs, s)) = 0
<1> DEFINE f == Following(rs, s)
<1>1. /\ s = <<s[1], s[2]>> /\ s[1] \in 1 .. Len(rs) /\ s[2] \in 0 .. MaxIP
      /\ rs[s[1]].start <= s[2] /\ s[2] <= rs[s[1]].end
  BY SlotType, Zenon
<1>2. s \notin Preceding(rs, s) /\ Preceding(rs, s) \in SUBSET Slots(rs)
  BY SlotType DEF Preceding, Before
<1>3. IsFiniteSet(Preceding(rs, s)) /\ Cardinality(Preceding(rs, s)) \in Nat
  BY <1>2, SlotsFinite, Zenon
<1>4. Cardinality(Preceding(rs, s) \cup {s}) = Pos(rs, s) + 1
  <2>1. Pos(rs, s) = Cardinality(Preceding(rs, s))
    BY PosType, Zenon
  <2> QED BY <2>1, <1>2, <1>3, FS_AddElement, Zenon
<1>5. ASSUME f \in Slots(rs), Preceding(rs, f) = Preceding(rs, s) \cup {s}
      PROVE  Pos(rs, f) = Pos(rs, s) + 1
  <2>1. Pos(rs, f) = Cardinality(Preceding(rs, f))
    BY <1>5, PosType, Zenon
  <2> QED BY <2>1, <1>4, <1>5, Zenon
<1>6. CASE s[2] # rs[s[1]].end
  <2>1. f = <<s[1], s[2] + 1>> /\ f[1] = s[1] /\ f[2] = s[2] + 1
    BY <1>6 DEF Following
  <2>2. f \in Slots(rs)
    <3>1. /\ rs[s[1]].start \in Int /\ rs[s[1]].end \in Int
          /\ s[1] \in DOMAIN rs
      BY <1>1, RangeFacts, MaxIPAssumption
    <3>2. f[2] \in rs[f[1]].start .. rs[f[1]].end
      BY <1>1, <1>6, <2>1, <3>1, MaxIPAssumption
    <3> QED BY <2>1, <3>1, <3>2, SlotsAre, Zenon
  <2>3. ASSUME NEW t \in Slots(rs)
        PROVE  Before(t, f) <=> Before(t, s) \/ t = s
    <3>1. t = <<t[1], t[2]>> /\ t[1] \in Int /\ t[2] \in Int /\ s[1] \in Int /\ s[2] \in Int
      BY <1>1, SlotType, MaxIPAssumption
    <3>2. t = s <=> t[1] = s[1] /\ t[2] = s[2]
      BY <1>1, <3>1, Zenon
    <3> QED BY <2>1, <3>1, <3>2 DEF Before
  <2>4. Preceding(rs, f) = Preceding(rs, s) \cup {s}
    BY <2>3, Zenon DEF Preceding
  <2> QED BY <2>2, <2>4, <1>5, Zenon
<1>7. CASE s[2] = rs[s[1]].end /\ s[1] # Len(rs)
  <2>1. f = <<s[1] + 1, rs[s[1] + 1].start>> /\ f[1] = s[1] + 1 /\ f[2] = rs[s[1] + 1].start
    BY <1>7, Zenon DEF Following
  <2>2. /\ s[1] + 1 \in 1 .. Len(rs) /\ DOMAIN rs = 1 .. Len(rs)
        /\ rs[s[1] + 1].start \in Int /\ rs[s[1] + 1].end \in Int
        /\ rs[s[1] + 1].start <= rs[s[1] + 1].end
    <3>1. s[1] + 1 \in 1 .. Len(rs) /\ DOMAIN rs = 1 .. Len(rs)
      BY <1>1, <1>7, RangeFacts
    <3> QED BY <3>1, RangeFacts, MaxIPAssumption, SMTT(30)
  <2>3. f \in Slots(rs)
    <3>1. f[2] \in rs[f[1]].start .. rs[f[1]].end
      BY <2>1, <2>2
    <3> QED BY <2>1, <2>2, <3>1, SlotsAre, Zenon
  <2>4. ASSUME NEW t \in Slots(rs)
        PROVE  Before(t, f) <=> Before(t, s) \/ t = s
    <3>1. /\ t = <<t[1], t[2]>> /\ t[1] \in Int /\ t[2] \in Int /\ s[1] \in Int /\ s[2] \in Int
          /\ rs[t[1]].start <= t[2] /\ t[2] <= rs[t[1]].end
      BY <1>1, SlotType, MaxIPAssumption
    <3>2. t = s <=> t[1] = s[1] /\ t[2] = s[2]
      BY <1>1, <3>1, Zenon
    <3>3. t[1] = s[1] + 1 => ~(t[2] < rs[s[1] + 1].start)
      BY <2>2, <3>1
    <3>4. t[1] = s[1] => t[2] < s[2] \/ t[2] = s[2]
      BY <1>7, <3>1
    <3> QED BY <2>1, <3>1, <3>2, <3>3, <3>4 DEF Before
  <2>5. Preceding(rs, f) = Preceding(rs, s) \cup {s}
    BY <2>4, Zenon DEF Preceding
  <2> QED BY <2>3, <2>5, <1>5, Zenon
<1>8. CASE s[2] = rs[s[1]].end /\ s[1] = Len(rs)
  <2>1. f = <<1, rs[1].start>> /\ f[1] = 1 /\ f[2] = rs[1].start
    BY <1>8, Zenon DEF Following
  <2>2. /\ 1 \in DOMAIN rs /\ rs[1].start \in Int /\ rs[1].end \in Int
        /\ rs[1].start <= rs[1].end
    BY RangeFacts, MaxIPAssumption
  <2>3. f \in Slots(rs)
    <3>1. f[2] \in rs[f[1]].start .. rs[f[1]].end
      BY <2>1, <2>2
    <3> QED BY <2>1, <2>2, <3>1, SlotsAre, Zenon
  <2>4. ASSUME NEW t \in Slots(rs)
        PROVE  (Before(t, s) \/ t = s) /\ ~Before(t, f)
    <3>1. /\ t = <<t[1], t[2]>> /\ t[1] \in 1 .. Len(rs) /\ t[2] \in Int
          /\ s[1] \in Int /\ s[2] \in Int /\ Len(rs) \in Int
          /\ rs[t[1]].start <= t[2] /\ t[2] <= rs[t[1]].end
      BY <1>1, SlotType, RangeFacts, MaxIPAssumption
    <3>2. t = s <=> t[1] = s[1] /\ t[2] = s[2]
      BY <1>1, <3>1, Zenon
    <3>3. t[1] = 1 => ~(t[2] < rs[1].start)
      BY <2>2, <3>1
    <3>4. t[1] = s[1] => t[2] < s[2] \/ t[2] = s[2]
      BY <1>8, <3>1
    <3> QED BY <1>8, <2>1, <3>1, <3>2, <3>3, <3>4 DEF Before
  <2>5. Preceding(rs, s) \cup {s} = Slots(rs) /\ Preceding(rs, f) = {}
    BY <2>4, Zenon DEF Preceding
  <2>6. Pos(rs, f) = 0
    BY <2>3, <2>5, PosType, FS_EmptySet, Zenon
  <2>7. Pos(rs, s) \in Int /\ Cardinality(Slots(rs)) = Pos(rs, s) + 1
    BY <2>5, <1>4, PosType, SlotsFinite
  <2> QED BY <2>3, <2>6, <2>7
<1> QED BY <1>6, <1>7, <1>8, Zenon

\* The first slot has position 0.
LEMMA FirstSlotPos ==
  ASSUME NEW rs \in RangeSets
  PROVE  <<1, rs[1].start>> \in Slots(rs) /\ Pos(rs, <<1, rs[1].start>>) = 0
<1> DEFINE f == <<1, rs[1].start>>
<1>1. /\ 1 \in DOMAIN rs /\ rs[1].start \in Int /\ rs[1].end \in Int
      /\ rs[1].start <= rs[1].end
  BY RangeFacts, MaxIPAssumption
<1>2. f = <<f[1], f[2]>> /\ f[1] = 1 /\ f[2] = rs[1].start
  OBVIOUS
<1>3. f \in Slots(rs)
  <2>1. f[2] \in rs[f[1]].start .. rs[f[1]].end
    BY <1>1, <1>2
  <2> QED BY <1>1, <1>2, <2>1, SlotsAre, Zenon
<1>4. ASSUME NEW t \in Slots(rs)
      PROVE  ~Before(t, f)
  <2>1. t[1] \in 1 .. Len(rs) /\ t[2] \in Int /\ rs[t[1]].start <= t[2] /\ Len(rs) \in Int
    BY SlotType, RangeFacts, MaxIPAssumption
  <2> QED BY <1>1, <1>2, <2>1 DEF Before
<1>5. Preceding(rs, f) = {}
  BY <1>4, Zenon DEF Preceding
<1> QED BY <1>3, <1>5, PosType, FS_EmptySet, Zenon

\* Differences modulo the number of slots.
LEMMA ModWrap ==
  ASSUME NEW N \in Nat, N >= 1, NEW p \in 0 .. N - 1, NEW q \in 0 .. N - 1
  PROVE  /\ (p - q) % N = IF p >= q THEN p - q ELSE p - q + N
         /\ (p + 1) % N = IF p = N - 1 THEN 0 ELSE p + 1
<1>1. ASSUME NEW x \in 0 .. N - 1
      PROVE  x % N = x
  BY <1>1
<1>2. ASSUME NEW x \in -N .. -1
      PROVE  x % N = x + N
  BY <1>2
<1>3. N % N = 0
  OBVIOUS
<1>4. CASE p >= q
  <2>1. p - q \in 0 .. N - 1
    BY <1>4
  <2> QED BY <2>1, <1>1, <1>3, <1>4
<1>5. CASE p < q
  <2>1. p - q \in -N .. -1
    BY <1>5
  <2> QED BY <2>1, <1>1, <1>2, <1>3, <1>5
<1> QED BY <1>4, <1>5

\* The index of the range after the last one.
LEMMA ModSelf ==
  ASSUME NEW N \in Nat, N >= 1, NEW p \in 0 .. N - 1
  PROVE  p % N = p /\ N % N = 0
OBVIOUS

\* getIter starts after the slot that holds LastReservedIP, else at the first.
LEMMA FirstPosIs ==
  ASSUME NEW rs \in RangeSets, NEW a
  PROVE  /\ FirstPos(rs, a) \in 0 .. Cardinality(Slots(rs)) - 1
         /\ (\A s \in Slots(rs) : s[2] # a) => FirstPos(rs, a) = 0
         /\ \A s \in Slots(rs) : s[2] = a =>
                FirstPos(rs, a) = (Pos(rs, s) + 1) % Cardinality(Slots(rs))
<1> DEFINE N == Cardinality(Slots(rs))
           here == {s \in Slots(rs) : s[2] = a}
<1>1. N \in Nat /\ N >= 1
  <2>1. Pos(rs, <<1, rs[1].start>>) \in 0 .. N - 1
    BY FirstSlotPos, PosType, Zenon
  <2>2. N \in Nat
    BY SlotsFinite, Zenon
  <2> QED BY <2>1, <2>2
<1>2. CASE here = {}
  <2>1. FirstPos(rs, a) = 0
    BY <1>2, Zenon DEF FirstPos
  <2> QED BY <1>1, <1>2, <2>1
<1>3. CASE here # {}
  <2>1. PICK s \in Slots(rs) : s[2] = a
    BY <1>3
  <2>2. here = {s}
    BY <2>1, AddressNamesSlot, Zenon
  <2>3. s[1] \in Int
    BY SlotType
  <2>4. (CHOOSE u \in here : \A t \in here : u[1] <= t[1]) = s
    BY <2>2, <2>3
  <2>5. FirstPos(rs, a) = (Pos(rs, s) + 1) % N
    BY <1>3, <2>4, Zenon DEF FirstPos
  <2>6. Pos(rs, s) \in 0 .. N - 1
    BY PosType, Zenon
  <2> HIDE DEF N
  <2>7. (Pos(rs, s) + 1) % N \in 0 .. N - 1
    BY <1>1, <2>6
  <2>8. \A t \in Slots(rs) : t[2] = a => t = s
    BY <2>2
  <2> USE DEF N
  <2> QED BY <2>1, <2>5, <2>7, <2>8, Zenon
<1> QED BY <1>2, <1>3, Zenon

\* Rank numbers the slots in the order in which the iterator visits them.
LEMMA RankFacts ==
  ASSUME NEW rs \in RangeSets, NEW a, NEW s \in Slots(rs)
  PROVE  /\ Cardinality(Slots(rs)) \in Nat /\ Cardinality(Slots(rs)) >= 1
         /\ Rank(rs, a, s) \in 0 .. Cardinality(Slots(rs)) - 1
         /\ \A t \in Slots(rs) : Rank(rs, a, s) = Rank(rs, a, t) => s = t
         /\ Following(rs, s) \in Slots(rs)
         /\ Rank(rs, a, Following(rs, s)) =
                IF Rank(rs, a, s) = Cardinality(Slots(rs)) - 1 THEN 0
                ELSE Rank(rs, a, s) + 1
         /\ s[2] = a => Rank(rs, a, s) = Cardinality(Slots(rs)) - 1
<1> DEFINE N == Cardinality(Slots(rs))
           q == FirstPos(rs, a)
           f == Following(rs, s)
<1>1. N \in Nat /\ Pos(rs, s) \in 0 .. N - 1
  BY SlotsFinite, PosType, Zenon
<1>2. N >= 1
  BY <1>1
<1>3. q \in 0 .. N - 1 /\ (s[2] = a => q = (Pos(rs, s) + 1) % N)
  BY FirstPosIs, Zenon
<1>4. f \in Slots(rs)
  BY FollowingPos, Zenon
<1>5. Pos(rs, f) \in 0 .. N - 1
  BY <1>4, PosType, Zenon
<1>6. Pos(rs, f) = Pos(rs, s) + 1 \/ (Pos(rs, s) = N - 1 /\ Pos(rs, f) = 0)
  BY FollowingPos, Zenon
<1>7. \A t \in Slots(rs) :
          /\ Pos(rs, t) \in 0 .. N - 1
          /\ Rank(rs, a, t) = (Pos(rs, t) - q) % N
          /\ Pos(rs, s) = Pos(rs, t) => s = t
  BY PosType, PosInjective, Zenon DEF Rank
<1> HIDE DEF N, q, f
<1>8. \A t \in Slots(rs) :
          Rank(rs, a, t) = IF Pos(rs, t) >= q THEN Pos(rs, t) - q ELSE Pos(rs, t) - q + N
  BY <1>1, <1>2, <1>3, <1>7, ModWrap
<1>9. /\ Rank(rs, a, s) = IF Pos(rs, s) >= q THEN Pos(rs, s) - q ELSE Pos(rs, s) - q + N
      /\ Rank(rs, a, f) = IF Pos(rs, f) >= q THEN Pos(rs, f) - q ELSE Pos(rs, f) - q + N
  BY <1>4, <1>8, Zenon
<1>10. Rank(rs, a, s) \in 0 .. N - 1
  BY <1>1, <1>3, <1>9
<1>11. ASSUME NEW t \in Slots(rs), Rank(rs, a, s) = Rank(rs, a, t)
       PROVE  s = t
  <2>1. /\ Rank(rs, a, t) = IF Pos(rs, t) >= q THEN Pos(rs, t) - q ELSE Pos(rs, t) - q + N
        /\ Pos(rs, t) \in 0 .. N - 1
    BY <1>7, <1>8, Zenon
  <2>2. Pos(rs, s) = Pos(rs, t)
    BY <1>1, <1>3, <1>9, <1>11, <2>1
  <2> QED BY <2>2, <1>7, Zenon
<1>12. Rank(rs, a, f) = IF Rank(rs, a, s) = N - 1 THEN 0 ELSE Rank(rs, a, s) + 1
  BY <1>1, <1>3, <1>5, <1>6, <1>9
<1>13. s[2] = a => Rank(rs, a, s) = N - 1
  <2>1. (Pos(rs, s) + 1) % N = IF Pos(rs, s) = N - 1 THEN 0 ELSE Pos(rs, s) + 1
    BY <1>1, <1>2, <1>3, ModWrap, Zenon
  <2> QED BY <1>1, <1>3, <1>9, <2>1
<1> USE DEF N, f
<1> QED BY <1>1, <1>2, <1>4, <1>10, <1>11, <1>12, <1>13, Zenon

-----------------------------------------------------------------------------
(***************************************************************************)
(* The inductive invariant.  While Allocate loops, the iterator stands on  *)
(* a slot; every slot it has left behind, in the order of Rank, is one     *)
(* that cannot end the loop.                                               *)
(***************************************************************************)
Here == <<iter.idx, iter.cur>>

RankOf(s) == Rank(in.rs, in.last, s)

\* The slots on which the body of the loop returns.
Stops ==
    IF in.keyTaken THEN Allocatable(in.rs, in.excl)
    ELSE Free(in.rs, in.excl, in.reserved)

Types ==
    /\ in \in Inputs
    /\ iter \in [idx : Nat, cur : Addrs \cup {NoIP}, startIP : Addrs \cup {NoIP}]
    /\ iter.idx \in 1 .. Len(in.rs)
    /\ pc \in {"start", "restore", "next", "try", "done"}
    /\ last \in Addrs \cup {NoIP}
    /\ result.err \in {"none", "ok", "noFree", "exists", "reserved", "noRange"}
    /\ visited \in Seq(Addrs)

\* getIter found no range that holds LastReservedIP.
AtTheBeginning ==
    /\ pc = "next" /\ visited = <<>>
    /\ iter.idx = 1 /\ iter.cur = NoIP /\ iter.startIP = in.rs[1].start
    /\ \A s \in Slots(in.rs) : s[2] # in.last

\* getIter put the cursor on LastReservedIP; Next() has not been called.
AtTheCursor ==
    /\ pc = "next" /\ visited = <<>>
    /\ iter.cur # NoIP /\ iter.cur = in.last /\ iter.startIP = NoIP
    /\ Here \in Slots(in.rs)

\* Next() has been called.
OnTheWay ==
    /\ iter.cur # NoIP /\ iter.startIP # NoIP
    /\ Here \in Slots(in.rs)
    /\ \A s \in Slots(in.rs) : s[2] = iter.startIP => RankOf(s) = 0
    /\ \A s \in Slots(in.rs) : RankOf(s) = 0 => s[2] = iter.startIP
    /\ \A s \in Stops : RankOf(Here) < RankOf(s) \/ (pc = "try" /\ s = Here)
    /\ pc = "try" => iter.cur # in.rs[iter.idx].gw
    /\ \A k \in 1 .. Len(visited) :
           \E s \in Slots(in.rs) : s[2] = visited[k] /\ RankOf(s) <= RankOf(Here)
    /\ \A s \in Slots(in.rs) :
           s[2] # in.rs[s[1]].gw /\ RankOf(s) <= RankOf(Here) =>
               \E k \in 1 .. Len(visited) : visited[k] = s[2]

\* Only a dynamic call that succeeds moves LastReservedIP.
CursorMoves ==
    pc = "done" =>
        /\ last = IF result.err = "ok" /\ in.static = NoIP THEN result.ip ELSE in.last
        /\ result.err = "ok" => result.ip \in Addrs

IInv ==
    /\ Types
    /\ NeverRevisits
    /\ pc \notin {"restore", "done"} => last = in.last /\ result = NoResult
    /\ pc = "restore" => saved = in.last /\ in.static # NoIP /\ result = NoResult
    /\ pc = "start" =>
           visited = <<>> /\ iter = [idx |-> 1, cur |-> NoIP, startIP |-> NoIP]
    /\ pc \in {"next", "try"} =>
           in.static = NoIP /\ (AtTheBeginning \/ AtTheCursor \/ OnTheWay)
    /\ DynamicIsFirstFree
    /\ CursorMoves

\* The input of the call.
LEMMA InputFacts ==
  ASSUME in \in Inputs
  PROVE  /\ in.rs \in RangeSets
         /\ in.last \in Addrs \cup {NoIP}
         /\ in.keyTaken \in BOOLEAN
         /\ in.static # NoIP => in.static \in Addrs
BY StaticsAssumption DEF Inputs

\* A slot that ends the loop is not the gateway of its range, is not excluded,
\* and is free unless the key is already in the pool.
LEMMA StopsAre ==
  ASSUME in \in Inputs
  PROVE  /\ Stops \subseteq Slots(in.rs)
         /\ \A s \in Slots(in.rs) :
                s \in Stops <=>
                    /\ s[2] # in.rs[s[1]].gw
                    /\ ~SetContains(in.excl, s[2])
                    /\ in.keyTaken \/ s[2] \notin in.reserved
<1>1. in.keyTaken \in BOOLEAN
  BY InputFacts, Zenon
<1>2. CASE in.keyTaken
  BY <1>2, Zenon DEF Stops, Allocatable
<1>3. CASE ~in.keyTaken
  BY <1>3, Zenon DEF Stops, Free, Allocatable
<1> QED BY <1>1, <1>2, <1>3, Zenon

\* Every call starts in a state of the invariant.
LEMMA InitIInv == Init => IInv
<1> SUFFICES ASSUME Init PROVE IInv
  OBVIOUS
<1>1. in \in Inputs /\ pc = "start" /\ last = in.last /\ result = NoResult /\ visited = <<>>
      /\ iter = [idx |-> 1, cur |-> NoIP, startIP |-> NoIP]
  BY Zenon DEF Init
<1>2. in.rs \in RangeSets /\ in.last \in Addrs \cup {NoIP}
  BY <1>1, InputFacts, Zenon
<1>3. Len(in.rs) \in Nat /\ Len(in.rs) >= 1
  BY <1>2, RangeFacts, Zenon
<1>4. Types
  BY <1>1, <1>2, <1>3 DEF Types, NoResult
<1>5. NeverRevisits
  BY <1>1 DEF NeverRevisits
<1> QED BY <1>1, <1>4, <1>5 DEF IInv, DynamicIsFirstFree, CursorMoves

\* allocateStaticIP ends the call with an error, or reserves the address and
\* keeps the LastReservedIP that it found.
LEMMA StaticStep == IInv /\ allocateStaticIP => IInv'
<1> SUFFICES ASSUME IInv, allocateStaticIP PROVE IInv'
  OBVIOUS
<1>1. /\ pc = "start" /\ in.static # NoIP
      /\ in' = in /\ iter' = iter /\ visited' = visited
      /\ \/ /\ pc' = "restore" /\ saved' = last /\ last' = in.static /\ result' = result
         \/ /\ pc' = "done" /\ last' = last /\ result'.err \in {"noRange", "exists", "reserved"}
  BY DEF allocateStaticIP, Done
<1>2. last = in.last /\ result = NoResult /\ in \in Inputs
  BY <1>1, Zenon DEF IInv, Types
<1>3. in.static \in Addrs
  BY <1>1, <1>2, InputFacts, Zenon
<1>4. NeverRevisits'
  BY <1>1, ZenonT(60) DEF IInv, NeverRevisits
<1>5. CASE pc' = "restore" /\ saved' = last /\ last' = in.static /\ result' = result
  <2>1. Types'
    BY <1>1, <1>3, <1>5, Zenon DEF IInv, Types
  <2>2. DynamicIsFirstFree' /\ CursorMoves'
    BY <1>5, Zenon DEF DynamicIsFirstFree, CursorMoves
  <2> QED BY <1>1, <1>2, <1>4, <1>5, <2>1, <2>2 DEF IInv
<1>6. CASE pc' = "done" /\ last' = last /\ result'.err \in {"noRange", "exists", "reserved"}
  <2>1. Types'
    BY <1>1, <1>6, Zenon DEF IInv, Types
  <2>2. last' = in'.last /\ result'.err # "ok"
    BY <1>1, <1>2, <1>6, Zenon
  <2>3. DynamicIsFirstFree' /\ CursorMoves'
    BY <1>1, <1>6, <2>2, Zenon DEF DynamicIsFirstFree, CursorMoves
  <2> QED BY <1>1, <1>4, <1>6, <2>1, <2>3 DEF IInv
<1> QED BY <1>1, <1>5, <1>6, Zenon

\* SetLastReservedIP puts back the LastReservedIP that the call started with.
LEMMA RestoreStep == IInv /\ SetLastReservedIP => IInv'
<1> SUFFICES ASSUME IInv, SetLastReservedIP PROVE IInv'
  OBVIOUS
<1>1. /\ pc = "restore" /\ pc' = "done" /\ last' = saved
      /\ result' = [err |-> "ok", ip |-> in.static]
      /\ in' = in /\ iter' = iter /\ visited' = visited
  BY Zenon DEF SetLastReservedIP, Done
<1>2. saved = in.last /\ in.static # NoIP /\ in \in Inputs
  BY <1>1, Zenon DEF IInv, Types
<1>3. in.static \in Addrs /\ in.last \in Addrs \cup {NoIP}
  BY <1>2, InputFacts, Zenon
<1>4. result'.err = "ok" /\ result'.ip = in.static
  BY <1>1, Zenon
<1>5. Types'
  BY <1>1, <1>2, <1>3, <1>4, Zenon DEF IInv, Types
<1>6. NeverRevisits'
  BY <1>1, ZenonT(60) DEF IInv, NeverRevisits
<1>7. DynamicIsFirstFree' /\ CursorMoves'
  BY <1>1, <1>2, <1>3, <1>4, Zenon DEF DynamicIsFirstFree, CursorMoves
<1> QED BY <1>1, <1>5, <1>6, <1>7 DEF IInv

\* The next call starts from the LastReservedIP that this one left.
LEMMA NextCallStep == IInv /\ NextCall => IInv'
<1> SUFFICES ASSUME IInv, NextCall PROVE IInv'
  OBVIOUS
<1>1. /\ pc = "done" /\ pc' = "start" /\ result' = NoResult /\ visited' = <<>>
      /\ iter' = [idx |-> 1, cur |-> NoIP, startIP |-> NoIP] /\ last' = last
  BY Zenon DEF NextCall
<1>2. PICK reserved \in SUBSET ReservedNow, keyTaken \in BOOLEAN, static \in Statics :
          in' = [in EXCEPT !.reserved = reserved, !.keyTaken = keyTaken,
                           !.last = last, !.static = static]
  BY Zenon DEF NextCall
<1>3. in \in Inputs /\ last \in Addrs \cup {NoIP} /\ (result.err = "ok" => result.ip \in Addrs)
  BY <1>1, Zenon DEF IInv, Types, CursorMoves
<1>4. in.reserved \subseteq Addrs /\ ReservedNow \subseteq Addrs
  BY <1>3 DEF Inputs, ReservedNow
<1>5. reserved \in SUBSET Addrs
  BY <1>4, Zenon
<1>6. in' \in Inputs /\ in'.last = last /\ in'.rs = in.rs
  BY ONLY <1>2, <1>3, <1>5 DEF Inputs
<1>7. in.rs \in RangeSets
  BY <1>3, InputFacts, Zenon
<1>8. Len(in.rs) \in Nat /\ Len(in.rs) >= 1
  BY <1>7, RangeFacts, Zenon
<1>9. Types'
  <2>1. NoResult.err = "none" /\ NoResult.ip = NoIP
    BY Zenon DEF NoResult
  <2>2. iter'.idx \in 1 .. Len(in'.rs)
    BY <1>1, <1>6, <1>8
  <2>3. iter' \in [idx : Nat, cur : Addrs \cup {NoIP}, startIP : Addrs \cup {NoIP}]
    BY <1>1
  <2>4. visited' \in Seq(Addrs)
    BY <1>1
  <2> QED BY <1>1, <1>3, <1>6, <2>1, <2>2, <2>3, <2>4, Zenon DEF Types
<1>10. NeverRevisits'
  BY <1>1 DEF NeverRevisits
<1>11. DynamicIsFirstFree' /\ CursorMoves'
  BY <1>1, Zenon DEF DynamicIsFirstFree, CursorMoves
<1> QED BY <1>1, <1>6, <1>9, <1>10, <1>11 DEF IInv

\* getIter puts the cursor on LastReservedIP or before the first slot.
LEMMA GetIterStep == IInv /\ getIter => IInv'
<1> SUFFICES ASSUME IInv, getIter PROVE IInv'
  OBVIOUS
<1> DEFINE home == {i \in DOMAIN in.rs : Contains(in.rs[i], last)}
<1>1. /\ pc = "start" /\ in.static = NoIP /\ pc' = "next"
      /\ in' = in /\ visited' = visited /\ last' = last /\ result' = result
  BY Zenon DEF getIter
<1>0. iter' = IF last # NoIP /\ home # {}
              THEN [idx |-> CHOOSE i \in home : \A j \in home : i <= j,
                    cur |-> last, startIP |-> NoIP]
              ELSE [idx |-> 1, cur |-> NoIP, startIP |-> in.rs[1].start]
  BY Zenon DEF getIter
<1>2. /\ in \in Inputs /\ visited = <<>> /\ last = in.last /\ result = NoResult
      /\ last \in Addrs \cup {NoIP}
  BY <1>1, Zenon DEF IInv, Types
<1>3. in.rs \in RangeSets
  BY <1>2, InputFacts, Zenon
<1>4. /\ Len(in.rs) \in Nat /\ Len(in.rs) >= 1 /\ DOMAIN in.rs = 1 .. Len(in.rs)
      /\ in.rs[1].start \in Addrs
  BY <1>3, RangeFacts DEF Addrs
<1>5. \A i \in DOMAIN in.rs :
          Contains(in.rs[i], last) => last # NoIP /\ <<i, last>> \in Slots(in.rs)
  <2> SUFFICES ASSUME NEW i \in 1 .. Len(in.rs), Contains(in.rs[i], last)
               PROVE  last # NoIP /\ <<i, last>> \in Slots(in.rs)
    BY <1>4, Zenon
  <2>1. in.rs[i].start \in 0 .. MaxIP /\ in.rs[i].end \in 0 .. MaxIP
    BY <1>3, RangeFacts, Zenon
  <2>2. last \in in.rs[i].start .. in.rs[i].end /\ last # NoIP
    BY <1>2, <2>1, MaxIPAssumption DEF Contains, Addrs, NoIP
  <2>3. <<i, last>>[1] = i /\ <<i, last>>[2] = last
    OBVIOUS
  <2>4. <<i, last>> \in Slots(in.rs)
    BY <1>4, <2>2, <2>3, SlotsAre, Zenon
  <2> QED BY <2>2, <2>4
<1>6. \A s \in Slots(in.rs) : s[2] = last => s[1] \in home
  <2> SUFFICES ASSUME NEW s \in Slots(in.rs), s[2] = last
               PROVE  s[1] \in home
    OBVIOUS
  <2>1. s[1] \in 1 .. Len(in.rs) /\ Contains(in.rs[s[1]], s[2])
    BY <1>3, SlotType, SlotContains, Zenon
  <2> QED BY <1>4, <2>1
<1>7. CASE last # NoIP /\ home # {}
  <2>1. PICK i \in home : TRUE
    BY <1>7, Zenon
  <2>2. home = {i}
    <3>1. ASSUME NEW j \in home
          PROVE  j = i
      <4>1. <<i, last>> \in Slots(in.rs) /\ <<j, last>> \in Slots(in.rs)
        BY <1>5, Zenon
      <4>2. <<i, last>>[2] = <<j, last>>[2]
        OBVIOUS
      <4>3. <<i, last>> = <<j, last>>
        BY <1>3, <4>1, <4>2, AddressNamesSlot, Zenon
      <4> QED BY <4>3
    <3> QED BY <3>1
  <2>3. i \in 1 .. Len(in.rs) /\ i \in Nat
    BY <1>4
  <2>4. (CHOOSE u \in home : \A j \in home : u <= j) = i
    BY <2>2, <2>3
  <2> HIDE DEF home
  <2>5. iter' = [idx |-> i, cur |-> last, startIP |-> NoIP]
    BY <1>0, <1>7, <2>4, Zenon
  <2> USE DEF home
  <2>6. <<i, last>> \in Slots(in.rs)
    BY <1>5, Zenon
  <2>a. iter'.idx = i /\ iter'.cur = last /\ iter'.startIP = NoIP /\ last # NoIP
    BY <1>7, <2>5, Zenon
  <2>7. AtTheCursor'
    BY <1>1, <1>2, <2>a, <2>6, Zenon DEF AtTheCursor, Here
  <2>8. Types'
    <3>1. iter' \in [idx : Nat, cur : Addrs \cup {NoIP}, startIP : Addrs \cup {NoIP}]
      BY <1>2, <2>3, <2>5, Zenon
    <3> QED BY <1>1, <1>2, <2>3, <2>a, <3>1 DEF IInv, Types
  <2>9. NeverRevisits'
    BY <1>1, ZenonT(60) DEF IInv, NeverRevisits
  <2> QED BY <1>1, <1>2, <2>7, <2>8, <2>9 DEF IInv, DynamicIsFirstFree, CursorMoves
<1>8. CASE ~(last # NoIP /\ home # {})
  <2>1. iter' = [idx |-> 1, cur |-> NoIP, startIP |-> in.rs[1].start]
    BY <1>0, <1>8, Zenon
  <2>2. \A s \in Slots(in.rs) : s[2] # last
    <3> SUFFICES ASSUME NEW s \in Slots(in.rs), s[2] = last
                 PROVE  FALSE
      OBVIOUS
    <3>1. s[1] \in home
      BY <1>6, Zenon
    <3>2. last # NoIP
      BY <3>1, <1>5, Zenon
    <3> QED BY <3>1, <3>2, <1>8, Zenon
  <2>3. AtTheBeginning'
    BY <1>1, <1>2, <2>1, <2>2, Zenon DEF AtTheBeginning
  <2>4. Types'
    <3>1. iter' \in [idx : Nat, cur : Addrs \cup {NoIP}, startIP : Addrs \cup {NoIP}]
      BY <1>4, <2>1, Zenon
    <3> QED BY <1>1, <1>2, <1>4, <2>1, <3>1 DEF IInv, Types
  <2>5. NeverRevisits'
    BY <1>1, ZenonT(60) DEF IInv, NeverRevisits
  <2> QED BY <1>1, <1>2, <2>3, <2>4, <2>5 DEF IInv, DynamicIsFirstFree, CursorMoves
<1> QED BY <1>7, <1>8

\* In the order in which this call visits the slots, a slot is named by its
\* rank and by its address.
LEMMA SlotsByRank ==
  ASSUME in \in Inputs
  PROVE  \A s, t \in Slots(in.rs) :
             /\ RankOf(s) \in Nat
             /\ RankOf(s) = RankOf(t) => s = t
             /\ s[2] = t[2] => s = t
<1> SUFFICES ASSUME NEW s \in Slots(in.rs), NEW t \in Slots(in.rs)
             PROVE  /\ RankOf(s) \in Nat
                    /\ RankOf(s) = RankOf(t) => s = t
                    /\ s[2] = t[2] => s = t
  OBVIOUS
<1>1. in.rs \in RangeSets
  BY InputFacts, Zenon
<1>2. RankOf(s) \in Nat
  BY <1>1, RankFacts DEF RankOf
<1>3. RankOf(s) = RankOf(t) => s = t
  BY <1>1, RankFacts, Zenon DEF RankOf
<1>4. s[2] = t[2] => s = t
  BY <1>1, AddressNamesSlot, Zenon
<1> QED BY <1>2, <1>3, <1>4

\* RangeIter.Next arrives on slot f.  When no slot before f ends the loop, and
\* none of the addresses returned so far belongs to f or a later slot, the
\* invariant holds on f: a gateway is passed over, any other address is new,
\* and the slots up to f have been offered.
LEMMA Arrive ==
  ASSUME IInv, pc = "next", in.static = NoIP,
         NEW f \in Slots(in.rs), NEW st \in Addrs,
         \A s \in Slots(in.rs) : s[2] = st => RankOf(s) = 0,
         \A s \in Slots(in.rs) : RankOf(s) = 0 => s[2] = st,
         \A s \in Stops : RankOf(f) <= RankOf(s),
         \A k \in 1 .. Len(visited) :
             \E s \in Slots(in.rs) : s[2] = visited[k] /\ RankOf(s) < RankOf(f),
         \A s \in Slots(in.rs) :
             s[2] # in.rs[s[1]].gw /\ RankOf(s) < RankOf(f) =>
                 \E k \in 1 .. Len(visited) : visited[k] = s[2],
         in' = in, last' = last, result' = result,
         iter' = [idx |-> f[1], cur |-> f[2], startIP |-> st],
         Yield(in.rs[f[1]], f[2])
  PROVE  IInv'
<1>1. /\ in \in Inputs /\ visited \in Seq(Addrs) /\ last = in.last /\ result = NoResult
      /\ last \in Addrs \cup {NoIP} /\ NeverRevisits
  BY Zenon DEF IInv, Types
<1>2. in.rs \in RangeSets
  BY <1>1, InputFacts, Zenon
<1>3. /\ f = <<f[1], f[2]>> /\ f[1] \in 1 .. Len(in.rs) /\ f[2] \in 0 .. MaxIP
  BY <1>2, SlotType, Zenon
<1>4. /\ f[1] \in Nat /\ f[2] \in Addrs /\ f[2] # NoIP /\ st # NoIP
  BY <1>2, <1>3, RangeFacts, MaxIPAssumption DEF Addrs, NoIP
<1>5. iter'.idx = f[1] /\ iter'.cur = f[2] /\ iter'.startIP = st /\ Here' = f
  BY <1>3, Zenon DEF Here
<1>6. /\ Stops' = Stops /\ Slots(in.rs)' = Slots(in.rs)
      /\ \A s : Rank(in.rs, in.last, s)' = Rank(in.rs, in.last, s)
  BY DEF Stops
<1>7. \A s \in Slots(in.rs) :
          /\ RankOf(s) \in Nat
          /\ RankOf(f) = RankOf(s) => f = s
          /\ f[2] = s[2] => f = s
  BY <1>1, SlotsByRank, Zenon
<1>8. RankOf(f) \in Int
  BY <1>7
<1>9. \A s \in Stops : s \in Slots(in.rs) /\ (RankOf(f) < RankOf(s) \/ s = f)
  <2> SUFFICES ASSUME NEW s \in Stops
               PROVE  s \in Slots(in.rs) /\ (RankOf(f) < RankOf(s) \/ s = f)
    OBVIOUS
  <2>1. s \in Slots(in.rs)
    BY <1>1, StopsAre, Zenon
  <2>2. RankOf(f) <= RankOf(s) /\ RankOf(s) \in Nat /\ (RankOf(f) = RankOf(s) => f = s)
    BY <2>1, <1>7, Zenon
  <2>3. RankOf(f) < RankOf(s) \/ RankOf(f) = RankOf(s)
    BY <2>2, <1>8
  <2> QED BY <2>1, <2>2, <2>3, Zenon
<1>10. \A k \in 1 .. Len(visited) :
           /\ \E s \in Slots(in.rs) : s[2] = visited[k] /\ RankOf(s) <= RankOf(f)
           /\ visited[k] # f[2]
  <2> SUFFICES ASSUME NEW k \in 1 .. Len(visited)
               PROVE  /\ \E s \in Slots(in.rs) : s[2] = visited[k] /\ RankOf(s) <= RankOf(f)
                      /\ visited[k] # f[2]
    OBVIOUS
  <2>1. PICK s \in Slots(in.rs) : s[2] = visited[k] /\ RankOf(s) < RankOf(f)
    BY Zenon
  <2>2. RankOf(s) <= RankOf(f) /\ s # f
    BY <2>1, <1>7, <1>8
  <2> QED BY <2>1, <2>2, <1>7, Zenon
<1>11. iter' \in [idx : Nat, cur : Addrs \cup {NoIP}, startIP : Addrs \cup {NoIP}]
  BY <1>4, Zenon
<1>12. RankOf(Here)' = RankOf(f) /\ \A s : RankOf(s)' = RankOf(s)
  BY <1>5, Zenon DEF RankOf
<1>13. CASE in.rs[f[1]].gw # NoIP /\ f[2] = in.rs[f[1]].gw
  <2>1. pc' = "next" /\ visited' = visited
    BY <1>13, Zenon DEF Yield
  <2>2. f \notin Stops
    BY <1>1, <1>13, StopsAre, Zenon
  <2>3. \A s \in Stops : RankOf(f) < RankOf(s)
    BY <1>9, <2>2, Zenon
  <2>8. \A s \in Slots(in.rs) :
            s[2] # in.rs[s[1]].gw /\ RankOf(s) <= RankOf(f) =>
                \E k \in 1 .. Len(visited) : visited[k] = s[2]
    <3> SUFFICES ASSUME NEW s \in Slots(in.rs), s[2] # in.rs[s[1]].gw, RankOf(s) <= RankOf(f)
                 PROVE  \E k \in 1 .. Len(visited) : visited[k] = s[2]
      OBVIOUS
    <3>1. s # f
      BY <1>13, Zenon
    <3>2. RankOf(s) \in Nat /\ RankOf(s) # RankOf(f)
      BY <3>1, <1>7, Zenon
    <3>3. RankOf(s) < RankOf(f)
      BY ONLY <3>2, <1>8, RankOf(s) <= RankOf(f)
    <3> QED BY <3>3, Zenon
  <2>4. OnTheWay'
    BY <1>4, <1>5, <1>6, <1>10, <1>12, <2>1, <2>3, <2>8, Zenon DEF OnTheWay
  <2>5. Types'
    BY <1>1, <1>3, <1>5, <1>11, <2>1, Zenon DEF Types, IInv
  <2>6. NeverRevisits'
    BY <1>1, <2>1, Zenon DEF NeverRevisits
  <2>7. DynamicIsFirstFree' /\ CursorMoves'
    BY <2>1, Zenon DEF DynamicIsFirstFree, CursorMoves
  <2> QED BY <1>1, <2>1, <2>4, <2>5, <2>6, <2>7, SMTT(30) DEF IInv
<1>14. CASE ~(in.rs[f[1]].gw # NoIP /\ f[2] = in.rs[f[1]].gw)
  <2>1. pc' = "try" /\ visited' = Append(visited, f[2])
    BY <1>14, Zenon DEF Yield
  <2>2. f[2] # in.rs[f[1]].gw
    BY <1>4, <1>14, Zenon
  <2>3. /\ visited' \in Seq(Addrs) /\ Len(visited') = Len(visited) + 1
        /\ \A k \in 1 .. Len(visited) : visited'[k] = visited[k]
        /\ visited'[Len(visited) + 1] = f[2] /\ Len(visited) \in Nat
    BY <1>1, <1>4, <2>1
  <2>4. \A k \in 1 .. Len(visited') : k \in 1 .. Len(visited) \/ k = Len(visited) + 1
    BY <2>3
  <2>5. \A k \in 1 .. Len(visited') :
            \E s \in Slots(in.rs) : s[2] = visited'[k] /\ RankOf(s) <= RankOf(f)
    <3> SUFFICES ASSUME NEW k \in 1 .. Len(visited')
                 PROVE  \E s \in Slots(in.rs) : s[2] = visited'[k] /\ RankOf(s) <= RankOf(f)
      OBVIOUS
    <3>1. CASE k \in 1 .. Len(visited)
      BY <3>1, <2>3, <1>10, Zenon
    <3>2. CASE k = Len(visited) + 1
      <4>1. RankOf(f) <= RankOf(f)
        BY <1>8
      <4> QED BY <4>1, <3>2, <2>3, Zenon
    <3> QED BY <3>1, <3>2, <2>4, Zenon
  <2>10. \A s \in Slots(in.rs) :
             s[2] # in.rs[s[1]].gw /\ RankOf(s) <= RankOf(f) =>
                 \E k \in 1 .. Len(visited') : visited'[k] = s[2]
    <3> SUFFICES ASSUME NEW s \in Slots(in.rs), s[2] # in.rs[s[1]].gw, RankOf(s) <= RankOf(f)
                 PROVE  \E k \in 1 .. Len(visited') : visited'[k] = s[2]
      OBVIOUS
    <3>1. CASE s = f
      <4>1. Len(visited) + 1 \in 1 .. Len(visited')
        BY ONLY <2>3
      <4> QED BY <3>1, <4>1, <2>3, Zenon
    <3>2. CASE s # f
      <4>1. RankOf(s) \in Nat /\ RankOf(s) # RankOf(f)
        BY <3>2, <1>7, Zenon
      <4>2. RankOf(s) < RankOf(f)
        BY ONLY <4>1, <1>8, RankOf(s) <= RankOf(f)
      <4>3. PICK k \in 1 .. Len(visited) : visited[k] = s[2]
        BY <4>2, Zenon
      <4>4. k \in 1 .. Len(visited')
        BY ONLY <2>3, k \in 1 .. Len(visited)
      <4> QED BY <4>3, <4>4, <2>3, Zenon
    <3> QED BY <3>1, <3>2, Zenon
  <2>6. OnTheWay'
    BY <1>4, <1>5, <1>6, <1>9, <1>12, <2>1, <2>2, <2>5, <2>10, Zenon DEF OnTheWay
  <2>7. Types'
    BY <1>1, <1>3, <1>5, <1>11, <2>1, <2>3, Zenon DEF Types, IInv
  <2>8. NeverRevisits'
    <3> SUFFICES ASSUME NEW i \in 1 .. Len(visited'), NEW j \in 1 .. Len(visited'),
                        visited'[i] = visited'[j]
                 PROVE  i = j
      BY DEF NeverRevisits
    <3>1. CASE i \in 1 .. Len(visited) /\ j \in 1 .. Len(visited)
      <4>1. visited[i] = visited[j]
        BY <3>1, <2>3, Zenon
      <4> QED BY <3>1, <4>1, <1>1, Zenon DEF NeverRevisits
    <3>2. CASE i \in 1 .. Len(visited) /\ j = Len(visited) + 1
      BY <3>2, <2>3, <1>10, Zenon
    <3>3. CASE i = Len(visited) + 1 /\ j \in 1 .. Len(visited)
      BY <3>3, <2>3, <1>10, Zenon
    <3> QED BY <3>1, <3>2, <3>3, <2>4, Zenon
  <2>9. DynamicIsFirstFree' /\ CursorMoves'
    BY <2>1, Zenon DEF DynamicIsFirstFree, CursorMoves
  <2> QED BY <1>1, <2>1, <2>6, <2>7, <2>8, <2>9 DEF IInv
<1> QED BY <1>13, <1>14, Zenon

\* RangeIter.Next without a cursor arrives on the first slot, the one of rank 0.
LEMMA NextFirstStep == IInv /\ NextFirst => IInv'
<1> SUFFICES ASSUME IInv, NextFirst PROVE IInv'
  OBVIOUS
<1> DEFINE f == <<1, in.rs[1].start>>
<1>1. /\ pc = "next" /\ iter.cur = NoIP
      /\ iter' = [iter EXCEPT !.cur = in.rs[iter.idx].start, !.startIP = in.rs[iter.idx].start]
      /\ Yield(in.rs[iter.idx], in.rs[iter.idx].start)
      /\ in' = in /\ last' = last /\ result' = result
  BY Zenon DEF NextFirst
<1>2. /\ in.static = NoIP /\ AtTheBeginning /\ in \in Inputs
      /\ iter \in [idx : Nat, cur : Addrs \cup {NoIP}, startIP : Addrs \cup {NoIP}]
  BY <1>1, Zenon DEF IInv, Types, AtTheCursor, OnTheWay
<1>3. iter.idx = 1 /\ visited = <<>> /\ \A s \in Slots(in.rs) : s[2] # in.last
  BY <1>2, Zenon DEF AtTheBeginning
<1>4. in.rs \in RangeSets
  BY <1>2, InputFacts, Zenon
<1>5. f \in Slots(in.rs) /\ Pos(in.rs, f) = 0
  BY <1>4, FirstSlotPos, Zenon
<1>6. f[1] = 1 /\ f[2] = in.rs[1].start
  OBVIOUS
<1>7. in.rs[1].start \in Addrs
  <2>1. 1 \in 1 .. Len(in.rs)
    <3>1. Len(in.rs) \in Nat /\ Len(in.rs) >= 1
      BY <1>4, RangeFacts, Zenon
    <3> QED BY <3>1
  <2> QED BY <1>4, <2>1, RangeFacts, Zenon DEF Addrs
<1>8. iter' = [idx |-> f[1], cur |-> f[2], startIP |-> in.rs[1].start]
  BY <1>1, <1>2, <1>3, <1>6, Zenon
<1>9. RankOf(f) = 0
  <2>1. FirstPos(in.rs, in.last) = 0
    BY <1>3, <1>4, FirstPosIs, Zenon
  <2>2. Cardinality(Slots(in.rs)) \in Nat /\ Cardinality(Slots(in.rs)) >= 1
    BY <1>4, <1>5, RankFacts, Zenon
  <2>3. RankOf(f) = (0 - 0) % Cardinality(Slots(in.rs))
    BY <1>5, <2>1, Zenon DEF RankOf, Rank
  <2> QED BY <2>2, <2>3
<1>10. \A s \in Slots(in.rs) : RankOf(s) \in Nat
  BY <1>2, SlotsByRank, Zenon
<1>11. \A s \in Slots(in.rs) : (s[2] = in.rs[1].start => s = f) /\ (RankOf(s) = RankOf(f) => s = f)
  BY <1>2, <1>5, <1>6, SlotsByRank, Zenon
<1>12. \A s \in Stops : RankOf(f) <= RankOf(s)
  <2>1. Stops \subseteq Slots(in.rs)
    BY <1>2, StopsAre, Zenon
  <2> QED BY <2>1, <1>9, <1>10
<1>13. /\ \A s \in Slots(in.rs) : s[2] = in.rs[1].start => RankOf(s) = 0
       /\ \A s \in Slots(in.rs) : RankOf(s) = 0 => s[2] = in.rs[1].start
  BY <1>6, <1>9, <1>11, Zenon
<1>14. Yield(in.rs[f[1]], f[2])
  BY <1>1, <1>3, <1>6, Zenon
<1>15. \A k \in 1 .. Len(visited) :
           \E s \in Slots(in.rs) : s[2] = visited[k] /\ RankOf(s) < RankOf(f)
  BY <1>3
<1>16. \A s \in Slots(in.rs) :
           s[2] # in.rs[s[1]].gw /\ RankOf(s) < RankOf(f) =>
               \E k \in 1 .. Len(visited) : visited[k] = s[2]
  BY <1>9, <1>10
<1> HIDE DEF f
<1> QED BY <1>1, <1>2, <1>5, <1>7, <1>8, <1>12, <1>13, <1>14, <1>15, <1>16, Arrive, Zenon

\* What RangeIter.Next computes from a slot is the following slot.
LEMMA AdvanceIsFollowing ==
  ASSUME in \in Inputs, Here \in Slots(in.rs), NextAdvance
  PROVE  LET f == Following(in.rs, Here)
         IN /\ iter' = [idx |-> f[1], cur |-> f[2],
                        startIP |-> IF iter.startIP = NoIP THEN f[2] ELSE iter.startIP]
            /\ IF BackAtStart(f[2])
               THEN Done("noFree", NoIP) /\ visited' = visited
               ELSE Yield(in.rs[f[1]], f[2]) /\ result' = result
            /\ in' = in /\ last' = last
<1> DEFINE f == Following(in.rs, Here)
           wraps == iter.cur = in.rs[iter.idx].end \/ NextIP(iter.cur) = NoIP
           idx == IF wraps THEN (iter.idx % Len(in.rs)) + 1 ELSE iter.idx
           cur == IF wraps THEN in.rs[idx].start ELSE NextIP(iter.cur)
<1>1. in.rs \in RangeSets
  BY InputFacts, Zenon
<1>2. Here[1] = iter.idx /\ Here[2] = iter.cur
  BY DEF Here
<1>3. /\ iter.idx \in 1 .. Len(in.rs) /\ iter.cur \in 0 .. MaxIP
      /\ iter.cur <= in.rs[iter.idx].end
  BY <1>1, <1>2, SlotType, Zenon
<1>4. in.rs[iter.idx].end \in 0 .. MaxIP /\ Len(in.rs) \in Nat
  BY <1>1, <1>3, RangeFacts, Zenon
<1>5. wraps <=> iter.cur = in.rs[iter.idx].end
  BY <1>3, <1>4, MaxIPAssumption, SMTT(30) DEF NextIP, NoIP
<1>6. idx = f[1] /\ cur = f[2]
  <2>1. CASE iter.cur # in.rs[iter.idx].end
    <3>1. iter.cur # MaxIP
      BY <1>3, <1>4, <2>1, MaxIPAssumption
    <3>2. f = <<iter.idx, iter.cur + 1>>
      BY <1>2, <2>1, Zenon DEF Following
    <3>3. idx = iter.idx /\ cur = NextIP(iter.cur)
      BY <1>5, <2>1, Zenon
    <3> QED BY <3>1, <3>2, <3>3 DEF NextIP
  <2>2. CASE iter.cur = in.rs[iter.idx].end /\ iter.idx # Len(in.rs)
    <3>1. f = <<iter.idx + 1, in.rs[iter.idx + 1].start>>
      BY <1>2, <2>2, Zenon DEF Following
    <3>2. idx = (iter.idx % Len(in.rs)) + 1 /\ cur = in.rs[idx].start
      BY <1>5, <2>2, Zenon
    <3>3. iter.idx % Len(in.rs) = iter.idx
      <4>1. Len(in.rs) >= 1 /\ iter.idx \in 0 .. Len(in.rs) - 1
        BY <1>3, <1>4, <2>2, SMTT(30)
      <4> QED BY <1>4, <4>1, ModSelf, Zenon
    <3> QED BY <3>1, <3>2, <3>3
  <2>3. CASE iter.cur = in.rs[iter.idx].end /\ iter.idx = Len(in.rs)
    <3>1. f = <<1, in.rs[1].start>>
      BY <1>2, <2>3, Zenon DEF Following
    <3>2. idx = (iter.idx % Len(in.rs)) + 1 /\ cur = in.rs[idx].start
      BY <1>5, <2>3, Zenon
    <3>3. iter.idx % Len(in.rs) = 0
      <4>1. Len(in.rs) >= 1 /\ 0 \in 0 .. Len(in.rs) - 1
        BY <1>3, <1>4
      <4> QED BY <1>4, <2>3, <4>1, ModSelf, Zenon
    <3> QED BY <3>1, <3>2, <3>3
  <2> QED BY <2>1, <2>2, <2>3, Zenon
<1>7. /\ iter' = [idx |-> idx, cur |-> cur,
                  startIP |-> IF iter.startIP = NoIP THEN cur ELSE iter.startIP]
      /\ IF BackAtStart(cur)
         THEN Done("noFree", NoIP) /\ visited' = visited
         ELSE Yield(in.rs[idx], cur) /\ result' = result
      /\ in' = in /\ last' = last
  BY Zenon DEF NextAdvance
<1> HIDE DEF f, idx, cur
<1>8. /\ iter' = [idx |-> f[1], cur |-> f[2],
                  startIP |-> IF iter.startIP = NoIP THEN f[2] ELSE iter.startIP]
      /\ IF BackAtStart(f[2])
         THEN Done("noFree", NoIP) /\ visited' = visited
         ELSE Yield(in.rs[f[1]], f[2]) /\ result' = result
      /\ in' = in /\ last' = last
  BY <1>6, <1>7, Zenon
<1> USE DEF f
<1> QED BY <1>8, Zenon

\* One step of the iterator in the order of this call.
LEMMA RankOfFollowing ==
  ASSUME in \in Inputs, NEW h \in Slots(in.rs)
  PROVE  LET f == Following(in.rs, h)
             N == Cardinality(Slots(in.rs))
         IN /\ N \in Nat /\ N >= 1 /\ f \in Slots(in.rs)
            /\ RankOf(f) = IF RankOf(h) = N - 1 THEN 0 ELSE RankOf(h) + 1
            /\ RankOf(h) \in 0 .. N - 1
            /\ h[2] = in.last => RankOf(h) = N - 1
<1>1. in.rs \in RangeSets
  BY InputFacts, Zenon
<1>2. \A s : RankOf(s) = Rank(in.rs, in.last, s)
  BY Zenon DEF RankOf
<1>3. /\ Cardinality(Slots(in.rs)) \in Nat /\ Cardinality(Slots(in.rs)) >= 1
      /\ Rank(in.rs, in.last, h) \in 0 .. Cardinality(Slots(in.rs)) - 1
      /\ Following(in.rs, h) \in Slots(in.rs)
      /\ Rank(in.rs, in.last, Following(in.rs, h)) =
             IF Rank(in.rs, in.last, h) = Cardinality(Slots(in.rs)) - 1 THEN 0
             ELSE Rank(in.rs, in.last, h) + 1
      /\ h[2] = in.last => Rank(in.rs, in.last, h) = Cardinality(Slots(in.rs)) - 1
  BY <1>1, RankFacts
<1> QED BY <1>2, <1>3, Zenon

\* RangeIter.Next with a cursor: either the iterator is back at the slot of
\* rank 0, and then no slot could have ended the loop, or it arrives on the
\* slot of the next rank.
LEMMA NextAdvanceStep == IInv /\ NextAdvance => IInv'
<1> SUFFICES ASSUME IInv, NextAdvance PROVE IInv'
  OBVIOUS
<1> DEFINE f == Following(in.rs, Here)
           N == Cardinality(Slots(in.rs))
           st == IF iter.startIP = NoIP THEN f[2] ELSE iter.startIP
<1>1. pc = "next" /\ iter.cur # NoIP
  BY Zenon DEF NextAdvance
<1>2. /\ in.static = NoIP /\ (AtTheCursor \/ OnTheWay) /\ in \in Inputs
      /\ iter \in [idx : Nat, cur : Addrs \cup {NoIP}, startIP : Addrs \cup {NoIP}]
      /\ last = in.last /\ result = NoResult
  BY <1>1, Zenon DEF IInv, Types, AtTheBeginning
<1>3. in.rs \in RangeSets
  BY <1>2, InputFacts, Zenon
<1>4. Here \in Slots(in.rs)
  BY <1>2, Zenon DEF AtTheCursor, OnTheWay
<1>5. /\ iter' = [idx |-> f[1], cur |-> f[2], startIP |-> st]
      /\ IF BackAtStart(f[2])
         THEN Done("noFree", NoIP) /\ visited' = visited
         ELSE Yield(in.rs[f[1]], f[2]) /\ result' = result
      /\ in' = in /\ last' = last
  BY <1>2, <1>4, AdvanceIsFollowing, Zenon
<1>6. /\ N \in Nat /\ N >= 1 /\ f \in Slots(in.rs)
      /\ RankOf(f) = IF RankOf(Here) = N - 1 THEN 0 ELSE RankOf(Here) + 1
      /\ RankOf(Here) \in 0 .. N - 1
      /\ Here[2] = in.last => RankOf(Here) = N - 1
  BY <1>2, <1>4, RankOfFollowing, Zenon
<1>7. \A s \in Slots(in.rs) : RankOf(s) \in 0 .. N - 1
  BY <1>2, RankOfFollowing, Zenon
<1>8. Stops \subseteq Slots(in.rs)
  BY <1>2, StopsAre, Zenon
<1>9. f[2] \in Addrs /\ f[1] \in 1 .. Len(in.rs) /\ f[2] # NoIP /\ f[1] \in Nat
  <2>1. f[2] \in 0 .. MaxIP /\ f[1] \in 1 .. Len(in.rs) /\ Len(in.rs) \in Nat
    BY <1>3, <1>6, SlotType, RangeFacts, Zenon
  <2> QED BY <2>1, MaxIPAssumption DEF Addrs, NoIP
<1> HIDE DEF f, N
<1>10. \A s \in Slots(in.rs) : (s[2] = f[2] => s = f) /\ (RankOf(s) = RankOf(f) => s = f)
  BY <1>2, <1>6, SlotsByRank, Zenon
<1>11. CASE AtTheCursor
  <2>1. /\ iter.startIP = NoIP /\ visited = <<>> /\ iter.cur = in.last
    BY <1>11, Zenon DEF AtTheCursor
  <2>2. Here[2] = in.last
    BY <2>1, Zenon DEF Here
  <2>3. RankOf(f) = 0
    BY <2>2, <1>6, Zenon
  <2>4. ~BackAtStart(f[2]) /\ st = f[2]
    BY <2>1, Zenon DEF BackAtStart
  <2>5. Yield(in.rs[f[1]], f[2]) /\ result' = result
    BY <1>5, <2>4, Zenon
  <2>6. \A s \in Stops : RankOf(f) <= RankOf(s)
    BY <1>6, <1>7, <1>8, <2>3
  <2>7. /\ \A s \in Slots(in.rs) : s[2] = st => RankOf(s) = 0
        /\ \A s \in Slots(in.rs) : RankOf(s) = 0 => s[2] = st
    BY <1>10, <2>3, <2>4, Zenon
  <2>8. \A k \in 1 .. Len(visited) :
            \E s \in Slots(in.rs) : s[2] = visited[k] /\ RankOf(s) < RankOf(f)
    BY <2>1
  <2>9. st \in Addrs
    BY <1>9, <2>4, Zenon
  <2>10. \A s \in Slots(in.rs) :
             s[2] # in.rs[s[1]].gw /\ RankOf(s) < RankOf(f) =>
                 \E k \in 1 .. Len(visited) : visited[k] = s[2]
    BY <1>6, <1>7, <2>3
  <2> HIDE DEF st
  <2> QED BY <1>1, <1>2, <1>5, <1>6, <2>5, <2>6, <2>7, <2>8, <2>9, <2>10, Arrive, Zenon
<1>12. CASE OnTheWay
  <2>1. /\ iter.startIP # NoIP
        /\ \A s \in Slots(in.rs) : s[2] = iter.startIP => RankOf(s) = 0
        /\ \A s \in Slots(in.rs) : RankOf(s) = 0 => s[2] = iter.startIP
        /\ \A s \in Stops : RankOf(Here) < RankOf(s)
        /\ \A k \in 1 .. Len(visited) :
               \E s \in Slots(in.rs) : s[2] = visited[k] /\ RankOf(s) <= RankOf(Here)
        /\ \A s \in Slots(in.rs) :
               s[2] # in.rs[s[1]].gw /\ RankOf(s) <= RankOf(Here) =>
                   \E k \in 1 .. Len(visited) : visited[k] = s[2]
    BY <1>1, <1>12, Zenon DEF OnTheWay
  <2>2. st = iter.startIP /\ iter.startIP \in Addrs
    BY <1>2, <2>1, Zenon
  <2>3. CASE f[2] = iter.startIP
    <3>1. RankOf(f) = 0
      BY <1>6, <2>1, <2>3, Zenon
    <3>2. RankOf(Here) = N - 1
      BY <3>1, <1>6
    <3>3. Stops = {}
      <4> SUFFICES ASSUME NEW s \in Stops PROVE FALSE
        OBVIOUS
      <4>1. RankOf(Here) < RankOf(s) /\ RankOf(s) \in 0 .. N - 1
        BY <1>7, <1>8, <2>1, Zenon
      <4> QED BY <4>1, <3>2, <1>6
    <3>4. /\ pc' = "done" /\ result' = [err |-> "noFree", ip |-> NoIP] /\ visited' = visited
          /\ in' = in /\ last' = last
      BY <1>5, <2>1, <2>3, Zenon DEF BackAtStart, Done
    <3>5. iter' \in [idx : Nat, cur : Addrs \cup {NoIP}, startIP : Addrs \cup {NoIP}]
          /\ iter'.idx = f[1]
      BY <1>5, <1>9, <2>2, Zenon
    <3>6. Types'
      BY <1>2, <1>9, <3>4, <3>5, Zenon DEF IInv, Types
    <3>7. NeverRevisits'
      BY <3>4, ZenonT(60) DEF IInv, NeverRevisits
    <3>8. DynamicIsFirstFree'
      <4>1. in.keyTaken \in BOOLEAN
        BY <1>2, InputFacts, Zenon
      <4>2. CASE in.keyTaken
        <5>1. Allocatable(in.rs, in.excl) = {}
          BY <3>3, <4>2, Zenon DEF Stops
        <5>2. result'.err = "noFree"
          BY <3>4, Zenon
        <5> QED BY <3>4, <4>2, <5>1, <5>2, Zenon DEF DynamicIsFirstFree
      <4>3. CASE ~in.keyTaken
        <5>1. Free(in.rs, in.excl, in.reserved) = {}
          BY <3>3, <4>3, Zenon DEF Stops
        <5> QED BY <3>4, <4>3, <5>1, Zenon DEF DynamicIsFirstFree
      <4> QED BY <4>1, <4>2, <4>3, Zenon
    <3>9. CursorMoves'
      BY <1>2, <3>4, Zenon DEF CursorMoves
    <3> QED BY <3>4, <3>6, <3>7, <3>8, <3>9 DEF IInv
  <2>4. CASE f[2] # iter.startIP
    <3>1. RankOf(f) # 0
      BY <1>6, <2>1, <2>4, Zenon
    <3>2. RankOf(f) = RankOf(Here) + 1 /\ RankOf(Here) \in Int
      BY <3>1, <1>6
    <3>3. Yield(in.rs[f[1]], f[2]) /\ result' = result
      BY <1>5, <2>4, Zenon DEF BackAtStart
    <3>4. \A s \in Stops : RankOf(f) <= RankOf(s)
      <4> SUFFICES ASSUME NEW s \in Stops PROVE RankOf(f) <= RankOf(s)
        OBVIOUS
      <4>1. RankOf(Here) < RankOf(s) /\ RankOf(s) \in 0 .. N - 1
        BY <1>7, <1>8, <2>1, Zenon
      <4> QED BY <4>1, <3>2, <1>6
    <3>5. \A k \in 1 .. Len(visited) :
              \E s \in Slots(in.rs) : s[2] = visited[k] /\ RankOf(s) < RankOf(f)
      <4> SUFFICES ASSUME NEW k \in 1 .. Len(visited)
                   PROVE  \E s \in Slots(in.rs) : s[2] = visited[k] /\ RankOf(s) < RankOf(f)
        OBVIOUS
      <4>1. PICK s \in Slots(in.rs) : s[2] = visited[k] /\ RankOf(s) <= RankOf(Here)
        BY <2>1, Zenon
      <4>2. RankOf(s) \in 0 .. N - 1
        BY <1>7, Zenon
      <4>3. RankOf(s) < RankOf(f)
        BY <4>1, <4>2, <3>2, <1>6
      <4> QED BY <4>1, <4>3, Zenon
    <3>6. iter' = [idx |-> f[1], cur |-> f[2], startIP |-> iter.startIP]
      BY <1>5, <2>2, Zenon
    <3>7. \A s \in Slots(in.rs) :
              s[2] # in.rs[s[1]].gw /\ RankOf(s) < RankOf(f) =>
                  \E k \in 1 .. Len(visited) : visited[k] = s[2]
      <4> SUFFICES ASSUME NEW s \in Slots(in.rs), s[2] # in.rs[s[1]].gw, RankOf(s) < RankOf(f)
                   PROVE  \E k \in 1 .. Len(visited) : visited[k] = s[2]
        OBVIOUS
      <4>1. RankOf(s) \in 0 .. N - 1
        BY <1>7, Zenon
      <4>2. RankOf(s) <= RankOf(Here)
        BY ONLY <4>1, <3>2, <1>6, RankOf(s) < RankOf(f)
      <4> QED BY <4>2, <2>1, Zenon
    <3> HIDE DEF st
    <3> QED BY <1>1, <1>2, <1>5, <1>6, <2>1, <2>2, <3>3, <3>4, <3>5, <3>6, <3>7, Arrive, Zenon
  <2> QED BY <2>3, <2>4, Zenon
<1> QED BY <1>2, <1>11, <1>12, ZenonT(60)

\* The body of the loop: a slot that does not end the loop is left behind, and
\* one that does is the first of its kind in the order of Rank.
LEMMA TryReserveStep == IInv /\ TryReserve => IInv'
<1> SUFFICES ASSUME IInv, TryReserve PROVE IInv'
  OBVIOUS
<1>1. pc = "try" /\ in' = in /\ iter' = iter /\ visited' = visited
  BY Zenon DEF TryReserve
<1>2. in.static = NoIP /\ OnTheWay /\ in \in Inputs /\ last = in.last /\ result = NoResult
  BY <1>1 DEF IInv, Types, AtTheBeginning, AtTheCursor
<1>3. /\ iter.cur # NoIP /\ iter.startIP # NoIP
      /\ Here \in Slots(in.rs)
      /\ iter.cur # in.rs[iter.idx].gw
      /\ \A s \in Stops : RankOf(Here) < RankOf(s) \/ s = Here
  BY <1>1, <1>2, Zenon DEF OnTheWay
<1>4. Here[1] = iter.idx /\ Here[2] = iter.cur
  BY DEF Here
<1>5. Here \in Stops <=>
          ~SetContains(in.excl, iter.cur) /\ (in.keyTaken \/ iter.cur \notin in.reserved)
  BY <1>2, <1>3, <1>4, StopsAre, Zenon
<1>6. in.keyTaken \in BOOLEAN
  BY <1>2, InputFacts, Zenon
<1>7. NeverRevisits'
  BY <1>1, ZenonT(60) DEF IInv, NeverRevisits
<1>8. ASSUME Here \notin Stops, pc' = "next", last' = last, result' = result
      PROVE  IInv'
  <2>1. \A s \in Stops : RankOf(Here) < RankOf(s)
    BY <1>3, <1>8, Zenon
  <2>2. /\ Stops' = Stops /\ Here' = Here /\ \A s : RankOf(s)' = RankOf(s)
        /\ RankOf(Here)' = RankOf(Here)
    BY <1>1, Zenon DEF Stops, Here, RankOf
  <2>3. OnTheWay'
    BY <1>1, <1>2, <1>8, <2>1, <2>2, Zenon DEF OnTheWay
  <2>4. Types'
    BY <1>1, <1>8, Zenon DEF IInv, Types
  <2>5. DynamicIsFirstFree' /\ CursorMoves'
    BY <1>8, Zenon DEF DynamicIsFirstFree, CursorMoves
  <2> QED BY <1>1, <1>2, <1>7, <1>8, <2>3, <2>4, <2>5 DEF IInv
<1>9. CASE SetContains(in.excl, iter.cur) \/ (~in.keyTaken /\ iter.cur \in in.reserved)
  <2>1. Here \notin Stops
    BY <1>5, <1>9, Zenon
  <2>2. pc' = "next" /\ last' = last /\ result' = result
    BY <1>9, Zenon DEF TryReserve
  <2> QED BY <1>8, <2>1, <2>2, Zenon
<1>10. CASE ~SetContains(in.excl, iter.cur) /\ in.keyTaken
  <2>1. pc' = "done" /\ result' = [err |-> "exists", ip |-> NoIP] /\ last' = last
    BY <1>10, Zenon DEF TryReserve, Done
  <2>2. Allocatable(in.rs, in.excl) # {}
    BY <1>5, <1>10, Zenon DEF Stops
  <2>3. result'.err = "exists"
    BY <2>1, Zenon
  <2>4. Types'
    BY <1>1, <2>1, <2>3, Zenon DEF IInv, Types
  <2>5. DynamicIsFirstFree'
    BY <1>1, <1>10, <2>2, <2>3, Zenon DEF DynamicIsFirstFree
  <2>6. CursorMoves'
    BY <1>1, <1>2, <2>1, <2>3, Zenon DEF CursorMoves
  <2> QED BY <1>7, <2>1, <2>4, <2>5, <2>6 DEF IInv
<1>11. CASE ~SetContains(in.excl, iter.cur) /\ ~in.keyTaken /\ iter.cur \notin in.reserved
  <2>1. pc' = "done" /\ result' = [err |-> "ok", ip |-> iter.cur] /\ last' = iter.cur
    BY <1>11, Zenon DEF TryReserve, Done
  <2>2. Here \in Free(in.rs, in.excl, in.reserved) /\ Stops = Free(in.rs, in.excl, in.reserved)
    BY <1>5, <1>11, Zenon DEF Stops
  <2>3. result'.err = "ok" /\ result'.ip = iter.cur
    BY <2>1, Zenon
  <2>4. Types'
    <3>1. iter.cur \in Addrs \cup {NoIP}
      BY DEF IInv, Types
    <3> QED BY <1>1, <2>1, <2>3, <3>1 DEF IInv, Types
  <2>5. \A s \in Stops : RankOf(Here) <= RankOf(s)
    <3> SUFFICES ASSUME NEW s \in Stops PROVE RankOf(Here) <= RankOf(s)
      OBVIOUS
    <3>1. RankOf(s) \in Nat /\ RankOf(Here) \in Nat
      BY <1>2, <1>3, StopsAre, SlotsByRank, Zenon
    <3>2. RankOf(Here) < RankOf(s) \/ s = Here
      BY <1>3, Zenon
    <3> QED BY <3>1, <3>2
  <2>6. FirstFree(in.rs, in.excl, in.last, in.reserved, Here)
    BY <2>2, <2>5, Zenon DEF FirstFree, RankOf
  <2>7. DynamicIsFirstFree'
    <3>1. in'.keyTaken = in.keyTaken
      BY <1>1
    <3>2. \E s \in Free(in.rs, in.excl, in.reserved) :
              /\ s[2] = result'.ip
              /\ FirstFree(in.rs, in.excl, in.last, in.reserved, s)
      BY <1>4, <2>2, <2>3, <2>6, Zenon
    <3> QED BY <1>1, <1>11, <2>2, <2>3, <3>2, Zenon DEF DynamicIsFirstFree
  <2>8. CursorMoves'
    <3>1. iter.cur \in Addrs
      BY <1>3 DEF IInv, Types
    <3> QED BY <1>1, <1>2, <2>1, <2>3, <3>1, Zenon DEF CursorMoves
  <2> QED BY <1>7, <2>1, <2>4, <2>7, <2>8 DEF IInv
<1> QED BY <1>6, <1>9, <1>10, <1>11, Zenon

-----------------------------------------------------------------------------
\* IInv is an invariant of Allocate, whatever the range set, the exclusions,
\* the reservations and the cursor.
THEOREM AllocateInvariant == Spec => []IInv
<1>1. Init => IInv
  BY InitIInv, Zenon
<1>2. IInv /\ [Next]_vars => IInv'
  <2> SUFFICES ASSUME IInv, [Next]_vars PROVE IInv'
    OBVIOUS
  <2>1. CASE UNCHANGED vars
    <3>1. /\ in' = in /\ iter' = iter /\ pc' = pc /\ last' = last /\ result' = result
          /\ visited' = visited /\ saved' = saved
      BY <2>1, Zenon DEF vars
    <3>2. Stops' = Stops /\ Here' = Here /\ RankOf(Here)' = RankOf(Here)
          /\ \A s : RankOf(s)' = RankOf(s)
      BY <3>1 DEF Stops, Here, RankOf
    <3>3. OnTheWay => OnTheWay'
      BY <3>1, <3>2, Zenon DEF OnTheWay
    <3>4. (AtTheBeginning => AtTheBeginning') /\ (AtTheCursor => AtTheCursor')
      BY <3>1, <3>2, Zenon DEF AtTheBeginning, AtTheCursor
    <3>5. Types' /\ NeverRevisits'
      BY <3>1, SMTT(30) DEF IInv, Types, NeverRevisits
    <3>6. DynamicIsFirstFree' /\ CursorMoves'
      BY <3>1 DEF IInv, DynamicIsFirstFree, CursorMoves
    <3> QED BY <3>1, <3>3, <3>4, <3>5, <3>6 DEF IInv
  <2> QED BY <2>1, StaticStep, RestoreStep, GetIterStep, NextFirstStep, NextAdvanceStep,
             TryReserveStep, NextCallStep DEF Next, Step
<1> QED BY <1>1, <1>2, PTL DEF Spec

\* The loop of Allocate and RangeIter.Next compute the closed form: the first
\* free address after LastReservedIP in cyclic order, and "no free address"
\* exactly when there is none.
THEOREM FirstFreeTheorem == Spec => []DynamicIsFirstFree
<1>1. IInv => DynamicIsFirstFree
  BY Zenon DEF IInv
<1> QED BY <1>1, AllocateInvariant, PTL

\* One call of Allocate tries no address twice.
THEOREM NeverRevisitsTheorem == Spec => []NeverRevisits
<1>1. IInv => NeverRevisits
  BY Zenon DEF IInv
<1> QED BY <1>1, AllocateInvariant, PTL

-----------------------------------------------------------------------------
(***************************************************************************)
(* The round robin across calls.  Cursor is where the next dynamic call    *)
(* continues; since the watched address was handed out, the calls have     *)
(* tried every slot after it up to the cursor.                             *)
(***************************************************************************)
Cursor == IF pc = "restore" THEN saved ELSE last

Tried(c) ==
    \A s \in Slots(in.rs) :
        s[2] # in.rs[s[1]].gw /\ Rank(in.rs, watch, s) <= Rank(in.rs, watch, c) =>
            s[2] \in round

RInv ==
    /\ saved \in Addrs \cup {NoIP} /\ watch \in Addrs \cup {NoIP} /\ round \subseteq Addrs
    /\ watch # NoIP =>
           /\ \E w \in Slots(in.rs) : w[2] = watch
           /\ \E c \in Slots(in.rs) : c[2] = Cursor /\ (c[2] # watch => Tried(c))

\* Going round from w to h, a slot is met before c or on the way from c to h.
LEMMA Between ==
  ASSUME NEW rs \in RangeSets, NEW w \in Slots(rs), NEW c \in Slots(rs),
         NEW h \in Slots(rs), NEW s \in Slots(rs),
         c # w, Rank(rs, w[2], s) <= Rank(rs, w[2], h)
  PROVE  \/ Rank(rs, w[2], s) <= Rank(rs, w[2], c)
         \/ Rank(rs, c[2], s) <= Rank(rs, c[2], h)
<1> DEFINE N == Cardinality(Slots(rs))
<1>1. N \in Nat /\ N >= 1
  BY RankFacts, Zenon
<1>2. \A t \in Slots(rs) : Pos(rs, t) \in 0 .. N - 1
  BY PosType, Zenon
<1>3. Pos(rs, c) # Pos(rs, w)
  BY PosInjective, Zenon
<1>4. FirstPos(rs, w[2]) = (Pos(rs, w) + 1) % N /\ FirstPos(rs, c[2]) = (Pos(rs, c) + 1) % N
  BY FirstPosIs, Zenon
<1>5. FirstPos(rs, w[2]) \in 0 .. N - 1 /\ FirstPos(rs, c[2]) \in 0 .. N - 1
  BY FirstPosIs, Zenon
<1> HIDE DEF N
<1>6. /\ FirstPos(rs, w[2]) = IF Pos(rs, w) = N - 1 THEN 0 ELSE Pos(rs, w) + 1
      /\ FirstPos(rs, c[2]) = IF Pos(rs, c) = N - 1 THEN 0 ELSE Pos(rs, c) + 1
  BY <1>1, <1>2, <1>4, <1>5, ModWrap, Zenon
<1>7. ASSUME NEW t \in Slots(rs), NEW q \in 0 .. N - 1
      PROVE  (Pos(rs, t) - q) % N = IF Pos(rs, t) >= q THEN Pos(rs, t) - q ELSE Pos(rs, t) - q + N
  BY <1>1, <1>2, ModWrap, Zenon
<1>8. ASSUME NEW t \in Slots(rs), NEW a, FirstPos(rs, a) \in 0 .. N - 1
      PROVE  Rank(rs, a, t) = IF Pos(rs, t) >= FirstPos(rs, a) THEN Pos(rs, t) - FirstPos(rs, a)
                              ELSE Pos(rs, t) - FirstPos(rs, a) + N
  <2>1. Rank(rs, a, t) = (Pos(rs, t) - FirstPos(rs, a)) % N
    BY Zenon DEF Rank, N
  <2> QED BY <1>7, <1>8, <2>1, Zenon
<1> DEFINE fw == FirstPos(rs, w[2])
           fc == FirstPos(rs, c[2])
           ps == Pos(rs, s)
           ph == Pos(rs, h)
           pw == Pos(rs, w)
           p == Pos(rs, c)
<1>9. /\ Rank(rs, w[2], s) = IF ps >= fw THEN ps - fw ELSE ps - fw + N
      /\ Rank(rs, w[2], h) = IF ph >= fw THEN ph - fw ELSE ph - fw + N
      /\ Rank(rs, w[2], c) = IF p >= fw THEN p - fw ELSE p - fw + N
      /\ Rank(rs, c[2], s) = IF ps >= fc THEN ps - fc ELSE ps - fc + N
      /\ Rank(rs, c[2], h) = IF ph >= fc THEN ph - fc ELSE ph - fc + N
  BY <1>5, <1>8, Zenon
<1>10. /\ ps \in 0 .. N - 1 /\ ph \in 0 .. N - 1 /\ pw \in 0 .. N - 1 /\ p \in 0 .. N - 1
       /\ p # pw
       /\ fw = IF pw = N - 1 THEN 0 ELSE pw + 1
       /\ fc = IF p = N - 1 THEN 0 ELSE p + 1
  BY <1>2, <1>3, <1>6, Zenon
<1> HIDE DEF fw, fc, ps, ph, pw, p
<1> QED BY ONLY <1>1, <1>9, <1>10, Rank(rs, w[2], s) <= Rank(rs, w[2], h), SMTT(60)

\* When a dynamic call is about to reserve, every slot after the watched one up
\* to the slot it stands on has been tried, by an earlier call or by this one.
LEMMA TriedSoFar ==
  ASSUME IInv, RInv, pc = "try", watch # NoIP,
         NEW s \in Slots(in.rs), s[2] # in.rs[s[1]].gw,
         Rank(in.rs, watch, s) <= Rank(in.rs, watch, Here)
  PROVE  s[2] \in round \/ \E k \in DOMAIN visited : s[2] = visited[k]
<1>1. /\ OnTheWay /\ in \in Inputs /\ last = in.last /\ visited \in Seq(Addrs)
  BY DEF IInv, Types, AtTheBeginning, AtTheCursor
<1>2. /\ Here \in Slots(in.rs)
      /\ RankOf(s) <= RankOf(Here) => \E k \in 1 .. Len(visited) : visited[k] = s[2]
  BY <1>1, Zenon DEF OnTheWay
<1>3. DOMAIN visited = 1 .. Len(visited)
  BY <1>1
<1>4. PICK w \in Slots(in.rs) : w[2] = watch
  BY Zenon DEF RInv
<1>5. PICK c \in Slots(in.rs) : c[2] = in.last /\ (c[2] # watch => Tried(c))
  BY <1>1, Zenon DEF RInv, Cursor
<1>6. \A t : RankOf(t) = Rank(in.rs, c[2], t)
  BY <1>5, Zenon DEF RankOf
<1>7. CASE c[2] = watch
  BY <1>2, <1>3, <1>6, <1>7, Zenon
<1>8. CASE c[2] # watch
  <2>1. in.rs \in RangeSets
    BY <1>1, InputFacts, Zenon
  <2>2. c # w
    BY <1>4, <1>8, Zenon
  <2>3. Rank(in.rs, w[2], s) <= Rank(in.rs, w[2], Here)
    BY <1>4, Zenon
  <2>4. \/ Rank(in.rs, w[2], s) <= Rank(in.rs, w[2], c)
        \/ Rank(in.rs, c[2], s) <= Rank(in.rs, c[2], Here)
    BY ONLY <1>2, <2>1, <2>2, <2>3, w \in Slots(in.rs), c \in Slots(in.rs),
            s \in Slots(in.rs), Between, Zenon
  <2>5. CASE Rank(in.rs, w[2], s) <= Rank(in.rs, w[2], c)
    BY <1>4, <1>5, <1>8, <2>5, Zenon DEF Tried
  <2>6. CASE Rank(in.rs, c[2], s) <= Rank(in.rs, c[2], Here)
    BY <1>2, <1>3, <1>6, <2>6, Zenon
  <2> QED BY <2>4, <2>5, <2>6, Zenon
<1> QED BY <1>7, <1>8, Zenon

\* A step that keeps the cursor, the ranges and the history keeps RInv.
LEMMA RoundFrame ==
  ASSUME RInv, in'.rs = in.rs, watch' = watch, round' = round, Cursor' = Cursor,
         saved' \in Addrs \cup {NoIP}
  PROVE  RInv'
<1>1. \A c : Tried(c)' <=> Tried(c)
  BY Zenon DEF Tried
<1> QED BY <1>1, Zenon DEF RInv

\* The round robin is kept by every step: the cursor moves only when a dynamic
\* call succeeds, over the slots that this call has tried.
LEMMA RoundStep == IInv /\ RInv /\ [Next]_vars => RInv'
<1> SUFFICES ASSUME IInv, RInv, [Next]_vars PROVE RInv'
  OBVIOUS
<1>0. /\ saved \in Addrs \cup {NoIP} /\ last \in Addrs \cup {NoIP}
      /\ NoIP \in Addrs \cup {NoIP}
  BY Zenon DEF IInv, RInv, Types
<1>1. ASSUME in'.rs = in.rs, watch' = watch, round' = round, saved' = saved, last' = last,
             pc # "restore", pc' # "restore"
      PROVE  RInv'
  <2>1. Cursor' = Cursor
    BY <1>1, Zenon DEF Cursor
  <2> QED BY <1>0, <1>1, <2>1, RoundFrame, Zenon
<1>2. CASE UNCHANGED vars
  <2>1. in' = in /\ watch' = watch /\ round' = round /\ saved' = saved /\ last' = last /\ pc' = pc
    BY <1>2, Zenon DEF vars
  <2>2. Cursor' = Cursor
    BY <2>1, Zenon DEF Cursor
  <2> QED BY <1>0, <2>1, <2>2, RoundFrame, Zenon
<1>3. CASE allocateStaticIP
  <2>1. /\ pc = "start" /\ in' = in /\ watch' = watch /\ round' = round
        /\ \/ pc' = "restore" /\ saved' = last /\ last' = in.static
           \/ pc' = "done" /\ saved' = saved /\ last' = last
    BY <1>3, Zenon DEF allocateStaticIP, Done
  <2>2. Cursor' = Cursor /\ saved' \in Addrs \cup {NoIP}
    BY <1>0, <2>1, Zenon DEF Cursor
  <2> QED BY <2>1, <2>2, RoundFrame, Zenon
<1>4. CASE SetLastReservedIP
  <2>1. /\ pc = "restore" /\ pc' = "done" /\ in' = in /\ watch' = watch /\ round' = round
        /\ last' = saved /\ saved' = NoIP
    BY <1>4, Zenon DEF SetLastReservedIP, Done
  <2>2. Cursor' = Cursor
    BY <2>1, Zenon DEF Cursor
  <2> QED BY <1>0, <2>1, <2>2, RoundFrame, Zenon
<1>5. CASE getIter
  BY <1>1, <1>5, Zenon DEF getIter
<1>6. CASE NextFirst
  <2>1. pc = "next" /\ pc' \in {"next", "try"}
    BY <1>6, Zenon DEF NextFirst, Yield
  <2> QED BY <1>1, <1>6, <2>1, Zenon DEF NextFirst
<1>7. CASE NextAdvance
  <2>1. pc = "next" /\ pc' \in {"next", "try", "done"}
    BY <1>7, Zenon DEF NextAdvance, Yield, Done
  <2> QED BY <1>1, <1>7, <2>1, Zenon DEF NextAdvance
<1>8. CASE NextCall
  <2>1. in'.rs = in.rs
    <3>1. in \in Inputs
      BY Zenon DEF IInv, Types
    <3> QED BY <1>8, <3>1 DEF NextCall, Inputs
  <2> QED BY <1>1, <1>8, <2>1, Zenon DEF NextCall
<1>9. CASE TryReserve
  <2>1. pc = "try" /\ in' = in /\ saved' = saved /\ iter' = iter
        /\ \/ /\ pc' \in {"next", "done"} /\ last' = last /\ watch' = watch /\ round' = round
           \/ /\ pc' = "done" /\ last' = iter.cur /\ Remember(iter.cur)
    BY <1>9, Zenon DEF TryReserve, Done
  <2>2. CASE pc' \in {"next", "done"} /\ last' = last /\ watch' = watch /\ round' = round
    BY <1>1, <2>1, <2>2, Zenon
  <2>3. CASE pc' = "done" /\ last' = iter.cur /\ Remember(iter.cur)
    <3>1. /\ OnTheWay /\ in \in Inputs /\ visited \in Seq(Addrs)
      BY <2>1 DEF IInv, Types, AtTheBeginning, AtTheCursor
    <3>2. Here \in Slots(in.rs) /\ iter.cur \in Addrs /\ Here[2] = iter.cur /\ iter.cur # NoIP
      BY <3>1 DEF OnTheWay, IInv, Types, Here
    <3>3. Cursor' = Here[2]
      BY <2>3, <3>2, Zenon DEF Cursor
    <3>4. {visited[k] : k \in DOMAIN visited} \subseteq Addrs
      BY <3>1
    <3>5. /\ watch' \in {watch, iter.cur}
          /\ round' = IF watch' \in {iter.cur, NoIP} THEN {}
                      ELSE round \cup {visited[k] : k \in DOMAIN visited}
      BY <2>3, Zenon DEF Remember
    <3>6. watch' \in Addrs \cup {NoIP} /\ round' \subseteq Addrs
      BY <3>2, <3>4, <3>5 DEF RInv
    <3>7. CASE watch' = iter.cur
      BY <1>0, <2>1, <3>2, <3>3, <3>6, <3>7, Zenon DEF RInv
    <3>8. CASE watch' = NoIP
      BY <1>0, <2>1, <3>6, <3>8, Zenon DEF RInv
    <3>9. CASE watch' = watch /\ watch # iter.cur /\ watch # NoIP
      <4>1. round' = round \cup {visited[k] : k \in DOMAIN visited}
        BY <3>5, <3>9, Zenon
      <4>2. ASSUME NEW s \in Slots(in.rs), s[2] # in.rs[s[1]].gw,
                   Rank(in.rs, watch, s) <= Rank(in.rs, watch, Here)
            PROVE  s[2] \in round'
        BY <2>1, <3>9, <4>1, <4>2, TriedSoFar, Zenon
      <4>3. \A s : Rank(in.rs, watch, s)' = Rank(in.rs, watch, s)
        BY <2>1, <3>9, Zenon
      <4>4. ASSUME NEW s \in Slots(in'.rs), s[2] # in'.rs[s[1]].gw,
                   Rank(in'.rs, watch', s) <= Rank(in'.rs, watch', Here)
            PROVE  s[2] \in round'
        BY <2>1, <3>9, <4>2, <4>4, Zenon
      <4>5. PICK w \in Slots(in.rs) : w[2] = watch
        BY <3>9, Zenon DEF RInv
      <4>6. \E c \in Slots(in'.rs) : c[2] = Cursor' /\ Tried(c)'
        BY <2>1, <3>2, <3>3, <4>4, Zenon DEF Tried
      <4>7. \E c \in Slots(in'.rs) : c[2] = Cursor' /\ (c[2] # watch' => Tried(c)')
        BY <4>6, Zenon
      <4> QED BY <1>0, <2>1, <3>6, <3>9, <4>5, <4>7, Zenon DEF RInv
    <3> QED BY <3>5, <3>7, <3>8, <3>9, Zenon
  <2> QED BY <2>1, <2>2, <2>3, Zenon
<1> QED BY <1>2, <1>3, <1>4, <1>5, <1>6, <1>7, <1>8, <1>9, Zenon DEF Next, Step

\* RInv is an invariant of the calls on a pool.
THEOREM RoundInvariant == Spec => []RInv
<1>1. Init => RInv
  <2>1. Init => /\ saved = NoIP /\ watch = NoIP /\ round = {}
    BY Zenon DEF Init
  <2> QED BY <2>1 DEF RInv
<1> QED BY <1>1, AllocateInvariant, RoundStep, PTL DEF Spec

\* Whatever the ranges, the exclusions, the reservations and the sequence of
\* static, dynamic and failing calls, dynamic allocation hands an address out
\* again only after every other address it may use has been tried.
THEOREM RoundRobinTheorem == Spec => RunsThroughTheRange
<1>1. IInv /\ RInv /\ [Next]_vars =>
          [(TryReserve /\ pc' = "done" /\ result'.err = "ok" /\ result'.ip = watch) =>
              \A s \in Allocatable(in.rs, in.excl) :
                  s[2] \in round \/ \E k \in DOMAIN visited : s[2] = visited[k]]_vars
  <2> SUFFICES ASSUME IInv, RInv, TryReserve, pc' = "done", result'.err = "ok", result'.ip = watch,
                      NEW s \in Allocatable(in.rs, in.excl)
               PROVE  s[2] \in round \/ \E k \in DOMAIN visited : s[2] = visited[k]
    BY Zenon
  <2>1. pc = "try" /\ watch = iter.cur
    BY DEF TryReserve, Done
  <2>2. OnTheWay /\ in \in Inputs
    BY <2>1 DEF IInv, Types, AtTheBeginning, AtTheCursor
  <2>3. Here \in Slots(in.rs) /\ Here[2] = watch /\ watch # NoIP
    BY <2>1, <2>2 DEF OnTheWay, Here
  <2>4. s \in Slots(in.rs) /\ s[2] # in.rs[s[1]].gw
    BY Zenon DEF Allocatable
  <2>5. in.rs \in RangeSets
    BY <2>2, InputFacts, Zenon
  <2>6. /\ Cardinality(Slots(in.rs)) \in Nat
        /\ Rank(in.rs, watch, Here) = Cardinality(Slots(in.rs)) - 1
        /\ Rank(in.rs, watch, s) \in 0 .. Cardinality(Slots(in.rs)) - 1
    BY ONLY <2>3, <2>4, <2>5, RankFacts, Zenon
  <2>7. Rank(in.rs, watch, s) <= Rank(in.rs, watch, Here)
    BY ONLY <2>6
  <2> QED BY <2>1, <2>3, <2>4, <2>7, TriedSoFar, Zenon
<1> QED BY <1>1, AllocateInvariant, RoundInvariant, PTL DEF Spec, RunsThroughTheRange

\* The state of the calls stays well formed.
THEOREM TypeCorrect == Spec => []TypeOK
<1>1. IInv /\ RInv => TypeOK
  <2> SUFFICES ASSUME IInv, RInv PROVE TypeOK
    OBVIOUS
  <2>1. in.rs \in RangeSets
    BY InputFacts DEF IInv, Types
  <2>2. DOMAIN in.rs = 1 .. Len(in.rs)
    BY <2>1, RangeFacts, Zenon
  <2>3. /\ iter.idx \in DOMAIN in.rs
        /\ iter.cur \in Addrs \cup {NoIP} /\ iter.startIP \in Addrs \cup {NoIP}
    BY <2>2 DEF IInv, Types
  <2> QED BY <2>3, Zenon DEF IInv, RInv, Types, TypeOK
<1> QED BY <1>1, AllocateInvariant, RoundInvariant, PTL
=============================================================================
