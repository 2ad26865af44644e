------------------------- MODULE ExcludeRangesProofs -------------------------
(***************************************************************************)
(* What the list operations of api/v1alpha1/helpers.go compute, for lists  *)
(* of any length: the loops with append, the sort, the sweep and the merge *)
(* by induction on the number of ranges handled.                           *)
(***************************************************************************)
EXTENDS ExcludeRanges, WellFoundedInduction, TLAPS

-----------------------------------------------------------------------------
(***************************************************************************)
(* Induction.                                                              *)
(***************************************************************************)

\* A non-empty set of natural numbers has a least element.
LEMMA LeastNat ==
  ASSUME NEW T, T \subseteq Nat, T # {}
  PROVE  \E x \in T : \A y \in T : x <= y
<1>1. IsWellFoundedOn(OpToRel(<, Nat), Nat)
  BY NatLessThanWellFounded, Zenon
<1>2. PICK x \in T : \A y \in T : ~(<<y, x>> \in OpToRel(<, Nat))
  BY <1>1, WFMin, Zenon
<1>3. \A y \in T : ~(<<y, x>> \in {ss \in Nat \X Nat : ss[1] < ss[2]})
  BY <1>2, Zenon DEF OpToRel
<1>4. ASSUME NEW y \in T
      PROVE  x <= y
  <2>1. y \in Nat /\ x \in Nat
    OBVIOUS
  <2>2. y < x => <<y, x>> \in {ss \in Nat \X Nat : ss[1] < ss[2]}
    BY <2>1
  <2>3. ~(y < x)
    BY <1>3, <2>2, Zenon
  <2> QED BY <2>1, <2>3
<1> QED BY <1>4

\* What holds after no turn of a loop, and after each turn when it held
\* before, holds after all N turns.
LEMMA LoopInduction ==
  ASSUME NEW N \in Nat, NEW S, 0 \in S, \A n \in 0 .. N - 1 : n \in S => n + 1 \in S
  PROVE  0 .. N \subseteq S
<1> SUFFICES ASSUME (0 .. N) \ S # {} PROVE FALSE
  OBVIOUS
<1> DEFINE T == (0 .. N) \ S
<1>0. T \subseteq Nat /\ T # {}
  OBVIOUS
<1> HIDE DEF T
<1>a. PICK x \in T : \A y \in T : x <= y
  BY <1>0, LeastNat, Zenon
<1>1. x \in 0 .. N /\ x \notin S /\ \A y \in 0 .. N : y \notin S => x <= y
  BY <1>a DEF T
<1>2. x # 0 /\ x - 1 \in 0 .. N - 1 /\ ~(x <= x - 1) /\ x - 1 + 1 = x
  BY <1>1
<1>3. x - 1 \in S
  BY <1>1, <1>2
<1> QED BY <1>1, <1>2, <1>3

\* A loop of N turns over a state in X that starts at x0: f[n] is the state
\* after n turns.
Turns(N, X) == [1 .. N -> [X -> X]]
IsRun(N, X, x0, turn, f) ==
    /\ f \in [0 .. N -> X]
    /\ f[0] = x0
    /\ \A n \in 1 .. N : f[n] = turn[n][f[n - 1]]

\* The loop has a run: the recursive functions of ExcludeRanges are well
\* defined.
LEMMA LoopRuns ==
  ASSUME NEW N \in Nat, NEW X, NEW x0 \in X, NEW turn \in Turns(N, X)
  PROVE  \E f : IsRun(N, X, x0, turn, f)
<1> USE DEF Turns
<1> DEFINE Run(k, f) == /\ f \in [0 .. k -> X]
                        /\ f[0] = x0
                        /\ \A n \in 1 .. k : f[n] = turn[n][f[n - 1]]
           S == {k \in 0 .. N : \E f : Run(k, f)}
<1>1. 0 \in S
  <2>0. [i \in 0 .. 0 |-> x0] \in [0 .. 0 -> X]
    OBVIOUS
  <2> DEFINE g == [i \in 0 .. 0 |-> x0]
  <2>1. g[0] = x0
    OBVIOUS
  <2>2. g \in [0 .. 0 -> X]
    BY <2>0
  <2> HIDE DEF g
  <2>3. Run(0, g)
    BY <2>1, <2>2
  <2>4. 0 \in 0 .. N
    OBVIOUS
  <2> HIDE DEF Run
  <2> QED BY <2>3, <2>4, Zenon
<1>2. ASSUME NEW k \in 0 .. N - 1, k \in S
      PROVE  k + 1 \in S
  <2>1. PICK f : Run(k, f)
    BY <1>2
  <2> DEFINE g == [i \in 0 .. k + 1 |-> IF i = k + 1 THEN turn[k + 1][f[k]] ELSE f[i]]
  <2>2. turn[k + 1] \in [X -> X] /\ f[k] \in X /\ f \in [0 .. k -> X]
    BY <2>1
  <2>3. turn[k + 1][f[k]] \in X
    BY <2>2
  <2>4. g \in [0 .. k + 1 -> X]
    BY <2>2, <2>3
  <2>5. g[0] = x0
    BY <2>1
  <2>6. ASSUME NEW n \in 1 .. k + 1
        PROVE  g[n] = turn[n][g[n - 1]]
    <3>1. CASE n = k + 1
      BY <3>1
    <3>2. CASE n \in 1 .. k
      <4>1. n \in 0 .. k + 1 /\ n # k + 1 /\ n - 1 \in 0 .. k + 1 /\ n - 1 # k + 1
        BY <3>2
      <4>2. g[n] = f[n] /\ g[n - 1] = f[n - 1]
        BY <4>1
      <4> QED BY <2>1, <3>2, <4>2
    <3> QED BY <3>1, <3>2
  <2> HIDE DEF g
  <2>7. Run(k + 1, g)
    BY <2>4, <2>5, <2>6, Zenon
  <2>8. k + 1 \in 0 .. N
    OBVIOUS
  <2> HIDE DEF Run
  <2> QED BY <2>7, <2>8, Zenon
<1> HIDE DEF S
<1>3. 0 .. N \subseteq S
  BY <1>1, <1>2, LoopInduction, Zenon
<1>4. N \in S
  BY <1>3
<1> QED BY <1>4, Zenon DEF S, IsRun

\* What a loop's state is after no turn, and stays in a turn, it is after
\* every turn.
LEMMA LoopType ==
  ASSUME NEW N \in Nat, NEW X, NEW g, g = [n \in 0 .. N |-> g[n]], g[0] \in X,
         \A n \in 1 .. N : g[n - 1] \in X => g[n] \in X
  PROVE  g \in [0 .. N -> X]
<1> DEFINE S == {n \in 0 .. N : g[n] \in X}
<1>1. 0 \in S
  OBVIOUS
<1>2. ASSUME NEW n \in 0 .. N - 1, n \in S
      PROVE  n + 1 \in S
  <2>1. n + 1 \in 1 .. N /\ n + 1 \in 0 .. N /\ (n + 1) - 1 = n
    OBVIOUS
  <2> QED BY <1>2, <2>1, Zenon
<1>3. 0 .. N \subseteq S
  <2> HIDE DEF S
  <2> QED BY <1>1, <1>2, LoopInduction, Zenon
<1>4. \A n \in 0 .. N : g[n] \in X
  BY <1>3
<1> QED BY <1>4, Zenon
-----------------------------------------------------------------------------
(***************************************************************************)
(* Lists built with append.                                                *)
(***************************************************************************)

\* The elements of a list.
Elems(s) == {s[i] : i \in DOMAIN s}

\* A function on 1 .. N is a list of length N.
LEMMA IsASeq ==
  ASSUME NEW N \in Nat, NEW Y, NEW p \in [1 .. N -> Y]
  PROVE  p \in Seq(Y) /\ Len(p) = N
OBVIOUS

\* Appending a list adds its elements.
LEMMA ElemsOfAppend ==
  ASSUME NEW X, NEW s \in Seq(X), NEW t \in Seq(X)
  PROVE  Elems(s \o t) = Elems(s) \cup Elems(t)
<1> DEFINE u == s \o t
<1>1. /\ u \in Seq(X)
      /\ Len(u) = Len(s) + Len(t)
      /\ \A i \in 1 .. Len(s) : u[i] = s[i]
      /\ \A i \in 1 .. Len(t) : u[Len(s) + i] = t[i]
  OBVIOUS
<1>2. DOMAIN u = 1 .. Len(u) /\ DOMAIN s = 1 .. Len(s) /\ DOMAIN t = 1 .. Len(t)
      /\ Len(s) \in Nat /\ Len(t) \in Nat
  BY <1>1
<1> HIDE DEF u
<1>3. ASSUME NEW i \in DOMAIN u
      PROVE  u[i] \in Elems(s) \cup Elems(t)
  <2>1. CASE i \in 1 .. Len(s)
    BY <2>1, <1>1, <1>2 DEF Elems
  <2>2. CASE i \notin 1 .. Len(s)
    <3>1. i - Len(s) \in 1 .. Len(t) /\ Len(s) + (i - Len(s)) = i
      BY <2>2, <1>1, <1>2
    <3>2. u[i] = t[i - Len(s)]
      BY <3>1, <1>1
    <3> QED BY <3>1, <3>2, <1>2 DEF Elems
  <2> QED BY <2>1, <2>2
<1>4. ASSUME NEW i \in DOMAIN s
      PROVE  s[i] \in Elems(u)
  <2>1. i \in DOMAIN u /\ u[i] = s[i]
    BY <1>1, <1>2
  <2> QED BY <2>1 DEF Elems
<1>5. ASSUME NEW i \in DOMAIN t
      PROVE  t[i] \in Elems(u)
  <2>1. Len(s) + i \in DOMAIN u /\ u[Len(s) + i] = t[i]
    BY <1>1, <1>2
  <2> QED BY <2>1, Zenon DEF Elems
<1>6. Elems(u) \subseteq Elems(s) \cup Elems(t)
  BY <1>3, Zenon DEF Elems
<1>7. Elems(s) \subseteq Elems(u) /\ Elems(t) \subseteq Elems(u)
  BY <1>4, <1>5, Zenon DEF Elems
<1>8. Elems(u) = Elems(s) \cup Elems(t)
  BY <1>6, <1>7
<1> QED BY <1>8 DEF u

\* The loop with append runs to its end.
LEMMA ConcatRuns ==
  ASSUME NEW X, NEW pieces \in Seq(Seq(X))
  PROVE  \E f \in [0 .. Len(pieces) -> Seq(X)] :
             /\ f[0] = <<>>
             /\ \A n \in 1 .. Len(pieces) : f[n] = f[n - 1] \o pieces[n]
             /\ Concat(pieces) = f[Len(pieces)]
<1> DEFINE N == Len(pieces)
           turn == [n \in 1 .. N |-> [x \in Seq(X) |-> x \o pieces[n]]]
           Body(g) == [n \in 0 .. N |-> IF n = 0 THEN <<>> ELSE g[n - 1] \o pieces[n]]
<1>1. N \in Nat /\ \A n \in 1 .. N : pieces[n] \in Seq(X)
  OBVIOUS
<1>a. N \in Nat
  OBVIOUS
<1>b. <<>> \in Seq(X)
  OBVIOUS
<1>2. turn \in Turns(N, Seq(X))
  BY <1>1 DEF Turns
<1> HIDE DEF N
<1>3. \A n \in 1 .. N : \A x \in Seq(X) : turn[n][x] = x \o pieces[n]
  OBVIOUS
<1> HIDE DEF turn
<1>4. PICK f \in [0 .. N -> Seq(X)] : f[0] = <<>> /\ \A n \in 1 .. N : f[n] = turn[n][f[n - 1]]
  <2>1. \E f : IsRun(N, Seq(X), <<>>, turn, f)
    BY <1>a, <1>b, <1>2, LoopRuns, Zenon
  <2> QED BY <2>1, Zenon DEF IsRun
<1>5. ASSUME NEW n \in 0 .. N
      PROVE  f[n] = IF n = 0 THEN <<>> ELSE f[n - 1] \o pieces[n]
  <2>1. CASE n = 0
    BY <2>1, <1>4
  <2>2. CASE n # 0
    <3>1. n \in 1 .. N /\ n - 1 \in 0 .. N
      BY <2>2, <1>1
    <3>2. f[n - 1] \in Seq(X)
      BY <3>1, Zenon
    <3> QED BY <1>3, <1>4, <2>2, <3>1, <3>2, Zenon
  <2> QED BY <2>1, <2>2, Zenon
<1> DEFINE g == CHOOSE g : g = Body(g)
<1>6. f = Body(f)
  <2>1. f = [n \in 0 .. N |-> f[n]]
    BY Zenon
  <2> QED BY <2>1, <1>5, Zenon
<1>7. g = Body(g)
  BY <1>6, Zenon
<1>8. Concat(pieces) = g[N]
  BY Zenon DEF Concat, N
<1> HIDE DEF g
<1>c. \A n \in 0 .. N : g[n] = IF n = 0 THEN <<>> ELSE g[n - 1] \o pieces[n]
  <2>1. \A n \in 0 .. N : Body(g)[n] = IF n = 0 THEN <<>> ELSE g[n - 1] \o pieces[n]
    BY Zenon
  <2> HIDE DEF Body
  <2> QED BY <1>7, <2>1, Zenon
<1>d. g = [n \in 0 .. N |-> g[n]]
  BY <1>7, Zenon
<1>9. g[0] = <<>>
  BY <1>a, <1>c
<1>10. ASSUME NEW n \in 1 .. N
       PROVE  g[n] = g[n - 1] \o pieces[n]
  <2>1. n \in 0 .. N /\ n # 0
    BY <1>a
  <2> QED BY <1>c, <2>1, Zenon
<1>11. ASSUME NEW n \in 1 .. N, g[n - 1] \in Seq(X)
       PROVE  g[n] \in Seq(X)
  <2>1. \A a, b \in Seq(X) : a \o b \in Seq(X)
    OBVIOUS
  <2> QED BY <1>1, <1>10, <1>11, <2>1, Zenon
<1>12. g \in [0 .. N -> Seq(X)]
  <2>1. g[0] \in Seq(X)
    BY <1>b, <1>9
  <2> QED BY <1>a, <1>d, <2>1, <1>11, LoopType, Zenon
<1> QED BY <1>8, <1>9, <1>10, <1>12, Zenon DEF N

\* The list holds what the pieces hold, and nothing else.
LEMMA ConcatElems ==
  ASSUME NEW X, NEW pieces \in Seq(Seq(X))
  PROVE  /\ Concat(pieces) \in Seq(X)
         /\ Elems(Concat(pieces)) = UNION {Elems(pieces[n]) : n \in 1 .. Len(pieces)}
<1> DEFINE N == Len(pieces)
           Upto(k) == UNION {Elems(pieces[n]) : n \in 1 .. k}
<1>1. N \in Nat /\ \A n \in 1 .. N : pieces[n] \in Seq(X)
  OBVIOUS
<1> HIDE DEF N
<1>2. PICK f \in [0 .. N -> Seq(X)] :
          /\ f[0] = <<>>
          /\ \A n \in 1 .. N : f[n] = f[n - 1] \o pieces[n]
          /\ Concat(pieces) = f[N]
  BY ConcatRuns, Zenon DEF N
<1> DEFINE S == {k \in 0 .. N : Elems(f[k]) = Upto(k)}
<1>3. 0 \in S
  <2>1. Elems(f[0]) = {}
    BY <1>2 DEF Elems
  <2>2. Upto(0) = {}
    OBVIOUS
  <2> QED BY <1>1, <2>1, <2>2
<1>4. ASSUME NEW k \in 0 .. N - 1, k \in S
      PROVE  k + 1 \in S
  <2>1. k + 1 \in 1 .. N /\ k + 1 \in 0 .. N /\ k \in 0 .. N /\ (k + 1) - 1 = k
    BY <1>1
  <2>2. f[k + 1] = f[k] \o pieces[k + 1]
    BY <1>2, <2>1, Zenon
  <2>3. f[k] \in Seq(X) /\ pieces[k + 1] \in Seq(X)
    BY <1>1, <2>1, Zenon
  <2>4. Elems(f[k + 1]) = Elems(f[k]) \cup Elems(pieces[k + 1])
    BY <2>2, <2>3, ElemsOfAppend
  <2>5. 1 .. k + 1 = (1 .. k) \cup {k + 1}
    BY <1>1
  <2>6. Upto(k + 1) = Upto(k) \cup Elems(pieces[k + 1])
    BY <2>5, Zenon
  <2>7. Elems(f[k]) = Upto(k)
    BY <1>4
  <2> HIDE DEF Upto
  <2> QED BY <2>1, <2>4, <2>6, <2>7, Zenon
<1>5. N \in S
  <2> HIDE DEF S
  <2>1. 0 .. N \subseteq S
    BY <1>1, <1>3, <1>4, LoopInduction, Zenon
  <2> QED BY <1>1, <2>1
<1>6. Elems(f[N]) = Upto(N)
  BY <1>5
<1>7. f[N] \in Seq(X)
  BY <1>1
<1> QED BY <1>2, <1>6, <1>7, Zenon DEF N

\* A loop that keeps or drops the elements of a list one by one: item[i] is
\* what the turn for element i appends, unless drop[i].
Kept(N, drop, item) == [i \in 1 .. N |-> IF drop[i] THEN <<>> ELSE <<item[i]>>]
KeptItems(N, drop, item) == {item[i] : i \in {j \in 1 .. N : ~drop[j]}}

\* It builds the list of the items kept.
LEMMA FilterMap ==
  ASSUME NEW X, NEW N \in Nat, NEW drop, NEW item,
         KeptItems(N, drop, item) \subseteq X
  PROVE  /\ Concat(Kept(N, drop, item)) \in Seq(X)
         /\ Elems(Concat(Kept(N, drop, item))) = KeptItems(N, drop, item)
<1> USE DEF KeptItems
<1>0. PICK pieces : pieces = Kept(N, drop, item)
  OBVIOUS
<1>1. \A i \in 1 .. N : pieces[i] = IF drop[i] THEN <<>> ELSE <<item[i]>>
  <2>1. \A i \in 1 .. N : Kept(N, drop, item)[i] = IF drop[i] THEN <<>> ELSE <<item[i]>>
    BY DEF Kept
  <2> QED BY <1>0, <2>1, Zenon
<1>2. \A i \in 1 .. N : pieces[i] \in Seq(X)
  <2>1. <<>> \in Seq(X) /\ \A x \in X : <<x>> \in Seq(X)
    OBVIOUS
  <2>2. \A i \in 1 .. N : ~drop[i] => item[i] \in X
    BY Zenon
  <2> QED BY <1>1, <2>1, <2>2, Zenon
<1>3. pieces \in Seq(Seq(X)) /\ Len(pieces) = N
  <2>1. Kept(N, drop, item) = [i \in 1 .. N |-> Kept(N, drop, item)[i]]
    BY Zenon DEF Kept
  <2>2. pieces = [i \in 1 .. N |-> pieces[i]]
    BY <1>0, <2>1, Zenon
  <2>3. pieces \in [1 .. N -> Seq(X)]
    BY <1>2, <2>2, Zenon
  <2> QED BY <2>3, IsASeq, Zenon
<1>4. \A i \in 1 .. N : Elems(pieces[i]) = IF drop[i] THEN {} ELSE {item[i]}
  <2>1. Elems(<<>>) = {}
    BY DEF Elems
  <2>2. ASSUME NEW x PROVE Elems(<<x>>) = {x}
    BY DEF Elems
  <2> QED BY <1>1, <2>1, <2>2, Zenon
<1>5. /\ Concat(pieces) \in Seq(X)
      /\ Elems(Concat(pieces)) = UNION {Elems(pieces[n]) : n \in 1 .. N}
  <2>1. /\ Concat(pieces) \in Seq(X)
        /\ Elems(Concat(pieces)) = UNION {Elems(pieces[n]) : n \in 1 .. Len(pieces)}
    BY <1>3, ConcatElems, Zenon
  <2> QED BY <1>3, <2>1, Zenon
<1>6. ASSUME NEW n \in 1 .. N, NEW x \in Elems(pieces[n])
      PROVE  x \in {item[i] : i \in {j \in 1 .. N : ~drop[j]}}
  BY <1>4, Zenon
<1>7. ASSUME NEW n \in 1 .. N, ~drop[n]
      PROVE  item[n] \in UNION {Elems(pieces[m]) : m \in 1 .. N}
  <2>1. item[n] \in Elems(pieces[n])
    BY <1>4, <1>7, Zenon
  <2> QED BY <2>1, Zenon
<1>8. UNION {Elems(pieces[n]) : n \in 1 .. N} = {item[i] : i \in {j \in 1 .. N : ~drop[j]}}
  BY <1>6, <1>7, Zenon
<1> QED BY <1>0, <1>5, <1>8, Zenon
-----------------------------------------------------------------------------
(***************************************************************************)
(* Clamping, and turning indexes into addresses.                           *)
(***************************************************************************)

\* A range of whole numbers, and one that is in order.
IntRange == [start : Int, end : Int]
InOrder(rs) == \A r \in Elems(rs) : r.start <= r.end

\* A list denotes what its elements denote.
LEMMA DenotesElems ==
  ASSUME NEW rs, NEW a
  PROVE  a \in Denotes(rs) <=> \E r \in Elems(rs) : a \in r.start .. r.end
BY Zenon DEF Denotes, Elems

\* Lists with the same elements denote the same.
LEMMA SameDenotes ==
  ASSUME NEW rs, NEW ss, Elems(rs) = Elems(ss)
  PROVE  Denotes(rs) = Denotes(ss)
<1>1. \A a : a \in Denotes(rs) <=> a \in Denotes(ss)
  BY DenotesElems, Zenon
<1> QED BY <1>1, Zenon

\* The elements of a list of X are in X.
LEMMA ElemsType ==
  ASSUME NEW X, NEW s \in Seq(X)
  PROVE  Elems(s) \subseteq X
BY DEF Elems

\* A range that meets [lo, hi], clamped.
LEMMA ClampOne ==
  ASSUME NEW r \in IntRange, NEW lo \in Int, NEW hi \in Int, lo <= hi, r.start <= r.end
  PROVE  LET c == Clamp(r, lo, hi)
         IN  /\ c \in IntRange
             /\ ~(r.start > hi \/ r.end < lo) => lo <= c.start /\ c.start <= c.end /\ c.end <= hi
             /\ \A a : (~(r.start > hi \/ r.end < lo) /\ a \in c.start .. c.end)
                         <=> (a \in r.start .. r.end /\ a \in lo .. hi)
<1>1. r.start \in Int /\ r.end \in Int
  BY DEF IntRange
<1>2. PICK s \in Int, e \in Int : /\ s = (IF r.start < lo THEN lo ELSE r.start)
                                  /\ e = (IF r.end > hi THEN hi ELSE r.end)
  BY <1>1
<1>3. Clamp(r, lo, hi) = [start |-> s, end |-> e]
  BY <1>2, Zenon DEF Clamp
<1>4. PICK c : c = Clamp(r, lo, hi)
  OBVIOUS
<1>5. c \in IntRange /\ c.start = s /\ c.end = e
  BY <1>3, <1>4 DEF IntRange
<1>6. ~(r.start > hi \/ r.end < lo) => lo <= s /\ s <= e /\ e <= hi
  BY <1>1, <1>2
<1>7. ASSUME NEW a
      PROVE  (~(r.start > hi \/ r.end < lo) /\ a \in s .. e) <=> (a \in r.start .. r.end /\ a \in lo .. hi)
  BY <1>1, <1>2
<1> QED BY <1>4, <1>5, <1>6, <1>7, Zenon

\* ClampExcludeRanges keeps what the list denotes inside [lo, hi], and
\* nothing else.
THEOREM ClampFacts ==
  ASSUME NEW rs \in Seq(IntRange), NEW lo \in Int, NEW hi \in Int, lo <= hi, InOrder(rs)
  PROVE  LET out == ClampExcludeRanges(rs, lo, hi)
         IN  /\ out \in Seq(IntRange)
             /\ \A r \in Elems(out) : lo <= r.start /\ r.start <= r.end /\ r.end <= hi
             /\ Denotes(out) = Denotes(rs) \cap (lo .. hi)
<1> DEFINE N == Len(rs)
           drop == [i \in 1 .. N |-> rs[i].start > hi \/ rs[i].end < lo]
           item == [i \in 1 .. N |-> Clamp(rs[i], lo, hi)]
           out == ClampExcludeRanges(rs, lo, hi)
<1>1. N \in Nat /\ DOMAIN rs = 1 .. N /\ \A i \in 1 .. N : rs[i] \in IntRange
  OBVIOUS
<1>2. \A i \in 1 .. N : rs[i] \in Elems(rs)
  BY <1>1 DEF Elems
<1>3. \A i \in 1 .. N : rs[i].start <= rs[i].end
  BY <1>2, Zenon DEF InOrder
<1>4. out = Concat(Kept(N, drop, item))
  <2>1. Kept(N, drop, item)
          = [i \in DOMAIN rs |->
                IF rs[i].start > hi \/ rs[i].end < lo THEN <<>> ELSE <<Clamp(rs[i], lo, hi)>>]
    BY <1>1, Zenon DEF Kept
  <2> QED BY <2>1, Zenon DEF ClampExcludeRanges
<1> HIDE DEF N, out
<1>5. \A i \in 1 .. N : /\ item[i] = Clamp(rs[i], lo, hi)
                        /\ drop[i] <=> (rs[i].start > hi \/ rs[i].end < lo)
  BY Zenon
<1> HIDE DEF drop, item
<1>6. ASSUME NEW i \in 1 .. N
      PROVE  /\ item[i] \in IntRange
             /\ ~drop[i] => lo <= item[i].start /\ item[i].start <= item[i].end /\ item[i].end <= hi
             /\ \A a : (~drop[i] /\ a \in item[i].start .. item[i].end)
                         <=> (a \in rs[i].start .. rs[i].end /\ a \in lo .. hi)
  <2>1. PICK r \in IntRange : r = rs[i]
    BY <1>1
  <2>2. r.start <= r.end /\ item[i] = Clamp(r, lo, hi) /\ (drop[i] <=> (r.start > hi \/ r.end < lo))
    BY <1>3, <1>5, <2>1, Zenon
  <2>3. /\ Clamp(r, lo, hi) \in IntRange
        /\ ~(r.start > hi \/ r.end < lo) =>
               /\ lo <= Clamp(r, lo, hi).start
               /\ Clamp(r, lo, hi).start <= Clamp(r, lo, hi).end
               /\ Clamp(r, lo, hi).end <= hi
        /\ \A a : (~(r.start > hi \/ r.end < lo) /\ a \in Clamp(r, lo, hi).start .. Clamp(r, lo, hi).end)
                    <=> (a \in r.start .. r.end /\ a \in lo .. hi)
    BY <2>2, ClampOne, Zenon
  <2> QED BY <2>1, <2>2, <2>3, Zenon
<1>7. out \in Seq(IntRange) /\ Elems(out) = KeptItems(N, drop, item)
  <2>1. KeptItems(N, drop, item) \subseteq IntRange
    BY <1>6, Zenon DEF KeptItems
  <2>2. N \in Nat
    BY <1>1
  <2>3. /\ Concat(Kept(N, drop, item)) \in Seq(IntRange)
        /\ Elems(Concat(Kept(N, drop, item))) = KeptItems(N, drop, item)
    BY <2>1, <2>2, FilterMap
  <2> QED BY <1>4, <2>3, Zenon
<1>10. ASSUME NEW a
       PROVE  a \in Denotes(out) <=> a \in Denotes(rs) /\ a \in lo .. hi
  <2>1. a \in Denotes(out) <=> \E i \in 1 .. N : ~drop[i] /\ a \in item[i].start .. item[i].end
    <3>1. a \in Denotes(out) <=> \E r \in Elems(out) : a \in r.start .. r.end
      BY DenotesElems, Zenon
    <3> QED BY <1>7, <3>1 DEF KeptItems
  <2>2. a \in Denotes(rs) <=> \E i \in 1 .. N : a \in rs[i].start .. rs[i].end
    BY <1>1, Zenon DEF Denotes
  <2> QED BY <1>6, <2>1, <2>2, Zenon
<1>11. Denotes(out) = Denotes(rs) \cap (lo .. hi)
  BY <1>10, Zenon
<1>12. \A r \in Elems(out) : lo <= r.start /\ r.start <= r.end /\ r.end <= hi
  BY <1>6, <1>7, Zenon DEF KeptItems
<1> QED BY <1>7, <1>11, <1>12, Zenon DEF out

\* ip.NextIPWithOffset by a natural number from an address.
LEMMA NextOffset ==
  ASSUME NEW from \in 0 .. MaxIP, NEW n \in Nat
  PROVE  /\ NextIPWithOffset(from, n) \in Int
         /\ NextIPWithOffset(from, n) = NoIP <=> from + n > MaxIP
         /\ NextIPWithOffset(from, n) # NoIP => NextIPWithOffset(from, n) = from + n
BY MaxIPAssumption DEF NextIPWithOffset, NoIP

\* ExcludeIndexRangeToExcludeRange counts the indexes from the address from;
\* what lies past the last address is dropped.
LEMMA IndexFacts ==
  ASSUME NEW is \in Seq(IntRange), NEW from \in 0 .. MaxIP,
         \A r \in Elems(is) : 0 <= r.start /\ r.start <= r.end
  PROVE  LET out == ExcludeIndexRangeToExcludeRange(is, from)
         IN  /\ out \in Seq(IntRange)
             /\ \A r \in Elems(out) :
                    \E q \in Elems(is) : r.start = from + q.start /\ r.end = from + q.end
             /\ \A q \in Elems(is) : from + q.end <= MaxIP =>
                    \E r \in Elems(out) : r.start = from + q.start /\ r.end = from + q.end
<1> DEFINE N == Len(is)
           S(i) == NextIPWithOffset(from, is[i].start)
           E(i) == NextIPWithOffset(from, is[i].end)
           drop == [i \in 1 .. N |-> S(i) = NoIP \/ E(i) = NoIP]
           item == [i \in 1 .. N |-> [start |-> S(i), end |-> E(i)]]
           out == ExcludeIndexRangeToExcludeRange(is, from)
<1>1. N \in Nat /\ DOMAIN is = 1 .. N /\ \A i \in 1 .. N : is[i] \in IntRange
  OBVIOUS
<1>2. Elems(is) = {is[i] : i \in 1 .. N}
  BY <1>1 DEF Elems
<1>3. out = Concat(Kept(N, drop, item))
  <2>1. Kept(N, drop, item)
          = [i \in DOMAIN is |->
                LET start == NextIPWithOffset(from, is[i].start)
                    end == NextIPWithOffset(from, is[i].end)
                IN IF start = NoIP \/ end = NoIP THEN <<>> ELSE <<[start |-> start, end |-> end]>>]
    BY <1>1, Zenon DEF Kept
  <2> QED BY <2>1, Zenon DEF ExcludeIndexRangeToExcludeRange
<1> HIDE DEF N, out
<1>4. \A i \in 1 .. N : /\ item[i] = [start |-> S(i), end |-> E(i)]
                        /\ drop[i] <=> (S(i) = NoIP \/ E(i) = NoIP)
  BY Zenon
<1> HIDE DEF drop, item
<1>5. ASSUME NEW i \in 1 .. N
      PROVE  /\ drop[i] <=> from + is[i].end > MaxIP
             /\ ~drop[i] => /\ item[i] \in IntRange
                            /\ item[i].start = from + is[i].start
                            /\ item[i].end = from + is[i].end
  <2>1. is[i] \in Elems(is) /\ is[i] \in IntRange
    BY <1>1, <1>2
  <2>2. is[i].start \in Nat /\ is[i].end \in Nat /\ is[i].start <= is[i].end
    BY <2>1 DEF IntRange
  <2>3. PICK s \in Int, e \in Int : s = S(i) /\ e = E(i)
    BY <2>2, NextOffset, Zenon
  <2>8. /\ s = NoIP <=> from + is[i].start > MaxIP
        /\ s # NoIP => s = from + is[i].start
        /\ e = NoIP <=> from + is[i].end > MaxIP
        /\ e # NoIP => e = from + is[i].end
    BY <2>2, <2>3, NextOffset, Zenon
  <2>4. s = NoIP \/ e = NoIP <=> from + is[i].end > MaxIP
    BY <2>2, <2>8, MaxIPAssumption, SMTT(30)
  <2>5. ~(s = NoIP \/ e = NoIP) => s = from + is[i].start /\ e = from + is[i].end
    BY <2>8, Zenon
  <2>6. item[i] = [start |-> s, end |-> e] /\ (drop[i] <=> (s = NoIP \/ e = NoIP))
    BY <1>4, <2>3, Zenon
  <2>7. item[i] \in IntRange /\ item[i].start = s /\ item[i].end = e
    BY <2>6 DEF IntRange
  <2> QED BY <2>4, <2>5, <2>6, <2>7, Zenon
<1>6. out \in Seq(IntRange) /\ Elems(out) = KeptItems(N, drop, item)
  <2>1. KeptItems(N, drop, item) \subseteq IntRange
    BY <1>5, Zenon DEF KeptItems
  <2>2. N \in Nat
    BY <1>1
  <2>3. /\ Concat(Kept(N, drop, item)) \in Seq(IntRange)
        /\ Elems(Concat(Kept(N, drop, item))) = KeptItems(N, drop, item)
    BY <2>1, <2>2, FilterMap
  <2> QED BY <1>3, <2>3, Zenon
<1>7. ASSUME NEW r \in Elems(out)
      PROVE  \E q \in Elems(is) : r.start = from + q.start /\ r.end = from + q.end
  <2>1. PICK i \in 1 .. N : ~drop[i] /\ r = item[i]
    BY <1>6, Zenon DEF KeptItems
  <2> QED BY <1>2, <1>5, <2>1, Zenon
<1>8. ASSUME NEW q \in Elems(is), from + q.end <= MaxIP
      PROVE  \E r \in Elems(out) : r.start = from + q.start /\ r.end = from + q.end
  <2>1. PICK i \in 1 .. N : q = is[i]
    BY <1>2, Zenon
  <2>2. q.end \in Int
    BY <1>1, <2>1 DEF IntRange
  <2>3. ~(from + q.end > MaxIP)
    BY <1>8, <2>2, MaxIPAssumption
  <2>4. ~drop[i]
    BY <1>5, <2>1, <2>3, Zenon
  <2>5. item[i] \in Elems(out)
    BY <1>6, <2>4, Zenon DEF KeptItems
  <2> QED BY <1>5, <2>1, <2>4, <2>5, Zenon
<1> QED BY <1>6, <1>7, <1>8, Zenon DEF out
-----------------------------------------------------------------------------
(***************************************************************************)
(* Sorting.                                                                *)
(***************************************************************************)

\* R orders the indexes up to n; p lists them all, in that order.
Orders(n, R) ==
    /\ \A a, b \in 1 .. n : <<a, b>> \in R \/ <<b, a>> \in R
    /\ \A a, b, c \in 1 .. n : <<a, b>> \in R /\ <<b, c>> \in R => <<a, c>> \in R
Listing(n, R, p) ==
    /\ p \in [1 .. n -> 1 .. n]
    /\ \A v \in 1 .. n : \E i \in 1 .. n : p[i] = v
    /\ \A i, j \in 1 .. n : i < j => <<p[i], p[j]>> \in R

\* One element more: it is inserted before the first that does not precede it.
LEMMA Insertion ==
  ASSUME NEW n \in Nat, NEW R, Orders(n + 1, R), NEW p, Listing(n, R, p)
  PROVE  \E q : Listing(n + 1, R, q)
<1> DEFINE T == {k \in 1 .. n + 1 : k = n + 1 \/ <<n + 1, p[k]>> \in R}
<1>0. p \in [1 .. n -> 1 .. n]
  BY Zenon DEF Listing
<1>a. n + 1 \in 1 .. n + 1 /\ \A i \in 1 .. n : p[i] \in 1 .. n + 1
  BY <1>0
<1>1. T \subseteq Nat /\ T # {}
  <2>1. n + 1 \in T
    BY <1>a
  <2> QED BY <2>1
<1>2. PICK k \in T : \A y \in T : k <= y
  <2> HIDE DEF T
  <2> QED BY <1>1, LeastNat, Zenon
<1>3. k \in 1 .. n + 1 /\ (k # n + 1 => <<n + 1, p[k]>> \in R)
  BY <1>2
<1>4. ASSUME NEW i \in 1 .. n, i < k
      PROVE  <<p[i], n + 1>> \in R
  <2>1. i \in 1 .. n + 1 /\ ~(k <= i)
    BY <1>3, <1>4
  <2>2. i \notin T
    BY <1>2, <2>1, Zenon
  <2>3. <<n + 1, p[i]>> \notin R
    BY <2>1, <2>2, Zenon
  <2> QED BY <1>a, <2>3, Zenon DEF Orders
<1> HIDE DEF T
<1> DEFINE q == [i \in 1 .. n + 1 |-> IF i < k THEN p[i] ELSE IF i = k THEN n + 1 ELSE p[i - 1]]
<1>b. \A i \in 1 .. n + 1 : q[i] = IF i < k THEN p[i] ELSE IF i = k THEN n + 1 ELSE p[i - 1]
  BY Zenon
<1>c. q = [i \in 1 .. n + 1 |-> q[i]]
  BY Zenon
<1> HIDE DEF q
<1>5. /\ \A i \in 1 .. n : i < k => i \in 1 .. n + 1 /\ q[i] = p[i]
      /\ q[k] = n + 1
      /\ \A i \in 1 .. n : k <= i => i + 1 \in 1 .. n + 1 /\ q[i + 1] = p[i]
  <2>1. ASSUME NEW i \in 1 .. n, i < k
        PROVE  i \in 1 .. n + 1 /\ q[i] = p[i]
    BY <1>b, <2>1
  <2>2. q[k] = n + 1
    BY <1>3, <1>b
  <2>3. ASSUME NEW i \in 1 .. n, k <= i
        PROVE  i + 1 \in 1 .. n + 1 /\ q[i + 1] = p[i]
    <3>1. i + 1 \in 1 .. n + 1 /\ ~(i + 1 < k) /\ i + 1 # k /\ (i + 1) - 1 = i
      BY <1>3, <2>3
    <3> QED BY <1>b, <3>1
  <2> QED BY <2>1, <2>2, <2>3, Zenon
<1>6. q \in [1 .. n + 1 -> 1 .. n + 1]
  <2>1. ASSUME NEW i \in 1 .. n + 1
        PROVE  q[i] \in 1 .. n + 1
    <3>1. CASE i < k
      <4>1. i \in 1 .. n
        BY <1>3, <3>1
      <4> QED BY <1>a, <1>5, <3>1, <4>1, Zenon
    <3>2. CASE i = k
      BY <1>a, <1>5, <3>2, Zenon
    <3>3. CASE i > k
      <4>1. i - 1 \in 1 .. n /\ k <= i - 1 /\ (i - 1) + 1 = i
        BY <1>3, <3>3
      <4>2. q[i] = p[i - 1]
        BY <1>5, <4>1
      <4> QED BY <1>a, <4>1, <4>2, Zenon
    <3> QED BY <1>3, <3>1, <3>2, <3>3
  <2> QED BY <1>c, <2>1, Zenon
<1>7. ASSUME NEW v \in 1 .. n + 1
      PROVE  \E i \in 1 .. n + 1 : q[i] = v
  <2>1. CASE v = n + 1
    BY <1>3, <1>5, <2>1, Zenon
  <2>2. CASE v # n + 1
    <3>0. v \in 1 .. n
      BY <2>2
    <3>1. PICK i \in 1 .. n : p[i] = v
      BY <3>0, Zenon DEF Listing
    <3>2. i < k \/ k <= i
      BY <1>3
    <3> QED BY <1>5, <3>1, <3>2, Zenon
  <2> QED BY <2>1, <2>2
<1>d. \A i, j \in 1 .. n : i < j => <<p[i], p[j]>> \in R
  BY Zenon DEF Listing
<1>8. ASSUME NEW i \in 1 .. n + 1, NEW j \in 1 .. n + 1, i < j
      PROVE  <<q[i], q[j]>> \in R
  <2>1. CASE j < k
    <3>1. i \in 1 .. n /\ j \in 1 .. n /\ i < k
      BY <1>3, <1>8, <2>1
    <3> QED BY <1>d, <1>5, <1>8, <2>1, <3>1, Zenon
  <2>2. CASE j = k
    <3>1. i \in 1 .. n /\ i < k
      BY <1>3, <1>8, <2>2
    <3> QED BY <1>4, <1>5, <2>2, <3>1, Zenon
  <2>3. CASE j > k
    <3>1. PICK m \in 1 .. n : j = m + 1 /\ k <= m /\ i <= m
      <4>1. j - 1 \in 1 .. n /\ j = (j - 1) + 1 /\ k <= j - 1 /\ i <= j - 1
        BY <1>3, <1>8, <2>3
      <4> QED BY <4>1, Zenon
    <3>2. q[j] = p[m]
      BY <1>5, <3>1, Zenon
    <3>3. CASE i < k
      <4>1. i \in 1 .. n /\ i < m
        BY <1>3, <3>1, <3>3
      <4> QED BY <1>d, <1>5, <3>2, <3>3, <4>1, Zenon
    <3>4. CASE i = k
      <4>1. k \in 1 .. n /\ k # n + 1
        BY <1>3, <3>1, <3>4
      <4>2. <<n + 1, p[k]>> \in R
        BY <1>3, <4>1, Zenon
      <4>4. k = m \/ k < m
        BY <1>3, <3>1
      <4>5. k < m => <<p[k], p[m]>> \in R
        BY <1>d, <4>1, Zenon
      <4>6. <<n + 1, p[m]>> \in R
        BY <1>a, <4>1, <4>2, <4>4, <4>5, Zenon DEF Orders
      <4> QED BY <1>5, <3>2, <3>4, <4>6, Zenon
    <3>5. CASE i > k
      <4>1. PICK l \in 1 .. n : i = l + 1 /\ k <= l /\ l < m
        <5>1. i - 1 \in 1 .. n /\ i = (i - 1) + 1 /\ k <= i - 1 /\ i - 1 < m
          BY <1>3, <1>8, <3>1, <3>5
        <5> QED BY <5>1, Zenon
      <4>2. q[i] = p[l]
        BY <1>5, <4>1, Zenon
      <4> QED BY <1>d, <3>2, <4>1, <4>2, Zenon
    <3> QED BY <1>3, <3>3, <3>4, <3>5
  <2> QED BY <1>3, <2>1, <2>2, <2>3
<1> QED BY <1>6, <1>7, <1>8, Zenon DEF Listing

\* Indexes that an order compares can be listed in that order.
LEMMA ListingExists ==
  ASSUME NEW N \in Nat, NEW R, Orders(N, R)
  PROVE  \E p : Listing(N, R, p)
<1> DEFINE S == {n \in 0 .. N : \E p : Listing(n, R, p)}
<1>1. 0 \in S
  <2>1. Listing(0, R, [i \in 1 .. 0 |-> i])
    <3>1. 1 .. 0 = {}
      OBVIOUS
    <3>2. [i \in {} |-> i] \in [{} -> {}]
      OBVIOUS
    <3> QED BY <3>1, <3>2, Zenon DEF Listing
  <2>2. 0 \in 0 .. N
    OBVIOUS
  <2> QED BY <2>1, <2>2, Zenon
<1>2. ASSUME NEW n \in 0 .. N - 1, n \in S
      PROVE  n + 1 \in S
  <2>1. n \in Nat /\ n + 1 \in 0 .. N /\ \A a \in 1 .. n + 1 : a \in 1 .. N
    OBVIOUS
  <2>2. Orders(n + 1, R)
    BY <2>1, Zenon DEF Orders
  <2>3. PICK p : Listing(n, R, p)
    BY <1>2, Zenon
  <2>4. \E q : Listing(n + 1, R, q)
    BY <2>1, <2>2, <2>3, Insertion, Zenon
  <2> QED BY <2>1, <2>4, Zenon
<1>3. N \in S
  <2> HIDE DEF S
  <2>1. 0 .. N \subseteq S
    BY <1>1, <1>2, LoopInduction, Zenon
  <2> QED BY <2>1
<1> QED BY <1>3, Zenon

\* sort.Slice returns the same ranges, by start.
LEMMA SortedFacts ==
  ASSUME NEW rs \in Seq(IntRange)
  PROVE  /\ Sorted(rs) \in Seq(IntRange)
         /\ Len(Sorted(rs)) = Len(rs)
         /\ Elems(Sorted(rs)) = Elems(rs)
         /\ \A i, j \in 1 .. Len(rs) : i < j => Sorted(rs)[i].start <= Sorted(rs)[j].start
<1> DEFINE N == Len(rs)
           Before(a, b) == \/ rs[a].start < rs[b].start
                           \/ rs[a].start = rs[b].start /\ rs[a].end <= rs[b].end
           R == {ab \in (1 .. N) \X (1 .. N) : Before(ab[1], ab[2])}
           Good(p) == /\ \A i, j \in DOMAIN rs : i < j => Before(p[i], p[j])
                      /\ \A v \in DOMAIN rs : \E i \in DOMAIN rs : p[i] = v
           P == CHOOSE p \in [DOMAIN rs -> DOMAIN rs] : Good(p)
<1>1. N \in Nat /\ DOMAIN rs = 1 .. N
  OBVIOUS
<1>2. \A a \in 1 .. N : rs[a] \in IntRange
  OBVIOUS
<1> HIDE DEF N
<1>3. \A a \in 1 .. N : rs[a].start \in Int /\ rs[a].end \in Int
  BY <1>2 DEF IntRange
<1>4. \A a, b \in 1 .. N : <<a, b>> \in R <=> Before(a, b)
  OBVIOUS
<1> HIDE DEF R
<1>5. Orders(N, R)
  <2>1. \A a, b \in 1 .. N : Before(a, b) \/ Before(b, a)
    BY <1>3
  <2>2. ASSUME NEW a \in 1 .. N, NEW b \in 1 .. N, NEW c \in 1 .. N, Before(a, b), Before(b, c)
        PROVE  Before(a, c)
    BY <1>3, <2>2
  <2> HIDE DEF Before
  <2> QED BY <1>4, <2>1, <2>2, Zenon DEF Orders
<1>6. PICK p : Listing(N, R, p)
  BY <1>1, <1>5, ListingExists, Zenon
<1> HIDE DEF Before
<1>7. p \in [DOMAIN rs -> DOMAIN rs] /\ Good(p)
  <2>1. p \in [1 .. N -> 1 .. N] /\ \A v \in 1 .. N : \E i \in 1 .. N : p[i] = v
    BY <1>6, Zenon DEF Listing
  <2>2. \A i, j \in 1 .. N : i < j => Before(p[i], p[j])
    <3>1. \A i \in 1 .. N : p[i] \in 1 .. N
      BY <2>1, Zenon
    <3> QED BY <1>4, <1>6, <3>1, Zenon DEF Listing
  <2> QED BY <1>1, <2>1, <2>2, Zenon
<1>8. P \in [DOMAIN rs -> DOMAIN rs] /\ Good(P)
  BY <1>7, Zenon
<1>9. Sorted(rs) = [i \in DOMAIN rs |-> rs[P[i]]]
  BY Zenon DEF Sorted, Before
<1> HIDE DEF P
<1>10. P \in [1 .. N -> 1 .. N] /\ \A v \in 1 .. N : \E i \in 1 .. N : P[i] = v
  BY <1>1, <1>8, Zenon
<1>11. PICK out : out = Sorted(rs)
  OBVIOUS
<1>12. /\ out = [i \in 1 .. N |-> out[i]]
       /\ \A i \in 1 .. N : P[i] \in 1 .. N /\ out[i] = rs[P[i]]
  BY <1>1, <1>9, <1>10, <1>11, Zenon
<1>13. out \in Seq(IntRange) /\ Len(out) = N
  <2>1. out \in [1 .. N -> IntRange]
    BY <1>2, <1>12, Zenon
  <2> QED BY <1>1, <2>1, IsASeq, Zenon
<1>14. Elems(out) = Elems(rs)
  <2>1. DOMAIN out = 1 .. N
    BY <1>12, Zenon
  <2>2. \A x : x \in Elems(out) <=> \E i \in 1 .. N : x = rs[P[i]]
    <3>1. \A x : x \in Elems(out) <=> \E i \in 1 .. N : x = out[i]
      BY <2>1, Zenon DEF Elems
    <3>2. \A i \in 1 .. N : out[i] = rs[P[i]]
      BY <1>12, Zenon
    <3> QED BY <3>1, <3>2, ZenonT(60)
  <2>3. \A x : x \in Elems(rs) <=> \E v \in 1 .. N : x = rs[v]
    BY <1>1, Zenon DEF Elems
  <2>4. \A x : (\E i \in 1 .. N : x = rs[P[i]]) <=> (\E v \in 1 .. N : x = rs[v])
    BY <1>10, <1>12, Zenon
  <2> QED BY <2>2, <2>3, <2>4, Zenon
<1>15. ASSUME NEW i \in 1 .. N, NEW j \in 1 .. N, i < j
       PROVE  out[i].start <= out[j].start
  <2>1. Before(P[i], P[j])
    BY <1>1, <1>8, <1>15, Zenon
  <2>2. PICK a \in 1 .. N, b \in 1 .. N : a = P[i] /\ b = P[j]
    BY <1>12, Zenon
  <2>3. rs[a].start <= rs[b].start
    BY <1>3, <2>1, <2>2, SMTT(30) DEF Before
  <2> QED BY <1>12, <2>2, <2>3, Zenon
<1> QED BY <1>11, <1>13, <1>14, <1>15, Zenon DEF N
-----------------------------------------------------------------------------
(***************************************************************************)
(* Merging.                                                                *)
(***************************************************************************)

\* A range of addresses; a list of ranges with a gap between any two.
AddrRange == {r \in IntRange : 0 <= r.start /\ r.start <= r.end /\ r.end <= MaxIP}
Apart(m) == \A i, j \in 1 .. Len(m) : i < j => m[i].end + 1 < m[j].start

\* The ranges of m start no later than a.
StartBy(m, a) == \A i \in 1 .. Len(m) : m[i].start <= a

\* The bounds of an address range.
LEMMA AddrRangeFacts ==
  ASSUME NEW r \in AddrRange
  PROVE  /\ r \in IntRange /\ r.start \in 0 .. MaxIP /\ r.end \in 0 .. MaxIP
         /\ r.start <= r.end /\ r.start \in Int /\ r.end \in Int
<1>1. r \in IntRange /\ 0 <= r.start /\ r.start <= r.end /\ r.end <= MaxIP
  BY Zenon DEF AddrRange
<1>2. r.start \in Int /\ r.end \in Int
  BY <1>1 DEF IntRange
<1> QED BY <1>1, <1>2, MaxIPAssumption

\* A list of address ranges is a list of ranges, in order; and the converse.
LEMMA AddrRangeSeq ==
  ASSUME NEW rs \in Seq(AddrRange)
  PROVE  rs \in Seq(IntRange) /\ InOrder(rs)
<1>1. PICK N \in Nat : rs \in [1 .. N -> AddrRange]
  OBVIOUS
<1>2. rs \in [1 .. N -> IntRange]
  BY <1>1, Zenon DEF AddrRange
<1>3. rs \in Seq(IntRange)
  BY <1>2, IsASeq, Zenon
<1>4. InOrder(rs)
  BY ElemsType, AddrRangeFacts, Zenon DEF InOrder
<1> QED BY <1>3, <1>4

\* Ranges that lie in the address space, as Validate requires, are AddrRanges.
LEMMA IsAddrRangeSeq ==
  ASSUME NEW rs \in Seq(IntRange),
         \A r \in Elems(rs) : 0 <= r.start /\ r.start <= r.end /\ r.end <= MaxIP
  PROVE  rs \in Seq(AddrRange)
<1>1. PICK N \in Nat : rs \in [1 .. N -> IntRange]
  OBVIOUS
<1>2. \A i \in 1 .. N : rs[i] \in Elems(rs) /\ rs[i] \in IntRange
  BY <1>1, Zenon DEF Elems
<1>3. \A i \in 1 .. N : rs[i] \in AddrRange
  BY <1>2, Zenon DEF AddrRange
<1>4. rs \in [1 .. N -> AddrRange]
  BY <1>1, <1>3, Zenon
<1> QED BY <1>4, IsASeq, Zenon

\* What a list of ranges denotes, index by index.
LEMMA DenotesIndex ==
  ASSUME NEW X, NEW rs \in Seq(X), NEW a
  PROVE  a \in Denotes(rs) <=> \E i \in 1 .. Len(rs) : a \in rs[i].start .. rs[i].end
<1>1. DOMAIN rs = 1 .. Len(rs)
  OBVIOUS
<1> QED BY <1>1, Zenon DEF Denotes

\* The turn of the loop of MergeExcludeRanges that starts a new range.
LEMMA MergeAppends ==
  ASSUME NEW done \in Seq(AddrRange), NEW next \in AddrRange,
         Apart(done), StartBy(done, next.start),
         done = <<>> \/ done[Len(done)].end + 1 < next.start
  PROVE  LET m == Append(done, next)
         IN  /\ m \in Seq(AddrRange) /\ m # <<>>
             /\ Apart(m) /\ StartBy(m, next.start)
             /\ Denotes(m) = Denotes(done) \cup (next.start .. next.end)
<1>1. PICK m : m = Append(done, next)
  BY Zenon
<1>2. PICK n \in Nat : n = Len(done)
  OBVIOUS
<1>3. /\ m \in Seq(AddrRange) /\ Len(m) = n + 1 /\ m[n + 1] = next
      /\ \A i \in 1 .. n : m[i] = done[i] /\ done[i] \in AddrRange
  BY <1>1, <1>2
<1>4. m # <<>>
  BY <1>2, <1>3
<1>5. next.start \in Int /\ next.start <= next.end
  BY AddrRangeFacts
<1>6. \A i \in 1 .. n : done[i].start \in Int /\ done[i].end \in Int /\ done[i].start <= done[i].end
  BY <1>3, AddrRangeFacts, Zenon
<1>7. \A i, j \in 1 .. n : i < j => done[i].end + 1 < done[j].start
  BY <1>2, Zenon DEF Apart
<1>8. \A i \in 1 .. n : done[i].end + 1 < next.start
  <2> SUFFICES ASSUME NEW i \in 1 .. n PROVE done[i].end + 1 < next.start
    OBVIOUS
  <2>1. done # <<>>
    BY <1>2
  <2>2. n \in 1 .. n /\ done[n].end + 1 < next.start
    BY <1>2, <2>1
  <2>3. CASE i = n
    BY <2>2, <2>3
  <2>4. CASE i < n
    <3>1. done[i].end + 1 < done[n].start
      BY <1>7, <2>2, <2>4, Zenon
    <3>2. /\ done[i].end \in Int /\ done[n].start \in Int /\ done[n].end \in Int
          /\ done[n].start <= done[n].end
      BY <1>6, <2>2, Zenon
    <3>3. \A x, y, z, w \in Int : x + 1 < y /\ y <= z /\ z + 1 < w => x + 1 < w
      OBVIOUS
    <3> QED BY <1>5, <2>2, <3>1, <3>2, <3>3, Zenon
  <2> QED BY <2>3, <2>4
<1>9. Apart(m)
  <2> SUFFICES ASSUME NEW i \in 1 .. n + 1, NEW j \in 1 .. n + 1, i < j
               PROVE  m[i].end + 1 < m[j].start
    BY <1>3, Zenon DEF Apart
  <2>1. i \in 1 .. n
    OBVIOUS
  <2>2. CASE j = n + 1
    BY <1>3, <1>8, <2>1, <2>2
  <2>3. CASE j \in 1 .. n
    BY <1>3, <1>7, <2>1, <2>3
  <2> QED BY <2>2, <2>3
<1>10. StartBy(m, next.start)
  <2> SUFFICES ASSUME NEW i \in 1 .. n + 1
               PROVE  m[i].start <= next.start
    BY <1>3, Zenon DEF StartBy
  <2>1. CASE i = n + 1
    BY <1>3, <1>5, <2>1
  <2>2. CASE i \in 1 .. n
    BY <1>2, <1>3, <2>2, Zenon DEF StartBy
  <2> QED BY <2>1, <2>2
<1>11. ASSUME NEW a
       PROVE  a \in Denotes(m) <=> a \in Denotes(done) \/ a \in next.start .. next.end
  <2>1. a \in Denotes(m) <=> \E i \in 1 .. n + 1 : a \in m[i].start .. m[i].end
    BY <1>3, DenotesIndex, Zenon
  <2>2. a \in Denotes(done) <=> \E i \in 1 .. n : a \in done[i].start .. done[i].end
    BY <1>2, DenotesIndex, Zenon
  <2>3. \A i : i \in 1 .. n + 1 <=> i \in 1 .. n \/ i = n + 1
    OBVIOUS
  <2> QED BY <1>3, <2>1, <2>2, <2>3, Zenon
<1>12. Denotes(m) = Denotes(done) \cup (next.start .. next.end)
  BY <1>11, Zenon
<1> QED BY <1>1, <1>3, <1>4, <1>9, <1>10, <1>12, Zenon

\* The turn of the loop that extends the current range.
LEMMA MergeExtends ==
  ASSUME NEW done \in Seq(AddrRange), NEW next \in AddrRange,
         Apart(done), StartBy(done, next.start),
         done # <<>>, done[Len(done)].end + 1 >= next.start
  PROVE  LET m == [done EXCEPT ![Len(done)] = Join(done[Len(done)], next)]
         IN  /\ m \in Seq(AddrRange) /\ m # <<>>
             /\ Apart(m) /\ StartBy(m, next.start)
             /\ Denotes(m) = Denotes(done) \cup (next.start .. next.end)
<1>1. PICK n \in Nat : n = Len(done)
  OBVIOUS
<1>2. n \in 1 .. n
  BY <1>1
<1>3. PICK cur \in AddrRange : cur = done[n]
  BY <1>1, <1>2
<1>4. PICK join : join = Join(cur, next)
  OBVIOUS
<1>5. /\ cur \in IntRange /\ next \in IntRange
      /\ cur.start \in Int /\ cur.end \in Int /\ next.start \in Int /\ next.end \in Int
      /\ 0 <= cur.start /\ cur.start <= cur.end /\ cur.end <= MaxIP
      /\ next.start <= next.end /\ next.end <= MaxIP
  BY AddrRangeFacts, MaxIPAssumption
<1>6. /\ cur.start <= next.start /\ cur.end + 1 >= next.start
  BY <1>1, <1>2, <1>3, Zenon DEF StartBy
<1>7. /\ join \in IntRange /\ join.start = cur.start
      /\ join.end = (IF cur.end < next.end THEN next.end ELSE cur.end)
  BY <1>4, <1>5 DEF Join, IntRange
<1>8. join \in AddrRange
  BY <1>5, <1>7, MaxIPAssumption DEF AddrRange
<1>9. ASSUME NEW a
      PROVE  a \in join.start .. join.end <=> a \in cur.start .. cur.end \/ a \in next.start .. next.end
  BY <1>5, <1>6, <1>7
<1>10. PICK m : m = [done EXCEPT ![Len(done)] = Join(done[Len(done)], next)]
  BY Zenon
<1>11. m = [done EXCEPT ![n] = join]
  BY <1>1, <1>3, <1>4, <1>10, Zenon
<1>12. m \in Seq(AddrRange) /\ Len(m) = n
  BY <1>1, <1>2, <1>8, <1>11
<1>13. \A i \in 1 .. n : m[i] = IF i = n THEN join ELSE done[i]
  BY <1>1, <1>11
<1>14. m # <<>>
  BY <1>2, <1>12
<1>15. \A i, j \in 1 .. n : i < j => done[i].end + 1 < done[j].start
  BY <1>1, Zenon DEF Apart
<1>16. Apart(m)
  <2> SUFFICES ASSUME NEW i \in 1 .. n, NEW j \in 1 .. n, i < j
               PROVE  m[i].end + 1 < m[j].start
    BY <1>12, Zenon DEF Apart
  <2>1. i # n
    OBVIOUS
  <2>2. m[i] = done[i] /\ m[j].start = done[j].start
    BY <1>3, <1>7, <1>13, <2>1, Zenon
  <2> QED BY <1>15, <2>2, Zenon
<1>17. StartBy(m, next.start)
  <2> SUFFICES ASSUME NEW i \in 1 .. n
               PROVE  m[i].start <= next.start
    BY <1>12, Zenon DEF StartBy
  <2>1. m[i].start = done[i].start
    BY <1>3, <1>7, <1>13, Zenon
  <2> QED BY <1>1, <2>1, Zenon DEF StartBy
<1>18. ASSUME NEW a
       PROVE  a \in Denotes(m) <=> a \in Denotes(done) \/ a \in next.start .. next.end
  <2>1. a \in Denotes(m) <=> \E i \in 1 .. n : a \in m[i].start .. m[i].end
    BY <1>12, DenotesIndex, Zenon
  <2>2. a \in Denotes(done) <=> \E i \in 1 .. n : a \in done[i].start .. done[i].end
    BY <1>1, DenotesIndex, Zenon
  <2>3. m[n] = join /\ \A i \in 1 .. n : i # n => m[i] = done[i]
    BY <1>2, <1>13, Zenon
  <2> QED BY <1>2, <1>3, <1>9, <2>1, <2>2, <2>3, Zenon
<1>19. Denotes(m) = Denotes(done) \cup (next.start .. next.end)
  BY <1>18, Zenon
<1> QED BY <1>10, <1>12, <1>14, <1>16, <1>17, <1>19, Zenon

\* Either way the loop adds the next range and keeps the result apart.
LEMMA MergeStep ==
  ASSUME NEW done \in Seq(AddrRange), NEW next \in AddrRange,
         Apart(done), StartBy(done, next.start)
  PROVE  /\ Merge(done, next) \in Seq(AddrRange) /\ Merge(done, next) # <<>>
         /\ Apart(Merge(done, next)) /\ StartBy(Merge(done, next), next.start)
         /\ Denotes(Merge(done, next)) = Denotes(done) \cup (next.start .. next.end)
<1>1. next.start \in 0 .. MaxIP
  BY AddrRangeFacts
<1>2. CASE done = <<>>
  <2>1. Merge(done, next) = Append(done, next)
    BY <1>2, Zenon DEF Merge
  <2> QED BY <1>2, <2>1, MergeAppends, Zenon
<1>3. CASE done # <<>>
  <2>1. PICK cur \in AddrRange : cur = done[Len(done)]
    BY <1>3
  <2>2. cur.end \in 0 .. MaxIP
    BY AddrRangeFacts
  <2>3. (cur.end >= next.start \/ NextIP(cur.end) = next.start) <=> cur.end + 1 >= next.start
    BY <1>1, <2>2, MaxIPAssumption DEF NextIP, NextIPWithOffset, NoIP
  <2>4. CASE cur.end + 1 >= next.start
    <3>1. Merge(done, next) = [done EXCEPT ![Len(done)] = Join(done[Len(done)], next)]
      BY <1>3, <2>1, <2>3, <2>4, Zenon DEF Merge
    <3>2. done[Len(done)].end + 1 >= next.start
      BY <2>1, <2>4, Zenon
    <3> QED BY <1>3, <3>1, <3>2, MergeExtends, Zenon
  <2>5. CASE ~(cur.end + 1 >= next.start)
    <3>1. Merge(done, next) = Append(done, next)
      BY <2>1, <2>3, <2>5, Zenon DEF Merge
    <3>2. done[Len(done)].end + 1 < next.start
      BY <1>1, <2>1, <2>2, <2>5, MaxIPAssumption
    <3> QED BY <3>1, <3>2, MergeAppends, Zenon
  <2> QED BY <2>4, <2>5
<1> QED BY <1>2, <1>3

\* A turn of the loop makes a list of a list.
LEMMA MergeType ==
  ASSUME NEW done \in Seq(AddrRange), NEW next \in AddrRange
  PROVE  Merge(done, next) \in Seq(AddrRange)
<1>1. Append(done, next) \in Seq(AddrRange)
  OBVIOUS
<1>2. ASSUME done # <<>>
      PROVE  [done EXCEPT ![Len(done)] = Join(done[Len(done)], next)] \in Seq(AddrRange)
  <2>1. PICK cur \in AddrRange : cur = done[Len(done)]
    BY <1>2
  <2>2. PICK join : join = Join(cur, next)
    OBVIOUS
  <2>3. /\ cur.start \in 0 .. MaxIP /\ cur.end \in 0 .. MaxIP /\ cur.start <= cur.end
        /\ next.end \in 0 .. MaxIP
    BY AddrRangeFacts
  <2>4. /\ join \in IntRange /\ join.start = cur.start
        /\ join.end = (IF cur.end < next.end THEN next.end ELSE cur.end)
    BY <2>2, <2>3, MaxIPAssumption DEF Join, IntRange
  <2>5. join \in AddrRange
    BY <2>3, <2>4, MaxIPAssumption DEF AddrRange
  <2>6. [done EXCEPT ![Len(done)] = join] \in Seq(AddrRange)
    <3>1. PICK n \in Nat : n = Len(done) /\ done \in [1 .. n -> AddrRange]
      OBVIOUS
    <3>2. [done EXCEPT ![n] = join] \in [1 .. n -> AddrRange]
      BY <2>5, <3>1, Zenon
    <3>3. [done EXCEPT ![n] = join] \in Seq(AddrRange)
      BY <3>2, IsASeq, Zenon
    <3> QED BY <3>1, <3>3, Zenon
  <2> QED BY <2>1, <2>2, <2>6, Zenon
<1> QED BY <1>1, <1>2, Zenon DEF Merge

\* MergeExcludeRanges denotes the same addresses with ranges that are in
\* order, do not overlap and are not adjacent.
THEOREM MergeFacts ==
  ASSUME NEW rs \in Seq(AddrRange)
  PROVE  LET m == MergeExcludeRanges(rs)
         IN  m \in Seq(AddrRange) /\ Apart(m) /\ Denotes(m) = Denotes(rs)
<1> DEFINE N == Len(rs)
           sorted == Sorted(rs)
           X == Seq(AddrRange)
           turn == [n \in 1 .. N |-> [x \in X |-> Merge(x, sorted[n])]]
           Upto(k) == UNION {sorted[n].start .. sorted[n].end : n \in 1 .. k}
<1>1. N \in Nat
  OBVIOUS
<1>2. rs \in Seq(IntRange)
  BY AddrRangeSeq, Zenon
<1>3. /\ sorted \in Seq(IntRange) /\ Len(sorted) = N /\ Elems(sorted) = Elems(rs)
      /\ \A i, j \in 1 .. N : i < j => sorted[i].start <= sorted[j].start
  BY <1>2, SortedFacts, Zenon
<1> HIDE DEF N, sorted
<1>4. \A n \in 1 .. N : sorted[n] \in AddrRange
  <2>1. DOMAIN sorted = 1 .. N
    BY <1>3
  <2>2. Elems(rs) \subseteq AddrRange
    BY ElemsType, Zenon
  <2> QED BY <1>3, <2>1, <2>2, Zenon DEF Elems
<1>5. <<>> \in X
  OBVIOUS
<1> HIDE DEF X
\* The result after n turns.
<1> DEFINE Body(g) == [n \in 0 .. N |-> IF n = 0 THEN <<>> ELSE Merge(g[n - 1], sorted[n])]
           Good(n, x) == /\ x \in X /\ Apart(x) /\ Denotes(x) = Upto(n)
                         /\ n \in 1 .. N => StartBy(x, sorted[n].start)
<1>6. ASSUME NEW n \in 1 .. N, NEW x, Good(n - 1, x)
      PROVE  Good(n, Merge(x, sorted[n]))
  <2>1. sorted[n] \in AddrRange /\ x \in Seq(AddrRange) /\ Apart(x)
    BY <1>4, <1>6, Zenon DEF X
  <2>2. StartBy(x, sorted[n].start)
    <3>1. CASE n - 1 \in 1 .. N
      <4>1. \A i \in 1 .. Len(x) : x[i].start <= sorted[n - 1].start
        BY <1>6, <3>1, Zenon DEF StartBy
      <4>2. n - 1 < n
        OBVIOUS
      <4>3. sorted[n - 1].start <= sorted[n].start
        BY <1>3, <3>1, <4>2, Zenon
      <4>4. sorted[n - 1].start \in Int /\ sorted[n].start \in Int
        BY <1>4, <3>1, AddrRangeFacts, Zenon
      <4>5. \A i \in 1 .. Len(x) : x[i] \in AddrRange
        BY <2>1
      <4>6. \A i \in 1 .. Len(x) : x[i].start \in Int
        BY <4>5, AddrRangeFacts, Zenon
      <4>7. \A p, q, r \in Int : p <= q /\ q <= r => p <= r
        OBVIOUS
      <4> QED BY <4>1, <4>3, <4>4, <4>6, <4>7, Zenon DEF StartBy
    <3>2. CASE n - 1 = 0
      <4>1. Denotes(x) = {}
        <5>1. Denotes(x) = Upto(n - 1)
          BY <1>6, Zenon
        <5>2. 1 .. n - 1 = {}
          BY <3>2
        <5> QED BY <5>1, <5>2, Zenon
      <4>2. ASSUME NEW i \in 1 .. Len(x)
            PROVE  FALSE
        <5>1. x[i] \in AddrRange
          BY <2>1
        <5>2. x[i].start \in x[i].start .. x[i].end
          BY <5>1, AddrRangeFacts
        <5>3. x[i].start \in Denotes(x)
          BY <2>1, <5>2, DenotesIndex, Zenon
        <5> QED BY <4>1, <5>3, Zenon
      <4> QED BY <4>2, Zenon DEF StartBy
    <3> QED BY <1>1, <3>1, <3>2
  <2>3. /\ Merge(x, sorted[n]) \in Seq(AddrRange) /\ Apart(Merge(x, sorted[n]))
        /\ StartBy(Merge(x, sorted[n]), sorted[n].start)
        /\ Denotes(Merge(x, sorted[n])) = Denotes(x) \cup (sorted[n].start .. sorted[n].end)
    BY <2>1, <2>2, MergeStep, Zenon
  <2>4. 1 .. n = (1 .. n - 1) \cup {n}
    BY <1>1
  <2>5. Upto(n) = Upto(n - 1) \cup (sorted[n].start .. sorted[n].end)
    BY <2>4, Zenon
  <2>6. Denotes(x) = Upto(n - 1)
    BY <1>6, Zenon
  <2> HIDE DEF Upto
  <2> QED BY <2>3, <2>5, <2>6, Zenon DEF X
<1>7. PICK f : IsRun(N, X, <<>>, turn, f)
  <2>1. \A n \in 1 .. N : \A x \in X : Merge(x, sorted[n]) \in X
    BY <1>4, MergeType, Zenon DEF X
  <2>2. turn \in Turns(N, X)
    BY <2>1, Zenon DEF Turns
  <2> HIDE DEF turn
  <2> QED BY <1>1, <1>5, <2>2, LoopRuns, Zenon
<1> DEFINE g == CHOOSE g : g = Body(g)
<1>8. f = Body(f)
  <2>1. f \in [0 .. N -> X] /\ f[0] = <<>> /\ \A n \in 1 .. N : f[n] = turn[n][f[n - 1]]
    BY <1>7, Zenon DEF IsRun
  <2>2. ASSUME NEW n \in 0 .. N
        PROVE  f[n] = IF n = 0 THEN <<>> ELSE Merge(f[n - 1], sorted[n])
    <3>1. CASE n = 0
      BY <2>1, <3>1, Zenon
    <3>2. CASE n # 0
      <4>1. n \in 1 .. N /\ n - 1 \in 0 .. N
        BY <1>1, <3>2
      <4>2. f[n - 1] \in X
        BY <2>1, <4>1, Zenon
      <4> QED BY <2>1, <3>2, <4>1, <4>2, Zenon
    <3> QED BY <3>1, <3>2
  <2>3. f = [n \in 0 .. N |-> f[n]]
    BY <2>1, Zenon
  <2> QED BY <2>2, <2>3, Zenon
<1>9. g = Body(g)
  BY <1>8, Zenon
<1>10. MergeExcludeRanges(rs) = g[N]
  BY Zenon DEF MergeExcludeRanges, N, sorted
<1> HIDE DEF g
<1>11. \A n \in 0 .. N : g[n] = IF n = 0 THEN <<>> ELSE Merge(g[n - 1], sorted[n])
  <2>1. \A n \in 0 .. N : Body(g)[n] = IF n = 0 THEN <<>> ELSE Merge(g[n - 1], sorted[n])
    BY Zenon
  <2> HIDE DEF Body
  <2> QED BY <1>9, <2>1, Zenon
<1> HIDE DEF Body, turn
<1> DEFINE S == {n \in 0 .. N : Good(n, g[n])}
<1>12. 0 \in S
  <2>1. g[0] = <<>> /\ 0 \in 0 .. N /\ 0 \notin 1 .. N /\ 1 .. 0 = {}
    BY <1>1, <1>11
  <2>2. Apart(<<>>) /\ Denotes(<<>>) = {}
    BY DEF Apart, Denotes
  <2>3. Upto(0) = {}
    BY <2>1, Zenon
  <2> HIDE DEF Upto
  <2> QED BY <1>5, <2>1, <2>2, <2>3, Zenon
<1>13. ASSUME NEW n \in 0 .. N - 1, n \in S
       PROVE  n + 1 \in S
  <2>1. n + 1 \in 1 .. N /\ n + 1 \in 0 .. N /\ (n + 1) - 1 = n /\ n + 1 # 0
    BY <1>1
  <2>2. g[n + 1] = Merge(g[n], sorted[n + 1])
    BY <1>11, <2>1, Zenon
  <2> HIDE DEF Good
  <2>3. Good((n + 1) - 1, g[n])
    BY <1>13, <2>1, Zenon
  <2>4. Good(n + 1, Merge(g[n], sorted[n + 1]))
    BY <1>6, <2>1, <2>3, Zenon
  <2> QED BY <2>1, <2>2, <2>4, Zenon
<1>14. Good(N, g[N])
  <2> HIDE DEF S
  <2>1. 0 .. N \subseteq S
    BY <1>1, <1>12, <1>13, LoopInduction, Zenon
  <2>2. N \in S
    BY <1>1, <2>1
  <2> QED BY <2>2, Zenon DEF S
<1>15. Upto(N) = Denotes(rs)
  <2>1. Denotes(sorted) = Denotes(rs)
    BY <1>3, SameDenotes, Zenon
  <2>2. DOMAIN sorted = 1 .. N
    BY <1>3
  <2> QED BY <2>1, <2>2, Zenon DEF Denotes
<1> HIDE DEF Upto
<1> QED BY <1>10, <1>14, <1>15, Zenon DEF X

\* Merged ranges cover an interval exactly when the first of them does and
\* there is no other in it.
LEMMA OneRangeCovers ==
  ASSUME NEW m \in Seq(AddrRange), Apart(m), NEW lo \in Int, NEW hi \in Int, lo <= hi,
         Denotes(m) \subseteq lo .. hi
  PROVE  (Len(m) = 1 /\ m[1].start <= lo /\ m[1].end >= hi) <=> lo .. hi \subseteq Denotes(m)
<1>1. PICK N \in Nat : N = Len(m)
  OBVIOUS
<1>2. \A i \in 1 .. N : m[i] \in AddrRange
  BY <1>1
<1>3. \A i \in 1 .. N : m[i].start \in Int /\ m[i].end \in Int /\ m[i].start <= m[i].end
  BY <1>2, AddrRangeFacts, Zenon
<1>4. \A a : a \in Denotes(m) <=> \E i \in 1 .. N : a \in m[i].start .. m[i].end
  BY <1>1, DenotesIndex, Zenon
<1>5. ASSUME N = 1, m[1].start <= lo, m[1].end >= hi, NEW a \in lo .. hi
      PROVE  a \in Denotes(m)
  <2>1. 1 \in 1 .. N /\ a \in m[1].start .. m[1].end
    BY <1>3, <1>5
  <2> QED BY <1>4, <2>1, Zenon
<1>6. ASSUME lo .. hi \subseteq Denotes(m)
      PROVE  N = 1 /\ m[1].start <= lo /\ m[1].end >= hi
  <2>1. PICK i \in 1 .. N : lo \in m[i].start .. m[i].end
    BY <1>4, <1>6
  <2>2. 1 \in 1 .. N
    BY <1>1
  <2>3. PICK s \in Int, e \in Int : s = m[1].start /\ e = m[1].end /\ s <= e
    BY <1>3, <2>2
  <2>4. e \in lo .. hi
    <3>1. e \in s .. e
      BY <2>3
    <3> QED BY <1>4, <2>2, <2>3, <3>1, Zenon
  <2>5. ASSUME NEW j \in 1 .. N, j # 1
        PROVE  e + 1 < m[j].start
    <3>1. 1 < j
      BY <2>5
    <3> QED BY <1>1, <2>2, <2>3, <3>1, Zenon DEF Apart
  <2>6. e = hi
    <3> SUFFICES ASSUME e + 1 \in lo .. hi PROVE FALSE
      BY <2>4
    <3>1. PICK j \in 1 .. N : e + 1 \in m[j].start .. m[j].end
      BY <1>4, <1>6, SMTT(30)
    <3>2. m[j].start \in Int /\ m[j].end \in Int /\ m[j].start <= e + 1
      BY <1>3, <3>1
    <3>3. j # 1
      BY <2>3, <3>1
    <3> QED BY <2>3, <2>5, <3>2, <3>3
  <2>7. i = 1
    <3> SUFFICES ASSUME i # 1 PROVE FALSE
      OBVIOUS
    <3>1. m[i].start \in Int /\ m[i].start <= lo
      BY <1>3, <2>1
    <3>2. e + 1 < m[i].start
      BY <2>5
    <3> QED BY <2>3, <2>4, <3>1, <3>2
  <2>8. N = 1
    <3> SUFFICES ASSUME 2 \in 1 .. N PROVE FALSE
      BY <1>1, <2>2
    <3>1. m[2].start \in Int /\ m[2].end \in Int /\ m[2].start <= m[2].end
      BY <1>3
    <3>2. m[2].start \in Denotes(m)
      <4>1. m[2].start \in m[2].start .. m[2].end
        BY <3>1
      <4> QED BY <1>4, <4>1, Zenon
    <3>3. e + 1 < m[2].start
      BY <2>5
    <3> QED BY <2>3, <2>6, <3>1, <3>2, <3>3
  <2>9. m[1].start <= lo
    BY <1>3, <2>1, <2>7
  <2> QED BY <2>3, <2>6, <2>8, <2>9
<1> QED BY <1>1, <1>5, <1>6

\* isEntireRangeExcluded and isPrefixFullyExcluded answer whether every
\* address from lo to hi is in an exclusion, global or per node.
THEOREM FullyExcludedIs ==
  ASSUME NEW excl \in Seq(AddrRange), NEW perNode \in Seq(IntRange),
         NEW index0 \in 0 .. MaxIP, NEW lo \in 0 .. MaxIP, NEW hi \in 0 .. MaxIP, lo <= hi,
         \A q \in Elems(perNode) : 0 <= q.start /\ q.start <= q.end /\ index0 + q.end <= MaxIP
  PROVE  FullyExcluded(excl, perNode, index0, lo, hi)
           <=> \A a \in lo .. hi : a \in Denotes(excl) \/ a - index0 \in Denotes(perNode)
<1>1. PICK ix : ix = ExcludeIndexRangeToExcludeRange(perNode, index0)
  OBVIOUS
<1>2. /\ ix \in Seq(IntRange)
      /\ \A r \in Elems(ix) :
             \E q \in Elems(perNode) : r.start = index0 + q.start /\ r.end = index0 + q.end
      /\ \A q \in Elems(perNode) :
             \E r \in Elems(ix) : r.start = index0 + q.start /\ r.end = index0 + q.end
  BY <1>1, IndexFacts, Zenon
<1>3. \A q \in Elems(perNode) : q.start \in Int /\ q.end \in Int
  <2>1. Elems(perNode) \subseteq IntRange
    BY ElemsType, Zenon
  <2>2. \A q \in IntRange : q.start \in Int /\ q.end \in Int
    BY DEF IntRange
  <2> QED BY <2>1, <2>2, Zenon
<1>4. ix \in Seq(AddrRange)
  <2>1. ASSUME NEW r \in Elems(ix)
        PROVE  0 <= r.start /\ r.start <= r.end /\ r.end <= MaxIP
    <3>1. PICK q \in Elems(perNode) : r.start = index0 + q.start /\ r.end = index0 + q.end
      BY <1>2, Zenon
    <3> QED BY <1>3, <3>1, MaxIPAssumption
  <2> QED BY <1>2, <2>1, IsAddrRangeSeq, Zenon
<1>5. ASSUME NEW a \in Int
      PROVE  a \in Denotes(ix) <=> a - index0 \in Denotes(perNode)
  <2>1. \A q \in Elems(perNode) :
            a \in (index0 + q.start) .. (index0 + q.end) <=> a - index0 \in q.start .. q.end
    BY <1>3
  <2>2. ASSUME a \in Denotes(ix)
        PROVE  a - index0 \in Denotes(perNode)
    <3>1. PICK r \in Elems(ix) : a \in r.start .. r.end
      BY <2>2, DenotesElems, Zenon
    <3>2. PICK q \in Elems(perNode) : r.start = index0 + q.start /\ r.end = index0 + q.end
      BY <1>2, Zenon
    <3>3. a - index0 \in q.start .. q.end
      BY <2>1, <3>1, <3>2, Zenon
    <3> QED BY <3>3, DenotesElems, Zenon
  <2>3. ASSUME a - index0 \in Denotes(perNode)
        PROVE  a \in Denotes(ix)
    <3>1. PICK q \in Elems(perNode) : a - index0 \in q.start .. q.end
      BY <2>3, DenotesElems, Zenon
    <3>2. PICK r \in Elems(ix) : r.start = index0 + q.start /\ r.end = index0 + q.end
      BY <1>2, Zenon
    <3>3. a \in r.start .. r.end
      BY <2>1, <3>1, <3>2, Zenon
    <3> QED BY <3>3, DenotesElems, Zenon
  <2> QED BY <2>2, <2>3
<1>6. PICK all : all = excl \o ix
  BY Zenon
<1>7. all \in Seq(AddrRange)
  BY <1>4, <1>6
<1>8. Denotes(all) = Denotes(excl) \cup Denotes(ix)
  <2>1. Elems(all) = Elems(excl) \cup Elems(ix)
    BY <1>4, <1>6, ElemsOfAppend, ZenonT(60)
  <2>2. \A a : a \in Denotes(all) <=> a \in Denotes(excl) \/ a \in Denotes(ix)
    BY <2>1, DenotesElems, Zenon
  <2> QED BY <2>2, Zenon
<1>9. PICK c : c = ClampExcludeRanges(all, lo, hi)
  OBVIOUS
<1>10. lo \in Int /\ hi \in Int
  BY MaxIPAssumption
<1>11. /\ c \in Seq(IntRange) /\ Denotes(c) = Denotes(all) \cap (lo .. hi)
       /\ \A r \in Elems(c) : lo <= r.start /\ r.start <= r.end /\ r.end <= hi
  <2>1. all \in Seq(IntRange) /\ InOrder(all)
    BY <1>7, AddrRangeSeq, Zenon
  <2> QED BY <1>9, <1>10, <2>1, ClampFacts, Zenon
<1>12. c \in Seq(AddrRange)
  <2>1. ASSUME NEW r \in Elems(c)
        PROVE  0 <= r.start /\ r.start <= r.end /\ r.end <= MaxIP
    <3>1. r \in IntRange
      BY <1>11, ElemsType, Zenon
    <3>2. r.start \in Int /\ r.end \in Int
      BY <3>1 DEF IntRange
    <3> QED BY <1>11, <3>2, MaxIPAssumption
  <2> QED BY <1>11, <2>1, IsAddrRangeSeq, Zenon
<1>13. PICK m : m = MergeExcludeRanges(c)
  OBVIOUS
<1>14. m \in Seq(AddrRange) /\ Apart(m) /\ Denotes(m) = Denotes(c)
  BY <1>12, <1>13, MergeFacts, Zenon
<1>15. FullyExcluded(excl, perNode, index0, lo, hi)
         <=> (Len(m) = 1 /\ m[1].start <= lo /\ m[1].end >= hi)
  BY <1>1, <1>6, <1>9, <1>13, Zenon DEF FullyExcluded
<1>16. (Len(m) = 1 /\ m[1].start <= lo /\ m[1].end >= hi) <=> lo .. hi \subseteq Denotes(m)
  <2>1. Denotes(m) \subseteq lo .. hi
    BY <1>11, <1>14, Zenon
  <2> QED BY <1>10, <1>14, <2>1, OneRangeCovers, Zenon
<1>17. lo .. hi \subseteq Denotes(m)
         <=> \A a \in lo .. hi : a \in Denotes(excl) \/ a \in Denotes(ix)
  BY <1>8, <1>11, <1>14, Zenon
<1>18. \A a \in lo .. hi : a \in Int
  BY <1>10
<1> QED BY <1>5, <1>15, <1>16, <1>17, <1>18, Zenon
-----------------------------------------------------------------------------
(***************************************************************************)
(* The sweep of ExcludeIndexRangesCover.                                   *)
(***************************************************************************)

\* ExcludeIndexRangesCover reports whether the exclusions cover every index
\* from 0 to lastIndex.
THEOREM CoverIs ==
  ASSUME NEW is \in Seq(IntRange), NEW L \in Nat,
         \A r \in Elems(is) : 0 <= r.start /\ r.start <= r.end
  PROVE  ExcludeIndexRangesCover(is, L) <=> 0 .. L \subseteq Denotes(is)
<1> DEFINE N == Len(is)
           sorted == Sorted(is)
           turn == [n \in 1 .. N |-> [c \in Int |-> Cover(c, sorted[n], L)]]
           Body(g) == [n \in 0 .. N |-> IF n = 0 THEN -1 ELSE Cover(g[n - 1], sorted[n], L)]
<1>1. N \in Nat
  OBVIOUS
<1>2. /\ sorted \in Seq(IntRange) /\ Len(sorted) = N /\ Elems(sorted) = Elems(is)
      /\ \A i, j \in 1 .. N : i < j => sorted[i].start <= sorted[j].start
  BY SortedFacts, Zenon
<1>a. is # <<>> <=> N # 0
  OBVIOUS
<1> HIDE DEF N, sorted
<1>3. \A n \in 1 .. N : /\ sorted[n].start \in Int /\ sorted[n].end \in Int
                        /\ 0 <= sorted[n].start /\ sorted[n].start <= sorted[n].end
  <2>1. \A n \in 1 .. N : sorted[n] \in IntRange /\ n \in DOMAIN sorted
    BY <1>2
  <2>2. \A n \in 1 .. N : sorted[n] \in Elems(is)
    BY <1>2, <2>1, Zenon DEF Elems
  <2>3. \A q \in IntRange : q.start \in Int /\ q.end \in Int
    BY DEF IntRange
  <2> QED BY <2>1, <2>2, <2>3, Zenon
<1>4. \A a : a \in Denotes(is) <=> \E i \in 1 .. N : a \in sorted[i].start .. sorted[i].end
  <2>1. Denotes(sorted) = Denotes(is)
    BY <1>2, SameDenotes, Zenon
  <2> QED BY <1>2, <2>1, DenotesIndex, Zenon
<1>5. PICK f : IsRun(N, Int, -1, turn, f)
  <2>1. ASSUME NEW n \in 1 .. N, NEW c \in Int
        PROVE  Cover(c, sorted[n], L) \in Int
    BY <1>3 DEF Cover, Gap
  <2>2. turn \in Turns(N, Int)
    BY <2>1, Zenon DEF Turns
  <2>3. -1 \in Int
    OBVIOUS
  <2> HIDE DEF turn
  <2> QED BY <1>1, <2>2, <2>3, LoopRuns, Zenon
<1> DEFINE g == CHOOSE g : g = Body(g)
<1>6. f = Body(f)
  <2>1. f \in [0 .. N -> Int] /\ f[0] = -1 /\ \A n \in 1 .. N : f[n] = turn[n][f[n - 1]]
    BY <1>5, Zenon DEF IsRun
  <2>2. ASSUME NEW n \in 0 .. N
        PROVE  f[n] = IF n = 0 THEN -1 ELSE Cover(f[n - 1], sorted[n], L)
    <3>1. CASE n = 0
      BY <2>1, <3>1, Zenon
    <3>2. CASE n # 0
      <4>1. n \in 1 .. N /\ n - 1 \in 0 .. N
        BY <1>1, <3>2
      <4>2. f[n - 1] \in Int
        BY <2>1, <4>1, Zenon
      <4> QED BY <2>1, <3>2, <4>1, <4>2, Zenon
    <3> QED BY <3>1, <3>2
  <2>3. f = [n \in 0 .. N |-> f[n]]
    BY <2>1, Zenon
  <2> QED BY <2>2, <2>3, Zenon
<1>7. g = Body(g)
  BY <1>6, Zenon
<1>8. ExcludeIndexRangesCover(is, L) <=> is # <<>> /\ g[N] >= L
  BY Zenon DEF ExcludeIndexRangesCover, N, sorted
<1> HIDE DEF g
<1>9. \A n \in 0 .. N : g[n] = IF n = 0 THEN -1 ELSE Cover(g[n - 1], sorted[n], L)
  <2>1. \A n \in 0 .. N : Body(g)[n] = IF n = 0 THEN -1 ELSE Cover(g[n - 1], sorted[n], L)
    BY Zenon
  <2> HIDE DEF Body
  <2> QED BY <1>7, <2>1, Zenon
<1> HIDE DEF Body, turn
\* After n ranges: the sweep has met a gap, or c is covered up to, and below
\* L no range handled reaches further.
<1> DEFINE Good(n, c) ==
        /\ c \in Int /\ (c = -2 \/ c >= -1)
        /\ c # -2 => \A a \in 0 .. c : \E i \in 1 .. n : a \in sorted[i].start .. sorted[i].end
        /\ c # -2 /\ c < L => \A i \in 1 .. n : sorted[i].end <= c
        /\ c = -2 => \E a \in 0 .. L : a \notin Denotes(is)
<1>10. ASSUME NEW n \in 1 .. N, NEW c, Good(n - 1, c)
       PROVE  Good(n, Cover(c, sorted[n], L))
  <2>1. PICK s \in Int, e \in Int : s = sorted[n].start /\ e = sorted[n].end /\ 0 <= s /\ s <= e
    BY <1>3
  <2>2. c \in Int /\ (c = -2 \/ c >= -1)
    BY <1>10, Zenon
  <2>3. \A i : i \in 1 .. n <=> i \in 1 .. n - 1 \/ i = n
    BY <1>1
  <2>4. c # -2 => \A a \in 0 .. c : \E i \in 1 .. n - 1 : a \in sorted[i].start .. sorted[i].end
    BY <1>10, Zenon
  <2>5. c # -2 /\ c < L => \A i \in 1 .. n - 1 : sorted[i].end <= c
    BY <1>10, Zenon
  <2>6. c = -2 => \E a \in 0 .. L : a \notin Denotes(is)
    BY <1>10, Zenon
  <2>7. CASE c = -2 \/ c >= L
    <3>1. Cover(c, sorted[n], L) = c
      BY <2>7 DEF Cover, Gap
    <3>2. ~(c # -2 /\ c < L)
      BY <2>2, <2>7
    <3> QED BY <2>2, <2>3, <2>4, <2>6, <3>1, <3>2, Zenon
  <2>8. CASE c # -2 /\ c < L /\ s > c + 1
    <3>1. Cover(c, sorted[n], L) = -2
      BY <2>1, <2>2, <2>8 DEF Cover, Gap
    <3>2. c + 1 \in 0 .. L
      BY <2>2, <2>8
    <3>3. ASSUME NEW i \in 1 .. N
          PROVE  c + 1 \notin sorted[i].start .. sorted[i].end
      <4>1. CASE i \in 1 .. n - 1
        <5>1. sorted[i].end <= c /\ sorted[i].start \in Int /\ sorted[i].end \in Int
          BY <1>3, <2>5, <2>8, <4>1, Zenon
        <5> QED BY <2>2, <5>1
      <4>2. CASE i \notin 1 .. n - 1
        <5>1. i = n \/ n < i
          BY <4>2
        <5>2. sorted[i].start \in Int /\ sorted[i].end \in Int
          BY <1>3, Zenon
        <5>3. i = n \/ s <= sorted[i].start
          BY <1>2, <2>1, <5>1, Zenon
        <5>4. s <= sorted[i].start
          BY <2>1, <5>3
        <5> QED BY <2>1, <2>2, <2>8, <5>2, <5>4
      <4> QED BY <4>1, <4>2
    <3>4. c + 1 \notin Denotes(is)
      BY <1>4, <3>3, Zenon
    <3>5. -2 \in Int
      OBVIOUS
    <3> QED BY <3>1, <3>2, <3>4, <3>5, Zenon
  <2>9. CASE c # -2 /\ c < L /\ ~(s > c + 1)
    <3>1. PICK d \in Int : d = (IF e > c THEN e ELSE c)
      BY <2>1, <2>2
    <3>2. Cover(c, sorted[n], L) = d
      BY <2>1, <2>2, <2>9, <3>1, SMTT(30) DEF Cover, Gap
    <3>3. d >= -1 /\ d # -2
      BY <2>1, <2>2, <2>9, <3>1
    <3>4. ASSUME NEW a \in 0 .. d
          PROVE  \E i \in 1 .. n : a \in sorted[i].start .. sorted[i].end
      <4>1. a \in 0 .. c \/ a \in s .. e
        BY <2>1, <2>2, <2>9, <3>1
      <4> QED BY <2>1, <2>3, <2>4, <2>9, <4>1, Zenon
    <3>5. ASSUME NEW i \in 1 .. n
          PROVE  sorted[i].end <= d
      <4>1. CASE i = n
        BY <2>1, <2>2, <3>1, <4>1
      <4>2. CASE i \in 1 .. n - 1
        <5>1. i \in 1 .. N
          BY <1>1, <4>2
        <5>2. sorted[i].end <= c /\ sorted[i].end \in Int
          BY <1>3, <2>5, <2>9, <4>2, <5>1, Zenon
        <5> QED BY <2>1, <2>2, <3>1, <5>2
      <4> QED BY <2>3, <4>1, <4>2
    <3> QED BY <3>2, <3>3, <3>4, <3>5, Zenon
  <2> QED BY <2>2, <2>7, <2>8, <2>9, <2>1
<1>11. Good(N, g[N])
  <2> DEFINE S == {n \in 0 .. N : Good(n, g[n])}
  <2>1. 0 \in S
    <3>1. 0 \in 0 .. N /\ g[0] = -1
      BY <1>1, <1>9
    <3>2. Good(0, -1)
      OBVIOUS
    <3> HIDE DEF Good
    <3> QED BY <3>1, <3>2, Zenon
  <2>2. ASSUME NEW n \in 0 .. N - 1, n \in S
        PROVE  n + 1 \in S
    <3>1. n + 1 \in 1 .. N /\ n + 1 \in 0 .. N /\ (n + 1) - 1 = n /\ n + 1 # 0
      BY <1>1
    <3>2. g[n + 1] = Cover(g[n], sorted[n + 1], L)
      BY <1>9, <3>1, Zenon
    <3> HIDE DEF Good
    <3>3. Good((n + 1) - 1, g[n])
      BY <2>2, <3>1, Zenon
    <3>4. Good(n + 1, Cover(g[n], sorted[n + 1], L))
      BY <1>10, <3>1, <3>3, Zenon
    <3> QED BY <3>1, <3>2, <3>4, Zenon
  <2> HIDE DEF S
  <2>3. 0 .. N \subseteq S
    BY <1>1, <2>1, <2>2, LoopInduction, Zenon
  <2>4. N \in S
    BY <1>1, <2>3
  <2> QED BY <2>4, Zenon DEF S
<1>12. PICK c \in Int : c = g[N] /\ (c = -2 \/ c >= -1)
  BY <1>11, Zenon
<1>13. ASSUME c >= L
       PROVE  0 .. L \subseteq Denotes(is) /\ N # 0
  <2>1. c # -2 /\ \A a \in 0 .. L : a \in 0 .. c
    BY <1>13
  <2>2. \A a \in 0 .. c : \E i \in 1 .. N : a \in sorted[i].start .. sorted[i].end
    BY <1>11, <1>12, <2>1, Zenon
  <2>3. 0 \in 0 .. c
    BY <1>13
  <2>4. PICK i \in 1 .. N : TRUE
    BY <2>2, <2>3, Zenon
  <2>5. N # 0
    BY <1>1, <2>4
  <2> QED BY <1>4, <2>1, <2>2, <2>5, Zenon
<1>14. ASSUME ~(c >= L)
       PROVE  ~(0 .. L \subseteq Denotes(is))
  <2>1. CASE c = -2
    BY <1>11, <1>12, <2>1, Zenon
  <2>2. CASE c # -2
    <3>1. c < L /\ c + 1 \in 0 .. L
      BY <1>12, <1>14, <2>2
    <3>2. \A i \in 1 .. N : sorted[i].end <= c
      BY <1>11, <1>12, <2>2, <3>1, Zenon
    <3>3. \A i \in 1 .. N : c + 1 \notin sorted[i].start .. sorted[i].end
      BY <1>3, <3>2
    <3> QED BY <1>4, <3>1, <3>3, Zenon
  <2> QED BY <2>1, <2>2
<1> HIDE DEF Good
<1> QED BY <1>a, <1>8, <1>12, <1>13, <1>14, Zenon
-----------------------------------------------------------------------------
(***************************************************************************)
(* Blocks and prefixes begin at multiples of their size.                   *)
(***************************************************************************)

\* Division with a remainder.
LEMMA DivFacts ==
  ASSUME NEW d \in Int, NEW z \in Int, z > 0, NEW q, q = d \div z, NEW r, r = d % z
  PROVE  q \in Int /\ r \in 0 .. z - 1 /\ d = q * z + r
OBVIOUS

\* What leaves no remainder is a multiple.
LEMMA MultipleIs ==
  ASSUME NEW x \in Int, NEW z \in Int, z > 0
  PROVE  x % z = 0 <=> \E k \in Int : x = k * z
<1>1. ASSUME NEW k \in Int, x = k * z
      PROVE x % z = 0
  BY <1>1
<1>2. ASSUME x % z = 0 PROVE \E k \in Int : x = k * z
  <2>1. PICK q, r : q = x \div z /\ r = x % z
    OBVIOUS
  <2>2. q \in Int /\ r = 0 /\ x = q * z + r
    BY <1>2, <2>1, DivFacts
  <2>3. q * z + 0 = q * z
    BY <2>2
  <2> QED BY <2>2, <2>3, Zenon
<1> QED BY <1>1, <1>2, Zenon

\* Sums of multiples are multiples.
LEMMA MultipleSum ==
  ASSUME NEW x \in Int, NEW y \in Int, NEW z \in Int, z > 0, x % z = 0, y % z = 0
  PROVE  (x + y) % z = 0
<1>1. PICK j \in Int : x = j * z
  BY MultipleIs
<1>2. PICK k \in Int : y = k * z
  BY MultipleIs
<1>3. x + y = (j + k) * z /\ j + k \in Int /\ x + y \in Int
  BY <1>1, <1>2
<1> QED BY <1>3, MultipleIs, Zenon

\* Two multiples are at least the size apart.
LEMMA MultipleGap ==
  ASSUME NEW x \in Int, NEW y \in Int, NEW z \in Int, z > 0, x % z = 0, y % z = 0, x < y
  PROVE  x + z <= y
<1>1. PICK j \in Int : x = j * z
  BY MultipleIs
<1>2. PICK k \in Int : y = k * z
  BY MultipleIs
<1>3. j < k
  <2>1. j >= k => j * z >= k * z
    OBVIOUS
  <2> QED BY <1>1, <1>2, <2>1
<1>4. (j + 1) * z <= k * z
  BY <1>3
<1>5. (j + 1) * z = j * z + z
  OBVIOUS
<1> QED BY <1>1, <1>2, <1>4, <1>5
=============================================================================
