---------------------------- MODULE CIDRPoolProofs ----------------------------
(***************************************************************************)
(* Proofs about CIDRPoolController, for any Nodes and specs: prefixes of   *)
(* different Nodes are disjoint as long as static prefixes are written the *)
(* way net.IPNet.String() writes them, a prefix is not taken from its Node *)
(* without a reason, and the controller rests only when the status is      *)
(* right.                                                                  *)
(***************************************************************************)
EXTENDS CIDRPoolController, TLAPS

\* Static prefixes have the text the code compares them by.
CanonicalStatics == \A s \in Specs : \A i \in DOMAIN s.static : s.static[i].prefix.text = "canonical"

\* A prefix on the grid of its size, in canonical text.
Placed(q) == q.size > 0 /\ q.p % q.size = 0 /\ q.text = "canonical"

Good(status) ==
    CanonicalStatics =>
        Disjoint(status) /\ \A n \in Nodes : status[n] # NoAlloc => Placed(status[n].prefix)

\* A copy o of the pool object, read when the API had it: older than the
\* next version, its prefixes disjoint, and equal to the object a of the API
\* when the versions are equal.
CopyOK(o, a, rv) ==
    o # None =>
        /\ o \in Object
        /\ o.rv < rv
        /\ Good(o.status)
        /\ a # None /\ a.rv = o.rv => o = a

\* The prefix q of Node n is a static one of n, or none of the static ones.
Origin(s, n, q) ==
    \/ \E i \in DOMAIN s.static : s.static[i].node = n /\ q = s.static[i].prefix
    \/ \A i \in DOMAIN s.static : q # s.static[i].prefix

\* Prefixes of one spec that may be written together.
Apart(s, got) ==
    /\ \A n \in Nodes : got[n] # NoAlloc =>
          got[n].prefix.size = s.size /\ Placed(got[n].prefix) /\ Origin(s, n, got[n].prefix)
    /\ \A m, n \in Nodes :
          m # n /\ got[m] # NoAlloc /\ got[n] # NoAlloc => got[m].prefix.p # got[n].prefix.p

\* An allocation that getValidExistingAllocationsMaps takes over.
Keeps(s, status, n) ==
    status[n] # NoAlloc /\ ValidAllocation(s, status, n) /\ ~isPrefixFullyExcluded(s, status[n].prefix.p)

\* The allocations got of a Reconcile that read o.
GotOK(o, match, got) ==
    /\ CanonicalStatics => Apart(o.spec, got)
    /\ \A n \in match : Keeps(o.spec, o.status, n) => got[n] = o.status[n]

\* A running Reconcile.
RecOK(r) ==
    /\ r \in Rec
    /\ r.pc # "alloc" => r.got = NoAllocations
    /\ r.pc # "idle" => r.obj # None
    /\ r.pc = "clear" => ~Validate(r.obj.spec)
    /\ r.pc = "alloc" => Validate(r.obj.spec) /\ GotOK(r.obj, r.match, r.got)

Inv ==
    /\ TypeOK
    /\ CopyOK(api, api, nextRV)
    /\ CopyOK(pool, api, nextRV)
    /\ CopyOK(rec.obj, api, nextRV)
    /\ RecOK(rec)
-----------------------------------------------------------------------------
\* Different multiples of a size are at least the size apart.
LEMMA MultiplesApart ==
  ASSUME NEW k \in Nat \ {0}, NEW x \in Int, NEW y \in Int,
         x % k = 0, y % k = 0, x < y
  PROVE  x + k <= y
<1> DEFINE i == x \div k
           j == y \div k
<1>1. i \in Int /\ j \in Int /\ x = k * i /\ y = k * j
  OBVIOUS
<1>2. i < j
  BY <1>1
<1> QED
  BY <1>1, <1>2

\* The prefixes of a CIDR are multiples of their size when its first address
\* is one.
LEMMA OnTheGrid ==
  ASSUME NEW k \in Nat \ {0}, NEW x \in Int, NEW lo \in Int, lo % k = 0, (x - lo) % k = 0
  PROVE  x % k = 0
<1> DEFINE i == lo \div k
           j == (x - lo) \div k
<1>1. i \in Int /\ j \in Int /\ lo = k * i /\ x - lo = k * j
  OBVIOUS
<1> HIDE DEF i, j
<1>2. PICK c \in Int : x = k * c
  BY <1>1, x = k * (i + j)
<1> DEFINE d == c - (x \div k)
<1>3. d \in Int /\ x % k = k * d /\ 0 <= x % k /\ x % k < k
  BY <1>2
<1> HIDE DEF d
<1>4. d = 0
  <2>1. d >= 1 => k * d >= k
    BY <1>3
  <2>2. d <= -1 => k * d <= -k
    BY <1>3
  <2> QED
    BY <1>3, <2>1, <2>2
<1> QED
  BY <1>3, <1>4

\* Allocations have prefixes with their fields.
LEMMA AllocFields ==
  ASSUME NEW a \in Alloc
  PROVE  /\ a \in [prefix : Prefix, gw : Int] /\ a.prefix \in Prefix
         /\ a.prefix.p \in Int /\ a.prefix.size \in Nat
         /\ a.prefix = [p |-> a.prefix.p, size |-> a.prefix.size, text |-> a.prefix.text]
<1>1. a \in [prefix : Prefix, gw : Int]
  BY DEF Alloc, NoAlloc, Prefix, NoGateway
<1>2. a.prefix \in Prefix
  BY <1>1
<1> QED
  BY <1>1, <1>2 DEF Prefix

\* Prefixes that lie apart in the sense of a Reconcile are disjoint.
LEMMA ApartDisjoint ==
  ASSUME NEW s \in Specs, NEW got \in [Nodes -> Alloc], Apart(s, got)
  PROVE  Disjoint(got)
<1> SUFFICES ASSUME NEW m \in Nodes, NEW n \in Nodes, m # n, got[m] # NoAlloc, got[n] # NoAlloc
             PROVE  ~Overlap(got[m].prefix, got[n].prefix)
  BY DEF Disjoint
<1> DEFINE k == s.size
           x == got[m].prefix.p
           y == got[n].prefix.p
<1>1. x \in Int /\ y \in Int /\ got[m].prefix.size \in Nat
  BY AllocFields, Zenon
<1>2. /\ got[m].prefix.size = k /\ got[n].prefix.size = k
      /\ k > 0 /\ x % k = 0 /\ y % k = 0 /\ x # y
  BY Zenon DEF Apart, Placed
<1>3. k \in Nat \ {0}
  BY <1>1, <1>2
<1> HIDE DEF k, x, y
<1>4. x < y => x + k <= y
  BY <1>1, <1>2, <1>3, MultiplesApart, Zenon
<1>5. y < x => y + k <= x
  BY <1>1, <1>2, <1>3, MultiplesApart, Zenon
<1>6. ~(x <= y + k - 1 /\ y <= x + k - 1)
  BY <1>1, <1>2, <1>3, <1>4, <1>5
<1> QED
  BY <1>2, <1>6, Zenon DEF Overlap, x, y

\* What a Reconcile writes is good.
LEMMA RecGood ==
  ASSUME NEW r, RecOK(r), r.obj \in Object
  PROVE  Good(r.got)
<1>1. CASE r.pc # "alloc"
  BY <1>1 DEF RecOK, Good, Disjoint, NoAllocations
<1>2. CASE r.pc = "alloc"
  <2> SUFFICES ASSUME CanonicalStatics
               PROVE  Disjoint(r.got) /\ \A n \in Nodes : r.got[n] # NoAlloc => Placed(r.got[n].prefix)
    BY DEF Good
  <2>1. r.got \in [Nodes -> Alloc] /\ r.obj.spec \in Specs /\ Apart(r.obj.spec, r.got)
    BY <1>2 DEF RecOK, Rec, Object, GotOK
  <2> QED
    BY <2>1, ApartDisjoint DEF Apart
<1> QED
  BY <1>1, <1>2

\* A copy stays good when the object of the API goes or gets a new version.
LEMMA CopyFrame ==
  ASSUME NEW o, NEW a, NEW b, NEW rv \in Nat, CopyOK(o, a, rv),
         b = None \/ b.rv = rv
  PROVE  CopyOK(o, b, rv + 1) /\ (b = None => CopyOK(o, b, rv))
  BY DEF CopyOK, Object

\* A step keeps the invariant when the cache and the running Reconcile are
\* good for the object it replaces.
LEMMA StepFrame ==
  ASSUME Inv, TypeOK', CopyOK(api', api', nextRV'),
         CopyOK(pool', api, nextRV), CopyOK(rec'.obj, api, nextRV), RecOK(rec'),
         \/ api' = api /\ nextRV' = nextRV
         \/ api' = None /\ nextRV' = nextRV
         \/ api' # None /\ api'.rv = nextRV /\ nextRV' = nextRV + 1
  PROVE  Inv'
<1>1. nextRV \in Nat
  BY DEF Inv, TypeOK
<1>2. CopyOK(pool', api', nextRV')
  BY <1>1, CopyFrame
<1>3. CopyOK(rec'.obj, api', nextRV')
  BY <1>1, CopyFrame, Zenon
<1> QED
  BY <1>2, <1>3 DEF Inv

\* An idle reconciler satisfies its part of the invariant.
LEMMA IdleOK ==
  ASSUME NEW a, NEW rv
  PROVE  Idle \in Rec /\ RecOK(Idle) /\ CopyOK(Idle.obj, a, rv)
<1>1. NoAllocations \in [Nodes -> Alloc]
  BY DEF NoAllocations, Alloc
<1>2. Idle \in Rec
  BY <1>1 DEF Idle, Rec
<1> QED
  BY <1>2 DEF Idle, RecOK, CopyOK

\* A pool without allocations is a good object.
LEMMA NewPoolOK ==
  ASSUME NEW v \in Nat, NEW s \in Specs, NEW o, o = [rv |-> v, spec |-> s, status |-> NoAllocations]
  PROVE  o \in Object /\ o # None /\ CopyOK(o, o, v + 1)
<1>1. NoAllocations \in [Nodes -> Alloc] /\ Good(NoAllocations)
  BY DEF NoAllocations, Alloc, Good, Disjoint
<1>2. o \in Object
  BY <1>1 DEF Object
<1>3. o # None
  BY <1>2, SpecsAssumption
<1> QED
  BY <1>1, <1>2, <1>3 DEF CopyOK

\* The initial states satisfy the invariant.
LEMMA InitInv == Init => Inv
<1> SUFFICES ASSUME Init PROVE Inv
  OBVIOUS
<1>1. api \in Object \cup {None} /\ CopyOK(api, api, nextRV)
  <2>1. CASE api = None
    BY <2>1 DEF CopyOK
  <2>2. CASE api # None
    <3>1. PICK s \in Specs : api = [rv |-> 0, spec |-> s, status |-> NoAllocations]
      BY <2>2 DEF Init
    <3>2. nextRV = 0 + 1
      BY DEF Init
    <3> QED
      BY <3>1, <3>2, NewPoolOK
  <2> QED
    BY <2>1, <2>2
<1>2. /\ nodes \in SUBSET Nodes /\ nextRV \in Nat /\ edits \in Nat
      /\ pool = api /\ seen = nodes /\ queued = TRUE /\ rec = Idle
  BY DEF Init
<1> QED
  BY <1>1, <1>2, IdleOK DEF Inv, TypeOK
-----------------------------------------------------------------------------
\* Creating or editing the pool: a new version without allocations, or with
\* those it had.
LEMMA WritePoolStep ==
  ASSUME Inv, NEW s \in Specs, WritePool(s)
  PROVE  Inv' /\ (api # None => api'.status = api.status)
<1>1. nextRV \in Nat /\ edits \in Nat
  BY DEF Inv, TypeOK
<1>2. nextRV' = nextRV + 1 /\ nodes' = nodes /\ pool' = pool /\ seen' = seen /\ queued' = queued
      /\ rec' = rec /\ edits' = edits + 1
  BY DEF WritePool, Edit
<1>3. /\ api' \in Object /\ api' # None /\ CopyOK(api', api', nextRV') /\ api'.rv = nextRV
      /\ api # None => api'.status = api.status
  <2>1. CASE api = None
    <3>1. api' = [rv |-> nextRV, spec |-> s, status |-> NoAllocations]
      BY <2>1 DEF WritePool
    <3> QED
      BY <1>1, <1>2, <2>1, <3>1, NewPoolOK
  <2>2. CASE api # None
    <3>1. api' = [api EXCEPT !.spec = s, !.rv = nextRV] /\ api \in Object /\ Good(api.status)
      BY <2>2 DEF WritePool, Inv, TypeOK, CopyOK
    <3>2. api' \in Object /\ api'.rv = nextRV /\ api'.status = api.status
      BY <1>1, <3>1, Zenon DEF Object
    <3>3. api' # None
      BY <3>2, SpecsAssumption
    <3> QED
      BY <1>1, <1>2, <3>1, <3>2, <3>3 DEF CopyOK
  <2> QED
    BY <2>1, <2>2
<1>4. TypeOK'
  BY <1>1, <1>2, <1>3 DEF Inv, TypeOK
<1>5. CopyOK(pool', api, nextRV) /\ CopyOK(rec'.obj, api, nextRV) /\ RecOK(rec')
  BY <1>2 DEF Inv
<1> QED
  BY <1>2, <1>3, <1>4, <1>5, StepFrame

\* Deleting the pool leaves the copies of it as they are.
LEMMA DeletePoolStep ==
  ASSUME Inv, DeletePool
  PROVE  Inv' /\ api' = None
<1>1. TypeOK'
  BY DEF Inv, TypeOK, DeletePool, Edit
<1>2. CopyOK(api', api', nextRV')
  BY DEF CopyOK, DeletePool
<1>3. CopyOK(pool', api, nextRV) /\ CopyOK(rec'.obj, api, nextRV) /\ RecOK(rec')
  BY DEF Inv, DeletePool
<1> QED
  BY <1>1, <1>2, <1>3, StepFrame DEF DeletePool

\* A step that leaves the API's object and the Reconcile alone, with a cache
\* that stays or takes over the object.
LEMMA QuietStep ==
  ASSUME Inv, UNCHANGED <<api, nextRV>>, pool' = pool \/ pool' = api,
         rec' = rec \/ rec' = Idle, edits' \in Nat, queued' \in BOOLEAN,
         nodes' \in SUBSET Nodes, seen' \in SUBSET Nodes
  PROVE  Inv'
<1>1. rec' \in Rec /\ RecOK(rec') /\ CopyOK(rec'.obj, api, nextRV)
  BY IdleOK DEF Inv, TypeOK
<1>2. TypeOK'
  BY <1>1 DEF Inv, TypeOK
<1>3. CopyOK(api', api', nextRV') /\ CopyOK(pool', api, nextRV)
  BY DEF Inv
<1> QED
  BY <1>1, <1>2, <1>3, StepFrame

\* Changes of Nodes, the informers and a restart.
LEMMA QuietSteps ==
  ASSUME Inv, \/ \E n \in Nodes : AddOrRemoveNode(n) \/ SyncNode(n)
              \/ Restart \/ SyncPool
  PROVE  Inv' /\ api' = api
<1>1. /\ edits \in Nat /\ queued \in BOOLEAN /\ nodes \in SUBSET Nodes /\ seen \in SUBSET Nodes
  BY DEF Inv, TypeOK
<1>2. ASSUME NEW n \in Nodes, AddOrRemoveNode(n) PROVE Inv' /\ api' = api
  <2>1. nodes' \in SUBSET Nodes /\ edits' \in Nat
    BY <1>1, <1>2 DEF AddOrRemoveNode, Edit
  <2> QED
    BY <1>1, <1>2, <2>1, QuietStep, Zenon DEF AddOrRemoveNode
<1>3. ASSUME NEW n \in Nodes, SyncNode(n) PROVE Inv' /\ api' = api
  <2>1. seen' \in SUBSET Nodes /\ queued' \in BOOLEAN
    BY <1>1, <1>3 DEF SyncNode
  <2> QED
    BY <1>1, <1>3, <2>1, QuietStep, Zenon DEF SyncNode
<1>4. CASE Restart
  <2>1. queued' \in BOOLEAN /\ edits' \in Nat
    BY <1>1, <1>4 DEF Restart, Edit
  <2> QED
    BY <1>1, <1>4, <2>1, QuietStep, Zenon DEF Restart
<1>5. CASE SyncPool
  <2>1. queued' \in BOOLEAN
    BY <1>5 DEF SyncPool
  <2> QED
    BY <1>1, <1>5, <2>1, QuietStep, Zenon DEF SyncPool
<1> QED
  BY <1>2, <1>3, <1>4, <1>5, Zenon
-----------------------------------------------------------------------------
\* What getValidExistingAllocationsMaps takes from a good copy lies apart.
LEMMA ExistingOK ==
  ASSUME NEW o \in Object, Good(o.status), Validate(o.spec), NEW match \in SUBSET Nodes, NEW got,
         got = Existing(o.spec, o.status, match)
  PROVE  got \in [Nodes -> Alloc] /\ GotOK(o, match, got)
<1> DEFINE s == o.spec
<1>1. s \in Specs /\ o.status \in [Nodes -> Alloc]
  BY DEF Object
<1>2. \A n \in Nodes : \/ got[n] = NoAlloc
                       \/ got[n] = o.status[n] /\ o.status[n] # NoAlloc /\ ValidAllocation(s, o.status, n)
  BY Zenon DEF Existing
<1>3. got \in [Nodes -> Alloc]
  BY <1>1, SMT DEF Existing, Alloc
<1>4. \A n \in match : Keeps(s, o.status, n) => got[n] = o.status[n]
  BY Zenon DEF Existing, Keeps
<1>5. ASSUME CanonicalStatics PROVE Apart(s, got)
  <2>1. Disjoint(o.status) /\ \A n \in Nodes : o.status[n] # NoAlloc => Placed(o.status[n].prefix)
    BY <1>5 DEF Good
  <2>2. ASSUME NEW n \in Nodes, got[n] # NoAlloc
        PROVE  got[n].prefix.size = s.size /\ Placed(got[n].prefix) /\ Origin(s, n, got[n].prefix)
    <3>1. got[n] = o.status[n] /\ ValidAllocation(s, o.status, n) /\ Placed(got[n].prefix)
      BY <1>2, <2>1, <2>2, Zenon
    <3>2. CASE \E i \in DOMAIN s.static : s.static[i].node = n /\ got[n].prefix = s.static[i].prefix
      BY <3>1, <3>2 DEF Validate, StaticValid, Origin
    <3>3. CASE /\ \A i \in DOMAIN s.static : ~Concerns(s.static[i], n, got[n])
               /\ got[n].prefix.size = s.size
      BY <3>1, <3>3, Zenon DEF Concerns, Origin
    <3> QED
      BY <3>1, <3>2, <3>3, Zenon DEF ValidAllocation
  <2>3. ASSUME NEW m \in Nodes, NEW n \in Nodes, m # n, got[m] # NoAlloc, got[n] # NoAlloc
        PROVE  got[m].prefix.p # got[n].prefix.p
    <3>1. got[m] = o.status[m] /\ got[n] = o.status[n]
      BY <1>2, <2>3
    <3>2. ~Overlap(got[m].prefix, got[n].prefix) /\ got[m].prefix.size > 0 /\ got[n].prefix.size > 0
      BY <2>1, <2>3, <3>1 DEF Disjoint, Placed
    <3>3. /\ got[m].prefix.p \in Int /\ got[n].prefix.p \in Int
          /\ got[m].prefix.size \in Nat /\ got[n].prefix.size \in Nat
      BY <1>3, AllocFields, Zenon
    <3> QED
      BY <3>2, <3>3 DEF Overlap
  <2> QED
    BY <2>2, <2>3 DEF Apart
<1> QED
  BY <1>3, <1>4, <1>5 DEF GotOK

\* Reconcile reads the cache and takes over the valid allocations.
LEMMA ReconcileStep ==
  ASSUME Inv, Reconcile
  PROVE  Inv' /\ api' = api
<1> DEFINE match == seen \cap pool.spec.sel
<1>1. /\ api' = api /\ nextRV' = nextRV /\ nodes' = nodes /\ edits' = edits
      /\ pool' = pool /\ seen' = seen /\ queued' = FALSE
  BY DEF Reconcile
<1>2. CopyOK(pool, api, nextRV) /\ pool \in Object \cup {None} /\ match \in SUBSET Nodes
  BY DEF Inv, TypeOK
<1>3. rec' \in Rec /\ RecOK(rec') /\ CopyOK(rec'.obj, api, nextRV)
  <2>1. CASE pool = None
    BY <2>1, IdleOK DEF Reconcile
  <2>2. CASE pool # None /\ ~Validate(pool.spec)
    <3>1. rec' = [pc |-> "clear", obj |-> pool, match |-> {}, todo |-> {}, got |-> NoAllocations]
      BY <2>2, Zenon DEF Reconcile, Idle
    <3>2. NoAllocations \in [Nodes -> Alloc]
      BY DEF NoAllocations, Alloc
    <3>3. rec' \in Rec
      BY <1>2, <3>1, <3>2 DEF Rec
    <3> QED
      BY <1>2, <2>2, <3>1, <3>3 DEF RecOK
  <2>3. CASE pool # None /\ Validate(pool.spec)
    <3> DEFINE got == Existing(pool.spec, pool.status, match)
    <3>1. rec' = [pc |-> "alloc", obj |-> pool, match |-> match, todo |-> match, got |-> got]
      BY <2>3 DEF Reconcile
    <3>2. pool \in Object /\ Good(pool.status)
      BY <1>2, <2>3 DEF CopyOK
    <3>3. got \in [Nodes -> Alloc] /\ GotOK(pool, match, got)
      BY <1>2, <2>3, <3>2, ExistingOK
    <3> HIDE DEF got, match
    <3>4. rec' \in Rec
      BY <1>2, <3>1, <3>2, <3>3 DEF Rec
    <3> QED
      BY <1>2, <2>3, <3>1, <3>3, <3>4 DEF RecOK
  <2> QED
    BY <2>1, <2>2, <2>3
<1>4. TypeOK' /\ CopyOK(api', api', nextRV') /\ CopyOK(pool', api, nextRV)
  BY <1>1, <1>3, Zenon DEF Inv, TypeOK
<1> QED
  BY <1>1, <1>3, <1>4, StepFrame
-----------------------------------------------------------------------------
\* A computed gateway is an address of its prefix, or none.
LEMMA GatewayInPrefix ==
  ASSUME NEW s \in Specs, NEW q \in Prefix, q.size > 0
  PROVE  /\ ComputedGateway(s, q) \in Int
         /\ \/ ComputedGateway(s, q) = NoGateway
            \/ ComputedGateway(s, q) \in q.p .. q.p + q.size - 1
<1> DEFINE t == [s EXCEPT !.size = q.size]
           g == GetGatewayForSubnet(t, q.p, s.gwIndex)
<1>1. s.gwIndex \in Nat \cup {NoIndex} /\ q.p \in Int /\ q.size \in Nat
  BY SpecsAssumption DEF Prefix
<1>2. t.size = q.size
  BY SpecsAssumption
<1> HIDE DEF t
<1>3. s.gwIndex \in Nat => g \in Int /\ (g = NoGateway \/ g \in q.p .. q.p + q.size - 1)
  BY <1>1, <1>2 DEF GetGatewayForSubnet, GetPossibleIPCount, NoGateway
<1> QED
  BY <1>1, <1>3 DEF ComputedGateway, NoGateway, NoIndex, t

\* The prefixes of a valid spec lie on the grid of their size.
LEMMA PrefixOnTheGrid ==
  ASSUME NEW s \in Specs, Validate(s), NEW p \in PrefixesOf(s)
  PROVE  p \in Nat /\ s.size \in Nat \ {0} /\ p % s.size = 0
<1>1. /\ s.size \in Nat /\ s.net.lo \in Nat /\ s.net.hi \in Nat
      /\ s.size >= 1 /\ s.size <= s.net.hi - s.net.lo + 1
  BY SpecsAssumption DEF Validate
<1>2. s.net.lo % s.size = 0
  BY <1>1, SpecsAssumption
<1>3. p \in Int /\ s.net.lo <= p /\ (p - s.net.lo) % s.size = 0
  BY <1>1 DEF PrefixesOf
<1> QED
  BY <1>1, <1>2, <1>3, OnTheGrid

\* A static allocation of a valid spec.
LEMMA StaticFacts ==
  ASSUME NEW s \in Specs, Validate(s), NEW i \in DOMAIN s.static, NEW a,
         a = [prefix |-> s.static[i].prefix, gw |-> StaticGateway(s, s.static[i])]
  PROVE  /\ s.static[i].prefix \in Prefix /\ s.static[i].prefix.size = s.size
         /\ s.static[i].prefix.p \in PrefixesOf(s)
         /\ a \in Alloc /\ a # NoAlloc
<1> DEFINE x == s.static[i]
           q == x.prefix
<1>1. x \in [node : Nat, prefix : Prefix, gw : Int]
  <2> DEFINE S == [node : Nat, prefix : Prefix, gw : Int]
  <2> HIDE DEF S
  <2>1. s.static \in Seq(S)
    BY SpecsAssumption, ZenonT(20) DEF S
  <2>2. s.static[i] \in S
    BY <2>1
  <2> QED
    BY <2>2 DEF S
<1>2. q.size = s.size /\ q.p \in PrefixesOf(s) /\ (x.gw # NoGateway => x.gw \in q.p .. q.p + q.size - 1)
  BY DEF Validate, StaticValid
<1>3. q.p \in Nat /\ s.size \in Nat \ {0}
  BY <1>2, PrefixOnTheGrid
<1>4. q \in Prefix /\ x.gw \in Int /\ q.size > 0
  BY <1>1, <1>2, <1>3
<1> HIDE DEF x
<1>5. /\ StaticGateway(s, x) \in Int
      /\ StaticGateway(s, x) = NoGateway \/ StaticGateway(s, x) \in q.p .. q.p + q.size - 1
  BY <1>2, <1>4, GatewayInPrefix DEF StaticGateway
<1>6. a = [prefix |-> q, gw |-> StaticGateway(s, x)]
  BY DEF x
<1> HIDE DEF q
<1>7. a \in [prefix : Prefix, gw : Int] /\ a.prefix = q /\ a.gw = StaticGateway(s, x)
  BY <1>4, <1>5, <1>6
<1>8. a \in Alloc
  BY <1>2, <1>3, <1>4, <1>5, <1>7 DEF Alloc
<1>9. a # NoAlloc
  BY <1>3, <1>7 DEF NoAlloc
<1> QED
  BY <1>2, <1>4, <1>8, <1>9 DEF q, x

\* An allocation with a free prefix.
LEMMA DynamicFacts ==
  ASSUME NEW s \in Specs, Validate(s), NEW p \in PrefixesOf(s), NEW a,
         a = [prefix |-> Canonical(s, p), gw |-> ComputedGateway(s, Canonical(s, p))]
  PROVE  a \in Alloc /\ a # NoAlloc
<1> DEFINE q == Canonical(s, p)
<1>1. p \in Nat /\ s.size \in Nat \ {0}
  BY PrefixOnTheGrid
<1>2. q \in Prefix /\ q.p = p /\ q.size = s.size
  BY <1>1 DEF Prefix, Canonical
<1> HIDE DEF q
<1>3. /\ ComputedGateway(s, q) \in Int
      /\ ComputedGateway(s, q) = NoGateway \/ ComputedGateway(s, q) \in q.p .. q.p + q.size - 1
  BY <1>1, <1>2, GatewayInPrefix
<1>4. a \in [prefix : Prefix, gw : Int] /\ a.prefix = q /\ a.gw = ComputedGateway(s, q)
  BY <1>2, <1>3 DEF q
<1>5. a \in Alloc
  BY <1>1, <1>2, <1>3, <1>4 DEF Alloc
<1> QED
  BY <1>1, <1>2, <1>4, <1>5 DEF NoAlloc

\* One more allocation keeps the others apart when its prefix is on the
\* grid and is none of theirs.
LEMMA ApartAdd ==
  ASSUME NEW s, NEW got \in [Nodes -> Alloc], NEW n \in Nodes, NEW a \in Alloc, Apart(s, got),
         a.prefix.size = s.size, Placed(a.prefix), Origin(s, n, a.prefix),
         \A m \in Nodes : m # n /\ got[m] # NoAlloc => got[m].prefix.p # a.prefix.p
  PROVE  Apart(s, [got EXCEPT ![n] = a])
<1> DEFINE h == [got EXCEPT ![n] = a]
<1>1. h[n] = a /\ \A m \in Nodes : m # n => h[m] = got[m]
  OBVIOUS
<1> HIDE DEF h
<1>2. \A m \in Nodes : h[m] # NoAlloc =>
        h[m].prefix.size = s.size /\ Placed(h[m].prefix) /\ Origin(s, m, h[m].prefix)
  BY <1>1, Zenon DEF Apart
<1>3. \A l, m \in Nodes : l # m /\ h[l] # NoAlloc /\ h[m] # NoAlloc => h[l].prefix.p # h[m].prefix.p
  BY <1>1, ZenonT(60) DEF Apart
<1>4. Apart(s, h)
  BY <1>2, <1>3 DEF Apart
<1> QED
  BY <1>4 DEF h

\* What a turn of the loop gives a Node that has nothing lies apart from the
\* allocations made so far: static prefixes are not given to others, and a
\* dynamic prefix is neither allocated nor static.
LEMMA NewIsApart ==
  ASSUME CanonicalStatics, NEW s \in Specs, Validate(s), NEW got \in [Nodes -> Alloc], Apart(s, got),
         NEW n \in Nodes, got[n] = NoAlloc, NEW a \in NewAllocations(s, got, n), a # NoAlloc, a \in Alloc
  PROVE  Apart(s, [got EXCEPT ![n] = a])
<1> DEFINE free == FreePrefixes(s, Used(s, got))
<1>1. \/ \E i \in StaticFor(s, n) :
           a = [prefix |-> s.static[i].prefix, gw |-> StaticGateway(s, s.static[i])]
      \/ \E p \in free : a = [prefix |-> Canonical(s, p), gw |-> ComputedGateway(s, Canonical(s, p))]
  BY Zenon DEF NewAllocations
<1>2. \A m \in Nodes : got[m].prefix \in Prefix
  BY AllocFields, Zenon
<1>3. CASE \E i \in StaticFor(s, n) :
             a = [prefix |-> s.static[i].prefix, gw |-> StaticGateway(s, s.static[i])]
  <2>1. PICK i \in StaticFor(s, n) :
           a = [prefix |-> s.static[i].prefix, gw |-> StaticGateway(s, s.static[i])]
    BY <1>3
  <2> DEFINE q == s.static[i].prefix
  <2>2. i \in DOMAIN s.static /\ s.static[i].node = n /\ a.prefix = q
    BY <2>1 DEF StaticFor
  <2>3. q \in Prefix /\ q.size = s.size /\ q.p \in PrefixesOf(s)
    BY <2>1, <2>2, StaticFacts
  <2>4. q.text = "canonical"
    BY <2>2 DEF CanonicalStatics
  <2>5. Placed(q)
    BY <2>3, <2>4, PrefixOnTheGrid DEF Placed
  <2>6. ASSUME NEW m \in Nodes, m # n, got[m] # NoAlloc PROVE got[m].prefix.p # q.p
    <3>1. got[m].prefix.size = s.size /\ got[m].prefix.text = "canonical" /\ Origin(s, m, got[m].prefix)
      BY <2>6, Zenon DEF Apart, Placed
    <3>2. CASE \E j \in DOMAIN s.static : s.static[j].node = m /\ got[m].prefix = s.static[j].prefix
      BY <2>2, <2>6, <3>2, Zenon DEF Validate, StaticValid
    <3>3. CASE got[m].prefix # q
      BY <1>2, <2>3, <2>4, <3>1, <3>3 DEF Prefix
    <3> QED
      BY <2>2, <3>1, <3>2, <3>3, Zenon DEF Origin
  <2>7. Origin(s, n, q)
    BY <2>2, Zenon DEF Origin
  <2> QED
    BY <2>2, <2>3, <2>5, <2>6, <2>7, ApartAdd, Zenon
<1>4. CASE \E p \in free : a = [prefix |-> Canonical(s, p), gw |-> ComputedGateway(s, Canonical(s, p))]
  <2>1. PICK p \in free : a = [prefix |-> Canonical(s, p), gw |-> ComputedGateway(s, Canonical(s, p))]
    BY <1>4
  <2> DEFINE q == Canonical(s, p)
  <2>2. p \in PrefixesOf(s) /\ p \notin Used(s, got) /\ a.prefix = q
    BY <2>1 DEF FreePrefixes
  <2>3. q.p = p /\ q.size = s.size /\ q.text = "canonical"
    BY DEF Canonical
  <2>4. /\ \A m \in Nodes : got[m].prefix # q
        /\ \A i \in DOMAIN s.static : s.static[i].prefix # q
    BY <2>2, Zenon DEF Used
  <2>5. Placed(q)
    BY <2>2, <2>3, PrefixOnTheGrid DEF Placed
  <2>6. ASSUME NEW m \in Nodes, m # n, got[m] # NoAlloc PROVE got[m].prefix.p # q.p
    <3>1. got[m].prefix.size = s.size /\ got[m].prefix.text = "canonical"
      BY <2>6, Zenon DEF Apart, Placed
    <3>2. got[m].prefix = [p |-> got[m].prefix.p, size |-> got[m].prefix.size, text |-> got[m].prefix.text]
      BY AllocFields
    <3> QED
      BY <2>4, <3>1, <3>2, Zenon DEF Canonical
  <2>7. Origin(s, n, q)
    BY <2>4, Zenon DEF Origin
  <2> QED
    BY <2>2, <2>3, <2>5, <2>6, <2>7, ApartAdd, Zenon
<1> QED
  BY <1>1, <1>3, <1>4

\* One turn of the loop: the Nodes that kept their allocations keep them,
\* and the new one lies apart from them.
LEMMA AllocateForNodeStep ==
  ASSUME Inv, AllocateForNode
  PROVE  Inv' /\ api' = api
<1>1. PICK n \in rec.todo : \E a \in NewAllocations(rec.obj.spec, rec.got, n) :
         rec' = [rec EXCEPT !.todo = @ \ {n}, !.got[n] = a]
  BY Zenon DEF AllocateForNode
<1>2. PICK a \in NewAllocations(rec.obj.spec, rec.got, n) :
         rec' = [rec EXCEPT !.todo = @ \ {n}, !.got[n] = a]
  BY <1>1, Zenon
<1> DEFINE s == rec.obj.spec
           got == rec.got
<1>3. /\ rec \in Rec /\ RecOK(rec) /\ CopyOK(rec.obj, api, nextRV)
      /\ rec.pc = "alloc" /\ rec.obj # None /\ Validate(s) /\ GotOK(rec.obj, rec.match, got)
  BY DEF Inv, RecOK, AllocateForNode
<1>4. /\ n \in Nodes /\ got \in [Nodes -> Alloc] /\ rec.match \subseteq Nodes
      /\ rec.obj \in Object /\ s \in Specs
  BY <1>3 DEF Rec, CopyOK, Object
<1>5. a \in Alloc
  <2>1. CASE got[n] # NoAlloc
    BY <1>2, <1>4, <2>1, Zenon DEF NewAllocations
  <2>2. CASE got[n] = NoAlloc
    <3>1. \/ a = NoAlloc
          \/ \E i \in DOMAIN s.static :
               a = [prefix |-> s.static[i].prefix, gw |-> StaticGateway(s, s.static[i])]
          \/ \E p \in PrefixesOf(s) :
               a = [prefix |-> Canonical(s, p), gw |-> ComputedGateway(s, Canonical(s, p))]
      BY <1>2, <2>2, Zenon DEF NewAllocations, StaticFor, FreePrefixes
    <3>2. NoAlloc \in Alloc
      BY DEF Alloc
    <3> QED
      BY <1>3, <1>4, <3>1, <3>2, StaticFacts, DynamicFacts, Zenon
  <2> QED
    BY <2>1, <2>2
<1> DEFINE h == [got EXCEPT ![n] = a]
<1>6. /\ rec' \in Rec /\ rec'.pc = "alloc" /\ rec'.obj = rec.obj /\ rec'.match = rec.match
      /\ rec'.got = h
  BY <1>2, <1>3, <1>4, <1>5, Zenon DEF Rec
<1>7. got[n] # NoAlloc => h = got
  <2> SUFFICES ASSUME got[n] # NoAlloc PROVE h = got
    OBVIOUS
  <2>1. a = got[n]
    BY <1>2, Zenon DEF NewAllocations
  <2> QED
    BY <1>4, <2>1
<1>8. GotOK(rec.obj, rec.match, h)
  <2>1. CASE h = got
    BY <1>3, <2>1
  <2>2. CASE h # got
    <3>1. got[n] = NoAlloc /\ a # NoAlloc
      BY <1>4, <1>7, <2>2
    <3>2. CanonicalStatics => Apart(s, h)
      BY <1>2, <1>3, <1>4, <1>5, <3>1, NewIsApart, Zenon DEF GotOK
    <3>3. ASSUME NEW m \in rec.match, Keeps(s, rec.obj.status, m) PROVE h[m] = rec.obj.status[m]
      <4>1. got[m] = rec.obj.status[m] /\ rec.obj.status[m] # NoAlloc
        BY <1>3, <3>3, Zenon DEF GotOK, Keeps
      <4> QED
        BY <1>4, <3>1, <4>1
    <3> QED
      BY <3>2, <3>3, Zenon DEF GotOK
  <2> QED
    BY <2>1, <2>2
<1> HIDE DEF h
<1>9. RecOK(rec')
  BY <1>3, <1>6, <1>8, Zenon DEF RecOK
<1>10. /\ api' = api /\ nextRV' = nextRV /\ nodes' = nodes /\ edits' = edits
       /\ pool' = pool /\ seen' = seen /\ queued' = queued
  BY DEF AllocateForNode
<1>11. TypeOK' /\ CopyOK(api', api', nextRV') /\ CopyOK(pool', api, nextRV)
  BY <1>6, <1>10, Zenon DEF Inv, TypeOK
<1>12. CopyOK(rec'.obj, api, nextRV)
  BY <1>3, <1>6
<1> QED
  BY <1>9, <1>10, <1>11, <1>12, StepFrame

\* What FinishReconcile does to the API: nothing, or it replaces the status
\* of the very object the Reconcile had read.
LEMMA FinishWrites ==
  ASSUME Inv, NEW ok \in BOOLEAN, FinishReconcile(ok)
  PROVE  /\ rec.pc # "idle"
         /\ \/ api' = api /\ nextRV' = nextRV
            \/ /\ api = rec.obj /\ api \in Object /\ nextRV' = nextRV + 1
               /\ api' = [api EXCEPT !.status = rec.got, !.rv = nextRV]
<1>1. rec.pc # "idle"
  BY DEF FinishReconcile
<1>2. CopyOK(rec.obj, api, nextRV) /\ rec.obj # None
  BY <1>1 DEF Inv, RecOK
<1>3. \/ api' = api /\ nextRV' = nextRV
      \/ /\ Accepts(rec.obj) /\ nextRV' = nextRV + 1
         /\ api' = [api EXCEPT !.status = rec.got, !.rv = nextRV]
  BY Zenon DEF FinishReconcile
<1>4. Accepts(rec.obj) => api = rec.obj /\ api \in Object
  BY <1>2 DEF Accepts, CopyOK
<1> QED
  BY <1>1, <1>3, <1>4

\* The status written is good, and the reconciler is idle again.
LEMMA FinishReconcileStep ==
  ASSUME Inv, NEW ok \in BOOLEAN, FinishReconcile(ok)
  PROVE  Inv'
<1>1. /\ nodes' = nodes /\ edits' = edits /\ pool' = pool /\ seen' = seen /\ rec' = Idle
      /\ queued' \in BOOLEAN
  <2>1. queued' = (queued \/ Requeues(ok))
    BY DEF FinishReconcile
  <2>2. queued' \in BOOLEAN
    BY <2>1, Zenon
  <2> QED
    BY <2>2 DEF FinishReconcile
<1>2. /\ Idle \in Rec /\ RecOK(rec') /\ CopyOK(rec'.obj, api, nextRV) /\ CopyOK(pool', api, nextRV)
  BY <1>1, IdleOK, Zenon DEF Inv
<1>3. CASE api' = api /\ nextRV' = nextRV
  <2>1. TypeOK' /\ CopyOK(api', api', nextRV')
    BY <1>1, <1>2, <1>3, Zenon DEF Inv, TypeOK
  <2> QED
    BY <1>2, <1>3, <2>1, StepFrame
<1>4. CASE /\ api = rec.obj /\ api \in Object /\ nextRV' = nextRV + 1
           /\ api' = [api EXCEPT !.status = rec.got, !.rv = nextRV]
  <2>1. nextRV \in Nat /\ rec.got \in [Nodes -> Alloc] /\ RecOK(rec)
    BY DEF Inv, TypeOK, Rec
  <2>2. api' \in Object /\ api'.rv = nextRV /\ api'.status = rec.got
    BY <1>4, <2>1, Zenon DEF Object
  <2>3. Good(rec.got)
    BY <1>4, <2>1, RecGood
  <2>4. api' # None
    BY <2>2, SpecsAssumption
  <2>5. CopyOK(api', api', nextRV')
    BY <1>4, <2>1, <2>2, <2>3 DEF CopyOK
  <2>6. nextRV' \in Nat
    BY <1>4, <2>1
  <2>7. TypeOK'
    BY <1>1, <1>2, <2>2, <2>6 DEF Inv, TypeOK
  <2> QED
    BY <1>2, <1>4, <2>2, <2>4, <2>5, <2>7, StepFrame
<1> QED
  BY <1>3, <1>4, FinishWrites, Zenon

\* Every step keeps the invariant.
LEMMA NextInv == Inv /\ [Next]_vars => Inv'
<1> SUFFICES ASSUME Inv, [Next]_vars PROVE Inv'
  OBVIOUS
<1>1. CASE Next
  BY <1>1, WritePoolStep, DeletePoolStep, QuietSteps, ReconcileStep, AllocateForNodeStep,
     FinishReconcileStep, Zenon DEF Next
<1>2. CASE UNCHANGED vars
  <2>1. UNCHANGED <<api, nextRV, pool, rec, edits, queued, nodes, seen>>
    BY <1>2 DEF vars
  <2> QED
    BY <2>1, QuietStep, Zenon DEF Inv, TypeOK
<1> QED
  BY <1>1, <1>2

\* The inductive invariant holds in every reachable state: every copy of the
\* pool the controller holds is the object the API had in that version, and
\* the allocations of a running Reconcile lie apart.
THEOREM InvTheorem == Spec => []Inv
  BY InitInv, NextInv, PTL DEF Spec

\* Types: in particular the gateway of every allocation is an address of its
\* prefix, whether it was computed or given with a static allocation.
THEOREM TypeCorrect == Spec => []TypeOK
<1>1. Inv => TypeOK
  BY DEF Inv
<1> QED
  BY <1>1, InvTheorem, PTL

\* When static prefixes are written canonically, the status of the pool never
\* gives overlapping prefixes to two Nodes, for any Nodes, stale caches, lost
\* answers and changes of the spec, its prefix length and static allocations.
THEOREM DisjointTheorem ==
  ASSUME CanonicalStatics
  PROVE  Spec => []DisjointPrefixes
<1>1. Inv => DisjointPrefixes
  BY DEF Inv, CopyOK, Good, DisjointPrefixes
<1> QED
  BY <1>1, InvTheorem, PTL

\* A step that takes a prefix from a Node has one of the reasons that
\* PrefixesAreKept lists.
LEMMA KeptStep ==
  ASSUME Inv, [Next]_vars, NEW n \in Nodes, api # None, api' # None,
         api.status[n] # NoAlloc, api'.status[n] # api.status[n]
  PROVE  \/ ~Validate(api.spec) \/ ~ValidAllocation(api.spec, api.status, n)
         \/ isPrefixFullyExcluded(api.spec, api.status[n].prefix.p)
         \/ rec.pc = "alloc" /\ n \notin rec.match
<1>1. \E ok \in BOOLEAN : FinishReconcile(ok)
  <2>1. api' # api
    OBVIOUS
  <2>2. ~UNCHANGED vars
    BY <2>1 DEF vars
  <2>3. \A s \in Specs : ~WritePool(s)
    BY WritePoolStep
  <2> QED
    BY <2>1, <2>2, <2>3, DeletePoolStep, QuietSteps, ReconcileStep, AllocateForNodeStep, Zenon DEF Next
<1>2. PICK ok \in BOOLEAN : FinishReconcile(ok)
  BY <1>1
<1>3. /\ rec.pc # "idle" /\ api = rec.obj /\ api \in Object
      /\ api' = [api EXCEPT !.status = rec.got, !.rv = nextRV]
  BY <1>2, FinishWrites, Zenon
<1>4. RecOK(rec)
  BY DEF Inv
<1>5. api'.status = rec.got
  BY <1>3 DEF Object
<1>6. rec.pc = "clear" \/ rec.pc = "alloc"
  BY <1>3, <1>4 DEF RecOK, Rec
<1>7. CASE rec.pc = "clear"
  BY <1>3, <1>4, <1>7, Zenon DEF RecOK
<1>8. CASE rec.pc = "alloc" /\ n \in rec.match
  BY <1>3, <1>4, <1>5, <1>8, Zenon DEF RecOK, GotOK, Keeps
<1> QED
  BY <1>6, <1>7, <1>8

\* A Node keeps its prefix until the spec or the allocation is invalid, the
\* prefix is excluded as a whole, or a Reconcile did not list the Node as a
\* matching one: no race between the caches and edits takes it away.
THEOREM KeptTheorem == Spec => PrefixesAreKept
<1> DEFINE Kept == \A n \in Nodes :
         /\ api # None /\ api' # None
         /\ api.status[n] # NoAlloc /\ api'.status[n] # api.status[n]
         => \/ ~Validate(api.spec) \/ ~ValidAllocation(api.spec, api.status, n)
            \/ isPrefixFullyExcluded(api.spec, api.status[n].prefix.p)
            \/ rec.pc = "alloc" /\ n \notin rec.match
<1>1. Inv /\ [Next]_vars => [Kept]_vars
  <2> SUFFICES ASSUME Inv, [Next]_vars PROVE Kept
    BY Zenon
  <2> QED
    BY KeptStep, Zenon
<1> HIDE DEF Kept
<1>2. Spec => [][Kept]_vars
  BY <1>1, InvTheorem, PTL DEF Spec
<1> QED
  BY <1>2 DEF PrefixesAreKept, Kept
-----------------------------------------------------------------------------
(***************************************************************************)
(* The controller rests only when the status is right.                     *)
(***************************************************************************)

\* ValidAllocation of one allocation a, without the other Nodes.
ValidAlone(s, n, a) ==
    \/ \E i \in DOMAIN s.static :
          /\ Decides(s, n, a, i) /\ s.static[i].node = n
          /\ a.prefix = s.static[i].prefix
          /\ a.gw = StaticGateway(s, s.static[i])
    \/ /\ \A i \in DOMAIN s.static : ~Concerns(s.static[i], n, a)
       /\ s.net.lo <= a.prefix.p /\ a.prefix.p <= s.net.hi
       /\ a.prefix.size = s.size
       /\ a.gw = ComputedGateway(s, a.prefix)

\* The allocations of a running Reconcile: valid ones of listed Nodes, and
\* one for every Node the loop has passed unless it has no static allocation
\* and there was no free prefix.
RecGets(r) ==
    r.pc = "alloc" =>
        /\ r.todo \subseteq r.match
        /\ \A n \in Nodes : r.got[n] # NoAlloc => n \in r.match /\ ValidAlone(r.obj.spec, n, r.got[n])
        /\ \A n \in r.match \ r.todo : r.got[n] = NoAlloc =>
              StaticFor(r.obj.spec, n) = {} /\ FreePrefixes(r.obj.spec, Used(r.obj.spec, r.got)) = {}

\* When nothing is queued, the Reconcile works on what is in the caches, or
\* has left the cached pool as it should be, or an event with a newer pool is
\* on its way.
Attends ==
    pool # None /\ ~queued =>
        /\ rec.pc = "idle" => pool # api \/ SettledFor(pool, seen)
        /\ rec.pc # "idle" => rec.obj = pool
        /\ rec.pc = "alloc" => rec.match = seen \cap pool.spec.sel

QuietInv == RecGets(rec) /\ Attends

\* Prefixes that share an address overlap.
LEMMA SharedOverlap ==
  ASSUME NEW q, NEW r, q.p \in Int, r.p \in Int, q.size \in Nat, r.size \in Nat,
         NEW a \in q.p .. q.p + q.size - 1, a \in r.p .. r.p + r.size - 1
  PROVE  Overlap(q, r)
  BY DEF Overlap

\* Allocations that are valid by themselves and disjoint are valid together:
\* the gateways differ because each lies in its prefix.
LEMMA ValidTogether ==
  ASSUME NEW s, NEW status \in [Nodes -> Alloc], Disjoint(status),
         NEW n \in Nodes, status[n] # NoAlloc, ValidAlone(s, n, status[n])
  PROVE  ValidAllocation(s, status, n)
<1> DEFINE a == status[n]
           conflicts == {m \in Nodes : /\ status[m] # NoAlloc
                                       /\ \/ a.gw # NoGateway /\ a.gw = status[m].gw
                                          \/ a.prefix = status[m].prefix
                                          \/ m = n}
<1>1. ASSUME NEW m \in Nodes, m # n, status[m] # NoAlloc,
             (a.gw # NoGateway /\ a.gw = status[m].gw) \/ a.prefix = status[m].prefix
      PROVE  FALSE
  <2> DEFINE q == a.prefix
             r == status[m].prefix
  <2>1. ASSUME NEW l \in Nodes, status[l] # NoAlloc
        PROVE  /\ status[l].prefix.p \in Int /\ status[l].prefix.size \in Nat
               /\ status[l].prefix.size > 0
               /\ \/ status[l].gw = NoGateway
                  \/ status[l].gw \in status[l].prefix.p .. status[l].prefix.p + status[l].prefix.size - 1
    <3>1. status[l] \in Alloc
      BY Zenon
    <3>2. status[l].prefix.p \in Int /\ status[l].prefix.size \in Nat
      BY <3>1, AllocFields, Zenon
    <3> QED BY <2>1, <3>1, <3>2, Zenon DEF Alloc
  <2>2. /\ q.p \in Int /\ q.size \in Nat /\ q.size > 0
        /\ a.gw = NoGateway \/ a.gw \in q.p .. q.p + q.size - 1
    BY <2>1, Zenon
  <2>3. /\ r.p \in Int /\ r.size \in Nat
        /\ status[m].gw = NoGateway \/ status[m].gw \in r.p .. r.p + r.size - 1
    BY <1>1, <2>1, Zenon
  <2>4. ~Overlap(q, r)
    BY <1>1, Zenon DEF Disjoint
  <2> HIDE DEF q, r, a
  <2>5. q.p \in q.p .. q.p + q.size - 1
    BY <2>2
  <2>6. CASE q = r
    BY <2>2, <2>3, <2>4, <2>5, <2>6, SharedOverlap, Zenon
  <2>7. CASE a.gw # NoGateway /\ a.gw = status[m].gw
    BY <2>2, <2>3, <2>4, <2>7, SharedOverlap, Zenon
  <2> QED BY <1>1, <2>6, <2>7, Zenon DEF q, r, a
<1>2. conflicts = {n}
  BY <1>1, Zenon
<1> QED BY <1>2, Zenon DEF ValidAlone, ValidAllocation

\* The static allocations of a valid spec: one for a Node, one for a prefix.
LEMMA StaticsDiffer ==
  ASSUME NEW s, Validate(s), NEW i \in DOMAIN s.static, NEW j \in DOMAIN s.static, NEW n \in Nodes,
         s.static[i].node = n, s.static[j].node = n \/ s.static[j].prefix = s.static[i].prefix
  PROVE  i = j
<1>1. n # NoNode
  BY NodesAssumption DEF NoNode
<1> QED BY <1>1, Zenon DEF Validate, StaticValid

\* A static allocation is valid by itself.
LEMMA StaticAlone ==
  ASSUME NEW s \in Specs, Validate(s), NEW n \in Nodes, NEW i \in StaticFor(s, n), NEW a,
         a = [prefix |-> s.static[i].prefix, gw |-> StaticGateway(s, s.static[i])]
  PROVE  ValidAlone(s, n, a)
<1>1. i \in DOMAIN s.static /\ s.static[i].node = n
  BY Zenon DEF StaticFor
<1>2. a.prefix = s.static[i].prefix /\ a.gw = StaticGateway(s, s.static[i])
  BY Zenon
<1>3. \A j \in 1 .. i - 1 : j \in DOMAIN s.static /\ j # i
  <2>1. s.static \in Seq([node : Nat, prefix : Prefix, gw : Int])
    BY SpecsAssumption, Zenon
  <2>2. DOMAIN s.static = 1 .. Len(s.static) /\ Len(s.static) \in Nat
    BY <2>1
  <2> QED BY <1>1, <2>2
<1>4. \A j \in 1 .. i - 1 : ~Concerns(s.static[j], n, a)
  BY <1>1, <1>2, <1>3, StaticsDiffer, Zenon DEF Concerns
<1>5. Decides(s, n, a, i)
  BY <1>1, <1>4, Zenon DEF Decides, Concerns
<1> QED BY <1>1, <1>2, <1>5, Zenon DEF ValidAlone

\* An allocation with a free prefix is valid by itself.
LEMMA DynamicAlone ==
  ASSUME NEW s \in Specs, NEW got, NEW n \in Nodes, StaticFor(s, n) = {},
         NEW p \in FreePrefixes(s, Used(s, got)), NEW a,
         a = [prefix |-> Canonical(s, p), gw |-> ComputedGateway(s, Canonical(s, p))]
  PROVE  ValidAlone(s, n, a)
<1>1. p \in PrefixesOf(s) /\ p \notin Used(s, got)
  BY Zenon DEF FreePrefixes
<1>2. a.prefix = Canonical(s, p) /\ a.gw = ComputedGateway(s, a.prefix)
  BY Zenon
<1>3. a.prefix.p = p /\ a.prefix.size = s.size
  BY <1>2 DEF Canonical
<1>4. \A i \in DOMAIN s.static : s.static[i].node # n /\ s.static[i].prefix # Canonical(s, p)
  BY <1>1, Zenon DEF StaticFor, Used
<1>5. s.net.lo <= p /\ p <= s.net.hi
  <2>1. s.net \in [lo : Nat, hi : Nat]
    BY SpecsAssumption, Zenon
  <2> QED BY <1>1, <2>1 DEF PrefixesOf
<1>6. \A i \in DOMAIN s.static : ~Concerns(s.static[i], n, a)
  BY <1>2, <1>4, Zenon DEF Concerns
<1> QED BY <1>2, <1>3, <1>5, <1>6, Zenon DEF ValidAlone

\* The free prefixes get fewer when a prefix is taken.
LEMMA FreeShrinks ==
  ASSUME NEW s, NEW got \in [Nodes -> Alloc], NEW n \in Nodes, got[n] = NoAlloc,
         NEW a, NEW new, new = [got EXCEPT ![n] = a]
  PROVE  FreePrefixes(s, Used(s, new)) \subseteq FreePrefixes(s, Used(s, got))
<1>1. \A m \in Nodes : new[m] = IF m = n THEN a ELSE got[m]
  BY Zenon
<1>2. \A p : NoAlloc.prefix # Canonical(s, p)
  BY DEF NoAlloc, Canonical
<1>3. Used(s, got) \subseteq Used(s, new)
  BY <1>1, <1>2, Zenon DEF Used
<1> QED BY <1>3, Zenon DEF FreePrefixes

\* What a Reconcile is doing says nothing about the API, and an outdated copy
\* of the pool stays outdated: versions are not used again.
LEMMA QuietFrame ==
  ASSUME Inv, QuietInv, UNCHANGED <<pool, seen, queued, rec>>,
         api' = api \/ api' = None \/ api'.rv = nextRV
  PROVE  QuietInv'
<1>1. pool' = pool /\ seen' = seen /\ queued' = queued /\ rec' = rec
  BY Zenon
<1>2. ASSUME pool # None, pool = api'
      PROVE  pool = api
  <2>1. pool \in Object /\ pool.rv < nextRV
    BY <1>2, Zenon DEF Inv, CopyOK
  <2>2. pool.rv \in Nat /\ nextRV \in Nat
    BY <2>1, Zenon DEF Object, Inv, TypeOK
  <2>3. pool.rv # nextRV
    BY <2>1, <2>2
  <2> QED BY <1>2, <2>3, Zenon
<1>3. pool # None /\ ~queued =>
        /\ rec.pc = "idle" => pool # api' \/ SettledFor(pool, seen)
        /\ rec.pc # "idle" => rec.obj = pool
        /\ rec.pc = "alloc" => rec.match = seen \cap pool.spec.sel
  BY <1>2, Zenon DEF QuietInv, Attends
<1>4. Attends'
  BY ONLY <1>1, <1>3 DEF Attends
<1> QED BY <1>1, <1>4, Zenon DEF QuietInv

\* Users change the API and not the controller.
LEMMA QuietUser ==
  ASSUME Inv, QuietInv,
         DeletePool \/ (\E s \in Specs : WritePool(s)) \/ (\E n \in Nodes : AddOrRemoveNode(n))
  PROVE  QuietInv'
<1>1. UNCHANGED <<pool, seen, queued, rec>>
  BY Zenon DEF DeletePool, WritePool, AddOrRemoveNode
<1>2. ASSUME NEW s \in Specs, WritePool(s)
      PROVE  api'.rv = nextRV
  <2>1. ASSUME api' = [rv |-> nextRV, spec |-> s, status |-> NoAllocations]
        PROVE  api'.rv = nextRV
    BY <2>1
  <2>2. ASSUME api # None, api' = [api EXCEPT !.spec = s, !.rv = nextRV]
        PROVE  api'.rv = nextRV
    <3>1. api \in Object
      BY <2>2, Zenon DEF Inv, TypeOK
    <3> QED BY <2>2, <3>1 DEF Object
  <2> QED BY <1>2, <2>1, <2>2, Zenon DEF WritePool
<1>3. api' = api \/ api' = None \/ api'.rv = nextRV
  BY <1>2, Zenon DEF DeletePool, AddOrRemoveNode
<1> QED BY <1>1, <1>3, QuietFrame, Zenon

\* The informers, and a restart, queue the pool with every change.
LEMMA QuietSync ==
  ASSUME QuietInv, SyncPool \/ Restart \/ \E n \in Nodes : SyncNode(n)
  PROVE  QuietInv'
<1>1. queued' = TRUE /\ (rec' = rec \/ rec' = Idle)
  BY Zenon DEF SyncPool, Restart, SyncNode
<1>2. Idle.pc # "alloc"
  BY DEF Idle
<1>3. RecGets(rec')
  BY <1>1, <1>2, Zenon DEF QuietInv, RecGets
<1> QED BY <1>1, <1>3, Zenon DEF QuietInv, Attends

\* A Reconcile starts with what is in the caches.
LEMMA QuietReconcile ==
  ASSUME Inv, QuietInv, Reconcile
  PROVE  QuietInv'
<1> DEFINE match == seen \cap pool.spec.sel
           got == Existing(pool.spec, pool.status, match)
           clear == [Idle EXCEPT !.pc = "clear", !.obj = pool]
           alloc == [pc |-> "alloc", obj |-> pool, match |-> match, todo |-> match, got |-> got]
           r == IF pool = None THEN Idle ELSE IF ~Validate(pool.spec) THEN clear ELSE alloc
<1>1. rec' = r /\ pool' = pool /\ seen' = seen
  BY Zenon DEF Reconcile
<1>2. /\ r.pc # "idle" => r.obj = pool
      /\ pool # None => r.pc # "idle"
      /\ r.pc = "alloc" => r.obj = pool /\ r.match = match /\ r.todo = match /\ r.got = got
  BY ZenonT(60) DEF Idle
<1>3. ASSUME NEW n \in Nodes, got[n] # NoAlloc
      PROVE  n \in match /\ ValidAlone(pool.spec, n, got[n])
  <2>1. n \in match /\ ValidAllocation(pool.spec, pool.status, n) /\ got[n] = pool.status[n]
    BY <1>3, Zenon DEF Existing
  <2> QED BY <2>1, Zenon DEF ValidAllocation, ValidAlone
<1> HIDE DEF r, got
<1>4. RecGets(rec')
  BY <1>1, <1>2, <1>3, Zenon DEF RecGets
<1>5. Attends'
  BY <1>1, <1>2, Zenon DEF Attends
<1> QED BY <1>4, <1>5, Zenon DEF QuietInv

\* One turn of the loop leaves the Node without a prefix only if it has no
\* static allocation and no prefix is free.
LEMMA QuietAllocate ==
  ASSUME Inv, QuietInv, AllocateForNode
  PROVE  QuietInv'
<1>1. PICK n \in rec.todo : \E a \in NewAllocations(rec.obj.spec, rec.got, n) :
         rec' = [rec EXCEPT !.todo = @ \ {n}, !.got[n] = a]
  BY Zenon DEF AllocateForNode
<1>2. PICK a \in NewAllocations(rec.obj.spec, rec.got, n) :
         rec' = [rec EXCEPT !.todo = @ \ {n}, !.got[n] = a]
  BY <1>1, Zenon
<1> DEFINE s == rec.obj.spec
           got == rec.got
           h == [got EXCEPT ![n] = a]
<1>3. /\ rec \in Rec /\ rec.pc = "alloc" /\ rec.obj # None /\ Validate(s)
      /\ CopyOK(rec.obj, api, nextRV)
  BY DEF Inv, RecOK, AllocateForNode
<1>4. /\ n \in Nodes /\ got \in [Nodes -> Alloc] /\ rec.match \subseteq Nodes
      /\ rec.obj \in Object /\ s \in Specs
  BY <1>3 DEF Rec, CopyOK, Object
<1>5. /\ rec'.pc = "alloc" /\ rec'.obj = rec.obj /\ rec'.match = rec.match
      /\ rec'.got = h /\ rec'.todo = rec.todo \ {n}
  BY <1>2, <1>3, Zenon DEF Rec
<1>6. \A m \in Nodes : h[m] = IF m = n THEN a ELSE got[m]
  BY <1>4, Zenon
<1>7. /\ rec.todo \subseteq rec.match
      /\ \A m \in Nodes : got[m] # NoAlloc => m \in rec.match /\ ValidAlone(s, m, got[m])
      /\ \A m \in rec.match \ rec.todo : got[m] = NoAlloc =>
            StaticFor(s, m) = {} /\ FreePrefixes(s, Used(s, got)) = {}
  BY <1>3, Zenon DEF QuietInv, RecGets
<1>8. /\ a # NoAlloc => ValidAlone(s, n, a)
      /\ a = NoAlloc => got[n] = NoAlloc
      /\ a = NoAlloc => StaticFor(s, n) = {} /\ FreePrefixes(s, Used(s, got)) = {}
  <2>1. CASE got[n] # NoAlloc
    <3>1. a = got[n]
      BY <1>2, <2>1, Zenon DEF NewAllocations
    <3> QED BY <1>4, <1>7, <2>1, <3>1, Zenon
  <2>2. CASE got[n] = NoAlloc /\ StaticFor(s, n) # {}
    <3>1. PICK i \in StaticFor(s, n) :
            a = [prefix |-> s.static[i].prefix, gw |-> StaticGateway(s, s.static[i])]
      BY <1>2, <2>2, Zenon DEF NewAllocations
    <3>2. ValidAlone(s, n, a)
      BY <1>3, <1>4, <3>1, StaticAlone, Zenon
    <3>3. a # NoAlloc
      <4>1. i \in DOMAIN s.static
        BY Zenon DEF StaticFor
      <4> QED BY <1>3, <1>4, <3>1, <4>1, StaticFacts, Zenon
    <3> QED BY <2>2, <3>2, <3>3, Zenon
  <2>3. CASE got[n] = NoAlloc /\ StaticFor(s, n) = {} /\ FreePrefixes(s, Used(s, got)) = {}
    <3>1. a = NoAlloc
      BY <1>2, <2>3, Zenon DEF NewAllocations
    <3> QED BY <2>3, <3>1, Zenon
  <2>4. CASE got[n] = NoAlloc /\ StaticFor(s, n) = {} /\ FreePrefixes(s, Used(s, got)) # {}
    <3>1. PICK p \in FreePrefixes(s, Used(s, got)) :
            a = [prefix |-> Canonical(s, p), gw |-> ComputedGateway(s, Canonical(s, p))]
      BY <1>2, <2>4, Zenon DEF NewAllocations
    <3>2. ValidAlone(s, n, a)
      BY <1>4, <2>4, <3>1, DynamicAlone, Zenon
    <3>3. a # NoAlloc
      BY <3>1 DEF NoAlloc, Canonical
    <3> QED BY <3>2, <3>3, Zenon
  <2> QED BY <2>1, <2>2, <2>3, <2>4, Zenon
<1>9. FreePrefixes(s, Used(s, h)) \subseteq FreePrefixes(s, Used(s, got))
  <2>1. CASE got[n] = NoAlloc
    <3>1. h = [got EXCEPT ![n] = a]
      OBVIOUS
    <3> HIDE DEF h
    <3> QED BY <1>4, <2>1, <3>1, FreeShrinks, Zenon
  <2>2. CASE got[n] # NoAlloc
    <3>1. a = got[n]
      BY <1>2, <2>2, Zenon DEF NewAllocations
    <3>2. h = got
      BY <1>4, <3>1
    <3> QED BY <3>2, Zenon
  <2> QED BY <2>1, <2>2, Zenon
<1> HIDE DEF h, got, s
<1>10. ASSUME NEW m \in rec.match \ (rec.todo \ {n}), h[m] = NoAlloc
       PROVE  StaticFor(s, m) = {} /\ FreePrefixes(s, Used(s, h)) = {}
  <2>1. StaticFor(s, m) = {} /\ FreePrefixes(s, Used(s, got)) = {}
    BY <1>4, <1>6, <1>7, <1>8, <1>10, Zenon
  <2> QED BY <1>9, <2>1, Zenon
<1>11. \A m \in Nodes : h[m] # NoAlloc => m \in rec.match /\ ValidAlone(s, m, h[m])
  BY <1>4, <1>6, <1>7, <1>8, Zenon
<1>12. RecGets(rec')
  BY <1>5, <1>7, <1>10, <1>11, Zenon DEF RecGets, s
<1>13. Attends'
  <2>1. pool' = pool /\ seen' = seen /\ queued' = queued
    BY Zenon DEF AllocateForNode
  <2>2. "alloc" # "idle"
    OBVIOUS
  <2> QED BY <1>3, <1>5, <2>1, <2>2, Zenon DEF QuietInv, Attends
<1> QED BY <1>12, <1>13, Zenon DEF QuietInv

\* A Reconcile that ends without an error has left the pool as it should be,
\* or has written a new version of it.
LEMMA QuietFinish ==
  ASSUME CanonicalStatics, Inv, QuietInv, NEW ok \in BOOLEAN, FinishReconcile(ok)
  PROVE  QuietInv'
<1>1. /\ RecOK(rec) /\ rec.pc # "idle" /\ rec' = Idle /\ pool' = pool /\ seen' = seen
      /\ queued' = (queued \/ ~ok)
  BY FinishWrites, Zenon DEF Inv, FinishReconcile, Requeues
<1>2. Idle.pc = "idle" /\ "idle" # "alloc"
  BY DEF Idle
<1>3. RecGets(rec')
  BY <1>1, <1>2, Zenon DEF RecGets
<1>4. ASSUME pool # None, ~queued', pool = api'
      PROVE  SettledFor(pool, seen)
  <2>1. ok /\ ~queued
    BY <1>1, <1>4, Zenon
  <2>2. rec.obj = pool /\ (rec.pc = "alloc" => rec.match = seen \cap pool.spec.sel)
    BY <1>1, <1>4, <2>1, Zenon DEF QuietInv, Attends
  <2>3. pool \in Object /\ pool.rv < nextRV
    BY <1>4, Zenon DEF Inv, CopyOK
  <2>4. pool.rv # nextRV
    <3>1. pool.rv \in Nat /\ nextRV \in Nat
      BY <2>3, Zenon DEF Object, Inv, TypeOK
    <3> QED BY <2>3, <3>1
  <2>5. api \in Object /\ api' = [api EXCEPT !.status = rec.got, !.rv = nextRV] => api'.rv = nextRV
    BY DEF Object
  <2>6. api' = api
    BY <1>4, <2>4, <2>5, FinishWrites, Zenon
  <2>7. rec.got = pool.status
    <3>1. CASE rec.got # api.status /\ api' = [api EXCEPT !.status = rec.got, !.rv = nextRV]
      BY <1>4, <2>3, <2>4, <2>5, <2>6, <3>1, Zenon
    <3>2. CASE rec.got = api.status
      BY <1>4, <2>6, <3>2, Zenon
    <3>3. CASE ~(rec.pc = "clear" \/ rec.got # rec.obj.status)
      BY <2>2, <3>3, Zenon
    <3> QED BY <2>1, <3>1, <3>2, <3>3, Zenon DEF FinishReconcile
  <2>8. CASE rec.pc = "clear"
    <3>1. "clear" # "alloc"
      OBVIOUS
    <3> QED BY <1>1, <2>2, <2>7, <2>8, <3>1, Zenon DEF RecOK, SettledFor
  <2>9. CASE rec.pc = "alloc" /\ rec.todo = {}
    <3> DEFINE s == pool.spec
               got == pool.status
    <3>1. Validate(s) /\ rec.match = seen \cap s.sel
      BY <1>1, <2>2, <2>9, Zenon DEF RecOK
    <3>2. /\ \A n \in Nodes : got[n] # NoAlloc => n \in rec.match /\ ValidAlone(s, n, got[n])
          /\ \A n \in rec.match : got[n] = NoAlloc =>
                StaticFor(s, n) = {} /\ FreePrefixes(s, Used(s, got)) = {}
      BY <2>2, <2>7, <2>9, Zenon DEF QuietInv, RecGets
    <3>3. got \in [Nodes -> Alloc] /\ Disjoint(got) /\ rec.match \subseteq Nodes
      <4>1. Good(rec.got)
        BY <1>1, <2>2, <2>3, RecGood, Zenon
      <4> QED BY <1>1, <2>2, <2>3, <2>7, <4>1, Zenon DEF Object, Good, RecOK, Rec
    <3> HIDE DEF s, got
    <3>4. ASSUME NEW n \in rec.match, NEW i \in StaticFor(s, n)
          PROVE  got[n].prefix = s.static[i].prefix
      <4>1. n \in Nodes /\ i \in DOMAIN s.static /\ s.static[i].node = n
        BY <3>3, Zenon DEF StaticFor
      <4>2. ValidAlone(s, n, got[n])
        BY <3>2, <4>1, Zenon
      <4>3. PICK j \in DOMAIN s.static : s.static[j].node = n /\ got[n].prefix = s.static[j].prefix
        BY <4>1, <4>2, Zenon DEF ValidAlone, Concerns
      <4>4. i = j
        BY <3>1, <4>1, <4>3, StaticsDiffer, Zenon
      <4> QED BY <4>3, <4>4, Zenon
    <3>5. ASSUME NEW n \in rec.match, got[n] # NoAlloc
          PROVE  ValidAllocation(s, got, n)
      <4>1. n \in Nodes /\ ValidAlone(s, n, got[n])
        BY <3>2, <3>3, <3>5, Zenon
      <4> QED BY <3>3, <3>5, <4>1, ValidTogether, Zenon
    <3> QED BY <3>1, <3>2, <3>4, <3>5, Zenon DEF SettledFor, s, got
  <2> QED BY <2>8, <2>9, Zenon DEF FinishReconcile
<1>5. Attends'
  BY <1>1, <1>2, <1>4, Zenon DEF Attends
<1> QED BY <1>3, <1>5, Zenon DEF QuietInv

\* For any number of Nodes, when static prefixes are written canonically: a
\* controller that has nothing to do has left the status as it should be.  No
\* change of the pool or of a Node is missed, whether it comes during a
\* Reconcile, during an update that fails, or with a restart.
THEOREM QuietTheorem ==
  ASSUME CanonicalStatics
  PROVE  Spec => []QuietIsSettled
<1>1. Init => QuietInv
  <2>1. Idle.pc # "alloc"
    BY DEF Idle
  <2> QED BY <2>1, Zenon DEF Init, QuietInv, RecGets, Attends
<1>2. Inv /\ QuietInv /\ [Next]_vars => QuietInv'
  <2> SUFFICES ASSUME Inv, QuietInv, [Next]_vars
               PROVE  QuietInv'
    OBVIOUS
  <2>1. CASE Next
    BY <2>1, QuietUser, QuietSync, QuietReconcile, QuietAllocate, QuietFinish, Zenon DEF Next
  <2>2. CASE UNCHANGED vars
    BY <2>2, QuietFrame, Zenon DEF vars
  <2> QED BY <2>1, <2>2, Zenon
<1>3. QuietInv => QuietIsSettled
  BY Zenon DEF QuietInv, Attends, QuietIsSettled, Quiet, Settled
<1> QED BY <1>1, <1>2, <1>3, InvTheorem, PTL DEF Spec
=============================================================================
