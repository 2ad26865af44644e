--------------------------- MODULE ClusterProofs ----------------------------
(***************************************************************************)
(* The controller of the IPPools by itself, then the cluster of controller *)
(* and node daemons, for any number of Nodes, specs and processes.         *)
(***************************************************************************)
EXTENDS Cluster, TLAPS
-----------------------------------------------------------------------------
(***************************************************************************)
(* Proofs about IPPoolController, for any Nodes, specs and number of       *)
(* controller processes: blocks of different Nodes are disjoint, and a     *)
(* block is not taken from its Node without a reason.  That a controller   *)
(* rests only when the status is right is at the end of the module.        *)
(***************************************************************************)

\* A copy o of the pool object, read when the API had it: older than the
\* next version, its blocks disjoint, and equal to the object a of the API
\* when the versions are equal.
CopyOK(o, a, rv) ==
    o # None =>
        /\ o \in Object
        /\ o.rv < rv
        /\ Disjoint(o.status)
        /\ a # None /\ a.rv = o.rv => o = a

IsBlock(s, r) == r = NoRange \/ (Aligned(s, r.start) /\ r.end = EndOf(s, r.start))

\* The ranges got of a Reconcile that read o: blocks of its spec, no two of
\* them starting alike, every valid block of a matching Node among them.
GotOK(o, match, got) ==
    /\ \A n \in Nodes : IsBlock(o.spec, got[n])
    /\ \A m, n \in Nodes :
          m # n /\ got[m] # NoRange /\ got[n] # NoRange => got[m].start # got[n].start
    /\ \A n \in match :
          o.status[n] # NoRange /\ checkAllocation(o.spec, o.status[n]) => got[n] = o.status[n]

\* A running Reconcile.
RecOK(r) ==
    /\ r \in Rec
    /\ r.pc # "alloc" => r.got = NoAllocations
    /\ r.pc # "idle" => r.obj # None
    /\ r.pc = "clear" => ~Validate(r.obj.spec)
    /\ r.pc = "alloc" => Validate(r.obj.spec) /\ GotOK(r.obj, r.match, r.got)

Ctl == [pool : Object \cup {None}, nodes : SUBSET Nodes, queued : BOOLEAN,
        nodeQ : SUBSET Nodes, event : BOOLEAN, rec : Rec]

CtlOK(x, a, rv) == CopyOK(x.pool, a, rv) /\ CopyOK(x.rec.obj, a, rv) /\ RecOK(x.rec)

Inv ==
    /\ TypeOK
    /\ CopyOK(api, api, nextRV)
    /\ \A c \in Controllers : CtlOK(ctl[c], api, nextRV)
-----------------------------------------------------------------------------
\* Multiples of k that differ are k apart.
LEMMA MultiplesApart ==
  ASSUME NEW k \in Nat \ {0}, NEW x \in Int, NEW y \in Int,
         x % k = 0, y % k = 0, x < y
  PROVE  x + k <= y
<1> DEFINE i == x \div k
           j == y \div k
<1>1. i \in Int /\ j \in Int /\ x = k * i /\ y = k * j
  OBVIOUS
<1>2. i < j
  BY <1>1
<1> QED
  BY <1>1, <1>2

\* Two blocks of a spec that start at different addresses do not overlap:
\* the comparison of start addresses in load and AllocateFromPool is enough.
LEMMA BlocksApart ==
  ASSUME NEW s \in Specs, Validate(s), NEW q \in Ranges, NEW r \in Ranges,
         q # NoRange, r # NoRange, IsBlock(s, q), IsBlock(s, r), q.start # r.start
  PROVE  q.end < r.start \/ r.end < q.start
<1> DEFINE f == getFirstStartIP(s)
<1>1. s.size \in Nat \ {0} /\ f \in Int
  BY SpecsAssumption DEF Validate, getFirstStartIP
<1>2. /\ q.start \in Int /\ r.start \in Int
      /\ (q.start - f) % s.size = 0 /\ (r.start - f) % s.size = 0
      /\ q.end = q.start + s.size - 1 /\ r.end = r.start + s.size - 1
  BY DEF IsBlock, Aligned, EndOf, Ranges
<1> DEFINE x == q.start - f
           y == r.start - f
<1> HIDE DEF f
<1>3. x \in Int /\ y \in Int /\ x % s.size = 0 /\ y % s.size = 0
  BY <1>1, <1>2
<1>4. x < y \/ y < x
  BY <1>1, <1>2
<1>5. x < y => x + s.size <= y
  <2> HIDE DEF x, y
  <2> QED
    BY <1>1, <1>3, MultiplesApart
<1>6. y < x => y + s.size <= x
  <2> HIDE DEF x, y
  <2> QED
    BY <1>1, <1>3, MultiplesApart
<1> QED
  BY <1>1, <1>2, <1>4, <1>5, <1>6

\* What a Reconcile writes has disjoint blocks.
LEMMA RecDisjoint ==
  ASSUME NEW r, RecOK(r), r.obj \in Object
  PROVE  Disjoint(r.got)
<1>1. CASE r.pc # "alloc"
  BY <1>1 DEF RecOK, Disjoint, NoAllocations
<1>2. CASE r.pc = "alloc"
  <2> SUFFICES ASSUME NEW m \in Nodes, NEW n \in Nodes, m # n, r.got[m] # NoRange, r.got[n] # NoRange
               PROVE  r.got[m].end < r.got[n].start \/ r.got[n].end < r.got[m].start
    BY DEF Disjoint
  <2>1. r.got[m] \in Ranges /\ r.got[n] \in Ranges /\ r.obj.spec \in Specs
    BY DEF RecOK, Rec, Object
  <2> QED
    BY <1>2, <2>1, BlocksApart DEF RecOK, GotOK
<1> QED
  BY <1>1, <1>2

\* A copy stays good when the object of the API goes or gets a new version.
LEMMA CopyFrame ==
  ASSUME NEW o, NEW a, NEW b, NEW rv \in Nat, CopyOK(o, a, rv),
         b = None \/ b.rv = rv
  PROVE  CopyOK(o, b, rv + 1) /\ (b = None => CopyOK(o, b, rv))
  BY DEF CopyOK, Object

\* None is no pool object.
LEMMA ObjectNotNone == \A o \in Object : o # None
<1>1. Ranges \subseteq [start : Int, end : Int]
  BY DEF Ranges, NoRange
<1>2. Object \subseteq [rv : Nat, spec : Specs, status : [Nodes -> [start : Int, end : Int]]]
  BY <1>1 DEF Object
<1> QED
  BY <1>2, SpecsAssumption

\* A step keeps the invariant when the caches and the running Reconciles are
\* good for the object it replaces.
LEMMA StepFrame ==
  ASSUME Inv, TypeOK', CopyOK(api', api', nextRV'),
         \A d \in Controllers : CtlOK(ctl'[d], api, nextRV),
         \/ api' = api /\ nextRV' = nextRV
         \/ api' = None /\ nextRV' = nextRV
         \/ api' # None /\ api'.rv = nextRV /\ nextRV' = nextRV + 1
  PROVE  Inv'
<1> SUFFICES ASSUME NEW d \in Controllers
             PROVE  CtlOK(ctl'[d], api', nextRV')
  BY DEF Inv
<1> DEFINE x == ctl'[d]
<1>1. CtlOK(x, api, nextRV) /\ nextRV \in Nat
  BY DEF Inv, TypeOK
<1> HIDE DEF x
<1>2. CopyOK(x.pool, api', nextRV')
  BY <1>1, CopyFrame, SMTT(30) DEF CtlOK
<1>3. CopyOK(x.rec.obj, api', nextRV')
  BY <1>1, CopyFrame, Zenon DEF CtlOK
<1>4. CtlOK(x, api', nextRV')
  BY <1>1, <1>2, <1>3 DEF CtlOK
<1> QED
  BY <1>4 DEF x

\* A step of one controller leaves the others as they are.
LEMMA CtlFrame ==
  ASSUME Inv, NEW c \in Controllers, NEW x \in Ctl, CtlOK(x, api, nextRV),
         ctl' = [ctl EXCEPT ![c] = x]
  PROVE  /\ ctl' \in [Controllers -> Ctl]
         /\ \A d \in Controllers : CtlOK(ctl'[d], api, nextRV)
<1>1. ctl \in [Controllers -> Ctl]
  BY DEF Inv, TypeOK, Ctl
<1> QED
  BY <1>1 DEF Inv

\* What the invariant says of one controller.
LEMMA CtlFacts ==
  ASSUME Inv, NEW c \in Controllers
  PROVE  /\ ctl \in [Controllers -> Ctl] /\ ctl[c] \in Ctl
         /\ CtlOK(ctl[c], api, nextRV)
         /\ CopyOK(ctl[c].pool, api, nextRV)
         /\ CopyOK(ctl[c].rec.obj, api, nextRV)
         /\ RecOK(ctl[c].rec)
  BY DEF Inv, TypeOK, Ctl, CtlOK

\* An idle reconciler satisfies its part of the invariant.
LEMMA IdleOK ==
  ASSUME NEW a, NEW rv
  PROVE  Idle \in Rec /\ RecOK(Idle) /\ CopyOK(Idle.obj, a, rv)
<1>1. NoAllocations \in [Nodes -> Ranges]
  BY DEF NoAllocations, Ranges
<1>2. Idle \in Rec
  BY <1>1 DEF Idle, Rec
<1> QED
  BY <1>2, Zenon DEF Idle, RecOK, CopyOK

\* Controllers that have just started satisfy the invariant.
LEMMA FreshOK ==
  ASSUME NEW a \in Object \cup {None}, NEW ns \in SUBSET Nodes, NEW rv, CopyOK(a, a, rv)
  PROVE  Fresh(a, ns) \in Ctl /\ CtlOK(Fresh(a, ns), a, rv)
<1>1. Fresh(a, ns) \in Ctl
  BY IdleOK DEF Fresh, Ctl
<1> QED
  BY <1>1, IdleOK DEF Fresh, CtlOK

\* A pool without allocations is a good object.
LEMMA NewPoolOK ==
  ASSUME NEW v \in Nat, NEW s \in Specs, NEW o, o = [rv |-> v, spec |-> s, status |-> NoAllocations]
  PROVE  o \in Object /\ o # None /\ CopyOK(o, o, v + 1)
<1>1. NoAllocations \in [Nodes -> Ranges] /\ Disjoint(NoAllocations)
  BY DEF NoAllocations, Ranges, Disjoint
<1>2. o \in Object
  BY <1>1 DEF Object
<1>3. o # None
  BY <1>2, ObjectNotNone
<1> QED
  BY <1>1, <1>2, <1>3 DEF CopyOK

\* The initial states satisfy the invariant.
LEMMA InitInv == Init => Inv
<1> SUFFICES ASSUME Init PROVE Inv
  OBVIOUS
<1>1. api \in Object \cup {None} /\ CopyOK(api, api, nextRV)
  <2>1. CASE api = None
    BY <2>1 DEF CopyOK
  <2>2. CASE api # None
    <3>1. PICK s \in Specs : api = [rv |-> 0, spec |-> s, status |-> NoAllocations]
      BY <2>2 DEF Init
    <3>2. nextRV = 0 + 1
      BY DEF Init
    <3> QED
      BY <3>1, <3>2, NewPoolOK
  <2> QED
    BY <2>1, <2>2
<1>2. nodes \in SUBSET Nodes /\ nextRV \in Nat /\ edits \in Nat
  BY DEF Init
<1>3. ctl = [c \in Controllers |-> Fresh(api, nodes)]
  BY DEF Init
<1>4. Fresh(api, nodes) \in Ctl /\ CtlOK(Fresh(api, nodes), api, nextRV)
  BY <1>1, <1>2, FreshOK
<1> HIDE DEF Init
<1>5. ctl \in [Controllers -> Ctl]
  BY <1>3, <1>4
<1> QED
  BY <1>1, <1>2, <1>3, <1>4, <1>5 DEF Inv, TypeOK, Ctl
-----------------------------------------------------------------------------
\* Creating the pool: a new version without allocations.
LEMMA CreatePoolStep ==
  ASSUME Inv, NEW s \in Specs, CreatePool(s)
  PROVE  Inv'
<1>1. nextRV \in Nat /\ edits \in Nat
  BY DEF Inv, TypeOK
<1>2. /\ api' = [rv |-> nextRV, spec |-> s, status |-> NoAllocations]
      /\ nextRV' = nextRV + 1 /\ nodes' = nodes /\ ctl' = ctl /\ edits' = edits + 1
  BY DEF CreatePool, Edit
<1>3. api' \in Object /\ api' # None /\ CopyOK(api', api', nextRV')
  BY <1>1, <1>2, NewPoolOK
<1>4. api'.rv = nextRV
  BY <1>2
<1>5. TypeOK'
  BY <1>1, <1>2, <1>3 DEF Inv, TypeOK
<1>6. \A d \in Controllers : CtlOK(ctl'[d], api, nextRV)
  BY <1>2 DEF Inv
<1> QED
  BY <1>2, <1>3, <1>4, <1>5, <1>6, StepFrame

\* Editing the pool: a new version that keeps the status.
LEMMA EditPoolStep ==
  ASSUME Inv, NEW s \in Specs, EditPool(s)
  PROVE  Inv' /\ api # None /\ api' # None /\ api'.status = api.status
<1>1. nextRV \in Nat /\ edits \in Nat /\ api \in Object /\ Disjoint(api.status) /\ api # None
  BY DEF Inv, TypeOK, EditPool, CopyOK
<1>2. /\ api' = [api EXCEPT !.spec = s, !.rv = nextRV]
      /\ nextRV' = nextRV + 1 /\ nodes' = nodes /\ ctl' = ctl /\ edits' = edits + 1
  BY DEF EditPool, Edit
<1>3. api' \in Object /\ api'.rv = nextRV /\ api'.status = api.status
  BY <1>1, <1>2, Zenon DEF Object
<1>4. api' # None
  BY <1>3, ObjectNotNone
<1>5. CopyOK(api', api', nextRV')
  BY <1>1, <1>2, <1>3 DEF CopyOK
<1>6. TypeOK'
  BY <1>1, <1>2, <1>3 DEF Inv, TypeOK
<1>7. \A d \in Controllers : CtlOK(ctl'[d], api, nextRV)
  BY <1>2 DEF Inv
<1>8. Inv'
  BY <1>2, <1>3, <1>4, <1>5, <1>6, <1>7, StepFrame
<1> QED
  BY <1>1, <1>3, <1>4, <1>8

\* Deleting the pool leaves the copies of it as they are.
LEMMA DeletePoolStep ==
  ASSUME Inv, DeletePool
  PROVE  Inv'
<1>1. TypeOK'
  BY DEF Inv, TypeOK, DeletePool, Edit
<1>2. CopyOK(api', api', nextRV')
  BY DEF CopyOK, DeletePool
<1>3. \A d \in Controllers : CtlOK(ctl'[d], api, nextRV)
  BY DEF Inv, DeletePool
<1> QED
  BY <1>1, <1>2, <1>3, StepFrame DEF DeletePool

\* Nodes are in no conjunct of the invariant but the type.
LEMMA AddOrRemoveNodeStep ==
  ASSUME Inv, NEW n \in Nodes, AddOrRemoveNode(n)
  PROVE  Inv'
<1>1. TypeOK'
  BY DEF Inv, TypeOK, AddOrRemoveNode, Edit
<1>2. CopyOK(api', api', nextRV')
  BY DEF Inv, AddOrRemoveNode
<1>3. \A d \in Controllers : CtlOK(ctl'[d], api, nextRV)
  BY DEF Inv, AddOrRemoveNode
<1> QED
  BY <1>1, <1>2, <1>3, StepFrame DEF AddOrRemoveNode

\* A step of one controller that leaves the API alone.
LEMMA LocalStep ==
  ASSUME Inv, NEW c \in Controllers, NEW x \in Ctl, CtlOK(x, api, nextRV),
         ctl' = [ctl EXCEPT ![c] = x],
         api' = api, nextRV' = nextRV, nodes' = nodes, edits' \in Nat
  PROVE  Inv'
<1>1. ctl' \in [Controllers -> Ctl] /\ \A d \in Controllers : CtlOK(ctl'[d], api, nextRV)
  BY CtlFrame, Zenon
<1>2. TypeOK'
  BY <1>1 DEF Inv, TypeOK, Ctl
<1>3. CopyOK(api', api', nextRV')
  BY DEF Inv
<1> QED
  BY <1>1, <1>2, <1>3, StepFrame

\* The informer copies the object of the API.
LEMMA SyncPoolStep ==
  ASSUME Inv, NEW c \in Controllers, SyncPool(c)
  PROVE  Inv'
<1> DEFINE x == [ctl[c] EXCEPT !.pool = api, !.queued = TRUE]
<1>1. api \in Object \cup {None} /\ CopyOK(api, api, nextRV) /\ edits \in Nat
  BY DEF Inv, TypeOK
<1>2. x \in Ctl /\ x.pool = api /\ x.rec = ctl[c].rec
  BY <1>1, CtlFacts, Zenon DEF Ctl
<1>3. ctl' = [ctl EXCEPT ![c] = x] /\ api' = api /\ nextRV' = nextRV /\ nodes' = nodes /\ edits' = edits
  BY CtlFacts, Zenon DEF SyncPool, Ctl
<1> HIDE DEF x
<1>4. CtlOK(x, api, nextRV)
  BY <1>1, <1>2, CtlFacts DEF CtlOK
<1> QED
  BY <1>1, <1>2, <1>3, <1>4, LocalStep, Zenon

\* Steps on the queues and the Nodes of a controller change nothing the
\* invariant speaks of.
LEMMA QueueStep ==
  ASSUME Inv, NEW c \in Controllers, NEW n \in Nodes,
         SyncNode(c, n) \/ NodeReconcile(c, n)
  PROVE  Inv'
<1>1. PICK ns \in SUBSET Nodes, q \in SUBSET Nodes, e \in BOOLEAN, b \in BOOLEAN :
        ctl' = [ctl EXCEPT ![c] = [@ EXCEPT !.nodes = ns, !.nodeQ = q, !.event = e, !.queued = b]]
  <2>1. ctl[c] \in Ctl /\ ctl \in [Controllers -> Ctl]
    BY CtlFacts
  <2>2. CASE SyncNode(c, n)
    <3>1. ctl' = [ctl EXCEPT ![c] = [@ EXCEPT
                    !.nodes = IF n \in nodes THEN ctl[c].nodes \cup {n} ELSE ctl[c].nodes \ {n},
                    !.nodeQ = ctl[c].nodeQ \cup {n}, !.event = ctl[c].event, !.queued = ctl[c].queued]]
      BY <2>1, <2>2, Zenon DEF SyncNode, Ctl
    <3> QED
      BY <2>1, <3>1, ZenonT(60) DEF Ctl
  <2>3. CASE NodeReconcile(c, n)
    <3>1. CASE ctl' = [ctl EXCEPT ![c].nodeQ = @ \ {n}]
      <4>1. ctl' = [ctl EXCEPT ![c] = [@ EXCEPT !.nodes = ctl[c].nodes, !.nodeQ = ctl[c].nodeQ \ {n},
                                                !.event = ctl[c].event, !.queued = ctl[c].queued]]
        BY <2>1, <3>1, Zenon DEF Ctl
      <4> QED
        BY <2>1, <4>1, Zenon DEF Ctl
    <3>2. CASE ctl' = [ctl EXCEPT ![c].nodeQ = @ \ {n}, ![c].event = TRUE]
      <4>1. ctl' = [ctl EXCEPT ![c] = [@ EXCEPT !.nodes = ctl[c].nodes, !.nodeQ = ctl[c].nodeQ \ {n},
                                                !.event = TRUE, !.queued = ctl[c].queued]]
        BY <2>1, <3>2, Zenon DEF Ctl
      <4> QED
        BY <2>1, <4>1, Zenon DEF Ctl
    <3> QED
      BY <2>3, <3>1, <3>2, Zenon DEF NodeReconcile
  <2> QED
    BY <2>2, <2>3, Zenon
<1> DEFINE x == [ctl[c] EXCEPT !.nodes = ns, !.nodeQ = q, !.event = e, !.queued = b]
<1>2. x \in Ctl /\ x.pool = ctl[c].pool /\ x.rec = ctl[c].rec
  BY CtlFacts, Zenon DEF Ctl
<1>3. ctl' = [ctl EXCEPT ![c] = x]
  BY <1>1
<1>4. api' = api /\ nextRV' = nextRV /\ nodes' = nodes /\ edits' = edits /\ edits \in Nat
  BY Zenon DEF SyncNode, NodeReconcile, Inv, TypeOK
<1> HIDE DEF x
<1>5. CtlOK(x, api, nextRV)
  BY <1>2, CtlFacts DEF CtlOK
<1> QED
  BY <1>2, <1>3, <1>4, <1>5, LocalStep, Zenon

\* The event of a Node only queues the pool.
LEMMA NodeEventStep ==
  ASSUME Inv, NEW c \in Controllers, NodeEvent(c)
  PROVE  Inv'
<1> DEFINE x == [ctl[c] EXCEPT !.event = FALSE, !.queued = TRUE]
<1>1. x \in Ctl /\ x.pool = ctl[c].pool /\ x.rec = ctl[c].rec
  BY CtlFacts, Zenon DEF Ctl
<1>2. /\ ctl' = [ctl EXCEPT ![c] = x]
      /\ api' = api /\ nextRV' = nextRV /\ nodes' = nodes /\ edits' = edits /\ edits \in Nat
  BY Zenon DEF NodeEvent, Inv, TypeOK
<1> HIDE DEF x
<1>3. CtlOK(x, api, nextRV)
  BY <1>1, CtlFacts DEF CtlOK
<1> QED
  BY <1>1, <1>2, <1>3, LocalStep, Zenon

\* A restarted controller reads the present object.
LEMMA RestartStep ==
  ASSUME Inv, NEW c \in Controllers, Restart(c)
  PROVE  Inv'
<1> DEFINE x == Fresh(api, nodes)
<1>1. api \in Object \cup {None} /\ nodes \in SUBSET Nodes /\ CopyOK(api, api, nextRV) /\ edits \in Nat
  BY DEF Inv, TypeOK
<1>2. x \in Ctl /\ CtlOK(x, api, nextRV)
  BY <1>1, FreshOK
<1>3. ctl' = [ctl EXCEPT ![c] = x] /\ api' = api /\ nextRV' = nextRV /\ nodes' = nodes
  BY DEF Restart
<1>4. edits' \in Nat
  BY <1>1 DEF Restart, Edit
<1> HIDE DEF x
<1> QED
  BY <1>2, <1>3, <1>4, LocalStep, Zenon

\* What load takes from a good copy: blocks of the spec, no two starting
\* alike, and every valid block of a matching Node.
LEMMA LoadedOK ==
  ASSUME NEW o \in Object, Disjoint(o.status), NEW match \in SUBSET Nodes, NEW got,
         got = Loaded(o.spec, o.status, match)
  PROVE  got \in [Nodes -> Ranges] /\ GotOK(o, match, got)
<1> DEFINE ok == {n \in match : o.status[n] # NoRange /\ checkAllocation(o.spec, o.status[n])}
           first(n) == \A m \in ok : o.status[m].start = o.status[n].start => n <= m
<1>1. got = [n \in Nodes |-> IF n \in ok /\ first(n) THEN o.status[n] ELSE NoRange]
  BY DEF Loaded
<1>2. \A n \in Nodes : o.status[n] \in Ranges
  BY DEF Object
<1>3. NoRange \in Ranges
  BY DEF Ranges
<1>4. \A n \in ok : checkAllocation(o.spec, o.status[n]) /\ o.status[n] # NoRange /\ n \in Nodes
  OBVIOUS
<1>5. \A m, n \in ok : m # n => o.status[m].start # o.status[n].start
  <2> SUFFICES ASSUME NEW m \in ok, NEW n \in ok, m # n, o.status[m].start = o.status[n].start
               PROVE  FALSE
    OBVIOUS
  <2> DEFINE q == o.status[m]
             r == o.status[n]
  <2>1. q.end < r.start \/ r.end < q.start
    BY <1>4 DEF Disjoint
  <2>2. q \in Ranges /\ r \in Ranges /\ q # NoRange /\ r # NoRange /\ q.start = r.start
    BY <1>2, <1>4
  <2> HIDE DEF q, r
  <2> QED
    BY <2>1, <2>2 DEF Ranges
<1>6. \A n \in ok : first(n)
  <2> SUFFICES ASSUME NEW n \in ok, NEW m \in ok, o.status[m].start = o.status[n].start
               PROVE  n <= m
    OBVIOUS
  <2>1. m = n /\ n \in Nat
    BY <1>4, <1>5, NodesAssumption, Zenon
  <2> QED
    BY <2>1
<1>7. \A n \in ok : IsBlock(o.spec, o.status[n])
  BY <1>4 DEF IsBlock, checkAllocation
<1>8. \A n \in match :
         o.status[n] # NoRange /\ checkAllocation(o.spec, o.status[n]) => n \in ok
  OBVIOUS
<1> HIDE DEF ok, first
<1>9. \A n \in Nodes : got[n] = IF n \in ok THEN o.status[n] ELSE NoRange
  BY <1>1, <1>6
<1>10. got \in [Nodes -> Ranges]
  BY <1>1, <1>2, <1>3, Zenon
<1>11. \A n \in Nodes : IsBlock(o.spec, got[n])
  BY <1>7, <1>9 DEF IsBlock
<1>12. \A m, n \in Nodes :
          m # n /\ got[m] # NoRange /\ got[n] # NoRange => got[m].start # got[n].start
  BY <1>5, <1>9, ZenonT(60)
<1>13. \A n \in match :
          o.status[n] # NoRange /\ checkAllocation(o.spec, o.status[n]) => got[n] = o.status[n]
  BY <1>4, <1>8, <1>9
<1> QED
  BY <1>10, <1>11, <1>12, <1>13, Zenon DEF GotOK

\* A Reconcile starts from the cached object and what load takes from it.
LEMMA ReconcileStep ==
  ASSUME Inv, NEW c \in Controllers, Reconcile(c)
  PROVE  Inv'
<1> DEFINE obj == ctl[c].pool
           match == ctl[c].nodes \cap obj.spec.sel
           clear == [Idle EXCEPT !.pc = "clear", !.obj = obj]
           alloc == [pc |-> "alloc", obj |-> obj, match |-> match, todo |-> match,
                     got |-> Loaded(obj.spec, obj.status, match)]
           r == IF obj = None THEN Idle ELSE IF ~Validate(obj.spec) THEN clear ELSE alloc
           x == [ctl[c] EXCEPT !.queued = FALSE, !.rec = r]
<1>1. ctl[c] \in Ctl /\ CopyOK(obj, api, nextRV) /\ obj \in Object \cup {None} /\ match \in SUBSET Nodes
  BY CtlFacts, Zenon DEF Ctl
<1>2. r \in Rec /\ RecOK(r) /\ CopyOK(r.obj, api, nextRV)
  <2>1. CASE obj = None
    BY <2>1, IdleOK, Zenon
  <2>2. CASE obj # None /\ ~Validate(obj.spec)
    <3>1. /\ clear \in Rec /\ clear.pc = "clear" /\ clear.obj = obj /\ clear.got = NoAllocations
      BY <1>1, IdleOK, Zenon DEF Idle, Rec
    <3>2. r = clear
      BY <2>2
    <3> HIDE DEF clear, r, obj
    <3> QED
      BY <1>1, <2>2, <3>1, <3>2 DEF RecOK
  <2>3. CASE obj # None /\ Validate(obj.spec)
    <3>1. obj \in Object /\ Disjoint(obj.status)
      BY <1>1, <2>3 DEF CopyOK
    <3> DEFINE got == Loaded(obj.spec, obj.status, match)
    <3>2. got = Loaded(obj.spec, obj.status, match)
      OBVIOUS
    <3>3. got \in [Nodes -> Ranges] /\ GotOK(obj, match, got)
      <4> HIDE DEF got, match, obj
      <4> QED
        BY <1>1, <3>1, <3>2, LoadedOK
    <3>4. r = alloc
      BY <2>3, Zenon
    <3>5. alloc.pc = "alloc" /\ alloc.obj = obj /\ alloc.match = match /\ alloc.todo = match /\ alloc.got = got
      OBVIOUS
    <3>6. alloc = [pc |-> "alloc", obj |-> obj, match |-> match, todo |-> match, got |-> got]
      OBVIOUS
    <3> HIDE DEF got, match, obj
    <3>7. alloc \in Rec
      BY <1>1, <3>1, <3>3, <3>6, Zenon DEF Rec
    <3> HIDE DEF alloc, r
    <3>8. RecOK(alloc)
      BY <2>3, <3>3, <3>5, <3>7, Zenon DEF RecOK
    <3> QED
      BY <1>1, <3>4, <3>5, <3>7, <3>8, Zenon
  <2> QED
    BY <2>1, <2>2, <2>3
<1>3. ctl' = [ctl EXCEPT ![c].queued = FALSE, ![c].rec = r]
  BY Zenon DEF Reconcile
<1>4. api' = api /\ nextRV' = nextRV /\ nodes' = nodes /\ edits' = edits /\ edits \in Nat
  BY DEF Reconcile, Inv, TypeOK
<1> HIDE DEF r
<1>5. ctl' = [ctl EXCEPT ![c] = x]
  BY <1>3, Zenon
<1>6. x \in Ctl /\ x.pool = obj /\ x.rec = r
  BY <1>1, <1>2, Zenon DEF Ctl
<1> HIDE DEF x
<1>7. CtlOK(x, api, nextRV)
  BY <1>1, <1>2, <1>6, Zenon DEF CtlOK
<1> QED
  BY <1>4, <1>5, <1>6, <1>7, LocalStep, Zenon

\* A free block is a block of the spec whose start no other range has.
LEMMA FreeBlockOK ==
  ASSUME NEW s \in Specs, Validate(s), NEW got \in [Nodes -> Ranges],
         NEW b \in FreeBlocks(s, Taken(got)), NEW g, g = [start |-> b, end |-> EndOf(s, b)]
  PROVE  /\ g \in Ranges /\ g # NoRange /\ IsBlock(s, g)
         /\ \A m \in Nodes : got[m] # NoRange => got[m].start # g.start
<1>1. s.size \in Int /\ s.size >= 1 /\ s.net.lo \in Nat /\ s.net.hi \in Nat
  BY SpecsAssumption DEF Validate
<1>2. b \in s.net.lo .. s.net.hi /\ Aligned(s, b) /\ b \notin Taken(got)
  BY Zenon DEF FreeBlocks
<1>3. g.start = b /\ g.end = EndOf(s, b) /\ b \in Nat /\ EndOf(s, b) \in Nat /\ b <= EndOf(s, b)
  BY <1>1, <1>2 DEF EndOf
<1>4. g \in Ranges /\ g # NoRange
  BY <1>3 DEF Ranges, NoRange
<1>5. IsBlock(s, g)
  BY <1>2, <1>3, Zenon DEF IsBlock
<1>6. \A m \in Nodes : got[m] # NoRange => got[m].start # b
  BY <1>2 DEF Taken
<1> QED
  BY <1>3, <1>4, <1>5, <1>6, Zenon

\* AllocateFromPool adds a free block to the running Reconcile, or nothing.
LEMMA AllocateFromPoolStep ==
  ASSUME Inv, NEW c \in Controllers, AllocateFromPool(c)
  PROVE  Inv'
<1> DEFINE r == ctl[c].rec
           s == r.obj.spec
<1>1. /\ ctl[c] \in Ctl /\ ctl \in [Controllers -> Ctl]
      /\ CopyOK(ctl[c].pool, api, nextRV) /\ CopyOK(r.obj, api, nextRV) /\ RecOK(r)
  BY CtlFacts, Zenon
<1>2. r.pc = "alloc" /\ r \in Rec
  BY <1>1, Zenon DEF AllocateFromPool, Ctl
<1>3. r.obj \in Object /\ s \in Specs /\ Validate(s) /\ r.got \in [Nodes -> Ranges] /\ r.todo \in SUBSET Nodes
  BY <1>1, <1>2, Zenon DEF RecOK, CopyOK, Object, Rec
<1>4. api' = api /\ nextRV' = nextRV /\ nodes' = nodes /\ edits' = edits /\ edits \in Nat
  BY DEF AllocateFromPool, Inv, TypeOK
<1>5. PICK n \in r.todo :
        \/ ctl' = [ctl EXCEPT ![c].rec.todo = @ \ {n}]
        \/ /\ r.got[n] = NoRange
           /\ \E b \in FreeBlocks(s, Taken(r.got)) :
                 ctl' = [ctl EXCEPT ![c].rec.todo = @ \ {n},
                                    ![c].rec.got[n] = [start |-> b, end |-> EndOf(s, b)]]
  BY Zenon DEF AllocateFromPool
<1>6. CASE ctl' = [ctl EXCEPT ![c].rec.todo = @ \ {n}]
  <2> DEFINE q == [r EXCEPT !.todo = @ \ {n}]
             x == [ctl[c] EXCEPT !.rec = q]
  <2>1. ctl' = [ctl EXCEPT ![c] = x]
    BY <1>6
  <2>2. /\ q \in Rec /\ q.pc = r.pc /\ q.obj = r.obj /\ q.match = r.match /\ q.got = r.got
    BY <1>2 DEF Rec
  <2>3. x.pool = ctl[c].pool /\ x.rec = q /\ x \in Ctl
    BY <1>1, <2>2, Zenon DEF Ctl
  <2> HIDE DEF q, x, r
  <2>4. RecOK(q)
    BY <1>1, <2>2, Zenon DEF RecOK
  <2>5. CtlOK(x, api, nextRV)
    BY <1>1, <2>2, <2>3, <2>4 DEF CtlOK
  <2> QED
    BY <1>4, <2>1, <2>3, <2>5, LocalStep, Zenon
<1>7. CASE /\ r.got[n] = NoRange
           /\ \E b \in FreeBlocks(s, Taken(r.got)) :
                 ctl' = [ctl EXCEPT ![c].rec.todo = @ \ {n},
                                    ![c].rec.got[n] = [start |-> b, end |-> EndOf(s, b)]]
  <2>1. PICK b \in FreeBlocks(s, Taken(r.got)) :
          ctl' = [ctl EXCEPT ![c].rec.todo = @ \ {n},
                             ![c].rec.got[n] = [start |-> b, end |-> EndOf(s, b)]]
    BY <1>7, Zenon
  <2> DEFINE g == [start |-> b, end |-> EndOf(s, b)]
             q == [r EXCEPT !.todo = @ \ {n}, !.got = [@ EXCEPT ![n] = g]]
             x == [ctl[c] EXCEPT !.rec = q]
  <2>2. /\ g \in Ranges /\ g # NoRange /\ IsBlock(s, g)
        /\ \A m \in Nodes : r.got[m] # NoRange => r.got[m].start # g.start
    <3>1. g = [start |-> b, end |-> EndOf(s, b)]
      OBVIOUS
    <3> HIDE DEF g, s, r
    <3> QED
      BY <1>3, <3>1, FreeBlockOK, Zenon
  <2>3. ctl' = [ctl EXCEPT ![c].rec.todo = @ \ {n}, ![c].rec.got[n] = g]
    BY <2>1
  <2> HIDE DEF g
  <2>4. ctl' = [ctl EXCEPT ![c] = x]
    BY <2>3, ZenonT(30)
  <2>5. q \in Rec /\ q.pc = r.pc /\ q.obj = r.obj /\ q.match = r.match /\ q.got = [r.got EXCEPT ![n] = g]
    BY <1>2, <2>2, Zenon DEF Rec
  <2>6. x.pool = ctl[c].pool /\ x.rec = q /\ x \in Ctl
    BY <1>1, <2>5, Zenon DEF Ctl
  <2> HIDE DEF q, x, r, s
  <2>7. n \in Nodes /\ r.got[n] = NoRange /\ q.got[n] = g
    BY <1>3, <1>7, <2>5, Zenon
  <2>8. \A m \in Nodes : m # n => q.got[m] = r.got[m]
    BY <1>3, <2>5, Zenon
  <2>9. \A m \in Nodes : IsBlock(s, q.got[m])
    BY <1>1, <1>2, <2>2, <2>7, <2>8, Zenon DEF RecOK, GotOK, s
  <2>10. \A l, m \in Nodes :
            l # m /\ q.got[l] # NoRange /\ q.got[m] # NoRange => q.got[l].start # q.got[m].start
    BY <1>1, <1>2, <2>2, <2>7, <2>8 DEF RecOK, GotOK
  <2>11. \A m \in r.match :
            r.obj.status[m] # NoRange /\ checkAllocation(r.obj.spec, r.obj.status[m]) =>
                q.got[m] = r.obj.status[m]
    <3>1. r.match \subseteq Nodes
      BY <1>2, Zenon DEF Rec
    <3> QED
      BY <1>1, <1>2, <2>7, <2>8, <3>1, Zenon DEF RecOK, GotOK
  <2>12. RecOK(q)
    BY <1>1, <1>2, <2>5, <2>9, <2>10, <2>11, Zenon DEF RecOK, GotOK, s
  <2>13. CtlOK(x, api, nextRV)
    BY <1>1, <2>5, <2>6, <2>12, Zenon DEF CtlOK
  <2> QED
    BY <1>4, <2>4, <2>6, <2>13, LocalStep, Zenon
<1> QED
  BY <1>5, <1>6, <1>7, Zenon

\* What FinishReconcile does to the API: nothing, or it replaces the status
\* of the very object the Reconcile had read.
LEMMA FinishWrites ==
  ASSUME Inv, NEW c \in Controllers, NEW done \in BOOLEAN, FinishReconcile(c, done)
  PROVE  /\ ctl[c].rec.pc # "idle"
         /\ \/ api' = api /\ nextRV' = nextRV
            \/ /\ api = ctl[c].rec.obj /\ api \in Object /\ nextRV' = nextRV + 1
               /\ api' = [api EXCEPT !.status = ctl[c].rec.got, !.rv = nextRV]
<1> DEFINE r == ctl[c].rec
<1>1. r.pc # "idle"
  BY Zenon DEF FinishReconcile
<1>2. CopyOK(r.obj, api, nextRV) /\ r.obj # None
  BY <1>1, CtlFacts DEF RecOK
<1>3. \/ api' = api /\ nextRV' = nextRV
      \/ Accepts(r.obj) /\ WriteStatus(r.got)
  BY DEF FinishReconcile
<1> HIDE DEF r
<1>4. CASE Accepts(r.obj) /\ WriteStatus(r.got)
  <2>1. api = r.obj /\ api \in Object
    BY <1>2, <1>4 DEF Accepts, CopyOK
  <2>2. \/ api' = api /\ nextRV' = nextRV
        \/ api' = [api EXCEPT !.status = r.got, !.rv = nextRV] /\ nextRV' = nextRV + 1
    BY <1>4 DEF WriteStatus
  <2> QED
    BY <1>1, <2>1, <2>2, Zenon DEF r
<1> QED
  BY <1>1, <1>3, <1>4, Zenon DEF r

\* The status written has disjoint blocks, and the reconciler is idle again.
LEMMA FinishReconcileStep ==
  ASSUME Inv, NEW c \in Controllers, NEW done \in BOOLEAN, FinishReconcile(c, done)
  PROVE  Inv'
<1> DEFINE r == ctl[c].rec
           x == [ctl[c] EXCEPT !.rec = Idle, !.queued = @ \/ ~done]
<1>1. /\ ctl[c] \in Ctl /\ CopyOK(ctl[c].pool, api, nextRV) /\ CopyOK(r.obj, api, nextRV)
      /\ RecOK(r) /\ r \in Rec
  BY CtlFacts DEF RecOK
<1>2. x \in Ctl /\ x.pool = ctl[c].pool /\ x.rec = Idle
  <2>1. (ctl[c].queued \/ ~done) \in BOOLEAN
    BY <1>1 DEF Ctl
  <2> QED
    BY <1>1, <2>1, IdleOK, Zenon DEF Ctl
<1>3. ctl' = [ctl EXCEPT ![c] = x] /\ nodes' = nodes /\ edits' = edits
  BY Zenon DEF FinishReconcile
<1> HIDE DEF x
<1>4. CtlOK(x, api, nextRV)
  BY <1>1, <1>2, IdleOK DEF CtlOK
<1>5. ctl' \in [Controllers -> Ctl] /\ \A d \in Controllers : CtlOK(ctl'[d], api, nextRV)
  BY <1>2, <1>3, <1>4, CtlFrame, Zenon
<1>6. CASE api' = api /\ nextRV' = nextRV
  <2>1. TypeOK'
    BY <1>3, <1>5, <1>6 DEF Inv, TypeOK, Ctl
  <2>2. CopyOK(api', api', nextRV')
    BY <1>6 DEF Inv
  <2> QED
    BY <1>5, <1>6, <2>1, <2>2, StepFrame, Zenon
<1>7. CASE /\ api = r.obj /\ api \in Object /\ nextRV' = nextRV + 1
           /\ api' = [api EXCEPT !.status = r.got, !.rv = nextRV]
  <2> HIDE DEF r
  <2>1. nextRV \in Nat /\ r.got \in [Nodes -> Ranges]
    BY <1>1 DEF Inv, TypeOK, Rec
  <2>2. api' \in Object /\ api'.rv = nextRV /\ api'.status = r.got
    BY <1>7, <2>1, Zenon DEF Object
  <2>3. Disjoint(r.got)
    BY <1>1, <1>7, RecDisjoint, Zenon
  <2>4. api' # None
    BY <2>2, ObjectNotNone
  <2>5. CopyOK(api', api', nextRV')
    BY <1>7, <2>1, <2>2, <2>3 DEF CopyOK
  <2>6. TypeOK'
    BY <1>3, <1>5, <1>7, <2>1, <2>2 DEF Inv, TypeOK, Ctl
  <2> QED
    BY <1>5, <1>7, <2>2, <2>4, <2>5, <2>6, StepFrame, Zenon
<1> QED
  BY <1>6, <1>7, FinishWrites, Zenon

\* Every step keeps the invariant.
LEMMA NextInv == Inv /\ [Next]_vars => Inv'
<1> SUFFICES ASSUME Inv, [Next]_vars PROVE Inv'
  OBVIOUS
<1>1. CASE UserStep
  BY <1>1, CreatePoolStep, EditPoolStep, DeletePoolStep, AddOrRemoveNodeStep DEF UserStep
<1>2. ASSUME NEW c \in Controllers, Restart(c) \/ ControllerStep(c) PROVE Inv'
  BY <1>2, RestartStep, SyncPoolStep, QueueStep, NodeEventStep, ReconcileStep,
     AllocateFromPoolStep, FinishReconcileStep, Zenon DEF ControllerStep
<1>3. CASE UNCHANGED vars
  <2>1. api' = api /\ nextRV' = nextRV /\ nodes' = nodes /\ edits' = edits /\ ctl' = ctl
    BY <1>3, Zenon DEF vars
  <2>2. TypeOK' /\ CopyOK(api', api', nextRV')
    BY <2>1 DEF Inv, TypeOK
  <2>3. \A d \in Controllers : CtlOK(ctl'[d], api, nextRV)
    BY <2>1 DEF Inv
  <2> QED
    BY <2>1, <2>2, <2>3, StepFrame
<1> QED
  BY <1>1, <1>2, <1>3 DEF Next

\* The inductive invariant holds in every reachable state: every copy of the
\* pool that a controller holds is the object the API had in that version.
THEOREM InvTheorem == Spec => []Inv
  BY InitInv, NextInv, PTL DEF Spec

\* Types: in particular every block in the status has an end not below its
\* start, whichever controller wrote it.
THEOREM TypeCorrect == Spec => []TypeOK
<1>1. Inv => TypeOK
  BY DEF Inv
<1> QED
  BY <1>1, InvTheorem, PTL

\* The status of the pool never assigns overlapping blocks to two Nodes, for
\* any number of Nodes and controller processes, any stale caches, lost
\* answers and spec changes.
THEOREM DisjointTheorem == Spec => []DisjointBlocks
<1>1. Inv => DisjointBlocks
  BY Zenon DEF Inv, CopyOK, DisjointBlocks
<1> QED
  BY <1>1, InvTheorem, PTL

\* A step that takes a block from a Node has one of the reasons that
\* BlocksAreKept lists.
LEMMA KeptStep ==
  ASSUME Inv, [Next]_vars, NEW n \in Nodes, api # None, api' # None,
         api.status[n] # NoRange, api'.status[n] # api.status[n]
  PROVE  \/ ~Validate(api.spec) \/ ~checkAllocation(api.spec, api.status[n])
         \/ \E c \in Controllers : ctl[c].rec.pc = "alloc" /\ n \notin ctl[c].rec.match
<1>1. \E c \in Controllers : \E done \in BOOLEAN : FinishReconcile(c, done)
  <2>1. api' # api
    OBVIOUS
  <2>2. \A s \in Specs : ~CreatePool(s) /\ ~EditPool(s)
    BY EditPoolStep DEF CreatePool
  <2>3. ~DeletePool /\ \A m \in Nodes : ~AddOrRemoveNode(m)
    BY <2>1 DEF DeletePool, AddOrRemoveNode
  <2>4. ~UNCHANGED vars
    BY <2>1, Zenon DEF vars
  <2>5. ASSUME NEW c \in Controllers
        PROVE  ~Restart(c) /\ ~SyncPool(c) /\ ~NodeEvent(c) /\ ~Reconcile(c) /\ ~AllocateFromPool(c)
    BY <2>1 DEF Restart, SyncPool, NodeEvent, Reconcile, AllocateFromPool
  <2>6. ASSUME NEW c \in Controllers, NEW m \in Nodes PROVE ~SyncNode(c, m) /\ ~NodeReconcile(c, m)
    BY <2>1 DEF SyncNode, NodeReconcile
  <2> QED
    BY <2>2, <2>3, <2>4, <2>5, <2>6, Zenon DEF Next, UserStep, ControllerStep
<1>2. PICK c \in Controllers, done \in BOOLEAN : FinishReconcile(c, done)
  BY <1>1
<1> DEFINE r == ctl[c].rec
<1>3. /\ r.pc # "idle" /\ api = r.obj /\ api \in Object
      /\ api' = [api EXCEPT !.status = r.got, !.rv = nextRV]
  BY <1>2, FinishWrites, Zenon
<1>4. RecOK(r)
  BY CtlFacts
<1> HIDE DEF r
<1>5. api'.status = r.got
  BY <1>3 DEF Object
<1>6. r.pc = "clear" \/ r.pc = "alloc"
  BY <1>3, <1>4 DEF RecOK, Rec
<1>7. CASE r.pc = "clear"
  BY <1>3, <1>4, <1>7, Zenon DEF RecOK
<1>8. CASE r.pc = "alloc" /\ n \in r.match
  BY <1>3, <1>4, <1>5, <1>8 DEF RecOK, GotOK
<1>9. CASE r.pc = "alloc" /\ n \notin r.match
  BY <1>9, Zenon DEF r
<1> QED
  BY <1>6, <1>7, <1>8, <1>9

\* A Node keeps its block until the spec is invalid, excludes the block or
\* no longer fits it, or a Reconcile did not list the Node as a matching one:
\* no race between controllers, caches and edits takes a block in use away.
THEOREM KeptTheorem == Spec => BlocksAreKept
<1> DEFINE Kept == \A n \in Nodes :
         /\ api # None /\ api' # None
         /\ api.status[n] # NoRange /\ api'.status[n] # api.status[n]
         => \/ ~Validate(api.spec) \/ ~checkAllocation(api.spec, api.status[n])
            \/ \E c \in Controllers : ctl[c].rec.pc = "alloc" /\ n \notin ctl[c].rec.match
<1>1. Inv /\ [Next]_vars => [Kept]_vars
  <2> SUFFICES ASSUME Inv, [Next]_vars PROVE Kept
    BY Zenon
  <2> QED
    BY KeptStep, Zenon
<1> HIDE DEF Kept
<1>2. Spec => [][Kept]_vars
  BY <1>1, InvTheorem, PTL DEF Spec
<1> QED
  BY <1>2 DEF BlocksAreKept, Kept
-----------------------------------------------------------------------------
(***************************************************************************)
(* Cluster: which blocks the Nodes hand out, for any number of Nodes and   *)
(* specs.  Inv is the invariant of the controller, above.                  *)
(***************************************************************************)

\* The block was the Node's in some state, and is its own still unless lost.
Had(n, r) == BlockOf(n) = r \/ <<n, r>> \in lost

\* Whatever a daemon has seen, serves, or has given to Pods was its own.
NodeInv ==
    /\ seen \in [Nodes -> Ranges] /\ view \in [Nodes -> Ranges]
    /\ inUse \in [Nodes -> SUBSET Ranges]
    /\ \A n \in Nodes : seen[n] # NoRange => Had(n, seen[n])
    /\ \A n \in Nodes : view[n] # NoRange => Had(n, view[n])
    /\ \A n \in Nodes : \A b \in inUse[n] : b # NoRange /\ Had(n, b)

\* The Node may have the block g under spec s.
Fits(s, n, g) == n \in s.sel /\ Validate(s) /\ checkAllocation(s, g)

\* In a calm cluster with pool a and Nodes ns the controller x knows every
\* Node that has a block, and works on the one spec there was.
CalmCtl(x, a, ns) ==
    /\ x.nodes \subseteq ns
    /\ x.pool # None => a # None /\ x.pool.spec = a.spec
    /\ x.rec.pc # "idle" => a # None /\ x.rec.obj.spec = a.spec
    /\ a # None => \A n \in Nodes : a.status[n] # NoRange => n \in x.nodes
    /\ x.rec.pc = "alloc" =>
          /\ x.rec.todo \subseteq x.rec.match /\ x.rec.match \subseteq x.nodes \cap a.spec.sel
          /\ \A n \in Nodes : x.rec.got[n] # NoRange => n \in x.rec.match /\ Fits(a.spec, n, x.rec.got[n])
          /\ x.rec.obj = a => \A n \in Nodes : a.status[n] # NoRange => n \in x.rec.match

\* Every block in the status is one that a Reconcile would keep.
CalmPool(a) == a # None => \A n \in Nodes : a.status[n] # NoRange => Fits(a.spec, n, a.status[n])

\* While no spec was changed and no pool or Node removed, nothing was lost.
CalmInv ==
    calm => lost = {} /\ CalmPool(api) /\ \A c \in Controllers : CalmCtl(ctl[c], api, nodes)
-----------------------------------------------------------------------------
\* The object of the API has a range or NoRange for every Node.
LEMMA BlockOfType ==
  ASSUME Inv, NEW n \in Nodes
  PROVE  BlockOf(n) \in Ranges
  BY DEF Inv, TypeOK, BlockOf, Object, Ranges

\* A step that takes a block away remembers it in lost.
LEMMA HadKept ==
  ASSUME History, NEW n \in Nodes, NEW r, r # NoRange, Had(n, r)
  PROVE  Had(n, r)'
<1>1. lost \subseteq lost'
  BY DEF History
<1>2. CASE BlockOf(n) = r /\ BlockOf(n)' # r
  BY <1>2, Zenon DEF History, Had
<1> QED
  BY <1>1, <1>2, Zenon DEF Had

\* A step of a daemon leaves the pool and the history alone.
LEMMA HadSame ==
  ASSUME UNCHANGED <<vars, lost>>, NEW n \in Nodes, NEW r, Had(n, r)
  PROVE  Had(n, r)'
  BY DEF vars, Had, BlockOf

\* The daemons start with nothing.
LEMMA ClusterInitInv == ClusterInit => Inv /\ NodeInv /\ CalmInv
<1> SUFFICES ASSUME ClusterInit PROVE Inv /\ NodeInv /\ CalmInv
  OBVIOUS
<1>1. Inv
  BY InitInv, Zenon DEF ClusterInit
<1>2. NodeInv
  BY Zenon DEF ClusterInit, NodeInv, NoAllocations, Ranges
<1>3. CalmInv
  <2>1. api # None => \A n \in Nodes : api.status[n] = NoRange
    BY DEF ClusterInit, Init, NoAllocations
  <2>2. ASSUME NEW c \in Controllers PROVE CalmCtl(ctl[c], api, nodes)
    <3>1. ctl[c] = Fresh(api, nodes)
      BY Zenon DEF ClusterInit, Init
    <3>2. ctl[c].nodes = nodes /\ ctl[c].pool = api /\ ctl[c].rec.pc = "idle"
      BY <3>1 DEF Fresh, Idle
    <3> QED
      BY <2>1, <3>2, Zenon DEF CalmCtl
  <2> QED
    BY <2>1, <2>2, Zenon DEF CalmInv, CalmPool, ClusterInit
<1> QED
  BY <1>1, <1>2, <1>3

\* Steps of the controllers and of users keep what the Nodes have had in
\* reach; a daemon takes over only blocks that are, or were, its own.
LEMMA NodeInvStep ==
  ASSUME Inv, NodeInv, [ClusterNext]_clusterVars
  PROVE  NodeInv'
<1>1. CASE History /\ UNCHANGED nodeVars
  <2>1. seen' = seen /\ view' = view /\ inUse' = inUse
    BY <1>1, Zenon DEF nodeVars
  <2> QED
    BY <1>1, <2>1, HadKept DEF NodeInv
<1>2. CASE UNCHANGED clusterVars
  <2>1. seen' = seen /\ view' = view /\ inUse' = inUse /\ UNCHANGED <<vars, lost>>
    BY <1>2, Zenon DEF clusterVars, nodeVars
  <2> QED
    BY <2>1, HadSame DEF NodeInv
<1>3. ASSUME NEW n \in Nodes, NodeStep(n) PROVE NodeInv'
  <2>1. UNCHANGED <<vars, lost>>
    BY <1>3, Zenon DEF NodeStep, NodeSync, PublishBlock, AllocateOnNode, RestartNode, ReleaseOnNode
  <2>2. BlockOf(n) \in Ranges /\ NoRange \in Ranges /\ Had(n, BlockOf(n))
    BY BlockOfType, Zenon DEF Had, Ranges
  <2>3. CASE NodeSync(n)
    <3>1. view' = view /\ inUse' = inUse /\ seen' = [seen EXCEPT ![n] = BlockOf(n)]
      BY <2>3, Zenon DEF NodeSync
    <3> QED
      BY <2>1, <2>2, <3>1, HadSame, Zenon DEF NodeInv
  <2>4. CASE PublishBlock(n)
    <3>1. seen' = seen /\ inUse' = inUse /\ view' = [view EXCEPT ![n] = seen[n]]
      BY <2>4, Zenon DEF PublishBlock
    <3> QED
      BY <2>1, <3>1, HadSame, Zenon DEF NodeInv
  <2>5. CASE AllocateOnNode(n)
    <3>1. seen' = seen /\ view' = view /\ view[n] # NoRange /\ inUse' = [inUse EXCEPT ![n] = @ \cup {view[n]}]
      BY <2>5, Zenon DEF AllocateOnNode, Offers
    <3> QED
      BY <2>1, <3>1, HadSame DEF NodeInv
  <2>6. CASE RestartNode(n)
    <3>1. /\ seen' = [seen EXCEPT ![n] = BlockOf(n)] /\ inUse' = inUse
          /\ view' = [view EXCEPT ![n] = NoRange]
      BY <2>6, Zenon DEF RestartNode
    <3> QED
      BY <2>1, <2>2, <3>1, HadSame, Zenon DEF NodeInv
  <2>7. CASE \E b \in inUse[n] : ReleaseOnNode(n, b)
    <3>1. PICK b : seen' = seen /\ view' = view /\ inUse' = [inUse EXCEPT ![n] = @ \ {b}]
      BY <2>7, Zenon DEF ReleaseOnNode
    <3> QED
      BY <2>1, <3>1, HadSame DEF NodeInv
  <2> QED
    BY <1>3, <2>3, <2>4, <2>5, <2>6, <2>7, Zenon DEF NodeStep
<1> QED
  BY <1>1, <1>2, <1>3, Zenon DEF ClusterNext

\* The controller's invariant holds in the cluster.
LEMMA ClusterInvStep ==
  ASSUME Inv, [ClusterNext]_clusterVars
  PROVE  Inv' /\ [Next]_vars
<1>1. [Next]_vars
  BY Zenon DEF ClusterNext, clusterVars, NodeStep, NodeSync, PublishBlock, AllocateOnNode, RestartNode, ReleaseOnNode
<1> QED
  BY <1>1, NextInv, Zenon

\* Two blocks that overlap cannot both be their Nodes' own.
LEMMA SharedLemma ==
  ASSUME Inv, NodeInv
  PROVE  SharedOnlyAfterLoss
<1> SUFFICES ASSUME NEW m \in Nodes, NEW n \in Nodes, NEW b \in inUse[m], NEW d \in inUse[n],
                    m # n, <<m, b>> \notin lost, <<n, d>> \notin lost
             PROVE  Apart(b, d)
  BY Zenon DEF SharedOnlyAfterLoss
<1>1. BlockOf(m) = b /\ BlockOf(n) = d /\ b # NoRange /\ d # NoRange
  BY Zenon DEF NodeInv, Had
<1>2. api # None /\ api.status[m] = b /\ api.status[n] = d
  BY <1>1 DEF BlockOf
<1> QED
  BY <1>1, <1>2 DEF Inv, CopyOK, Disjoint, Apart

\* For any number of Nodes and controllers, Pods of two Nodes get addresses
\* of overlapping blocks only after one of the Nodes has lost its block: late
\* informers, restarts and lost answers alone never bring it about.
THEOREM SharedTheorem == ClusterSpec => []SharedOnlyAfterLoss
<1>1. ClusterInit => Inv /\ NodeInv
  BY ClusterInitInv
<1>2. Inv /\ NodeInv /\ [ClusterNext]_clusterVars => (Inv /\ NodeInv)'
  BY NodeInvStep, ClusterInvStep
<1>3. Inv /\ NodeInv => SharedOnlyAfterLoss
  BY SharedLemma
<1> QED
  BY <1>1, <1>2, <1>3, PTL DEF ClusterSpec
-----------------------------------------------------------------------------
\* While the step leaves the pool as it is, nothing is lost.
LEMMA NothingLost ==
  ASSUME History, CalmInv, calm', api' = api
  PROVE  /\ calm /\ lost = {} /\ lost' = {} /\ nodes \subseteq nodes'
         /\ CalmPool(api) /\ \A c \in Controllers : CalmCtl(ctl[c], api, nodes)
<1>1. \A n \in Nodes : BlockOf(n)' = BlockOf(n)
  BY DEF BlockOf
<1>2. calm /\ nodes \subseteq nodes'
  BY Zenon DEF History
<1>3. lost = {} /\ CalmPool(api) /\ \A c \in Controllers : CalmCtl(ctl[c], api, nodes)
  BY <1>2, Zenon DEF CalmInv
<1>4. lost' = {}
  BY <1>1, <1>3, Zenon DEF History
<1> QED
  BY <1>2, <1>3, <1>4

\* A step of one controller that leaves the API alone.
LEMMA CalmLocal ==
  ASSUME Inv, History, CalmInv, calm', api' = api, nodes' = nodes,
         NEW c \in Controllers, NEW x, ctl' = [ctl EXCEPT ![c] = x],
         CalmPool(api) /\ CalmCtl(ctl[c], api, nodes) => CalmCtl(x, api, nodes)
  PROVE  CalmInv'
<1>1. ctl \in [Controllers -> Ctl]
  BY CtlFacts, Zenon
<1>2. \A d \in Controllers : ctl'[d] = IF d = c THEN x ELSE ctl[d]
  BY <1>1, Zenon
<1>3. \A d \in Controllers : CalmCtl(ctl'[d], api, nodes)
  BY <1>2, NothingLost
<1> QED
  BY <1>3, NothingLost, Zenon DEF CalmInv

\* The informer brings the object the API has.
LEMMA CalmSyncPool ==
  ASSUME Inv, History, CalmInv, calm', NEW c \in Controllers, SyncPool(c)
  PROVE  CalmInv'
<1> DEFINE x == [ctl[c] EXCEPT !.pool = api, !.queued = TRUE]
<1>1. x.pool = api /\ x.nodes = ctl[c].nodes /\ x.rec = ctl[c].rec
  BY CtlFacts, Zenon DEF Ctl
<1>2. ctl' = [ctl EXCEPT ![c] = x] /\ api' = api /\ nodes' = nodes
  BY CtlFacts, Zenon DEF SyncPool, Ctl
<1> HIDE DEF x
<1>3. CalmCtl(ctl[c], api, nodes) => CalmCtl(x, api, nodes)
  BY <1>1, Zenon DEF CalmCtl
<1> QED
  BY <1>2, <1>3, CalmLocal, Zenon

\* Nodes are only added, so the informer only adds to the cache.
LEMMA CalmSyncNode ==
  ASSUME Inv, History, CalmInv, calm', NEW c \in Controllers, NEW n \in Nodes, SyncNode(c, n)
  PROVE  CalmInv'
<1> DEFINE x == [ctl[c] EXCEPT !.nodes = @ \cup {n}, !.nodeQ = @ \cup {n}]
<1>1. api' = api /\ nodes' = nodes
  BY DEF SyncNode
<1>2. n \in nodes
  <2>1. ctl[c].nodes \subseteq nodes
    BY <1>1, NothingLost DEF CalmCtl
  <2> QED
    BY <2>1 DEF SyncNode
<1>3. x.pool = ctl[c].pool /\ x.nodes = ctl[c].nodes \cup {n} /\ x.rec = ctl[c].rec
  BY CtlFacts, Zenon DEF Ctl
<1>4. ctl' = [ctl EXCEPT ![c] = x]
  BY <1>2, CtlFacts, Zenon DEF SyncNode, Ctl
<1> HIDE DEF x
<1>5. CalmCtl(ctl[c], api, nodes) => CalmCtl(x, api, nodes)
  BY <1>2, <1>3 DEF CalmCtl
<1> QED
  BY <1>1, <1>4, <1>5, CalmLocal, Zenon

\* Queues and events are not spoken of.
LEMMA CalmQueues ==
  ASSUME Inv, History, CalmInv, calm', NEW c \in Controllers,
         NodeEvent(c) \/ \E n \in Nodes : NodeReconcile(c, n)
  PROVE  CalmInv'
<1>1. PICK q, e, b : ctl' = [ctl EXCEPT ![c] = [@ EXCEPT !.nodeQ = q, !.event = e, !.queued = b]]
  <2>1. ctl[c] \in Ctl /\ ctl \in [Controllers -> Ctl]
    BY CtlFacts
  <2>2. CASE NodeEvent(c)
    <3>1. ctl' = [ctl EXCEPT ![c] = [@ EXCEPT !.nodeQ = ctl[c].nodeQ, !.event = FALSE, !.queued = TRUE]]
      BY <2>1, <2>2, Zenon DEF NodeEvent, Ctl
    <3> QED
      BY <3>1, Zenon
  <2>3. ASSUME NEW n \in Nodes, ctl' = [ctl EXCEPT ![c].nodeQ = @ \ {n}]
        PROVE  \E q, e, b : ctl' = [ctl EXCEPT ![c] = [@ EXCEPT !.nodeQ = q, !.event = e, !.queued = b]]
    <3>1. ctl' = [ctl EXCEPT ![c] = [@ EXCEPT !.nodeQ = ctl[c].nodeQ \ {n}, !.event = ctl[c].event,
                                              !.queued = ctl[c].queued]]
      BY <2>1, <2>3, Zenon DEF Ctl
    <3> QED
      BY <3>1, Zenon
  <2>4. ASSUME NEW n \in Nodes, ctl' = [ctl EXCEPT ![c].nodeQ = @ \ {n}, ![c].event = TRUE]
        PROVE  \E q, e, b : ctl' = [ctl EXCEPT ![c] = [@ EXCEPT !.nodeQ = q, !.event = e, !.queued = b]]
    <3>1. ctl' = [ctl EXCEPT ![c] = [@ EXCEPT !.nodeQ = ctl[c].nodeQ \ {n}, !.event = TRUE,
                                              !.queued = ctl[c].queued]]
      BY <2>1, <2>4, Zenon DEF Ctl
    <3> QED
      BY <3>1, Zenon
  <2> QED
    BY <2>2, <2>3, <2>4, Zenon DEF NodeReconcile
<1> DEFINE x == [ctl[c] EXCEPT !.nodeQ = q, !.event = e, !.queued = b]
<1>2. x.pool = ctl[c].pool /\ x.nodes = ctl[c].nodes /\ x.rec = ctl[c].rec
  BY CtlFacts, Zenon DEF Ctl
<1>3. ctl' = [ctl EXCEPT ![c] = x]
  BY <1>1
<1>4. api' = api /\ nodes' = nodes
  BY Zenon DEF NodeEvent, NodeReconcile
<1> HIDE DEF x
<1>5. CalmCtl(ctl[c], api, nodes) => CalmCtl(x, api, nodes)
  BY <1>2, Zenon DEF CalmCtl
<1> QED
  BY <1>3, <1>4, <1>5, CalmLocal, Zenon

\* A restarted controller has all the Nodes.
LEMMA CalmRestart ==
  ASSUME Inv, History, CalmInv, calm', NEW c \in Controllers, Restart(c)
  PROVE  CalmInv'
<1> DEFINE x == Fresh(api, nodes)
<1>1. x.nodes = nodes /\ x.pool = api /\ x.rec.pc = "idle"
  BY DEF Fresh, Idle
<1>2. ctl' = [ctl EXCEPT ![c] = x] /\ api' = api /\ nodes' = nodes
  BY Zenon DEF Restart
<1> HIDE DEF x
<1>3. CalmCtl(ctl[c], api, nodes) => CalmCtl(x, api, nodes)
  BY <1>1 DEF CalmCtl
<1> QED
  BY <1>2, <1>3, CalmLocal, Zenon

\* A Reconcile of the present object lists every Node that has a block.
LEMMA CalmReconcile ==
  ASSUME Inv, History, CalmInv, calm', NEW c \in Controllers, Reconcile(c)
  PROVE  CalmInv'
<1> DEFINE obj == ctl[c].pool
           match == ctl[c].nodes \cap obj.spec.sel
           got == Loaded(obj.spec, obj.status, match)
           clear == [Idle EXCEPT !.pc = "clear", !.obj = obj]
           alloc == [pc |-> "alloc", obj |-> obj, match |-> match, todo |-> match, got |-> got]
           r == IF obj = None THEN Idle ELSE IF ~Validate(obj.spec) THEN clear ELSE alloc
           x == [ctl[c] EXCEPT !.queued = FALSE, !.rec = r]
<1>1. ctl' = [ctl EXCEPT ![c].queued = FALSE, ![c].rec = r] /\ api' = api /\ nodes' = nodes
  BY Zenon DEF Reconcile
<1>2. /\ r.pc # "idle" => obj # None /\ r.obj = obj
      /\ r.pc = "alloc" => /\ obj # None /\ Validate(obj.spec)
                           /\ r.match = match /\ r.todo = match /\ r.got = got
  BY ZenonT(60) DEF Idle
<1>3. \A n \in Nodes : got[n] # NoRange => n \in match /\ checkAllocation(obj.spec, got[n])
  BY DEF Loaded
<1> HIDE DEF r
<1>4. x.pool = obj /\ x.nodes = ctl[c].nodes /\ x.rec = r
  BY CtlFacts, Zenon DEF Ctl
<1>5. ctl' = [ctl EXCEPT ![c] = x]
  BY <1>1, Zenon
<1> HIDE DEF x, got
<1>6. ASSUME CalmPool(api), CalmCtl(ctl[c], api, nodes)
      PROVE  CalmCtl(x, api, nodes)
  <2>1. /\ ctl[c].nodes \subseteq nodes
        /\ obj # None => api # None /\ obj.spec = api.spec
        /\ api # None => \A n \in Nodes : api.status[n] # NoRange => n \in ctl[c].nodes
    BY <1>6, Zenon DEF CalmCtl
  <2>2. x.rec.pc = "alloc" =>
          /\ x.rec.todo \subseteq x.rec.match /\ x.rec.match \subseteq x.nodes \cap api.spec.sel
          /\ \A n \in Nodes : x.rec.got[n] # NoRange => n \in x.rec.match /\ Fits(api.spec, n, x.rec.got[n])
    BY <1>2, <1>3, <1>4, <2>1, Zenon DEF Fits
  <2>3. x.rec.pc = "alloc" => \A n \in Nodes : api.status[n] # NoRange => n \in x.rec.match
    BY <1>2, <1>4, <1>6, <2>1, Zenon DEF CalmPool, Fits
  <2>4. x.rec.pc # "idle" => api # None /\ x.rec.obj.spec = api.spec
    BY <1>2, <1>4, <2>1, Zenon
  <2> HIDE DEF obj
  <2> QED
    BY <1>4, <2>1, <2>2, <2>3, <2>4, Zenon DEF CalmCtl, obj
<1> QED
  BY <1>1, <1>5, <1>6, CalmLocal, Zenon

\* AllocateFromPool chooses a block that checkAllocation accepts.
LEMMA FreeBlockFits ==
  ASSUME NEW s, NEW taken, NEW b \in FreeBlocks(s, taken), NEW g, g = [start |-> b, end |-> EndOf(s, b)]
  PROVE  checkAllocation(s, g)
<1>1. b \in s.net.lo .. s.net.hi /\ Aligned(s, b) /\ allocationValid(s, b) /\ ~Excluded(s, b) /\ ~IsGateway(s, b)
  BY DEF FreeBlocks
<1>2. g.start = b /\ g.end = EndOf(s, b)
  OBVIOUS
<1>3. InNet(s, b)
  BY <1>1 DEF InNet
<1> QED
  BY <1>1, <1>2, <1>3, Zenon DEF checkAllocation, allocationValid

\* The blocks a Reconcile adds are those of Nodes it has listed.
LEMMA CalmAllocate ==
  ASSUME Inv, History, CalmInv, calm', NEW c \in Controllers, AllocateFromPool(c)
  PROVE  CalmInv'
<1> DEFINE r == ctl[c].rec
           s == r.obj.spec
<1>1. /\ ctl[c] \in Ctl /\ ctl \in [Controllers -> Ctl] /\ r.pc = "alloc" /\ r \in Rec
      /\ Validate(s) /\ r.got \in [Nodes -> Ranges]
  BY CtlFacts, Zenon DEF AllocateFromPool, Ctl, RecOK, Rec
<1>2. api' = api /\ nodes' = nodes
  BY DEF AllocateFromPool
<1>3. PICK n \in r.todo :
        \/ ctl' = [ctl EXCEPT ![c].rec.todo = @ \ {n}]
        \/ \E b \in FreeBlocks(s, Taken(r.got)) :
              ctl' = [ctl EXCEPT ![c].rec.todo = @ \ {n},
                                 ![c].rec.got[n] = [start |-> b, end |-> EndOf(s, b)]]
  BY Zenon DEF AllocateFromPool
<1>4. CASE ctl' = [ctl EXCEPT ![c].rec.todo = @ \ {n}]
  <2> DEFINE q == [r EXCEPT !.todo = @ \ {n}]
             x == [ctl[c] EXCEPT !.rec = q]
  <2>1. ctl' = [ctl EXCEPT ![c] = x]
    BY <1>4
  <2>2. q.pc = r.pc /\ q.obj = r.obj /\ q.match = r.match /\ q.got = r.got /\ q.todo = r.todo \ {n}
    BY <1>1 DEF Rec
  <2>3. x.pool = ctl[c].pool /\ x.nodes = ctl[c].nodes /\ x.rec = q
    BY <1>1, Zenon DEF Ctl
  <2> HIDE DEF q, x
  <2>4. CalmCtl(ctl[c], api, nodes) => CalmCtl(x, api, nodes)
    BY <2>2, <2>3 DEF CalmCtl
  <2> QED
    BY <1>2, <2>1, <2>4, CalmLocal, Zenon
<1>5. ASSUME NEW b \in FreeBlocks(s, Taken(r.got)),
             ctl' = [ctl EXCEPT ![c].rec.todo = @ \ {n},
                                ![c].rec.got[n] = [start |-> b, end |-> EndOf(s, b)]]
      PROVE  CalmInv'
  <2> DEFINE g == [start |-> b, end |-> EndOf(s, b)]
             q == [r EXCEPT !.todo = @ \ {n}, !.got = [@ EXCEPT ![n] = g]]
             x == [ctl[c] EXCEPT !.rec = q]
  <2>1. checkAllocation(s, g)
    <3>1. g = [start |-> b, end |-> EndOf(s, b)]
      OBVIOUS
    <3> HIDE DEF g
    <3> QED
      BY <3>1, FreeBlockFits, Zenon
  <2>2. ctl' = [ctl EXCEPT ![c].rec.todo = @ \ {n}, ![c].rec.got[n] = g]
    BY <1>5
  <2> HIDE DEF g
  <2>3. ctl' = [ctl EXCEPT ![c] = x]
    BY <2>2, ZenonT(30)
  <2>4. /\ q.pc = r.pc /\ q.obj = r.obj /\ q.match = r.match /\ q.todo = r.todo \ {n}
        /\ q.got = [r.got EXCEPT ![n] = g]
    BY <1>1, Zenon DEF Rec
  <2>5. x.pool = ctl[c].pool /\ x.nodes = ctl[c].nodes /\ x.rec = q
    BY <1>1, Zenon DEF Ctl
  <2> HIDE DEF q, x
  <2>6. \A m \in Nodes : q.got[m] = IF m = n THEN g ELSE r.got[m]
    BY <1>1, <2>4, Zenon
  <2>7. ASSUME CalmCtl(ctl[c], api, nodes)
        PROVE  CalmCtl(x, api, nodes)
    <3>1. /\ r.todo \subseteq r.match /\ r.match \subseteq ctl[c].nodes \cap api.spec.sel /\ s = api.spec
      BY <1>1, <2>7, Zenon DEF CalmCtl
    <3>2. n \in r.match /\ Fits(api.spec, n, g)
      BY <1>1, <2>1, <3>1, Zenon DEF Fits
    <3>3. \A m \in Nodes : q.got[m] # NoRange => m \in r.match /\ Fits(api.spec, m, q.got[m])
      BY <1>1, <2>6, <2>7, <3>2, Zenon DEF CalmCtl
    <3>4. q.todo \subseteq r.match
      BY <2>4, <3>1
    <3> QED
      BY <2>4, <2>5, <2>7, <3>1, <3>3, <3>4, Zenon DEF CalmCtl
  <2> QED
    BY <1>2, <2>3, <2>7, CalmLocal, Zenon
<1> QED
  BY <1>3, <1>4, <1>5, Zenon

\* The only controller writes what it has read, with blocks added.
LEMMA CalmFinish ==
  ASSUME Inv, History, CalmInv, calm', \A d, e \in Controllers : d = e,
         NEW c \in Controllers, NEW done \in BOOLEAN, FinishReconcile(c, done)
  PROVE  CalmInv'
<1> DEFINE r == ctl[c].rec
           x == [ctl[c] EXCEPT !.rec = Idle, !.queued = @ \/ ~done]
<1>1. ctl[c] \in Ctl /\ ctl \in [Controllers -> Ctl] /\ RecOK(r)
  BY CtlFacts
<1>2. x.pool = ctl[c].pool /\ x.nodes = ctl[c].nodes /\ x.rec.pc = "idle"
  BY <1>1, Zenon DEF Ctl, Idle
<1>3. ctl' = [ctl EXCEPT ![c] = x] /\ nodes' = nodes
  BY Zenon DEF FinishReconcile
<1> HIDE DEF x
<1>4. CASE api' = api
  <2>1. CalmCtl(ctl[c], api, nodes) => CalmCtl(x, api, nodes)
    BY <1>2, Zenon DEF CalmCtl
  <2> QED
    BY <1>3, <1>4, <2>1, CalmLocal, Zenon
<1>5. CASE /\ r.pc # "idle" /\ api = r.obj /\ api \in Object
           /\ api' = [api EXCEPT !.status = r.got, !.rv = nextRV]
  <2> HIDE DEF r
  <2>1. api'.status = r.got /\ api'.spec = api.spec /\ api # None
    BY <1>5, ObjectNotNone DEF Object
  <2>2. calm /\ lost = {} /\ CalmPool(api) /\ CalmCtl(ctl[c], api, nodes)
    BY Zenon DEF History, CalmInv
  <2>3. /\ r.pc = "alloc" \/ r.pc = "clear"
        /\ r.pc = "clear" => ~Validate(api.spec) /\ r.got = NoAllocations
        /\ r.pc = "alloc" => GotOK(api, r.match, r.got)
    BY <1>1, <1>5, Zenon DEF RecOK, Rec
  <2>4. ASSUME NEW n \in Nodes, api.status[n] # NoRange
        PROVE  r.got[n] = api.status[n]
    <3>1. Validate(api.spec) /\ checkAllocation(api.spec, api.status[n])
      BY <2>1, <2>2, <2>4, Zenon DEF CalmPool, Fits
    <3>2. r.pc = "alloc" /\ n \in r.match
      BY <1>5, <2>1, <2>2, <2>3, <2>4, <3>1, Zenon DEF CalmCtl, r
    <3> QED
      BY <2>3, <2>4, <3>1, <3>2, Zenon DEF GotOK
  <2>5. ASSUME NEW n \in Nodes, r.got[n] # NoRange
        PROVE  Fits(api.spec, n, r.got[n]) /\ n \in ctl[c].nodes
    <3>1. r.pc = "alloc"
      BY <2>3, <2>5, Zenon DEF NoAllocations
    <3> QED
      BY <2>2, <2>5, <3>1, Zenon DEF CalmCtl, r
  <2>6. \A n \in Nodes : BlockOf(n) \in {NoRange, BlockOf(n)'}
    <3>1. CASE api' = None
      BY <2>1, <2>2, <3>1, Zenon DEF History
    <3>2. CASE api' # None
      BY <2>1, <2>4, <3>2, Zenon DEF BlockOf
    <3> QED
      BY <3>1, <3>2
  <2>7. lost' = {}
    BY <2>2, <2>6 DEF History
  <2>8. api' # None
    BY <2>1, Zenon DEF History
  <2>9. CalmPool(api')
    BY <2>1, <2>5, Zenon DEF CalmPool
  <2>10. CalmCtl(x, api', nodes)
    BY <1>2, <2>1, <2>2, <2>5, <2>8, Zenon DEF CalmCtl
  <2>11. \A d \in Controllers : ctl'[d] = x
    BY <1>1, <1>3, Zenon
  <2> QED
    BY <1>3, <2>7, <2>9, <2>10, <2>11, Zenon DEF CalmInv
<1> QED
  BY <1>4, <1>5, FinishWrites, Zenon

\* Users create the pool and add Nodes.
LEMMA CalmUser ==
  ASSUME Inv, History, CalmInv, calm', UserStep
  PROVE  CalmInv'
<1>1. calm /\ nodes \subseteq nodes' /\ (api # None => api' # None /\ api'.spec = api.spec)
  BY Zenon DEF History
<1>2. /\ lost = {} /\ CalmPool(api)
      /\ \A c \in Controllers : CalmCtl(ctl[c], api, nodes)
  BY <1>1, Zenon DEF CalmInv
<1>3. ASSUME NEW s \in Specs, CreatePool(s) PROVE CalmInv'
  <2>1. /\ api = None /\ ctl' = ctl /\ nodes' = nodes
        /\ api' = [rv |-> nextRV, spec |-> s, status |-> NoAllocations]
    BY <1>3, Zenon DEF CreatePool
  <2>2. \A n \in Nodes : api'.status[n] = NoRange
    BY <2>1, Zenon DEF NoAllocations
  <2>3. lost' = {}
    BY <1>2, <2>1, Zenon DEF History, BlockOf
  <2>4. ASSUME NEW c \in Controllers PROVE CalmCtl(ctl[c], api', nodes)
    <3>1. CalmCtl(ctl[c], api, nodes)
      BY <1>2
    <3> QED
      BY <2>1, <2>2, <3>1, Zenon DEF CalmCtl
  <2> QED
    BY <2>1, <2>2, <2>3, <2>4, Zenon DEF CalmInv, CalmPool
<1>4. ASSUME NEW s \in Specs, EditPool(s) PROVE FALSE
  <2>1. api \in Object /\ api' = [api EXCEPT !.spec = s, !.rv = nextRV] /\ api.spec # s /\ api # None
    BY <1>4 DEF EditPool, Inv, TypeOK
  <2>2. api'.spec = s
    BY <2>1 DEF Object
  <2> QED
    BY <1>1, <2>1, <2>2
<1>5. ~DeletePool
  BY <1>1, Zenon DEF DeletePool
<1>6. ASSUME NEW n \in Nodes, AddOrRemoveNode(n) PROVE CalmInv'
  <2>1. api' = api /\ ctl' = ctl
    BY <1>6, Zenon DEF AddOrRemoveNode
  <2>2. ASSUME NEW c \in Controllers PROVE CalmCtl(ctl[c], api, nodes')
    <3>1. CalmCtl(ctl[c], api, nodes)
      BY <1>2
    <3> QED
      BY <1>1, <3>1 DEF CalmCtl
  <2> QED
    BY <1>2, <2>1, <2>2, NothingLost, Zenon DEF CalmInv
<1> QED
  BY <1>3, <1>4, <1>5, <1>6 DEF UserStep

\* With one controller, every step keeps the calm invariant.
LEMMA CalmStep ==
  ASSUME \A d, e \in Controllers : d = e, Inv, CalmInv, [ClusterNext]_clusterVars
  PROVE  CalmInv'
<1>1. CASE UNCHANGED <<vars, lost, calm>>
  BY <1>1, Zenon DEF vars, CalmInv
<1>2. CASE UNCHANGED clusterVars
  BY <1>1, <1>2, Zenon DEF clusterVars
<1>3. ASSUME NEW n \in Nodes, NodeStep(n) PROVE CalmInv'
  BY <1>1, <1>3 DEF NodeStep, NodeSync, PublishBlock, AllocateOnNode, RestartNode, ReleaseOnNode
<1>4. CASE Next /\ History
  <2> SUFFICES ASSUME calm' PROVE CalmInv'
    BY DEF CalmInv
  <2>1. ASSUME NEW c \in Controllers, Restart(c) \/ ControllerStep(c) PROVE CalmInv'
    BY <1>4, <2>1, CalmRestart, CalmSyncPool, CalmSyncNode, CalmQueues, CalmReconcile, CalmAllocate,
       CalmFinish, Zenon DEF ControllerStep
  <2> QED
    BY <1>4, <2>1, CalmUser, Zenon DEF Next
<1> QED
  BY <1>2, <1>3, <1>4, Zenon DEF ClusterNext

\* With one controller process, for any Nodes and specs: as long as users
\* only create the pool and add Nodes, Pods of two Nodes never get the same
\* address, whatever caches, lost answers and restarts do.
THEOREM CalmTheorem ==
  ASSUME \A d, e \in Controllers : d = e
  PROVE  ClusterSpec => []CalmIsSafe
<1>1. ClusterInit => Inv /\ NodeInv /\ CalmInv
  BY ClusterInitInv, Zenon
<1>2. Inv /\ NodeInv /\ CalmInv /\ [ClusterNext]_clusterVars => (Inv /\ NodeInv /\ CalmInv)'
  BY NodeInvStep, ClusterInvStep, CalmStep
<1>3. ASSUME Inv, NodeInv, CalmInv PROVE CalmIsSafe
  BY <1>3, SharedLemma, Zenon DEF SharedOnlyAfterLoss, CalmIsSafe, CalmInv
<1> QED
  BY <1>1, <1>2, <1>3, PTL DEF ClusterSpec
-----------------------------------------------------------------------------
(***************************************************************************)
(* A controller rests only when the status is right.                       *)
(***************************************************************************)

\* The ranges of a running Reconcile: valid blocks of listed Nodes, and one
\* for every Node the loop has passed unless there was no free block.
RecGets(r) ==
    r.pc = "alloc" =>
        /\ r.todo \subseteq r.match
        /\ \A n \in Nodes : r.got[n] # NoRange => n \in r.match /\ checkAllocation(r.obj.spec, r.got[n])
        /\ FreeBlocks(r.obj.spec, Taken(r.got)) # {} => \A n \in r.match \ r.todo : r.got[n] # NoRange

\* A controller x with nothing queued, when the API has pool a: its Reconcile
\* works on what is in the caches, or has left the cached pool as it should
\* be, or an event with a newer pool is on its way.
Attends(x, a) ==
    x.pool # None /\ ~Pending(x) =>
        /\ x.rec.pc = "idle" => x.pool # a \/ SettledFor(x.pool, x.nodes)
        /\ x.rec.pc # "idle" => x.rec.obj = x.pool
        /\ x.rec.pc = "alloc" => x.rec.match = x.nodes \cap x.pool.spec.sel

QuietInv == \A c \in Controllers : RecGets(ctl[c].rec) /\ Attends(ctl[c], api)

\* An outdated copy of the pool stays outdated: versions are not used again.
LEMMA AttendsFrame ==
  ASSUME Inv, NEW c \in Controllers, Attends(ctl[c], api), NEW b, b = api \/ b = None \/ b.rv = nextRV
  PROVE  Attends(ctl[c], b)
<1> DEFINE o == ctl[c].pool
<1>1. ASSUME o # None, o = b
      PROVE  o = api
  <2>1. CopyOK(o, api, nextRV)
    BY CtlFacts, Zenon
  <2>2. o \in Object /\ o.rv < nextRV
    BY <1>1, <2>1, Zenon DEF CopyOK
  <2>3. o.rv \in Nat /\ nextRV \in Nat
    BY <2>2, Zenon DEF Object, Inv, TypeOK
  <2>4. o.rv # nextRV
    BY <2>2, <2>3
  <2> QED BY <1>1, <2>4, Zenon
<1> QED BY <1>1, Zenon DEF Attends

\* A step of one controller, or of none.
LEMMA QuietFrame ==
  ASSUME Inv, QuietInv, NEW c \in Controllers, NEW x, ctl' = [ctl EXCEPT ![c] = x],
         api' = api \/ api' = None \/ api'.rv = nextRV,
         RecGets(x.rec), Attends(x, api')
  PROVE  QuietInv'
<1>1. ctl \in [Controllers -> Ctl]
  BY CtlFacts, Zenon
<1>2. \A d \in Controllers : ctl'[d] = IF d = c THEN x ELSE ctl[d]
  BY <1>1, Zenon
<1>3. ASSUME NEW d \in Controllers
      PROVE  RecGets(ctl'[d].rec) /\ Attends(ctl'[d], api')
  <2>1. RecGets(ctl[d].rec) /\ Attends(ctl[d], api)
    BY Zenon DEF QuietInv
  <2>2. Attends(ctl[d], api')
    BY <2>1, AttendsFrame, Zenon
  <2> QED BY <1>2, <2>1, <2>2, Zenon
<1> QED BY <1>3, Zenon DEF QuietInv

\* Users change the API and no controller.
LEMMA QuietUser ==
  ASSUME Inv, QuietInv, UserStep
  PROVE  QuietInv'
<1>1. ctl' = ctl
  BY Zenon DEF UserStep, CreatePool, EditPool, DeletePool, AddOrRemoveNode
<1>2. api' = api \/ api' = None \/ api'.rv = nextRV
  <2>1. ASSUME NEW s \in Specs, CreatePool(s)
        PROVE  api'.rv = nextRV
    BY <2>1 DEF CreatePool
  <2>2. ASSUME NEW s \in Specs, EditPool(s)
        PROVE  api'.rv = nextRV
    <3>1. api \in Object /\ api' = [api EXCEPT !.spec = s, !.rv = nextRV]
      BY <2>2, Zenon DEF EditPool, Inv, TypeOK
    <3> QED BY <3>1 DEF Object
  <2> QED BY <2>1, <2>2, Zenon DEF UserStep, DeletePool, AddOrRemoveNode
<1>3. ASSUME NEW c \in Controllers
      PROVE  RecGets(ctl[c].rec) /\ Attends(ctl[c], api')
  BY <1>2, AttendsFrame, Zenon DEF QuietInv
<1> QED BY <1>1, <1>3, Zenon DEF QuietInv

\* The informers queue the pool, or the Node, with every change.
LEMMA QuietSync ==
  ASSUME Inv, QuietInv, NEW c \in Controllers, SyncPool(c) \/ \E n \in Nodes : SyncNode(c, n)
  PROVE  QuietInv'
<1>1. ctl[c] \in Ctl /\ RecGets(ctl[c].rec)
  BY CtlFacts, Zenon DEF QuietInv
<1>2. CASE SyncPool(c)
  <2> DEFINE x == [ctl[c] EXCEPT !.pool = api, !.queued = TRUE]
  <2>1. ctl' = [ctl EXCEPT ![c] = x] /\ api' = api
    BY <1>2, CtlFacts, Zenon DEF SyncPool, Ctl
  <2>2. x.queued /\ x.rec = ctl[c].rec
    BY <1>1, Zenon DEF Ctl
  <2> HIDE DEF x
  <2>3. RecGets(x.rec) /\ Attends(x, api')
    BY <1>1, <2>2, Zenon DEF Attends, Pending
  <2> QED BY <2>1, <2>3, QuietFrame, Zenon
<1>3. ASSUME NEW n \in Nodes, SyncNode(c, n)
      PROVE  QuietInv'
  <2>1. PICK ns : ns = IF n \in nodes THEN ctl[c].nodes \cup {n} ELSE ctl[c].nodes \ {n}
    BY Zenon
  <2> DEFINE x == [ctl[c] EXCEPT !.nodes = ns, !.nodeQ = @ \cup {n}]
  <2>2. ctl' = [ctl EXCEPT ![c] = x] /\ api' = api
    BY <1>3, <2>1, CtlFacts, Zenon DEF SyncNode, Ctl
  <2>3. n \in x.nodeQ /\ x.rec = ctl[c].rec
    BY <1>1, Zenon DEF Ctl
  <2> HIDE DEF x
  <2>4. RecGets(x.rec) /\ Attends(x, api')
    BY <1>1, <2>3, Zenon DEF Attends, Pending
  <2> QED BY <2>2, <2>4, QuietFrame, Zenon
<1> QED BY <1>2, <1>3, Zenon

\* The Node reconciler drops a Node only if there is no pool to wake; the
\* event it sends is in the channel until the pool is queued.
LEMMA QuietWake ==
  ASSUME Inv, QuietInv, NEW c \in Controllers, NodeEvent(c) \/ \E n \in Nodes : NodeReconcile(c, n)
  PROVE  QuietInv'
<1>1. ctl[c] \in Ctl /\ RecGets(ctl[c].rec)
  BY CtlFacts, Zenon DEF QuietInv
<1>2. CASE NodeEvent(c)
  <2> DEFINE x == [ctl[c] EXCEPT !.event = FALSE, !.queued = TRUE]
  <2>1. ctl' = [ctl EXCEPT ![c] = x] /\ api' = api
    BY <1>2, CtlFacts, Zenon DEF NodeEvent, Ctl
  <2>2. x.queued /\ x.rec = ctl[c].rec
    BY <1>1, Zenon DEF Ctl
  <2> HIDE DEF x
  <2>3. RecGets(x.rec) /\ Attends(x, api')
    BY <1>1, <2>2, Zenon DEF Attends, Pending
  <2> QED BY <2>1, <2>3, QuietFrame, Zenon
<1>3. ASSUME NEW n \in Nodes, ctl' = [ctl EXCEPT ![c].nodeQ = @ \ {n}], ~Wakes(c, n), api' = api
      PROVE  QuietInv'
  <2> DEFINE x == [ctl[c] EXCEPT !.nodeQ = @ \ {n}]
  <2>1. ctl' = [ctl EXCEPT ![c] = x]
    BY <1>3, CtlFacts, Zenon DEF Ctl
  <2>2. x.pool = None /\ x.rec = ctl[c].rec
    BY <1>1, <1>3, Zenon DEF Ctl, Wakes
  <2> HIDE DEF x
  <2>3. RecGets(x.rec) /\ Attends(x, api')
    BY <1>1, <2>2, Zenon DEF Attends
  <2> QED BY <1>3, <2>1, <2>3, QuietFrame, Zenon
<1>4. ASSUME NEW n \in Nodes, ctl' = [ctl EXCEPT ![c].nodeQ = @ \ {n}, ![c].event = TRUE], api' = api
      PROVE  QuietInv'
  <2> DEFINE x == [ctl[c] EXCEPT !.nodeQ = @ \ {n}, !.event = TRUE]
  <2>1. ctl' = [ctl EXCEPT ![c] = x]
    BY <1>4, CtlFacts, Zenon DEF Ctl
  <2>2. x.event /\ x.rec = ctl[c].rec
    BY <1>1, Zenon DEF Ctl
  <2> HIDE DEF x
  <2>3. RecGets(x.rec) /\ Attends(x, api')
    BY <1>1, <2>2, Zenon DEF Attends, Pending
  <2> QED BY <1>4, <2>1, <2>3, QuietFrame, Zenon
<1> QED BY <1>2, <1>3, <1>4, Zenon DEF NodeReconcile

\* A controller starts with the pool queued.
LEMMA QuietRestart ==
  ASSUME Inv, QuietInv, NEW c \in Controllers, Restart(c)
  PROVE  QuietInv'
<1> DEFINE x == Fresh(api, nodes)
<1>1. x.queued /\ x.rec.pc = "idle"
  BY DEF Fresh, Idle
<1>2. ctl' = [ctl EXCEPT ![c] = x] /\ api' = api
  BY Zenon DEF Restart
<1> HIDE DEF x
<1>3. "idle" # "alloc"
  OBVIOUS
<1>4. RecGets(x.rec) /\ Attends(x, api')
  BY <1>1, <1>3, Zenon DEF RecGets, Attends, Pending
<1> QED BY <1>2, <1>4, QuietFrame, Zenon

\* A Reconcile starts with what is in the caches.
LEMMA QuietReconcile ==
  ASSUME Inv, QuietInv, NEW c \in Controllers, Reconcile(c)
  PROVE  QuietInv'
<1> DEFINE obj == ctl[c].pool
           match == ctl[c].nodes \cap obj.spec.sel
           got == Loaded(obj.spec, obj.status, match)
           clear == [Idle EXCEPT !.pc = "clear", !.obj = obj]
           alloc == [pc |-> "alloc", obj |-> obj, match |-> match, todo |-> match, got |-> got]
           r == IF obj = None THEN Idle ELSE IF ~Validate(obj.spec) THEN clear ELSE alloc
           x == [ctl[c] EXCEPT !.queued = FALSE, !.rec = r]
<1>1. ctl' = [ctl EXCEPT ![c].queued = FALSE, ![c].rec = r] /\ api' = api
  BY Zenon DEF Reconcile
<1>2. /\ r.pc # "idle" => r.obj = obj
      /\ obj # None => r.pc # "idle"
      /\ r.pc = "alloc" => r.obj = obj /\ r.match = match /\ r.todo = match /\ r.got = got
  BY ZenonT(60) DEF Idle
<1>3. \A n \in Nodes : got[n] # NoRange => n \in match /\ checkAllocation(obj.spec, got[n])
  BY ZenonT(30) DEF Loaded
<1> HIDE DEF r
<1>4. x.pool = obj /\ x.nodes = ctl[c].nodes /\ x.rec = r
  BY CtlFacts, Zenon DEF Ctl
<1>5. ctl' = [ctl EXCEPT ![c] = x]
  BY <1>1, Zenon
<1> HIDE DEF x, got
<1>6. RecGets(x.rec)
  BY <1>2, <1>3, <1>4, Zenon DEF RecGets
<1>7. Attends(x, api')
  BY <1>2, <1>4, Zenon DEF Attends
<1> QED BY <1>1, <1>5, <1>6, <1>7, QuietFrame, Zenon

\* The free blocks get fewer when a block is taken.
LEMMA FreeShrinks ==
  ASSUME NEW s, NEW got \in [Nodes -> Ranges], NEW n \in Nodes, got[n] = NoRange,
         NEW g, NEW new, new = [got EXCEPT ![n] = g]
  PROVE  FreeBlocks(s, Taken(new)) \subseteq FreeBlocks(s, Taken(got))
<1>1. \A m \in Nodes : new[m] = IF m = n THEN g ELSE got[m]
  BY Zenon
<1>2. Taken(got) \subseteq Taken(new)
  BY <1>1, Zenon DEF Taken
<1> QED BY <1>2, Zenon DEF FreeBlocks

\* AllocateFromPool leaves the Node without a block only if none is free.
LEMMA QuietAllocate ==
  ASSUME Inv, QuietInv, NEW c \in Controllers, AllocateFromPool(c)
  PROVE  QuietInv'
<1> DEFINE r == ctl[c].rec
           s == r.obj.spec
<1>1. /\ ctl[c] \in Ctl /\ ctl \in [Controllers -> Ctl] /\ r.pc = "alloc" /\ r \in Rec
      /\ r.got \in [Nodes -> Ranges] /\ r.todo \in SUBSET Nodes
  BY CtlFacts, Zenon DEF AllocateFromPool, Ctl, RecOK, Rec
<1>2. api' = api
  BY Zenon DEF AllocateFromPool
<1>3. PICK n \in r.todo :
        \/ /\ r.got[n] # NoRange \/ FreeBlocks(s, Taken(r.got)) = {}
           /\ ctl' = [ctl EXCEPT ![c].rec.todo = @ \ {n}]
        \/ /\ r.got[n] = NoRange
           /\ \E b \in FreeBlocks(s, Taken(r.got)) :
                 ctl' = [ctl EXCEPT ![c].rec.todo = @ \ {n},
                                    ![c].rec.got[n] = [start |-> b, end |-> EndOf(s, b)]]
  BY Zenon DEF AllocateFromPool
<1>4. /\ r.todo \subseteq r.match
      /\ \A m \in Nodes : r.got[m] # NoRange => m \in r.match /\ checkAllocation(s, r.got[m])
      /\ FreeBlocks(s, Taken(r.got)) # {} => \A m \in r.match \ r.todo : r.got[m] # NoRange
  BY <1>1, Zenon DEF QuietInv, RecGets
<1>5. Attends(ctl[c], api)
  BY Zenon DEF QuietInv
<1>6. ASSUME r.got[n] # NoRange \/ FreeBlocks(s, Taken(r.got)) = {},
             ctl' = [ctl EXCEPT ![c].rec.todo = @ \ {n}]
      PROVE  QuietInv'
  <2> DEFINE q == [r EXCEPT !.todo = @ \ {n}]
             x == [ctl[c] EXCEPT !.rec = q]
  <2>1. ctl' = [ctl EXCEPT ![c] = x]
    BY <1>6
  <2>2. q.pc = r.pc /\ q.obj = r.obj /\ q.match = r.match /\ q.got = r.got /\ q.todo = r.todo \ {n}
    BY <1>1 DEF Rec
  <2>3. /\ x.pool = ctl[c].pool /\ x.nodes = ctl[c].nodes /\ x.rec = q
        /\ x.queued = ctl[c].queued /\ x.event = ctl[c].event /\ x.nodeQ = ctl[c].nodeQ
    BY <1>1, Zenon DEF Ctl
  <2> HIDE DEF q, x
  <2>4. RecGets(x.rec)
    <3>1. q.todo \subseteq r.match
      BY <1>4, <2>2
    <3>2. ASSUME FreeBlocks(s, Taken(r.got)) # {}, NEW m \in r.match \ q.todo
          PROVE  r.got[m] # NoRange
      BY <1>4, <1>6, <2>2, <3>2, Zenon
    <3> QED BY <1>4, <2>2, <2>3, <3>1, <3>2, Zenon DEF RecGets
  <2>5. Attends(x, api')
    BY <1>2, <1>5, <2>2, <2>3, Zenon DEF Attends, Pending
  <2> QED BY <1>2, <2>1, <2>4, <2>5, QuietFrame, Zenon
<1>7. ASSUME r.got[n] = NoRange, NEW b \in FreeBlocks(s, Taken(r.got)),
             ctl' = [ctl EXCEPT ![c].rec.todo = @ \ {n},
                                ![c].rec.got[n] = [start |-> b, end |-> EndOf(s, b)]]
      PROVE  QuietInv'
  <2> DEFINE g == [start |-> b, end |-> EndOf(s, b)]
             q == [r EXCEPT !.todo = @ \ {n}, !.got = [@ EXCEPT ![n] = g]]
             x == [ctl[c] EXCEPT !.rec = q]
  <2>1. checkAllocation(s, g) /\ g # NoRange
    <3>1. g = [start |-> b, end |-> EndOf(s, b)]
      BY Zenon
    <3>2. Validate(s) /\ s \in Specs
      <4>1. RecOK(r) /\ CopyOK(r.obj, api, nextRV)
        BY CtlFacts, Zenon
      <4> QED BY <1>1, <4>1 DEF RecOK, CopyOK, Object
    <3> HIDE DEF g
    <3>3. checkAllocation(s, g)
      BY <3>1, FreeBlockFits, Zenon
    <3>4. g # NoRange
      BY <1>1, <3>1, <3>2, FreeBlockOK, Zenon
    <3> QED BY <3>3, <3>4
  <2>2. ctl' = [ctl EXCEPT ![c].rec.todo = @ \ {n}, ![c].rec.got[n] = g]
    BY <1>7
  <2> HIDE DEF g
  <2>3. ctl' = [ctl EXCEPT ![c] = x]
    BY <2>2, ZenonT(30)
  <2>4. /\ q.pc = r.pc /\ q.obj = r.obj /\ q.match = r.match /\ q.todo = r.todo \ {n}
        /\ q.got = [r.got EXCEPT ![n] = g]
    BY <1>1, Zenon DEF Rec
  <2>5. /\ x.pool = ctl[c].pool /\ x.nodes = ctl[c].nodes /\ x.rec = q
        /\ x.queued = ctl[c].queued /\ x.event = ctl[c].event /\ x.nodeQ = ctl[c].nodeQ
    BY <1>1, Zenon DEF Ctl
  <2> HIDE DEF q, x
  <2>6. \A m \in Nodes : q.got[m] = IF m = n THEN g ELSE r.got[m]
    BY <1>1, <2>4, Zenon
  <2>7. n \in Nodes /\ n \in r.match /\ r.match \subseteq Nodes
    BY <1>1, <1>4 DEF Rec
  <2>8. FreeBlocks(s, Taken(q.got)) \subseteq FreeBlocks(s, Taken(r.got))
    BY <1>1, <1>7, <2>4, <2>7, FreeShrinks, ZenonT(60)
  <2>9. RecGets(x.rec)
    <3>1. q.todo \subseteq r.match
      BY <1>4, <2>4
    <3>2. ASSUME FreeBlocks(s, Taken(q.got)) # {}, NEW m \in r.match \ q.todo
          PROVE  q.got[m] # NoRange
      <4>1. FreeBlocks(s, Taken(r.got)) # {}
        BY <2>8, <3>2, Zenon
      <4> QED BY <1>4, <2>1, <2>4, <2>6, <2>7, <4>1, Zenon
    <3>3. \A m \in Nodes : q.got[m] # NoRange => m \in r.match /\ checkAllocation(s, q.got[m])
      BY <1>4, <2>1, <2>6, <2>7, Zenon
    <3> QED BY <2>4, <2>5, <3>1, <3>2, <3>3, Zenon DEF RecGets
  <2>10. Attends(x, api')
    BY <1>2, <1>5, <2>4, <2>5, Zenon DEF Attends, Pending
  <2> QED BY <1>2, <2>3, <2>9, <2>10, QuietFrame, Zenon
<1> QED BY <1>3, <1>6, <1>7, Zenon

\* A Reconcile that ends without an error has left the pool as it should be,
\* or has written a new version of it.
LEMMA QuietFinish ==
  ASSUME Inv, QuietInv, NEW c \in Controllers, NEW done \in BOOLEAN, FinishReconcile(c, done)
  PROVE  QuietInv'
<1> DEFINE r == ctl[c].rec
           x == [ctl[c] EXCEPT !.rec = Idle, !.queued = @ \/ ~done]
<1>1. ctl[c] \in Ctl /\ ctl \in [Controllers -> Ctl] /\ RecOK(r) /\ r.pc # "idle"
  BY CtlFacts, FinishWrites, ZenonT(30)
<1>2. /\ x.pool = ctl[c].pool /\ x.nodes = ctl[c].nodes /\ x.rec = Idle
      /\ x.queued = (ctl[c].queued \/ ~done) /\ x.event = ctl[c].event /\ x.nodeQ = ctl[c].nodeQ
  BY <1>1, Zenon DEF Ctl
<1>3. ctl' = [ctl EXCEPT ![c] = x]
  BY Zenon DEF FinishReconcile
<1>4. Idle.pc = "idle" /\ "idle" # "alloc"
  BY DEF Idle
<1> HIDE DEF x
<1>5. RecGets(x.rec)
  BY <1>2, <1>4, Zenon DEF RecGets
<1>6. api' = api \/ api' = None \/ api'.rv = nextRV
  <2>1. api \in Object /\ api' = [api EXCEPT !.status = r.got, !.rv = nextRV] => api'.rv = nextRV
    BY DEF Object
  <2> QED BY <2>1, FinishWrites, Zenon
<1>7. ASSUME x.pool # None, ~Pending(x)
      PROVE  x.pool # api' \/ SettledFor(x.pool, x.nodes)
  <2>1. done /\ ctl[c].pool # None /\ ~Pending(ctl[c])
    BY <1>2, <1>7, Zenon DEF Pending
  <2>2. r.obj = x.pool /\ (r.pc = "alloc" => r.match = x.nodes \cap r.obj.spec.sel)
    BY <1>1, <1>2, <2>1, Zenon DEF QuietInv, Attends
  <2>3. CopyOK(r.obj, api, nextRV) /\ r.obj \in Object
    BY <1>7, <2>2, CtlFacts, Zenon DEF CopyOK
  <2>4. r.pc = "clear" \/ (r.pc = "alloc" /\ r.todo = {})
    BY Zenon DEF FinishReconcile
  <2> SUFFICES ASSUME x.pool = api'
               PROVE  SettledFor(x.pool, x.nodes)
    BY Zenon
  <2>5. r.obj.rv # nextRV
    <3>1. r.obj.rv < nextRV /\ r.obj.rv \in Nat /\ nextRV \in Nat
      BY <1>7, <2>2, <2>3, Zenon DEF CopyOK, Object, Inv, TypeOK
    <3> QED BY <3>1
  <2>6. api' = api
    <3>1. api \in Object /\ api' = [api EXCEPT !.status = r.got, !.rv = nextRV] => api'.rv = nextRV
      BY DEF Object
    <3> QED BY <2>2, <2>5, <3>1, FinishWrites, Zenon
  <2>7. r.got = r.obj.status
    <3>1. CASE ~(r.pc = "clear" \/ r.got # r.obj.status)
      BY <3>1, Zenon
    <3>2. CASE Accepts(r.obj) /\ WriteStatus(r.got)
      <4>1. api = r.obj
        BY <2>2, <2>6, Zenon
      <4>2. ASSUME r.got # api.status
            PROVE  FALSE
        <5>1. api' = [api EXCEPT !.status = r.got, !.rv = nextRV]
          BY <3>2, <4>2, Zenon DEF WriteStatus
        <5>2. api'.rv = nextRV
          BY <2>3, <4>1, <5>1, Zenon DEF Object
        <5> QED BY <2>5, <2>6, <4>1, <5>2, Zenon
      <4> QED BY <4>1, <4>2, Zenon
    <3> QED BY <2>1, <3>1, <3>2, Zenon DEF FinishReconcile
  <2>8. CASE r.pc = "clear"
    <3>1. "clear" # "alloc"
      OBVIOUS
    <3> QED BY <1>1, <2>2, <2>7, <2>8, <3>1, Zenon DEF RecOK, SettledFor
  <2>9. CASE r.pc = "alloc" /\ r.todo = {}
    <3>1. /\ \A n \in Nodes : r.got[n] # NoRange => n \in r.match /\ checkAllocation(r.obj.spec, r.got[n])
          /\ FreeBlocks(r.obj.spec, Taken(r.got)) # {} => \A n \in r.match : r.got[n] # NoRange
      BY <2>9, Zenon DEF QuietInv, RecGets
    <3>2. Validate(r.obj.spec) /\ r.match = x.nodes \cap r.obj.spec.sel
      BY <1>1, <2>2, <2>9, Zenon DEF RecOK
    <3> QED BY <2>2, <2>7, <3>1, <3>2, Zenon DEF SettledFor
  <2> QED BY <2>4, <2>8, <2>9, Zenon
<1>8. Attends(x, api')
  BY <1>2, <1>4, <1>7, Zenon DEF Attends
<1> QED BY <1>3, <1>5, <1>6, <1>8, QuietFrame, ZenonT(60)

\* For any number of Nodes and controller processes: a controller that has
\* nothing to do has left the status as it should be.  No change of the pool
\* or of a Node is missed, whenever it comes: during a Reconcile, during an
\* update that fails, or while the channel of the Node reconciler is full.
THEOREM QuietTheorem == Spec => []QuietIsSettled
<1>1. Init => QuietInv
  <2> SUFFICES ASSUME Init, NEW c \in Controllers
               PROVE  RecGets(ctl[c].rec) /\ Attends(ctl[c], api)
    BY Zenon DEF QuietInv
  <2>1. ctl[c] = Fresh(api, nodes)
    BY Zenon DEF Init
  <2>2. ctl[c].queued /\ ctl[c].rec.pc = "idle" /\ "idle" # "alloc"
    BY <2>1 DEF Fresh, Idle
  <2> QED BY <2>2, Zenon DEF RecGets, Attends, Pending
<1>2. Inv /\ QuietInv /\ [Next]_vars => QuietInv'
  <2> SUFFICES ASSUME Inv, QuietInv, [Next]_vars
               PROVE  QuietInv'
    OBVIOUS
  <2>1. ASSUME NEW c \in Controllers, Restart(c) \/ ControllerStep(c)
        PROVE  QuietInv'
    BY <2>1, QuietRestart, QuietSync, QuietWake, QuietReconcile, QuietAllocate, QuietFinish,
       Zenon DEF ControllerStep
  <2>2. CASE UNCHANGED vars
    BY <2>2, Zenon DEF vars, QuietInv
  <2> QED BY <2>1, <2>2, QuietUser, Zenon DEF Next
<1>3. Inv /\ QuietInv => QuietIsSettled
  BY Zenon DEF QuietInv, Attends, QuietIsSettled, Quiet, Settled
<1> QED BY <1>1, <1>2, <1>3, InvTheorem, PTL DEF Spec
=============================================================================
