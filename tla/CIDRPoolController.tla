------------------------- MODULE CIDRPoolController -------------------------
(***************************************************************************)
(* The CIDRPool reconciler of the ipam-controller                          *)
(* (pkg/ipam-controller/controllers/cidrpool) for one CIDRPool, with its   *)
(* informer caches and the resource versions of the API server.  How Node  *)
(* events reach the queue is modelled in IPPoolController; here a changed  *)
(* Node queues the pool at once.                                           *)
(*                                                                         *)
(* A prefix is a record [p, size, text]: first address, number of          *)
(* addresses, and how it is written.  The code compares prefixes as        *)
(* strings; "canonical" is the text that net.IPNet.String() produces, and  *)
(* an IPv6 prefix in a static allocation may be written in another way.    *)
(***************************************************************************)
EXTENDS Prefixes, Sequences, FiniteSets

CONSTANTS
    Nodes,     \* names of Nodes, as numbers greater than 0
    Specs,     \* [net, v4, size, excl, perNode, gwIndex, static, sel]
    None,      \* no pool object
    MaxEdits   \* bound on the changes made to the pool spec and the Nodes

NoIndex == -1
NoNode == 0    \* a static allocation without nodeName reserves its prefix

NoAlloc == [prefix |-> [p |-> -1, size |-> 0, text |-> "none"], gw |-> NoGateway]
NoAllocations == [n \in Nodes |-> NoAlloc]

Prefix == [p : Int, size : Nat, text : {"none", "canonical", "expanded"}]

\* The gateway of an allocation is in its prefix.
Alloc ==
    {NoAlloc} \cup
    {a \in [prefix : Prefix, gw : Int] :
        /\ a.prefix.p >= 0 /\ a.prefix.size > 0
        /\ a.gw = NoGateway \/ a.gw \in a.prefix.p .. a.prefix.p + a.prefix.size - 1}

Object == [rv : Nat, spec : Specs, status : [Nodes -> Alloc]]

\* A prefix length cuts a CIDR into prefixes whose first addresses are
\* multiples of their size.
ASSUME NodesAssumption == Nodes \subseteq Nat \ {0}
ASSUME SpecsAssumption ==
    /\ None \notin Object
    /\ Specs \subseteq [net : [lo : Nat, hi : Nat], v4 : BOOLEAN, size : Nat, excl : SUBSET Int,
                        perNode : SUBSET Int, gwIndex : Nat \cup {NoIndex},
                        static : Seq([node : Nat, prefix : Prefix, gw : Int]), sel : SUBSET Nodes]
    /\ \A s \in Specs : 1 <= s.size /\ s.size <= s.net.hi - s.net.lo + 1 => s.net.lo % s.size = 0

VARIABLES
    api, nextRV,  \* the CIDRPool in the API, or None; the next version
    nodes,        \* the Nodes in the API
    edits,        \* changes made by users so far
    pool, seen,   \* informer caches: the CIDRPool, the Nodes
    queued,       \* the pool is in the work queue
    rec           \* the running Reconcile

vars == <<api, nextRV, nodes, edits, pool, seen, queued, rec>>

Idle == [pc |-> "idle", obj |-> None, match |-> {}, todo |-> {}, got |-> NoAllocations]

Init ==
    /\ api \in {None} \cup {[rv |-> 0, spec |-> s, status |-> NoAllocations] : s \in Specs}
    /\ nodes \in SUBSET Nodes
    /\ nextRV = 1 /\ edits = 0
    /\ pool = api /\ seen = nodes /\ queued = TRUE /\ rec = Idle
-----------------------------------------------------------------------------
(***************************************************************************)
(* Users, the API server and the informers.                                *)
(***************************************************************************)
Edit == edits < MaxEdits /\ edits' = edits + 1

WritePool(spec) ==
    /\ Edit
    /\ \/ api = None /\ api' = [rv |-> nextRV, spec |-> spec, status |-> NoAllocations]
       \/ api # None /\ api.spec # spec /\ api' = [api EXCEPT !.spec = spec, !.rv = nextRV]
    /\ nextRV' = nextRV + 1
    /\ UNCHANGED <<nodes, pool, seen, queued, rec>>

DeletePool ==
    /\ Edit /\ api # None
    /\ api' = None
    /\ UNCHANGED <<nextRV, nodes, pool, seen, queued, rec>>

AddOrRemoveNode(n) ==
    /\ Edit
    /\ nodes' = IF n \in nodes THEN nodes \ {n} ELSE nodes \cup {n}
    /\ UNCHANGED <<api, nextRV, pool, seen, queued, rec>>

SyncPool ==
    /\ pool # api
    /\ pool' = api /\ queued' = TRUE
    /\ UNCHANGED <<api, nextRV, nodes, edits, seen, rec>>

SyncNode(n) ==
    /\ (n \in seen) # (n \in nodes)
    /\ seen' = IF n \in nodes THEN seen \cup {n} ELSE seen \ {n}
    /\ queued' = TRUE
    /\ UNCHANGED <<api, nextRV, nodes, edits, pool, rec>>

Restart ==
    /\ Edit
    /\ pool' = api /\ seen' = nodes /\ queued' = TRUE /\ rec' = Idle
    /\ UNCHANGED <<api, nextRV, nodes>>
-----------------------------------------------------------------------------
(***************************************************************************)
(* CIDRPool.Validate and CIDRPoolAllocation.Validate.                      *)
(***************************************************************************)
ComputedGateway(s, q) ==
    IF s.gwIndex = NoIndex THEN NoGateway
    ELSE GetGatewayForSubnet([s EXCEPT !.size = q.size], q.p, s.gwIndex)

\* validateStaticAllocations: prefixes are compared after parsing.
StaticValid(s) ==
    /\ \A i \in DOMAIN s.static :
          LET q == s.static[i].prefix
          IN /\ q.p \in PrefixesOf(s) /\ q.size = s.size
             /\ s.static[i].gw # NoGateway => s.static[i].gw \in q.p .. q.p + q.size - 1
    /\ \A i, j \in DOMAIN s.static :
          i # j => /\ s.static[i].prefix.p # s.static[j].prefix.p
                   /\ s.static[i].node # s.static[j].node \/ s.static[i].node = NoNode

\* CIDRPool.Validate, as far as prefixes are concerned.
Validate(s) ==
    /\ s.size >= 1 /\ s.size <= s.net.hi - s.net.lo + 1
    /\ s.gwIndex # NoIndex => GetGatewayForSubnet(s, s.net.lo, s.gwIndex) # NoGateway
    /\ \A a \in s.excl : s.net.lo <= a /\ a <= s.net.hi
    /\ \A i \in s.perNode : 0 <= i /\ i < s.size
    /\ StaticValid(s)

\* A static allocation that is for the Node or has the same text; the first
\* of them decides.
Concerns(x, n, a) == x.node = n \/ x.prefix = a.prefix
Decides(s, n, a, i) ==
    Concerns(s.static[i], n, a) /\ \A j \in 1 .. i - 1 : ~Concerns(s.static[j], n, a)

StaticGateway(s, x) == IF x.gw # NoGateway THEN x.gw ELSE ComputedGateway(s, x.prefix)

\* Mutant: an allocation is not compared with the static ones.
ValidAllocationIgnoringStatic(s, status, n) ==
    LET a == status[n]
    IN /\ s.net.lo <= a.prefix.p /\ a.prefix.p <= s.net.hi
       /\ a.prefix.size = s.size /\ a.gw = ComputedGateway(s, a.prefix)

\* CIDRPoolAllocation.Validate for the status entry of Node n.
ValidAllocation(s, status, n) ==
    LET a == status[n]
        conflicts == {m \in Nodes : /\ status[m] # NoAlloc
                                    /\ \/ a.gw # NoGateway /\ a.gw = status[m].gw
                                       \/ a.prefix = status[m].prefix
                                       \/ m = n}
    IN \/ \E i \in DOMAIN s.static :
             /\ Decides(s, n, a, i) /\ s.static[i].node = n
             /\ a.prefix = s.static[i].prefix
             /\ a.gw = StaticGateway(s, s.static[i])
       \/ /\ \A i \in DOMAIN s.static : ~Concerns(s.static[i], n, a)
          /\ s.net.lo <= a.prefix.p /\ a.prefix.p <= s.net.hi
          /\ a.prefix.size = s.size
          /\ a.gw = ComputedGateway(s, a.prefix)
          /\ conflicts = {n}
-----------------------------------------------------------------------------
(***************************************************************************)
(* CIDRPoolReconciler.Reconcile.                                           *)
(***************************************************************************)

\* getValidExistingAllocationsMaps.
Existing(s, status, match) ==
    [n \in Nodes |->
       IF /\ n \in match /\ status[n] # NoAlloc
          /\ ValidAllocation(s, status, n)
          /\ ~isPrefixFullyExcluded(s, status[n].prefix.p)
       THEN status[n] ELSE NoAlloc]

Reconcile ==
    LET match == seen \cap pool.spec.sel
    IN /\ queued /\ rec.pc = "idle"
       /\ queued' = FALSE
       /\ rec' = IF pool = None THEN Idle
                 ELSE IF ~Validate(pool.spec)
                 THEN [Idle EXCEPT !.pc = "clear", !.obj = pool]
                 ELSE [pc |-> "alloc", obj |-> pool, match |-> match, todo |-> match,
                       got |-> Existing(pool.spec, pool.status, match)]
       /\ UNCHANGED <<api, nextRV, nodes, edits, pool, seen>>

StaticFor(s, n) == {i \in DOMAIN s.static : s.static[i].node = n}

Canonical(s, p) == [p |-> p, size |-> s.size, text |-> "canonical"]

\* Prefixes whose text is a key of allocationsByPrefix or of
\* staticAllocationsByPrefix.
Used(s, got) ==
    {p \in PrefixesOf(s) :
        \/ \E n \in Nodes : got[n].prefix = Canonical(s, p)
        \/ \E i \in DOMAIN s.static : s.static[i].prefix = Canonical(s, p)}

\* The allocations one turn of the loop may give Node n; none is NoAlloc.
NewAllocations(s, got, n) ==
    LET free == FreePrefixes(s, Used(s, got))
    IN IF got[n] # NoAlloc THEN {got[n]}
       ELSE IF StaticFor(s, n) # {}
       THEN {[prefix |-> s.static[i].prefix, gw |-> StaticGateway(s, s.static[i])] : i \in StaticFor(s, n)}
       ELSE IF free = {} THEN {NoAlloc}
       ELSE {[prefix |-> Canonical(s, p), gw |-> ComputedGateway(s, Canonical(s, p))] :
                p \in {p \in free : IsFirst(free, p)}}

\* One turn of the loop over the Nodes.
AllocateForNode ==
    /\ rec.pc = "alloc"
    /\ \E n \in rec.todo :
          /\ \A m \in rec.todo : n <= m
          /\ \E a \in NewAllocations(rec.obj.spec, rec.got, n) :
                rec' = [rec EXCEPT !.todo = @ \ {n}, !.got[n] = a]
    /\ UNCHANGED <<api, nextRV, nodes, edits, pool, seen, queued>>

\* Mutant: the update is sent without a resource version.
AcceptsAlways(obj) == api # None

\* The API server accepts an update based on the current version only.
Accepts(obj) == api # None /\ api.rv = obj.rv

\* Mutant: a failed update is not tried again.
RequeuesNever(ok) == FALSE

\* A Reconcile that returns an error is repeated.
Requeues(ok) == ~ok

\* The end of Reconcile; ok is what the client of Status().Update sees.
FinishReconcile(ok) ==
    LET changed == rec.pc = "clear" \/ rec.got # rec.obj.status
    IN /\ rec.pc = "clear" \/ (rec.pc = "alloc" /\ rec.todo = {})
       /\ \/ /\ changed /\ Accepts(rec.obj) /\ rec.got # api.status
             /\ api' = [api EXCEPT !.status = rec.got, !.rv = nextRV]
             /\ nextRV' = nextRV + 1
          \/ /\ changed /\ Accepts(rec.obj) /\ rec.got = api.status
             /\ UNCHANGED <<api, nextRV>>
          \/ /\ changed # ok
             /\ UNCHANGED <<api, nextRV>>
       /\ rec' = Idle /\ queued' = (queued \/ Requeues(ok))
       /\ UNCHANGED <<nodes, edits, pool, seen>>
-----------------------------------------------------------------------------
Next ==
    \/ \E s \in Specs : WritePool(s)
    \/ DeletePool
    \/ \E n \in Nodes : AddOrRemoveNode(n) \/ SyncNode(n)
    \/ Restart
    \/ SyncPool
    \/ Reconcile
    \/ AllocateForNode
    \/ \E ok \in BOOLEAN : FinishReconcile(ok)

Spec == Init /\ [][Next]_vars

\* Informers and reconcilers keep running, and an update that is sent again
\* and again succeeds some time.
Fairness ==
    /\ WF_vars(SyncPool) /\ \A n \in Nodes : WF_vars(SyncNode(n))
    /\ WF_vars(Reconcile) /\ WF_vars(AllocateForNode)
    /\ WF_vars(\E ok \in BOOLEAN : FinishReconcile(ok)) /\ SF_vars(FinishReconcile(TRUE))

FairSpec == Spec /\ Fairness
-----------------------------------------------------------------------------
Rec == [pc : {"idle", "alloc", "clear"}, obj : Object \cup {None}, match : SUBSET Nodes,
        todo : SUBSET Nodes, got : [Nodes -> Alloc]]

TypeOK ==
    /\ api \in Object \cup {None} /\ pool \in Object \cup {None} /\ rec \in Rec
    /\ nextRV \in Nat /\ edits \in Nat /\ queued \in BOOLEAN
    /\ nodes \in SUBSET Nodes /\ seen \in SUBSET Nodes

Overlap(q, r) == q.p <= r.p + r.size - 1 /\ r.p <= q.p + q.size - 1

Disjoint(status) ==
    \A m, n \in Nodes :
        m # n /\ status[m] # NoAlloc /\ status[n] # NoAlloc =>
            ~Overlap(status[m].prefix, status[n].prefix)

\* Two Nodes never have overlapping prefixes in the pool's status, whatever
\* static allocations are added, moved or removed while prefixes are in use.
DisjointPrefixes == api # None => Disjoint(api.status)

\* A write of the status takes a Node's prefix away only if the spec is
\* invalid, the allocation is invalid or fully excluded under the spec, or
\* the Node was not among the matching ones the Reconcile had listed.
PrefixesAreKept ==
    [][\A n \in Nodes :
         /\ api # None /\ api' # None
         /\ api.status[n] # NoAlloc /\ api'.status[n] # api.status[n]
         => \/ ~Validate(api.spec) \/ ~ValidAllocation(api.spec, api.status, n)
            \/ isPrefixFullyExcluded(api.spec, api.status[n].prefix.p)
            \/ rec.pc = "alloc" /\ n \notin rec.match]_vars

\* The status of pool o is as it should be in a cluster with the Nodes ns; a
\* Node with a static allocation has that one.
SettledFor(o, ns) ==
    LET s == o.spec
        match == ns \cap s.sel
    IN IF ~Validate(s) THEN o.status = NoAllocations
       ELSE /\ \A n \in Nodes \ match : o.status[n] = NoAlloc
            /\ \A n \in match : \A i \in StaticFor(s, n) : o.status[n].prefix = s.static[i].prefix
            /\ \A n \in match : o.status[n] = NoAlloc => FreePrefixes(s, Used(s, o.status)) = {}
            /\ \A n \in match : o.status[n] # NoAlloc => ValidAllocation(s, o.status, n)

Settled == api # None => SettledFor(api, nodes)

\* The controller rests only when the status is right: with up-to-date caches
\* and nothing queued or running, no change of the pool or of a Node and no
\* failed update was missed.
Quiet == pool = api /\ seen = nodes /\ ~queued /\ rec.pc = "idle"
QuietIsSettled == Quiet => Settled

\* Once users stop making changes (their number is bounded) the status
\* settles and stays so.
Converges == <>[]Settled
=============================================================================
