-------------------------- MODULE IPPoolController --------------------------
(***************************************************************************)
(* The ipam-controller for one IPPool: the IPPool reconciler               *)
(* (pkg/ipam-controller/controllers/ippool), the Node reconciler that      *)
(* wakes it over a channel (controllers/node), their informer caches and   *)
(* work queues (controller-runtime, external), and the API server with its *)
(* resource versions.  Several controller processes may run: leader        *)
(* election is optional, and a deposed leader may still finish its work.   *)
(*                                                                         *)
(* Nodes are numbers, ordered as their names are.  A spec is a block       *)
(* configuration of Blocks with the set sel of Nodes its selector accepts. *)
(***************************************************************************)
EXTENDS Blocks, FiniteSets

CONSTANTS
    Nodes,        \* names of Nodes, as numbers
    Specs,        \* the specs a user may write
    Controllers,  \* controller processes
    None,         \* no pool object
    MaxEdits      \* bound on the changes made to the pool spec and the Nodes

ASSUME NodesAssumption == Nodes \subseteq Nat
ASSUME SpecsAssumption ==
    /\ None \notin [rv : Nat, spec : Specs, status : [Nodes -> [start : Int, end : Int]]]
    /\ \A c \in Specs :
          /\ c.net.lo \in Nat /\ c.net.hi \in Nat
          /\ c.size \in Int /\ c.sel \subseteq Nodes

NoRange == [start |-> -1, end |-> -1]

NoAllocations == [n \in Nodes |-> NoRange]

VARIABLES
    api,       \* the IPPool in the API: [rv, spec, status] or None
    nextRV,    \* the next resource version
    nodes,     \* the Nodes in the API
    edits,     \* changes made by users so far
    ctl        \* per controller: its caches, queues and running Reconcile

vars == <<api, nextRV, nodes, edits, ctl>>

Idle == [pc |-> "idle", obj |-> None, match |-> {}, todo |-> {}, got |-> NoAllocations]

\* A controller that has just started: caches synced, everything queued.
Fresh(a, ns) ==
    [pool |-> a, nodes |-> ns, queued |-> TRUE, nodeQ |-> ns, event |-> FALSE, rec |-> Idle]

\* The controllers are started in a cluster with some Nodes and perhaps a
\* new pool.
Init ==
    /\ api \in {None} \cup {[rv |-> 0, spec |-> s, status |-> NoAllocations] : s \in Specs}
    /\ nodes \in SUBSET Nodes
    /\ nextRV = 1 /\ edits = 0
    /\ ctl = [c \in Controllers |-> Fresh(api, nodes)]
-----------------------------------------------------------------------------
(***************************************************************************)
(* Users and the API server.                                               *)
(***************************************************************************)
Edit == edits < MaxEdits /\ edits' = edits + 1

CreatePool(spec) ==
    /\ Edit /\ api = None
    /\ api' = [rv |-> nextRV, spec |-> spec, status |-> NoAllocations]
    /\ nextRV' = nextRV + 1
    /\ UNCHANGED <<nodes, ctl>>

EditPool(spec) ==
    /\ Edit /\ api # None /\ api.spec # spec
    /\ api' = [api EXCEPT !.spec = spec, !.rv = nextRV]
    /\ nextRV' = nextRV + 1
    /\ UNCHANGED <<nodes, ctl>>

DeletePool ==
    /\ Edit /\ api # None
    /\ api' = None
    /\ UNCHANGED <<nextRV, nodes, ctl>>

AddOrRemoveNode(n) ==
    /\ Edit
    /\ nodes' = IF n \in nodes THEN nodes \ {n} ELSE nodes \cup {n}
    /\ UNCHANGED <<api, nextRV, ctl>>
-----------------------------------------------------------------------------
(***************************************************************************)
(* Informers and queues.                                                   *)
(***************************************************************************)
SyncPool(c) ==
    /\ ctl[c].pool # api
    /\ ctl' = [ctl EXCEPT ![c].pool = api, ![c].queued = TRUE]
    /\ UNCHANGED <<api, nextRV, nodes, edits>>

SyncNode(c, n) ==
    /\ (n \in ctl[c].nodes) # (n \in nodes)
    /\ ctl' = [ctl EXCEPT ![c].nodes = IF n \in nodes THEN @ \cup {n} ELSE @ \ {n},
                          ![c].nodeQ = @ \cup {n}]
    /\ UNCHANGED <<api, nextRV, nodes, edits>>

\* Mutant: a removed Node does not wake the pools.
WakesOnlyIfPresent(c, n) == ctl[c].pool # None /\ n \in ctl[c].nodes

\* Pools the Node reconciler notifies: those in its cache.
Wakes(c, n) == ctl[c].pool # None

\* NodeReconciler.Reconcile: one event per pool; the send on the channel of
\* capacity one blocks while an event is in it.
NodeReconcile(c, n) ==
    /\ n \in ctl[c].nodeQ
    /\ \/ ~Wakes(c, n) /\ ctl' = [ctl EXCEPT ![c].nodeQ = @ \ {n}]
       \/ /\ Wakes(c, n) /\ ~ctl[c].event
          /\ ctl' = [ctl EXCEPT ![c].nodeQ = @ \ {n}, ![c].event = TRUE]
    /\ UNCHANGED <<api, nextRV, nodes, edits>>

\* The channel source of SetupWithManager puts the pool into the queue.
NodeEvent(c) ==
    /\ ctl[c].event
    /\ ctl' = [ctl EXCEPT ![c].event = FALSE, ![c].queued = TRUE]
    /\ UNCHANGED <<api, nextRV, nodes, edits>>

Restart(c) ==
    /\ Edit
    /\ ctl' = [ctl EXCEPT ![c] = Fresh(api, nodes)]
    /\ UNCHANGED <<api, nextRV, nodes>>
-----------------------------------------------------------------------------
(***************************************************************************)
(* IPPoolReconciler.Reconcile.                                             *)
(***************************************************************************)

\* validatePerNodeExclusionsForBlockSize returns no error.
validatePerNodeExclusionsForBlockSize(s) == \A i \in s.perNode : 0 <= i /\ i < s.size

\* IPPool.Validate returns no error, as far as blocks are concerned.
Validate(s) ==
    /\ s.size >= 1
    /\ LET n == s.net.hi - s.net.lo + 1
       IN s.size <= IF n <= 2 THEN n ELSE IF s.v4 THEN n - 2 ELSE n - 1
    /\ \A a \in s.excl : InNet(s, a)
    /\ validatePerNodeExclusionsForBlockSize(s)
    /\ s.gw < 0 \/ InNet(s, s.gw)

\* CreatePoolAllocatorFromIPPool: the status entries of matching Nodes that
\* load accepts, in the order of the status; an entry that starts where an
\* accepted one does is dropped.
Loaded(s, status, match) ==
    LET ok == {n \in match : status[n] # NoRange /\ checkAllocation(s, status[n])}
    IN [n \in Nodes |->
          IF n \in ok /\ \A m \in ok : status[m].start = status[n].start => n <= m
          THEN status[n] ELSE NoRange]

\* Reconcile up to the loop over the Nodes.
Reconcile(c) ==
    LET obj == ctl[c].pool
        match == ctl[c].nodes \cap obj.spec.sel
    IN /\ ctl[c].queued /\ ctl[c].rec.pc = "idle"
       /\ ctl' = [ctl EXCEPT ![c].queued = FALSE,
                             ![c].rec = IF obj = None THEN Idle
                                        ELSE IF ~Validate(obj.spec)
                                        THEN [Idle EXCEPT !.pc = "clear", !.obj = obj]
                                        ELSE [pc |-> "alloc", obj |-> obj, match |-> match, todo |-> match,
                                              got |-> Loaded(obj.spec, obj.status, match)]]
       /\ UNCHANGED <<api, nextRV, nodes, edits>>

\* Mutant: the new block is looked for without looking at the used ones.
TakenNone(got) == {}

\* The start addresses pa.startIps.
Taken(got) == {got[n].start : n \in {n \in Nodes : got[n] # NoRange}}

\* pa.AllocateFromPool for the next Node: its loaded block, the first free
\* one, or none with an event.
AllocateFromPool(c) ==
    LET r == ctl[c].rec
        s == r.obj.spec
        free == FreeBlocks(s, Taken(r.got))
    IN /\ r.pc = "alloc"
       /\ \E n \in r.todo :
             /\ \A m \in r.todo : n <= m
             /\ \/ /\ r.got[n] # NoRange \/ free = {}
                   /\ ctl' = [ctl EXCEPT ![c].rec.todo = @ \ {n}]
                \/ /\ r.got[n] = NoRange
                   /\ \E b \in free :
                        /\ IsFirst(free, b)
                        /\ ctl' = [ctl EXCEPT ![c].rec.todo = @ \ {n},
                                              ![c].rec.got[n] = [start |-> b, end |-> EndOf(s, b)]]
       /\ UNCHANGED <<api, nextRV, nodes, edits>>

\* Mutant: the update is sent without a resource version.
AcceptsAlways(obj) == api # None

\* The API server accepts an update based on the current version only.
Accepts(obj) == api # None /\ api.rv = obj.rv

\* Status().Update of allocs; an update that changes nothing creates no
\* version.
WriteStatus(allocs) ==
    IF allocs = api.status THEN UNCHANGED <<api, nextRV>>
    ELSE /\ api' = [api EXCEPT !.status = allocs, !.rv = nextRV]
         /\ nextRV' = nextRV + 1

\* The end of Reconcile: nothing to write, or Status().Update.  ok is what
\* the client sees: an error, a conflict or a lost answer requeues the pool.
FinishReconcile(c, ok) ==
    LET r == ctl[c].rec
        changed == r.pc = "clear" \/ r.got # r.obj.status
    IN /\ r.pc = "clear" \/ (r.pc = "alloc" /\ r.todo = {})
       /\ \/ /\ changed /\ Accepts(r.obj)
             /\ WriteStatus(r.got)
          \/ /\ changed # ok
             /\ UNCHANGED <<api, nextRV>>
       /\ ctl' = [ctl EXCEPT ![c].rec = Idle, ![c].queued = @ \/ ~ok]
       /\ UNCHANGED <<nodes, edits>>
-----------------------------------------------------------------------------
UserStep ==
    \/ \E s \in Specs : CreatePool(s) \/ EditPool(s)
    \/ DeletePool
    \/ \E n \in Nodes : AddOrRemoveNode(n)

ControllerStep(c) ==
    \/ SyncPool(c)
    \/ \E n \in Nodes : SyncNode(c, n) \/ NodeReconcile(c, n)
    \/ NodeEvent(c)
    \/ Reconcile(c)
    \/ AllocateFromPool(c)
    \/ \E ok \in BOOLEAN : FinishReconcile(c, ok)

Next == UserStep \/ \E c \in Controllers : Restart(c) \/ ControllerStep(c)

Spec == Init /\ [][Next]_vars

\* Informers, queues and reconcilers keep running, and an update that is
\* sent again and again succeeds some time.
Fairness ==
    \A c \in Controllers :
        /\ WF_vars(SyncPool(c)) /\ WF_vars(NodeEvent(c))
        /\ \A n \in Nodes : WF_vars(SyncNode(c, n)) /\ SF_vars(NodeReconcile(c, n))
        /\ WF_vars(Reconcile(c)) /\ WF_vars(AllocateFromPool(c))
        /\ WF_vars(\E ok \in BOOLEAN : FinishReconcile(c, ok))
        /\ SF_vars(FinishReconcile(c, TRUE))

FairSpec == Spec /\ Fairness
-----------------------------------------------------------------------------
Ranges == {NoRange} \cup {r \in [start : Nat, end : Nat] : r.start <= r.end}
Object == [rv : Nat, spec : Specs, status : [Nodes -> Ranges]]
Rec == [pc : {"idle", "alloc", "clear"}, obj : Object \cup {None}, match : SUBSET Nodes,
        todo : SUBSET Nodes, got : [Nodes -> Ranges]]

TypeOK ==
    /\ api \in Object \cup {None}
    /\ nextRV \in Nat /\ edits \in Nat /\ nodes \in SUBSET Nodes
    /\ ctl \in [Controllers -> [pool : Object \cup {None}, nodes : SUBSET Nodes, queued : BOOLEAN,
                                nodeQ : SUBSET Nodes, event : BOOLEAN, rec : Rec]]

Disjoint(status) ==
    \A m, n \in Nodes :
        m # n /\ status[m] # NoRange /\ status[n] # NoRange =>
            status[m].end < status[n].start \/ status[n].end < status[m].start

\* The blocks that the pool's status assigns to different Nodes never
\* overlap, whatever the caches, other controllers and spec changes do.
DisjointBlocks == api # None => Disjoint(api.status)

\* A write of the status takes a Node's block away only if the spec is
\* invalid, no longer allows that block, or the Node was not among the
\* matching ones the Reconcile had listed.
BlocksAreKept ==
    [][\A n \in Nodes :
         /\ api # None /\ api' # None
         /\ api.status[n] # NoRange /\ api'.status[n] # api.status[n]
         => \/ ~Validate(api.spec) \/ ~checkAllocation(api.spec, api.status[n])
            \/ \E c \in Controllers : ctl[c].rec.pc = "alloc" /\ n \notin ctl[c].rec.match]_vars

\* The status of pool o is as it should be in a cluster with the Nodes ns.
SettledFor(o, ns) ==
    IF ~Validate(o.spec) THEN o.status = NoAllocations
    ELSE /\ \A n \in Nodes : (o.status[n] # NoRange) => n \in ns \cap o.spec.sel
         /\ \A n \in Nodes : (o.status[n] # NoRange) => checkAllocation(o.spec, o.status[n])
         /\ FreeBlocks(o.spec, Taken(o.status)) # {} => \A n \in ns \cap o.spec.sel : o.status[n] # NoRange

Settled == api # None => SettledFor(api, nodes)

\* A controller with nothing to do: its caches are up to date, its queues and
\* the channel of the Node reconciler are empty, and no Reconcile runs.
Pending(x) == x.queued \/ x.event \/ x.nodeQ # {}
Quiet(c) ==
    ctl[c].pool = api /\ ctl[c].nodes = nodes /\ ~Pending(ctl[c]) /\ ctl[c].rec.pc = "idle"

\* A controller rests only when the status is right: whatever is changed while
\* a Reconcile runs, while its update fails or its answer is lost, or while
\* the channel of the Node reconciler is full, it does not miss.
QuietIsSettled == \A c \in Controllers : Quiet(c) => Settled

\* Once users stop making changes (their number is bounded) the status
\* settles: every matching Node has a valid block unless none is free, no
\* other Node has one, and this stays so.
Converges == <>[]Settled
=============================================================================
