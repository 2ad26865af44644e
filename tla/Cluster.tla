------------------------------- MODULE Cluster -------------------------------
(***************************************************************************)
(* The ipam-controller and the node daemons together: how the blocks that  *)
(* IPPoolController writes into the status become addresses of Pods.       *)
(*                                                                         *)
(* The daemon of a Node learns its block from its own informer             *)
(* (pkg/ipam-node/controllers/ippool), gives dynamic addresses out of that *)
(* block until it learns of another one, and lets Pods keep their          *)
(* addresses when the block is gone: only their release ends them.  Within *)
(* a Node, NodeDaemon shows that no address is given twice; here two Nodes *)
(* are compared, so a Node is known by the blocks its Pods have addresses  *)
(* of.                                                                     *)
(***************************************************************************)
EXTENDS IPPoolController

VARIABLES
    seen,   \* per Node: its block in the daemon's informer cache
    view,   \* per Node: the block in the daemon's pool manager
    inUse,  \* per Node: the blocks its Pods have addresses of
    lost,   \* history: <<Node, block>> that a write or delete took away
    calm    \* history: no spec was changed, no pool or Node removed so far

nodeVars == <<seen, view, inUse>>
clusterVars == <<vars, nodeVars, lost, calm>>

\* The block the pool object has for the Node.
BlockOf(n) == IF api = None THEN NoRange ELSE api.status[n]

ClusterInit ==
    /\ Init
    /\ seen = NoAllocations /\ view = NoAllocations
    /\ inUse = [n \in Nodes |-> {}]
    /\ lost = {} /\ calm = TRUE
-----------------------------------------------------------------------------
\* The daemon's informer.
NodeSync(n) ==
    /\ seen[n] # BlockOf(n)
    /\ seen' = [seen EXCEPT ![n] = BlockOf(n)]
    /\ UNCHANGED <<vars, view, inUse, lost, calm>>

\* IPPoolReconciler.Reconcile of the daemon: UpdatePool, or RemovePool when
\* the object has no block for the Node.
PublishBlock(n) ==
    /\ view[n] # seen[n]
    /\ view' = [view EXCEPT ![n] = seen[n]]
    /\ UNCHANGED <<vars, seen, inUse, lost, calm>>

\* Mutant: a Node hands out addresses of a block that is not its own.
OffersAny(n) == {BlockOf(m) : m \in Nodes} \ {NoRange}

\* The blocks the daemon's configuration has for dynamic allocation.
Offers(n) == {view[n]} \ {NoRange}

\* A Pod of the Node gets an address of the daemon's block.
AllocateOnNode(n) ==
    /\ \E b \in Offers(n) \ inUse[n] : inUse' = [inUse EXCEPT ![n] = @ \cup {b}]
    /\ UNCHANGED <<vars, seen, view, lost, calm>>

\* The last Pod with an address of the block releases it.
ReleaseOnNode(n, b) ==
    /\ b \in inUse[n]
    /\ inUse' = [inUse EXCEPT ![n] = @ \ {b}]
    /\ UNCHANGED <<vars, seen, view, lost, calm>>

\* Restart of a daemon: its store survives, its pool manager does not.
RestartNode(n) ==
    /\ view[n] # NoRange
    /\ seen' = [seen EXCEPT ![n] = BlockOf(n)]
    /\ view' = [view EXCEPT ![n] = NoRange]
    /\ UNCHANGED <<vars, inUse, lost, calm>>

NodeStep(n) ==
    \/ NodeSync(n) \/ PublishBlock(n) \/ AllocateOnNode(n) \/ RestartNode(n)
    \/ \E b \in inUse[n] : ReleaseOnNode(n, b)

\* What the step takes away, and whether it disturbs the pool.
History ==
    /\ lost' = lost \cup {<<n, BlockOf(n)>> : n \in {n \in Nodes : BlockOf(n) \notin {NoRange, BlockOf(n)'}}}
    /\ calm' = (calm /\ nodes \subseteq nodes' /\ (api # None => api' # None /\ api'.spec = api.spec))

ClusterNext ==
    \/ Next /\ History /\ UNCHANGED nodeVars
    \/ \E n \in Nodes : NodeStep(n)

ClusterSpec == ClusterInit /\ [][ClusterNext]_clusterVars
-----------------------------------------------------------------------------
Apart(b, d) == b.end < d.start \/ d.end < b.start

\* Pods of two Nodes have addresses of overlapping blocks only if one of the
\* Nodes lost its block: a block that was never taken away is its Node's own,
\* however late the daemons learn of changes.
SharedOnlyAfterLoss ==
    \A m, n \in Nodes : \A b \in inUse[m], d \in inUse[n] :
        m # n /\ ~Apart(b, d) => <<m, b>> \in lost \/ <<n, d>> \in lost

\* As long as users only create the pool and add Nodes, no two Pods get the
\* same address from different Nodes, whatever caches, lost answers and
\* restarts do; with one controller process.
CalmIsSafe ==
    calm => \A m, n \in Nodes : \A b \in inUse[m], d \in inUse[n] : m # n => Apart(b, d)
=============================================================================
