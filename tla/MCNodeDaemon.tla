---------------------------- MODULE MCNodeDaemon ----------------------------
(***************************************************************************)
(* Instances of NodeDaemon for TLC.                                        *)
(***************************************************************************)
EXTENDS NodeDaemonLeases, TLC

CONSTANTS pA, pB, o1, o2, w1, w2, pod1, pod2, n1

Net == [lo |-> 0, hi |-> 3]
Block(lo, hi, g) == [start |-> lo, end |-> hi, subnet |-> Net, gw |-> g]
Config(r, ex) == [range |-> r, excl |-> ex, routesOK |-> TRUE]

\* Two addresses, one of them the gateway.
SmallConfigs == [p \in PoolKeys |-> {Config(Block(0, 1, 0), <<>>)}]

\* Two ranges of different subnets, and a route that does not parse.
Lower == [start |-> 0, end |-> 1, subnet |-> [lo |-> 0, hi |-> 1], gw |-> 0]
Upper == [start |-> 2, end |-> 3, subnet |-> [lo |-> 2, hi |-> 3], gw |-> NoIP]
ManyConfigs ==
    pA :> {Config(Lower, <<>>), [Config(Lower, <<>>) EXCEPT !.routesOK = FALSE],
           Config(Upper, <<>>)}
    @@ pB :> {Config([Upper EXCEPT !.end = 2], <<>>)}

Dynamic(ps) == [pools |-> ps, ips |-> <<>>, gateway |-> FALSE, index |-> NoIndex]

GatewayRequest == o1 :> [Dynamic(<<pA>>) EXCEPT !.gateway = TRUE]
\* One owner asks for an address of each of two pools, the other for any one of
\* the second pool.
StaticRequest == o1 :> [Dynamic(<<pA, pB>>) EXCEPT !.ips = <<0, 2>>] @@ o2 :> Dynamic(<<pB>>)

PodName == pod1 :> n1
OneName == pod1 :> n1 @@ pod2 :> n1
FirstPod == o1 :> pod1
SamePod == o1 :> pod1 @@ o2 :> pod1

\* The state without gone: no guard reads this history variable, and of the
\* properties only NoLeakAfterDel does.
WithoutGone == <<disk, up, persisted, lock, tmp, cfg, call, scan, stale, api, cache, unborn, held>>
=============================================================================
