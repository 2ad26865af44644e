--------------------------- MODULE PrefixAllocator ---------------------------
(***************************************************************************)
(* getNewAllocationForNode of the CIDRPool reconciler with the             *)
(* SubnetIterator of pkg/ip/cidr.go, step by step: the nodes of one        *)
(* Reconcile ask for prefixes one after the other, sharing the iterator.   *)
(***************************************************************************)
EXTENDS ExcludeRanges, FiniteSets

CONSTANT Configs   \* pool configurations

P == INSTANCE Prefixes

\* A configuration that CIDRPool.Validate accepts; Reconcile calls it before
\* it allocates.  The size of a prefix and that of the CIDR are powers of
\* two, and the prefix is not the larger one.
PoolConfigs ==
    [net : [lo : 0 .. MaxIP, hi : 0 .. MaxIP], v4 : BOOLEAN, size : Nat \ {0},
     excl : Seq([start : Int, end : Int]), perNode : Seq([start : Int, end : Int])]

ASSUME ConfigsAssumption ==
    \A c \in Configs :
        /\ c \in PoolConfigs /\ c.net.lo <= c.net.hi
        /\ (c.net.hi - c.net.lo + 1) % c.size = 0
        /\ validateExclusions(c.net, c.excl)
        /\ validatePerNodeExclusions(c.perNode, c.size)

\* A configuration with its exclusion lists read as sets.
AsSets(c) == [c EXCEPT !.excl = Denotes(c.excl), !.perNode = Denotes(c.perNode)]

VARIABLES
    cfg,        \* the pool's configuration
    used,       \* keys of allocationsByPrefix and staticAllocationsByPrefix
    nextIndex,  \* SubnetIterator.nextIndex
    prefix,     \* nodePrefix, NoIP for nil
    pc,         \* "idle" | "next" | "judge" | "found" | "full"
    before      \* history: used when the call began

vars == <<cfg, used, nextIndex, prefix, pc, before>>

subnetCount == (cfg.net.hi - cfg.net.lo + 1) \div cfg.size

Init ==
    /\ cfg \in Configs
    /\ used \in SUBSET P!PrefixesOf(cfg)
    /\ nextIndex = 0 /\ prefix = NoIP
    /\ pc = "idle" /\ before = used

\* lastUsableIndex.
lastUsableIndex == P!LastIP(cfg, 0)

\* getNewAllocationForNode up to the loop.
Begin ==
    /\ pc = "idle"
    /\ pc' = IF ExcludeIndexRangesCover(cfg.perNode, lastUsableIndex) THEN "full" ELSE "next"
    /\ before' = used
    /\ UNCHANGED <<cfg, used, nextIndex, prefix>>

\* SubnetIterator.Next.
IteratorNext ==
    /\ pc = "next"
    /\ IF nextIndex >= subnetCount
       THEN pc' = "full" /\ prefix' = NoIP /\ nextIndex' = nextIndex
       ELSE /\ pc' = "judge"
            /\ prefix' = cfg.net.lo + cfg.size * nextIndex
            /\ nextIndex' = nextIndex + 1
    /\ UNCHANGED <<cfg, used, before>>

SkipUsed ==
    /\ pc = "judge" /\ prefix \in used
    /\ pc' = "next"
    /\ UNCHANGED <<cfg, used, nextIndex, prefix, before>>

PrefixExcluded ==
    FullyExcluded(cfg.excl, cfg.perNode, prefix, prefix, P!LastIP(cfg, prefix))

\* overlappingExclusionEnd: ends of the merged exclusions meeting the prefix.
overlappingExclusionEnds ==
    LET merged == MergeExcludeRanges(cfg.excl)
    IN {merged[i].end : i \in {i \in DOMAIN merged : /\ merged[i].end >= prefix
                                                     /\ merged[i].start <= P!LastIP(cfg, prefix)}}

\* Mutant: the iterator moves to the prefix after the one where the
\* exclusion ends.
AdvancePastIPBeyond(end) ==
    LET next == NextIP(end)
        target == (next - cfg.net.lo) \div cfg.size
    IN IF next = NoIP THEN subnetCount
       ELSE IF target + 1 > nextIndex THEN target + 1 ELSE nextIndex

\* AdvancePastIP: the new nextIndex; it never moves backwards.
AdvancePastIP(end) ==
    LET next == NextIP(end)
        target == (next - cfg.net.lo) \div cfg.size
        index == IF target > nextIndex THEN target ELSE nextIndex
    IN IF next = NoIP THEN subnetCount
       ELSE IF next < cfg.net.lo THEN nextIndex
       ELSE IF index > subnetCount THEN subnetCount ELSE index

SkipExcluded ==
    /\ pc = "judge" /\ prefix \notin used /\ PrefixExcluded
    /\ pc' = "next"
    /\ nextIndex' = IF overlappingExclusionEnds = {} THEN nextIndex
                    ELSE AdvancePastIP(CHOOSE e \in overlappingExclusionEnds :
                                          \A f \in overlappingExclusionEnds : e >= f)
    /\ UNCHANGED <<cfg, used, prefix, before>>

Found ==
    /\ pc = "judge" /\ prefix \notin used /\ ~PrefixExcluded
    /\ pc' = "found"
    /\ used' = used \cup {prefix}
    /\ UNCHANGED <<cfg, nextIndex, prefix, before>>

\* Reconcile turns to the next node.
NextNode ==
    /\ pc = "found"
    /\ pc' = "idle"
    /\ UNCHANGED <<cfg, used, nextIndex, prefix, before>>

Next == Begin \/ IteratorNext \/ SkipUsed \/ SkipExcluded \/ Found \/ NextNode

Spec == Init /\ [][Next]_vars
-----------------------------------------------------------------------------
TypeOK ==
    /\ used \subseteq 0 .. MaxIP /\ before \subseteq used
    /\ nextIndex \in 0 .. subnetCount
    /\ prefix \in {NoIP} \cup 0 .. MaxIP
    /\ pc \in {"idle", "next", "judge", "found", "full"}

\* A node without a prefix gets the first one of the CIDR that is neither
\* allocated nor statically allocated nor fully excluded, although the
\* iterator is shared by the nodes and jumps over whole exclusions.
FoundIsFirstFree ==
    pc = "found" => P!IsFirst(P!FreePrefixes(AsSets(cfg), before), prefix)

\* errNoFreePrefixes is returned only when no such prefix is left.
FullIsFull == pc = "full" => P!FreePrefixes(AsSets(cfg), before) = {}

\* The lists find a prefix fully excluded exactly when every address of it
\* up to LastIP is excluded.
ExcludedIsCovered ==
    pc = "judge" => (PrefixExcluded <=> P!isPrefixFullyExcluded(AsSets(cfg), prefix))
=============================================================================
