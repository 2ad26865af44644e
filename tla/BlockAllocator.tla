--------------------------- MODULE BlockAllocator ---------------------------
(***************************************************************************)
(* The PoolAllocator of pkg/ipam-controller/allocator/allocator.go, step   *)
(* by step: successive calls of AllocateFromPool for nodes without a       *)
(* block, after some blocks have been loaded from the pool's status.  The  *)
(* exclusions are lists, as in the code.                                   *)
(***************************************************************************)
EXTENDS ExcludeRanges, FiniteSets

CONSTANT Configs   \* pool configurations

B == INSTANCE Blocks

\* A configuration that IPPool.Validate or CIDRPool.Validate accepts; the
\* reconcilers call it before they allocate.
PoolConfigs ==
    [net : [lo : 0 .. MaxIP, hi : 0 .. MaxIP], v4 : BOOLEAN, size : Nat \ {0},
     gw : {NoIP} \cup 0 .. MaxIP,
     excl : Seq([start : Int, end : Int]), perNode : Seq([start : Int, end : Int])]

ASSUME ConfigsAssumption ==
    \A c \in Configs :
        /\ c \in PoolConfigs /\ c.net.lo <= c.net.hi
        /\ validateExclusions(c.net, c.excl)
        /\ validatePerNodeExclusions(c.perNode, c.size)

\* A configuration with its exclusion lists read as sets.
AsSets(c) == [c EXCEPT !.excl = Denotes(c.excl), !.perNode = Denotes(c.perNode)]

\* The ranges that load accepts from a status.
Loadable(c) ==
    {s \in c.net.lo .. c.net.hi :
        B!checkAllocation(AsSets(c), [start |-> s, end |-> s + c.size - 1])}

VARIABLES
    cfg,       \* pa.cfg
    startIps,  \* pa.startIps
    last,      \* pa.lastAllocatedStartIP
    cand,      \* startIP of the candidate block, NoIP for nil
    pc,        \* "idle" | "loop" | "found" | "full"
    before     \* history: startIps when the call began

vars == <<cfg, startIps, last, cand, pc, before>>

Init ==
    /\ cfg \in Configs
    /\ startIps \in SUBSET Loadable(cfg)
    /\ last = NoIP /\ cand = NoIP
    /\ pc = "idle" /\ before = startIps

EndIP(s) == NextIPWithOffset(s, cfg.size - 1)

\* allocationValid, on nil addresses too.
Valid(s) == s # NoIP /\ EndIP(s) # NoIP /\ B!allocationValid(cfg, s)

isEntireRangeExcluded(s) == FullyExcluded(cfg.excl, cfg.perNode, s, s, EndIP(s))

\* AllocateFromPool up to the loop.
Begin ==
    /\ pc = "idle"
    /\ before' = startIps
    /\ IF ExcludeIndexRangesCover(cfg.perNode, cfg.size - 1)
       THEN pc' = "full" /\ cand' = cand
       ELSE /\ pc' = "loop"
            /\ cand' = IF last = NoIP THEN B!getFirstStartIP(cfg)
                       ELSE NextIPWithOffset(last, cfg.size)
    /\ UNCHANGED <<cfg, startIps, last>>

SkipTaken ==
    /\ pc = "loop" /\ Valid(cand) /\ cand \in startIps
    /\ cand' = NextIP(EndIP(cand))
    /\ UNCHANGED <<cfg, startIps, last, pc, before>>

\* Mutant: the number of blocks to skip is rounded up.
BlocksToSkipUp(distance) == (distance + cfg.size - 1) \div cfg.size

BlocksToSkip(distance) == distance \div cfg.size

\* Mutant: the blocks to skip are counted from the start of the subnet.
NextCandidateFromFirst(s) ==
    LET next == NextIP(EndIP(s))
        merged == MergeExcludeRanges(cfg.excl)
        over == {i \in DOMAIN merged : Within(merged[i], next) /\ Within(merged[i], EndIP(next))}
    IN IF next = NoIP \/ EndIP(next) = NoIP THEN NoIP
       ELSE IF over = {} THEN next
       ELSE LET free == NextIP(merged[CHOOSE i \in over : \A j \in over : i <= j].end)
            IN IF free = NoIP THEN NoIP
               ELSE NextIPWithOffset(B!getFirstStartIP(cfg), BlocksToSkip(free - next) * cfg.size)

\* getNextNonExcludedCandidates: the block after s, or when one merged
\* exclusion contains that block the one where the exclusion ends.
NextCandidate(s) ==
    LET next == NextIP(EndIP(s))
        merged == MergeExcludeRanges(cfg.excl)
        over == {i \in DOMAIN merged : Within(merged[i], next) /\ Within(merged[i], EndIP(next))}
    IN IF next = NoIP \/ EndIP(next) = NoIP THEN NoIP
       ELSE IF over = {} THEN next
       ELSE LET free == NextIP(merged[CHOOSE i \in over : \A j \in over : i <= j].end)
            IN IF free = NoIP THEN NoIP
               ELSE NextIPWithOffset(next, BlocksToSkip(free - next) * cfg.size)

SkipExcluded ==
    /\ pc = "loop" /\ Valid(cand) /\ cand \notin startIps
    /\ isEntireRangeExcluded(cand)
    /\ cand' = NextCandidate(cand)
    /\ UNCHANGED <<cfg, startIps, last, pc, before>>

SkipGateway ==
    /\ pc = "loop" /\ Valid(cand) /\ cand \notin startIps
    /\ ~isEntireRangeExcluded(cand) /\ B!IsGateway(cfg, cand)
    /\ cand' = NextIP(EndIP(cand))
    /\ UNCHANGED <<cfg, startIps, last, pc, before>>

Found ==
    /\ pc = "loop" /\ Valid(cand) /\ cand \notin startIps
    /\ ~isEntireRangeExcluded(cand) /\ ~B!IsGateway(cfg, cand)
    /\ pc' = "found"
    /\ startIps' = startIps \cup {cand} /\ last' = cand
    /\ UNCHANGED <<cfg, cand, before>>

\* ErrNoFreeRanges.
NoFreeRanges ==
    /\ pc = "loop" /\ ~Valid(cand)
    /\ pc' = "full"
    /\ UNCHANGED <<cfg, startIps, last, cand, before>>

\* The reconciler calls AllocateFromPool for the next node.
NextNode ==
    /\ pc = "found"
    /\ pc' = "idle"
    /\ UNCHANGED <<cfg, startIps, last, cand, before>>

Next == Begin \/ SkipTaken \/ SkipExcluded \/ SkipGateway \/ Found \/ NoFreeRanges \/ NextNode

Spec == Init /\ [][Next]_vars
-----------------------------------------------------------------------------
TypeOK ==
    /\ startIps \subseteq 0 .. MaxIP /\ before \subseteq startIps
    /\ last \in {NoIP} \cup 0 .. MaxIP /\ cand \in {NoIP} \cup 0 .. MaxIP
    /\ pc \in {"idle", "loop", "found", "full"}

\* AllocateFromPool returns the first block of the subnet that is neither
\* taken nor entirely excluded nor the gateway, although later calls resume
\* after the last allocated block and exclusions are jumped over at once.
FoundIsFirstFree ==
    pc = "found" => B!IsFirst(B!FreeBlocks(AsSets(cfg), before), cand)

\* It reports ErrNoFreeRanges only when no such block is left.
FullIsFull == pc = "full" => B!FreeBlocks(AsSets(cfg), before) = {}

\* Clamping and merging the exclusion lists finds a candidate entirely
\* excluded exactly when every address of it is excluded.
ExcludedIsCovered ==
    pc = "loop" /\ Valid(cand) => (isEntireRangeExcluded(cand) <=> B!Excluded(AsSets(cfg), cand))

\* Every turn of the loop moves the candidate forward or past the last
\* address, so that the loop ends whatever the exclusions are.
CandidateAdvances ==
    [][pc = "loop" /\ pc' = "loop" => cand' > cand \/ cand' = NoIP]_vars
=============================================================================
