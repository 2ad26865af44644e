----------------------------- MODULE IPAllocator -----------------------------
(***************************************************************************)
(* The calls of allocator.Allocate on one pool, one after the other        *)
(* (pkg/ipam-node/allocator/allocator.go): the RangeIter cursor walked     *)
(* step by step, exclusions, the retries on addresses that are already     *)
(* reserved, and the static allocation that puts LastReservedIP back.      *)
(* The session is exclusive, so its content is an input of each call: the  *)
(* reserved addresses of the pool and whether the caller's key is already  *)
(* in the pool; LastReservedIP is what the calls before left in it.        *)
(*                                                                         *)
(* Addresses are 0..MaxIP: MaxIP is the last address of the family, where  *)
(* ip.NextIP returns nil.                                                  *)
(***************************************************************************)
EXTENDS IPRange

CONSTANTS
    MaxIP,       \* last address of the family
    RangeSets,   \* the canonical range sets a call may be given
    Exclusions,  \* the exclusion sets
    Statics      \* the requested addresses, NoIP for dynamic allocation

Addrs == 0 .. MaxIP

ASSUME MaxIPAssumption == MaxIP \in Nat
\* The ranges of one call are of one address family.
Ranges ==
    [start : Addrs, end : Addrs, subnet : [lo : Addrs, hi : Addrs], gw : Addrs \cup {NoIP}]

ASSUME RangeSetsAssumption ==
    \A rs \in RangeSets : rs \in Seq(Ranges) /\ CanonicalSet(rs)
\* A requested address is of the same family.
ASSUME StaticsAssumption == Statics \subseteq Addrs \cup {NoIP}

Inputs ==
    [rs : RangeSets, excl : Exclusions, reserved : SUBSET Addrs,
     keyTaken : BOOLEAN, last : Addrs \cup {NoIP}, static : Statics]

VARIABLES
    in,       \* the call: rs, excl, reserved, keyTaken, last, static
    iter,     \* RangeIter: idx (from 1), cur, startIP
    pc,       \* "start" | "restore" | "next" | "try" | "done"
    last,     \* session's LastReservedIP
    saved,    \* allocateStaticIP's local lastReservedIP
    result,   \* [err |-> ..., ip |-> ...] once pc = "done"
    visited,  \* history: addresses iter.Next() has returned in this call
    watch,    \* history: an address some dynamic call handed out, NoIP before
    round     \* history: addresses tried since watch was last handed out

vars == <<in, iter, pc, last, saved, result, visited, watch, round>>

NoResult == [err |-> "none", ip |-> NoIP]

Init ==
    /\ in \in Inputs
    /\ iter = [idx |-> 1, cur |-> NoIP, startIP |-> NoIP]
    /\ pc = "start"
    /\ last = in.last
    /\ saved = NoIP
    /\ result = NoResult
    /\ visited = <<>>
    /\ watch = NoIP /\ round = {}

Done(err, a) ==
    /\ pc' = "done"
    /\ result' = [err |-> err, ip |-> a]

NextIP(a) == IF a = MaxIP THEN NoIP ELSE a + 1

\* allocateStaticIP up to session.Reserve, which moves LastReservedIP to the
\* address it reserves: only the subnet is checked, not the range.
allocateStaticIP ==
    /\ pc = "start" /\ in.static # NoIP
    /\ LET err == IF \A i \in DOMAIN in.rs : ~InSubnet(in.rs[i].subnet, in.static)
                  THEN "noRange"
                  ELSE IF in.keyTaken THEN "exists"
                  ELSE IF in.static \in in.reserved THEN "reserved"
                  ELSE "ok"
       IN IF err = "ok"
          THEN /\ saved' = last /\ last' = in.static
               /\ pc' = "restore" /\ result' = result
          ELSE Done(err, NoIP) /\ UNCHANGED <<saved, last>>
    /\ UNCHANGED <<in, iter, visited, watch, round>>

\* Mutant: a static allocation leaves LastReservedIP where Reserve put it.
RestoreForgotten ==
    /\ pc = "restore"
    /\ last' = last /\ saved' = NoIP
    /\ Done("ok", in.static)
    /\ UNCHANGED <<in, iter, visited, watch, round>>

\* The end of allocateStaticIP: session.SetLastReservedIP(lastReservedIP).
SetLastReservedIP ==
    /\ pc = "restore"
    /\ last' = saved /\ saved' = NoIP
    /\ Done("ok", in.static)
    /\ UNCHANGED <<in, iter, visited, watch, round>>

\* getIter: continue after LastReservedIP when some range contains it.
getIter ==
    /\ pc = "start" /\ in.static = NoIP
    /\ LET home == {i \in DOMAIN in.rs : Contains(in.rs[i], last)}
       IN iter' = IF last # NoIP /\ home # {}
                  THEN [idx |-> CHOOSE i \in home : \A j \in home : i <= j,
                        cur |-> last, startIP |-> NoIP]
                  ELSE [idx |-> 1, cur |-> NoIP, startIP |-> in.rs[1].start]
    /\ pc' = "next"
    /\ UNCHANGED <<in, last, saved, result, visited, watch, round>>

\* Mutant: the address after the gateway is taken without looking at the end
\* of the range.
YieldAfterGateway(r, a) ==
    pc' = "try" /\ visited' = Append(visited, IF r.gw # NoIP /\ a = r.gw THEN NextIP(a) ELSE a)

\* The tail of RangeIter.Next: the gateway of the range is skipped by calling
\* Next() again, any other address is returned.
Yield(r, a) ==
    IF r.gw # NoIP /\ a = r.gw
    THEN pc' = "next" /\ visited' = visited
    ELSE pc' = "try" /\ visited' = Append(visited, a)

\* RangeIter.Next without a cursor: start at the first address of the range.
NextFirst ==
    /\ pc = "next" /\ iter.cur = NoIP
    /\ LET r == in.rs[iter.idx]
       IN /\ iter' = [iter EXCEPT !.cur = r.start, !.startIP = r.start]
          /\ Yield(r, r.start)
    /\ UNCHANGED <<in, last, saved, result, watch, round>>

\* Mutants: the iterator never gives up; it gives up one address too early.
BackAtStartNever(a) == FALSE
BackAtStartEarly(a) == iter.startIP # NoIP /\ NextIP(a) = iter.startIP

\* The iterator has looped back to where it started.
BackAtStart(a) == iter.startIP # NoIP /\ a = iter.startIP

\* RangeIter.Next with a cursor: advance, wrapping to the next range.
NextAdvance ==
    /\ pc = "next" /\ iter.cur # NoIP
    /\ LET wraps == iter.cur = in.rs[iter.idx].end \/ NextIP(iter.cur) = NoIP
           idx == IF wraps THEN (iter.idx % Len(in.rs)) + 1 ELSE iter.idx
           cur == IF wraps THEN in.rs[idx].start ELSE NextIP(iter.cur)
       IN /\ iter' = [idx |-> idx, cur |-> cur,
                      startIP |-> IF iter.startIP = NoIP THEN cur ELSE iter.startIP]
          /\ IF BackAtStart(cur)
             THEN Done("noFree", NoIP) /\ visited' = visited
             ELSE Yield(in.rs[idx], cur) /\ result' = result
    /\ UNCHANGED <<in, last, saved, watch, round>>

\* History: the addresses the calls have tried since watch was handed out.
\* The address handed out now may become the one that is watched.
Remember(a) ==
    /\ watch' \in {watch, a}
    /\ round' = IF watch' \in {a, NoIP} THEN {}
                ELSE round \cup {visited[k] : k \in DOMAIN visited}

\* The body of the loop in Allocate: an excluded address is skipped, and so
\* is a reserved one; any other error of Reserve ends the call.
TryReserve ==
    /\ pc = "try"
    /\ \/ /\ SetContains(in.excl, iter.cur)
          /\ pc' = "next" /\ UNCHANGED <<result, last, watch, round>>
       \/ /\ ~SetContains(in.excl, iter.cur) /\ in.keyTaken
          /\ Done("exists", NoIP) /\ UNCHANGED <<last, watch, round>>
       \/ /\ ~SetContains(in.excl, iter.cur) /\ ~in.keyTaken
          /\ iter.cur \in in.reserved
          /\ pc' = "next" /\ UNCHANGED <<result, last, watch, round>>
       \/ /\ ~SetContains(in.excl, iter.cur) /\ ~in.keyTaken
          /\ iter.cur \notin in.reserved
          /\ Done("ok", iter.cur) /\ last' = iter.cur /\ Remember(iter.cur)
    /\ UNCHANGED <<in, iter, saved, visited>>

\* The addresses reserved once the call has returned.
ReservedNow == IF result.err = "ok" THEN in.reserved \cup {result.ip} ELSE in.reserved

\* The next call on the pool, by this Pod or another, with whatever was
\* released since.
NextCall ==
    /\ pc = "done"
    /\ \E reserved \in SUBSET ReservedNow, keyTaken \in BOOLEAN, static \in Statics :
           in' = [in EXCEPT !.reserved = reserved, !.keyTaken = keyTaken,
                            !.last = last, !.static = static]
    /\ iter' = [idx |-> 1, cur |-> NoIP, startIP |-> NoIP]
    /\ pc' = "start" /\ result' = NoResult /\ visited' = <<>>
    /\ UNCHANGED <<last, saved, watch, round>>

\* One step of the code of a call.
Step ==
    \/ allocateStaticIP
    \/ SetLastReservedIP
    \/ getIter
    \/ NextFirst
    \/ NextAdvance
    \/ TryReserve

Next == Step \/ NextCall

Spec == Init /\ [][Next]_vars /\ WF_vars(Step)
-----------------------------------------------------------------------------
(***************************************************************************)
(* Properties                                                              *)
(***************************************************************************)
TypeOK ==
    /\ iter.idx \in DOMAIN in.rs
    /\ iter.cur \in Addrs \cup {NoIP} /\ iter.startIP \in Addrs \cup {NoIP}
    /\ pc \in {"start", "restore", "next", "try", "done"}
    /\ last \in Addrs \cup {NoIP} /\ saved \in Addrs \cup {NoIP}
    /\ result.err \in {"none", "ok", "noFree", "exists", "reserved", "noRange"}
    /\ visited \in Seq(Addrs)
    /\ watch \in Addrs \cup {NoIP} /\ round \subseteq Addrs

\* A dynamic Allocate hands out exactly the address of the closed form: the
\* first free one after LastReservedIP in cyclic order; and it reports that
\* nothing is free only when every allocatable address is reserved (wrap
\* around, gateway skipping and exclusions lose no address).
DynamicIsFirstFree ==
    (pc = "done" /\ in.static = NoIP) =>
        LET free == Free(in.rs, in.excl, in.reserved)
        IN IF in.keyTaken
           THEN result.err = IF Allocatable(in.rs, in.excl) = {} THEN "noFree" ELSE "exists"
           ELSE IF free = {} THEN result = [err |-> "noFree", ip |-> NoIP]
           ELSE /\ result.err = "ok"
                /\ \E s \in free : /\ s[2] = result.ip
                                   /\ FirstFree(in.rs, in.excl, in.last, in.reserved, s)

\* Within one call the iterator never offers an address twice.
NeverRevisits == \A i, j \in 1 .. Len(visited) : visited[i] = visited[j] => i = j

\* "A crash-looping container will not see the same IP until the entire range
\* has been run through" (getIter): when dynamic calls hand out an address a
\* second time, every address they may use has been tried in between, whatever
\* releases, failed calls and static allocations came between them.
RunsThroughTheRange ==
    [][(TryReserve /\ pc' = "done" /\ result'.err = "ok" /\ result'.ip = watch) =>
           \A s \in Allocatable(in.rs, in.excl) :
               s[2] \in round \/ \E k \in DOMAIN visited : s[2] = visited[k]]_vars

\* The loop of Allocate ends, in every call.
Terminates == (pc = "start") ~> (pc = "done")
=============================================================================
