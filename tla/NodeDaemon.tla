------------------------------ MODULE NodeDaemon ------------------------------
(***************************************************************************)
(* The ipam-node daemon: the gRPC handlers (pkg/ipam-node/handlers), the   *)
(* file store and its sessions (pkg/ipam-node/store), the cleaner          *)
(* (pkg/ipam-node/cleaner), the pool manager the node reconcilers write    *)
(* (pkg/pool), the start and the crash of the process (cmd/ipam-node), and *)
(* around it the callers (container runtime and CNI plugin) and the Pods   *)
(* of the Kubernetes API.                                                  *)
(***************************************************************************)
EXTENDS StoreData

CONSTANTS
    Workers,     \* handler goroutines
    Cleaner,     \* the cleaner goroutine, as a holder of the store lock
    None,        \* no holder, no owner, no Pod, no configuration
    CheckCount,  \* --stale-ip-check-count-before-release
    Configs,     \* the configurations each pool may get: [range, excl, routesOK]
    Request,     \* per owner: [pools, ips, gateway, index]
    Pods, Names, \* Pod objects (one per UID) and the names they use
    NameOf,      \* name of a Pod
    PodOf,       \* the Pod an owner belongs to
    HasUID       \* owners whose request carries the Pod UID

NoIndex == -1

AllConfigs == UNION {Configs[p] : p \in PoolKeys}

ASSUME CheckCountAssumption == CheckCount \in Nat
ASSUME NoneAssumption == None \notin Workers \cup {Cleaner} \cup Owners \cup Pods \cup AllConfigs
ASSUME CleanerAssumption == Cleaner \notin Workers
ASSUME PodsAssumption == NameOf \in [Pods -> Names] /\ PodOf \in [Owners -> Pods]
ASSUME RequestAssumption ==
    \A o \in Owners :
        /\ Request[o] \in [pools : Seq(PoolKeys), ips : Seq(Addrs),
                           gateway : BOOLEAN, index : Nat \cup {NoIndex}]
        /\ Len(Request[o].pools) \in 1 .. 2
ASSUME ConfigsAssumption ==
    \A c \in AllConfigs :
        /\ c.range.start \in Nat /\ c.range.end \in Nat
        /\ c.range.start .. c.range.end \subseteq Addrs
        /\ c.range.gw \in Addrs \cup {NoIP}

VARIABLES
    disk,       \* content of the store file
    up,         \* the daemon is running
    persisted,  \* store.persistedData
    lock,       \* holder of store.lock
    tmp,        \* session.tmpData of the holder
    cfg,        \* pool manager: configuration of every pool or None
    call,       \* per handler goroutine: the request it serves
    scan,       \* cleaner: keys of the session it has still to look at
    stale,      \* cleaner.staleAllocations, saturated above CheckCount
    api, cache, \* Pod of each name in the API and in the informer cache
    unborn,     \* Pods not created yet
    held,       \* history: the address each key's client has been given
    gone        \* history: owners whose last finished request is a DEL

vars == <<disk, up, persisted, lock, tmp, cfg, call, scan, stale, api, cache,
          unborn, held, gone>>

Errors == {"ok", "AlreadyExists", "Canceled", "Internal", "InvalidArgument", "NotFound",
           "ResourceExhausted"}

NothingGot == [p \in PoolKeys |-> NoIP]

Idle == [pc |-> "idle", op |-> "none", owner |-> None, i |-> 1, got |-> NothingGot,
         err |-> "ok", live |-> FALSE]

KeysOf(o) == {<<Request[o].pools[i], o>> : i \in DOMAIN Request[o].pools}

\* The owner's Pod exists.
Alive(o) == api[NameOf[PodOf[o]]] = PodOf[o]

Init ==
    /\ disk = NewRoot /\ persisted = NewRoot /\ tmp = NewRoot
    /\ up = FALSE /\ lock = None
    /\ cfg = [p \in PoolKeys |-> None]
    /\ call = [w \in Workers |-> Idle]
    /\ scan = {} /\ stale = [k \in Keys |-> 0]
    /\ api = [n \in Names |-> None] /\ cache = api /\ unborn = Pods
    /\ held = [k \in Keys |-> NoIP] /\ gone = {}
-----------------------------------------------------------------------------
(***************************************************************************)
(* The process.                                                            *)
(***************************************************************************)

\* RunNodeDaemon: the initial store.Open loads the file, the informer cache
\* is synced before the cleaner starts; the pool manager starts empty.
Start ==
    /\ ~up
    /\ up' = TRUE /\ persisted' = disk /\ cache' = api
    /\ UNCHANGED <<disk, lock, tmp, cfg, call, scan, stale, api, unborn, held, gone>>

\* The process dies between any two steps: all of its memory is lost.
Crash ==
    /\ up
    /\ up' = FALSE
    /\ persisted' = NewRoot /\ lock' = None /\ tmp' = NewRoot
    /\ cfg' = [p \in PoolKeys |-> None]
    /\ call' = [w \in Workers |-> Idle]
    /\ scan' = {} /\ stale' = [k \in Keys |-> 0]
    /\ UNCHANGED <<disk, api, cache, unborn, held, gone>>

\* store.Open: the lock is taken and the session works on a copy.
OpenSession(who) ==
    /\ lock = None
    /\ lock' = who
    /\ tmp' = persisted

\* The session is closed and the lock released.
Unlock == lock' = None /\ tmp' = NewRoot

\* Mutant: the lock is not released when a session is canceled.
CancelKeepsLock == lock' = lock /\ tmp' = NewRoot

\* session.Cancel.
Cancel == Unlock

\* Mutant: memory is updated although the file was not written.
PersistedOnWriteErrorTmp(d) == d

\* persistedData after writeToDisk failed.
PersistedOnWriteError(d) == persisted

\* session.Commit of d: nothing is written when nothing was modified; the
\* file is replaced atomically, or the write fails and nothing changes.
Commit(d, ok) ==
    /\ Unlock
    /\ \/ /\ ok
          /\ disk' = (IF d = persisted THEN disk ELSE d) /\ persisted' = d
       \/ /\ ~ok /\ d # persisted
          /\ disk' = disk /\ persisted' = PersistedOnWriteError(d)
-----------------------------------------------------------------------------
(***************************************************************************)
(* The callers.  The runtime has at most one live call per owner; a call   *)
(* whose client has timed out goes on in the daemon with a canceled        *)
(* context.                                                                *)
(***************************************************************************)
Arrive(w, op, o) ==
    /\ up /\ call[w].pc = "idle"
    /\ \A v \in Workers : ~(call[v].live /\ call[v].owner = o)
    /\ op = "ADD" => PodOf[o] \notin unborn
    /\ call' = [call EXCEPT ![w] = [pc |-> "open", op |-> op, owner |-> o, i |-> 1,
                                    got |-> NothingGot, err |-> "ok", live |-> TRUE]]
    /\ held' = [k \in Keys |-> IF op = "DEL" /\ k[2] = o THEN NoIP ELSE held[k]]
    /\ gone' = IF op = "ADD" THEN gone \ {o} ELSE gone
    /\ UNCHANGED <<disk, up, persisted, lock, tmp, cfg, scan, stale, api, cache, unborn>>

ClientTimeout(w) ==
    /\ call[w].live
    /\ call' = [call EXCEPT ![w].live = FALSE]
    /\ UNCHANGED <<disk, up, persisted, lock, tmp, cfg, scan, stale, api, cache, unborn, held, gone>>

\* The answer reaches the caller if it still waits for it.
Reply(w) ==
    LET c == call[w]
        ok == c.live /\ c.err = "ok"
    IN /\ c.pc = "reply"
       /\ call' = [call EXCEPT ![w] = Idle]
       /\ held' = IF ok /\ c.op = "ADD" /\ Alive(c.owner)
                  THEN [k \in Keys |-> IF k \in KeysOf(c.owner) THEN c.got[k[1]] ELSE held[k]]
                  ELSE held
       /\ gone' = IF ok /\ c.op = "DEL" THEN gone \cup {c.owner} ELSE gone
       /\ UNCHANGED <<disk, up, persisted, lock, tmp, cfg, scan, stale, api, cache, unborn>>
-----------------------------------------------------------------------------
(***************************************************************************)
(* The handlers.                                                           *)
(***************************************************************************)

\* Mutant: checkReqIsCanceled is not called.
CanceledNever(w) == FALSE

\* checkReqIsCanceled: the context of the request is done.
Canceled(w) == ~call[w].live

\* openStore and checkReqIsCanceled.
Open(w) ==
    /\ call[w].pc = "open"
    /\ OpenSession(w)
    /\ call' = [call EXCEPT ![w].pc = IF Canceled(w) THEN "close" ELSE "run",
                            ![w].err = IF Canceled(w) THEN "Canceled" ELSE "ok"]
    /\ UNCHANGED <<disk, up, persisted, cfg, scan, stale, api, cache, unborn, held, gone>>

\* The static address allocateInPool selects under configuration c for
\* request q: the index feature, else the gateway feature, else the first
\* requested address in the subnet; NoIP for a dynamic allocation.
SelectedIPs(c, q) ==
    IF q.index # NoIndex THEN {c.range.start + q.index}
    ELSE IF q.gateway THEN {c.range.gw}
    ELSE LET inside == {i \in DOMAIN q.ips : InSubnet(c.range.subnet, q.ips[i])}
         IN IF inside = {} THEN {NoIP}
            ELSE {q.ips[i] : i \in {i \in inside : \A j \in inside : i <= j}}

\* The errors allocateInPool returns before it calls the allocator.
ConfigErr(c, q) ==
    IF c = None THEN "NotFound"
    ELSE IF ~CanonicalSet(<<c.range>>) THEN "Internal"
    ELSE IF q.gateway /\ c.range.gw = NoIP THEN "InvalidArgument"
    ELSE IF q.index # NoIndex /\ (\/ c.range.start + q.index = c.range.gw
                                  \/ ~Contains(c.range, c.range.start + q.index))
    THEN "InvalidArgument"
    ELSE IF c.excl # <<>> /\ ~CanonicalSet(c.excl) THEN "Internal"
    ELSE "ok"

\* The addresses the iterator cannot hand out to key k: the existing key is
\* reported for the first candidate already, reserved or not.
Taken(d, k) == IF Present(d, k) THEN {} ELSE ReservedIPs(d, k[1])

\* allocator.Allocate for key k: the error err and the address a.
Allocates(d, c, k, sel, err, a) ==
    \/ /\ sel # NoIP /\ ~InSubnet(c.range.subnet, sel)
       /\ err = "Internal" /\ a = NoIP
    \/ /\ sel # NoIP /\ InSubnet(c.range.subnet, sel)
       /\ err = ReserveErr(d, k, sel) /\ a = sel
    \/ /\ sel = NoIP /\ Free(<<c.range>>, c.excl, Taken(d, k)) = {}
       /\ err = "ResourceExhausted" /\ a = NoIP
    \/ /\ sel = NoIP /\ FirstFree(<<c.range>>, c.excl, d.last[k[1]], Taken(d, k), <<1, a>>)
       /\ err = ReserveErr(d, k, a)

\* getRoutes fails on a route it cannot parse; without a gateway in the
\* result it parses none.
RoutesErr(c, q) ==
    IF c.range.gw # NoIP /\ ~q.gateway /\ ~c.routesOK THEN "InvalidArgument" ELSE "ok"

\* Mutant: requested addresses that no pool has are forgotten.
RequestedErrNone(q, i, got) == "ok"

\* After the last pool, allocate checks that every requested address was
\* allocated.
RequestedErr(q, i, got) ==
    IF i = Len(q.pools) /\ \E j \in DOMAIN q.ips : \A p \in PoolKeys : got[p] # q.ips[j]
    THEN "InvalidArgument" ELSE "ok"

FirstErr(e1, e2) == IF e1 # "ok" THEN e1 ELSE e2

\* One turn of the loop of allocate: allocateInPool for the next pool.
AllocateInPool(w) ==
    LET o == call[w].owner
        i == call[w].i
        q == Request[o]
        p == q.pools[i]
        c == cfg[p]
    IN /\ call[w].pc = "run" /\ call[w].op = "ADD"
       /\ \/ /\ ConfigErr(c, q) # "ok"
             /\ call' = [call EXCEPT ![w].pc = "close", ![w].err = ConfigErr(c, q)]
             /\ tmp' = tmp
          \/ /\ ConfigErr(c, q) = "ok"
             /\ \E sel \in SelectedIPs(c, q), a \in Addrs \cup {NoIP}, err \in Errors :
                /\ Allocates(tmp, c, <<p, o>>, sel, err, a)
                /\ \/ /\ err # "ok"
                      /\ call' = [call EXCEPT ![w].pc = "close", ![w].err = err]
                      /\ tmp' = tmp
                   \/ /\ err = "ok"
                      /\ tmp' = Reserve(tmp, <<p, o>>, a, IF sel = NoIP THEN a ELSE tmp.last[p])
                      /\ LET got == [call[w].got EXCEPT ![p] = a]
                             e == FirstErr(RoutesErr(c, q), RequestedErr(q, i, got))
                             done == e # "ok" \/ i = Len(q.pools)
                         IN call' = [call EXCEPT
                              ![w].pc = IF done THEN "close" ELSE "run",
                              ![w].i = IF done THEN i ELSE i + 1,
                              ![w].err = e, ![w].got = got]
       /\ UNCHANGED <<disk, up, persisted, lock, cfg, scan, stale, api, cache, unborn, held, gone>>

\* The body of Deallocate.
Deallocate(w) ==
    /\ call[w].pc = "run" /\ call[w].op = "DEL"
    /\ tmp' = ReleaseAll(tmp, KeysOf(call[w].owner))
    /\ call' = [call EXCEPT ![w].pc = "close"]
    /\ UNCHANGED <<disk, up, persisted, lock, cfg, scan, stale, api, cache, unborn, held, gone>>

\* The body of IsAllocated.
IsAllocated(w) ==
    /\ call[w].pc = "run" /\ call[w].op = "CHECK"
    /\ call' = [call EXCEPT ![w].pc = "close",
                            ![w].err = IF \A k \in KeysOf(call[w].owner) : Active(tmp, k)
                                       THEN "ok" ELSE "NotFound"]
    /\ UNCHANGED <<disk, up, persisted, lock, tmp, cfg, scan, stale, api, cache, unborn, held, gone>>

\* closeSession commits when the handler has no error, and cancels otherwise.
Commits(w) == call[w].err = "ok"

CloseSession(w, ok) ==
    /\ call[w].pc = "close"
    /\ \/ /\ Commits(w)
          /\ Commit(tmp, ok)
          /\ call' = [call EXCEPT ![w].pc = "reply", ![w].err = IF ok THEN @ ELSE "Internal"]
       \/ /\ ~Commits(w) /\ ok
          /\ Cancel /\ UNCHANGED <<disk, persisted>>
          /\ call' = [call EXCEPT ![w].pc = "reply"]
    /\ UNCHANGED <<up, cfg, scan, stale, api, cache, unborn, held, gone>>
-----------------------------------------------------------------------------
(***************************************************************************)
(* The cleaner.                                                            *)
(***************************************************************************)
CleanerOpen ==
    /\ up
    /\ OpenSession(Cleaner)
    /\ scan' = {k \in Keys : Present(persisted, k)}
    /\ UNCHANGED <<disk, up, persisted, cfg, call, stale, api, cache, unborn, held, gone>>

\* Mutant: only the name of the Pod is compared.
CheckPodByName(view, o) == view[NameOf[PodOf[o]]] # None

\* checkPod in a view of the Pods.
CheckPod(view, o) ==
    LET pod == view[NameOf[PodOf[o]]]
    IN pod # None /\ (o \in HasUID => pod = PodOf[o])

\* Mutant: the cache is believed when it does not have the Pod.
PodFoundInCache(o) == CheckPod(cache, o)

\* The Pod is in the cache or else in the API.
PodFound(o) == CheckPod(cache, o) \/ CheckPod(api, o)

\* Mutant: the counter is bumped twice per check.
BumpedTwice(n) == n + 2

\* The counter of a reservation whose Pod is not found.
Bumped(n) == IF n > CheckCount THEN n ELSE n + 1

\* loop: one reservation of the session.
CleanerScan(k) ==
    LET r == tmp.entries[k]
    IN /\ lock = Cleaner /\ k \in scan
       /\ scan' = scan \ {k}
       /\ tmp' = IF Expired(r) THEN ReleaseAll(tmp, {k}) ELSE tmp
       /\ stale' = [stale EXCEPT ![k] = IF IsReleased(r) \/ PodFound(k[2]) THEN 0 ELSE Bumped(@)]
       /\ UNCHANGED <<disk, up, persisted, lock, cfg, call, api, cache, unborn, held, gone>>

\* loop: a Pod cannot be read; the session is canceled, the counters stay.
CleanerReadError(k) ==
    /\ lock = Cleaner /\ k \in scan
    /\ ~IsReleased(tmp.entries[k])
    /\ scan' = {}
    /\ Cancel
    /\ UNCHANGED <<disk, up, persisted, cfg, call, stale, api, cache, unborn, held, gone>>

\* The counter asks for the release of the reservation.
IsStale(n) == n > CheckCount

\* loop, from the sweep over the counters to the commit.  The reservations
\* and the empty pools are those the session started with.
CleanerFinish(ok) ==
    LET known == {k \in Keys : Present(persisted, k)}
        due == {k \in known : IsStale(stale[k])}
        unused == {p \in EmptyPools(persisted) : cfg[p] = None}
    IN /\ lock = Cleaner /\ scan = {}
       /\ stale' = [k \in Keys |-> IF k \in known THEN stale[k] ELSE 0]
       /\ Commit(RemovePools(ReleaseAll(tmp, due), unused), ok)
       /\ UNCHANGED <<up, cfg, call, scan, api, cache, unborn, held, gone>>
-----------------------------------------------------------------------------
(***************************************************************************)
(* The environment: the node reconcilers, the clock and the Pods.          *)
(***************************************************************************)
UpdatePool(p, c) ==
    /\ up
    /\ cfg' = [cfg EXCEPT ![p] = c]
    /\ UNCHANGED <<disk, up, persisted, lock, tmp, call, scan, stale, api, cache, unborn, held, gone>>

RemovePool(p) == UpdatePool(p, None)

Tick ==
    /\ disk' = Aged(disk) /\ persisted' = Aged(persisted) /\ tmp' = Aged(tmp)
    /\ UNCHANGED <<up, lock, cfg, call, scan, stale, api, cache, unborn, held, gone>>

PodCreate(pod) ==
    /\ pod \in unborn /\ api[NameOf[pod]] = None
    /\ api' = [api EXCEPT ![NameOf[pod]] = pod]
    /\ unborn' = unborn \ {pod}
    /\ UNCHANGED <<disk, up, persisted, lock, tmp, cfg, call, scan, stale, cache, held, gone>>

\* With the Pod object its sandbox is gone: it uses no address any more.
PodDelete(n) ==
    /\ api[n] # None
    /\ api' = [api EXCEPT ![n] = None]
    /\ held' = [k \in Keys |-> IF PodOf[k[2]] = api[n] THEN NoIP ELSE held[k]]
    /\ UNCHANGED <<disk, up, persisted, lock, tmp, cfg, call, scan, stale, cache, unborn, gone>>

CacheSync(n) ==
    /\ cache[n] # api[n]
    /\ cache' = [cache EXCEPT ![n] = api[n]]
    /\ UNCHANGED <<disk, up, persisted, lock, tmp, cfg, call, scan, stale, api, unborn, held, gone>>
-----------------------------------------------------------------------------
Handler(w) ==
    \/ Open(w)
    \/ AllocateInPool(w)
    \/ Deallocate(w)
    \/ IsAllocated(w)
    \/ \E ok \in BOOLEAN : CloseSession(w, ok)
    \/ Reply(w)

CleanerStep ==
    \/ CleanerOpen
    \/ \E k \in Keys : CleanerScan(k) \/ CleanerReadError(k)
    \/ \E ok \in BOOLEAN : CleanerFinish(ok)

Environment ==
    \/ Start \/ Crash \/ Tick
    \/ \E w \in Workers : ClientTimeout(w) \/ \E o \in Owners, op \in {"ADD", "DEL", "CHECK"} : Arrive(w, op, o)
    \/ \E p \in PoolKeys : RemovePool(p) \/ \E c \in Configs[p] : UpdatePool(p, c)
    \/ \E pod \in Pods : PodCreate(pod)
    \/ \E n \in Names : PodDelete(n) \/ CacheSync(n)

Next == (\E w \in Workers : Handler(w)) \/ CleanerStep \/ Environment

Spec == Init /\ [][Next]_vars

\* A write of the store file, a read of a Pod or the whole process fails.
Fault ==
    \/ Crash
    \/ \E k \in Keys : CleanerReadError(k)
    \/ \E w \in Workers : CloseSession(w, FALSE)
    \/ CleanerFinish(FALSE)

\* Goroutines keep running, the daemon is restarted, sync.Mutex starves no
\* waiter, the clock advances and the informer catches up.
Fairness ==
    /\ WF_vars(Start) /\ WF_vars(Tick)
    /\ \A n \in Names : WF_vars(CacheSync(n))
    /\ \A w \in Workers :
          /\ SF_vars(Open(w))
          /\ WF_vars(AllocateInPool(w) \/ Deallocate(w) \/ IsAllocated(w)
                        \/ (\E ok \in BOOLEAN : CloseSession(w, ok)) \/ Reply(w))
    /\ SF_vars(CleanerOpen)
    /\ WF_vars((\E k \in Keys : CleanerScan(k) \/ CleanerReadError(k))
                  \/ \E ok \in BOOLEAN : CleanerFinish(ok))

FairSpec == Spec /\ Fairness

\* From some point on nothing fails any more.
FaultsEnd == <>[][~Fault]_vars
-----------------------------------------------------------------------------
(***************************************************************************)
(* Safety properties                                                       *)
(***************************************************************************)
CallType ==
    [pc : {"idle", "open", "run", "close", "reply"}, op : {"none", "ADD", "DEL", "CHECK"},
     owner : Owners \cup {None}, i : {1, 2}, got : [PoolKeys -> Addrs \cup {NoIP}],
     err : Errors, live : BOOLEAN]

TypeOK ==
    /\ disk \in Root /\ persisted \in Root /\ tmp \in Root
    /\ up \in BOOLEAN
    /\ lock \in Workers \cup {Cleaner, None}
    /\ cfg \in [PoolKeys -> AllConfigs \cup {None}]
    /\ call \in [Workers -> CallType]
    /\ scan \in SUBSET Keys /\ stale \in [Keys -> 0 .. CheckCount + 1]
    /\ api \in [Names -> Pods \cup {None}] /\ cache \in [Names -> Pods \cup {None}]
    /\ unborn \in SUBSET Pods
    /\ held \in [Keys -> Addrs \cup {NoIP}] /\ gone \in SUBSET Owners

\* In the store file no two reservations of a pool have the same address,
\* whatever handlers, cleaner, crashes and failing writes do.
UniqueIP == UniqueIPs(disk)

\* While the daemon runs, its memory agrees with the file: a failed write is
\* undone in both.
MemoryMatchesDisk == up => persisted = disk

\* An address given to the client of a living Pod stays reserved for it, and
\* not marked released, in the file: neither the cleaner nor a late answer,
\* a timeout or a crash takes it away.
HeldIsReserved ==
    \A k \in Keys : held[k] # NoIP => Active(disk, k) /\ disk.entries[k].ip = held[k]

\* Once a DEL has been answered, none of the owner's reservations is active:
\* an ADD whose client gave up cannot reserve behind the DEL's back.
NoLeakAfterDel == \A o \in gone : \A k \in KeysOf(o) : ~Active(disk, k)

\* A client that asked for static addresses and got anything got all of them.
RequestedOrNothing ==
    \A o \in Owners :
        (\E k \in KeysOf(o) : held[k] # NoIP) =>
            \A i \in DOMAIN Request[o].ips : \E k \in KeysOf(o) : held[k] = Request[o].ips[i]

\* Every request is answered, unless the daemon dies first: a goroutine that
\* serves one is free again some time, whatever the others and the cleaner do
\* with the lock of the store.
EveryCallEnds == \A w \in Workers : []<>(call[w].pc = "idle")

\* When nothing fails any more, no reservation of a Pod that is gone stays in
\* the store file for good, even if a Pod of the same name has taken its place.
\* (A Pod that is gone does not come back: its reservation leaves the file.)
StaleIsReclaimed ==
    FaultsEnd =>
        \A k \in Keys :
            []<>~(/\ Present(disk, k) /\ k[2] \in HasUID
                  /\ PodOf[k[2]] \notin unborn /\ ~Alive(k[2]))
=============================================================================
