-------------------------- MODULE NodeDaemonProofs --------------------------
(***************************************************************************)
(* What the operations of the store preserve; every step of callers, Pods, *)
(* process, handlers and cleaner keeps Inv, which is therefore an          *)
(* inductive invariant of NodeDaemon; and what follows from it: a client   *)
(* gets all the addresses it asks for or none, the open session of the     *)
(* store changes the file only as it may, and the daemon implements the    *)
(* lease table of LeaseTable.                                              *)
(***************************************************************************)
EXTENDS NodeDaemonInv, NodeDaemonLeases, TLAPS
-----------------------------------------------------------------------------
(***************************************************************************)
(* What the operations of a store session preserve, for every set of       *)
(* pools, owners and addresses and every cooldown.                         *)
(***************************************************************************)

\* The empty store is well typed, well formed and without duplicates.
LEMMA NewRootLemma == NewRoot \in Root /\ UniqueIPs(NewRoot) /\ WellFormed(NewRoot)
  BY CooldownAssumption, Zenon DEF NewRoot, Root, Reservation, Absent, UniqueIPs, WellFormed, Present

\* An address that is held is in the store.
LEMMA HoldsPresent ==
  ASSUME NEW d, NEW k, NEW a, Holds(d, k, a), a # NoIP
  PROVE  Present(d, k)
  BY DEF Holds, Present

\* The owner of a key.
LEMMA SecondOfPair ==
  ASSUME NEW p, NEW o
  PROVE  <<p, o>>[2] = o
  OBVIOUS

\* Dropping addresses from a store, without moving any, keeps them unique.
LEMMA ShrinkLemma ==
  ASSUME NEW d, NEW e, UniqueIPs(d),
         \A k \in Keys : e.entries[k].ip \in {d.entries[k].ip, NoIP}
  PROVE  UniqueIPs(e)
  BY Zenon DEF UniqueIPs, Present

\* session.Reserve adds the one entry; its error check keeps addresses
\* unique, against active and against released entries.
LEMMA ReserveLemma ==
  ASSUME NEW d \in Root, NEW k \in Keys, NEW a \in Addrs, NEW l \in Addrs \cup {NoIP},
         ReserveErr(d, k, a) = "ok"
  PROVE  /\ Reserve(d, k, a, l) \in Root
         /\ ~Present(d, k)
         /\ Reserve(d, k, a, l).entries[k] = [ip |-> a, age |-> NotReleased]
         /\ \A j \in Keys : j # k => Reserve(d, k, a, l).entries[j] = d.entries[j]
         /\ \A j \in Keys : j[1] = k[1] /\ Present(d, j) => d.entries[j].ip # a
         /\ UniqueIPs(d) => UniqueIPs(Reserve(d, k, a, l))
         /\ WellFormed(d) => WellFormed(Reserve(d, k, a, l))
<1> DEFINE e == Reserve(d, k, a, l)
<1>1. k[1] \in PoolKeys
  BY Zenon DEF Keys
<1>2. e \in Root
  BY <1>1, Zenon DEF Reserve, Root, Reservation
<1>3. ~Present(d, k) /\ a \notin ReservedIPs(d, k[1])
  BY Zenon DEF ReserveErr
<1>4. \A j \in Keys : j[1] = k[1] /\ Present(d, j) => d.entries[j].ip # a
  BY <1>3, Zenon DEF ReservedIPs
<1>5. /\ e.entries[k] = [ip |-> a, age |-> NotReleased]
      /\ \A j \in Keys : j # k => e.entries[j] = d.entries[j]
  BY Zenon DEF Reserve, Root
<1>6. UniqueIPs(d) => UniqueIPs(e)
  BY <1>3, <1>4, <1>5 DEF UniqueIPs, Present
<1>7. WellFormed(d) => WellFormed(e)
  BY <1>5, AddrsAssumption DEF WellFormed, NoIP
<1> QED
  BY <1>2, <1>3, <1>4, <1>5, <1>6, <1>7, Zenon

\* ReleaseReservationByID on one entry: it never changes the address, and
\* whatever it leaves is not active.
LEMMA AfterReleaseLemma ==
  ASSUME NEW r \in Reservation
  PROVE  /\ AfterRelease(r) \in Reservation
         /\ AfterRelease(r).ip \in {r.ip, NoIP}
         /\ AfterRelease(r).ip # NoIP => IsReleased(AfterRelease(r))
         /\ AfterRelease(r).ip = NoIP => AfterRelease(r) = Absent \/ AfterRelease(r) = r
  BY CooldownAssumption
     DEF AfterRelease, Reservation, Absent, IsReleased, NotReleased, Expired

\* ReleaseReservationByID on a set of keys leaves none of them active and
\* touches no other one.
LEMMA ReleaseAllLemma ==
  ASSUME NEW d \in Root, NEW K
  PROVE  /\ ReleaseAll(d, K) \in Root
         /\ \A k \in Keys : k \notin K => ReleaseAll(d, K).entries[k] = d.entries[k]
         /\ \A k \in Keys : k \in K => ReleaseAll(d, K).entries[k] = AfterRelease(d.entries[k])
         /\ \A k \in Keys : k \in K => ~Active(ReleaseAll(d, K), k)
         /\ \A k \in Keys : ReleaseAll(d, K).entries[k].ip \in {d.entries[k].ip, NoIP}
         /\ UniqueIPs(d) => UniqueIPs(ReleaseAll(d, K))
         /\ WellFormed(d) => WellFormed(ReleaseAll(d, K))
<1> DEFINE e == ReleaseAll(d, K)
<1>1. \A k \in Keys : d.entries[k] \in Reservation
  BY Zenon DEF Root
<1>2. e.entries = [k \in Keys |-> IF k \in K THEN AfterRelease(d.entries[k]) ELSE d.entries[k]]
  BY Zenon DEF ReleaseAll, Root
<1>3. \A k \in Keys : e.entries[k] \in Reservation
  BY <1>1, <1>2, AfterReleaseLemma, Zenon
<1>4. e \in Root
  BY <1>2, <1>3, Zenon DEF ReleaseAll, Root
<1>5. \A k \in Keys : e.entries[k].ip \in {d.entries[k].ip, NoIP}
  BY <1>1, <1>2, AfterReleaseLemma, Zenon
<1>6. \A k \in Keys : k \in K => ~Active(e, k)
  BY <1>1, <1>2, AfterReleaseLemma DEF Active, Present
<1>7. UniqueIPs(d) => UniqueIPs(e)
  BY <1>5, ShrinkLemma, Zenon
<1>8. WellFormed(d) => WellFormed(e)
  BY <1>1, <1>2, AfterReleaseLemma, Zenon DEF WellFormed
<1> HIDE DEF e
<1> QED
  BY <1>2, <1>4, <1>5, <1>6, <1>7, <1>8, Zenon DEF e

\* RemovePool forgets the reservations of its pool and no other one.
LEMMA RemovePoolsLemma ==
  ASSUME NEW d \in Root, NEW P
  PROVE  /\ RemovePools(d, P) \in Root
         /\ \A k \in Keys : k[1] \notin P => RemovePools(d, P).entries[k] = d.entries[k]
         /\ \A k \in Keys : k[1] \in P => RemovePools(d, P).entries[k] = Absent
         /\ UniqueIPs(d) => UniqueIPs(RemovePools(d, P))
         /\ WellFormed(d) => WellFormed(RemovePools(d, P))
<1> DEFINE e == RemovePools(d, P)
<1>1. e \in Root
  BY CooldownAssumption, Zenon DEF RemovePools, Root, Reservation, Absent
<1>2. \A k \in Keys : e.entries[k] = IF k[1] \in P THEN Absent ELSE d.entries[k]
  BY Zenon DEF RemovePools
<1>3. UniqueIPs(d) => UniqueIPs(e)
  BY <1>2, ShrinkLemma DEF Absent
<1> HIDE DEF e
<1> QED
  BY <1>1, <1>2, <1>3, Zenon DEF e, WellFormed

\* The passing of time changes no address and releases nothing.
LEMMA OlderLemma ==
  ASSUME NEW r \in Reservation
  PROVE  /\ Older(r) \in Reservation
         /\ Older(r).ip = r.ip
         /\ IsReleased(Older(r)) <=> IsReleased(r)
         /\ ~IsReleased(r) => Older(r) = r
  BY CooldownAssumption DEF Older, Reservation, IsReleased, NotReleased

\* The same for a whole store.
LEMMA AgedLemma ==
  ASSUME NEW d \in Root
  PROVE  /\ Aged(d) \in Root
         /\ \A k \in Keys : Aged(d).entries[k] = Older(d.entries[k])
         /\ \A k \in Keys : Present(Aged(d), k) <=> Present(d, k)
         /\ \A k \in Keys : Active(Aged(d), k) <=> Active(d, k)
         /\ \A k \in Keys : ~IsReleased(d.entries[k]) => Aged(d).entries[k] = d.entries[k]
         /\ UniqueIPs(d) => UniqueIPs(Aged(d))
         /\ WellFormed(d) => WellFormed(Aged(d))
<1> DEFINE e == Aged(d)
<1>1. \A k \in Keys : d.entries[k] \in Reservation
  BY Zenon DEF Root
<1>2. e.entries = [k \in Keys |-> Older(d.entries[k])]
  BY Zenon DEF Aged, Root
<1>3. e \in Root
  BY <1>1, <1>2, OlderLemma, Zenon DEF Aged, Root
<1>4. \A k \in Keys : /\ e.entries[k].ip = d.entries[k].ip
                      /\ IsReleased(e.entries[k]) <=> IsReleased(d.entries[k])
                      /\ ~IsReleased(d.entries[k]) => e.entries[k] = d.entries[k]
  BY <1>1, <1>2, OlderLemma
<1>5. UniqueIPs(d) => UniqueIPs(e)
  BY <1>4, ShrinkLemma, Zenon
<1>6. WellFormed(d) => WellFormed(e)
  BY <1>4 DEF WellFormed, Absent, IsReleased
<1> HIDE DEF e
<1> QED
  BY <1>2, <1>3, <1>4, <1>5, <1>6, Zenon DEF e, Present, Active
-----------------------------------------------------------------------------
(***************************************************************************)
(* The environment.                                                        *)
(***************************************************************************)

\* A free handler goroutine is well typed.
LEMMA IdleLemma == Idle \in CallType /\ NothingGot \in [PoolKeys -> Addrs \cup {NoIP}]
  BY Zenon DEF Idle, CallType, Errors, NothingGot

\* The keys an owner's request is about.
LEMMA KeysOfLemma ==
  ASSUME NEW o \in Owners
  PROVE  /\ KeysOf(o) \subseteq Keys
         /\ \A k \in KeysOf(o) : k[2] = o
         /\ \A i \in DOMAIN Request[o].pools : /\ Request[o].pools[i] \in PoolKeys
                                               /\ <<Request[o].pools[i], o>> \in KeysOf(o)
<1>1. Request[o].pools \in Seq(PoolKeys)
  BY RequestAssumption, Zenon
<1>2. \A i \in DOMAIN Request[o].pools : Request[o].pools[i] \in PoolKeys
  BY <1>1
<1> QED
  BY <1>2 DEF KeysOf, Keys

\* The initial state satisfies the invariant.
LEMMA InitInv == Init => Inv
<1> SUFFICES ASSUME Init PROVE Inv
  OBVIOUS
<1> USE DEF Init
<1>1. TypeOK
  <2>1. call \in [Workers -> CallType]
    BY IdleLemma, Zenon
  <2>2. stale \in [Keys -> 0 .. CheckCount + 1]
    BY CheckCountAssumption
  <2> QED
    BY <2>1, <2>2, NewRootLemma, Zenon DEF TypeOK
<1>2. SessionInv
  BY NoneAssumption, Zenon DEF SessionInv, Idle
<1>3. StoreInv
  BY NewRootLemma, Zenon DEF StoreInv
<1>4. CallInv
  BY Zenon DEF CallInv, Idle
<1>5. AddInv
  BY Zenon DEF AddInv, Passed, Idle
<1>6. PodInv
  BY PodsAssumption, NoneAssumption, Zenon DEF PodInv, Alive, NewRoot, Present, Absent, Idle, Keys
<1>7. HeldInv
  BY Zenon DEF HeldInv, Granted, Idle
<1>8. DelInv
  BY Zenon DEF DelInv, Idle
<1>9. GoneInv
  BY Zenon DEF GoneInv, Deleted, Idle
<1> QED
  BY <1>1, <1>2, <1>3, <1>4, <1>5, <1>6, <1>7, <1>8, <1>9, Zenon DEF Inv

\* The pool manager and the informer cache are in no conjunct but the type.
LEMMA ViewFrame ==
  ASSUME Inv, TypeOK',
         UNCHANGED <<disk, up, persisted, lock, tmp, call, scan, stale, api, unborn, held, gone>>
  PROVE  Inv'
<1>1. SessionInv' /\ StoreInv' /\ CallInv' /\ AddInv'
  BY ZenonT(30) DEF Inv, SessionInv, StoreInv, CallInv, AddInv, Passed
<1>2. PodInv' /\ HeldInv' /\ DelInv' /\ GoneInv'
  BY ZenonT(30) DEF Inv, PodInv, HeldInv, DelInv, GoneInv, Alive, Granted, Deleted, Passed
<1> QED
  BY <1>1, <1>2, Zenon DEF Inv

\* Configuration changes touch no other state.
LEMMA UpdatePoolStep ==
  ASSUME Inv, NEW p \in PoolKeys, NEW c \in AllConfigs \cup {None}, UpdatePool(p, c)
  PROVE  Inv'
<1>1. TypeOK'
  BY Zenon DEF UpdatePool, Inv, TypeOK
<1> QED
  BY <1>1, ViewFrame, Zenon DEF UpdatePool

\* RunNodeDaemon: the store is loaded from the file as it is.
LEMMA StartStep ==
  ASSUME Inv, Start
  PROVE  Inv'
<1> USE DEF Start, Inv
<1>1. TypeOK'
  BY Zenon DEF TypeOK
<1>2. SessionInv' /\ StoreInv' /\ CallInv' /\ AddInv'
  BY ZenonT(60) DEF SessionInv, StoreInv, CallInv, AddInv, Passed
<1>3. PodInv' /\ HeldInv' /\ DelInv' /\ GoneInv'
  BY ZenonT(30) DEF PodInv, HeldInv, DelInv, GoneInv, Alive, Granted, Deleted, Passed
<1> QED
  BY <1>1, <1>2, <1>3, Zenon

\* A crash loses only memory: sessions, calls, counters and configurations.
LEMMA CrashStep ==
  ASSUME Inv, Crash
  PROVE  Inv'
<1> USE DEF Crash, Inv
<1>1. TypeOK'
  <2>1. call' \in [Workers -> CallType]
    BY IdleLemma, Zenon
  <2>2. stale' \in [Keys -> 0 .. CheckCount + 1]
    BY CheckCountAssumption, SMTT(30)
  <2> QED
    BY <2>1, <2>2, NewRootLemma, Zenon DEF TypeOK
<1>2. SessionInv' /\ StoreInv' /\ CallInv'
  BY NewRootLemma, NoneAssumption, ZenonT(30) DEF SessionInv, StoreInv, CallInv, Idle
<1>3. AddInv' /\ DelInv'
  BY Zenon DEF AddInv, DelInv, Passed, Idle
<1>4. PodInv'
  BY ZenonT(30) DEF PodInv, Alive, Idle, NewRoot, Present, Absent
<1>5. HeldInv'
  BY ZenonT(30) DEF HeldInv, Granted, Idle
<1>6. GoneInv'
  BY ZenonT(30) DEF GoneInv, Deleted, Idle, Passed
<1> QED
  BY <1>1, <1>2, <1>3, <1>4, <1>5, <1>6, Zenon

\* Time changes no address and no active reservation.
LEMMA TickStep ==
  ASSUME Inv, Tick
  PROVE  Inv'
<1> USE DEF Tick, Inv
<1>1. disk \in Root /\ persisted \in Root /\ tmp \in Root
  BY Zenon DEF TypeOK
<1>2. disk' \in Root /\ persisted' \in Root /\ tmp' \in Root
  BY <1>1, AgedLemma, Zenon
<1>3. TypeOK'
  BY <1>2, Zenon DEF TypeOK
<1>4. SessionInv' /\ CallInv'
  BY Zenon DEF SessionInv, CallInv, Passed
<1>5. StoreInv'
  BY <1>1, AgedLemma, Zenon DEF StoreInv
<1>6. \A k \in Keys : /\ Present(disk', k) <=> Present(disk, k)
                      /\ Present(tmp', k) <=> Present(tmp, k)
                      /\ Active(disk', k) <=> Active(disk, k)
                      /\ Active(tmp', k) <=> Active(tmp, k)
  BY <1>1, AgedLemma, Zenon
<1>7. \A k \in Keys : \A a : /\ Holds(disk, k, a) => Holds(disk', k, a)
                             /\ Holds(tmp, k, a) => Holds(tmp', k, a)
  BY <1>1, AgedLemma DEF Holds, IsReleased
<1>8. \A o \in Owners : KeysOf(o) \subseteq Keys
  BY KeysOfLemma, Zenon
<1>9. AddInv'
  BY <1>7, <1>8, ZenonT(30) DEF AddInv, Passed, CallInv, KeysOf
<1>10. PodInv'
  BY <1>6, Zenon DEF PodInv, Alive
<1>11. HeldInv'
  BY <1>7, Zenon DEF HeldInv, Granted, Alive
<1>12. DelInv' /\ GoneInv'
  BY <1>6, <1>8, ZenonT(60) DEF DelInv, GoneInv, Deleted, Passed, CallInv
<1> QED
  BY <1>3, <1>4, <1>5, <1>9, <1>10, <1>11, <1>12, Zenon

\* A new Pod has left no traces yet.
LEMMA PodCreateStep ==
  ASSUME Inv, NEW pod \in Pods, PodCreate(pod)
  PROVE  Inv'
<1> USE DEF PodCreate, Inv
<1>1. TypeOK'
  BY PodsAssumption, Zenon DEF TypeOK
<1>2. SessionInv' /\ StoreInv' /\ CallInv' /\ AddInv'
  BY ZenonT(30) DEF SessionInv, StoreInv, CallInv, AddInv, Passed
<1>3. \A o \in Owners : Alive(o)' => Alive(o) \/ PodOf[o] \in unborn
  BY PodsAssumption, Zenon DEF Alive, TypeOK
<1>4. \A o \in Owners : Alive(o) => Alive(o)'
  BY PodsAssumption, NoneAssumption, Zenon DEF Alive, TypeOK
<1>5. PodInv'
  BY <1>3, <1>4, PodsAssumption, Zenon DEF PodInv, TypeOK, Keys
<1>6. HeldInv'
  BY <1>3, ZenonT(30) DEF HeldInv, Granted, PodInv, CallInv
<1>7. DelInv' /\ GoneInv'
  BY Zenon DEF DelInv, GoneInv, Deleted, Passed
<1> QED
  BY <1>1, <1>2, <1>5, <1>6, <1>7, Zenon

\* A deleted Pod holds no address any more.
LEMMA PodDeleteStep ==
  ASSUME Inv, NEW n \in Names, PodDelete(n)
  PROVE  Inv'
<1> USE DEF PodDelete, Inv
<1>1. TypeOK'
  BY Zenon DEF TypeOK
<1>2. SessionInv' /\ StoreInv' /\ CallInv' /\ AddInv'
  BY ZenonT(30) DEF SessionInv, StoreInv, CallInv, AddInv, Passed
<1>3. \A o \in Owners : Alive(o)' => Alive(o)
  BY PodsAssumption, NoneAssumption DEF Alive, TypeOK
<1>4. \A o \in Owners : Alive(o) /\ PodOf[o] # api[n] => Alive(o)'
  BY PodsAssumption, NoneAssumption, Zenon DEF Alive, TypeOK
<1>5. \A k \in Keys : held'[k] # NoIP => held'[k] = held[k] /\ PodOf[k[2]] # api[n]
  BY ZenonT(30)
<1>6. PodInv'
  BY <1>3, <1>4, <1>5, PodsAssumption, Zenon DEF PodInv, TypeOK, Keys
<1>7. HeldInv'
  BY <1>3, <1>5, Zenon DEF HeldInv, Granted, CallInv
<1>8. DelInv' /\ GoneInv'
  BY <1>5, Zenon DEF DelInv, GoneInv, Deleted, Passed
<1> QED
  BY <1>1, <1>2, <1>6, <1>7, <1>8, Zenon

\* The informer cache is in no conjunct of the invariant but the type.
LEMMA CacheSyncStep ==
  ASSUME Inv, NEW n \in Names, CacheSync(n)
  PROVE  Inv'
<1>1. TypeOK'
  BY Zenon DEF CacheSync, Inv, TypeOK
<1> QED
  BY <1>1, ViewFrame, Zenon DEF CacheSync

\* Steps of one call keep what the other calls' sessions hold.
LEMMA AddFrame ==
  ASSUME AddInv, NEW w \in Workers, tmp' = tmp,
         \A v \in Workers : v # w => call'[v] = call[v],
         Passed(w)' => call'[w].op # "ADD"
  PROVE  AddInv'
<1> SUFFICES ASSUME NEW v \in Workers, Passed(v)', call'[v].op = "ADD"
             PROVE  \A j \in DOMAIN Request[call'[v].owner].pools :
                      LET p == Request[call'[v].owner].pools[j]
                      IN (j < call'[v].i \/ call'[v].pc = "close") =>
                           /\ call'[v].got[p] # NoIP
                           /\ Holds(tmp', <<p, call'[v].owner>>, call'[v].got[p])
  BY Zenon DEF AddInv
<1>1. v # w /\ call'[v] = call[v]
  OBVIOUS
<1>2. Passed(v)
  BY <1>1, Zenon DEF Passed
<1> QED
  BY <1>1, <1>2, ZenonT(30) DEF AddInv

\* Clients can only lose addresses, and no new answers are on their way.
LEMMA HeldFrame ==
  ASSUME HeldInv, disk' = disk, tmp' = tmp, lock' = lock,
         \A k \in Keys : held'[k] = held[k] \/ held'[k] = NoIP,
         \A v \in Workers, k \in Keys :
             Granted(v, k)' => Granted(v, k) /\ call'[v].got = call[v].got
  PROVE  HeldInv'
<1>1. ASSUME NEW k \in Keys, held'[k] # NoIP
      PROVE  Holds(disk', k, held'[k]) /\ (lock' # None => Holds(tmp', k, held'[k]))
  <2>1. held'[k] = held[k] /\ held[k] # NoIP
    BY <1>1, ZenonT(30)
  <2> QED
    BY <2>1, Zenon DEF HeldInv
<1>2. ASSUME NEW v \in Workers, NEW k \in Keys, Granted(v, k)'
      PROVE  /\ call'[v].got[k[1]] # NoIP
             /\ Holds(disk', k, call'[v].got[k[1]])
             /\ lock' # None => Holds(tmp', k, call'[v].got[k[1]])
  <2>1. Granted(v, k) /\ call'[v].got = call[v].got
    BY <1>2, Zenon
  <2> QED
    BY <2>1, Zenon DEF HeldInv
<1> QED
  BY <1>1, <1>2, ZenonT(30) DEF HeldInv

\* A new call waits for the lock; a DEL takes the addresses from its client.
LEMMA ArriveStep ==
  ASSUME Inv, NEW w \in Workers, NEW op \in {"ADD", "DEL", "CHECK"}, NEW o \in Owners,
         Arrive(w, op, o)
  PROVE  Inv'
<1> DEFINE c == [pc |-> "open", op |-> op, owner |-> o, i |-> 1, got |-> NothingGot,
                 err |-> "ok", live |-> TRUE]
<1>1. /\ disk' = disk /\ up' = up /\ persisted' = persisted /\ lock' = lock /\ tmp' = tmp
      /\ cfg' = cfg /\ scan' = scan /\ stale' = stale /\ api' = api /\ cache' = cache
      /\ unborn' = unborn /\ up /\ call[w].pc = "idle"
      /\ op = "ADD" => PodOf[o] \notin unborn
  BY Zenon DEF Arrive
<1>2. \A v \in Workers : call[v].live => call[v].owner # o
  BY Zenon DEF Arrive
<1>3. call' = [call EXCEPT ![w] = c]
  BY Zenon DEF Arrive
<1>4. held' = [k \in Keys |-> IF op = "DEL" /\ k[2] = o THEN NoIP ELSE held[k]]
  BY Zenon DEF Arrive
<1>5. gone' = IF op = "ADD" THEN gone \ {o} ELSE gone
  BY Zenon DEF Arrive
<1>6. /\ c \in CallType
      /\ c.pc = "open" /\ c.op = op /\ c.owner = o /\ c.i = 1 /\ c.err = "ok" /\ c.live
  BY IdleLemma, Zenon DEF CallType, Errors
<1> HIDE DEF c
<1>7. /\ call'[w] = c
      /\ \A v \in Workers : v # w => call'[v] = call[v]
      /\ call' \in [Workers -> CallType]
  BY <1>3, <1>6, Zenon DEF Inv, TypeOK
<1>8. /\ \A k \in Keys : held'[k] = held[k] \/ held'[k] = NoIP
      /\ op = "DEL" => \A k \in Keys : k[2] = o => held'[k] = NoIP
  BY <1>4, Zenon
<1>9. /\ ~Passed(w)' /\ \A v \in Workers : v # w => (Passed(v)' <=> Passed(v))
  BY <1>6, <1>7, Zenon DEF Passed
<1>10. TypeOK'
  <2>1. held' \in [Keys -> Addrs \cup {NoIP}] /\ gone' \in SUBSET Owners
    BY <1>4, <1>5, Zenon DEF Inv, TypeOK
  <2> QED
    BY <1>1, <1>7, <2>1, Zenon DEF Inv, TypeOK
<1>11. SessionInv'
  BY <1>1, <1>6, <1>7, Zenon DEF Inv, SessionInv
<1>12. StoreInv'
  BY <1>1, Zenon DEF Inv, StoreInv
<1>13. CallInv'
  <2>1. 1 \in DOMAIN Request[o].pools
    BY RequestAssumption
  <2> QED
    BY <1>2, <1>6, <1>7, <1>9, <2>1 DEF Inv, CallInv
<1>14. AddInv'
  BY <1>1, <1>7, <1>9, AddFrame, Zenon DEF Inv
<1>15. PodInv'
  <2>1. \A x : Alive(x)' <=> Alive(x)
    BY <1>1, Zenon DEF Alive
  <2>2. \A v \in Workers : call'[v].op = "ADD" => PodOf[call'[v].owner] \notin unborn
    BY <1>1, <1>6, <1>7, Zenon DEF Inv, PodInv
  <2>3. \A k \in Keys : held'[k] # NoIP => Alive(k[2])
    BY <1>8, Zenon DEF Inv, PodInv
  <2> QED
    BY <1>1, <2>1, <2>2, <2>3, ZenonT(30) DEF Inv, PodInv
<1>16. HeldInv'
  <2>1. ASSUME NEW v \in Workers, NEW k \in Keys, Granted(v, k)'
        PROVE  Granted(v, k) /\ call'[v].got = call[v].got
    <3>1. v # w /\ call'[v] = call[v]
      BY <1>6, <1>7, <2>1, Zenon DEF Granted
    <3> QED
      BY <1>1, <2>1, <3>1, Zenon DEF Granted, Alive
  <2> QED
    BY <1>1, <1>8, <2>1, HeldFrame, Zenon DEF Inv
<1>17. DelInv'
  <2>1. ASSUME NEW v \in Workers, call'[v].op = "DEL", NEW k \in Keys, k[2] = call'[v].owner,
               Passed(v)' \/ (call'[v].pc = "open" /\ call'[v].live)
        PROVE  held'[k] = NoIP
    <3>1. CASE v = w
      BY <1>6, <1>7, <1>8, <2>1, <3>1, ZenonT(30)
    <3>2. CASE v # w
      BY <1>7, <1>8, <1>9, <2>1, <3>2, ZenonT(30) DEF Inv, DelInv
    <3> QED
      BY <3>1, <3>2, Zenon
  <2>2. ASSUME NEW v \in Workers, call'[v].op = "DEL", call'[v].pc = "close", call'[v].err = "ok",
               NEW k \in KeysOf(call'[v].owner)
        PROVE  ~Active(tmp, k)
    <3>1. v # w /\ call'[v] = call[v]
      BY <1>6, <1>7, <2>2, Zenon
    <3> QED
      BY <2>2, <3>1, Zenon DEF Inv, DelInv
  <2> QED
    BY <1>1, <2>1, <2>2, ZenonT(30) DEF DelInv
<1>18. GoneInv'
  <2>1. ASSUME NEW x \in Owners, Deleted(x)'
        PROVE  Deleted(x) /\ ~(op = "ADD" /\ x = o)
    <3>1. CASE x \in gone'
      BY <1>5, <3>1, Zenon DEF Deleted
    <3>2. CASE x \notin gone'
      <4>1. PICK v \in Workers : /\ call'[v].pc = "reply" /\ call'[v].op = "DEL" /\ call'[v].err = "ok"
                                 /\ call'[v].live /\ call'[v].owner = x
        BY <2>1, <3>2, Zenon DEF Deleted
      <4>2. call'[v] = call[v]
        BY <1>6, <1>7, <4>1, ZenonT(30)
      <4> QED
        BY <1>2, <4>1, <4>2, Zenon DEF Deleted
    <3> QED
      BY <3>1, <3>2, Zenon
  <2>2. ASSUME NEW x \in Owners, Deleted(x)', NEW v \in Workers, call'[v].op = "ADD", call'[v].owner = x
        PROVE  ~Passed(v)' /\ ~call'[v].live
    <3>1. v # w /\ call'[v] = call[v] /\ Deleted(x)
      BY <1>6, <1>7, <2>1, <2>2, Zenon
    <3> QED
      BY <1>9, <2>2, <3>1, Zenon DEF Inv, GoneInv
  <2>3. ASSUME NEW x \in Owners, Deleted(x)', NEW k \in KeysOf(x)
        PROVE  ~Active(disk, k) /\ (lock # None => ~Active(tmp, k))
    BY <2>1, <2>3, Zenon DEF Inv, GoneInv
  <2> QED
    BY <1>1, <2>2, <2>3, ZenonT(30) DEF GoneInv
<1> QED
  BY <1>10, <1>11, <1>12, <1>13, <1>14, <1>15, <1>16, <1>17, <1>18, Zenon DEF Inv

\* A call that is given up cannot answer its client any more.
LEMMA ClientTimeoutStep ==
  ASSUME Inv, NEW w \in Workers, ClientTimeout(w)
  PROVE  Inv'
<1> USE DEF ClientTimeout, Inv
<1>1. TypeOK'
  <2>1. call[w] \in CallType
    BY Zenon DEF TypeOK
  <2>2. [call[w] EXCEPT !.live = FALSE] \in CallType
    BY <2>1, ZenonT(30) DEF CallType
  <2> QED
    BY <2>2, Zenon DEF TypeOK
<1>2. /\ call'[w] = [call[w] EXCEPT !.live = FALSE]
      /\ \A v \in Workers : v # w => call'[v] = call[v]
      /\ call[w] \in CallType
  BY Zenon DEF TypeOK
<1>3. /\ call'[w].pc = call[w].pc /\ call'[w].op = call[w].op /\ call'[w].i = call[w].i
      /\ call'[w].owner = call[w].owner /\ call'[w].err = call[w].err
      /\ call'[w].got = call[w].got /\ ~call'[w].live
  BY <1>2 DEF CallType
<1>4. call[w].pc # "idle"
  BY DEF CallInv, Idle
<1>5. SessionInv'
  BY <1>2, <1>3, <1>4 DEF SessionInv, Idle
<1>6. StoreInv'
  BY Zenon DEF StoreInv
<1>7. CallInv'
  BY <1>2, <1>3, <1>4 DEF CallInv, Passed
<1>8. AddInv'
  <2> SUFFICES ASSUME NEW v \in Workers, Passed(v)', call'[v].op = "ADD"
               PROVE  \A j \in DOMAIN Request[call'[v].owner].pools :
                        LET p == Request[call'[v].owner].pools[j]
                        IN (j < call'[v].i \/ call'[v].pc = "close") =>
                             /\ call'[v].got[p] # NoIP
                             /\ Holds(tmp', <<p, call'[v].owner>>, call'[v].got[p])
    BY Zenon DEF AddInv
  <2>1. Passed(v) /\ call[v].op = "ADD"
    BY <1>2, <1>3, ZenonT(60) DEF Passed
  <2>2. /\ call'[v].owner = call[v].owner /\ call'[v].i = call[v].i
        /\ call'[v].pc = call[v].pc /\ call'[v].got = call[v].got /\ tmp' = tmp
    BY <1>2, <1>3, Zenon
  <2> QED
    BY <2>1, <2>2, ZenonT(30) DEF AddInv
<1>9. PodInv'
  BY <1>2, <1>3 DEF PodInv, Alive
<1>10. HeldInv'
  <2>1. \A v \in Workers, k \in Keys : Granted(v, k)' => Granted(v, k) /\ call'[v].got = call[v].got
    BY <1>2, <1>3, Zenon DEF Granted, Alive
  <2> QED
    BY <2>1, HeldFrame, Zenon
<1>11. DelInv'
  BY <1>2, <1>3 DEF DelInv, Passed
<1>12. GoneInv'
  BY <1>2, <1>3, SMTT(30) DEF GoneInv, Deleted, Passed
<1> QED
  BY <1>1, <1>5, <1>6, <1>7, <1>8, <1>9, <1>10, <1>11, <1>12, Zenon

\* Only the holder of the lock has a session.
LEMMA LockLemma ==
  ASSUME Inv, NEW w \in Workers
  PROVE  /\ lock # w => ~Passed(w) /\ call[w].pc \notin {"run", "close"}
         /\ call[w].pc # "idle" => up /\ persisted = disk
         /\ call[w] \in CallType
  BY DEF Inv, SessionInv, Passed, Idle, TypeOK
-----------------------------------------------------------------------------
(***************************************************************************)
(* The steps of a handler that open, read, release, close and answer keep  *)
(* Inv.                                                                    *)
(***************************************************************************)

\* An ADD that is answered hands out what the file has for its client.
LEMMA ReplyStep ==
  ASSUME Inv, NEW w \in Workers, Reply(w)
  PROVE  Inv'
<1> DEFINE c == call[w]
<1>1. c.owner \in Owners /\ c \in CallType /\ c.pc = "reply"
  BY Zenon DEF Reply, Inv, CallInv, TypeOK
<1>2. call' = [call EXCEPT ![w] = Idle]
  BY Zenon DEF Reply
<1>3. /\ disk' = disk /\ up' = up /\ persisted' = persisted /\ lock' = lock /\ tmp' = tmp
      /\ cfg' = cfg /\ scan' = scan /\ stale' = stale /\ api' = api /\ cache' = cache
      /\ unborn' = unborn
  BY Zenon DEF Reply
<1>4. /\ call'[w] = Idle
      /\ \A v \in Workers : v # w => call'[v] = call[v]
      /\ call' \in [Workers -> CallType]
  BY <1>2, IdleLemma, ZenonT(30) DEF Inv, TypeOK
<1>5. /\ held' \in [Keys -> Addrs \cup {NoIP}]
      /\ gone' \in SUBSET Owners
  BY <1>1, Zenon DEF Reply, Inv, TypeOK, CallType, Keys
<1>6. \A k \in Keys : held'[k] # held[k] =>
        Granted(w, k) /\ held'[k] = c.got[k[1]] /\ k[2] = c.owner
  BY <1>1, KeysOfLemma, ZenonT(30) DEF Reply, Granted, Inv, TypeOK
<1>7. \A o \in gone' : o \in gone \/ (c.live /\ c.err = "ok" /\ c.op = "DEL" /\ o = c.owner)
  BY ZenonT(30) DEF Reply
<1> HIDE DEF c
<1>8. /\ call'[w].pc = "idle" /\ call'[w].op = "none" /\ ~call'[w].live
      /\ ~Passed(w)'
  BY <1>4 DEF Idle, Passed
<1>9. \A v \in Workers : v # w => (Passed(v)' <=> Passed(v))
  BY <1>4, Zenon DEF Passed
<1>10. TypeOK'
  BY <1>3, <1>4, <1>5, Zenon DEF Inv, TypeOK
<1>11. SessionInv'
  <2>1. up /\ c = call[w]
    BY <1>1, LockLemma, ZenonT(30) DEF c
  <2>2. \A v \in Workers : call'[v].pc \in {"run", "close"} <=> call[v].pc \in {"run", "close"}
    BY <1>1, <1>4, <1>8, <2>1, Zenon
  <2> QED
    BY <1>3, <2>1, <2>2, Zenon DEF Inv, SessionInv
<1>12. StoreInv'
  BY <1>3, Zenon DEF Inv, StoreInv
<1>13. CallInv'
  BY <1>4, <1>8, <1>9, SMTT(30) DEF Inv, CallInv
<1>14. AddInv'
  BY <1>3, <1>4, <1>8, AddFrame, Zenon DEF Inv
<1>15. PodInv'
  <2>1. \A o : Alive(o)' <=> Alive(o)
    BY <1>3, Zenon DEF Alive
  <2>2. ASSUME NEW k \in Keys, held'[k] # NoIP
        PROVE  Alive(k[2])
    <3>1. CASE held'[k] = held[k]
      BY <2>2, <3>1, Zenon DEF Inv, PodInv
    <3>2. CASE held'[k] # held[k]
      BY <1>6, <3>2, ZenonT(30) DEF Granted, c
    <3> QED
      BY <3>1, <3>2, Zenon
  <2>3. \A v \in Workers : call'[v].op = "ADD" => PodOf[call'[v].owner] \notin unborn
    BY <1>4, <1>8, Zenon DEF Inv, PodInv
  <2> QED
    BY <1>3, <2>1, <2>2, <2>3, ZenonT(30) DEF Inv, PodInv
<1>16. HeldInv'
  <2>1. ASSUME NEW v \in Workers, NEW k \in Keys, Granted(v, k)'
        PROVE  Granted(v, k) /\ call'[v] = call[v]
    <3>1. v # w /\ call'[v] = call[v]
      BY <1>4, <1>8, <2>1, Zenon DEF Granted
    <3> QED
      BY <1>3, <2>1, <3>1, Zenon DEF Granted, Alive
  <2>2. \A k \in Keys : held'[k] # NoIP =>
            Holds(disk, k, held'[k]) /\ (lock # None => Holds(tmp, k, held'[k]))
    BY <1>6, ZenonT(30) DEF Inv, HeldInv, c
  <2>3. ASSUME NEW v \in Workers, NEW k \in Keys, Granted(v, k)'
        PROVE  /\ call'[v].got[k[1]] # NoIP
               /\ Holds(disk, k, call'[v].got[k[1]])
               /\ lock # None => Holds(tmp, k, call'[v].got[k[1]])
    <3>1. Granted(v, k) /\ call'[v] = call[v]
      BY <2>1, <2>3, Zenon
    <3> QED
      BY <3>1, Zenon DEF Inv, HeldInv
  <2> QED
    BY <1>3, <2>2, <2>3, Zenon DEF HeldInv
<1>17. DelInv'
  <2>1. ASSUME NEW v \in Workers, call'[v].op = "DEL", NEW k \in Keys, k[2] = call'[v].owner,
               Passed(v)' \/ (call'[v].pc = "open" /\ call'[v].live)
        PROVE  held'[k] = NoIP
    <3>1. v # w /\ call'[v] = call[v]
      BY <1>4, <1>8, <2>1, Zenon
    <3>2. Passed(v) \/ (call[v].pc = "open" /\ call[v].live)
      BY <1>9, <2>1, <3>1, ZenonT(30)
    <3>3. held[k] = NoIP
      BY <2>1, <3>1, <3>2, ZenonT(30) DEF Inv, DelInv
    <3>4. CASE held'[k] # held[k]
      <4>1. c.live /\ c.pc = "reply" /\ k[2] = c.owner /\ c = call[w]
        BY <1>6, <3>4, Zenon DEF Granted, c
      <4>2. call[v].pc # "idle"
        BY <3>2, Zenon DEF Passed
      <4> QED
        BY <2>1, <3>1, <3>2, <4>1, <4>2, ZenonT(30) DEF Inv, CallInv
    <3> QED
      BY <3>3, <3>4, ZenonT(30)
  <2>2. ASSUME NEW v \in Workers, call'[v].op = "DEL", call'[v].pc = "close", call'[v].err = "ok",
               NEW k \in KeysOf(call'[v].owner)
        PROVE  ~Active(tmp, k)
    <3>1. v # w /\ call'[v] = call[v]
      BY <1>4, <1>8, <2>2, Zenon
    <3> QED
      BY <2>2, <3>1, Zenon DEF Inv, DelInv
  <2> QED
    BY <1>3, <2>1, <2>2, ZenonT(30) DEF DelInv
<1>18. GoneInv'
  <2>1. ASSUME NEW o \in Owners, Deleted(o)'
        PROVE  Deleted(o)
    <3>1. CASE o \in gone'
      BY <1>1, <1>7, <3>1, Zenon DEF Deleted, c
    <3>2. CASE o \notin gone'
      <4>1. PICK v \in Workers : /\ call'[v].pc = "reply" /\ call'[v].op = "DEL" /\ call'[v].err = "ok"
                                 /\ call'[v].live /\ call'[v].owner = o
        BY <2>1, <3>2, Zenon DEF Deleted
      <4>2. call'[v] = call[v]
        BY <1>4, <1>8, <4>1, ZenonT(30)
      <4> QED
        BY <4>1, <4>2, Zenon DEF Deleted
    <3> QED
      BY <3>1, <3>2, Zenon
  <2>2. ASSUME NEW o \in Owners, Deleted(o)', NEW v \in Workers, call'[v].op = "ADD", call'[v].owner = o
        PROVE  ~Passed(v)' /\ ~call'[v].live
    <3>1. v # w /\ call'[v] = call[v] /\ Deleted(o)
      BY <1>4, <1>8, <2>1, <2>2, ZenonT(30)
    <3> QED
      BY <1>9, <2>2, <3>1, ZenonT(30) DEF Inv, GoneInv
  <2>3. ASSUME NEW o \in Owners, Deleted(o)', NEW k \in KeysOf(o)
        PROVE  ~Active(disk, k) /\ (lock # None => ~Active(tmp, k))
    BY <2>1, <2>3, Zenon DEF Inv, GoneInv
  <2> QED
    BY <1>3, <2>2, <2>3, ZenonT(30) DEF GoneInv
<1> QED
  BY <1>10, <1>11, <1>12, <1>13, <1>14, <1>15, <1>16, <1>17, <1>18, ZenonT(30) DEF Inv

\* The conjuncts of the invariant that are alike for all steps a handler
\* takes while it has, gets or returns the store lock.
LEMMA HandlerFrame ==
  ASSUME Inv, NEW w \in Workers,
         lock \in {None, w}, lock' \in {None, w}, call[w].pc # "idle",
         UNCHANGED <<up, cfg, scan, stale, api, cache, unborn, held, gone>>,
         \A v \in Workers : v # w => call'[v] = call[v],
         call' \in [Workers -> CallType],
         call'[w].op = call[w].op, call'[w].owner = call[w].owner,
         call'[w].live = call[w].live,
         call'[w].i \in DOMAIN Request[call[w].owner].pools,
         call'[w].pc \in {"run", "close", "reply"},
         call'[w].pc = "run" => call'[w].err = "ok",
         Passed(w)' => Passed(w) \/ call[w].live,
         call'[w].pc \in {"run", "close"} <=> lock' = w,
         disk' \in Root, persisted' = disk', tmp' \in Root,
         UniqueIPs(disk'), UniqueIPs(tmp'), WellFormed(disk'), WellFormed(tmp'),
         \A k \in Keys : PodOf[k[2]] \in unborn => ~Present(disk', k) /\ ~Present(tmp', k)
  PROVE  /\ TypeOK' /\ SessionInv' /\ StoreInv' /\ CallInv' /\ PodInv'
         /\ \A v \in Workers : v # w => ~Passed(v) /\ ~Passed(v)'
         /\ \A v \in Workers, k \in Keys :
              Granted(v, k)' => v = w \/ (Granted(v, k) /\ call'[v] = call[v])
         /\ \A o \in Owners : Deleted(o)' => Deleted(o) \/
              (call'[w].pc = "reply" /\ call[w].op = "DEL" /\ call'[w].err = "ok"
                 /\ call[w].live /\ call[w].owner = o)
<1> USE DEF Inv
<1>1. \A v \in Workers : v # w => ~Passed(v) /\ call[v].pc \notin {"run", "close"}
  BY LockLemma, NoneAssumption, Zenon
<1>2. \A v \in Workers : v # w => ~Passed(v)'
  BY <1>1, Zenon DEF Passed
<1>3. TypeOK'
  <2>1. lock' \in Workers \cup {Cleaner, None}
    BY ZenonT(30)
  <2> QED
    BY <2>1, ZenonT(30) DEF TypeOK
<1>4. SessionInv'
  <2>1. up /\ lock # Cleaner
    BY LockLemma, CleanerAssumption, NoneAssumption, ZenonT(30)
  <2>2. \A v \in Workers : call'[v].pc \in {"run", "close"} <=> lock' = v
    BY <1>1, NoneAssumption, Zenon
  <2>3. up' /\ persisted' = disk' /\ scan' = {}
    BY <2>1, Zenon DEF SessionInv
  <2> QED
    BY <2>2, <2>3, Zenon DEF SessionInv
<1>5. StoreInv'
  BY ZenonT(30) DEF StoreInv
<1>6. CallInv'
  <2>1. ASSUME NEW v \in Workers
        PROVE  /\ call'[v].pc = "idle" => call'[v] = Idle
               /\ call'[v].pc # "idle" =>
                     /\ call'[v].owner \in Owners
                     /\ call'[v].op \in {"ADD", "DEL", "CHECK"}
                     /\ call'[v].i \in DOMAIN Request[call'[v].owner].pools
               /\ call'[v].pc = "open" => call'[v].i = 1
               /\ call'[v].pc \in {"open", "run"} => call'[v].err = "ok"
    <3>1. CASE v = w
      BY <3>1, ZenonT(30) DEF CallInv
    <3>2. CASE v # w
      <4>1. call'[v] = call[v]
        BY <3>2, Zenon
      <4> QED
        BY <4>1 DEF CallInv
    <3> QED
      BY <3>1, <3>2, ZenonT(30)
  <2>2. ASSUME NEW v \in Workers, NEW u \in Workers, v # u, call'[v].pc # "idle",
               call'[v].owner = call'[u].owner, call'[v].live
        PROVE  ~call'[u].live /\ (Passed(u)' => call'[v].pc = "open")
    <3>1. call[v].pc # "idle" /\ call[v].owner = call[u].owner /\ call[v].live
      BY <2>2, ZenonT(30)
    <3>2. ~call[u].live /\ (Passed(u) => call[v].pc = "open")
      BY <2>2, <3>1, Zenon DEF CallInv
    <3>3. ~call'[u].live
      BY <3>2, Zenon
    <3>4. Passed(u)' => u = w /\ call'[v] = call[v]
      BY <1>2, <2>2, Zenon
    <3> QED
      BY <3>2, <3>3, <3>4, Zenon
  <2> QED
    BY <2>1, <2>2, ZenonT(30) DEF CallInv
<1>7. PodInv'
  <2>1. \A v \in Workers : call'[v].op = call[v].op /\ call'[v].owner = call[v].owner
    BY Zenon
  <2>2. \A o : Alive(o)' <=> Alive(o)
    BY Zenon DEF Alive
  <2> QED
    BY <2>1, <2>2, ZenonT(30) DEF PodInv
<1>8. ASSUME NEW v \in Workers, NEW k \in Keys, Granted(v, k)', v # w
      PROVE  Granted(v, k) /\ call'[v] = call[v]
  <2>1. call'[v] = call[v] /\ api' = api
    BY <1>8, ZenonT(30)
  <2> QED
    BY <1>8, <2>1, ZenonT(30) DEF Granted, Alive
<1>9. ASSUME NEW o \in Owners, Deleted(o)', ~Deleted(o)
      PROVE  call'[w].pc = "reply" /\ call[w].op = "DEL" /\ call'[w].err = "ok"
                 /\ call[w].live /\ call[w].owner = o
  <2>1. o \notin gone'
    BY <1>9, ZenonT(30) DEF Deleted
  <2>2. PICK v \in Workers : /\ call'[v].pc = "reply" /\ call'[v].op = "DEL" /\ call'[v].err = "ok"
                             /\ call'[v].live /\ call'[v].owner = o
    BY <1>9, <2>1, ZenonT(30) DEF Deleted
  <2>3. CASE v # w
    <3>1. call'[v] = call[v]
      BY <2>3, Zenon
    <3> QED
      BY <1>9, <2>2, <3>1, ZenonT(30) DEF Deleted
  <2> QED
    BY <2>2, <2>3, ZenonT(30)
<1> QED
  BY <1>1, <1>2, <1>3, <1>4, <1>5, <1>6, <1>7, <1>8, <1>9, Zenon

\* The session starts as a copy of the file; a given-up call is stopped.
LEMMA OpenStep ==
  ASSUME Inv, NEW w \in Workers, Open(w)
  PROVE  Inv'
<1> DEFINE L == call[w].live
<1>1. /\ call[w] \in CallType /\ call[w].pc = "open" /\ persisted = disk /\ lock = None
      /\ tmp' = disk /\ disk' = disk /\ persisted' = persisted /\ lock' = w
      /\ UNCHANGED <<up, cfg, scan, stale, api, cache, unborn, held, gone>>
  BY LockLemma, Zenon DEF Open, OpenSession
<1>2. /\ call'[w] = [call[w] EXCEPT !.pc = IF ~L THEN "close" ELSE "run",
                                    !.err = IF ~L THEN "Canceled" ELSE "ok"]
      /\ \A v \in Workers : v # w => call'[v] = call[v]
  BY Zenon DEF Inv, TypeOK, Open, Canceled
<1>3. L \in BOOLEAN
  BY <1>1, Zenon DEF CallType
<1>4. /\ call'[w].op = call[w].op /\ call'[w].owner = call[w].owner
      /\ call'[w].i = call[w].i /\ call'[w].live = call[w].live
  BY <1>1, <1>2, Zenon DEF CallType
<1>5. /\ call'[w].pc = IF ~L THEN "close" ELSE "run"
      /\ call'[w].err = IF ~L THEN "Canceled" ELSE "ok"
  BY <1>1, <1>2, Zenon DEF CallType
<1>6. call' \in [Workers -> CallType]
  <2>1. call'[w] \in CallType
    BY <1>1, <1>2, <1>3, ZenonT(30) DEF CallType, Errors
  <2> QED
    BY <2>1, Zenon DEF Inv, TypeOK, Open
<1>7. Passed(w)' <=> L
  BY <1>5, Zenon DEF Passed
<1>8. /\ call[w].owner \in Owners /\ call[w].i = 1
      /\ call[w].i \in DOMAIN Request[call[w].owner].pools
  BY <1>1, Zenon DEF Inv, CallInv
<1>9. /\ disk' \in Root /\ tmp' \in Root /\ persisted' = disk'
      /\ UniqueIPs(disk') /\ UniqueIPs(tmp') /\ WellFormed(disk') /\ WellFormed(tmp')
      /\ \A k \in Keys : PodOf[k[2]] \in unborn => ~Present(disk', k) /\ ~Present(tmp', k)
  BY <1>1, Zenon DEF Inv, TypeOK, StoreInv, PodInv
<1>10. /\ TypeOK' /\ SessionInv' /\ StoreInv' /\ CallInv' /\ PodInv'
       /\ \A v \in Workers : v # w => ~Passed(v) /\ ~Passed(v)'
       /\ \A v \in Workers, k \in Keys :
            Granted(v, k)' => v = w \/ (Granted(v, k) /\ call'[v] = call[v])
       /\ \A o \in Owners : Deleted(o)' => Deleted(o)
  BY <1>1, <1>2, <1>4, <1>5, <1>6, <1>7, <1>8, <1>9, HandlerFrame, Zenon
<1>11. AddInv'
  <2>1. Passed(w)' => call'[w].pc = "run"
    BY <1>5, <1>7, Zenon
  <2>2. \A j \in DOMAIN Request[call[w].owner].pools : ~(j < 1)
    BY <1>8, RequestAssumption
  <2> QED
    BY <1>4, <1>8, <1>10, <2>1, <2>2, Zenon DEF AddInv
<1>12. HeldInv'
  <2>1. \A k \in Keys : ~Granted(w, k)'
    BY <1>5, Zenon DEF Granted
  <2> QED
    BY <1>1, <1>10, <2>1, ZenonT(30) DEF Inv, HeldInv
<1>13. DelInv'
  <2>1. call'[w].op = "DEL" /\ Passed(w)' => \A k \in Keys : k[2] = call'[w].owner => held'[k] = NoIP
    BY <1>1, <1>4, <1>7, ZenonT(30) DEF Inv, DelInv
  <2>2. ~(call'[w].pc = "close" /\ call'[w].err = "ok") /\ call'[w].pc # "open"
    BY <1>5, Zenon
  <2>3. ASSUME NEW v \in Workers, v # w
        PROVE  /\ call'[v] = call[v] /\ ~Passed(v)'
               /\ ~(call'[v].pc = "close" /\ call'[v].err = "ok")
    BY <1>2, <1>10, <2>3, Zenon DEF Passed
  <2> QED
    BY <1>1, <2>1, <2>2, <2>3, ZenonT(30) DEF Inv, DelInv
<1>14. GoneInv'
  <2>1. ASSUME NEW o \in Owners, Deleted(o), NEW v \in Workers, call'[v].op = "ADD", call'[v].owner = o
        PROVE  ~Passed(v)' /\ ~call'[v].live
    <3>1. call[v].op = "ADD" /\ call[v].owner = o /\ call'[v].live = call[v].live
      BY <1>2, <1>4, <2>1, Zenon
    <3> QED
      BY <1>7, <1>10, <2>1, <3>1, Zenon DEF Inv, GoneInv
  <2> QED
    BY <1>1, <1>10, <2>1, Zenon DEF Inv, GoneInv
<1> QED
  BY <1>10, <1>11, <1>12, <1>13, <1>14, Zenon DEF Inv

\* CHECK only reads.
LEMMA IsAllocatedStep ==
  ASSUME Inv, NEW w \in Workers, IsAllocated(w)
  PROVE  Inv'
<1>1. /\ call[w] \in CallType /\ call[w].pc = "run" /\ call[w].op = "CHECK"
      /\ persisted = disk /\ lock = w
      /\ UNCHANGED <<disk, tmp, persisted, lock>>
      /\ UNCHANGED <<up, cfg, scan, stale, api, cache, unborn, held, gone>>
  BY LockLemma, Zenon DEF IsAllocated
<1>2. PICK e \in Errors : call' = [call EXCEPT ![w] = [call[w] EXCEPT !.pc = "close", !.err = e]]
  BY Zenon DEF IsAllocated, Inv, TypeOK, Errors
<1>3. /\ call'[w] = [call[w] EXCEPT !.pc = "close", !.err = e]
      /\ \A v \in Workers : v # w => call'[v] = call[v]
  BY <1>2, Zenon DEF Inv, TypeOK
<1>4. /\ call'[w].op = call[w].op /\ call'[w].owner = call[w].owner
      /\ call'[w].i = call[w].i /\ call'[w].live = call[w].live /\ call'[w].pc = "close"
      /\ call'[w] \in CallType
  BY <1>1, <1>3, ZenonT(30) DEF CallType
<1>5. call' \in [Workers -> CallType]
  BY <1>2, <1>3, <1>4, ZenonT(30) DEF Inv, TypeOK
<1>6. Passed(w)
  BY <1>1, ZenonT(30) DEF Passed
<1>7. /\ call[w].owner \in Owners
      /\ call[w].i \in DOMAIN Request[call[w].owner].pools
  BY <1>1, Zenon DEF Inv, CallInv
<1>8. /\ disk' \in Root /\ tmp' \in Root /\ persisted' = disk'
      /\ UniqueIPs(disk') /\ UniqueIPs(tmp') /\ WellFormed(disk') /\ WellFormed(tmp')
      /\ \A k \in Keys : PodOf[k[2]] \in unborn => ~Present(disk', k) /\ ~Present(tmp', k)
  BY <1>1, Zenon DEF Inv, TypeOK, StoreInv, PodInv
<1>9. /\ TypeOK' /\ SessionInv' /\ StoreInv' /\ CallInv' /\ PodInv'
      /\ \A v \in Workers : v # w => ~Passed(v) /\ ~Passed(v)'
      /\ \A v \in Workers, k \in Keys :
            Granted(v, k)' => v = w \/ (Granted(v, k) /\ call'[v] = call[v])
      /\ \A o \in Owners : Deleted(o)' => Deleted(o)
  BY <1>1, <1>3, <1>4, <1>5, <1>6, <1>7, <1>8, HandlerFrame, ZenonT(30)
<1>10. AddInv'
  BY <1>1, <1>4, <1>9, Zenon DEF AddInv
<1>11. HeldInv'
  <2>1. \A k \in Keys : ~Granted(w, k)'
    BY <1>4, Zenon DEF Granted
  <2> QED
    BY <1>1, <1>9, <2>1, ZenonT(30) DEF Inv, HeldInv
<1>12. DelInv'
  <2>1. ASSUME NEW v \in Workers, v # w
        PROVE  /\ call'[v] = call[v] /\ ~Passed(v)'
               /\ ~(call'[v].pc = "close" /\ call'[v].err = "ok")
    BY <1>3, <1>9, <2>1, Zenon DEF Passed
  <2> QED
    BY <1>1, <1>4, <2>1, ZenonT(30) DEF Inv, DelInv
<1>13. GoneInv'
  <2>1. ASSUME NEW o \in Owners, Deleted(o), NEW v \in Workers, call'[v].op = "ADD", call'[v].owner = o
        PROVE  ~Passed(v)' /\ ~call'[v].live
    <3>1. v # w /\ call'[v] = call[v]
      BY <1>1, <1>3, <1>4, <2>1, Zenon
    <3> QED
      BY <1>9, <2>1, <3>1, Zenon DEF Inv, GoneInv
  <2> QED
    BY <1>1, <1>9, <2>1, ZenonT(30) DEF Inv, GoneInv
<1> QED
  BY <1>9, <1>10, <1>11, <1>12, <1>13, Zenon DEF Inv

\* DEL releases in its session what no client uses any more.
LEMMA DeallocateStep ==
  ASSUME Inv, NEW w \in Workers, Deallocate(w)
  PROVE  Inv'
<1> DEFINE o == call[w].owner
<1>1. /\ call[w] \in CallType /\ call[w].pc = "run" /\ call[w].op = "DEL"
      /\ persisted = disk /\ lock = w /\ tmp' = ReleaseAll(tmp, KeysOf(o))
      /\ UNCHANGED <<disk, persisted, lock>>
      /\ UNCHANGED <<up, cfg, scan, stale, api, cache, unborn, held, gone>>
  BY LockLemma, Zenon DEF Deallocate
<1>2. /\ call' = [call EXCEPT ![w] = [call[w] EXCEPT !.pc = "close"]]
      /\ call'[w] = [call[w] EXCEPT !.pc = "close"]
      /\ \A v \in Workers : v # w => call'[v] = call[v]
  BY Zenon DEF Deallocate, Inv, TypeOK
<1>3. /\ call'[w].op = call[w].op /\ call'[w].owner = o
      /\ call'[w].i = call[w].i /\ call'[w].live = call[w].live /\ call'[w].pc = "close"
      /\ call'[w] \in CallType
  BY <1>1, <1>2 DEF CallType
<1>4. call' \in [Workers -> CallType]
  BY <1>2, <1>3, Zenon DEF Inv, TypeOK
<1>5. Passed(w)
  BY <1>1, Zenon DEF Passed
<1>6. /\ o \in Owners
      /\ call[w].i \in DOMAIN Request[o].pools
  BY <1>1, Zenon DEF Inv, CallInv
<1>7. KeysOf(o) \subseteq Keys /\ \A k \in KeysOf(o) : k[2] = o
  BY <1>6, KeysOfLemma, Zenon
<1>8. tmp \in Root /\ UniqueIPs(tmp) /\ WellFormed(tmp)
  BY Zenon DEF Inv, TypeOK, StoreInv
<1>9. /\ tmp' \in Root /\ UniqueIPs(tmp') /\ WellFormed(tmp')
      /\ \A k \in Keys : k \notin KeysOf(o) => tmp'.entries[k] = tmp.entries[k]
      /\ \A k \in KeysOf(o) : ~Active(tmp', k)
      /\ \A k \in Keys : tmp'.entries[k].ip \in {tmp.entries[k].ip, NoIP}
  BY <1>1, <1>7, <1>8, ReleaseAllLemma, Zenon
<1>10. \A k \in Keys : Present(tmp', k) => Present(tmp, k)
  BY <1>9, Zenon DEF Present
<1>11. /\ disk' \in Root /\ persisted' = disk' /\ UniqueIPs(disk') /\ WellFormed(disk')
       /\ \A k \in Keys : PodOf[k[2]] \in unborn => ~Present(disk', k) /\ ~Present(tmp', k)
  BY <1>1, <1>10, Zenon DEF Inv, TypeOK, StoreInv, PodInv
<1>12. /\ TypeOK' /\ SessionInv' /\ StoreInv' /\ CallInv' /\ PodInv'
       /\ \A v \in Workers : v # w => ~Passed(v) /\ ~Passed(v)'
       /\ \A v \in Workers, k \in Keys :
            Granted(v, k)' => v = w \/ (Granted(v, k) /\ call'[v] = call[v])
       /\ \A x \in Owners : Deleted(x)' => Deleted(x)
  BY <1>1, <1>2, <1>3, <1>4, <1>5, <1>6, <1>9, <1>11, HandlerFrame, Zenon
<1>13. AddInv'
  BY <1>1, <1>3, <1>12, ZenonT(30) DEF AddInv
<1>14. HeldInv'
  <2>1. \A k \in Keys : ~Granted(w, k)'
    BY <1>3, Zenon DEF Granted
  <2>2. \A k \in Keys : held[k] # NoIP => k \notin KeysOf(o)
    BY <1>1, <1>5, <1>7, Zenon DEF Inv, DelInv
  <2>3. ASSUME NEW v \in Workers, NEW k \in Keys, Granted(v, k), v # w
        PROVE  k \notin KeysOf(o)
    <3>1. call[v].pc = "reply" /\ call[v].live /\ k \in KeysOf(call[v].owner)
      BY <2>3, ZenonT(30) DEF Granted
    <3>2. call[v].owner # o
      BY <1>5, <2>3, <3>1, ZenonT(30) DEF Inv, CallInv
    <3>3. call[v].owner \in Owners
      BY <3>1, ZenonT(30) DEF Inv, CallInv
    <3>4. k[2] = call[v].owner
      BY <3>1, <3>3, KeysOfLemma, Zenon
    <3> QED
      BY <1>7, <3>2, <3>4, Zenon
  <2>4. ASSUME NEW v \in Workers, NEW k \in Keys, Granted(v, k)'
        PROVE  /\ call'[v].got[k[1]] # NoIP
               /\ Holds(disk', k, call'[v].got[k[1]])
               /\ lock' # None => Holds(tmp', k, call'[v].got[k[1]])
    <3>1. Granted(v, k) /\ call'[v] = call[v] /\ v # w
      BY <1>12, <2>1, <2>4, ZenonT(30)
    <3>2. tmp'.entries[k] = tmp.entries[k]
      BY <1>9, <2>3, <3>1, Zenon
    <3> QED
      BY <1>1, <3>1, <3>2, ZenonT(30) DEF Inv, HeldInv, Holds
  <2>5. \A k \in Keys : held'[k] # NoIP =>
          /\ Holds(disk', k, held'[k])
          /\ lock' # None => Holds(tmp', k, held'[k])
    BY <1>1, <1>9, <2>2, ZenonT(30) DEF Inv, HeldInv, Holds
  <2> QED
    BY <2>4, <2>5, ZenonT(30) DEF HeldInv
<1>15. DelInv'
  <2>1. ASSUME NEW v \in Workers, v # w
        PROVE  /\ call'[v] = call[v] /\ ~Passed(v)'
               /\ ~(call'[v].pc = "close" /\ call'[v].err = "ok")
    BY <1>2, <1>12, <2>1, Zenon DEF Passed
  <2>2. \A k \in Keys : k[2] = call'[w].owner => held'[k] = NoIP
    BY <1>1, <1>3, <1>5, Zenon DEF Inv, DelInv
  <2>3. \A k \in KeysOf(call'[w].owner) : ~Active(tmp', k)
    BY <1>3, <1>9, Zenon
  <2> QED
    BY <1>1, <1>3, <2>1, <2>2, <2>3, ZenonT(30) DEF Inv, DelInv
<1>16. GoneInv'
  <2>1. ASSUME NEW x \in Owners, Deleted(x), NEW v \in Workers, call'[v].op = "ADD", call'[v].owner = x
        PROVE  ~Passed(v)' /\ ~call'[v].live
    <3>1. v # w /\ call'[v] = call[v]
      BY <1>1, <1>2, <1>3, <2>1, Zenon
    <3> QED
      BY <1>12, <2>1, <3>1, Zenon DEF Inv, GoneInv
  <2>2. ASSUME NEW x \in Owners, Deleted(x), NEW k \in KeysOf(x)
        PROVE  ~Active(disk', k) /\ ~Active(tmp', k)
    <3>1. k \in Keys /\ ~Active(disk, k) /\ ~Active(tmp, k)
      BY <1>1, <2>2, KeysOfLemma, NoneAssumption, Zenon DEF Inv, GoneInv
    <3> QED
      BY <1>1, <1>9, <3>1, ZenonT(30) DEF Active, Present
  <2> QED
    BY <1>12, <2>1, <2>2, ZenonT(30) DEF GoneInv
<1> QED
  BY <1>12, <1>13, <1>14, <1>15, <1>16, Zenon DEF Inv

\* The end of a session that is written to the file.
LEMMA CloseCommitsStep ==
  ASSUME Inv, NEW w \in Workers, call[w].pc = "close", call[w].err = "ok",
         disk' = tmp, persisted' = tmp, lock' = None, tmp' = NewRoot,
         call' = [call EXCEPT ![w] = [call[w] EXCEPT !.pc = "reply"]],
         UNCHANGED <<up, cfg, scan, stale, api, cache, unborn, held, gone>>
  PROVE  Inv'
<1> DEFINE o == call[w].owner
<1>1. call[w] \in CallType /\ lock = w /\ lock # None /\ Passed(w) /\ w # None
  BY LockLemma, NoneAssumption, Zenon DEF Passed
<1>2. /\ call'[w] = [call[w] EXCEPT !.pc = "reply"]
      /\ \A v \in Workers : v # w => call'[v] = call[v]
  BY Zenon DEF Inv, TypeOK
<1>3. /\ call'[w].op = call[w].op /\ call'[w].owner = o /\ call'[w].err = "ok"
      /\ call'[w].i = call[w].i /\ call'[w].live = call[w].live /\ call'[w].pc = "reply"
      /\ call'[w].got = call[w].got /\ call'[w] \in CallType
  BY <1>1, <1>2 DEF CallType
<1>4. call' \in [Workers -> CallType]
  BY <1>2, <1>3, Zenon DEF Inv, TypeOK
<1>5. ~Passed(w)'
  BY <1>3, Zenon DEF Passed
<1>6. o \in Owners /\ call[w].i \in DOMAIN Request[o].pools
  BY Zenon DEF Inv, CallInv
<1>7. /\ disk' \in Root /\ tmp' \in Root /\ persisted' = disk'
      /\ UniqueIPs(disk') /\ UniqueIPs(tmp') /\ WellFormed(disk') /\ WellFormed(tmp')
  BY NewRootLemma, Zenon DEF Inv, TypeOK, StoreInv
<1>8. \A k \in Keys : PodOf[k[2]] \in unborn => ~Present(disk', k) /\ ~Present(tmp', k)
  BY Zenon DEF Inv, PodInv, NewRoot, Present, Absent
<1>9. /\ TypeOK' /\ SessionInv' /\ StoreInv' /\ CallInv' /\ PodInv'
      /\ \A v \in Workers : v # w => ~Passed(v) /\ ~Passed(v)'
      /\ \A v \in Workers, k \in Keys :
            Granted(v, k)' => v = w \/ (Granted(v, k) /\ call'[v] = call[v])
      /\ \A x \in Owners : Deleted(x)' =>
            Deleted(x) \/ (call[w].op = "DEL" /\ call[w].live /\ o = x)
  BY <1>1, <1>2, <1>3, <1>4, <1>5, <1>6, <1>7, <1>8, HandlerFrame, SMTT(30)
<1>10. AddInv'
  BY <1>5, <1>9, Zenon DEF AddInv
<1>11. HeldInv'
  <2>1. ASSUME NEW k \in Keys, Granted(w, k)'
        PROVE  call'[w].got[k[1]] # NoIP /\ Holds(disk', k, call'[w].got[k[1]])
    <3>1. call[w].op = "ADD" /\ k \in KeysOf(o)
      BY <1>3, <2>1, Zenon DEF Granted
    <3>2. PICK j \in DOMAIN Request[o].pools : k = <<Request[o].pools[j], o>>
      BY <3>1, Zenon DEF KeysOf
    <3>3. /\ call[w].got[Request[o].pools[j]] # NoIP
          /\ Holds(tmp, <<Request[o].pools[j], o>>, call[w].got[Request[o].pools[j]])
      BY <1>1, <3>1, Zenon DEF Inv, AddInv
    <3> QED
      BY <1>3, <3>2, <3>3, Zenon
  <2>2. ASSUME NEW v \in Workers, NEW k \in Keys, Granted(v, k)', v # w
        PROVE  call'[v].got[k[1]] # NoIP /\ Holds(disk', k, call'[v].got[k[1]])
    <3>1. Granted(v, k) /\ call'[v] = call[v]
      BY <1>9, <2>2, Zenon
    <3> QED
      BY <1>1, <3>1, Zenon DEF Inv, HeldInv
  <2>3. \A k \in Keys : held'[k] # NoIP => Holds(disk', k, held'[k])
    BY <1>1, Zenon DEF Inv, HeldInv
  <2> QED
    BY <2>1, <2>2, <2>3, Zenon DEF HeldInv
<1>12. DelInv'
  <2>1. ASSUME NEW v \in Workers, v # w
        PROVE  /\ call'[v] = call[v] /\ ~Passed(v)'
               /\ ~(call'[v].pc = "close" /\ call'[v].err = "ok")
    BY <1>2, <1>9, <2>1, Zenon DEF Passed
  <2> QED
    BY <1>3, <1>5, <2>1 DEF Inv, DelInv
<1>13. GoneInv'
  <2>1. \A v \in Workers : /\ ~Passed(v)' /\ call'[v].op = call[v].op
                           /\ call'[v].owner = call[v].owner /\ call'[v].live = call[v].live
    BY <1>2, <1>3, <1>5, <1>9, Zenon
  <2>2. ASSUME NEW x \in Owners, Deleted(x)
        PROVE  /\ \A k \in KeysOf(x) : ~Active(disk', k)
               /\ \A v \in Workers : (call'[v].op = "ADD" /\ call'[v].owner = x) => ~call'[v].live
    BY <1>1, <2>1, <2>2, ZenonT(60) DEF Inv, GoneInv
  <2>3. ASSUME call[w].op = "DEL", call[w].live
        PROVE  /\ \A k \in KeysOf(o) : ~Active(disk', k)
               /\ \A v \in Workers : (call'[v].op = "ADD" /\ call'[v].owner = o) => ~call'[v].live
    <3>1. \A k \in KeysOf(o) : ~Active(tmp, k)
      BY <2>3, Zenon DEF Inv, DelInv
    <3>2. \A v \in Workers : v # w /\ call[v].owner = o => ~call[v].live
      BY <2>3, Zenon DEF Inv, CallInv
    <3> QED
      BY <2>1, <2>3, <3>1, <3>2, ZenonT(60)
  <2> QED
    BY <1>9, <2>1, <2>2, <2>3 DEF GoneInv
<1> QED
  BY <1>9, <1>10, <1>11, <1>12, <1>13, Zenon DEF Inv

\* The end of a session that leaves no trace.
LEMMA CloseCancelsStep ==
  ASSUME Inv, NEW w \in Workers, call[w].pc = "close", NEW e \in Errors, e # "ok",
         disk' = disk, persisted' = persisted, lock' = None, tmp' = NewRoot,
         call' \in [Workers -> CallType],
         \A v \in Workers : v # w => call'[v] = call[v],
         call'[w].op = call[w].op, call'[w].owner = call[w].owner,
         call'[w].i = call[w].i, call'[w].live = call[w].live,
         call'[w].pc = "reply", call'[w].err = e,
         UNCHANGED <<up, cfg, scan, stale, api, cache, unborn, held, gone>>
  PROVE  Inv'
<1> DEFINE o == call[w].owner
<1>1. call[w] \in CallType /\ lock = w /\ lock # None /\ w # None /\ persisted = disk
  BY LockLemma, NoneAssumption, Zenon
<1>5. ~Passed(w)'
  BY Zenon DEF Passed
<1>6. o \in Owners /\ call[w].i \in DOMAIN Request[o].pools
  BY ZenonT(30) DEF Inv, CallInv
<1>7. /\ disk' \in Root /\ tmp' \in Root /\ persisted' = disk'
      /\ UniqueIPs(disk') /\ UniqueIPs(tmp') /\ WellFormed(disk') /\ WellFormed(tmp')
  BY <1>1, NewRootLemma, Zenon DEF Inv, TypeOK, StoreInv
<1>8. \A k \in Keys : PodOf[k[2]] \in unborn => ~Present(disk', k) /\ ~Present(tmp', k)
  BY ZenonT(30) DEF Inv, PodInv, NewRoot, Present, Absent
<1>9. /\ TypeOK' /\ SessionInv' /\ StoreInv' /\ CallInv' /\ PodInv'
      /\ \A v \in Workers : v # w => ~Passed(v) /\ ~Passed(v)'
      /\ \A v \in Workers, k \in Keys :
            Granted(v, k)' => v = w \/ (Granted(v, k) /\ call'[v] = call[v])
      /\ \A x \in Owners : Deleted(x)' => Deleted(x)
  BY <1>1, <1>5, <1>6, <1>7, <1>8, HandlerFrame, ZenonT(30)
<1>10. AddInv'
  BY <1>5, <1>9, ZenonT(30) DEF AddInv
<1>11. HeldInv'
  <2>1. \A k \in Keys : ~Granted(w, k)'
    BY ZenonT(30) DEF Granted
  <2> QED
    BY <1>9, <2>1, ZenonT(30) DEF Inv, HeldInv
<1>12. DelInv'
  <2>1. ASSUME NEW v \in Workers, v # w
        PROVE  /\ call'[v] = call[v] /\ ~Passed(v)'
               /\ ~(call'[v].pc = "close" /\ call'[v].err = "ok")
    BY <1>9, <2>1, Zenon DEF Passed
  <2> QED
    BY <1>5, <2>1, ZenonT(30) DEF Inv, DelInv
<1>13. GoneInv'
  <2>1. \A v \in Workers : /\ ~Passed(v)' /\ call'[v].op = call[v].op
                           /\ call'[v].owner = call[v].owner /\ call'[v].live = call[v].live
    BY <1>5, <1>9, Zenon
  <2>2. ASSUME NEW x \in Owners, Deleted(x)'
        PROVE  /\ \A k \in KeysOf(x) : ~Active(disk', k)
               /\ \A v \in Workers : (call'[v].op = "ADD" /\ call'[v].owner = x) => ~call'[v].live
    <3>1. Deleted(x)
      BY <1>9, <2>2, Zenon
    <3>2. /\ \A k \in KeysOf(x) : ~Active(disk, k)
          /\ \A v \in Workers : (call[v].op = "ADD" /\ call[v].owner = x) => ~call[v].live
      BY <3>1, Zenon DEF Inv, GoneInv
    <3> QED
      BY <2>1, <3>2, Zenon
  <2> QED
    BY <2>1, <2>2, Zenon DEF GoneInv
<1> QED
  BY <1>9, <1>10, <1>11, <1>12, <1>13, ZenonT(30) DEF Inv

\* closeSession commits, fails to, or cancels.
LEMMA CloseSessionStep ==
  ASSUME Inv, NEW w \in Workers, NEW ok \in BOOLEAN, CloseSession(w, ok)
  PROVE  Inv'
<1>1. call[w] \in CallType /\ call \in [Workers -> CallType] /\ persisted = disk
  BY LockLemma, Zenon DEF CloseSession, Inv, TypeOK
<1>5. ASSUME NEW e \in Errors, e # "ok",
             disk' = disk, persisted' = persisted, lock' = None, tmp' = NewRoot,
             call' = [call EXCEPT ![w] = [call[w] EXCEPT !.pc = "reply", !.err = e]]
      PROVE  Inv'
  <2> DEFINE d == [call[w] EXCEPT !.pc = "reply", !.err = e]
  <2>1. /\ d.pc = "reply" /\ d.err = e /\ d.op = call[w].op /\ d.owner = call[w].owner
        /\ d.i = call[w].i /\ d.live = call[w].live /\ d \in CallType
    <3> DEFINE c == [call[w] EXCEPT !.pc = "reply"]
    <3>1. /\ c.pc = "reply" /\ c.op = call[w].op /\ c.owner = call[w].owner
          /\ c.i = call[w].i /\ c.live = call[w].live /\ c \in CallType
      BY <1>1, Zenon DEF CallType
    <3>2. d = [c EXCEPT !.err = e]
      OBVIOUS
    <3> HIDE DEF c, d
    <3> QED
      BY <3>1, <3>2, Zenon DEF CallType
  <2>2. call' = [call EXCEPT ![w] = d]
    BY <1>5, Zenon
  <2> HIDE DEF d
  <2>3. call'[w] = d /\ (\A v \in Workers : v # w => call'[v] = call[v]) /\ call' \in [Workers -> CallType]
    BY <1>1, <2>1, <2>2, Zenon
  <2> QED
    BY <1>5, <2>1, <2>3, CloseCancelsStep DEF CloseSession
<1>2. CASE call[w].err = "ok" /\ ok
  <2>1. disk' = tmp /\ persisted' = tmp /\ lock' = None /\ tmp' = NewRoot
    BY <1>1, <1>2, Zenon DEF CloseSession, Commits, Commit, Unlock
  <2>2. call' = [call EXCEPT ![w] = [call[w] EXCEPT !.pc = "reply"]]
    BY <1>1, <1>2, ZenonT(60) DEF CallType, CloseSession, Commits
  <2> QED
    BY <1>2, <2>1, <2>2, CloseCommitsStep, Zenon DEF CloseSession
<1>3. CASE call[w].err = "ok" /\ ~ok
  <2>1. disk' = disk /\ persisted' = persisted /\ lock' = None /\ tmp' = NewRoot
    BY <1>3, Zenon DEF CloseSession, Commits, Commit, Unlock, PersistedOnWriteError
  <2>2. call' = [call EXCEPT ![w] = [call[w] EXCEPT !.pc = "reply", !.err = "Internal"]]
    BY <1>1, <1>3, Zenon DEF CloseSession, Commits
  <2>3. "Internal" \in Errors
    BY Zenon DEF Errors
  <2> QED
    BY <1>5, <2>1, <2>2, <2>3, Zenon
<1>4. CASE call[w].err # "ok"
  <2>1. disk' = disk /\ persisted' = persisted /\ lock' = None /\ tmp' = NewRoot
    BY <1>4, Zenon DEF CloseSession, Commits, Cancel, Unlock
  <2>2. call' = [call EXCEPT ![w] = [call[w] EXCEPT !.pc = "reply", !.err = call[w].err]]
    BY <1>1, <1>4, ZenonT(30) DEF CallType, CloseSession, Commits
  <2>3. call[w].err \in Errors
    BY <1>1, Zenon DEF CallType
  <2> QED
    BY <1>4, <1>5, <2>1, <2>2, <2>3, Zenon
<1> QED
  BY <1>2, <1>3, <1>4, Zenon
-----------------------------------------------------------------------------
\* What the allocator hands out is an address of the pool's range or the
\* static address, and the store accepts it.
LEMMA AllocatesLemma ==
  ASSUME NEW d, NEW c \in AllConfigs, NEW k, NEW sel, NEW a \in Addrs \cup {NoIP},
         Allocates(d, c, k, sel, "ok", a)
  PROVE  a \in Addrs /\ ReserveErr(d, k, a) = "ok"
<1>1. CASE sel # NoIP
  BY <1>1, Zenon DEF Allocates
<1>2. CASE sel = NoIP
  <2>1. /\ FirstFree(<<c.range>>, c.excl, d.last[k[1]], Taken(d, k), <<1, a>>)
        /\ ReserveErr(d, k, a) = "ok"
    BY <1>2, ZenonT(30) DEF Allocates
  <2>2. <<1, a>> \in Slots(<<c.range>>)
    BY <2>1, Zenon DEF FirstFree, Free, Allocatable
  <2>3. PICK i \in DOMAIN <<c.range>> :
               \E b \in <<c.range>>[i].start .. <<c.range>>[i].end : <<1, a>> = <<i, b>>
    BY <2>2, Zenon DEF Slots
  <2>4. i = 1 /\ a \in c.range.start .. c.range.end
    BY <2>3
  <2> QED
    BY <2>1, <2>4, ConfigsAssumption, Zenon
<1> QED
  BY <1>1, <1>2, Zenon

\* What an unsuccessful turn of the ADD loop does.
FailsNext(w, e) ==
  /\ e # "ok" /\ call[w].pc = "run" /\ call[w].op = "ADD"
  /\ tmp' = tmp
  /\ call' = [call EXCEPT ![w] = [call[w] EXCEPT !.pc = "close", !.err = e]]
  /\ UNCHANGED <<disk, up, persisted, lock, cfg, scan, stale, api, cache, unborn, held, gone>>

\* An ADD that fails in a pool leaves its session to be canceled.
LEMMA AllocateFailsStep ==
  ASSUME Inv, NEW w \in Workers, NEW e \in Errors, FailsNext(w, e)
  PROVE  Inv'
<1> SUFFICES ASSUME e # "ok", call[w].pc = "run", call[w].op = "ADD", tmp' = tmp,
                    call' = [call EXCEPT ![w] = [call[w] EXCEPT !.pc = "close", !.err = e]],
                    UNCHANGED <<disk, up, persisted, lock, cfg, scan, stale, api, cache, unborn, held, gone>>
             PROVE  Inv'
  BY Zenon DEF FailsNext
<1>1. call[w] \in CallType /\ persisted = disk /\ lock = w
  BY LockLemma, Zenon
<1>2. /\ call' = [call EXCEPT ![w] = [call[w] EXCEPT !.pc = "close", !.err = e]]
      /\ call'[w] = [call[w] EXCEPT !.pc = "close", !.err = e]
      /\ \A v \in Workers : v # w => call'[v] = call[v]
  BY Zenon DEF Inv, TypeOK
<1>3. /\ call'[w].op = call[w].op /\ call'[w].owner = call[w].owner /\ call'[w].err = e
      /\ call'[w].i = call[w].i /\ call'[w].live = call[w].live /\ call'[w].pc = "close"
      /\ call'[w] \in CallType
  BY <1>1, <1>2, ZenonT(30) DEF CallType
<1>4. call' \in [Workers -> CallType]
  BY <1>2, <1>3, Zenon DEF Inv, TypeOK
<1>5. Passed(w) /\ ~Passed(w)'
  BY <1>3, Zenon DEF Passed
<1>6. /\ call[w].owner \in Owners
      /\ call[w].i \in DOMAIN Request[call[w].owner].pools
  BY Zenon DEF Inv, CallInv
<1>7. /\ disk' \in Root /\ tmp' \in Root /\ persisted' = disk'
      /\ UniqueIPs(disk') /\ UniqueIPs(tmp') /\ WellFormed(disk') /\ WellFormed(tmp')
      /\ \A k \in Keys : PodOf[k[2]] \in unborn => ~Present(disk', k) /\ ~Present(tmp', k)
  BY <1>1, Zenon DEF Inv, TypeOK, StoreInv, PodInv
<1>8. /\ TypeOK' /\ SessionInv' /\ StoreInv' /\ CallInv' /\ PodInv'
      /\ \A v \in Workers : v # w => ~Passed(v) /\ ~Passed(v)'
      /\ \A v \in Workers, k \in Keys :
            Granted(v, k)' => v = w \/ (Granted(v, k) /\ call'[v] = call[v])
      /\ \A o \in Owners : Deleted(o)' => Deleted(o)
  BY <1>1, <1>2, <1>3, <1>4, <1>5, <1>6, <1>7, HandlerFrame, Zenon
<1>9. AddInv'
  BY <1>5, <1>8, Zenon DEF AddInv
<1>10. HeldInv'
  <2>1. \A k \in Keys : ~Granted(w, k)'
    BY <1>3, Zenon DEF Granted
  <2> QED
    BY <1>1, <1>8, <2>1, ZenonT(60) DEF Inv, HeldInv
<1>11. DelInv'
  <2>1. ASSUME NEW v \in Workers, v # w
        PROVE  /\ call'[v] = call[v] /\ ~Passed(v)'
               /\ ~(call'[v].pc = "close" /\ call'[v].err = "ok")
    BY <1>2, <1>8, <2>1, Zenon DEF Passed
  <2> QED
    BY <1>1, <1>3, <2>1 DEF Inv, DelInv
<1>12. GoneInv'
  <2>1. \A v \in Workers : /\ ~Passed(v)' /\ call'[v].op = call[v].op
                           /\ call'[v].owner = call[v].owner /\ call'[v].live = call[v].live
    BY <1>2, <1>3, <1>5, <1>8, Zenon
  <2> QED
    BY <1>1, <1>8, <2>1 DEF Inv, GoneInv
<1> QED
  BY <1>8, <1>9, <1>10, <1>11, <1>12, Zenon DEF Inv

\* What a successful turn of the ADD loop does, field by field.
ReservesNext(w, p, a, l) ==
  /\ call[w].pc = "run" /\ call[w].op = "ADD"
  /\ p = Request[call[w].owner].pools[call[w].i]
  /\ ReserveErr(tmp, <<p, call[w].owner>>, a) = "ok"
  /\ tmp' = Reserve(tmp, <<p, call[w].owner>>, a, l)
  /\ call' \in [Workers -> CallType]
  /\ \A v \in Workers : v # w => call'[v] = call[v]
  /\ call'[w].op = "ADD" /\ call'[w].owner = call[w].owner /\ call'[w].live = call[w].live
  /\ call'[w].pc \in {"run", "close"}
  /\ call'[w].pc = "run" => /\ call'[w].err = "ok" /\ call'[w].i = call[w].i + 1
                            /\ call[w].i # Len(Request[call[w].owner].pools)
  /\ call'[w].pc = "close" => call'[w].i = call[w].i
  /\ call'[w].pc = "close" /\ call'[w].err = "ok" => call[w].i = Len(Request[call[w].owner].pools)
  /\ call'[w].pc = "close" /\ call'[w].err = "ok" =>
        RequestedErr(Request[call[w].owner], call[w].i, call'[w].got) = "ok"
  /\ call'[w].got = [call[w].got EXCEPT ![p] = a]
  /\ call'[w].got[p] = a
  /\ \A x \in PoolKeys : x # p => call'[w].got[x] = call[w].got[x]
  /\ UNCHANGED <<disk, persisted, lock>>
  /\ UNCHANGED <<up, cfg, scan, stale, api, cache, unborn, held, gone>>

\* An ADD reserves one more address in its session.
LEMMA AllocateReservesStep ==
  ASSUME Inv, NEW w \in Workers, NEW p, NEW a \in Addrs, NEW l \in Addrs \cup {NoIP},
         ReservesNext(w, p, a, l)
  PROVE  Inv'
<1> DEFINE o == call[w].owner
           i == call[w].i
           k0 == <<p, o>>
           pools == Request[o].pools
<1>0. /\ call[w].pc = "run" /\ call[w].op = "ADD" /\ p = pools[i]
      /\ UNCHANGED <<disk, persisted, lock>>
      /\ UNCHANGED <<up, cfg, scan, stale, api, cache, unborn, held, gone>>
      /\ \A v \in Workers : v # w => call'[v] = call[v]
      /\ call'[w].op = "ADD" /\ call'[w].owner = o /\ call'[w].live = call[w].live
      /\ call'[w].pc \in {"run", "close"} /\ call' \in [Workers -> CallType]
  BY ZenonT(30) DEF ReservesNext
<1>1. call[w] \in CallType /\ persisted = disk /\ lock = w /\ lock # None
  BY <1>0, LockLemma, NoneAssumption, Zenon
<1>2. /\ o \in Owners /\ i \in DOMAIN pools /\ i \in {1, 2}
      /\ DOMAIN pools = 1 .. Len(pools) /\ Len(pools) \in 1 .. 2
      /\ p \in PoolKeys /\ k0 \in Keys /\ k0 \in KeysOf(o)
  <2>1. o \in Owners /\ i \in DOMAIN pools
    BY <1>0, Zenon DEF Inv, CallInv
  <2>2. pools \in Seq(PoolKeys) /\ Len(pools) \in 1 .. 2
    BY <2>1, RequestAssumption, Zenon
  <2>3. i \in {1, 2}
    BY <1>1, Zenon DEF CallType
  <2>4. p \in PoolKeys /\ k0 \in KeysOf(o) /\ KeysOf(o) \subseteq Keys
    BY <1>0, <2>1, KeysOfLemma, Zenon
  <2> HIDE DEF o, i, pools
  <2>5. DOMAIN pools = 1 .. Len(pools)
    BY <2>2
  <2> QED
    BY <2>1, <2>2, <2>3, <2>4, <2>5, Zenon
<1> HIDE DEF o, i, pools
<1>3. \/ call'[w].pc = "run" /\ call'[w].err = "ok" /\ call'[w].i = i + 1 /\ i # Len(pools)
      \/ call'[w].pc = "close" /\ call'[w].i = i /\ (call'[w].err = "ok" => i = Len(pools))
  BY ZenonT(30) DEF ReservesNext, o, i, pools
<1>4. call'[w].i \in DOMAIN pools
  BY <1>2, <1>3, SMTT(30)
<1>6. Passed(w)
  BY <1>0, Zenon DEF Passed
<1>7. /\ tmp' \in Root /\ UniqueIPs(tmp') /\ WellFormed(tmp')
      /\ ~Present(tmp, k0) /\ tmp'.entries[k0] = [ip |-> a, age |-> NotReleased]
      /\ \A j \in Keys : j # k0 => tmp'.entries[j] = tmp.entries[j]
  <2>1. tmp \in Root /\ UniqueIPs(tmp) /\ WellFormed(tmp)
    BY Zenon DEF Inv, TypeOK, StoreInv
  <2>2. tmp' = Reserve(tmp, k0, a, l)
    BY Zenon DEF ReservesNext, o
  <2>3. k0 \in Keys /\ ReserveErr(tmp, k0, a) = "ok"
    BY <1>2, Zenon DEF ReservesNext, o
  <2> HIDE DEF k0
  <2>4. /\ Reserve(tmp, k0, a, l) \in Root /\ UniqueIPs(Reserve(tmp, k0, a, l))
        /\ WellFormed(Reserve(tmp, k0, a, l)) /\ ~Present(tmp, k0)
        /\ Reserve(tmp, k0, a, l).entries[k0] = [ip |-> a, age |-> NotReleased]
        /\ \A j \in Keys : j # k0 => Reserve(tmp, k0, a, l).entries[j] = tmp.entries[j]
    <3>1. /\ Reserve(tmp, k0, a, l) \in Root /\ ~Present(tmp, k0)
          /\ Reserve(tmp, k0, a, l).entries[k0] = [ip |-> a, age |-> NotReleased]
          /\ \A j \in Keys : j # k0 => Reserve(tmp, k0, a, l).entries[j] = tmp.entries[j]
          /\ UniqueIPs(tmp) => UniqueIPs(Reserve(tmp, k0, a, l))
          /\ WellFormed(tmp) => WellFormed(Reserve(tmp, k0, a, l))
      BY <2>1, <2>3, ReserveLemma
    <3> QED
      BY <2>1, <3>1, Zenon
  <2> QED
    BY <2>2, <2>4, ZenonT(30)
<1>8. a # NoIP
  BY AddrsAssumption DEF NoIP
<1>9. /\ disk' \in Root /\ persisted' = disk' /\ UniqueIPs(disk') /\ WellFormed(disk')
      /\ \A k \in Keys : PodOf[k[2]] \in unborn => ~Present(disk', k) /\ ~Present(tmp', k)
  <2>1. PodOf[o] \notin unborn
    BY <1>0, Zenon DEF Inv, PodInv, o
  <2>2. ASSUME NEW k \in Keys, PodOf[k[2]] \in unborn
        PROVE  ~Present(disk, k) /\ ~Present(tmp', k)
    <3>1. ~Present(disk, k) /\ ~Present(tmp, k)
      BY <2>2, Zenon DEF Inv, PodInv
    <3>2. k # k0
      BY <2>1, <2>2, SecondOfPair, Zenon
    <3> QED
      BY <1>7, <3>1, <3>2, Zenon DEF Present
  <2> QED
    BY <1>0, <1>1, <2>2, Zenon DEF Inv, TypeOK, StoreInv
<1>10. /\ TypeOK' /\ SessionInv' /\ StoreInv' /\ CallInv' /\ PodInv'
       /\ \A v \in Workers : v # w => ~Passed(v) /\ ~Passed(v)'
       /\ \A v \in Workers, k \in Keys :
             Granted(v, k)' => v = w \/ (Granted(v, k) /\ call'[v] = call[v])
       /\ \A x \in Owners : Deleted(x)' => Deleted(x)
  <2>1. /\ call'[w].pc \in {"run", "close", "reply"}
        /\ call'[w].pc \in {"run", "close"} <=> lock' = w
        /\ call'[w].pc = "run" => call'[w].err = "ok"
    BY <1>0, <1>1, <1>3, ZenonT(30)
  <2> QED
    BY <1>0, <1>1, <1>4, <1>6, <1>7, <1>9, <2>1, HandlerFrame, ZenonT(30) DEF o, pools
<1>11. AddInv'
  <2> SUFFICES ASSUME Passed(w)', NEW j \in DOMAIN pools, j < call'[w].i \/ call'[w].pc = "close"
               PROVE  call'[w].got[pools[j]] # NoIP /\ Holds(tmp', <<pools[j], o>>, call'[w].got[pools[j]])
    BY <1>0, <1>10, ZenonT(30) DEF AddInv, o, pools
  <2>1. call'[w].err = "ok"
    BY <1>3, ZenonT(30) DEF Passed
  <2>2. j < i \/ j = i
    <3>1. i \in Int /\ j \in 1 .. Len(pools) /\ Len(pools) \in Int
      BY <1>2
    <3>2. call'[w].i = i + 1 \/ i = Len(pools)
      BY <1>3, <2>1, Zenon
    <3>3. j < call'[w].i \/ i = Len(pools)
      BY <1>3, <2>1, Zenon
    <3> QED
      BY <3>1, <3>2, <3>3
  <2>3. CASE j = i
    <3>1. pools[j] = p /\ call'[w].got[p] = a
      BY <1>0, <2>3, ZenonT(30) DEF ReservesNext
    <3> QED
      BY <1>7, <1>8, <3>1, ZenonT(30) DEF Holds
  <2>4. CASE j < i
    <3>1. call[w].got[pools[j]] # NoIP /\ Holds(tmp, <<pools[j], o>>, call[w].got[pools[j]])
      BY <1>0, <1>6, <2>4, ZenonT(30) DEF Inv, AddInv, o, i, pools
    <3>2. pools[j] \in PoolKeys /\ <<pools[j], o>> \in Keys
      BY <1>2, KeysOfLemma, Zenon DEF pools
    <3>3. <<pools[j], o>> # k0
      BY <1>7, <3>1, HoldsPresent, Zenon
    <3>4. pools[j] # p /\ call'[w].got[pools[j]] = call[w].got[pools[j]]
      BY <3>2, <3>3, Zenon DEF ReservesNext
    <3> QED
      BY <1>7, <3>1, <3>2, <3>3, <3>4, ZenonT(30) DEF Holds
  <2> QED
    BY <2>2, <2>3, <2>4, Zenon
<1>12. HeldInv'
  <2>1. \A k \in Keys : ~Granted(w, k)'
    BY <1>0, ZenonT(30) DEF Granted
  <2>2. \A k \in Keys : \A x : Holds(tmp, k, x) /\ x # NoIP => Holds(tmp', k, x)
    BY <1>7, HoldsPresent, Zenon DEF Holds
  <2>3. ASSUME NEW k \in Keys, held'[k] # NoIP
        PROVE  Holds(disk', k, held'[k]) /\ Holds(tmp', k, held'[k])
    BY <1>0, <1>1, <2>2, <2>3, ZenonT(30) DEF Inv, HeldInv
  <2>4. ASSUME NEW v \in Workers, NEW k \in Keys, Granted(v, k)'
        PROVE  /\ call'[v].got[k[1]] # NoIP
               /\ Holds(disk', k, call'[v].got[k[1]])
               /\ Holds(tmp', k, call'[v].got[k[1]])
    <3>1. Granted(v, k) /\ call'[v] = call[v]
      BY <1>10, <2>1, <2>4, ZenonT(30)
    <3> QED
      BY <1>0, <1>1, <2>2, <3>1, ZenonT(30) DEF Inv, HeldInv
  <2> QED
    BY <2>3, <2>4, ZenonT(30) DEF HeldInv
<1>13. DelInv'
  <2>1. ASSUME NEW v \in Workers, v # w
        PROVE  /\ call'[v] = call[v] /\ ~Passed(v)'
               /\ ~(call'[v].pc = "close" /\ call'[v].err = "ok")
    BY <1>0, <1>10, <2>1, ZenonT(30) DEF Passed
  <2> QED
    BY <1>0, <1>1, <2>1, ZenonT(30) DEF Inv, DelInv
<1>14. GoneInv'
  <2>1. ~Deleted(o)
    BY <1>0, <1>2, <1>6, ZenonT(30) DEF Inv, GoneInv, o
  <2>2. ASSUME NEW x \in Owners, Deleted(x)
        PROVE  /\ \A k \in KeysOf(x) : ~Active(disk', k) /\ (lock' # None => ~Active(tmp', k))
               /\ \A v \in Workers : (call'[v].op = "ADD" /\ call'[v].owner = x) => ~Passed(v)' /\ ~call'[v].live
    <3>1. x # o
      BY <2>1, <2>2, Zenon
    <3>2. \A k \in KeysOf(x) : k \in Keys /\ k # k0
      BY <3>1, KeysOfLemma
    <3>3. \A k \in KeysOf(x) : ~Active(disk', k) /\ (lock' # None => ~Active(tmp', k))
      BY <1>0, <1>1, <1>7, <2>2, <3>2, Zenon DEF Inv, GoneInv, Active, Present
    <3> QED
      BY <1>0, <1>10, <2>2, <3>1, <3>3, Zenon DEF Inv, GoneInv
  <2> QED
    BY <1>10, <2>2, ZenonT(30) DEF GoneInv
<1> QED
  BY <1>10, <1>11, <1>12, <1>13, <1>14, Zenon DEF Inv

\* The same turn as AllocateInPool writes it.
ReservesRaw(w, p, a, l, e) ==
  LET done == e # "ok" \/ call[w].i = Len(Request[call[w].owner].pools)
  IN /\ call[w].pc = "run" /\ call[w].op = "ADD"
     /\ p = Request[call[w].owner].pools[call[w].i]
     /\ ReserveErr(tmp, <<p, call[w].owner>>, a) = "ok"
     /\ tmp' = Reserve(tmp, <<p, call[w].owner>>, a, l)
     /\ call' = [call EXCEPT ![w].pc = IF done THEN "close" ELSE "run",
                             ![w].i = IF done THEN call[w].i ELSE call[w].i + 1,
                             ![w].err = e, ![w].got = [call[w].got EXCEPT ![p] = a]]
     /\ e = "ok" => RequestedErr(Request[call[w].owner], call[w].i, [call[w].got EXCEPT ![p] = a]) = "ok"
     /\ UNCHANGED <<disk, up, persisted, lock, cfg, scan, stale, api, cache, unborn, held, gone>>

\* The two forms of the step agree.
LEMMA ReservesNextLemma ==
  ASSUME Inv, NEW w \in Workers, NEW p \in PoolKeys, NEW a \in Addrs, NEW l, NEW e \in Errors,
         ReservesRaw(w, p, a, l, e)
  PROVE  ReservesNext(w, p, a, l)
<1> DEFINE n == Len(Request[call[w].owner].pools)
           done == e # "ok" \/ call[w].i = n
           c == call'[w]
<1>0. call[w].pc = "run" /\ call[w].op = "ADD"
  BY Zenon DEF ReservesRaw
<1>1. call[w] \in CallType /\ call \in [Workers -> CallType]
  BY LockLemma, Zenon DEF Inv, TypeOK
<1>2. /\ c = [call[w] EXCEPT !.pc = IF done THEN "close" ELSE "run",
                            !.i = IF done THEN call[w].i ELSE call[w].i + 1,
                            !.err = e, !.got = [call[w].got EXCEPT ![p] = a]]
      /\ \A v \in Workers : v # w => call'[v] = call[v]
      /\ call' = [call EXCEPT ![w] = c]
  BY <1>1, ZenonT(30) DEF ReservesRaw
<1>3. /\ c.pc = IF done THEN "close" ELSE "run"
      /\ c.i = IF done THEN call[w].i ELSE call[w].i + 1
      /\ c.err = e /\ c.got = [call[w].got EXCEPT ![p] = a]
      /\ c.op = call[w].op /\ c.owner = call[w].owner /\ c.live = call[w].live
  BY <1>1, <1>2, Zenon DEF CallType
<1>4. call[w].i \in 1 .. n /\ n \in 1 .. 2
  <2>1. call[w].owner \in Owners /\ call[w].i \in DOMAIN Request[call[w].owner].pools
    BY <1>0, ZenonT(30) DEF Inv, CallInv
  <2>2. Request[call[w].owner].pools \in Seq(PoolKeys) /\ n \in 1 .. 2
    BY <2>1, RequestAssumption, ZenonT(30)
  <2> QED
    BY <2>1, <2>2
<1>5. c.got \in [PoolKeys -> Addrs \cup {NoIP}]
  BY <1>1, <1>3, ZenonT(30) DEF CallType
<1>6. c.got[p] = a /\ \A x \in PoolKeys : x # p => c.got[x] = call[w].got[x]
  BY <1>1, <1>3, Zenon DEF CallType
<1>7. c.i \in {1, 2} /\ c.pc \in {"run", "close"}
  <2> HIDE DEF n, c
  <2>1. c.i = call[w].i \/ (c.i = call[w].i + 1 /\ call[w].i # n)
    BY <1>3, Zenon
  <2> QED
    BY <1>3, <1>4, <2>1, SMTT(30)
<1>8. c \in CallType
  <2>1. c = [pc |-> c.pc, op |-> c.op, owner |-> c.owner, i |-> c.i, got |-> c.got,
             err |-> c.err, live |-> c.live]
    BY <1>1, <1>2, Zenon DEF CallType
  <2>2. c.op \in {"none", "ADD", "DEL", "CHECK"} /\ c.owner \in Owners \cup {None} /\ c.live \in BOOLEAN
    BY <1>1, <1>3, Zenon DEF CallType
  <2> HIDE DEF c
  <2>3. c.pc \in {"idle", "open", "run", "close", "reply"}
    BY <1>7, Zenon
  <2> QED
    BY <1>3, <1>5, <1>7, <2>1, <2>2, <2>3, Zenon DEF CallType
<1>9. call' \in [Workers -> CallType]
  BY <1>1, <1>2, <1>8, Zenon
<1>10. /\ c.pc = "run" => /\ c.err = "ok" /\ c.i = call[w].i + 1 /\ call[w].i # n
       /\ c.pc = "close" => c.i = call[w].i
       /\ c.pc = "close" /\ c.err = "ok" => call[w].i = n
  BY <1>3, Zenon
<1>11. /\ p = Request[call[w].owner].pools[call[w].i]
       /\ ReserveErr(tmp, <<p, call[w].owner>>, a) = "ok"
       /\ tmp' = Reserve(tmp, <<p, call[w].owner>>, a, l)
       /\ UNCHANGED <<disk, persisted, lock>>
       /\ UNCHANGED <<up, cfg, scan, stale, api, cache, unborn, held, gone>>
  BY ZenonT(30) DEF ReservesRaw
<1>12. c.err = "ok" => RequestedErr(Request[call[w].owner], call[w].i, c.got) = "ok"
  <2>1. e = "ok" => RequestedErr(Request[call[w].owner], call[w].i, [call[w].got EXCEPT ![p] = a]) = "ok"
    BY Zenon DEF ReservesRaw
  <2> QED
    BY <1>3, <2>1, Zenon
<1> QED
  BY <1>0, <1>2, <1>3, <1>6, <1>7, <1>9, <1>10, <1>11, <1>12, ZenonT(30) DEF ReservesNext

\* One turn of the loop of allocate fails or reserves one address.
LEMMA AllocateInPoolCases ==
  ASSUME Inv, NEW w \in Workers, AllocateInPool(w)
  PROVE  \/ \E e \in Errors : FailsNext(w, e)
         \/ \E p \in PoolKeys, a \in Addrs, l \in Addrs \cup {NoIP} : ReservesNext(w, p, a, l)
<1> DEFINE o == call[w].owner
           i == call[w].i
           q == Request[o]
           p == q.pools[i]
           c == cfg[p]
<1>1. call[w].pc = "run" /\ call[w].op = "ADD"
  BY Zenon DEF AllocateInPool
<1>2. o \in Owners /\ i \in DOMAIN q.pools
  BY <1>1, Zenon DEF Inv, CallInv
<1>3. p \in PoolKeys /\ <<p, o>> \in Keys
  BY <1>2, KeysOfLemma, Zenon
<1>4. c \in AllConfigs \cup {None}
  BY <1>3, Zenon DEF Inv, TypeOK
<1>5. call \in [Workers -> CallType]
  BY Zenon DEF Inv, TypeOK
<1>6. tmp.last[p] \in Addrs \cup {NoIP}
  BY <1>3, ZenonT(30) DEF Inv, TypeOK, Root
<1>7. ASSUME NEW e \in Errors, e # "ok", tmp' = tmp,
             call' = [call EXCEPT ![w].pc = "close", ![w].err = e]
      PROVE  FailsNext(w, e)
  <2>1. call' = [call EXCEPT ![w] = [call[w] EXCEPT !.pc = "close", !.err = e]]
    BY <1>5, <1>7, ZenonT(30)
  <2> QED
    BY <1>1, <1>7, <2>1, Zenon DEF AllocateInPool, FailsNext
<1>8. CASE ConfigErr(c, q) # "ok"
  <2>1. ConfigErr(c, q) \in Errors
    BY Zenon DEF ConfigErr, Errors
  <2> QED
    BY <1>7, <1>8, <2>1, Zenon DEF AllocateInPool
<1>9. CASE ConfigErr(c, q) = "ok"
  <2>1. c \in AllConfigs
    BY <1>4, <1>9, ZenonT(30) DEF ConfigErr
  <2>2. PICK sel \in SelectedIPs(c, q), a \in Addrs \cup {NoIP}, err \in Errors :
           /\ Allocates(tmp, c, <<p, o>>, sel, err, a)
           /\ \/ /\ err # "ok"
                 /\ call' = [call EXCEPT ![w].pc = "close", ![w].err = err]
                 /\ tmp' = tmp
              \/ /\ err = "ok"
                 /\ tmp' = Reserve(tmp, <<p, o>>, a, IF sel = NoIP THEN a ELSE tmp.last[p])
                 /\ LET got == [call[w].got EXCEPT ![p] = a]
                        e == FirstErr(RoutesErr(c, q), RequestedErr(q, i, got))
                        done == e # "ok" \/ i = Len(q.pools)
                    IN call' = [call EXCEPT
                         ![w].pc = IF done THEN "close" ELSE "run",
                         ![w].i = IF done THEN i ELSE i + 1,
                         ![w].err = e, ![w].got = got]
    BY <1>9, ZenonT(30) DEF AllocateInPool
  <2>3. CASE err # "ok"
    BY <1>7, <2>2, <2>3, ZenonT(30)
  <2>4. CASE err = "ok"
    <3> DEFINE got == [call[w].got EXCEPT ![p] = a]
               e == FirstErr(RoutesErr(c, q), RequestedErr(q, i, got))
               l == IF sel = NoIP THEN a ELSE tmp.last[p]
    <3>1. a \in Addrs /\ ReserveErr(tmp, <<p, o>>, a) = "ok"
      <4>1. Allocates(tmp, c, <<p, o>>, sel, "ok", a)
        BY <2>2, <2>4, ZenonT(30)
      <4> HIDE DEF c, p, o
      <4> QED
        BY <2>1, <4>1, AllocatesLemma, Zenon
    <3>2. e \in Errors
      BY ZenonT(30) DEF FirstErr, RoutesErr, RequestedErr, Errors
    <3>3. l \in Addrs \cup {NoIP}
      BY <1>6, ZenonT(30)
    <3>4. /\ tmp' = Reserve(tmp, <<p, o>>, a, l)
          /\ call' = [call EXCEPT ![w].pc = IF e # "ok" \/ i = Len(q.pools) THEN "close" ELSE "run",
                                  ![w].i = IF e # "ok" \/ i = Len(q.pools) THEN i ELSE i + 1,
                                  ![w].err = e, ![w].got = got]
      BY <2>2, <2>4, ZenonT(30)
    <3>7. e = "ok" => RequestedErr(q, i, got) = "ok"
      BY Zenon DEF FirstErr
    <3> HIDE DEF e, l
    <3>5. ReservesRaw(w, p, a, l, e)
      BY <1>1, <3>1, <3>4, <3>7, ZenonT(30) DEF AllocateInPool, ReservesRaw
    <3>6. ReservesNext(w, p, a, l)
      BY <1>3, <3>1, <3>2, <3>5, ReservesNextLemma, Zenon
    <3> QED
      BY <1>3, <3>1, <3>3, <3>6, Zenon
  <2> QED
    BY <2>3, <2>4, Zenon
<1> QED
  BY <1>8, <1>9, Zenon

\* One turn of the loop of allocate keeps the invariant.
LEMMA AllocateInPoolStep ==
  ASSUME Inv, NEW w \in Workers, AllocateInPool(w)
  PROVE  Inv'
  BY AllocateInPoolCases, AllocateFailsStep, AllocateReservesStep, Zenon
-----------------------------------------------------------------------------
(***************************************************************************)
(* The steps of the cleaner keep Inv, Inv is an inductive invariant of     *)
(* NodeDaemon, and what follows from it.                                   *)
(***************************************************************************)

\* The conjuncts of the invariant that are alike for all cleaner steps.
LEMMA CleanerFrame ==
  ASSUME Inv, up, lock \in {None, Cleaner}, lock' \in {None, Cleaner},
         UNCHANGED <<up, cfg, call, api, cache, unborn, held, gone>>,
         scan' \in SUBSET Keys, lock' # Cleaner => scan' = {},
         stale' \in [Keys -> 0 .. CheckCount + 1],
         disk' \in Root, persisted' = disk', tmp' \in Root,
         UniqueIPs(disk'), UniqueIPs(tmp'), WellFormed(disk'), WellFormed(tmp'),
         \A k \in Keys : Alive(k[2]) => stale'[k] = 0,
         \A k \in Keys : PodOf[k[2]] \in unborn =>
             stale'[k] = 0 /\ k \notin scan' /\ ~Present(disk', k) /\ ~Present(tmp', k),
         \A k \in Keys : \A a : /\ Alive(k[2]) /\ a # NoIP /\ Holds(disk, k, a)
                                /\ lock # None => Holds(tmp, k, a)
                                => /\ Holds(disk', k, a)
                                   /\ lock' # None => Holds(tmp', k, a),
         \A k \in Keys : /\ ~Active(disk, k)
                         /\ lock # None => ~Active(tmp, k)
                         => /\ ~Active(disk', k)
                            /\ lock' # None => ~Active(tmp', k)
  PROVE  Inv'
<1>1. \A v \in Workers : ~Passed(v) /\ call[v].pc \notin {"run", "close"} /\ lock # v /\ lock' # v
  BY LockLemma, NoneAssumption, CleanerAssumption, ZenonT(30)
<1>2. \A v \in Workers : ~Passed(v)'
  BY <1>1, ZenonT(30) DEF Passed
<1>3. \A x : Alive(x)' <=> Alive(x)
  BY ZenonT(30) DEF Alive
<1>4. \A v \in Workers, k \in Keys : Granted(v, k)' => Granted(v, k)
  BY <1>3, ZenonT(30) DEF Granted
<1>5. \A o \in Owners : Deleted(o)' => Deleted(o)
  BY ZenonT(30) DEF Deleted
<1>6. TypeOK'
  BY ZenonT(30) DEF Inv, TypeOK
<1>7. SessionInv'
  BY <1>1, ZenonT(30) DEF Inv, SessionInv
<1>8. StoreInv'
  BY ZenonT(30) DEF StoreInv
<1>9. CallInv'
  BY <1>1, <1>2, ZenonT(30) DEF Inv, CallInv
<1>10. AddInv'
  BY <1>2, ZenonT(30) DEF AddInv
<1>11. PodInv'
  BY <1>3, ZenonT(30) DEF Inv, PodInv
<1>12. HeldInv'
  <2>1. ASSUME NEW k \in Keys, held'[k] # NoIP
        PROVE  Holds(disk', k, held'[k]) /\ (lock' # None => Holds(tmp', k, held'[k]))
    <3>1. Alive(k[2]) /\ held'[k] = held[k]
      BY <2>1, ZenonT(30) DEF Inv, PodInv
    <3> QED
      BY <2>1, <3>1, ZenonT(30) DEF Inv, HeldInv
  <2>2. ASSUME NEW v \in Workers, NEW k \in Keys, Granted(v, k)'
        PROVE  /\ call'[v].got[k[1]] # NoIP
               /\ Holds(disk', k, call'[v].got[k[1]])
               /\ lock' # None => Holds(tmp', k, call'[v].got[k[1]])
    <3>1. Granted(v, k) /\ call'[v] = call[v]
      BY <1>4, <2>2, ZenonT(30)
    <3>2. Alive(k[2])
      <4>1. call[v].owner \in Owners /\ k \in KeysOf(call[v].owner) /\ Alive(call[v].owner)
        BY <3>1, ZenonT(30) DEF Granted, Inv, CallInv
      <4> QED
        BY <4>1, KeysOfLemma, ZenonT(30)
    <3> QED
      BY <3>1, <3>2, ZenonT(30) DEF Inv, HeldInv
  <2> QED
    BY <2>1, <2>2, ZenonT(30) DEF HeldInv
<1>13. DelInv'
  <2>1. \A v \in Workers : ~(call[v].pc = "close" /\ call[v].err = "ok")
    BY <1>1, ZenonT(30)
  <2> QED
    BY <1>2, <2>1, ZenonT(30) DEF Inv, DelInv
<1>14. GoneInv'
  <2>1. ASSUME NEW o \in Owners, Deleted(o), NEW k \in KeysOf(o)
        PROVE  ~Active(disk', k) /\ (lock' # None => ~Active(tmp', k))
    <3>1. k \in Keys /\ ~Active(disk, k) /\ (lock # None => ~Active(tmp, k))
      BY <2>1, KeysOfLemma, ZenonT(30) DEF Inv, GoneInv
    <3> QED
      BY <3>1, ZenonT(30)
  <2> QED
    BY <1>2, <1>5, <2>1, ZenonT(30) DEF Inv, GoneInv
<1> QED
  BY <1>6, <1>7, <1>8, <1>9, <1>10, <1>11, <1>12, <1>13, <1>14, Zenon DEF Inv

\* The cleaner's session starts as a copy of the file.
LEMMA CleanerOpenStep ==
  ASSUME Inv, CleanerOpen
  PROVE  Inv'
<1>1. /\ up /\ lock = None /\ lock' = Cleaner /\ disk' = disk /\ persisted' = persisted
      /\ persisted = disk /\ tmp' = disk /\ stale' = stale
      /\ scan' = {k \in Keys : Present(disk, k)}
      /\ UNCHANGED <<up, cfg, call, api, cache, unborn, held, gone>>
  BY Zenon DEF CleanerOpen, OpenSession, Inv, SessionInv
<1>2. /\ disk \in Root /\ UniqueIPs(disk) /\ WellFormed(disk)
      /\ stale \in [Keys -> 0 .. CheckCount + 1]
  BY Zenon DEF Inv, TypeOK, StoreInv
<1>3. /\ \A k \in Keys : Alive(k[2]) => stale[k] = 0
      /\ \A k \in Keys : PodOf[k[2]] \in unborn => stale[k] = 0 /\ ~Present(disk, k)
  BY Zenon DEF Inv, PodInv
<1>4. \A k \in Keys : PodOf[k[2]] \in unborn => k \notin scan'
  BY <1>1, <1>3, Zenon
<1> QED
  BY <1>1, <1>2, <1>3, <1>4, CleanerFrame, Zenon

\* A Pod that cannot be read ends the session.
LEMMA CleanerReadErrorStep ==
  ASSUME Inv, NEW k \in Keys, CleanerReadError(k)
  PROVE  Inv'
<1>1. /\ lock = Cleaner /\ lock' = None /\ disk' = disk /\ persisted' = persisted
      /\ tmp' = NewRoot /\ stale' = stale /\ scan' = {} /\ Cleaner # None
      /\ UNCHANGED <<up, cfg, call, api, cache, unborn, held, gone>>
  BY NoneAssumption, Zenon DEF CleanerReadError, Cancel, Unlock
<1>2. up /\ persisted = disk
  BY <1>1, Zenon DEF Inv, SessionInv
<1>3. /\ disk \in Root /\ UniqueIPs(disk) /\ WellFormed(disk)
      /\ stale \in [Keys -> 0 .. CheckCount + 1]
  BY Zenon DEF Inv, TypeOK, StoreInv
<1>4. /\ \A j \in Keys : Alive(j[2]) => stale[j] = 0
      /\ \A j \in Keys : PodOf[j[2]] \in unborn => stale[j] = 0 /\ ~Present(disk, j)
  BY Zenon DEF Inv, PodInv
<1>5. NewRoot \in Root /\ UniqueIPs(NewRoot) /\ WellFormed(NewRoot) /\ \A j \in Keys : ~Present(NewRoot, j)
  BY NewRootLemma, ZenonT(30) DEF NewRoot, Present, Absent
<1> QED
  BY <1>1, <1>2, <1>3, <1>4, <1>5, CleanerFrame, Zenon

\* One reservation is looked at: its counter runs only without its Pod.
LEMMA CleanerScanStep ==
  ASSUME Inv, NEW k \in Keys, CleanerScan(k)
  PROVE  Inv'
<1> DEFINE r == tmp.entries[k]
<1>1. /\ lock = Cleaner /\ lock' = Cleaner /\ disk' = disk /\ persisted' = persisted
      /\ Cleaner # None /\ k \in scan /\ scan' = scan \ {k}
      /\ UNCHANGED <<up, cfg, call, api, cache, unborn, held, gone>>
  BY NoneAssumption, Zenon DEF CleanerScan
<1>2. up /\ persisted = disk
  BY <1>1, Zenon DEF Inv, SessionInv
<1>3. /\ disk \in Root /\ UniqueIPs(disk) /\ WellFormed(disk) /\ scan \subseteq Keys
      /\ tmp \in Root /\ UniqueIPs(tmp) /\ WellFormed(tmp)
      /\ stale \in [Keys -> 0 .. CheckCount + 1]
  BY Zenon DEF Inv, TypeOK, StoreInv
<1>4. /\ \A j \in Keys : Alive(j[2]) => stale[j] = 0
      /\ \A j \in Keys : PodOf[j[2]] \in unborn =>
           stale[j] = 0 /\ ~Present(disk, j) /\ ~Present(tmp, j) /\ j \notin scan
  BY Zenon DEF Inv, PodInv
<1>5. /\ tmp' \in Root /\ UniqueIPs(tmp') /\ WellFormed(tmp')
      /\ \A j \in Keys : tmp'.entries[j].ip \in {tmp.entries[j].ip, NoIP}
      /\ \A j \in Keys : tmp'.entries[j] = tmp.entries[j] \/ (~Active(tmp', j) /\ j = k /\ IsReleased(r))
  <2>1. CASE Expired(r)
    <3>1. tmp' = ReleaseAll(tmp, {k})
      BY <2>1, ZenonT(30) DEF CleanerScan
    <3>2. IsReleased(r)
      BY <2>1, Zenon DEF Expired
    <3> QED
      BY <1>3, <3>1, <3>2, ReleaseAllLemma
  <2>2. CASE ~Expired(r)
    BY <1>3, <2>2, ZenonT(30) DEF CleanerScan
  <2> QED
    BY <2>1, <2>2, Zenon
<1>6. \A j \in Keys : Present(tmp', j) => Present(tmp, j)
  BY <1>5, ZenonT(30) DEF Present
<1>7. \A j \in Keys : /\ \A a : Holds(tmp, j, a) => Holds(tmp', j, a)
                      /\ ~Active(tmp, j) => ~Active(tmp', j)
  BY <1>5, SMTT(30) DEF Holds, IsReleased, Active, Present
<1>8. /\ stale' \in [Keys -> 0 .. CheckCount + 1]
      /\ \A j \in Keys : j # k => stale'[j] = stale[j]
      /\ PodFound(k[2]) => stale'[k] = 0
  <2>1. Bumped(stale[k]) \in 0 .. CheckCount + 1
    BY <1>3, CheckCountAssumption DEF Bumped
  <2>2. 0 \in 0 .. CheckCount + 1
    BY CheckCountAssumption
  <2>3. stale' = [stale EXCEPT ![k] = IF IsReleased(r) \/ PodFound(k[2]) THEN 0 ELSE Bumped(stale[k])]
    BY ZenonT(30) DEF CleanerScan
  <2> QED
    BY <1>3, <2>1, <2>2, <2>3, Zenon
<1>9. Alive(k[2]) => PodFound(k[2])
  <2>1. PodOf[k[2]] \in Pods
    BY PodsAssumption, Zenon DEF Keys
  <2> QED
    BY <2>1, NoneAssumption, Zenon DEF Alive, PodFound, CheckPod
<1>10. /\ \A j \in Keys : Alive(j[2]) => stale'[j] = 0
       /\ \A j \in Keys : PodOf[j[2]] \in unborn => stale'[j] = 0 /\ j \notin scan'
  BY <1>1, <1>4, <1>8, <1>9, ZenonT(30)
<1> QED
  BY <1>1, <1>2, <1>3, <1>4, <1>5, <1>6, <1>7, <1>8, <1>10, CleanerFrame, ZenonT(30)

\* The sweep releases reservations of absent Pods only, and removes pools
\* that have no reservation.
LEMMA CleanerFinishStep ==
  ASSUME Inv, NEW ok \in BOOLEAN, CleanerFinish(ok)
  PROVE  Inv'
<1> DEFINE known == {k \in Keys : Present(persisted, k)}
           due == {k \in known : IsStale(stale[k])}
           unused == {p \in EmptyPools(persisted) : cfg[p] = None}
           e == ReleaseAll(tmp, due)
           d == RemovePools(e, unused)
<1>1. /\ lock = Cleaner /\ lock' = None /\ tmp' = NewRoot /\ scan' = {} /\ Cleaner # None
      /\ UNCHANGED <<up, cfg, call, api, cache, unborn, held, gone>>
  BY NoneAssumption, Zenon DEF CleanerFinish, Commit, Unlock
<1>2. up /\ persisted = disk
  BY <1>1, Zenon DEF Inv, SessionInv
<1>3. (disk' = d /\ persisted' = d) \/ (disk' = disk /\ persisted' = persisted)
  BY <1>2, Zenon DEF CleanerFinish, Commit, PersistedOnWriteError
<1>4. stale' = [k \in Keys |-> IF k \in known THEN stale[k] ELSE 0]
  BY Zenon DEF CleanerFinish
<1>5. /\ disk \in Root /\ UniqueIPs(disk) /\ WellFormed(disk)
      /\ tmp \in Root /\ UniqueIPs(tmp) /\ WellFormed(tmp)
      /\ stale \in [Keys -> 0 .. CheckCount + 1]
  BY Zenon DEF Inv, TypeOK, StoreInv
<1>6. /\ \A j \in Keys : Alive(j[2]) => stale[j] = 0
      /\ \A j \in Keys : PodOf[j[2]] \in unborn =>
           stale[j] = 0 /\ ~Present(disk, j) /\ ~Present(tmp, j)
  BY Zenon DEF Inv, PodInv
<1>7. /\ stale' \in [Keys -> 0 .. CheckCount + 1]
      /\ \A j \in Keys : stale[j] = 0 => stale'[j] = 0
  BY <1>4, <1>5, CheckCountAssumption, SMTT(30)
<1>8. \A j \in Keys : Alive(j[2]) => j \notin due
  BY <1>6, CheckCountAssumption, SMTT(30) DEF IsStale
<1>9. \A j \in Keys : Present(disk, j) => j[1] \notin unused
  BY <1>2, Zenon DEF EmptyPools
<1> HIDE DEF known, due, unused
<1>10. /\ e \in Root /\ UniqueIPs(e) /\ WellFormed(e)
       /\ \A j \in Keys : j \notin due => e.entries[j] = tmp.entries[j]
       /\ \A j \in Keys : j \in due => ~Active(e, j)
       /\ \A j \in Keys : e.entries[j].ip \in {tmp.entries[j].ip, NoIP}
  BY <1>5, ReleaseAllLemma, Zenon
<1> HIDE DEF e
<1>11. /\ d \in Root /\ UniqueIPs(d) /\ WellFormed(d)
       /\ \A j \in Keys : j[1] \notin unused => d.entries[j] = e.entries[j]
       /\ \A j \in Keys : j[1] \in unused => d.entries[j] = Absent
  BY <1>10, RemovePoolsLemma, SMTT(30)
<1> HIDE DEF d
<1>12. \A j \in Keys : ~Present(tmp, j) => ~Present(d, j)
  BY <1>10, <1>11, SMTT(30) DEF Present, Absent
<1>13. \A j \in Keys : ~Active(tmp, j) => ~Active(d, j)
  BY <1>10, <1>11 DEF Active, Present, Absent
<1>14. ASSUME NEW j \in Keys, NEW a, Alive(j[2]), a # NoIP, Holds(disk, j, a), Holds(tmp, j, a)
       PROVE  Holds(d, j, a)
  <2>1. j \notin due /\ j[1] \notin unused
    BY <1>8, <1>9, <1>14 DEF Holds, Present
  <2> QED
    BY <1>10, <1>11, <1>14, <2>1, Zenon DEF Holds
<1>15. NewRoot \in Root /\ UniqueIPs(NewRoot) /\ WellFormed(NewRoot) /\ \A j \in Keys : ~Present(NewRoot, j)
  BY NewRootLemma, ZenonT(30) DEF NewRoot, Present, Absent
<1>16. /\ disk' \in Root /\ persisted' = disk' /\ UniqueIPs(disk') /\ WellFormed(disk')
       /\ \A j \in Keys : PodOf[j[2]] \in unborn => ~Present(disk', j)
       /\ \A j \in Keys : \A a : Alive(j[2]) /\ a # NoIP /\ Holds(disk, j, a) /\ Holds(tmp, j, a) => Holds(disk', j, a)
       /\ \A j \in Keys : ~Active(disk, j) /\ ~Active(tmp, j) => ~Active(disk', j)
  BY <1>2, <1>3, <1>5, <1>6, <1>11, <1>12, <1>13, <1>14, Zenon
<1> QED
  BY <1>1, <1>2, <1>6, <1>7, <1>15, <1>16, CleanerFrame, ZenonT(30)
-----------------------------------------------------------------------------
\* Every step of the daemon, its callers and its environment keeps Inv.
LEMMA NextInv ==
  ASSUME Inv, [Next]_vars
  PROVE  Inv'
<1>1. ASSUME NEW w \in Workers, Handler(w)
      PROVE  Inv'
  BY <1>1, OpenStep, AllocateInPoolStep, DeallocateStep, IsAllocatedStep, CloseSessionStep,
     ReplyStep, Zenon DEF Handler
<1>2. CASE CleanerStep
  BY <1>2, CleanerOpenStep, CleanerScanStep, CleanerReadErrorStep, CleanerFinishStep, Zenon DEF CleanerStep
<1>3. CASE Environment
  <2>1. CASE Start \/ Crash \/ Tick
    BY <2>1, StartStep, CrashStep, TickStep, Zenon
  <2>2. ASSUME NEW w \in Workers, ClientTimeout(w)
        PROVE  Inv'
    BY <2>2, ClientTimeoutStep, Zenon
  <2>3. ASSUME NEW w \in Workers, NEW o \in Owners, NEW op \in {"ADD", "DEL", "CHECK"}, Arrive(w, op, o)
        PROVE  Inv'
    BY <2>3, ArriveStep, Zenon
  <2>4. ASSUME NEW p \in PoolKeys, RemovePool(p)
        PROVE  Inv'
    BY <2>4, UpdatePoolStep, Zenon DEF RemovePool
  <2>5. ASSUME NEW p \in PoolKeys, NEW c \in Configs[p], UpdatePool(p, c)
        PROVE  Inv'
    <3>1. c \in AllConfigs \cup {None}
      BY Zenon DEF AllConfigs
    <3> QED
      BY <2>5, <3>1, UpdatePoolStep, Zenon
  <2>6. ASSUME NEW pod \in Pods, PodCreate(pod)
        PROVE  Inv'
    BY <2>6, PodCreateStep, Zenon
  <2>7. ASSUME NEW n \in Names, PodDelete(n) \/ CacheSync(n)
        PROVE  Inv'
    BY <2>7, PodDeleteStep, CacheSyncStep, Zenon
  <2> QED
    BY <1>3, <2>1, <2>2, <2>3, <2>4, <2>5, <2>6, <2>7, Zenon DEF Environment
<1>4. CASE UNCHANGED vars
  <2>1. TypeOK' /\ SessionInv' /\ StoreInv' /\ CallInv' /\ AddInv'
    BY <1>4, ZenonT(30) DEF vars, Inv, TypeOK, SessionInv, StoreInv, CallInv, AddInv, Passed
  <2>2. PodInv' /\ HeldInv' /\ DelInv' /\ GoneInv'
    BY <1>4, ZenonT(60) DEF vars, Inv, PodInv, HeldInv, DelInv, GoneInv, Alive, Granted, Deleted, Passed
  <2> QED
    BY <2>1, <2>2, Zenon DEF Inv
<1> QED
  BY <1>1, <1>2, <1>3, <1>4, Zenon DEF Next

\* Inv holds in every state of the daemon, whatever the workers, owners,
\* pools, configurations, Pods and cooldown are.
THEOREM InvTheorem == Spec => []Inv
<1>1. Inv /\ [Next]_vars => Inv'
  BY NextInv, Zenon
<1> QED
  BY InitInv, <1>1, PTL DEF Spec

\* Type correctness of the whole daemon.
THEOREM TypeCorrect == Spec => []TypeOK
<1>1. Inv => TypeOK
  BY Zenon DEF Inv
<1> QED
  BY InvTheorem, <1>1, PTL

\* The store file never has an address twice in a pool (session.Reserve,
\* the releases, RemovePool, failing commits and crashes included).
THEOREM UniqueIPTheorem == Spec => []UniqueIP
<1>1. Inv => UniqueIP
  BY Zenon DEF Inv, StoreInv, UniqueIP
<1> QED
  BY InvTheorem, <1>1, PTL

\* session.Commit leaves memory and file in agreement, also when it fails.
THEOREM MemoryTheorem == Spec => []MemoryMatchesDisk
<1>1. Inv => MemoryMatchesDisk
  BY Zenon DEF Inv, SessionInv, MemoryMatchesDisk
<1> QED
  BY InvTheorem, <1>1, PTL

\* An address a living Pod was given stays reserved for it in the file.
THEOREM HeldTheorem == Spec => []HeldIsReserved
<1>1. ASSUME Inv
      PROVE  HeldIsReserved
  <2>1. ASSUME NEW k \in Keys, held[k] # NoIP
        PROVE  Active(disk, k) /\ disk.entries[k].ip = held[k]
    <3>1. disk.entries[k] = [ip |-> held[k], age |-> NotReleased]
      BY <1>1, <2>1, ZenonT(30) DEF Inv, HeldInv, Holds
    <3> QED
      BY <2>1, <3>1 DEF Active, Present, IsReleased
  <2> QED
    BY <2>1, Zenon DEF HeldIsReserved
<1> QED
  BY InvTheorem, <1>1, PTL

\* No reservation is active behind the answer of a DEL.
THEOREM NoLeakTheorem == Spec => []NoLeakAfterDel
<1>1. Inv => NoLeakAfterDel
  BY Zenon DEF Inv, TypeOK, GoneInv, Deleted, NoLeakAfterDel
<1> QED
  BY InvTheorem, <1>1, PTL
-----------------------------------------------------------------------------
(***************************************************************************)
(* A client gets all the addresses it asks for or none, and what the open  *)
(* session of the store may change of the file.                            *)
(***************************************************************************)

\* Requests name pools and addresses of the model.
LEMMA RequestLemma ==
  ASSUME NEW o \in Owners
  PROVE  /\ \A j \in DOMAIN Request[o].ips : Request[o].ips[j] \in Addrs /\ Request[o].ips[j] # NoIP
         /\ \A j \in DOMAIN Request[o].pools : Request[o].pools[j] \in PoolKeys
         /\ DOMAIN Request[o].pools = 1 .. Len(Request[o].pools) /\ Len(Request[o].pools) \in Nat
<1>1. Request[o].ips \in Seq(Addrs) /\ Request[o].pools \in Seq(PoolKeys)
  BY RequestAssumption, Zenon
<1> QED
  BY <1>1, AddrsAssumption DEF NoIP

\* A step that leaves op, owner and got of a call, and does not turn it into
\* a success, keeps Asked.
LEMMA AskedFrame ==
  ASSUME NEW c, NEW d, Asked(c), d.op = c.op, d.owner = c.owner, d.got = c.got,
         (d.pc \in {"close", "reply"} /\ d.err = "ok") => (c.pc \in {"close", "reply"} /\ c.err = "ok")
  PROVE  Asked(d)
  BY Zenon DEF Asked

\* The last turn of the ADD loop succeeds only with all requested addresses.
LEMMA AskedAllocate ==
  ASSUME NEW c, NEW d, NEW o \in Owners, Asked(c), c.op = "ADD", c.owner = o, d.owner = o,
         NEW i \in DOMAIN Request[o].pools, NEW q, q = Request[o].pools[i], NEW a,
         c.got \in [PoolKeys -> Addrs \cup {NoIP}], d.got = [c.got EXCEPT ![q] = a],
         d.pc \in {"close", "reply"} /\ d.err = "ok" =>
             RequestedErr(Request[o], i, d.got) = "ok" /\ i = Len(Request[o].pools)
  PROVE  Asked(d)
<1>1. \A p \in PoolKeys : d.got[p] # NoIP => <<p, o>> \in KeysOf(o)
  <2> SUFFICES ASSUME NEW p \in PoolKeys, d.got[p] # NoIP PROVE <<p, o>> \in KeysOf(o)
    OBVIOUS
  <2>1. CASE p = q
    BY <2>1, Zenon DEF KeysOf
  <2>2. CASE p # q
    BY <2>2, Zenon DEF Asked
  <2> QED
    BY <2>1, <2>2, Zenon
<1>2. ASSUME d.pc \in {"close", "reply"}, d.err = "ok" PROVE Fulfilled(o, d.got)
  <2> SUFFICES ASSUME NEW j \in DOMAIN Request[o].ips
               PROVE  \E k \in KeysOf(o) : d.got[k[1]] = Request[o].ips[j]
    BY Zenon DEF Fulfilled
  <2>1. PICK p \in PoolKeys : d.got[p] = Request[o].ips[j]
    BY <1>2, Zenon DEF RequestedErr
  <2>2. <<p, o>> \in KeysOf(o) /\ <<p, o>>[1] = p
    BY <1>1, <2>1, RequestLemma, Zenon
  <2> QED
    BY <2>1, <2>2, Zenon
<1> QED
  BY <1>1, <1>2, Zenon DEF Asked

\* One turn of the ADD loop.
LEMMA AskedAllocateStep ==
  ASSUME Inv, AskedInv, NEW w \in Workers, AllocateInPool(w)
  PROVE  AskedInv'
<1>1. /\ call[w] \in CallType /\ call \in [Workers -> CallType] /\ Asked(call[w])
  BY Zenon DEF Inv, TypeOK, AskedInv
<1>2. ASSUME NEW e, FailsNext(w, e) PROVE AskedInv'
  <2>1. e # "ok" /\ call' = [call EXCEPT ![w] = [call[w] EXCEPT !.pc = "close", !.err = e]]
    BY <1>2, Zenon DEF FailsNext
  <2>2. /\ call'[w].op = call[w].op /\ call'[w].owner = call[w].owner /\ call'[w].got = call[w].got
        /\ call'[w].err # "ok" /\ \A v \in Workers : v # w => call'[v] = call[v]
    BY <1>1, <2>1, Zenon DEF CallType
  <2> QED
    BY <2>2, AskedFrame, Zenon DEF AskedInv
<1>3. ASSUME NEW p, NEW a, NEW l, ReservesNext(w, p, a, l) PROVE AskedInv'
  <2> DEFINE o == call[w].owner
             i == call[w].i
  <2>1. /\ call[w].pc = "run" /\ call[w].op = "ADD" /\ p = Request[o].pools[i]
        /\ call'[w].owner = o /\ call'[w].got = [call[w].got EXCEPT ![p] = a]
        /\ call'[w].pc \in {"run", "close"}
        /\ \A v \in Workers : v # w => call'[v] = call[v]
    BY <1>3, Zenon DEF ReservesNext
  <2>2. call'[w].pc = "close" /\ call'[w].err = "ok" =>
           RequestedErr(Request[o], i, call'[w].got) = "ok" /\ i = Len(Request[o].pools)
    BY <1>3, Zenon DEF ReservesNext
  <2>3. o \in Owners /\ i \in DOMAIN Request[o].pools
    BY <2>1, Zenon DEF Inv, CallInv
  <2>4. call[w].got \in [PoolKeys -> Addrs \cup {NoIP}]
    BY <1>1, ZenonT(30) DEF CallType
  <2>5. call'[w].pc \in {"close", "reply"} /\ call'[w].err = "ok" =>
           RequestedErr(Request[o], i, call'[w].got) = "ok" /\ i = Len(Request[o].pools)
    BY <2>1, <2>2, Zenon
  <2> HIDE DEF o, i
  <2>6. Asked(call'[w])
    <3>1. call[w].owner = o
      BY Zenon DEF o
    <3> QED
      BY <3>1, <1>1, <2>1, <2>3, <2>4, <2>5, AskedAllocate, SMTT(30)
  <2> QED
    BY <2>1, <2>6, Zenon DEF AskedInv
<1> QED
  BY <1>2, <1>3, AllocateInPoolCases, Zenon

\* The other handler steps change neither got nor, to a success, the result.
LEMMA AskedHandlerStep ==
  ASSUME Inv, AskedInv, NEW w \in Workers, Handler(w)
  PROVE  AskedInv'
<1>1. call[w] \in CallType /\ call \in [Workers -> CallType]
  BY Zenon DEF Inv, TypeOK
<1>2. CASE Open(w)
  <2>1. /\ call'[w].op = call[w].op /\ call'[w].owner = call[w].owner /\ call'[w].got = call[w].got
        /\ ~(call'[w].pc \in {"close", "reply"} /\ call'[w].err = "ok")
        /\ \A v \in Workers : v # w => call'[v] = call[v]
    BY <1>1, <1>2, Zenon DEF Open, CallType
  <2> QED
    BY <2>1, AskedFrame, Zenon DEF AskedInv
<1>3. CASE Deallocate(w) \/ IsAllocated(w)
  <2>1. call'[w].op # "ADD" /\ \A v \in Workers : v # w => call'[v] = call[v]
    BY <1>1, <1>3, ZenonT(60) DEF Deallocate, IsAllocated, CallType
  <2> QED
    BY <2>1, Zenon DEF AskedInv, Asked
<1>4. ASSUME NEW ok \in BOOLEAN, CloseSession(w, ok) PROVE AskedInv'
  <2>1. call[w].pc = "close"
    BY <1>4, Zenon DEF CloseSession
  <2>2. /\ call'[w].op = call[w].op /\ call'[w].owner = call[w].owner /\ call'[w].got = call[w].got
        /\ call'[w].err = "ok" => call[w].err = "ok"
        /\ \A v \in Workers : v # w => call'[v] = call[v]
    BY <1>1, <1>4 DEF CloseSession, CallType
  <2> QED
    BY <2>1, <2>2, AskedFrame, Zenon DEF AskedInv
<1>5. CASE Reply(w)
  <2>1. call'[w] = Idle /\ \A v \in Workers : v # w => call'[v] = call[v]
    BY <1>1, <1>5, Zenon DEF Reply
  <2> QED
    BY <2>1 DEF AskedInv, Asked, Idle
<1> QED
  BY <1>2, <1>3, <1>4, <1>5, AskedAllocateStep, Zenon DEF Handler

\* A new request has no addresses yet; the environment changes no other.
LEMMA AskedEnvStep ==
  ASSUME Inv, AskedInv, Environment
  PROVE  AskedInv'
<1>1. call \in [Workers -> CallType]
  BY Zenon DEF Inv, TypeOK
<1>2. CASE call' = call
  BY <1>2, ZenonT(30) DEF AskedInv
<1>3. CASE Crash
  BY <1>3, Zenon DEF Crash, AskedInv, Asked, Idle
<1>4. ASSUME NEW w \in Workers, ClientTimeout(w) PROVE AskedInv'
  <2>1. /\ call'[w].op = call[w].op /\ call'[w].owner = call[w].owner /\ call'[w].got = call[w].got
        /\ call'[w].pc = call[w].pc /\ call'[w].err = call[w].err
        /\ \A v \in Workers : v # w => call'[v] = call[v]
    BY <1>1, <1>4, Zenon DEF ClientTimeout, CallType
  <2> QED
    BY <2>1, AskedFrame, ZenonT(60) DEF AskedInv
<1>5. ASSUME NEW w \in Workers, NEW o, NEW op, Arrive(w, op, o) PROVE AskedInv'
  <2>1. /\ call'[w].pc = "open" /\ call'[w].got = NothingGot
        /\ \A v \in Workers : v # w => call'[v] = call[v]
    BY <1>1, <1>5, ZenonT(30) DEF Arrive
  <2> QED
    BY <2>1 DEF AskedInv, Asked, NothingGot
<1> QED
  BY <1>2, <1>3, <1>4, <1>5, ZenonT(30)
     DEF Environment, Start, Tick, RemovePool, UpdatePool, PodCreate, PodDelete, CacheSync

\* Every step keeps AskedInv.
LEMMA AskedStep ==
  ASSUME Inv, AskedInv, [Next]_vars
  PROVE  AskedInv'
<1>1. CASE call' = call
  BY <1>1, Zenon DEF AskedInv
<1>2. CleanerStep \/ UNCHANGED vars => call' = call
  BY Zenon DEF vars, CleanerStep, CleanerOpen, CleanerScan, CleanerReadError, CleanerFinish
<1> QED
  BY <1>1, <1>2, AskedHandlerStep, AskedEnvStep, Zenon DEF Next

\* Addresses of an owner come all at once, and go all at once.
LEMMA RequestedStep ==
  ASSUME Inv, AskedInv, RequestedOrNothing, [Next]_vars
  PROVE  RequestedOrNothing'
<1>1. held \in [Keys -> Addrs \cup {NoIP}] /\ \A o \in Owners : \A k \in KeysOf(o) : k \in Keys /\ k[2] = o
  BY KeysOfLemma, Zenon DEF Inv, TypeOK
<1>2. CASE held' = held
  BY <1>2, Zenon DEF RequestedOrNothing
<1>3. ASSUME NEW P, held' = [k \in Keys |-> IF k[2] \in P THEN NoIP ELSE held[k]]
      PROVE  RequestedOrNothing'
  <2> SUFFICES ASSUME NEW o \in Owners, NEW k \in KeysOf(o), held'[k] # NoIP,
                      NEW i \in DOMAIN Request[o].ips
               PROVE  \E j \in KeysOf(o) : held'[j] = Request[o].ips[i]
    BY Zenon DEF RequestedOrNothing
  <2>1. o \notin P /\ \A j \in KeysOf(o) : held'[j] = held[j]
    BY <1>1, <1>3, Zenon
  <2> QED
    BY <2>1, Zenon DEF RequestedOrNothing
<1>4. ASSUME NEW w \in Workers, Reply(w) PROVE RequestedOrNothing'
  <2> DEFINE c == call[w]
  <2>1. c.owner \in Owners /\ c.pc = "reply" /\ Asked(c)
    BY <1>4, Zenon DEF Reply, Inv, CallInv, AskedInv
  <2>2. CASE held' = held
    BY <1>2, <2>2, Zenon
  <2>3. CASE /\ c.err = "ok" /\ c.op = "ADD"
             /\ held' = [k \in Keys |-> IF k \in KeysOf(c.owner) THEN c.got[k[1]] ELSE held[k]]
    <3>1. Fulfilled(c.owner, c.got)
      BY <2>1, <2>3, Zenon DEF Asked
    <3> HIDE DEF c
    <3> SUFFICES ASSUME NEW o \in Owners, NEW k \in KeysOf(o), held'[k] # NoIP,
                        NEW i \in DOMAIN Request[o].ips
                 PROVE  \E j \in KeysOf(o) : held'[j] = Request[o].ips[i]
      BY Zenon DEF RequestedOrNothing
    <3>2. CASE o = c.owner
      <4>1. \A j \in KeysOf(o) : held'[j] = c.got[j[1]]
        BY <1>1, <2>3, <3>2, Zenon
      <4> QED
        BY <3>1, <3>2, <4>1, Zenon DEF Fulfilled
    <3>3. CASE o # c.owner
      <4>1. \A j \in KeysOf(o) : held'[j] = held[j]
        BY <1>1, <2>1, <2>3, <3>3, ZenonT(60)
      <4> QED
        BY <4>1, Zenon DEF RequestedOrNothing
    <3> QED
      BY <3>2, <3>3, Zenon
  <2> QED
    BY <1>4, <2>2, <2>3, ZenonT(30) DEF Reply
<1>5. ASSUME NEW w \in Workers, NEW o, NEW op, Arrive(w, op, o) PROVE RequestedOrNothing'
  <2>1. held' = [k \in Keys |-> IF op = "DEL" /\ k[2] = o THEN NoIP ELSE held[k]]
    BY <1>5, Zenon DEF Arrive
  <2>2. held' = [k \in Keys |-> IF k[2] \in (IF op = "DEL" THEN {o} ELSE {}) THEN NoIP ELSE held[k]]
    BY <2>1, Zenon
  <2> QED
    BY <1>3, <2>2, Zenon
<1>6. ASSUME NEW n \in Names, PodDelete(n) PROVE RequestedOrNothing'
  <2>1. held' = [k \in Keys |-> IF PodOf[k[2]] = api[n] THEN NoIP ELSE held[k]]
    BY <1>6, Zenon DEF PodDelete
  <2>2. \A k \in Keys : k[2] \in Owners
    BY Zenon DEF Keys
  <2>3. held' = [k \in Keys |-> IF k[2] \in {o \in Owners : PodOf[o] = api[n]} THEN NoIP ELSE held[k]]
    BY <2>1, <2>2, Zenon
  <2> QED
    BY <1>3, <2>3, Zenon
<1>7. CleanerStep \/ UNCHANGED vars => held' = held
  BY Zenon DEF vars, CleanerStep, CleanerOpen, CleanerScan, CleanerReadError, CleanerFinish
<1>8. ASSUME NEW w \in Workers, Handler(w) PROVE held' = held \/ Reply(w)
  BY <1>8, Zenon DEF Handler, Open, AllocateInPool, Deallocate, IsAllocated, CloseSession
<1>9. CASE Environment
  BY <1>2, <1>5, <1>6, <1>9, ZenonT(30)
     DEF Environment, Start, Crash, Tick, ClientTimeout, RemovePool, UpdatePool, PodCreate, CacheSync
<1> QED
  BY <1>2, <1>4, <1>7, <1>8, <1>9, Zenon DEF Next

\* A client that asked for static addresses and was given anything has all of
\* them, for any requests, pools and changes of their configuration.
THEOREM RequestedTheorem == Spec => []RequestedOrNothing
<1>1. Init => AskedInv /\ RequestedOrNothing
  <2> SUFFICES ASSUME Init PROVE AskedInv /\ RequestedOrNothing
    OBVIOUS
  <2>1. AskedInv
    BY Zenon DEF Init, AskedInv, Asked, Idle
  <2>2. \A o \in Owners : \A k \in KeysOf(o) : held[k] = NoIP
    BY KeysOfLemma, Zenon DEF Init
  <2> QED
    BY <2>1, <2>2, Zenon DEF RequestedOrNothing
<1>2. AskedInv /\ RequestedOrNothing /\ Inv /\ [Next]_vars => (AskedInv /\ RequestedOrNothing)'
  BY AskedStep, RequestedStep, Zenon
<1> QED
  BY <1>1, <1>2, InvTheorem, PTL DEF Spec
-----------------------------------------------------------------------------
(***************************************************************************)
(* What a session has changed.                                             *)
(***************************************************************************)

\* What a release makes of a reservation.
LEMMA EndedLemma ==
  ASSUME NEW r \in Reservation, r.ip = NoIP => r = Absent
  PROVE  /\ AfterRelease(r) = r \/ Ended(r, AfterRelease(r))
         /\ Expired(r) /\ r.ip # NoIP => AfterRelease(r) = Absent /\ Ended(r, Absent)
         /\ Expired(r) => r.ip # NoIP
  BY CooldownAssumption DEF AfterRelease, Ended, Reservation, Absent, IsReleased, NotReleased, Expired

\* Time passes for a reservation and for what a session has made of it.
LEMMA OlderEnded ==
  ASSUME NEW r \in Reservation, NEW s \in Reservation
  PROVE  /\ Ended(r, s) => Ended(Older(r), Older(s))
         /\ Expired(r) => Expired(Older(r))
         /\ Older(Absent) = Absent
  BY CooldownAssumption, SMTT(30) DEF Older, Ended, Reservation, Absent, IsReleased, NotReleased, Expired

\* Steps that leave file, session and the calls in the lock alone.
LEMMA LeaseFrame ==
  ASSUME LeaseInv, disk' = disk, tmp' = tmp, lock' = lock,
         \A v \in Workers : Passed(v)' =>
            /\ Passed(v) /\ call'[v].op = call[v].op /\ call'[v].owner = call[v].owner
            /\ call'[v].pc = call[v].pc /\ call'[v].i = call[v].i
  PROVE  LeaseInv'
<1>1. ASSUME NEW v \in Workers, Passed(v)' PROVE Differs(call'[v], disk', tmp')
  <2>1. /\ call'[v].op = call[v].op /\ call'[v].owner = call[v].owner
        /\ call'[v].pc = call[v].pc /\ call'[v].i = call[v].i /\ Differs(call[v], disk, tmp)
    BY <1>1, Zenon DEF LeaseInv
  <2>2. \A k : Reserved(call'[v], k) <=> Reserved(call[v], k)
    BY <2>1, Zenon DEF Reserved
  <2> QED
    BY <2>1, <2>2, ZenonT(30) DEF Differs
<1> QED
  BY <1>1, Zenon DEF LeaseInv

\* Nobody is in the lock.
LEMMA LeaseFree ==
  ASSUME lock' # Cleaner, \A v \in Workers : ~Passed(v)'
  PROVE  LeaseInv'
  BY Zenon DEF LeaseInv

\* The environment.
LEMMA LeaseEnvStep ==
  ASSUME Inv, LeaseInv, Environment
  PROVE  LeaseInv'
<1>1. call \in [Workers -> CallType]
  BY Zenon DEF Inv, TypeOK
<1>2. CASE UNCHANGED <<disk, tmp, lock, call>>
  BY <1>2, LeaseFrame, Zenon DEF Passed
<1>3. CASE Crash
  <2>1. lock' = None /\ \A v \in Workers : call'[v].pc = "idle"
    BY <1>3, Zenon DEF Crash, Idle
  <2> QED
    BY <2>1, LeaseFree, NoneAssumption, Zenon DEF Passed
<1>4. ASSUME NEW w \in Workers, ClientTimeout(w) PROVE LeaseInv'
  <2>1. /\ call'[w].op = call[w].op /\ call'[w].owner = call[w].owner /\ call'[w].i = call[w].i
        /\ call'[w].pc = call[w].pc /\ call'[w].err = call[w].err
        /\ \A v \in Workers : v # w => call'[v] = call[v]
        /\ UNCHANGED <<disk, tmp, lock>>
    BY <1>1, <1>4, ZenonT(60) DEF ClientTimeout, CallType
  <2> QED
    BY <2>1, LeaseFrame, Zenon DEF Passed
<1>5. ASSUME NEW w \in Workers, NEW o, NEW op, Arrive(w, op, o) PROVE LeaseInv'
  <2>1. /\ call'[w].pc = "open" /\ \A v \in Workers : v # w => call'[v] = call[v]
        /\ UNCHANGED <<disk, tmp, lock>>
    BY <1>1, <1>5, Zenon DEF Arrive
  <2>2. ~Passed(w)'
    BY <2>1, Zenon DEF Passed
  <2> QED
    BY <2>1, <2>2, LeaseFrame, Zenon DEF Passed
<1>6. CASE Tick
  <2>1. disk' = Aged(disk) /\ tmp' = Aged(tmp) /\ lock' = lock /\ call' = call
    BY <1>6, Zenon DEF Tick
  <2>2. disk \in Root /\ tmp \in Root
    BY Zenon DEF Inv, TypeOK
  <2>3. \A k \in Keys : /\ disk'.entries[k] = Older(disk.entries[k]) /\ tmp'.entries[k] = Older(tmp.entries[k])
                        /\ disk.entries[k] \in Reservation /\ tmp.entries[k] \in Reservation
                        /\ Older(disk.entries[k]).ip = disk.entries[k].ip
    BY <2>1, <2>2, AgedLemma, OlderLemma, Zenon DEF Root
  <2>4. \A k \in Keys :
          /\ tmp.entries[k] = disk.entries[k] => tmp'.entries[k] = disk'.entries[k]
          /\ disk.entries[k] = Absent => disk'.entries[k] = Absent
          /\ tmp.entries[k] = Absent => tmp'.entries[k] = Absent
          /\ Ended(disk.entries[k], tmp.entries[k]) => Ended(disk'.entries[k], tmp'.entries[k])
          /\ Expired(disk.entries[k]) => Expired(disk'.entries[k])
    BY <2>3, OlderEnded, Zenon
  <2>5. ASSUME NEW v \in Workers, Passed(v)' PROVE Differs(call'[v], disk', tmp')
    <3>1. Passed(v) /\ Differs(call[v], disk, tmp)
      BY <2>1, <2>5, Zenon DEF Passed, LeaseInv
    <3> QED
      BY <2>1, <2>4, <3>1, Zenon DEF Differs
  <2>6. lock' = Cleaner => Purged(disk', tmp')
    BY <2>1, <2>3, <2>4, Zenon DEF LeaseInv, Purged
  <2> QED
    BY <2>5, <2>6, Zenon DEF LeaseInv
<1> QED
  BY <1>2, <1>3, <1>4, <1>5, <1>6, ZenonT(30)
     DEF Environment, Start, RemovePool, UpdatePool, PodCreate, PodDelete, CacheSync

\* The cleaner takes a copy and removes what has expired.
LEMMA LeaseCleanerStep ==
  ASSUME Inv, LeaseInv, CleanerStep
  PROVE  LeaseInv'
<1>1. call' = call
  BY Zenon DEF CleanerStep, CleanerOpen, CleanerScan, CleanerReadError, CleanerFinish
<1>2. lock \in {None, Cleaner}
  BY Zenon DEF CleanerStep, CleanerOpen, OpenSession, CleanerScan, CleanerReadError, CleanerFinish
<1>3. \A v \in Workers : ~Passed(v)'
  BY <1>1, <1>2, LockLemma, NoneAssumption, CleanerAssumption, Zenon DEF Passed
<1>4. Cleaner # None /\ disk \in Root /\ tmp \in Root /\ WellFormed(tmp)
  BY NoneAssumption, ZenonT(30) DEF Inv, TypeOK, StoreInv
<1>5. CASE CleanerOpen
  <2>1. tmp' = disk' /\ lock' = Cleaner
    BY <1>5, Zenon DEF CleanerOpen, OpenSession, Inv, SessionInv
  <2> QED
    BY <1>3, <2>1, Zenon DEF LeaseInv, Purged
<1>6. ASSUME NEW k \in Keys, CleanerScan(k) PROVE LeaseInv'
  <2>1. disk' = disk /\ lock = Cleaner /\ (tmp' = tmp \/ (Expired(tmp.entries[k]) /\ tmp' = ReleaseAll(tmp, {k})))
    BY <1>6, Zenon DEF CleanerScan
  <2>2. Purged(disk, tmp)
    BY <2>1, Zenon DEF LeaseInv
  <2>3. CASE tmp' = tmp
    BY <1>3, <2>1, <2>2, <2>3, Zenon DEF LeaseInv
  <2>4. CASE Expired(tmp.entries[k]) /\ tmp' = ReleaseAll(tmp, {k})
    <3>1. /\ tmp.entries[k] \in Reservation /\ (tmp.entries[k].ip = NoIP => tmp.entries[k] = Absent)
      BY <1>4, Zenon DEF Root, WellFormed
    <3>2. tmp.entries[k].ip # NoIP /\ AfterRelease(tmp.entries[k]) = Absent /\ tmp.entries[k] # Absent
      BY <2>4, <3>1, EndedLemma, SMTT(60) DEF Absent
    <3>3. \A j \in Keys : tmp'.entries[j] = IF j = k THEN Absent ELSE tmp.entries[j]
      BY <1>4, <2>4, <3>2, ReleaseAllLemma
    <3>4. tmp.entries[k] = disk.entries[k]
      BY <2>2, <3>2, Zenon DEF Purged
    <3>5. Purged(disk', tmp')
      BY <2>1, <2>2, <2>4, <3>2, <3>3, <3>4, Zenon DEF Purged
    <3> QED
      BY <1>3, <3>5, Zenon DEF LeaseInv
  <2> QED
    BY <2>1, <2>3, <2>4, Zenon
<1>7. ASSUME NEW k \in Keys, CleanerReadError(k) PROVE LeaseInv'
  BY <1>3, <1>4, <1>7, LeaseFree, Zenon DEF CleanerReadError, Cancel, Unlock
<1>8. ASSUME NEW ok, CleanerFinish(ok) PROVE LeaseInv'
  <2>1. lock' = None
    BY <1>8, Zenon DEF CleanerFinish, Commit, Unlock
  <2> QED
    BY <1>3, <1>4, <2>1, LeaseFree, ZenonT(30)
<1> QED
  BY <1>5, <1>6, <1>7, <1>8, Zenon DEF CleanerStep

\* While a handler has the lock, or nobody has, no other session is open.
LEMMA LeaseAlone ==
  ASSUME NEW w \in Workers, lock' \in {w, None}, \A v \in Workers : v # w => ~Passed(v)',
         Passed(w)' => Differs(call'[w], disk', tmp')
  PROVE  LeaseInv'
<1>1. lock' # Cleaner
  BY NoneAssumption, CleanerAssumption, Zenon
<1> QED
  BY <1>1, Zenon DEF LeaseInv

\* An ADD reserves one more key, which the file does not have.
LEMMA LeaseReserves ==
  ASSUME Inv, LeaseInv, NEW w \in Workers, NEW p \in PoolKeys, NEW a \in Addrs,
         NEW l \in Addrs \cup {NoIP}, ReservesNext(w, p, a, l)
  PROVE  LeaseInv'
<1> DEFINE o == call[w].owner
           i == call[w].i
           k0 == <<p, o>>
           pools == Request[o].pools
<1>1. /\ call[w].pc = "run" /\ call[w].op = "ADD" /\ p = pools[i]
      /\ disk' = disk /\ lock' = lock
      /\ \A v \in Workers : v # w => call'[v] = call[v]
      /\ call'[w].op = "ADD" /\ call'[w].owner = o /\ call'[w].pc \in {"run", "close"}
      /\ call'[w].pc = "run" => call'[w].i = i + 1
      /\ call'[w].pc = "close" /\ call'[w].err = "ok" => i = Len(pools)
  BY ZenonT(30) DEF ReservesNext
<1>2. lock = w /\ Passed(w) /\ \A v \in Workers : v # w => ~Passed(v)
  BY <1>1, LockLemma, Zenon DEF Passed
<1>3. o \in Owners /\ i \in DOMAIN pools /\ k0 \in Keys
  <2>1. o \in Owners /\ i \in DOMAIN pools
    BY <1>1, ZenonT(30) DEF Inv, CallInv
  <2> QED
    BY <2>1, Zenon DEF Keys
<1>4. /\ DOMAIN pools = 1 .. Len(pools) /\ Len(pools) \in Nat
      /\ \A j \in DOMAIN pools : pools[j] \in PoolKeys
  BY <1>3, RequestLemma, Zenon
<1>5. /\ ~Present(tmp, k0)
      /\ \A j \in Keys : j # k0 => tmp'.entries[j] = tmp.entries[j]
  <2>1. tmp \in Root
    BY Zenon DEF Inv, TypeOK
  <2>2. tmp' = Reserve(tmp, k0, a, l) /\ ReserveErr(tmp, k0, a) = "ok"
    BY Zenon DEF ReservesNext
  <2>3. k0 \in Keys
    BY <1>3, Zenon
  <2> HIDE DEF k0
  <2>4. Reserve(tmp, k0, a, l) \in Root /\ ~Present(tmp, k0)
    BY <2>1, <2>2, <2>3, ReserveLemma, Zenon
  <2>5. ASSUME NEW j \in Keys, j # k0 PROVE Reserve(tmp, k0, a, l).entries[j] = tmp.entries[j]
    BY <2>1, <2>3, <2>5, ZenonT(30) DEF Reserve, Root
  <2> QED
    BY <2>2, <2>4, <2>5, Zenon
<1>6. tmp.entries[k0] = Absent
  BY <1>3, <1>5, ZenonT(30) DEF Inv, StoreInv, WellFormed, Present
<1>7. \A k \in Keys : IF Reserved(call[w], k) THEN disk.entries[k] = Absent
                                              ELSE tmp.entries[k] = disk.entries[k]
  BY <1>1, <1>2, Zenon DEF LeaseInv, Differs
<1>8. disk.entries[k0] = Absent
  BY <1>3, <1>6, <1>7, Zenon
<1> HIDE DEF o, i, k0, pools
<1>9. ASSUME Passed(w)', NEW k \in Keys
      PROVE  Reserved(call'[w], k) <=> Reserved(call[w], k) \/ k = k0
  <2>1. \A j \in DOMAIN pools : (j < call'[w].i \/ call'[w].pc = "close") <=> j < i \/ j = i
    <3>1. call'[w].pc = "close" => call'[w].err = "ok"
      BY <1>9, ZenonT(30) DEF Passed
    <3> QED
      BY <1>1, <1>3, <1>4, <3>1, SMTT(30)
  <2>2. Reserved(call[w], k) <=> \E j \in DOMAIN pools : k = <<pools[j], o>> /\ j < i
    BY <1>1, Zenon DEF Reserved, o, i, pools
  <2>3. Reserved(call'[w], k) <=> \E j \in DOMAIN pools : k = <<pools[j], o>> /\ (j < i \/ j = i)
    BY <1>1, <2>1, ZenonT(30) DEF Reserved, o, pools
  <2> QED
    BY <1>1, <1>3, <2>2, <2>3, Zenon DEF k0
<1>10. Passed(w)' => Differs(call'[w], disk', tmp')
  <2> SUFFICES ASSUME Passed(w)' PROVE Differs(call'[w], disk', tmp')
    OBVIOUS
  <2>1. \A k \in Keys : IF Reserved(call'[w], k) THEN disk'.entries[k] = Absent
                                                 ELSE tmp'.entries[k] = disk'.entries[k]
    BY <1>1, <1>5, <1>7, <1>8, <1>9, Zenon
  <2> QED
    BY <1>1, <2>1, ZenonT(30) DEF Differs
<1>11. \A v \in Workers : v # w => ~Passed(v)'
  BY <1>1, <1>2, Zenon DEF Passed
<1> QED
  BY <1>1, <1>2, <1>10, <1>11, LeaseAlone, ZenonT(30)

\* The handlers.
LEMMA LeaseHandlerStep ==
  ASSUME Inv, LeaseInv, NEW w \in Workers, Handler(w)
  PROVE  LeaseInv'
<1>1. /\ call[w] \in CallType /\ call \in [Workers -> CallType]
      /\ disk \in Root /\ tmp \in Root /\ WellFormed(disk) /\ WellFormed(tmp)
  BY Zenon DEF Inv, TypeOK, StoreInv
<1>2. ASSUME lock \in {None, w}, \A v \in Workers : v # w => call'[v] = call[v]
      PROVE  \A v \in Workers : v # w => ~Passed(v)'
  <2> SUFFICES ASSUME NEW v \in Workers, v # w PROVE ~Passed(v)'
    OBVIOUS
  <2>1. lock # v /\ call'[v] = call[v]
    BY <1>2, NoneAssumption, Zenon
  <2>2. ~Passed(v)
    BY <2>1, LockLemma, ZenonT(30)
  <2> QED
    BY <2>1, <2>2, Zenon DEF Passed
<1>3. CASE Open(w)
  <2>1. /\ lock = None /\ lock' = w /\ disk' = disk /\ tmp' = disk /\ call[w].pc = "open"
        /\ \A v \in Workers : v # w => call'[v] = call[v]
        /\ call'[w].op = call[w].op /\ call'[w].owner = call[w].owner /\ call'[w].i = call[w].i
        /\ Passed(w)' => call'[w].pc = "run"
    BY <1>1, <1>3, LockLemma, ZenonT(30) DEF Open, OpenSession, CallType, Passed
  <2>2. call[w].i = 1 /\ call[w].owner \in Owners
    BY <2>1, ZenonT(30) DEF Inv, CallInv
  <2>3. call'[w].pc = "run" => \A k \in Keys : ~Reserved(call'[w], k)
    BY <2>1, <2>2, RequestLemma DEF Reserved
  <2>4. Passed(w)' => Differs(call'[w], disk', tmp')
    BY <2>1, <2>3, Zenon DEF Differs
  <2> QED
    BY <1>2, <2>1, <2>4, LeaseAlone, Zenon
<1>4. CASE AllocateInPool(w)
  <2>1. ASSUME NEW e, FailsNext(w, e) PROVE LeaseInv'
    <3>1. e # "ok" /\ call[w].pc = "run" /\ lock' = lock /\ call' = [call EXCEPT ![w] = [call[w] EXCEPT !.pc = "close", !.err = e]]
      BY <2>1, Zenon DEF FailsNext
    <3>2. ~Passed(w)' /\ \A v \in Workers : v # w => call'[v] = call[v]
      BY <1>1, <3>1, Zenon DEF CallType, Passed
    <3>3. lock = w
      BY <3>1, LockLemma, ZenonT(30)
    <3> QED
      BY <1>2, <3>1, <3>2, <3>3, LeaseAlone, Zenon
  <2> QED
    BY <1>4, <2>1, LeaseReserves, AllocateInPoolCases, Zenon
<1>5. CASE Deallocate(w)
  <2>1. /\ call[w].pc = "run" /\ call[w].op = "DEL" /\ lock' = lock /\ disk' = disk
        /\ tmp' = ReleaseAll(tmp, KeysOf(call[w].owner))
        /\ call'[w].pc = "close" /\ call'[w].op = "DEL" /\ \A v \in Workers : v # w => call'[v] = call[v]
    BY <1>1, <1>5, ZenonT(30) DEF Deallocate, CallType
  <2>2. lock = w /\ Passed(w)
    BY <2>1, LockLemma, ZenonT(30) DEF Passed
  <2>3. \A k \in Keys : tmp.entries[k] = disk.entries[k]
    BY <2>1, <2>2, ZenonT(30) DEF LeaseInv, Differs
  <2>4. ASSUME NEW k \in Keys
        PROVE  tmp'.entries[k] = disk.entries[k] \/ Ended(disk.entries[k], tmp'.entries[k])
    <3>1. tmp'.entries[k] = tmp.entries[k] \/ tmp'.entries[k] = AfterRelease(tmp.entries[k])
      BY <1>1, <2>1, ReleaseAllLemma, ZenonT(30)
    <3>2. disk.entries[k] \in Reservation /\ (disk.entries[k].ip = NoIP => disk.entries[k] = Absent)
      BY <1>1, ZenonT(30) DEF Root, WellFormed
    <3> QED
      BY <2>3, <3>1, <3>2, EndedLemma, ZenonT(30)
  <2>5. Differs(call'[w], disk', tmp')
    BY <2>1, <2>4, ZenonT(30) DEF Differs
  <2> QED
    BY <1>2, <2>1, <2>2, <2>5, LeaseAlone, Zenon
<1>6. CASE IsAllocated(w)
  <2>1. /\ call[w].pc = "run" /\ call[w].op = "CHECK" /\ lock' = lock /\ disk' = disk /\ tmp' = tmp
        /\ call'[w].op = "CHECK" /\ \A v \in Workers : v # w => call'[v] = call[v]
    BY <1>1, <1>6, Zenon DEF IsAllocated, CallType
  <2>2. lock = w /\ Passed(w)
    BY <2>1, LockLemma, Zenon DEF Passed
  <2>3. Differs(call'[w], disk', tmp')
    BY <2>1, <2>2, ZenonT(30) DEF LeaseInv, Differs
  <2> QED
    BY <1>2, <2>1, <2>2, <2>3, LeaseAlone, Zenon
<1>7. ASSUME NEW ok, CloseSession(w, ok) PROVE LeaseInv'
  <2>1. /\ call[w].pc = "close" /\ lock' = None /\ call'[w].pc = "reply"
        /\ \A v \in Workers : v # w => call'[v] = call[v]
    BY <1>1, <1>7 DEF CloseSession, Commit, Cancel, Unlock, CallType
  <2>2. lock = w /\ ~Passed(w)'
    BY <2>1, LockLemma, Zenon DEF Passed
  <2> QED
    BY <1>2, <2>1, <2>2, LeaseAlone, ZenonT(30)
<1>8. CASE Reply(w)
  <2>1. call'[w].pc = "idle" /\ UNCHANGED <<disk, tmp, lock>> /\ \A v \in Workers : v # w => call'[v] = call[v]
    BY <1>1, <1>8, Zenon DEF Reply, Idle
  <2>2. ~Passed(w)'
    BY <2>1, Zenon DEF Passed
  <2> QED
    BY <2>1, <2>2, LeaseFrame, Zenon DEF Passed
<1> QED
  BY <1>3, <1>4, <1>5, <1>6, <1>7, <1>8, ZenonT(30) DEF Handler

\* Every step keeps LeaseInv.
LEMMA LeaseStep ==
  ASSUME Inv, LeaseInv, [Next]_vars
  PROVE  LeaseInv'
<1>1. CASE UNCHANGED vars
  <2>1. UNCHANGED <<disk, tmp, lock, call>>
    BY <1>1, Zenon DEF vars
  <2> QED
    BY <2>1, LeaseFrame, Zenon DEF Passed
<1> QED
  BY <1>1, LeaseHandlerStep, LeaseCleanerStep, LeaseEnvStep, Zenon DEF Next
-----------------------------------------------------------------------------
(***************************************************************************)
(* The node daemon implements the lease table of LeaseTable.               *)
(***************************************************************************)

\* The definitions that LeaseTable takes from StoreData are those of the daemon.
LEMMA LeaseNames ==
  /\ Leases!Keys = Keys /\ Leases!NoIP = NoIP /\ Leases!NotReleased = NotReleased
  /\ Leases!Absent = Absent /\ Leases!Reservation = Reservation
  /\ \A r, s : Leases!Ends(r, s) <=> Ended(r, s)
  /\ \A r : Leases!Older(r) = Older(r)
<1>1. Leases!Keys = Keys /\ Leases!NoIP = NoIP /\ Leases!NotReleased = NotReleased
  BY Zenon DEF Leases!Keys, Leases!NoIP, Leases!NotReleased, Keys, NoIP, NotReleased
<1>2. Leases!Absent = Absent
  BY <1>1, Zenon DEF Leases!Absent, Absent
<1>3. Leases!Reservation = Reservation
  BY <1>1, Zenon DEF Leases!Reservation, Reservation
<1>4. \A r : (Leases!IsReleased(r) <=> IsReleased(r)) /\ (Leases!Expired(r) <=> Expired(r))
  BY <1>1, Zenon DEF Leases!IsReleased, IsReleased, Leases!Expired, Expired
<1>5. \A r, s : Leases!Ends(r, s) <=> Ended(r, s)
  BY <1>1, <1>2, <1>4, Zenon DEF Leases!Ends, Ended
<1>6. \A r : Leases!Older(r) = Older(r)
  BY <1>4, Zenon DEF Leases!Older, Older
<1> QED
  BY <1>1, <1>2, <1>3, <1>5, <1>6, Zenon

\* Reservations may end in a step of the lease table.
LEMMA ReleaseStep ==
  ASSUME disk.entries # disk'.entries, disk'.entries \in [Keys -> Reservation],
         \A k \in Keys : disk'.entries[k] = disk.entries[k] \/ Ended(disk.entries[k], disk'.entries[k])
  PROVE  Leases!Next
<1>1. Leases!Release
  BY LeaseNames, Zenon DEF Leases!Release
<1>2. disk'.entries \in [Leases!Keys -> Leases!Reservation]
  BY LeaseNames, Zenon
<1> QED
  BY <1>1, <1>2, Zenon DEF Leases!Next

\* Time passes in a step of the lease table.
LEMMA ElapseStep ==
  ASSUME disk.entries # disk'.entries, disk'.entries \in [Keys -> Reservation],
         \A k \in Keys : disk'.entries[k] = Older(disk.entries[k])
  PROVE  Leases!Next
<1>1. disk'.entries = [k \in Keys |-> Older(disk.entries[k])]
  OBVIOUS
<1>2. Leases!Elapse
  BY <1>1, LeaseNames, Zenon DEF Leases!Elapse
<1>3. disk'.entries \in [Leases!Keys -> Leases!Reservation]
  BY LeaseNames, Zenon
<1> QED
  BY <1>2, <1>3, Zenon DEF Leases!Next

\* All of an owner's leases are granted in one step of the lease table.
LEMMA GrantStep ==
  ASSUME disk.entries # disk'.entries, disk'.entries \in [Keys -> Reservation], NEW o \in Owners,
         \A k \in KeysOf(o) : /\ disk.entries[k] = Absent
                              /\ disk'.entries[k].ip \in Addrs /\ disk'.entries[k].age = NotReleased
                              /\ \A j \in Keys : j[1] = k[1] => disk.entries[j].ip # disk'.entries[k].ip,
         \A k \in Keys \ KeysOf(o) : disk'.entries[k] = disk.entries[k]
  PROVE  Leases!Next
<1> DEFINE P == [x \in Owners |-> {Request[x].pools[i] : i \in DOMAIN Request[x].pools}]
<1>1. {k \in Keys : k[2] = o /\ k[1] \in P[o]} = KeysOf(o)
  <2>1. P[o] = {Request[o].pools[i] : i \in DOMAIN Request[o].pools}
    OBVIOUS
  <2>2. ASSUME NEW k \in Keys, k[2] = o, k[1] \in P[o] PROVE k \in KeysOf(o)
    <3>1. k = <<k[1], o>>
      BY <2>2 DEF Keys
    <3> QED
      BY <2>1, <2>2, <3>1 DEF KeysOf
  <2>3. ASSUME NEW k \in KeysOf(o) PROVE k \in Keys /\ k[2] = o /\ k[1] \in P[o]
    <3>1. PICK i \in DOMAIN Request[o].pools : k = <<Request[o].pools[i], o>>
      BY Zenon DEF KeysOf
    <3> QED
      BY <2>1, <3>1, KeysOfLemma, Zenon
  <2> QED
    BY <2>2, <2>3, Zenon
<1>2. Leases!Grant(o)
  BY <1>1, LeaseNames, Zenon DEF Leases!Grant
<1>3. disk'.entries \in [Leases!Keys -> Leases!Reservation]
  BY LeaseNames, Zenon
<1> QED
  BY <1>2, <1>3, Zenon DEF Leases!Next

\* The commit of an ADD.
LEMMA CommitAdd ==
  ASSUME Inv, Inv', LeaseInv, NEW w \in Workers, call[w].pc = "close", call[w].err = "ok", call[w].op = "ADD",
         disk' = tmp, disk.entries # disk'.entries
  PROVE  Leases!Next
<1> DEFINE o == call[w].owner
           pools == Request[o].pools
<1>1. o \in Owners /\ Passed(w) /\ disk' \in Root /\ tmp \in Root /\ disk \in Root /\ UniqueIPs(tmp)
  BY ZenonT(30) DEF Passed, Inv, CallInv, TypeOK, StoreInv
<1>2. \A k \in Keys : Reserved(call[w], k) <=> k \in KeysOf(o)
  BY Zenon DEF Reserved, KeysOf
<1>3. \A k \in Keys : IF k \in KeysOf(o) THEN disk.entries[k] = Absent ELSE tmp.entries[k] = disk.entries[k]
  BY <1>1, <1>2, Zenon DEF LeaseInv, Differs
<1>4. ASSUME NEW k \in KeysOf(o)
      PROVE  k \in Keys /\ k[2] = o /\ tmp.entries[k].ip \in Addrs /\ tmp.entries[k].age = NotReleased
  <2>1. k \in Keys /\ k[2] = o
    BY <1>1, KeysOfLemma, Zenon
  <2>2. PICK j \in DOMAIN pools : k = <<pools[j], o>>
    BY Zenon DEF KeysOf
  <2>3. call[w].got[pools[j]] # NoIP /\ Holds(tmp, k, call[w].got[pools[j]])
    BY <1>1, <2>2, Zenon DEF Inv, AddInv
  <2>4. PICK a : a # NoIP /\ tmp.entries[k] = [ip |-> a, age |-> NotReleased]
    BY <2>3, Zenon DEF Holds
  <2>5. tmp.entries[k] \in Reservation
    BY <1>1, <2>1, ZenonT(30) DEF Root
  <2>6. tmp.entries[k].ip # NoIP /\ tmp.entries[k].age = NotReleased
    BY <2>4
  <2>7. tmp.entries[k].ip \in Addrs
    BY <2>5, <2>6, Zenon DEF Reservation
  <2> QED
    BY <2>1, <2>6, <2>7, Zenon
<1>5. ASSUME NEW k \in KeysOf(o), NEW j \in Keys, j[1] = k[1]
      PROVE  disk.entries[j].ip # tmp.entries[k].ip
  <2>1. tmp.entries[k].ip # NoIP
    BY <1>4, AddrsAssumption DEF NoIP
  <2>2. CASE j \in KeysOf(o)
    BY <1>3, <2>1, <2>2 DEF Absent
  <2>3. CASE j \notin KeysOf(o)
    <3>1. tmp.entries[j] = disk.entries[j] /\ j # k
      BY <1>3, <2>3, Zenon
    <3> QED
      BY <1>1, <1>4, <1>5, <2>1, <3>1, ZenonT(30) DEF UniqueIPs, Present
  <2> QED
    BY <2>2, <2>3, Zenon
<1>6. disk'.entries \in [Keys -> Reservation]
  BY <1>1, Zenon DEF Root
<1> HIDE DEF o
<1> QED
  BY <1>1, <1>3, <1>4, <1>5, <1>6, GrantStep, ZenonT(60)

\* The end of a handler's session.
LEMMA CloseSimulates ==
  ASSUME Inv, Inv', LeaseInv, NEW w \in Workers, NEW ok, CloseSession(w, ok), disk.entries # disk'.entries
  PROVE  Leases!Next
<1>1. call[w].pc = "close" /\ call[w].err = "ok" /\ disk' = tmp
  BY Zenon DEF CloseSession, Commits, Commit
<1>2. call[w].op \in {"ADD", "DEL", "CHECK"} /\ Passed(w) /\ disk' \in Root
  BY <1>1, ZenonT(30) DEF Inv, CallInv, TypeOK, Passed
<1>3. Differs(call[w], disk, tmp)
  BY <1>2, ZenonT(30) DEF LeaseInv
<1>4. disk'.entries \in [Keys -> Reservation] /\ disk.entries \in [Keys -> Reservation]
  BY <1>2, Zenon DEF Root, Inv, TypeOK
<1>5. CASE call[w].op = "ADD"
  BY <1>1, <1>5, CommitAdd, ZenonT(30)
<1>6. CASE call[w].op = "DEL"
  <2>1. \A k \in Keys : disk'.entries[k] = disk.entries[k] \/ Ended(disk.entries[k], disk'.entries[k])
    BY <1>1, <1>3, <1>6, ZenonT(30) DEF Differs
  <2> QED
    BY <1>4, <2>1, ReleaseStep, ZenonT(30)
<1>7. CASE call[w].op = "CHECK"
  <2>1. \A k \in Keys : disk'.entries[k] = disk.entries[k]
    BY <1>1, <1>3, <1>7, ZenonT(30) DEF Differs
  <2> QED
    BY <1>4, <2>1
<1> QED
  BY <1>2, <1>5, <1>6, <1>7, Zenon

\* The commit of the cleaner.
LEMMA FinishSimulates ==
  ASSUME Inv, Inv', LeaseInv, NEW ok, CleanerFinish(ok), disk.entries # disk'.entries
  PROVE  Leases!Next
<1> DEFINE due == {k \in {k \in Keys : Present(persisted, k)} : IsStale(stale[k])}
           unused == {p \in EmptyPools(persisted) : cfg[p] = None}
           e == ReleaseAll(tmp, due)
<1>1. lock = Cleaner /\ disk' = RemovePools(e, unused)
  BY ZenonT(30) DEF CleanerFinish, Commit
<1>2. /\ persisted = disk /\ disk \in Root /\ tmp \in Root /\ disk' \in Root
      /\ WellFormed(disk) /\ WellFormed(tmp) /\ Purged(disk, tmp)
  <2>1. up
    BY <1>1, NoneAssumption, Zenon DEF Inv, SessionInv
  <2> QED
    BY <1>1, <2>1, ZenonT(60) DEF Inv, SessionInv, TypeOK, StoreInv, LeaseInv
<1>3. ASSUME NEW k \in Keys
      PROVE  e.entries[k] \in {tmp.entries[k], AfterRelease(tmp.entries[k])} /\ e \in Root
  BY <1>2, ReleaseAllLemma, ZenonT(30)
<1>4. ASSUME NEW k \in Keys, k[1] \in unused PROVE disk.entries[k] = Absent
  BY <1>2, <1>4, Zenon DEF EmptyPools, Present, WellFormed
<1> HIDE DEF e, due, unused
<1>5. ASSUME NEW k \in Keys
      PROVE  disk'.entries[k] = IF k[1] \in unused THEN Absent ELSE e.entries[k]
  <2>1. e \in Root
    BY <1>3, Zenon
  <2>2. /\ k[1] \in unused => RemovePools(e, unused).entries[k] = Absent
        /\ k[1] \notin unused => RemovePools(e, unused).entries[k] = e.entries[k]
    BY <2>1, RemovePoolsLemma, Zenon
  <2> QED
    BY <1>1, <2>2, Zenon
<1>6. ASSUME NEW k \in Keys
      PROVE  disk'.entries[k] = disk.entries[k] \/ Ended(disk.entries[k], disk'.entries[k])
  <2> DEFINE r == disk.entries[k]
             t == tmp.entries[k]
  <2>1. /\ r \in Reservation /\ (r.ip = NoIP => r = Absent)
        /\ t \in Reservation /\ (t.ip = NoIP => t = Absent)
        /\ t = r \/ (Expired(r) /\ r.ip # NoIP /\ t = Absent)
    BY <1>2, ZenonT(30) DEF Root, WellFormed, Purged
  <2>2. CASE k[1] \in unused
    BY <1>4, <1>5, <2>2, ZenonT(30)
  <2>3. CASE k[1] \notin unused
    <3>1. disk'.entries[k] = t \/ disk'.entries[k] = AfterRelease(t)
      BY <1>3, <1>5, <2>3, ZenonT(30)
    <3> HIDE DEF r, t
    <3>2. CASE t = r
      BY <2>1, <3>1, <3>2, EndedLemma, ZenonT(30) DEF r
    <3>3. CASE Expired(r) /\ r.ip # NoIP /\ t = Absent
      <4>1. AfterRelease(Absent) = Absent
        BY Zenon DEF AfterRelease, Absent
      <4> QED
        BY <2>1, <3>1, <3>3, <4>1, EndedLemma, Zenon DEF r
    <3> QED
      BY <2>1, <3>2, <3>3, ZenonT(30)
  <2> QED
    BY <2>2, <2>3, ZenonT(30)
<1>7. disk'.entries \in [Keys -> Reservation]
  BY <1>2, Zenon DEF Root
<1> QED
  BY <1>6, <1>7, ReleaseStep, ZenonT(30)

\* Every step of the daemon is a step of the lease table or leaves it alone.
LEMMA StepSimulates ==
  ASSUME Inv, Inv', LeaseInv, [Next]_vars
  PROVE  [Leases!Next]_(disk.entries)
<1> SUFFICES ASSUME disk'.entries # disk.entries PROVE Leases!Next
  OBVIOUS
<1>1. disk' # disk
  OBVIOUS
<1>2. CASE Tick
  <2>1. disk' = Aged(disk) /\ disk \in Root /\ disk' \in Root
    BY <1>2, Zenon DEF Tick, Inv, TypeOK
  <2>2. disk'.entries \in [Keys -> Reservation]
    BY <2>1, Zenon DEF Root
  <2>3. \A k \in Keys : disk'.entries[k] = Older(disk.entries[k])
    BY <2>1, AgedLemma, Zenon
  <2> QED
    BY <2>2, <2>3, ElapseStep, ZenonT(30)
<1>3. ~UNCHANGED vars
  BY <1>1, Zenon DEF vars
<1>4. ASSUME NEW w \in Workers, Handler(w) PROVE \E ok \in BOOLEAN : CloseSession(w, ok)
  BY <1>1, <1>4, Zenon DEF Handler, Open, AllocateInPool, Deallocate, IsAllocated, Reply
<1>5. ASSUME CleanerStep PROVE \E ok \in BOOLEAN : CleanerFinish(ok)
  BY <1>1, <1>5, Zenon DEF CleanerStep, CleanerOpen, CleanerScan, CleanerReadError
<1>6. ASSUME Environment PROVE Tick
  BY <1>1, <1>6, ZenonT(30)
     DEF Environment, Start, Crash, ClientTimeout, Arrive, RemovePool, UpdatePool, PodCreate, PodDelete, CacheSync
<1> QED
  BY <1>2, <1>3, <1>4, <1>5, <1>6, CloseSimulates, FinishSimulates, Zenon DEF Next

\* The store file, read as a table of leases, behaves as LeaseTable says, for
\* any pools, owners, requests, workers, cooldown and check count: handlers,
\* cleaner, crashes and failing writes show as grants, releases and the
\* passing of time only.
THEOREM LeaseTheorem == Spec => LeaseRefinement
<1>1. Init => LeaseInv /\ Leases!Init
  <2> SUFFICES ASSUME Init PROVE LeaseInv /\ Leases!Init
    OBVIOUS
  <2>1. disk = NewRoot /\ lock = None /\ \A w \in Workers : call[w].pc = "idle"
    BY Zenon DEF Init, Idle
  <2>2. LeaseInv
    BY <2>1, NoneAssumption, ZenonT(30) DEF LeaseInv, Passed
  <2>3. Leases!Init
    BY <2>1, LeaseNames, Zenon DEF Leases!Init, NewRoot
  <2> QED
    BY <2>2, <2>3, Zenon
<1>2. Inv /\ LeaseInv /\ [Next]_vars => LeaseInv'
  BY LeaseStep, Zenon
<1>3. Inv /\ Inv' /\ LeaseInv /\ [Next]_vars => [Leases!Next]_(disk.entries)
  BY StepSimulates, Zenon
<1> QED
  BY <1>1, <1>2, <1>3, InvTheorem, PTL DEF Spec, LeaseRefinement, Leases!Spec
=============================================================================
