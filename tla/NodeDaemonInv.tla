---------------------------- MODULE NodeDaemonInv ----------------------------
(***************************************************************************)
(* The inductive invariant of NodeDaemon.  It strengthens the safety       *)
(* properties with what every session keeps about its copy of the store,   *)
(* and with the order in which calls of one owner pass the store lock.     *)
(***************************************************************************)
EXTENDS NodeDaemon

\* The call holds the lock and what it did to its session may be committed.
Passed(w) == call[w].pc = "run" \/ (call[w].pc = "close" /\ call[w].err = "ok")

\* The key is reserved for its owner with address a.
Holds(d, k, a) == d.entries[k] = [ip |-> a, age |-> NotReleased]

SessionInv ==
    /\ up => persisted = disk
    /\ ~up => lock = None /\ call = [w \in Workers |-> Idle]
    /\ \A w \in Workers : call[w].pc \in {"run", "close"} <=> lock = w
    /\ lock # Cleaner => scan = {}

StoreInv ==
    /\ UniqueIPs(disk) /\ UniqueIPs(tmp)
    /\ WellFormed(disk) /\ WellFormed(tmp)

\* One live call per owner; a call that has passed the lock and was given up
\* by its client is finished before a later call of the owner gets the lock.
CallInv ==
    /\ \A w \in Workers :
          /\ call[w].pc = "idle" => call[w] = Idle
          /\ call[w].pc # "idle" =>
                /\ call[w].owner \in Owners
                /\ call[w].op \in {"ADD", "DEL", "CHECK"}
                /\ call[w].i \in DOMAIN Request[call[w].owner].pools
          /\ call[w].pc = "open" => call[w].i = 1
          /\ call[w].pc \in {"open", "run"} => call[w].err = "ok"
    /\ \A v, w \in Workers :
          (v # w /\ call[v].pc # "idle" /\ call[v].owner = call[w].owner /\ call[v].live) =>
              /\ ~call[w].live
              /\ Passed(w) => call[v].pc = "open"

\* What an ADD has reserved so far is in its session.
AddInv ==
    \A w \in Workers : (Passed(w) /\ call[w].op = "ADD") =>
        \A j \in DOMAIN Request[call[w].owner].pools :
            LET p == Request[call[w].owner].pools[j]
            IN (j < call[w].i \/ call[w].pc = "close") =>
                  /\ call[w].got[p] # NoIP
                  /\ Holds(tmp, <<p, call[w].owner>>, call[w].got[p])

\* Counters run only for Pods that are gone; Pods to come have no traces.
PodInv ==
    /\ \A n \in Names : api[n] # None => NameOf[api[n]] = n /\ api[n] \notin unborn
    /\ \A k \in Keys : Alive(k[2]) => stale[k] = 0
    /\ \A k \in Keys : PodOf[k[2]] \in unborn =>
          /\ stale[k] = 0 /\ k \notin scan
          /\ ~Present(disk, k) /\ ~Present(tmp, k)
    /\ \A w \in Workers : call[w].op = "ADD" => PodOf[call[w].owner] \notin unborn
    /\ \A k \in Keys : held[k] # NoIP => Alive(k[2])

\* The answer of an ADD is on its way to a client that will use it.
Granted(w, k) ==
    /\ call[w].pc = "reply" /\ call[w].op = "ADD" /\ call[w].err = "ok" /\ call[w].live
    /\ Alive(call[w].owner) /\ k \in KeysOf(call[w].owner)

\* What clients hold, or are about to, is reserved for them, in the file and
\* in the session that may be written next.
HeldInv ==
    /\ \A k \in Keys : held[k] # NoIP =>
          /\ Holds(disk, k, held[k])
          /\ lock # None => Holds(tmp, k, held[k])
    /\ \A w \in Workers, k \in Keys : Granted(w, k) =>
          /\ call[w].got[k[1]] # NoIP
          /\ Holds(disk, k, call[w].got[k[1]])
          /\ lock # None => Holds(tmp, k, call[w].got[k[1]])

\* A DEL that may still take effect has no client using the addresses.
DelInv ==
    \A w \in Workers : call[w].op = "DEL" =>
        /\ Passed(w) \/ (call[w].pc = "open" /\ call[w].live) =>
              \A k \in Keys : k[2] = call[w].owner => held[k] = NoIP
        /\ call[w].pc = "close" /\ call[w].err = "ok" =>
              \A k \in KeysOf(call[w].owner) : ~Active(tmp, k)

\* A DEL of the owner has succeeded and no ADD came after it.
Deleted(o) ==
    \/ o \in gone
    \/ \E w \in Workers : /\ call[w].pc = "reply" /\ call[w].op = "DEL" /\ call[w].err = "ok"
                          /\ call[w].live /\ call[w].owner = o

GoneInv ==
    \A o \in Owners : Deleted(o) =>
        /\ \A k \in KeysOf(o) : ~Active(disk, k) /\ (lock # None => ~Active(tmp, k))
        /\ \A w \in Workers : (call[w].op = "ADD" /\ call[w].owner = o) => ~Passed(w) /\ ~call[w].live

Inv ==
    /\ TypeOK /\ SessionInv /\ StoreInv /\ CallInv /\ AddInv
    /\ PodInv /\ HeldInv /\ DelInv /\ GoneInv
-----------------------------------------------------------------------------
(***************************************************************************)
(* What the proofs of RequestedOrNothing and LeaseRefinement need beside   *)
(* Inv.                                                                    *)
(***************************************************************************)

\* Every address the owner asked for is in got.
Fulfilled(o, got) ==
    \A j \in DOMAIN Request[o].ips : \E k \in KeysOf(o) : got[k[1]] = Request[o].ips[j]

\* An ADD has addresses only in the pools it asks for, and a successful one
\* has all the addresses it asks for.
Asked(c) ==
    c.op = "ADD" =>
        /\ \A p \in PoolKeys : c.got[p] # NoIP => <<p, c.owner>> \in KeysOf(c.owner)
        /\ c.pc \in {"close", "reply"} /\ c.err = "ok" => Fulfilled(c.owner, c.got)

AskedInv == \A w \in Workers : Asked(call[w])

\* The ADD c has reserved the key in its session.
Reserved(c, k) ==
    \E j \in DOMAIN Request[c.owner].pools :
        k = <<Request[c.owner].pools[j], c.owner>> /\ (j < c.i \/ c.pc = "close")

\* Reservation r was released and is now s.
Ended(r, s) ==
    /\ r.ip # NoIP
    /\ \/ Cooldown > 0 /\ ~IsReleased(r) /\ s.ip = r.ip /\ s.age \in 0 .. Cooldown
       \/ (Cooldown = 0 \/ Expired(r)) /\ s = Absent

\* How the copy t of the session of call c differs from the file d.
Differs(c, d, t) ==
    /\ c.op = "ADD" =>
          \A k \in Keys : IF Reserved(c, k) THEN d.entries[k] = Absent
                                            ELSE t.entries[k] = d.entries[k]
    /\ c.op = "DEL" /\ c.pc = "close" =>
          \A k \in Keys : t.entries[k] = d.entries[k] \/ Ended(d.entries[k], t.entries[k])
    /\ c.op = "CHECK" \/ (c.op = "DEL" /\ c.pc = "run") =>
          \A k \in Keys : t.entries[k] = d.entries[k]

\* The copy t of the cleaner lacks expired reservations of the file d.
Purged(d, t) ==
    \A k \in Keys : \/ t.entries[k] = d.entries[k]
                    \/ Expired(d.entries[k]) /\ d.entries[k].ip # NoIP /\ t.entries[k] = Absent

LeaseInv ==
    /\ \A w \in Workers : Passed(w) => Differs(call[w], disk, tmp)
    /\ lock = Cleaner => Purged(disk, tmp)
=============================================================================
