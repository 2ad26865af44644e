------------------------------ MODULE LeaseTable ------------------------------
(***************************************************************************)
(* What the node daemon promises its callers, without sessions, files,     *)
(* locks, crashes or the cleaner: a table of address leases that changes   *)
(* in three ways.  NodeDaemon is shown to implement it with the table read *)
(* off the store file.                                                     *)
(***************************************************************************)
EXTENDS StoreData

CONSTANT PoolsOf   \* the pools an owner asks for, all of them in one request

VARIABLE lease

Init == lease = [k \in Keys |-> Absent]

\* The owner gets one address in every pool it asks for or in none; no other
\* lease of those pools has it.
Grant(o) ==
    LET asked == {k \in Keys : k[2] = o /\ k[1] \in PoolsOf[o]}
    IN /\ \A k \in asked :
             /\ lease[k] = Absent
             /\ lease'[k].ip \in Addrs /\ lease'[k].age = NotReleased
             /\ \A j \in Keys : j[1] = k[1] => lease[j].ip # lease'[k].ip
       /\ \A k \in Keys \ asked : lease'[k] = lease[k]

\* A lease r may become s: marked as released while the cooldown lasts,
\* forgotten after it, and never anything else.
Ends(r, s) ==
    /\ r.ip # NoIP
    /\ \/ Cooldown > 0 /\ ~IsReleased(r) /\ s.ip = r.ip /\ s.age \in 0 .. Cooldown
       \/ (Cooldown = 0 \/ Expired(r)) /\ s = Absent

Release ==
    \A k \in Keys : lease'[k] = lease[k] \/ Ends(lease[k], lease'[k])

Elapse == lease' = [k \in Keys |-> Older(lease[k])]

Next ==
    /\ lease' # lease
    /\ lease' \in [Keys -> Reservation]
    /\ Release \/ Elapse \/ \E o \in Owners : Grant(o)

Spec == Init /\ [][Next]_lease
=============================================================================
