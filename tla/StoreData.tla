------------------------------ MODULE StoreData ------------------------------
(***************************************************************************)
(* The data of the node daemon's store and what the operations of a store  *)
(* session do to it: pkg/ipam-node/store/store.go and                      *)
(* pkg/ipam-node/types/types.go.                                           *)
(*                                                                         *)
(* A key is a pool and an owner, the owner being the pair (container id,   *)
(* interface name) that getKey joins.  entries maps every key to a slot;   *)
(* a slot without an address is a key missing from the Go map.  age is the *)
(* time since ReleasedAt in ticks, cut off at Cooldown (no later moment is *)
(* told apart from it), and NotReleased for a zero ReleasedAt.             *)
(***************************************************************************)
EXTENDS IPRange

CONSTANTS
    PoolKeys,   \* keys of common.GetPoolKey
    Owners,     \* (container id, interface name) pairs
    Addrs,      \* addresses, as natural numbers
    Cooldown    \* --released-ip-cooldown, in ticks

ASSUME AddrsAssumption == Addrs \subseteq Nat
ASSUME CooldownAssumption == Cooldown \in Nat

Keys == PoolKeys \X Owners

NotReleased == -1

Reservation == [ip : Addrs \cup {NoIP}, age : {NotReleased} \cup 0 .. Cooldown]

Absent == [ip |-> NoIP, age |-> NotReleased]

Root ==
    [entries : [Keys -> Reservation],
     pools   : SUBSET PoolKeys,
     last    : [PoolKeys -> Addrs \cup {NoIP}]]

NewRoot ==
    [entries |-> [k \in Keys |-> Absent],
     pools   |-> {},
     last    |-> [p \in PoolKeys |-> NoIP]]
-----------------------------------------------------------------------------
Present(d, k) == d.entries[k].ip # NoIP

IsReleased(r) == r.age # NotReleased

\* GetReservationByID finds the reservation.
Active(d, k) == Present(d, k) /\ ~IsReleased(d.entries[k])

\* Mutant: a released reservation no longer blocks its address.
ReservedIPsActive(d, p) == {d.entries[k].ip : k \in {k \in Keys : k[1] = p /\ Active(d, k)}}

\* The addresses that block Reserve: a reservation that is cooling down
\* counts like an active one.
ReservedIPs(d, p) == {d.entries[k].ip : k \in {k \in Keys : k[1] = p /\ Present(d, k)}}

\* The error of session.Reserve, as the code specificError gives it.
ReserveErr(d, k, a) ==
    IF Present(d, k) THEN "AlreadyExists"
    ELSE IF a \in ReservedIPs(d, k[1]) THEN "ResourceExhausted"
    ELSE "ok"

\* session.Reserve without an error; last is the LastReservedIP it leaves.
Reserve(d, k, a, last) ==
    [entries |-> [d.entries EXCEPT ![k] = [ip |-> a, age |-> NotReleased]],
     pools   |-> d.pools \cup {k[1]},
     last    |-> [d.last EXCEPT ![k[1]] = last]]

Expired(r) == IsReleased(r) /\ r.age >= Cooldown

\* Mutant: a second release restarts the cooldown.
AfterReleaseRestarting(r) ==
    IF r.ip = NoIP \/ Cooldown = 0 \/ Expired(r) THEN Absent ELSE [r EXCEPT !.age = 0]

\* ReleaseReservationByID on one slot: nothing to release, still cooling
\* down, removed, or marked as released now.
AfterRelease(r) ==
    IF r.ip = NoIP THEN r
    ELSE IF Cooldown > 0 /\ IsReleased(r) /\ ~Expired(r) THEN r
    ELSE IF Cooldown = 0 \/ Expired(r) THEN Absent
    ELSE [r EXCEPT !.age = 0]

\* ReleaseReservationByID for every key of K.
ReleaseAll(d, K) ==
    [d EXCEPT !.entries =
        [k \in Keys |-> IF k \in K THEN AfterRelease(d.entries[k]) ELSE d.entries[k]]]

EmptyPools(d) == {p \in d.pools : \A k \in Keys : k[1] = p => ~Present(d, k)}

\* RemovePool for every pool of P: the entries and LastReservedIP go.
RemovePools(d, P) ==
    [entries |-> [k \in Keys |-> IF k[1] \in P THEN Absent ELSE d.entries[k]],
     pools   |-> d.pools \ P,
     last    |-> [p \in PoolKeys |-> IF p \in P THEN NoIP ELSE d.last[p]]]

\* One tick of time.Now().
Older(r) == IF IsReleased(r) /\ r.age < Cooldown THEN [r EXCEPT !.age = @ + 1] ELSE r

Aged(d) == [d EXCEPT !.entries = [k \in Keys |-> Older(d.entries[k])]]
-----------------------------------------------------------------------------
\* No two reservations of a pool share an address, released ones included.
UniqueIPs(d) ==
    \A j, k \in Keys :
        /\ j[1] = k[1]
        /\ Present(d, j) /\ Present(d, k)
        /\ d.entries[j].ip = d.entries[k].ip
        => j = k

\* A missing entry carries no release time.
WellFormed(d) == \A k \in Keys : d.entries[k].ip = NoIP => d.entries[k] = Absent
=============================================================================
