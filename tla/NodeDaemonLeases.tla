--------------------------- MODULE NodeDaemonLeases ---------------------------
(***************************************************************************)
(* The node daemon implements the lease table of LeaseTable.               *)
(***************************************************************************)
EXTENDS NodeDaemonInv

Leases == INSTANCE LeaseTable
    WITH lease <- disk.entries,
         PoolsOf <- [o \in Owners |-> {Request[o].pools[i] : i \in DOMAIN Request[o].pools}]

\* Read off the store file, the daemon is the lease table of LeaseTable: a
\* request for two pools gets both addresses or none, a reservation only
\* ends through its release and, after the cooldown, its removal, and an
\* address is free again only then.
LeaseRefinement == Leases!Spec
=============================================================================
