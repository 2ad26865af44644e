------------------------------ MODULE StoreLock ------------------------------
(***************************************************************************)
(* The exclusive use of the store file by one daemon process:              *)
(* RunNodeDaemon locks the file with flock before it opens the store       *)
(* (cmd/ipam-node/app/app.go), and every commit replaces the file with     *)
(* renameio.WriteFile (pkg/ipam-node/store/store.go).  flock(2) locks the  *)
(* inode that was opened, and a rename gives the path another inode.       *)
(***************************************************************************)
EXTENDS Naturals, FiniteSets

CONSTANTS
    Daemons,    \* daemon processes that are started on the node
    MaxInode    \* bound on the number of commits

VARIABLES
    path,    \* inode the store file's name refers to
    locked,  \* inode whose flock each process holds, 0 for none
    refused  \* processes that have ended with "store lock is held"

vars == <<path, locked, refused>>

Init == path = 1 /\ locked = [d \in Daemons |-> 0] /\ refused = {}

\* storeLock.TryLock succeeds: nobody holds the lock of the file opened.
TryLock(d) ==
    /\ locked[d] = 0 /\ d \notin refused
    /\ \A e \in Daemons : locked[e] # path
    /\ locked' = [locked EXCEPT ![d] = path]
    /\ UNCHANGED <<path, refused>>

\* TryLock returns false and the daemon ends with an error.
TryLockFails(d) ==
    /\ locked[d] = 0 /\ d \notin refused
    /\ \E e \in Daemons : locked[e] = path
    /\ refused' = refused \cup {d}
    /\ UNCHANGED <<path, locked>>

\* session.Commit of modified data: writeToDisk renames a new file over the
\* store file.
Commit(d) ==
    /\ locked[d] # 0 /\ path < MaxInode
    /\ path' = path + 1
    /\ UNCHANGED <<locked, refused>>

\* The deferred storeLock.Unlock, or the end of the process.
Stop(d) ==
    /\ locked[d] # 0
    /\ locked' = [locked EXCEPT ![d] = 0]
    /\ UNCHANGED <<path, refused>>

\* A process that was refused is started again.
Restart(d) ==
    /\ d \in refused
    /\ refused' = refused \ {d}
    /\ UNCHANGED <<path, locked>>

Next == \E d \in Daemons : TryLock(d) \/ TryLockFails(d) \/ Commit(d) \/ Stop(d) \/ Restart(d)

Spec == Init /\ [][Next]_vars
-----------------------------------------------------------------------------
\* While a daemon runs on the store file no other one gets past the lock:
\* TryLock fails with "store lock is held by a different process".
OneDaemonPerStore == Cardinality({d \in Daemons : locked[d] # 0}) <= 1
=============================================================================
