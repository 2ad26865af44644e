# A TLA+ model of nvidia-k8s-ipam

nvidia-k8s-ipam (nv-ipam) assigns IP addresses to the secondary networks of
Kubernetes Pods. This directory holds TLA+ modules that model it, TLC
configurations that check them on small instances, and TLAPS proofs of the main
safety properties for instances of every size. `PROJECT.json` maps every
definition to the lines it models and lists runs, mutants, findings, hazards and
theorems.

## The system

| Part | Source | State | Operations |
|---|---|---|---|
| IPPool controller | `pkg/ipam-controller/controllers/ippool`, `.../allocator`, `.../controllers/node` | IPPool object with status (block per Node), caches, work queues, event channel | Reconcile, Node Reconcile |
| CIDRPool controller | `pkg/ipam-controller/controllers/cidrpool`, `pkg/ip` | CIDRPool object with status (prefix and gateway per Node), static allocations | Reconcile |
| Node reconcilers, pool manager | `pkg/ipam-node/controllers`, `pkg/pool` | map from pool key to configuration | Reconcile of the two pool types |
| gRPC handlers | `pkg/ipam-node/handlers` | request in progress, store session | Allocate, Deallocate, IsAllocated |
| Node store | `pkg/ipam-node/store`, `.../types` | file, copy in memory, session copy, lock | Open, Reserve, Release, RemovePool, Commit, Cancel |
| Node IP allocator | `pkg/ipam-node/allocator` | range iterator, LastReservedIP | Allocate, static and dynamic |
| Cleaner | `pkg/ipam-node/cleaner` | stale counters | loop |
| CNI plugin | `pkg/cni` | none | ADD, DEL, CHECK with a timeout |
| API helpers, validation, webhooks | `api/v1alpha1` | none | validation, exclusion and gateway arithmetic |

The controller cuts a pool into one block (IPPool) or one prefix (CIDRPool) per
Node and writes it into the status of the pool. The daemon on each Node watches
the pools, keeps the configuration of its own part in the pool manager, and
serves the CNI plugin: every request opens an exclusive session on the store,
changes a copy of it, and commits the copy to a file or drops it. The cleaner
uses the same sessions to drop reservations of Pods that no longer exist.

What makes it hard:

- the client of a request gives up while the daemon goes on with it;
- the file cannot be written, or the daemon dies between two steps;
- a released address cools down before it is free again, DEL is repeated;
- one of several pools of a request fails;
- the informer caches of the daemon and of the controllers lag behind;
- status updates conflict, fail, or succeed without the client learning of it;
- pools, static allocations and Nodes change while blocks are in use;
- searches wrap around, jump over exclusions and meet the ends of subnets and of
  the address space.

What should hold: an address belongs to one owner, it stays with its owner as
long as the owner uses it, it comes back after that; parts of different Nodes do
not overlap and stay with their Nodes; the searches find what is free; the state
of controllers and nodes follows the API.

## Modules

| Module | Models | Order of reading |
|---|---|---|
| `IPRange` | ranges, range sets, and the order of the range iterator in closed form | 1 |
| `IPAllocator` | successive calls of `Allocate` on a pool, iterator step by step | 2 |
| `StoreData` | store content and what sessions do to it | 3 |
| `NodeDaemon` | handlers, store, cleaner, pool manager, process, callers, Pods | 4 |
| `NodeDaemonInv` | inductive invariant of `NodeDaemon` | 5 |
| `LeaseTable`, `NodeDaemonLeases` | abstract specification that `NodeDaemon` implements; the refinement mapping | 6 |
| `StoreLock` | flock on the store file | 7 |
| `ExcludeRanges` | exclusion lists: clamp, merge, cover | 8 |
| `Blocks`, `BlockAllocator` | blocks of an IPPool in closed form; the search for one | 9 |
| `Prefixes`, `PrefixAllocator` | prefixes of a CIDRPool in closed form; the search for one | 10 |
| `IPPoolController` | IPPool and Node reconcilers, informers, queues, API server | 11 |
| `Cluster` | `IPPoolController` composed with the daemons of the Nodes | 12 |
| `CIDRPoolController` | CIDRPool reconciler | 13 |
| `NodePoolConfig` | from pool objects to what the node offers | 14 |
| `NodeDaemonProofs` | proofs about `NodeDaemon`: one lemma per step, then the theorems | |
| `ClusterProofs`, `CIDRPoolProofs` | proofs about the controllers and the cluster | |
| `IPAllocatorProofs` | proofs about the range iterator and `Allocate` | |
| `ExcludeRangesProofs` | what the operations on exclusion lists compute | |
| `NodePoolConfigProofs` | what a node offers of a pool | |
| `BlockAllocatorProofs`, `PrefixAllocatorProofs` | proofs about the searches of the controllers | |
| `MC*` | instances for TLC | |

The modules fit together through closed forms. A detailed module runs a loop of
the code step by step, it is checked and proved to compute the closed form, and
the larger module uses the closed form as one step: `IPAllocator` and `IPRange` for
`NodeDaemon`, `BlockAllocator` and `Blocks` for `IPPoolController`,
`PrefixAllocator` and `Prefixes` for `CIDRPoolController`.

### IPAllocator

One call of `Allocate` after the other on a pool. A dynamic call is `getIter`,
then turns of `RangeIter.Next` (`NextFirst`, `NextAdvance`) and of the loop body
(`TryReserve`). A static call is two steps, `Reserve`, which moves
`LastReservedIP` to the requested address, and `SetLastReservedIP`, which puts it
back from the local variable (`saved`). Between calls (`NextCall`) any of the
reserved addresses may be released, and the next caller may be another one, or
one whose key is already there. `visited`, `watch` and `round` are history
variables: what the iterator has offered in this call, one address that some
dynamic call handed out, and what dynamic calls have tried since.

### NodeDaemon

`disk` is the content of the store file, `persisted` the copy in memory, `tmp`
the copy of the open session, `lock` its holder. A handler goroutine `w` is in
`call[w].pc`: `open` (it waits for the lock), `run` (the body of the handler),
`close` (`closeSession`), `reply`. One turn of the loop over pools in `allocate`
is one step; so is every call of the cleaner's `checkPod`. The store lock makes
finer steps of a session invisible, except to crashes, pool updates and the Pods,
which interleave with these steps.

Abstractions and assumptions:

- the CNI plugin's deadline travels with the request: when the client has given
  up, the context of the handler is done;
- the runtime has at most one live call for a container and interface;
- a Pod that is deleted from the API has stopped using its addresses;
- `isModified` is taken to mean that the session differs from the copy in memory;
- `renameio.WriteFile` is atomic, a crash before the update of the copy in memory
  is a commit followed by a crash;
- the cleaner looks at its reservations in any order; cache and direct lookup of
  a Pod are one step, and so are the sweep and the commit;
- the counter of failed checks saturates above `CheckCount`, ages of released
  reservations saturate at `Cooldown`; neither loses a distinction the code makes;
- a graceful stop (`GracefulStop` lets handlers finish, then the lock file is
  released) is a `Crash` at a moment when no call is in progress, so what is shown
  for crashes holds for it;
- a jump of the wall clock forwards is several ticks; jumps backwards are left
  out, they prolong the cooldown;
- the cleaner's skip of reservations without Pod metadata (`cleaner.go:130`) is
  left out: `validateReq` refuses a request without it, so no reservation lacks it;
- `validateReq`, metadata other than the Pod, `LastPoolConfig` and a corrupted
  file are left out.

`held` and `gone` are history variables: what clients have been given, and which
owners' last finished request is a DEL.

### LeaseTable

A table of leases that changes in three ways: an owner gets an address in all
pools it asked for or in none, leases are released and later forgotten, time
passes. `NodeDaemon` implements it with `lease <- disk.entries`
(`LeaseRefinement` in `NodeDaemonLeases`): crashes, sessions, the lock, failing
writes and the cleaner do not show in the table.

### The controllers

`IPPoolController` has one pool, the API server with resource versions, and per
controller process the caches, the work queue, the queue of Nodes, the event
channel of capacity one, and the running Reconcile. A Reconcile reads its cached
objects in one step, assigns blocks Node by Node, and ends with the status
update, which the server accepts only for the current version. `ok` is what the
client learns: a write may be accepted and its answer lost. `CIDRPoolController`
has the same frame with one process; static allocations, gateways and the text of
prefixes (the code compares strings) are its own. Caches jump to the latest
version, which loses no behaviour of interest because a Reconcile may start from
any version the cache has had. An update that changes nothing creates no version.

Three simplifications: `CIDRPoolController.SyncNode` stands for the informer of
Nodes, the Node reconciler and its channel, which `IPPoolController` has in
detail; `reflect.DeepEqual` in `cidrpool.go:131` tells a nil list of allocations
from an empty one, which at most adds an update that changes nothing; and the
loop of `AllocateFromPool` also stops when the context of the Reconcile is done
(`allocator.go:108`), which happens when the controller stops: that is a `Restart`.

### Cluster

`Cluster` extends `IPPoolController` with one daemon per Node: the block in its
informer cache (`seen`), the block in its pool manager (`view`), and the blocks
its Pods have addresses of (`inUse`), which survive the loss of a block and a
restart. `lost` and `calm` are history variables. It is about dynamic
allocation: a static request may name any address of the subnet that is outside
the Node's block, and the code leaves it to the user that two Nodes do not get
the same one.

### NodePoolConfig

An object of the API has the part of this node, the exclusions as lists and the
per-node index exclusions. `Offered` is what `allocateInPool` can hand out from a
configuration, `Usable` what the object means the node to use, given the addresses
it excludes. `Around` is the exclusion that begins before the prefix of a node and
ends after it, `Contested` the lists that validation accepts and `allocateInPool`
refuses.

## Runs

The runs other than `MCIPAllocator` say `CHECK_DEADLOCK FALSE`: the searches of the
controllers stop when every Node is served, the controllers when nothing is left
to do and the bound on edits is reached, and a daemon may wait for a request.

| Run | Checks |
|---|---|
| `MCIPAllocator` | each call finds the first free address (`DynamicIsFirstFree`), offers none twice (`NeverRevisits`) and ends (`Terminates`); over many calls an address comes again only after every other usable one was tried (`RunsThroughTheRange`), as the comment of `getIter` says |
| `MCConcurrent` | two handlers and the cleaner, timeouts, crashes, failing writes, two Pods of one name: `TypeOK`, `MemoryMatchesDisk`, `HeldIsReserved`, `NoLeakAfterDel`; every call is answered (`EveryCallEnds`), reservations of vanished Pods go (`StaleIsReclaimed`) |
| `MCRequests` | static addresses in two pools beside a dynamic request, cooldown, broken and changing configurations: `UniqueIP`, `RequestedOrNothing`, `LeaseRefinement` |
| `MCBlockAllocator` | the first free block is found and only then none (`FoundIsFirstFree`, `FullIsFull`), list arithmetic is right (`ExcludedIsCovered`), the loop advances (`CandidateAdvances`), addresses stay in the family (`TypeOK`) |
| `MCPrefixAllocator` | `TypeOK`, `FoundIsFirstFree`, `FullIsFull`, `ExcludedIsCovered` for prefixes |
| `MCIPPool` | blocks of Nodes are disjoint (`DisjointBlocks`), are taken away only for a reason (`BlocksAreKept`), the controller rests only when the status is right (`QuietIsSettled`), and the status settles (`Converges`) |
| `MCCluster` | Pods of two Nodes have addresses of overlapping blocks only after a Node lost its block (`SharedOnlyAfterLoss`), never while users only create the pool and add Nodes (`CalmIsSafe`) |
| `MCCIDRPool` | `TypeOK` (gateways lie in their prefixes), `DisjointPrefixes`, `PrefixesAreKept`, `QuietIsSettled`, `Converges` |
| `MCNodePoolConfig` | the node offers an excluded address only if the exclusion lies around its whole CIDRPool prefix, and no gateway or foreign address (`OnlyAroundIsOffered`); nothing of an IPPool whose exclusions overlap (`OverlapIsRefused`); everything the object leaves it, unless exclusions overlap, one is cut to nothing or the block left the subnet (`NothingIsLost`); it follows the API (`FollowsAPI`) |

Three runs show where code and documentation disagree; TLC finds the property
violated.

| Run | Shows |
|---|---|
| `StoreLock` | the flock is on an inode that the first commit replaces, so a second daemon can start |
| `MCCIDRPoolText` | a static IPv6 prefix in another spelling is given to a second Node |
| `MCExcludedOffered` | a node offers addresses that its CIDRPool excludes (`ExcludedIsNotOffered`) |

`MCCIDRPool` has canonical static prefixes only; `MCCIDRPoolText` has the others.

`MCExcludedOffered` is about an exclusion that begins before the prefix of a node
and ends after it. `buildExclusions` of the node's CIDRPool reconciler keeps a
range only if one of its ends is in the prefix, and drops this one, while
`README.md:487` and `cidrpool_type.go:45` say that excluded addresses are not
allocated. The controller gives out no such prefix dynamically, but a static
allocation or a later exclusion leads there. `OnlyAroundIsOffered` shows that no
other exclusion is lost.

`NothingIsLost` has three exceptions, in which the node refuses the whole pool:

- exclusions that overlap. `validate_exclusions.go:30` says that "there is no need
  to validate that ranges have no overlaps", but `RangeSet.Canonicalize`
  (`range_set.go`) refuses them, and the node gives no address of the pool at all.
  `OverlapIsRefused` shows it for the exclusions of an IPPool;
- an exclusion that ends at the network address of a prefix, or starts at its
  broadcast address, is cut to an empty range, which `Canonicalize` refuses too;
- a block of an IPPool that is not in the subnet any more, because a user has
  changed the subnet and the controller has not yet reacted (`Fits`).

`SharedOnlyAfterLoss` does not say that two Nodes never share an address: the
code takes a block away while Pods use it. It says that nothing else leads there.

### Bounds

- Node daemon: in `MCConcurrent` two handlers serve one owner, which is what it
  takes for a late call beside a new one, and compete with the cleaner for the
  lock; two Pods share a name, cooldown is off. In `MCRequests` one handler serves
  two owners, who compete for the one address of a pool, with a cooldown of 2
  ticks, so that a repeated DEL falls into it. The check count is 1, the least the
  flags allow. Two owners on two handlers are left to the theorems, which hold for
  any numbers of both. `MCRequests` takes states that differ only in `gone` as
  one (`WithoutGone`): none of its properties and no guard reads that variable.
- Allocate: any number of calls in a row, with every subset of the reserved
  addresses released between two of them.
- Searches: all single ranges and pairs of ranges over four addresses; subnets of
  1 to 16 addresses at the end of a 16-address family, every exclusion range
  alone and with a second one.
- Controllers: two Nodes, specs that differ in size, exclusions and static
  allocations, some of them invalid, and `MaxEdits` (2 or 3) changes by users. Some
  specs have one usable block or prefix for the two Nodes. The theorems cover any
  number of Nodes and, for IPPool, of controller processes.

### Fairness

- `NodeDaemon`: goroutines run (WF on the steps of a handler and of the cleaner),
  `sync.Mutex` hands the lock to a waiter that has waited long (SF on `Open` and
  `CleanerOpen`), Kubernetes restarts the daemon, time passes, informers catch up.
  `StaleIsReclaimed` also assumes that faults end: the cleaner gives up its session
  when a read or write fails.
- Controllers: informers and work queues run; a status update that is sent again
  and again succeeds some time (SF on `FinishReconcile(c, TRUE)`); a blocked send
  of the Node reconciler gets through (SF on `NodeReconcile`). Users stop making
  changes because of the bound.
- `NodePoolConfig`: informers and work queues run.

## Proofs

All theorems hold for all values of the constants that satisfy the named
assumptions of the modules; TLC evaluates these in the runs. Apart from the types
of the constants they say what the code has checked before the modelled part
runs: `RangeSetsAssumption` that a range set went through `Canonicalize`
(`range_set.go`), `ConfigsAssumption` that a pool went through `Validate`, which
the reconcilers call before they allocate (`ippool.go`, `cidrpool.go`), and, for
a CIDRPool, that the size of the CIDR is a multiple of the prefix size, both
being powers of two. `ObjectsAssumption` of `NodePoolConfig` has the types of the
objects, that a block is an interval of the address family, and that the index
ranges of an IPPool are in order and end within the family when counted from the
start of the block. The node's IPPool reconciler does not call `Validate` and
leaves that to the controller; for a CIDRPool nothing is assumed, because the node
calls `Validate` itself.

### Node daemon

`NodeDaemonProofs` has `InvTheorem`: `Inv` of `NodeDaemonInv` is invariant. From
it follow `TypeCorrect`, `UniqueIPTheorem`, `MemoryTheorem`, `HeldTheorem` and
`NoLeakTheorem`, for `TypeOK`, `UniqueIP`, `MemoryMatchesDisk`, `HeldIsReserved`
and `NoLeakAfterDel`.

None of the invariants is inductive alone. `UniqueIP` needs uniqueness in the
session copy, which is a copy of the file made under the lock (`SessionInv`,
`StoreInv`). `HeldIsReserved` needs that whatever is held, or is on its way to a
client, is reserved both in the file and in the session that may replace it
(`HeldInv`), that an ADD has its addresses in its session (`AddInv`), that no
stale counter runs for a living Pod (`PodInv`), and that a DEL that may still take
effect has no client using the addresses (`DelInv`). `NoLeakAfterDel` needs the
order of calls of one owner at the store lock: when a live call exists, an older
one of the same owner has either finished or still waits, and will then find its
context done (`CallInv`, `GoneInv`). There is one lemma per action; frame lemmas
carry the conjuncts that a group of actions treats alike. The module begins with
the facts about `Reserve`, `AfterRelease`, `RemovePools` and `Aged`; then come the
steps of callers, Pods, process, handlers and cleaner.

Two more invariants follow there. `AskedInv` says that every requested address is
still to be looked for or is in the answer; from it `RequestedTheorem` proves
`RequestedOrNothing`. `LeaseInv` says how the copy of a session may differ from
the file: an ADD has added entries for its own keys where the file has none, a
DEL has ended some, the cleaner has dropped expired ones.

`LeaseTheorem` proves `Spec => LeaseRefinement`: every step that changes the file
is a commit of an ADD (`Grant`), a commit of a DEL or of the cleaner (`Release`),
or a tick (`Elapse`); all other steps, crashes included, are stuttering steps of
the table.

### Controllers and cluster

`ClusterProofs` proves, in its first part, for any Nodes, specs and number of
controllers that `DisjointBlocks` holds and `BlocksAreKept` is an action
property. Its invariant says that a resource version identifies an object (caches
and running Reconciles hold objects that once were in the API), that statuses are
disjoint, and that the blocks a Reconcile has collected so far are aligned blocks
of one spec with different starts. Two aligned blocks of one size with different
starts are disjoint: that is the arithmetic lemma at the bottom.

The second part adds the daemons. `NodeInv` says that whatever a daemon has
cached, serves or has given to Pods is its Node's block or was lost; with
disjoint statuses this gives `SharedTheorem` (`SharedOnlyAfterLoss`). `CalmInv`
says that while users change nothing but create the pool and add Nodes, the
controller lists every Node that has a block, and would keep every block; so
nothing is lost, and `CalmTheorem` (`CalmIsSafe`) follows. `CalmTheorem` assumes
one controller process: a second one with an older list of Nodes may take the
block of a new Node away.

`QuietTheorem` (`QuietIsSettled`) says that a controller with up-to-date caches
and nothing queued, on its way or running has left the status as it should be:
every listed Node has a valid block unless none is free, no other Node has one,
and an invalid spec has an empty status. This is the safety half of `Converges`,
for any Nodes, specs and controllers. It is not inductive; `QuietInv` adds what a
running Reconcile has achieved (`RecGets`: collected blocks are valid and belong
to listed Nodes, and a Node that the loop has passed has one if any is free) and
what it works on (`Attends`: when nothing is pending, the running Reconcile has the
pool and the Nodes of the caches, and after its end the cached pool is settled or
older than the one in the API). The steps that could break it are the end of a
Reconcile after a conflict or a lost answer, which queues the pool, and the Node
reconciler, which drops a Node only when there is no pool to wake.

`CIDRPoolProofs` proves `TypeCorrect`, `KeptTheorem` (`PrefixesAreKept`) and
`DisjointTheorem` (`DisjointPrefixes`). The last assumes that static prefixes
have canonical text, and `MCCIDRPoolText` shows that it must. The invariant has the
resource versions as above, that allocations in a status are multiples of their
size (which may be the size of an earlier spec) and disjoint, and that each
allocation of a running Reconcile is either a static one of its Node or equal to
no static prefix. That last part is why a static allocation can be handed to its
Node without a look at what others have got. `SpecsAssumption` says that the
first address of a CIDR is a multiple of the prefix size, as it is for CIDRs whose
prefix length is not larger than that of the node prefixes.

Its `QuietTheorem` is the one of the IPPool controller, here with static
allocations: a listed Node that has one ends up with that very prefix. It also
assumes canonical text. The additional work is in `ValidTogether`: the validation
of an existing allocation looks at all others for equal prefixes and gateways, and
what the loop gives out passes it because prefixes are disjoint and gateways lie
in their prefixes.

### What the node offers

`NodePoolConfigProofs` has `ConfigOffers`, for every object and lists of any
length: the configuration that a reconciler builds offers no address but the ones
the object leaves the node when exclusions around its prefix are ignored
(`Heeded`), and offers all that the object leaves the node when the exceptions
above do not apply. The lists are followed through the code: `buildExclusions`, the
conversion and clamping of index ranges (`ClampFacts` above), the appended list,
`Canonicalize`, and the ranges the iterator skips. For the second half it does not
suffice to know which addresses a list denotes: `Canonicalize` refuses a list in
which two ranges share an address. `Origins` therefore says from which
exclusion of the object each range of the configuration was made, so that
two overlapping ranges lead back to two overlapping exclusions.

`PoolsFollowCache` is the inductive invariant over time (`Reconciled`): a key
that is not queued has the configuration of the cached object. It holds through
late events, deletions and restarts, after which the pool manager is empty and
every existing object is queued. With `ConfigOffers` it gives
`OnlyAroundIsOfferedHolds`, `NothingIsLostHolds` and `CaughtUpFollowsAPI`, the
safety half of `FollowsAPI`. `OverlapIsRefusedHolds` rests on `SharedOverlaps`: two
ranges of one subnet that pass `Range.Canonicalize` and share an address overlap in
the sense of `Range.Overlaps`, which looks at end points only.

### List operations

`ExcludeRangesProofs` shows that the functions of `helpers.go` and of the two
allocators compute what their names say, for lists of any length. `ClampFacts`:
the clamped list has exactly the excluded addresses inside the range.
`MergeFacts`: sorting and merging keeps the set of addresses and leaves ranges
that are apart. `CoverIs`: the sweep over index exclusions says yes exactly when
every index is excluded. `FullyExcludedIs`: the check of a block or prefix says
yes exactly when each of its addresses is excluded, by the pool or by a per-node
exclusion. So the closed forms of `Blocks` and `Prefixes`, which speak of sets of
addresses, mean what the code computes with lists.

The loops are recursive functions over the number of handled ranges. Their
invariants go from 0 to the length of the list by `LoopInduction`: if one failed,
there would be a least turn at which it fails (`LeastNat`, from the
well-foundedness of the natural numbers), and that turn cannot break it. The
sort is modelled as the choice of an ordered permutation; `SortedFacts` shows
that there is one, by insertion of one range after the other.

### Searches

`IPAllocatorProofs` has `AllocateInvariant` and from it `TypeCorrect`,
`FirstFreeTheorem` (`DynamicIsFirstFree`) and `NeverRevisitsTheorem`, for every
canonical range set, exclusions, reservations, cursor and sequence of calls. The
slots of a range set are ranked in the order in which the iterator meets them,
starting behind the cursor and wrapping around; one `Next` goes from a rank to the
following one (`AdvanceIsFollowing`, `RankOfFollowing`). The invariant says where
the iterator stands: the addresses offered so far are those of the ranks up to the
current one, and none of the passed ones could have ended the call. Without the
part on ranks `NeverRevisits` is not inductive: the iterator notices that it is
back by comparing addresses, and that works because the ranges of a canonical set
share no address (`AddressNamesSlot`).

`RoundRobinTheorem` (`RunsThroughTheRange`) is about many calls. `RoundInvariant`
says of the address that is watched: every usable slot that the iterator meets
after it and up to the cursor has been tried since it was handed out. A dynamic
call extends that stretch by what it tries (`Between`, `TriedSoFar`); a static one
moves the cursor, but gives it back before the next call reads it, so the
invariant speaks of the saved cursor in between (`Cursor`). When the watched
address comes again the stretch is the whole range set.

`BlockAllocatorProofs` has `BlockInvariant` and from it `BlockTypes`,
`FirstFreeBlock` (`FoundIsFirstFree`), `FullMeansFull` (`FullIsFull`),
`ExclusionIsExact` (`ExcludedIsCovered`), and the action property `LoopAdvances`
(`CandidateAdvances`). The invariant says that no free block starts before the
candidate of the running search, and none up to the last start that the
allocator remembers between calls. The lemma `Jump` is the heart of it: behind an
exclusion that covers a block the search goes on at the next start after the
exclusion, or past the end, and leaves out no free block, at the end of the
address family included.

`PrefixAllocatorProofs` has the same theorems for prefixes: `PrefixInvariant`,
`PrefixTypes`, `FirstFreePrefix`, `FullMeansFull`, `ExclusionIsExact`. Here one
iterator serves all Nodes of a Reconcile, and the invariant says that it has
passed no free prefix; `Advance` is the lemma about the index to which the
iterator is moved behind an exclusion.

### Only model-checked

The liveness properties (`Terminates`, `EveryCallEnds`, `StaleIsReclaimed`,
`Converges`, `FollowsAPI`), which are out of the prover's reach. What is proved
next to them: `QuietTheorem` and `CaughtUpFollowsAPI` say that nothing is left to
do only when the goal is reached, so what TLC adds is that the work comes to an
end. Every invariant and action property of a passing run has a theorem.

## Not modelled

- Webhooks call the validation that the controllers repeat and keep no state.
- Configuration loading of the CNI plugin, `validateReq`, validation of routes and
  selectors and parsing of addresses are stateless checks of the form of their
  input; the models start from input that passed them.
- JSON and checksum of the store file: the file holds the last committed data. A
  corrupted file stops the daemon at start.
- Node events of the CIDRPool controller pass a channel like the one in
  `IPPoolController` and are not repeated in `CIDRPoolController`.
- A wall clock that goes back (see above).
- Generated code and mocks, command line handling, deployment of the CNI binary,
  logging, gRPC transport.
