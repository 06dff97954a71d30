# TLA+ models of the Trident core

Trident is a storage orchestrator for Kubernetes. Its controller keeps the
desired state of volumes, snapshots and backends in Kubernetes custom
resources, mirrors them in memory and drives the storage systems. This project
models the part of it where orderings, failures and crashes matter: the locks,
the concurrent cache that is built on them, the transactional life of volumes
and snapshots that is built on both, the publication of volumes to nodes, and
the lock that nodes take in Kubernetes around encrypted volumes.

## Inventory

### Named locks (`pkg/locks/gc_named_locks.go`)

* State: a map from names to reader/writer mutexes with reference counts,
  guarded by one mutex.
* Operations: `Lock`, `Unlock`, `RLock`, `RUnlock`, and guard objects on top.
* Used by the cache (a lock per resource id and per unique key) and by the core
  (`txnMutex`, a lock per transaction name).
* Hard: an entry is deleted by its last user while others are on their way in,
  so the mutex behind a name changes over time.
* Correct when: a writer of a name is alone, names that nobody uses have no
  entry, every caller that asks for a name gets it.

### Concurrent cache (`core/concurrent_cache`)

* State: a map of objects per resource type, a unique-key map for backends,
  object stores and volumes, locks per id and per key, and the lock context
  that a goroutine carries from `Lock` to `NestedLock`.
* Operations: `Lock` and `NestedLock` with queries (list, read, inconsistent
  read, upsert, delete), the `Upsert` and `Delete` closures they return, the
  unlocker, and `LockCache`, which stops everything.
* Called by every operation of the core, from one goroutine per request.
* Hard: ids and keys are resolved before the locks are taken; locks are taken
  in several calls; keys are locked in two places; errors occur half way.
* Correct when: locks follow one order and nobody waits in a circle, what is
  granted does not change, owners outlive what they own, keys are exact, and
  every call ends.

### Volume transactions (`core/concurrent_core.go`, `storage/backend.go`, `persistent_store/crdv1.go`, `frontend/csi/controller_server.go`)

* State: volume records and transactions in the persistent store, volumes on
  the storage systems, the volume cache, backend states, `txnMutex`, and the
  CSI controller's `opCache`.
* Operations: create, delete, replay of a transaction, bootstrap.
* The CSI controller calls the core; the core calls the drivers and the API
  server; a crash may come between any two calls.
* Hard: every call may fail, the roll-back may fail as well, the log of one
  request is replayed by another one or by the next process.
* Correct when: no volume on a storage system is lost track of once its creation
  there has succeeded, an acknowledged volume stays, cache and store agree, every
  request ends.

### Snapshots (`core/concurrent_core.go`)

* State: snapshot and volume records, transactions, what is on the storage
  system, the caches, `txnMutex`. A volume with snapshots is only marked as
  deleting when it is deleted.
* Operations: `CreateSnapshot`, `DeleteSnapshot`, `DeleteVolume`, the deletion of
  a soft-deleted volume with its last snapshot or clone, the clean-up of
  duplicates on clones, replay, bootstrap.
* Hard: each request has its own transaction and its own mutex, so that a
  snapshot and its volume meet only in the cache locks; much is decided from
  lists read without locks.
* Correct when: every snapshot that was made is recorded or will be rolled back, no snapshot loses its volume, what was acknowledged stays, and
  no soft-deleted volume is left behind.

### Volume publications and nodes (`core/concurrent_core.go`, `storage/backend.go`)

* State: publication and node records, their caches, the access that a backend
  grants, the rules of the whole backend and whether they are up to date.
* Operations: publish, unpublish, `AddNode`, `UpdateNode` (clean, dirty,
  cleanable), `DeleteNode`, the deletion of a soft-deleted node with its last
  publication, invalidation and reconciliation of node access, bootstrap.
* Called by the CSI controller, the Kubernetes helper that watches nodes, the
  controller of `TridentNodeRemediation`, and a timer.
* Hard: there is no transaction, only steps that are made and undone one after
  the other; several flows let go of their locks half way.
* Correct when: access, record and cache follow what the clients were told,
  nodes outlive their publications, live nodes stay, dirty nodes get nothing.

### Lease lock (`pkg/locks/distlock/lease.go`)

* State: one Kubernetes `Lease` per encrypted volume; its UID in the `LeaseLock`
  of a request.
* Operations: `WithLock`: acquire, critical section, release.
* Called by attach, detach, mount and expand of the node plugin on every node.
* Hard: the API server may apply a call whose caller was told of an error, at
  once or later; hosts crash; errors of a detach are partly forgotten.
* Correct when: one host at a time, a failed critical section fences the
  others off, the holder finds its way back in.

### Other parts

| part | state and operations | what is hard | plan |
|---|---|---|---|
| group snapshots, snapshot import and restore | group records, transactions over several snapshots | transactions that nobody replays | next |
| imports, clones, resizes of volumes | further operations of the transaction log | replays that must not destroy imported volumes | next |
| volume move | move records; stage, move, unstage, reconcile | attachments while data moves | later |
| autogrow (`frontend/autogrow`, `internal/autogrow`) | poller, scheduler, requester, caches | one request in flight per volume, stale capacity | later |
| event bus, rate limiter, worker pool (`pkg`) | queues, limits | back pressure, shutdown | later |
| node core (`core/node`) | publish-info files on the node; attach, detach, heal | self-healing against user requests | later; its use of the lease lock is in `LeaseLock` |
| legacy orchestrator (`core/orchestrator_core.go`) | the same data under one mutex | serialized; replaced by the concurrent core | no |
| persistent store, frontends, drivers, operator, CLI | I/O and translation | external systems | contract only |

## Modules

| module | models |
|---|---|
| `NamedRWLock` | what named reader/writer locks promise; the abstract specification |
| `GCNamedMutex` | `pkg/locks/gc_named_locks.go`, down to the steps of `sync.RWMutex` |
| `GCNamedMutexProofs` | its theorems |
| `CacheQuery` | the subqueries and what is computed from them: owners, ids, lock order |
| `ConcurrentCache` | `Lock`, `NestedLock` and the closures, run by concurrent goroutines |
| `CacheQueryProofs`, `ConcurrentCacheProofs` | lemmas about the operators of `CacheQuery`, and the theorems about what the cache holds |
| `CacheOrderProofs` | the theorems about its lock order, its waits and its names |
| `VolumeLifecycle` | create, delete, replay, bootstrap and crash |
| `SnapshotLifecycle` | snapshots, soft-deleted volumes, clones, their transactions |
| `Publications` | publish, unpublish, nodes and node access |
| `VolumeLifecycleProofs`, `SnapshotLifecycleProofs`, `PublicationsProofs` | their theorems |
| `LeaseLock` | `pkg/locks/distlock/lease.go` and the API server behind it |
| `StickyLock` | what the lease lock promises; the abstract specification |
| `LeaseLockProofs` | its theorems |
| `MC...` | instances and workloads |

`ConcurrentCache` and `GCNamedMutex` are not instantiated by the modules above
them. What they show (locks are granted in order, exclusive and for good) is
what the others assume when they reduce the cache locks to a guard: `Locking` in
`VolumeLifecycle`, `Readers` and `Writers` in `SnapshotLifecycle`, `Holders` in
`Publications`.

### GCNamedMutex

`mutexes` is the map, `c` the reference count of an entry; `wr` and `rd` are the
inside of its `sync.RWMutex`; `pc`, `name` and `ref` are a goroutine's position,
argument and local pointer. Everything between `g.m.Lock()` and `g.m.Unlock()`
is one step, because the mutex of the map protects it. Waiting for the
`RWMutex` is outside and is split: a writer announces itself, which holds new
readers back, and then waits for the readers inside; a writer that leaves lets
in all the readers it held back. Entries are allocated from a set of heap cells
and a cell may be used again when nothing points to it, as the garbage
collector allows. `ImplementsNamedRWLock` maps holders of an entry to holders of
its name.

### CacheQuery and ConcurrentCache

Identifiers and keys are natural numbers, ordered as the code orders strings,
and 0 stands for the empty string. `CacheQuery` holds the pure part: the schema
and the ranks, the constructors of subqueries, `buildTrees` (the synthetic reads
of owners), `fillInIDs` as a function over the query's tree, and the order of
`compareSubqueries`.

A goroutine of `ConcurrentCache` runs a program from its constant set: a
sequence of stages, the first a `Lock`, the others `NestedLock`s. Phases 1 and 2
of `lock()` happen in one step, under the read locks of all caches involved;
then each lock is a step of its own, so what phase 1 read can be stale. New keys
are locked first and checked for a collision, a key is locked with its
resource, and a blank id takes no lock. `SetResults` is phase 5: results,
closures, and the context of the next `NestedLock`. `Write` runs a closure in any
order and any number of the granted ones. The checks that the callers make on
what they were given (a missing owner or object, dependents that are left) are
part of the closures' guards. Metrics and the contents of objects other than
owners and keys are left out; a bit per object shows that it was changed.

`Alone`, `Careful`, `Whole`, `NestedOnce`, `Settled` and `Named` say what the callers
and the bootstrap keep to. The actions do not use them; they are the hypotheses
of theorems, and `MCConcurrentCache` has TLC evaluate them on its workloads
(`Careful` and `Settled` on all but that of `cache_keys`). `Calm`, the rule that the
unique keys rest on, is about what is under way; it is a hypothesis too, and is
stated with the theorem that needs it, in `CacheOrderProofs`.

The workloads in `MCConcurrentCache` are the calls that the core makes, with the
queries in the order of the source. The storage class read by an import is left
out, since nobody writes one.

### VolumeLifecycle

`store` and `txn` are the records in the API server, `placed` the volumes on the
storage systems, `leftover` those of them that a failed attempt to create them has
left there; `cache`, `mutex` and `opCache` are in memory and are lost in a crash. A worker is
a CSI create, a CSI delete or the bootstrap; `job` is its position and its local
variables. Every call of a driver or of the API server is a step and may fail
if `Fault` has its kind. `promise` is a history variable: what the client was
told last.

`Create` and `CreateFollowup` are `StorageBackend.AddVolume` within the loop of
`addVolumeRetry`. An attempt may end with a `VolumeCreatingError` (the volume is on
the backend and the next attempt finds it there), may fail for good, whatever
earlier attempts have left, or may find or make the volume. Only a volume that
this attempt has made is `fresh`, and only a fresh one is destroyed when
`CreateFollowup` fails. What stays on the backend otherwise is `leftover`: a volume
whose `Destroy` failed, which the log tells the administrator to remove, a volume
that was found and not made, and what `Create` had begun when it failed. Nothing
in the core looks for them again, unless the same create is repeated.

Abstractions: backends share a storage prefix, so the name of a volume on a
backend follows from its name; a storage pool that does not fit is skipped
nondeterministically; a call on a transaction, or to delete a record, that fails
may have been applied (`ambiguous`), the replacement of a record may fail between
its delete and its create, and the creation of a record that fails has not been
applied; volumes have no snapshots, clones or subordinates; no backend is added
or deleted.

### SnapshotLifecycle

There is one backend. `volRec`, `snapRec` and `txn` are in the API server,
`diskVol` and `diskSnap` on the storage system, `volCache`, `snapCache` and
`mutex` in memory. `Parent`, `CloneFrom` and `Twin` fix which snapshots belong to
which volume, which volume is a clone, and which snapshot of a clone has the
internal name of the one it came from. A worker is a CSI request or the
bootstrap. `LockSnapshot`, `LockDeleteSnapshot`, `LockVolume` and
`DeleteCloneSnapshots` are the steps that wait for cache locks; `Pinned` and
`SourceVolume` read without one, as the code does, and a snapshot that is not in the
cache has no volume that could be locked for it (`Sweep`, `LockDeleteSnapshot`).
Every call may fail. A failed call was not applied, with one exception: the
driver's `CreateSnapshot` may make the snapshot and then fail, as ONTAP's does when
it cannot read back what it made (`ontap_common.go:5116`). The core has no snapshot
then that it could remove, and deletes the transaction; the history variable
`torn` has these snapshots, until they are removed or made again. A panic
(`NilVolume`) is a crash.

`promise` says what a client was told of an object. A snapshot is `acked` if
nothing threatens it, and `shaky` if its transaction was left behind or another
create of it is under way, which logs a transaction before it looks again;
`AckedKept` is about the former and `AnyAckKept` about both.

### Publications

`node` stands for the records and the cache of nodes, which one step under the
write lock changes together; `record`, `cache` and `access` are the three parts
of a publication, and `policy` and `upToDate` belong to the backend. A request
takes a step per call that leaves the process. `leaked` has the nodes whose
lock was never released. History variables: `promise`, the nodes that are
registered (`present`) and those that are dirty (`unsafe`), the nodes that
`tryDeleteSoftDeletedNode` has removed since the last reconcile (`swept`), and
the publications that a failed or interrupted publish has left (`stray`). One
backend, with publish enforcement; volumes exist throughout and are not
subordinate.

### LeaseLock and StickyLock

`lease` is the object in Kubernetes. A call of the API server that fails may have
been applied, may be lost, or may be applied later, any time after its caller
went on (`lateCreate`, `lateDelete`). `op` tells an attach, whose errors reach
kubelet, from a detach, which forgets most of them; mount and expand are like
attach. `unfinished` has the hosts that entered the critical section and have
not completed it, and `lost` those of them whose Lease a late deletion took.
`StickyLock` is the promise in the comments of `lease.go`: work is begun by one
host at a time and is that host's until it is completed or an administrator
steps in. `ImplementsPromise` maps `unfinished \ lost` to its variable.

## Runs

| run | question | bounds |
|---|---|---|
| `mutex` | do entries that come and go keep exclusion, collection, the abstract contract and progress? | three goroutines, two names, as many cells as can be referenced |
| `cache_lifecycle` | do owners outlive what they own, and does a granted object stay as it is? | one backend, volume and snapshot, created and deleted by three goroutines |
| `cache_nested` | are locks taken in order, without a circle, and given back? | two volumes on a backend; a call with four stages, one that asks out of order, two others |
| `cache_keys` | are the unique keys exact, and does `Stop` freeze the caches? | two backends and a new one, three names; renames, an add, an import, `Stop` |
| `volume_tracked` | is a volume on a storage system ever lost track of? | two volumes, two backends, three pools, a create and a delete at a time, all faults of drivers and store, creates that fail half way and ambiguous calls too, crashes anywhere; 1.5 million states |
| `volume_acked` | does an acknowledged volume stay, do cache and store agree when the transaction lock is free, and does every request end? | one volume, two backends, a create and two deletes, creates that fail half way and backends that fail, a transaction log that can be cleaned up |
| `snapshots` | are snapshots tracked, do they keep their volumes, and do soft-deleted volumes go? | a volume with two snapshots, its clone and a copy of the snapshot on it, two clients, one transaction or snapshot left behind at a time, all failures and crashes; 4.9 million states |
| `publications` | do access, records, cache, nodes and rules follow what the clients were told? | two volumes, a node, two clients, all failures and crashes; 1.5 million states |
| `lease` | is a volume one host's at a time, does the lock implement its promise, and is the Lease of an attach released? | two hosts, three UIDs, four failures |
| `snapshot_twin` | violated: only untracked duplicates are deleted from clones | the volumes of `snapshots`, with the duplicate's name free for a request |
| `snapshot_lost_ack` | violated: a snapshot that was acknowledged stays | one client |
| `publication_leak` | violated: every request ends | one client, a node that is deleted before it registers |

The bounds are enough for the cases the properties are about. Three goroutines
on a lock give a holder, a waiter and one that arrives when the entry is
dropped; two names make it possible to reuse a cell under another name. In the
cache every pair of operations on the same objects overlaps in every order, and
the third goroutine removes the owner of both. Two backends are what a volume
needs to be in the wrong place; two pools on one of them make a second attempt
on the same backend possible. A volume, its clone and two snapshots are what
soft deletion can chain (snapshot, clone, source), with a last snapshot and one
before it. Two volumes on one node make a publication the last one or not the
last; two clients make every pair of requests overlap. Two hosts and three UIDs
give a holder, a rival and a Lease that is still to be deleted. The number of
requests and of crashes is not limited, except in `lease` (`MaxFault`, four
failures: enough for a release given up on, a re-entry and a crash) and by
`MaxLeft` in `SnapshotLifecycle`, the objects that failures have left behind at
a time, with a transaction that nobody works on, as a torn snapshot or as a
shaky one; crashes leave more. All state is finite, and the runs explore it
completely. `publications` and `snapshots` use the symmetry of their clients
(and volumes), without temporal properties other than an action property.

`cache_keys` allows a deadlock: `Stop` never unlocks, and everyone else then
waits for it.

The calls of this run are chosen such that one goroutine adds a backend and no two
writes of one backend overlap. The core makes others, and then the keys are not
exact (see the observations); `KeysSoundHolds` says that nothing else can spoil
them.

The volume runs have one create at a time, and `volume_tracked` no backend that goes
offline, `volume_acked` no transaction that cannot be deleted: with any of these the
properties do not hold, which the observations below describe.

### What the violations say

* `snapshot_twin`: `deleteCloneSnapshots` lists the snapshots that are tracked,
  lets go, takes the locks and deletes by its list. A snapshot of the clone that
  was acknowledged in between is deleted from the storage system.
* `snapshot_lost_ack`: the deferred clean-up of `CreateSnapshot` assigns its error
  to a local variable, because the results are not named. The client is told
  of success, the transaction stays, and the next restart rolls it back.
* `publication_leak`: `DeleteNode` returns without its unlocker if the node is not
  known, for example when a Kubernetes node goes that never registered. A node
  of that name can then neither register nor be published to until a restart.
  The lock also includes the shared one that `Stop` waits for.

### Other observations

Seen with these models, without a run of their own; most are hazards in
`PROJECT.json`, with their lines.

* Two `AddBackend` calls for one name both succeed: a blank id takes no lock, not
  even on its key. Renames between the same names with stale keys wait for one
  another in a circle. So do a deletion of a volume, an import of a volume on the
  storage system whose original name is the internal name of the deleted one,
  and an update of the backend: the import locks the name first, as a new key,
  and the deletion after the backend. Two renames of one backend leave a stale key;
  so does an update of a backend by its id (`concurrent_core.go:1379`, for one) that
  looked up the name before a rename of the backend was done, since `UpsertBackend`
  adds the name it was given again. A `NestedLock` that reads an owner again weakens
  the next order check.
* Two creates of one volume pass `opCache` and the existence check, and the second
  replaces the record of the first, on another backend perhaps. A create that
  could not delete its transaction is acknowledged when it is repeated, and
  rolled back by the next replay. A replay skips backends that failed to
  initialize and then drops the transaction. A record whose creation was
  applied but reported as failed stays without its volume.
* A create that ends with an error leaves what it has begun. `addVolumeRetry` calls
  `AddVolume` with `retry` false after each `VolumeCreatingError`; the volume that the
  first attempt began then counts as one that existed before, so that a failing
  `CreateFollowup` does not destroy it (`backend.go:559`), and giving up after ten
  minutes or an error of another kind does not either. `addVolumeCleanup` takes it
  that nothing is to be rolled back and deletes the transaction
  (`concurrent_core.go:2825`). `Tracked` excepts just these volumes (`leftover`).
* The same holds for snapshots: one that the driver made and could not describe is
  forgotten with its transaction (`concurrent_core.go:5823`), until a create of the
  same name finds it. `SnapshotTracked` excepts just these (`torn`).
* `CreateSnapshot` dereferences a volume that was deleted since its first look,
  and `cleanupDeletingBackend` a backend; the process ends. The replay of a
  `DeleteSnapshot` does not delete the soft-deleted volume that the request would
  have deleted, so `NoneLeftBehind` speaks of runs without failures. A second
  create of a snapshot logs a transaction before it looks again; a crash at that
  point rolls back the snapshot that the first create was acknowledged for.
* A publish that fails after the backend granted access leaves the access, and the
  unpublish that follows finds nothing in the cache and does nothing. If it left
  a record as well and the node is deleted, every restart meets a publication
  without a node in `publishedNodesForBackend`, and the ONTAP drivers dereference
  it. If the record is gone but the volume could not be updated, the repeated
  unpublish gets a not-found error that counts as success, and the cache keeps
  the publication. `tryDeleteSoftDeletedNode` does not invalidate the rules of the
  backends, as the legacy orchestrator does. The goroutines of
  `reconcileNodeAccessOnAllBackends` share an error without a lock
  (`concurrent_core.go:1308`), so that errors, which are only logged, may be lost.
* A late deletion of a Lease can take the Lease of a critical section that the
  same host has entered again: the UID is the same. A Lease that a late creation
  or a failed detach leaves has nobody who would delete it.

### Fairness

* Locks: every goroutine that holds a lock gives it back, the scheduler runs
  every runnable goroutine (weak fairness), and a writer that waits for its turn
  among writers is not overtaken for ever (strong fairness of `Announce`; the
  `sync.Mutex` inside an `RWMutex` hands itself to a waiter after a millisecond).
* Cache: the same for its locks; callers return. Strong fairness of `RLock` and
  `Announce` is what `EveryLockGranted` of the mutex gives.
* Volumes: drivers and the API server answer, with a result or an error, since
  their clients have timeouts, and a create is given up after ten minutes; `txnMutex`
  starves nobody; Kubernetes restarts
  the container. Requests and crashes are not fair: they need not happen.
* Publications (`EveryRequestEnds`): a step that can be taken again and again is
  taken (strong fairness), since the reader/writer locks do not starve anyone.
* Lease: `WithLock` goes on, and kubelet calls again after an error (weak
  fairness); late calls need not be applied, and nobody has to crash.

## Proofs

`GCNamedMutexProofs` proves for every finite set of goroutines and every set of
names and cells:

* `TypeCorrect`: the variables keep their types; reference counts never go
  below zero.
* `Exclusive`: a writer of a name shares it with nobody.
* `Collected`: the map has exactly the names that are in use.
* `Refinement`: the specification implements `NamedRWLock`.

Exclusion is not inductive by itself. The invariant `Inv` adds what the code
relies on without saying so: a goroutine that is past the map points to the
entry that the map has for its name (`RefIsEntry`); two names have different
entries (`DistinctEntries`); the count of an entry is the number of goroutines
that point to it (`Counted`), so it reaches zero only when nobody is left; the
readers and the writer inside an `RWMutex` are the goroutines whose position
says so (`ReadersInside`, `WriterInside`); and a writer that is in has no readers
beside it (`WriterAlone`). One lemma per action shows that `Inv` is preserved,
with the cardinality facts for the count in lemmas of their own. The assumptions
are that the goroutines are finite and that the values for "none" are not
goroutines or cells.

`ConcurrentCacheProofs` proves for every set of goroutines, every program of
queries that each may run, and any contents of the caches:

* `TypeCorrect`: the caches, the unique keys and the state of a call keep their
  types.
* `HeldStableHolds`: while a goroutine has been granted a lock on an object,
  nobody else changes the object, and itself only with a write lock.
* `ShutdownFreezesHolds`: once `LockCache` is granted nothing changes, if `Alone`:
  the program that calls it does nothing else, which is so in `Stop`
  (`concurrent_core.go:1118`), its only caller.
* `OwnersExistHolds`: no volume outlives its backend and no snapshot its volume,
  if `Careful` and `Whole`. `Careful`: no query has an inconsistent read of a type
  that something it locks belongs to, and who deletes volumes lists the
  snapshots in the same call and takes none. The source has no query of the
  first kind, and `deleteVolume` (`concurrent_core.go:3787`) lists. An import does
  not (`concurrent_core.go:4117`, a clean-up in case of an error), nor does the
  reload of the volumes of a backend (`concurrent_core.go:5172`), so the theorem
  says nothing of them. `Whole`: the bootstrap has found the owners of
  what it loads; records without one are loaded as missing and are not modelled.

The assumptions on the constants are that programs consist of subqueries that the
constructors can build (`Asked`), that stored objects have ids, owners and, for
backends and object stores, names, and that `uuid.New()` returns no id in use. No
set needs to be finite, except the goroutines where deadlocks are concerned.

The difficulty is that what a call locks was computed before, from caches that
have changed since. `IInv` says what remains true: a writer is alone on its lock
and the announced writer is next (`Exclusion`); every consistent subquery that was
merged has its lock taken or still to be taken, at its place in the order, and
every closure that was handed out has its lock, for writing where it writes
(`Covered`); whoever has a closure holds the root (`RootRead`), which is what makes
shutdown wait. For shutdown, `RootWritten` adds that whoever writes the root has
no closure. For owners, `OwnersLocked` adds that a closure holds the owners that
were filled in for it, and `Informed` that whoever may delete a volume knows of
all its snapshots: the list is read after the volume is locked for writing, and a
new snapshot needs that volume for reading. `UpsertClosure` and `DeleteClosure`
check the object and its dependents, so that an owner that went away between
phase 1 and the lock is seen.

`CacheQueryProofs` has what this needs of the operators. `buildTrees` closes a query
under owners (`Trees`). `Walk` is defined by recursion over resource types; `WalkIs`
shows that it is a fixed point of `FillIn`, with the ranks as the measure, so
that `FilledQuery` can say which subqueries come out and with which types. A
non-empty set of places has a first one (`LeastPlace`), by which `Target` and `FirstOf`
choose something. In `ConcurrentCacheProofs`, `MergedIs`, `PlanOrdered` and `PlanCovers` say the same
of `mergeQueries` and `LockPlan`: the locks of a plan have different places, and
together they cover what was merged.

`CacheOrderProofs` proves, for the same goroutines, programs and contents, what the
first line of the package promises (`concurrent_cache.go:3`, "ordered, deadlock-safe
locking"), and that the unique keys can be trusted:

* `OrderedAcquisitionHolds`: a goroutine only asks for locks that come after all it
  holds, over all its `NestedLock` calls, if `NestedOnce`: of a chain of `NestedLock`
  calls only the last takes locks. The chains of the core are like this
  (`concurrent_core.go:1897`, `:2170` with `:2185`, `:2941`, `:5172`, `:9464`, `:9749`): the
  calls before it list and read without a lock. The condition is needed: `NestedLock`
  compares with the last subquery of the call before, also where that one was
  held already, so a call that only names lower locks again lets the next one
  ask for less.
* `NoDeadlockHolds`: any finite number of goroutines wait for one another in a
  circle only if they do so over a key (`KeysAgree` fails): one has locked the name as a new key,
  or with an object that comes before the one that another has found under this
  name. Locks on resources, readers that queue behind an announced writer and
  nested calls close no circle. The condition is needed, as the renames and the
  import above show.
* `NoDeadlockSettled`: no circle at all, if nothing gets a new name (`Settled`: no
  backend is created or renamed and no volume imported; updates and deletions by
  id and by name, their nested scans and everything below the volumes are allowed).
* `KeysSoundHolds`: the unique keys are the inverse of the names of the stored
  backends and object stores, if `Named` (a backend is written in a query of its own,
  by its id or its name, and the bootstrap finds no name twice) and as long as
  `Calm` holds: no backend is renamed while another write of it is under way, and
  none is created under a name that another write introduces.

The order is proved from `OrderOK`. Its core is that everything held comes before
everything still to be locked; for that to survive the next `NestedLock`, the
`lastLock` that the code keeps has to be the last of what was granted, and every
lock held at most as far as it. A finite set of subqueries has a last one
(`LastOf`), and `Rejected` compares the first new one with it. For deadlocks, `Ahead`
orders the goroutines by the lock that they wait for, an announced writer last
among those that wait for the same; a goroutine waits for one that is ahead of
it (`BlockerAhead`), and a finite circle has a last one. In `NoDeadlockSettled` the
invariant `NamesKnown` says that a name that anyone has looked up, locked or
stored belongs to one object for good, so that everyone puts it at the same place.
For the keys, `Sound` says that the name of each stored backend leads to it and
nothing else is in the map, and `ThreadNamed` what a write that is under way knows:
the name that it found is still that of the object, the name of a new one is
free, and so is the new name of a rename from the moment it was checked under
its lock until the lock is released. `Calm` gives the first, which no lock does.

`LeaseLockProofs` proves for every set of hosts and of UIDs and every bound on
failures:

* `TypeCorrect`: types, and a release within its three attempts.
* `LeaseInvariant`: the inductive invariant `IInv`.
* `ExclusiveTheorem`: no two hosts have work left, but for those that lost their
  Lease to a late deletion.
* `LeaseLockImplementsPromise`: the specification implements `StickyLock`.

`Exclusive` says nothing about the Lease and is not inductive. `IInv` adds that a
host with work left that has not lost its Lease is the holder of it (`Owned`),
that a UID that a host remembers, if it is the UID of the Lease, is that of its
own Lease (`OwnUID`), so that the precondition of `Delete` protects the others,
and that a host in its release has completed its work (`ReleaseDone`). `Owned`
gives exclusion at once, as there is one Lease. The lemma `NewFresh` is where the
API server comes in: a new UID is none that anyone refers to. The refinement
needs the invariant in two places: `Begin` requires that nobody else is working,
and a deletion ends nobody's work but the deleter's.

`VolumeLifecycleProofs` proves for every set of volumes, backends, pools and
requests and every set of faults, with as many crashes and restarts as one
likes:

* `TypeCorrect`: the variables keep their types; what failed attempts have left is on
  a storage system.
* `VolumesTracked`: a volume on a storage system has a record or a transaction, or is
  what an attempt to create it left on the backend where it failed, if backends
  stay online (`Reachable`).
* `AcknowledgedKept`: an acknowledged volume stays in the store and on its backend
  until its deletion is requested, if transactions can be deleted (`Droppable`).
* `CacheFollowsStore`: the cache agrees with the store on every volume whose
  `txnMutex` is free, if a failed call of the store is a call that was not applied
  (`Definite`).

The three conditions are about the faults, and each is needed: the observations
above tell what happens without them (a replay that skips an offline backend, a
create that could not delete its transaction, a record left by a failed call).
Everything else may fail at the same time. A fourth condition is about the
requests: `[]NoTwoCreates`, no two requests create one volume at once. The
external-provisioner sees to it, and the `opCache` does not. The proof has two
invariants because of it: `IInv` holds in any case and says where a request may
be, that a request past its log has its transaction (`LoggedOK`), that what it
did so far is still so (`DoneOK`), that `txnMutex` has one owner (`Owners`) and
that the bootstrap replays every transaction before the first request (`Phases`).
`AInv` needs the condition: a volume that is being created is not in the cache
(`AbsentOK`), what a request is done with is recorded or was left by a failed attempt
(`SettledOK`, `TracedOK`), other backends than the recorded one have only what was
left (`SoleOK`), and a record that no client was told of has a transaction or a
request that will tell (`UntoldOK`); without the last one a replay could roll back
what a repeated create is acknowledged for. The parts are stated per request
and per volume, so that the lemmas `OtherWorkers` and `OtherVolumes` deal with all
that a step does not touch, and each action's lemma with one request and one
volume.

`SnapshotLifecycleProofs` proves for every set of volumes, snapshots and requests,
every relation between them (parents, clones, copies) and any number of crashes:

* `TypeCorrect`: types, and `txnMutex` of an object is held by a request about it.
* `SnapshotsTracked`: a requested snapshot on the storage system has a record or a
  transaction whose replay removes it, unless the driver made it and reported that
  it had not.
* `SnapshotsHaveVolumes`: a recorded snapshot has its volume, recorded and on the
  storage system.
* `AcknowledgedKept`: an acknowledged volume or snapshot stays until its deletion
  is asked for, if no client asks for a snapshot that is the copy of another on a
  clone (`CopiesUnclaimed`). Without this condition the run `snapshot_twin` has the
  counterexample.
* `SoftDeletesEnd`: unless something failed, a soft-deleted volume at rest has a
  snapshot that pins it.

The first two need each other: a volume may be removed because nobody records a
snapshot of it between the look at the snapshots and the removal, which is what
the cache locks give (`Exclusion`, `Looked`), and a snapshot may be recorded
because its volume is there until then (`Making`). What the acknowledgements need
is that nobody who was let in earlier is about to delete (`Asked`,
`SnapshotsQuiet`) and that every record without an acknowledgement has a
transaction (`Untold`). `Orderly` is about runs without failures: a transaction
that is left has somebody working on it, and so has a soft-deleted volume without
snapshots.

`PublicationsProofs` proves for every set of volumes, nodes and requests:

* `TypeCorrect`: types, and two requests never hold the lock of one volume.
* `AnswersKept`: what publish and unpublish answered holds on the backend, in the
  records and in the cache, but for what failed publishes left.
* `NodesKept` and `RegistrationsKept`: no node goes under an acknowledged
  publication, and none that registered again.
* `PolicyKept`: access rules that count as up to date name no node that `DeleteNode`
  has deleted and is done with.
* `NothingLeft`: unless something failed, backend, records and cache agree when
  no request is under way, and a marked node has a publication.
* `DirtyNodesGetNothing`: the action property `CleanOnly`; no step gives a dirty node
  access.

`IInv` adds to them that a request in the middle still finds what it found and did
(`Progress`), that publications in the cache have nodes (`CacheHasNode`, which is
why `DeleteNode` may count publications), that access and records that the cache
does not show belong to a publish under way or to one that failed (`Accounted`),
that nothing is promised that a request under way is about to change
(`Promised`), and for `CleanOnly` that no publish to a dirty node is past its check
(`Unsafe`): the node is locked from the check to the end.

The assumptions on the constants are that the values for "none" and for the
bootstrap are not among the others, that volumes are not snapshots, and that the
constant functions and relations are over their sets. No set needs to be finite
in these three modules.

Only model-checked: liveness (`EveryRequestEnds`, `EveryLockGranted`,
`EveryCallReturns`, `Released`) and `NoDeadlock` of `Publications`, which uses `ENABLED`;
both are out of the prover's reach.

## Not modelled

Group snapshots, imports, resizes and volume moves are further users of the
transaction log, with the same structure and more data. The node core, autogrow,
event bus and rate limiter are listed above with what is hard in them. The
drivers, the generated API clients (most of the lines of the repository), the
CLI, the operator and the installer are I/O or deployment: the models have the
part of their contract that the core relies on.

## Plan

1. Group snapshots with their transactions; imports and resizes in
   `VolumeLifecycle`; the creation of records as an ambiguous call.
2. Subordinate volumes and read-only clones in `Publications`, and a second
   backend.
3. An abstract specification of the volume service (created, acknowledged,
   deleted) that `VolumeLifecycle` and `SnapshotLifecycle` refine.
4. Modules for the event bus, the rate limiter, the autogrow scheduler, volume
   moves.
5. Conditions on the programs of the callers, instead of on what is under way,
   that imply `Calm` and `KeysAgree`.
