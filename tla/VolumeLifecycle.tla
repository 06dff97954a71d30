-------------------------- MODULE VolumeLifecycle --------------------------
(***************************************************************************)
(* core/concurrent_core.go: how a volume is created and deleted with a     *)
(* transaction log, and how the log is replayed, by the next request for   *)
(* the volume or by the bootstrap after a crash.  Requests come from the   *)
(* CSI controller (frontend/csi/controller_server.go); the storage systems *)
(* and the Kubernetes API server behind the persistent store are external  *)
(* and may fail as the constant Fault allows.  Each call of theirs is a    *)
(* step, and the process may crash between any two.                        *)
(*                                                                         *)
(* The cache locks are those of ConcurrentCache and txnMutex is a          *)
(* GCNamedMutex; all writes of volumes happen under txnMutex, so of the    *)
(* cache locks only those on backends matter, see Locking.  All backends   *)
(* share a storage prefix, and volumes have no snapshots, clones or        *)
(* subordinates.                                                           *)
(***************************************************************************)
EXTENDS Naturals, FiniteSets

CONSTANTS Volume, Backend,
          Pool, Home,           \* storage pools and the backend of each
          Creator, Deleter,     \* concurrent CSI requests
          boot,                 \* the bootstrapping goroutine
          None,
          Fault                 \* what may fail

ASSUME HomeAssumption == Home \in [Pool -> Backend]
ASSUME NoneAssumption == None \notin Backend \cup Creator \cup Deleter \cup {boot}
ASSUME BootAssumption == boot \notin Creator \cup Deleter

(* create, followup, destroy: the driver.  store, txn: the API server, on  *)
(* DeleteVolumeTransaction and on everything else.  partial: the driver's  *)
(* Create returns an error, but the volume is there, or still creating.    *)
(* offline: a backend that fails to initialize, or loses its storage       *)
(* system.  ambiguous: a failed call on a transaction, or to delete a      *)
(* record, may have been applied all the same.                             *)
FaultKind == {"create", "followup", "destroy", "store", "txn", "partial", "offline",
              "ambiguous"}
ASSUME FaultAssumption == Fault \subseteq FaultKind

Client == Creator \cup Deleter
Worker == Client \cup {boot}

VARIABLES store,    \* TridentVolume records: the backend of each volume
          txn,      \* TridentTransaction records: the pending operation
          placed,   \* the volumes on the storage systems
          leftover, \* those that a failed attempt to create them has left
          cache,    \* the volume cache
          online,   \* the backends in state online; the others have failed
          phase,    \* down, txns (replaying the log), up or failed
          queue,    \* the transactions the bootstrap has yet to replay
          mutex,    \* txnMutex
          opCache,  \* the CSI plugin's creates in progress
          job,      \* what each worker is doing
          promise   \* history: what the clients were told of each volume

persistent == <<store, txn, placed, leftover>>
vars == <<store, txn, placed, leftover, cache, online, phase, queue, mutex,
          opCache, job, promise>>

(* vol: its volume, old: the operation of the transaction it replays,      *)
(* todo: the candidate pools left, left: the backends left to sweep, on:   *)
(* where the volume was created, fresh: whether this request created it.   *)
Idle == [pc |-> "idle", op |-> "none", vol |-> None, old |-> "none",
         todo |-> {}, left |-> {}, on |-> None, fresh |-> FALSE, err |-> FALSE]

Init ==
  /\ store = [v \in Volume |-> None]
  /\ txn = [v \in Volume |-> "none"]
  /\ placed = {} /\ leftover = {}
  /\ cache = [v \in Volume |-> None]
  /\ online = Backend
  /\ phase = "up" /\ queue = {}
  /\ mutex = [v \in Volume |-> None]
  /\ opCache = {}
  /\ job = [w \in Worker |-> Idle]
  /\ promise = [v \in Volume |-> "none"]

-----------------------------------------------------------------------------
At(w, p) == job[w].pc = p
Vol(w) == job[w].vol
Here(w) == <<job[w].vol, job[w].on>>
Goto(w, p) == job' = [job EXCEPT ![w].pc = p]

(* What a failed call may leave of the map that it was to change.          *)
AfterFailure(old, new) == IF "ambiguous" \in Fault THEN {old, new} ELSE {old}

Deleting(v) == \E w \in Deleter : job[w].op = "delete" /\ Vol(w) = v

(* A client's request returns: the deferred calls release txnMutex and the *)
(* opCache entry.  A client relies on a created volume unless its deletion *)
(* was requested meanwhile or is still under way.                          *)
Return(w, ok) ==
  /\ job' = [job EXCEPT ![w] = Idle]
  /\ mutex' = [mutex EXCEPT ![Vol(w)] = IF @ = w THEN None ELSE @]
  /\ opCache' = IF job[w].op = "add" THEN opCache \ {Vol(w)} ELSE opCache
  /\ promise' = [promise EXCEPT ![Vol(w)] =
       CASE ok /\ job[w].op = "add" /\ @ = "none" ->
              IF Deleting(Vol(w)) THEN "doomed" ELSE "acked"
         [] ok /\ job[w].op = "delete" -> "none"
         [] OTHER -> @]
  /\ UNCHANGED phase

(* Mutant: the error return keeps txnMutex.                                *)
ReplayFailsLocked(w) ==
  /\ job' = [job EXCEPT ![w] = Idle]
  /\ phase' = IF w = boot THEN "failed" ELSE phase
  /\ UNCHANGED <<mutex, opCache, promise>>

(* A replay fails: the request is answered with the error, the bootstrap   *)
(* ends with bootstrapError.                                               *)
ReplayFails(w) ==
  IF w # boot THEN Return(w, FALSE)
  ELSE /\ phase' = "failed"
       /\ job' = [job EXCEPT ![w] = Idle]
       /\ mutex' = [mutex EXCEPT ![Vol(w)] = None]
       /\ UNCHANGED <<opCache, promise>>

requests == <<phase, mutex, opCache, promise>>

-----------------------------------------------------------------------------
(* Plugin.CreateVolume: opCache.Load and opCache.Store are two calls.      *)
CreateVolume(w) ==
  /\ phase = "up" /\ At(w, "idle")
  /\ \E v \in Volume :
       /\ v \notin opCache
       /\ job' = [job EXCEPT ![w] = [Idle EXCEPT !.pc = "opCache", !.op = "add",
                                                 !.vol = v]]
  /\ UNCHANGED <<persistent, cache, online, queue, requests>>

StoreOp(w) ==
  /\ At(w, "opCache")
  /\ opCache' = opCache \cup {Vol(w)}
  /\ Goto(w, "get")
  /\ UNCHANGED <<persistent, cache, online, queue, phase, mutex, promise>>

(* An existing volume is returned as it is.                                *)
GetVolume(w) ==
  /\ At(w, "get")
  /\ IF cache[Vol(w)] # None THEN Return(w, TRUE)
     ELSE Goto(w, "check") /\ UNCHANGED requests
  /\ UNCHANGED <<persistent, cache, online, queue>>

(* addVolume: "Ensure volume doesn't exist".                               *)
CheckExists(w) ==
  /\ At(w, "check")
  /\ IF cache[Vol(w)] # None THEN Return(w, FALSE)
     ELSE Goto(w, "mutex") /\ UNCHANGED requests
  /\ UNCHANGED <<persistent, cache, online, queue>>

(* DeleteVolume: a volume that is not in the cache is a NotFoundError,     *)
(* which the CSI controller answers with success.                          *)
DeleteVolume(w) ==
  /\ phase = "up" /\ At(w, "idle")
  /\ \E v \in Volume :
       IF cache[v] = None
         THEN /\ promise' = [promise EXCEPT ![v] = "none"]
              /\ UNCHANGED job
         ELSE /\ promise' = [promise EXCEPT ![v] = "doomed"]
              /\ job' = [job EXCEPT ![w] = [Idle EXCEPT !.pc = "mutex",
                                              !.op = "delete", !.vol = v]]
  /\ UNCHANGED <<persistent, cache, online, queue, phase, mutex, opCache>>

(* o.txnMutex.Lock(volTxn.Name())                                          *)
LockTxn(w) ==
  /\ At(w, "mutex") /\ mutex[Vol(w)] = None
  /\ mutex' = [mutex EXCEPT ![Vol(w)] = w]
  /\ Goto(w, "oldTxn")
  /\ UNCHANGED <<persistent, cache, online, queue, phase, opCache, promise>>

-----------------------------------------------------------------------------
(* AddVolumeTransaction: replay a transaction that an earlier request left *)
(* behind, then log this one.                                              *)
GetVolumeTransaction(w) ==
  /\ At(w, "oldTxn")
  /\ \/ /\ txn[Vol(w)] = "none"
        /\ Goto(w, "newTxn") /\ UNCHANGED requests
     \/ /\ txn[Vol(w)] # "none"
        /\ job' = [job EXCEPT ![w].pc = "replay", ![w].old = txn[Vol(w)]]
        /\ UNCHANGED requests
     \/ "store" \in Fault /\ Return(w, FALSE)
  /\ UNCHANGED <<persistent, cache, online, queue>>

(* The transaction stays if no pool matches the storage class: addVolume   *)
(* returns before it defers its cleanup.                                   *)
AddVolumeTransaction(w) ==
  /\ At(w, "newTxn")
  /\ \/ /\ txn' = [txn EXCEPT ![Vol(w)] = job[w].op]
        /\ job' = [job EXCEPT ![w].pc = IF job[w].op = "add" THEN "pick" ELSE "del",
                              ![w].todo = Pool]
        /\ UNCHANGED requests
     \/ /\ job[w].op = "add"
        /\ txn' = [txn EXCEPT ![Vol(w)] = "add"]
        /\ Return(w, FALSE)
     \/ /\ "store" \in Fault
        /\ txn' \in AfterFailure(txn, [txn EXCEPT ![Vol(w)] = job[w].op])
        /\ Return(w, FALSE)
  /\ UNCHANGED <<store, placed, leftover, cache, online, queue>>

-----------------------------------------------------------------------------
(* addVolume: the candidate pools, in any order.  A candidate is skipped   *)
(* when its backend cannot be locked, is gone or ineligible, or when       *)
(* UpdateVolumeTransaction fails.                                          *)
PickPool(w) ==
  /\ At(w, "pick") /\ job[w].todo # {}
  /\ \E p \in job[w].todo :
       job' = [job EXCEPT ![w].pc = "create", ![w].todo = @ \ {p},
                          ![w].on = Home[p]]
  /\ UNCHANGED <<persistent, cache, online, queue, requests>>

SkipPools(w) ==
  /\ At(w, "pick")
  /\ \E p \in job[w].todo, whole \in BOOLEAN :
       job' = [job EXCEPT ![w].todo =
                 @ \ {q \in @ : q = p \/ (whole /\ Home[q] = Home[p])}]
  /\ UNCHANGED <<persistent, cache, online, queue, requests>>

NoPoolLeft(w) ==
  /\ At(w, "pick") /\ job[w].todo = {}
  /\ job' = [job EXCEPT ![w].pc = "endTxn", ![w].err = TRUE]
  /\ UNCHANGED <<persistent, cache, online, queue, requests>>

NextPool(w) == job' = [job EXCEPT ![w].pc = "pick", ![w].on = None]

(* StorageBackend.AddVolume, which addVolumeRetry calls again while the    *)
(* driver's Create returns VolumeCreatingError, for ten minutes at most.   *)
(* A volume that is there already is no error, but it is not a fresh one.  *)
(* Who gives up, or gets another error, leaves what was begun.             *)
Create(w) ==
  /\ At(w, "create")
  /\ \/ /\ job[w].on \in online
        /\ placed' = placed \cup {Here(w)}
        /\ job' = [job EXCEPT ![w].pc = "followup", ![w].fresh = Here(w) \notin placed]
        /\ UNCHANGED leftover
     \/ /\ job[w].on \in online /\ "partial" \in Fault
        /\ placed' = placed \cup {Here(w)}
        /\ UNCHANGED <<job, leftover>>
     \/ /\ job[w].on \notin online \/ "create" \in Fault \/ "partial" \in Fault
        /\ leftover' = leftover \cup (placed \cap {Here(w)})
        /\ NextPool(w) /\ UNCHANGED placed
  /\ UNCHANGED <<store, txn, cache, online, queue, requests>>

(* Mutant: the left-over is reported when Destroy has succeeded.           *)
FollowupReportsRemoved(w) ==
  /\ At(w, "followup")
  /\ \/ Goto(w, "persist") /\ UNCHANGED <<placed, leftover>>
     \/ /\ "followup" \in Fault
        /\ NextPool(w)
        /\ placed' = placed \ {Here(w)} /\ leftover' = leftover \cup {Here(w)}
  /\ UNCHANGED <<store, txn, cache, online, queue, requests>>

(* driver.CreateFollowup.  If it fails a fresh volume is destroyed, or     *)
(* reported as one that must be manually deleted; any other is left.       *)
CreateFollowup(w) ==
  /\ At(w, "followup")
  /\ \/ Goto(w, "persist") /\ UNCHANGED <<placed, leftover>>
     \/ /\ "followup" \in Fault
        /\ NextPool(w)
        /\ \/ job[w].fresh /\ placed' = placed \ {Here(w)} /\ UNCHANGED leftover
           \/ /\ job[w].fresh => "destroy" \in Fault
              /\ leftover' = leftover \cup {Here(w)} /\ UNCHANGED placed
  /\ UNCHANGED <<store, txn, cache, online, queue, requests>>

(* addVolumeFinish: storeClient.AddVolume replaces an existing record, by  *)
(* a delete and a create, and may fail between the two.                    *)
Persist(w) ==
  /\ At(w, "persist")
  /\ \/ /\ store' = [store EXCEPT ![Vol(w)] = job[w].on]
        /\ leftover' = leftover \ {Here(w)}
        /\ Goto(w, "upsert")
     \/ /\ "store" \in Fault
        /\ store' \in {store, [store EXCEPT ![Vol(w)] = None]}
        /\ job' = [job EXCEPT ![w].pc = "cleanup", ![w].err = TRUE]
        /\ UNCHANGED leftover
  /\ UNCHANGED <<txn, placed, cache, online, queue, requests>>

Upsert(w) ==
  /\ At(w, "upsert")
  /\ cache' = [cache EXCEPT ![Vol(w)] = job[w].on]
  /\ Goto(w, "endTxn")
  /\ UNCHANGED <<persistent, online, queue, requests>>

(* Mutant: the transaction goes even if the volume could not be removed.   *)
CleanupDropsTxn(w) ==
  /\ At(w, "cleanup")
  /\ Goto(w, "endTxn")
  /\ \/ placed' = placed \ {Here(w)} /\ leftover' = leftover \ {Here(w)}
     \/ "destroy" \in Fault /\ UNCHANGED <<placed, leftover>>
  /\ UNCHANGED <<store, txn, cache, online, queue, requests>>

(* addVolumeCleanup: take the volume off the backend; if that fails, leave *)
(* the transaction for the next replay.                                    *)
Cleanup(w) ==
  /\ At(w, "cleanup")
  /\ \/ /\ job[w].on \in online
        /\ placed' = placed \ {Here(w)} /\ leftover' = leftover \ {Here(w)}
        /\ Goto(w, "endTxn") /\ UNCHANGED requests
     \/ /\ job[w].on \notin online \/ "destroy" \in Fault
        /\ Return(w, FALSE)
        /\ UNCHANGED <<placed, leftover>>
  /\ UNCHANGED <<store, txn, cache, online, queue>>

(* Mutant: a successful request leaves its transaction behind.             *)
EndWithoutTxn(w) ==
  /\ At(w, "endTxn")
  /\ Return(w, ~job[w].err)
  /\ UNCHANGED <<persistent, cache, online, queue>>

(* The DeleteVolumeTransaction at the end of a request.                    *)
EndTxn(w) ==
  /\ At(w, "endTxn")
  /\ \/ txn' = [txn EXCEPT ![Vol(w)] = "none"] /\ Return(w, ~job[w].err)
     \/ /\ "txn" \in Fault
        /\ txn' \in AfterFailure(txn, [txn EXCEPT ![Vol(w)] = "none"])
        /\ Return(w, FALSE)
  /\ UNCHANGED <<store, placed, leftover, cache, online, queue>>

-----------------------------------------------------------------------------
(* deleteVolume.  After it DeleteVolume deletes its transaction, whatever  *)
(* the result; a replayed add fails if it fails, a replayed delete does    *)
(* not.  A volume that is gone is an error, but not to a CSI client.       *)
DeleteEnds(w, res) ==
  CASE job[w].old = "add" /\ res # "ok" -> ReplayFails(w)
    [] job[w].old = "none" ->
         /\ job' = [job EXCEPT ![w].pc = "endTxn", ![w].err = (res = "failed")]
         /\ UNCHANGED requests
    [] OTHER -> Goto(w, "dropTxn") /\ UNCHANGED requests

ReadVolume(w) ==
  /\ At(w, "del")
  /\ IF cache[Vol(w)] = None THEN DeleteEnds(w, "notFound")
     ELSE /\ job' = [job EXCEPT ![w].pc = "remove", ![w].on = cache[Vol(w)]]
          /\ UNCHANGED requests
  /\ UNCHANGED <<persistent, cache, online, queue>>

RemoveVolume(w) ==
  /\ At(w, "remove")
  /\ \/ /\ job[w].on \in online
        /\ placed' = placed \ {Here(w)} /\ leftover' = leftover \ {Here(w)}
        /\ Goto(w, "unpersist") /\ UNCHANGED requests
     \/ /\ job[w].on \notin online \/ "destroy" \in Fault
        /\ DeleteEnds(w, "failed")
        /\ UNCHANGED <<placed, leftover>>
  /\ UNCHANGED <<store, txn, cache, online, queue>>

(* Mutant: the cache entry goes even if the record could not be deleted.   *)
UnpersistAnyway(w) ==
  /\ At(w, "unpersist")
  /\ \/ store' = [store EXCEPT ![Vol(w)] = None]
     \/ "store" \in Fault /\ UNCHANGED store
  /\ Goto(w, "uncache") /\ UNCHANGED requests
  /\ UNCHANGED <<txn, placed, leftover, cache, online, queue>>

Unpersist(w) ==
  /\ At(w, "unpersist")
  /\ \/ /\ store' = [store EXCEPT ![Vol(w)] = None]
        /\ Goto(w, "uncache") /\ UNCHANGED requests
     \/ /\ "store" \in Fault
        /\ store' \in AfterFailure(store, [store EXCEPT ![Vol(w)] = None])
        /\ DeleteEnds(w, "failed")
  /\ UNCHANGED <<txn, placed, leftover, cache, online, queue>>

Uncache(w) ==
  /\ At(w, "uncache")
  /\ cache' = [cache EXCEPT ![Vol(w)] = None]
  /\ DeleteEnds(w, "ok")
  /\ UNCHANGED <<persistent, online, queue>>

-----------------------------------------------------------------------------
(* handleFailedTransaction.  A volume in the cache is deleted.  Otherwise  *)
(* an add is rolled back on every backend that the list shows as online;   *)
(* one that has failed since then fails the replay.                        *)
Replay(w) ==
  /\ At(w, "replay")
  /\ job' = CASE cache[Vol(w)] # None -> [job EXCEPT ![w].pc = "del"]
              [] cache[Vol(w)] = None /\ job[w].old = "add" ->
                   [job EXCEPT ![w].pc = "sweep", ![w].left = online]
              [] OTHER -> [job EXCEPT ![w].pc = "dropTxn"]
  /\ UNCHANGED <<persistent, cache, online, queue, requests>>

Sweep(w) ==
  /\ At(w, "sweep")
  /\ \E b \in job[w].left :
       \/ /\ b \in online
          /\ placed' = placed \ {<<Vol(w), b>>}
          /\ leftover' = leftover \ {<<Vol(w), b>>}
          /\ job' = [job EXCEPT ![w].left = @ \ {b}]
          /\ UNCHANGED requests
       \/ /\ b \notin online \/ "destroy" \in Fault
          /\ ReplayFails(w)
          /\ UNCHANGED <<placed, leftover>>
  /\ UNCHANGED <<store, txn, cache, online, queue>>

Swept(w) ==
  /\ At(w, "sweep") /\ job[w].left = {}
  /\ Goto(w, "dropTxn")
  /\ UNCHANGED <<persistent, cache, online, queue, requests>>

(* After a replayed delete the request that found it is rejected.          *)
DropTxn(w) ==
  /\ At(w, "dropTxn")
  /\ \/ /\ txn' = [txn EXCEPT ![Vol(w)] = "none"]
        /\ CASE w = boot -> /\ job' = [job EXCEPT ![w] = Idle]
                            /\ mutex' = [mutex EXCEPT ![Vol(w)] = None]
                            /\ UNCHANGED <<phase, opCache, promise>>
             [] w # boot /\ job[w].old = "delete" -> Return(w, FALSE)
             [] OTHER -> /\ job' = [job EXCEPT ![w].pc = "newTxn", ![w].old = "none",
                                               ![w].on = None]
                         /\ UNCHANGED requests
     \/ /\ "txn" \in Fault
        /\ txn' \in AfterFailure(txn, [txn EXCEPT ![Vol(w)] = "none"])
        /\ ReplayFails(w)
  /\ UNCHANGED <<store, placed, leftover, cache, online, queue>>

-----------------------------------------------------------------------------
(* The process ends at any moment, and only the persistent state survives. *)
Crash ==
  /\ phase # "down"
  /\ phase' = "down"
  /\ cache' = [v \in Volume |-> None]
  /\ mutex' = [v \in Volume |-> None]
  /\ job' = [w \in Worker |-> Idle]
  /\ opCache' = {} /\ queue' = {}
  /\ UNCHANGED <<persistent, online, promise>>

(* bootstrapBackends and bootstrapVolumes; no request is served yet.       *)
Bootstrap ==
  /\ phase = "down"
  /\ phase' = "txns"
  /\ online' \in IF "offline" \in Fault THEN SUBSET Backend ELSE {Backend}
  /\ cache' = store
  /\ queue' = {v \in Volume : txn[v] # "none"}
  /\ UNCHANGED <<persistent, mutex, opCache, job, promise>>

BootstrapTxn ==
  /\ phase = "txns" /\ At(boot, "idle")
  /\ \E v \in queue :
       /\ queue' = queue \ {v}
       /\ mutex' = [mutex EXCEPT ![v] = boot]
       /\ job' = [job EXCEPT ![boot] =
                    [Idle EXCEPT !.pc = "replay", !.vol = v, !.old = txn[v]]]
  /\ UNCHANGED <<persistent, cache, online, phase, opCache, promise>>

Bootstrapped ==
  /\ phase = "txns" /\ At(boot, "idle") /\ queue = {}
  /\ phase' = "up"
  /\ UNCHANGED <<persistent, cache, online, queue, mutex, opCache, job, promise>>

(* The workers that hold a read lock on the backend in the cache: that of  *)
(* addVolume until its cleanup returns, that of deleteVolume               *)
(* until the cache entry is gone.                                          *)
Locking(b) ==
  {w \in Worker : /\ job[w].on = b
                  /\ \/ At(w, "create") \/ At(w, "followup") \/ At(w, "persist")
                     \/ At(w, "upsert") \/ At(w, "cleanup")
                     \/ At(w, "endTxn") /\ job[w].op = "add"
                     \/ At(w, "remove") \/ At(w, "unpersist") \/ At(w, "uncache")}

(* reconcileBackendState: a backend fails or recovers while the core runs, *)
(* under a write lock on the backend.                                      *)
BackendState ==
  /\ phase = "up" /\ "offline" \in Fault
  /\ \E b \in Backend :
       /\ Locking(b) = {}
       /\ online' = IF b \in online THEN online \ {b} ELSE online \cup {b}
  /\ UNCHANGED <<persistent, cache, phase, queue, mutex, opCache, job, promise>>

-----------------------------------------------------------------------------
Step(w) ==
  \/ StoreOp(w) \/ GetVolume(w) \/ CheckExists(w)
  \/ GetVolumeTransaction(w) \/ AddVolumeTransaction(w)
  \/ PickPool(w) \/ SkipPools(w) \/ NoPoolLeft(w)
  \/ Create(w) \/ CreateFollowup(w) \/ Persist(w) \/ Upsert(w)
  \/ Cleanup(w) \/ EndTxn(w)
  \/ ReadVolume(w) \/ RemoveVolume(w) \/ Unpersist(w) \/ Uncache(w)
  \/ Replay(w) \/ Sweep(w) \/ Swept(w) \/ DropTxn(w)

Next ==
  \/ \E w \in Creator : CreateVolume(w)
  \/ \E w \in Deleter : DeleteVolume(w)
  \/ \E w \in Client : LockTxn(w)
  \/ \E w \in Worker : Step(w)
  \/ Crash \/ Bootstrap \/ BootstrapTxn \/ Bootstrapped \/ BackendState

Spec == Init /\ [][Next]_vars

(* Every call of the driver and of the API server returns, txnMutex        *)
(* starves nobody, and Kubernetes restarts the container.                  *)
Fairness ==
  /\ \A w \in Worker : WF_vars(Step(w))
  /\ \A w \in Client : SF_vars(LockTxn(w))
  /\ WF_vars(Bootstrap) /\ WF_vars(BootstrapTxn) /\ WF_vars(Bootstrapped)

FairSpec == Spec /\ Fairness

-----------------------------------------------------------------------------
TypeOK ==
  /\ store \in [Volume -> Backend \cup {None}]
  /\ txn \in [Volume -> {"none", "add", "delete"}]
  /\ placed \subseteq Volume \X Backend
  /\ leftover \subseteq placed
  /\ cache \in [Volume -> Backend \cup {None}]
  /\ online \subseteq Backend
  /\ phase \in {"down", "txns", "up", "failed"}
  /\ queue \subseteq Volume
  /\ mutex \in [Volume -> Worker \cup {None}]
  /\ opCache \subseteq Volume
  /\ promise \in [Volume -> {"none", "acked", "doomed"}]
  /\ \A w \in Worker : At(w, "idle") \/ Vol(w) \in Volume

(* Property: a volume on a storage system is never lost track of.  It has  *)
(* a record that names its backend, or a transaction whose replay removes  *)
(* it, or is what an attempt to create it left on the backend where it     *)
(* failed.                                                                 *)
Tracked ==
  \A p \in placed : store[p[1]] = p[2] \/ txn[p[1]] = "add" \/ p \in leftover

(* Property: a volume whose creation was acknowledged stays, in the store  *)
(* and on its backend, until its deletion is requested, whatever fails or  *)
(* crashes.                                                                *)
AckedKept ==
  \A v \in Volume : promise[v] = "acked" =>
    store[v] # None /\ <<v, store[v]>> \in placed

(* Property: whenever no request holds a volume's transaction lock, the    *)
(* cache agrees with what a restart would load.                            *)
CacheMatchesStore ==
  phase = "up" => \A v \in Volume : mutex[v] = None => cache[v] = store[v]

(* Property: every request is answered and every replay ends.              *)
EveryRequestEnds == \A w \in Worker : job[w].pc # "idle" ~> job[w].pc = "idle"
=============================================================================
