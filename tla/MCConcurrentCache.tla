------------------------- MODULE MCConcurrentCache -------------------------
(* Workloads for ConcurrentCache: the calls that core/concurrent_core.go    *)
(* makes, on one or two backends and volumes.                               *)
EXTENDS ConcurrentCache, TLC

CONSTANTS t1, t2, t3

Object(key) == [key |-> key, own |-> [o \in {} |-> 0]]
VolumeOn(key, b) == [key |-> key, own |-> [o \in {backend} |-> b]]

(* Initial contents.                                                       *)
OneBackend == <<backend, 1>> :> Object(1)
TwoBackends == OneBackend @@ (<<backend, 2>> :> Object(3))
OneVolume == OneBackend @@ (<<volume, 1>> :> VolumeOn(1, 1))
TwoVolumes == OneVolume @@ (<<volume, 2>> :> VolumeOn(2, 1))

(* addVolume, deleteVolume, CreateSnapshot, deleteSnapshot,                *)
(* deleteBackendByBackendUUID.                                             *)
AddVolume(v, name) ==
  << <<{UpsertVolumeByBackendName(v, name), ReadBackendByName(name)}>> >>
DeleteVolume(v) ==
  << <<{Delete(volume, v), Read(backend, 0)}, {UpsertVolume(v, 0)},
       {List(snapshot), List(subordinateVolume)}>> >>
CreateSnapshot(v, s) ==
  << <<{UpsertSnapshot(v, s), Read(backend, 0), Read(volume, 0)}>> >>
DeleteSnapshot(v, s) ==
  << <<{Delete(snapshot, PairID(v, s)), Read(volume, 0), Read(backend, 0), List(volume)}>> >>
DeleteBackend(b) ==
  << <<{Delete(backend, b)}, {UpsertBackend(b, 0, 0)}>> >>

(* UpdateBackend with the orphan scan of updateBackendVolumes.             *)
UpdateBackend(name, newName, b, vols) ==
  << <<{UpsertBackend(0, name, newName)}>>,
     <<{List(volumePublication), List(node)}>>,
     <<{List(volume)}>>,
     <<{UpsertBackend(b, 0, 0)}>> \o [i \in DOMAIN vols |-> {UpsertVolume(vols[i], b)}] >>
AddBackend(name) == << <<{UpsertBackend(0, name, 0)}>> >>
RenameBackend(name, newName) == << <<{UpsertBackend(0, name, newName)}>> >>

(* updateVolume: the backend first, then the volumes that change with it.  *)
UpdateVolume(v, b) ==
  << <<{UpsertBackend(b, 0, 0)}, {InconsistentRead(volume, v)}>>,
     <<{UpsertVolume(v, b)}>> >>
ImportVolume(v, internalName, b) ==
  << <<{UpsertVolumeByInternalName(v, 0, internalName, b), Read(backend, 0)},
       {Delete(volume, v)}>> >>

(* A caller that asks for a lower volume while it holds a higher one, and  *)
(* one that locks both at once.                                            *)
OutOfOrder == << <<{UpsertVolume(2, 0)}>>, <<{UpsertVolume(1, 0)}>> >>
MoveBoth == << <<{UpsertVolume(1, 0)}, {UpsertVolume(2, 0)}>> >>

Stop == << <<{LockCache}>> >>

LifecyclePrograms ==
  (t1 :> {AddVolume(1, 1), CreateSnapshot(1, 1)}) @@
  (t2 :> {DeleteVolume(1), DeleteSnapshot(1, 1)}) @@
  (t3 :> {DeleteBackend(1)})

NestedPrograms ==
  (t1 :> {UpdateBackend(1, 0, 1, <<1, 2>>), OutOfOrder}) @@
  (t2 :> {MoveBoth, UpdateVolume(1, 1)})

KeysPrograms ==
  (t1 :> {RenameBackend(1, 2), RenameBackend(2, 1), AddBackend(4)}) @@
  (t2 :> {AddVolume(1, 2), ImportVolume(1, 2, 1)}) @@
  (t3 :> {RenameBackend(3, 2), Stop})

(* The workloads keep to what the theorems assume of the callers, but for  *)
(* that of the keys: its import can delete its volume and lists no         *)
(* snapshots, and it creates and renames.                                  *)
ASSUME WorkloadAssumption ==
  /\ Alone /\ Whole /\ NestedOnce /\ Named
  /\ Program = KeysPrograms \/ (Careful /\ Settled)
=============================================================================
