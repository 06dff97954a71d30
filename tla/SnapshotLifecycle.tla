------------------------- MODULE SnapshotLifecycle -------------------------
(***************************************************************************)
(* core/concurrent_core.go: snapshots, the volumes they pin, and the soft  *)
(* deletion between the two.  DeleteVolume only marks a volume that has    *)
(* snapshots; whoever deletes the last snapshot, or the last clone, deletes *)
(* the volume.  Each of these requests runs under its own transaction and  *)
(* its own txnMutex, so they meet only in the cache locks.                 *)
(*                                                                         *)
(* Every call of the storage system and of the API server may fail, and    *)
(* the process may crash between any two.  There is one backend, online.   *)
(* Volumes are made in VolumeLifecycle; here they exist at the beginning.  *)
(***************************************************************************)
EXTENDS Naturals, FiniteSets

CONSTANTS Volume, Snapshot,
          Parent,       \* the volume of each snapshot
          CloneFrom,    \* the snapshot that each volume was cloned from
          Twin,         \* <<s, t>>: t is on a clone of s, with its internal name
          Requested,    \* the snapshots that clients ask for
          Client, boot, None,
          MaxLeft       \* bound: objects at a time that failures have left

ASSUME ParentAssumption == Parent \in [Snapshot -> Volume]
ASSUME CloneAssumption == CloneFrom \in [Volume -> Snapshot \cup {None}]
ASSUME TwinAssumption == Twin \subseteq Snapshot \X Snapshot
ASSUME RequestedAssumption == Requested \subseteq Snapshot
ASSUME DistinctAssumption == Volume \cap Snapshot = {} /\ boot \notin Client
ASSUME MaxLeftAssumption == MaxLeft \in Nat
ASSUME NoneAssumption == None \notin Volume \cup Snapshot \cup Client \cup {boot}

Worker == Client \cup {boot}
Object == Volume \cup Snapshot

VARIABLES volRec, snapRec,    \* TridentVolume and TridentSnapshot records
          txn,                \* TridentTransaction records
          diskVol, diskSnap,  \* what is on the storage system
          torn,     \* history: the snapshots whose making was reported as failed
          volCache, snapCache,
          phase,    \* down, txns (replaying the log), up or failed
          queue,    \* the transactions the bootstrap has yet to replay
          mutex,    \* txnMutex
          job,      \* what each worker is doing
          promise,  \* history: what the clients were told of each object
          mishap    \* history: whether a call has failed or the process crashed

disk == <<diskVol, diskSnap, torn>>
records == <<volRec, snapRec>>
cache == <<volCache, snapCache>>
control == <<phase, queue>>
vars == <<records, txn, disk, cache, control, mutex, job, promise, mishap>>

(* key: the object whose txnMutex it holds, old: the operation of the      *)
(* transaction it replays, vol: the volume it deletes, nested: whether     *)
(* that is the source of a deleted clone, dups: the extant snapshots of    *)
(* clones that it will remove.                                             *)
Idle == [pc |-> "idle", op |-> "none", key |-> None, old |-> "none",
         vol |-> None, nested |-> FALSE, dups |-> {}, err |-> FALSE]

Init ==
  /\ volRec = [v \in Volume |-> "online"] /\ volCache = volRec
  /\ snapRec = {} /\ snapCache = {}
  /\ diskVol = Volume
  /\ diskSnap = Snapshot \ Requested /\ torn = {}
  /\ txn = [x \in Object |-> "none"]
  /\ phase = "up" /\ queue = {}
  /\ mutex = [x \in Object |-> None]
  /\ job = [w \in Worker |-> Idle]
  /\ promise = [x \in Object |-> IF x \in Volume THEN "acked" ELSE "none"]
  /\ mishap = FALSE

-----------------------------------------------------------------------------
At(w, p) == job[w].pc = p
Key(w) == job[w].key
Goto(w, p) == job' = [job EXCEPT ![w].pc = p]
Of(v) == {s \in Snapshot : Parent[s] = v}
Removed(S) == diskSnap' = diskSnap \ S /\ torn' = torn \ S
Fails == mishap' = TRUE
(* The bound: what is torn, has a transaction without an owner or is shaky *)
(* counts.                                                                 *)
MayLeave ==
  Cardinality(torn \cup {x \in Object : \/ txn[x] # "none" /\ mutex[x] = None
                                       \/ promise[x] = "shaky"}) < MaxLeft
TxnFails == MayLeave /\ Fails /\ UNCHANGED txn
Works == UNCHANGED mishap
Deleting(x) == \E w \in Client : job[w].op = "delete" /\ Key(w) = x
Creating(w, x) == \E u \in Client \ {w} : job[u].op = "create" /\ Key(u) = x

(* The cache locks: a request on a snapshot holds a read lock on its       *)
(* volume, CreateSnapshot until its transaction is gone; deleteVolume      *)
(* holds the write lock.  Two requests on one snapshot exclude one another *)
(* by txnMutex.                                                            *)
Readers(v) ==
  {w \in Worker : /\ Key(w) \in Of(v)
                  /\ \/ At(w, "snap") \/ At(w, "persist") \/ At(w, "undo")
                     \/ At(w, "endCreate") \/ At(w, "dsnap") \/ At(w, "dstore")}
Writers(v) ==
  {w \in Worker : job[w].vol = v /\ (At(w, "vsoft") \/ At(w, "vremove") \/ At(w, "vstore"))}

(* A request ends and releases txnMutex.  A client relies on an object     *)
(* that was acknowledged until it asks for its deletion.  A snapshot is    *)
(* "shaky" if its transaction was left behind, or if a second create of it *)
(* is under way, which logs a transaction before it looks again.           *)
Return(w, ok) ==
  /\ job' = [job EXCEPT ![w] = Idle]
  /\ mutex' = [mutex EXCEPT ![Key(w)] = None]
  /\ promise' = [promise EXCEPT ![Key(w)] =
       CASE ok /\ job[w].op = "create" /\ @ = "none" ->
              IF Deleting(Key(w)) THEN "doomed"
              ELSE IF txn'[Key(w)] = "none" /\ ~Creating(w, Key(w)) THEN "acked"
              ELSE "shaky"
         [] ok /\ job[w].op = "delete" /\ Key(w) \in Snapshot -> "none"
         [] OTHER -> @]

(* Mutant: the bootstrap ends with txnMutex locked.                        *)
ReplayFailsLocked(w) ==
  IF w # boot THEN Return(w, FALSE) /\ UNCHANGED phase
  ELSE /\ phase' = "failed"
       /\ job' = [job EXCEPT ![w] = Idle]
       /\ UNCHANGED <<mutex, promise>>

(* A replay fails: the request is answered with the error, the bootstrap   *)
(* ends with bootstrapError.                                               *)
ReplayFails(w) ==
  IF w # boot THEN Return(w, FALSE) /\ UNCHANGED phase
  ELSE /\ phase' = "failed"
       /\ job' = [job EXCEPT ![w] = Idle]
       /\ mutex' = [mutex EXCEPT ![Key(w)] = None]
       /\ UNCHANGED promise

-----------------------------------------------------------------------------
(* Plugin.CreateSnapshot and the first look of core's CreateSnapshot: an   *)
(* existing snapshot is returned, one of the same name on another volume   *)
(* rejected.                                                               *)
CreateSnapshot(w) ==
  /\ phase = "up" /\ At(w, "idle")
  /\ \E s \in Requested :
       /\ volCache[Parent[s]] # "none"
       /\ \A t \in snapCache : <<s, t>> \notin Twin /\ <<t, s>> \notin Twin
       /\ IF s \in snapCache
            THEN /\ promise[s] = "none" /\ ~Deleting(s)
                 /\ promise' = [promise EXCEPT ![s] =
                      IF txn[s] = "none" /\ ~Creating(w, s) THEN "acked" ELSE "shaky"]
                 /\ UNCHANGED job
            ELSE /\ job' = [job EXCEPT ![w] = [Idle EXCEPT !.pc = "mutex",
                                                 !.op = "create", !.key = s]]
                 /\ UNCHANGED promise
  /\ UNCHANGED <<records, txn, disk, cache, control, mutex, mishap>>

(* DeleteVolume and DeleteSnapshot of what is in the cache; the rest is a  *)
(* NotFoundError, a success to the CSI client.                             *)
Delete(w) ==
  /\ phase = "up" /\ At(w, "idle")
  /\ \E x \in Volume \cup Requested :
       LET known == IF x \in Volume THEN volCache[x] # "none" ELSE x \in snapCache
       IN  IF known
             THEN /\ promise' = [promise EXCEPT ![x] = "doomed"]
                  /\ job' = [job EXCEPT ![w] = [Idle EXCEPT !.pc = "mutex",
                                                  !.op = "delete", !.key = x]]
             ELSE /\ promise' = [promise EXCEPT ![x] = "none"]
                  /\ UNCHANGED job
  /\ UNCHANGED <<records, txn, disk, cache, control, mutex, mishap>>

LockTxn(w) ==
  /\ At(w, "mutex") /\ mutex[Key(w)] = None
  /\ mutex' = [mutex EXCEPT ![Key(w)] = w]
  /\ Goto(w, "log")
  /\ UNCHANGED <<records, txn, disk, cache, control, promise, mishap>>

(* AddVolumeTransaction, which first replays an older transaction.         *)
AddVolumeTransaction(w) ==
  /\ At(w, "log")
  /\ \/ /\ txn[Key(w)] = "none"
        /\ txn' = [txn EXCEPT ![Key(w)] =
             CASE job[w].op = "create" -> "addSnapshot"
               [] Key(w) \in Volume -> "deleteVolume"
               [] OTHER -> "deleteSnapshot"]
        /\ job' = [job EXCEPT ![w].pc = CASE job[w].op = "create" -> "lock"
                                          [] Key(w) \in Volume -> "vlock"
                                          [] OTHER -> "dlock",
                              ![w].vol = IF Key(w) \in Volume THEN Key(w) ELSE None]
        /\ Works /\ UNCHANGED <<mutex, promise>>
     \/ /\ txn[Key(w)] # "none"
        /\ job' = [job EXCEPT ![w].pc = "replay", ![w].old = txn[Key(w)]]
        /\ Works /\ UNCHANGED <<txn, mutex, promise>>
     \/ Fails /\ UNCHANGED txn /\ Return(w, FALSE)
  /\ UNCHANGED <<records, disk, cache, control>>

-----------------------------------------------------------------------------
(* CreateSnapshot under its locks.  A volume that is gone by now is not    *)
(* looked for, see NilVolume.                                              *)
LockSnapshot(w) ==
  LET v == Parent[Key(w)] IN
  /\ At(w, "lock") /\ Writers(v) = {} /\ volCache[v] # "none"
  /\ job' = IF Key(w) \in snapCache \/ volCache[v] = "deleting"
              THEN [job EXCEPT ![w].pc = "endCreate", ![w].err = TRUE]
              ELSE [job EXCEPT ![w].pc = "snap"]
  /\ Works
  /\ UNCHANGED <<records, txn, disk, cache, control, mutex, promise>>

(* The driver's CreateSnapshot.  It may fail after it has made the         *)
(* snapshot, as when ONTAP's answer to the query for it is lost; without a *)
(* snapshot to name, addSnapshotCleanup removes nothing.                   *)
Snap(w) ==
  /\ At(w, "snap")
  /\ \/ /\ Parent[Key(w)] \in diskVol
        /\ diskSnap' = diskSnap \cup {Key(w)} /\ torn' = torn \ {Key(w)}
        /\ Goto(w, "persist") /\ Works
     \/ /\ \/ UNCHANGED <<diskSnap, torn>>
           \/ /\ Parent[Key(w)] \in diskVol /\ MayLeave
              /\ diskSnap' = diskSnap \cup {Key(w)} /\ torn' = torn \cup {Key(w)}
        /\ job' = [job EXCEPT ![w].pc = "endCreate", ![w].err = TRUE]
        /\ Fails
  /\ UNCHANGED <<records, txn, diskVol, cache, control, mutex, promise>>

(* storeClient.AddSnapshot and the cache.                                  *)
PersistSnapshot(w) ==
  /\ At(w, "persist")
  /\ \/ /\ snapRec' = snapRec \cup {Key(w)} /\ snapCache' = snapCache \cup {Key(w)}
        /\ Goto(w, "endCreate") /\ Works
     \/ /\ job' = [job EXCEPT ![w].pc = "undo", ![w].err = TRUE]
        /\ Fails /\ UNCHANGED <<snapRec, snapCache>>
  /\ UNCHANGED <<volRec, txn, disk, volCache, control, mutex, promise>>

(* Mutant: the transaction goes even if the snapshot could not be removed. *)
CleanupDropsTxn(w) ==
  /\ At(w, "undo")
  /\ Removed({}) \/ Removed({Key(w)})
  /\ Goto(w, "endCreate") /\ Fails
  /\ UNCHANGED <<records, txn, diskVol, cache, control, mutex, promise>>

(* addSnapshotCleanup: if the snapshot cannot be removed the transaction   *)
(* is left for the next replay.                                            *)
Cleanup(w) ==
  /\ At(w, "undo") /\ UNCHANGED txn
  /\ \/ /\ Removed({Key(w)})
        /\ Goto(w, "endCreate") /\ Works /\ UNCHANGED <<mutex, promise>>
     \/ Return(w, FALSE) /\ Fails /\ UNCHANGED <<diskSnap, torn>>
  /\ UNCHANGED <<records, diskVol, cache, control>>

(* The deferred DeleteVolumeTransaction.  Its error is lost: the results   *)
(* of CreateSnapshot are not named.                                        *)
EndCreate(w) ==
  /\ At(w, "endCreate")
  /\ \/ txn' = [txn EXCEPT ![Key(w)] = "none"] /\ Works
     \/ TxnFails
  /\ Return(w, ~job[w].err)
  /\ UNCHANGED <<records, disk, cache, control>>

-----------------------------------------------------------------------------
(* What follows deleteSnapshot.                                            *)
SnapshotDone(w, res) ==
  CASE job[w].old = "addSnapshot" /\ res # "ok" -> UNCHANGED txn /\ ReplayFails(w)
    [] job[w].old = "none" ->
         /\ job' = [job EXCEPT ![w].pc = IF res = "ok" THEN "pinned" ELSE "endDelete",
                               ![w].err = (res = "failed")]
         /\ UNCHANGED <<txn, phase, mutex, promise>>
    [] OTHER -> Goto(w, "dropTxn") /\ UNCHANGED <<txn, phase, mutex, promise>>

(* deleteSnapshot.  No snapshot ever lacks its volume (SnapshotHasVolume), *)
(* so nothing is in state MissingVolume.  The volume of a snapshot that is *)
(* not in the cache is not known, and not locked.                          *)
LockDeleteSnapshot(w) ==
  LET v == Parent[Key(w)] IN
  /\ At(w, "dlock") /\ (Key(w) \in snapCache => Writers(v) = {})
  /\ IF Key(w) \notin snapCache \/ volCache[v] = "none"
       THEN SnapshotDone(w, "notFound")
       ELSE Goto(w, "dsnap") /\ UNCHANGED <<txn, phase, mutex, promise>>
  /\ Works
  /\ UNCHANGED <<records, disk, cache, queue>>

RemoveSnapshot(w) ==
  /\ At(w, "dsnap")
  /\ \/ /\ Removed({Key(w)})
        /\ Goto(w, "dstore") /\ Works /\ UNCHANGED <<txn, phase, mutex, promise>>
     \/ SnapshotDone(w, "failed") /\ Fails /\ UNCHANGED <<diskSnap, torn>>
  /\ UNCHANGED <<records, diskVol, cache, queue>>

UnpersistSnapshot(w) ==
  /\ At(w, "dstore")
  /\ \/ /\ snapRec' = snapRec \ {Key(w)} /\ snapCache' = snapCache \ {Key(w)}
        /\ SnapshotDone(w, "ok") /\ Works
     \/ SnapshotDone(w, "failed") /\ Fails /\ UNCHANGED <<snapRec, snapCache>>
  /\ UNCHANGED <<volRec, disk, volCache, queue>>

(* Mutant: a volume is not looked after once its snapshot is gone.         *)
PinForgotten(w) ==
  /\ At(w, "pinned")
  /\ Goto(w, "endDelete")
  /\ UNCHANGED <<records, txn, disk, cache, control, mutex, promise, mishap>>

(* DeleteSnapshot, without locks: the last snapshot of a soft-deleted      *)
(* volume takes the volume along.  Otherwise deleteCloneSnapshots lists    *)
(* the extant copies of the snapshot on clones.                            *)
Pinned(w) ==
  LET v == Parent[Key(w)]
      dups == {t \in Snapshot \ snapCache :
                 <<Key(w), t>> \in Twin /\ volCache[Parent[t]] # "none"}
      last == volCache[v] = "deleting" /\ Of(v) \cap snapCache = {}
  IN
  /\ At(w, "pinned")
  /\ job' = CASE last -> [job EXCEPT ![w].pc = "vlock", ![w].vol = v]
              [] ~last /\ volCache[v] # "none" /\ dups # {} ->
                   [job EXCEPT ![w].pc = "dups", ![w].dups = dups]
              [] OTHER -> [job EXCEPT ![w].pc = "endDelete"]
  /\ UNCHANGED <<records, txn, disk, cache, control, mutex, promise, mishap>>

(* deleteCloneSnapshots takes the write lock on the backend, which every   *)
(* holder of a volume lock reads, and removes what it can of its list.     *)
DeleteCloneSnapshots(w) ==
  /\ At(w, "dups")
  /\ \A v \in Volume : Readers(v) \cup Writers(v) = {}
  /\ \E removed \in SUBSET job[w].dups : Removed(removed)
  /\ job' = [job EXCEPT ![w].pc = "endDelete", ![w].dups = {}]
  /\ UNCHANGED <<records, txn, diskVol, cache, control, mutex, promise, mishap>>

(* deleteSnapshotCleanup, and the deferred function of DeleteVolume.       *)
EndDelete(w) ==
  /\ At(w, "endDelete")
  /\ \/ /\ txn' = [txn EXCEPT ![Key(w)] = "none"]
        /\ Return(w, ~job[w].err) /\ Works
     \/ TxnFails /\ Return(w, FALSE)
  /\ UNCHANGED <<records, disk, cache, control>>

-----------------------------------------------------------------------------
(* What follows deleteVolume: a failure to delete the source of a clone is *)
(* only logged, and so is one of a replay.                                 *)
VolumeDone(w, res) ==
  job' = [job EXCEPT ![w].pc = IF job[w].old = "none" THEN "endDelete" ELSE "dropTxn",
                     ![w].err = (res = "failed" /\ job[w].old = "none" /\ ~job[w].nested),
                     ![w].vol = None, ![w].nested = FALSE]

(* Mutant: the snapshots are listed before the readers have left.          *)
LockVolumeAtOnce(w) ==
  LET v == job[w].vol IN
  /\ At(w, "vlock") /\ Writers(v) = {}
  /\ CASE volCache[v] = "none" -> VolumeDone(w, "notFound")
       [] Of(v) \cap snapCache # {} -> Goto(w, "vsoft")
       [] OTHER -> Goto(w, "vremove")
  /\ UNCHANGED <<records, txn, disk, cache, control, mutex, promise, mishap>>

(* deleteVolume: whether it has snapshots is decided under the write lock, *)
(* and whether it should be deleted at all is not asked again.             *)
LockVolume(w) ==
  LET v == job[w].vol IN
  /\ At(w, "vlock") /\ Readers(v) \cup Writers(v) = {}
  /\ CASE volCache[v] = "none" -> VolumeDone(w, "notFound")
       [] volCache[v] # "none" /\ Of(v) \cap snapCache # {} -> Goto(w, "vsoft")
       [] OTHER -> Goto(w, "vremove")
  /\ UNCHANGED <<records, txn, disk, cache, control, mutex, promise, mishap>>

SoftDelete(w) ==
  /\ At(w, "vsoft")
  /\ \/ /\ volRec' = [volRec EXCEPT ![job[w].vol] = "deleting"]
        /\ volCache' = [volCache EXCEPT ![job[w].vol] = "deleting"]
        /\ VolumeDone(w, "ok") /\ Works
     \/ VolumeDone(w, "failed") /\ Fails /\ UNCHANGED <<volRec, volCache>>
  /\ UNCHANGED <<snapRec, txn, disk, snapCache, control, mutex, promise>>

(* The storage system drops the volume with whatever snapshots it has.     *)
RemoveVolume(w) ==
  /\ At(w, "vremove")
  /\ \/ /\ diskVol' = diskVol \ {job[w].vol}
        /\ Removed(Of(job[w].vol))
        /\ Goto(w, "vstore") /\ Works
     \/ VolumeDone(w, "failed") /\ Fails /\ UNCHANGED disk
  /\ UNCHANGED <<records, txn, cache, control, mutex, promise>>

UnpersistVolume(w) ==
  /\ At(w, "vstore")
  /\ \/ /\ volRec' = [volRec EXCEPT ![job[w].vol] = "none"]
        /\ volCache' = [volCache EXCEPT ![job[w].vol] = "none"]
        /\ Goto(w, "vsource") /\ Works
     \/ VolumeDone(w, "failed") /\ Fails /\ UNCHANGED <<volRec, volCache>>
  /\ UNCHANGED <<snapRec, txn, disk, snapCache, control, mutex, promise>>

(* Mutant: the source of a deleted clone goes whether or not its deletion  *)
(* was asked for.                                                          *)
SourceUnasked(w) ==
  LET s == CloneFrom[job[w].vol] IN
  /\ At(w, "vsource")
  /\ IF s # None
       THEN job' = [job EXCEPT ![w].pc = "vlock", ![w].vol = Parent[s], ![w].nested = TRUE]
       ELSE VolumeDone(w, "ok")
  /\ UNCHANGED <<records, txn, disk, cache, control, mutex, promise, mishap>>

(* The volume was a clone: its source, read without a lock, is deleted too *)
(* if it is soft-deleted, under nobody's transaction.                      *)
SourceVolume(w) ==
  LET s == CloneFrom[job[w].vol] IN
  /\ At(w, "vsource")
  /\ IF s # None /\ volCache[Parent[s]] = "deleting"
       THEN job' = [job EXCEPT ![w].pc = "vlock", ![w].vol = Parent[s], ![w].nested = TRUE]
       ELSE VolumeDone(w, "ok")
  /\ UNCHANGED <<records, txn, disk, cache, control, mutex, promise, mishap>>

-----------------------------------------------------------------------------
(* handleFailedTransaction.                                                *)
Replay(w) ==
  /\ At(w, "replay")
  /\ job' = CASE job[w].old = "deleteVolume" /\ volCache[Key(w)] = "none" ->
                   [job EXCEPT ![w].pc = "dropTxn"]
              [] job[w].old = "deleteVolume" /\ volCache[Key(w)] # "none" ->
                   [job EXCEPT ![w].pc = "vlock", ![w].vol = Key(w)]
              [] job[w].old = "addSnapshot" /\ Key(w) \notin snapCache ->
                   [job EXCEPT ![w].pc = "sweep"]
              [] OTHER -> [job EXCEPT ![w].pc = "dlock"]
  /\ UNCHANGED <<records, txn, disk, cache, control, mutex, promise, mishap>>

(* A snapshot without a record is removed from the backend, and no volume  *)
(* is locked for it.                                                       *)
Sweep(w) ==
  /\ At(w, "sweep") /\ UNCHANGED txn
  /\ \/ /\ Removed({Key(w)}) /\ snapCache' = snapCache \ {Key(w)}
        /\ Goto(w, "dropTxn") /\ Works /\ UNCHANGED <<phase, mutex, promise>>
     \/ ReplayFails(w) /\ Fails /\ UNCHANGED <<diskSnap, torn, snapCache>>
  /\ UNCHANGED <<records, diskVol, volCache, queue>>

(* After a replayed deletion the request that found it is rejected.        *)
DropTxn(w) ==
  /\ At(w, "dropTxn")
  /\ \/ /\ txn' = [txn EXCEPT ![Key(w)] = "none"] /\ Works /\ UNCHANGED phase
        /\ CASE w = boot -> /\ job' = [job EXCEPT ![w] = Idle]
                            /\ mutex' = [mutex EXCEPT ![Key(w)] = None]
                            /\ UNCHANGED promise
             [] w # boot /\ job[w].old # "addSnapshot" -> Return(w, FALSE)
             [] OTHER -> /\ job' = [job EXCEPT ![w].pc = "log", ![w].old = "none"]
                         /\ UNCHANGED <<mutex, promise>>
     \/ TxnFails /\ ReplayFails(w)
  /\ UNCHANGED <<records, disk, cache, queue>>

-----------------------------------------------------------------------------
Down ==
  /\ phase' = "down" /\ queue' = {}
  /\ volCache' = [v \in Volume |-> "none"] /\ snapCache' = {}
  /\ mutex' = [x \in Object |-> None]
  /\ job' = [w \in Worker |-> Idle]
  /\ Fails
  /\ UNCHANGED <<records, txn, disk, promise>>

(* The process ends at any moment, and only the persistent state survives. *)
Crash == phase # "down" /\ Down

(* CreateSnapshot reads volume.State of a volume that was deleted since it *)
(* first looked.  Nothing recovers from the nil pointer.                   *)
NilVolume(w) ==
  /\ At(w, "lock") /\ Writers(Parent[Key(w)]) = {}
  /\ volCache[Parent[Key(w)]] = "none" /\ Key(w) \notin snapCache
  /\ Down

(* bootstrapVolumes and bootstrapSnapshots, then bootstrapVolTxns.         *)
Bootstrap ==
  /\ phase = "down"
  /\ phase' = "txns"
  /\ volCache' = volRec /\ snapCache' = snapRec
  /\ queue' = {x \in Object : txn[x] # "none"}
  /\ UNCHANGED <<records, txn, disk, mutex, job, promise, mishap>>

BootstrapTxn ==
  /\ phase = "txns" /\ At(boot, "idle")
  /\ \E x \in queue :
       /\ queue' = queue \ {x}
       /\ mutex' = [mutex EXCEPT ![x] = boot]
       /\ job' = [job EXCEPT ![boot] =
                    [Idle EXCEPT !.pc = "replay", !.key = x, !.old = txn[x]]]
  /\ UNCHANGED <<records, txn, disk, cache, phase, promise, mishap>>

Bootstrapped ==
  /\ phase = "txns" /\ At(boot, "idle") /\ queue = {}
  /\ phase' = "up"
  /\ UNCHANGED <<records, txn, disk, cache, queue, mutex, job, promise, mishap>>

-----------------------------------------------------------------------------
Step(w) ==
  \/ AddVolumeTransaction(w)
  \/ Snap(w) \/ PersistSnapshot(w) \/ Cleanup(w) \/ EndCreate(w)
  \/ RemoveSnapshot(w) \/ UnpersistSnapshot(w) \/ Pinned(w) \/ EndDelete(w)
  \/ SoftDelete(w) \/ RemoveVolume(w) \/ UnpersistVolume(w) \/ SourceVolume(w)
  \/ Replay(w) \/ Sweep(w) \/ DropTxn(w)

(* The steps that wait for a lock.                                         *)
Wait(w) ==
  \/ LockTxn(w) \/ LockSnapshot(w) \/ NilVolume(w) \/ LockDeleteSnapshot(w)
  \/ DeleteCloneSnapshots(w) \/ LockVolume(w)

Next ==
  \/ \E w \in Client : CreateSnapshot(w) \/ Delete(w)
  \/ \E w \in Worker : Step(w) \/ Wait(w)
  \/ Crash \/ Bootstrap \/ BootstrapTxn \/ Bootstrapped

Spec == Init /\ [][Next]_vars

-----------------------------------------------------------------------------
TypeOK ==
  /\ volRec \in [Volume -> {"none", "online", "deleting"}]
  /\ volCache \in [Volume -> {"none", "online", "deleting"}]
  /\ snapRec \subseteq Requested /\ snapCache \subseteq Requested
  /\ diskVol \subseteq Volume /\ diskSnap \subseteq Snapshot /\ torn \subseteq diskSnap \cap Requested
  /\ txn \in [Object -> {"none", "addSnapshot", "deleteSnapshot", "deleteVolume"}]
  /\ phase \in {"down", "txns", "up", "failed"}
  /\ queue \subseteq Object
  /\ mutex \in [Object -> Worker \cup {None}]
  /\ promise \in [Object -> {"none", "acked", "shaky", "doomed"}]
  /\ \A w \in Worker : At(w, "idle") \/ Key(w) \in Object
  /\ \A x \in Object : mutex[x] # None => Key(mutex[x]) = x

(* Property: a snapshot that a request has put on the storage system has a *)
(* record, or a transaction whose replay removes it, unless the storage    *)
(* system made it and told the core that it had not.                       *)
SnapshotTracked ==
  \A s \in (diskSnap \cap Requested) \ torn :
    s \in snapRec \/ txn[s] = "addSnapshot"

(* Property: no volume goes while a snapshot of it is recorded, so that a  *)
(* restart finds the volume of every snapshot.                             *)
SnapshotHasVolume ==
  \A s \in snapRec : volRec[Parent[s]] # "none" /\ Parent[s] \in diskVol

Kept(x) ==
  IF x \in Volume THEN volRec[x] = "online" /\ x \in diskVol
  ELSE x \in snapRec /\ x \in diskSnap

(* Property: what a client was promised stays until it asks for its        *)
(* deletion: a snapshot survives the deletion of its volume, and a volume  *)
(* that of its clones and snapshots.                                       *)
AckedKept == \A x \in Object : promise[x] = "acked" => Kept(x)

(* Property: the same, whatever other requests and transactions are left.  *)
AnyAckKept == \A x \in Object : promise[x] \in {"acked", "shaky"} => Kept(x)

(* Property: unless something failed, a soft-deleted volume is never left  *)
(* behind without a snapshot that pins it.                                 *)
NoneLeftBehind ==
  ~mishap /\ (\A w \in Worker : At(w, "idle")) =>
    \A v \in Volume : volCache[v] = "deleting" => Of(v) \cap snapCache # {}
=============================================================================
