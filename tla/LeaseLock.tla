------------------------------ MODULE LeaseLock ------------------------------
(***************************************************************************)
(* pkg/locks/distlock/lease.go: the lock that nodes take in Kubernetes     *)
(* around cryptsetup on a volume that several of them use.  Creating the   *)
(* Lease is the acquisition, deleting it the release, and a host whose     *)
(* critical section failed, or that crashed in it, leaves it behind: no    *)
(* other host may touch the volume before it has tried again.              *)
(*                                                                         *)
(* The API server may report an error for a call that it applied, has not  *)
(* applied, or will only apply later, when the caller has gone on.  On one *)
(* host volumeLocks keeps the operations on a volume apart, so a host has  *)
(* one WithLock under way at most.                                         *)
(***************************************************************************)
EXTENDS Naturals

CONSTANTS Host, None,
          UID,         \* of Lease objects; one that nobody refers to any more
                       \* counts as new
          MaxFault     \* bound: failures of any kind

ASSUME NoneAssumption == None \notin UID \cup [holder : Host, uid : UID]
ASSUME MaxFaultAssumption == MaxFault \in Nat

Steps == 3             \* attempts of release

VARIABLES lease,       \* the Lease object, or None
          lateCreate,  \* creations that the API server will still apply, by host
          lateDelete,  \* deletions that it will still apply, by UID
          pc, op,      \* where each host is, and in which operation
          leaseUID,    \* of its LeaseLock
          tries,       \* failed attempts of its release
          faults,      \* failures so far
          unfinished,  \* history: hosts that entered the critical section and
                       \* have not completed it since
          lost         \* history: those of them whose Lease a late deletion took

host == <<pc, op, leaseUID, tries>>
late == <<lateCreate, lateDelete>>
history == <<unfinished, lost>>
vars == <<lease, late, host, faults, history>>

Operation == {"attach", "detach"}

Init ==
  /\ lease = None
  /\ lateCreate = {} /\ lateDelete = {}
  /\ pc = [h \in Host |-> "none"]
  /\ op = [h \in Host |-> "attach"]
  /\ leaseUID = [h \in Host |-> None]
  /\ tries = [h \in Host |-> 0]
  /\ faults = 0
  /\ unfinished = {} /\ lost = {}

-----------------------------------------------------------------------------
Goto(h, p) == pc' = [pc EXCEPT ![h] = p]
Works == UNCHANGED faults
Fails == faults < MaxFault /\ faults' = faults + 1
Unused == {u \in UID : u \notin lateDelete /\ \A h \in Host : u # leaseUID[h]}
New(h) == [holder |-> h, uid |-> CHOOSE u \in Unused : TRUE]

(* An error goes back to kubelet, which calls again: the host is "idle".   *)
(* While it detaches, most errors are logged and forgotten.  The next      *)
(* acquire starts without a UID.                                           *)
Leave(h, p) == Goto(h, p) /\ leaseUID' = [leaseUID EXCEPT ![h] = None]
Refused(h) == Leave(h, IF op[h] = "attach" THEN "idle" ELSE "none")

(* NodeStageVolume, NodePublishVolume or NodeExpandVolume ("attach"), or   *)
(* NodeUnstageVolume ("detach").                                           *)
Start(h) ==
  /\ pc[h] = "none"
  /\ Goto(h, "idle")
  /\ \E o \in Operation : op' = [op EXCEPT ![h] = o]
  /\ UNCHANGED <<lease, late, leaseUID, tries, faults, history>>

(* The critical section begins.                                            *)
Enter(h, uid) ==
  /\ leaseUID' = [leaseUID EXCEPT ![h] = uid]
  /\ unfinished' = unfinished \cup {h} /\ lost' = lost \ {h}
  /\ Goto(h, "cs")

(* acquire: Create.                                                        *)
Create(h) ==
  /\ pc[h] = "idle"
  /\ \/ /\ lease = None /\ Unused # {}
        /\ lease' = New(h)
        /\ Enter(h, New(h).uid) /\ Works /\ UNCHANGED lateCreate
     \/ /\ lease # None
        /\ Goto(h, "get")
        /\ Works /\ UNCHANGED <<lease, lateCreate, leaseUID, history>>
     \/ /\ Fails /\ Refused(h) /\ UNCHANGED history
        /\ \/ UNCHANGED lease /\ lateCreate' \in {lateCreate, lateCreate \cup {h}}
           \/ lease = None /\ Unused # {} /\ lease' = New(h) /\ UNCHANGED lateCreate
  /\ UNCHANGED <<lateDelete, op, tries>>

(* Mutant: a Lease of the host itself is a conflict too.                   *)
GetNoReentry(h) ==
  /\ pc[h] = "get"
  /\ Refused(h) /\ UNCHANGED history
  /\ UNCHANGED <<lease, late, op, tries, faults>>

(* Mutant: whatever Lease exists will do.                                  *)
GetAnyHolder(h) ==
  /\ pc[h] = "get"
  /\ IF lease = None THEN Refused(h) /\ UNCHANGED history
     ELSE Enter(h, lease.uid)
  /\ UNCHANGED <<lease, late, op, tries, faults>>

(* acquire: the Lease exists, but may be gone by now.  Its holder, and     *)
(* nobody else, enters again.                                              *)
Get(h) ==
  /\ pc[h] = "get"
  /\ \/ lease = None /\ Refused(h) /\ Works /\ UNCHANGED history
     \/ /\ lease # None
        /\ lease.holder = h
        /\ Enter(h, lease.uid) /\ Works
     \/ /\ lease # None
        /\ lease.holder # h
        /\ Refused(h) /\ Works /\ UNCHANGED history
     \/ Fails /\ Refused(h) /\ UNCHANGED history
  /\ UNCHANGED <<lease, late, op, tries>>

(* fn succeeds or fails; the Lease is kept if it fails.                    *)
CriticalSection(h) ==
  /\ pc[h] = "cs"
  /\ \/ /\ unfinished' = unfinished \ {h} /\ lost' = lost \ {h}
        /\ tries' = [tries EXCEPT ![h] = 0]
        /\ Goto(h, "release") /\ Works /\ UNCHANGED leaseUID
     \/ Fails /\ Refused(h) /\ UNCHANGED <<history, tries>>
  /\ UNCHANGED <<lease, late, op>>

-----------------------------------------------------------------------------
(* Mutant: without the precondition.                                       *)
OursByName(h) == lease # None

(* Whether Delete, with the UID as its precondition, deletes the Lease.    *)
Ours(h) == lease # None /\ (lease # None => lease.uid = leaseUID[h])

(* Mutant: one attempt too many.                                           *)
GiveUpLate(h) == tries[h] = Steps

GiveUp(h) == tries[h] + 1 = Steps

(* release: a Lease that is gone, or another one by now, will do.  After   *)
(* the last attempt it is ErrLockDeleteFailed, which every caller returns. *)
Release(h) ==
  /\ pc[h] = "release"
  /\ \/ /\ lease' = IF Ours(h) THEN None ELSE lease
        /\ Leave(h, "none") /\ Works /\ UNCHANGED <<lateDelete, tries>>
     \/ /\ Fails
        /\ \/ lease' = (IF Ours(h) THEN None ELSE lease) /\ UNCHANGED lateDelete
           \/ lateDelete' \in {lateDelete, lateDelete \cup {leaseUID[h]}} /\ UNCHANGED lease
        /\ tries' = [tries EXCEPT ![h] = @ + 1]
        /\ IF GiveUp(h) THEN Leave(h, "idle") ELSE UNCHANGED <<pc, leaseUID>>
  /\ UNCHANGED <<lateCreate, op, history>>

(* The API server applies a call whose caller has had an error.            *)
LateCreate(h) ==
  /\ h \in lateCreate
  /\ lateCreate' = lateCreate \ {h}
  /\ \/ lease = None /\ Unused # {} /\ lease' = New(h)
     \/ lease # None /\ UNCHANGED lease
  /\ UNCHANGED <<lateDelete, host, faults, history>>

LateDelete(u) ==
  /\ u \in lateDelete
  /\ lateDelete' = lateDelete \ {u}
  /\ \/ /\ lease # None
        /\ lease.uid = u
        /\ lease' = None
        /\ lost' = lost \cup ({lease.holder} \cap unfinished)
     \/ (lease # None => lease.uid # u) /\ UNCHANGED <<lease, lost>>
  /\ UNCHANGED <<lateCreate, host, faults, unfinished>>

(* The node's process ends; kubelet calls again.                           *)
Crash(h) ==
  /\ pc[h] \in {"get", "cs", "release"}
  /\ Fails
  /\ Leave(h, "idle")
  /\ UNCHANGED <<lease, late, op, tries, history>>

(* An administrator removes a Lease that its holder no longer tries for,   *)
(* and has inspected the device.                                           *)
Remove ==
  /\ lease # None
  /\ pc[lease.holder] = "none"
  /\ lease' = None
  /\ unfinished' = unfinished \ {lease.holder} /\ lost' = lost \ {lease.holder}
  /\ UNCHANGED <<late, host, faults>>

-----------------------------------------------------------------------------
WithLock(h) == Create(h) \/ Get(h) \/ CriticalSection(h) \/ Release(h)

Next ==
  \/ \E h \in Host : Start(h) \/ WithLock(h) \/ LateCreate(h) \/ Crash(h)
  \/ \E u \in lateDelete : LateDelete(u)
  \/ Remove
Spec == Init /\ [][Next]_vars

(* A call of WithLock goes on, and kubelet calls again after an error.     *)
FairSpec == Spec /\ \A h \in Host : WF_vars(WithLock(h))

-----------------------------------------------------------------------------
(* The attempts of a release stay within the steps of its backoff.         *)
TypeOK ==
  /\ lease \in {None} \cup [holder : Host, uid : UID]
  /\ lateCreate \subseteq Host /\ lateDelete \subseteq UID
  /\ pc \in [Host -> {"none", "idle", "get", "cs", "release"}]
  /\ op \in [Host -> Operation]
  /\ leaseUID \in [Host -> UID \cup {None}]
  /\ tries \in [Host -> 0 .. Steps]
  /\ \A h \in Host : /\ pc[h] \in {"cs", "release"} => leaseUID[h] \in UID
                     /\ pc[h] = "release" => tries[h] < Steps
  /\ faults \in Nat
  /\ unfinished \subseteq Host /\ lost \subseteq Host

(* A host that is in the critical section, or has failed or crashed in it  *)
(* and not completed it since, is the only one: no other host runs         *)
(* cryptsetup meanwhile, whichever calls fail, however their retries       *)
(* overlap and whoever restarts.  The exception is a host that entered     *)
(* again with the Lease of an earlier call, one deletion of which was      *)
(* still under way: the UID is the same, so the precondition lets it       *)
(* delete the Lease of a critical section that is running.                 *)
Exclusive == \A g, h \in unfinished \ lost : g = h

(* distlock keeps its promise for the hosts that have not lost their Lease. *)
Promise == INSTANCE StickyLock WITH working <- unfinished \ lost
ImplementsPromise == Promise!Spec

(* A Lease under which a host has entered to attach is deleted in the end, *)
(* for kubelet calls until it is: retries after any error find their way   *)
(* back in.  A Lease that a late creation leaves when the host is done is  *)
(* not among them, nor one of a detach that forgets an error.              *)
Released ==
  \A h \in Host, u \in UID :
    LET held == lease = [holder |-> h, uid |-> u]
    IN  (op[h] = "attach" /\ pc[h] \in {"cs", "release"} /\ leaseUID[h] = u /\ held) ~> ~held
=============================================================================
