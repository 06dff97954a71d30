--------------------------- MODULE LeaseLockProofs ---------------------------
(* Proofs about LeaseLock for any set of hosts and any number of failures. *)
EXTENDS LeaseLock, TLAPS

(* A host with work left holds the Lease, unless a late deletion took it.  *)
Owned ==
  \A h \in unfinished \ lost : lease # None /\ (lease # None => lease.holder = h)

(* The UID by which a host releases is the UID of no other host's Lease:   *)
(* Delete with that precondition hits its own Lease or none.               *)
OwnUID ==
  \A h \in Host : lease # None => (lease.uid = leaseUID[h] => lease.holder = h)

(* A host that releases has completed its work.                            *)
ReleaseDone == \A h \in Host : pc[h] = "release" => h \notin unfinished

IInv == TypeOK /\ Owned /\ OwnUID /\ ReleaseDone

-----------------------------------------------------------------------------
(* The API server gives a new Lease a UID that no host and no deletion     *)
(* under way refers to.                                                    *)
LEMMA NewFresh ==
  ASSUME TypeOK, NEW h \in Host, Unused # {}
  PROVE  /\ New(h) \in [holder : Host, uid : UID]
         /\ New(h).holder = h
         /\ New(h).uid \in UID
         /\ New(h) # None
         /\ \A g \in Host : New(h).uid # leaseUID[g]
<1> DEFINE u == CHOOSE x \in Unused : TRUE
<1>1. u \in Unused
  OBVIOUS
<1>2. u \in UID /\ \A g \in Host : u # leaseUID[g]
  BY <1>1 DEF Unused
<1>3. New(h) = [holder |-> h, uid |-> u]
  BY DEF New
<1> HIDE DEF u
<1>4. QED
  BY <1>2, <1>3, NoneAssumption

(* Types are preserved by every step.                                      *)
LEMMA TypeStep ==
  ASSUME TypeOK, [Next]_vars
  PROVE  TypeOK'
<1> USE DEF TypeOK
<1>1. ASSUME NEW h \in Host, Start(h) PROVE TypeOK'
  BY <1>1 DEF Start, Goto, late, history, Operation
<1>2. ASSUME NEW h \in Host, Create(h) PROVE TypeOK'
  <2>1. lease' \in {None} \cup [holder : Host, uid : UID]
    BY <1>2, NewFresh DEF Create
  <2>2. Unused # {} => New(h).uid \in UID
    BY NewFresh
  <2>3. pc' \in [Host -> {"none", "idle", "get", "cs", "release"}]
        /\ \A g \in Host : pc'[g] = "release" => pc[g] = "release"
    BY <1>2 DEF Create, Enter, Goto, Refused, Leave
  <2>4. leaseUID' \in [Host -> UID \cup {None}]
        /\ \A g \in Host : pc'[g] \in {"cs", "release"} => leaseUID'[g] \in UID
    BY <1>2, <2>2 DEF Create, Enter, Goto, Refused, Leave
  <2>5. faults' \in Nat /\ lateCreate' \subseteq Host
    BY <1>2 DEF Create, Works, Fails
  <2>6. unfinished' \subseteq Host /\ lost' \subseteq Host
    BY <1>2 DEF Create, Enter, history
  <2>7. UNCHANGED <<lateDelete, op, tries>>
    BY <1>2 DEF Create
  <2>8. QED
    BY <2>1, <2>3, <2>4, <2>5, <2>6, <2>7
<1>3. ASSUME NEW h \in Host, Get(h) PROVE TypeOK'
  <2>1. pc' \in [Host -> {"none", "idle", "get", "cs", "release"}]
        /\ \A g \in Host : pc'[g] = "release" => pc[g] = "release"
    BY <1>3 DEF Get, Enter, Goto, Refused, Leave
  <2>2. leaseUID' \in [Host -> UID \cup {None}]
        /\ \A g \in Host : pc'[g] \in {"cs", "release"} => leaseUID'[g] \in UID
    BY <1>3 DEF Get, Enter, Goto, Refused, Leave
  <2>3. faults' \in Nat
    BY <1>3 DEF Get, Works, Fails
  <2>4. unfinished' \subseteq Host /\ lost' \subseteq Host
    BY <1>3 DEF Get, Enter, history
  <2>5. UNCHANGED <<lease, lateCreate, lateDelete, op, tries>>
    BY <1>3 DEF Get, late
  <2>6. QED
    BY <2>1, <2>2, <2>3, <2>4, <2>5
<1>4. ASSUME NEW h \in Host, CriticalSection(h) PROVE TypeOK'
  <2>1. CASE pc' = [pc EXCEPT ![h] = "release"] /\ tries' = [tries EXCEPT ![h] = 0]
             /\ Works /\ UNCHANGED leaseUID
    BY <1>4, <2>1 DEF CriticalSection, Works, late, Steps, history
  <2>2. CASE Fails /\ Refused(h) /\ UNCHANGED <<history, tries>>
    BY <1>4, <2>2 DEF CriticalSection, Fails, Refused, Leave, Goto, late, history
  <2>3. QED
    BY <1>4, <2>1, <2>2 DEF CriticalSection, Goto
<1>5. ASSUME NEW h \in Host, Release(h) PROVE TypeOK'
  <2>1. lease' \in {None} \cup [holder : Host, uid : UID]
    BY <1>5 DEF Release
  <2>2. tries[h] \in 0 .. Steps /\ tries[h] < Steps
    BY <1>5 DEF Release
  <2>3. CASE Leave(h, "none") /\ UNCHANGED <<lateDelete, tries>>
    BY <1>5, <2>1, <2>3 DEF Release, Leave, Goto, Works, history, Fails
  <2>4. CASE Fails /\ tries' = [tries EXCEPT ![h] = @ + 1]
    <3>1. faults' \in Nat
      BY <2>4 DEF Fails
    <3>2. tries' \in [Host -> 0 .. Steps]
      BY <2>2, <2>4 DEF Steps
    <3>3. pc' \in [Host -> {"none", "idle", "get", "cs", "release"}]
          /\ leaseUID' \in [Host -> UID \cup {None}]
          /\ \A g \in Host : pc'[g] \in {"cs", "release"} => leaseUID'[g] \in UID
      BY <1>5 DEF Release, Leave, Goto
    <3>4. \A g \in Host : pc'[g] = "release" => tries'[g] < Steps
      BY <1>5, <2>2, <2>4, <3>2 DEF Release, GiveUp, Leave, Goto, Steps
    <3>5. lateDelete' \subseteq UID
      BY <1>5, NoneAssumption DEF Release
    <3>6. QED
      BY <1>5, <2>1, <3>1, <3>2, <3>3, <3>4, <3>5 DEF Release, history
  <2>5. QED
    BY <1>5, <2>3, <2>4 DEF Release
<1>6. ASSUME NEW h \in Host, LateCreate(h) PROVE TypeOK'
  BY <1>6, NewFresh DEF LateCreate, host, history
<1>7. ASSUME NEW u \in lateDelete, LateDelete(u) PROVE TypeOK'
  BY <1>7 DEF LateDelete, host
<1>8. ASSUME NEW h \in Host, Crash(h) PROVE TypeOK'
  BY <1>8 DEF Crash, Fails, Leave, Goto, late, history
<1>9. CASE Remove
  BY <1>9 DEF Remove, late, host
<1>10. CASE UNCHANGED vars
  BY <1>10 DEF vars, late, host, history
<1>11. QED
  BY <1>1, <1>2, <1>3, <1>4, <1>5, <1>6, <1>7, <1>8, <1>9, <1>10 DEF Next, WithLock

-----------------------------------------------------------------------------
(* Every step keeps the Lease with the host that has work left: a creation *)
(* needs the Lease to be absent, a deletion hits the deleter's own Lease   *)
(* or is late, and only the holder enters again.                           *)
LEMMA OwnedStep ==
  ASSUME IInv, [Next]_vars
  PROVE  Owned' /\ OwnUID' /\ ReleaseDone'
<1> USE DEF TypeOK, IInv, Owned, OwnUID, ReleaseDone
<1>1. ASSUME NEW h \in Host, Start(h) PROVE Owned' /\ OwnUID' /\ ReleaseDone'
  BY <1>1 DEF Start, Goto, late, history
<1>2. ASSUME NEW h \in Host, Create(h) PROVE Owned' /\ OwnUID' /\ ReleaseDone'
  <2>1. CASE lease = None /\ Unused # {} /\ lease' = New(h) /\ Enter(h, New(h).uid)
    <3>1. unfinished' \ lost' \subseteq {h}
      BY <2>1 DEF Enter
    <3>2. Owned' /\ OwnUID'
      BY <2>1, <3>1, NewFresh DEF Enter
    <3>3. ReleaseDone'
      BY <2>1 DEF Enter, Goto
    <3>4. QED
      BY <3>2, <3>3
  <2>2. CASE UNCHANGED <<lease, leaseUID, history>> /\ Goto(h, "get")
    BY <2>2 DEF Goto, history
  <2>3. CASE Refused(h) /\ UNCHANGED <<lease, history>>
    BY <2>3, NoneAssumption DEF Refused, Leave, Goto, history
  <2>4. CASE lease = None /\ Unused # {} /\ lease' = New(h) /\ Refused(h) /\ UNCHANGED history
    BY <2>4, NewFresh, NoneAssumption DEF Refused, Leave, Goto, history
  <2>5. QED
    BY <1>2, <2>1, <2>2, <2>3, <2>4 DEF Create
<1>3. ASSUME NEW h \in Host, Get(h) PROVE Owned' /\ OwnUID' /\ ReleaseDone'
  <2>1. CASE lease # None /\ lease.holder = h /\ Enter(h, lease.uid)
    BY <1>3, <2>1 DEF Get, Enter, Goto
  <2>2. CASE Refused(h) /\ UNCHANGED history
    BY <1>3, <2>2, NoneAssumption DEF Get, Refused, Leave, Goto, history
  <2>3. QED
    BY <1>3, <2>1, <2>2 DEF Get
<1>4. ASSUME NEW h \in Host, CriticalSection(h) PROVE Owned' /\ OwnUID' /\ ReleaseDone'
  <2>1. CASE unfinished' = unfinished \ {h} /\ lost' = lost \ {h} /\ Goto(h, "release")
             /\ UNCHANGED leaseUID
    BY <1>4, <2>1 DEF CriticalSection, Goto
  <2>2. CASE Refused(h) /\ UNCHANGED history
    BY <1>4, <2>2, NoneAssumption DEF CriticalSection, Refused, Leave, Goto, history
  <2>3. QED
    BY <1>4, <2>1, <2>2 DEF CriticalSection
<1>5. ASSUME NEW h \in Host, Release(h) PROVE Owned' /\ OwnUID' /\ ReleaseDone'
  <2>1. UNCHANGED <<unfinished, lost>>
    BY <1>5 DEF Release, history
  <2>2. Ours(h) => unfinished \ lost = {}
    BY <1>5 DEF Release, Ours
  <2>3. lease' = lease \/ (lease' = None /\ Ours(h))
    BY <1>5 DEF Release
  <2>4. Owned'
    BY <2>1, <2>2, <2>3
  <2>5. \A g \in Host : leaseUID'[g] \in {leaseUID[g], None} /\ pc'[g] \in {pc[g], "none", "idle"}
    BY <1>5 DEF Release, Leave, Goto
  <2>6. OwnUID' /\ ReleaseDone'
    BY <2>1, <2>3, <2>5, NoneAssumption
  <2>7. QED
    BY <2>4, <2>6
<1>6. ASSUME NEW h \in Host, LateCreate(h) PROVE Owned' /\ OwnUID' /\ ReleaseDone'
  BY <1>6, NewFresh DEF LateCreate, host, history
<1>7. ASSUME NEW u \in lateDelete, LateDelete(u) PROVE Owned' /\ OwnUID' /\ ReleaseDone'
  BY <1>7 DEF LateDelete, host
<1>8. ASSUME NEW h \in Host, Crash(h) PROVE Owned' /\ OwnUID' /\ ReleaseDone'
  BY <1>8, NoneAssumption DEF Crash, Leave, Goto, late, history
<1>9. CASE Remove
  BY <1>9 DEF Remove, late, host
<1>10. CASE UNCHANGED vars
  BY <1>10 DEF vars, late, host, history
<1>11. QED
  BY <1>1, <1>2, <1>3, <1>4, <1>5, <1>6, <1>7, <1>8, <1>9, <1>10 DEF Next, WithLock

(* At first there is no Lease and nobody has work left.                    *)
LEMMA InitIInv == Init => IInv
<1>1. Init => TypeOK
  BY DEF Init, TypeOK, Operation, Steps
<1>2. QED
  BY <1>1 DEF Init, IInv, Owned, OwnUID, ReleaseDone

(* The types, for any number of hosts, UIDs and failures.                  *)
THEOREM TypeCorrect == Spec => []TypeOK
<1>1. Init => TypeOK
  BY InitIInv DEF IInv
<1>2. TypeOK /\ [Next]_vars => TypeOK'
  BY TypeStep
<1>3. QED
  BY <1>1, <1>2, PTL DEF Spec

(* The inductive invariant of LeaseLock.                                   *)
THEOREM LeaseInvariant == Spec => []IInv
<1>1. IInv /\ [Next]_vars => IInv'
  BY TypeStep, OwnedStep DEF IInv
<1>2. QED
  BY InitIInv, <1>1, PTL DEF Spec

(* Two hosts never have work left at once under distlock.LeaseLock, but    *)
(* for one whose Lease a late deletion took.                               *)
THEOREM ExclusiveTheorem == Spec => []Exclusive
<1>1. IInv => Exclusive
  BY DEF IInv, Owned, Exclusive
<1>2. QED
  BY <1>1, LeaseInvariant, PTL

(* Each step of LeaseLock begins or ends the work of one host, or neither. *)
LEMMA PromiseStep ==
  ASSUME IInv, [Next]_vars
  PROVE  [Promise!Next]_(unfinished \ lost)
<1> DEFINE working == unfinished \ lost
<1> USE DEF Promise!Next, Promise!Begin, Promise!End
<1>1. ASSUME NEW h \in Host, NEW u, Enter(h, u), lease = None \/ lease.holder = h
      PROVE  Promise!Begin(h)
  BY <1>1 DEF Enter, IInv, TypeOK, Owned
<1>2. ASSUME NEW h \in Host, Create(h) PROVE Promise!Begin(h) \/ working' = working
  BY <1>1, <1>2 DEF Create, history
<1>3. ASSUME NEW h \in Host, Get(h) PROVE Promise!Begin(h) \/ working' = working
  BY <1>1, <1>3 DEF Get, history
<1>4. ASSUME NEW h \in Host, CriticalSection(h) PROVE Promise!End(h) \/ working' = working
  BY <1>4 DEF CriticalSection, history
<1>5. ASSUME NEW u \in lateDelete, LateDelete(u)
      PROVE  (\E h \in Host : Promise!End(h)) \/ working' = working
  BY <1>5 DEF LateDelete, IInv, TypeOK
<1>6. ASSUME Remove PROVE \E h \in Host : Promise!End(h)
  BY <1>6 DEF Remove, IInv, TypeOK
<1>7. ASSUME NEW h \in Host, Start(h) \/ Release(h) \/ LateCreate(h) \/ Crash(h)
      PROVE  working' = working
  BY <1>7 DEF Start, Release, LateCreate, Crash, history
<1>8. CASE UNCHANGED vars
  BY <1>8 DEF vars, history
<1>9. QED
  BY <1>2, <1>3, <1>4, <1>5, <1>6, <1>7, <1>8 DEF Next, WithLock

(* distlock.LeaseLock implements StickyLock, for any number of hosts and   *)
(* failures: no host begins while another has work left, and nobody's work *)
(* is ended by a step of another host.                                     *)
THEOREM LeaseLockImplementsPromise == Spec => ImplementsPromise
<1>1. Init => Promise!Init
  BY DEF Init, Promise!Init
<1>2. IInv /\ [Next]_vars => [Promise!Next]_(unfinished \ lost)
  BY PromiseStep
<1>3. QED
  BY <1>1, <1>2, LeaseInvariant, PTL DEF Spec, ImplementsPromise, Promise!Spec
=============================================================================
