---------------------------- MODULE GCNamedMutex ----------------------------
(***************************************************************************)
(* pkg/locks/gc_named_locks.go: reader/writer mutexes looked up by name in *)
(* a map.  An entry is created by the first caller that needs it and       *)
(* deleted by the last one that unlocks it, so the sync.RWMutex behind a   *)
(* name changes over time while callers wait on it or hold it.             *)
(*                                                                         *)
(* Every access to the map and to a reference count happens inside g.m, so *)
(* the code between g.m.Lock() and g.m.Unlock() is one step.  Waiting for  *)
(* the RWMutex itself happens outside g.m and is split into the steps of   *)
(* Go's sync.RWMutex: a writer first announces itself, which holds back    *)
(* new readers, and then waits for the readers already inside.             *)
(***************************************************************************)
EXTENDS Naturals, FiniteSets

CONSTANTS Thread,    \* goroutines
          Name,      \* lock names
          Obj,       \* heap cells a *gcMutex may be allocated in
          NoObj,     \* nil
          NoThread   \* no writer

ASSUME ThreadFinite == IsFiniteSet(Thread)
ASSUME NoObjAssumption == NoObj \notin Obj
ASSUME NoThreadAssumption == NoThread \notin Thread

VARIABLES mutexes,   \* GCNamedMutex.mutexes: name -> *gcMutex
          c,         \* gcMutex.c: holders and waiters counted on the object
          wr,        \* the announced or active writer of the object's RWMutex
          rd,        \* the active readers of the object's RWMutex
          pc,        \* where each goroutine is
          name,      \* the name it asked for
          ref        \* resourceMutex, the pointer it read under g.m

vars == <<mutexes, c, wr, rd, pc, name, ref>>

PC == {"idle", "rlock", "lock", "rblocked", "wpending", "reading", "writing"}

TypeOK ==
  /\ mutexes \in [Name -> Obj \cup {NoObj}]
  /\ c \in [Obj -> Nat]
  /\ wr \in [Obj -> Thread \cup {NoThread}]
  /\ rd \in [Obj -> SUBSET Thread]
  /\ pc \in [Thread -> PC]
  /\ name \in [Thread -> Name]
  /\ ref \in [Thread -> Obj \cup {NoObj}]

Init ==
  /\ mutexes = [n \in Name |-> NoObj]
  /\ c = [o \in Obj |-> 0]
  /\ wr = [o \in Obj |-> NoThread]
  /\ rd = [o \in Obj |-> {}]
  /\ pc = [t \in Thread |-> "idle"]
  /\ name \in [Thread -> Name]
  /\ ref = [t \in Thread |-> NoObj]

(* A cell is free for &gcMutex{} when nothing points to it.                *)
Free(o) ==
  /\ \A n \in Name : mutexes[n] # o
  /\ \A t \in Thread : ref[t] # o

(* The critical section at the head of Lock and RLock: find or create the  *)
(* entry and count the caller on it.                                       *)
Enter(t, n, next) ==
  /\ pc[t] = "idle"
  /\ pc' = [pc EXCEPT ![t] = next]
  /\ name' = [name EXCEPT ![t] = n]
  /\ \/ /\ mutexes[n] # NoObj
        /\ c' = [c EXCEPT ![mutexes[n]] = @ + 1]
        /\ ref' = [ref EXCEPT ![t] = mutexes[n]]
        /\ UNCHANGED <<mutexes, wr, rd>>
     \/ /\ mutexes[n] = NoObj
        /\ \E o \in Obj :
             /\ Free(o)
             /\ mutexes' = [mutexes EXCEPT ![n] = o]
             /\ c' = [c EXCEPT ![o] = 1]
             /\ wr' = [wr EXCEPT ![o] = NoThread]
             /\ rd' = [rd EXCEPT ![o] = {}]
             /\ ref' = [ref EXCEPT ![t] = o]

(* resourceMutex.m.RLock(): inside at once unless a writer is announced.   *)
RLock(t) ==
  /\ pc[t] = "rlock"
  /\ IF wr[ref[t]] = NoThread
       THEN /\ rd' = [rd EXCEPT ![ref[t]] = @ \cup {t}]
            /\ pc' = [pc EXCEPT ![t] = "reading"]
       ELSE /\ pc' = [pc EXCEPT ![t] = "rblocked"]
            /\ UNCHANGED rd
  /\ UNCHANGED <<mutexes, c, wr, name, ref>>

(* resourceMutex.m.Lock(), first half: one writer announces itself.        *)
Announce(t) ==
  /\ pc[t] = "lock"
  /\ wr[ref[t]] = NoThread
  /\ wr' = [wr EXCEPT ![ref[t]] = t]
  /\ pc' = [pc EXCEPT ![t] = "wpending"]
  /\ UNCHANGED <<mutexes, c, rd, name, ref>>

(* Mutation: the writer does not wait for the readers.                     *)
LockAtOnce(t) ==
  /\ pc[t] = "wpending"
  /\ pc' = [pc EXCEPT ![t] = "writing"]
  /\ UNCHANGED <<mutexes, c, wr, rd, name, ref>>

(* resourceMutex.m.Lock(), second half: the readers inside have left.      *)
Lock(t) ==
  /\ pc[t] = "wpending"
  /\ rd[ref[t]] = {}
  /\ pc' = [pc EXCEPT ![t] = "writing"]
  /\ UNCHANGED <<mutexes, c, wr, rd, name, ref>>

(* Mutations of Drop: the entry is deleted by whoever unlocks first; a     *)
(* guard whose Unlock is not idempotent counts the caller down twice.      *)
DropAlways(t, o) ==
  /\ c' = [c EXCEPT ![o] = @ - 1]
  /\ mutexes' = [mutexes EXCEPT ![name[t]] = NoObj]
  /\ ref' = [ref EXCEPT ![t] = NoObj]

DropTwice(t, o) ==
  /\ c' = [c EXCEPT ![o] = @ - 2]
  /\ mutexes' = IF c[o] = 1 THEN [mutexes EXCEPT ![name[t]] = NoObj]
                            ELSE mutexes
  /\ ref' = [ref EXCEPT ![t] = NoObj]

(* The end of the critical section of Unlock and RUnlock: one count less,  *)
(* and the entry is deleted with the last one.                             *)
Drop(t, o) ==
  /\ c' = [c EXCEPT ![o] = @ - 1]
  /\ mutexes' = IF c[o] = 1 THEN [mutexes EXCEPT ![name[t]] = NoObj]
                            ELSE mutexes
  /\ ref' = [ref EXCEPT ![t] = NoObj]

(* A goroutine whose name is no longer in the map returns without touching *)
(* any mutex.                                                              *)
NotFound(t) ==
  /\ pc' = [pc EXCEPT ![t] = "idle"]
  /\ ref' = [ref EXCEPT ![t] = NoObj]
  /\ UNCHANGED <<mutexes, c, wr, rd, name>>

Blocked(o) == {u \in Thread : pc[u] = "rblocked" /\ ref[u] = o}

(* Mutation: RWMutex.Unlock forgets the readers it held back.              *)
UnlockLosesReaders(t) ==
  /\ pc[t] = "writing"
  /\ LET o == mutexes[name[t]] IN
     /\ wr' = [wr EXCEPT ![o] = NoThread]
     /\ pc' = [pc EXCEPT ![t] = "idle"]
     /\ Drop(t, o)
     /\ UNCHANGED <<rd, name>>

(* Unlock(name): the object is looked up again by name.  RWMutex.Unlock    *)
(* lets in every reader that was held back.                                *)
Unlock(t) ==
  LET o == mutexes[name[t]] IN
  /\ pc[t] = "writing"
  /\ IF o = NoObj THEN NotFound(t) ELSE
       /\ wr' = [wr EXCEPT ![o] = NoThread]
       /\ rd' = [rd EXCEPT ![o] = @ \cup Blocked(o)]
       /\ pc' = [u \in Thread |-> IF u = t THEN "idle"
                                  ELSE IF u \in Blocked(o) THEN "reading"
                                  ELSE pc[u]]
       /\ Drop(t, o)
       /\ UNCHANGED name

RUnlock(t) ==
  LET o == mutexes[name[t]] IN
  /\ pc[t] = "reading"
  /\ IF o = NoObj THEN NotFound(t) ELSE
       /\ rd' = [rd EXCEPT ![o] = @ \ {t}]
       /\ pc' = [pc EXCEPT ![t] = "idle"]
       /\ Drop(t, o)
       /\ UNCHANGED <<wr, name>>

Next ==
  \E t \in Thread :
    \/ \E n \in Name : Enter(t, n, "lock") \/ Enter(t, n, "rlock")
    \/ RLock(t) \/ Announce(t) \/ Lock(t)
    \/ Unlock(t) \/ RUnlock(t)

Spec == Init /\ [][Next]_vars

(* Callers unlock what they lock (defer), the Go scheduler runs every      *)
(* runnable goroutine, and the mutex inside sync.RWMutex that orders       *)
(* writers hands over in FIFO order once a waiter has starved, so a writer *)
(* that can announce itself again and again eventually does.               *)
Fairness ==
  \A t \in Thread :
    /\ WF_vars(RLock(t)) /\ WF_vars(Lock(t))
    /\ WF_vars(Unlock(t)) /\ WF_vars(RUnlock(t))
    /\ SF_vars(Announce(t))

FairSpec == Spec /\ Fairness

-----------------------------------------------------------------------------
(* The abstract locks: who holds a name, whichever object is behind it.    *)
Holders(n, where) == {t \in Thread : pc[t] = where /\ name[t] = n}

RW == INSTANCE NamedRWLock WITH
        readers <- [n \in Name |-> Holders(n, "reading")],
        writers <- [n \in Name |-> Holders(n, "writing")]

(* Property: deleting and re-creating map entries never lets two           *)
(* goroutines hold one name when one of them writes, even if one of them   *)
(* looked the name up before the entry was deleted (Unlock, RUnlock).      *)
MutualExclusion ==
  \A t, u \in Thread :
    (t # u /\ pc[t] = "writing" /\ pc[u] \in {"reading", "writing"})
      => name[t] # name[u]

(* Property: the entry of a name is in the map exactly while some          *)
(* goroutine waits for or holds the name, so the map does not grow with    *)
(* names nobody uses and no holder's entry is collected.                   *)
CollectedWhenUnused ==
  \A n \in Name :
    mutexes[n] = NoObj <=> \A t \in Thread : pc[t] = "idle" \/ name[t] # n

(* Property: the mutex map implements named reader/writer locks.           *)
ImplementsNamedRWLock == RW!Spec

(* Property: every goroutine that asks for a lock gets it.                 *)
EveryLockGranted ==
  \A t \in Thread :
    /\ pc[t] \in {"lock", "wpending"} ~> pc[t] = "writing"
    /\ pc[t] \in {"rlock", "rblocked"} ~> pc[t] = "reading"
=============================================================================
