---------------------------- MODULE NamedRWLock ----------------------------
(***************************************************************************)
(* What a set of named reader/writer locks promises its callers: for every *)
(* name, either one writer or any number of readers.  This is the contract *)
(* that core/concurrent_cache and the transaction mutex of the core rely   *)
(* on when they call pkg/locks; GCNamedMutex is shown to implement it.     *)
(***************************************************************************)
CONSTANTS Thread, Name

VARIABLES readers,   \* readers[n]: the threads that hold n for reading
          writers    \* writers[n]: the threads that hold n for writing

vars == <<readers, writers>>

Init ==
  /\ readers = [n \in Name |-> {}]
  /\ writers = [n \in Name |-> {}]

(* A set of threads may be granted a read lock at once: when a writer      *)
(* unlocks, every reader that was waiting for it gets in.                  *)
GrantRead(n, R) ==
  /\ writers[n] = {}
  /\ readers' = [readers EXCEPT ![n] = @ \cup R]
  /\ UNCHANGED writers

GrantWrite(t, n) ==
  /\ writers[n] = {}
  /\ readers[n] = {}
  /\ writers' = [writers EXCEPT ![n] = {t}]
  /\ UNCHANGED readers

ReleaseRead(t, n) ==
  /\ t \in readers[n]
  /\ readers' = [readers EXCEPT ![n] = @ \ {t}]
  /\ UNCHANGED writers

ReleaseWrite(t, n, R) ==
  /\ writers[n] = {t}
  /\ writers' = [writers EXCEPT ![n] = {}]
  /\ readers' = [readers EXCEPT ![n] = R]

Next ==
  \E n \in Name :
    \/ \E R \in SUBSET Thread : GrantRead(n, R)
    \/ \E t \in Thread : GrantWrite(t, n) \/ ReleaseRead(t, n)
    \/ \E t \in Thread, R \in SUBSET Thread : ReleaseWrite(t, n, R)

Spec == Init /\ [][Next]_vars
=============================================================================
