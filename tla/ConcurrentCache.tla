-------------------------- MODULE ConcurrentCache --------------------------
(***************************************************************************)
(* core/concurrent_cache/concurrent_cache.go: Lock and NestedLock, and the *)
(* Upsert and Delete closures they hand out, called by concurrent          *)
(* goroutines of the core.  A goroutine runs a program: a sequence of      *)
(* stages, the first a call of Lock, the others calls of NestedLock with   *)
(* the context of the one before.  Each stage is a sequence of queries.    *)
(*                                                                         *)
(* Phases 1 and 2 of lock() are one step: the ids are filled in under the  *)
(* read locks of all the caches involved.  Then every lock is taken in a   *)
(* step of its own, with the semantics of pkg/locks (see GCNamedMutex), so *)
(* what phase 1 read may be stale by the time the locks are held.          *)
(***************************************************************************)
EXTENDS CacheQuery

CONSTANTS Thread,    \* goroutines
          Program,   \* Thread -> the programs it may run
          Cached,    \* the initial contents: <<resource, id>> -> [key, own]
          UUID       \* the ids uuid.New() may return

ASSUME ProgramAssumption ==
  Program \in [Thread -> SUBSET (Seq(Seq(SUBSET Asked)) \ {<< >>})]
ASSUME CachedAssumption ==
  /\ DOMAIN Cached \subseteq Resource \X (Nat \ {0})
  /\ \A e \in DOMAIN Cached :
       /\ Cached[e].key \in Nat /\ Cached[e].own \in [schema[e[1]] -> Nat]
       /\ e[1] \in allowBlankID => Cached[e].key # 0
ASSUME UUIDAssumption ==
  /\ UUID \subseteq Nat \ {0}
  /\ \A e \in DOMAIN Cached : e[1] \in allowBlankID => e[2] \notin UUID

VARIABLES data,      \* cache.data of every resource type
          keys,      \* uniqueKey.data
          uuids,     \* the ids uuid.New() has not returned yet
          pc,        \* where each goroutine is
          rest,      \* the stages it has yet to run
          merged,    \* phase 2's merged subqueries of the current stage
          todo,      \* the locks the current stage still has to take
          held,      \* the locks it holds, in the order it took them
          ctx,       \* lockContext: qs, lastLock, hasSyntheticRoot
          closures,  \* the granted subqueries with an unused closure
          owners     \* the owners named by the objects its lists returned

vars == <<data, keys, uuids, pc, rest, merged, todo, held, ctx, closures,
          owners>>
cache == <<data, keys, uuids>>

NoLock == [res |-> root, op |-> list, id |-> 0]
NoCtx == [qs |-> [e \in {} |-> FALSE], lastLock |-> NoLock, root |-> FALSE]

Init ==
  /\ data = [e \in DOMAIN Cached |->
               [key |-> Cached[e].key, own |-> Cached[e].own, v |-> 0]]
  /\ keys = [k \in {<<e[1], Cached[e].key>> :
                      e \in {x \in DOMAIN Cached : x[1] \in Keyed \ {volume}}} |->
               (CHOOSE e \in DOMAIN Cached :
                  e[1] = k[1] /\ Cached[e].key = k[2])[2]]
  /\ uuids = UUID
  /\ pc = [t \in Thread |-> "idle"]
  /\ rest = [t \in Thread |-> <<>>]
  /\ merged = [t \in Thread |-> {}]
  /\ todo = [t \in Thread |-> {}]
  /\ held = [t \in Thread |-> <<>>]
  /\ ctx = [t \in Thread |-> NoCtx]
  /\ closures = [t \in Thread |-> {}]
  /\ owners = [t \in Thread |-> {}]

-----------------------------------------------------------------------------
(* Phases 1 and 2.                                                         *)
Assembled(stage) == [i \in DOMAIN stage |-> buildTrees(stage[i])]
Filled(stage) ==
  [i \in DOMAIN stage |-> fillInIDs(Assembled(stage)[i], data, keys)]
HasConsistent(stage) ==
  \E i \in DOMAIN stage : \E s \in stage[i] : Consistent(s)

(* Mutant: no read lock on the root.                                       *)
MergeWithoutRoot(stage, c) == UNION {Filled(stage)[i].q : i \in DOMAIN stage}

(* mergeQueries: the subqueries of all queries, and the read lock on the   *)
(* root that LockCache excludes.                                           *)
mergeQueries(stage, c) ==
  (UNION {Filled(stage)[i].q : i \in DOMAIN stage})
  \cup IF HasConsistent(stage) /\ ~c.root THEN {Read(root, 1)} ELSE {}

First(S) == {s \in S : \A x \in S : ~Before(x, s)}
NewLocks(m, c) == {s \in m : Consistent(s) /\ elem(s) \notin DOMAIN c.qs}

(* Mutant: the new locks are not compared with the last held one.          *)
RejectedUnordered(stage, c) ==
  \/ \E i \in DOMAIN stage : Duplicate(stage[i]) \/ Filled(stage)[i].err
  \/ \E s \in mergeQueries(stage, c) :
       elem(s) \in DOMAIN c.qs /\ ~c.qs[elem(s)] /\ isWriteOp(s.op)

(* lock() fails on a duplicate subquery, on what fillInIDs finds, on the   *)
(* upgrade of a read lock, and on a new lock before the last held one.     *)
Rejected(stage, c) ==
  LET m == mergeQueries(stage, c)
  IN  \/ \E i \in DOMAIN stage : Duplicate(stage[i]) \/ Filled(stage)[i].err
      \/ \E s \in m : /\ elem(s) \in DOMAIN c.qs /\ ~c.qs[elem(s)]
                      /\ isWriteOp(s.op)
      \/ c.lastLock # NoLock /\ \E s \in First(NewLocks(m, c)) :
                                  Before(s, c.lastLock)

(* The subquery for a resource that sorts first.  The code's sort leaves   *)
(* open which of two with the same operation that is.                      *)
FirstOf(S, e) ==
  CHOOSE s \in S : elem(s) = e /\ \A x \in S : elem(x) = e => ~Before(x, s)

(* The locks of a stage, at their place in the lock order: new keys first, *)
(* then for each resource its key and its id.  Of several subqueries for   *)
(* one resource the first in the order decides the mode.  A blank id takes *)
(* no lock, not even on its key.                                           *)
LockPlan(m, c) ==
  LET fresh == {s \in NewLocks(m, c) : s.id # 0}
      firsts == {FirstOf(fresh, e) : e \in {elem(s) : s \in fresh}}
      pos(s, i) == <<1 + resourceRanks[s.res], s.res, s.id, i>>
  IN  {[lock |-> <<"key", s.res, s.newKey>>, w |-> isWriteOp(s.op),
        at |-> <<0, s.res, s.newKey, 0>>] : s \in {x \in m : x.newKey # 0}}
      \cup
      {[lock |-> <<"key", s.res, s.key>>, w |-> isWriteOp(s.op),
        at |-> pos(s, 0)] : s \in {x \in firsts : x.key # 0}}
      \cup
      {[lock |-> <<"res", s.res, s.id>>, w |-> isWriteOp(s.op),
        at |-> pos(s, 1)] : s \in firsts}

Start(t, stage, c) ==
  LET m == mergeQueries(stage, c)
  IN  /\ merged' = [merged EXCEPT ![t] = m]
      /\ todo' = [todo EXCEPT ![t] = LockPlan(m, c)]
      /\ pc' = [pc EXCEPT ![t] = "lock"]

(* Lock; a rejected call returns its error and changes nothing.            *)
Lock(t) ==
  /\ pc[t] = "idle"
  /\ \E p \in Program[t] :
       /\ ~Rejected(p[1], NoCtx)
       /\ Start(t, p[1], NoCtx)
       /\ rest' = [rest EXCEPT ![t] = Tail(p)]
  /\ UNCHANGED <<cache, held, ctx, closures, owners>>

(* Mutant: the error return forgets the deferred unlockers.                *)
NestedLockLeaks(t) ==
  /\ pc[t] = "granted" /\ rest[t] # <<>>
  /\ IF Rejected(Head(rest[t]), ctx[t])
       THEN pc' = [pc EXCEPT ![t] = "idle"] /\ UNCHANGED <<merged, todo>>
       ELSE Start(t, Head(rest[t]), ctx[t])
  /\ rest' = [rest EXCEPT ![t] = Tail(@)]
  /\ UNCHANGED <<cache, held, ctx, closures, owners>>

(* NestedLock; on an error the caller returns and its deferred unlockers   *)
(* run.                                                                    *)
NestedLock(t) ==
  /\ pc[t] = "granted" /\ rest[t] # <<>>
  /\ IF \/ Rejected(Head(rest[t]), ctx[t])
        \/ \E i \in DOMAIN Head(rest[t]) :
             \E s \in Head(rest[t])[i] : s.newKey # 0
       THEN pc' = [pc EXCEPT ![t] = "unlock"] /\ UNCHANGED <<merged, todo>>
       ELSE Start(t, Head(rest[t]), ctx[t])
  /\ rest' = [rest EXCEPT ![t] = Tail(@)]
  /\ UNCHANGED <<cache, held, ctx, closures, owners>>

-----------------------------------------------------------------------------
(* Phase 4: lockNewKeys and lockQuery.                                     *)
Foremost(S) == CHOOSE x \in S : \A y \in S \ {x} : LexLess(x.at, y.at)
Target(t) == Foremost(todo[t])

Holds(t, l, w) == \E i \in DOMAIN held[t] :
                    held[t][i].lock = l /\ held[t][i].w = w
Writers(l) ==
  {u \in Thread : \/ Holds(u, l, TRUE)
                  \/ pc[u] = "pending" /\ Target(u).lock = l}
Readers(l) == {u \in Thread : Holds(u, l, FALSE)}

Take(t) ==
  /\ held' = [held EXCEPT ![t] = Append(@, Target(t))]
  /\ todo' = [todo EXCEPT ![t] = @ \ {Target(t)}]
  /\ UNCHANGED <<cache, rest, merged, ctx, closures, owners>>

(* Mutant: a reader does not wait for the writer.                          *)
RLockAtOnce(t) ==
  /\ pc[t] = "lock" /\ todo[t] # {} /\ ~Target(t).w
  /\ Take(t)
  /\ UNCHANGED pc

(* sync.RWMutex under its name: a reader waits for the writers that hold   *)
(* the lock or have announced themselves, a writer announces itself when   *)
(* no other has and then waits for the readers.                            *)
RLock(t) ==
  /\ pc[t] = "lock" /\ todo[t] # {} /\ ~Target(t).w
  /\ Writers(Target(t).lock) = {}
  /\ Take(t)
  /\ UNCHANGED pc

Announce(t) ==
  /\ pc[t] = "lock" /\ todo[t] # {} /\ Target(t).w
  /\ Writers(Target(t).lock) = {}
  /\ pc' = [pc EXCEPT ![t] = "pending"]
  /\ UNCHANGED <<cache, rest, merged, todo, held, ctx, closures, owners>>

WLock(t) ==
  /\ pc[t] = "pending"
  /\ Readers(Target(t).lock) = {}
  /\ Take(t)
  /\ pc' = [pc EXCEPT ![t] = IF Target(t).at[1] = 0 THEN "check" ELSE "lock"]

(* lockNewKeys looks for a collision after it holds the lock of the key.   *)
CheckNewKey(t) ==
  /\ pc[t] = "check"
  /\ LET l == held[t][Len(held[t])].lock
     IN  pc' = [pc EXCEPT ![t] = IF Lookup(keys, l[2], l[3]) # 0
                                   THEN "unlock" ELSE "lock"]
  /\ UNCHANGED <<cache, rest, merged, todo, held, ctx, closures, owners>>

(* The lists and reads of setResults, and phase 5: the context of the next *)
(* NestedLock.  A later subquery for the same resource overwrites whether  *)
(* the lock is a write lock, and lastLock is the last subquery of this     *)
(* stage even if the lock was already held.                                *)
SetResults(t) ==
  LET M == {s \in merged[t] : Consistent(s)}
      E == {elem(s) : s \in M}
      L == {s.res : s \in {x \in merged[t] : x.op = list}}
  IN  /\ pc[t] = "lock" /\ todo[t] = {}
      /\ pc' = [pc EXCEPT ![t] = "granted"]
      /\ ctx' = [ctx EXCEPT ![t] =
           [qs |-> [e \in E \cup DOMAIN @.qs |->
                      IF e \in E
                        THEN \A s \in M : elem(s) = e => isWriteOp(s.op)
                        ELSE @.qs[e]],
            lastLock |-> IF M = {} THEN @.lastLock
                         ELSE LET s == CHOOSE x \in M :
                                         \A y \in M : ~Before(x, y)
                              IN  [res |-> s.res, op |-> s.op, id |-> s.id],
            root |-> @.root \/ M # {}]]
      /\ closures' = [closures EXCEPT ![t] =
           @ \cup {s \in M : /\ isWriteOp(s.op) /\ s.res # root
                             /\ s.id # 0 \/ s.res \in allowBlankID}]
      /\ owners' = [owners EXCEPT ![t] =
           @ \cup UNION {{<<o, data[e].own[o]>> : o \in DOMAIN data[e].own} :
                           e \in {x \in DOMAIN data : x[1] \in L}}]
      /\ merged' = [merged EXCEPT ![t] = {}]
      /\ UNCHANGED <<cache, rest, todo, held>>

(* The context expired while Lock waited: the caller only unlocks.         *)
Cancelled(t) ==
  /\ pc[t] = "lock" /\ todo[t] = {}
  /\ pc' = [pc EXCEPT ![t] = "unlock"]
  /\ UNCHANGED <<cache, rest, merged, todo, held, ctx, closures, owners>>

-----------------------------------------------------------------------------
(* The closures.  Their callers in core/concurrent_core.go check what they *)
(* read under the locks: an owner or an object to update that is missing   *)
(* is a NotFoundError, and an object that still has dependents is not      *)
(* removed (backend.HasVolumes, the snapshots and subordinates listed by   *)
(* deleteVolume) but marked as deleting.                                   *)
Current(s) == Stored(data, s.res, s.id)
Put(f, k, x) == [y \in DOMAIN f \cup {k} |-> IF y = k THEN x ELSE f[y]]
Without(f, k) == [y \in DOMAIN f \ {k} |-> f[y]]

(* Mutant: the caller does not look at the owners it was handed.           *)
CanUpsertUnchecked(s) == s.res \in allowBlankID /\ s.op # create => Current(s)

CanUpsert(s) ==
  /\ \A o \in DOMAIN s.dep : Stored(data, o, s.dep[o])
  /\ s.res \in allowBlankID /\ s.op # create => Current(s)

(* Mutants: the old key stays after a rename; the blank key is stored.     *)
KeepOldKey(s) ==
  LET k == IF s.newKey # 0 THEN s.newKey ELSE s.key
  IN  IF s.res \notin allowBlankID \/ k = 0 THEN keys
      ELSE Put(keys, <<s.res, k>>, s.id)
StoreBlankKey(s) ==
  IF s.res \in Keyed THEN Put(keys, <<s.res, s.key>>, s.id) ELSE keys

(* The four cases of the canonical upsert with a unique key; UpsertVolume  *)
(* leaves the keys of volumes alone.                                       *)
UpsertKeys(s) ==
  IF s.res \notin Keyed \/ (s.newKey = 0 /\ (s.res = volume \/ s.key = 0)) THEN keys
  ELSE CASE s.newKey = 0 -> Put(keys, <<s.res, s.key>>, s.id)
         [] s.newKey # 0 /\ s.key = 0 -> Put(keys, <<s.res, s.newKey>>, s.id)
         [] s.newKey # 0 /\ s.key # 0 ->
              Put(Without(keys, <<s.res, s.key>>), <<s.res, s.newKey>>, s.id)

(* A backend keeps its name unless it is renamed; the internal name of a   *)
(* new volume is derived from its name.                                    *)
UpsertClosure(s) ==
  /\ CanUpsert(s)
  /\ keys' = UpsertKeys(s)
  /\ data' = Put(data, elem(s),
       [key |-> CASE s.newKey # 0 -> s.newKey
                  [] s.newKey = 0 /\ Current(s) -> data[elem(s)].key
                  [] s.newKey = 0 /\ ~Current(s) /\ s.key # 0 -> s.key
                  [] OTHER -> IF s.res \in Keyed THEN s.id ELSE 0,
        own |-> s.dep,
        v   |-> IF Current(s) THEN 1 - data[elem(s)].v ELSE 0])

DeleteClosure(t, s) ==
  /\ Current(s)
  /\ elem(s) \notin owners[t]
  /\ s.res = backend => \A e \in DOMAIN data :
                          e[1] = volume => data[e].own[backend] # s.id
  /\ data' = Without(data, elem(s))
  /\ keys' = IF s.res \in Keyed THEN Without(keys, <<s.res, s.key>>) ELSE keys

(* addBackend: a new id, and the name check of the persistent store before *)
(* it creates the record.  The cached names stand for the persisted ones.  *)
Create(t) ==
  /\ pc[t] = "granted"
  /\ \E s \in closures[t], id \in uuids :
       /\ s.op = upsert /\ s.id = 0
       /\ \A e \in DOMAIN data : e[1] = s.res => data[e].key # s.key
       /\ closures' = [closures EXCEPT ![t] =
            (@ \ {s}) \cup {[s EXCEPT !.id = id, !.op = create]}]
       /\ uuids' = uuids \ {id}
  /\ UNCHANGED <<data, keys, pc, rest, merged, todo, held, ctx, owners>>

Write(t) ==
  /\ pc[t] = "granted"
  /\ \E s \in closures[t] :
       /\ s.id # 0
       /\ IF s.op = del THEN DeleteClosure(t, s) ELSE UpsertClosure(s)
       /\ closures' = [closures EXCEPT ![t] = @ \ {s}]
  /\ UNCHANGED <<uuids, pc, rest, merged, todo, held, ctx, owners>>

-----------------------------------------------------------------------------
(* The caller is done, or fails.  Stop() never unlocks the cache.          *)
Return(t) ==
  /\ pc[t] = "granted"
  /\ ~Holds(t, <<"res", root, 1>>, TRUE)
  /\ pc' = [pc EXCEPT ![t] = "unlock"]
  /\ UNCHANGED <<cache, rest, merged, todo, held, ctx, closures, owners>>

(* doReverse: one lock at a time, the last one first.                      *)
Unlock(t) ==
  /\ pc[t] = "unlock" /\ held[t] # <<>>
  /\ held' = [held EXCEPT ![t] = SubSeq(@, 1, Len(@) - 1)]
  /\ UNCHANGED <<cache, pc, rest, merged, todo, ctx, closures, owners>>

Done(t) ==
  /\ pc[t] = "unlock" /\ held[t] = <<>>
  /\ pc' = [pc EXCEPT ![t] = "idle"]
  /\ rest' = [rest EXCEPT ![t] = <<>>]
  /\ merged' = [merged EXCEPT ![t] = {}]
  /\ todo' = [todo EXCEPT ![t] = {}]
  /\ ctx' = [ctx EXCEPT ![t] = NoCtx]
  /\ closures' = [closures EXCEPT ![t] = {}]
  /\ owners' = [owners EXCEPT ![t] = {}]
  /\ UNCHANGED <<cache, held>>

Next ==
  \E t \in Thread :
    \/ Lock(t) \/ NestedLock(t)
    \/ RLock(t) \/ Announce(t) \/ WLock(t) \/ CheckNewKey(t)
    \/ SetResults(t) \/ Cancelled(t)
    \/ Create(t) \/ Write(t) \/ Return(t) \/ Unlock(t) \/ Done(t)

Spec == Init /\ [][Next]_vars

(* Callers return, the scheduler runs every runnable goroutine, and the    *)
(* reader/writer locks starve nobody (EveryLockGranted of GCNamedMutex).   *)
Fairness ==
  \A t \in Thread :
    /\ SF_vars(RLock(t)) /\ SF_vars(Announce(t))
    /\ WF_vars(WLock(t)) /\ WF_vars(CheckNewKey(t))
    /\ WF_vars(SetResults(t) \/ Cancelled(t))
    /\ WF_vars(Return(t)) /\ WF_vars(Unlock(t)) /\ WF_vars(Done(t))

FairSpec == Spec /\ Fairness

-----------------------------------------------------------------------------
(* What the callers keep to, and the theorems about OwnersExist,           *)
(* ShutdownFreezes, OrderedAcquisition, NoDeadlock and KeysSound rest on;  *)
(* MCConcurrentCache evaluates it on its workloads.                        *)
Sub(stage) == UNION {stage[j] : j \in DOMAIN stage}

(* LockCache is called by Stop, on its own; nobody else writes the root.   *)
NoRoot(stage) == \A s \in Sub(stage) : ~(s.res = root /\ isWriteOp(s.op))
Alone ==
  \A t \in Thread : \A p \in Program[t] : \A i \in DOMAIN p :
    \/ NoRoot(p[i])
    \/ Len(p) = 1 /\ \A s \in Sub(p[i]) : s.res = root

(* No query reads the owner of what it locks without a lock.  Who deletes  *)
(* volumes lists the snapshots with the same call, as deleteVolume does,   *)
(* and takes none.                                                         *)
Reads(stage) ==
  \A j \in DOMAIN stage : \A x \in stage[j] : x.op = inconsistentRead =>
    \A s \in buildTrees(stage[j]) : Consistent(s) => x.res \notin schema[s.res]
IsDelete(s) == s.res = volume /\ s.op = del
IsTake(s) == s.res = snapshot /\ s.op = upsert
IsList(s) == s.res = snapshot /\ s.op = list
Lists(stage) == (\E s \in Sub(stage) : IsDelete(s)) => \E x \in Sub(stage) : IsList(x)
NoDelete(stage) == \A s \in Sub(stage) : ~IsDelete(s)
NoTake(stage) == \A s \in Sub(stage) : ~IsTake(s)
Careful ==
  \A t \in Thread : \A p \in Program[t] :
    /\ \A i \in DOMAIN p : Reads(p[i]) /\ Lists(p[i])
    /\ (\A i \in DOMAIN p : NoDelete(p[i])) \/ (\A i \in DOMAIN p : NoTake(p[i]))

(* The bootstrap has found a backend for every volume and a volume for     *)
(* every snapshot; it loads the records without one too, as missing.       *)
Whole ==
  \A e \in DOMAIN Cached : e[1] \in {volume, snapshot} =>
    \A o \in schema[e[1]] : <<o, Cached[e].own[o]>> \in DOMAIN Cached

(* A chain of NestedLock calls takes its locks in the last one; the ones   *)
(* before it list and read without a lock, as the scan of UpdateBackend.   *)
Unlocked(stage) == \A s \in Sub(stage) : ~Consistent(s)
NestedOnce ==
  \A t \in Thread : \A p \in Program[t] : \A i \in 2..(Len(p) - 1) : Unlocked(p[i])

(* No two cached objects of a type in R have the same name.                *)
Unique(R) ==
  \A e, f \in DOMAIN Cached :
    e[1] \in R /\ e[1] = f[1] /\ Cached[e].key = Cached[f].key => e = f

(* Nothing gets a new name: no backend is created or renamed, no volume    *)
(* imported, and what is asked for is given by its id or by its name.      *)
Plain(s) == s.newKey = 0 /\ (s.key # 0 => s.id = 0 /\ s.res \in Keyed)
Settled ==
  /\ UUID = {} /\ Unique(Keyed)
  /\ \A e \in DOMAIN Cached : e[1] = volume => Cached[e].key = e[2]
  /\ \A t \in Thread : \A p \in Program[t] : \A i \in DOMAIN p :
       \A s \in Sub(p[i]) : Plain(s)

(* A backend is written in a query of its own, by its id or by its name.   *)
ByName(stage) ==
  \A j \in DOMAIN stage : \A s \in stage[j] : isWriteOp(s.op) /\ s.res \in allowBlankID =>
    /\ s.id # 0 \/ s.key # 0 \/ s.newKey # 0
    /\ \A x \in buildTrees(stage[j]) : x.op # list => s.res \notin schema[x.res]
Named ==
  /\ Unique(allowBlankID)
  /\ \A t \in Thread : \A p \in Program[t] : \A i \in DOMAIN p : ByName(p[i])

-----------------------------------------------------------------------------
Waiting(t) == pc[t] = "pending" \/ (pc[t] = "lock" /\ todo[t] # {})

(* The goroutines that t waits for.                                        *)
Blockers(t) ==
  IF pc[t] = "pending" THEN Readers(Target(t).lock)
                       ELSE Writers(Target(t).lock)

TypeOK ==
  /\ DOMAIN data \subseteq Resource \X Nat
  /\ \A e \in DOMAIN data : data[e].v \in {0, 1} /\ data[e].key \in Nat
  /\ DOMAIN keys \subseteq Keyed \X (Nat \ {0})
  /\ \A k \in DOMAIN keys : keys[k] \in Nat \ {0}
  /\ uuids \subseteq UUID
  /\ pc \in [Thread -> {"idle", "lock", "pending", "check", "granted", "unlock"}]
  /\ \A t \in Thread : \A i \in DOMAIN held[t] : held[t][i].w \in BOOLEAN

(* Property: resource locks are taken in the order of rank, type and id,   *)
(* across the calls of one context as well ("Locks are acquired in a       *)
(* stable order"; NestedLock "must sort after the last held lock").        *)
OrderedAcquisition ==
  \A t \in Thread : Waiting(t) /\ Target(t).lock[1] = "res" =>
    \A i \in DOMAIN held[t] :
      held[t][i].lock[1] = "res" => LexLess(held[t][i].at, Target(t).at)

(* Property: no set of goroutines waits for one another in a circle, key   *)
(* locks, new keys and announced writers included.                         *)
NoDeadlock ==
  ~ \E S \in (SUBSET Thread) \ {{}} :
      \A t \in S : Waiting(t) /\ Blockers(t) \cap S # {}

(* Property: while a goroutine has been granted a lock on an object,       *)
(* nobody else changes that object, and itself only with a write lock.     *)
HeldStable ==
  [][\A t \in Thread : \A e \in DOMAIN data :
       /\ pc[t] = "granted"
       /\ Holds(t, <<"res", e[1], e[2]>>, FALSE)
            \/ Holds(t, <<"res", e[1], e[2]>>, TRUE)
       /\ e \notin DOMAIN data' \/ data'[e] # data[e]
       => /\ Holds(t, <<"res", e[1], e[2]>>, TRUE)
          /\ closures'[t] # closures[t]]_vars

(* Property: no volume outlives its backend and no snapshot its volume,    *)
(* whatever creations and deletions overlap.                               *)
OwnersExist ==
  \A e \in DOMAIN data : e[1] \in {volume, snapshot} =>
    \A o \in schema[e[1]] : Stored(data, o, data[e].own[o])

(* Property: the names of the keyed caches are unique and the uniqueKey    *)
(* map leads from every name to the object that has it, and nowhere else.  *)
KeysSound ==
  LET named == {e \in DOMAIN data : e[1] \in allowBlankID}
  IN  /\ \A e \in named : Lookup(keys, e[1], data[e].key) = e[2]
      /\ \A k \in DOMAIN keys : k[1] \in allowBlankID =>
           /\ Stored(data, k[1], keys[k])
           /\ data[<<k[1], keys[k]>>].key = k[2]

(* Property: once LockCache is granted (Stop), the caches never change     *)
(* again.                                                                  *)
ShutdownFreezes ==
  [][(\E t \in Thread : Holds(t, <<"res", root, 1>>, TRUE))
       => UNCHANGED cache]_vars

(* Property: every call of Lock and NestedLock ends and its goroutine      *)
(* gives back all it holds.                                                *)
EveryCallReturns == \A t \in Thread : pc[t] = "lock" ~> pc[t] = "idle"
=============================================================================
