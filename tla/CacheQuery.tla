----------------------------- MODULE CacheQuery -----------------------------
(***************************************************************************)
(* core/concurrent_cache: the subqueries a caller passes to Lock, and what *)
(* the cache computes from them before it takes any lock: the owners added *)
(* by buildTrees, the ids filled in by fillInIDs and the lock order of     *)
(* compareSubqueries.  Everything here is a function of its arguments; the *)
(* caches are passed in as                                                 *)
(*   data: <<resource, id>> -> [key, own, v]   the objects, with the owner *)
(*         ids they name and a bit v that every update flips,              *)
(*   keys: <<resource, key>> -> id             the uniqueKey maps.         *)
(* Strings are naturals, compared as the code compares strings; 0 is "".   *)
(***************************************************************************)
EXTENDS Naturals, Sequences, FiniteSetsExt

root == 0
node == 1
storageClass == 2
groupSnapshot == 3
backend == 4
objectStore == 5
volume == 6
subordinateVolume == 7
volumePublication == 8
snapshot == 9
bucket == 10
bucketAccess == 11
autogrowPolicy == 12

Resource == root..autogrowPolicy

schema ==
  [r \in Resource |->
     CASE r = volume -> {backend}
       [] r \in {subordinateVolume, snapshot} -> {volume}
       [] r = volumePublication -> {volume, node}
       [] r \in {bucket, bucketAccess} -> {objectStore}
       [] OTHER -> {}]

(* rankForResource: the longest chain of owners.                           *)
resourceRanks[r \in Resource] ==
  IF schema[r] = {} THEN 0
  ELSE 1 + Max({resourceRanks[o] : o \in schema[r]})

(* Initialize: which caches have a uniqueKey, and which allow a blank id.  *)
Keyed == {backend, objectStore, volume}
allowBlankID == {backend, objectStore}

list == 0
upsert == 1
del == 2
read == 3
inconsistentRead == 4
create == 5      \* an upsert that has been given a fresh id; not in the code

isWriteOp(op) == op \notin {list, read, inconsistentRead}
Consistent(s) == s.op \notin {list, inconsistentRead}

-----------------------------------------------------------------------------
(* Constructors.  dep stands for setDependencyIDs: owner -> [id, key], the *)
(* empty function for nil.  An owner is set by id or looked up by key.     *)
NoDep == [o \in {} |-> 0]
Subquery(res, op, id, key, newKey, dep) ==
  [res |-> res, op |-> op, id |-> id, key |-> key, newKey |-> newKey,
   dep |-> dep]
ById(id) == [id |-> id, key |-> 0]
ByKey(key) == [id |-> 0, key |-> key]

List(res) == Subquery(res, list, 0, 0, 0, NoDep)
Read(res, id) == Subquery(res, read, id, 0, 0, NoDep)
InconsistentRead(res, id) == Subquery(res, inconsistentRead, id, 0, 0, NoDep)
Delete(res, id) == Subquery(res, del, id, 0, 0, NoDep)

ReadBackendByName(name) == Subquery(backend, read, 0, name, 0, NoDep)
UpsertBackend(id, name, newName) ==
  Subquery(backend, upsert, id, name, newName, NoDep)
UpsertVolume(id, backendID) ==
  Subquery(volume, upsert, id, 0, 0,
           IF backendID = 0 THEN NoDep ELSE [o \in {backend} |-> ById(backendID)])
UpsertVolumeByBackendName(id, name) ==
  Subquery(volume, upsert, id, 0, 0, [o \in {backend} |-> ByKey(name)])
UpsertVolumeByInternalName(id, key, newKey, backendID) ==
  Subquery(volume, upsert, id, key, newKey,
           IF backendID = 0 THEN NoDep ELSE [o \in {backend} |-> ById(backendID)])

(* Snapshots have compound ids, "volume/snapshot".                         *)
PairID(a, b) == 10 * a + b
UpsertSnapshot(vol, snap) ==
  Subquery(snapshot, upsert, PairID(vol, snap), 0, 0,
           [o \in {volume} |-> ById(vol)])
LockCache == Subquery(root, upsert, 1, 0, 0, NoDep)

(* What the constructors build: setDependencyIDs sets all owners or none,  *)
(* and only upserts of keyed resources have a new key.                     *)
Owner == [id : Nat, key : Nat]
Asked ==
  {s \in [res : Resource, op : list..inconsistentRead, id : Nat, key : Nat, newKey : Nat,
          dep : {NoDep} \cup [{backend} -> Owner] \cup [{volume} -> Owner]
                \cup [{volume, node} -> Owner] \cup [{objectStore} -> Owner]] :
     /\ s.dep = NoDep \/ DOMAIN s.dep = schema[s.res]
     /\ s.newKey # 0 => s.op = upsert /\ s.res \in Keyed}

-----------------------------------------------------------------------------
(* Queries: a query is a set of subqueries, a call has a sequence of them. *)

(* dedupe: one list and one other operation per resource type.             *)
Duplicate(q) ==
  \E a, b \in q : a # b /\ a.res = b.res /\ (a.op = list <=> b.op = list)

(* buildTree: a synthetic read for each missing owner, and for the owners  *)
(* of that one; no chain in the schema is longer than two.                 *)
AddOwners(q) ==
  LET owners == UNION {schema[s.res] : s \in {x \in q : Consistent(x)}}
      present == {s.res : s \in {x \in q : x.op # list}}
  IN  q \cup {Read(o, 0) : o \in owners \ present}

buildTrees(q) == AddOwners(AddOwners(q))

Stored(data, r, id) == <<r, id>> \in DOMAIN data
Lookup(keys, r, k) == IF <<r, k>> \in DOMAIN keys THEN keys[<<r, k>>] ELSE 0

(* fillInIDs over one query after buildTrees, as a function F of the       *)
(* resource type.  Visited subqueries are the roots and the owners of      *)
(* visited ones; goes says that the walk continues with the owners; bad,   *)
(* that it fails.  In the filled subqueries dep is the ids of the owners   *)
(* in the same query.                                                      *)
Types(q) == {s.res : s \in {x \in q : x.op # list}}
Of(q, r) == CHOOSE s \in q : s.op # list /\ s.res = r
Dependents(q, r) == {d \in Types(q) : r \in schema[d]}

(* The ids that dependents hand to their owner: set by the caller, looked  *)
(* up by key, or named by the stored dependent.                            *)
From(q, r, F) == {d \in Dependents(q, r) : Consistent(Of(q, d)) /\ F[d].goes}
Handed(q, data, keys, r, F) ==
  [d \in From(q, r, F) |->
     LET dep == Of(q, d).dep
     IN  IF r \notin DOMAIN dep THEN data[<<d, F[d].id>>].own[r]
         ELSE IF dep[r].key = 0 THEN dep[r].id ELSE Lookup(keys, r, dep[r].key)]

FillIn(q, data, keys, r, up) ==
  LET s == Of(q, r)
      from == DOMAIN up
      visited == s.op = inconsistentRead \/ Dependents(q, r) = {} \/ from # {}
      id0 == IF from = {} THEN s.id ELSE up[CHOOSE d \in from : TRUE]
      runs == visited /\ (id0 # 0 \/ s.dep # NoDep \/ s.key # 0)
      keyed == runs /\ r \in Keyed
      hit == Lookup(keys, r, s.key)
      id == IF keyed /\ s.key # 0 THEN hit ELSE id0
  IN  [id   |-> id,
       key  |-> IF keyed /\ s.key = 0 /\ Stored(data, r, id0)
                  THEN data[<<r, id0>>].key ELSE s.key,
       goes |-> runs /\ (s.dep # NoDep \/ Stored(data, r, id)),
       bad  |->
         \/ keyed /\ s.newKey # 0 /\ Lookup(keys, r, s.newKey) # 0
         \/ keyed /\ s.key # 0 /\ hit = 0 /\ r \notin allowBlankID
         \/ keyed /\ s.key # 0 /\ hit # 0 /\ id0 \notin {0, hit}
         \/ \E d \in from :
              Of(q, d).dep = NoDep /\ up[d] # 0 /\ s.id \notin {0, up[d]}
         \/ \E o \in DOMAIN s.dep :
              runs /\ s.dep[o].key # 0 /\ Lookup(keys, o, s.dep[o].key) = 0]

Walk(q, data, keys) ==
  LET F[r \in Types(q)] == FillIn(q, data, keys, r, Handed(q, data, keys, r, F)) IN F

fillInIDs(q, data, keys) ==
  LET F == Walk(q, data, keys)
  IN  [err |-> \E r \in Types(q) : F[r].bad,
       q |-> {s \in q : s.op = list} \cup
             {[Of(q, r) EXCEPT !.id = F[r].id, !.key = F[r].key,
                 !.dep = [o \in schema[r] \cap Types(q) |-> F[o].id]] :
                r \in Types(q)}]

-----------------------------------------------------------------------------
(* The lock order.                                                         *)
LexLess(x, y) ==
  \E i \in DOMAIN x : x[i] < y[i] /\ \A j \in 1..(i - 1) : x[j] = y[j]

compareSubqueries(s) == <<resourceRanks[s.res], s.res, s.id, s.op>>
Before(a, b) == LexLess(compareSubqueries(a), compareSubqueries(b))

elem(s) == <<s.res, s.id>>
=============================================================================
