-------------------------- MODULE CacheQueryProofs --------------------------
(* What the operators of CacheQuery compute, for any query and any cache.  *)
EXTENDS CacheQuery, TLAPS, WellFoundedInduction

(* Every nonempty set of naturals has a least element.                     *)
LEMMA LeastNat ==
  ASSUME NEW S \in SUBSET Nat, S # {}
  PROVE  \E m \in S : \A n \in S : m <= n
<1>1. PICK m \in S : \A n \in S : ~(<<n, m>> \in OpToRel(<, Nat))
  BY NatLessThanWellFounded, WFMin
<1>2. ASSUME NEW n \in S PROVE m <= n
  <2>1. ~(n < m)
    BY <1>1 DEF OpToRel
  <2>2. QED
    BY <2>1
<1>3. QED
  BY <1>2

LEMMA Constants ==
  /\ root = 0 /\ node = 1 /\ storageClass = 2 /\ groupSnapshot = 3 /\ backend = 4
  /\ objectStore = 5 /\ volume = 6 /\ subordinateVolume = 7 /\ volumePublication = 8
  /\ snapshot = 9 /\ bucket = 10 /\ bucketAccess = 11 /\ autogrowPolicy = 12
  /\ Resource = 0..12
  BY DEF root, node, storageClass, groupSnapshot, backend, objectStore, volume,
     subordinateVolume, volumePublication, snapshot, bucket, bucketAccess, autogrowPolicy,
     Resource

(* The owners of each resource type.                                       *)
LEMMA Schema ==
  /\ schema \in [Resource -> SUBSET Resource]
  /\ schema[volume] = {backend}
  /\ schema[snapshot] = {volume} /\ schema[subordinateVolume] = {volume}
  /\ schema[volumePublication] = {volume, node}
  /\ schema[bucket] = {objectStore} /\ schema[bucketAccess] = {objectStore}
  /\ \A r \in Resource : r \notin {volume, snapshot, subordinateVolume, volumePublication,
                                   bucket, bucketAccess} => schema[r] = {}
  BY Constants DEF schema

(* Nothing but volumes has both owners and dependents.                     *)
LEMMA Chains ==
  ASSUME NEW r \in Resource, NEW d \in Resource, r \in schema[d]
  PROVE  /\ r # volume => schema[r] = {}
         /\ d # volume => \A x \in Resource : d \notin schema[x]
         /\ d = volume => r = backend
         /\ r = backend => d = volume
  BY Schema, Constants

Rank(r) == IF schema[r] = {} THEN 0
           ELSE IF r \in {volume, bucket, bucketAccess} THEN 1 ELSE 2

LEMMA RankOf ==
  ASSUME NEW f, \A r \in Resource : f[r] = Rank(r)
  PROVE  \A r \in Resource : f[r] = IF schema[r] = {} THEN 0
                                    ELSE 1 + Max({f[o] : o \in schema[r]})
<1>1. ASSUME NEW a \in Nat PROVE Max({a}) = a
  BY DEF Max
<1>2. Max({1, 0}) = 1
  BY DEF Max
<1>3. ASSUME NEW r \in Resource, schema[r] # {}
      PROVE  Rank(r) = 1 + Max({f[o] : o \in schema[r]})
  <2>1. CASE r \in {volume, bucket, bucketAccess}
    <3>1. PICK o \in Resource : schema[r] = {o} /\ schema[o] = {}
      BY <1>3, <2>1, Schema, Constants
    <3>2. {f[x] : x \in schema[r]} = {0}
      BY <3>1 DEF Rank
    <3>3. Rank(r) = 1 /\ Max({0}) = 0
      BY <1>1, <1>3, <2>1 DEF Rank
    <3>4. QED
      BY <3>2, <3>3
  <2>2. CASE r \in {snapshot, subordinateVolume}
    <3>1. f[volume] = 1
      BY Schema, Constants DEF Rank
    <3>2. {f[x] : x \in schema[r]} = {1}
      BY <2>2, <3>1, Schema
    <3>3. Rank(r) = 2 /\ Max({1}) = 1
      BY <1>1, <1>3, <2>2, Constants DEF Rank
    <3>4. QED
      BY <3>2, <3>3
  <2>3. CASE r = volumePublication
    <3>1. f[volume] = 1 /\ f[node] = 0
      BY Schema, Constants DEF Rank
    <3>2. {f[x] : x \in schema[r]} = {1, 0}
      BY <2>3, <3>1, Schema, Constants
    <3>3. Rank(r) = 2
      BY <1>3, <2>3, Constants DEF Rank
    <3>4. QED
      BY <1>2, <3>2, <3>3
  <2>4. QED
    BY <1>3, <2>1, <2>2, <2>3, Schema
<1>4. ASSUME NEW r \in Resource, schema[r] = {}
      PROVE  Rank(r) = 0
  BY <1>4 DEF Rank
<1>5. QED
  BY <1>3, <1>4

(* rankForResource: resourceRanks is what its recursion says, and so Rank. *)
LEMMA Ranks == \A r \in Resource : resourceRanks[r] = Rank(r)
<1> DEFINE P(f) == f = [r \in Resource |-> IF schema[r] = {} THEN 0
                                           ELSE 1 + Max({f[o] : o \in schema[r]})]
           g == [r \in Resource |-> Rank(r)]
<1>1. P(g)
  <2>1. \A r \in Resource : g[r] = Rank(r)
    OBVIOUS
  <2> HIDE DEF g
  <2>2. \A r \in Resource : g[r] = IF schema[r] = {} THEN 0
                                   ELSE 1 + Max({g[o] : o \in schema[r]})
    BY <2>1, RankOf
  <2>3. g = [r \in Resource |-> g[r]]
    BY DEF g
  <2>4. QED
    BY <2>2, <2>3
<1>2. P(resourceRanks)
  BY <1>1 DEF resourceRanks
<1> DEFINE h == resourceRanks
<1> HIDE DEF h
<1>3. \A r \in Resource : h[r] = IF schema[r] = {} THEN 0
                                 ELSE 1 + Max({h[o] : o \in schema[r]})
  BY <1>2 DEF h
<1>4. ASSUME NEW a \in Nat PROVE Max({a}) = a
  BY DEF Max
<1>5. Max({1, 0}) = 1
  BY DEF Max
<1>6. ASSUME NEW r \in Resource, schema[r] = {} PROVE h[r] = Rank(r)
  BY <1>3, <1>6 DEF Rank
<1>7. ASSUME NEW r \in {volume, bucket, bucketAccess} PROVE h[r] = Rank(r)
  <2>1. PICK o \in Resource : schema[r] = {o} /\ schema[o] = {}
    BY <1>7, Schema, Constants
  <2>2. h[o] = 0
    BY <1>3, <2>1
  <2>3. {h[x] : x \in schema[r]} = {0}
    BY <2>1, <2>2
  <2>4. Max({h[x] : x \in schema[r]}) = 0
    BY <2>3, <1>4
  <2>5. Rank(r) = 1 /\ r \in Resource /\ schema[r] # {}
    BY <1>7, <2>1, Constants DEF Rank
  <2>6. h[r] = 1 + Max({h[x] : x \in schema[r]})
    BY <1>3, <2>5
  <2>7. QED
    BY <2>4, <2>5, <2>6
<1>8. h[volume] = 1 /\ h[node] = 0
  BY <1>6, <1>7, Schema, Constants DEF Rank
<1>9. ASSUME NEW r \in {snapshot, subordinateVolume} PROVE h[r] = Rank(r)
  <2>1. {h[x] : x \in schema[r]} = {1}
    BY <1>8, Schema
  <2>2. Max({h[x] : x \in schema[r]}) = 1
    BY <2>1, <1>4
  <2>3. Rank(r) = 2 /\ r \in Resource /\ schema[r] # {}
    BY <1>9, Schema, Constants DEF Rank
  <2>4. h[r] = 1 + Max({h[x] : x \in schema[r]})
    BY <1>3, <2>3
  <2>5. QED
    BY <2>2, <2>3, <2>4
<1>10. h[volumePublication] = Rank(volumePublication)
  <2>1. {h[x] : x \in schema[volumePublication]} = {1, 0}
    BY <1>8, Schema
  <2>2. Max({h[x] : x \in schema[volumePublication]}) = 1
    BY <2>1, <1>5
  <2>3. QED
    BY <1>3, <2>2, Schema, Constants DEF Rank
<1>11. QED
  BY <1>6, <1>7, <1>9, <1>10, Schema DEF h

-----------------------------------------------------------------------------
LEMMA Operations ==
  /\ list = 0 /\ upsert = 1 /\ del = 2 /\ read = 3 /\ inconsistentRead = 4 /\ create = 5
  /\ \A o : isWriteOp(o) <=> o \notin {0, 3, 4}
  /\ \A s : Consistent(s) <=> s.op \notin {0, 4}
  BY DEF list, upsert, del, read, inconsistentRead, create, isWriteOp, Consistent

LEMMA AskedFields ==
  ASSUME NEW s \in Asked
  PROVE  /\ s.res \in Resource /\ s.op \in 0..4
         /\ s.id \in Nat /\ s.key \in Nat /\ s.newKey \in Nat
         /\ s.dep # NoDep => s.dep \in [schema[s.res] -> Owner]
         /\ s.newKey # 0 => s.op = upsert /\ s.res \in Keyed
         /\ s = [res |-> s.res, op |-> s.op, id |-> s.id, key |-> s.key,
                 newKey |-> s.newKey, dep |-> s.dep]
  BY Operations DEF Asked

LEMMA ReadFields ==
  ASSUME NEW r \in Resource, NEW i \in Nat
  PROVE  /\ Read(r, i) \in Asked
         /\ Read(r, i).res = r /\ Read(r, i).id = i /\ Read(r, i).op = read
         /\ Read(r, i).newKey = 0 /\ Consistent(Read(r, i))
<1>1. Read(r, i) = [res |-> r, op |-> read, id |-> i, key |-> 0, newKey |-> 0, dep |-> NoDep]
  BY DEF Read, Subquery
<1>2. QED
  BY <1>1, Operations DEF Asked

(* One round of buildTree.                                                 *)
LEMMA Round ==
  ASSUME NEW q \in SUBSET Asked
  PROVE  /\ AddOwners(q) \in SUBSET Asked
         /\ q \subseteq AddOwners(q)
         /\ \A s \in AddOwners(q) \ q :
              \E x \in q : /\ Consistent(x) /\ s.res \in schema[x.res]
                           /\ s = Read(s.res, 0) /\ s.res \notin Types(q)
         /\ \A x \in q : Consistent(x) => schema[x.res] \subseteq Types(AddOwners(q))
<1> DEFINE owners == UNION {schema[s.res] : s \in {x \in q : Consistent(x)}}
           present == {s.res : s \in {x \in q : x.op # list}}
<1>1. AddOwners(q) = q \cup {Read(o, 0) : o \in owners \ present}
  BY DEF AddOwners
<1>2. owners \in SUBSET Resource
  BY AskedFields, Schema
<1>3. \A o \in owners : \E x \in q : Consistent(x) /\ o \in schema[x.res]
  OBVIOUS
<1>4. present = Types(q)
  BY DEF Types
<1> HIDE DEF owners, present
<1>5. \A o \in owners \ present : Read(o, 0) \in Asked /\ Read(o, 0).res = o
                                  /\ Read(o, 0).op # list
  BY <1>2, ReadFields, Operations
<1>6. ASSUME NEW x \in q, Consistent(x), NEW o \in schema[x.res]
      PROVE  o \in Types(AddOwners(q))
  <2>1. o \in owners
    BY <1>6 DEF owners
  <2>2. CASE o \in present
    BY <1>1, <1>4, <2>2 DEF Types
  <2>3. CASE o \notin present
    BY <1>1, <1>5, <2>1, <2>3 DEF Types
  <2>4. QED
    BY <2>2, <2>3
<1>7. QED
  BY <1>1, <1>2, <1>3, <1>4, <1>5, <1>6

(* buildTrees adds reads, only to queries with consistent locks, until     *)
(* every consistent subquery has its owners in the query.                  *)
LEMMA Trees ==
  ASSUME NEW q \in SUBSET Asked
  PROVE  /\ buildTrees(q) \in SUBSET Asked
         /\ q \subseteq buildTrees(q)
         /\ \A s \in buildTrees(q) \ q :
              /\ s.op = read /\ s.newKey = 0 /\ s.res # root
              /\ \E x \in q : Consistent(x) /\ schema[x.res] # {}
         /\ \A s \in buildTrees(q) : Consistent(s) => schema[s.res] \subseteq Types(buildTrees(q))
<1> DEFINE q1 == AddOwners(q)
           q2 == AddOwners(q1)
<1>1. q1 \in SUBSET Asked /\ q2 \in SUBSET Asked /\ q \subseteq q1 /\ q1 \subseteq q2
  BY Round
<1>2. buildTrees(q) = q2
  BY DEF buildTrees
<1>3. \A s \in q1 \ q : \E x \in q : /\ Consistent(x) /\ s.res \in schema[x.res]
                                     /\ s = Read(s.res, 0)
  BY Round
<1>4. \A s \in q2 \ q1 : \E x \in q1 : /\ Consistent(x) /\ s.res \in schema[x.res]
                                       /\ s = Read(s.res, 0) /\ s.res \notin Types(q1)
  BY Round, <1>1
<1>5. /\ \A x \in q : Consistent(x) => schema[x.res] \subseteq Types(q1)
      /\ \A x \in q1 : Consistent(x) => schema[x.res] \subseteq Types(q2)
  BY Round, <1>1
<1> HIDE DEF q1, q2
<1>6. ASSUME NEW s \in q2 \ q, NEW x \in Asked, s.res \in schema[x.res], s = Read(s.res, 0)
      PROVE  s.op = read /\ s.newKey = 0 /\ s.res # root
  <2>1. s.res \in Resource /\ x.res \in Resource
    BY <1>1, AskedFields
  <2>2. QED
    BY <1>6, <2>1, ReadFields, Schema, Constants
<1>7. ASSUME NEW s \in q2 \ q
      PROVE  /\ s.op = read /\ s.newKey = 0 /\ s.res # root
             /\ \E x \in q : Consistent(x) /\ schema[x.res] # {}
  <2>1. CASE s \in q1
    BY <1>1, <1>3, <1>6, <2>1
  <2>2. CASE s \notin q1
    BY <1>1, <1>3, <1>4, <1>6, <2>2
  <2>3. QED
    BY <2>1, <2>2
<1>8. ASSUME NEW s \in q2 \ q1 PROVE schema[s.res] = {}
  <2>1. PICK x \in q1 : /\ Consistent(x) /\ s.res \in schema[x.res]
                        /\ s.res \notin Types(q1)
    BY <1>4
  <2>2. s.res \in Resource /\ x.res \in Resource
    BY <1>1, AskedFields
  <2>3. x \notin q
    BY <1>5, <2>1
  <2>4. PICK y \in q : x.res \in schema[y.res]
    BY <1>3, <2>3
  <2>5. y.res \in Resource
    BY AskedFields
  <2>6. x.res = volume \/ schema[x.res] = {}
    BY <2>2, <2>4, <2>5, Chains
  <2>7. QED
    BY <2>1, <2>2, <2>6, Chains, Schema, Constants
<1>9. QED
  BY <1>1, <1>2, <1>5, <1>7, <1>8

-----------------------------------------------------------------------------
(* What fillInIDs relies on in the caches.                                 *)
DataOK(d) ==
  \A e \in DOMAIN d :
    /\ e \in Resource \X (Nat \ {0})
    /\ d[e].key \in Nat /\ d[e].own \in [schema[e[1]] -> Nat]
KeysOK(k) == \A x \in DOMAIN k : k[x] \in Nat

(* What it finds for one resource type.                                    *)
Found(q, d, r, f) ==
  /\ f.id \in Nat /\ f.key \in Nat
  /\ f.goes => Of(q, r).dep # NoDep \/ <<r, f.id>> \in DOMAIN d

LEMMA OfMember ==
  ASSUME NEW q \in SUBSET Asked, NEW r \in Types(q)
  PROVE  /\ Of(q, r) \in q /\ Of(q, r).op # list /\ Of(q, r).res = r
         /\ Of(q, r) \in Asked /\ r \in Resource
<1>1. \E s \in q : s.op # list /\ s.res = r
  BY DEF Types
<1>2. Of(q, r) \in q /\ Of(q, r).op # list /\ Of(q, r).res = r
  BY <1>1 DEF Of
<1>3. QED
  BY <1>2, AskedFields

LEMMA LookupNat ==
  ASSUME NEW k, KeysOK(k), NEW r, NEW x
  PROVE  Lookup(k, r, x) \in Nat
  BY DEF Lookup, KeysOK

LEMMA FillInFound ==
  ASSUME NEW q \in SUBSET Asked, NEW d, DataOK(d), NEW k, KeysOK(k), NEW r \in Types(q),
         NEW up, \A x \in DOMAIN up : up[x] \in Nat
  PROVE  Found(q, d, r, FillIn(q, d, k, r, up))
<1> DEFINE s == Of(q, r)
           from == DOMAIN up
           visited == s.op = inconsistentRead \/ Dependents(q, r) = {} \/ from # {}
           id0 == IF from = {} THEN s.id ELSE up[CHOOSE x \in from : TRUE]
           runs == visited /\ (id0 # 0 \/ s.dep # NoDep \/ s.key # 0)
           keyed == runs /\ r \in Keyed
           hit == Lookup(k, r, s.key)
           id == IF keyed /\ s.key # 0 THEN hit ELSE id0
           f == FillIn(q, d, k, r, up)
<1>1. /\ f.id = id
      /\ f.key = IF keyed /\ s.key = 0 /\ Stored(d, r, id0) THEN d[<<r, id0>>].key ELSE s.key
      /\ f.goes = (runs /\ (s.dep # NoDep \/ Stored(d, r, id)))
  BY DEF FillIn
<1>2. s.id \in Nat /\ s.key \in Nat
  BY OfMember, AskedFields
<1>3. id0 \in Nat
  <2>1. CASE from = {}
    BY <1>2, <2>1
  <2>2. CASE from # {}
    <3>1. (CHOOSE x \in from : TRUE) \in from
      BY <2>2
    <3>2. QED
      BY <2>2, <3>1
  <2>3. QED
    BY <2>1, <2>2
<1>4. id \in Nat
  BY <1>3, LookupNat
<1>5. Stored(d, r, id0) => d[<<r, id0>>].key \in Nat
  BY DEF Stored, DataOK
<1> HIDE DEF f, id, id0, runs, keyed
<1>6. QED
  BY <1>1, <1>2, <1>4, <1>5 DEF Found, Stored, f

LEMMA HandedNat ==
  ASSUME NEW q \in SUBSET Asked, NEW d, DataOK(d), NEW k, KeysOK(k), NEW r \in Types(q),
         NEW F, \A x \in Dependents(q, r) : Found(q, d, x, F[x])
  PROVE  \A x \in DOMAIN Handed(q, d, k, r, F) : Handed(q, d, k, r, F)[x] \in Nat
<1>1. SUFFICES ASSUME NEW x \in From(q, r, F)
               PROVE  Handed(q, d, k, r, F)[x] \in Nat
  BY DEF Handed
<1>2. x \in Types(q) /\ r \in schema[x] /\ F[x].goes /\ Found(q, d, x, F[x])
  BY DEF From, Dependents
<1>3. Of(q, x) \in Asked /\ Of(q, x).res = x
  BY <1>2, OfMember
<1> DEFINE dep == Of(q, x).dep
<1>4. Handed(q, d, k, r, F)[x] = IF r \notin DOMAIN dep THEN d[<<x, F[x].id>>].own[r]
                                 ELSE IF dep[r].key = 0 THEN dep[r].id
                                 ELSE Lookup(k, r, dep[r].key)
  BY DEF Handed
<1>5. CASE r \notin DOMAIN dep
  <2>1. dep = NoDep
    BY <1>2, <1>3, <1>5, AskedFields
  <2>2. <<x, F[x].id>> \in DOMAIN d
    BY <1>2, <2>1 DEF Found
  <2>3. d[<<x, F[x].id>>].own \in [schema[x] -> Nat]
    BY <2>2 DEF DataOK
  <2>4. QED
    BY <1>2, <1>4, <1>5, <2>3
<1>6. CASE r \in DOMAIN dep
  <2>1. dep \in [schema[x] -> Owner]
    BY <1>3, <1>6, AskedFields DEF NoDep
  <2>2. dep[r].id \in Nat
    BY <1>2, <2>1 DEF Owner
  <2>3. QED
    BY <1>4, <1>6, <2>2, LookupNat
<1>7. QED
  BY <1>5, <1>6

(* What is handed to an owner depends on its dependents only.              *)
LEMMA HandedBy ==
  ASSUME NEW q, NEW d, NEW k, NEW r, NEW F, NEW G,
         \A x \in Dependents(q, r) : F[x] = G[x]
  PROVE  Handed(q, d, k, r, F) = Handed(q, d, k, r, G)
<1>1. From(q, r, F) = From(q, r, G)
  BY DEF From
<1>2. \A x \in From(q, r, F) : F[x] = G[x]
  BY DEF From
<1>3. QED
  BY <1>1, <1>2 DEF Handed

(* The dependents of volumes and of nodes have none, and backends have     *)
(* volumes.                                                                *)
LEMMA Levels ==
  ASSUME NEW q \in SUBSET Asked, NEW r \in Types(q), NEW x \in Dependents(q, r)
  PROVE  /\ x \in Types(q)
         /\ r # backend => Dependents(q, x) = {}
         /\ x # backend
<1>1. x \in Types(q) /\ r \in Resource /\ x \in Resource /\ r \in schema[x]
  BY OfMember DEF Dependents
<1>2. \A y \in Types(q) : y \in Resource
  BY OfMember
<1>3. schema[backend] = {}
  BY Schema, Constants
<1>4. ASSUME r # backend PROVE \A y \in Resource : x \notin schema[y]
  BY <1>1, <1>4, Chains
<1>5. QED
  BY <1>1, <1>2, <1>3, <1>4 DEF Dependents

(* The recursion of fillInIDs ends: Walk is what it says.                  *)
LEMMA WalkIs ==
  ASSUME NEW q \in SUBSET Asked, NEW d, NEW k
  PROVE  \A r \in Types(q) :
           Walk(q, d, k)[r] = FillIn(q, d, k, r, Handed(q, d, k, r, Walk(q, d, k)))
<1> DEFINE T == Types(q)
           B(f) == [r \in T |-> FillIn(q, d, k, r, Handed(q, d, k, r, f))]
           g0 == B(<< >>)
           g1 == B(g0)
           g2 == B(g1)
           g3 == B(g2)
<1>0. ASSUME NEW f, NEW g, NEW r \in T, \A x \in Dependents(q, r) : f[x] = g[x]
      PROVE  B(f)[r] = B(g)[r]
  BY <1>0, HandedBy
<1>1. ASSUME NEW r \in T, Dependents(q, r) = {}
      PROVE  g0[r] = g1[r] /\ g1[r] = g2[r]
  <2> HIDE DEF B
  <2>1. QED
    BY <1>0, <1>1
<1>2. ASSUME NEW r \in T, r # backend
      PROVE  g1[r] = g2[r] /\ g2[r] = g3[r]
  <2>1. \A x \in Dependents(q, r) : g0[x] = g1[x] /\ g1[x] = g2[x]
    BY <1>1, <1>2, Levels
  <2> HIDE DEF B, g0
  <2>2. QED
    BY <1>0, <2>1
<1>3. ASSUME NEW r \in T PROVE g2[r] = g3[r]
  <2>1. \A x \in Dependents(q, r) : g1[x] = g2[x]
    BY <1>2, Levels
  <2> HIDE DEF B, g0, g1
  <2>2. QED
    BY <1>0, <2>1
<1>4. g2 = B(g2)
  <2>1. g2 = [r \in T |-> g2[r]] /\ B(g2) = [r \in T |-> B(g2)[r]]
    OBVIOUS
  <2> HIDE DEF B, g0, g1, g2
  <2>2. \A r \in T : g2[r] = B(g2)[r]
    BY <1>3 DEF g3
  <2>3. QED
    BY <2>1, <2>2
<1>5. Walk(q, d, k) = CHOOSE f : f = B(f)
  BY DEF Walk
<1>6. \E f : f = B(f)
  BY <1>4
<1>7. Walk(q, d, k) = B(Walk(q, d, k))
  <2> HIDE DEF B
  <2>1. QED
    BY <1>5, <1>6
<1>8. QED
  BY <1>7

LEMMA WalkFound ==
  ASSUME NEW q \in SUBSET Asked, NEW d, DataOK(d), NEW k, KeysOK(k), NEW r \in Types(q)
  PROVE  Found(q, d, r, Walk(q, d, k)[r])
<1> DEFINE W == Walk(q, d, k)
<1> HIDE DEF W
<1>0. ASSUME NEW s \in Types(q), \A x \in Dependents(q, s) : Found(q, d, x, W[x])
      PROVE  Found(q, d, s, W[s])
  <2>1. W[s] = FillIn(q, d, k, s, Handed(q, d, k, s, W))
    BY WalkIs DEF W
  <2>2. \A x \in DOMAIN Handed(q, d, k, s, W) : Handed(q, d, k, s, W)[x] \in Nat
    BY <1>0, HandedNat
  <2>3. QED
    BY <2>1, <2>2, FillInFound
<1>1. ASSUME NEW s \in Types(q), Dependents(q, s) = {} PROVE Found(q, d, s, W[s])
  BY <1>0, <1>1
<1>2. ASSUME NEW s \in Types(q), s # backend PROVE Found(q, d, s, W[s])
  BY <1>0, <1>1, <1>2, Levels
<1>3. QED
  BY <1>0, <1>2, Levels DEF W

(* What lock() works on: a subquery with its ids filled in.                *)
IsSubquery(s) == s = [res |-> s.res, op |-> s.op, id |-> s.id, key |-> s.key,
                      newKey |-> s.newKey, dep |-> s.dep]
FilledIn(s) ==
  /\ IsSubquery(s)
  /\ s.res \in Resource /\ s.op \in 0..4
  /\ s.id \in Nat /\ s.key \in Nat /\ s.newKey \in Nat
  /\ s.newKey # 0 => s.op = upsert /\ s.res \in Keyed
  /\ Consistent(s) => s.dep \in [schema[s.res] -> Nat]

(* A filled subquery is one of the query, and its owners are in the query. *)
LEMMA FilledQuery ==
  ASSUME NEW q0 \in SUBSET Asked, NEW q, q = buildTrees(q0),
         NEW d, DataOK(d), NEW k, KeysOK(k), NEW s \in fillInIDs(q, d, k).q
  PROVE  /\ FilledIn(s)
         /\ \E x \in q : x.res = s.res /\ x.op = s.op
         /\ Consistent(s) => \A o \in schema[s.res] :
              \E x \in fillInIDs(q, d, k).q, y \in q :
                /\ x.res = o /\ x.op # list /\ x.id = s.dep[o]
                /\ y.res = o /\ y.op = x.op
<1> DEFINE T == Types(q)
           W == Walk(q, d, k)
           at(r) == [Of(q, r) EXCEPT !.id = W[r].id, !.key = W[r].key,
                                     !.dep = [o \in schema[r] \cap T |-> W[o].id]]
<1>1. fillInIDs(q, d, k).q = {x \in q : x.op = list} \cup {at(r) : r \in T}
  BY DEF fillInIDs
<1>2. q \in SUBSET Asked
  BY Trees
<1>3. ASSUME NEW r \in T
      PROVE  /\ at(r).res = r /\ at(r).op = Of(q, r).op /\ at(r).newKey = Of(q, r).newKey
             /\ at(r).id = W[r].id /\ at(r).key = W[r].key
             /\ at(r).dep = [o \in schema[r] \cap T |-> W[o].id]
             /\ IsSubquery(at(r))
  <2>1. Of(q, r) \in Asked /\ Of(q, r).res = r
    BY <1>2, OfMember
  <2>2. IsSubquery(Of(q, r))
    BY <2>1, AskedFields DEF IsSubquery
  <2> DEFINE y == Of(q, r)
             a == W[r].id
             b == W[r].key
             c == [o \in schema[r] \cap T |-> W[o].id]
  <2> HIDE DEF y, a, b, c
  <2>3. at(r) = [y EXCEPT !.id = a, !.key = b, !.dep = c]
    BY DEF y, a, b, c
  <2> DEFINE z == at(r)
  <2> HIDE DEF z
  <2>4. IsSubquery(y) /\ z = [y EXCEPT !.id = a, !.key = b, !.dep = c]
    BY <2>2, <2>3 DEF y, z
  <2>5. /\ z.res = y.res /\ z.op = y.op /\ z.newKey = y.newKey
        /\ z.id = a /\ z.key = b /\ z.dep = c /\ IsSubquery(z)
    <3>1. z = [res |-> y.res, op |-> y.op, id |-> a, key |-> b, newKey |-> y.newKey,
               dep |-> c]
      BY ONLY <2>4 DEF IsSubquery
    <3>2. QED
      BY ONLY <3>1 DEF IsSubquery
  <2>6. y.res = r
    BY <2>1 DEF y
  <2>7. QED
    BY ONLY <2>5, <2>6 DEF y, a, b, c, z
<1>4. \A r \in T : W[r].id \in Nat /\ W[r].key \in Nat
  BY <1>2, WalkFound DEF Found
<1> HIDE DEF W, at, T
<1>5. CASE s \in q /\ s.op = list
  <2>1. ~Consistent(s)
    BY <1>5, Operations
  <2>2. QED
    BY <1>2, <1>5, <2>1, AskedFields DEF FilledIn, IsSubquery
<1>6. ASSUME NEW r \in T, s = at(r)
      PROVE  /\ FilledIn(s)
             /\ \E x \in q : x.res = s.res /\ x.op = s.op
             /\ Consistent(s) => \A o \in schema[s.res] :
                  \E x \in fillInIDs(q, d, k).q, y \in q :
                    /\ x.res = o /\ x.op # list /\ x.id = s.dep[o]
                    /\ y.res = o /\ y.op = x.op
  <2> DEFINE y == Of(q, r)
  <2>1. y \in q /\ y \in Asked /\ y.res = r /\ y.op # list
    BY <1>2, OfMember DEF T
  <2>2. s.res = r /\ s.op = y.op /\ s.newKey = y.newKey /\ s.id = W[r].id /\ s.key = W[r].key
        /\ s.dep = [o \in schema[r] \cap T |-> W[o].id]
    BY <1>3, <1>6
  <2>3. Consistent(s) => schema[r] \cap T = schema[r]
    <3>1. Consistent(s) => Consistent(y)
      BY <2>2, Operations
    <3>2. QED
      BY <2>1, <3>1, Trees DEF T
  <2>4. Consistent(s) => s.dep \in [schema[s.res] -> Nat]
    BY <1>4, <2>2, <2>3
  <2>5. FilledIn(s)
    BY <1>3, <1>6, <1>4, <2>1, <2>2, <2>4, AskedFields DEF FilledIn
  <2>6. ASSUME Consistent(s), NEW o \in schema[s.res]
        PROVE  \E x \in fillInIDs(q, d, k).q, z \in q :
                 /\ x.res = o /\ x.op # list /\ x.id = s.dep[o]
                 /\ z.res = o /\ z.op = x.op
    <3>1. o \in T /\ s.dep[o] = W[o].id
      BY <2>2, <2>3, <2>6
    <3>2. Of(q, o) \in q /\ Of(q, o).res = o /\ Of(q, o).op # list
      BY <1>2, <3>1, OfMember DEF T
    <3>3. at(o) \in fillInIDs(q, d, k).q /\ at(o).res = o /\ at(o).op = Of(q, o).op
          /\ at(o).id = W[o].id
      BY <1>1, <1>3, <3>1
    <3>4. QED
      BY <3>1, <3>2, <3>3
  <2>7. QED
    BY <2>1, <2>2, <2>5, <2>6
<1>7. QED
  BY <1>1, <1>5, <1>6

-----------------------------------------------------------------------------
(* The lock order.                                                         *)
Place == Nat \X Nat \X Nat \X Nat

LEMMA LexLessIs ==
  ASSUME NEW x \in Place, NEW y \in Place
  PROVE  LexLess(x, y) <=> \/ x[1] < y[1]
                           \/ x[1] = y[1] /\ x[2] < y[2]
                           \/ x[1] = y[1] /\ x[2] = y[2] /\ x[3] < y[3]
                           \/ x[1] = y[1] /\ x[2] = y[2] /\ x[3] = y[3] /\ x[4] < y[4]
<1>1. DOMAIN x = 1..4
  BY DEF Place
<1>2. \A i \in 1..4 : i = 1 \/ i = 2 \/ i = 3 \/ i = 4
  OBVIOUS
<1>3. /\ \A j \in 1..(1 - 1) : FALSE
      /\ 1..(2 - 1) = {1} /\ 1..(3 - 1) = {1, 2} /\ 1..(4 - 1) = {1, 2, 3}
  OBVIOUS
<1> DEFINE L(i) == x[i] < y[i] /\ \A j \in 1..(i - 1) : x[j] = y[j]
<1>4. LexLess(x, y) <=> L(1) \/ L(2) \/ L(3) \/ L(4)
  BY <1>1, <1>2 DEF LexLess
<1>5. /\ L(1) <=> x[1] < y[1]
      /\ L(2) <=> x[1] = y[1] /\ x[2] < y[2]
      /\ L(3) <=> x[1] = y[1] /\ x[2] = y[2] /\ x[3] < y[3]
      /\ L(4) <=> x[1] = y[1] /\ x[2] = y[2] /\ x[3] = y[3] /\ x[4] < y[4]
  BY <1>3
<1>6. QED
  BY <1>4, <1>5

(* Every nonempty set of places has a first one.                           *)
LEMMA LeastPlace ==
  ASSUME NEW P \in SUBSET Place, P # {}
  PROVE  \E x \in P : \A y \in P : y # x => LexLess(x, y)
<1> DEFINE A1 == {x[1] : x \in P}
<1>1. PICK a \in A1 : \A n \in A1 : a <= n
  <2>1. A1 # {} /\ A1 \in SUBSET Nat
    BY DEF Place
  <2>2. QED
    BY <2>1, LeastNat
<1> DEFINE P1 == {x \in P : x[1] = a}
           A2 == {x[2] : x \in P1}
<1>2. PICK b \in A2 : \A n \in A2 : b <= n
  <2>1. A2 # {} /\ A2 \in SUBSET Nat
    BY DEF Place
  <2>2. QED
    BY <2>1, LeastNat
<1> DEFINE P2 == {x \in P1 : x[2] = b}
           A3 == {x[3] : x \in P2}
<1>3. PICK c \in A3 : \A n \in A3 : c <= n
  <2>1. A3 # {} /\ A3 \in SUBSET Nat
    BY DEF Place
  <2>2. QED
    BY <2>1, LeastNat
<1> DEFINE P3 == {x \in P2 : x[3] = c}
           A4 == {x[4] : x \in P3}
<1>4. PICK e \in A4 : \A n \in A4 : e <= n
  <2>1. A4 # {} /\ A4 \in SUBSET Nat
    BY DEF Place
  <2>2. QED
    BY <2>1, LeastNat
<1>5. PICK x \in P3 : x[4] = e
  OBVIOUS
<1>6. x \in P /\ x[1] = a /\ x[2] = b /\ x[3] = c /\ x[4] = e
  BY <1>5
<1>7. ASSUME NEW y \in P, y # x PROVE LexLess(x, y)
  <2>1. x \in Place /\ y \in Place
    BY <1>6
  <2>2. y[1] # x[1] \/ y[2] # x[2] \/ y[3] # x[3] \/ y[4] # x[4]
    BY <1>7, <2>1 DEF Place
  <2>3. CASE y[1] # a
    BY <1>1, <1>6, <2>1, <2>3, LexLessIs DEF Place
  <2>4. CASE y[1] = a /\ y[2] # b
    BY <1>2, <1>6, <2>1, <2>4, LexLessIs DEF Place
  <2>5. CASE y[1] = a /\ y[2] = b /\ y[3] # c
    BY <1>3, <1>6, <2>1, <2>5, LexLessIs DEF Place
  <2>6. CASE y[1] = a /\ y[2] = b /\ y[3] = c /\ y[4] # e
    BY <1>4, <1>6, <2>1, <2>6, LexLessIs DEF Place
  <2>7. QED
    BY <1>6, <2>2, <2>3, <2>4, <2>5, <2>6
<1>8. QED
  BY <1>6, <1>7
=============================================================================
