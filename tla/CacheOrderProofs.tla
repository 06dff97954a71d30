--------------------------- MODULE CacheOrderProofs ---------------------------
(* Proofs about the lock order, the waits and the names of                 *)
(* ConcurrentCache, for any goroutines, programs and contents.             *)
EXTENDS ConcurrentCacheProofs, FiniteSetTheorems

(* The lock order is a strict total order.                                 *)
LEMMA LexOrder ==
  ASSUME NEW x \in Place, NEW y \in Place, NEW z \in Place
  PROVE  /\ LexLess(x, y) /\ LexLess(y, z) => LexLess(x, z)
         /\ ~(LexLess(x, y) /\ LexLess(y, x))
         /\ x # y => LexLess(x, y) \/ LexLess(y, x)
<1>1. \A a, b \in Place : a = b <=> a[1] = b[1] /\ a[2] = b[2] /\ a[3] = b[3] /\ a[4] = b[4]
  BY DEF Place
<1>2. \A a \in Place : a[1] \in Nat /\ a[2] \in Nat /\ a[3] \in Nat /\ a[4] \in Nat
  BY DEF Place
<1> DEFINE L(a, b) == \/ a[1] < b[1]
                      \/ a[1] = b[1] /\ a[2] < b[2]
                      \/ a[1] = b[1] /\ a[2] = b[2] /\ a[3] < b[3]
                      \/ a[1] = b[1] /\ a[2] = b[2] /\ a[3] = b[3] /\ a[4] < b[4]
<1>3. \A a, b \in Place : LexLess(a, b) <=> L(a, b)
  BY LexLessIs
<1>4. L(x, y) /\ L(y, z) => L(x, z)
  BY <1>2
<1>5. ~(L(x, y) /\ L(y, x))
  BY <1>2
<1>6. x # y => L(x, y) \/ L(y, x)
  BY <1>1, <1>2
<1> HIDE DEF L
<1>7. QED
  BY <1>3, <1>4, <1>5, <1>6

(* A strict order on a finite set has a last element.                      *)
LEMMA LastOf ==
  ASSUME NEW S, IsFiniteSet(S), S # {}, NEW R,
         \A x \in S : <<x, x>> \notin R,
         \A x, y, z \in S : <<x, y>> \in R /\ <<y, z>> \in R => <<x, z>> \in R
  PROVE  \E x \in S : \A y \in S : <<x, y>> \notin R
<1> DEFINE Up(x) == {y \in S : <<x, y>> \in R}
           N == {Cardinality(Up(x)) : x \in S}
<1>1. \A x \in S : IsFiniteSet(Up(x)) /\ Cardinality(Up(x)) \in Nat
  <2>1. \A x \in S : Up(x) \in SUBSET S
    OBVIOUS
  <2>2. \A x \in S : IsFiniteSet(Up(x))
    BY <2>1, FS_Subset
  <2>3. QED
    BY <2>2, FS_CardinalityType
<1>2. N \in SUBSET Nat /\ N # {}
  <2> HIDE DEF Up
  <2>1. QED
    BY <1>1
<1>3. PICK n \in N : \A k \in N : n <= k
  BY <1>2, LeastNat
<1>4. PICK x \in S : n = Cardinality(Up(x))
  OBVIOUS
<1>5. ASSUME NEW y \in S, <<x, y>> \in R PROVE FALSE
  <2>1. Up(y) \in SUBSET Up(x) /\ y \in Up(x) /\ y \notin Up(y)
    BY <1>5
  <2> HIDE DEF Up
  <2>2. Cardinality(Up(y)) <= Cardinality(Up(x)) /\ Cardinality(Up(x)) # Cardinality(Up(y))
    <3>1. IsFiniteSet(Up(x))
      BY <1>1
    <3>2. /\ Cardinality(Up(y)) <= Cardinality(Up(x))
          /\ Cardinality(Up(x)) = Cardinality(Up(y)) => Up(x) = Up(y)
      BY <2>1, <3>1, FS_Subset
    <3>3. QED
      BY <2>1, <3>2
  <2>3. Cardinality(Up(y)) \in N /\ Cardinality(Up(y)) \in Nat /\ Cardinality(Up(x)) \in Nat
    BY <1>1
  <2> HIDE DEF N
  <2>4. Cardinality(Up(x)) <= Cardinality(Up(y))
    BY <1>3, <1>4, <2>3
  <2>5. QED
    BY <2>2, <2>3, <2>4
<1>6. QED
  BY <1>5

-----------------------------------------------------------------------------
(* What lock() merges: at most one consistent subquery for each query and  *)
(* resource type, with the new key that was asked for.                     *)
LEMMA MergedFinite ==
  ASSUME CacheTypes, NEW stage \in Seq(SUBSET Asked), NEW c, NEW m, m = mergeQueries(stage, c)
  PROVE  /\ IsFiniteSet({s \in m : Consistent(s)})
         /\ \A s \in m : s.newKey # 0 => \E x \in Sub(stage) : x.newKey # 0
<1> DEFINE B(j) == buildTrees(stage[j])
           W(j) == Walk(B(j), data, keys)
           at(j, r) == [Of(B(j), r) EXCEPT !.id = W(j)[r].id, !.key = W(j)[r].key,
                          !.dep = [o \in schema[r] \cap Types(B(j)) |-> W(j)[o].id]]
           P == (DOMAIN stage) \X Resource
           f == [p \in P |-> at(p[1], p[2])]
           z == Read(root, 1)
           T == {f[p] : p \in P}
<1>1. ASSUME NEW j \in DOMAIN stage, NEW s \in Filled(stage)[j].q
      PROVE  \/ s \in B(j) /\ s.op = list
             \/ \E r \in Types(B(j)) : s = at(j, r)
  <2>1. Filled(stage)[j].q = fillInIDs(B(j), data, keys).q
    BY DEF Filled, Assembled
  <2>2. fillInIDs(B(j), data, keys).q
          = {x \in B(j) : x.op = list} \cup {at(j, r) : r \in Types(B(j))}
    BY DEF fillInIDs
  <2> HIDE DEF B, at
  <2>3. QED
    BY <1>1, <2>1, <2>2
<1>2. \A s \in m : s = z \/ \E j \in DOMAIN stage : s \in Filled(stage)[j].q
  <2> HIDE DEF z
  <2> DEFINE R == IF HasConsistent(stage) /\ ~c.root THEN {z} ELSE {}
             U == {Filled(stage)[j].q : j \in DOMAIN stage}
  <2>1. m = (UNION U) \cup R
    BY DEF mergeQueries, z
  <2>2. R \subseteq {z}
    OBVIOUS
  <2>3. \A s \in UNION U : \E j \in DOMAIN stage : s \in Filled(stage)[j].q
    OBVIOUS
  <2> HIDE DEF R, U
  <2>4. QED
    BY <2>1, <2>2, <2>3
<1>3. ASSUME NEW j \in DOMAIN stage
      PROVE  /\ stage[j] \in SUBSET Asked /\ stage[j] \subseteq Sub(stage)
             /\ B(j) \in SUBSET Asked /\ \A s \in B(j) \ stage[j] : s.newKey = 0
  <2>1. stage[j] \in SUBSET Asked /\ stage[j] \subseteq Sub(stage)
    BY DEF Sub
  <2>2. QED
    BY <2>1, Trees
<1>4. ASSUME NEW j \in DOMAIN stage, NEW r \in Types(B(j))
      PROVE  /\ r \in Resource /\ Of(B(j), r) \in B(j)
             /\ at(j, r).newKey = Of(B(j), r).newKey
  <2>1. Of(B(j), r) \in B(j) /\ r \in Resource /\ Of(B(j), r) \in Asked
    BY <1>3, OfMember
  <2>2. PICK o \in Asked : o = Of(B(j), r)
    BY <2>1
  <2>3. o = [res |-> o.res, op |-> o.op, id |-> o.id, key |-> o.key,
             newKey |-> o.newKey, dep |-> o.dep]
    BY AskedFields
  <2> DEFINE i == W(j)[r].id
             k == W(j)[r].key
             d == [x \in schema[r] \cap Types(B(j)) |-> W(j)[x].id]
  <2>4. at(j, r) = [o EXCEPT !.id = i, !.key = k, !.dep = d]
    BY <2>2
  <2> HIDE DEF i, k, d, at
  <2>5. at(j, r).newKey = o.newKey
    BY <2>3, <2>4
  <2>6. QED
    BY <2>1, <2>2, <2>5
<1>5. IsFiniteSet(T)
  <2>1. PICK n \in Nat : DOMAIN stage = 1..n
    OBVIOUS
  <2>2. IsFiniteSet(DOMAIN stage) /\ IsFiniteSet(Resource)
    <3>1. n \in Int /\ 0 \in Int /\ 1 \in Int /\ 12 \in Int
      OBVIOUS
    <3>2. IsFiniteSet(1..n) /\ IsFiniteSet(0..12)
      BY <3>1, FS_Interval
    <3>3. QED
      BY <2>1, <3>2, Constants
  <2>3. IsFiniteSet(P)
    BY <2>2, FS_Product
  <2>4. f = [p \in P |-> f[p]]
    OBVIOUS
  <2> HIDE DEF P, f
  <2>5. f \in Surjection(P, T)
    <3>1. f \in [P -> T]
      BY <2>4
    <3>2. QED
      BY <3>1 DEF Surjection
  <2>6. QED
    BY <2>3, <2>5, FS_Surjection
<1>6. {s \in m : Consistent(s)} \in SUBSET (T \cup {z})
  <2>1. ASSUME NEW j \in DOMAIN stage, NEW r \in Types(B(j)) PROVE at(j, r) \in T
    <3>1. <<j, r>> \in P /\ f[<<j, r>>] = at(j, r)
      BY <1>4
    <3> HIDE DEF P, f, at
    <3>2. QED
      BY <3>1
  <2>2. ASSUME NEW s \in m, Consistent(s) PROVE s \in T \cup {z}
    <3>1. CASE s = z
      BY <3>1
    <3>2. ASSUME NEW j \in DOMAIN stage, s \in Filled(stage)[j].q PROVE s \in T
      <4>1. s.op # list
        BY <2>2, Operations
      <4>2. PICK r \in Types(B(j)) : s = at(j, r)
        BY <1>1, <3>2, <4>1
      <4>3. QED
        BY <2>1, <4>2
    <3>3. QED
      BY <1>2, <3>1, <3>2
  <2> HIDE DEF T, z
  <2>3. QED
    BY <2>2
<1>7. IsFiniteSet({s \in m : Consistent(s)})
  <2>1. IsFiniteSet(T \cup {z})
    BY <1>5, FS_AddElement
  <2>2. QED
    BY <1>6, <2>1, FS_Subset
<1>8. ASSUME NEW s \in m, s.newKey # 0 PROVE \E x \in Sub(stage) : x.newKey # 0
  <2>1. s # z
    <3>1. z.newKey = 0
      BY ReadFields, Constants
    <3>2. QED
      BY <1>8, <3>1
  <2>2. PICK j \in DOMAIN stage : s \in Filled(stage)[j].q
    BY <1>2, <2>1
  <2>3. \E x \in B(j) : x.newKey = s.newKey
    <3>1. CASE s \in B(j)
      BY <3>1
    <3>2. ASSUME NEW r \in Types(B(j)), s = at(j, r) PROVE \E x \in B(j) : x.newKey = s.newKey
      <4> HIDE DEF B, at
      <4>1. QED
        BY <1>4, <3>2
    <3>3. QED
      BY <1>1, <2>2, <3>1, <3>2
  <2>4. QED
    BY <1>3, <1>8, <2>3
<1>9. QED
  BY <1>7, <1>8

-----------------------------------------------------------------------------
(* The place of the lock of a subquery; every lock that is taken for it is *)
(* there or before.                                                        *)
Mark(s) == <<1 + resourceRanks[s.res], s.res, s.id, 1>>
UpTo(x, s) == x.at = Mark(s) \/ LexLess(x.at, Mark(s))
Orderly(s) == s.res \in Resource /\ s.id \in Nat /\ s.op \in Nat

LEMMA MarkPlace ==
  ASSUME NEW s, Orderly(s)
  PROVE  /\ Mark(s) \in Place /\ compareSubqueries(s) \in Place
         /\ <<1 + resourceRanks[s.res], s.res, s.id, 0>> \in Place
         /\ resourceRanks[s.res] \in Nat /\ s.res \in Nat
<1>1. resourceRanks[s.res] \in Nat
  BY Ranks DEF Orderly, Rank
<1>2. s.res \in Nat /\ s.id \in Nat /\ s.op \in Nat
  BY Constants DEF Orderly
<1>3. QED
  BY <1>1, <1>2 DEF compareSubqueries, Place, Mark

(* The order of the subqueries is that of their locks.                     *)
LEMMA BeforeMark ==
  ASSUME NEW s, Orderly(s), NEW y, Orderly(y), ~Before(s, y)
  PROVE  /\ Mark(y) = Mark(s) \/ LexLess(Mark(y), Mark(s))
         /\ elem(s) # elem(y) =>
              LexLess(Mark(y), Mark(s))
              /\ LexLess(Mark(y), <<1 + resourceRanks[s.res], s.res, s.id, 0>>)
<1> DEFINE a == resourceRanks[s.res]
           b == resourceRanks[y.res]
           k == <<1 + a, s.res, s.id, 0>>
<1>1. /\ Mark(s) \in Place /\ Mark(y) \in Place /\ k \in Place
      /\ compareSubqueries(s) \in Place /\ compareSubqueries(y) \in Place
      /\ a \in Nat /\ b \in Nat /\ s.res \in Nat /\ y.res \in Nat
  BY MarkPlace
<1>2. s.id \in Nat /\ y.id \in Nat /\ s.op \in Nat /\ y.op \in Nat
  BY DEF Orderly
<1>3. ~ \/ a < b
        \/ a = b /\ s.res < y.res
        \/ a = b /\ s.res = y.res /\ s.id < y.id
  <2>1. ~LexLess(compareSubqueries(s), compareSubqueries(y))
    BY DEF Before
  <2> DEFINE p == compareSubqueries(s)
             q == compareSubqueries(y)
  <2>2. /\ p[1] = a /\ p[2] = s.res /\ p[3] = s.id
        /\ q[1] = b /\ q[2] = y.res /\ q[3] = y.id
    BY DEF compareSubqueries
  <2> HIDE DEF p, q
  <2>3. QED
    BY <1>1, <2>1, <2>2, LexLessIs DEF p, q
<1>4. elem(s) # elem(y) => s.res # y.res \/ s.id # y.id
  BY DEF elem
<1>5. /\ Mark(s)[1] = 1 + a /\ Mark(s)[2] = s.res /\ Mark(s)[3] = s.id /\ Mark(s)[4] = 1
      /\ Mark(y)[1] = 1 + b /\ Mark(y)[2] = y.res /\ Mark(y)[3] = y.id /\ Mark(y)[4] = 1
      /\ k[1] = 1 + a /\ k[2] = s.res /\ k[3] = s.id /\ k[4] = 0
  BY DEF Mark
<1>6. CASE s.res = y.res /\ s.id = y.id
  BY <1>4, <1>6 DEF Mark
<1>7. CASE s.res # y.res \/ s.id # y.id
  <2>1. \/ b < a
        \/ a = b /\ y.res < s.res
        \/ a = b /\ y.res = s.res /\ y.id < s.id
    BY <1>1, <1>2, <1>3, <1>7
  <2>2. LexLess(Mark(y), Mark(s)) /\ LexLess(Mark(y), k)
    <3> HIDE DEF k, a, b
    <3>1. QED
      BY <1>1, <1>2, <1>5, <2>1, LexLessIs
  <2>3. QED
    BY <2>2
<1>8. QED
  BY <1>6, <1>7

LEMMA FilledOrderly ==
  ASSUME NEW s, FilledIn(s) PROVE Orderly(s)
  BY DEF FilledIn, Orderly

(* The locks of a plan are for what was merged.                            *)
LEMMA PlanUnder ==
  ASSUME NEW m, NEW c, \A s \in m : FilledIn(s), NEW x \in LockPlan(m, c)
  PROVE  \E s \in m : Consistent(s) /\ UpTo(x, s)
<1>1. ASSUME NEW s \in m, s.newKey # 0, x = NewKeyLock(s)
      PROVE  Consistent(s) /\ UpTo(x, s)
  <2>1. Mark(s) \in Place /\ resourceRanks[s.res] \in Nat /\ s.res \in Nat
    BY FilledOrderly, MarkPlace
  <2>2. s.op = upsert /\ s.newKey \in Nat
    BY <1>1 DEF FilledIn
  <2>3. x.at = <<0, s.res, s.newKey, 0>> /\ x.at \in Place
    BY <1>1, <2>1, <2>2 DEF NewKeyLock, Place
  <2>4. x.at[1] = 0 /\ Mark(s)[1] = 1 + resourceRanks[s.res]
    BY <2>3 DEF Mark
  <2>5. LexLess(x.at, Mark(s))
    BY <2>1, <2>3, <2>4, LexLessIs
  <2>6. QED
    BY <2>2, <2>5, Operations DEF UpTo
<1>2. ASSUME NEW s \in Firsts(m, c), x = KeyLock(s) \/ x = ResLock(s)
      PROVE  s \in m /\ Consistent(s) /\ UpTo(x, s)
  <2>1. s \in m /\ Consistent(s) /\ FilledIn(s)
    BY FirstsAre
  <2>2. CASE x = ResLock(s)
    BY <2>1, <2>2 DEF UpTo, ResLock, Mark
  <2>3. CASE x = KeyLock(s)
    <3> DEFINE k == <<1 + resourceRanks[s.res], s.res, s.id, 0>>
    <3>1. k \in Place /\ Mark(s) \in Place
      BY <2>1, FilledOrderly, MarkPlace
    <3>2. /\ k[1] = Mark(s)[1] /\ k[2] = Mark(s)[2] /\ k[3] = Mark(s)[3]
          /\ k[4] = 0 /\ Mark(s)[4] = 1
      BY DEF Mark
    <3>3. x.at = k
      BY <2>3 DEF KeyLock
    <3> HIDE DEF k
    <3>4. LexLess(k, Mark(s))
      BY <3>1, <3>2, LexLessIs
    <3>5. QED
      BY <2>1, <3>3, <3>4 DEF UpTo
  <2>4. QED
    BY <1>2, <2>2, <2>3
<1>3. QED
  BY <1>1, <1>2, PlanIs

(* NestedLock: a call that is not rejected asks for nothing before the     *)
(* last held lock, and so for nothing before any lock up to that one.      *)
LEMMA PlanAbove ==
  ASSUME NEW m, NEW c, \A s \in m : FilledIn(s) /\ s.newKey = 0,
         NEW l, Orderly(l), elem(l) \in DOMAIN c.qs,
         ~ \E s \in First(NewLocks(m, c)) : Before(s, l),
         NEW y \in LockPlan(m, c)
  PROVE  LexLess(Mark(l), y.at)
<1> DEFINE N == NewLocks(m, c)
           P == {compareSubqueries(s) : s \in N}
<1>1. \A s \in N : s \in m /\ FilledIn(s) /\ elem(s) \notin DOMAIN c.qs
  BY DEF NewLocks
<1>2. PICK s \in N : /\ y = KeyLock(s) \/ y = ResLock(s)
  <2>1. PICK s \in Firsts(m, c) : y = KeyLock(s) \/ y = ResLock(s)
    BY PlanIs
  <2>2. s \in Fresh(m, c)
    <3>1. \A z \in Fresh(m, c) : FilledIn(z)
      BY DEF Fresh, NewLocks
    <3>2. QED
      BY <3>1, FirstOfMember DEF Firsts
  <2>3. QED
    BY <2>1, <2>2 DEF Fresh
<1>3. \A z \in N : compareSubqueries(z) \in Place
  BY <1>1, ComparePlace
<1>4. PICK p \in P : \A q \in P : q # p => LexLess(p, q)
  <2>1. P \in SUBSET Place /\ P # {}
    BY <1>2, <1>3
  <2>2. QED
    BY <2>1, LeastPlace
<1>5. PICK f \in N : p = compareSubqueries(f)
  OBVIOUS
<1>6. p \in Place /\ \A z \in N : compareSubqueries(z) = p \/ LexLess(p, compareSubqueries(z))
  BY <1>3, <1>4, <1>5
<1>7. f \in First(N)
  <2>1. \A z \in N : ~LexLess(compareSubqueries(z), p)
    BY <1>3, <1>6, LexOrder
  <2>2. QED
    BY <1>5, <2>1 DEF First, Before
<1>8. ~LexLess(p, compareSubqueries(l))
  BY <1>5, <1>7 DEF Before
<1>9. ~Before(s, l)
  <2>1. compareSubqueries(l) \in Place
    BY MarkPlace
  <2>2. ~LexLess(compareSubqueries(s), compareSubqueries(l))
    BY <1>2, <1>3, <1>6, <1>8, <2>1, LexOrder
  <2>3. QED
    BY <2>2 DEF Before
<1>10. elem(s) # elem(l) /\ Orderly(s)
  BY <1>1, <1>2, FilledOrderly
<1>11. /\ LexLess(Mark(l), Mark(s))
       /\ LexLess(Mark(l), <<1 + resourceRanks[s.res], s.res, s.id, 0>>)
  BY <1>9, <1>10, BeforeMark
<1>12. y.at = Mark(s) \/ y.at = <<1 + resourceRanks[s.res], s.res, s.id, 0>>
  BY <1>2 DEF KeyLock, ResLock, Mark
<1>13. QED
  BY <1>11, <1>12

-----------------------------------------------------------------------------
(* The invariant: what a goroutine still has to lock comes after all that  *)
(* it holds.  While more stages are to come, all its locks are up to the   *)
(* last one, or up to what it is about to be granted in its first stage.   *)
(* The lock of a resource has the same place for everyone.                 *)
Placed(x) ==
  x.lock[1] = "res" =>
    x.at = <<1 + resourceRanks[x.lock[2]], x.lock[2], x.lock[3], 1>>

OrderOK(t) ==
  LET l == ctx[t].lastLock IN
  /\ pc[t] \in Locking => \A x \in Locks(t), y \in todo[t] : LexLess(x.at, y.at)
  /\ \A i \in DOMAIN rest[t] : i < Len(rest[t]) => Unlocked(rest[t][i])
  /\ l # NoLock => Orderly(l) /\ elem(l) \in DOMAIN ctx[t].qs
  /\ IsFiniteSet(Granted(t))
  /\ \A x \in Locks(t) \cup todo[t] : Placed(x)
  /\ pc[t] \in Active /\ rest[t] # << >> =>
       /\ \A x \in Locks(t) \cup todo[t] :
            \/ l # NoLock /\ UpTo(x, l)
            \/ pc[t] \in Locking /\ \E s \in Granted(t) : UpTo(x, s)
       /\ pc[t] \in Locking /\ Granted(t) # {} => l = NoLock

LEMMA PlanPlaced ==
  ASSUME NEW m, NEW c, NEW x \in LockPlan(m, c)
  PROVE  Placed(x)
<1>1. ASSUME NEW s PROVE /\ NewKeyLock(s).lock[1] = "key" /\ KeyLock(s).lock[1] = "key"
                         /\ Placed(ResLock(s))
  BY DEF NewKeyLock, KeyLock, ResLock, Placed
<1>2. QED
  BY <1>1, PlanIs DEF Placed

LEMMA OrderSame ==
  ASSUME NEW u, Same(u), OrderOK(u)
  PROVE  OrderOK(u)'
  BY DEF Same, OrderOK, Locks, Granted

LEMMA OrderInit ==
  ASSUME Init, NEW t \in Thread
  PROVE  OrderOK(t)
<1>1. /\ rest[t] = << >> /\ merged[t] = {} /\ pc[t] = "idle" /\ ctx[t] = NoCtx
      /\ held[t] = << >> /\ todo[t] = {}
  BY DEF Init
<1>2. Granted(t) = {} /\ Locks(t) = {}
  BY <1>1 DEF Granted, Locks
<1>3. pc[t] \notin Locking /\ ctx[t].lastLock = NoLock
  BY <1>1 DEF Locking, NoCtx
<1>4. QED
  BY <1>1, <1>2, <1>3, FS_EmptySet DEF OrderOK

(* Lock.                                                                   *)
LEMMA OrderLock ==
  ASSUME NestedOnce, IInv, NEW t \in Thread, OrderOK(t), Lock(t)
  PROVE  OrderOK(t)'
<1>1. CacheTypes /\ pc[t] = "idle" /\ held[t] = << >> /\ ctx[t] = NoCtx
  BY DEF IInv, ThreadOK, ThreadTypes, Lock
<1>2. PICK p \in Program[t] : /\ Start(t, p[1], NoCtx)
                              /\ rest' = [rest EXCEPT ![t] = Tail(p)]
  BY DEF Lock
<1>3. p \in Seq(Seq(SUBSET Asked)) /\ p # << >>
  BY ProgramAssumption
<1>4. PICK stage \in Seq(SUBSET Asked) : stage = p[1]
  BY <1>3
<1>5. PICK m : m = mergeQueries(stage, NoCtx)
  OBVIOUS
<1>6. /\ merged'[t] = m /\ todo'[t] = LockPlan(m, NoCtx) /\ pc'[t] = "lock"
      /\ rest'[t] = Tail(p) /\ held'[t] = << >> /\ ctx'[t] = NoCtx
  BY <1>1, <1>2, <1>4, <1>5 DEF Lock, Start, IInv, Shapes
<1>7. Locks(t)' = {}
  BY <1>6 DEF Locks
<1>8. /\ \A s \in m : FilledIn(s)
      /\ IsFiniteSet({s \in m : Consistent(s)})
  BY <1>1, <1>5, MergedIs, MergedFinite
<1>9. Granted(t)' = {s \in m : Consistent(s)}
  BY <1>6 DEF Granted
<1>10. \A x \in todo'[t] : \E s \in Granted(t)' : UpTo(x, s)
  BY <1>6, <1>8, <1>9, PlanUnder
<1>11. ASSUME NEW i \in DOMAIN Tail(p), i < Len(Tail(p)) PROVE Unlocked(Tail(p)[i])
  <2>1. i + 1 \in DOMAIN p /\ Tail(p)[i] = p[i + 1]
    BY <1>3, TailKeeps
  <2>2. Len(Tail(p)) = Len(p) - 1 /\ Len(p) \in Nat /\ DOMAIN p = 1..Len(p)
        /\ DOMAIN Tail(p) = 1..Len(Tail(p))
    BY <1>3
  <2>3. i + 1 \in 2..(Len(p) - 1)
    BY <1>11, <2>1, <2>2
  <2>4. QED
    BY <2>1, <2>3 DEF NestedOnce
<1>12. NoCtx.lastLock = NoLock
  BY DEF NoCtx
<1>13. pc'[t] \in Locking
  BY <1>6 DEF Locking
<1>14. \A x \in todo'[t] : Placed(x)
  BY <1>6, PlanPlaced
<1>15. QED
  BY <1>6, <1>7, <1>8, <1>9, <1>10, <1>11, <1>12, <1>13, <1>14 DEF OrderOK

(* A stage without consistent subqueries locks nothing.                    *)
LEMMA UnlockedPlan ==
  ASSUME CacheTypes, NEW stage \in Seq(SUBSET Asked), Unlocked(stage), NEW c,
         NEW m, m = mergeQueries(stage, c)
  PROVE  {s \in m : Consistent(s)} = {} /\ LockPlan(m, c) = {}
<1>1. ~HasConsistent(stage)
  BY DEF Unlocked, Sub, HasConsistent
<1>2. \A s \in m : FilledIn(s)
  BY MergedIs
<1>3. ASSUME NEW s \in m PROVE ~Consistent(s)
  <2>1. PICK j \in DOMAIN stage : s \in fillInIDs(buildTrees(stage[j]), data, keys).q
    <3>1. m = UNION {Filled(stage)[j].q : j \in DOMAIN stage}
      BY <1>1 DEF mergeQueries
    <3>2. PICK j \in DOMAIN stage : s \in Filled(stage)[j].q
      BY <3>1
    <3>3. QED
      BY <3>2 DEF Filled, Assembled
  <2>2. stage[j] \in SUBSET Asked /\ \A x \in stage[j] : ~Consistent(x)
    BY DEF Unlocked, Sub
  <2>3. DataOK(data) /\ KeysOK(keys)
    BY DEF CacheTypes, KeysOK
  <2>4. PICK x \in buildTrees(stage[j]) : x.res = s.res /\ x.op = s.op
    BY <2>1, <2>2, <2>3, FilledQuery
  <2>5. x \in stage[j]
    BY <2>2, Trees
  <2>6. QED
    BY <2>2, <2>4, <2>5, Operations
<1>4. NewLocks(m, c) = {} /\ \A s \in m : s.newKey = 0
  <2>1. \A s \in m : s.newKey # 0 => s.op = upsert
    BY <1>2 DEF FilledIn
  <2>2. QED
    BY <1>3, <2>1, Operations DEF NewLocks
<1>5. Firsts(m, c) = {}
  BY <1>4 DEF Firsts, Fresh
<1>6. QED
  BY <1>3, <1>4, <1>5, PlanIs

(* NestedLock.                                                             *)
LEMMA OrderNested ==
  ASSUME IInv, NEW t \in Thread, OrderOK(t), NestedLock(t)
  PROVE  OrderOK(t)'
<1>1. CacheTypes /\ pc[t] = "granted"
  BY DEF NestedLock, IInv
<1>2. rest[t] \in Seq(Seq(SUBSET Asked)) /\ rest[t] # << >>
  BY DEF NestedLock, IInv, ThreadOK, ThreadTypes
<1>3. PICK r \in Seq(Seq(SUBSET Asked)) : r = rest[t]
  BY <1>2
<1>4. rest'[t] = Tail(r) /\ held'[t] = held[t] /\ ctx'[t] = ctx[t]
  BY <1>3 DEF NestedLock, IInv, Shapes
<1>5. /\ r # << >> /\ r[1] = Head(r) /\ Tail(r) \in Seq(Seq(SUBSET Asked))
      /\ Len(Tail(r)) = Len(r) - 1 /\ Len(r) \in Nat
      /\ DOMAIN r = 1..Len(r) /\ DOMAIN Tail(r) = 1..Len(Tail(r))
  BY <1>2, <1>3
<1>6. Locks(t)' = Locks(t)
  BY <1>4 DEF Locks
<1>7. \A i \in DOMAIN r : i < Len(r) => Unlocked(r[i])
  BY <1>3 DEF OrderOK
<1>8. ASSUME NEW i \in DOMAIN Tail(r), i < Len(Tail(r)) PROVE Unlocked(Tail(r)[i])
  <2>1. i + 1 \in DOMAIN r /\ Tail(r)[i] = r[i + 1]
    BY <1>5, TailKeeps
  <2>2. i + 1 < Len(r)
    BY <1>5, <1>8
  <2>3. QED
    BY <1>7, <2>1, <2>2
<1>9. PICK c : c = ctx[t]
  OBVIOUS
<1>10. c.lastLock # NoLock => Orderly(c.lastLock) /\ elem(c.lastLock) \in DOMAIN c.qs
  BY <1>9 DEF OrderOK
<1>11. \A x \in Locks(t) : c.lastLock # NoLock /\ UpTo(x, c.lastLock)
  BY <1>1, <1>2, <1>9, Zenon DEF OrderOK, Active, Locking
<1>12. \A x \in Locks(t) \cup todo[t] : Placed(x)
  BY DEF OrderOK
<1>13. CASE pc'[t] = "unlock" /\ UNCHANGED <<merged, todo>>
  <2>1. pc'[t] \notin Active /\ pc'[t] \notin Locking
    BY <1>13 DEF Active, Locking
  <2>2. Granted(t)' = Granted(t) /\ IsFiniteSet(Granted(t))
    BY <1>13 DEF Granted, OrderOK
  <2>3. QED
    BY <1>4, <1>6, <1>8, <1>9, <1>10, <1>13, <1>12, <2>1, <2>2 DEF OrderOK
<1>14. CASE /\ ~Rejected(Head(rest[t]), ctx[t]) /\ Start(t, Head(rest[t]), ctx[t])
            /\ \A i \in DOMAIN Head(rest[t]) : \A s \in Head(rest[t])[i] : s.newKey = 0
  <2>1. PICK stage \in Seq(SUBSET Asked) : stage = Head(r)
    BY <1>3, <1>5
  <2>2. PICK m : m = mergeQueries(stage, c)
    OBVIOUS
  <2>3. merged'[t] = m /\ todo'[t] = LockPlan(m, c) /\ pc'[t] = "lock"
    BY <1>3, <1>9, <1>14, <2>1, <2>2 DEF Start, IInv, Shapes
  <2>4. Granted(t)' = {s \in m : Consistent(s)}
    BY <2>3 DEF Granted
  <2>5. /\ \A s \in m : FilledIn(s)
        /\ IsFiniteSet({s \in m : Consistent(s)})
        /\ \A s \in m : s.newKey = 0
    <3>1. \A x \in Sub(stage) : x.newKey = 0
      BY <1>3, <1>14, <2>1 DEF Sub
    <3>2. QED
      BY <1>1, <2>2, <3>1, MergedIs, MergedFinite
  <2>6. ASSUME NEW x \in Locks(t), NEW y \in LockPlan(m, c) PROVE LexLess(x.at, y.at)
    <3>1. c.lastLock # NoLock /\ UpTo(x, c.lastLock)
      BY <1>11
    <3>2. Orderly(c.lastLock) /\ elem(c.lastLock) \in DOMAIN c.qs
      BY <1>10, <3>1
    <3>3. ~Rejected(stage, c)
      BY <1>3, <1>9, <1>14, <2>1
    <3>4. ~ \E s \in First(NewLocks(m, c)) : Before(s, c.lastLock)
      BY <2>2, <3>1, <3>3 DEF Rejected
    <3>5. LexLess(Mark(c.lastLock), y.at)
      BY <2>5, <3>2, <3>4, PlanAbove
    <3>6. x.at \in Place /\ y.at \in Place /\ Mark(c.lastLock) \in Place
      <4>1. held[t] \in Seq(Lockable)
        BY DEF IInv, ThreadOK, ThreadTypes
      <4>2. x \in Lockable
        BY <4>1 DEF Locks
      <4>3. y \in Lockable
        BY <2>5, PlanOrdered
      <4>4. QED
        BY <3>2, <4>2, <4>3, MarkPlace DEF Lockable
    <3>7. QED
      BY <3>1, <3>5, <3>6, LexOrder DEF UpTo
  <2>7. ASSUME rest'[t] # << >>
        PROVE  LockPlan(m, c) = {} /\ {s \in m : Consistent(s)} = {}
    <3>1. Len(r) > 1
      BY <1>4, <1>5, <2>7
    <3>2. Unlocked(stage)
      BY <1>5, <1>7, <2>1, <3>1
    <3>3. QED
      BY <1>1, <2>2, <3>2, UnlockedPlan
  <2>8. IsFiniteSet(Granted(t)')
    BY <2>4, <2>5
  <2>9. \A x \in Locks(t) \cup LockPlan(m, c) : Placed(x)
    BY <1>12, PlanPlaced
  <2>10. QED
    BY <1>4, <1>6, <1>8, <1>9, <1>10, <1>11, <2>3, <2>4, <2>6, <2>7, <2>8, <2>9 DEF OrderOK
<1>15. QED
  <2>1. CASE pc' = [pc EXCEPT ![t] = "unlock"] /\ UNCHANGED <<merged, todo>>
    <3>1. pc'[t] = "unlock"
      BY <2>1 DEF IInv, Shapes
    <3>2. QED
      BY <1>13, <2>1, <3>1
  <2>2. QED
    BY <1>14, <2>1 DEF NestedLock

(* The locks are taken in their order.                                     *)
LEMMA OrderTake ==
  ASSUME IInv, NEW t \in Thread, OrderOK(t), Step(t), pc[t] \in {"lock", "pending"},
         todo[t] # {}, Take(t), pc'[t] \in {"lock", "check"}
  PROVE  OrderOK(t)'
<1>1. PICK z : z = Target(t)
  OBVIOUS
<1>2. Locks(t)' = Locks(t) \cup {z} /\ z \in todo[t] /\ todo'[t] = todo[t] \ {z}
  BY <1>1, TakeOK DEF Take, IInv, Shapes
<1>3. \A y \in todo[t] \ {z} : LexLess(z.at, y.at)
  BY <1>1, TargetMember DEF IInv, ThreadOK, ThreadTypes
<1>4. UNCHANGED <<rest, merged, ctx>>
  BY DEF Take
<1>5. Granted(t)' = Granted(t)
  BY <1>4 DEF Granted
<1>6. pc[t] \in Locking /\ pc[t] \in Active /\ pc'[t] \in Locking /\ pc'[t] \in Active
  BY DEF Locking, Active
<1>7. \A x \in Locks(t)', y \in todo'[t] : LexLess(x.at, y.at)
  BY <1>2, <1>3, <1>6 DEF OrderOK
<1>8. (Locks(t) \cup todo[t])' = Locks(t) \cup todo[t]
  BY <1>2
<1>9. QED
  BY <1>4, <1>5, <1>6, <1>7, <1>8 DEF OrderOK

(* The steps that keep the locks and the context.                          *)
LEMMA OrderMoves ==
  ASSUME NEW t \in Thread, OrderOK(t), UNCHANGED <<rest, merged, todo, held, ctx>>,
         \/ pc'[t] \notin Active
         \/ pc[t] \in Locking /\ pc'[t] \in Locking
         \/ pc[t] = "granted" /\ pc'[t] = "granted"
  PROVE  OrderOK(t)'
<1>1. Granted(t)' = Granted(t) /\ Locks(t)' = Locks(t)
  BY DEF Granted, Locks
<1>2. Locking \subseteq Active /\ "granted" \notin Locking
  BY DEF Locking, Active
<1>3. QED
  BY <1>1, <1>2 DEF OrderOK

(* setResults: the last lock of the context is the last of the stage.      *)
LEMMA LastLockIs ==
  ASSUME IInv, NEW t \in Thread, SetResults(t), IsFiniteSet(Granted(t))
  PROVE  /\ Granted(t) = {} => ctx'[t].lastLock = ctx[t].lastLock
         /\ Granted(t) # {} => \E s \in Granted(t) :
              /\ \A y \in Granted(t) : ~Before(s, y)
              /\ ctx'[t].lastLock = [res |-> s.res, op |-> s.op, id |-> s.id]
<1> DEFINE M == Granted(t)
           E == {elem(s) : s \in M}
           a == ctx[t]
           q == [e \in E \cup DOMAIN a.qs |->
                   IF e \in E THEN \A s \in M : elem(s) = e => isWriteOp(s.op) ELSE a.qs[e]]
           g == CHOOSE x \in M : \A y \in M : ~Before(x, y)
           l == IF M = {} THEN a.lastLock ELSE [res |-> g.res, op |-> g.op, id |-> g.id]
<1>1. ctx' = [ctx EXCEPT ![t] = [qs |-> q, lastLock |-> l, root |-> a.root \/ M # {}]]
  BY DEF SetResults, Granted
<1>2. DOMAIN ctx = Thread
  BY DEF IInv, Shapes
<1>3. ctx'[t].lastLock = l
  <2> HIDE DEF q, l, a, M
  <2>1. QED
    BY <1>1, <1>2
<1>4. ASSUME M # {} PROVE g \in M /\ \A y \in M : ~Before(g, y)
  <2>1. \A s \in M : compareSubqueries(s) \in Place
    BY ComparePlace DEF Granted, IInv, ThreadOK, ThreadTypes
  <2> DEFINE R == {p \in M \X M : Before(p[1], p[2])}
  <2>2. \A x, y \in M : <<x, y>> \in R <=> Before(x, y)
    OBVIOUS
  <2> HIDE DEF R, M
  <2>3. \A x \in M : <<x, x>> \notin R
    BY <2>1, <2>2, LexOrder DEF Before
  <2>4. \A x, y, z \in M : <<x, y>> \in R /\ <<y, z>> \in R => <<x, z>> \in R
    BY <2>1, <2>2, LexOrder DEF Before
  <2>5. IsFiniteSet(M)
    BY DEF M
  <2>6. \E x \in M : \A y \in M : <<x, y>> \notin R
    BY <1>4, <2>3, <2>4, <2>5, LastOf
  <2>7. QED
    BY <2>2, <2>6
<1> HIDE DEF g
<1>5. QED
  BY <1>3, <1>4

LEMMA OrderResults ==
  ASSUME IInv, NEW t \in Thread, OrderOK(t), SetResults(t)
  PROVE  OrderOK(t)'
<1>1. /\ pc[t] = "lock" /\ pc'[t] = "granted" /\ todo[t] = {} /\ todo'[t] = {}
      /\ held'[t] = held[t] /\ rest'[t] = rest[t] /\ merged'[t] = {}
  BY DEF SetResults, IInv, Shapes
<1>2. Locks(t)' = Locks(t) /\ Granted(t)' = {}
  BY <1>1 DEF Locks, Granted
<1>3. DOMAIN ctx'[t].qs = {elem(s) : s \in Granted(t)} \cup DOMAIN ctx[t].qs
  BY ResultsAre
<1>4. IsFiniteSet(Granted(t)) /\ IsFiniteSet(Granted(t)')
  BY <1>2, FS_EmptySet DEF OrderOK
<1>5. pc[t] \in Locking /\ pc[t] \in Active /\ pc'[t] \notin Locking
  BY <1>1 DEF Locking, Active
<1>6. PICK l : l = ctx'[t].lastLock
  OBVIOUS
<1>7. CASE Granted(t) = {}
  <2>1. l = ctx[t].lastLock
    BY <1>4, <1>6, <1>7, LastLockIs
  <2>2. QED
    BY <1>1, <1>2, <1>3, <1>4, <1>5, <1>6, <1>7, <2>1 DEF OrderOK
<1>8. CASE Granted(t) # {}
  <2>1. PICK s \in Granted(t) : /\ \A y \in Granted(t) : ~Before(s, y)
                                /\ l = [res |-> s.res, op |-> s.op, id |-> s.id]
    BY <1>4, <1>6, <1>8, LastLockIs
  <2>2. \A y \in Granted(t) : FilledIn(y) /\ Consistent(y)
    BY DEF Granted, IInv, ThreadOK, ThreadTypes
  <2>3. Orderly(l) /\ elem(l) = elem(s) /\ Mark(l) = Mark(s)
    BY <2>1, <2>2 DEF FilledIn, Orderly, elem, Mark
  <2>4. elem(l) \in DOMAIN ctx'[t].qs
    BY <1>3, <2>3
  <2>5. ASSUME rest[t] # << >>, NEW x \in Locks(t) PROVE l # NoLock /\ UpTo(x, l)
    <3>1. PICK y \in Granted(t) : UpTo(x, y)
      BY <1>5, <1>8, <2>5 DEF OrderOK
    <3>2. Orderly(s) /\ Orderly(y)
      BY <2>2, FilledOrderly
    <3>3. Mark(y) = Mark(s) \/ LexLess(Mark(y), Mark(s))
      BY <2>1, <3>2, BeforeMark
    <3>4. x.at \in Place /\ Mark(y) \in Place /\ Mark(s) \in Place
      <4>1. held[t] \in Seq(Lockable)
        BY DEF IInv, ThreadOK, ThreadTypes
      <4>2. x \in Lockable
        BY <4>1 DEF Locks
      <4>3. QED
        BY <3>2, <4>2, MarkPlace DEF Lockable
    <3>5. UpTo(x, l)
      BY <2>3, <3>1, <3>3, <3>4, LexOrder DEF UpTo
    <3>6. l.op # list /\ NoLock.op = list
      BY <2>1, <2>2, Operations DEF NoLock
    <3>7. QED
      BY <3>5, <3>6
  <2>6. QED
    BY <1>1, <1>2, <1>4, <1>5, <1>6, <2>3, <2>4, <2>5 DEF OrderOK
<1>9. QED
  BY <1>7, <1>8

LEMMA OrderUnlocks ==
  ASSUME IInv, NEW t \in Thread, OrderOK(t), Unlock(t)
  PROVE  OrderOK(t)'
<1>1. pc'[t] \notin Active /\ pc'[t] \notin Locking
  BY DEF Unlock, Active, Locking
<1>2. UNCHANGED <<rest, merged, todo, ctx>>
  BY DEF Unlock
<1>3. Locks(t)' \subseteq Locks(t)
  BY UnlockShrinks
<1>4. QED
  BY <1>1, <1>2, <1>3 DEF OrderOK, Granted

LEMMA OrderDone ==
  ASSUME IInv, NEW t \in Thread, Done(t)
  PROVE  OrderOK(t)'
<1>1. /\ rest'[t] = << >> /\ merged'[t] = {} /\ pc'[t] = "idle" /\ ctx'[t] = NoCtx
      /\ held'[t] = << >> /\ todo'[t] = {}
  BY DEF Done, IInv, Shapes
<1>2. Granted(t)' = {} /\ Locks(t)' = {}
  BY <1>1 DEF Granted, Locks
<1>3. pc'[t] \notin Locking /\ ctx'[t].lastLock = NoLock
  BY <1>1 DEF Locking, NoCtx
<1>4. IsFiniteSet(Granted(t)')
  BY <1>2, FS_EmptySet
<1>5. QED
  BY <1>1, <1>2, <1>3, <1>4 DEF OrderOK

LEMMA OrderStep ==
  ASSUME NestedOnce, IInv, [Next]_vars, \A u \in Thread : OrderOK(u)
  PROVE  \A u \in Thread : OrderOK(u)'
<1>1. CASE UNCHANGED vars
  BY <1>1, OrderSame DEF vars, Same
<1>2. ASSUME NEW t \in Thread, Step(t) PROVE \A u \in Thread : OrderOK(u)'
  <2>1. OnlyOf(t)
    BY <1>2, OthersSame
  <2>2. OrderOK(t)'
    <3>1. CASE Lock(t) \/ NestedLock(t)
      BY <3>1, OrderLock, OrderNested
    <3>2. CASE RLock(t)
      BY <1>2, <3>2, OrderTake DEF RLock
    <3>3. CASE WLock(t)
      <4>1. pc'[t] \in {"lock", "check"} /\ todo[t] # {}
        BY <3>3 DEF WLock, IInv, Shapes, ThreadOK, ThreadTypes
      <4>2. QED
        BY <1>2, <3>3, <4>1, OrderTake DEF WLock
    <3>4. CASE Announce(t)
      <4>1. pc[t] = "lock" /\ pc'[t] = "pending"
        BY <3>4 DEF Announce, IInv, Shapes
      <4>2. QED
        BY <3>4, <4>1, OrderMoves DEF Announce, Locking
    <3>5. CASE CheckNewKey(t)
      <4>1. pc[t] = "check" /\ pc'[t] \in {"lock", "unlock"}
        BY <3>5 DEF CheckNewKey, IInv, Shapes
      <4>2. QED
        BY <3>5, <4>1, OrderMoves DEF CheckNewKey, Locking, Active
    <3>6. CASE Cancelled(t) \/ Return(t)
      <4>1. pc'[t] = "unlock"
        BY <3>6 DEF Cancelled, Return, IInv, Shapes
      <4>2. QED
        BY <3>6, <4>1, OrderMoves DEF Cancelled, Return, Active
    <3>7. CASE Create(t) \/ Write(t)
      BY <3>7, OrderMoves DEF Create, Write
    <3>8. CASE SetResults(t) \/ Unlock(t) \/ Done(t)
      BY <3>8, OrderResults, OrderUnlocks, OrderDone
    <3>9. QED
      BY <1>2, <3>1, <3>2, <3>3, <3>4, <3>5, <3>6, <3>7, <3>8 DEF Step
  <2>3. QED
    BY <2>1, <2>2, OrderSame DEF OnlyOf
<1>3. QED
  BY <1>1, <1>2 DEF Next, Step

LEMMA OrderInvariant ==
  ASSUME NestedOnce
  PROVE  Spec => [](IInv /\ \A u \in Thread : OrderOK(u))
<1> DEFINE J == \A u \in Thread : OrderOK(u)
<1>1. Init => J
  BY OrderInit
<1>2. IInv /\ J /\ [Next]_vars => J'
  BY OrderStep
<1>3. QED
  <2> HIDE DEF J
  <2>1. Spec => []J
    BY <1>1, <1>2, Invariant, PTL DEF Spec
  <2>2. QED
    BY <2>1, Invariant, PTL DEF J

(* Theorem: a goroutine asks only for locks after all that it holds, on    *)
(* keys as well as on resources, if its chain of NestedLock calls takes    *)
(* locks in the last one only.                                             *)
THEOREM OrderedAcquisitionHolds ==
  ASSUME NestedOnce
  PROVE  Spec => []OrderedAcquisition
<1>1. ASSUME IInv, \A u \in Thread : OrderOK(u) PROVE OrderedAcquisition
  <2>1. ASSUME NEW t \in Thread, Waiting(t), NEW i \in DOMAIN held[t]
        PROVE  LexLess(held[t][i].at, Target(t).at)
    <3>1. todo[t] \in SUBSET Lockable /\ Apart(todo[t]) /\ todo[t] # {}
      BY <1>1, <2>1 DEF Waiting, IInv, ThreadOK, ThreadTypes
    <3>2. Target(t) \in todo[t]
      BY <3>1, TargetMember
    <3>3. pc[t] \in Locking
      BY <2>1 DEF Waiting, Locking
    <3>4. QED
      BY <1>1, <3>2, <3>3 DEF OrderOK, Locks
  <2>2. QED
    BY <2>1 DEF OrderedAcquisition
<1>2. QED
  BY <1>1, OrderInvariant, PTL

-----------------------------------------------------------------------------
(* Who waits for a key waits for nobody who has put it earlier in its own  *)
(* order: as a new key, which comes before all the resources, or with an   *)
(* object that has or had the name and comes before the one that the       *)
(* waiting goroutine has found under it.                                   *)
Announced(u) == IF pc[u] = "pending" THEN {Target(u)} ELSE {}
KeysAgree ==
  \A t, u \in Thread : Waiting(t) /\ Target(t).lock[1] = "key" =>
    \A x \in Locks(u) \cup Announced(u) :
      x.lock = Target(t).lock => ~LexLess(x.at, Target(t).at)

LEMMA WaitingHas ==
  ASSUME IInv, NEW t \in Thread, OrderOK(t), Waiting(t)
  PROVE  /\ Target(t) \in todo[t] /\ Target(t) \in Lockable /\ Target(t).at \in Place
         /\ Placed(Target(t))
         /\ \A x \in Locks(t) : /\ x \in Lockable /\ x.at \in Place /\ Placed(x)
                                /\ LexLess(x.at, Target(t).at)
<1>1. todo[t] \in SUBSET Lockable /\ Apart(todo[t]) /\ todo[t] # {}
  BY DEF Waiting, IInv, ThreadOK, ThreadTypes
<1>2. Target(t) \in todo[t] /\ Target(t) \in Lockable
  BY <1>1, TargetMember
<1>3. pc[t] \in Locking
  BY DEF Waiting, Locking
<1>4. held[t] \in Seq(Lockable)
  BY DEF IInv, ThreadOK, ThreadTypes
<1>5. \A x \in Locks(t) : x \in Lockable
  BY <1>4 DEF Locks
<1>6. QED
  BY <1>2, <1>3, <1>5 DEF OrderOK, Lockable

(* A goroutine waits for one that is further on in the order, or that has  *)
(* announced itself for the same lock.                                     *)
Ahead(t, u) ==
  \/ LexLess(Target(t).at, Target(u).at)
  \/ Target(t).at = Target(u).at /\ pc[t] = "lock" /\ pc[u] = "pending"

LEMMA BlockerAhead ==
  ASSUME IInv, KeysAgree, NEW t \in Thread, NEW u \in Thread, OrderOK(t), OrderOK(u),
         Waiting(t), Waiting(u), u \in Blockers(t)
  PROVE  Ahead(t, u)
<1>1. PICK z : z = Target(t)
  OBVIOUS
<1>2. PICK v : v = Target(u)
  OBVIOUS
<1>3. z \in Lockable /\ z.at \in Place /\ Placed(z)
  BY <1>1, WaitingHas
<1>4. v \in Lockable /\ v.at \in Place /\ Placed(v)
  BY <1>2, WaitingHas
<1>5. \A x \in Locks(u) : /\ x \in Lockable /\ x.at \in Place /\ Placed(x)
                          /\ LexLess(x.at, v.at)
  BY <1>2, WaitingHas
<1>6. ASSUME NEW x \in Locks(u) \cup Announced(u), x \in Lockable, Placed(x), x.lock = z.lock
      PROVE  ~LexLess(x.at, z.at)
  <2>1. CASE z.lock[1] = "res"
    <3>1. x.at = z.at
      BY <1>3, <1>6, <2>1 DEF Placed
    <3>2. QED
      BY <1>3, <3>1, LexOrder
  <2>2. CASE z.lock[1] = "key"
    BY <1>1, <1>6, <2>2 DEF KeysAgree
  <2>3. QED
    BY <1>3, <2>1, <2>2 DEF Lockable
<1>7. ASSUME NEW x \in Locks(u), x.lock = z.lock PROVE LexLess(z.at, v.at)
  <2>1. ~LexLess(x.at, z.at)
    BY <1>5, <1>6, <1>7
  <2>2. QED
    BY <1>3, <1>4, <1>5, <1>7, <2>1, LexOrder
<1>8. CASE pc[t] = "pending"
  <2>1. \E x \in Locks(u) : x.lock = z.lock
    BY <1>1, <1>8 DEF Blockers, Readers, Holds, Locks
  <2>2. QED
    BY <1>1, <1>2, <1>7, <2>1 DEF Ahead
<1>9. CASE pc[t] # "pending"
  <2>1. pc[t] = "lock"
    BY <1>9 DEF Waiting
  <2>2. (\E x \in Locks(u) : x.lock = z.lock) \/ (pc[u] = "pending" /\ v.lock = z.lock)
    BY <1>1, <1>2, <1>9 DEF Blockers, Writers, Holds, Locks
  <2>3. CASE \E x \in Locks(u) : x.lock = z.lock
    BY <1>1, <1>2, <1>7, <2>3 DEF Ahead
  <2>4. CASE pc[u] = "pending" /\ v.lock = z.lock
    <3>1. v \in Announced(u)
      BY <1>2, <2>4 DEF Announced
    <3>2. ~LexLess(v.at, z.at)
      BY <1>4, <1>6, <2>4, <3>1
    <3>3. z.at = v.at \/ LexLess(z.at, v.at)
      BY <1>3, <1>4, <3>2, LexOrder
    <3>4. QED
      BY <1>1, <1>2, <2>1, <2>4, <3>3 DEF Ahead
  <2>5. QED
    BY <2>2, <2>3, <2>4
<1>10. QED
  BY <1>8, <1>9

(* Theorem: goroutines that wait for one another in a circle do so over a  *)
(* key that one of them waits for at a later place of the order than the   *)
(* one that has it; locks on resources, reads that queue behind an         *)
(* announced write and nested calls never close a circle.                  *)
THEOREM NoDeadlockHolds ==
  ASSUME NestedOnce, IsFiniteSet(Thread)
  PROVE  Spec => [](KeysAgree => NoDeadlock)
<1>1. ASSUME IInv, \A u \in Thread : OrderOK(u), KeysAgree PROVE NoDeadlock
  <2>1. SUFFICES ASSUME NEW S \in (SUBSET Thread) \ {{}},
                        \A t \in S : Waiting(t) /\ Blockers(t) \cap S # {}
                 PROVE  FALSE
    BY DEF NoDeadlock
  <2> DEFINE R == {p \in S \X S : Ahead(p[1], p[2])}
  <2>2. \A t, u \in S : <<t, u>> \in R <=> Ahead(t, u)
    OBVIOUS
  <2> HIDE DEF R
  <2>3. \A t \in S : Target(t).at \in Place
    BY <1>1, <2>1, WaitingHas
  <2>4. \A t \in S : <<t, t>> \notin R
    BY <2>2, <2>3, LexOrder DEF Ahead
  <2>5. \A t, u, v \in S : <<t, u>> \in R /\ <<u, v>> \in R => <<t, v>> \in R
    <3>1. SUFFICES ASSUME NEW t \in S, NEW u \in S, NEW v \in S, Ahead(t, u), Ahead(u, v)
                   PROVE  Ahead(t, v)
      BY <2>2
    <3>2. QED
      BY <2>3, <3>1, LexOrder DEF Ahead
  <2>6. IsFiniteSet(S) /\ S # {}
    BY FS_Subset
  <2>7. PICK t \in S : \A u \in S : <<t, u>> \notin R
    BY <2>4, <2>5, <2>6, LastOf
  <2>8. PICK u \in S : u \in Blockers(t)
    BY <2>1
  <2>9. Ahead(t, u)
    BY <1>1, <2>1, <2>8, BlockerAhead
  <2>10. QED
    BY <2>2, <2>7, <2>9
<1>2. QED
  BY <1>1, OrderInvariant, PTL

-----------------------------------------------------------------------------
(* What fillInIDs makes of the id and the key of a subquery.               *)
LEMMA AddedBlank ==
  ASSUME NEW q \in SUBSET Asked, NEW s \in buildTrees(q) \ q
  PROVE  s.id = 0 /\ s.key = 0 /\ s.newKey = 0 /\ s.op = read
<1>1. \A r : /\ Read(r, 0).id = 0 /\ Read(r, 0).key = 0 /\ Read(r, 0).newKey = 0
             /\ Read(r, 0).op = read
  BY DEF Read, Subquery
<1>2. AddOwners(q) \in SUBSET Asked /\ \A x \in AddOwners(q) \ q : x = Read(x.res, 0)
  BY Round
<1>3. \A x \in AddOwners(AddOwners(q)) \ AddOwners(q) : x = Read(x.res, 0)
  BY <1>2, Round
<1>4. QED
  BY <1>1, <1>2, <1>3 DEF buildTrees

LEMMA FilledAs ==
  ASSUME NEW q0 \in SUBSET Asked, NEW q, q = buildTrees(q0), NEW d, DataOK(d), NEW k,
         NEW s \in fillInIDs(q, d, k).q, s.op # list
  PROVE  \E x \in q :
           /\ x.res = s.res /\ x.op = s.op /\ x.newKey = s.newKey
           /\ x.key = 0 /\ s.key # 0 =>
                s.res \in Keyed /\ elem(s) \in DOMAIN d /\ s.key = d[elem(s)].key
           /\ x.key # 0 => s.key = x.key
           /\ x.key # 0 /\ s.res \in Keyed => s.id \in {x.id, Lookup(k, s.res, x.key)}
           /\ Dependents(q, s.res) = {} /\ s.res \in Keyed =>
                /\ x.key # 0 => s.id = Lookup(k, s.res, x.key)
                /\ x.key = 0 => /\ s.id = x.id
                                /\ elem(s) \in DOMAIN d => s.key = d[elem(s)].key
                                /\ elem(s) \notin DOMAIN d => s.key = 0
<1>1. q \in SUBSET Asked
  BY Trees
<1> DEFINE W == Walk(q, d, k)
           at(r) == [Of(q, r) EXCEPT !.id = W[r].id, !.key = W[r].key,
                       !.dep = [o \in schema[r] \cap Types(q) |-> W[o].id]]
<1>2. fillInIDs(q, d, k).q = {x \in q : x.op = list} \cup {at(r) : r \in Types(q)}
  BY DEF fillInIDs
<1>3. \A r \in Types(q) : W[r] = FillIn(q, d, k, r, Handed(q, d, k, r, W))
  BY <1>1, WalkIs
<1> HIDE DEF W
<1>4. PICK r \in Types(q) : s = at(r)
  <2> DEFINE L == {x \in q : x.op = list}
             T == {at(r) : r \in Types(q)}
  <2>1. s \in L \cup T
    BY <1>2
  <2>2. s \notin L
    OBVIOUS
  <2> HIDE DEF L
  <2>3. s \in T
    BY <2>1, <2>2
  <2> HIDE DEF at
  <2>4. QED
    BY <2>3
<1>5. PICK x : x = Of(q, r)
  OBVIOUS
<1>6. x \in q /\ x \in Asked /\ x.op # list /\ x.res = r
  BY <1>1, <1>5, OfMember
<1>7. IsSubquery(x)
  BY <1>6, AskedFields DEF IsSubquery
<1>8. PICK up : up = Handed(q, d, k, r, W)
  OBVIOUS
<1>9. PICK f : f = FillIn(q, d, k, r, up)
  OBVIOUS
<1>10. W[r] = f
  BY <1>3, <1>8, <1>9
<1>11. /\ s.res = r /\ s.op = x.op /\ s.newKey = x.newKey /\ s.id = f.id /\ s.key = f.key
  <2> DEFINE a == f.id
             b == f.key
             c == [o \in schema[r] \cap Types(q) |-> W[o].id]
  <2> HIDE DEF a, b, c
  <2>1. s = [x EXCEPT !.id = a, !.key = b, !.dep = c]
    BY <1>4, <1>5, <1>10 DEF a, b, c
  <2>2. s = [res |-> x.res, op |-> x.op, id |-> a, key |-> b, newKey |-> x.newKey, dep |-> c]
    BY ONLY <1>7, <2>1 DEF IsSubquery
  <2>3. s.res = x.res /\ s.op = x.op /\ s.newKey = x.newKey /\ s.id = a /\ s.key = b
    BY ONLY <2>2
  <2>4. QED
    BY <1>6, <2>3 DEF a, b
<1> DEFINE from == DOMAIN up
           visited == x.op = inconsistentRead \/ Dependents(q, r) = {} \/ from # {}
           id0 == IF from = {} THEN x.id ELSE up[CHOOSE e \in from : TRUE]
           runs == visited /\ (id0 # 0 \/ x.dep # NoDep \/ x.key # 0)
           keyed == runs /\ r \in Keyed
           id == IF keyed /\ x.key # 0 THEN Lookup(k, r, x.key) ELSE id0
           key == IF keyed /\ x.key = 0 /\ Stored(d, r, id0) THEN d[<<r, id0>>].key ELSE x.key
<1>12. f.id = id /\ f.key = key
  BY <1>5, <1>9 DEF FillIn
<1>13. elem(s) = <<r, id>>
  BY <1>11, <1>12 DEF elem
<1>14. x.key # 0 /\ ~visited => id = x.id
  OBVIOUS
<1>15. x.key # 0 /\ visited /\ r \in Keyed => id = Lookup(k, r, x.key)
  OBVIOUS
<1>16. Dependents(q, r) = {} => visited /\ id0 = x.id
  <2>1. DOMAIN up = From(q, r, W)
    BY <1>8 DEF Handed
  <2>2. QED
    BY <2>1 DEF From
<1>17. Stored(d, r, id0) <=> <<r, id0>> \in DOMAIN d
  BY DEF Stored
<1>18. <<r, id0>> \in DOMAIN d => id0 # 0
  BY DEF DataOK
<1>19. x.key = 0 => id = id0
  OBVIOUS
<1>20. /\ x.key = 0 /\ key # 0 => r \in Keyed /\ <<r, id>> \in DOMAIN d /\ key = d[<<r, id>>].key
       /\ x.key # 0 => key = x.key
  BY <1>17, <1>19
<1>21. ASSUME Dependents(q, r) = {}, r \in Keyed, x.key = 0
       PROVE  /\ id = x.id
              /\ <<r, id>> \in DOMAIN d => key = d[<<r, id>>].key
              /\ <<r, id>> \notin DOMAIN d => key = 0
  BY <1>16, <1>17, <1>18, <1>19, <1>21
<1> HIDE DEF visited, runs, keyed, id, key, id0, from
<1>22. QED
  BY <1>6, <1>11, <1>12, <1>13, <1>14, <1>15, <1>16, <1>20, <1>21

(* The same, for the merged subqueries of a call.                          *)
LEMMA MergedAs ==
  ASSUME CacheTypes, NEW stage \in Seq(SUBSET Asked), NEW c, NEW m, m = mergeQueries(stage, c),
         NEW s \in m, s.op # list, s # Read(root, 1)
  PROVE  \E j \in DOMAIN stage : \E x \in buildTrees(stage[j]) :
           /\ x \in stage[j] \/ (x.id = 0 /\ x.key = 0 /\ x.newKey = 0 /\ x.op = read)
           /\ x.res = s.res /\ x.op = s.op /\ x.newKey = s.newKey
           /\ x.key = 0 /\ s.key # 0 =>
                s.res \in Keyed /\ elem(s) \in DOMAIN data /\ s.key = data[elem(s)].key
           /\ x.key # 0 => s.key = x.key
           /\ x.key # 0 /\ s.res \in Keyed => s.id \in {x.id, Lookup(keys, s.res, x.key)}
           /\ Dependents(buildTrees(stage[j]), s.res) = {} /\ s.res \in Keyed =>
                /\ x.key # 0 => s.id = Lookup(keys, s.res, x.key)
                /\ x.key = 0 => /\ s.id = x.id
                                /\ elem(s) \in DOMAIN data => s.key = data[elem(s)].key
                                /\ elem(s) \notin DOMAIN data => s.key = 0
<1>1. PICK j \in DOMAIN stage : s \in fillInIDs(buildTrees(stage[j]), data, keys).q
  <2> DEFINE R == IF HasConsistent(stage) /\ ~c.root THEN {Read(root, 1)} ELSE {}
             U == {Filled(stage)[j].q : j \in DOMAIN stage}
  <2>1. m = (UNION U) \cup R
    BY DEF mergeQueries
  <2>2. s \notin R
    OBVIOUS
  <2> HIDE DEF R
  <2>3. PICK j \in DOMAIN stage : s \in Filled(stage)[j].q
    BY <2>1, <2>2
  <2>4. QED
    BY <2>3 DEF Filled, Assembled
<1>2. stage[j] \in SUBSET Asked
  OBVIOUS
<1>3. DataOK(data)
  BY DEF CacheTypes
<1>4. PICK q : q = buildTrees(stage[j])
  OBVIOUS
<1>5. \A x \in q : x \in stage[j] \/ (x.id = 0 /\ x.key = 0 /\ x.newKey = 0 /\ x.op = read)
  BY <1>2, <1>4, AddedBlank
<1>6. s \in fillInIDs(q, data, keys).q
  BY <1>1, <1>4
<1>7. PICK x \in q :
        /\ x.res = s.res /\ x.op = s.op /\ x.newKey = s.newKey
        /\ x.key = 0 /\ s.key # 0 =>
             s.res \in Keyed /\ elem(s) \in DOMAIN data /\ s.key = data[elem(s)].key
        /\ x.key # 0 => s.key = x.key
        /\ x.key # 0 /\ s.res \in Keyed => s.id \in {x.id, Lookup(keys, s.res, x.key)}
        /\ Dependents(q, s.res) = {} /\ s.res \in Keyed =>
             /\ x.key # 0 => s.id = Lookup(keys, s.res, x.key)
             /\ x.key = 0 => /\ s.id = x.id
                             /\ elem(s) \in DOMAIN data => s.key = data[elem(s)].key
                             /\ elem(s) \notin DOMAIN data => s.key = 0
  BY <1>2, <1>3, <1>4, <1>6, FilledAs
<1>8. QED
  BY <1>4, <1>5, <1>7

-----------------------------------------------------------------------------
(* A step begins a stage, whose subqueries are in G if those of all the    *)
(* programs are, or goes on with one.                                      *)
Begins(t, stage) ==
  /\ pc[t] \in {"idle", "granted"} /\ pc'[t] = "lock"
  /\ merged'[t] = mergeQueries(stage, ctx[t])
  /\ todo'[t] = LockPlan(mergeQueries(stage, ctx[t]), ctx[t])
  /\ UNCHANGED <<cache, held, closures>>
GoesOn(t) ==
  /\ merged'[t] \subseteq merged[t]
  /\ (Locks(t) \cup todo[t])' \subseteq Locks(t) \cup todo[t]
  /\ closures'[t] \subseteq closures[t] \cup merged[t] \/ Create(t)

LEMMA TakeGoesOn ==
  ASSUME IInv, NEW t \in Thread, Step(t), pc[t] \in {"lock", "pending"}, todo[t] # {}, Take(t),
         pc'[t] \in {"lock", "check"}
  PROVE  GoesOn(t)
<1>1. PICK z : z = Target(t)
  OBVIOUS
<1>2. Locks(t)' = Locks(t) \cup {z} /\ z \in todo[t] /\ todo'[t] = todo[t] \ {z}
  BY <1>1, TakeOK DEF Take, IInv, Shapes
<1>3. UNCHANGED <<merged, closures>>
  BY DEF Take
<1>4. QED
  BY <1>2, <1>3 DEF GoesOn

LEMMA StepIs ==
  ASSUME IInv, NEW t \in Thread, Step(t), NEW G,
         \A p \in Program[t] : \A i \in DOMAIN p : p[i] \in G,
         \A i \in DOMAIN rest[t] : rest[t][i] \in G
  PROVE  /\ \A i \in DOMAIN rest'[t] : rest'[t][i] \in G
         /\ GoesOn(t) \/ \E stage \in G \cap Seq(SUBSET Asked) : Begins(t, stage)
<1>1. CASE Lock(t)
  <2>1. PICK p \in Program[t] : /\ ~Rejected(p[1], NoCtx) /\ Start(t, p[1], NoCtx)
                                /\ rest' = [rest EXCEPT ![t] = Tail(p)]
    BY <1>1 DEF Lock
  <2>2. p \in Seq(Seq(SUBSET Asked)) /\ p # << >>
    BY ProgramAssumption
  <2>3. p[1] \in Seq(SUBSET Asked) /\ 1 \in DOMAIN p
    BY <2>2
  <2>4. rest'[t] = Tail(p) /\ ctx[t] = NoCtx
    BY <1>1, <2>1 DEF Lock, IInv, Shapes, ThreadOK, ThreadTypes
  <2>5. Begins(t, p[1])
    BY <1>1, <2>1, <2>4 DEF Lock, Start, Begins, IInv, Shapes
  <2>6. \A i \in DOMAIN Tail(p) : Tail(p)[i] \in G
    BY <2>2, TailKeeps
  <2>7. QED
    BY <2>3, <2>4, <2>5, <2>6
<1>2. CASE NestedLock(t)
  <2>1. PICK r \in Seq(Seq(SUBSET Asked)) : r = rest[t]
    BY DEF IInv, ThreadOK, ThreadTypes
  <2>2. r # << >> /\ rest'[t] = Tail(r)
    BY <1>2, <2>1 DEF NestedLock, IInv, Shapes
  <2>3. Head(r) \in Seq(SUBSET Asked) /\ 1 \in DOMAIN r /\ Head(r) = r[1]
    BY <2>1, <2>2
  <2>4. \A i \in DOMAIN Tail(r) : Tail(r)[i] \in G
    BY <2>1, <2>2, TailKeeps
  <2>5. CASE UNCHANGED <<merged, todo>>
    <3>1. UNCHANGED <<held, closures>>
      BY <1>2 DEF NestedLock
    <3>2. GoesOn(t)
      BY <2>5, <3>1 DEF GoesOn, Locks
    <3>3. QED
      BY <2>2, <2>4, <3>2
  <2>6. CASE Start(t, Head(rest[t]), ctx[t])
    <3>1. PICK stage \in Seq(SUBSET Asked) : stage = Head(r)
      BY <2>3
    <3>2. Begins(t, stage)
      BY <1>2, <2>1, <2>6, <3>1 DEF NestedLock, Start, Begins, IInv, Shapes
    <3>3. stage \in G
      BY <2>1, <2>3, <3>1
    <3>4. QED
      BY <2>2, <2>4, <3>2, <3>3
  <2>7. QED
    BY <1>2, <2>5, <2>6 DEF NestedLock
<1>3. CASE RLock(t) \/ WLock(t)
  <2>1. rest' = rest
    BY <1>3 DEF RLock, WLock, Take
  <2>2. CASE RLock(t)
    BY <2>1, <2>2, TakeGoesOn DEF RLock
  <2>3. CASE WLock(t)
    <3>1. pc'[t] \in {"lock", "check"} /\ todo[t] # {}
      BY <2>3 DEF WLock, IInv, Shapes, ThreadOK, ThreadTypes
    <3>2. QED
      BY <2>1, <2>3, <3>1, TakeGoesOn DEF WLock
  <2>4. QED
    BY <1>3, <2>2, <2>3
<1>4. CASE Announce(t) \/ CheckNewKey(t) \/ Cancelled(t) \/ Return(t)
  <2>1. UNCHANGED <<rest, merged, todo, held, closures>>
    BY <1>4 DEF Announce, CheckNewKey, Cancelled, Return
  <2>2. QED
    BY <2>1 DEF GoesOn, Locks
<1>5. CASE SetResults(t)
  <2>1. closures'[t] = closures[t] \cup HandedOut(t)
    BY <1>5, ResultsAre
  <2>2. merged'[t] = {} /\ UNCHANGED <<rest, todo, held>>
    BY <1>5 DEF SetResults, IInv, Shapes
  <2>3. HandedOut(t) \subseteq merged[t]
    BY DEF HandedOut, Granted
  <2>4. QED
    BY <2>1, <2>2, <2>3 DEF GoesOn, Locks
<1>6. CASE Create(t)
  BY <1>6 DEF Create, GoesOn, Locks
<1>7. CASE Write(t)
  <2>1. UNCHANGED <<rest, merged, todo, held>> /\ closures'[t] \subseteq closures[t]
    BY <1>7 DEF Write, IInv, Shapes
  <2>2. QED
    BY <2>1 DEF GoesOn, Locks
<1>8. CASE Unlock(t)
  <2>1. UNCHANGED <<rest, merged, todo, closures>>
    BY <1>8 DEF Unlock
  <2>2. Locks(t)' \subseteq Locks(t)
    BY <1>8, UnlockShrinks
  <2>3. QED
    BY <2>1, <2>2 DEF GoesOn
<1>9. CASE Done(t)
  <2>1. /\ rest'[t] = << >> /\ merged'[t] = {} /\ todo'[t] = {} /\ closures'[t] = {}
        /\ held' = held
    BY <1>9 DEF Done, IInv, Shapes
  <2>2. QED
    BY <2>1 DEF GoesOn, Locks
<1>10. QED
  BY <1>1, <1>2, <1>3, <1>4, <1>5, <1>6, <1>7, <1>8, <1>9 DEF Step

-----------------------------------------------------------------------------
(* Where nothing gets a new name, a key belongs to one object for good.    *)
NameOf(e) == IF e \in DOMAIN Cached THEN Cached[e].key ELSE e[2]
Known(e, k) == k = NameOf(e) /\ (e[1] \in allowBlankID => e \in DOMAIN Cached)
NamesKnown ==
  /\ uuids = {}
  /\ \A e \in DOMAIN data : e[1] \in Keyed => Known(e, data[e].key)
  /\ \A k \in DOMAIN keys : k[1] \in allowBlankID /\ Known(<<k[1], keys[k]>>, k[2])
SubKnown(s) ==
  s.op # list =>
    /\ s.newKey = 0 /\ s.op # create
    /\ s.key # 0 => s.res \in Keyed /\ (s.id # 0 => Known(elem(s), s.key))
LockKnown(x) ==
  x.lock[1] = "key" => \E r \in Keyed, i \in Nat \ {0} :
    /\ x.lock = <<"key", r, NameOf(<<r, i>>)>> /\ x.at = <<1 + resourceRanks[r], r, i, 0>>
    /\ r \in allowBlankID => <<r, i>> \in DOMAIN Cached
PlainStage == {stage \in Seq(SUBSET Asked) : \A s \in Sub(stage) : Plain(s)}
ThreadKnown(t) ==
  /\ \A i \in DOMAIN rest[t] : rest[t][i] \in PlainStage
  /\ \A s \in merged[t] \cup closures[t] : SubKnown(s)
  /\ \A x \in Locks(t) \cup todo[t] : LockKnown(x)

LEMMA MergedKnown ==
  ASSUME CacheTypes, NamesKnown, NEW stage \in PlainStage, NEW c,
         NEW m, m = mergeQueries(stage, c), NEW s \in m
  PROVE  SubKnown(s)
<1>1. stage \in Seq(SUBSET Asked) /\ \A x \in Sub(stage) : Plain(x)
  BY DEF PlainStage
<1>2. FilledIn(s)
  BY <1>1, MergedIs
<1>3. CASE s = Read(root, 1)
  <2>1. s.newKey = 0 /\ s.key = 0 /\ s.op = read
    BY <1>3 DEF Read, Subquery
  <2>2. QED
    BY <2>1, Operations DEF SubKnown
<1>4. CASE s # Read(root, 1) /\ s.op # list
  <2>1. PICK j \in DOMAIN stage : \E x \in buildTrees(stage[j]) :
          /\ x \in stage[j] \/ (x.id = 0 /\ x.key = 0 /\ x.newKey = 0 /\ x.op = read)
          /\ x.res = s.res /\ x.op = s.op /\ x.newKey = s.newKey
          /\ x.key = 0 /\ s.key # 0 =>
               s.res \in Keyed /\ elem(s) \in DOMAIN data /\ s.key = data[elem(s)].key
          /\ x.key # 0 => s.key = x.key
          /\ x.key # 0 /\ s.res \in Keyed => s.id \in {x.id, Lookup(keys, s.res, x.key)}
    BY <1>1, <1>4, MergedAs
  <2>2. PICK x \in buildTrees(stage[j]) :
          /\ x \in stage[j] \/ (x.id = 0 /\ x.key = 0 /\ x.newKey = 0 /\ x.op = read)
          /\ x.res = s.res /\ x.op = s.op /\ x.newKey = s.newKey
          /\ x.key = 0 /\ s.key # 0 =>
               s.res \in Keyed /\ elem(s) \in DOMAIN data /\ s.key = data[elem(s)].key
          /\ x.key # 0 => s.key = x.key
          /\ x.key # 0 /\ s.res \in Keyed => s.id \in {x.id, Lookup(keys, s.res, x.key)}
    BY <2>1
  <2>3. Plain(x)
    <3>1. stage[j] \subseteq Sub(stage)
      BY DEF Sub
    <3>2. QED
      BY <1>1, <2>2, <3>1 DEF Plain
  <2>4. s.newKey = 0 /\ s.op # create
    BY <1>2, <2>2, <2>3, Operations DEF Plain, FilledIn
  <2>5. elem(s) = <<s.res, s.id>> /\ elem(s)[1] = s.res
    BY DEF elem
  <2>6. CASE x.key # 0 /\ s.id # 0
    <3>1. x.id = 0 /\ s.res \in Keyed
      BY <2>2, <2>3, <2>6 DEF Plain
    <3>2. s.id = Lookup(keys, s.res, s.key) /\ s.id # 0
      BY <2>2, <2>6, <3>1
    <3>3. <<s.res, s.key>> \in DOMAIN keys /\ keys[<<s.res, s.key>>] = s.id
      BY <3>2 DEF Lookup
    <3>4. Known(elem(s), s.key)
      BY <2>5, <3>3 DEF NamesKnown
    <3>5. QED
      BY <2>4, <3>1, <3>4 DEF SubKnown
  <2>7. CASE x.key # 0 /\ s.id = 0
    BY <2>2, <2>3, <2>4, <2>7 DEF SubKnown, Plain
  <2>8. CASE x.key = 0
    BY <2>2, <2>4, <2>5, <2>8 DEF SubKnown, NamesKnown
  <2>9. QED
    BY <2>6, <2>7, <2>8
<1>5. QED
  BY <1>3, <1>4 DEF SubKnown

LEMMA PlanKnown ==
  ASSUME NEW m, NEW c, \A s \in m : FilledIn(s) /\ SubKnown(s), NEW x \in LockPlan(m, c)
  PROVE  LockKnown(x)
<1>1. \A s \in m : s.newKey = 0
  BY Operations DEF SubKnown, FilledIn
<1>2. \/ \E s \in Firsts(m, c) : s.key # 0 /\ x = KeyLock(s)
      \/ \E s \in Firsts(m, c) : x = ResLock(s)
  BY <1>1, PlanIs
<1>3. \A s : ResLock(s).lock[1] = "res"
  BY DEF ResLock
<1>4. ASSUME NEW s \in Firsts(m, c), s.key # 0, x = KeyLock(s) PROVE LockKnown(x)
  <2>1. s \in m /\ FilledIn(s) /\ Consistent(s) /\ s.id # 0
    BY FirstsAre
  <2>2. s.op # list /\ s.id \in Nat \ {0}
    BY <2>1, Operations DEF FilledIn
  <2>3. s.res \in Keyed /\ Known(<<s.res, s.id>>, s.key)
    BY <1>4, <2>1, <2>2 DEF SubKnown, elem
  <2>4. s.key = NameOf(<<s.res, s.id>>)
        /\ (s.res \in allowBlankID => <<s.res, s.id>> \in DOMAIN Cached)
    BY <2>3 DEF Known
  <2>5. x.lock = <<"key", s.res, s.key>> /\ x.at = <<1 + resourceRanks[s.res], s.res, s.id, 0>>
    BY <1>4 DEF KeyLock
  <2>6. QED
    BY <2>2, <2>3, <2>4, <2>5 DEF LockKnown
<1>5. QED
  BY <1>2, <1>3, <1>4 DEF LockKnown

LEMMA ThreadKnownStep ==
  ASSUME Settled, IInv, NamesKnown, NEW t \in Thread, ThreadKnown(t), Step(t)
  PROVE  ThreadKnown(t)'
<1>1. \A p \in Program[t] : \A i \in DOMAIN p : p[i] \in PlainStage
  <2>1. SUFFICES ASSUME NEW p \in Program[t], NEW i \in DOMAIN p PROVE p[i] \in PlainStage
    OBVIOUS
  <2>2. p[i] \in Seq(SUBSET Asked)
    BY ProgramAssumption
  <2>3. QED
    BY <2>2 DEF Settled, PlainStage
<1>2. \A i \in DOMAIN rest[t] : rest[t][i] \in PlainStage
  BY DEF ThreadKnown
<1>3. /\ \A i \in DOMAIN rest'[t] : rest'[t][i] \in PlainStage
      /\ GoesOn(t) \/ \E stage \in PlainStage \cap Seq(SUBSET Asked) : Begins(t, stage)
  BY <1>1, <1>2, StepIs
<1>4. CASE GoesOn(t)
  <2>1. ~Create(t)
    BY DEF Create, NamesKnown
  <2>2. QED
    BY <1>3, <1>4, <2>1 DEF GoesOn, ThreadKnown
<1>5. ASSUME NEW stage \in PlainStage, stage \in Seq(SUBSET Asked), Begins(t, stage)
      PROVE  ThreadKnown(t)'
  <2>1. PICK c : c = ctx[t]
    OBVIOUS
  <2>2. PICK m : m = mergeQueries(stage, c)
    OBVIOUS
  <2>3. merged'[t] = m /\ todo'[t] = LockPlan(m, c) /\ UNCHANGED <<held, closures>>
    BY <1>5, <2>1, <2>2 DEF Begins
  <2>4. \A s \in m : FilledIn(s) /\ SubKnown(s)
    BY <1>5, <2>2, MergedIs, MergedKnown DEF IInv
  <2>5. \A x \in todo'[t] : LockKnown(x)
    BY <2>3, <2>4, PlanKnown
  <2>6. Locks(t)' = Locks(t)
    BY <2>3 DEF Locks
  <2>7. QED
    BY <1>3, <2>3, <2>4, <2>5, <2>6 DEF ThreadKnown
<1>6. QED
  BY <1>3, <1>4, <1>5

LEMMA NamesKnownStep ==
  ASSUME Settled, IInv, NamesKnown, NEW t \in Thread, ThreadKnown(t), Step(t)
  PROVE  NamesKnown'
<1>1. ~Create(t)
  BY DEF Create, NamesKnown
<1>2. CASE UNCHANGED cache
  BY <1>2 DEF cache, NamesKnown
<1>3. CASE Write(t)
  <2>1. PICK s \in closures[t] :
          s.id # 0 /\ IF s.op = del THEN DeleteClosure(t, s) ELSE UpsertClosure(s)
    BY <1>3 DEF Write
  <2>2. Closure(s) /\ SubKnown(s)
    BY DEF IInv, ThreadOK, ThreadTypes, ThreadKnown
  <2>3. s.newKey = 0 /\ s.op # create /\ s.id \in Nat \ {0} /\ s.key \in Nat
        /\ (s.key # 0 => s.res \in Keyed /\ Known(elem(s), s.key))
    BY <2>1, <2>2, Operations DEF SubKnown, Closure
  <2>4. uuids' = {}
    BY <1>3 DEF Write, NamesKnown
  <2>5. elem(s) = <<s.res, s.id>> /\ elem(s)[1] = s.res /\ elem(s)[2] = s.id
    BY DEF elem
  <2>6. CASE s.op = del
    <3>1. /\ data' = Without(data, elem(s))
          /\ keys' = keys \/ keys' = Without(keys, <<s.res, s.key>>)
      BY <2>1, <2>6 DEF DeleteClosure
    <3>2. \A e \in DOMAIN data' : e \in DOMAIN data /\ data'[e] = data[e]
      BY <3>1, WithoutIs
    <3>3. PICK n : n = <<s.res, s.key>>
      OBVIOUS
    <3>4. \A k \in DOMAIN Without(keys, n) : k \in DOMAIN keys /\ Without(keys, n)[k] = keys[k]
      BY WithoutIs
    <3>5. \A k \in DOMAIN keys' : k \in DOMAIN keys /\ keys'[k] = keys[k]
      BY <3>1, <3>3, <3>4
    <3>6. QED
      BY <2>4, <3>2, <3>5 DEF NamesKnown
  <2>7. CASE s.op # del
    <3> DEFINE z == CASE s.newKey # 0 -> s.newKey
                      [] s.newKey = 0 /\ Current(s) -> data[elem(s)].key
                      [] s.newKey = 0 /\ ~Current(s) /\ s.key # 0 -> s.key
                      [] OTHER -> IF s.res \in Keyed THEN s.id ELSE 0
               x == [key |-> z, own |-> s.dep,
                     v |-> IF Current(s) THEN 1 - data[elem(s)].v ELSE 0]
    <3>1. CanUpsert(s) /\ keys' = UpsertKeys(s) /\ data' = Put(data, elem(s), x)
      BY <2>1, <2>7 DEF UpsertClosure
    <3>2. s.res \in allowBlankID => Current(s)
      BY <2>3, <3>1 DEF CanUpsert
    <3>3. Current(s) <=> elem(s) \in DOMAIN data
      BY DEF Current, Stored, elem
    <3>4. s.res \in Keyed => Known(elem(s), z)
      <4>1. CASE Current(s)
        <5>1. z = data[elem(s)].key
          BY <2>3, <4>1
        <5>2. QED
          BY <2>5, <3>3, <4>1, <5>1 DEF NamesKnown
      <4>2. CASE ~Current(s) /\ s.key # 0
        <5>1. z = s.key
          BY <2>3, <4>2
        <5>2. QED
          BY <2>3, <4>2, <5>1
      <4>3. CASE ~Current(s) /\ s.key = 0 /\ s.res \in Keyed
        <5>1. z = s.id
          BY <2>3, <4>3
        <5>2. s.res = volume /\ s.res \notin allowBlankID
          BY <3>2, <4>3, Constants DEF Keyed, allowBlankID
        <5>3. elem(s) \in DOMAIN Cached => Cached[elem(s)].key = s.id
          BY <2>5, <5>2 DEF Settled
        <5>4. QED
          BY <2>5, <5>1, <5>2, <5>3 DEF Known, NameOf
      <4>4. QED
        BY <4>1, <4>2, <4>3
    <3>5. x.key = z
      OBVIOUS
    <3> HIDE DEF x, z
    <3>6. /\ DOMAIN data' = DOMAIN data \cup {elem(s)} /\ data'[elem(s)] = x
          /\ \A e \in DOMAIN data : e # elem(s) => data'[e] = data[e]
      BY <3>1 DEF Put
    <3>7. \A e \in DOMAIN data' : e[1] \in Keyed => Known(e, data'[e].key)
      BY <2>5, <3>4, <3>5, <3>6 DEF NamesKnown
    <3>8. \A k \in DOMAIN keys' : k[1] \in allowBlankID /\ Known(<<k[1], keys'[k]>>, k[2])
      <4>1. CASE s.res \notin Keyed \/ s.res = volume \/ s.key = 0
        <5>1. keys' = keys
          BY <2>3, <3>1, <4>1 DEF UpsertKeys
        <5>2. QED
          BY <5>1 DEF NamesKnown
      <4>2. CASE s.res \in Keyed /\ s.res # volume /\ s.key # 0
        <5>1. keys' = Put(keys, <<s.res, s.key>>, s.id)
          BY <2>3, <3>1, <4>2 DEF UpsertKeys
        <5>2. /\ DOMAIN keys' = DOMAIN keys \cup {<<s.res, s.key>>}
              /\ keys'[<<s.res, s.key>>] = s.id
              /\ \A k \in DOMAIN keys : k # <<s.res, s.key>> => keys'[k] = keys[k]
          BY <5>1 DEF Put
        <5>3. s.res \in allowBlankID
          BY <4>2 DEF Keyed, allowBlankID
        <5>4. QED
          BY <2>3, <2>5, <4>2, <5>2, <5>3 DEF NamesKnown
      <4>3. QED
        BY <4>1, <4>2
    <3>9. QED
      BY <2>4, <3>7, <3>8 DEF NamesKnown
  <2>8. QED
    BY <2>6, <2>7
<1>4. QED
  BY <1>1, <1>2, <1>3, OnlyWrites

LEMMA KnownStep ==
  ASSUME Settled, IInv, [Next]_vars, NamesKnown, \A u \in Thread : ThreadKnown(u)
  PROVE  NamesKnown' /\ \A u \in Thread : ThreadKnown(u)'
<1>1. \A u : Same(u) /\ ThreadKnown(u) => ThreadKnown(u)'
  BY DEF Same, ThreadKnown, Locks
<1>2. CASE UNCHANGED vars
  <2>1. \A u : Same(u)
    BY <1>2 DEF vars, Same
  <2>2. NamesKnown'
    BY <1>2 DEF vars, NamesKnown
  <2>3. QED
    BY <1>1, <2>1, <2>2
<1>3. ASSUME NEW t \in Thread, Step(t) PROVE NamesKnown' /\ \A u \in Thread : ThreadKnown(u)'
  <2>1. OnlyOf(t)
    BY <1>3, OthersSame
  <2>2. ThreadKnown(t)' /\ NamesKnown'
    BY <1>3, ThreadKnownStep, NamesKnownStep
  <2>3. QED
    BY <1>1, <2>1, <2>2 DEF OnlyOf
<1>4. QED
  BY <1>2, <1>3 DEF Next, Step

LEMMA KnownInit ==
  ASSUME Settled, Init
  PROVE  NamesKnown /\ \A u \in Thread : ThreadKnown(u)
<1>1. uuids = {}
  BY DEF Init, Settled
<1>2. \A e \in DOMAIN data : e \in DOMAIN Cached /\ Known(e, data[e].key)
  BY DEF Init, Known, NameOf
<1>3. ASSUME NEW k \in DOMAIN keys
      PROVE  k[1] \in allowBlankID /\ Known(<<k[1], keys[k]>>, k[2])
  <2> DEFINE S == {x \in DOMAIN Cached : x[1] \in Keyed \ {volume}}
             who(n) == CHOOSE e \in DOMAIN Cached : e[1] = n[1] /\ Cached[e].key = n[2]
  <2>1. keys = [n \in {<<e[1], Cached[e].key>> : e \in S} |-> who(n)[2]]
    BY DEF Init
  <2>2. PICK e \in S : k = <<e[1], Cached[e].key>>
    BY <2>1
  <2>3. keys[k] = who(k)[2]
    <3> HIDE DEF who
    <3>1. QED
      BY <2>1
  <2>4. who(k) \in DOMAIN Cached /\ who(k)[1] = k[1] /\ Cached[who(k)].key = k[2]
    BY <2>2
  <2> HIDE DEF who
  <2>5. who(k) = <<k[1], keys[k]>>
    BY <2>3, <2>4, CachedAssumption
  <2>6. k[1] \in allowBlankID
    BY <2>2 DEF Keyed, allowBlankID
  <2>7. QED
    BY <2>4, <2>5, <2>6 DEF Known, NameOf
<1>4. ASSUME NEW u \in Thread PROVE ThreadKnown(u)
  <2>1. rest[u] = << >> /\ merged[u] = {} /\ closures[u] = {} /\ held[u] = << >> /\ todo[u] = {}
    BY DEF Init
  <2>2. Locks(u) = {}
    BY <2>1 DEF Locks
  <2>3. QED
    BY <2>1, <2>2 DEF ThreadKnown
<1>5. QED
  BY <1>1, <1>2, <1>3, <1>4 DEF NamesKnown

(* Theorem: without creations, renames and imports nothing deadlocks:      *)
(* updates and deletions of backends and volumes, by id and by name, and   *)
(* the chains of UpdateBackend, however many goroutines run them.          *)
THEOREM NoDeadlockSettled ==
  ASSUME Settled, NestedOnce, IsFiniteSet(Thread)
  PROVE  Spec => []NoDeadlock
<1>1. ASSUME IInv, \A u \in Thread : ThreadKnown(u) PROVE KeysAgree
  <2>1. SUFFICES ASSUME NEW t \in Thread, NEW u \in Thread,
                        Waiting(t), Target(t).lock[1] = "key",
                        NEW x \in Locks(u) \cup Announced(u), x.lock = Target(t).lock
                 PROVE  ~LexLess(x.at, Target(t).at)
    BY DEF KeysAgree
  <2>2. \A v \in Thread : todo[v] # {} => Target(v) \in todo[v] /\ Target(v) \in Lockable
    BY <1>1, TargetMember DEF IInv, ThreadOK, ThreadTypes
  <2>3. PICK z : z = Target(t)
    OBVIOUS
  <2>4. z \in todo[t] /\ z \in Lockable
    BY <1>1, <2>1, <2>2, <2>3 DEF Waiting, IInv, ThreadOK, ThreadTypes
  <2>5. x \in Locks(u) \cup todo[u]
    BY <1>1, <2>1, <2>2 DEF Announced, IInv, ThreadOK, ThreadTypes
  <2>6. LockKnown(x) /\ LockKnown(z) /\ x.lock = z.lock /\ z.lock[1] = "key"
    BY <1>1, <2>1, <2>3, <2>4, <2>5 DEF ThreadKnown
  <2>7. PICK r \in Keyed, i \in Nat \ {0} :
          /\ x.lock = <<"key", r, NameOf(<<r, i>>)>> /\ x.at = <<1 + resourceRanks[r], r, i, 0>>
          /\ r \in allowBlankID => <<r, i>> \in DOMAIN Cached
    BY <2>6 DEF LockKnown
  <2>8. PICK q \in Keyed, j \in Nat \ {0} :
          /\ z.lock = <<"key", q, NameOf(<<q, j>>)>> /\ z.at = <<1 + resourceRanks[q], q, j, 0>>
          /\ q \in allowBlankID => <<q, j>> \in DOMAIN Cached
    BY <2>6 DEF LockKnown
  <2>9. r = q /\ NameOf(<<r, i>>) = NameOf(<<r, j>>)
    <3>1. PICK a, b : a = NameOf(<<r, i>>) /\ b = NameOf(<<q, j>>)
      OBVIOUS
    <3>2. <<"key", r, a>> = <<"key", q, b>>
      BY <2>6, <2>7, <2>8, <3>1
    <3>3. r = q /\ a = b
      BY <3>2
    <3>4. QED
      BY <3>1, <3>3
  <2>10. i = j
    <3>1. CASE r \in allowBlankID
      <4>1. Cached[<<r, i>>].key = Cached[<<r, j>>].key
        BY <2>7, <2>8, <2>9, <3>1 DEF NameOf
      <4>2. <<r, i>> = <<r, j>>
        BY <2>7, <2>8, <2>9, <3>1, <4>1 DEF Settled, Unique
      <4>3. QED
        BY <4>2
    <3>2. CASE r \notin allowBlankID
      <4>1. r = volume
        BY <3>2 DEF Keyed, allowBlankID
      <4>2. \A n \in Nat : NameOf(<<r, n>>) = n
        BY <4>1 DEF Settled, NameOf
      <4>3. QED
        BY <2>9, <4>2
    <3>3. QED
      BY <3>1, <3>2
  <2>11. x.at = z.at /\ z.at \in Place
    BY <2>4, <2>7, <2>8, <2>9, <2>10 DEF Lockable
  <2>12. QED
    BY <2>3, <2>11, LexOrder
<1> DEFINE K == NamesKnown /\ \A u \in Thread : ThreadKnown(u)
<1>2. Init => K
  BY KnownInit
<1>3. IInv /\ K /\ [Next]_vars => K'
  BY KnownStep
<1>4. IInv /\ K => KeysAgree
  BY <1>1
<1> HIDE DEF K
<1>5. QED
  BY <1>2, <1>3, <1>4, Invariant, NoDeadlockHolds, PTL DEF Spec

-----------------------------------------------------------------------------
(* The names of backends and object stores.                                *)
LEMMA LookupPut ==
  ASSUME NEW f, NEW r, NEW k, NEW i, NEW q, NEW n
  PROVE  Lookup(Put(f, <<r, k>>, i), q, n) = IF q = r /\ n = k THEN i ELSE Lookup(f, q, n)
<1> DEFINE g == Put(f, <<r, k>>, i)
<1>1. /\ DOMAIN g = DOMAIN f \cup {<<r, k>>} /\ g[<<r, k>>] = i
      /\ \A y \in DOMAIN f : y # <<r, k>> => g[y] = f[y]
  BY DEF Put
<1> HIDE DEF g
<1>2. <<q, n>> = <<r, k>> <=> q = r /\ n = k
  OBVIOUS
<1>3. Lookup(g, q, n) = IF q = r /\ n = k THEN i ELSE Lookup(f, q, n)
  BY <1>1, <1>2 DEF Lookup
<1>4. QED
  BY <1>3 DEF g

LEMMA LookupWithout ==
  ASSUME NEW f, NEW r, NEW k, NEW q, NEW n
  PROVE  Lookup(Without(f, <<r, k>>), q, n) = IF q = r /\ n = k THEN 0 ELSE Lookup(f, q, n)
<1> DEFINE g == Without(f, <<r, k>>)
<1>1. DOMAIN g = DOMAIN f \ {<<r, k>>} /\ \A y \in DOMAIN f : y # <<r, k>> => g[y] = f[y]
  BY WithoutIs
<1> HIDE DEF g
<1>2. <<q, n>> = <<r, k>> <=> q = r /\ n = k
  OBVIOUS
<1>3. Lookup(g, q, n) = IF q = r /\ n = k THEN 0 ELSE Lookup(f, q, n)
  BY <1>1, <1>2 DEF Lookup
<1>4. QED
  BY <1>3 DEF g

(* KeysSound in terms of Lookup.                                           *)
Sound ==
  /\ \A e \in DOMAIN data : e[1] \in allowBlankID => Lookup(keys, e[1], data[e].key) = e[2]
  /\ \A r \in allowBlankID : \A k : Lookup(keys, r, k) # 0 =>
       /\ <<r, Lookup(keys, r, k)>> \in DOMAIN data
       /\ data[<<r, Lookup(keys, r, k)>>].key = k

LEMMA SoundIs ==
  ASSUME CacheTypes
  PROVE  Sound => KeysSound
<1>1. ASSUME Sound, NEW k \in DOMAIN keys, k[1] \in allowBlankID
      PROVE  Stored(data, k[1], keys[k]) /\ data[<<k[1], keys[k]>>].key = k[2]
  <2>1. k = <<k[1], k[2]>> /\ keys[k] # 0
    BY <1>1 DEF CacheTypes
  <2>2. Lookup(keys, k[1], k[2]) = keys[k]
    BY <1>1, <2>1 DEF Lookup
  <2>3. QED
    BY <1>1, <2>1, <2>2 DEF Sound, Stored
<1>2. Sound => \A e \in {x \in DOMAIN data : x[1] \in allowBlankID} :
                 Lookup(keys, e[1], data[e].key) = e[2]
  BY DEF Sound
<1>3. QED
  BY <1>1, <1>2 DEF KeysSound

(* The writes of backends that are under way.  A goroutine has looked up   *)
(* the name it writes before it waits for its locks, and a backend without *)
(* an id has no lock, not even on its name.                                *)
Writing(t) ==
  {s \in closures[t] \cup merged[t] : /\ pc[t] \notin {"idle", "unlock"}
                                    /\ isWriteOp(s.op) /\ s.res \in allowBlankID}
Creates(s) == s.op = create \/ (s.op = upsert /\ s.id = 0)
Introduces(s, k) == s.newKey = k \/ (Creates(s) /\ s.newKey = 0 /\ s.key = k)

(* What the callers have to see to, as the cache does not: no backend is   *)
(* renamed while another write of it is under way, none is created under a *)
(* name that another write introduces, and no call gives one name to two   *)
(* backends.  An upsert trusts the name that fillInIDs found and puts it   *)
(* back into the uniqueKey map (case 3 of UpsertBackend), renamed          *)
(* meanwhile or not.                                                       *)
Calm ==
  \A t, u \in Thread : \A s \in Writing(t), x \in Writing(u) :
    s.res = x.res /\ (t # u \/ s # x) =>
      /\ s.id = x.id /\ s.id # 0 => x.newKey = 0 /\ x.op # create
      /\ Creates(s) /\ s.key # 0 => ~Introduces(x, s.key)
      /\ t = u /\ s.newKey # 0 => s.newKey # x.newKey

(* What a goroutine knows of the names that it writes: the key of a stored *)
(* object is its name, the name of a new one is free, and so is a new key  *)
(* once lockNewKeys has checked it.                                        *)
Renames(s) == s.res \in allowBlankID /\ s.newKey # 0
WriteNamed(s) ==
  /\ s.id # 0 /\ s.op # create /\ elem(s) \in DOMAIN data => s.key = data[elem(s)].key
  /\ Creates(s) /\ s.key # 0 => Lookup(keys, s.res, s.key) = 0
  /\ Creates(s) => s.key # 0 \/ s.newKey # 0
Free(s) == Lookup(keys, s.res, s.newKey) = 0
HasNew(t, s) == \E x \in Locks(t) : x.lock = <<"key", s.res, s.newKey>> /\ x.w
Checking(t, s) ==
  pc[t] = "check" /\ held[t][Len(held[t])].lock = <<"key", s.res, s.newKey>>
NamedStage == {stage \in Seq(SUBSET Asked) : ByName(stage)}
ThreadNamed(t) ==
  /\ \A i \in DOMAIN rest[t] : rest[t][i] \in NamedStage
  /\ pc[t] = "granted" => merged[t] = {}
  /\ \A s \in Writing(t) : WriteNamed(s)
  /\ pc[t] \in Active => \A s \in closures[t] : Renames(s) => Free(s) /\ HasNew(t, s)
  /\ pc[t] \in Locking => \A s \in merged[t] : Renames(s) =>
       \/ NewKeyLock(s) \in todo[t]
       \/ NewKeyLock(s) \in Locks(t) /\ (Free(s) \/ Checking(t, s))

LEMMA MergedNamed ==
  ASSUME CacheTypes, Sound, NEW stage \in NamedStage, NEW c, NEW m, m = mergeQueries(stage, c),
         NEW s \in m, isWriteOp(s.op), s.res \in allowBlankID
  PROVE  WriteNamed(s)
<1>1. stage \in Seq(SUBSET Asked) /\ ByName(stage)
  BY DEF NamedStage
<1>2. FilledIn(s)
  BY <1>1, MergedIs
<1>3. s.op \in {upsert, del} /\ s.op # list /\ s.op # create /\ s.op # read
  BY <1>2, Operations DEF FilledIn
<1>4. s # Read(root, 1)
  BY <1>3 DEF Read, Subquery
<1>5. s.res \in Keyed
  BY DEF Keyed, allowBlankID
<1>6. PICK j \in DOMAIN stage : \E x \in buildTrees(stage[j]) :
        /\ x \in stage[j] /\ x.res = s.res /\ x.op = s.op /\ x.newKey = s.newKey
        /\ x.key = 0 /\ s.key # 0 => elem(s) \in DOMAIN data
        /\ x.key # 0 => s.key = x.key
        /\ Dependents(buildTrees(stage[j]), s.res) = {} =>
             /\ x.key # 0 => s.id = Lookup(keys, s.res, x.key)
             /\ x.key = 0 => s.id = x.id /\ (elem(s) \in DOMAIN data => s.key = data[elem(s)].key)
  BY <1>1, <1>3, <1>4, <1>5, MergedAs
<1>7. PICK q : q = buildTrees(stage[j])
  OBVIOUS
<1>8. PICK x \in stage[j] :
        /\ x.res = s.res /\ x.op = s.op /\ x.newKey = s.newKey
        /\ x.key = 0 /\ s.key # 0 => elem(s) \in DOMAIN data
        /\ x.key # 0 => s.key = x.key
        /\ Dependents(q, s.res) = {} =>
             /\ x.key # 0 => s.id = Lookup(keys, s.res, x.key)
             /\ x.key = 0 => s.id = x.id /\ (elem(s) \in DOMAIN data => s.key = data[elem(s)].key)
  BY <1>6, <1>7
<1>9. (x.id # 0 \/ x.key # 0 \/ x.newKey # 0)
      /\ \A y \in q : y.op # list => s.res \notin schema[y.res]
  BY <1>1, <1>7, <1>8 DEF ByName
<1>10. Dependents(q, s.res) = {}
  BY <1>9 DEF Dependents, Types
<1>11. elem(s) = <<s.res, s.id>> /\ (elem(s) \in DOMAIN data => s.id # 0)
  <2>1. elem(s) = <<s.res, s.id>>
    BY DEF elem
  <2>2. QED
    BY <2>1 DEF CacheTypes, DataOK
<1>12. CASE x.key # 0
  BY <1>3, <1>8, <1>10, <1>11, <1>12 DEF WriteNamed, Sound, Creates
<1>13. CASE x.key = 0
  BY <1>3, <1>8, <1>9, <1>10, <1>11, <1>13 DEF WriteNamed, Creates
<1>14. QED
  BY <1>12, <1>13

(* A stage begins.                                                         *)
LEMMA NamedBegins ==
  ASSUME IInv, Sound, NEW t \in Thread, ThreadNamed(t), NEW stage \in NamedStage,
         Begins(t, stage), \A i \in DOMAIN rest'[t] : rest'[t][i] \in NamedStage
  PROVE  ThreadNamed(t)'
<1>1. PICK c : c = ctx[t]
  OBVIOUS
<1>2. PICK m : m = mergeQueries(stage, c)
  OBVIOUS
<1>3. /\ merged'[t] = m /\ todo'[t] = LockPlan(m, c) /\ pc'[t] = "lock"
      /\ UNCHANGED <<data, keys, held, closures>> /\ pc[t] \in {"idle", "granted"}
  BY <1>1, <1>2 DEF Begins, cache
<1>4. stage \in Seq(SUBSET Asked) /\ CacheTypes
  BY DEF NamedStage, IInv
<1>5. \A s \in m : isWriteOp(s.op) /\ s.res \in allowBlankID => WriteNamed(s)
  BY <1>2, <1>4, MergedNamed
<1>6. pc[t] = "idle" => closures[t] = {}
  BY DEF IInv, ThreadOK, ThreadTypes
<1>7. \A s : WriteNamed(s)' <=> WriteNamed(s)
  BY <1>3 DEF WriteNamed
<1>8. \A s \in Writing(t)' : WriteNamed(s)
  BY <1>3, <1>5, <1>6 DEF Writing, ThreadNamed
<1>9. \A s \in closures'[t] : Renames(s) => Free(s)' /\ HasNew(t, s)'
  BY <1>3, <1>6 DEF ThreadNamed, Active, Free, HasNew, Locks
<1>10. \A s \in m : Renames(s) => NewKeyLock(s) \in todo'[t]
  BY <1>3, PlanIs DEF Renames
<1>11. QED
  BY <1>3, <1>7, <1>8, <1>9, <1>10 DEF ThreadNamed

(* The steps that change nothing but where the goroutine is.               *)
LEMMA NamedMoves ==
  ASSUME NEW t \in Thread, ThreadNamed(t), UNCHANGED <<data, keys, merged, todo, held, closures>>,
         \A i \in DOMAIN rest'[t] : rest'[t][i] \in NamedStage,
         \/ pc'[t] = "unlock"
         \/ pc[t] = "lock" /\ pc'[t] = "pending"
         \/ pc[t] = "check" /\ pc'[t] = "lock"
            /\ Lookup(keys, held[t][Len(held[t])].lock[2], held[t][Len(held[t])].lock[3]) = 0
  PROVE  ThreadNamed(t)'
<1>1. \A s : WriteNamed(s)' <=> WriteNamed(s)
  BY DEF WriteNamed
<1>2. Locks(t)' = Locks(t)
  BY DEF Locks
<1>3. Writing(t)' \subseteq Writing(t)
  BY DEF Writing
<1>4. CASE pc'[t] = "unlock"
  BY <1>1, <1>3, <1>4 DEF ThreadNamed, Active, Locking
<1>5. CASE pc'[t] # "unlock"
  <2>1. /\ pc[t] \in Locking /\ pc'[t] \in Locking /\ pc[t] \in Active /\ pc'[t] # "granted"
        /\ pc'[t] # "check"
    BY <1>5 DEF Locking, Active
  <2>2. \A s \in closures'[t] : Renames(s) => Free(s)' /\ HasNew(t, s)'
    BY <1>2, <2>1 DEF ThreadNamed, Free, HasNew
  <2>3. ASSUME NEW s \in merged[t], Renames(s), NewKeyLock(s) \notin todo[t]
        PROVE  NewKeyLock(s) \in Locks(t) /\ Free(s)
    <3>1. NewKeyLock(s) \in Locks(t) /\ (Free(s) \/ Checking(t, s))
      BY <2>1, <2>3 DEF ThreadNamed
    <3>2. ASSUME Checking(t, s) PROVE Free(s)
      <4>1. pc[t] = "check" /\ held[t][Len(held[t])].lock = <<"key", s.res, s.newKey>>
        BY <3>2 DEF Checking
      <4>2. QED
        BY <1>5, <4>1 DEF Free
    <3>3. QED
      BY <3>1, <3>2
  <2>4. \A s \in merged'[t] : Renames(s) => \/ NewKeyLock(s) \in todo'[t]
                                            \/ NewKeyLock(s) \in Locks(t)' /\ Free(s)'
    BY <1>2, <2>3 DEF Free
  <2>5. QED
    BY <1>1, <1>3, <2>1, <2>2, <2>4 DEF ThreadNamed
<1>6. QED
  BY <1>4, <1>5

LEMMA NamedTake ==
  ASSUME IInv, NEW t \in Thread, ThreadNamed(t), Step(t), RLock(t) \/ WLock(t)
  PROVE  ThreadNamed(t)'
<1>1. PICK z : z = Target(t)
  OBVIOUS
<1>2. /\ pc[t] \in {"lock", "pending"} /\ todo[t] # {} /\ Take(t) /\ pc'[t] \in {"lock", "check"}
      /\ z.w /\ z.at[1] = 0 => pc'[t] = "check"
  <2>1. CASE RLock(t)
    BY <1>1, <2>1 DEF RLock
  <2>2. CASE WLock(t)
    BY <1>1, <2>2 DEF WLock, IInv, Shapes, ThreadOK, ThreadTypes
  <2>3. QED
    BY <2>1, <2>2
<1>3. Locks(t)' = Locks(t) \cup {z} /\ z \in todo[t] /\ todo'[t] = todo[t] \ {z}
  BY <1>1, <1>2, TakeOK DEF Take, IInv, Shapes
<1>4. UNCHANGED <<data, keys, rest, merged, closures>>
  BY <1>2 DEF Take, cache
<1>5. held'[t][Len(held'[t])] = z
  <2>1. PICK h \in Seq(Lockable) : h = held[t]
    BY DEF IInv, ThreadOK, ThreadTypes
  <2>2. held'[t] = Append(h, z)
    BY <1>1, <1>2, <2>1 DEF Take, IInv, Shapes
  <2>3. z \in Lockable
    BY <1>1, <1>2, TakeOK
  <2>4. Append(h, z)[Len(Append(h, z))] = z
    BY <2>1, <2>3
  <2>5. QED
    BY <2>2, <2>4
<1>6. /\ pc[t] \in Locking /\ pc'[t] \in Locking /\ pc[t] \in Active /\ pc'[t] # "granted"
      /\ pc[t] # "check" /\ pc[t] \notin {"idle", "unlock"}
  BY <1>2 DEF Locking, Active
<1>7. \A s : (WriteNamed(s)' <=> WriteNamed(s)) /\ (Free(s)' <=> Free(s))
  BY <1>4 DEF WriteNamed, Free
<1>8. Writing(t)' \subseteq Writing(t)
  BY <1>4, <1>6 DEF Writing
<1>9. \A s \in closures'[t] : Renames(s) => Free(s)' /\ HasNew(t, s)'
  BY <1>3, <1>4, <1>6, <1>7 DEF ThreadNamed, HasNew
<1>10. ASSUME NEW s \in merged[t], Renames(s)
       PROVE  \/ NewKeyLock(s) \in todo'[t]
              \/ NewKeyLock(s) \in Locks(t)' /\ (Free(s)' \/ Checking(t, s)')
  <2>1. CASE NewKeyLock(s) = z
    <3>1. FilledIn(s) /\ s.newKey # 0
      BY <1>10 DEF IInv, ThreadOK, ThreadTypes, Renames
    <3>2. isWriteOp(s.op)
      BY <3>1, Operations DEF FilledIn
    <3>3. z.w /\ z.at[1] = 0 /\ z.lock = <<"key", s.res, s.newKey>>
      BY <2>1, <3>2 DEF NewKeyLock
    <3>4. Checking(t, s)'
      BY <1>2, <1>5, <3>3 DEF Checking
    <3>5. QED
      BY <1>3, <2>1, <3>4
  <2>2. CASE NewKeyLock(s) # z
    BY <1>3, <1>6, <1>7, <1>10, <2>2 DEF ThreadNamed, Checking
  <2>3. QED
    BY <2>1, <2>2
<1>11. QED
  BY <1>4, <1>6, <1>7, <1>8, <1>9, <1>10 DEF ThreadNamed

LEMMA NamedResults ==
  ASSUME IInv, NEW t \in Thread, ThreadNamed(t), SetResults(t)
  PROVE  ThreadNamed(t)'
<1>1. /\ pc[t] = "lock" /\ pc'[t] = "granted" /\ todo[t] = {} /\ merged'[t] = {}
      /\ UNCHANGED <<data, keys, rest, held>>
  BY DEF SetResults, IInv, Shapes, cache
<1>2. closures'[t] = closures[t] \cup HandedOut(t) /\ HandedOut(t) \subseteq merged[t]
  <2>1. HandedOut(t) \subseteq merged[t]
    BY DEF HandedOut, Granted
  <2>2. QED
    BY <2>1, ResultsAre
<1>3. \A s : (WriteNamed(s)' <=> WriteNamed(s)) /\ (Free(s)' <=> Free(s))
  BY <1>1 DEF WriteNamed, Free
<1>4. Writing(t)' \subseteq Writing(t)
  BY <1>1, <1>2 DEF Writing
<1>5. pc[t] \in Locking /\ pc[t] \in Active /\ pc'[t] \notin Locking /\ Locks(t)' = Locks(t)
  BY <1>1 DEF Locking, Active, Locks
<1>6. ASSUME NEW s \in merged[t], Renames(s) PROVE Free(s) /\ HasNew(t, s)
  <2>1. NewKeyLock(s) \in Locks(t) /\ Free(s)
    BY <1>1, <1>5, <1>6 DEF ThreadNamed, Checking
  <2>2. FilledIn(s) /\ s.newKey # 0
    BY <1>6 DEF IInv, ThreadOK, ThreadTypes, Renames
  <2>3. isWriteOp(s.op)
    BY <2>2, Operations DEF FilledIn
  <2>4. NewKeyLock(s).w /\ NewKeyLock(s).lock = <<"key", s.res, s.newKey>>
    BY <2>3 DEF NewKeyLock
  <2>5. QED
    BY <2>1, <2>4 DEF HasNew
<1>7. \A s \in closures'[t] : Renames(s) => Free(s)' /\ HasNew(t, s)'
  BY <1>2, <1>3, <1>5, <1>6 DEF ThreadNamed, HasNew
<1>8. QED
  BY <1>1, <1>3, <1>4, <1>5, <1>7 DEF ThreadNamed

LEMMA NamedCreate ==
  ASSUME IInv, NEW t \in Thread, ThreadNamed(t), Create(t)
  PROVE  ThreadNamed(t)'
<1>1. PICK s \in closures[t], id \in uuids :
        /\ s.op = upsert /\ s.id = 0
        /\ closures' = [closures EXCEPT ![t] =
             (@ \ {s}) \cup {[s EXCEPT !.id = id, !.op = create]}]
  BY DEF Create
<1>2. UNCHANGED <<data, keys, pc, rest, merged, todo, held>> /\ pc[t] = "granted"
  BY DEF Create
<1>3. PICK x : x = [s EXCEPT !.id = id, !.op = create]
  OBVIOUS
<1>4. closures'[t] = (closures[t] \ {s}) \cup {x}
  BY <1>1, <1>3 DEF IInv, Shapes
<1>5. Closure(s)
  BY DEF IInv, ThreadOK, ThreadTypes
<1>6. /\ x.id = id /\ x.op = create /\ x.res = s.res /\ x.key = s.key /\ x.newKey = s.newKey
  <2>1. s = [res |-> s.res, op |-> s.op, id |-> s.id, key |-> s.key, newKey |-> s.newKey,
             dep |-> s.dep]
    BY <1>5 DEF Closure, IsSubquery
  <2>2. x = [res |-> s.res, op |-> create, id |-> id, key |-> s.key, newKey |-> s.newKey,
             dep |-> s.dep]
    BY ONLY <1>3, <2>1
  <2>3. QED
    BY ONLY <2>2
<1>7. s.res \in allowBlankID /\ s \in Writing(t) /\ Creates(s) /\ Creates(x)
  BY <1>1, <1>2, <1>5, <1>6, Operations DEF Closure, Writing, Creates
<1>8. WriteNamed(x)
  BY <1>6, <1>7 DEF WriteNamed, ThreadNamed
<1>9. \A y : (WriteNamed(y)' <=> WriteNamed(y)) /\ (Free(y)' <=> Free(y))
             /\ (HasNew(t, y)' <=> HasNew(t, y))
  BY <1>2 DEF WriteNamed, Free, HasNew, Locks
<1>10. \A y \in Writing(t)' : y = x \/ y \in Writing(t)
  BY <1>2, <1>4 DEF Writing
<1>11. pc[t] \in Active /\ pc'[t] \notin Locking
  BY <1>2 DEF Active, Locking
<1>12. Renames(x) => Free(x) /\ HasNew(t, x)
  <2>1. Renames(s) => Free(s) /\ HasNew(t, s)
    BY <1>11 DEF ThreadNamed
  <2>2. QED
    BY <1>6, <2>1 DEF Renames, Free, HasNew
<1>13. \A y \in closures'[t] : Renames(y) => Free(y)' /\ HasNew(t, y)'
  BY <1>4, <1>9, <1>11, <1>12 DEF ThreadNamed
<1>14. QED
  BY <1>2, <1>8, <1>9, <1>10, <1>11, <1>13 DEF ThreadNamed

(* The end of a call.                                                      *)
LEMMA NamedEnds ==
  ASSUME IInv, NEW t \in Thread, ThreadNamed(t), Unlock(t) \/ Done(t)
  PROVE  ThreadNamed(t)'
<1>1. pc'[t] \in {"idle", "unlock"}
  BY DEF Unlock, Done, IInv, Shapes
<1>2. \A i \in DOMAIN rest'[t] : rest'[t][i] \in NamedStage
  <2>1. rest'[t] = rest[t] \/ rest'[t] = << >>
    BY DEF Unlock, Done, IInv, Shapes
  <2>2. CASE rest'[t] = rest[t]
    BY <2>2 DEF ThreadNamed
  <2>3. CASE rest'[t] = << >>
    BY <2>3
  <2>4. QED
    BY <2>1, <2>2, <2>3
<1>3. Writing(t)' = {} /\ pc'[t] \notin Active /\ pc'[t] \notin Locking /\ pc'[t] # "granted"
  BY <1>1 DEF Writing, Active, Locking
<1>4. QED
  BY <1>2, <1>3 DEF ThreadNamed

(* A write that leaves the names of others as they are: no name turns up   *)
(* but g, which nobody else is about to use, and no object that others are *)
(* about to write gets another one.                                        *)
LEMMA NamedWrites ==
  ASSUME IInv, NEW t \in Thread, NEW s \in closures[t], pc[t] = "granted",
         UNCHANGED <<pc, rest, merged, todo, held>>,
         closures'[t] = closures[t] \ {s}, \A u \in Thread \ {t} : closures'[u] = closures[u],
         \A u \in Thread : ThreadNamed(u),
         NEW g,
         \A r \in allowBlankID : \A n : <<r, n>> # g =>
           Lookup(keys', r, n) \in {0, Lookup(keys, r, n)},
         \A u \in Thread : \A x \in Writing(u) : (u # t \/ x # s) =>
           /\ Creates(x) /\ x.key # 0 => <<x.res, x.key>> # g
           /\ Renames(x) /\ HasNew(u, x) => <<x.res, x.newKey>> # g
           /\ elem(x) \in DOMAIN data' =>
                elem(x) \in DOMAIN data /\ data'[elem(x)].key = data[elem(x)].key
  PROVE  \A u \in Thread : ThreadNamed(u)'
<1>1. SUFFICES ASSUME NEW u \in Thread PROVE ThreadNamed(u)'
  OBVIOUS
<1>2. merged[t] = {} /\ pc[t] \notin Locking /\ pc[t] \in Active
  BY DEF ThreadNamed, Locking, Active
<1>3. closures'[u] \subseteq closures[u] /\ (u = t => s \notin closures'[u])
  OBVIOUS
<1>4. \A x \in Writing(u)' : x \in Writing(u) /\ (u # t \/ x # s)
  BY <1>2, <1>3 DEF Writing
<1>5. ASSUME NEW x \in Writing(u)' PROVE WriteNamed(x)'
  <2>1. WriteNamed(x) /\ x.res \in allowBlankID
    BY <1>4, <1>5 DEF ThreadNamed, Writing
  <2>2. x.id # 0 /\ x.op # create /\ elem(x) \in DOMAIN data' => x.key = data'[elem(x)].key
    BY <1>4, <1>5, <2>1 DEF WriteNamed
  <2>3. Creates(x) /\ x.key # 0 => Lookup(keys', x.res, x.key) = 0
    <3>1. ASSUME Creates(x), x.key # 0 PROVE Lookup(keys', x.res, x.key) = 0
      <4>1. <<x.res, x.key>> # g
        BY <1>4, <1>5, <3>1
      <4>2. Lookup(keys, x.res, x.key) = 0
        BY <2>1, <3>1 DEF WriteNamed
      <4>3. QED
        BY <2>1, <4>1, <4>2
    <3>2. QED
      BY <3>1
  <2>4. QED
    BY <2>1, <2>2, <2>3 DEF WriteNamed
<1>6. \A x : HasNew(u, x)' <=> HasNew(u, x)
  BY DEF HasNew, Locks
<1>7. ASSUME NEW x \in Writing(u), (u # t \/ x # s), Renames(x), HasNew(u, x), Free(x)
      PROVE  Free(x)'
  <2>1. <<x.res, x.newKey>> # g /\ x.res \in allowBlankID
    BY <1>7 DEF Renames
  <2>2. QED
    BY <1>7, <2>1 DEF Free
<1>8. ASSUME pc[u] \in Active, NEW x \in closures'[u], Renames(x) PROVE Free(x)' /\ HasNew(u, x)'
  <2>1. Closure(x)
    BY <1>3 DEF IInv, ThreadOK, ThreadTypes
  <2>2. x \in Writing(u) /\ (u # t \/ x # s)
    BY <1>3, <1>8, <2>1, Operations DEF Writing, Closure, Renames, Active
  <2>3. Free(x) /\ HasNew(u, x)
    BY <1>3, <1>8 DEF ThreadNamed
  <2>4. QED
    BY <1>6, <1>7, <1>8, <2>2, <2>3
<1>9. ASSUME pc[u] \in Locking, NEW x \in merged[u], Renames(x), NewKeyLock(x) \notin todo[u]
      PROVE  NewKeyLock(x) \in Locks(u) /\ (Free(x)' \/ Checking(u, x)')
  <2>1. NewKeyLock(x) \in Locks(u) /\ (Free(x) \/ Checking(u, x))
    BY <1>9 DEF ThreadNamed
  <2>2. Checking(u, x) => Checking(u, x)'
    BY DEF Checking
  <2>3. FilledIn(x) /\ x.newKey # 0
    BY <1>9 DEF IInv, ThreadOK, ThreadTypes, Renames
  <2>4. isWriteOp(x.op)
    BY <2>3, Operations DEF FilledIn
  <2>5. x \in Writing(u) /\ u # t
    BY <1>2, <1>9, <2>4 DEF Writing, Renames, Locking
  <2>6. HasNew(u, x)
    BY <2>1, <2>4 DEF HasNew, NewKeyLock
  <2>7. QED
    BY <1>7, <1>9, <2>1, <2>2, <2>5, <2>6
<1>10. Locks(u)' = Locks(u)
  BY DEF Locks
<1>11. /\ \A i \in DOMAIN rest'[u] : rest'[u][i] \in NamedStage
       /\ pc'[u] = "granted" => merged'[u] = {}
  BY DEF ThreadNamed
<1>12. QED
  BY <1>5, <1>8, <1>9, <1>10, <1>11 DEF ThreadNamed

(* What a closure does to the names.                                       *)
LEMMA WriteLookup ==
  ASSUME NEW t, NEW s, IF s.op = del THEN DeleteClosure(t, s) ELSE UpsertClosure(s),
         NEW q, NEW n
  PROVE  /\ s.op = del /\ s.res \in Keyed =>
              Lookup(keys', q, n) = IF q = s.res /\ n = s.key THEN 0 ELSE Lookup(keys, q, n)
         /\ s.op = del /\ s.res \notin Keyed => keys' = keys
         /\ s.op # del /\ s.newKey # 0 /\ s.res \in Keyed =>
              Lookup(keys', q, n) = IF q = s.res /\ n = s.newKey THEN s.id
                                    ELSE IF q = s.res /\ n = s.key /\ s.key # 0 THEN 0
                                    ELSE Lookup(keys, q, n)
         /\ s.op # del /\ s.newKey = 0 /\ s.res \in allowBlankID /\ s.key # 0 =>
              Lookup(keys', q, n) = IF q = s.res /\ n = s.key THEN s.id ELSE Lookup(keys, q, n)
         /\ s.op # del /\ s.newKey = 0 /\ s.res \notin allowBlankID => keys' = keys
         /\ s.op # del /\ s.res \notin Keyed => keys' = keys
<1>1. allowBlankID \subseteq Keyed /\ \A r \in Keyed : r \in allowBlankID <=> r # volume
  BY Constants DEF Keyed, allowBlankID
<1>2. CASE s.op = del
  <2>1. keys' = IF s.res \in Keyed THEN Without(keys, <<s.res, s.key>>) ELSE keys
    BY <1>2 DEF DeleteClosure
  <2>2. QED
    BY <1>2, <2>1, LookupWithout
<1>3. CASE s.op # del
  <2>1. keys' = UpsertKeys(s)
    BY <1>3 DEF UpsertClosure
  <2>2. CASE s.res \notin Keyed \/ (s.newKey = 0 /\ s.res \notin allowBlankID)
    BY <1>1, <1>3, <2>1, <2>2 DEF UpsertKeys
  <2>3. CASE s.res \in allowBlankID /\ s.newKey = 0 /\ s.key # 0
    <3>1. keys' = Put(keys, <<s.res, s.key>>, s.id)
      BY <1>1, <2>1, <2>3 DEF UpsertKeys
    <3>2. QED
      BY <1>1, <1>3, <2>3, <3>1, LookupPut
  <2>4. CASE s.res \in Keyed /\ s.newKey # 0 /\ s.key = 0
    <3>1. keys' = Put(keys, <<s.res, s.newKey>>, s.id)
      BY <2>1, <2>4 DEF UpsertKeys
    <3>2. QED
      BY <1>3, <2>4, <3>1, LookupPut
  <2>5. CASE s.res \in Keyed /\ s.newKey # 0 /\ s.key # 0
    <3>1. PICK f : f = Without(keys, <<s.res, s.key>>)
      OBVIOUS
    <3>2. keys' = Put(f, <<s.res, s.newKey>>, s.id)
      BY <2>1, <2>5, <3>1 DEF UpsertKeys
    <3>3. Lookup(f, q, n) = IF q = s.res /\ n = s.key THEN 0 ELSE Lookup(keys, q, n)
      BY <3>1, LookupWithout
    <3>4. Lookup(keys', q, n) = IF q = s.res /\ n = s.newKey THEN s.id ELSE Lookup(f, q, n)
      BY <3>2, LookupPut
    <3>5. QED
      BY <1>3, <2>5, <3>3, <3>4
  <2>6. QED
    BY <1>1, <1>3, <2>2, <2>3, <2>4, <2>5
<1>4. QED
  BY <1>2, <1>3

LEMMA WriteKey ==
  ASSUME NEW s, UpsertClosure(s)
  PROVE  /\ s.newKey # 0 => data'[elem(s)].key = s.newKey
         /\ s.newKey = 0 /\ elem(s) \in DOMAIN data => data'[elem(s)].key = data[elem(s)].key
         /\ s.newKey = 0 /\ elem(s) \notin DOMAIN data /\ s.key # 0 => data'[elem(s)].key = s.key
         /\ s.res \in allowBlankID /\ s.op # create => elem(s) \in DOMAIN data
<1> DEFINE z == CASE s.newKey # 0 -> s.newKey
                  [] s.newKey = 0 /\ Current(s) -> data[elem(s)].key
                  [] s.newKey = 0 /\ ~Current(s) /\ s.key # 0 -> s.key
                  [] OTHER -> IF s.res \in Keyed THEN s.id ELSE 0
           x == [key |-> z, own |-> s.dep, v |-> IF Current(s) THEN 1 - data[elem(s)].v ELSE 0]
<1>1. CanUpsert(s) /\ data' = Put(data, elem(s), x)
  BY DEF UpsertClosure
<1>2. Current(s) <=> elem(s) \in DOMAIN data
  BY DEF Current, Stored, elem
<1>3. /\ s.newKey # 0 => z = s.newKey
      /\ s.newKey = 0 /\ Current(s) => z = data[elem(s)].key
      /\ s.newKey = 0 /\ ~Current(s) /\ s.key # 0 => z = s.key
  OBVIOUS
<1>4. x.key = z
  OBVIOUS
<1> HIDE DEF x, z
<1>5. data'[elem(s)] = x
  BY <1>1 DEF Put
<1>6. QED
  BY <1>1, <1>2, <1>3, <1>4, <1>5 DEF CanUpsert

LEMMA NamedWrite ==
  ASSUME IInv, Calm, Sound, NEW t \in Thread, Write(t), \A u \in Thread : ThreadNamed(u)
  PROVE  Sound' /\ \A u \in Thread : ThreadNamed(u)'
<1>1. PICK s \in closures[t] :
        /\ s.id # 0
        /\ IF s.op = del THEN DeleteClosure(t, s) ELSE UpsertClosure(s)
        /\ closures' = [closures EXCEPT ![t] = @ \ {s}]
  BY DEF Write
<1>2. /\ pc[t] = "granted" /\ UNCHANGED <<pc, rest, merged, todo, held>>
      /\ closures'[t] = closures[t] \ {s} /\ \A u \in Thread \ {t} : closures'[u] = closures[u]
  BY <1>1 DEF Write, IInv, Shapes
<1>3. Closure(s) /\ CacheTypes /\ NewIds /\ Exclusion
  BY DEF IInv, ThreadOK, ThreadTypes
<1>4. PICK e : e = elem(s)
  OBVIOUS
<1>5. e = <<s.res, s.id>> /\ e[1] = s.res /\ e[2] = s.id
  BY <1>4 DEF elem
<1>6. /\ CacheTypes'
      /\ \A f \in DOMAIN data : f # e => f \in DOMAIN data' /\ data'[f] = data[f]
      /\ \A f \in DOMAIN data' : f # e => f \in DOMAIN data
      /\ IF s.op = del THEN e \in DOMAIN data /\ e \notin DOMAIN data' ELSE e \in DOMAIN data'
  BY <1>1, <1>3, <1>4, WriteIs
<1>7. allowBlankID \subseteq Keyed
  BY DEF Keyed, allowBlankID
<1>8. \A f \in DOMAIN data : f = <<f[1], f[2]>> /\ f[2] # 0
  BY <1>3 DEF CacheTypes, DataOK
<1>9. CASE s.res \notin allowBlankID
  <2>1. \A q \in allowBlankID : \A n : Lookup(keys', q, n) = Lookup(keys, q, n)
    <3>1. SUFFICES ASSUME NEW q \in allowBlankID, NEW n
                   PROVE  Lookup(keys', q, n) = Lookup(keys, q, n)
      OBVIOUS
    <3>2. q # s.res
      BY <1>9
    <3>3. QED
      BY <1>1, <1>9, <3>2, WriteLookup
  <2>2. \A f : f[1] \in allowBlankID => f # e
    BY <1>5, <1>9
  <2>3. Sound'
    BY <1>6, <2>1, <2>2 DEF Sound
  <2>4. PICK g : g = <<s.res, s.key>>
    OBVIOUS
  <2>5. ASSUME NEW u \in Thread, NEW x \in Writing(u)
        PROVE  /\ <<x.res, x.key>> # g /\ <<x.res, x.newKey>> # g
               /\ elem(x) \in DOMAIN data' =>
                    elem(x) \in DOMAIN data /\ data'[elem(x)].key = data[elem(x)].key
    <3>1. x.res \in allowBlankID /\ elem(x)[1] = x.res
      BY DEF Writing, elem
    <3>2. QED
      BY <1>6, <1>9, <2>2, <2>4, <3>1
  <2>6. \A u \in Thread : ThreadNamed(u)'
    BY <1>1, <1>2, <2>1, <2>5, NamedWrites
  <2>7. QED
    BY <2>3, <2>6
<1>10. CASE s.res \in allowBlankID
  <2>1. s \in Writing(t) /\ s.res \in Keyed /\ WriteNamed(s)
    BY <1>2, <1>3, <1>7, <1>10, Operations DEF Writing, Closure, ThreadNamed
  <2>2. \A u \in Thread : \A x \in Writing(u) : x.res \in allowBlankID
    BY DEF Writing
  <2>3. \A f \in DOMAIN data : f[1] \in allowBlankID => Lookup(keys, f[1], data[f].key) = f[2]
    BY DEF Sound
  <2>4. \A q \in allowBlankID : \A n : Lookup(keys, q, n) # 0 =>
          /\ <<q, Lookup(keys, q, n)>> \in DOMAIN data
          /\ data[<<q, Lookup(keys, q, n)>>].key = n
    BY DEF Sound
  <2>5. CASE s.op = del
    <3>1. e \in DOMAIN data /\ e \notin DOMAIN data' /\ s.op # create
      BY <1>6, <2>5, Operations
    <3>2. s.key = data[e].key
      BY <1>1, <1>4, <2>1, <3>1 DEF WriteNamed
    <3>3. \A q, n : Lookup(keys', q, n)
                      = IF q = s.res /\ n = s.key THEN 0 ELSE Lookup(keys, q, n)
      BY <1>1, <2>1, <2>5, WriteLookup
    <3>4. ASSUME NEW f \in DOMAIN data', f[1] \in allowBlankID
          PROVE  Lookup(keys', f[1], data'[f].key) = f[2]
      <4>1. f # e /\ f \in DOMAIN data /\ data'[f] = data[f]
        BY <1>6, <3>1
      <4>2. Lookup(keys, f[1], data[f].key) = f[2] /\ Lookup(keys, e[1], data[e].key) = e[2]
        BY <1>5, <1>10, <2>3, <3>1, <3>4, <4>1
      <4>3. ~(f[1] = s.res /\ data[f].key = s.key)
        BY <1>5, <1>8, <3>1, <3>2, <4>1, <4>2
      <4>4. QED
        BY <3>3, <4>1, <4>2, <4>3
    <3>5. ASSUME NEW q \in allowBlankID, NEW n, Lookup(keys', q, n) # 0
          PROVE  /\ <<q, Lookup(keys', q, n)>> \in DOMAIN data'
                 /\ data'[<<q, Lookup(keys', q, n)>>].key = n
      <4>1. Lookup(keys', q, n) = Lookup(keys, q, n) /\ ~(q = s.res /\ n = s.key)
        BY <3>3, <3>5
      <4>2. PICK f : f = <<q, Lookup(keys, q, n)>>
        OBVIOUS
      <4>3. f \in DOMAIN data /\ data[f].key = n /\ f[1] = q
        BY <2>4, <3>5, <4>1, <4>2
      <4>4. f # e
        BY <1>5, <3>2, <4>1, <4>3
      <4>5. QED
        BY <1>6, <4>1, <4>2, <4>3, <4>4
    <3>6. Sound'
      BY <3>4, <3>5 DEF Sound
    <3>7. \A f \in DOMAIN data' : f \in DOMAIN data /\ data'[f] = data[f]
      BY <1>6, <3>1
    <3>8. PICK g : g = <<root, s.key>>
      OBVIOUS
    <3>9. root \notin allowBlankID
      BY Constants DEF allowBlankID
    <3>10. \A r \in allowBlankID : \A n : <<r, n>> # g
      BY <3>8, <3>9
    <3>11. \A u \in Thread : ThreadNamed(u)'
      BY <1>1, <1>2, <2>2, <3>3, <3>7, <3>10, NamedWrites
    <3>12. QED
      BY <3>6, <3>11
  <2>6. CASE s.op # del /\ s.newKey = 0 /\ s.op # create
    <3>1. UpsertClosure(s) /\ e \in DOMAIN data
      BY <1>1, <1>4, <1>10, <2>6, WriteKey
    <3>2. data'[e].key = data[e].key /\ s.key = data[e].key
      BY <1>1, <1>4, <2>1, <2>6, <3>1, WriteKey DEF WriteNamed
    <3>3. Lookup(keys, s.res, s.key) = s.id
      BY <1>5, <1>10, <2>3, <3>1, <3>2
    <3>4. s.key # 0
      BY <1>1, <1>3, <3>3 DEF Lookup, CacheTypes
    <3>5. \A q, n : Lookup(keys', q, n) = Lookup(keys, q, n)
      BY <1>1, <1>10, <2>6, <3>3, <3>4, WriteLookup
    <3>6. DOMAIN data' = DOMAIN data /\ \A f \in DOMAIN data : data'[f].key = data[f].key
      BY <1>6, <2>6, <3>1, <3>2
    <3>7. Sound'
      BY <3>5, <3>6 DEF Sound
    <3>8. PICK g : g = <<root, s.key>>
      OBVIOUS
    <3>9. root \notin allowBlankID
      BY Constants DEF allowBlankID
    <3>10. \A r \in allowBlankID : \A n : <<r, n>> # g
      BY <3>8, <3>9
    <3>11. \A u \in Thread : ThreadNamed(u)'
      BY <1>1, <1>2, <2>2, <3>5, <3>6, <3>10, NamedWrites
    <3>12. QED
      BY <3>7, <3>11
  <2>7. CASE s.op # del /\ (s.newKey # 0 \/ s.op = create)
    <3>1. PICK k : k = IF s.newKey # 0 THEN s.newKey ELSE s.key
      OBVIOUS
    <3>2. s.op = create => e \notin DOMAIN data /\ Creates(s)
      BY <1>3, <1>4 DEF NewIds, Creates
    <3>3. UpsertClosure(s) /\ (s.op # create => e \in DOMAIN data /\ s.key = data[e].key)
      BY <1>1, <1>4, <1>10, <2>1, <2>7, WriteKey DEF WriteNamed
    <3>4. k # 0 /\ Lookup(keys, s.res, k) = 0
      <4>1. CASE s.newKey # 0
        <5>1. Renames(s) /\ pc[t] \in Active
          BY <1>2, <1>10, <4>1 DEF Renames, Active
        <5>2. Free(s)
          BY <5>1 DEF ThreadNamed
        <5>3. QED
          BY <3>1, <4>1, <5>2 DEF Free
      <4>2. CASE s.newKey = 0
        BY <2>1, <2>7, <3>1, <3>2, <4>2 DEF WriteNamed
      <4>3. QED
        BY <4>1, <4>2
    <3>5. data'[e].key = k /\ e \in DOMAIN data'
      BY <1>4, <1>6, <2>7, <3>1, <3>2, <3>3, <3>4, WriteKey
    <3>6. s.op = create /\ s.key # 0 => Lookup(keys, s.res, s.key) = 0
      BY <2>1, <3>2 DEF WriteNamed
    <3>7. \A q, n : Lookup(keys', q, n)
                      = IF q = s.res /\ n = k THEN s.id
                        ELSE IF q = s.res /\ n = s.key /\ s.op # create THEN 0
                        ELSE Lookup(keys, q, n)
      <4>1. CASE s.newKey # 0
        <5>1. \A q, n : Lookup(keys', q, n)
                          = IF q = s.res /\ n = s.newKey THEN s.id
                            ELSE IF q = s.res /\ n = s.key /\ s.key # 0 THEN 0
                            ELSE Lookup(keys, q, n)
          BY <1>1, <2>1, <2>7, <4>1, WriteLookup
        <5>2. \A q, n : n = 0 => Lookup(keys, q, n) = 0
          BY <1>3 DEF Lookup, CacheTypes
        <5>3. QED
          BY <3>1, <3>6, <4>1, <5>1, <5>2
      <4>2. CASE s.newKey = 0
        <5>1. \A q, n : Lookup(keys', q, n)
                          = IF q = s.res /\ n = s.key THEN s.id ELSE Lookup(keys, q, n)
          BY <1>1, <1>10, <2>7, <3>1, <3>4, <4>2, WriteLookup
        <5>2. QED
          BY <2>7, <3>1, <4>2, <5>1
      <4>3. QED
        BY <4>1, <4>2
    <3>8. ASSUME NEW f \in DOMAIN data, f # e, f[1] = s.res
          PROVE  data[f].key # k /\ (s.op # create => data[f].key # s.key)
      <4>1. Lookup(keys, s.res, data[f].key) = f[2] /\ f[2] # 0
        BY <1>8, <1>10, <2>3, <3>8
      <4>2. s.op # create => Lookup(keys, s.res, s.key) = e[2]
        BY <1>5, <1>10, <2>3, <3>3
      <4>3. f[2] # e[2]
        BY <1>5, <1>8, <3>8
      <4>4. QED
        BY <3>4, <4>1, <4>2, <4>3
    <3>9. ASSUME NEW f \in DOMAIN data', f[1] \in allowBlankID
          PROVE  Lookup(keys', f[1], data'[f].key) = f[2]
      <4>1. CASE f = e
        BY <1>5, <3>5, <3>7, <4>1
      <4>2. CASE f # e
        <5>1. f \in DOMAIN data /\ data'[f] = data[f]
          BY <1>6, <4>2
        <5>2. Lookup(keys, f[1], data[f].key) = f[2]
          BY <2>3, <3>9, <5>1
        <5>3. QED
          BY <3>7, <3>8, <4>2, <5>1, <5>2
      <4>3. QED
        BY <4>1, <4>2
    <3>10. ASSUME NEW q \in allowBlankID, NEW n, Lookup(keys', q, n) # 0
           PROVE  /\ <<q, Lookup(keys', q, n)>> \in DOMAIN data'
                  /\ data'[<<q, Lookup(keys', q, n)>>].key = n
      <4>1. CASE q = s.res /\ n = k
        BY <1>5, <3>5, <3>7, <4>1
      <4>2. CASE ~(q = s.res /\ n = k)
        <5>1. Lookup(keys', q, n) = Lookup(keys, q, n) /\ ~(q = s.res /\ n = s.key /\ s.op # create)
          BY <3>7, <3>10, <4>2
        <5>2. PICK f : f = <<q, Lookup(keys, q, n)>>
          OBVIOUS
        <5>3. f \in DOMAIN data /\ data[f].key = n /\ f[1] = q
          BY <2>4, <3>10, <5>1, <5>2
        <5>4. f # e
          <6>1. CASE s.op = create
            BY <3>2, <5>3, <6>1
          <6>2. CASE s.op # create
            BY <1>5, <3>3, <5>1, <5>3, <6>2
          <6>3. QED
            BY <6>1, <6>2
        <5>5. QED
          BY <1>6, <5>1, <5>2, <5>3, <5>4
      <4>3. QED
        BY <4>1, <4>2
    <3>11. Sound'
      BY <3>9, <3>10 DEF Sound
    <3>12. PICK g : g = <<s.res, k>>
      OBVIOUS
    <3>13. ASSUME NEW r \in allowBlankID, NEW n, <<r, n>> # g
           PROVE  Lookup(keys', r, n) \in {0, Lookup(keys, r, n)}
      BY <3>7, <3>12, <3>13
    <3>14. Introduces(s, k)
      BY <2>7, <3>1, <3>2 DEF Introduces
    <3>15. ASSUME NEW u \in Thread, NEW x \in Writing(u), u # t \/ x # s
           PROVE  /\ Creates(x) /\ x.key # 0 => <<x.res, x.key>> # g
                  /\ Renames(x) /\ HasNew(u, x) => <<x.res, x.newKey>> # g
                  /\ elem(x) \in DOMAIN data' =>
                       elem(x) \in DOMAIN data /\ data'[elem(x)].key = data[elem(x)].key
      <4>1. ASSUME x.res = s.res
            PROVE  /\ x.id = s.id /\ x.id # 0 => s.newKey = 0 /\ s.op # create
                   /\ Creates(x) /\ x.key # 0 => ~Introduces(s, x.key)
        BY <2>1, <3>15, <4>1 DEF Calm
      <4>2. ASSUME x.res = s.res
            PROVE  /\ Creates(s) /\ s.key # 0 => ~Introduces(x, s.key)
                   /\ t = u /\ s.newKey # 0 => s.newKey # x.newKey
        BY <2>1, <3>15, <4>2 DEF Calm
      <4>3. Creates(x) /\ x.key # 0 => <<x.res, x.key>> # g
        BY <3>12, <3>14, <4>1
      <4>4. ASSUME Renames(x), HasNew(u, x), x.res = s.res, x.newKey = k PROVE FALSE
        <5>1. CASE s.newKey # 0
          <6>1. u # t
            BY <3>1, <4>2, <4>4, <5>1
          <6>2. Renames(s) /\ pc[t] \in Active
            BY <1>2, <1>10, <5>1 DEF Renames, Active
          <6>3. HasNew(t, s)
            BY <6>2 DEF ThreadNamed
          <6>4. QED
            BY <1>3, <3>1, <4>4, <5>1, <6>1, <6>3 DEF HasNew, Exclusion
        <5>2. CASE s.newKey = 0
          BY <2>7, <3>1, <3>2, <3>4, <4>2, <4>4, <5>2 DEF Introduces
        <5>3. QED
          BY <5>1, <5>2
      <4>5. Renames(x) /\ HasNew(u, x) => <<x.res, x.newKey>> # g
        BY <3>12, <4>4
      <4>6. elem(x) # e
        BY <1>1, <1>5, <2>7, <4>1 DEF elem
      <4>7. QED
        BY <1>6, <4>3, <4>5, <4>6
    <3>16. \A u \in Thread : ThreadNamed(u)'
      BY <1>1, <1>2, <3>13, <3>15, NamedWrites
    <3>17. QED
      BY <3>11, <3>16
  <2>8. QED
    BY <2>5, <2>6, <2>7
<1>11. QED
  BY <1>9, <1>10

LEMMA NamedStep ==
  ASSUME Named, IInv, Sound, NEW t \in Thread, ThreadNamed(t), Step(t), ~Write(t)
  PROVE  ThreadNamed(t)'
<1>1. \A p \in Program[t] : \A i \in DOMAIN p : p[i] \in NamedStage
  <2>1. SUFFICES ASSUME NEW p \in Program[t], NEW i \in DOMAIN p PROVE p[i] \in NamedStage
    OBVIOUS
  <2>2. p[i] \in Seq(SUBSET Asked)
    BY ProgramAssumption
  <2>3. QED
    BY <2>2 DEF Named, NamedStage
<1>2. \A i \in DOMAIN rest[t] : rest[t][i] \in NamedStage
  BY DEF ThreadNamed
<1>3. \A i \in DOMAIN rest'[t] : rest'[t][i] \in NamedStage
  BY <1>1, <1>2, StepIs
<1>4. CASE Lock(t) \/ NestedLock(t)
  <2>1. CASE Lock(t)
    <3>1. PICK p \in Program[t] : Start(t, p[1], NoCtx) /\ ctx[t] = NoCtx /\ pc[t] = "idle"
      BY <2>1 DEF Lock, IInv, ThreadOK, ThreadTypes
    <3>2. p \in Seq(Seq(SUBSET Asked)) /\ p # << >>
      BY ProgramAssumption
    <3>3. 1 \in DOMAIN p
      BY <3>2
    <3>4. Begins(t, p[1])
      BY <2>1, <3>1 DEF Lock, Start, Begins, IInv, Shapes
    <3>5. QED
      BY <1>1, <1>3, <3>3, <3>4, NamedBegins
  <2>2. CASE NestedLock(t)
    <3>1. CASE Start(t, Head(rest[t]), ctx[t])
      <4>1. Begins(t, Head(rest[t]))
        BY <2>2, <3>1 DEF NestedLock, Start, Begins, IInv, Shapes
      <4>2. PICK r \in Seq(Seq(SUBSET Asked)) : r = rest[t] /\ r # << >>
        BY <2>2 DEF NestedLock, IInv, ThreadOK, ThreadTypes
      <4>3. 1 \in DOMAIN r /\ Head(r) = r[1]
        BY <4>2
      <4>4. Head(rest[t]) \in NamedStage
        BY <1>2, <4>2, <4>3
      <4>5. QED
        BY <1>3, <4>1, <4>4, NamedBegins
    <3>2. CASE ~Start(t, Head(rest[t]), ctx[t])
      <4>1. pc' = [pc EXCEPT ![t] = "unlock"]
        BY <2>2, <3>2 DEF NestedLock
      <4>2. pc'[t] = "unlock"
        BY <4>1 DEF IInv, Shapes
      <4>3. UNCHANGED <<data, keys, merged, todo, held, closures>>
        BY <2>2, <3>2 DEF NestedLock, cache
      <4>4. QED
        BY <1>3, <4>2, <4>3, NamedMoves
    <3>3. QED
      BY <3>1, <3>2
  <2>3. QED
    BY <1>4, <2>1, <2>2
<1>5. CASE RLock(t) \/ WLock(t)
  BY <1>5, NamedTake
<1>6. CASE Announce(t) \/ Cancelled(t) \/ Return(t) \/ CheckNewKey(t)
  <2>1. UNCHANGED <<data, keys, merged, todo, held, closures>>
    BY <1>6 DEF Announce, Cancelled, Return, CheckNewKey, cache
  <2>2. \/ pc'[t] = "unlock"
        \/ pc[t] = "lock" /\ pc'[t] = "pending"
        \/ /\ pc[t] = "check" /\ pc'[t] = "lock"
           /\ Lookup(keys, held[t][Len(held[t])].lock[2], held[t][Len(held[t])].lock[3]) = 0
    <3>1. CASE Announce(t)
      BY <3>1 DEF Announce, IInv, Shapes
    <3>2. CASE Cancelled(t) \/ Return(t)
      BY <3>2 DEF Cancelled, Return, IInv, Shapes
    <3>3. CASE CheckNewKey(t)
      <4>1. PICK l : l = held[t][Len(held[t])].lock
        OBVIOUS
      <4>2. pc[t] = "check"
            /\ pc' = [pc EXCEPT ![t] = IF Lookup(keys, l[2], l[3]) # 0 THEN "unlock" ELSE "lock"]
        BY <3>3, <4>1 DEF CheckNewKey
      <4>3. pc'[t] = IF Lookup(keys, l[2], l[3]) # 0 THEN "unlock" ELSE "lock"
        BY <4>2 DEF IInv, Shapes
      <4>4. QED
        BY <4>1, <4>2, <4>3
    <3>4. QED
      BY <1>6, <3>1, <3>2, <3>3
  <2>3. QED
    BY <1>3, <2>1, <2>2, NamedMoves
<1>7. CASE SetResults(t) \/ Create(t) \/ Unlock(t) \/ Done(t)
  BY <1>7, NamedResults, NamedCreate, NamedEnds
<1>8. QED
  BY <1>4, <1>5, <1>6, <1>7 DEF Step

LEMMA NamesStep ==
  ASSUME Named, IInv, Calm, [Next]_vars, Sound, \A u \in Thread : ThreadNamed(u)
  PROVE  Sound' /\ \A u \in Thread : ThreadNamed(u)'
<1>1. ASSUME UNCHANGED <<data, keys>>, NEW u, Same(u), ThreadNamed(u) PROVE ThreadNamed(u)'
  <2>1. Writing(u)' = Writing(u) /\ Locks(u)' = Locks(u)
    BY <1>1 DEF Same, Writing, Locks
  <2>2. \A s : /\ WriteNamed(s)' <=> WriteNamed(s)
               /\ Free(s)' <=> Free(s)
               /\ HasNew(u, s)' <=> HasNew(u, s)
               /\ Checking(u, s)' <=> Checking(u, s)
    BY <1>1, <2>1 DEF Same, WriteNamed, Free, HasNew, Checking
  <2>3. QED
    BY <1>1, <2>1, <2>2 DEF Same, ThreadNamed
<1>2. UNCHANGED <<data, keys>> => Sound'
  BY DEF Sound
<1>3. CASE UNCHANGED vars
  <2>1. UNCHANGED <<data, keys>> /\ \A u : Same(u)
    BY <1>3 DEF vars, Same
  <2>2. QED
    BY <1>1, <1>2, <2>1
<1>4. ASSUME NEW t \in Thread, Step(t), ~Write(t)
      PROVE  Sound' /\ \A u \in Thread : ThreadNamed(u)'
  <2>1. OnlyOf(t)
    BY <1>4, OthersSame
  <2>2. UNCHANGED <<data, keys>>
    BY <1>4, OnlyWrites DEF cache, Create
  <2>3. ThreadNamed(t)'
    BY <1>4, NamedStep
  <2>4. QED
    BY <1>1, <1>2, <2>1, <2>2, <2>3 DEF OnlyOf
<1>5. ASSUME NEW t \in Thread, Write(t) PROVE Sound' /\ \A u \in Thread : ThreadNamed(u)'
  BY <1>5, NamedWrite
<1>6. QED
  BY <1>3, <1>4, <1>5 DEF Next, Step

LEMMA NamesInit ==
  ASSUME Named, Init
  PROVE  Sound /\ \A u \in Thread : ThreadNamed(u)
<1> DEFINE S == {x \in DOMAIN Cached : x[1] \in Keyed \ {volume}}
           who(n) == CHOOSE e \in DOMAIN Cached : e[1] = n[1] /\ Cached[e].key = n[2]
           D == {<<e[1], Cached[e].key>> : e \in S}
<1>1. /\ DOMAIN data = DOMAIN Cached
      /\ \A e \in DOMAIN data : data[e].key = Cached[e].key
  BY DEF Init
<1>2. keys = [n \in D |-> who(n)[2]]
  BY DEF Init
<1>3. allowBlankID = Keyed \ {volume}
  BY Constants DEF Keyed, allowBlankID
<1>4. ASSUME NEW e \in DOMAIN Cached, e[1] \in allowBlankID
      PROVE  <<e[1], Cached[e].key>> \in D /\ who(<<e[1], Cached[e].key>>) = e
  <2>1. e \in S
    BY <1>3, <1>4
  <2>2. \A f \in DOMAIN Cached : f[1] = e[1] /\ Cached[f].key = Cached[e].key => f = e
    BY <1>4 DEF Named, Unique
  <2>3. PICK n : n = <<e[1], Cached[e].key>>
    OBVIOUS
  <2>4. n[1] = e[1] /\ n[2] = Cached[e].key
    BY <2>3
  <2>5. who(n) = e
    BY <2>2, <2>4
  <2>6. QED
    BY <2>1, <2>3, <2>5
<1>5. \A n \in D : \E e \in DOMAIN Cached : e[1] \in allowBlankID /\ n = <<e[1], Cached[e].key>>
  BY <1>3
<1> HIDE DEF who, D
<1>6. ASSUME NEW e \in DOMAIN data, e[1] \in allowBlankID
      PROVE  Lookup(keys, e[1], data[e].key) = e[2]
  <2>1. PICK n : n = <<e[1], Cached[e].key>>
    OBVIOUS
  <2>2. n \in D /\ who(n) = e
    BY <1>1, <1>4, <1>6, <2>1
  <2>3. n \in DOMAIN keys /\ keys[n] = e[2]
    BY <1>2, <2>2
  <2>4. QED
    BY <1>1, <1>6, <2>1, <2>3 DEF Lookup
<1>7. ASSUME NEW r \in allowBlankID, NEW k, Lookup(keys, r, k) # 0
      PROVE  /\ <<r, Lookup(keys, r, k)>> \in DOMAIN data
             /\ data[<<r, Lookup(keys, r, k)>>].key = k
  <2>1. <<r, k>> \in D
    BY <1>2, <1>7 DEF Lookup
  <2>2. PICK e \in DOMAIN Cached : e[1] \in allowBlankID /\ <<r, k>> = <<e[1], Cached[e].key>>
    BY <1>5, <2>1
  <2>3. r = e[1] /\ k = Cached[e].key
    BY <2>2
  <2>4. Lookup(keys, r, k) = e[2]
    BY <1>1, <1>6, <2>2, <2>3
  <2>5. e = <<r, e[2]>>
    BY <2>3, CachedAssumption
  <2>6. QED
    BY <1>1, <2>3, <2>4, <2>5
<1>8. ASSUME NEW u \in Thread PROVE ThreadNamed(u)
  <2>1. pc[u] = "idle" /\ rest[u] = << >>
    BY DEF Init
  <2>2. Writing(u) = {} /\ pc[u] \notin Active /\ pc[u] \notin Locking
    BY <2>1 DEF Writing, Active, Locking
  <2>3. QED
    BY <2>1, <2>2 DEF ThreadNamed
<1>9. QED
  BY <1>6, <1>7, <1>8 DEF Sound

(* Theorem: the uniqueKey maps are the inverse of the names, whatever      *)
(* creations, renames, updates and deletions of backends overlap, as long  *)
(* as no backend is renamed while another write of it is under way and no  *)
(* two writes introduce the same name without a lock on it (Calm).         *)
THEOREM KeysSoundHolds ==
  ASSUME Named
  PROVE  Spec /\ []Calm => []KeysSound
<1> DEFINE K == Sound /\ \A u \in Thread : ThreadNamed(u)
<1>1. Init => K
  BY NamesInit
<1>2. IInv /\ Calm /\ K /\ [Next]_vars => K'
  BY NamesStep
<1>3. IInv /\ K => KeysSound
  BY SoundIs DEF IInv
<1> HIDE DEF K
<1>4. QED
  BY <1>1, <1>2, <1>3, Invariant, PTL DEF Spec
=============================================================================
