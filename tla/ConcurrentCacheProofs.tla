------------------------ MODULE ConcurrentCacheProofs ------------------------
(* Proofs about ConcurrentCache for any goroutines, programs and contents. *)
EXTENDS ConcurrentCache, CacheQueryProofs

(* A lock at its place in the order.                                       *)
Lockable == [lock : {"key", "res"} \X Resource \X Nat, w : BOOLEAN, at : Place]
Apart(P) == \A x, y \in P : x.at = y.at => x = y

LEMMA ComparePlace ==
  ASSUME NEW s, FilledIn(s)
  PROVE  /\ compareSubqueries(s) \in Place
         /\ <<1 + resourceRanks[s.res], s.res, s.id, 0>> \in Place
         /\ <<1 + resourceRanks[s.res], s.res, s.id, 1>> \in Place
         /\ resourceRanks[s.res] \in Nat /\ s.res \in Nat
<1>1. resourceRanks[s.res] \in Nat
  BY Ranks DEF FilledIn, Rank
<1>2. s.res \in Nat /\ s.id \in Nat /\ s.op \in Nat
  BY Constants DEF FilledIn
<1>3. QED
  BY <1>1, <1>2 DEF compareSubqueries, Place

(* Of several subqueries for one resource the one with the least operation *)
(* sorts first: writes before reads.                                       *)
LEMMA FirstOfMember ==
  ASSUME NEW S, \A s \in S : FilledIn(s), NEW s \in S
  PROVE  LET f == FirstOf(S, elem(s)) IN f \in S /\ elem(f) = elem(s) /\ f.op <= s.op
<1> DEFINE E == {x \in S : elem(x) = elem(s)}
           O == {x.op : x \in E}
<1>1. PICK m \in O : \A n \in O : m <= n
  <2>1. O # {} /\ O \in SUBSET Nat
    BY DEF FilledIn
  <2>2. QED
    BY <2>1, LeastNat
<1>2. PICK f \in E : f.op = m
  OBVIOUS
<1>3. ASSUME NEW x \in E, NEW y \in E
      PROVE  Before(x, y) <=> x.op < y.op
  <2>1. x.res = y.res /\ x.id = y.id
    BY DEF elem
  <2>2. compareSubqueries(x) \in Place /\ compareSubqueries(y) \in Place
    BY ComparePlace
  <2>3. /\ compareSubqueries(x)[1] = compareSubqueries(y)[1]
        /\ compareSubqueries(x)[2] = compareSubqueries(y)[2]
        /\ compareSubqueries(x)[3] = compareSubqueries(y)[3]
        /\ compareSubqueries(x)[4] = x.op /\ compareSubqueries(y)[4] = y.op
    BY <2>1 DEF compareSubqueries
  <2>4. QED
    BY <2>2, <2>3, LexLessIs DEF Before, Place
<1>4. \E x \in S : elem(x) = elem(s) /\ \A y \in S : elem(y) = elem(s) => ~Before(y, x)
  <2>1. \A y \in E : ~Before(y, f)
    <3>1. ASSUME NEW y \in E PROVE ~(y.op < f.op)
      <4>1. m <= y.op
        BY <1>1
      <4>2. y.op \in 0..4 /\ f.op \in 0..4
        BY DEF FilledIn
      <4>3. QED
        BY <1>2, <4>1, <4>2
    <3>2. QED
      BY <1>3, <3>1
  <2>2. QED
    BY <2>1
<1> DEFINE g == FirstOf(S, elem(s))
<1>5. g \in S /\ elem(g) = elem(s) /\ \A y \in S : elem(y) = elem(s) => ~Before(y, g)
  BY <1>4 DEF FirstOf
<1>6. ~(s.op < g.op)
  BY <1>3, <1>5
<1>7. g.op \in Nat /\ s.op \in Nat
  BY <1>5 DEF FilledIn
<1>8. QED
  BY <1>5, <1>6, <1>7

(* The parts of a plan.                                                    *)
Fresh(m, c) == {s \in NewLocks(m, c) : s.id # 0}
Firsts(m, c) == {FirstOf(Fresh(m, c), e) : e \in {elem(s) : s \in Fresh(m, c)}}
NewKeyLock(s) == [lock |-> <<"key", s.res, s.newKey>>, w |-> isWriteOp(s.op),
                  at |-> <<0, s.res, s.newKey, 0>>]
KeyLock(s) == [lock |-> <<"key", s.res, s.key>>, w |-> isWriteOp(s.op),
               at |-> <<1 + resourceRanks[s.res], s.res, s.id, 0>>]
ResLock(s) == [lock |-> <<"res", s.res, s.id>>, w |-> isWriteOp(s.op),
               at |-> <<1 + resourceRanks[s.res], s.res, s.id, 1>>]

LEMMA PlanIs ==
  ASSUME NEW m, NEW c
  PROVE  LockPlan(m, c) = {NewKeyLock(s) : s \in {x \in m : x.newKey # 0}}
                          \cup {KeyLock(s) : s \in {x \in Firsts(m, c) : x.key # 0}}
                          \cup {ResLock(s) : s \in Firsts(m, c)}
  BY DEF LockPlan, Fresh, Firsts, NewKeyLock, KeyLock, ResLock

LEMMA FirstsAre ==
  ASSUME NEW m, NEW c, \A s \in m : FilledIn(s)
  PROVE  /\ \A f \in Firsts(m, c) : f \in m /\ FilledIn(f) /\ Consistent(f) /\ f.id # 0
         /\ \A f, g \in Firsts(m, c) : elem(f) = elem(g) => f = g
         /\ \A s \in Fresh(m, c) : \E f \in Firsts(m, c) : elem(f) = elem(s) /\ f.op <= s.op
<1>1. \A s \in Fresh(m, c) : s \in m /\ FilledIn(s) /\ Consistent(s) /\ s.id # 0
  BY DEF Fresh, NewLocks
<1>2. \A s \in Fresh(m, c) : LET f == FirstOf(Fresh(m, c), elem(s))
                             IN  f \in Fresh(m, c) /\ elem(f) = elem(s) /\ f.op <= s.op
  BY <1>1, FirstOfMember
<1>3. QED
  BY <1>1, <1>2 DEF Firsts

(* No two locks of a plan have the same place.                             *)
LEMMA PlanOrdered ==
  ASSUME NEW m, NEW c, \A s \in m : FilledIn(s)
  PROVE  LockPlan(m, c) \in SUBSET Lockable /\ Apart(LockPlan(m, c))
<1> DEFINE N == {x \in m : x.newKey # 0}
           F == Firsts(m, c)
<1>1. ASSUME NEW s \in N PROVE NewKeyLock(s) \in Lockable /\ isWriteOp(s.op)
  <2>1. s.res \in Resource /\ s.newKey \in Nat /\ s.op = upsert /\ s.res \in Nat
    BY Constants DEF FilledIn
  <2>2. isWriteOp(s.op) \in BOOLEAN /\ isWriteOp(s.op)
    BY <2>1, Operations DEF isWriteOp
  <2>3. QED
    BY <2>1, <2>2 DEF NewKeyLock, Lockable, Place
<1>2. ASSUME NEW s \in F PROVE KeyLock(s) \in Lockable /\ ResLock(s) \in Lockable
  <2>1. FilledIn(s)
    BY FirstsAre
  <2>2. isWriteOp(s.op) \in BOOLEAN
    BY DEF isWriteOp
  <2>3. QED
    BY <2>1, <2>2, ComparePlace DEF KeyLock, ResLock, Lockable, FilledIn
<1>3. LockPlan(m, c) \in SUBSET Lockable
  BY <1>1, <1>2, PlanIs
<1>4. ASSUME NEW s \in N, NEW x \in N, NewKeyLock(s).at = NewKeyLock(x).at
      PROVE  NewKeyLock(s) = NewKeyLock(x)
  <2>1. s.res = x.res /\ s.newKey = x.newKey
    BY <1>4 DEF NewKeyLock
  <2>2. isWriteOp(s.op) = isWriteOp(x.op)
    BY <1>1 DEF isWriteOp
  <2>3. QED
    BY <2>1, <2>2 DEF NewKeyLock
<1>5. ASSUME NEW s \in N, NEW x \in F
      PROVE  NewKeyLock(s).at # KeyLock(x).at /\ NewKeyLock(s).at # ResLock(x).at
  <2>1. resourceRanks[x.res] \in Nat
    BY FirstsAre, ComparePlace
  <2>2. 0 # 1 + resourceRanks[x.res]
    BY <2>1
  <2>3. QED
    BY <2>2 DEF NewKeyLock, KeyLock, ResLock
<1>6. ASSUME NEW s \in F, NEW x \in F
      PROVE  /\ KeyLock(s).at # ResLock(x).at
             /\ KeyLock(s).at = KeyLock(x).at => s = x
             /\ ResLock(s).at = ResLock(x).at => s = x
  <2>1. s.res = x.res /\ s.id = x.id => s = x
    BY FirstsAre DEF elem
  <2>2. QED
    BY <2>1 DEF KeyLock, ResLock
<1>7. Apart(LockPlan(m, c))
  BY <1>4, <1>5, <1>6, PlanIs DEF Apart
<1>8. QED
  BY <1>3, <1>7

(* A plan has the lock of every subquery for a resource that is not held.  *)
LEMMA PlanCovers ==
  ASSUME NEW m, NEW c, \A s \in m : FilledIn(s),
         NEW s \in m, Consistent(s), s.id # 0, elem(s) \notin DOMAIN c.qs
  PROVE  \E x \in LockPlan(m, c) : x.lock = <<"res", s.res, s.id>> /\ (isWriteOp(s.op) => x.w)
<1>1. s \in Fresh(m, c)
  BY DEF Fresh, NewLocks
<1>2. PICK f \in Firsts(m, c) : elem(f) = elem(s) /\ f.op <= s.op
  BY <1>1, FirstsAre
<1>3. FilledIn(f) /\ Consistent(f) /\ FilledIn(s)
  BY <1>2, FirstsAre
<1>4. isWriteOp(s.op) => isWriteOp(f.op)
  BY <1>2, <1>3, Operations DEF FilledIn
<1>5. ResLock(f) \in LockPlan(m, c)
  BY <1>2, PlanIs
<1>6. ResLock(f).lock = <<"res", s.res, s.id>>
  BY <1>2 DEF ResLock, elem
<1>7. ResLock(f).w = isWriteOp(f.op)
  BY DEF ResLock
<1>8. QED
  BY <1>4, <1>5, <1>6, <1>7

(* The first lock of a plan is one of its locks.                           *)
LEMMA TargetMember ==
  ASSUME NEW t, todo[t] \in SUBSET Lockable, Apart(todo[t]), todo[t] # {}
  PROVE  Target(t) \in todo[t] /\ Target(t) \in Lockable
         /\ \A y \in todo[t] \ {Target(t)} : LexLess(Target(t).at, y.at)
<1> DEFINE P == {x.at : x \in todo[t]}
<1>1. P \in SUBSET Place /\ P # {}
  BY DEF Lockable
<1>2. PICK p \in P : \A y \in P : y # p => LexLess(p, y)
  BY <1>1, LeastPlace
<1>3. PICK x \in todo[t] : x.at = p
  OBVIOUS
<1>4. \A y \in todo[t] \ {x} : LexLess(x.at, y.at)
  BY <1>2, <1>3 DEF Apart
<1>5. QED
  BY <1>4 DEF Target, Foremost

-----------------------------------------------------------------------------
(* The invariant.                                                          *)
PC == {"idle", "lock", "pending", "check", "granted", "unlock"}
Locking == {"lock", "pending", "check"}
Active == {"lock", "pending", "check", "granted"}

(* A lock is held, or is still to be taken, for writing if so asked.       *)
Locks(t) == {held[t][i] : i \in DOMAIN held[t]}
Held(t, r, i, w) == \E x \in Locks(t) : x.lock = <<"res", r, i>> /\ (w => x.w)
Due(t, r, i, w) == \E x \in todo[t] : x.lock = <<"res", r, i>> /\ (w => x.w)

(* The closures that setResults hands out.                                 *)
Closure(s) ==
  /\ IsSubquery(s)
  /\ s.res \in Resource \ {root} /\ s.op \in {upsert, del, create}
  /\ s.id \in Nat /\ s.key \in Nat /\ s.newKey \in Nat
  /\ s.dep \in [schema[s.res] -> Nat]
  /\ s.id = 0 \/ s.op = create => s.res \in allowBlankID
  /\ s.op = create => s.id # 0

(* The types of what a goroutine has.                                      *)
ThreadTypes(t) ==
  /\ pc[t] = "idle" => held[t] = << >> /\ closures[t] = {} /\ ctx[t] = NoCtx
  /\ rest[t] \in Seq(Seq(SUBSET Asked))
  /\ \A s \in merged[t] : FilledIn(s)
  /\ todo[t] \in SUBSET Lockable /\ Apart(todo[t])
  /\ held[t] \in Seq(Lockable)
  /\ pc[t] = "pending" => todo[t] # {} /\ Target(t).w
  /\ \A s \in closures[t] : Closure(s)

(* What a goroutine may change it has locked, or will have when it may.    *)
Covered(t) ==
  /\ pc[t] \in Locking =>
       \A s \in merged[t] : Consistent(s) /\ s.id # 0 =>
         \/ Held(t, s.res, s.id, isWriteOp(s.op))
         \/ Due(t, s.res, s.id, isWriteOp(s.op))
  /\ pc[t] \in Active =>
       \A e \in DOMAIN ctx[t].qs : e[2] # 0 => Held(t, e[1], e[2], ctx[t].qs[e])
  /\ pc[t] \in Active =>
       \A s \in closures[t] : s.id # 0 /\ s.op # create => Held(t, s.res, s.id, TRUE)

(* Who may change anything holds the root.                                 *)
RootRead(t) ==
  /\ pc[t] \in Active =>
       /\ ctx[t].root => Held(t, root, 1, FALSE)
       /\ closures[t] # {} \/ DOMAIN ctx[t].qs # {} => ctx[t].root
  /\ pc[t] \in Locking /\ ~ctx[t].root /\ (\E s \in merged[t] : Consistent(s)) =>
       Read(root, 1) \in merged[t]

ThreadOK(t) == ThreadTypes(t) /\ Covered(t) /\ RootRead(t)

(* New ids are new.                                                        *)
NewIds ==
  /\ uuids \subseteq UUID
  /\ \A e \in DOMAIN data : e[1] \in allowBlankID => e[2] \notin uuids
  /\ \A t \in Thread : \A s \in closures[t] : s.op = create =>
       s.id \notin uuids /\ elem(s) \notin DOMAIN data
  /\ \A t, u \in Thread : \A s \in closures[t], x \in closures[u] :
       s.op = create /\ x.op = create /\ s.id = x.id => t = u /\ s = x

(* A writer has its lock for itself, and one that has announced itself is  *)
(* the next.                                                               *)
Exclusion ==
  /\ \A t, u \in Thread : \A x \in Locks(t), y \in Locks(u) :
       x.lock = y.lock /\ x.w => t = u /\ y.w
  /\ \A t, u \in Thread : \A x \in Locks(t) :
       pc[u] = "pending" /\ x.w => x.lock # Target(u).lock
  /\ \A t, u \in Thread : pc[t] = "pending" /\ pc[u] = "pending" /\ t # u =>
       Target(t).lock # Target(u).lock

CacheTypes ==
  /\ DataOK(data) /\ \A e \in DOMAIN data : data[e].v \in {0, 1}
  /\ DOMAIN keys \subseteq Keyed \X (Nat \ {0})
  /\ \A k \in DOMAIN keys : keys[k] \in Nat \ {0}

Shapes ==
  /\ pc \in [Thread -> PC]
  /\ DOMAIN rest = Thread /\ DOMAIN merged = Thread /\ DOMAIN todo = Thread
  /\ DOMAIN held = Thread /\ DOMAIN ctx = Thread /\ DOMAIN closures = Thread
  /\ DOMAIN owners = Thread

IInv ==
  /\ Shapes /\ CacheTypes /\ NewIds /\ Exclusion
  /\ \A t \in Thread : ThreadOK(t)

-----------------------------------------------------------------------------
(* What lock() works on after phase 2: every subquery comes from one that  *)
(* was asked for, or is a read of an owner or of the root.                 *)
LEMMA MergedIs ==
  ASSUME CacheTypes, NEW stage \in Seq(SUBSET Asked), NEW c, NEW m, m = mergeQueries(stage, c)
  PROVE  /\ \A s \in m : FilledIn(s)
         /\ \A s \in m : \/ s = Read(root, 1)
                         \/ \E x \in Sub(stage) : x.res = s.res /\ x.op = s.op
                         \/ /\ s.op = read /\ s.res # root
                            /\ \E x \in Sub(stage) : Consistent(x) /\ schema[x.res] # {}
         /\ \A x \in Sub(stage) : x.op = list => x \in m
         /\ (\E s \in m : Consistent(s)) /\ ~c.root => Read(root, 1) \in m
         /\ Reads(stage) => \A s \in m : Consistent(s) => \A o \in schema[s.res] :
              \E x \in m : Consistent(x) /\ x.res = o /\ x.id = s.dep[o]
<1> DEFINE G(j) == fillInIDs(buildTrees(stage[j]), data, keys).q
           z == Read(root, 1)
<1>1. /\ \A s \in m : (\E j \in DOMAIN stage : s \in G(j)) \/ s = z
      /\ \A j \in DOMAIN stage : G(j) \subseteq m
      /\ HasConsistent(stage) /\ ~c.root => z \in m
  <2>1. \A j \in DOMAIN stage : Filled(stage)[j].q = G(j)
    BY DEF Filled, Assembled
  <2> HIDE DEF z, G
  <2> DEFINE R == IF HasConsistent(stage) /\ ~c.root THEN {z} ELSE {}
             U == {Filled(stage)[j].q : j \in DOMAIN stage}
  <2>2. m = (UNION U) \cup R
    BY DEF mergeQueries, z
  <2>3. R \subseteq {z} /\ (HasConsistent(stage) /\ ~c.root => z \in R)
    OBVIOUS
  <2>4. /\ \A s \in UNION U : \E j \in DOMAIN stage : s \in G(j)
        /\ \A j \in DOMAIN stage : G(j) \subseteq UNION U
    BY <2>1
  <2> HIDE DEF R, U
  <2>5. QED
    BY <2>2, <2>3, <2>4
<1> HIDE DEF z, G
<1>2. DataOK(data) /\ KeysOK(keys)
  BY DEF CacheTypes, KeysOK
<1>3. \A j \in DOMAIN stage : stage[j] \in SUBSET Asked /\ stage[j] \subseteq Sub(stage)
  BY DEF Sub
<1>4. FilledIn(z) /\ schema[z.res] = {} /\ Consistent(z)
  <2>1. z = [res |-> root, op |-> read, id |-> 1, key |-> 0, newKey |-> 0, dep |-> NoDep]
    BY DEF z, Read, Subquery
  <2>2. z.res = root /\ z.op = read /\ z.id = 1 /\ z.key = 0 /\ z.newKey = 0 /\ z.dep = NoDep
    BY ONLY <2>1
  <2>3. IsSubquery(z)
    BY ONLY <2>1 DEF IsSubquery
  <2>4. root \in Resource /\ schema[root] = {}
    BY Constants, Schema
  <2>5. NoDep \in [{} -> Nat]
    BY DEF NoDep
  <2>6. QED
    BY <2>2, <2>3, <2>4, <2>5, Operations DEF FilledIn
<1>5. ASSUME NEW j \in DOMAIN stage, NEW s \in G(j)
      PROVE  /\ FilledIn(s)
             /\ \E x \in buildTrees(stage[j]) : x.res = s.res /\ x.op = s.op
             /\ Consistent(s) => \A o \in schema[s.res] :
                  \E x \in G(j), y \in buildTrees(stage[j]) :
                    /\ x.res = o /\ x.op # list /\ x.id = s.dep[o]
                    /\ y.res = o /\ y.op = x.op
  BY <1>2, <1>3, FilledQuery DEF G
<1>6. ASSUME NEW j \in DOMAIN stage
      PROVE  /\ stage[j] \subseteq buildTrees(stage[j])
             /\ \A s \in buildTrees(stage[j]) \ stage[j] :
                  /\ s.op = read /\ s.newKey = 0 /\ s.res # root
                  /\ \E x \in stage[j] : Consistent(x) /\ schema[x.res] # {}
  BY <1>3, Trees
<1>7. \A s \in m : FilledIn(s)
  BY <1>1, <1>4, <1>5
<1>8. ASSUME NEW s \in m
      PROVE  \/ s = z
             \/ \E x \in Sub(stage) : x.res = s.res /\ x.op = s.op
             \/ /\ s.op = read /\ s.res # root
                /\ \E x \in Sub(stage) : Consistent(x) /\ schema[x.res] # {}
  <2>1. CASE s = z
    BY <2>1
  <2>2. ASSUME NEW j \in DOMAIN stage, s \in G(j)
        PROVE  \/ \E x \in Sub(stage) : x.res = s.res /\ x.op = s.op
               \/ /\ s.op = read /\ s.res # root
                  /\ \E x \in Sub(stage) : Consistent(x) /\ schema[x.res] # {}
    <3>1. PICK x \in buildTrees(stage[j]) : x.res = s.res /\ x.op = s.op
      BY <1>5, <2>2
    <3>2. CASE x \in stage[j]
      BY <1>3, <3>1, <3>2
    <3>3. CASE x \notin stage[j]
      BY <1>3, <1>6, <3>1, <3>3
    <3>4. QED
      BY <3>2, <3>3
  <2>3. QED
    BY <1>1, <2>1, <2>2
<1>9. ASSUME NEW x \in Sub(stage), x.op = list PROVE x \in m
  <2>1. PICK j \in DOMAIN stage : x \in stage[j]
    BY DEF Sub
  <2>2. x \in buildTrees(stage[j])
    BY <1>6, <2>1
  <2>3. x \in G(j)
    BY <1>9, <2>2 DEF G, fillInIDs
  <2>4. QED
    BY <1>1, <2>3
<1>10. ASSUME NEW s \in m, Consistent(s), ~c.root PROVE z \in m
  <2>1. CASE s = z
    BY <2>1
  <2>2. CASE \E x \in Sub(stage) : Consistent(x)
    <3>1. HasConsistent(stage)
      BY <2>2 DEF HasConsistent, Sub
    <3>2. QED
      BY <1>1, <1>10, <3>1
  <2>3. ASSUME NEW x \in Sub(stage), x.res = s.res /\ x.op = s.op PROVE Consistent(x)
    BY <1>10, <2>3, Operations
  <2>4. QED
    BY <1>8, <2>1, <2>2, <2>3
<1>11. ASSUME Reads(stage), NEW s \in m, Consistent(s), NEW o \in schema[s.res]
       PROVE  \E x \in m : Consistent(x) /\ x.res = o /\ x.id = s.dep[o]
  <2>1. PICK j \in DOMAIN stage : s \in G(j)
    BY <1>1, <1>4, <1>11
  <2>2. PICK x \in G(j), y \in buildTrees(stage[j]) :
          x.res = o /\ x.op # list /\ x.id = s.dep[o] /\ y.res = o /\ y.op = x.op
    BY <1>5, <1>11, <2>1
  <2>3. PICK a \in buildTrees(stage[j]) : a.res = s.res /\ a.op = s.op
    BY <1>5, <2>1
  <2>4. Consistent(a)
    BY <1>11, <2>3, Operations
  <2>5. y.op # inconsistentRead
    <3>1. CASE y \in stage[j]
      BY <1>11, <2>2, <2>3, <2>4, <3>1 DEF Reads
    <3>2. CASE y \notin stage[j]
      BY <1>6, <3>2, Operations
    <3>3. QED
      BY <3>1, <3>2
  <2>6. Consistent(x)
    BY <2>2, <2>5, Operations
  <2>7. QED
    BY <1>1, <2>2, <2>6
<1>12. QED
  BY <1>7, <1>8, <1>9, <1>10, <1>11 DEF z

(* A write lock in a plan is for a write that was merged.                  *)
LEMMA PlanWrites ==
  ASSUME NEW m, NEW c, \A s \in m : FilledIn(s),
         NEW x \in LockPlan(m, c), x.lock[1] = "res"
  PROVE  \E s \in m : x.lock = <<"res", s.res, s.id>> /\ (x.w => isWriteOp(s.op))
<1>1. PICK s \in Firsts(m, c) : x = ResLock(s)
  <2>1. ASSUME NEW s PROVE NewKeyLock(s).lock[1] # "res" /\ KeyLock(s).lock[1] # "res"
    BY DEF NewKeyLock, KeyLock
  <2>2. QED
    BY <2>1, PlanIs
<1>2. s \in m
  BY FirstsAre
<1>3. QED
  BY <1>1, <1>2 DEF ResLock

-----------------------------------------------------------------------------
(* A step of one goroutine leaves the others alone.                        *)
Same(u) ==
  /\ pc'[u] = pc[u] /\ rest'[u] = rest[u] /\ merged'[u] = merged[u] /\ todo'[u] = todo[u]
  /\ held'[u] = held[u] /\ ctx'[u] = ctx[u] /\ closures'[u] = closures[u]
  /\ owners'[u] = owners[u]
OnlyOf(t) == Shapes' /\ \A u \in Thread \ {t} : Same(u)

Step(t) ==
  \/ Lock(t) \/ NestedLock(t)
  \/ RLock(t) \/ Announce(t) \/ WLock(t) \/ CheckNewKey(t)
  \/ SetResults(t) \/ Cancelled(t)
  \/ Create(t) \/ Write(t) \/ Return(t) \/ Unlock(t) \/ Done(t)

LEMMA SameOK ==
  ASSUME NEW u, Same(u), ThreadOK(u)
  PROVE  ThreadOK(u)'
<1>1. Target(u)' = Target(u) /\ Locks(u)' = Locks(u)
  BY DEF Same, Target, Locks
<1>2. ThreadTypes(u)'
  BY <1>1 DEF Same, ThreadTypes, ThreadOK
<1>3. Covered(u)'
  BY <1>1 DEF Same, Covered, ThreadOK, Held, Due
<1>4. RootRead(u)'
  BY <1>1 DEF Same, RootRead, ThreadOK, Held
<1>5. QED
  BY <1>2, <1>3, <1>4 DEF ThreadOK

LEMMA OthersSame ==
  ASSUME IInv, NEW t \in Thread, Step(t)
  PROVE  OnlyOf(t)
<1>0. Shapes
  BY DEF IInv
<1>1. CASE Lock(t)
  BY <1>0, <1>1 DEF Lock, Start, OnlyOf, Same, Shapes, PC
<1>2. CASE NestedLock(t)
  BY <1>0, <1>2 DEF NestedLock, Start, OnlyOf, Same, Shapes, PC
<1>3. CASE RLock(t)
  BY <1>0, <1>3 DEF RLock, Take, OnlyOf, Same, Shapes, PC
<1>4. CASE Announce(t)
  BY <1>0, <1>4 DEF Announce, OnlyOf, Same, Shapes, PC
<1>5. CASE WLock(t)
  BY <1>0, <1>5 DEF WLock, Take, OnlyOf, Same, Shapes, PC
<1>6. CASE CheckNewKey(t)
  BY <1>0, <1>6 DEF CheckNewKey, OnlyOf, Same, Shapes, PC
<1>7. CASE SetResults(t)
  BY <1>0, <1>7 DEF SetResults, OnlyOf, Same, Shapes, PC
<1>8. CASE Cancelled(t)
  BY <1>0, <1>8 DEF Cancelled, OnlyOf, Same, Shapes, PC
<1>9. CASE Create(t)
  BY <1>0, <1>9 DEF Create, OnlyOf, Same, Shapes, PC
<1>10. CASE Write(t)
  BY <1>0, <1>10 DEF Write, OnlyOf, Same, Shapes, PC
<1>11. CASE Return(t)
  BY <1>0, <1>11 DEF Return, OnlyOf, Same, Shapes, PC
<1>12. CASE Unlock(t)
  BY <1>0, <1>12 DEF Unlock, OnlyOf, Same, Shapes, PC
<1>13. CASE Done(t)
  BY <1>0, <1>13 DEF Done, OnlyOf, Same, Shapes, PC
<1>14. QED
  BY <1>1, <1>2, <1>3, <1>4, <1>5, <1>6, <1>7, <1>8, <1>9, <1>10, <1>11, <1>12, <1>13 DEF Step

(* Exclusion survives a step that takes no lock and announces no writer.   *)
LEMMA ExclusionKept ==
  ASSUME Exclusion, NEW t \in Thread, OnlyOf(t), Locks(t)' \subseteq Locks(t),
         pc'[t] # "pending"
  PROVE  Exclusion'
<1>1. \A u \in Thread : /\ Locks(u)' \subseteq Locks(u)
                        /\ pc'[u] = "pending" => pc[u] = "pending" /\ Target(u)' = Target(u)
  BY DEF OnlyOf, Same, Locks, Target
<1>2. QED
  BY <1>1 DEF Exclusion

(* What steps that touch neither the caches nor the closures keep.         *)
LEMMA IdsKept ==
  ASSUME CacheTypes, NewIds, UNCHANGED cache,
         \A u \in Thread : \A s \in closures'[u] : s.op = create => s \in closures[u]
  PROVE  CacheTypes' /\ NewIds'
<1>1. CacheTypes'
  BY DEF CacheTypes, cache
<1>2. NewIds'
  BY DEF NewIds, cache
<1>3. QED
  BY <1>1, <1>2

-----------------------------------------------------------------------------
(* lock() plans the locks of what it has merged.                           *)
LEMMA Starts ==
  ASSUME CacheTypes, NEW t \in Thread, ThreadOK(t), pc[t] \in {"idle", "granted"},
         NEW stage \in Seq(SUBSET Asked), NEW c, c = ctx[t], ~Rejected(stage, c),
         NEW m, m = mergeQueries(stage, c),
         merged'[t] = m, todo'[t] = LockPlan(m, c), pc'[t] = "lock",
         rest'[t] \in Seq(Seq(SUBSET Asked)),
         held'[t] = held[t], ctx'[t] = ctx[t], closures'[t] = closures[t]
  PROVE  ThreadOK(t)'
<1>1. /\ \A e \in DOMAIN c.qs : e[2] # 0 => Held(t, e[1], e[2], c.qs[e])
      /\ \A s \in closures[t] : s.id # 0 /\ s.op # create => Held(t, s.res, s.id, TRUE)
      /\ c.root => Held(t, root, 1, FALSE)
      /\ closures[t] # {} \/ DOMAIN c.qs # {} => c.root
  <2>1. CASE pc[t] = "idle"
    <3>1. c = NoCtx /\ closures[t] = {}
      BY <2>1 DEF ThreadOK, ThreadTypes
    <3>2. DOMAIN NoCtx.qs = {} /\ ~NoCtx.root
      BY DEF NoCtx
    <3>3. QED
      BY <3>1, <3>2
  <2>2. CASE pc[t] = "granted"
    BY <2>2 DEF ThreadOK, Covered, RootRead, Active
  <2>3. QED
    BY <2>1, <2>2
<1>2. Locks(t)' = Locks(t)
  BY DEF Locks
<1>3. \A s \in m : FilledIn(s)
  BY MergedIs
<1>4. LockPlan(m, c) \in SUBSET Lockable /\ Apart(LockPlan(m, c))
  BY <1>3, PlanOrdered
<1>5. ASSUME NEW s \in m, Consistent(s), s.id # 0
      PROVE  \/ Held(t, s.res, s.id, isWriteOp(s.op))
             \/ \E x \in LockPlan(m, c) : x.lock = <<"res", s.res, s.id>>
                                          /\ (isWriteOp(s.op) => x.w)
  <2>1. CASE elem(s) \notin DOMAIN c.qs
    BY <1>3, <1>5, <2>1, PlanCovers
  <2>2. CASE elem(s) \in DOMAIN c.qs
    <3>1. ~c.qs[elem(s)] => ~isWriteOp(s.op)
      BY <2>2 DEF Rejected
    <3>2. Held(t, s.res, s.id, c.qs[elem(s)])
      BY <1>1, <1>5, <2>2 DEF elem
    <3>3. QED
      BY <3>1, <3>2 DEF Held
  <2>3. QED
    BY <2>1, <2>2
<1>6. (\E s \in m : Consistent(s)) /\ ~c.root => Read(root, 1) \in m
  BY MergedIs
<1>7. ThreadTypes(t)'
  BY <1>3, <1>4 DEF ThreadOK, ThreadTypes
<1>8. Covered(t)'
  <2>1. \A r, i, w : Held(t, r, i, w)' <=> Held(t, r, i, w)
    BY <1>2 DEF Held
  <2>2. ASSUME NEW s \in m, Consistent(s), s.id # 0
        PROVE  (\/ Held(t, s.res, s.id, isWriteOp(s.op))
                \/ Due(t, s.res, s.id, isWriteOp(s.op)))'
    BY <1>5, <2>1, <2>2 DEF Due
  <2>3. QED
    BY <1>1, <2>1, <2>2 DEF Covered
<1>9. RootRead(t)'
  BY <1>1, <1>2, <1>6 DEF RootRead, Held
<1>10. QED
  BY <1>7, <1>8, <1>9 DEF ThreadOK

LEMMA LockOK ==
  ASSUME IInv, NEW t \in Thread, Lock(t)
  PROVE  IInv'
<1>1. CacheTypes /\ NewIds /\ Exclusion /\ ThreadOK(t) /\ UNCHANGED cache
  BY DEF IInv, Lock
<1>2. OnlyOf(t)
  BY OthersSame DEF Step
<1>3. PICK p \in Program[t] : /\ ~Rejected(p[1], NoCtx) /\ Start(t, p[1], NoCtx)
                              /\ rest' = [rest EXCEPT ![t] = Tail(p)]
  BY DEF Lock
<1>4. p \in Seq(Seq(SUBSET Asked)) /\ p # << >>
  BY ProgramAssumption
<1>5. p[1] \in Seq(SUBSET Asked) /\ Tail(p) \in Seq(Seq(SUBSET Asked))
  BY <1>4
<1>6. pc[t] = "idle" /\ ctx[t] = NoCtx
  BY <1>1 DEF Lock, ThreadOK, ThreadTypes
<1> DEFINE m == mergeQueries(p[1], NoCtx)
<1>7. /\ merged'[t] = m /\ todo'[t] = LockPlan(m, NoCtx) /\ pc'[t] = "lock"
      /\ rest'[t] = Tail(p)
      /\ held'[t] = held[t] /\ ctx'[t] = ctx[t] /\ closures'[t] = closures[t]
  BY <1>3 DEF Lock, Start, IInv, Shapes
<1>8. ThreadOK(t)'
  BY <1>1, <1>3, <1>5, <1>6, <1>7, Starts
<1>9. Exclusion'
  BY <1>1, <1>2, <1>7, ExclusionKept DEF Locks
<1>10. CacheTypes' /\ NewIds'
  BY <1>1, IdsKept DEF Lock
<1>11. QED
  BY <1>2, <1>8, <1>9, <1>10, SameOK DEF IInv, OnlyOf

(* The steps that only move a goroutine.                                   *)
LEMMA MovesOK ==
  ASSUME IInv, NEW t \in Thread, Step(t), UNCHANGED <<cache, merged, todo, held, ctx, closures>>,
         pc[t] # "idle", rest'[t] \in Seq(Seq(SUBSET Asked)),
         \/ pc'[t] = "unlock"
         \/ pc[t] \in Locking /\ pc'[t] = "lock"
  PROVE  IInv'
<1>1. CacheTypes /\ NewIds /\ Exclusion /\ ThreadOK(t)
  BY DEF IInv
<1>2. OnlyOf(t)
  BY OthersSame
<1>3. Locks(t)' = Locks(t)
  BY DEF Locks
<1>4. ThreadTypes(t)'
  BY <1>1 DEF ThreadOK, ThreadTypes
<1>5. Covered(t)'
  BY <1>1, <1>3 DEF ThreadOK, Covered, Locking, Active, Held, Due
<1>6. RootRead(t)'
  BY <1>1, <1>3 DEF ThreadOK, RootRead, Locking, Active, Held
<1>7. Exclusion'
  BY <1>1, <1>2, <1>3, ExclusionKept
<1>8. CacheTypes' /\ NewIds'
  BY <1>1, IdsKept
<1>9. QED
  BY <1>2, <1>4, <1>5, <1>6, <1>7, <1>8, SameOK DEF IInv, OnlyOf, ThreadOK

LEMMA NestedLockOK ==
  ASSUME IInv, NEW t \in Thread, NestedLock(t)
  PROVE  IInv'
<1>1. CacheTypes /\ NewIds /\ Exclusion /\ ThreadOK(t) /\ UNCHANGED cache
  BY DEF IInv, NestedLock
<1>2. OnlyOf(t)
  BY OthersSame DEF Step
<1>3. rest[t] \in Seq(Seq(SUBSET Asked)) /\ rest[t] # << >> /\ pc[t] = "granted"
  BY <1>1 DEF NestedLock, ThreadOK, ThreadTypes
<1>4. Head(rest[t]) \in Seq(SUBSET Asked) /\ Tail(rest[t]) \in Seq(Seq(SUBSET Asked))
  BY <1>3
<1>5. rest'[t] = Tail(rest[t])
  BY DEF NestedLock, IInv, Shapes
<1>6. CASE pc' = [pc EXCEPT ![t] = "unlock"] /\ UNCHANGED <<merged, todo>>
  <2>1. pc'[t] = "unlock"
    BY <1>6 DEF IInv, Shapes
  <2>2. QED
    BY <1>3, <1>4, <1>5, <1>6, <2>1, MovesOK DEF NestedLock, Step
<1>7. CASE ~Rejected(Head(rest[t]), ctx[t]) /\ Start(t, Head(rest[t]), ctx[t])
  <2>1. PICK stage \in Seq(SUBSET Asked) : stage = Head(rest[t])
    BY <1>4
  <2>2. PICK c : c = ctx[t]
    OBVIOUS
  <2>3. PICK m : m = mergeQueries(stage, c)
    OBVIOUS
  <2>4. /\ merged'[t] = m /\ todo'[t] = LockPlan(m, c) /\ pc'[t] = "lock"
        /\ held'[t] = held[t] /\ ctx'[t] = ctx[t] /\ closures'[t] = closures[t]
    BY <1>7, <2>1, <2>2, <2>3 DEF NestedLock, Start, IInv, Shapes
  <2>5. ThreadOK(t)'
    BY <1>1, <1>3, <1>4, <1>5, <1>7, <2>1, <2>2, <2>3, <2>4, Starts
  <2>6. Exclusion'
    BY <1>1, <1>2, <2>4, ExclusionKept DEF Locks
  <2>7. CacheTypes' /\ NewIds'
    BY <1>1, IdsKept DEF NestedLock
  <2>8. QED
    BY <1>2, <2>5, <2>6, <2>7, SameOK DEF IInv, OnlyOf
<1>8. QED
  BY <1>6, <1>7 DEF NestedLock

-----------------------------------------------------------------------------
(* The lock a goroutine takes was the first to do.                         *)
LEMMA TakeOK ==
  ASSUME IInv, NEW t \in Thread, Step(t), pc[t] \in {"lock", "pending"}, todo[t] # {}, Take(t),
         pc'[t] \in {"lock", "check"}
  PROVE  /\ ThreadOK(t)' /\ CacheTypes' /\ NewIds'
         /\ Target(t) \in todo[t] /\ Target(t) \in Lockable
         /\ Locks(t)' = Locks(t) \cup {Target(t)}
<1>1. CacheTypes /\ NewIds /\ ThreadOK(t) /\ UNCHANGED cache
  BY DEF IInv, Take
<1>2. /\ rest'[t] = rest[t] /\ merged'[t] = merged[t] /\ ctx'[t] = ctx[t]
      /\ closures'[t] = closures[t]
      /\ held'[t] = Append(held[t], Target(t)) /\ todo'[t] = todo[t] \ {Target(t)}
  BY DEF Take, IInv, Shapes
<1>3. PICK x : x = Target(t)
  OBVIOUS
<1>4. x \in todo[t] /\ x \in Lockable
  BY <1>1, <1>3, TargetMember DEF ThreadOK, ThreadTypes
<1>5. held[t] \in Seq(Lockable)
  BY <1>1 DEF ThreadOK, ThreadTypes
<1>6. held'[t] \in Seq(Lockable) /\ Locks(t)' = Locks(t) \cup {x}
  <2>1. held'[t] \in Seq(Lockable)
    BY <1>2, <1>3, <1>4, <1>5
  <2>2. DOMAIN held[t] = 1..Len(held[t]) /\ DOMAIN held'[t] = 1..(Len(held[t]) + 1)
    BY <1>2, <1>3, <1>4, <1>5
  <2>3. /\ \A i \in 1..Len(held[t]) : held'[t][i] = held[t][i]
        /\ held'[t][Len(held[t]) + 1] = x
    BY <1>2, <1>3, <1>4, <1>5
  <2>4. /\ Len(held[t]) \in Nat
        /\ \A i \in 1..(Len(held[t]) + 1) : i \in 1..Len(held[t]) \/ i = Len(held[t]) + 1
        /\ \A i \in 1..Len(held[t]) : i \in 1..(Len(held[t]) + 1)
        /\ Len(held[t]) + 1 \in 1..(Len(held[t]) + 1)
    BY <1>5
  <2>5. QED
    BY <2>1, <2>2, <2>3, <2>4 DEF Locks
<1>7. ThreadTypes(t)'
  BY <1>1, <1>2, <1>6 DEF ThreadOK, ThreadTypes, Apart
<1>8. \A r, i, w : /\ Held(t, r, i, w) => Held(t, r, i, w)'
                   /\ Due(t, r, i, w) => Held(t, r, i, w)' \/ Due(t, r, i, w)'
  BY <1>2, <1>3, <1>4, <1>6 DEF Held, Due
<1>9. Covered(t)'
  BY <1>1, <1>2, <1>8 DEF ThreadOK, Covered, Locking, Active
<1>10. RootRead(t)'
  BY <1>1, <1>2, <1>8 DEF ThreadOK, RootRead, Locking, Active
<1>11. CacheTypes' /\ NewIds'
  BY <1>1, IdsKept DEF Take
<1>12. QED
  BY <1>3, <1>4, <1>6, <1>7, <1>9, <1>10, <1>11 DEF ThreadOK

(* Who has a lock for writing, or has announced itself.                    *)
LEMMA WritersAre ==
  ASSUME IInv, NEW l, Writers(l) = {}, NEW u \in Thread
  PROVE  /\ \A y \in Locks(u) : y.lock = l => ~y.w
         /\ pc[u] = "pending" => Target(u).lock # l
<1>1. u \notin Writers(l)
  OBVIOUS
<1>2. \A i \in DOMAIN held[u] : held[u][i].lock = l => held[u][i].w # TRUE
  BY <1>1 DEF Writers, Holds
<1>3. \A i \in DOMAIN held[u] : held[u][i] \in Lockable
  BY DEF IInv, ThreadOK, ThreadTypes
<1>4. \A y \in Locks(u) : y.lock = l => y.w # TRUE
  BY <1>2 DEF Locks
<1>5. QED
  BY <1>1, <1>4 DEF Writers

LEMMA ReadersAre ==
  ASSUME IInv, NEW l, Readers(l) = {}, NEW u \in Thread, NEW y \in Locks(u), y.lock = l
  PROVE  y.w
<1>1. u \notin Readers(l)
  OBVIOUS
<1>2. PICK i \in DOMAIN held[u] : y = held[u][i]
  BY DEF Locks
<1>3. y.w # FALSE
  BY <1>1, <1>2 DEF Readers, Holds
<1>4. y.w \in BOOLEAN
  <2>1. held[u] \in Seq(Lockable)
    BY DEF IInv, ThreadOK, ThreadTypes
  <2>2. y \in Lockable
    BY <1>2, <2>1
  <2>3. QED
    BY <2>2 DEF Lockable
<1>5. QED
  BY <1>3, <1>4

LEMMA RLockOK ==
  ASSUME IInv, NEW t \in Thread, RLock(t)
  PROVE  IInv'
<1>1. OnlyOf(t)
  BY OthersSame DEF Step
<1>2. pc'[t] = "lock" /\ pc[t] = "lock" /\ todo[t] # {} /\ Take(t)
  BY DEF RLock
<1>3. PICK x : x = Target(t)
  OBVIOUS
<1>4. /\ ThreadOK(t)' /\ CacheTypes' /\ NewIds'
      /\ x \in Lockable /\ Locks(t)' = Locks(t) \cup {x}
  BY <1>2, <1>3, TakeOK DEF Step
<1>5. ~x.w
  BY <1>3 DEF RLock
<1>6. \A u \in Thread : /\ \A y \in Locks(u) : y.lock = x.lock => ~y.w
                        /\ pc[u] = "pending" => Target(u).lock # x.lock
  BY <1>3, WritersAre DEF RLock
<1>7. \A u \in Thread \ {t} : Locks(u)' = Locks(u) /\ Target(u)' = Target(u) /\ pc'[u] = pc[u]
  BY <1>1 DEF OnlyOf, Same, Locks, Target
<1>8. Exclusion
  BY DEF IInv
<1>9. \A u \in Thread : \A y \in Locks(u)' : y \in Locks(u) \/ (y = x /\ u = t)
  BY <1>4, <1>7
<1>10. \A u \in Thread : pc'[u] = "pending" => pc[u] = "pending" /\ Target(u)' = Target(u)
  BY <1>2, <1>7
<1>11. Exclusion'
  BY <1>5, <1>6, <1>8, <1>9, <1>10 DEF Exclusion
<1>12. QED
  BY <1>1, <1>4, <1>11, SameOK DEF IInv, OnlyOf

LEMMA AnnounceOK ==
  ASSUME IInv, NEW t \in Thread, Announce(t)
  PROVE  IInv'
<1>1. CacheTypes /\ NewIds /\ Exclusion /\ ThreadOK(t)
  BY DEF IInv
<1>2. OnlyOf(t)
  BY OthersSame DEF Step
<1>3. Locks(t)' = Locks(t) /\ Target(t)' = Target(t) /\ pc'[t] = "pending" /\ pc[t] = "lock"
  BY DEF Locks, Target, Announce, IInv, Shapes
<1>4. ThreadTypes(t)'
  BY <1>1, <1>3 DEF ThreadOK, ThreadTypes, Announce
<1>5. Covered(t)'
  BY <1>1, <1>3 DEF ThreadOK, Covered, Locking, Active, Held, Due, Announce
<1>6. RootRead(t)'
  BY <1>1, <1>3 DEF ThreadOK, RootRead, Locking, Active, Held, Announce
<1>7. CacheTypes' /\ NewIds'
  BY <1>1, IdsKept DEF Announce
<1>8. \A u \in Thread : /\ \A y \in Locks(u) : y.lock = Target(t).lock => ~y.w
                        /\ pc[u] = "pending" => Target(u).lock # Target(t).lock
  BY WritersAre DEF Announce
<1>9. /\ \A u \in Thread : Locks(u)' = Locks(u) /\ Target(u)' = Target(u)
      /\ \A u \in Thread : pc'[u] = "pending" => pc[u] = "pending" \/ u = t
  <2>1. UNCHANGED <<held, todo>>
    BY DEF Announce
  <2>2. \A u \in Thread : Locks(u)' = Locks(u) /\ Target(u)' = Target(u)
    BY <2>1 DEF Locks, Target
  <2>3. QED
    BY <1>2, <2>2 DEF OnlyOf, Same
<1>10. Exclusion'
  BY <1>1, <1>8, <1>9 DEF Exclusion
<1>11. QED
  BY <1>2, <1>4, <1>5, <1>6, <1>7, <1>10, SameOK DEF IInv, OnlyOf, ThreadOK

LEMMA WLockOK ==
  ASSUME IInv, NEW t \in Thread, WLock(t)
  PROVE  IInv'
<1>1. OnlyOf(t)
  BY OthersSame DEF Step
<1>2. pc'[t] \in {"lock", "check"} /\ pc[t] = "pending" /\ Take(t)
  BY DEF WLock, IInv, Shapes
<1>3. todo[t] # {} /\ Target(t).w
  BY <1>2 DEF IInv, ThreadOK, ThreadTypes
<1>4. PICK x : x = Target(t)
  OBVIOUS
<1>5. /\ ThreadOK(t)' /\ CacheTypes' /\ NewIds'
      /\ x \in Lockable /\ Locks(t)' = Locks(t) \cup {x}
  BY <1>2, <1>3, <1>4, TakeOK DEF Step
<1>6. Exclusion
  BY DEF IInv
<1>7. ASSUME NEW u \in Thread, NEW y \in Locks(u) PROVE y.lock # x.lock
  <2>1. y.lock = x.lock => y.w
    BY <1>4, ReadersAre DEF WLock
  <2>2. y.w => y.lock # x.lock
    BY <1>2, <1>4, <1>6 DEF Exclusion
  <2>3. QED
    BY <2>1, <2>2
<1>8. ASSUME NEW u \in Thread, u # t, pc[u] = "pending" PROVE Target(u).lock # x.lock
  BY <1>2, <1>4, <1>6, <1>8 DEF Exclusion
<1>9. \A u \in Thread \ {t} : Locks(u)' = Locks(u) /\ Target(u)' = Target(u) /\ pc'[u] = pc[u]
  BY <1>1 DEF OnlyOf, Same, Locks, Target
<1>10. \A u \in Thread : \A y \in Locks(u)' : y \in Locks(u) \/ (y = x /\ u = t)
  BY <1>5, <1>9
<1>11. \A u \in Thread : pc'[u] = "pending" =>
         u # t /\ pc[u] = "pending" /\ Target(u)' = Target(u)
  BY <1>2, <1>9
<1>12. Exclusion'
  BY <1>3, <1>4, <1>6, <1>7, <1>8, <1>10, <1>11 DEF Exclusion
<1>13. QED
  BY <1>1, <1>5, <1>12, SameOK DEF IInv, OnlyOf

LEMMA CheckNewKeyOK ==
  ASSUME IInv, NEW t \in Thread, CheckNewKey(t)
  PROVE  IInv'
<1>1. pc[t] = "check" /\ pc'[t] \in {"lock", "unlock"}
  BY DEF CheckNewKey, IInv, Shapes
<1>2. rest'[t] \in Seq(Seq(SUBSET Asked))
  BY DEF CheckNewKey, IInv, ThreadOK, ThreadTypes
<1>3. QED
  BY <1>1, <1>2, MovesOK DEF CheckNewKey, Step, Locking

LEMMA CancelledOK ==
  ASSUME IInv, NEW t \in Thread, Cancelled(t)
  PROVE  IInv'
<1>1. pc[t] = "lock" /\ pc'[t] = "unlock"
  BY DEF Cancelled, IInv, Shapes
<1>2. rest'[t] \in Seq(Seq(SUBSET Asked))
  BY DEF Cancelled, IInv, ThreadOK, ThreadTypes
<1>3. QED
  BY <1>1, <1>2, MovesOK DEF Cancelled, Step

LEMMA ReturnOK ==
  ASSUME IInv, NEW t \in Thread, Return(t)
  PROVE  IInv'
<1>1. pc[t] = "granted" /\ pc'[t] = "unlock"
  BY DEF Return, IInv, Shapes
<1>2. rest'[t] \in Seq(Seq(SUBSET Asked))
  BY DEF Return, IInv, ThreadOK, ThreadTypes
<1>3. QED
  BY <1>1, <1>2, MovesOK DEF Return, Step

-----------------------------------------------------------------------------
(* The consistent subqueries, and what setResults hands out for them.      *)
Granted(t) == {s \in merged[t] : Consistent(s)}
HandedOut(t) ==
  {s \in Granted(t) : /\ isWriteOp(s.op) /\ s.res # root
                      /\ s.id # 0 \/ s.res \in allowBlankID}

LEMMA ResultsAre ==
  ASSUME IInv, NEW t \in Thread, SetResults(t)
  PROVE  LET E == {elem(s) : s \in Granted(t)} IN
         /\ DOMAIN ctx'[t].qs = E \cup DOMAIN ctx[t].qs
         /\ \A e \in E : ctx'[t].qs[e] => \A s \in Granted(t) : elem(s) = e => isWriteOp(s.op)
         /\ \A e \in DOMAIN ctx[t].qs : e \notin E => ctx'[t].qs[e] = ctx[t].qs[e]
         /\ ctx'[t].root <=> ctx[t].root \/ Granted(t) # {}
         /\ closures'[t] = closures[t] \cup HandedOut(t)
<1> DEFINE M == Granted(t)
           E == {elem(s) : s \in M}
           a == ctx[t]
           q == [e \in E \cup DOMAIN a.qs |->
                   IF e \in E THEN \A s \in M : elem(s) = e => isWriteOp(s.op) ELSE a.qs[e]]
           l == IF M = {} THEN a.lastLock
                ELSE LET s == CHOOSE x \in M : \A y \in M : ~Before(x, y)
                     IN  [res |-> s.res, op |-> s.op, id |-> s.id]
<1>1. ctx' = [ctx EXCEPT ![t] = [qs |-> q, lastLock |-> l, root |-> a.root \/ M # {}]]
  BY DEF SetResults, Granted
<1>2. closures' = [closures EXCEPT ![t] = @ \cup HandedOut(t)]
  BY DEF SetResults, Granted, HandedOut
<1>3. DOMAIN ctx = Thread /\ DOMAIN closures = Thread
  BY DEF IInv, Shapes
<1>4. DOMAIN q = E \cup DOMAIN a.qs
  OBVIOUS
<1>5. \A e \in E : q[e] => \A s \in M : elem(s) = e => isWriteOp(s.op)
  OBVIOUS
<1>6. \A e \in DOMAIN a.qs : e \notin E => q[e] = a.qs[e]
  OBVIOUS
<1> HIDE DEF q, l, a, M
<1>7. ctx'[t].qs = q /\ ctx'[t].root = (a.root \/ M # {})
  BY <1>1, <1>3
<1>8. closures'[t] = closures[t] \cup HandedOut(t)
  BY <1>2, <1>3
<1>9. QED
  BY <1>4, <1>5, <1>6, <1>7, <1>8 DEF a, M

LEMMA SetResultsOK ==
  ASSUME IInv, NEW t \in Thread, SetResults(t)
  PROVE  IInv'
<1> DEFINE E == {elem(s) : s \in Granted(t)}
<1>1. CacheTypes /\ NewIds /\ Exclusion /\ ThreadOK(t) /\ UNCHANGED cache
  BY DEF IInv, SetResults
<1>2. OnlyOf(t)
  BY OthersSame DEF Step
<1>3. /\ pc[t] = "lock" /\ pc'[t] = "granted" /\ todo[t] = {} /\ todo'[t] = {}
      /\ held'[t] = held[t] /\ rest'[t] = rest[t] /\ merged'[t] = {}
  BY DEF SetResults, IInv, Shapes
<1>4. Locks(t)' = Locks(t)
  BY <1>3 DEF Locks
<1>5. \A r, i, w : Held(t, r, i, w)' <=> Held(t, r, i, w)
  BY <1>4 DEF Held
<1>6. \A s \in Granted(t) : FilledIn(s) /\ Consistent(s) /\ s \in merged[t]
  BY <1>1 DEF Granted, ThreadOK, ThreadTypes
<1>7. \A s \in Granted(t) : s.id # 0 => Held(t, s.res, s.id, isWriteOp(s.op))
  <2>1. \A r, i, w : ~Due(t, r, i, w)
    BY <1>3 DEF Due
  <2>2. QED
    BY <1>1, <1>3, <1>6, <2>1 DEF ThreadOK, Covered, Locking
<1>8. /\ DOMAIN ctx'[t].qs = E \cup DOMAIN ctx[t].qs
      /\ \A e \in E : ctx'[t].qs[e] => \A s \in Granted(t) : elem(s) = e => isWriteOp(s.op)
      /\ \A e \in DOMAIN ctx[t].qs : e \notin E => ctx'[t].qs[e] = ctx[t].qs[e]
      /\ ctx'[t].root <=> ctx[t].root \/ Granted(t) # {}
      /\ closures'[t] = closures[t] \cup HandedOut(t)
  BY ResultsAre
<1>9. ASSUME NEW s \in HandedOut(t)
      PROVE  s \in Granted(t) /\ Closure(s) /\ s.op # create /\ isWriteOp(s.op)
  <2>1. /\ s \in Granted(t) /\ isWriteOp(s.op) /\ s.res # root
        /\ s.id # 0 \/ s.res \in allowBlankID
    BY DEF HandedOut
  <2>2. FilledIn(s) /\ Consistent(s)
    BY <1>6, <2>1
  <2>3. s.op \in {upsert, del} /\ s.op # create
    BY <2>1, <2>2, Operations DEF FilledIn
  <2>4. QED
    BY <2>1, <2>2, <2>3 DEF FilledIn, Closure
<1>10. ThreadTypes(t)'
  <2>1. \A s \in closures'[t] : Closure(s)
    BY <1>1, <1>8, <1>9 DEF ThreadOK, ThreadTypes
  <2>2. QED
    BY <1>1, <1>3, <2>1 DEF ThreadOK, ThreadTypes, Apart
<1>11. Covered(t)'
  <2>1. ASSUME NEW e \in DOMAIN ctx'[t].qs, e[2] # 0
        PROVE  Held(t, e[1], e[2], ctx'[t].qs[e])
    <3>1. CASE e \in E
      <4>1. PICK s \in Granted(t) : e = elem(s)
        BY <3>1
      <4>2. e[1] = s.res /\ e[2] = s.id /\ Held(t, s.res, s.id, isWriteOp(s.op))
        BY <1>7, <2>1, <4>1 DEF elem
      <4>3. ctx'[t].qs[e] => isWriteOp(s.op)
        BY <1>8, <3>1, <4>1
      <4>4. QED
        BY <4>2, <4>3 DEF Held
    <3>2. CASE e \notin E
      <4>1. e \in DOMAIN ctx[t].qs /\ ctx'[t].qs[e] = ctx[t].qs[e]
        BY <1>8, <2>1, <3>2
      <4>2. QED
        BY <1>1, <1>3, <2>1, <4>1 DEF ThreadOK, Covered, Active
    <3>3. QED
      BY <3>1, <3>2
  <2>2. ASSUME NEW s \in closures'[t], s.id # 0, s.op # create
        PROVE  Held(t, s.res, s.id, TRUE)
    <3>1. CASE s \in closures[t]
      BY <1>1, <1>3, <2>2, <3>1 DEF ThreadOK, Covered, Active
    <3>2. CASE s \in HandedOut(t)
      BY <1>7, <1>9, <2>2, <3>2 DEF Held
    <3>3. QED
      BY <1>8, <3>1, <3>2
  <2>3. QED
    BY <1>3, <1>5, <2>1, <2>2 DEF Covered, Locking
<1>12. RootRead(t)'
  <2>1. ctx'[t].root => Held(t, root, 1, FALSE)
    <3>1. CASE ctx[t].root
      BY <1>1, <1>3, <3>1 DEF ThreadOK, RootRead, Active
    <3>2. CASE ~ctx[t].root /\ Granted(t) # {}
      <4>1. Read(root, 1) \in merged[t]
        BY <1>1, <1>3, <1>6, <3>2 DEF ThreadOK, RootRead, Locking
      <4>2. /\ Consistent(Read(root, 1))
            /\ Read(root, 1).res = root /\ Read(root, 1).id = 1
        BY ReadFields, Constants
      <4>3. Held(t, root, 1, isWriteOp(Read(root, 1).op))
        BY <1>7, <4>1, <4>2 DEF Granted
      <4>4. QED
        BY <4>3 DEF Held
    <3>3. QED
      BY <1>8, <3>1, <3>2
  <2>2. ASSUME closures'[t] # {} \/ DOMAIN ctx'[t].qs # {} PROVE ctx'[t].root
    <3>1. CASE Granted(t) # {}
      BY <1>8, <3>1
    <3>2. CASE Granted(t) = {}
      <4>1. closures'[t] = closures[t] /\ DOMAIN ctx'[t].qs = DOMAIN ctx[t].qs
        BY <1>8, <3>2 DEF HandedOut
      <4>2. QED
        BY <1>1, <1>3, <1>8, <2>2, <4>1 DEF ThreadOK, RootRead, Active
    <3>3. QED
      BY <3>1, <3>2
  <2>3. QED
    BY <1>3, <1>5, <2>1, <2>2 DEF RootRead, Locking
<1>13. Exclusion'
  BY <1>1, <1>2, <1>3, <1>4, ExclusionKept
<1>14. \A u \in Thread : \A s \in closures'[u] : s.op = create => s \in closures[u]
  BY <1>2, <1>8, <1>9 DEF OnlyOf, Same
<1>15. CacheTypes' /\ NewIds'
  BY <1>1, <1>14, IdsKept
<1>16. QED
  BY <1>2, <1>10, <1>11, <1>12, <1>13, <1>15, SameOK DEF IInv, OnlyOf, ThreadOK

-----------------------------------------------------------------------------
(* A step that changes closures only.                                      *)
LEMMA ClosuresOK ==
  ASSUME IInv, NEW t \in Thread, Step(t), pc[t] = "granted",
         UNCHANGED <<pc, rest, merged, todo, held, ctx>>,
         closures'[t] # {} => closures[t] # {},
         \A s \in closures'[t] : Closure(s) /\ (s \in closures[t] \/ s.op = create)
  PROVE  (\A u \in Thread : ThreadOK(u)') /\ Exclusion' /\ Shapes'
<1>1. Exclusion /\ ThreadOK(t)
  BY DEF IInv
<1>2. OnlyOf(t)
  BY OthersSame
<1>3. Locks(t)' = Locks(t) /\ Target(t)' = Target(t)
  BY DEF Locks, Target
<1>4. ThreadTypes(t)'
  BY <1>1, <1>3 DEF ThreadOK, ThreadTypes
<1>5. Covered(t)'
  BY <1>1, <1>3 DEF ThreadOK, Covered, Locking, Active, Held, Due
<1>6. RootRead(t)'
  BY <1>1, <1>3 DEF ThreadOK, RootRead, Locking, Active, Held
<1>7. Exclusion'
  BY <1>1, <1>2, <1>3, ExclusionKept
<1>8. QED
  BY <1>2, <1>4, <1>5, <1>6, <1>7, SameOK DEF IInv, OnlyOf, ThreadOK

LEMMA CreateOK ==
  ASSUME IInv, NEW t \in Thread, Create(t)
  PROVE  IInv'
<1>1. CacheTypes /\ NewIds /\ ThreadOK(t)
  BY DEF IInv
<1>2. OnlyOf(t)
  BY OthersSame DEF Step
<1>3. PICK s \in closures[t], id \in uuids :
        /\ s.op = upsert /\ s.id = 0
        /\ closures' = [closures EXCEPT ![t] =
             (@ \ {s}) \cup {[s EXCEPT !.id = id, !.op = create]}]
        /\ uuids' = uuids \ {id}
  BY DEF Create
<1>4. PICK z : z = [s EXCEPT !.id = id, !.op = create]
  OBVIOUS
<1>5. closures'[t] = (closures[t] \ {s}) \cup {z}
  BY <1>3, <1>4 DEF IInv, Shapes
<1>6. Closure(s)
  BY <1>1 DEF ThreadOK, ThreadTypes
<1>7. id \in UUID /\ id \in Nat /\ id # 0
  BY <1>1, UUIDAssumption DEF NewIds
<1>8. Closure(z) /\ z.id = id /\ z.op = create /\ z.res \in allowBlankID
  <2>1. z = [res |-> s.res, op |-> create, id |-> id, key |-> s.key, newKey |-> s.newKey,
             dep |-> s.dep]
    BY <1>4, <1>6 DEF Closure, IsSubquery
  <2>2. /\ z.res = s.res /\ z.op = create /\ z.id = id /\ z.key = s.key
        /\ z.newKey = s.newKey /\ z.dep = s.dep
    BY ONLY <2>1
  <2>3. IsSubquery(z)
    BY ONLY <2>1 DEF IsSubquery
  <2>4. QED
    BY <1>3, <1>6, <1>7, <2>2, <2>3 DEF Closure
<1>9. \A x \in closures'[t] : Closure(x) /\ (x \in closures[t] \/ x.op = create)
  BY <1>1, <1>5, <1>8 DEF ThreadOK, ThreadTypes
<1>10. (\A u \in Thread : ThreadOK(u)') /\ Exclusion' /\ Shapes'
  BY <1>5, <1>9, ClosuresOK DEF Create, Step
<1>11. CacheTypes' /\ data' = data
  BY <1>1 DEF CacheTypes, Create
<1>12. NewIds'
  <2>1. elem(z) \notin DOMAIN data
    BY <1>1, <1>8 DEF NewIds, elem
  <2>2. \A u \in Thread : \A x \in closures'[u] : x \in closures[u] \/ (u = t /\ x = z)
    BY <1>2, <1>5 DEF OnlyOf, Same
  <2>3. \A u \in Thread : \A x \in closures[u] : x.op = create => x.id # id
    BY <1>1 DEF NewIds
  <2>4. uuids' \subseteq uuids /\ id \notin uuids'
    BY <1>3
  <2>5. ASSUME NEW u \in Thread, NEW x \in closures'[u], x.op = create
        PROVE  x.id \notin uuids' /\ elem(x) \notin DOMAIN data
    BY <1>1, <1>8, <2>1, <2>2, <2>4, <2>5 DEF NewIds
  <2>6. ASSUME NEW u \in Thread, NEW v \in Thread, NEW x \in closures'[u],
               NEW y \in closures'[v], x.op = create, y.op = create, x.id = y.id
        PROVE  u = v /\ x = y
    BY <1>1, <1>8, <2>2, <2>3, <2>6 DEF NewIds
  <2>7. QED
    BY <1>1, <1>11, <2>4, <2>5, <2>6 DEF NewIds
<1>13. QED
  BY <1>10, <1>11, <1>12 DEF IInv

(* What a closure does to the objects.                                     *)
LEMMA WithoutIs ==
  ASSUME NEW f, NEW k
  PROVE  /\ DOMAIN Without(f, k) = DOMAIN f \ {k}
         /\ \A y \in DOMAIN f : y # k => Without(f, k)[y] = f[y]
  BY DEF Without

KeyTypes(k) ==
  DOMAIN k \subseteq Keyed \X (Nat \ {0}) /\ \A x \in DOMAIN k : k[x] \in Nat \ {0}

LEMMA PutKey ==
  ASSUME NEW f, KeyTypes(f), NEW r \in Keyed, NEW k \in Nat \ {0}, NEW i \in Nat \ {0}
  PROVE  KeyTypes(Put(f, <<r, k>>, i))
<1> DEFINE g == Put(f, <<r, k>>, i)
<1>1. /\ DOMAIN g = DOMAIN f \cup {<<r, k>>} /\ g[<<r, k>>] = i
      /\ \A y \in DOMAIN f : y # <<r, k>> => g[y] = f[y]
  BY DEF Put
<1> HIDE DEF g
<1>2. <<r, k>> \in Keyed \X (Nat \ {0})
  OBVIOUS
<1>3. KeyTypes(g)
  BY <1>1, <1>2 DEF KeyTypes
<1>4. QED
  BY <1>3 DEF g

LEMMA WithoutKey ==
  ASSUME NEW f, KeyTypes(f), NEW k
  PROVE  KeyTypes(Without(f, k))
<1> DEFINE g == Without(f, k)
<1>1. DOMAIN g = DOMAIN f \ {k} /\ \A y \in DOMAIN f : y # k => g[y] = f[y]
  BY WithoutIs
<1> HIDE DEF g
<1>2. KeyTypes(g)
  BY <1>1 DEF KeyTypes
<1>3. QED
  BY <1>2 DEF g

LEMMA UpsertKeysOK ==
  ASSUME KeyTypes(keys), NEW s, Closure(s), s.id # 0
  PROVE  KeyTypes(UpsertKeys(s))
<1>1. s.id \in Nat \ {0} /\ s.key \in Nat /\ s.newKey \in Nat
  BY DEF Closure
<1>2. CASE s.res \notin Keyed \/ (s.newKey = 0 /\ (s.res = volume \/ s.key = 0))
  BY <1>2 DEF UpsertKeys
<1>3. CASE s.res \in Keyed /\ s.newKey = 0 /\ s.res # volume /\ s.key # 0
  <2>1. UpsertKeys(s) = Put(keys, <<s.res, s.key>>, s.id)
    BY <1>3 DEF UpsertKeys
  <2>2. QED
    BY <1>1, <1>3, <2>1, PutKey
<1>4. CASE s.res \in Keyed /\ s.newKey # 0 /\ s.key = 0
  <2>1. UpsertKeys(s) = Put(keys, <<s.res, s.newKey>>, s.id)
    BY <1>4 DEF UpsertKeys
  <2>2. QED
    BY <1>1, <1>4, <2>1, PutKey
<1>5. CASE s.res \in Keyed /\ s.newKey # 0 /\ s.key # 0
  <2>1. UpsertKeys(s) = Put(Without(keys, <<s.res, s.key>>), <<s.res, s.newKey>>, s.id)
    BY <1>5 DEF UpsertKeys
  <2>2. QED
    BY <1>1, <1>5, <2>1, PutKey, WithoutKey
<1>6. QED
  BY <1>2, <1>3, <1>4, <1>5

(* A closure changes its own object and no other; a deletion removes it,   *)
(* an upsert gives it the owners that the subquery has filled in.          *)
LEMMA WriteIs ==
  ASSUME CacheTypes, NEW t, NEW s, Closure(s), s.id # 0,
         IF s.op = del THEN DeleteClosure(t, s) ELSE UpsertClosure(s)
  PROVE  /\ CacheTypes'
         /\ \A e \in DOMAIN data : e # elem(s) => e \in DOMAIN data' /\ data'[e] = data[e]
         /\ \A e \in DOMAIN data' : e # elem(s) => e \in DOMAIN data
         /\ IF s.op = del THEN elem(s) \in DOMAIN data /\ elem(s) \notin DOMAIN data'
            ELSE elem(s) \in DOMAIN data' /\ data'[elem(s)].own = s.dep
<1>0. KeyTypes(keys) /\ DataOK(data) /\ \A e \in DOMAIN data : data[e].v \in {0, 1}
  BY DEF CacheTypes, KeyTypes
<1>1. elem(s) \in Resource \X (Nat \ {0}) /\ elem(s)[1] = s.res
  BY DEF Closure, elem
<1>2. CASE s.op = del
  <2>1. /\ data' = Without(data, elem(s)) /\ elem(s) \in DOMAIN data
        /\ keys' = keys \/ keys' = Without(keys, <<s.res, s.key>>)
    BY <1>2 DEF DeleteClosure, Current, Stored, elem
  <2>2. KeyTypes(keys')
    BY <1>0, <2>1, WithoutKey
  <2>3. /\ DOMAIN data' = DOMAIN data \ {elem(s)}
        /\ \A y \in DOMAIN data : y # elem(s) => data'[y] = data[y]
    BY <2>1, WithoutIs
  <2>4. CacheTypes'
    BY <1>0, <2>2, <2>3 DEF CacheTypes, KeyTypes, DataOK
  <2>5. QED
    BY <1>2, <2>1, <2>3, <2>4
<1>3. CASE s.op # del
  <2> DEFINE k == CASE s.newKey # 0 -> s.newKey
                    [] s.newKey = 0 /\ Current(s) -> data[elem(s)].key
                    [] s.newKey = 0 /\ ~Current(s) /\ s.key # 0 -> s.key
                    [] OTHER -> IF s.res \in Keyed THEN s.id ELSE 0
             v == IF Current(s) THEN 1 - data[elem(s)].v ELSE 0
             z == [key |-> k, own |-> s.dep, v |-> v]
  <2>1. keys' = UpsertKeys(s) /\ data' = Put(data, elem(s), z)
    BY <1>3 DEF UpsertClosure
  <2>2. KeyTypes(keys')
    BY <1>0, <2>1, UpsertKeysOK
  <2>3. Current(s) => elem(s) \in DOMAIN data
    BY DEF Current, Stored, elem
  <2>4. k \in Nat
    <3>1. Current(s) => data[elem(s)].key \in Nat
      BY <1>0, <2>3 DEF DataOK
    <3>2. s.newKey \in Nat /\ s.key \in Nat /\ s.id \in Nat
      BY DEF Closure
    <3>3. QED
      BY <3>1, <3>2
  <2>5. v \in {0, 1}
    <3>1. Current(s) => data[elem(s)].v \in {0, 1}
      BY <1>0, <2>3
    <3>2. \A n \in {0, 1} : 1 - n \in {0, 1}
      OBVIOUS
    <3>3. QED
      BY <3>1, <3>2
  <2> HIDE DEF k, v
  <2>6. z.key = k /\ z.own = s.dep /\ z.v = v
    OBVIOUS
  <2> HIDE DEF z
  <2>7. /\ DOMAIN data' = DOMAIN data \cup {elem(s)} /\ data'[elem(s)] = z
        /\ \A y \in DOMAIN data : y # elem(s) => data'[y] = data[y]
    BY <2>1 DEF Put
  <2>8. s.dep \in [schema[elem(s)[1]] -> Nat]
    BY <1>1 DEF Closure
  <2>9. DataOK(data)' /\ \A e \in DOMAIN data' : data'[e].v \in {0, 1}
    BY <1>0, <1>1, <2>4, <2>5, <2>6, <2>7, <2>8 DEF DataOK
  <2>10. CacheTypes'
    BY <2>2, <2>9 DEF CacheTypes, KeyTypes
  <2>11. QED
    BY <1>3, <2>6, <2>7, <2>10
<1>4. QED
  BY <1>2, <1>3

LEMMA WriteOK ==
  ASSUME IInv, NEW t \in Thread, Write(t)
  PROVE  IInv'
<1>1. CacheTypes /\ NewIds /\ ThreadOK(t)
  BY DEF IInv
<1>2. OnlyOf(t)
  BY OthersSame DEF Step
<1>3. PICK s \in closures[t] :
        /\ s.id # 0
        /\ IF s.op = del THEN DeleteClosure(t, s) ELSE UpsertClosure(s)
        /\ closures' = [closures EXCEPT ![t] = @ \ {s}]
  BY DEF Write
<1>4. closures'[t] = closures[t] \ {s} /\ Closure(s)
  BY <1>1, <1>3 DEF IInv, Shapes, ThreadOK, ThreadTypes
<1>5. CacheTypes' /\ \A e \in DOMAIN data' : e # elem(s) => e \in DOMAIN data
  BY <1>1, <1>3, <1>4, WriteIs
<1>6. (\A u \in Thread : ThreadOK(u)') /\ Exclusion' /\ Shapes'
  BY <1>1, <1>4, ClosuresOK DEF Write, Step, ThreadOK, ThreadTypes
<1>7. NewIds'
  <2>1. uuids' = uuids
    BY DEF Write
  <2>2. \A u \in Thread : closures'[u] \subseteq closures[u]
    BY <1>2, <1>4 DEF OnlyOf, Same
  <2>3. CASE s.op = create
    <3>1. s.id \notin uuids /\ elem(s)[2] = s.id
      BY <1>1, <2>3 DEF NewIds, elem
    <3>2. ASSUME NEW u \in Thread, NEW x \in closures'[u], x.op = create
          PROVE  x.id # s.id
      <4>1. x \in closures[u] /\ (u = t => x # s)
        BY <1>4, <2>2
      <4>2. QED
        BY <1>1, <2>3, <3>2, <4>1 DEF NewIds
    <3>3. \A u \in Thread : \A x \in closures'[u] : x.op = create => elem(x) # elem(s)
      BY <3>2 DEF elem
    <3>4. QED
      BY <1>1, <1>5, <2>1, <2>2, <3>1, <3>3 DEF NewIds
  <2>4. CASE s.op # create
    <3>1. s.res \in allowBlankID => elem(s) \in DOMAIN data \/ elem(s) \notin DOMAIN data'
      <4>1. CASE s.op = del
        BY <1>1, <1>3, <1>4, <4>1, WriteIs
      <4>2. CASE s.op # del
        BY <1>3, <2>4, <4>2 DEF UpsertClosure, CanUpsert, Current, Stored, elem
      <4>3. QED
        BY <4>1, <4>2
    <3>2. elem(s)[1] = s.res
      BY DEF elem
    <3>3. \A e \in DOMAIN data' : e[1] \in allowBlankID => e \in DOMAIN data
      BY <1>5, <3>1, <3>2
    <3>4. \A u \in Thread : \A x \in closures'[u] : x.op = create => elem(x)[1] \in allowBlankID
      <4>1. \A u \in Thread : \A x \in closures[u] : Closure(x)
        BY DEF IInv, ThreadOK, ThreadTypes
      <4>2. QED
        BY <2>2, <4>1 DEF Closure, elem
    <3>5. QED
      BY <1>1, <2>1, <2>2, <3>3, <3>4 DEF NewIds
  <2>5. QED
    BY <2>3, <2>4
<1>8. QED
  BY <1>5, <1>6, <1>7 DEF IInv

LEMMA UnlockShrinks ==
  ASSUME IInv, NEW t \in Thread, Unlock(t)
  PROVE  held'[t] \in Seq(Lockable) /\ Locks(t)' \subseteq Locks(t)
<1>1. PICK h : h = held[t]
  OBVIOUS
<1>2. h \in Seq(Lockable) /\ h # << >>
  BY <1>1 DEF IInv, ThreadOK, ThreadTypes, Unlock
<1>3. held'[t] = SubSeq(h, 1, Len(h) - 1)
  BY <1>1 DEF Unlock, IInv, Shapes
<1>4. Len(h) - 1 \in Nat /\ Len(h) \in Nat /\ DOMAIN h = 1..Len(h)
  BY <1>2
<1>5. \A i \in 1..(Len(h) - 1) : i \in DOMAIN h
  BY <1>4
<1>6. held'[t] \in Seq(Lockable)
  BY <1>2, <1>3, <1>4
<1>7. /\ DOMAIN held'[t] = 1..(Len(h) - 1)
      /\ \A i \in 1..(Len(h) - 1) : held'[t][i] = h[i]
  BY <1>2, <1>3, <1>4
<1>8. QED
  BY <1>1, <1>5, <1>6, <1>7 DEF Locks

LEMMA UnlockOK ==
  ASSUME IInv, NEW t \in Thread, Unlock(t)
  PROVE  IInv'
<1>1. CacheTypes /\ NewIds /\ Exclusion /\ ThreadOK(t)
  BY DEF IInv
<1>2. OnlyOf(t)
  BY OthersSame DEF Step
<1>6. held'[t] \in Seq(Lockable) /\ Locks(t)' \subseteq Locks(t)
  BY UnlockShrinks
<1>7. /\ pc[t] = "unlock" /\ pc'[t] = "unlock" /\ rest'[t] = rest[t] /\ merged'[t] = merged[t]
      /\ todo'[t] = todo[t] /\ ctx'[t] = ctx[t] /\ closures'[t] = closures[t]
  BY DEF Unlock
<1>8. ThreadTypes(t)'
  BY <1>1, <1>6, <1>7 DEF ThreadOK, ThreadTypes
<1>9. Covered(t)' /\ RootRead(t)'
  BY <1>7 DEF Covered, RootRead, Locking, Active
<1>10. Exclusion'
  BY <1>1, <1>2, <1>6, <1>7, ExclusionKept
<1>11. CacheTypes' /\ NewIds'
  BY <1>1, IdsKept DEF Unlock
<1>12. QED
  BY <1>2, <1>8, <1>9, <1>10, <1>11, SameOK DEF IInv, OnlyOf, ThreadOK

LEMMA DoneOK ==
  ASSUME IInv, NEW t \in Thread, Done(t)
  PROVE  IInv'
<1>1. CacheTypes /\ NewIds /\ Exclusion /\ UNCHANGED cache
  BY DEF IInv, Done
<1>2. OnlyOf(t)
  BY OthersSame DEF Step
<1>3. /\ pc'[t] = "idle" /\ rest'[t] = << >> /\ merged'[t] = {} /\ todo'[t] = {}
      /\ held'[t] = << >> /\ held[t] = << >> /\ ctx'[t] = NoCtx /\ closures'[t] = {}
  BY DEF Done, IInv, Shapes
<1>4. ThreadTypes(t)'
  BY <1>3 DEF ThreadTypes, Apart
<1>5. Covered(t)' /\ RootRead(t)'
  BY <1>3 DEF Covered, RootRead, Locking, Active
<1>6. Exclusion'
  BY <1>1, <1>2, <1>3, ExclusionKept DEF Locks
<1>7. CacheTypes' /\ NewIds'
  <2>1. \A u \in Thread : \A s \in closures'[u] : s \in closures[u]
    BY <1>2, <1>3 DEF OnlyOf, Same
  <2>2. QED
    BY <1>1, <2>1, IdsKept
<1>8. QED
  BY <1>2, <1>4, <1>5, <1>6, <1>7, SameOK DEF IInv, OnlyOf, ThreadOK

-----------------------------------------------------------------------------
LEMMA InitOK == Init => IInv
<1> SUFFICES ASSUME Init PROVE IInv
  OBVIOUS
<1>1. Shapes
  BY DEF Init, Shapes, PC
<1>2. CacheTypes
  <2>1. /\ DOMAIN data = DOMAIN Cached
        /\ \A e \in DOMAIN data : /\ data[e].key = Cached[e].key
                                  /\ data[e].own = Cached[e].own /\ data[e].v = 0
    BY DEF Init
  <2>2. DataOK(data) /\ \A e \in DOMAIN data : data[e].v \in {0, 1}
    BY <2>1, CachedAssumption DEF DataOK
  <2> DEFINE S == {x \in DOMAIN Cached : x[1] \in Keyed \ {volume}}
             who(k) == CHOOSE e \in DOMAIN Cached : e[1] = k[1] /\ Cached[e].key = k[2]
  <2>3. keys = [k \in {<<e[1], Cached[e].key>> : e \in S} |-> who(k)[2]]
    BY DEF Init
  <2>4. ASSUME NEW e \in S
        PROVE  /\ <<e[1], Cached[e].key>> \in Keyed \X (Nat \ {0})
               /\ who(<<e[1], Cached[e].key>>)[2] \in Nat \ {0}
    <3>1. e[1] \in Keyed /\ e[1] \in allowBlankID /\ Cached[e].key \in Nat
      BY CachedAssumption, Constants DEF Keyed, allowBlankID
    <3>2. Cached[e].key # 0
      BY <3>1, CachedAssumption
    <3>3. who(<<e[1], Cached[e].key>>) \in DOMAIN Cached
      OBVIOUS
    <3>4. QED
      BY <3>1, <3>2, <3>3, CachedAssumption
  <2> HIDE DEF S, who
  <2>5. \A k \in DOMAIN keys : k \in Keyed \X (Nat \ {0}) /\ keys[k] \in Nat \ {0}
    BY <2>3, <2>4
  <2>6. QED
    BY <2>2, <2>5 DEF CacheTypes
<1>3. NewIds
  BY UUIDAssumption DEF Init, NewIds
<1>4. \A t \in Thread : /\ pc[t] = "idle" /\ rest[t] = << >> /\ merged[t] = {} /\ todo[t] = {}
                        /\ held[t] = << >> /\ ctx[t] = NoCtx /\ closures[t] = {}
  BY DEF Init
<1>5. Exclusion
  BY <1>4 DEF Exclusion, Locks
<1>6. ASSUME NEW t \in Thread PROVE ThreadOK(t)
  <2>0. /\ pc[t] = "idle" /\ rest[t] = << >> /\ merged[t] = {} /\ todo[t] = {}
        /\ held[t] = << >> /\ ctx[t] = NoCtx /\ closures[t] = {}
    BY <1>4
  <2>1. ThreadTypes(t)
    BY <2>0 DEF ThreadTypes, Apart
  <2>2. Covered(t) /\ RootRead(t)
    BY <1>4 DEF Covered, RootRead, Locking, Active
  <2>3. QED
    BY <2>1, <2>2 DEF ThreadOK
<1>7. QED
  BY <1>1, <1>2, <1>3, <1>5, <1>6 DEF IInv

LEMMA StutterOK ==
  ASSUME IInv, UNCHANGED vars
  PROVE  IInv'
<1>1. \A u \in Thread : Same(u)
  BY DEF vars, Same
<1>2. \A u \in Thread : ThreadOK(u)'
  BY <1>1, SameOK DEF IInv
<1>3. Shapes' /\ CacheTypes' /\ NewIds'
  BY DEF IInv, vars, Shapes, CacheTypes, NewIds
<1>4. \A u \in Thread : Locks(u)' = Locks(u) /\ Target(u)' = Target(u)
  BY <1>1 DEF Same, Locks, Target
<1>5. Exclusion'
  BY <1>1, <1>4 DEF IInv, Exclusion, Same
<1>6. QED
  BY <1>2, <1>3, <1>5 DEF IInv

LEMMA StepOK ==
  ASSUME IInv, [Next]_vars
  PROVE  IInv'
<1>1. CASE UNCHANGED vars
  BY <1>1, StutterOK
<1>2. ASSUME NEW t \in Thread, Step(t) PROVE IInv'
  BY <1>2, LockOK, NestedLockOK, RLockOK, AnnounceOK, WLockOK, CheckNewKeyOK, SetResultsOK,
     CancelledOK, CreateOK, WriteOK, ReturnOK, UnlockOK, DoneOK DEF Step
<1>3. QED
  BY <1>1, <1>2 DEF Next, Step

LEMMA Invariant == Spec => []IInv
<1>1. Init => IInv
  BY InitOK
<1>2. IInv /\ [Next]_vars => IInv'
  BY StepOK
<1>3. QED
  BY <1>1, <1>2, PTL DEF Spec

(* Theorem: the caches and the locks keep their types, whatever the        *)
(* goroutines ask for.                                                     *)
THEOREM TypeCorrect == Spec => []TypeOK
<1>1. ASSUME IInv PROVE TypeOK
  <2>1. /\ DOMAIN data \subseteq Resource \X Nat
        /\ \A e \in DOMAIN data : data[e].v \in {0, 1} /\ data[e].key \in Nat
    BY <1>1 DEF IInv, CacheTypes, DataOK
  <2>2. /\ DOMAIN keys \subseteq Keyed \X (Nat \ {0})
        /\ \A k \in DOMAIN keys : keys[k] \in Nat \ {0}
        /\ uuids \subseteq UUID
    BY <1>1 DEF IInv, CacheTypes, NewIds
  <2>3. ASSUME NEW t \in Thread, NEW i \in DOMAIN held[t] PROVE held[t][i].w \in BOOLEAN
    <3>1. held[t] \in Seq(Lockable)
      BY <1>1 DEF IInv, ThreadOK, ThreadTypes
    <3>2. held[t][i] \in Lockable
      BY <3>1
    <3>3. QED
      BY <3>2 DEF Lockable
  <2>4. pc \in [Thread -> {"idle", "lock", "pending", "check", "granted", "unlock"}]
    BY <1>1 DEF IInv, Shapes, PC
  <2>5. QED
    BY <2>1, <2>2, <2>3, <2>4 DEF TypeOK
<1>2. QED
  BY <1>1, Invariant, PTL

-----------------------------------------------------------------------------
(* Only Write changes the objects, only Write and Create the caches.       *)
LEMMA OnlyWrites ==
  ASSUME NEW t \in Thread, Step(t)
  PROVE  (UNCHANGED cache \/ Create(t) \/ Write(t)) /\ (UNCHANGED data \/ Write(t))
  BY DEF Step, Lock, NestedLock, RLock, Announce, WLock, Take, CheckNewKey, SetResults,
     Cancelled, Create, Return, Unlock, Done, cache

Stable ==
  \A t \in Thread : \A e \in DOMAIN data :
    /\ pc[t] = "granted"
    /\ Holds(t, <<"res", e[1], e[2]>>, FALSE) \/ Holds(t, <<"res", e[1], e[2]>>, TRUE)
    /\ e \notin DOMAIN data' \/ data'[e] # data[e]
    => /\ Holds(t, <<"res", e[1], e[2]>>, TRUE)
       /\ closures'[t] # closures[t]

(* Theorem: an object that a goroutine has locked changes only by its own  *)
(* closures and under a write lock (the contract of Lock in                *)
(* concurrent_cache.go), whatever the other goroutines ask for.            *)
THEOREM HeldStableHolds == Spec => HeldStable
<1>1. ASSUME IInv, [Next]_vars PROVE Stable
  <2>1. CASE UNCHANGED data
    BY <2>1 DEF Stable
  <2>2. ASSUME NEW u \in Thread, Write(u) PROVE Stable
    <3>1. PICK s \in closures[u] :
            /\ s.id # 0
            /\ IF s.op = del THEN DeleteClosure(u, s) ELSE UpsertClosure(s)
            /\ closures' = [closures EXCEPT ![u] = @ \ {s}]
      BY <2>2 DEF Write
    <3>2. Closure(s) /\ pc[u] = "granted" /\ closures'[u] # closures[u]
      BY <1>1, <2>2, <3>1 DEF IInv, ThreadOK, ThreadTypes, Write, Shapes
    <3>3. \A e \in DOMAIN data : e # elem(s) => e \in DOMAIN data' /\ data'[e] = data[e]
      BY <1>1, <3>1, <3>2, WriteIs DEF IInv
    <3>4. SUFFICES ASSUME NEW t \in Thread, NEW e \in DOMAIN data,
                          \/ Holds(t, <<"res", e[1], e[2]>>, FALSE)
                          \/ Holds(t, <<"res", e[1], e[2]>>, TRUE),
                          e \notin DOMAIN data' \/ data'[e] # data[e]
                   PROVE  /\ Holds(t, <<"res", e[1], e[2]>>, TRUE)
                          /\ closures'[t] # closures[t]
      BY DEF Stable
    <3> DEFINE l == <<"res", s.res, s.id>>
    <3>5. e = elem(s) /\ l = <<"res", e[1], e[2]>>
      BY <3>3, <3>4 DEF elem
    <3> HIDE DEF l
    <3>6. s.op # create
      BY <1>1, <3>5 DEF IInv, NewIds
    <3>7. PICK x \in Locks(u) : x.lock = l /\ x.w
      BY <1>1, <3>1, <3>2, <3>6 DEF IInv, ThreadOK, Covered, Active, Held, l
    <3>8. PICK y \in Locks(t) : y.lock = l
      BY <3>4, <3>5 DEF Holds, Locks
    <3>9. t = u /\ y.w
      BY <1>1, <3>7, <3>8 DEF IInv, Exclusion
    <3>10. Holds(t, l, TRUE)
      <4>1. PICK i \in DOMAIN held[t] : y = held[t][i]
        BY <3>8 DEF Locks
      <4>2. held[t] \in Seq(Lockable)
        BY <1>1 DEF IInv, ThreadOK, ThreadTypes
      <4>3. y \in Lockable
        BY <4>1, <4>2
      <4>4. y.w = TRUE
        BY <3>9, <4>3 DEF Lockable
      <4>5. QED
        BY <3>8, <4>1, <4>4 DEF Holds
    <3>11. QED
      BY <3>2, <3>9, <3>10, <3>5
  <2>3. QED
    BY <1>1, <2>1, <2>2, OnlyWrites DEF Next, Step, vars
<1>2. QED
  BY <1>1, Invariant, PTL DEF HeldStable, Stable, Spec

-----------------------------------------------------------------------------
(* Who holds the root for writing may not change anything.                 *)
RootWritten(t) ==
  /\ \A i \in DOMAIN rest[t] : NoRoot(rest[t][i])
  /\ Held(t, root, 1, TRUE) \/ Due(t, root, 1, TRUE) =>
       /\ rest[t] = << >> /\ closures[t] = {}
       /\ \A s \in merged[t] : s.res = root

LEMMA RootSame ==
  ASSUME NEW u, Same(u), RootWritten(u)
  PROVE  RootWritten(u)'
<1>1. Locks(u)' = Locks(u)
  BY DEF Same, Locks
<1>2. QED
  BY <1>1 DEF Same, RootWritten, Held, Due

(* A stage that does not write the root plans no write lock on it.         *)
LEMMA NoRootPlan ==
  ASSUME CacheTypes, NEW stage \in Seq(SUBSET Asked), NEW c, NEW m, m = mergeQueries(stage, c),
         NoRoot(stage), NEW x \in LockPlan(m, c), x.lock = <<"res", root, 1>>
  PROVE  ~x.w
<1>1. \A s \in m : FilledIn(s)
  BY MergedIs
<1>2. x.lock[1] = "res"
  OBVIOUS
<1>3. PICK s \in m : x.lock = <<"res", s.res, s.id>> /\ (x.w => isWriteOp(s.op))
  BY <1>1, <1>2, PlanWrites
<1>4. s.res = root
  BY <1>3
<1>5. \/ s = Read(root, 1)
      \/ \E y \in Sub(stage) : y.res = s.res /\ y.op = s.op
      \/ s.op = read
  BY MergedIs
<1>6. Read(root, 1).op = read /\ ~isWriteOp(read)
  BY ReadFields, Constants, Operations
<1>7. ~isWriteOp(s.op)
  BY <1>4, <1>5, <1>6 DEF NoRoot
<1>8. QED
  BY <1>3, <1>7

LEMMA RootStarts ==
  ASSUME CacheTypes, NEW t \in Thread, RootWritten(t), rest[t] # << >> \/ held[t] = << >>,
         NEW stage \in Seq(SUBSET Asked), NoRoot(stage), NEW c,
         todo'[t] = LockPlan(mergeQueries(stage, c), c), held'[t] = held[t],
         \A i \in DOMAIN rest'[t] : NoRoot(rest'[t][i])
  PROVE  RootWritten(t)'
<1>1. PICK m : m = mergeQueries(stage, c)
  OBVIOUS
<1>2. ~Due(t, root, 1, TRUE)'
  BY <1>1, NoRootPlan DEF Due
<1>3. Locks(t)' = Locks(t)
  BY DEF Locks
<1>4. ~Held(t, root, 1, TRUE)'
  <2>1. CASE rest[t] # << >>
    BY <1>3, <2>1 DEF Held, RootWritten
  <2>2. CASE held[t] = << >>
    <3>1. Locks(t) = {}
      BY <2>2 DEF Locks
    <3>2. QED
      BY <1>3, <3>1 DEF Held
  <2>3. QED
    BY <2>1, <2>2
<1>5. QED
  BY <1>2, <1>4 DEF RootWritten

LEMMA TailKeeps ==
  ASSUME NEW p \in Seq(Seq(SUBSET Asked)), p # << >>, NEW i \in DOMAIN Tail(p)
  PROVE  i + 1 \in DOMAIN p /\ Tail(p)[i] = p[i + 1] /\ Len(p) # 1
  OBVIOUS

LEMMA RootLock ==
  ASSUME Alone, IInv, NEW t \in Thread, RootWritten(t), Lock(t)
  PROVE  RootWritten(t)'
<1>1. CacheTypes
  BY DEF IInv
<1>2. PICK p \in Program[t] : /\ ~Rejected(p[1], NoCtx) /\ Start(t, p[1], NoCtx)
                              /\ rest' = [rest EXCEPT ![t] = Tail(p)]
  BY DEF Lock
<1>3. p \in Seq(Seq(SUBSET Asked)) /\ p # << >>
  BY ProgramAssumption
<1>4. p[1] \in Seq(SUBSET Asked) /\ 1 \in DOMAIN p
  BY <1>3
<1>5. held[t] = << >> /\ closures[t] = {}
  BY DEF IInv, ThreadOK, ThreadTypes, Lock
<1>6. PICK m : m = mergeQueries(p[1], NoCtx)
  OBVIOUS
<1>7. /\ merged'[t] = m /\ todo'[t] = LockPlan(m, NoCtx) /\ rest'[t] = Tail(p)
      /\ held'[t] = held[t] /\ closures'[t] = closures[t]
  BY <1>2, <1>6 DEF Lock, Start, IInv, Shapes
<1>8. \A i \in DOMAIN rest'[t] : NoRoot(rest'[t][i])
  <2>1. SUFFICES ASSUME NEW i \in DOMAIN Tail(p) PROVE NoRoot(Tail(p)[i])
    BY <1>7
  <2>2. i + 1 \in DOMAIN p /\ Tail(p)[i] = p[i + 1] /\ Len(p) # 1
    BY <1>3, TailKeeps
  <2>3. QED
    BY <1>2, <2>2 DEF Alone
<1>9. CASE NoRoot(p[1])
  BY <1>1, <1>4, <1>5, <1>6, <1>7, <1>8, <1>9, RootStarts
<1>10. CASE Len(p) = 1 /\ \A s \in Sub(p[1]) : s.res = root
  <2>1. Tail(p) = << >>
    <3>1. PICK q : q = Tail(p)
      OBVIOUS
    <3>2. Len(q) = 0 /\ q \in Seq(Seq(SUBSET Asked))
      BY <1>3, <1>10, <3>1
    <3>3. q = << >>
      BY ONLY <3>2
    <3>4. QED
      BY <3>1, <3>3
  <2>2. schema[root] = {} /\ Read(root, 1).res = root
    BY Schema, Constants, ReadFields
  <2>3. \A s \in m : s.res = root
    BY <1>1, <1>4, <1>6, <1>10, <2>2, MergedIs
  <2>4. QED
    BY <1>5, <1>7, <1>8, <2>1, <2>3 DEF RootWritten
<1>11. QED
  BY <1>2, <1>4, <1>9, <1>10 DEF Alone

LEMMA RootNested ==
  ASSUME IInv, NEW t \in Thread, RootWritten(t), NestedLock(t)
  PROVE  RootWritten(t)'
<1>1. CacheTypes
  BY DEF IInv
<1>2. rest[t] \in Seq(Seq(SUBSET Asked)) /\ rest[t] # << >>
  BY DEF NestedLock, IInv, ThreadOK, ThreadTypes
<1>3. PICK r \in Seq(Seq(SUBSET Asked)) : r = rest[t]
  BY <1>2
<1>4. rest'[t] = Tail(r) /\ held' = held
  BY <1>3 DEF NestedLock, IInv, Shapes
<1>5. Head(r) \in Seq(SUBSET Asked) /\ 1 \in DOMAIN r /\ Head(r) = r[1] /\ r # << >>
  BY <1>2, <1>3
<1>6. \A i \in DOMAIN rest'[t] : NoRoot(rest'[t][i])
  <2>1. SUFFICES ASSUME NEW i \in DOMAIN Tail(r) PROVE NoRoot(Tail(r)[i])
    BY <1>4
  <2>2. i + 1 \in DOMAIN r /\ Tail(r)[i] = r[i + 1]
    BY <1>5, TailKeeps
  <2>3. QED
    BY <1>3, <2>2 DEF RootWritten
<1>7. CASE UNCHANGED todo
  <2>1. ~Held(t, root, 1, TRUE)' /\ ~Due(t, root, 1, TRUE)'
    BY <1>2, <1>4, <1>7 DEF RootWritten, Held, Due, Locks
  <2>2. QED
    BY <1>6, <2>1 DEF RootWritten
<1>8. CASE Start(t, Head(rest[t]), ctx[t])
  <2>1. PICK c : c = ctx[t]
    OBVIOUS
  <2>2. PICK stage \in Seq(SUBSET Asked) : stage = Head(r)
    BY <1>5
  <2>3. NoRoot(stage)
    BY <1>3, <1>5, <2>2 DEF RootWritten
  <2>4. todo'[t] = LockPlan(mergeQueries(stage, c), c)
    BY <1>3, <1>8, <2>1, <2>2 DEF Start, IInv, Shapes
  <2>5. QED
    BY <1>1, <1>2, <1>4, <1>6, <2>3, <2>4, RootStarts
<1>9. QED
  BY <1>7, <1>8 DEF NestedLock

LEMMA RootTake ==
  ASSUME IInv, NEW t \in Thread, RootWritten(t), Step(t), pc[t] \in {"lock", "pending"},
         todo[t] # {}, Take(t), pc'[t] \in {"lock", "check"}
  PROVE  RootWritten(t)'
<1>1. PICK x : x = Target(t)
  OBVIOUS
<1>2. Locks(t)' = Locks(t) \cup {x} /\ x \in todo[t] /\ todo'[t] = todo[t] \ {x}
  BY <1>1, TakeOK DEF Take, IInv, Shapes
<1>3. (Held(t, root, 1, TRUE) \/ Due(t, root, 1, TRUE))' =>
        Held(t, root, 1, TRUE) \/ Due(t, root, 1, TRUE)
  BY <1>2 DEF Held, Due
<1>4. UNCHANGED <<rest, closures, merged>>
  BY DEF Take
<1>5. QED
  BY <1>3, <1>4 DEF RootWritten

LEMMA RootMoves ==
  ASSUME NEW t \in Thread, RootWritten(t), UNCHANGED <<rest, merged, todo, held, closures>>
  PROVE  RootWritten(t)'
  BY DEF RootWritten, Held, Due, Locks

LEMMA RootResults ==
  ASSUME IInv, NEW t \in Thread, RootWritten(t), SetResults(t)
  PROVE  RootWritten(t)'
<1>1. closures'[t] = closures[t] \cup HandedOut(t)
  BY ResultsAre
<1>2. UNCHANGED <<rest, todo, held>> /\ merged'[t] = {}
  BY DEF SetResults, IInv, Shapes
<1>3. (\A s \in merged[t] : s.res = root) => HandedOut(t) = {}
  BY DEF HandedOut, Granted
<1>4. QED
  BY <1>1, <1>2, <1>3 DEF RootWritten, Held, Due, Locks

LEMMA RootWrites ==
  ASSUME NEW t \in Thread, RootWritten(t), Create(t) \/ Write(t)
  PROVE  RootWritten(t)'
<1>1. closures[t] # {} /\ UNCHANGED <<rest, todo, held>>
  BY DEF Create, Write
<1>2. ~Held(t, root, 1, TRUE)' /\ ~Due(t, root, 1, TRUE)'
  BY <1>1 DEF RootWritten, Held, Due, Locks
<1>3. QED
  BY <1>1, <1>2 DEF RootWritten

LEMMA RootUnlocks ==
  ASSUME IInv, NEW t \in Thread, RootWritten(t), Unlock(t)
  PROVE  RootWritten(t)'
<1>1. Locks(t)' \subseteq Locks(t)
  BY UnlockShrinks
<1>2. UNCHANGED <<rest, merged, todo, closures>>
  BY DEF Unlock
<1>3. QED
  BY <1>1, <1>2 DEF RootWritten, Held, Due

LEMMA RootDone ==
  ASSUME IInv, NEW t \in Thread, Done(t)
  PROVE  RootWritten(t)'
<1>1. rest'[t] = << >> /\ merged'[t] = {} /\ closures'[t] = {}
  BY DEF Done, IInv, Shapes
<1>2. QED
  BY <1>1 DEF RootWritten

LEMMA RootStep ==
  ASSUME Alone, IInv, [Next]_vars, \A u \in Thread : RootWritten(u)
  PROVE  \A u \in Thread : RootWritten(u)'
<1>1. CASE UNCHANGED vars
  BY <1>1, RootSame DEF vars, Same
<1>2. ASSUME NEW t \in Thread, Step(t) PROVE \A u \in Thread : RootWritten(u)'
  <2>1. OnlyOf(t)
    BY <1>2, OthersSame
  <2>2. RootWritten(t)'
    <3>1. CASE Lock(t) \/ NestedLock(t)
      BY <3>1, RootLock, RootNested
    <3>2. CASE RLock(t)
      BY <1>2, <3>2, RootTake DEF RLock
    <3>3. CASE WLock(t)
      <4>1. pc'[t] \in {"lock", "check"} /\ todo[t] # {}
        BY <3>3 DEF WLock, IInv, Shapes, ThreadOK, ThreadTypes
      <4>2. QED
        BY <1>2, <3>3, <4>1, RootTake DEF WLock
    <3>4. CASE Announce(t) \/ CheckNewKey(t) \/ Cancelled(t) \/ Return(t)
      BY <3>4, RootMoves DEF Announce, CheckNewKey, Cancelled, Return
    <3>5. CASE SetResults(t) \/ Create(t) \/ Write(t) \/ Unlock(t) \/ Done(t)
      BY <3>5, RootResults, RootWrites, RootUnlocks, RootDone
    <3>6. QED
      BY <1>2, <3>1, <3>2, <3>3, <3>4, <3>5 DEF Step
  <2>3. QED
    BY <2>1, <2>2, RootSame DEF OnlyOf
<1>3. QED
  BY <1>1, <1>2 DEF Next, Step

LEMMA RootInit ==
  ASSUME Init, NEW t \in Thread
  PROVE  RootWritten(t)
<1>1. rest[t] = << >> /\ merged[t] = {} /\ closures[t] = {}
  BY DEF Init
<1>2. QED
  BY <1>1 DEF RootWritten

Frozen == (\E t \in Thread : Holds(t, <<"res", root, 1>>, TRUE)) => UNCHANGED cache

(* Theorem: after LockCache (Stop) no closure of any goroutine changes the *)
(* caches: every goroutine that has a closure holds the root for reading,  *)
(* by the synthetic root read of mergeQueries.                             *)
THEOREM ShutdownFreezesHolds ==
  ASSUME Alone
  PROVE  Spec => ShutdownFreezes
<1> DEFINE J == \A u \in Thread : RootWritten(u)
<1>1. Init => J
  BY RootInit
<1>2. IInv /\ J /\ [Next]_vars => J'
  BY RootStep
<1>3. ASSUME IInv, J, [Next]_vars PROVE Frozen
  <2>1. SUFFICES ASSUME NEW t \in Thread, Holds(t, <<"res", root, 1>>, TRUE),
                        NEW u \in Thread, Create(u) \/ Write(u)
                 PROVE  FALSE
    BY <1>3, OnlyWrites DEF Frozen, Next, Step, vars, cache
  <2>2. pc[u] = "granted" /\ closures[u] # {}
    BY <2>1 DEF Create, Write
  <2>3. PICK x \in Locks(u) : x.lock = <<"res", root, 1>>
    BY <1>3, <2>2 DEF IInv, ThreadOK, RootRead, Active, Held
  <2>4. PICK y \in Locks(t) : y.lock = <<"res", root, 1>> /\ y.w
    BY <2>1 DEF Holds, Locks
  <2>5. t = u
    BY <1>3, <2>3, <2>4 DEF IInv, Exclusion
  <2>6. Held(t, root, 1, TRUE)
    BY <2>4 DEF Held
  <2>7. QED
    BY <1>3, <2>2, <2>5, <2>6 DEF RootWritten
<1> HIDE DEF J
<1>4. QED
  BY <1>1, <1>2, <1>3, Invariant, PTL DEF ShutdownFreezes, Frozen, Spec

-----------------------------------------------------------------------------
(* A closure has locked the owners of what it writes, and no goroutine     *)
(* both deletes volumes and takes snapshots.                               *)
OwnersLocked(t) ==
  /\ \A i \in DOMAIN rest[t] : Reads(rest[t][i]) /\ Lists(rest[t][i])
  /\ pc[t] \in Locking =>
       /\ \A s \in merged[t] : Consistent(s) => \A o \in schema[s.res] :
            \E x \in merged[t] : Consistent(x) /\ x.res = o /\ x.id = s.dep[o]
       /\ (\E s \in merged[t] : IsDelete(s)) => \E x \in merged[t] : IsList(x)
  /\ pc[t] \in Active =>
       \A s \in closures[t] : \A o \in schema[s.res] :
         s.dep[o] # 0 => Held(t, o, s.dep[o], FALSE)
  /\ \/ /\ \A i \in DOMAIN rest[t] : NoDelete(rest[t][i])
        /\ \A s \in merged[t] \cup closures[t] : ~IsDelete(s)
     \/ /\ \A i \in DOMAIN rest[t] : NoTake(rest[t][i])
        /\ \A s \in merged[t] \cup closures[t] : ~IsTake(s)

(* Who may delete a volume knows that it has snapshots.                    *)
Informed(t) ==
  pc[t] \in Active =>
    \A s \in closures[t] : IsDelete(s) =>
      \A e \in DOMAIN data : e[1] = snapshot /\ data[e].own[volume] = s.id =>
        elem(s) \in owners[t]

LEMMA OwnersSame ==
  ASSUME NEW u, Same(u)
  PROVE  /\ OwnersLocked(u) => OwnersLocked(u)'
         /\ UNCHANGED data /\ Informed(u) => Informed(u)'
<1>1. Locks(u)' = Locks(u)
  BY DEF Same, Locks
<1>2. OwnersLocked(u) => OwnersLocked(u)'
  BY <1>1 DEF Same, OwnersLocked, Held
<1>3. UNCHANGED data /\ Informed(u) => Informed(u)'
  BY DEF Same, Informed
<1>4. QED
  BY <1>2, <1>3

(* What is merged for a stage deletes, takes and lists what was asked for. *)
LEMMA MergedKinds ==
  ASSUME CacheTypes, NEW stage \in Seq(SUBSET Asked), NEW c, NEW m, m = mergeQueries(stage, c)
  PROVE  /\ NoDelete(stage) => \A s \in m : ~IsDelete(s)
         /\ NoTake(stage) => \A s \in m : ~IsTake(s)
         /\ Lists(stage) /\ (\E s \in m : IsDelete(s)) => \E x \in m : IsList(x)
<1>1. Read(root, 1).op = read /\ read # del /\ read # upsert
  BY ReadFields, Constants, Operations
<1>2. ASSUME NEW s \in m, IsDelete(s) \/ IsTake(s)
      PROVE  \E x \in Sub(stage) : x.res = s.res /\ x.op = s.op
  <2>1. s.op # read
    BY <1>1, <1>2 DEF IsDelete, IsTake
  <2>2. QED
    BY <1>1, <2>1, MergedIs
<1>3. \A x \in Sub(stage) : IsList(x) => x \in m
  BY MergedIs DEF IsList
<1>4. NoDelete(stage) => \A s \in m : ~IsDelete(s)
  BY <1>2 DEF NoDelete, IsDelete
<1>5. NoTake(stage) => \A s \in m : ~IsTake(s)
  BY <1>2 DEF NoTake, IsTake
<1>6. Lists(stage) /\ (\E s \in m : IsDelete(s)) => \E x \in m : IsList(x)
  BY <1>2, <1>3 DEF Lists, IsDelete
<1>7. QED
  BY <1>4, <1>5, <1>6

(* Lock and NestedLock alike: r are the stages to come, stage is the one   *)
(* that starts.                                                            *)
LEMMA OwnersStart ==
  ASSUME CacheTypes, NEW t \in Thread, pc'[t] = "lock",
         NEW stage \in Seq(SUBSET Asked), NEW c, NEW m, m = mergeQueries(stage, c),
         merged'[t] = m, held'[t] = held[t], closures'[t] = closures[t],
         Reads(stage), Lists(stage),
         \A i \in DOMAIN rest'[t] : Reads(rest'[t][i]) /\ Lists(rest'[t][i]),
         \A s \in closures[t] : \A o \in schema[s.res] :
           s.dep[o] # 0 => Held(t, o, s.dep[o], FALSE),
         \/ /\ NoDelete(stage) /\ \A i \in DOMAIN rest'[t] : NoDelete(rest'[t][i])
            /\ \A s \in closures[t] : ~IsDelete(s)
         \/ /\ NoTake(stage) /\ \A i \in DOMAIN rest'[t] : NoTake(rest'[t][i])
            /\ \A s \in closures[t] : ~IsTake(s)
  PROVE  OwnersLocked(t)'
<1>1. Locks(t)' = Locks(t)
  BY DEF Locks
<1>2. \A s \in m : Consistent(s) => \A o \in schema[s.res] :
        \E x \in m : Consistent(x) /\ x.res = o /\ x.id = s.dep[o]
  BY MergedIs
<1>3. (\E s \in m : IsDelete(s)) => \E x \in m : IsList(x)
  BY MergedKinds
<1>4. \/ /\ \A i \in DOMAIN rest'[t] : NoDelete(rest'[t][i])
         /\ \A s \in m \cup closures[t] : ~IsDelete(s)
      \/ /\ \A i \in DOMAIN rest'[t] : NoTake(rest'[t][i])
         /\ \A s \in m \cup closures[t] : ~IsTake(s)
  BY MergedKinds
<1>5. \A s \in closures'[t] : \A o \in schema[s.res] :
        s.dep[o] # 0 => Held(t, o, s.dep[o], FALSE)'
  BY <1>1 DEF Held
<1>6. QED
  BY <1>2, <1>3, <1>4, <1>5 DEF OwnersLocked

LEMMA OwnersLock ==
  ASSUME Careful, IInv, NEW t \in Thread, Lock(t)
  PROVE  OwnersLocked(t)' /\ Informed(t)'
<1>1. CacheTypes
  BY DEF IInv
<1>2. PICK p \in Program[t] : /\ Start(t, p[1], NoCtx)
                              /\ rest' = [rest EXCEPT ![t] = Tail(p)]
  BY DEF Lock
<1>3. p \in Seq(Seq(SUBSET Asked)) /\ p # << >>
  BY ProgramAssumption
<1>4. p[1] \in Seq(SUBSET Asked) /\ 1 \in DOMAIN p
  BY <1>3
<1>5. closures[t] = {}
  BY DEF IInv, ThreadOK, ThreadTypes, Lock
<1>6. PICK m : m = mergeQueries(p[1], NoCtx)
  OBVIOUS
<1>7. /\ merged'[t] = m /\ pc'[t] = "lock" /\ rest'[t] = Tail(p)
      /\ held'[t] = held[t] /\ closures'[t] = closures[t]
  BY <1>2, <1>6 DEF Lock, Start, IInv, Shapes
<1>8. /\ \A i \in DOMAIN p : Reads(p[i]) /\ Lists(p[i])
      /\ (\A i \in DOMAIN p : NoDelete(p[i])) \/ (\A i \in DOMAIN p : NoTake(p[i]))
  BY <1>2 DEF Careful
<1>9. \A i \in DOMAIN Tail(p) : i + 1 \in DOMAIN p /\ Tail(p)[i] = p[i + 1]
  BY <1>3, TailKeeps
<1>10. /\ \A i \in DOMAIN rest'[t] : Reads(rest'[t][i]) /\ Lists(rest'[t][i])
       /\ \/ NoDelete(p[1]) /\ \A i \in DOMAIN rest'[t] : NoDelete(rest'[t][i])
          \/ NoTake(p[1]) /\ \A i \in DOMAIN rest'[t] : NoTake(rest'[t][i])
  BY <1>4, <1>7, <1>8, <1>9
<1>11. PICK stage \in Seq(SUBSET Asked) : stage = p[1]
  BY <1>4
<1>12. Reads(stage) /\ Lists(stage)
  BY <1>4, <1>8, <1>11
<1>13. OwnersLocked(t)'
  BY <1>1, <1>5, <1>6, <1>7, <1>10, <1>11, <1>12, OwnersStart
<1>14. QED
  BY <1>5, <1>7, <1>13 DEF Informed

LEMMA OwnersNested ==
  ASSUME IInv, NEW t \in Thread, OwnersLocked(t), Informed(t), NestedLock(t)
  PROVE  OwnersLocked(t)' /\ Informed(t)'
<1>1. CacheTypes /\ pc[t] = "granted"
  BY DEF IInv, NestedLock
<1>2. PICK r \in Seq(Seq(SUBSET Asked)) : r = rest[t]
  BY DEF IInv, ThreadOK, ThreadTypes
<1>3. /\ Head(r) \in Seq(SUBSET Asked) /\ 1 \in DOMAIN r /\ Head(r) = r[1] /\ r # << >>
      /\ rest'[t] = Tail(r)
  BY <1>2 DEF NestedLock, IInv, Shapes
<1>4. /\ held'[t] = held[t] /\ closures'[t] = closures[t] /\ owners'[t] = owners[t]
      /\ data' = data /\ pc[t] \in Active
  BY <1>1 DEF NestedLock, cache, Active
<1>5. \A i \in DOMAIN Tail(r) : i + 1 \in DOMAIN r /\ Tail(r)[i] = r[i + 1]
  BY <1>3, TailKeeps
<1>6. /\ \A i \in DOMAIN r : Reads(r[i]) /\ Lists(r[i])
      /\ \/ (\A i \in DOMAIN r : NoDelete(r[i])) /\ \A s \in merged[t] \cup closures[t] : ~IsDelete(s)
         \/ (\A i \in DOMAIN r : NoTake(r[i])) /\ \A s \in merged[t] \cup closures[t] : ~IsTake(s)
  BY <1>2 DEF OwnersLocked
<1>7. \A i \in DOMAIN rest'[t] : Reads(rest'[t][i]) /\ Lists(rest'[t][i])
  BY <1>3, <1>5, <1>6
<1>8. /\ (\A i \in DOMAIN r : NoDelete(r[i])) => \A i \in DOMAIN rest'[t] : NoDelete(rest'[t][i])
      /\ (\A i \in DOMAIN r : NoTake(r[i])) => \A i \in DOMAIN rest'[t] : NoTake(rest'[t][i])
  BY <1>3, <1>5
<1>9. Informed(t)'
  BY <1>4 DEF Informed
<1>10. CASE pc' = [pc EXCEPT ![t] = "unlock"] /\ UNCHANGED <<merged, todo>>
  <2>1. pc'[t] = "unlock" /\ merged'[t] = merged[t]
    BY <1>10 DEF IInv, Shapes
  <2>2. OwnersLocked(t)'
    BY <1>4, <1>6, <1>7, <1>8, <2>1 DEF OwnersLocked, Locking, Active
  <2>3. QED
    BY <1>9, <2>2
<1>11. CASE Start(t, Head(rest[t]), ctx[t])
  <2>1. PICK c : c = ctx[t]
    OBVIOUS
  <2>2. PICK stage \in Seq(SUBSET Asked) : stage = Head(r)
    BY <1>3
  <2>3. PICK m : m = mergeQueries(stage, c)
    OBVIOUS
  <2>4. merged'[t] = m /\ pc'[t] = "lock"
    BY <1>2, <1>11, <2>1, <2>2, <2>3 DEF Start, IInv, Shapes
  <2>5. /\ Reads(stage) /\ Lists(stage)
        /\ \/ NoDelete(stage) /\ (\A i \in DOMAIN rest'[t] : NoDelete(rest'[t][i]))
              /\ \A s \in closures[t] : ~IsDelete(s)
           \/ NoTake(stage) /\ (\A i \in DOMAIN rest'[t] : NoTake(rest'[t][i]))
              /\ \A s \in closures[t] : ~IsTake(s)
    BY <1>3, <1>6, <1>8, <2>2
  <2>6. \A s \in closures[t] : \A o \in schema[s.res] :
          s.dep[o] # 0 => Held(t, o, s.dep[o], FALSE)
    BY <1>4 DEF OwnersLocked
  <2>7. OwnersLocked(t)'
    BY <1>1, <1>4, <1>7, <2>3, <2>4, <2>5, <2>6, OwnersStart
  <2>8. QED
    BY <1>9, <2>7
<1>12. QED
  BY <1>10, <1>11 DEF NestedLock

LEMMA OwnersTake ==
  ASSUME IInv, NEW t \in Thread, OwnersLocked(t), Informed(t), Step(t),
         pc[t] \in {"lock", "pending"}, todo[t] # {}, Take(t), pc'[t] \in {"lock", "check"}
  PROVE  OwnersLocked(t)' /\ Informed(t)'
<1>1. Locks(t) \subseteq Locks(t)'
  BY TakeOK
<1>2. UNCHANGED <<data, rest, merged, closures, owners>>
  BY DEF Take, cache
<1>3. pc[t] \in Locking /\ pc[t] \in Active
  BY DEF Locking, Active
<1>4. OwnersLocked(t)'
  BY <1>1, <1>2, <1>3 DEF OwnersLocked, Held
<1>5. Informed(t)'
  BY <1>2, <1>3 DEF Informed
<1>6. QED
  BY <1>4, <1>5

LEMMA OwnersMoves ==
  ASSUME NEW t \in Thread, OwnersLocked(t), Informed(t),
         UNCHANGED <<data, rest, merged, closures, owners>>,
         \/ pc'[t] = "unlock"
         \/ held' = held /\ pc[t] \in Locking /\ pc'[t] \in Locking
  PROVE  OwnersLocked(t)' /\ Informed(t)'
<1>1. CASE pc'[t] = "unlock"
  BY <1>1 DEF OwnersLocked, Informed, Locking, Active
<1>2. CASE held' = held /\ pc[t] \in Locking /\ pc'[t] \in Locking
  <2>1. Locks(t)' = Locks(t) /\ pc[t] \in Active
    BY <1>2 DEF Locks, Locking, Active
  <2>2. QED
    BY <1>2, <2>1 DEF OwnersLocked, Informed, Held
<1>3. QED
  BY <1>1, <1>2

LEMMA OwnersResults ==
  ASSUME IInv, NEW t \in Thread, OwnersLocked(t), Informed(t), SetResults(t)
  PROVE  OwnersLocked(t)' /\ Informed(t)'
<1> DEFINE L == {s.res : s \in {x \in merged[t] : x.op = list}}
<1>1. /\ pc[t] = "lock" /\ pc'[t] = "granted" /\ todo[t] = {} /\ merged'[t] = {}
      /\ rest'[t] = rest[t] /\ held'[t] = held[t] /\ data' = data
  BY DEF SetResults, IInv, Shapes, cache
<1>2. closures'[t] = closures[t] \cup HandedOut(t)
  BY ResultsAre
<1>3. owners'[t] = owners[t] \cup UNION {{<<o, data[e].own[o]>> : o \in DOMAIN data[e].own} :
                                           e \in {x \in DOMAIN data : x[1] \in L}}
  BY DEF SetResults, IInv, Shapes
<1>4. \A s \in HandedOut(t) : s \in merged[t] /\ Consistent(s)
  BY DEF HandedOut, Granted
<1>5. Locks(t)' = Locks(t) /\ pc[t] \in Locking /\ pc[t] \in Active
  BY <1>1 DEF Locks, Locking, Active
<1>6. ASSUME NEW s \in closures'[t], NEW o \in schema[s.res], s.dep[o] # 0
      PROVE  Held(t, o, s.dep[o], FALSE)
  <2>1. CASE s \in closures[t]
    BY <1>5, <1>6, <2>1 DEF OwnersLocked
  <2>2. CASE s \in HandedOut(t)
    <3>1. PICK x \in merged[t] : Consistent(x) /\ x.res = o /\ x.id = s.dep[o]
      BY <1>4, <1>5, <1>6, <2>2 DEF OwnersLocked
    <3>2. ~Due(t, x.res, x.id, isWriteOp(x.op))
      BY <1>1 DEF Due
    <3>3. Held(t, x.res, x.id, isWriteOp(x.op))
      BY <1>5, <1>6, <3>1, <3>2 DEF IInv, ThreadOK, Covered
    <3>4. QED
      BY <3>1, <3>3 DEF Held
  <2>3. QED
    BY <1>2, <2>1, <2>2
<1>7. OwnersLocked(t)'
  <2>1. pc'[t] \notin Locking
    BY <1>1 DEF Locking
  <2>2. \A s \in merged'[t] \cup closures'[t] : s \in merged[t] \cup closures[t]
    BY <1>1, <1>2, <1>4
  <2>3. \A s \in closures'[t] : \A o \in schema[s.res] :
          s.dep[o] # 0 => Held(t, o, s.dep[o], FALSE)'
    BY <1>5, <1>6 DEF Held
  <2>4. QED
    BY <1>1, <2>1, <2>2, <2>3 DEF OwnersLocked
<1>8. ASSUME NEW s \in closures'[t], IsDelete(s), NEW e \in DOMAIN data,
             e[1] = snapshot, data[e].own[volume] = s.id
      PROVE  elem(s) \in owners'[t]
  <2>1. CASE s \in closures[t]
    BY <1>3, <1>5, <1>8, <2>1 DEF Informed
  <2>2. CASE s \in HandedOut(t)
    <3>1. snapshot \in L
      BY <1>4, <1>5, <1>8, <2>2 DEF OwnersLocked, IsList
    <3>2. data[e].own \in [schema[snapshot] -> Nat]
      BY <1>8 DEF IInv, CacheTypes, DataOK
    <3>3. volume \in DOMAIN data[e].own
      BY <3>2, Schema
    <3>4. elem(s) = <<volume, data[e].own[volume]>>
      BY <1>8 DEF elem, IsDelete
    <3> HIDE DEF L
    <3>5. QED
      BY <1>3, <1>8, <3>1, <3>3, <3>4
  <2>3. QED
    BY <1>2, <2>1, <2>2
<1>9. Informed(t)'
  BY <1>1, <1>8 DEF Informed
<1>10. QED
  BY <1>7, <1>9

LEMMA OwnersCreate ==
  ASSUME IInv, NEW t \in Thread, OwnersLocked(t), Informed(t), Create(t)
  PROVE  OwnersLocked(t)' /\ Informed(t)'
<1>1. PICK s \in closures[t], id \in uuids :
        closures' = [closures EXCEPT ![t] =
          (@ \ {s}) \cup {[s EXCEPT !.id = id, !.op = create]}] /\ s.id = 0
  BY DEF Create
<1>2. PICK z : z = [s EXCEPT !.id = id, !.op = create]
  OBVIOUS
<1>3. closures'[t] = (closures[t] \ {s}) \cup {z}
  BY <1>1, <1>2 DEF IInv, Shapes
<1>4. Closure(s)
  BY DEF IInv, ThreadOK, ThreadTypes
<1>5. z.op = create /\ z.res = s.res
  BY <1>2, <1>4 DEF Closure, IsSubquery
<1>6. schema[z.res] = {} /\ ~IsDelete(z) /\ ~IsTake(z)
  <2>1. s.res \in allowBlankID
    BY <1>1, <1>4 DEF Closure
  <2>2. schema[s.res] = {}
    BY <2>1, Schema, Constants DEF allowBlankID
  <2>3. QED
    BY <1>5, <2>2, Operations DEF IsDelete, IsTake
<1>7. /\ pc[t] = "granted" /\ UNCHANGED <<data, pc, rest, merged, held, owners>>
  BY DEF Create
<1>8. Locks(t)' = Locks(t)
  BY <1>7 DEF Locks
<1>9. OwnersLocked(t)'
  <2>1. \A x \in merged'[t] \cup closures'[t] : x \in merged[t] \cup closures[t] \/ x = z
    BY <1>3, <1>7
  <2>2. pc[t] \in Active /\ pc'[t] \notin Locking
    BY <1>7 DEF Active, Locking
  <2>3. \A x \in closures'[t] : \A o \in schema[x.res] :
          x.dep[o] # 0 => Held(t, o, x.dep[o], FALSE)
    BY <1>3, <1>6, <2>2 DEF OwnersLocked
  <2>4. QED
    BY <1>6, <1>7, <1>8, <2>1, <2>2, <2>3 DEF OwnersLocked, Held
<1>10. Informed(t)'
  BY <1>3, <1>6, <1>7 DEF Informed
<1>11. QED
  BY <1>9, <1>10

LEMMA OwnersDone ==
  ASSUME IInv, NEW t \in Thread, Done(t)
  PROVE  OwnersLocked(t)' /\ Informed(t)'
<1>1. rest'[t] = << >> /\ merged'[t] = {} /\ closures'[t] = {}
  BY DEF Done, IInv, Shapes
<1>2. pc'[t] \notin Locking
  BY DEF Done, IInv, Shapes, Locking
<1>3. QED
  BY <1>1, <1>2 DEF OwnersLocked, Informed

(* The steps that leave the objects alone.                                 *)
LEMMA OwnersStep ==
  ASSUME Careful, IInv, NEW t \in Thread, Step(t), ~Write(t), OwnersLocked(t), Informed(t)
  PROVE  OwnersLocked(t)' /\ Informed(t)'
<1>1. CASE Lock(t) \/ NestedLock(t)
  BY <1>1, OwnersLock, OwnersNested
<1>2. CASE RLock(t)
  BY <1>2, OwnersTake DEF RLock
<1>3. CASE WLock(t)
  <2>1. pc'[t] \in {"lock", "check"} /\ todo[t] # {}
    BY <1>3 DEF WLock, IInv, Shapes, ThreadOK, ThreadTypes
  <2>2. QED
    BY <1>3, <2>1, OwnersTake DEF WLock
<1>4. CASE Announce(t)
  <2>1. pc[t] \in Locking /\ pc'[t] \in Locking
    BY <1>4 DEF Announce, Locking, IInv, Shapes
  <2>2. QED
    BY <1>4, <2>1, OwnersMoves DEF Announce, cache
<1>5. CASE CheckNewKey(t)
  <2>1. pc[t] \in Locking /\ (pc'[t] = "unlock" \/ pc'[t] \in Locking)
    BY <1>5 DEF CheckNewKey, Locking, IInv, Shapes
  <2>2. QED
    BY <1>5, <2>1, OwnersMoves DEF CheckNewKey, cache
<1>6. CASE Cancelled(t)
  <2>1. pc'[t] = "unlock"
    BY <1>6 DEF Cancelled, IInv, Shapes
  <2>2. QED
    BY <1>6, <2>1, OwnersMoves DEF Cancelled, cache
<1>7. CASE Return(t)
  <2>1. pc'[t] = "unlock"
    BY <1>7 DEF Return, IInv, Shapes
  <2>2. QED
    BY <1>7, <2>1, OwnersMoves DEF Return, cache
<1>8. CASE Unlock(t)
  <2>1. pc'[t] = "unlock"
    BY <1>8 DEF Unlock
  <2>2. QED
    BY <1>8, <2>1, OwnersMoves DEF Unlock, cache
<1>9. CASE SetResults(t) \/ Create(t) \/ Done(t)
  BY <1>9, OwnersResults, OwnersCreate, OwnersDone
<1>10. QED
  BY <1>1, <1>2, <1>3, <1>4, <1>5, <1>6, <1>7, <1>8, <1>9 DEF Step

(* Informed survives what others write: to give a volume a snapshot takes  *)
(* a lock on the volume, and who may delete the volume holds it alone.     *)
LEMMA OwnersWrite ==
  ASSUME IInv, NEW t \in Thread, Write(t), \A u \in Thread : OwnersLocked(u) /\ Informed(u),
         OwnersExist
  PROVE  (\A u \in Thread : OwnersLocked(u)' /\ Informed(u)') /\ OwnersExist'
<1>1. PICK s \in closures[t] :
        /\ s.id # 0
        /\ IF s.op = del THEN DeleteClosure(t, s) ELSE UpsertClosure(s)
        /\ closures' = [closures EXCEPT ![t] = @ \ {s}]
  BY DEF Write
<1>2. /\ closures'[t] = closures[t] \ {s} /\ Closure(s)
      /\ pc[t] = "granted" /\ UNCHANGED <<pc, rest, merged, held, owners>>
  BY <1>1 DEF IInv, Shapes, ThreadOK, ThreadTypes, Write
<1>3. /\ \A e \in DOMAIN data : e # elem(s) => e \in DOMAIN data' /\ data'[e] = data[e]
      /\ \A e \in DOMAIN data' : e # elem(s) => e \in DOMAIN data
      /\ IF s.op = del THEN elem(s) \in DOMAIN data /\ elem(s) \notin DOMAIN data'
         ELSE elem(s) \in DOMAIN data' /\ data'[elem(s)].own = s.dep
  BY <1>1, <1>2, WriteIs DEF IInv
<1>4. OnlyOf(t)
  BY OthersSame DEF Step
<1>5. elem(s)[1] = s.res /\ elem(s)[2] = s.id
  BY DEF elem
<1>6. volume \notin allowBlankID /\ snapshot \notin allowBlankID
  BY Constants DEF allowBlankID
<1>7. \A u \in Thread : closures'[u] \subseteq closures[u]
  BY <1>2, <1>4 DEF OnlyOf, Same
<1>8. ASSUME NEW u \in Thread PROVE OwnersLocked(u)'
  <2>1. Locks(u)' = Locks(u)
    BY <1>2 DEF Locks
  <2>2. OwnersLocked(u) /\ closures'[u] \subseteq closures[u]
    BY <1>7
  <2>3. pc'[u] = pc[u] /\ rest'[u] = rest[u] /\ merged'[u] = merged[u]
    BY <1>2
  <2>4. \A x \in merged'[u] \cup closures'[u] : x \in merged[u] \cup closures[u]
    BY <2>2, <2>3
  <2>5. pc[u] \in Active => \A x \in closures'[u] : \A o \in schema[x.res] :
          x.dep[o] # 0 => Held(u, o, x.dep[o], FALSE)'
    <3>1. pc[u] \in Active => \A x \in closures[u] : \A o \in schema[x.res] :
            x.dep[o] # 0 => Held(u, o, x.dep[o], FALSE)
      BY <2>2 DEF OwnersLocked
    <3>2. \A o, i : Held(u, o, i, FALSE)' <=> Held(u, o, i, FALSE)
      BY <2>1 DEF Held
    <3>3. QED
      BY <2>2, <3>1, <3>2
  <2>6. \/ /\ \A i \in DOMAIN rest'[u] : NoDelete(rest'[u][i])
           /\ \A x \in merged'[u] \cup closures'[u] : ~IsDelete(x)
        \/ /\ \A i \in DOMAIN rest'[u] : NoTake(rest'[u][i])
           /\ \A x \in merged'[u] \cup closures'[u] : ~IsTake(x)
    <3>1. \/ /\ \A i \in DOMAIN rest[u] : NoDelete(rest[u][i])
             /\ \A x \in merged[u] \cup closures[u] : ~IsDelete(x)
          \/ /\ \A i \in DOMAIN rest[u] : NoTake(rest[u][i])
             /\ \A x \in merged[u] \cup closures[u] : ~IsTake(x)
      BY <2>2 DEF OwnersLocked
    <3>2. QED
      BY <2>3, <2>4, <3>1
  <2>7. /\ \A i \in DOMAIN rest'[u] : Reads(rest'[u][i]) /\ Lists(rest'[u][i])
        /\ pc'[u] \in Locking =>
             /\ \A x \in merged'[u] : Consistent(x) => \A o \in schema[x.res] :
                  \E y \in merged'[u] : Consistent(y) /\ y.res = o /\ y.id = x.dep[o]
             /\ (\E x \in merged'[u] : IsDelete(x)) => \E y \in merged'[u] : IsList(y)
    BY <2>2, <2>3 DEF OwnersLocked
  <2>8. QED
    BY <2>3, <2>5, <2>6, <2>7 DEF OwnersLocked
<1>9. ASSUME NEW u \in Thread, pc[u] \in Active, NEW x \in closures'[u], IsDelete(x),
             NEW e \in DOMAIN data', e[1] = snapshot, data'[e].own[volume] = x.id
      PROVE  elem(x) \in owners[u]
  <2>1. x \in closures[u] /\ Closure(x)
    BY <1>7 DEF IInv, ThreadOK, ThreadTypes
  <2>2. CASE e # elem(s)
    <3>1. e \in DOMAIN data /\ data'[e] = data[e]
      BY <1>3, <2>2
    <3>2. QED
      BY <1>9, <2>1, <3>1 DEF Informed
  <2>3. CASE e = elem(s)
    <3>1. s.op # del /\ s.dep[volume] = x.id /\ s.res = snapshot
      BY <1>3, <1>5, <1>9, <2>3
    <3>2. IsTake(s)
      BY <1>2, <1>6, <3>1 DEF Closure, IsTake
    <3>3. x.id # 0 /\ x.op # create /\ x.res = volume
      BY <1>6, <1>9, <2>1 DEF Closure, IsDelete
    <3>4. volume \in schema[s.res]
      BY <3>1, Schema
    <3>5. pc[t] \in Active
      BY <1>2 DEF Active
    <3>6. Held(t, volume, x.id, FALSE)
      BY <3>1, <3>3, <3>4, <3>5 DEF OwnersLocked
    <3>7. Held(u, volume, x.id, TRUE)
      BY <1>9, <2>1, <3>3 DEF IInv, ThreadOK, Covered
    <3>8. t = u
      BY <3>6, <3>7 DEF Held, IInv, Exclusion
    <3>9. QED
      BY <1>9, <2>1, <3>2, <3>8 DEF OwnersLocked
  <2>4. QED
    BY <2>2, <2>3
<1>10. \A u \in Thread : Informed(u)'
  BY <1>2, <1>9 DEF Informed
<1>11. ASSUME NEW e \in DOMAIN data', e[1] \in {volume, snapshot}, NEW o \in schema[e[1]]
       PROVE  <<o, data'[e].own[o]>> \in DOMAIN data'
  <2>1. CASE s.op # del
    <3>1. \A x \in DOMAIN data : x \in DOMAIN data'
      BY <1>3, <2>1
    <3>2. CASE e = elem(s)
      <4>1. data'[e].own = s.dep /\ DOMAIN s.dep = schema[e[1]]
        BY <1>2, <1>3, <1>5, <2>1, <3>2 DEF Closure
      <4>2. Stored(data, o, s.dep[o])
        BY <1>1, <1>11, <2>1, <4>1 DEF UpsertClosure, CanUpsert
      <4>3. QED
        BY <3>1, <4>1, <4>2 DEF Stored
    <3>3. CASE e # elem(s)
      <4>1. e \in DOMAIN data /\ data'[e] = data[e]
        BY <1>3, <3>3
      <4>2. Stored(data, o, data[e].own[o])
        BY <1>11, <4>1 DEF OwnersExist
      <4>3. QED
        BY <3>1, <4>1, <4>2 DEF Stored
    <3>4. QED
      BY <3>2, <3>3
  <2>2. CASE s.op = del
    <3>1. e # elem(s)
      BY <1>3, <2>2
    <3>2. e \in DOMAIN data /\ data'[e] = data[e]
      BY <1>3, <3>1
    <3>3. <<o, data[e].own[o]>> \in DOMAIN data
      BY <1>11, <3>2 DEF OwnersExist, Stored
    <3>4. <<o, data[e].own[o]>> # elem(s)
      <4>1. SUFFICES ASSUME o = s.res, data[e].own[o] = s.id PROVE FALSE
        BY DEF elem
      <4>2. /\ elem(s) \notin owners[t]
            /\ s.res = backend => \A x \in DOMAIN data : x[1] = volume => data[x].own[backend] # s.id
        BY <1>1, <2>2 DEF DeleteClosure
      <4>3. CASE e[1] = volume
        <5>1. o = backend
          BY <1>11, <4>3, Schema
        <5>2. QED
          BY <3>2, <4>1, <4>2, <4>3, <5>1
      <4>4. CASE e[1] = snapshot
        <5>1. o = volume
          BY <1>11, <4>4, Schema
        <5>2. IsDelete(s) /\ pc[t] \in Active
          BY <1>2, <2>2, <4>1, <5>1 DEF IsDelete, Active
        <5>3. elem(s) \in owners[t]
          BY <3>2, <4>1, <4>4, <5>1, <5>2 DEF Informed
        <5>4. QED
          BY <4>2, <5>3
      <4>5. QED
        BY <1>11, <4>3, <4>4
    <3>5. QED
      BY <1>3, <3>2, <3>3, <3>4
  <2>3. QED
    BY <2>1, <2>2
<1>12. OwnersExist'
  BY <1>11 DEF OwnersExist, Stored
<1>13. QED
  BY <1>8, <1>10, <1>12

OwnersInv == (\A u \in Thread : OwnersLocked(u) /\ Informed(u)) /\ OwnersExist

LEMMA OwnersInductive ==
  ASSUME Careful, IInv, OwnersInv, [Next]_vars
  PROVE  OwnersInv'
<1>1. CASE UNCHANGED vars
  <2>1. \A u \in Thread : Same(u)
    BY <1>1 DEF vars, Same
  <2>2. data' = data
    BY <1>1 DEF vars
  <2>3. OwnersExist'
    BY <2>2 DEF OwnersInv, OwnersExist, Stored
  <2>4. QED
    BY <2>1, <2>2, <2>3, OwnersSame DEF OwnersInv
<1>2. ASSUME NEW t \in Thread, Step(t), ~Write(t) PROVE OwnersInv'
  <2>1. OnlyOf(t) /\ data' = data
    BY <1>2, OthersSame, OnlyWrites
  <2>2. OwnersLocked(t)' /\ Informed(t)'
    BY <1>2, OwnersStep DEF OwnersInv
  <2>3. OwnersExist'
    BY <2>1 DEF OwnersInv, OwnersExist, Stored
  <2>4. QED
    BY <2>1, <2>2, <2>3, OwnersSame DEF OwnersInv, OnlyOf
<1>3. ASSUME NEW t \in Thread, Write(t) PROVE OwnersInv'
  BY <1>3, OwnersWrite DEF OwnersInv
<1>4. QED
  BY <1>1, <1>2, <1>3 DEF Next, Step

LEMMA OwnersInit ==
  ASSUME Whole, Init
  PROVE  OwnersInv
<1>1. ASSUME NEW t \in Thread PROVE OwnersLocked(t) /\ Informed(t)
  <2>1. pc[t] = "idle" /\ rest[t] = << >> /\ merged[t] = {} /\ closures[t] = {}
    BY DEF Init
  <2>2. QED
    BY <2>1 DEF OwnersLocked, Informed, Locking, Active
<1>2. DOMAIN data = DOMAIN Cached /\ \A e \in DOMAIN data : data[e].own = Cached[e].own
  BY DEF Init
<1>3. OwnersExist
  BY <1>2 DEF OwnersExist, Stored, Whole
<1>4. QED
  BY <1>1, <1>3 DEF OwnersInv

(* Theorem: no volume outlives its backend and no snapshot its volume,     *)
(* whatever creations and deletions overlap (the owner locks that          *)
(* buildTrees adds, and the checks of deleteVolume and deleteBackend under *)
(* them), for callers that keep to Careful.                                *)
THEOREM OwnersExistHolds ==
  ASSUME Careful, Whole
  PROVE  Spec => []OwnersExist
<1>1. Init => OwnersInv
  BY OwnersInit
<1>2. IInv /\ OwnersInv /\ [Next]_vars => OwnersInv'
  BY OwnersInductive
<1>3. OwnersInv => OwnersExist
  BY DEF OwnersInv
<1>4. QED
  BY <1>1, <1>2, <1>3, Invariant, PTL DEF Spec
=============================================================================
