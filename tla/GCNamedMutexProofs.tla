------------------------- MODULE GCNamedMutexProofs -------------------------
(* Machine-checked proofs about GCNamedMutex, for any number of goroutines, *)
(* names and heap cells.                                                    *)
EXTENDS GCNamedMutex, FiniteSetTheorems, TLAPS

(* The goroutines that wait for or hold name n.                            *)
Users(n) == {t \in Thread : pc[t] # "idle" /\ name[t] = n}

(* A goroutine works with the object its name leads to.                    *)
RefIsEntry ==
  \A t \in Thread :
    IF pc[t] = "idle" THEN ref[t] = NoObj
    ELSE mutexes[name[t]] # NoObj /\ ref[t] = mutexes[name[t]]

(* Two names never share an object.                                        *)
DistinctEntries ==
  \A m, n \in Name : mutexes[m] = mutexes[n] /\ mutexes[m] # NoObj => m = n

(* The reference count is the number of users, and never zero.             *)
Counted ==
  \A n \in Name :
    mutexes[n] # NoObj => /\ c[mutexes[n]] = Cardinality(Users(n))
                          /\ Users(n) # {}

(* The RWMutex agrees with where the goroutines are.                       *)
ReadersInside ==
  \A n \in Name :
    mutexes[n] # NoObj =>
      rd[mutexes[n]] = {t \in Thread : pc[t] = "reading" /\ name[t] = n}

WriterInside ==
  \A n \in Name : mutexes[n] # NoObj =>
    \A t \in Thread :
      wr[mutexes[n]] = t <=> (pc[t] \in {"wpending", "writing"} /\ name[t] = n)

WriterAlone == \A t \in Thread : pc[t] = "writing" => rd[ref[t]] = {}

Inv == /\ TypeOK /\ RefIsEntry /\ DistinctEntries /\ Counted
       /\ ReadersInside /\ WriterInside /\ WriterAlone

(* Only finitely many goroutines use a name, so they can be counted.       *)
LEMMA UsersFinite ==
  \A n \in Name : IsFiniteSet(Users(n)) /\ Cardinality(Users(n)) \in Nat
<1> TAKE n \in Name
<1>1. Users(n) \subseteq Thread BY DEF Users
<1> QED BY <1>1, ThreadFinite, FS_Subset, FS_CardinalityType

(* Counting one more caller on an entry.                                   *)
LEMMA CountUp ==
  ASSUME NEW S, IsFiniteSet(S), NEW x, x \notin S
  PROVE  Cardinality(S \cup {x}) = Cardinality(S) + 1
BY FS_AddElement

(* Counting one caller less, and when that was the last one.               *)
LEMMA CountDown ==
  ASSUME NEW S, IsFiniteSet(S), NEW x \in S
  PROVE  /\ Cardinality(S \ {x}) = Cardinality(S) - 1
         /\ Cardinality(S) = 1 <=> S \ {x} = {}
<1>1. /\ IsFiniteSet(S \ {x})
      /\ Cardinality(S \ {x}) = Cardinality(S) - 1
  BY FS_RemoveElement
<1>2. Cardinality(S \ {x}) \in Nat /\ Cardinality(S) \in Nat
  BY <1>1, FS_CardinalityType
<1>3. Cardinality(S \ {x}) = 0 <=> S \ {x} = {}
  BY <1>1, FS_EmptySet
<1> QED BY <1>1, <1>2, <1>3

(* NewGCNamedMutex starts with an empty map.                               *)
LEMMA InitInv == Init => Inv
<1> SUFFICES ASSUME Init PROVE Inv OBVIOUS
<1> USE DEF Init
<1>1. TypeOK BY DEF TypeOK, PC
<1>2. RefIsEntry BY DEF RefIsEntry
<1>3. DistinctEntries BY DEF DistinctEntries
<1>4. Counted /\ ReadersInside /\ WriterInside
  BY DEF Counted, ReadersInside, WriterInside
<1>5. WriterAlone BY DEF WriterAlone
<1> QED BY <1>1, <1>2, <1>3, <1>4, <1>5 DEF Inv

(* The head of Lock and RLock.                                             *)
LEMMA EnterInv ==
  ASSUME Inv, NEW t \in Thread, NEW n \in Name, NEW next \in {"lock", "rlock"},
         Enter(t, n, next)
  PROVE  Inv'
<1> USE DEF Enter
<1>0. /\ pc[t] = "idle" /\ t \notin Users(n)
      /\ Users(n)' = Users(n) \cup {t}
      /\ \A m \in Name : m # n => Users(m)' = Users(m)
  BY DEF Inv, TypeOK, Users
<1>1. TypeOK' BY NoObjAssumption DEF Inv, TypeOK, PC
<1>2. CASE mutexes[n] # NoObj
  <2> USE <1>2
  <2>1. RefIsEntry' BY DEF Inv, TypeOK, RefIsEntry
  <2>2. DistinctEntries' BY DEF Inv, TypeOK, DistinctEntries
  <2>3. Counted'
    <3> SUFFICES ASSUME NEW m \in Name, mutexes'[m] # NoObj
                 PROVE  /\ c'[mutexes'[m]] = Cardinality(Users(m)')
                        /\ Users(m)' # {}
      BY DEF Counted
    <3>1. CASE m = n
      <4>1. c[mutexes[n]] = Cardinality(Users(n)) BY DEF Inv, Counted
      <4>2. Cardinality(Users(n) \cup {t}) = Cardinality(Users(n)) + 1
        BY <1>0, UsersFinite, CountUp
      <4> QED BY <1>0, <3>1, <4>1, <4>2 DEF Inv, TypeOK
    <3>2. CASE m # n
      <4>1. mutexes[m] # mutexes[n] BY <3>2 DEF Inv, DistinctEntries
      <4> QED BY <1>0, <3>2, <4>1 DEF Inv, TypeOK, Counted
    <3> QED BY <3>1, <3>2
  <2>4. ReadersInside' BY DEF Inv, TypeOK, ReadersInside
  <2>5. WriterInside' BY DEF Inv, TypeOK, WriterInside
  <2>6. WriterAlone' BY DEF Inv, TypeOK, WriterAlone
  <2> QED BY <1>1, <2>1, <2>2, <2>3, <2>4, <2>5, <2>6 DEF Inv
<1>3. CASE mutexes[n] = NoObj
  <2> USE <1>3
  <2>1. PICK o \in Obj :
          /\ Free(o)
          /\ mutexes' = [mutexes EXCEPT ![n] = o]
          /\ c' = [c EXCEPT ![o] = 1]
          /\ wr' = [wr EXCEPT ![o] = NoThread]
          /\ rd' = [rd EXCEPT ![o] = {}]
          /\ ref' = [ref EXCEPT ![t] = o]
    OBVIOUS
  <2>2. /\ \A m \in Name : mutexes[m] # o
        /\ \A u \in Thread : ref[u] # o
        /\ o # NoObj
    BY <2>1, NoObjAssumption DEF Free
  <2>3. Users(n) = {} BY DEF Inv, RefIsEntry, Users
  <2>4. RefIsEntry' BY <2>1, <2>2 DEF Inv, TypeOK, RefIsEntry
  <2>5. DistinctEntries' BY <2>1, <2>2 DEF Inv, TypeOK, DistinctEntries
  <2>6. Counted'
    <3>1. Cardinality({t}) = 1 BY FS_Singleton
    <3> QED BY <1>0, <2>1, <2>2, <2>3, <3>1 DEF Inv, TypeOK, Counted
  <2>7. \A u \in Thread : pc'[u] \in {"reading", "wpending", "writing"} =>
          u # t /\ pc'[u] = pc[u] /\ name'[u] = name[u] /\ name[u] # n
    BY <2>3 DEF Inv, TypeOK, Users
  <2>8. \A m \in Name : m # n => mutexes'[m] = mutexes[m] /\ mutexes[m] # o
    BY <2>1, <2>2 DEF Inv, TypeOK
  <2>9. mutexes'[n] = o /\ rd'[o] = {} /\ wr'[o] = NoThread
    BY <2>1 DEF Inv, TypeOK
  <2>10. \A q \in Obj : q # o => rd'[q] = rd[q] /\ wr'[q] = wr[q]
    BY <2>1 DEF Inv, TypeOK
  <2>11. \A u \in Thread : u # t => pc'[u] = pc[u] /\ name'[u] = name[u]
    BY DEF Inv, TypeOK
  <2>12. pc[t] = "idle" /\ pc'[t] \in {"lock", "rlock"}
    BY DEF Inv, TypeOK
  <2>13. ReadersInside'
    <3> SUFFICES ASSUME NEW m \in Name, mutexes'[m] # NoObj
                 PROVE  rd'[mutexes'[m]] =
                          {u \in Thread : pc'[u] = "reading" /\ name'[u] = m}
      BY DEF ReadersInside
    <3>1. CASE m = n BY <3>1, <2>7, <2>9
    <3>2. CASE m # n
      <4>1. rd'[mutexes'[m]] = rd[mutexes[m]]
        BY <3>2, <2>8, <2>10 DEF Inv, TypeOK
      <4>2. rd[mutexes[m]] =
              {u \in Thread : pc[u] = "reading" /\ name[u] = m}
        BY <3>2, <2>8 DEF Inv, ReadersInside
      <4> QED BY <4>1, <4>2, <2>11, <2>12
    <3> QED BY <3>1, <3>2
  <2>14. WriterInside'
    <3> SUFFICES ASSUME NEW m \in Name, mutexes'[m] # NoObj, NEW u \in Thread
                 PROVE  wr'[mutexes'[m]] = u <=>
                          pc'[u] \in {"wpending", "writing"} /\ name'[u] = m
      BY DEF WriterInside
    <3>1. CASE m = n BY <3>1, <2>7, <2>9, NoThreadAssumption
    <3>2. CASE m # n
      <4>1. wr'[mutexes'[m]] = wr[mutexes[m]]
        BY <3>2, <2>8, <2>10 DEF Inv, TypeOK
      <4>2. wr[mutexes[m]] = u <=>
              pc[u] \in {"wpending", "writing"} /\ name[u] = m
        BY <3>2, <2>8 DEF Inv, WriterInside
      <4> QED BY <4>1, <4>2, <2>11, <2>12
    <3> QED BY <3>1, <3>2
  <2>15. WriterAlone'
    <3> SUFFICES ASSUME NEW u \in Thread, pc'[u] = "writing"
                 PROVE  rd'[ref'[u]] = {}
      BY DEF WriterAlone
    <3>1. pc[u] = "writing" /\ ref'[u] = ref[u]
      BY <2>1, <2>7 DEF Inv, TypeOK
    <3>2. ref[u] \in Obj /\ ref[u] # o /\ rd[ref[u]] = {}
      BY <3>1, <2>2, NoObjAssumption DEF Inv, TypeOK, RefIsEntry, WriterAlone
    <3> QED BY <2>10, <3>1, <3>2
  <2> QED BY <1>1, <2>4, <2>5, <2>6, <2>13, <2>14, <2>15 DEF Inv
<1> QED BY <1>2, <1>3

(* The steps inside sync.RWMutex leave the map and the counts alone.       *)
LEMMA InsideInv ==
  ASSUME Inv, NEW t \in Thread, RLock(t) \/ Announce(t) \/ Lock(t)
  PROVE  Inv'
<1> USE DEF RLock, Announce, Lock
<1>0. /\ pc[t] \in {"rlock", "lock", "wpending"}
      /\ \A m \in Name : Users(m)' = Users(m)
      /\ ref[t] = mutexes[name[t]] /\ mutexes[name[t]] # NoObj
      /\ name[t] \in Name /\ ref[t] \in Obj
  BY DEF Inv, TypeOK, Users, RefIsEntry
<1>1. TypeOK' BY <1>0 DEF Inv, TypeOK, PC
<1>2. RefIsEntry' BY <1>0 DEF Inv, TypeOK, RefIsEntry
<1>3. DistinctEntries' BY DEF Inv, DistinctEntries
<1>4. Counted' BY <1>0 DEF Inv, Counted
<1>5. ReadersInside'
  BY <1>0 DEF Inv, TypeOK, ReadersInside, DistinctEntries
<1>6. WriterInside'
  BY <1>0, NoThreadAssumption DEF Inv, TypeOK, WriterInside, DistinctEntries
<1>7. WriterAlone'
  <2>1. CASE RLock(t)
    <3>1. \A u \in Thread : pc[u] = "writing" => wr[ref[u]] = u
      BY DEF Inv, TypeOK, WriterInside, RefIsEntry
    <3> SUFFICES ASSUME NEW u \in Thread, pc'[u] = "writing"
                 PROVE  rd'[ref[u]] = {}
      BY <2>1 DEF WriterAlone
    <3>2. u # t /\ pc[u] = "writing" BY <1>0, <2>1 DEF Inv, TypeOK
    <3>3. rd[ref[u]] = {} BY <3>2 DEF Inv, WriterAlone
    <3>4. wr[ref[t]] = NoThread => ref[u] # ref[t]
      BY <3>1, <3>2, NoThreadAssumption
    <3>5. ref[u] \in Obj BY <3>2, NoObjAssumption DEF Inv, TypeOK, RefIsEntry
    <3>6. CASE wr[ref[t]] = NoThread
      <4>1. rd' = [rd EXCEPT ![ref[t]] = @ \cup {t}] BY <2>1, <3>6
      <4> QED BY <3>3, <3>4, <3>5, <3>6, <4>1 DEF Inv, TypeOK
    <3>7. CASE wr[ref[t]] # NoThread
      <4>1. rd' = rd BY <2>1, <3>7
      <4> QED BY <3>3, <4>1
    <3> QED BY <3>6, <3>7
  <2>2. CASE Announce(t) BY <2>2 DEF Inv, TypeOK, WriterAlone
  <2>3. CASE Lock(t) BY <2>3 DEF Inv, TypeOK, WriterAlone
  <2> QED BY <2>1, <2>2, <2>3
<1> QED BY <1>1, <1>2, <1>3, <1>4, <1>5, <1>6, <1>7 DEF Inv

(* Unlock and RUnlock: the last user takes the entry out of the map.       *)
LEMMA ReleaseInv ==
  ASSUME Inv, NEW t \in Thread, Unlock(t) \/ RUnlock(t)
  PROVE  Inv'
<1> DEFINE n == name[t]
           o == mutexes[n]
<1>0. /\ pc[t] \in {"writing", "reading"} /\ n \in Name /\ o \in Obj
      /\ o # NoObj /\ ref[t] = o /\ t \in Users(n)
  BY DEF Inv, TypeOK, Users, RefIsEntry, Unlock, RUnlock
<1>1. /\ Drop(t, o) /\ name' = name
      /\ rd' \in [Obj -> SUBSET Thread]
      /\ wr' \in [Obj -> Thread \cup {NoThread}]
      /\ pc' \in [Thread -> PC] /\ pc'[t] = "idle"
      /\ \A q \in Obj : q # o => rd'[q] = rd[q] /\ wr'[q] = wr[q]
      /\ \A u \in Thread : u # t => (pc'[u] = "idle" <=> pc[u] = "idle")
      /\ \A u \in Thread : u # t /\ name[u] # n => pc'[u] = pc[u]
  <2>1. \A u \in Blocked(o) : name[u] = n /\ pc[u] = "rblocked"
    BY <1>0 DEF Inv, TypeOK, Blocked, RefIsEntry, DistinctEntries
  <2>2. Blocked(o) \subseteq Thread BY DEF Blocked
  <2>3. CASE Unlock(t)
    BY <1>0, <2>1, <2>2, <2>3 DEF Unlock, Inv, TypeOK, PC
  <2>4. CASE RUnlock(t) BY <1>0, <2>4 DEF RUnlock, Inv, TypeOK, PC
  <2> QED BY <2>3, <2>4
<1>2. /\ Users(n)' = Users(n) \ {t}
      /\ \A m \in Name : m # n => Users(m)' = Users(m)
  BY <1>0, <1>1 DEF Inv, TypeOK, Users
<1>3. /\ c[o] = Cardinality(Users(n)) /\ c[o] \in Nat /\ c[o] # 0
      /\ c[o] = 1 <=> Users(n)' = {}
      /\ Cardinality(Users(n)') = c[o] - 1
  <2>1. c[o] = Cardinality(Users(n)) BY <1>0 DEF Inv, Counted
  <2>2. Cardinality(Users(n)) # 0
    BY <1>0, UsersFinite, FS_EmptySet
  <2> QED BY <1>0, <1>2, <2>1, <2>2, UsersFinite, CountDown
<1>4. TypeOK'
  BY <1>0, <1>1, <1>3 DEF Inv, TypeOK, Drop
<1>5. /\ mutexes'[n] = IF c[o] = 1 THEN NoObj ELSE o
      /\ \A m \in Name : m # n => mutexes'[m] = mutexes[m] /\ (mutexes[m] # NoObj => mutexes[m] # o)
  BY <1>0, <1>1 DEF Drop, Inv, TypeOK, DistinctEntries
<1>6. RefIsEntry'
  <2> SUFFICES ASSUME NEW u \in Thread
               PROVE  IF pc'[u] = "idle" THEN ref'[u] = NoObj
                      ELSE mutexes'[name[u]] # NoObj /\ ref'[u] = mutexes'[name[u]]
    BY <1>1 DEF RefIsEntry
  <2>1. CASE u = t BY <1>1, <2>1 DEF Drop, Inv, TypeOK
  <2>2. CASE u # t
    <3>1. ref'[u] = ref[u] BY <1>1, <2>2 DEF Drop, Inv, TypeOK
    <3>2. CASE pc[u] = "idle" BY <1>1, <2>2, <3>1, <3>2 DEF Inv, RefIsEntry
    <3>3. CASE pc[u] # "idle" /\ name[u] = n
      <4>1. u \in Users(n)' BY <1>1, <2>2, <3>3 DEF Users
      <4> QED BY <1>0, <1>1, <1>3, <1>5, <2>2, <3>1, <3>3, <4>1
              DEF Inv, RefIsEntry
    <3>4. CASE pc[u] # "idle" /\ name[u] # n
      BY <1>1, <1>5, <2>2, <3>1, <3>4 DEF Inv, TypeOK, RefIsEntry
    <3> QED BY <3>2, <3>3, <3>4
  <2> QED BY <2>1, <2>2
<1>7. DistinctEntries' BY <1>0, <1>5 DEF Inv, DistinctEntries
<1>8. Counted'
  <2> SUFFICES ASSUME NEW m \in Name, mutexes'[m] # NoObj
               PROVE  /\ c'[mutexes'[m]] = Cardinality(Users(m)')
                      /\ Users(m)' # {}
    BY DEF Counted
  <2>1. CASE m = n
    <3>1. mutexes'[n] = o /\ c'[o] = c[o] - 1
      BY <1>0, <1>1, <1>5, <2>1 DEF Drop, Inv, TypeOK
    <3>2. c[o] # 1 BY <1>0, <1>5, <3>1
    <3>3. /\ c'[o] = Cardinality(Users(n)')
          /\ Users(n)' # {}
      BY <1>3, <3>1, <3>2
    <3>4. mutexes'[m] = o BY <2>1, <3>1
    <3>5. Users(m)' = Users(n)' BY <2>1, <1>1 DEF Users
    <3> HIDE DEF n, o
    <3> QED BY <3>3, <3>4, <3>5
  <2>2. CASE m # n
    <3>1. c'[mutexes[m]] = c[mutexes[m]] /\ mutexes'[m] = mutexes[m]
      BY <1>0, <1>1, <1>5, <2>2 DEF Drop, Inv, TypeOK
    <3> QED BY <1>2, <2>2, <3>1 DEF Inv, Counted
  <2> QED BY <2>1, <2>2
<1>9. ReadersInside'
  <2> SUFFICES ASSUME NEW m \in Name, mutexes'[m] # NoObj
               PROVE  rd'[mutexes'[m]] =
                        {u \in Thread : pc'[u] = "reading" /\ name[u] = m}
    BY <1>1 DEF ReadersInside
  <2>0. mutexes[m] # NoObj /\ mutexes'[m] = mutexes[m] /\ mutexes[m] \in Obj
    BY <1>0, <1>5 DEF Inv, TypeOK
  <2>1. rd[mutexes[m]] = {u \in Thread : pc[u] = "reading" /\ name[u] = m}
    BY <2>0 DEF Inv, ReadersInside
  <2>2. CASE m # n
    <3>1. mutexes[m] # o BY <2>0, <2>2, <1>5
    <3>2. rd'[mutexes[m]] = rd[mutexes[m]] BY <1>1, <2>0, <3>1
    <3>3. \A u \in Thread : pc[u] = "reading" /\ name[u] = m <=>
                            pc'[u] = "reading" /\ name[u] = m
      BY <1>1, <2>2
    <3> QED BY <2>0, <2>1, <3>2, <3>3
  <2>3. CASE m = n /\ RUnlock(t)
    <3>1. rd'[o] = rd[o] \ {t} /\ pc' = [pc EXCEPT ![t] = "idle"]
      BY <1>0, <2>3 DEF RUnlock, Inv, TypeOK
    <3> QED BY <2>0, <2>1, <2>3, <3>1 DEF Inv, TypeOK
  <2>4. CASE m = n /\ Unlock(t)
    <3>1. /\ rd'[o] = rd[o] \cup Blocked(o)
          /\ \A u \in Thread : pc'[u] = IF u = t THEN "idle"
                 ELSE IF u \in Blocked(o) THEN "reading" ELSE pc[u]
      BY <1>0, <2>4 DEF Unlock, Inv, TypeOK
    <3>2. \A u \in Blocked(o) : u \in Thread /\ name[u] = n /\ pc[u] = "rblocked"
      BY <1>0 DEF Inv, TypeOK, Blocked, RefIsEntry, DistinctEntries
    <3>3. pc[t] = "writing" BY <2>4 DEF Unlock
    <3> QED BY <2>0, <2>1, <2>4, <3>1, <3>2, <3>3
  <2> QED BY <2>2, <2>3, <2>4
<1>10. WriterInside'
  <2> SUFFICES ASSUME NEW m \in Name, mutexes'[m] # NoObj, NEW u \in Thread
               PROVE  wr'[mutexes'[m]] = u <=>
                        pc'[u] \in {"wpending", "writing"} /\ name[u] = m
    BY <1>1 DEF WriterInside
  <2>0. mutexes[m] # NoObj /\ mutexes'[m] = mutexes[m] /\ mutexes[m] \in Obj
    BY <1>0, <1>5 DEF Inv, TypeOK
  <2>1. \A v \in Thread : wr[mutexes[m]] = v <=>
          pc[v] \in {"wpending", "writing"} /\ name[v] = m
    BY <2>0 DEF Inv, WriterInside
  <2>2. CASE m # n
    <3>1. mutexes[m] # o BY <2>0, <2>2, <1>5
    <3>2. wr'[mutexes[m]] = wr[mutexes[m]] BY <1>1, <2>0, <3>1
    <3> QED BY <1>1, <2>0, <2>1, <2>2, <3>2
  <2>3. CASE m = n /\ RUnlock(t)
    <3>1. wr' = wr /\ pc' = [pc EXCEPT ![t] = "idle"] /\ pc[t] = "reading"
      BY <1>0, <2>3 DEF RUnlock
    <3> QED BY <2>0, <2>1, <2>3, <3>1 DEF Inv, TypeOK
  <2>4. CASE m = n /\ Unlock(t)
    <3>1. /\ wr'[o] = NoThread /\ pc[t] = "writing"
          /\ pc'[u] = IF u = t THEN "idle"
                      ELSE IF u \in Blocked(o) THEN "reading" ELSE pc[u]
      BY <1>0, <2>4 DEF Unlock, Inv, TypeOK
    <3>2. wr[o] = t BY <2>1, <2>4, <3>1
    <3> QED BY <2>0, <2>1, <2>4, <3>1, <3>2, NoThreadAssumption
  <2> QED BY <2>2, <2>3, <2>4
<1>11. WriterAlone'
  <2> SUFFICES ASSUME NEW u \in Thread, pc'[u] = "writing"
               PROVE  rd'[ref'[u]] = {}
    BY DEF WriterAlone
  <2>1. u # t /\ ref'[u] = ref[u] BY <1>1 DEF Drop, Inv, TypeOK
  <2>2. pc[u] = "writing"
    BY <2>1 DEF Unlock, RUnlock, NotFound, Inv, TypeOK
  <2>3. ref[u] \in Obj /\ rd[ref[u]] = {} /\ wr[ref[u]] = u
    BY <2>2, NoObjAssumption
    DEF Inv, TypeOK, RefIsEntry, WriterAlone, WriterInside
  <2>4. ref[u] # o
    <3>1. CASE Unlock(t)
      <4>1. wr[o] = t BY <1>0, <3>1 DEF Unlock, Inv, TypeOK, WriterInside
      <4> QED BY <2>1, <2>3, <4>1
    <3>2. CASE RUnlock(t)
      <4>1. t \in rd[o] BY <1>0, <3>2 DEF RUnlock, Inv, TypeOK, ReadersInside
      <4> QED BY <2>3, <4>1
    <3> QED BY <3>1, <3>2
  <2> QED BY <1>1, <2>1, <2>3, <2>4
<1> QED BY <1>4, <1>6, <1>7, <1>8, <1>9, <1>10, <1>11 DEF Inv

(* Every step of Lock, RLock, Unlock and RUnlock keeps the invariant.      *)
LEMMA NextInv == Inv /\ [Next]_vars => Inv'
<1> SUFFICES ASSUME Inv, [Next]_vars PROVE Inv' OBVIOUS
<1>1. CASE \E t \in Thread : \E n \in Name :
             Enter(t, n, "lock") \/ Enter(t, n, "rlock")
  BY <1>1, EnterInv
<1>2. CASE \E t \in Thread : RLock(t) \/ Announce(t) \/ Lock(t)
  BY <1>2, InsideInv
<1>3. CASE \E t \in Thread : Unlock(t) \/ RUnlock(t)
  BY <1>3, ReleaseInv
<1>4. CASE UNCHANGED vars
  BY <1>4 DEF vars, Inv, TypeOK, RefIsEntry, DistinctEntries, Counted,
              ReadersInside, WriterInside, WriterAlone, Users
<1> QED BY <1>1, <1>2, <1>3, <1>4 DEF Next

(* Inv holds in every reachable state.                                     *)
THEOREM Invariance == Spec => []Inv
BY InitInv, NextInv, PTL DEF Spec

(* The variables keep their types; in particular no reference count ever   *)
(* becomes negative, however Lock, RLock and their unlocks interleave.     *)
THEOREM TypeCorrect == Spec => []TypeOK
<1>1. Inv => TypeOK BY DEF Inv
<1> QED BY <1>1, Invariance, PTL

(* Two holders of one name use the same RWMutex, which excludes them.      *)
LEMMA ExclusiveState == Inv => MutualExclusion
<1> SUFFICES ASSUME Inv, NEW t \in Thread, NEW u \in Thread, t # u,
                    pc[t] = "writing", pc[u] \in {"reading", "writing"},
                    name[t] = name[u]
             PROVE  FALSE
  BY DEF MutualExclusion
<1>1. /\ name[t] \in Name /\ mutexes[name[t]] # NoObj
      /\ ref[t] = mutexes[name[t]]
  BY DEF Inv, TypeOK, RefIsEntry
<1>2. CASE pc[u] = "reading"
  BY <1>1, <1>2 DEF Inv, ReadersInside, WriterAlone
<1>3. CASE pc[u] = "writing"
  BY <1>1, <1>3 DEF Inv, WriterInside
<1> QED BY <1>2, <1>3

(* No writer of a name ever shares it with a reader or another writer,     *)
(* although Unlock and RUnlock delete map entries that others looked up.   *)
THEOREM Exclusive == Spec => []MutualExclusion
<1>1. Inv => MutualExclusion
  BY ExclusiveState
<1> QED BY <1>1, Invariance, PTL

(* An entry is in the map exactly while its name is in use.                *)
THEOREM Collected == Spec => []CollectedWhenUnused
<1>1. Inv => CollectedWhenUnused
  BY DEF Inv, CollectedWhenUnused, RefIsEntry, Counted, Users
<1> QED BY <1>1, Invariance, PTL

(* Every step of the mutex map is a step, or a stutter, of the abstract    *)
(* named reader/writer locks.                                              *)
LEMMA StepRefines ==
  ASSUME Inv, [Next]_vars PROVE [RW!Next]_(RW!vars)
<1> DEFINE R == [n \in Name |-> Holders(n, "reading")]
           W == [n \in Name |-> Holders(n, "writing")]
<1> USE DEF RW!vars, Holders
<1>1. ASSUME NEW t \in Thread, NEW n \in Name,
             Enter(t, n, "lock") \/ Enter(t, n, "rlock")
      PROVE  R' = R /\ W' = W
  BY <1>1 DEF Enter, Inv, TypeOK
<1>2. ASSUME NEW t \in Thread, RLock(t) PROVE [RW!Next]_(RW!vars)
  <2> DEFINE n == name[t]
  <2>1. n \in Name /\ ref[t] = mutexes[n] /\ mutexes[n] # NoObj
    BY <1>2 DEF RLock, Inv, TypeOK, RefIsEntry
  <2>2. CASE wr[ref[t]] = NoThread
    <3>1. W[n] = {}
      BY <2>1, <2>2, NoThreadAssumption DEF Inv, WriterInside
    <3>2. W' = W BY <1>2, <2>2 DEF RLock, Inv, TypeOK
    <3>3. R' = [R EXCEPT ![n] = @ \cup {t}]
      <4>1. name' = name /\ pc' = [pc EXCEPT ![t] = "reading"]
        BY <1>2, <2>2 DEF RLock
      <4>2. ASSUME NEW m \in Name
            PROVE  R'[m] = IF m = n THEN R[m] \cup {t} ELSE R[m]
        BY <2>1, <4>1 DEF Inv, TypeOK
      <4>3. R = [m \in Name |-> R[m]] /\ R' = [m \in Name |-> R'[m]]
        OBVIOUS
      <4> HIDE DEF R, n
      <4> QED BY <2>1, <4>2, <4>3
    <3>4. {t} \in SUBSET Thread OBVIOUS
    <3>5. \E m \in Name : \E Q \in SUBSET Thread :
            W[m] = {} /\ R' = [R EXCEPT ![m] = @ \cup Q] /\ W' = W
      BY <2>1, <3>1, <3>2, <3>3, <3>4, Zenon
    <3>6. RW!Next BY <3>5, Zenon DEF RW!Next, RW!GrantRead
    <3> QED BY <3>6
  <2>3. CASE wr[ref[t]] # NoThread
    <3>1. R' = R /\ W' = W BY <1>2, <2>3 DEF RLock, Inv, TypeOK
    <3> QED BY <3>1
  <2> QED BY <2>2, <2>3
<1>3. ASSUME NEW t \in Thread, Announce(t) PROVE R' = R /\ W' = W
  BY <1>3 DEF Announce, Inv, TypeOK
<1>4. ASSUME NEW t \in Thread, Lock(t) PROVE [RW!Next]_(RW!vars)
  <2> DEFINE n == name[t]
  <2>1. n \in Name /\ ref[t] = mutexes[n] /\ mutexes[n] # NoObj
    BY <1>4 DEF Lock, Inv, TypeOK, RefIsEntry
  <2>2. R[n] = {} BY <1>4, <2>1 DEF Lock, Inv, ReadersInside
  <2>3. W[n] = {}
    <3>1. wr[mutexes[n]] = t BY <1>4, <2>1 DEF Lock, Inv, WriterInside
    <3>2. \A u \in Thread : pc[u] = "writing" /\ name[u] = n => u = t
      BY <2>1, <3>1 DEF Inv, WriterInside
    <3> QED BY <1>4, <2>1, <3>2 DEF Lock
  <2>4. R' = R BY <1>4 DEF Lock, Inv, TypeOK
  <2>5. W' = [W EXCEPT ![n] = {t}]
    <3>1. name' = name /\ pc' = [pc EXCEPT ![t] = "writing"]
      BY <1>4 DEF Lock
    <3>2. ASSUME NEW m \in Name PROVE W'[m] = IF m = n THEN {t} ELSE W[m]
      BY <2>1, <2>3, <3>1 DEF Inv, TypeOK
    <3> QED BY <3>2
  <2>6. RW!Next
    BY <2>1, <2>2, <2>3, <2>4, <2>5 DEF RW!Next, RW!GrantWrite
  <2> QED BY <2>6
<1>5. ASSUME NEW t \in Thread, Unlock(t) PROVE [RW!Next]_(RW!vars)
  <2> DEFINE n == name[t]
             o == mutexes[n]
  <2>1. n \in Name /\ ref[t] = o /\ o # NoObj /\ pc[t] = "writing"
    BY <1>5 DEF Unlock, Inv, TypeOK, RefIsEntry
  <2>2. /\ name' = name
        /\ \A u \in Thread : pc'[u] = IF u = t THEN "idle"
               ELSE IF u \in Blocked(o) THEN "reading" ELSE pc[u]
    BY <1>5, <2>1 DEF Unlock
  <2>3. \A u \in Blocked(o) : u \in Thread /\ name[u] = n /\ pc[u] = "rblocked"
    BY <2>1 DEF Inv, TypeOK, Blocked, RefIsEntry, DistinctEntries
  <2>4. W[n] = {t}
    BY <2>1, ExclusiveState DEF MutualExclusion
  <2>5. W' = [W EXCEPT ![n] = {}]
    <3>1. ASSUME NEW m \in Name PROVE W'[m] = IF m = n THEN {} ELSE W[m]
      <4>1. CASE m = n
        <5>1. \A u \in Thread : pc'[u] = "writing" /\ name[u] = n => u \in W[n] /\ u # t
          BY <2>1, <2>2
        <5> QED BY <2>1, <2>2, <2>4, <4>1, <5>1
      <4>2. CASE m # n BY <2>1, <2>2, <2>3, <4>2
      <4> QED BY <4>1, <4>2
    <3> QED BY <3>1
  <2>6. R' = [R EXCEPT ![n] = R'[n]]
    <3>1. ASSUME NEW m \in Name, m # n PROVE R'[m] = R[m]
      BY <2>1, <2>2, <2>3, <3>1
    <3> QED BY <3>1
  <2>7. R'[n] \in SUBSET Thread BY <2>1
  <2>8. \E m \in Name : \E u \in Thread, Q \in SUBSET Thread :
          /\ W[m] = {u}
          /\ W' = [W EXCEPT ![m] = {}]
          /\ R' = [R EXCEPT ![m] = Q]
    <3> HIDE DEF R, W, n, o
    <3> QED BY <2>1, <2>4, <2>5, <2>6, <2>7, Zenon
  <2>9. RW!Next BY <2>8, Zenon DEF RW!Next, RW!ReleaseWrite
  <2> QED BY <2>9
<1>6. ASSUME NEW t \in Thread, RUnlock(t) PROVE [RW!Next]_(RW!vars)
  <2> DEFINE n == name[t]
  <2>1. n \in Name /\ mutexes[n] # NoObj /\ pc[t] = "reading"
    BY <1>6 DEF RUnlock, Inv, TypeOK, RefIsEntry
  <2>2. name' = name /\ pc' = [pc EXCEPT ![t] = "idle"]
    BY <1>6, <2>1 DEF RUnlock
  <2>3. t \in R[n] BY <2>1
  <2>4. W' = W BY <2>1, <2>2 DEF Inv, TypeOK
  <2>5. R' = [R EXCEPT ![n] = @ \ {t}] BY <2>1, <2>2 DEF Inv, TypeOK
  <2>6. RW!Next BY <2>1, <2>3, <2>4, <2>5 DEF RW!Next, RW!ReleaseRead
  <2> QED BY <2>6
<1>7. CASE UNCHANGED vars
  BY <1>7 DEF vars
<1> QED BY <1>1, <1>2, <1>3, <1>4, <1>5, <1>6, <1>7 DEF Next

(* The garbage-collected mutex map implements named reader/writer locks.   *)
THEOREM Refinement == Spec => ImplementsNamedRWLock
<1>1. Init => RW!Init BY DEF Init, RW!Init, Holders
<1>2. Inv /\ [Next]_vars => [RW!Next]_(RW!vars) BY StepRefines
<1> QED BY <1>1, <1>2, Invariance, PTL
        DEF Spec, ImplementsNamedRWLock, RW!Spec
=============================================================================
