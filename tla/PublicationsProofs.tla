-------------------------- MODULE PublicationsProofs --------------------------
(* Proofs about Publications for any volumes, nodes and clients.           *)
EXTENDS Publications, TLAPS

Publishing == {"grant", "record", "save"}
Unpublishing == {"revoke", "unrecord", "unsave"}

PC == {"idle", "lock", "unlock", "state", "sweep", "add", "delete", "invalidate",
       "reconcile", "grant", "record", "save", "revoke", "unrecord", "unsave"}
Op == {"none", "publish", "unpublish", "add", "update", "delete"}
Job == [pc : PC, op : Op, vol : Volume \cup {None}, node : Node \cup {None},
        deleted : BOOLEAN]

(* Where the steps of each request are.                                    *)
JobOK(w) ==
  /\ job[w].pc = "idle" <=> job[w].op = "none"
  /\ job[w].op \in {"publish", "unpublish"} => Pair(w) \in Wanted
  /\ job[w].op \notin {"publish", "unpublish"} => job[w].vol = None
  /\ job[w].op # "none" => job[w].node \in Node
  /\ job[w].pc \in {"lock"} \cup Publishing => job[w].op = "publish"
  /\ job[w].pc \in {"unlock", "sweep"} \cup Unpublishing => job[w].op = "unpublish"
  /\ job[w].pc = "state" => job[w].op \in {"unpublish", "update"}
  /\ job[w].pc = "add" => job[w].op = "add"
  /\ job[w].pc \in {"delete", "reconcile"} => job[w].op = "delete"
  /\ job[w].pc = "invalidate" => job[w].op \in {"add", "delete"}

(* Every request is where its kind may be, and only a running process has  *)
(* requests and a cache.                                                   *)
Jobs ==
  /\ job \in [Client -> Job]
  /\ \A w \in Client : JobOK(w)
  /\ phase = "down" => cache = {} /\ \A w \in Client : job[w].pc = "idle"

(* The types of everything but the requests.                               *)
Types ==
  /\ node \in [Node -> {None} \cup [state : State, deleted : BOOLEAN]]
  /\ record \subseteq Wanted /\ cache \subseteq Wanted /\ access \subseteq Wanted
  /\ policy \subseteq Node /\ upToDate \in BOOLEAN
  /\ phase \in {"up", "down"}
  /\ leaked \subseteq Node
  /\ promise \in [Wanted -> {"none", "published", "doomed", "gone"}]
  /\ stray \subseteq Wanted /\ present \subseteq Node /\ unsafe \subseteq Node
  /\ mishap \in BOOLEAN

(* Two requests never hold the lock of one volume.                         *)
Exclusion ==
  \A u, w \in Client :
    /\ u # w
    /\ job[u].pc \in Publishing \cup Unpublishing
    /\ job[w].pc \in Publishing \cup Unpublishing
    => job[u].vol # job[w].vol

(* What a request that holds its locks has done so far is still so.        *)
Progress ==
  \A w \in Client :
    /\ job[w].pc \in Publishing \cup Unpublishing => node[job[w].node] # None
    /\ job[w].pc \in {"record", "save"} => Pair(w) \in access
    /\ job[w].pc = "save" => Pair(w) \in record
    /\ job[w].pc \in Unpublishing =>
         /\ Pair(w) \in cache
         /\ job[w].deleted = node[job[w].node].deleted
    /\ job[w].pc \in {"unrecord", "unsave"} => Pair(w) \notin access
    /\ job[w].pc = "unsave" => Pair(w) \notin record

(* A publication in the cache has a node.                                  *)
CacheHasNode == \A p \in cache : node[p[2]] # None

(* What the backend or the store has and the cache does not is the work of *)
(* a publish under way, or was left by one; and so is access without a     *)
(* record.                                                                 *)
InProgress(p) == \E w \in Client : job[w].pc \in {"record", "save"} /\ Pair(w) = p
Accounted ==
  /\ phase = "up" => \A p \in access \cup record : p \in cache \cup stray \/ InProgress(p)
  /\ \A p \in access : p \in record \cup stray \/ InProgress(p)

(* Nothing is promised that a request under way is about to change.        *)
Promised ==
  \A w \in Client :
    /\ job[w].op = "unpublish" => promise[Pair(w)] # "published"
    /\ job[w].op = "publish" => promise[Pair(w)] # "gone"
    /\ job[w].op = "unpublish" /\ promise[Pair(w)] = "gone" /\ Pair(w) \in cache
         => Pair(w) \notin record /\ Pair(w) \notin access

(* A node that is made dirty is known and not clean, and no publish to it  *)
(* is past its check.                                                      *)
Unsafe ==
  /\ \A n \in unsafe : node[n] # None /\ (node[n] # None => node[n].state # "clean")
  /\ \A w \in Client : job[w].pc \in Publishing => job[w].node \notin unsafe

(* A node whose deletion was asked for does not count as registered.       *)
NotPresent == \A w \in Client : job[w].op = "delete" => job[w].node \notin present

(* As long as nothing fails the process runs, and what is not in order is  *)
(* being worked on.                                                        *)
Doing(p, pcs) == \E w \in Client : job[w].pc \in pcs /\ Pair(w) = p
Orderly ==
  ~mishap =>
    /\ phase = "up"
    /\ \A p \in access : p \notin cache => Doing(p, {"record", "save"})
    /\ \A p \in cache : p \notin access => Doing(p, {"unrecord", "unsave"})
    /\ \A p \in record : p \notin cache => Doing(p, {"save"})
    /\ \A p \in cache : p \notin record => Doing(p, {"unsave"})

(* As long as nothing fails, a marked node has a publication or a request  *)
(* that will delete it.                                                    *)
MarkedSwept ==
  ~mishap => \A n \in Node : node[n] # None /\ node[n].deleted =>
    (\E p \in cache : p[2] = n) \/ \E w \in Client : job[w].pc = "sweep" /\ job[w].node = n

IInv ==
  /\ Types /\ Jobs /\ Exclusion /\ Progress /\ CacheHasNode /\ Accounted
  /\ Promised /\ AccessFollowsAnswers /\ NodeKept /\ NotPresent /\ RegisteredKept
  /\ Unsafe /\ PolicyFollowsNodes /\ Orderly /\ MarkedSwept

-----------------------------------------------------------------------------
(* One request takes a step and the others stay where they are.            *)
Becomes(w, p, o, v, n, d) ==
  /\ job' \in [Client -> Job]
  /\ \A u \in Client : u # w => job'[u] = job[u]
  /\ job'[w].pc = p /\ job'[w].op = o /\ job'[w].vol = v
  /\ job'[w].node = n /\ job'[w].deleted = d

Moved(w, p) == Becomes(w, p, job[w].op, job[w].vol, job[w].node, job[w].deleted)
Ended(w) == Becomes(w, "idle", "none", None, None, FALSE)

(* What the updates of a request's record leave in its fields.             *)
LEMMA Update ==
  ASSUME job \in [Client -> Job], NEW w \in Client, NEW r \in Job,
         job' = [job EXCEPT ![w] = r]
  PROVE  Becomes(w, r.pc, r.op, r.vol, r.node, r.deleted)
  BY DEF Becomes

LEMMA IdleFields ==
  /\ Idle \in Job
  /\ Idle.pc = "idle" /\ Idle.op = "none" /\ Idle.vol = None
  /\ Idle.node = None /\ Idle.deleted = FALSE
  BY DEF Idle, Job, PC, Op

LEMMA EndsMoves ==
  ASSUME job \in [Client -> Job], NEW w \in Client, job' = [job EXCEPT ![w] = Idle]
  PROVE  Ended(w)
  BY IdleFields, Update DEF Ended

LEMMA GotoMoves ==
  ASSUME job \in [Client -> Job], NEW w \in Client, NEW p \in PC, Goto(w, p)
  PROVE  Moved(w, p)
<1> DEFINE r == [job[w] EXCEPT !.pc = p]
<1>1. job[w] \in Job
  OBVIOUS
<1>2. r \in Job /\ r.pc = p /\ r.op = job[w].op /\ r.vol = job[w].vol
      /\ r.node = job[w].node /\ r.deleted = job[w].deleted
  BY <1>1 DEF Job
<1>3. job' = [job EXCEPT ![w] = r]
  BY DEF Goto
<1> HIDE DEF r
<1>4. QED
  BY <1>2, <1>3, Update DEF Moved

LEMMA RevokeMoves ==
  ASSUME job \in [Client -> Job], NEW w \in Client, NEW p \in PC, NEW d \in BOOLEAN,
         job' = [job EXCEPT ![w].pc = p, ![w].deleted = d]
  PROVE  Becomes(w, p, job[w].op, job[w].vol, job[w].node, d)
<1> DEFINE r == [job[w] EXCEPT !.pc = p, !.deleted = d]
<1>1. job[w] \in Job
  OBVIOUS
<1>2. r \in Job /\ r.pc = p /\ r.op = job[w].op /\ r.vol = job[w].vol
      /\ r.node = job[w].node /\ r.deleted = d
  BY <1>1 DEF Job
<1>3. job' = [job EXCEPT ![w] = r]
  OBVIOUS
<1> HIDE DEF r
<1>4. QED
  BY <1>2, <1>3, Update

LEMMA RequestMoves ==
  ASSUME job \in [Client -> Job], NEW w \in Client,
         NEW p \in PC, NEW o \in Op, NEW n \in Node,
         job' = [job EXCEPT ![w] = [Idle EXCEPT !.pc = p, !.op = o, !.node = n]]
  PROVE  Becomes(w, p, o, None, n, FALSE)
<1>1. ASSUME NEW j \in Job
      PROVE  LET r == [j EXCEPT !.pc = p, !.op = o, !.node = n]
             IN  /\ r \in Job /\ r.pc = p /\ r.op = o /\ r.vol = j.vol
                 /\ r.node = n /\ r.deleted = j.deleted
  BY DEF Job
<1> DEFINE r == [Idle EXCEPT !.pc = p, !.op = o, !.node = n]
<1>2. r \in Job /\ r.pc = p /\ r.op = o /\ r.vol = None /\ r.node = n
      /\ r.deleted = FALSE
  BY <1>1, IdleFields
<1>3. job' = [job EXCEPT ![w] = r]
  OBVIOUS
<1> HIDE DEF r
<1>4. Becomes(w, r.pc, r.op, r.vol, r.node, r.deleted)
  BY <1>2, <1>3, Update, Zenon
<1>5. QED
  BY <1>2, <1>4, Zenon

LEMMA WantedMoves ==
  ASSUME job \in [Client -> Job], NEW w \in Client,
         NEW p \in PC, NEW o \in Op, NEW v \in Volume, NEW n \in Node,
         job' = [job EXCEPT ![w] = [Idle EXCEPT !.pc = p, !.op = o, !.vol = v, !.node = n]]
  PROVE  Becomes(w, p, o, v, n, FALSE)
<1>1. ASSUME NEW j \in Job
      PROVE  LET r == [j EXCEPT !.pc = p, !.op = o, !.vol = v, !.node = n]
             IN  /\ r \in Job /\ r.pc = p /\ r.op = o /\ r.vol = v
                 /\ r.node = n /\ r.deleted = j.deleted
  BY DEF Job
<1> DEFINE r == [Idle EXCEPT !.pc = p, !.op = o, !.vol = v, !.node = n]
<1>2. r \in Job /\ r.pc = p /\ r.op = o /\ r.vol = v /\ r.node = n
      /\ r.deleted = FALSE
  BY <1>1, IdleFields
<1>3. job' = [job EXCEPT ![w] = r]
  OBVIOUS
<1> HIDE DEF r
<1>4. Becomes(w, r.pc, r.op, r.vol, r.node, r.deleted)
  BY <1>2, <1>3, Update, Zenon
<1>5. QED
  BY <1>2, <1>4, Zenon

(* The answer to a request settles what its client relies on.              *)
LEMMA SettlePublish ==
  ASSUME Types, NEW w \in Client, job[w].op = "publish", Pair(w) \in Wanted, Settle(w)
  PROVE  /\ promise' \in [Wanted -> {"none", "published", "doomed", "gone"}]
         /\ \A p \in Wanted : p # Pair(w) => promise'[p] = promise[p]
         /\ promise'[Pair(w)] \in {"doomed", "published"}
         /\ \A u \in Client : u # w /\ job[u].op = "unpublish" /\ Pair(u) = Pair(w)
              => promise'[Pair(w)] = "doomed"
<1>1. promise' = [promise EXCEPT ![Pair(w)] =
                    IF Busy(w, "unpublish") THEN "doomed" ELSE "published"]
  BY DEF Settle
<1>2. QED
  BY <1>1 DEF Types, Busy

LEMMA SettleUnpublish ==
  ASSUME Types, NEW w \in Client, job[w].op = "unpublish", Pair(w) \in Wanted, Settle(w)
  PROVE  /\ promise' \in [Wanted -> {"none", "published", "doomed", "gone"}]
         /\ \A p \in Wanted : p # Pair(w) => promise'[p] = promise[p]
         /\ promise'[Pair(w)] \in {"none", "gone"}
         /\ \A u \in Client : u # w /\ job[u].op = "publish" /\ Pair(u) = Pair(w)
              => promise'[Pair(w)] = "none"
<1>1. promise' = [promise EXCEPT ![Pair(w)] =
                    IF Busy(w, "publish") THEN "none" ELSE "gone"]
  BY DEF Settle
<1>2. QED
  BY <1>1 DEF Types, Busy

(* Nobody holds the lock of a node that may be written.                    *)
LEMMA WriteAlone ==
  ASSUME NEW n, CanWrite(n)
  PROVE  \A u \in Client : job[u].pc \in Publishing \cup Unpublishing => job[u].node # n
  BY DEF CanWrite, Holders, At, Publishing, Unpublishing

(* A record in the place of a node.                                        *)
NodeBecomes(n, s, d) ==
  /\ node' \in [Node -> {None} \cup [state : State, deleted : BOOLEAN]]
  /\ \A m \in Node : m # n => node'[m] = node[m]
  /\ node'[n] # None /\ node'[n].state = s /\ node'[n].deleted = d

LEMMA NodeUpdate ==
  ASSUME Types, NEW n \in Node, NEW r \in [state : State, deleted : BOOLEAN],
         node' = [node EXCEPT ![n] = r]
  PROVE  NodeBecomes(n, r.state, r.deleted)
  BY NoneAssumption DEF Types, NodeBecomes

(* What Marked says of the record of a node.                               *)
LEMMA MarkedRecord ==
  ASSUME NEW r \in {None} \cup [state : State, deleted : BOOLEAN]
  PROVE  r \in [state : State, deleted : {TRUE}] <=> r # None /\ r.deleted
<1>1. CASE r = None
  BY <1>1, NoneAssumption
<1>2. CASE r # None
  BY <1>2
<1>3. QED
  BY <1>1, <1>2

(* A node that is deleted.                                                 *)
NodeGone(n) ==
  /\ node' \in [Node -> {None} \cup [state : State, deleted : BOOLEAN]]
  /\ \A m \in Node : m # n => node'[m] = node[m]
  /\ node'[n] = None

LEMMA NodeDeleted ==
  ASSUME Types, NEW n \in Node, node' = [node EXCEPT ![n] = None]
  PROVE  NodeGone(n)
  BY DEF Types, NodeGone

(* A request that ends without an answer, by an error or with nothing to   *)
(* do, outside the steps that others rely on.                              *)
LEMMA GivesUp ==
  ASSUME IInv, NEW w \in Client, Ended(w), leaked' \subseteq Node,
         job[w].pc \notin {"record", "save", "invalidate"},
         \/ mishap' = TRUE
         \/ UNCHANGED mishap /\ job[w].pc \notin {"unrecord", "unsave", "sweep"},
         UNCHANGED <<node, record, cache, access, policy, upToDate, phase, promise, present,
                     unsafe, swept, stray>>
  PROVE  IInv'
<1> USE DEF IInv, Jobs, Becomes, Moved, Ended
<1>1. Types'
  BY WantedAssumption DEF Types, JobOK, Pair, Publishing, Unpublishing
<1>2. Jobs'
  BY WantedAssumption DEF Types, JobOK, Pair, Publishing, Unpublishing
<1>3. Exclusion'
  BY DEF Exclusion, Publishing, Unpublishing
<1>4. Progress'
  BY DEF Progress, Exclusion, Types, JobOK, Pair, Publishing, Unpublishing
<1>5. CacheHasNode'
  BY DEF CacheHasNode, Types
<1>6. Accounted'
  BY DEF Accounted, InProgress, Publishing, Unpublishing, Pair, Known
<1>7. Promised'
  BY WantedAssumption DEF Promised, Types, JobOK, Pair
<1>8. AccessFollowsAnswers'
  BY DEF AccessFollowsAnswers, Promised, Progress, Types, JobOK, Pair,
     Publishing, Unpublishing
<1>9. NodeKept'
  BY DEF NodeKept, Types
<1>10. NotPresent' /\ RegisteredKept'
  BY DEF NotPresent, RegisteredKept, Marked, Types
<1>11. Unsafe'
  BY DEF Unsafe, Types, Publishing
<1>12. PolicyFollowsNodes'
  BY DEF PolicyFollowsNodes, Types, At
<1>13. Orderly'
  BY DEF Orderly, Doing, Pair
<1>14. MarkedSwept'
  BY DEF MarkedSwept
<1>15. QED
  BY <1>1, <1>2, <1>3, <1>4, <1>5, <1>6, <1>7, <1>8, <1>9, <1>10, <1>11, <1>12, <1>13, <1>14

-----------------------------------------------------------------------------
(* ControllerPublishVolume takes a request.                                *)
LEMMA PublishStep ==
  ASSUME IInv, NEW w \in Client, Publish(w)
  PROVE  IInv'
<1> USE DEF IInv, Jobs, Becomes, Moved, Ended
<1>1. PICK p \in Wanted :
        /\ Becomes(w, "lock", "publish", p[1], p[2], FALSE)
        /\ promise' = [promise EXCEPT ![p] = IF @ = "gone" THEN "none" ELSE @]
  <2>1. PICK p \in Wanted :
          /\ job' = [job EXCEPT ![w] = [Idle EXCEPT !.pc = "lock", !.op = "publish",
                                                 !.vol = p[1], !.node = p[2]]]
          /\ promise' = [promise EXCEPT ![p] = IF @ = "gone" THEN "none" ELSE @]
    BY DEF Publish
  <2>2. /\ job \in [Client -> Job] /\ p[1] \in Volume /\ p[2] \in Node
        /\ "lock" \in PC /\ "publish" \in Op
    BY WantedAssumption DEF PC, Op
  <2> HIDE DEF Becomes
  <2>3. QED
    BY <2>1, <2>2, WantedMoves
<1>2. /\ job[w].pc = "idle" /\ phase = "up" /\ p = <<p[1], p[2]>>
      /\ UNCHANGED <<node, record, cache, access, policy, upToDate, phase, leaked, present,
                     unsafe, swept, stray, mishap>>
  BY WantedAssumption DEF Publish, At, backend, nodeHistory
<1>3. Types'
  BY <1>1, <1>2, WantedAssumption DEF Types, JobOK, Pair, Publishing,
     Unpublishing
<1>4. Jobs'
  BY <1>1, <1>2, WantedAssumption DEF Types, JobOK, Pair, Publishing,
     Unpublishing
<1>5. Exclusion'
  BY <1>1, <1>2 DEF Exclusion, Publishing, Unpublishing
<1>6. Progress'
  BY <1>1, <1>2 DEF Progress, Exclusion, Types, JobOK, Pair, Publishing,
     Unpublishing
<1>7. CacheHasNode'
  BY <1>1, <1>2 DEF CacheHasNode, Types
<1>8. Accounted'
  BY <1>1, <1>2 DEF Accounted, InProgress, Publishing, Unpublishing, Pair, Known
<1>9. Promised'
  BY <1>1, <1>2, WantedAssumption DEF Promised, Types, JobOK, Pair
<1>10. AccessFollowsAnswers'
  BY <1>1, <1>2 DEF AccessFollowsAnswers, Promised, Progress, Types, JobOK,
     Pair, Publishing, Unpublishing
<1>11. NodeKept'
  BY <1>1, <1>2 DEF NodeKept, Types
<1>12. NotPresent' /\ RegisteredKept'
  BY <1>1, <1>2 DEF NotPresent, RegisteredKept, Marked, Types
<1>13. Unsafe'
  BY <1>1, <1>2 DEF Unsafe, Types, Publishing
<1>14. PolicyFollowsNodes'
  BY <1>1, <1>2 DEF PolicyFollowsNodes, Types, At
<1>15. Orderly'
  BY <1>1, <1>2 DEF Orderly, Doing, Pair
<1>16. MarkedSwept'
  BY <1>1, <1>2 DEF MarkedSwept
<1>17. QED
  BY <1>3, <1>4, <1>5, <1>6, <1>7, <1>8, <1>9, <1>10, <1>11, <1>12, <1>13, <1>14, <1>15, <1>16

(* ControllerUnpublishVolume takes a request: nothing is promised of the   *)
(* publication from now on.                                                *)
LEMMA UnpublishStep ==
  ASSUME IInv, NEW w \in Client, Unpublish(w)
  PROVE  IInv'
<1> USE DEF IInv, Jobs, Becomes, Moved, Ended
<1>1. PICK p \in Wanted :
        /\ Becomes(w, "state", "unpublish", p[1], p[2], FALSE)
        /\ promise' = [promise EXCEPT ![p] = "doomed"]
  <2>1. PICK p \in Wanted :
          /\ job' = [job EXCEPT ![w] = [Idle EXCEPT !.pc = "state", !.op = "unpublish",
                                                 !.vol = p[1], !.node = p[2]]]
          /\ promise' = [promise EXCEPT ![p] = "doomed"]
    BY DEF Unpublish
  <2>2. /\ job \in [Client -> Job] /\ p[1] \in Volume /\ p[2] \in Node
        /\ "state" \in PC /\ "unpublish" \in Op
    BY WantedAssumption DEF PC, Op
  <2> HIDE DEF Becomes
  <2>3. QED
    BY <2>1, <2>2, WantedMoves
<1>2. /\ job[w].pc = "idle" /\ phase = "up" /\ p = <<p[1], p[2]>>
      /\ UNCHANGED <<node, record, cache, access, policy, upToDate, phase, leaked, present,
                     unsafe, swept, stray, mishap>>
  BY WantedAssumption DEF Unpublish, At, backend, nodeHistory
<1>3. Types'
  BY <1>1, <1>2, WantedAssumption DEF Types, JobOK, Pair, Publishing,
     Unpublishing
<1>4. Jobs'
  BY <1>1, <1>2, WantedAssumption DEF Types, JobOK, Pair, Publishing,
     Unpublishing
<1>5. Exclusion'
  BY <1>1, <1>2 DEF Exclusion, Publishing, Unpublishing
<1>6. Progress'
  BY <1>1, <1>2 DEF Progress, Exclusion, Types, JobOK, Pair, Publishing,
     Unpublishing
<1>7. CacheHasNode'
  BY <1>1, <1>2 DEF CacheHasNode, Types
<1>8. Accounted'
  BY <1>1, <1>2 DEF Accounted, InProgress, Publishing, Unpublishing, Pair, Known
<1>9. Promised'
  <2>1. \A u \in Client : u # w => JobOK(u) /\ job'[u] = job[u]
    BY <1>1
  <2>2. \A q \in Wanted : promise'[q] = IF q = p THEN "doomed" ELSE promise[q]
    BY <1>1 DEF Types
  <2>3. job'[w].op = "unpublish" /\ Pair(w)' = p
    BY <1>1, <1>2 DEF Pair
  <2>4. QED
    <3>1. \A u \in Client : u # w => Pair(u)' = Pair(u)
      BY <2>1 DEF Pair
    <3>2. QED
      BY <1>2, <2>1, <2>2, <2>3, <3>1 DEF Promised, JobOK
<1>10. AccessFollowsAnswers'
  BY <1>1, <1>2 DEF AccessFollowsAnswers, Promised, Progress, Types, JobOK,
     Pair, Publishing, Unpublishing
<1>11. NodeKept'
  BY <1>1, <1>2 DEF NodeKept, Types
<1>12. NotPresent' /\ RegisteredKept'
  BY <1>1, <1>2 DEF NotPresent, RegisteredKept, Marked, Types
<1>13. Unsafe'
  BY <1>1, <1>2 DEF Unsafe, Types, Publishing
<1>14. PolicyFollowsNodes'
  BY <1>1, <1>2 DEF PolicyFollowsNodes, Types, At
<1>15. Orderly'
  BY <1>1, <1>2 DEF Orderly, Doing, Pair
<1>16. MarkedSwept'
  BY <1>1, <1>2 DEF MarkedSwept
<1>17. QED
  BY <1>3, <1>4, <1>5, <1>6, <1>7, <1>8, <1>9, <1>10, <1>11, <1>12, <1>13, <1>14, <1>15, <1>16

(* A request to register, update or delete a node arrives.                 *)
LEMMA NodeRequestStep ==
  ASSUME IInv, NEW w \in Client, NEW o \in Op, NEW p \in PC, NodeRequest(w, o, p),
         <<o, p>> \in {<<"add", "add">>, <<"update", "state">>, <<"delete", "delete">>}
  PROVE  IInv'
<1> USE DEF IInv, Jobs, Becomes, Moved, Ended
<1>1. PICK n \in Node :
        /\ Becomes(w, p, o, None, n, FALSE)
        /\ present' = IF o = "delete" THEN present \ {n} ELSE present
  <2> HIDE DEF Becomes
  <2>1. QED
    BY RequestMoves DEF NodeRequest
<1>2. /\ job[w].pc = "idle" /\ phase = "up"
      /\ UNCHANGED <<node, record, cache, access, policy, upToDate, phase, leaked, promise,
                     unsafe, swept, stray, mishap>>
  BY DEF NodeRequest, At, backend
<1>3. o \in {"add", "update", "delete"} /\ p \in {"add", "state", "delete"}
      /\ (p = "add" <=> o = "add") /\ (p = "delete" <=> o = "delete")
  OBVIOUS
<1>4. Types'
  BY <1>1, <1>2, <1>3, WantedAssumption DEF Types, JobOK, Pair, Publishing,
     Unpublishing
<1>5. Jobs'
  BY <1>1, <1>2, <1>3, WantedAssumption DEF Types, JobOK, Pair, Publishing,
     Unpublishing
<1>6. Exclusion'
  BY <1>1, <1>2, <1>3 DEF Exclusion, Publishing, Unpublishing
<1>7. Progress'
  BY <1>1, <1>2, <1>3 DEF Progress, Exclusion, Types, JobOK, Pair, Publishing,
     Unpublishing
<1>8. CacheHasNode'
  BY <1>1, <1>2, <1>3 DEF CacheHasNode, Types
<1>9. Accounted'
  BY <1>1, <1>2, <1>3 DEF Accounted, InProgress, Publishing, Unpublishing, Pair,
     Known
<1>10. Promised'
  BY <1>1, <1>2, <1>3, WantedAssumption DEF Promised, Types, JobOK, Pair
<1>11. AccessFollowsAnswers'
  BY <1>1, <1>2, <1>3 DEF AccessFollowsAnswers, Promised, Progress, Types,
     JobOK, Pair, Publishing, Unpublishing
<1>12. NodeKept'
  BY <1>1, <1>2, <1>3 DEF NodeKept, Types
<1>13. NotPresent' /\ RegisteredKept'
  BY <1>1, <1>2, <1>3 DEF NotPresent, RegisteredKept, Marked, Types
<1>14. Unsafe'
  BY <1>1, <1>2, <1>3 DEF Unsafe, Types, Publishing
<1>15. PolicyFollowsNodes'
  BY <1>1, <1>2, <1>3 DEF PolicyFollowsNodes, Types, At
<1>16. Orderly'
  BY <1>1, <1>2, <1>3 DEF Orderly, Doing, Pair
<1>17. MarkedSwept'
  BY <1>1, <1>2, <1>3 DEF MarkedSwept
<1>18. QED
  BY <1>4, <1>5, <1>6, <1>7, <1>8, <1>9, <1>10, <1>11, <1>12, <1>13, <1>14, <1>15, <1>16, <1>17

(* publishVolume has its locks, and turns back at a node that is not       *)
(* clean.                                                                  *)
LEMMA LockPublishStep ==
  ASSUME IInv, NEW w \in Client, LockPublish(w)
  PROVE  IInv'
<1> USE DEF IInv, Jobs, Becomes, Moved, Ended
<1>1. /\ (job' = [job EXCEPT ![w] = Idle]) => Ended(w)
      /\ (Goto(w, "grant") => Moved(w, "grant"))
  <2> HIDE DEF Becomes, Moved, Ended
  <2>1. QED
    BY EndsMoves, GotoMoves DEF PC
<1> USE DEF LockPublish, Ends, At, backend, nodeHistory
<1>2. Types'
  BY <1>1, WantedAssumption DEF Types, JobOK, Pair, Publishing, Unpublishing
<1>3. Jobs'
  BY <1>1, WantedAssumption DEF Types, JobOK, Pair, Publishing, Unpublishing
<1>4. Exclusion'
  BY <1>1 DEF Exclusion, Publishing, Unpublishing, CanHold, Holders
<1>5. Progress'
  BY <1>1 DEF Progress, Exclusion, Types, JobOK, Pair, Publishing, Unpublishing
<1>6. CacheHasNode'
  BY <1>1 DEF CacheHasNode, Types
<1>7. Accounted'
  BY <1>1 DEF Accounted, InProgress, Publishing, Unpublishing, Pair, Known
<1>8. Promised'
  BY <1>1, WantedAssumption DEF Promised, Types, JobOK, Pair
<1>9. AccessFollowsAnswers'
  BY <1>1 DEF AccessFollowsAnswers, Promised, Progress, Types, JobOK, Pair,
     Publishing, Unpublishing
<1>10. NodeKept'
  BY <1>1 DEF NodeKept, Types
<1>11. NotPresent' /\ RegisteredKept'
  BY <1>1 DEF NotPresent, RegisteredKept, Marked, Types
<1>12. Unsafe'
  BY <1>1 DEF Unsafe, Types, Publishing
<1>13. PolicyFollowsNodes'
  BY <1>1 DEF PolicyFollowsNodes, Types, At
<1>14. Orderly'
  BY <1>1 DEF Orderly, Doing, Pair
<1>15. MarkedSwept'
  BY <1>1 DEF MarkedSwept
<1>16. QED
  BY <1>2, <1>3, <1>4, <1>5, <1>6, <1>7, <1>8, <1>9, <1>10, <1>11, <1>12, <1>13, <1>14, <1>15

(* The backend grants access, or fails before or after it has.             *)
LEMMA GrantStep ==
  ASSUME IInv, NEW w \in Client, Grant(w)
  PROVE  IInv'
<1> USE DEF IInv, Jobs, Becomes, Moved, Ended
<1>1. /\ (job' = [job EXCEPT ![w] = Idle]) => Ended(w)
      /\ (Goto(w, "record") => Moved(w, "record"))
  <2> HIDE DEF Becomes, Moved, Ended
  <2>1. QED
    BY EndsMoves, GotoMoves DEF PC
<1> USE DEF Grant, Ends, Works, Fails, At, backend, nodeHistory
<1>2. Types'
  BY <1>1, WantedAssumption DEF Types, JobOK, Pair, Publishing, Unpublishing
<1>3. Jobs'
  BY <1>1, WantedAssumption DEF Types, JobOK, Pair, Publishing, Unpublishing
<1>4. Exclusion'
  BY <1>1 DEF Exclusion, Publishing, Unpublishing
<1>5. Progress'
  BY <1>1 DEF Progress, Exclusion, Types, JobOK, Pair, Publishing, Unpublishing
<1>6. CacheHasNode'
  BY <1>1 DEF CacheHasNode, Types
<1>7. Accounted'
  <2>1. CASE Moved(w, "record") /\ access' = access \cup {Pair(w)} /\ stray' = stray
    BY <2>1 DEF Accounted, InProgress, Publishing, Pair
  <2>2. CASE /\ access' \in {access, access \cup {Pair(w)}} /\ Ended(w)
             /\ stray' = IF access' = access \/ Known(Pair(w)) THEN stray
                         ELSE stray \cup {Pair(w)}
    BY <2>2 DEF Accounted, Known, InProgress, Pair
  <2>3. QED
    BY <1>1, <2>1, <2>2
<1>8. Promised'
  BY <1>1, WantedAssumption DEF Promised, Types, JobOK, Pair, Publishing
<1>9. AccessFollowsAnswers'
  BY <1>1 DEF AccessFollowsAnswers, Promised, Progress, Types, JobOK, Pair,
     Publishing, Unpublishing
<1>10. NodeKept'
  BY <1>1 DEF NodeKept, Types
<1>11. NotPresent' /\ RegisteredKept'
  BY <1>1 DEF NotPresent, RegisteredKept, Marked, Types
<1>12. Unsafe'
  BY <1>1 DEF Unsafe, Types, Publishing
<1>13. PolicyFollowsNodes'
  BY <1>1 DEF PolicyFollowsNodes, Types, At
<1>14. Orderly'
  BY <1>1 DEF Orderly, Doing, Pair
<1>15. MarkedSwept'
  BY <1>1 DEF MarkedSwept
<1>16. QED
  BY <1>2, <1>3, <1>4, <1>5, <1>6, <1>7, <1>8, <1>9, <1>10, <1>11, <1>12, <1>13, <1>14, <1>15

(* AddVolumePublication: what fails here leaves a half-made publication.   *)
LEMMA RecordStep ==
  ASSUME IInv, NEW w \in Client, Record(w)
  PROVE  IInv'
<1> USE DEF IInv, Jobs, Becomes, Moved, Ended
<1>1. /\ (job' = [job EXCEPT ![w] = Idle]) => Ended(w)
      /\ (Goto(w, "save") => Moved(w, "save"))
  <2> HIDE DEF Becomes, Moved, Ended
  <2>1. QED
    BY EndsMoves, GotoMoves DEF PC
<1> USE DEF Record, Ends, Works, Fails, At, backend, nodeHistory
<1>2. Types'
  BY <1>1, WantedAssumption DEF Types, JobOK, Pair, Publishing, Unpublishing
<1>3. Jobs'
  BY <1>1, WantedAssumption DEF Types, JobOK, Pair, Publishing, Unpublishing
<1>4. Exclusion'
  BY <1>1 DEF Exclusion, Publishing, Unpublishing
<1>5. Progress'
  BY <1>1 DEF Progress, Exclusion, Types, JobOK, Pair, Publishing, Unpublishing
<1>6. CacheHasNode'
  BY <1>1 DEF CacheHasNode, Types
<1>7. Accounted'
  BY <1>1 DEF Accounted, InProgress, Publishing, Unpublishing, Pair, Known
<1>8. Promised'
  BY <1>1, WantedAssumption DEF Promised, Types, JobOK, Pair, Publishing
<1>9. AccessFollowsAnswers'
  BY <1>1 DEF AccessFollowsAnswers, Promised, Progress, Types, JobOK, Pair,
     Publishing, Unpublishing
<1>10. NodeKept'
  BY <1>1 DEF NodeKept, Types
<1>11. NotPresent' /\ RegisteredKept'
  BY <1>1 DEF NotPresent, RegisteredKept, Marked, Types
<1>12. Unsafe'
  BY <1>1 DEF Unsafe, Types, Publishing
<1>13. PolicyFollowsNodes'
  BY <1>1 DEF PolicyFollowsNodes, Types, At
<1>14. Orderly'
  BY <1>1 DEF Orderly, Doing, Pair
<1>15. MarkedSwept'
  BY <1>1 DEF MarkedSwept
<1>16. QED
  BY <1>2, <1>3, <1>4, <1>5, <1>6, <1>7, <1>8, <1>9, <1>10, <1>11, <1>12, <1>13, <1>14, <1>15

(* The backend takes access away from a publication that is in the cache.  *)
LEMMA RevokeStep ==
  ASSUME IInv, NEW w \in Client, Revoke(w)
  PROVE  IInv'
<1> USE DEF IInv, Jobs, Becomes, Moved, Ended
<1>1. /\ (job' = [job EXCEPT ![w] = Idle]) => Ended(w)
      /\ (Goto(w, "unrecord") => Moved(w, "unrecord"))
  <2> HIDE DEF Becomes, Moved, Ended
  <2>1. QED
    BY EndsMoves, GotoMoves DEF PC
<1> USE DEF Revoke, Ends, Works, Fails, At, backend, nodeHistory
<1>2. Types'
  BY <1>1, WantedAssumption DEF Types, JobOK, Pair, Publishing, Unpublishing
<1>3. Jobs'
  BY <1>1, WantedAssumption DEF Types, JobOK, Pair, Publishing, Unpublishing
<1>4. Exclusion'
  BY <1>1 DEF Exclusion, Publishing, Unpublishing
<1>5. Progress'
  BY <1>1 DEF Progress, Exclusion, Types, JobOK, Pair, Publishing, Unpublishing
<1>6. CacheHasNode'
  BY <1>1 DEF CacheHasNode, Types
<1>7. Accounted'
  BY <1>1 DEF Accounted, InProgress, Publishing, Unpublishing, Pair, Known,
     Progress
<1>8. Promised'
  BY <1>1, WantedAssumption DEF Promised, Types, JobOK, Pair
<1>9. AccessFollowsAnswers'
  BY <1>1 DEF AccessFollowsAnswers, Promised, Progress, Types, JobOK, Pair,
     Publishing, Unpublishing
<1>10. NodeKept'
  BY <1>1 DEF NodeKept, Types
<1>11. NotPresent' /\ RegisteredKept'
  BY <1>1 DEF NotPresent, RegisteredKept, Marked, Types
<1>12. Unsafe'
  BY <1>1 DEF Unsafe, Types, Publishing
<1>13. PolicyFollowsNodes'
  BY <1>1 DEF PolicyFollowsNodes, Types, At
<1>14. Orderly'
  BY <1>1 DEF Orderly, Doing, Pair
<1>15. MarkedSwept'
  BY <1>1 DEF MarkedSwept
<1>16. QED
  BY <1>2, <1>3, <1>4, <1>5, <1>6, <1>7, <1>8, <1>9, <1>10, <1>11, <1>12, <1>13, <1>14, <1>15

(* invalidateAllBackendNodeAccess: rules that are not up to date promise   *)
(* nothing.                                                                *)
LEMMA InvalidateStep ==
  ASSUME IInv, NEW w \in Client, Invalidate(w)
  PROVE  IInv'
<1> USE DEF IInv, Jobs, Becomes, Moved, Ended
<1>1. /\ (job' = [job EXCEPT ![w] = Idle]) => Ended(w)
      /\ (Goto(w, "reconcile") => Moved(w, "reconcile"))
  <2> HIDE DEF Becomes, Moved, Ended
  <2>1. QED
    BY EndsMoves, GotoMoves DEF PC
<1> USE DEF Invalidate, Ends, At, backend, nodeHistory
<1>2. Types'
  BY <1>1, WantedAssumption DEF Types, JobOK, Pair, Publishing, Unpublishing
<1>3. Jobs'
  BY <1>1, WantedAssumption DEF Types, JobOK, Pair, Publishing, Unpublishing
<1>4. Exclusion'
  BY <1>1 DEF Exclusion, Publishing, Unpublishing
<1>5. Progress'
  BY <1>1 DEF Progress, Exclusion, Types, JobOK, Pair, Publishing, Unpublishing
<1>6. CacheHasNode'
  BY <1>1 DEF CacheHasNode, Types
<1>7. Accounted'
  BY <1>1 DEF Accounted, InProgress, Publishing, Unpublishing, Pair, Known
<1>8. Promised'
  BY <1>1, WantedAssumption DEF Promised, Types, JobOK, Pair
<1>9. AccessFollowsAnswers'
  BY <1>1 DEF AccessFollowsAnswers, Promised, Progress, Types, JobOK, Pair,
     Publishing, Unpublishing
<1>10. NodeKept'
  BY <1>1 DEF NodeKept, Types
<1>11. NotPresent' /\ RegisteredKept'
  BY <1>1 DEF NotPresent, RegisteredKept, Marked, Types
<1>12. Unsafe'
  BY <1>1 DEF Unsafe, Types, Publishing
<1>13. PolicyFollowsNodes'
  BY <1>1 DEF PolicyFollowsNodes, Types, At
<1>14. Orderly'
  BY <1>1 DEF Orderly, Doing, Pair
<1>15. MarkedSwept'
  BY <1>1 DEF MarkedSwept
<1>16. QED
  BY <1>2, <1>3, <1>4, <1>5, <1>6, <1>7, <1>8, <1>9, <1>10, <1>11, <1>12, <1>13, <1>14, <1>15

(* The end of publishVolume, where the publication is promised.            *)
LEMMA SavePublishStep ==
  ASSUME IInv, NEW w \in Client, SavePublish(w)
  PROVE  IInv'
<1> USE DEF IInv, Jobs, Becomes, Moved, Ended
<1>1. /\ job[w].pc = "save" /\ job[w].op = "publish" /\ Pair(w) \in Wanted
      /\ Pair(w) \in access /\ Pair(w) \in record /\ node[job[w].node] # None
  BY DEF SavePublish, At, Progress, JobOK, Publishing
<1>2. Ended(w) /\ UNCHANGED <<node, record, access, policy, upToDate, phase, leaked, present,
                              unsafe, swept>>
  BY EndsMoves DEF SavePublish, Answer, Ends, backend, nodeHistory
<1>3. CASE Settle(w) /\ cache' = cache \cup {Pair(w)} /\ stray' = stray \ {Pair(w)}
           /\ UNCHANGED mishap
  <2>1. /\ promise' \in [Wanted -> {"none", "published", "doomed", "gone"}]
        /\ \A p \in Wanted : p # Pair(w) => promise'[p] = promise[p]
        /\ promise'[Pair(w)] \in {"doomed", "published"}
        /\ \A u \in Client : u # w /\ job[u].op = "unpublish" /\ Pair(u) = Pair(w)
             => promise'[Pair(w)] = "doomed"
    BY <1>1, <1>3, SettlePublish
  <2>2. Types'
    BY <1>1, <1>2, <1>3, <2>1, WantedAssumption DEF Types, JobOK, Pair,
       Publishing, Unpublishing
  <2>3. Jobs'
    BY <1>1, <1>2, <1>3, <2>1, WantedAssumption DEF Types, JobOK, Pair,
       Publishing, Unpublishing
  <2>4. Exclusion'
    BY <1>1, <1>2, <1>3, <2>1 DEF Exclusion, Publishing, Unpublishing
  <2>5. Progress'
    BY <1>1, <1>2, <1>3, <2>1 DEF Progress, Exclusion, Types, JobOK, Pair,
       Publishing, Unpublishing
  <2>6. CacheHasNode'
    BY <1>1, <1>2, <1>3, <2>1 DEF CacheHasNode, Types, Pair
  <2>7. Accounted'
    BY <1>1, <1>2, <1>3, <2>1 DEF Accounted, InProgress, Publishing,
       Unpublishing, Pair, Known
  <2>8. Promised'
    <3>1. \A u \in Client : u # w => JobOK(u) /\ job'[u] = job[u]
      BY <1>2
    <3>2. QED
      BY <1>1, <1>2, <1>3, <2>1, <3>1 DEF Promised, JobOK, Pair
  <2>9. AccessFollowsAnswers'
    BY <1>1, <1>2, <1>3, <2>1 DEF AccessFollowsAnswers, Promised, Progress,
       Types, JobOK, Pair, Publishing, Unpublishing
  <2>10. NodeKept'
    BY <1>1, <1>2, <1>3, <2>1 DEF NodeKept, Types, Pair
  <2>11. NotPresent' /\ RegisteredKept'
    BY <1>1, <1>2, <1>3, <2>1 DEF NotPresent, RegisteredKept, Marked, Types
  <2>12. Unsafe'
    BY <1>1, <1>2, <1>3, <2>1 DEF Unsafe, Types, Publishing
  <2>13. PolicyFollowsNodes'
    BY <1>1, <1>2, <1>3, <2>1 DEF PolicyFollowsNodes, Types, At
  <2>14. Orderly'
    BY <1>1, <1>2, <1>3, <2>1 DEF Orderly, Doing, Pair
  <2>15. MarkedSwept'
    BY <1>1, <1>2, <1>3, <2>1 DEF MarkedSwept
  <2>16. QED
    BY <2>2, <2>3, <2>4, <2>5, <2>6, <2>7, <2>8, <2>9, <2>10, <2>11, <2>12, <2>13, <2>14, <2>15
<1>4. CASE /\ stray' = IF Known(Pair(w)) THEN stray ELSE stray \cup {Pair(w)}
           /\ mishap' = TRUE /\ UNCHANGED <<cache, promise>>
  <2>1. Types'
    BY <1>1, <1>2, <1>4, WantedAssumption DEF Types, JobOK, Pair, Publishing,
       Unpublishing
  <2>2. Jobs'
    BY <1>1, <1>2, <1>4, WantedAssumption DEF Types, JobOK, Pair, Publishing,
       Unpublishing
  <2>3. Exclusion'
    BY <1>1, <1>2, <1>4 DEF Exclusion, Publishing, Unpublishing
  <2>4. Progress'
    BY <1>1, <1>2, <1>4 DEF Progress, Exclusion, Types, JobOK, Pair, Publishing,
       Unpublishing
  <2>5. CacheHasNode'
    BY <1>1, <1>2, <1>4 DEF CacheHasNode, Types
  <2>6. Accounted'
    BY <1>1, <1>2, <1>4 DEF Accounted, InProgress, Publishing, Unpublishing,
       Pair, Known
  <2>7. Promised'
    BY <1>1, <1>2, <1>4, WantedAssumption DEF Promised, Types, JobOK, Pair
  <2>8. AccessFollowsAnswers'
    BY <1>1, <1>2, <1>4 DEF AccessFollowsAnswers, Promised, Progress, Types,
       JobOK, Pair, Publishing, Unpublishing
  <2>9. NodeKept'
    BY <1>1, <1>2, <1>4 DEF NodeKept, Types
  <2>10. NotPresent' /\ RegisteredKept'
    BY <1>1, <1>2, <1>4 DEF NotPresent, RegisteredKept, Marked, Types
  <2>11. Unsafe'
    BY <1>1, <1>2, <1>4 DEF Unsafe, Types, Publishing
  <2>12. PolicyFollowsNodes'
    BY <1>1, <1>2, <1>4 DEF PolicyFollowsNodes, Types, At
  <2>13. Orderly'
    BY <1>1, <1>2, <1>4 DEF Orderly, Doing, Pair
  <2>14. MarkedSwept'
    BY <1>1, <1>2, <1>4 DEF MarkedSwept
  <2>15. QED
    BY <2>1, <2>2, <2>3, <2>4, <2>5, <2>6, <2>7, <2>8, <2>9, <2>10, <2>11, <2>12, <2>13, <2>14
<1>5. QED
  BY <1>3, <1>4 DEF SavePublish, Answer, Ends, Works, Fails

(* unpublishVolume has its locks: what is not in the cache is stray or     *)
(* not there.                                                              *)
LEMMA LockUnpublishStep ==
  ASSUME IInv, NEW w \in Client, LockUnpublish(w)
  PROVE  IInv'
<1> USE DEF IInv, Jobs, Becomes, Moved, Ended
<1>1. /\ job[w].pc = "unlock" /\ job[w].op = "unpublish" /\ Pair(w) \in Wanted
      /\ job[w].node \in Node /\ CanHold(w) /\ phase = "up"
      /\ UNCHANGED <<node, record, cache, access, policy, upToDate, phase, leaked, present,
                     unsafe, swept, stray, mishap>>
  BY DEF LockUnpublish, At, JobOK, Types, backend, nodeHistory
<1>2. CASE Pair(w) \notin cache /\ Answer(w)
  <2>1. Ended(w)
    BY <1>2, EndsMoves DEF Answer
  <2>2. /\ promise' \in [Wanted -> {"none", "published", "doomed", "gone"}]
        /\ \A p \in Wanted : p # Pair(w) => promise'[p] = promise[p]
        /\ promise'[Pair(w)] \in {"none", "gone"}
        /\ \A u \in Client : u # w /\ job[u].op = "publish" /\ Pair(u) = Pair(w)
             => promise'[Pair(w)] = "none"
    BY <1>1, <1>2, SettleUnpublish DEF Answer
  <2>3. Types'
    BY <1>1, <1>2, <2>1, <2>2, WantedAssumption DEF Types, JobOK, Pair,
       Publishing, Unpublishing
  <2>4. Jobs'
    BY <1>1, <1>2, <2>1, <2>2, WantedAssumption DEF Types, JobOK, Pair,
       Publishing, Unpublishing
  <2>5. Exclusion'
    BY <1>1, <1>2, <2>1, <2>2 DEF Exclusion, Publishing, Unpublishing
  <2>6. Progress'
    BY <1>1, <1>2, <2>1, <2>2 DEF Progress, Exclusion, Types, JobOK, Pair,
       Publishing, Unpublishing
  <2>7. CacheHasNode'
    BY <1>1, <1>2, <2>1, <2>2 DEF CacheHasNode, Types
  <2>8. Accounted'
    BY <1>1, <1>2, <2>1, <2>2 DEF Accounted, InProgress, Publishing,
       Unpublishing, Pair, Known
  <2>9. Promised'
    <3>1. \A u \in Client : u # w => JobOK(u) /\ job'[u] = job[u] /\ Pair(u)' = Pair(u)
      BY <2>1 DEF Pair
    <3>2. QED
      BY <1>1, <1>2, <2>1, <2>2, <3>1 DEF Promised, JobOK
  <2>10. AccessFollowsAnswers'
    <3>1. \A u \in Client : u # w /\ job[u].op = "publish" /\ Pair(u) = Pair(w)
             => promise'[Pair(w)] = "none"
      BY <2>2
    <3>2. promise'[Pair(w)] = "gone" => ~InProgress(Pair(w))
      BY <1>1, <3>1 DEF InProgress, JobOK, Publishing
    <3>3. QED
      BY <1>1, <1>2, <2>2, <3>2 DEF AccessFollowsAnswers, Accounted
  <2>11. NodeKept'
    BY <1>1, <1>2, <2>1, <2>2 DEF NodeKept, Types
  <2>12. NotPresent' /\ RegisteredKept'
    BY <1>1, <1>2, <2>1, <2>2 DEF NotPresent, RegisteredKept, Marked, Types
  <2>13. Unsafe'
    BY <1>1, <1>2, <2>1, <2>2 DEF Unsafe, Types, Publishing
  <2>14. PolicyFollowsNodes'
    BY <1>1, <1>2, <2>1, <2>2 DEF PolicyFollowsNodes, Types, At
  <2>15. Orderly'
    BY <1>1, <1>2, <2>1, <2>2 DEF Orderly, Doing, Pair
  <2>16. MarkedSwept'
    BY <1>1, <1>2, <2>1, <2>2 DEF MarkedSwept
  <2>17. QED
    BY <2>3, <2>4, <2>5, <2>6, <2>7, <2>8, <2>9, <2>10, <2>11, <2>12, <2>13, <2>14, <2>15, <2>16
<1>3. CASE /\ Pair(w) \in cache /\ node[job[w].node] # None /\ UNCHANGED promise
           /\ job' = [job EXCEPT ![w].pc = "revoke", ![w].deleted = node[job[w].node].deleted]
  <2>1. Becomes(w, "revoke", job[w].op, job[w].vol, job[w].node, node[job[w].node].deleted)
    <3>1. node[job[w].node].deleted \in BOOLEAN /\ "revoke" \in PC
      BY <1>1, <1>3 DEF Types, PC
    <3> HIDE DEF Becomes
    <3>2. QED
      BY <1>3, <3>1, RevokeMoves
  <2>2. /\ Pair(w) \in cache /\ node[job[w].node] # None /\ UNCHANGED promise
    BY <1>3
  <2>3. Types'
    BY <1>1, <2>1, <2>2, WantedAssumption DEF Types, JobOK, Pair, Publishing,
       Unpublishing
  <2>4. Jobs'
    BY <1>1, <2>1, <2>2, WantedAssumption DEF Types, JobOK, Pair, Publishing,
       Unpublishing
  <2>5. Exclusion'
    BY <1>1, <2>1, <2>2 DEF Exclusion, Publishing, Unpublishing, CanHold,
       Holders, At
  <2>6. Progress'
    BY <1>1, <2>1, <2>2 DEF Progress, Exclusion, Types, JobOK, Pair, Publishing,
       Unpublishing
  <2>7. CacheHasNode'
    BY <1>1, <2>1, <2>2 DEF CacheHasNode, Types
  <2>8. Accounted'
    BY <1>1, <2>1, <2>2 DEF Accounted, InProgress, Publishing, Unpublishing,
       Pair, Known
  <2>9. Promised'
    BY <1>1, <2>1, <2>2, WantedAssumption DEF Promised, Types, JobOK, Pair
  <2>10. AccessFollowsAnswers'
    BY <1>1, <2>1, <2>2 DEF AccessFollowsAnswers, Promised, Progress, Types,
       JobOK, Pair, Publishing, Unpublishing
  <2>11. NodeKept'
    BY <1>1, <2>1, <2>2 DEF NodeKept, Types
  <2>12. NotPresent' /\ RegisteredKept'
    BY <1>1, <2>1, <2>2 DEF NotPresent, RegisteredKept, Marked, Types
  <2>13. Unsafe'
    BY <1>1, <2>1, <2>2 DEF Unsafe, Types, Publishing
  <2>14. PolicyFollowsNodes'
    BY <1>1, <2>1, <2>2 DEF PolicyFollowsNodes, Types, At
  <2>15. Orderly'
    BY <1>1, <2>1, <2>2 DEF Orderly, Doing, Pair
  <2>16. MarkedSwept'
    BY <1>1, <2>1, <2>2 DEF MarkedSwept
  <2>17. QED
    BY <2>3, <2>4, <2>5, <2>6, <2>7, <2>8, <2>9, <2>10, <2>11, <2>12, <2>13, <2>14, <2>15, <2>16
<1>4. CacheHasNode /\ (Pair(w) \in cache => node[job[w].node] # None)
  BY DEF CacheHasNode, Pair
<1>5. QED
  BY <1>2, <1>3, <1>4 DEF LockUnpublish

(* DeleteVolumePublication, whose NotFoundError is an answer.              *)
LEMMA UnrecordStep ==
  ASSUME IInv, NEW w \in Client, Unrecord(w)
  PROVE  IInv'
<1> USE DEF IInv, Jobs, Becomes, Moved, Ended
<1>1. /\ job[w].pc = "unrecord" /\ job[w].op = "unpublish" /\ Pair(w) \in Wanted
      /\ Pair(w) \notin access
      /\ UNCHANGED <<node, cache, access, policy, upToDate, phase, leaked, present,
                     unsafe, swept, stray>>
  BY DEF Unrecord, At, JobOK, Unpublishing, Progress, backend, nodeHistory
<1>2. CASE /\ record' = record \ {Pair(w)} /\ Goto(w, "unsave")
           /\ UNCHANGED <<mishap, promise>>
  <2>1. Moved(w, "unsave")
    BY <1>2, GotoMoves DEF PC
  <2>2. record' = record \ {Pair(w)} /\ UNCHANGED <<mishap, promise>>
    BY <1>2
  <2>3. Types'
    BY <1>1, <2>1, <2>2, WantedAssumption DEF Types, JobOK, Pair, Publishing,
       Unpublishing
  <2>4. Jobs'
    BY <1>1, <2>1, <2>2 DEF JobOK, Pair, Publishing, Unpublishing
  <2>5. Exclusion'
    BY <1>1, <2>1, <2>2 DEF Exclusion, Publishing, Unpublishing
  <2>6. Progress'
    BY <1>1, <2>1, <2>2 DEF Progress, Exclusion, Types, JobOK, Pair, Publishing,
       Unpublishing
  <2>7. CacheHasNode'
    BY <1>1, <2>1, <2>2 DEF CacheHasNode, Types
  <2>8. Accounted'
    BY <1>1, <2>1, <2>2 DEF Accounted, InProgress, Publishing, Unpublishing,
       Pair, Known
  <2>9. Promised'
    <3>1. \A u \in Client : u # w => JobOK(u) /\ job'[u] = job[u] /\ Pair(u)' = Pair(u)
      BY <2>1 DEF Pair
    <3>2. job'[w].op = "none" \/ (job'[w].op = job[w].op /\ Pair(w)' = Pair(w))
      BY <2>1 DEF Pair
    <3>3. QED
      BY <1>1, <2>1, <2>2, <3>1, <3>2 DEF Promised, JobOK
  <2>10. AccessFollowsAnswers'
    BY <1>1, <2>1, <2>2 DEF AccessFollowsAnswers, Promised, Progress, Types,
       JobOK, Pair, Publishing, Unpublishing
  <2>11. NodeKept'
    BY <1>1, <2>1, <2>2 DEF NodeKept, Types
  <2>12. NotPresent' /\ RegisteredKept'
    BY <1>1, <2>1, <2>2 DEF NotPresent, RegisteredKept, Marked, Types
  <2>13. Unsafe'
    BY <1>1, <2>1, <2>2 DEF Unsafe, Types, Publishing
  <2>14. PolicyFollowsNodes'
    BY <1>1, <2>1, <2>2 DEF PolicyFollowsNodes, Types, At
  <2>15. Orderly'
    BY <1>1, <2>1, <2>2 DEF Orderly, Doing, Pair
  <2>16. MarkedSwept'
    BY <1>1, <2>1, <2>2 DEF MarkedSwept
  <2>17. QED
    BY <2>3, <2>4, <2>5, <2>6, <2>7, <2>8, <2>9, <2>10, <2>11, <2>12, <2>13, <2>14, <2>15, <2>16
<1>3. CASE Pair(w) \notin record /\ Answer(w) /\ UNCHANGED <<mishap, record>>
  <2>1. Ended(w)
    BY <1>3, EndsMoves DEF Answer
  <2>2. /\ promise' \in [Wanted -> {"none", "published", "doomed", "gone"}]
        /\ \A p \in Wanted : p # Pair(w) => promise'[p] = promise[p]
        /\ promise'[Pair(w)] \in {"none", "gone"}
        /\ \A u \in Client : u # w /\ job[u].op = "publish" /\ Pair(u) = Pair(w)
             => promise'[Pair(w)] = "none"
    BY <1>1, <1>3, SettleUnpublish DEF Answer
  <2>3. Types'
    BY <1>1, <1>3, <2>1, <2>2, WantedAssumption DEF Types, JobOK, Pair,
       Publishing, Unpublishing
  <2>4. Jobs'
    BY <1>1, <1>3, <2>1, <2>2, WantedAssumption DEF Types, JobOK, Pair,
       Publishing, Unpublishing
  <2>5. Exclusion'
    BY <1>1, <1>3, <2>1, <2>2 DEF Exclusion, Publishing, Unpublishing
  <2>6. Progress'
    BY <1>1, <1>3, <2>1, <2>2 DEF Progress, Exclusion, Types, JobOK, Pair,
       Publishing, Unpublishing
  <2>7. CacheHasNode'
    BY <1>1, <1>3, <2>1, <2>2 DEF CacheHasNode, Types
  <2>8. Accounted'
    BY <1>1, <1>3, <2>1, <2>2 DEF Accounted, InProgress, Publishing,
       Unpublishing, Pair, Known
  <2>9. Promised'
    <3>1. \A u \in Client : u # w => JobOK(u) /\ job'[u] = job[u] /\ Pair(u)' = Pair(u)
      BY <2>1 DEF Pair
    <3>2. QED
      BY <1>1, <1>3, <2>1, <2>2, <3>1 DEF Promised, JobOK
  <2>10. AccessFollowsAnswers'
    BY <1>1, <1>3, <2>1, <2>2 DEF AccessFollowsAnswers, Promised, Progress,
       Types, JobOK, Pair, Publishing, Unpublishing
  <2>11. NodeKept'
    BY <1>1, <1>3, <2>1, <2>2 DEF NodeKept, Types
  <2>12. NotPresent' /\ RegisteredKept'
    BY <1>1, <1>3, <2>1, <2>2 DEF NotPresent, RegisteredKept, Marked, Types
  <2>13. Unsafe'
    BY <1>1, <1>3, <2>1, <2>2 DEF Unsafe, Types, Publishing
  <2>14. PolicyFollowsNodes'
    BY <1>1, <1>3, <2>1, <2>2 DEF PolicyFollowsNodes, Types, At
  <2>15. Orderly'
    BY <1>1, <1>3, <2>1, <2>2 DEF Orderly, Doing, Pair
  <2>16. MarkedSwept'
    BY <1>1, <1>3, <2>1, <2>2 DEF MarkedSwept
  <2>17. QED
    BY <2>3, <2>4, <2>5, <2>6, <2>7, <2>8, <2>9, <2>10, <2>11, <2>12, <2>13, <2>14, <2>15, <2>16
<1>4. CASE Ended(w) /\ mishap' = TRUE /\ UNCHANGED <<record, promise>>
  BY <1>1, <1>4, GivesUp DEF Types
<1>5. QED
  BY <1>2, <1>3, <1>4, EndsMoves DEF Unrecord, Ends, Works, Fails

(* The end of unpublishVolume; the mark it read under the lock of the      *)
(* node is still the mark of the node.                                     *)
LEMMA SaveUnpublishStep ==
  ASSUME IInv, NEW w \in Client, SaveUnpublish(w)
  PROVE  IInv'
<1> USE DEF IInv, Jobs, Becomes, Moved, Ended
<1>1. /\ job[w].pc = "unsave" /\ job[w].op = "unpublish" /\ Pair(w) \in Wanted
      /\ Pair(w) \notin access /\ Pair(w) \notin record /\ Pair(w) = <<job[w].vol, job[w].node>>
      /\ job[w].node \in Node /\ job[w].deleted = node[job[w].node].deleted
      /\ UNCHANGED <<node, record, access, policy, upToDate, phase, leaked, present,
                     unsafe, swept, stray>>
  BY DEF SaveUnpublish, At, JobOK, Unpublishing, Progress, Pair, backend, nodeHistory
<1>2. CASE /\ cache' = cache \ {Pair(w)} /\ UNCHANGED mishap /\ Settle(w)
           /\ job' = [job EXCEPT ![w] = IF @.deleted THEN [@ EXCEPT !.pc = "sweep"] ELSE Idle]
  <2>1. cache' = cache \ {Pair(w)} /\ UNCHANGED mishap
    BY <1>2
  <2>2. /\ promise' \in [Wanted -> {"none", "published", "doomed", "gone"}]
        /\ \A p \in Wanted : p # Pair(w) => promise'[p] = promise[p]
        /\ promise'[Pair(w)] \in {"none", "gone"}
        /\ \A u \in Client : u # w /\ job[u].op = "publish" /\ Pair(u) = Pair(w)
             => promise'[Pair(w)] = "none"
    BY <1>1, <1>2, SettleUnpublish
  <2>3. \/ Moved(w, "sweep")
        \/ Ended(w) /\ ~job[w].deleted
    <3>1. CASE job[w].deleted
      <4>1. Goto(w, "sweep")
        BY <1>2, <3>1 DEF Goto
      <4>2. QED
        BY <4>1, GotoMoves DEF PC
    <3>2. CASE ~job[w].deleted
      <4>1. job' = [job EXCEPT ![w] = Idle]
        BY <1>2, <3>2
      <4>2. QED
        BY <3>2, <4>1, EndsMoves
    <3>3. QED
      BY <3>1, <3>2
  <2>4. Types'
    BY <1>1, <2>1, <2>2, <2>3, WantedAssumption DEF Types, JobOK, Pair,
       Publishing, Unpublishing
  <2>5. Jobs'
    BY <1>1, <2>1, <2>2, <2>3, WantedAssumption DEF Types, JobOK, Pair,
       Publishing, Unpublishing
  <2>6. Exclusion'
    BY <1>1, <2>1, <2>2, <2>3 DEF Exclusion, Publishing, Unpublishing
  <2>7. Progress'
    BY <1>1, <2>1, <2>2, <2>3 DEF Progress, Exclusion, Types, JobOK, Pair,
       Publishing, Unpublishing
  <2>8. CacheHasNode'
    BY <1>1, <2>1, <2>2, <2>3 DEF CacheHasNode, Types
  <2>9. Accounted'
    BY <1>1, <2>1, <2>2, <2>3 DEF Accounted, InProgress, Publishing,
       Unpublishing, Pair, Known
  <2>10. Promised'
    <3>1. \A u \in Client : u # w => JobOK(u) /\ job'[u] = job[u] /\ Pair(u)' = Pair(u)
      BY <2>3 DEF Pair
    <3>2. job'[w].op = "none" \/ (job'[w].op = job[w].op /\ Pair(w)' = Pair(w))
      BY <2>3 DEF Pair
    <3>3. QED
      BY <1>1, <2>1, <2>2, <2>3, <3>1, <3>2 DEF Promised, JobOK
  <2>11. AccessFollowsAnswers'
    BY <1>1, <2>1, <2>2, <2>3 DEF AccessFollowsAnswers, Promised, Progress,
       Types, JobOK, Pair, Publishing, Unpublishing
  <2>12. NodeKept'
    BY <1>1, <2>1, <2>2, <2>3 DEF NodeKept, Types
  <2>13. NotPresent' /\ RegisteredKept'
    BY <1>1, <2>1, <2>2, <2>3 DEF NotPresent, RegisteredKept, Marked, Types
  <2>14. Unsafe'
    BY <1>1, <2>1, <2>2, <2>3 DEF Unsafe, Types, Publishing
  <2>15. PolicyFollowsNodes'
    BY <1>1, <2>1, <2>2, <2>3 DEF PolicyFollowsNodes, Types, At
  <2>16. Orderly'
    <3>1. \A u \in Client : u # w => job'[u] = job[u] /\ Pair(u)' = Pair(u)
      BY <2>3 DEF Pair
    <3>2. QED
      BY <1>1, <2>1, <3>1 DEF Orderly, Doing
  <2>17. MarkedSwept'
    BY <1>1, <2>1, <2>2, <2>3 DEF MarkedSwept
  <2>18. QED
    BY <2>4, <2>5, <2>6, <2>7, <2>8, <2>9, <2>10, <2>11, <2>12, <2>13, <2>14, <2>15, <2>16, <2>17
<1>3. CASE Ended(w) /\ mishap' = TRUE /\ UNCHANGED <<cache, promise>>
  BY <1>1, <1>3, GivesUp DEF Types
<1>4. QED
  BY <1>2, <1>3, EndsMoves DEF SaveUnpublish, Ends, Works, Fails

(* tryDeleteSoftDeletedNode: nobody holds the node, nothing is published   *)
(* to it, and it has not registered since.                                 *)
LEMMA SweepStep ==
  ASSUME IInv, NEW w \in Client, Sweep(w)
  PROVE  IInv'
<1> USE DEF IInv, Jobs, Becomes, Moved, Ended
<1> DEFINE n == job[w].node
<1>1. /\ job[w].pc = "sweep" /\ job[w].op = "unpublish" /\ n \in Node /\ phase = "up"
      /\ UNCHANGED <<record, cache, access, policy, upToDate, phase, leaked, present, stray>>
  BY DEF Sweep, At, JobOK, Types, backend, nodeHistory
<1>2. \A u \in Client : job[u].pc \in Publishing \cup Unpublishing => job[u].node # n
  BY WriteAlone DEF Sweep
<1>3. Ended(w) /\ UNCHANGED promise
  BY EndsMoves DEF Sweep, Ends
<1>4. CASE /\ Marked(n) /\ On(n) = {} /\ node' = [node EXCEPT ![n] = None]
           /\ swept' = swept \cup {n} /\ unsafe' = unsafe \ {n} /\ UNCHANGED mishap
  <2>1. NodeGone(n)
    BY <1>1, <1>4, NodeDeleted
  <2>2. n \notin present /\ \A p \in cache : p[2] \in Node /\ p[2] # n
    BY <1>4, WantedAssumption DEF On, RegisteredKept, Types
  <2>3. swept' = swept \cup {n} /\ unsafe' = unsafe \ {n} /\ UNCHANGED mishap
    BY <1>4
  <2> USE DEF NodeGone
  <2>4. Types'
    BY <1>1, <1>2, <1>3, <2>1, <2>2, <2>3, WantedAssumption DEF Types, JobOK,
       Pair, Publishing, Unpublishing
  <2>5. Jobs'
    BY <1>1, <1>2, <1>3, <2>1, <2>2, <2>3, WantedAssumption DEF Types, JobOK,
       Pair, Publishing, Unpublishing
  <2>6. Exclusion'
    BY <1>1, <1>2, <1>3, <2>1, <2>2, <2>3 DEF Exclusion, Publishing,
       Unpublishing
  <2>7. Progress'
    BY <1>1, <1>2, <1>3, <2>1, <2>2, <2>3 DEF Progress, Exclusion, Types, JobOK,
       Pair, Publishing, Unpublishing
  <2>8. CacheHasNode'
    BY <1>1, <1>2, <1>3, <2>1, <2>2, <2>3 DEF CacheHasNode, Types
  <2>9. Accounted'
    BY <1>1, <1>2, <1>3, <2>1, <2>2, <2>3 DEF Accounted, InProgress, Publishing,
       Unpublishing, Pair, Known
  <2>10. Promised'
    BY <1>1, <1>2, <1>3, <2>1, <2>2, <2>3, WantedAssumption DEF Promised, Types,
       JobOK, Pair
  <2>11. AccessFollowsAnswers'
    BY <1>1, <1>2, <1>3, <2>1, <2>2, <2>3 DEF AccessFollowsAnswers, Promised,
       Progress, Types, JobOK, Pair, Publishing, Unpublishing
  <2>12. NodeKept'
    BY <1>1, <1>2, <1>3, <2>1, <2>2, <2>3 DEF NodeKept, Types,
       AccessFollowsAnswers
  <2>13. NotPresent' /\ RegisteredKept'
    BY <1>1, <1>2, <1>3, <2>1, <2>2, <2>3 DEF NotPresent, RegisteredKept,
       Marked, Types
  <2>14. Unsafe'
    BY <1>1, <1>2, <1>3, <2>1, <2>2, <2>3 DEF Unsafe, Types, Publishing
  <2>15. PolicyFollowsNodes'
    BY <1>1, <1>2, <1>3, <2>1, <2>2, <2>3 DEF PolicyFollowsNodes, Types, At
  <2>16. Orderly'
    BY <1>1, <1>2, <1>3, <2>1, <2>2, <2>3 DEF Orderly, Doing, Pair
  <2>17. MarkedSwept'
    BY <1>1, <1>2, <1>3, <2>1, <2>2, <2>3 DEF MarkedSwept
  <2>18. QED
    BY <2>4, <2>5, <2>6, <2>7, <2>8, <2>9, <2>10, <2>11, <2>12, <2>13, <2>14, <2>15, <2>16, <2>17
<1>5. CASE /\ mishap' = TRUE \/ (~(Marked(n) /\ On(n) = {}) /\ UNCHANGED mishap)
           /\ UNCHANGED <<node, swept, unsafe>>
  <2>1. \/ mishap' = TRUE
        \/ /\ UNCHANGED mishap
           /\ node[n] # None /\ node[n].deleted => \E p \in cache : p[2] = n
    BY <1>1, <1>5, MarkedRecord DEF On, Marked, Types
  <2>2. UNCHANGED <<node, swept, unsafe>>
    BY <1>5
  <2>3. Types'
    BY <1>1, <1>3, <2>1, <2>2, WantedAssumption DEF Types, JobOK, Pair,
       Publishing, Unpublishing
  <2>4. Jobs'
    BY <1>1, <1>3, <2>1, <2>2, WantedAssumption DEF Types, JobOK, Pair,
       Publishing, Unpublishing
  <2>5. Exclusion'
    BY <1>1, <1>3, <2>1, <2>2 DEF Exclusion, Publishing, Unpublishing
  <2>6. Progress'
    BY <1>1, <1>3, <2>1, <2>2 DEF Progress, Exclusion, Types, JobOK, Pair,
       Publishing, Unpublishing
  <2>7. CacheHasNode'
    BY <1>1, <1>3, <2>1, <2>2 DEF CacheHasNode, Types
  <2>8. Accounted'
    BY <1>1, <1>3, <2>1, <2>2 DEF Accounted, InProgress, Publishing,
       Unpublishing, Pair, Known
  <2>9. Promised'
    BY <1>1, <1>3, <2>1, <2>2, WantedAssumption DEF Promised, Types, JobOK, Pair
  <2>10. AccessFollowsAnswers'
    BY <1>1, <1>3, <2>1, <2>2 DEF AccessFollowsAnswers, Promised, Progress,
       Types, JobOK, Pair, Publishing, Unpublishing
  <2>11. NodeKept'
    BY <1>1, <1>3, <2>1, <2>2 DEF NodeKept, Types
  <2>12. NotPresent' /\ RegisteredKept'
    BY <1>1, <1>3, <2>1, <2>2 DEF NotPresent, RegisteredKept, Marked, Types
  <2>13. Unsafe'
    BY <1>1, <1>3, <2>1, <2>2 DEF Unsafe, Types, Publishing
  <2>14. PolicyFollowsNodes'
    BY <1>1, <1>3, <2>1, <2>2 DEF PolicyFollowsNodes, Types, At
  <2>15. Orderly'
    BY <1>1, <1>3, <2>1, <2>2 DEF Orderly, Doing, Pair
  <2>16. MarkedSwept'
    BY <1>1, <1>3, <2>1, <2>2 DEF MarkedSwept
  <2>17. QED
    BY <2>3, <2>4, <2>5, <2>6, <2>7, <2>8, <2>9, <2>10, <2>11, <2>12, <2>13, <2>14, <2>15, <2>16
<1>6. QED
  BY <1>4, <1>5 DEF Sweep, Works, Fails

(* AddNode, which nobody who holds the node can overlap.                   *)
LEMMA AddNodeStep ==
  ASSUME IInv, NEW w \in Client, AddNode(w)
  PROVE  IInv'
<1> USE DEF IInv, Jobs, Becomes, Moved, Ended
<1> DEFINE n == job[w].node
<1>1. /\ job[w].pc = "add" /\ job[w].op = "add" /\ n \in Node /\ phase = "up"
      /\ UNCHANGED <<record, cache, access, policy, upToDate, phase, leaked, unsafe, stray>>
  BY DEF AddNode, At, JobOK, Types, backend, nodeHistory
<1>2. \A u \in Client : job[u].pc \in Publishing \cup Unpublishing => job[u].node # n
  BY WriteAlone DEF AddNode
<1>3. CASE /\ node' = [node EXCEPT ![n] = Registered(@)]
           /\ present' = IF \E u \in Client : job[u].op = "delete" /\ job[u].node = n
                          THEN present ELSE present \cup {n}
           /\ swept' = swept \ {n}
           /\ Goto(w, "invalidate") /\ UNCHANGED <<mishap, promise>>
  <2>1. Moved(w, "invalidate")
    BY <1>3, GotoMoves DEF PC
  <2>2. /\ UNCHANGED <<mishap, promise>> /\ swept' = swept \ {n}
        /\ present' = IF \E u \in Client : job[u].op = "delete" /\ job[u].node = n
                       THEN present ELSE present \cup {n}
    BY <1>3
  <2>3. PICK s \in State : /\ NodeBecomes(n, s, FALSE)
                           /\ node[n] # None => s = node[n].state
    <3> DEFINE s == IF node[n] = None THEN "clean" ELSE node[n].state
               r == [state |-> s, deleted |-> FALSE]
    <3>1. s \in State /\ (node[n] # None => s = node[n].state)
      BY <1>1 DEF Types, State
    <3>2. node' = [node EXCEPT ![n] = r]
      BY <1>3 DEF Registered
    <3>3. r \in [state : State, deleted : BOOLEAN] /\ r.state = s /\ r.deleted = FALSE
      BY <3>1
    <3>4. NodeBecomes(n, r.state, r.deleted)
      <4> HIDE DEF n, r
      <4>1. QED
        BY <1>1, <3>2, <3>3, NodeUpdate
    <3>5. QED
      BY <3>1, <3>3, <3>4
  <2>4. \A p \in Wanted : p[2] \in Node
    BY WantedAssumption
  <2> USE DEF NodeBecomes
  <2>5. Types'
    BY <1>1, <1>2, <2>1, <2>2, <2>3, <2>4, WantedAssumption DEF Types, JobOK,
       Pair, Publishing, Unpublishing
  <2>6. Jobs'
    BY <1>1, <1>2, <2>1, <2>2, <2>3, <2>4, WantedAssumption DEF Types, JobOK,
       Pair, Publishing, Unpublishing
  <2>7. Exclusion'
    BY <1>1, <1>2, <2>1, <2>2, <2>3, <2>4 DEF Exclusion, Publishing,
       Unpublishing
  <2>8. Progress'
    BY <1>1, <1>2, <2>1, <2>2, <2>3, <2>4 DEF Progress, Exclusion, Types, JobOK,
       Pair, Publishing, Unpublishing
  <2>9. CacheHasNode'
    BY <1>1, <1>2, <2>1, <2>2, <2>3, <2>4 DEF CacheHasNode, Types
  <2>10. Accounted'
    BY <1>1, <1>2, <2>1, <2>2, <2>3, <2>4 DEF Accounted, InProgress, Publishing,
       Unpublishing, Pair, Known
  <2>11. Promised'
    BY <1>1, <1>2, <2>1, <2>2, <2>3, <2>4, WantedAssumption DEF Promised, Types,
       JobOK, Pair
  <2>12. AccessFollowsAnswers'
    BY <1>1, <1>2, <2>1, <2>2, <2>3, <2>4 DEF AccessFollowsAnswers, Promised,
       Progress, Types, JobOK, Pair, Publishing, Unpublishing
  <2>13. NodeKept'
    BY <1>1, <1>2, <2>1, <2>2, <2>3, <2>4 DEF NodeKept, Types
  <2>14. NotPresent' /\ RegisteredKept'
    <3>1. \A m \in Node : Marked(m) <=> node[m] # None /\ node[m].deleted
      BY MarkedRecord DEF Marked, Types
    <3>2. \A m \in Node : Marked(m)' <=> node'[m] # None /\ node'[m].deleted
      BY MarkedRecord, <2>3 DEF Marked
    <3>3. QED
      BY <1>1, <2>1, <2>2, <2>3, <3>1, <3>2 DEF NotPresent, RegisteredKept, Types
  <2>15. Unsafe'
    BY <1>1, <1>2, <2>1, <2>2, <2>3, <2>4 DEF Unsafe, Types, Publishing
  <2>16. PolicyFollowsNodes'
    BY <1>1, <1>2, <2>1, <2>2, <2>3, <2>4 DEF PolicyFollowsNodes, Types, At
  <2>17. Orderly'
    BY <1>1, <1>2, <2>1, <2>2, <2>3, <2>4 DEF Orderly, Doing, Pair
  <2>18. MarkedSwept'
    BY <1>1, <1>2, <2>1, <2>2, <2>3, <2>4 DEF MarkedSwept
  <2>19. QED
    BY <2>5, <2>6, <2>7, <2>8, <2>9, <2>10, <2>11, <2>12, <2>13, <2>14, <2>15, <2>16, <2>17, <2>18
<1>4. CASE Ended(w) /\ mishap' = TRUE /\ UNCHANGED <<node, present, swept, promise>>
  BY <1>1, <1>4, GivesUp DEF Types
<1>5. QED
  BY <1>3, <1>4, EndsMoves DEF AddNode, Ends, Works, Fails

(* UpdateNode, and the update that ControllerUnpublishVolume begins with.  *)
LEMMA UpdateNodeStep ==
  ASSUME IInv, NEW w \in Client, UpdateNode(w)
  PROVE  IInv'
<1> USE DEF IInv, Jobs, Becomes, Moved, Ended
<1> DEFINE n == job[w].node
<1>1. /\ job[w].pc = "state" /\ job[w].op \in {"unpublish", "update"} /\ n \in Node /\ phase = "up"
      /\ UNCHANGED <<record, cache, access, policy, upToDate, phase, leaked, present, swept, stray>>
  BY DEF UpdateNode, At, JobOK, Types, backend, nodeHistory
<1>2. \A u \in Client : job[u].pc \in Publishing \cup Unpublishing => job[u].node # n
  BY WriteAlone DEF UpdateNode
<1>3. /\ \/ Ended(w)
         \/ job[w].op = "unpublish" /\ Moved(w, "unlock")
      /\ UNCHANGED promise
  <2>1. \/ Ends(w)
        \/ job[w].op = "unpublish" /\ Goto(w, "unlock") /\ UNCHANGED promise
    BY DEF UpdateNode
  <2>2. QED
    BY <2>1, GotoMoves, EndsMoves DEF Ends, PC
<1>4. CASE /\ UNCHANGED <<node, unsafe>> /\ (mishap' = TRUE \/ UNCHANGED mishap)
  <2>1. Types'
    BY <1>1, <1>3, <1>4, WantedAssumption DEF Types, JobOK, Pair, Publishing,
       Unpublishing
  <2>2. Jobs'
    BY <1>1, <1>3, <1>4, WantedAssumption DEF Types, JobOK, Pair, Publishing,
       Unpublishing
  <2>3. Exclusion'
    BY <1>1, <1>3, <1>4 DEF Exclusion, Publishing, Unpublishing
  <2>4. Progress'
    BY <1>1, <1>3, <1>4 DEF Progress, Exclusion, Types, JobOK, Pair, Publishing,
       Unpublishing
  <2>5. CacheHasNode'
    BY <1>1, <1>3, <1>4 DEF CacheHasNode, Types
  <2>6. Accounted'
    BY <1>1, <1>3, <1>4 DEF Accounted, InProgress, Publishing, Unpublishing,
       Pair, Known
  <2>7. Promised'
    BY <1>1, <1>3, <1>4, WantedAssumption DEF Promised, Types, JobOK, Pair
  <2>8. AccessFollowsAnswers'
    BY <1>1, <1>3, <1>4 DEF AccessFollowsAnswers, Promised, Progress, Types,
       JobOK, Pair, Publishing, Unpublishing
  <2>9. NodeKept'
    BY <1>1, <1>3, <1>4 DEF NodeKept, Types
  <2>10. NotPresent' /\ RegisteredKept'
    BY <1>1, <1>3, <1>4 DEF NotPresent, RegisteredKept, Marked, Types
  <2>11. Unsafe'
    BY <1>1, <1>3, <1>4 DEF Unsafe, Types, Publishing
  <2>12. PolicyFollowsNodes'
    BY <1>1, <1>3, <1>4 DEF PolicyFollowsNodes, Types, At
  <2>13. Orderly'
    BY <1>1, <1>3, <1>4 DEF Orderly, Doing, Pair
  <2>14. MarkedSwept'
    BY <1>1, <1>3, <1>4 DEF MarkedSwept
  <2>15. QED
    BY <2>1, <2>2, <2>3, <2>4, <2>5, <2>6, <2>7, <2>8, <2>9, <2>10, <2>11, <2>12, <2>13, <2>14
<1>5. CASE /\ node[n] # None /\ UNCHANGED mishap
           /\ \E s \in NextState(node[n].state) :
                /\ node' = [node EXCEPT ![n].state = s]
                /\ unsafe' = CASE s = "dirty" -> unsafe \cup {n}
                               [] s = "clean" -> unsafe \ {n}
                               [] OTHER -> unsafe
  <2>1. PICK s \in State :
          /\ node' = [node EXCEPT ![n].state = s]
          /\ s = "dirty" => unsafe' = unsafe \cup {n}
          /\ s = "clean" => unsafe' = unsafe \ {n}
          /\ s = "cleanable" => unsafe' = unsafe
    <3>1. node[n].state \in State
      BY <1>1, <1>5 DEF Types
    <3>2. NextState(node[n].state) \subseteq State
      BY <3>1 DEF NextState, State
    <3>3. QED
      BY <1>5, <3>2
  <2>2. NodeBecomes(n, s, node[n].deleted)
    <3>1. ASSUME NEW o \in [state : State, deleted : BOOLEAN]
          PROVE  LET r == [o EXCEPT !.state = s]
                 IN  /\ r \in [state : State, deleted : BOOLEAN]
                     /\ r.state = s /\ r.deleted = o.deleted
      OBVIOUS
    <3> DEFINE r == [node[n] EXCEPT !.state = s]
    <3>2. r \in [state : State, deleted : BOOLEAN] /\ r.state = s
          /\ r.deleted = node[n].deleted
      BY <1>1, <1>5, <3>1 DEF Types
    <3>3. node' = [node EXCEPT ![n] = r]
      BY <2>1
    <3> HIDE DEF n, r
    <3>4. QED
      BY <1>1, <3>2, <3>3, NodeUpdate
  <2>3. node[n] # None /\ UNCHANGED mishap
    BY <1>5
  <2>4. \A p \in Wanted : p[2] \in Node
    BY WantedAssumption
  <2> USE DEF NodeBecomes
  <2>5. Types'
    BY <1>1, <1>2, <1>3, <2>1, <2>2, <2>3, <2>4, WantedAssumption DEF Types,
       JobOK, Pair, Publishing, Unpublishing, State
  <2>6. Jobs'
    BY <1>1, <1>2, <1>3, <2>1, <2>2, <2>3, <2>4 DEF JobOK, Pair, Publishing,
       Unpublishing
  <2>7. Exclusion'
    BY <1>1, <1>2, <1>3, <2>1, <2>2, <2>3, <2>4 DEF Exclusion, Publishing,
       Unpublishing
  <2>8. Progress'
    BY <1>1, <1>2, <1>3, <2>1, <2>2, <2>3, <2>4 DEF Progress, Exclusion, Types,
       JobOK, Pair, Publishing, Unpublishing
  <2>9. CacheHasNode'
    BY <1>1, <1>2, <1>3, <2>1, <2>2, <2>3, <2>4 DEF CacheHasNode, Types
  <2>10. Accounted'
    BY <1>1, <1>2, <1>3, <2>1, <2>2, <2>3, <2>4 DEF Accounted, InProgress,
       Publishing, Unpublishing, Pair, Known
  <2>11. Promised'
    BY <1>1, <1>2, <1>3, <2>1, <2>2, <2>3, <2>4, WantedAssumption DEF Promised,
       Types, JobOK, Pair
  <2>12. AccessFollowsAnswers'
    BY <1>1, <1>2, <1>3, <2>1, <2>2, <2>3, <2>4 DEF AccessFollowsAnswers,
       Promised, Progress, Types, JobOK, Pair, Publishing, Unpublishing
  <2>13. NodeKept'
    BY <1>1, <1>2, <1>3, <2>1, <2>2, <2>3, <2>4 DEF NodeKept, Types
  <2>14. NotPresent' /\ RegisteredKept'
    <3>1. \A m \in Node : Marked(m) <=> node[m] # None /\ node[m].deleted
      BY MarkedRecord DEF Marked, Types
    <3>2. \A m \in Node : Marked(m)' <=> node'[m] # None /\ node'[m].deleted
      BY MarkedRecord, <2>2 DEF Marked
    <3>3. QED
      BY <1>1, <1>3, <2>2, <2>3, <3>1, <3>2 DEF NotPresent, RegisteredKept, Types
  <2>15. Unsafe'
    BY <1>1, <1>2, <1>3, <2>1, <2>2, <2>3, <2>4 DEF Unsafe, Types, Publishing,
       State
  <2>16. PolicyFollowsNodes'
    BY <1>1, <1>2, <1>3, <2>1, <2>2, <2>3, <2>4 DEF PolicyFollowsNodes, Types,
       At
  <2>17. Orderly'
    BY <1>1, <1>2, <1>3, <2>1, <2>2, <2>3, <2>4 DEF Orderly, Doing, Pair
  <2>18. MarkedSwept'
    BY <1>1, <1>2, <1>3, <2>1, <2>2, <2>3, <2>4 DEF MarkedSwept
  <2>19. QED
    BY <2>5, <2>6, <2>7, <2>8, <2>9, <2>10, <2>11, <2>12, <2>13, <2>14, <2>15, <2>16, <2>17, <2>18
<1>6. QED
  BY <1>4, <1>5 DEF UpdateNode, Works, Fails

(* DeleteNode: not found, marked, deleted or failed.                       *)
LEMMA DeleteNodeStep ==
  ASSUME IInv, NEW w \in Client, DeleteNode(w)
  PROVE  IInv'
<1> USE DEF IInv, Jobs, Becomes, Moved, Ended
<1> DEFINE n == job[w].node
<1>1. /\ job[w].pc = "delete" /\ job[w].op = "delete" /\ n \in Node /\ phase = "up"
      /\ UNCHANGED <<record, cache, access, policy, upToDate, phase, present, swept, stray>>
  BY DEF DeleteNode, At, JobOK, Types, backend, nodeHistory
<1>2. \A u \in Client : job[u].pc \in Publishing \cup Unpublishing => job[u].node # n
  BY WriteAlone DEF DeleteNode
<1>3. n \notin present
  BY <1>1 DEF NotPresent
<1>4. CASE /\ Ended(w) /\ UNCHANGED <<node, unsafe, promise>>
           /\ leaked' \in {leaked, leaked \cup {n}}
           /\ mishap' = TRUE \/ UNCHANGED mishap
  BY <1>1, <1>4, GivesUp DEF Types
<1>5. CASE /\ Ended(w) /\ UNCHANGED <<leaked, unsafe, promise, mishap>>
           /\ node[n] # None /\ On(n) # {}
           /\ node' = [node EXCEPT ![n].deleted = TRUE]
  <2>1. NodeBecomes(n, node[n].state, TRUE)
    <3>1. ASSUME NEW o \in [state : State, deleted : BOOLEAN]
          PROVE  LET r == [o EXCEPT !.deleted = TRUE]
                 IN  /\ r \in [state : State, deleted : BOOLEAN]
                     /\ r.state = o.state /\ r.deleted = TRUE
      OBVIOUS
    <3> DEFINE r == [node[n] EXCEPT !.deleted = TRUE]
    <3>2. r \in [state : State, deleted : BOOLEAN] /\ r.state = node[n].state
          /\ r.deleted = TRUE
      BY <1>1, <1>5, <3>1 DEF Types
    <3>3. node' = [node EXCEPT ![n] = r]
      BY <1>5
    <3> HIDE DEF n, r
    <3>4. QED
      BY <1>1, <3>2, <3>3, NodeUpdate
  <2>2. /\ Ended(w) /\ UNCHANGED <<leaked, unsafe, promise, mishap>> /\ node[n] # None
        /\ \E p \in cache : p[2] = n
    BY <1>5 DEF On
  <2>3. \A p \in Wanted : p[2] \in Node
    BY WantedAssumption
  <2> USE DEF NodeBecomes
  <2>4. Types'
    BY <1>1, <1>2, <1>3, <2>1, <2>2, <2>3, WantedAssumption DEF Types, JobOK,
       Pair, Publishing, Unpublishing
  <2>5. Jobs'
    BY <1>1, <1>2, <1>3, <2>1, <2>2, <2>3, WantedAssumption DEF Types, JobOK,
       Pair, Publishing, Unpublishing
  <2>6. Exclusion'
    BY <1>1, <1>2, <1>3, <2>1, <2>2, <2>3 DEF Exclusion, Publishing,
       Unpublishing
  <2>7. Progress'
    BY <1>1, <1>2, <1>3, <2>1, <2>2, <2>3 DEF Progress, Exclusion, Types, JobOK,
       Pair, Publishing, Unpublishing
  <2>8. CacheHasNode'
    BY <1>1, <1>2, <1>3, <2>1, <2>2, <2>3 DEF CacheHasNode, Types
  <2>9. Accounted'
    BY <1>1, <1>2, <1>3, <2>1, <2>2, <2>3 DEF Accounted, InProgress, Publishing,
       Unpublishing, Pair, Known
  <2>10. Promised'
    BY <1>1, <1>2, <1>3, <2>1, <2>2, <2>3, WantedAssumption DEF Promised, Types,
       JobOK, Pair
  <2>11. AccessFollowsAnswers'
    BY <1>1, <1>2, <1>3, <2>1, <2>2, <2>3 DEF AccessFollowsAnswers, Promised,
       Progress, Types, JobOK, Pair, Publishing, Unpublishing
  <2>12. NodeKept'
    BY <1>1, <1>2, <1>3, <2>1, <2>2, <2>3 DEF NodeKept, Types
  <2>13. NotPresent' /\ RegisteredKept'
    <3>1. \A m \in Node : Marked(m) <=> node[m] # None /\ node[m].deleted
      BY MarkedRecord DEF Marked, Types
    <3>2. \A m \in Node : Marked(m)' <=> node'[m] # None /\ node'[m].deleted
      BY MarkedRecord, <2>1 DEF Marked
    <3>3. QED
      BY <1>1, <1>3, <2>1, <2>2, <3>1, <3>2 DEF NotPresent, RegisteredKept, Types
  <2>14. Unsafe'
    BY <1>1, <1>2, <1>3, <2>1, <2>2, <2>3 DEF Unsafe, Types, Publishing
  <2>15. PolicyFollowsNodes'
    BY <1>1, <1>2, <1>3, <2>1, <2>2, <2>3 DEF PolicyFollowsNodes, Types, At
  <2>16. Orderly'
    BY <1>1, <1>2, <1>3, <2>1, <2>2, <2>3 DEF Orderly, Doing, Pair
  <2>17. MarkedSwept'
    BY <1>1, <1>2, <1>3, <2>1, <2>2, <2>3 DEF MarkedSwept
  <2>18. QED
    BY <2>4, <2>5, <2>6, <2>7, <2>8, <2>9, <2>10, <2>11, <2>12, <2>13, <2>14, <2>15, <2>16, <2>17
<1>6. CASE /\ Goto(w, "invalidate") /\ UNCHANGED <<leaked, promise, mishap>>
           /\ On(n) = {} /\ unsafe' = unsafe \ {n}
           /\ node' = [node EXCEPT ![n] = None]
  <2>1. NodeGone(n)
    BY <1>1, <1>6, NodeDeleted
  <2>2. \A p \in cache : p[2] \in Node /\ p[2] # n
    BY <1>6, WantedAssumption DEF On, Types
  <2>3. Moved(w, "invalidate")
    BY <1>6, GotoMoves DEF PC
  <2>4. UNCHANGED <<leaked, promise, mishap>> /\ unsafe' = unsafe \ {n}
    BY <1>6
  <2> USE DEF NodeGone
  <2>5. Types'
    BY <1>1, <1>2, <1>3, <2>1, <2>2, <2>3, <2>4, WantedAssumption DEF Types,
       JobOK, Pair, Publishing, Unpublishing
  <2>6. Jobs'
    BY <1>1, <1>2, <1>3, <2>1, <2>2, <2>3, <2>4, WantedAssumption DEF Types,
       JobOK, Pair, Publishing, Unpublishing
  <2>7. Exclusion'
    BY <1>1, <1>2, <1>3, <2>1, <2>2, <2>3, <2>4 DEF Exclusion, Publishing,
       Unpublishing
  <2>8. Progress'
    BY <1>1, <1>2, <1>3, <2>1, <2>2, <2>3, <2>4 DEF Progress, Exclusion, Types,
       JobOK, Pair, Publishing, Unpublishing
  <2>9. CacheHasNode'
    BY <1>1, <1>2, <1>3, <2>1, <2>2, <2>3, <2>4 DEF CacheHasNode, Types
  <2>10. Accounted'
    BY <1>1, <1>2, <1>3, <2>1, <2>2, <2>3, <2>4 DEF Accounted, InProgress,
       Publishing, Unpublishing, Pair, Known
  <2>11. Promised'
    BY <1>1, <1>2, <1>3, <2>1, <2>2, <2>3, <2>4, WantedAssumption DEF Promised,
       Types, JobOK, Pair
  <2>12. AccessFollowsAnswers'
    BY <1>1, <1>2, <1>3, <2>1, <2>2, <2>3, <2>4 DEF AccessFollowsAnswers,
       Promised, Progress, Types, JobOK, Pair, Publishing, Unpublishing
  <2>13. NodeKept'
    BY <1>1, <1>2, <1>3, <2>1, <2>2, <2>3, <2>4 DEF NodeKept, Types,
       AccessFollowsAnswers
  <2>14. NotPresent' /\ RegisteredKept'
    BY <1>1, <1>2, <1>3, <2>1, <2>2, <2>3, <2>4 DEF NotPresent, RegisteredKept,
       Marked, Types
  <2>15. Unsafe'
    BY <1>1, <1>2, <1>3, <2>1, <2>2, <2>3, <2>4 DEF Unsafe, Types, Publishing
  <2>16. PolicyFollowsNodes'
    BY <1>1, <1>2, <1>3, <2>1, <2>2, <2>3, <2>4 DEF PolicyFollowsNodes, Types,
       At
  <2>17. Orderly'
    BY <1>1, <1>2, <1>3, <2>1, <2>2, <2>3, <2>4 DEF Orderly, Doing, Pair
  <2>18. MarkedSwept'
    BY <1>1, <1>2, <1>3, <2>1, <2>2, <2>3, <2>4 DEF MarkedSwept
  <2>19. QED
    BY <2>5, <2>6, <2>7, <2>8, <2>9, <2>10, <2>11, <2>12, <2>13, <2>14, <2>15, <2>16, <2>17, <2>18
<1>7. QED
  BY <1>4, <1>5, <1>6, EndsMoves DEF DeleteNode, Ends, Works, Fails

(* A crash or a panic makes stray what was half-made.                      *)
LEMMA StopsStep ==
  ASSUME IInv, Stops, phase = "up"
  PROVE  IInv'
<1> USE DEF IInv, Jobs
<1>1. /\ job' \in [Client -> Job]
      /\ \A w \in Client : /\ job'[w].pc = "idle" /\ job'[w].op = "none"
                            /\ job'[w].vol = None /\ job'[w].node = None
  BY IdleFields DEF Stops
<1>2. /\ phase' = "down" /\ mishap' = TRUE /\ leaked' = {} /\ cache' = {} /\ upToDate' = FALSE
      /\ UNCHANGED <<node, record, access, policy, promise, present, unsafe, swept>>
  BY DEF Stops, nodeHistory
<1>3. /\ stray \subseteq stray' /\ stray' \subseteq Wanted
      /\ \A w \in Client : job[w].pc \in {"record", "save"} /\ Pair(w) \notin record
           => Pair(w) \in stray'
  <2>1. stray' = stray \cup {Pair(w) : w \in {u \in Client :
                    /\ job[u].pc \in Publishing
                    /\ Pair(u) \in access /\ ~Known(Pair(u))}}
    BY DEF Stops, At, Publishing
  <2>2. QED
    BY <2>1 DEF Types, Publishing, Known, Progress
<1>4. Types'
  BY <1>1, <1>2, <1>3, WantedAssumption DEF Types, JobOK, Pair, Publishing,
     Unpublishing
<1>5. Jobs'
  BY <1>1, <1>2, <1>3, WantedAssumption DEF Types, JobOK, Pair, Publishing,
     Unpublishing
<1>6. Exclusion'
  BY <1>1, <1>2, <1>3 DEF Exclusion, Publishing, Unpublishing
<1>7. Progress'
  BY <1>1, <1>2, <1>3 DEF Progress, Exclusion, Types, JobOK, Pair, Publishing,
     Unpublishing
<1>8. CacheHasNode'
  BY <1>1, <1>2, <1>3 DEF CacheHasNode, Types
<1>9. Accounted'
  BY <1>1, <1>2, <1>3 DEF Accounted, InProgress, Publishing, Unpublishing, Pair,
     Known
<1>10. Promised'
  BY <1>1, <1>2, <1>3, WantedAssumption DEF Promised, Types, JobOK, Pair
<1>11. AccessFollowsAnswers'
  BY <1>1, <1>2, <1>3 DEF AccessFollowsAnswers, Promised, Progress, Types,
     JobOK, Pair, Publishing, Unpublishing
<1>12. NodeKept'
  BY <1>1, <1>2, <1>3 DEF NodeKept, Types
<1>13. NotPresent' /\ RegisteredKept'
  BY <1>1, <1>2, <1>3 DEF NotPresent, RegisteredKept, Marked, Types
<1>14. Unsafe'
  BY <1>1, <1>2, <1>3 DEF Unsafe, Types, Publishing
<1>15. PolicyFollowsNodes'
  BY <1>1, <1>2, <1>3 DEF PolicyFollowsNodes, Types, At
<1>16. Orderly'
  BY <1>1, <1>2, <1>3 DEF Orderly, Doing, Pair
<1>17. MarkedSwept'
  BY <1>1, <1>2, <1>3 DEF MarkedSwept
<1>18. QED
  BY <1>4, <1>5, <1>6, <1>7, <1>8, <1>9, <1>10, <1>11, <1>12, <1>13, <1>14, <1>15, <1>16, <1>17

(* The reconcile of the access rules: the cache names only nodes that      *)
(* exist.                                                                  *)
LEMMA ReconcileStep ==
  ASSUME IInv, NEW w \in Client, ReconcileNodeAccess(w)
  PROVE  IInv'
<1>1. CASE Stops
  BY <1>1, StopsStep DEF ReconcileNodeAccess
<1>2. CASE /\ upToDate \/ Unknown(cache) = {}
           /\ Reconcile(cache) /\ Ends(w)
           /\ UNCHANGED <<node, record, cache, access, phase, leaked, present, unsafe, stray>>
  <2> USE DEF IInv, Jobs, Becomes, Moved, Ended
  <2>1. Ended(w) /\ UNCHANGED promise
    BY <1>2, EndsMoves DEF Ends
  <2>2. /\ UNCHANGED <<node, record, cache, access, phase, leaked, present, unsafe, stray>>
        /\ mishap' = TRUE \/ UNCHANGED mishap
        /\ \/ UNCHANGED <<policy, upToDate, swept>>
           \/ policy' = {p[2] : p \in cache} /\ upToDate' = TRUE
    BY <1>2 DEF Reconcile, backend, Works, Fails
  <2>3. job[w].pc \in {"idle", "reconcile"} /\ \A p \in Wanted : p[2] \in Node
    BY WantedAssumption DEF ReconcileNodeAccess, At
  <2>4. Types'
    BY <2>1, <2>2, <2>3, WantedAssumption DEF Types, JobOK, Pair, Publishing,
       Unpublishing
  <2>5. Jobs'
    BY <2>1, <2>2, <2>3, WantedAssumption DEF Types, JobOK, Pair, Publishing,
       Unpublishing
  <2>6. Exclusion'
    BY <2>1, <2>2, <2>3 DEF Exclusion, Publishing, Unpublishing
  <2>7. Progress'
    BY <2>1, <2>2, <2>3 DEF Progress, Exclusion, Types, JobOK, Pair, Publishing,
       Unpublishing
  <2>8. CacheHasNode'
    BY <2>1, <2>2, <2>3 DEF CacheHasNode, Types
  <2>9. Accounted'
    BY <2>1, <2>2, <2>3 DEF Accounted, InProgress, Publishing, Unpublishing,
       Pair, Known
  <2>10. Promised'
    BY <2>1, <2>2, <2>3, WantedAssumption DEF Promised, Types, JobOK, Pair
  <2>11. AccessFollowsAnswers'
    BY <2>1, <2>2, <2>3 DEF AccessFollowsAnswers, Promised, Progress, Types,
       JobOK, Pair, Publishing, Unpublishing
  <2>12. NodeKept'
    BY <2>1, <2>2, <2>3 DEF NodeKept, Types
  <2>13. NotPresent' /\ RegisteredKept'
    BY <2>1, <2>2, <2>3 DEF NotPresent, RegisteredKept, Marked, Types
  <2>14. Unsafe'
    BY <2>1, <2>2, <2>3 DEF Unsafe, Types, Publishing
  <2>15. PolicyFollowsNodes'
    <3>1. CASE UNCHANGED <<policy, upToDate, swept>>
      BY <2>1, <2>2, <2>3, <3>1 DEF PolicyFollowsNodes, At
    <3>2. CASE policy' = {p[2] : p \in cache}
      BY <2>2, <3>2 DEF PolicyFollowsNodes, CacheHasNode
    <3>3. QED
      BY <2>2, <3>1, <3>2
  <2>16. Orderly'
    BY <2>1, <2>2, <2>3 DEF Orderly, Doing, Pair
  <2>17. MarkedSwept'
    BY <2>1, <2>2, <2>3 DEF MarkedSwept
  <2>18. QED
    BY <2>4, <2>5, <2>6, <2>7, <2>8, <2>9, <2>10, <2>11, <2>12, <2>13, <2>14, <2>15, <2>16, <2>17
<1>3. QED
  BY <1>1, <1>2 DEF ReconcileNodeAccess

(* bootstrapVolumePublications fills the cache from the records.           *)
LEMMA BootstrapStep ==
  ASSUME IInv, Bootstrap
  PROVE  IInv'
<1> USE DEF IInv, Jobs
<1>1. /\ phase = "down" /\ cache = {} /\ \A w \in Client : job[w].pc = "idle" /\ job[w].op = "none"
      /\ UNCHANGED <<node, record, access, job, leaked, promise, present, unsafe, stray>>
      /\ mishap
  BY DEF Bootstrap, JobOK, Orderly
<1>2. CASE UNCHANGED <<phase, cache, policy, upToDate, swept, mishap>>
  <2>1. Types'
    BY <1>1, <1>2, WantedAssumption DEF Types, JobOK, Pair, Publishing,
       Unpublishing
  <2>2. Jobs'
    BY <1>1, <1>2, WantedAssumption DEF Types, JobOK, Pair, Publishing,
       Unpublishing
  <2>3. Exclusion'
    BY <1>1, <1>2 DEF Exclusion, Publishing, Unpublishing
  <2>4. Progress'
    BY <1>1, <1>2 DEF Progress, Exclusion, Types, JobOK, Pair, Publishing,
       Unpublishing
  <2>5. CacheHasNode'
    BY <1>1, <1>2 DEF CacheHasNode, Types
  <2>6. Accounted'
    BY <1>1, <1>2 DEF Accounted, InProgress, Publishing, Unpublishing, Pair,
       Known
  <2>7. Promised'
    BY <1>1, <1>2, WantedAssumption DEF Promised, Types, JobOK, Pair
  <2>8. AccessFollowsAnswers'
    BY <1>1, <1>2 DEF AccessFollowsAnswers, Promised, Progress, Types, JobOK,
       Pair, Publishing, Unpublishing
  <2>9. NodeKept'
    BY <1>1, <1>2 DEF NodeKept, Types
  <2>10. NotPresent' /\ RegisteredKept'
    BY <1>1, <1>2 DEF NotPresent, RegisteredKept, Marked, Types
  <2>11. Unsafe'
    BY <1>1, <1>2 DEF Unsafe, Types, Publishing
  <2>12. PolicyFollowsNodes'
    BY <1>1, <1>2 DEF PolicyFollowsNodes, Types, At
  <2>13. Orderly'
    BY <1>1, <1>2 DEF Orderly, Doing, Pair
  <2>14. MarkedSwept'
    BY <1>1, <1>2 DEF MarkedSwept
  <2>15. QED
    BY <2>1, <2>2, <2>3, <2>4, <2>5, <2>6, <2>7, <2>8, <2>9, <2>10, <2>11, <2>12, <2>13, <2>14
<1>3. CASE /\ phase' = "up" /\ cache' = record /\ Unknown(record) = {}
           /\ Reconcile(record)
  <2>1. \A p \in record : node[p[2]] # None /\ p[2] \in Node
    BY <1>3, WantedAssumption DEF Unknown, Types
  <2>2. /\ phase' = "up" /\ cache' = record /\ mishap'
        /\ \/ UNCHANGED <<policy, upToDate, swept>>
           \/ policy' = {p[2] : p \in record} /\ upToDate' = TRUE
    BY <1>1, <1>3 DEF Reconcile, backend, Works, Fails
  <2>3. Types'
    BY <1>1, <2>1, <2>2, WantedAssumption DEF Types, JobOK, Pair, Publishing,
       Unpublishing
  <2>4. Jobs'
    BY <1>1, <2>1, <2>2, WantedAssumption DEF Types, JobOK, Pair, Publishing,
       Unpublishing
  <2>5. Exclusion'
    BY <1>1, <2>1, <2>2 DEF Exclusion, Publishing, Unpublishing
  <2>6. Progress'
    BY <1>1, <2>1, <2>2 DEF Progress, Exclusion, Types, JobOK, Pair, Publishing,
       Unpublishing
  <2>7. CacheHasNode'
    BY <1>1, <2>1, <2>2 DEF CacheHasNode, Types
  <2>8. Accounted'
    <3>1. \A p \in Wanted : ~InProgress(p) /\ ~InProgress(p)'
      BY <1>1 DEF InProgress
    <3>2. QED
      BY <1>1, <2>2, <3>1 DEF Accounted, Types
  <2>9. Promised'
    BY <1>1, <2>1, <2>2, WantedAssumption DEF Promised, Types, JobOK, Pair
  <2>10. AccessFollowsAnswers'
    BY <1>1, <2>1, <2>2 DEF AccessFollowsAnswers, Promised, Progress, Types,
       JobOK, Pair, Publishing, Unpublishing
  <2>11. NodeKept'
    BY <1>1, <2>1, <2>2 DEF NodeKept, Types
  <2>12. NotPresent' /\ RegisteredKept'
    BY <1>1, <2>1, <2>2 DEF NotPresent, RegisteredKept, Marked, Types
  <2>13. Unsafe'
    BY <1>1, <2>1, <2>2 DEF Unsafe, Types, Publishing
  <2>14. PolicyFollowsNodes'
    <3>1. CASE UNCHANGED <<policy, upToDate, swept>>
      BY <1>1, <3>1 DEF PolicyFollowsNodes, At
    <3>2. CASE policy' = {p[2] : p \in record}
      BY <1>1, <2>1, <3>2 DEF PolicyFollowsNodes
    <3>3. QED
      BY <2>2, <3>1, <3>2
  <2>15. Orderly'
    BY <1>1, <2>1, <2>2 DEF Orderly, Doing, Pair
  <2>16. MarkedSwept'
    BY <1>1, <2>1, <2>2 DEF MarkedSwept
  <2>17. QED
    BY <2>3, <2>4, <2>5, <2>6, <2>7, <2>8, <2>9, <2>10, <2>11, <2>12, <2>13, <2>14, <2>15, <2>16
<1>4. QED
  BY <1>2, <1>3 DEF Bootstrap, backend

-----------------------------------------------------------------------------
(* The invariant is inductive.                                             *)
LEMMA Initially ==
  ASSUME Init
  PROVE  IInv
<1>1. /\ job \in [Client -> Job]
      /\ \A w \in Client : /\ job[w].pc = "idle" /\ job[w].op = "none"
                            /\ job[w].vol = None /\ job[w].node = None
  BY IdleFields DEF Init
<1>2. Types /\ Jobs
  BY <1>1 DEF Init, Types, Jobs, JobOK, Publishing, Unpublishing
<1>3. Exclusion /\ Progress /\ CacheHasNode /\ Accounted
  BY <1>1 DEF Init, Exclusion, Progress, CacheHasNode, Accounted, Publishing, Unpublishing
<1>4. Promised /\ AccessFollowsAnswers /\ NodeKept /\ NotPresent /\ RegisteredKept
  BY <1>1 DEF Init, Promised, AccessFollowsAnswers, NodeKept, NotPresent, RegisteredKept
<1>5. Unsafe /\ PolicyFollowsNodes /\ Orderly /\ MarkedSwept
  BY <1>1 DEF Init, Unsafe, PolicyFollowsNodes, Orderly, MarkedSwept, Publishing
<1>6. QED
  BY <1>2, <1>3, <1>4, <1>5 DEF IInv

LEMMA Inductive ==
  ASSUME IInv, [Next]_vars
  PROVE  IInv'
<1>1. CASE UNCHANGED vars
  <2>1. UNCHANGED <<node, record, cache, access, policy, upToDate, phase, job, leaked, promise,
                    present, unsafe, swept, stray, mishap>>
    BY <1>1 DEF vars, backend, nodeHistory
  <2>2. Types' /\ Jobs' /\ Exclusion'
    BY <2>1 DEF IInv, Types, Jobs, JobOK, Pair, Exclusion
  <2>3. Progress' /\ CacheHasNode' /\ Accounted' /\ Promised'
    BY <2>1 DEF IInv, Progress, CacheHasNode, Accounted, InProgress, Promised, Pair
  <2>4. AccessFollowsAnswers' /\ NodeKept' /\ NotPresent' /\ RegisteredKept' /\ Unsafe'
    BY <2>1 DEF IInv, AccessFollowsAnswers, NodeKept, NotPresent, RegisteredKept, Marked, Unsafe
  <2>5. PolicyFollowsNodes' /\ Orderly' /\ MarkedSwept'
    BY <2>1 DEF IInv, PolicyFollowsNodes, Orderly, MarkedSwept, Doing, At, Pair
  <2>6. QED
    BY <2>2, <2>3, <2>4, <2>5 DEF IInv
<1>2. ASSUME NEW w \in Client, Step(w)
      PROVE  IInv'
  BY <1>2, LockPublishStep, GrantStep, RecordStep, SavePublishStep, LockUnpublishStep, RevokeStep,
     UnrecordStep, SaveUnpublishStep, SweepStep, AddNodeStep, UpdateNodeStep, DeleteNodeStep,
     InvalidateStep, ReconcileStep DEF Step
<1>3. ASSUME NEW w \in Client, Request(w)
      PROVE  IInv'
  <2>1. \A o \in Op, p \in PC :
          NodeRequest(w, o, p) /\ <<o, p>> \in
            {<<"add", "add">>, <<"update", "state">>, <<"delete", "delete">>} => IInv'
    BY NodeRequestStep
  <2>2. {"add", "update", "delete"} \subseteq Op /\ {"add", "state", "delete"} \subseteq PC
    BY DEF Op, PC
  <2>3. QED
    BY <1>3, <2>1, <2>2, PublishStep, UnpublishStep, ReconcileStep DEF Request
<1>4. CASE Crash
  BY <1>4, StopsStep DEF Crash
<1>5. CASE Bootstrap
  BY <1>5, BootstrapStep
<1>6. QED
  BY <1>1, <1>2, <1>3, <1>4, <1>5 DEF Next

(* Every state of every behaviour satisfies the invariant.                 *)
THEOREM Invariance == Spec => []IInv
<1>1. Init => IInv
  BY Initially
<1>2. IInv /\ [Next]_vars => IInv'
  BY Inductive
<1>3. QED
  BY <1>1, <1>2, PTL DEF Spec

(* publishVolume and unpublishVolume keep to the types of the state, and   *)
(* two of them never hold the lock of one volume.                          *)
THEOREM TypeCorrect == Spec => []TypeOK
<1>1. IInv => TypeOK
  <2>1. ASSUME IInv PROVE \A w \in Client : job[w].vol # None => Pair(w) \in Wanted
    BY <2>1 DEF IInv, Jobs, JobOK
  <2>2. ASSUME IInv PROVE \A u, w \in Holders : u # w => job[u].vol # job[w].vol
    BY <2>2 DEF IInv, Exclusion, Holders, At, Publishing, Unpublishing
  <2>3. QED
    BY <2>1, <2>2 DEF IInv, Types, TypeOK
<1>2. QED
  BY <1>1, Invariance, PTL

(* What ControllerPublishVolume and ControllerUnpublishVolume have         *)
(* answered holds, whatever fails and through every restart, for any       *)
(* number of requests, volumes and nodes.                                  *)
THEOREM AnswersKept == Spec => []AccessFollowsAnswers
<1>1. IInv => AccessFollowsAnswers
  BY DEF IInv
<1>2. QED
  BY <1>1, Invariance, PTL

(* A node is never deleted under an acknowledged publication.              *)
THEOREM NodesKept == Spec => []NodeKept
<1>1. IInv => NodeKept
  BY DEF IInv
<1>2. QED
  BY <1>1, Invariance, PTL

(* tryDeleteSoftDeletedNode never deletes a node that has registered       *)
(* again.                                                                  *)
THEOREM RegistrationsKept == Spec => []RegisteredKept
<1>1. IInv => RegisteredKept
  BY DEF IInv
<1>2. QED
  BY <1>1, Invariance, PTL

(* Access rules that count as up to date name no node that DeleteNode has  *)
(* deleted and is done with.                                               *)
THEOREM PolicyKept == Spec => []PolicyFollowsNodes
<1>1. IInv => PolicyFollowsNodes
  BY DEF IInv
<1>2. QED
  BY <1>1, Invariance, PTL

(* Requests that all succeed leave the backend, the records and the cache  *)
(* in agreement, and no marked node behind.                                *)
THEOREM NothingLeft == Spec => []NoneLeft
<1>1. IInv => NoneLeft
  <2>1. SUFFICES ASSUME IInv, ~mishap, \A w \in Client : job[w].pc = "idle"
                 PROVE  /\ access = cache /\ record = cache
                        /\ \A n \in Node : Marked(n) => On(n) # {}
    BY DEF NoneLeft, At
  <2>2. access = cache /\ record = cache
    BY <2>1 DEF IInv, Orderly, Doing
  <2>3. ASSUME NEW n \in Node, Marked(n) PROVE On(n) # {}
    <3>1. node[n] # None /\ node[n].deleted
      BY <2>1, <2>3, MarkedRecord DEF Marked, IInv, Types
    <3>2. QED
      BY <2>1, <3>1 DEF IInv, MarkedSwept, On
  <2>4. QED
    BY <2>2, <2>3
<1>2. QED
  BY <1>1, Invariance, PTL

(* No step of any request grants a dirty node access to a volume or        *)
(* records it, although the node may be made dirty while publishVolume is  *)
(* under way.                                                              *)
THEOREM DirtyNodesGetNothing == Spec => CleanOnly
<1>1. IInv /\ [Next]_vars =>
        [\A p \in (record' \ record) \cup (access' \ access) : p[2] \notin unsafe]_vars
  <2>1. SUFFICES ASSUME IInv, Next, NEW p \in (record' \ record) \cup (access' \ access)
                 PROVE  p[2] \notin unsafe
    OBVIOUS
  <2>2. PICK w \in Client : Grant(w) \/ Record(w)
    BY <2>1 DEF Next, Request, Step, Publish, Unpublish, NodeRequest, ReconcileNodeAccess, Stops,
       Crash, Bootstrap, LockPublish, SavePublish, LockUnpublish, Revoke, Unrecord, SaveUnpublish,
       Sweep, AddNode, UpdateNode, DeleteNode, Invalidate
  <2>3. p = Pair(w) /\ job[w].pc \in Publishing
    BY <2>1, <2>2 DEF Grant, Record, At, Publishing
  <2>4. QED
    BY <2>1, <2>3 DEF IInv, Unsafe, Pair
<1>2. QED
  BY <1>1, Invariance, PTL DEF Spec, CleanOnly
=============================================================================
