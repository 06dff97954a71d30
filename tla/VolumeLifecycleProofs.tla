------------------------ MODULE VolumeLifecycleProofs ------------------------
(* Proofs about VolumeLifecycle for any volumes, backends, pools, clients  *)
(* and faults.                                                             *)
EXTENDS VolumeLifecycle, TLAPS

Early == {"idle", "opCache", "get", "check", "mutex"}
Adds == {"pick", "create", "followup", "persist", "upsert", "cleanup"}
Dels == {"del", "remove", "unpersist", "uncache"}
PC == Early \cup Adds \cup Dels \cup {"oldTxn", "newTxn", "endTxn", "replay", "sweep", "dropTxn"}
Op == {"none", "add", "delete"}
Job == [pc : PC, op : Op, vol : Volume \cup {None}, old : Op, todo : SUBSET Pool,
        left : SUBSET Backend, on : Backend \cup {None}, fresh : BOOLEAN, err : BOOLEAN]

(* The types of everything but the requests.                               *)
Types ==
  /\ store \in [Volume -> Backend \cup {None}]
  /\ txn \in [Volume -> Op]
  /\ placed \subseteq Volume \X Backend
  /\ leftover \subseteq placed
  /\ cache \in [Volume -> Backend \cup {None}]
  /\ online \subseteq Backend
  /\ phase \in {"down", "txns", "up", "failed"}
  /\ queue \subseteq Volume
  /\ mutex \in [Volume -> Worker \cup {None}]
  /\ opCache \subseteq Volume
  /\ promise \in [Volume -> {"none", "acked", "doomed"}]

(* Where the steps of a request are, and what it replays.                  *)
JobOK(w) ==
  /\ job[w].pc # "idle" => job[w].vol \in Volume
  /\ job[w].op = "none" <=> w = boot \/ job[w].pc = "idle"
  /\ job[w].pc \in {"opCache", "get", "check"} \cup Adds => job[w].op = "add"
  /\ job[w].pc \in {"mutex", "oldTxn", "newTxn", "endTxn"} => w # boot
  /\ job[w].pc \in Early \cup Adds \cup {"oldTxn", "newTxn", "endTxn"} => job[w].old = "none"
  /\ job[w].pc \in {"replay", "sweep", "dropTxn"} => job[w].old # "none"
  /\ job[w].pc = "sweep" => job[w].old = "add"
  /\ job[w].pc \in Dels => job[w].old # "none" \/ job[w].op = "delete"
  /\ job[w].pc \in {"create", "followup", "persist", "upsert", "cleanup",
                    "remove", "unpersist", "uncache"} => job[w].on \in Backend
  /\ job[w].err => job[w].pc \in {"cleanup", "endTxn"}
  /\ job[w].pc = "cleanup" => job[w].err

(* A request past its log has its transaction in the store.                *)
LoggedOK(w) ==
  /\ job[w].old # "none" => txn[job[w].vol] = job[w].old
  /\ job[w].pc = "newTxn" => txn[job[w].vol] = "none"
  /\ job[w].pc \in Adds \cup Dels \cup {"endTxn"} /\ job[w].old = "none"
       => txn[job[w].vol] = job[w].op

(* What a request has done to its volume so far is still so.               *)
DoneOK(w) ==
  LET v == job[w].vol  here == <<job[w].vol, job[w].on>> IN
  /\ job[w].pc \in {"followup", "persist", "upsert"} => here \in placed
  /\ job[w].pc = "followup" /\ job[w].fresh => here \notin leftover
  /\ job[w].pc = "upsert" => store[v] = job[w].on
  /\ job[w].pc = "endTxn" /\ job[w].op = "add" /\ ~job[w].err =>
       /\ job[w].on \in Backend /\ here \in placed
       /\ store[v] = job[w].on /\ cache[v] = job[w].on
  /\ job[w].pc \in {"remove", "unpersist", "uncache"} => cache[v] = job[w].on
  /\ job[w].pc \in {"unpersist", "uncache"} => here \notin placed
  /\ job[w].pc = "uncache" => store[v] = None
  /\ job[w].pc = "sweep" => cache[v] = None
  /\ job[w].pc = "dropTxn" /\ job[w].old = "add" => cache[v] = None
  /\ job[w].pc = "endTxn" /\ job[w].op = "delete" /\ ~job[w].err => cache[v] = None

(* Nobody relies on a volume whose deletion was requested.                 *)
AskedOK(w) == job[w].op = "delete" => w \in Deleter /\ promise[job[w].vol] # "acked"

WorkerOK(w) == JobOK(w) /\ LoggedOK(w) /\ DoneOK(w) /\ AskedOK(w)

(* A record that the cache does not show is about to be cached.            *)
RecordOK(v) ==
  phase # "down" => \/ store[v] \in {None, cache[v]}
                    \/ \E w \in Worker : job[w].pc = "upsert" /\ job[w].vol = v

(* Requests run in a process that is up, the bootstrap's replays before.   *)
Phases ==
  /\ \A w \in Client : job[w].pc # "idle" => phase = "up"
  /\ job[boot].pc # "idle" => phase = "txns"
  /\ phase = "txns" =>
       \A v \in Volume : txn[v] # "none" =>
         v \in queue \/ (job[boot].pc # "idle" /\ job[boot].vol = v)
  /\ phase = "txns" =>
       \A v \in queue : txn[v] # "none" /\ (job[boot].pc # "idle" => job[boot].vol # v)

(* txnMutex has one owner, which works on its volume.                      *)
Owners ==
  /\ \A w \in Worker : job[w].pc \notin Early => mutex[job[w].vol] = w
  /\ \A v \in Volume : mutex[v] # None =>
       job[mutex[v]].vol = v /\ job[mutex[v]].pc \notin Early

Online == "offline" \notin Fault => online = Backend

IInv ==
  /\ Types /\ job \in [Worker -> Job]
  /\ \A w \in Worker : WorkerOK(w)
  /\ \A v \in Volume : RecordOK(v)
  /\ Phases /\ Owners /\ Online

-----------------------------------------------------------------------------
(* What the external-provisioner sees to, and the opCache alone does not:  *)
(* no two requests create the same volume at once.                         *)
NoTwoCreates ==
  \A u, w \in Worker : u # w /\ job[u].op = "add" /\ job[w].op = "add"
                       => job[u].vol # job[w].vol

(* Failed calls of the store change nothing.                               *)
Definite == "ambiguous" \notin Fault \/ "store" \notin Fault
(* No backend goes offline.                                                *)
Reachable == "offline" \notin Fault
(* Transactions can be deleted.                                            *)
Droppable == "txn" \notin Fault

(* A volume that is being created is not in the cache.                     *)
AbsentOK(w) ==
  job[w].op = "add" /\ job[w].pc \notin {"opCache", "get", "check", "endTxn"}
    => cache[job[w].vol] = None

(* What a request is done with has a record or is a left-over.             *)
Settled(v, except) ==
  \A b \in Backend : <<v, b>> \in placed =>
    b \in except \/ store[v] = b \/ <<v, b>> \in leftover
SettledOK(w) ==
  Reachable =>
    /\ job[w].pc \in {"pick", "upsert", "endTxn", "dropTxn"}
         => Settled(job[w].vol, {})
    /\ job[w].pc \in {"create", "followup", "persist", "cleanup"}
         => Settled(job[w].vol, {job[w].on})
    /\ job[w].pc = "sweep" => Settled(job[w].vol, job[w].left)

WorkerFine(w) == AbsentOK(w) /\ SettledOK(w)

(* Cache and record agree but for the request that changes them.           *)
MatchOK(v) ==
  Definite /\ phase # "down" =>
    \/ cache[v] = store[v]
    \/ \E w \in Worker : job[w].pc \in {"upsert", "uncache"} /\ job[w].vol = v

(* On other backends than the recorded one are only left-overs.            *)
SoleOK(v) ==
  Reachable =>
    \A b \in Backend : <<v, b>> \in placed =>
      /\ store[v] \notin {None, b} => <<v, b>> \in leftover
      /\ phase # "down" /\ cache[v] \notin {None, b} => <<v, b>> \in leftover

TracedOK(v) == Reachable /\ txn[v] # "add" => Settled(v, {})

(* A volume of which no client was told is still being created, or its     *)
(* transaction will be replayed before the next request.                   *)
UntoldOK(v) ==
  Droppable /\ promise[v] = "none" =>
    /\ store[v] # None => txn[v] = "add"
    /\ phase = "txns" /\ cache[v] # None => txn[v] = "add"
    /\ phase = "up" /\ cache[v] # None =>
         \E w \in Client : /\ job[w].pc = "endTxn" /\ job[w].vol = v
                           /\ job[w].op = "add" /\ ~job[w].err

(* A volume that a client relies on has no transaction.                    *)
KeptOK(v) ==
  Droppable /\ promise[v] = "acked" =>
    txn[v] = "none" /\ store[v] # None /\ <<v, store[v]>> \in placed

VolumeFine(v) == MatchOK(v) /\ SoleOK(v) /\ TracedOK(v) /\ UntoldOK(v) /\ KeptOK(v)

AInv ==
  /\ \A w \in Worker : WorkerFine(w)
  /\ \A v \in Volume : VolumeFine(v)

(* A step keeps the first invariant, and the second one if no two requests *)
(* create the same volume.                                                 *)
Single == AInv /\ NoTwoCreates
Keeps == IInv' /\ (Single /\ NoTwoCreates' => AInv')

-----------------------------------------------------------------------------
(* One request takes a step and the others stay where they are.            *)
Becomes(w, p, o, v, t, d, l, b, f, e) ==
  /\ job' \in [Worker -> Job]
  /\ \A u \in Worker : u # w => job'[u] = job[u]
  /\ job'[w].pc = p /\ job'[w].op = o /\ job'[w].vol = v /\ job'[w].old = t
  /\ job'[w].todo = d /\ job'[w].left = l /\ job'[w].on = b
  /\ job'[w].fresh = f /\ job'[w].err = e

Steps(w, p, t, d, l, b, f, e) ==
  Becomes(w, p, job[w].op, job[w].vol, t, d, l, b, f, e)
Moved(w, p) ==
  Steps(w, p, job[w].old, job[w].todo, job[w].left, job[w].on, job[w].fresh, job[w].err)
Ended(w) == Becomes(w, "idle", "none", None, "none", {}, {}, None, FALSE, FALSE)

(* What the updates of a request's record leave in its fields.             *)
LEMMA Update ==
  ASSUME job \in [Worker -> Job], NEW w \in Worker, NEW r \in Job,
         job' = [job EXCEPT ![w] = r]
  PROVE  Becomes(w, r.pc, r.op, r.vol, r.old, r.todo, r.left, r.on, r.fresh, r.err)
  BY DEF Becomes

LEMMA IdleFields ==
  /\ Idle \in Job
  /\ Idle.pc = "idle" /\ Idle.op = "none" /\ Idle.vol = None /\ Idle.old = "none"
  /\ Idle.todo = {} /\ Idle.left = {} /\ Idle.on = None
  /\ Idle.fresh = FALSE /\ Idle.err = FALSE
  BY DEF Idle, Job, PC, Op, Early

LEMMA EndsMoves ==
  ASSUME job \in [Worker -> Job], NEW w \in Worker, job' = [job EXCEPT ![w] = Idle]
  PROVE  Ended(w)
  BY IdleFields, Update DEF Ended

LEMMA GotoMoves ==
  ASSUME job \in [Worker -> Job], NEW w \in Worker, NEW p \in PC,
         job' = [job EXCEPT ![w].pc = p]
  PROVE  Moved(w, p)
<1> DEFINE r == [job[w] EXCEPT !.pc = p]
<1>1. job[w] \in Job
  OBVIOUS
<1>2. /\ r \in Job /\ r.pc = p /\ r.op = job[w].op /\ r.vol = job[w].vol /\ r.old = job[w].old
      /\ r.todo = job[w].todo /\ r.left = job[w].left /\ r.on = job[w].on
      /\ r.fresh = job[w].fresh /\ r.err = job[w].err
  BY <1>1 DEF Job
<1>3. job' = [job EXCEPT ![w] = r]
  OBVIOUS
<1> HIDE DEF r
<1>4. QED
  BY <1>2, <1>3, Update DEF Steps, Moved

LEMMA OldMoves ==
  ASSUME job \in [Worker -> Job], NEW w \in Worker, NEW p \in PC, NEW t \in Op,
         job' = [job EXCEPT ![w].pc = p, ![w].old = t]
  PROVE  Steps(w, p, t, job[w].todo, job[w].left, job[w].on, job[w].fresh,
           job[w].err)
<1> DEFINE r == [job[w] EXCEPT !.pc = p, !.old = t]
<1>1. job[w] \in Job
  OBVIOUS
<1>2. /\ r \in Job /\ r.pc = p /\ r.op = job[w].op /\ r.vol = job[w].vol /\ r.old = t
      /\ r.todo = job[w].todo /\ r.left = job[w].left /\ r.on = job[w].on
      /\ r.fresh = job[w].fresh /\ r.err = job[w].err
  BY <1>1 DEF Job
<1>3. job' = [job EXCEPT ![w] = r]
  OBVIOUS
<1> HIDE DEF r
<1>4. QED
  BY <1>2, <1>3, Update DEF Steps

LEMMA TodoMoves ==
  ASSUME job \in [Worker -> Job], NEW w \in Worker, NEW p \in PC, NEW d \in
         SUBSET Pool,
         job' = [job EXCEPT ![w].pc = p, ![w].todo = d]
  PROVE  Steps(w, p, job[w].old, d, job[w].left, job[w].on, job[w].fresh,
           job[w].err)
<1> DEFINE r == [job[w] EXCEPT !.pc = p, !.todo = d]
<1>1. job[w] \in Job
  OBVIOUS
<1>2. /\ r \in Job /\ r.pc = p /\ r.op = job[w].op /\ r.vol = job[w].vol /\ r.old = job[w].old
      /\ r.todo = d /\ r.left = job[w].left /\ r.on = job[w].on
      /\ r.fresh = job[w].fresh /\ r.err = job[w].err
  BY <1>1 DEF Job
<1>3. job' = [job EXCEPT ![w] = r]
  OBVIOUS
<1> HIDE DEF r
<1>4. QED
  BY <1>2, <1>3, Update DEF Steps

LEMMA SkipMoves ==
  ASSUME job \in [Worker -> Job], NEW w \in Worker, NEW d \in SUBSET Pool,
         job' = [job EXCEPT ![w].todo = d]
  PROVE  Steps(w, job[w].pc, job[w].old, d, job[w].left, job[w].on,
           job[w].fresh, job[w].err)
<1> DEFINE r == [job[w] EXCEPT !.todo = d]
<1>1. job[w] \in Job
  OBVIOUS
<1>2. /\ r \in Job /\ r.pc = job[w].pc /\ r.op = job[w].op /\ r.vol = job[w].vol /\ r.old = job[w].old
      /\ r.todo = d /\ r.left = job[w].left /\ r.on = job[w].on
      /\ r.fresh = job[w].fresh /\ r.err = job[w].err
  BY <1>1 DEF Job
<1>3. job' = [job EXCEPT ![w] = r]
  OBVIOUS
<1> HIDE DEF r
<1>4. QED
  BY <1>2, <1>3, Update DEF Steps

LEMMA PickMoves ==
  ASSUME job \in [Worker -> Job], NEW w \in Worker, NEW p \in PC, NEW d \in
         SUBSET Pool, NEW b \in Backend \cup {None},
         job' = [job EXCEPT ![w].pc = p, ![w].todo = d, ![w].on = b]
  PROVE  Steps(w, p, job[w].old, d, job[w].left, b, job[w].fresh, job[w].err)
<1> DEFINE r == [job[w] EXCEPT !.pc = p, !.todo = d, !.on = b]
<1>1. job[w] \in Job
  OBVIOUS
<1>2. /\ r \in Job /\ r.pc = p /\ r.op = job[w].op /\ r.vol = job[w].vol /\ r.old = job[w].old
      /\ r.todo = d /\ r.left = job[w].left /\ r.on = b
      /\ r.fresh = job[w].fresh /\ r.err = job[w].err
  BY <1>1 DEF Job
<1>3. job' = [job EXCEPT ![w] = r]
  OBVIOUS
<1> HIDE DEF r
<1>4. QED
  BY <1>2, <1>3, Update DEF Steps

LEMMA ErrMoves ==
  ASSUME job \in [Worker -> Job], NEW w \in Worker, NEW p \in PC, NEW e \in
         BOOLEAN,
         job' = [job EXCEPT ![w].pc = p, ![w].err = e]
  PROVE  Steps(w, p, job[w].old, job[w].todo, job[w].left, job[w].on,
           job[w].fresh, e)
<1> DEFINE r == [job[w] EXCEPT !.pc = p, !.err = e]
<1>1. job[w] \in Job
  OBVIOUS
<1>2. /\ r \in Job /\ r.pc = p /\ r.op = job[w].op /\ r.vol = job[w].vol /\ r.old = job[w].old
      /\ r.todo = job[w].todo /\ r.left = job[w].left /\ r.on = job[w].on
      /\ r.fresh = job[w].fresh /\ r.err = e
  BY <1>1 DEF Job
<1>3. job' = [job EXCEPT ![w] = r]
  OBVIOUS
<1> HIDE DEF r
<1>4. QED
  BY <1>2, <1>3, Update DEF Steps

LEMMA OnMoves ==
  ASSUME job \in [Worker -> Job], NEW w \in Worker, NEW p \in PC, NEW b \in
         Backend \cup {None},
         job' = [job EXCEPT ![w].pc = p, ![w].on = b]
  PROVE  Steps(w, p, job[w].old, job[w].todo, job[w].left, b, job[w].fresh,
           job[w].err)
<1> DEFINE r == [job[w] EXCEPT !.pc = p, !.on = b]
<1>1. job[w] \in Job
  OBVIOUS
<1>2. /\ r \in Job /\ r.pc = p /\ r.op = job[w].op /\ r.vol = job[w].vol /\ r.old = job[w].old
      /\ r.todo = job[w].todo /\ r.left = job[w].left /\ r.on = b
      /\ r.fresh = job[w].fresh /\ r.err = job[w].err
  BY <1>1 DEF Job
<1>3. job' = [job EXCEPT ![w] = r]
  OBVIOUS
<1> HIDE DEF r
<1>4. QED
  BY <1>2, <1>3, Update DEF Steps

LEMMA FreshMoves ==
  ASSUME job \in [Worker -> Job], NEW w \in Worker, NEW p \in PC, NEW f \in
         BOOLEAN,
         job' = [job EXCEPT ![w].pc = p, ![w].fresh = f]
  PROVE  Steps(w, p, job[w].old, job[w].todo, job[w].left, job[w].on, f,
           job[w].err)
<1> DEFINE r == [job[w] EXCEPT !.pc = p, !.fresh = f]
<1>1. job[w] \in Job
  OBVIOUS
<1>2. /\ r \in Job /\ r.pc = p /\ r.op = job[w].op /\ r.vol = job[w].vol /\ r.old = job[w].old
      /\ r.todo = job[w].todo /\ r.left = job[w].left /\ r.on = job[w].on
      /\ r.fresh = f /\ r.err = job[w].err
  BY <1>1 DEF Job
<1>3. job' = [job EXCEPT ![w] = r]
  OBVIOUS
<1> HIDE DEF r
<1>4. QED
  BY <1>2, <1>3, Update DEF Steps

LEMMA LeftMoves ==
  ASSUME job \in [Worker -> Job], NEW w \in Worker, NEW p \in PC, NEW l \in
         SUBSET Backend,
         job' = [job EXCEPT ![w].pc = p, ![w].left = l]
  PROVE  Steps(w, p, job[w].old, job[w].todo, l, job[w].on, job[w].fresh,
           job[w].err)
<1> DEFINE r == [job[w] EXCEPT !.pc = p, !.left = l]
<1>1. job[w] \in Job
  OBVIOUS
<1>2. /\ r \in Job /\ r.pc = p /\ r.op = job[w].op /\ r.vol = job[w].vol /\ r.old = job[w].old
      /\ r.todo = job[w].todo /\ r.left = l /\ r.on = job[w].on
      /\ r.fresh = job[w].fresh /\ r.err = job[w].err
  BY <1>1 DEF Job
<1>3. job' = [job EXCEPT ![w] = r]
  OBVIOUS
<1> HIDE DEF r
<1>4. QED
  BY <1>2, <1>3, Update DEF Steps

LEMMA SweepMoves ==
  ASSUME job \in [Worker -> Job], NEW w \in Worker, NEW l \in SUBSET Backend,
         job' = [job EXCEPT ![w].left = l]
  PROVE  Steps(w, job[w].pc, job[w].old, job[w].todo, l, job[w].on,
           job[w].fresh, job[w].err)
<1> DEFINE r == [job[w] EXCEPT !.left = l]
<1>1. job[w] \in Job
  OBVIOUS
<1>2. /\ r \in Job /\ r.pc = job[w].pc /\ r.op = job[w].op /\ r.vol = job[w].vol /\ r.old = job[w].old
      /\ r.todo = job[w].todo /\ r.left = l /\ r.on = job[w].on
      /\ r.fresh = job[w].fresh /\ r.err = job[w].err
  BY <1>1 DEF Job
<1>3. job' = [job EXCEPT ![w] = r]
  OBVIOUS
<1> HIDE DEF r
<1>4. QED
  BY <1>2, <1>3, Update DEF Steps

LEMMA NewTxnMoves ==
  ASSUME job \in [Worker -> Job], NEW w \in Worker, NEW p \in PC, NEW t \in Op,
         NEW b \in Backend \cup {None},
         job' = [job EXCEPT ![w].pc = p, ![w].old = t, ![w].on = b]
  PROVE  Steps(w, p, t, job[w].todo, job[w].left, b, job[w].fresh, job[w].err)
<1> DEFINE r == [job[w] EXCEPT !.pc = p, !.old = t, !.on = b]
<1>1. job[w] \in Job
  OBVIOUS
<1>2. /\ r \in Job /\ r.pc = p /\ r.op = job[w].op /\ r.vol = job[w].vol /\ r.old = t
      /\ r.todo = job[w].todo /\ r.left = job[w].left /\ r.on = b
      /\ r.fresh = job[w].fresh /\ r.err = job[w].err
  BY <1>1 DEF Job
<1>3. job' = [job EXCEPT ![w] = r]
  OBVIOUS
<1> HIDE DEF r
<1>4. QED
  BY <1>2, <1>3, Update DEF Steps

LEMMA RequestMoves ==
  ASSUME job \in [Worker -> Job], NEW w \in Worker, NEW p \in PC, NEW o \in Op, NEW v \in Volume,
         job' = [job EXCEPT ![w] = [Idle EXCEPT !.pc = p, !.op = o, !.vol = v]]
  PROVE  Becomes(w, p, o, v, "none", {}, {}, None, FALSE, FALSE)
<1>1. ASSUME NEW j \in Job
      PROVE  LET r == [j EXCEPT !.pc = p, !.op = o, !.vol = v]
             IN  /\ r \in Job /\ r.pc = p /\ r.op = o /\ r.vol = v /\ r.old = j.old
                 /\ r.todo = j.todo /\ r.left = j.left /\ r.on = j.on
                 /\ r.fresh = j.fresh /\ r.err = j.err
  BY DEF Job
<1> DEFINE r == [Idle EXCEPT !.pc = p, !.op = o, !.vol = v]
<1>2. /\ r \in Job /\ r.pc = p /\ r.op = o /\ r.vol = v /\ r.old = "none"
      /\ r.todo = {} /\ r.left = {} /\ r.on = None
      /\ r.fresh = FALSE /\ r.err = FALSE
  BY <1>1, IdleFields
<1>3. job' = [job EXCEPT ![w] = r]
  OBVIOUS
<1> HIDE DEF r
<1>4. Becomes(w, r.pc, r.op, r.vol, r.old, r.todo, r.left, r.on, r.fresh, r.err)
  BY <1>2, <1>3, Update, Zenon
<1>5. QED
  BY <1>2, <1>4, Zenon

LEMMA ReplayMoves ==
  ASSUME job \in [Worker -> Job], NEW w \in Worker, NEW p \in PC, NEW v \in Volume, NEW t \in Op,
         job' = [job EXCEPT ![w] = [Idle EXCEPT !.pc = p, !.vol = v, !.old = t]]
  PROVE  Becomes(w, p, "none", v, t, {}, {}, None, FALSE, FALSE)
<1>1. ASSUME NEW j \in Job
      PROVE  LET r == [j EXCEPT !.pc = p, !.vol = v, !.old = t]
             IN  /\ r \in Job /\ r.pc = p /\ r.op = j.op /\ r.vol = v /\ r.old = t
                 /\ r.todo = j.todo /\ r.left = j.left /\ r.on = j.on
                 /\ r.fresh = j.fresh /\ r.err = j.err
  BY DEF Job
<1> DEFINE r == [Idle EXCEPT !.pc = p, !.vol = v, !.old = t]
<1>2. /\ r \in Job /\ r.pc = p /\ r.op = "none" /\ r.vol = v /\ r.old = t
      /\ r.todo = {} /\ r.left = {} /\ r.on = None
      /\ r.fresh = FALSE /\ r.err = FALSE
  BY <1>1, IdleFields
<1>3. job' = [job EXCEPT ![w] = r]
  OBVIOUS
<1> HIDE DEF r
<1>4. Becomes(w, r.pc, r.op, r.vol, r.old, r.todo, r.left, r.on, r.fresh, r.err)
  BY <1>2, <1>3, Update, Zenon
<1>5. QED
  BY <1>2, <1>4, Zenon

LEMMA Places ==
  {"idle", "opCache", "get", "check", "mutex", "oldTxn", "newTxn", "endTxn", "pick", "create",
   "followup", "persist", "upsert", "cleanup", "del", "remove", "unpersist", "uncache",
   "replay", "sweep", "dropTxn"} \subseteq PC
  BY DEF PC, Early, Adds, Dels

(* The owner of a txnMutex is alone with its volume.                       *)
LEMMA Alone ==
  ASSUME Owners, NEW w \in Worker, job[w].pc \notin Early
  PROVE  \A u \in Worker : u # w /\ job[u].pc \notin Early => job[u].vol # job[w].vol
  BY DEF Owners

(* The end of a request releases txnMutex.                                 *)
Released(w) ==
  /\ mutex' \in [Volume -> Worker \cup {None}]
  /\ \A v \in Volume : mutex'[v] = IF v = job[w].vol /\ mutex[v] = w THEN None ELSE mutex[v]

(* A step changes nothing but what belongs to the request's volume, and    *)
(* that only under its txnMutex.                                           *)
Others(w) == \A u \in Worker : u # w => job'[u] = job[u]
Confined(w) ==
  /\ Types' /\ UNCHANGED <<online, queue>>
  /\ \A v \in Volume : v # job[w].vol =>
       /\ store'[v] = store[v] /\ txn'[v] = txn[v] /\ cache'[v] = cache[v]
       /\ promise'[v] = promise[v]
       /\ \A b \in Backend : /\ <<v, b>> \in placed' <=> <<v, b>> \in placed
                             /\ <<v, b>> \in leftover' <=> <<v, b>> \in leftover
Guarded(w) ==
  /\ job[w].pc \in Early => UNCHANGED <<store, txn, placed, leftover, cache>>
  /\ job[w].vol \in Volume => cache'[job[w].vol] \in {cache[job[w].vol], None} \/ job[w].op = "add"
  /\ promise'[job[w].vol] = "acked" => promise[job[w].vol] = "acked" \/ ~Deleting(job[w].vol)

(* The other requests are where they were.                                 *)
LEMMA OtherWorkers ==
  ASSUME IInv, NEW w \in Worker, job[w].pc # "idle", Others(w), Confined(w), Guarded(w),
         NEW u \in Worker, u # w
  PROVE  WorkerOK(u)' /\ (Single => WorkerFine(u)')
<1> USE DEF IInv
<1>1. job'[u] = job[u] /\ WorkerOK(u) /\ job[u] \in Job /\ job[w].vol \in Volume
  BY DEF Others, WorkerOK, JobOK
<1>2. JobOK(u)'
  BY <1>1 DEF WorkerOK, JobOK
<1>3. AskedOK(u)'
  <2>1. CASE job[u].vol = job[w].vol
    BY <1>1, <2>1 DEF WorkerOK, AskedOK, Guarded, Deleting, Vol
  <2>2. CASE job[u].vol # job[w].vol
    BY <1>1, <2>2 DEF WorkerOK, AskedOK, JobOK, Confined
  <2>3. QED
    BY <2>1, <2>2
<1>4. CASE job[u].vol = job[w].vol /\ job[w].pc \in Early
  <2>1. UNCHANGED <<store, txn, placed, leftover, cache>>
    BY <1>4 DEF Guarded
  <2>2. LoggedOK(u)' /\ DoneOK(u)'
    BY <1>1, <2>1 DEF WorkerOK, LoggedOK, DoneOK
  <2>3. Single => WorkerFine(u)'
    BY <1>1, <2>1 DEF Single, AInv, WorkerFine, AbsentOK, SettledOK, Settled
  <2>4. QED
    BY <1>2, <1>3, <2>2, <2>3 DEF WorkerOK
<1>5. CASE job[u].vol = job[w].vol /\ job[w].pc \notin Early
  <2>1. job[u].pc \in Early
    BY <1>5, Alone
  <2>2. LoggedOK(u)' /\ DoneOK(u)'
    BY <1>1, <2>1 DEF WorkerOK, JobOK, LoggedOK, DoneOK, Early, Adds, Dels
  <2>3. Single => WorkerFine(u)'
    <3>1. SettledOK(u)'
      BY <1>1, <2>1 DEF SettledOK, Early
    <3>2. Single => AbsentOK(u)'
      BY <1>1, <1>5 DEF Single, AInv, WorkerFine, AbsentOK, NoTwoCreates, Guarded
    <3>3. QED
      BY <3>1, <3>2 DEF WorkerFine
  <2>4. QED
    BY <1>2, <1>3, <2>2, <2>3 DEF WorkerOK
<1>6. CASE job[u].vol # job[w].vol
  <2>1. CASE job[u].pc = "idle"
    <3>1. LoggedOK(u)' /\ DoneOK(u)' /\ WorkerFine(u)'
      BY <1>1, <2>1 DEF WorkerOK, JobOK, LoggedOK, DoneOK, WorkerFine, AbsentOK, SettledOK,
         Early, Adds, Dels
    <3>2. QED
      BY <1>2, <1>3, <3>1 DEF WorkerOK
  <2>2. CASE job[u].pc # "idle"
    <3>1. job[u].vol \in Volume
      BY <1>1, <2>2 DEF WorkerOK, JobOK
    <3> DEFINE v == job[u].vol
    <3>a. /\ store'[v] = store[v] /\ txn'[v] = txn[v] /\ cache'[v] = cache[v]
          /\ \A b \in Backend : /\ <<v, b>> \in placed' <=> <<v, b>> \in placed
                                /\ <<v, b>> \in leftover' <=> <<v, b>> \in leftover
      BY <1>6, <3>1 DEF Confined
    <3>2. LoggedOK(u)'
      BY <1>1, <3>a DEF WorkerOK, LoggedOK
    <3>3. DoneOK(u)'
      BY <1>1, <3>a DEF WorkerOK, JobOK, DoneOK, Adds
    <3>4. Single => AbsentOK(u)'
      BY <1>1, <3>a DEF Single, AInv, WorkerFine, AbsentOK
    <3>5. Single => SettledOK(u)'
      <4>1. \A x : Settled(v, x) => Settled(v, x)' 
        BY <1>1, <3>a DEF Settled
      <4>2. QED
        BY <1>1, <4>1 DEF Single, AInv, WorkerFine, SettledOK, Reachable
    <3>6. QED
      BY <1>2, <1>3, <3>2, <3>3, <3>4, <3>5 DEF WorkerOK, WorkerFine
  <2>3. QED
    BY <2>1, <2>2
<1>7. QED
  BY <1>4, <1>5, <1>6

(* And so are the other volumes.                                           *)
LEMMA OtherVolumes ==
  ASSUME IInv, NEW w \in Worker, job[w].pc # "idle", Others(w), Confined(w),
         phase' \in {phase, "failed"}, NEW v \in Volume, v # job[w].vol
  PROVE  RecordOK(v)' /\ (Single => VolumeFine(v)')
<1> USE DEF IInv
<1>1. /\ phase # "down"
      /\ store'[v] = store[v] /\ txn'[v] = txn[v] /\ cache'[v] = cache[v]
      /\ promise'[v] = promise[v]
      /\ \A b \in Backend : /\ <<v, b>> \in placed' <=> <<v, b>> \in placed
                            /\ <<v, b>> \in leftover' <=> <<v, b>> \in leftover
  BY DEF Confined, Phases, Worker, Client
<1>2. \A u \in Worker : job[u].vol = v => job'[u] = job[u]
  BY DEF Others
<1>3. RecordOK(v)'
  BY <1>1, <1>2 DEF RecordOK
<1>4. Single => MatchOK(v)'
  BY <1>1, <1>2 DEF Single, AInv, VolumeFine, MatchOK
<1>5. Single => SoleOK(v)' /\ TracedOK(v)'
  BY <1>1 DEF Single, AInv, VolumeFine, SoleOK, TracedOK, Settled, Reachable
<1>6. Single => UntoldOK(v)'
  <2>1. SUFFICES ASSUME Single, Droppable, promise[v] = "none"
                 PROVE  UntoldOK(v)'
    BY <1>1 DEF UntoldOK, Droppable
  <2>2. UntoldOK(v)
    BY <2>1 DEF Single, AInv, VolumeFine
  <2>3. ASSUME phase' = "up", cache'[v] # None
        PROVE  \E u \in Client : /\ job'[u].pc = "endTxn" /\ job'[u].vol = v
                                 /\ job'[u].op = "add" /\ ~job'[u].err
    <3>1. PICK u \in Client : /\ job[u].pc = "endTxn" /\ job[u].vol = v
                              /\ job[u].op = "add" /\ ~job[u].err
      BY <1>1, <2>1, <2>2, <2>3 DEF UntoldOK
    <3>2. QED
      BY <1>2, <3>1 DEF Worker
  <2>4. QED
    BY <1>1, <2>1, <2>2, <2>3 DEF UntoldOK
<1>7. Single => KeptOK(v)'
  BY <1>1 DEF Single, AInv, VolumeFine, KeptOK, Types, Droppable
<1>8. QED
  BY <1>3, <1>4, <1>5, <1>6, <1>7 DEF VolumeFine

(* A request works on under its txnMutex.                                  *)
LEMMA WorksOn ==
  ASSUME IInv, NEW w \in Worker, job[w].pc \notin Early, Others(w), job' \in [Worker -> Job],
         job'[w].pc \notin Early, job'[w].vol = job[w].vol, Confined(w), Guarded(w),
         UNCHANGED <<phase, mutex>>, WorkerOK(w)', NEW x, x = job[w].vol,
         RecordOK(x)', Single => WorkerFine(w)' /\ VolumeFine(x)'
  PROVE  Keeps
<1>1. job[w].pc # "idle"
  BY DEF Early
<1>2. \A u \in Worker : WorkerOK(u)' /\ (Single => WorkerFine(u)')
  BY <1>1, OtherWorkers
<1>3. \A v \in Volume : RecordOK(v)' /\ (Single => VolumeFine(v)')
  BY <1>1, OtherVolumes
<1>4. Phases'
  <2>1. \A u \in Worker : job'[u].pc # "idle" => job[u].pc # "idle"
    BY <1>1 DEF Others
  <2>2. ASSUME phase = "txns" PROVE w = boot
    BY <1>1, <2>2 DEF IInv, Phases, Worker
  <2>3. QED
    BY <1>1, <2>1, <2>2 DEF IInv, Types, Phases, Others, Confined, Worker, Early
<1>5. Owners'
  BY DEF IInv, Owners, Others, Types
<1>6. Types' /\ Online'
  BY DEF Confined, IInv, Online
<1>7. QED
  BY <1>2, <1>3, <1>4, <1>5, <1>6 DEF Keeps, IInv, AInv

(* A request or a replay ends.                                             *)
LEMMA Finishes ==
  ASSUME IInv, NEW w \in Worker, job[w].pc # "idle", Ended(w), Released(w),
         Confined(w), Guarded(w), phase' = phase \/ (w = boot /\ phase' = "failed"),
         w = boot /\ phase' = "txns" => txn'[job[w].vol] = "none",
         NEW x, x = job[w].vol, RecordOK(x)', Single => VolumeFine(x)'
  PROVE  Keeps
<1>1. Others(w) /\ job' \in [Worker -> Job]
  BY DEF Ended, Becomes, Others
<1>2. WorkerOK(w)' /\ WorkerFine(w)'
  BY DEF Ended, Becomes, WorkerOK, JobOK, LoggedOK, DoneOK, AskedOK, WorkerFine, AbsentOK,
     SettledOK, Early, Adds, Dels
<1>3. \A u \in Worker : WorkerOK(u)' /\ (Single => WorkerFine(u)')
  BY <1>1, <1>2, OtherWorkers
<1>4. \A v \in Volume : RecordOK(v)' /\ (Single => VolumeFine(v)')
  <2>1. phase' \in {phase, "failed"}
    OBVIOUS
  <2>2. QED
    BY <1>1, <2>1, OtherVolumes
<1>5. Phases'
  BY BootAssumption DEF IInv, Types, Phases, Ended, Becomes, Confined, Worker, Client
<1>6. Owners'
  <2>1. ASSUME NEW u \in Worker, job'[u].pc \notin Early
        PROVE  mutex'[job'[u].vol] = u
    <3>1. u # w /\ job'[u] = job[u] /\ job[u].vol \in Volume /\ mutex[job[u].vol] = u
      BY <2>1 DEF Ended, Becomes, Early, IInv, WorkerOK, JobOK, Owners
    <3>2. QED
      BY <3>1 DEF Released
  <2>2. ASSUME NEW v \in Volume, mutex'[v] # None
        PROVE  job'[mutex'[v]].vol = v /\ job'[mutex'[v]].pc \notin Early
    <3>1. mutex'[v] = mutex[v] /\ mutex[v] \in Worker
      BY <2>2 DEF Released, IInv, Types
    <3>2. mutex[v] # w \/ v # job[w].vol
      BY <2>2 DEF Released
    <3>3. mutex[v] # w
      BY <2>2, <3>1, <3>2 DEF IInv, Owners
    <3>4. QED
      BY <2>2, <3>1, <3>3 DEF IInv, Owners, Ended, Becomes
  <2>3. QED
    BY <2>1, <2>2 DEF Owners
<1>7. Types' /\ Online'
  BY DEF Confined, IInv, Online
<1>8. QED
  BY <1>1, <1>3, <1>4, <1>5, <1>6, <1>7 DEF Keeps, IInv, AInv

(* What the owner of a txnMutex knows of its volume.                       *)
Known(w) ==
  LET v == job[w].vol IN
  /\ v \in Volume /\ phase = (IF w = boot THEN "txns" ELSE "up") /\ WorkerOK(w)
  /\ job[w].pc # "upsert" => store[v] \in {None, cache[v]}
  /\ Single =>
       /\ WorkerFine(w) /\ SoleOK(v) /\ TracedOK(v) /\ KeptOK(v)
       /\ Definite /\ job[w].pc \notin {"upsert", "uncache"} => cache[v] = store[v]
       /\ Droppable /\ promise[v] = "none" =>
            /\ store[v] # None => txn[v] = "add"
            /\ cache[v] # None => \/ w = boot /\ txn[v] = "add"
                                  \/ job[w].pc = "endTxn" /\ job[w].op = "add" /\ ~job[w].err
LEMMA Knows ==
  ASSUME IInv, NEW w \in Worker, job[w].pc \notin Early
  PROVE  Known(w)
<1> DEFINE v == job[w].vol
<1>1. v \in Volume /\ WorkerOK(w) /\ job[w].pc # "idle"
  BY DEF IInv, WorkerOK, JobOK, Early
<1>2. phase = IF w = boot THEN "txns" ELSE "up"
  BY <1>1 DEF IInv, Phases, Worker, Client
<1>3. \A u \in Worker : job[u].vol = v /\ job[u].pc \notin Early => u = w
  BY Alone DEF IInv
<1>4. job[w].pc # "upsert" => store[v] \in {None, cache[v]}
  BY <1>1, <1>2, <1>3 DEF IInv, RecordOK, Early
<1>5. Single => WorkerFine(w) /\ SoleOK(v) /\ TracedOK(v) /\ KeptOK(v)
  BY <1>1 DEF Single, AInv, VolumeFine
<1>6. Single /\ Definite /\ job[w].pc \notin {"upsert", "uncache"} => cache[v] = store[v]
  BY <1>1, <1>2, <1>3 DEF Single, AInv, VolumeFine, MatchOK, Early
<1>7. Single /\ Droppable /\ promise[v] = "none" =>
        /\ store[v] # None => txn[v] = "add"
        /\ cache[v] # None => \/ w = boot /\ txn[v] = "add"
                              \/ job[w].pc = "endTxn" /\ job[w].op = "add" /\ ~job[w].err
  BY <1>1, <1>2, <1>3 DEF Single, AInv, VolumeFine, UntoldOK, Early, Worker
<1>8. QED
  BY <1>1, <1>2, <1>4, <1>5, <1>6, <1>7 DEF Known

(* A step under txnMutex that changes nothing but the request.             *)
LEMMA Walks ==
  ASSUME IInv, NEW w \in Worker, job[w].pc \notin Early \cup {"upsert", "uncache", "endTxn"},
         Others(w), job' \in [Worker -> Job], job'[w].pc \notin Early,
         job'[w].vol = job[w].vol, job'[w].op = job[w].op,
         UNCHANGED <<store, txn, placed, leftover, cache, online, queue, phase, mutex, opCache, promise>>,
         JobOK(w)', LoggedOK(w)', DoneOK(w)', Single => SettledOK(w)'
  PROVE  Keeps
<1>1. Known(w) /\ job[w].pc \notin Early
  BY Knows
<1>2. PICK x \in Volume : x = job[w].vol
  BY <1>1 DEF Known
<1>3. Confined(w) /\ Guarded(w)
  BY DEF IInv, Types, Confined, Guarded
<1>4. AskedOK(w)' /\ RecordOK(x)'
  BY <1>1, <1>2 DEF Known, WorkerOK, AskedOK, RecordOK
<1>5. Single => AbsentOK(w)'
  BY <1>1, <1>2 DEF Known, WorkerFine, AbsentOK, Early
<1>6. Single => MatchOK(x)' /\ SoleOK(x)' /\ TracedOK(x)' /\ KeptOK(x)'
  BY <1>1, <1>2 DEF Known, MatchOK, SoleOK, TracedOK, KeptOK, Settled
<1>7. Single => UntoldOK(x)'
  BY <1>1, <1>2 DEF Known, UntoldOK, Droppable
<1>8. QED
  BY <1>1, <1>2, <1>3, <1>4, <1>5, <1>6, <1>7, WorksOn DEF WorkerOK, WorkerFine, VolumeFine

(* A request fails, or a replay that ends the bootstrap.                   *)
Quits(w) ==
  /\ Ended(w) /\ Released(w) /\ promise' = promise /\ opCache' \subseteq Volume
  /\ phase' = IF w = boot THEN "failed" ELSE phase

LEMMA QuitsReturn ==
  ASSUME IInv, NEW w \in Worker, w # boot, job[w].pc # "idle", Return(w, FALSE)
  PROVE  Quits(w)
<1>1. Ended(w)
  BY EndsMoves DEF Return, IInv
<1>2. job[w].vol \in Volume
  BY DEF IInv, WorkerOK, JobOK
<1>3. Released(w)
  BY <1>2 DEF Return, Released, IInv, Types, Vol
<1>4. promise' = promise
  BY <1>2 DEF Return, IInv, Types, Vol
<1>5. opCache' \subseteq Volume /\ phase' = phase
  BY DEF Return, IInv, Types
<1>6. QED
  BY <1>1, <1>3, <1>4, <1>5 DEF Quits

LEMMA QuitsReplay ==
  ASSUME IInv, NEW w \in Worker, job[w].pc \notin Early, ReplayFails(w)
  PROVE  Quits(w)
<1>1. job[w].pc # "idle" /\ job[w].vol \in Volume /\ mutex[job[w].vol] = w
  BY DEF Early, IInv, WorkerOK, JobOK, Owners
<1>2. CASE w # boot
  BY <1>1, <1>2, QuitsReturn DEF ReplayFails
<1>3. CASE w = boot
  <2>1. Ended(w)
    BY <1>3, EndsMoves DEF ReplayFails, IInv
  <2>2. Released(w)
    BY <1>1, <1>3 DEF ReplayFails, Released, IInv, Types, Vol
  <2>3. QED
    BY <1>3, <2>1, <2>2 DEF ReplayFails, Quits, IInv, Types
<1>4. QED
  BY <1>2, <1>3

(* Its transaction stays, unless deleting it failed after all.             *)
LEMMA GivesUp ==
  ASSUME IInv, NEW w \in Worker, job[w].pc # "idle", job[w].pc \notin {"upsert", "uncache"},
         Quits(w), UNCHANGED <<placed, leftover, cache, online, queue>>,
         NEW x \in Volume, x = job[w].vol,
         store' \in [Volume -> Backend \cup {None}], txn' \in [Volume -> Op],
         \A v \in Volume : v # x => store'[v] = store[v] /\ txn'[v] = txn[v],
         \/ store'[x] = store[x]
         \/ store'[x] = None /\ job[w].pc = "unpersist" /\ ~Definite,
         \/ txn'[x] = txn[x]
         \/ txn'[x] = job[w].op /\ job[w].pc = "newTxn"
         \/ txn'[x] = "none" /\ job[w].pc \in {"endTxn", "dropTxn"}
              /\ (txn[x] # "add" \/ ~Droppable),
         job[w].pc = "endTxn" => ~Droppable
  PROVE  Keeps
<1>1. WorkerOK(w) /\ phase \in {"up", "txns"} /\ phase' \in {phase, "failed"}
  BY DEF IInv, Phases, Worker, Client, Quits
<1>2. Ended(w) /\ Released(w) /\ promise' = promise
  BY DEF Quits
<1>3. Types'
  BY <1>1, <1>2 DEF IInv, Types, Quits, Released
<1>4. Confined(w)
  BY <1>2, <1>3 DEF Confined
<1>5. Guarded(w)
  <2>1. job[w].pc \in Early => store' = store /\ txn' = txn
    BY DEF IInv, Types, Early
  <2>2. QED
    BY <1>2, <2>1 DEF Guarded
<1>6. CASE job[w].pc \in Early
  <2>1. store'[x] = store[x] /\ txn'[x] = txn[x]
    BY <1>6 DEF Early
  <2>2. RecordOK(x) /\ (Single => VolumeFine(x))
    BY DEF IInv, Single, AInv
  <2>3. \A u \in Worker : job[u].pc \in {"upsert", "uncache", "endTxn"} => job'[u] = job[u]
    BY <1>2, <1>6 DEF Ended, Becomes, Early
  <2>4. RecordOK(x)'
    BY <1>1, <2>1, <2>2, <2>3 DEF RecordOK
  <2>5. Single => MatchOK(x)'
    BY <1>1, <2>1, <2>2, <2>3 DEF MatchOK, VolumeFine
  <2>6. Single => SoleOK(x)' /\ TracedOK(x)' /\ KeptOK(x)'
    BY <1>1, <1>2, <2>1, <2>2 DEF SoleOK, TracedOK, KeptOK, Settled, VolumeFine
  <2>7. Single => UntoldOK(x)'
    BY <1>1, <1>2, <2>1, <2>2, <2>3 DEF UntoldOK, VolumeFine, Worker
  <2>8. QED
    BY <1>2, <1>4, <1>5, <2>4, <2>5, <2>6, <2>7, Finishes DEF VolumeFine, Quits
<1>7. CASE job[w].pc \notin Early
  <2>1. Known(w)
    BY <1>7, Knows
  <2>2. RecordOK(x)'
    BY <2>1 DEF Known, RecordOK
  <2>3. Single => MatchOK(x)'
    BY <2>1 DEF Known, MatchOK, Definite
  <2>4. Single => SoleOK(x)'
    BY <1>1, <2>1 DEF Known, SoleOK, Reachable
  <2>5. Single => TracedOK(x)'
    <3>1. ASSUME Single, Reachable, txn'[x] # "add", NEW b \in Backend, <<x, b>> \in placed
          PROVE  store'[x] = b \/ <<x, b>> \in leftover
      <4>1. store[x] = b \/ <<x, b>> \in leftover
        BY <1>1, <2>1, <3>1 DEF Known, TracedOK, Settled, WorkerOK, LoggedOK, WorkerFine, SettledOK
      <4>2. store'[x] = store[x] \/ store[x] # b
        BY <1>1, <2>1, <3>1, NoneAssumption DEF Known, WorkerOK, DoneOK
      <4>3. QED
        BY <4>1, <4>2
    <3>2. QED
      BY <3>1 DEF TracedOK, Settled, Reachable
  <2>6. Single => UntoldOK(x)'
    BY <1>1, <1>2, <2>1 DEF Known, UntoldOK, Droppable, WorkerOK, LoggedOK, Adds, Dels, Quits
  <2>7. Single => KeptOK(x)'
    <3>1. ASSUME Single, Droppable, promise[x] = "acked"
          PROVE  store'[x] = store[x] /\ txn'[x] = txn[x] /\ store[x] \in Backend
      <4>1. txn[x] = "none" /\ store[x] \in Backend
        BY <2>1, <3>1 DEF Known, KeptOK, IInv, Types
      <4>2. job[w].old = "none" /\ job[w].pc \notin Adds \cup Dels \cup {"endTxn", "dropTxn"}
        BY <1>1, <2>1, <4>1 DEF WorkerOK, LoggedOK, JobOK, Adds, Dels, Known
      <4>3. job[w].pc # "newTxn"
        <5>1. SUFFICES ASSUME job[w].pc = "newTxn" PROVE FALSE
          OBVIOUS
        <5>2. job[w].op \in {"add", "delete"}
          BY <1>1, <5>1 DEF IInv, Job, Op, WorkerOK, JobOK
        <5>3. QED
          BY <1>1, <2>1, <3>1, <4>1, <5>1, <5>2, NoneAssumption
             DEF Known, WorkerOK, AskedOK, WorkerFine, AbsentOK
      <4>4. QED
        BY <4>1, <4>2, <4>3 DEF Dels
    <3>2. QED
      BY <1>2, <2>1, <3>1 DEF Known, KeptOK, Droppable
  <2>8. QED
    BY <1>2, <1>4, <1>5, <2>2, <2>3, <2>4, <2>5, <2>6, <2>7, Finishes DEF VolumeFine, Quits
<1>8. QED
  BY <1>6, <1>7

(* Steps before txnMutex is taken.                                         *)
LEMMA Prepares ==
  ASSUME IInv, NEW w \in Client, phase = "up", job[w].pc \in Early, Others(w),
         job' \in [Worker -> Job], job'[w].pc \in Early,
         UNCHANGED <<store, txn, placed, leftover, cache, online, queue, phase, mutex>>,
         opCache' \subseteq Volume, promise' \in [Volume -> {"none", "acked", "doomed"}],
         \A v \in Volume : promise'[v] = "acked" => promise[v] = "acked",
         \A v \in Volume : promise'[v] = "none" => promise[v] = "none" \/ cache[v] = None,
         JobOK(w)', AskedOK(w)', AbsentOK(w)'
  PROVE  Keeps
<1> USE DEF IInv
<1>1. w \in Worker /\ w # boot
  BY BootAssumption DEF Worker, Client
<1>2. Types' /\ Online'
  BY DEF Types, Online
<1>3. Phases'
  BY <1>1 DEF Phases, Others, Worker
<1>4. Owners'
  <2>1. \A v \in Volume : mutex[v] # w
    BY <1>1, NoneAssumption DEF Owners, Worker, Client
  <2>2. \A u \in Worker : job'[u].pc \notin Early => job[u].pc \notin Early /\ job'[u] = job[u]
    BY DEF Others
  <2>3. QED
    BY <2>1, <2>2 DEF Owners, Others, Types
<1>5. ASSUME NEW u \in Worker, u # w
      PROVE  WorkerOK(u)' /\ (Single => WorkerFine(u)')
  <2>1. job'[u] = job[u] /\ WorkerOK(u) /\ job[u] \in Job
    BY <1>5 DEF Others
  <2>2. AskedOK(u)'
    BY <2>1 DEF WorkerOK, AskedOK, JobOK
  <2>3. JobOK(u)' /\ LoggedOK(u)'
    BY <2>1 DEF WorkerOK, JobOK, LoggedOK
  <2>4. DoneOK(u)'
    BY <2>1 DEF WorkerOK, DoneOK
  <2>5. Single => WorkerFine(u)'
    BY <2>1 DEF Single, AInv, WorkerFine, AbsentOK, SettledOK, Settled
  <2>6. QED
    BY <2>2, <2>3, <2>4, <2>5 DEF WorkerOK
<1>6. WorkerOK(w)' /\ WorkerFine(w)'
  BY DEF WorkerOK, JobOK, LoggedOK, DoneOK, WorkerFine, SettledOK, Early, Adds, Dels
<1>7. \A u \in Worker : job[u].pc \notin Early => job'[u] = job[u]
  BY DEF Others
<1>8. ASSUME NEW v \in Volume
      PROVE  RecordOK(v)' /\ (Single => VolumeFine(v)')
  <2>1. RecordOK(v)'
    BY <1>7 DEF RecordOK, Early
  <2>2. Single => MatchOK(v)'
    BY <1>7 DEF Single, AInv, VolumeFine, MatchOK, Early
  <2>3. Single => SoleOK(v)' /\ TracedOK(v)' /\ KeptOK(v)'
    BY DEF Single, AInv, VolumeFine, SoleOK, TracedOK, KeptOK, Settled
  <2>4. Single => UntoldOK(v)'
    <3>1. SUFFICES ASSUME Single, Droppable, promise'[v] = "none" PROVE UntoldOK(v)'
      BY DEF UntoldOK, Droppable
    <3>2. CASE promise[v] = "none"
      <4>1. UntoldOK(v)
        BY <3>1 DEF Single, AInv, VolumeFine
      <4>2. QED
        BY <1>7, <3>1, <3>2, <4>1 DEF UntoldOK, Early, Worker
    <3>3. CASE cache[v] = None
      <4>1. ASSUME store[v] # None PROVE txn[v] = "add"
        <5>1. PICK u \in Worker : job[u].pc = "upsert" /\ job[u].vol = v
          BY <3>3, <4>1 DEF RecordOK
        <5>2. QED
          BY <5>1 DEF WorkerOK, JobOK, LoggedOK, Adds
      <4>2. QED
        BY <3>3, <4>1 DEF UntoldOK
    <3>4. QED
      BY <3>1, <3>2, <3>3
  <2>5. QED
    BY <2>1, <2>2, <2>3, <2>4 DEF VolumeFine
<1>9. QED
  BY <1>2, <1>3, <1>4, <1>5, <1>6, <1>8 DEF Keeps, AInv

-----------------------------------------------------------------------------
(* Plugin.CreateVolume takes a request; nothing else changes.              *)
LEMMA CreateVolumeKeeps ==
  ASSUME IInv, NEW w \in Creator, CreateVolume(w)
  PROVE  Keeps
<1>1. PICK v \in Volume :
        job' = [job EXCEPT ![w] = [Idle EXCEPT !.pc = "opCache", !.op = "add", !.vol = v]]
  BY DEF CreateVolume
<1>2. w \in Client /\ w \in Worker /\ w # boot /\ job[w].pc = "idle" /\ phase = "up"
  BY BootAssumption DEF CreateVolume, At, Worker, Client
<1>3. Becomes(w, "opCache", "add", v, "none", {}, {}, None, FALSE, FALSE)
  BY <1>1, <1>2, RequestMoves, Places DEF IInv, Op
<1>4. JobOK(w)' /\ AskedOK(w)' /\ AbsentOK(w)'
  BY <1>2, <1>3 DEF Becomes, JobOK, AskedOK, AbsentOK, Early, Adds, Dels
<1>5. QED
  BY <1>2, <1>3, <1>4, Prepares
     DEF CreateVolume, persistent, requests, IInv, Types, Becomes, Others, Early

(* The opCache entry; it excludes nobody, as Load and Store are two calls. *)
LEMMA StoreOpKeeps ==
  ASSUME IInv, NEW w \in Worker, StoreOp(w)
  PROVE  Keeps
<1>1. job[w].pc = "opCache" /\ w # boot /\ w \in Client /\ phase = "up" /\ job[w].op = "add"
      /\ job[w].vol \in Volume /\ JobOK(w)
  BY DEF StoreOp, At, IInv, WorkerOK, JobOK, Phases, Worker, Adds
<1>2. Moved(w, "get")
  BY GotoMoves, Places DEF StoreOp, Goto, IInv
<1>3. JobOK(w)' /\ AskedOK(w)' /\ AbsentOK(w)'
  BY <1>1, <1>2 DEF Moved, Steps, Becomes, JobOK, AskedOK, AbsentOK, Early, Adds, Dels
<1>4. QED
  BY <1>1, <1>2, <1>3, Prepares
     DEF StoreOp, persistent, Vol, IInv, Types, Moved, Steps, Becomes, Others, Early

(* A volume in the cache is acknowledged.  If no two requests create it,   *)
(* its creation was acknowledged before.                                   *)
LEMMA GetVolumeKeeps ==
  ASSUME IInv, NEW w \in Worker, GetVolume(w)
  PROVE  Keeps
<1>1. job[w].pc = "get" /\ w # boot /\ w \in Client /\ phase = "up" /\ job[w].op = "add"
      /\ job[w].vol \in Volume /\ JobOK(w) /\ job[w].pc \in Early /\ job[w].pc # "idle"
  BY DEF GetVolume, At, IInv, WorkerOK, JobOK, Phases, Worker, Adds, Early
<1>2. UNCHANGED <<store, txn, placed, leftover, cache, online, queue>>
  BY DEF GetVolume, persistent
<1>3. CASE cache[job[w].vol] = None
  <2>1. Moved(w, "check") /\ UNCHANGED requests
    BY <1>3, GotoMoves, Places DEF GetVolume, Goto, IInv, Vol
  <2>2. JobOK(w)' /\ AskedOK(w)' /\ AbsentOK(w)'
    BY <1>1, <2>1 DEF Moved, Steps, Becomes, JobOK, AskedOK, AbsentOK, Early, Adds, Dels
  <2>3. QED
    BY <1>1, <1>2, <2>1, <2>2, Prepares
       DEF requests, IInv, Types, Moved, Steps, Becomes, Others, Early
<1>4. CASE cache[job[w].vol] # None
  <2>1. PICK x \in Volume : x = job[w].vol
    BY <1>1
  <2>2. Return(w, TRUE)
    BY <1>4 DEF GetVolume, Vol
  <2>3. Ended(w)
    BY <2>2, EndsMoves DEF Return, IInv
  <2>4. Released(w)
    BY <1>1, <2>2 DEF Return, Released, IInv, Types, Vol
  <2>5. promise' = [promise EXCEPT ![x] =
          IF @ = "none" THEN IF Deleting(x) THEN "doomed" ELSE "acked" ELSE @]
    BY <1>1, <2>1, <2>2 DEF Return, Vol
  <2>6. promise' \in [Volume -> {"none", "acked", "doomed"}]
    BY <2>5 DEF IInv, Types
  <2>7. Confined(w) /\ Guarded(w)
    BY <1>1, <1>2, <2>1, <2>2, <2>4, <2>5, <2>6 DEF Confined, Guarded, Released, Return, IInv, Types
  <2>8. \A u \in Worker : job[u].pc \notin Early => job'[u] = job[u]
    BY <1>1, <2>3 DEF Ended, Becomes
  <2>9. RecordOK(x)'
    BY <1>2, <2>2, <2>8 DEF RecordOK, Early, Return, IInv
  <2>10. Single => MatchOK(x)'
    BY <1>2, <2>2, <2>8 DEF MatchOK, Early, Return, Single, AInv, VolumeFine
  <2>11. Single => SoleOK(x)' /\ TracedOK(x)'
    BY <1>2, <2>2 DEF SoleOK, TracedOK, Settled, Return, Single, AInv, VolumeFine
  <2>12. Single /\ Droppable => promise' = promise
    <3>1. Single /\ Droppable => promise[x] # "none"
      BY <1>1, <1>4, <2>1 DEF Single, AInv, VolumeFine, UntoldOK, NoTwoCreates, Worker
    <3>2. QED
      BY <2>5, <3>1 DEF IInv, Types
  <2>13. Single => UntoldOK(x)'
    BY <1>2, <2>2, <2>8, <2>12
       DEF UntoldOK, Early, Return, Droppable, Single, AInv, VolumeFine, Worker
  <2>14. Single => KeptOK(x)'
    BY <1>2, <2>12 DEF KeptOK, Droppable, Single, AInv, VolumeFine
  <2>15. phase' = phase
    BY <2>2 DEF Return
  <2>16. QED
    BY <1>1, <2>1, <2>3, <2>4, <2>7, <2>9, <2>10, <2>11, <2>13, <2>14, <2>15, Finishes
       DEF VolumeFine
<1>5. QED
  BY <1>3, <1>4

(* addVolume goes on only if the volume is not in the cache.               *)
LEMMA CheckExistsKeeps ==
  ASSUME IInv, NEW w \in Worker, CheckExists(w)
  PROVE  Keeps
<1>1. job[w].pc = "check" /\ w # boot /\ w \in Client /\ phase = "up" /\ job[w].op = "add"
      /\ job[w].vol \in Volume /\ JobOK(w) /\ job[w].pc \in Early /\ job[w].pc # "idle"
  BY DEF CheckExists, At, IInv, WorkerOK, JobOK, Phases, Worker, Adds, Early
<1>2. UNCHANGED <<store, txn, placed, leftover, cache, online, queue>>
  BY DEF CheckExists, persistent
<1>3. CASE cache[job[w].vol] = None
  <2>1. Moved(w, "mutex") /\ UNCHANGED requests
    BY <1>3, GotoMoves, Places DEF CheckExists, Goto, IInv, Vol
  <2>2. JobOK(w)' /\ AskedOK(w)' /\ AbsentOK(w)'
    BY <1>1, <1>2, <1>3, <2>1
       DEF Moved, Steps, Becomes, JobOK, AskedOK, AbsentOK, Early, Adds, Dels
  <2>3. QED
    BY <1>1, <1>2, <2>1, <2>2, Prepares
       DEF requests, IInv, Types, Moved, Steps, Becomes, Others, Early
<1>4. CASE cache[job[w].vol] # None
  <2>1. Return(w, FALSE)
    BY <1>4 DEF CheckExists, Vol
  <2>2. Quits(w)
    BY <1>1, <2>1, QuitsReturn
  <2>3. QED
    BY <1>1, <1>2, <2>2, GivesUp DEF IInv, Types
<1>5. QED
  BY <1>3, <1>4

(* DeleteVolume takes a request; its client counts on the volume no more.  *)
LEMMA DeleteVolumeKeeps ==
  ASSUME IInv, NEW w \in Deleter, DeleteVolume(w)
  PROVE  Keeps
<1>1. w \in Client /\ w \in Worker /\ w # boot /\ job[w].pc = "idle" /\ phase = "up"
  BY BootAssumption DEF DeleteVolume, At, Worker, Client
<1>2. PICK v \in Volume :
       IF cache[v] = None
         THEN promise' = [promise EXCEPT ![v] = "none"] /\ UNCHANGED job
         ELSE /\ promise' = [promise EXCEPT ![v] = "doomed"]
              /\ job' = [job EXCEPT ![w] = [Idle EXCEPT !.pc = "mutex", !.op = "delete",
                                                        !.vol = v]]
  BY DEF DeleteVolume
<1>3. UNCHANGED <<store, txn, placed, leftover, cache, online, queue, phase, mutex, opCache>>
  BY DEF DeleteVolume, persistent
<1>4. WorkerOK(w)
  BY <1>1 DEF IInv
<1>5. CASE cache[v] = None
  <2>1. promise' = [promise EXCEPT ![v] = "none"] /\ job' = job
    BY <1>2, <1>5
  <2>2. JobOK(w)' /\ AskedOK(w)' /\ AbsentOK(w)'
    BY <1>1, <1>4, <2>1 DEF WorkerOK, JobOK, AskedOK, AbsentOK
  <2>3. QED
    BY <1>1, <1>3, <1>5, <2>1, <2>2, Prepares DEF IInv, Types, Others, Early
<1>6. CASE cache[v] # None
  <2>1. promise' = [promise EXCEPT ![v] = "doomed"]
    BY <1>2, <1>6
  <2>2. Becomes(w, "mutex", "delete", v, "none", {}, {}, None, FALSE, FALSE)
    BY <1>1, <1>2, <1>6, RequestMoves, Places DEF IInv, Op
  <2>3. JobOK(w)' /\ AskedOK(w)' /\ AbsentOK(w)'
    BY <1>1, <2>1, <2>2
       DEF Becomes, JobOK, AskedOK, AbsentOK, Early, Adds, Dels, IInv, Types
  <2>4. QED
    BY <1>1, <1>3, <2>1, <2>2, <2>3, Prepares DEF IInv, Types, Becomes, Others, Early
<1>7. QED
  BY <1>5, <1>6

(* A request gets the txnMutex of its volume.                              *)
LEMMA LockTxnKeeps ==
  ASSUME IInv, NEW w \in Client, LockTxn(w)
  PROVE  Keeps
<1>1. /\ w \in Worker /\ job[w].pc = "mutex" /\ job[w].pc # "idle" /\ phase = "up"
      /\ job[w].vol \in Volume /\ WorkerOK(w) /\ mutex[job[w].vol] = None
  BY DEF LockTxn, At, Vol, Worker, IInv, WorkerOK, JobOK, Phases
<1>2. PICK x \in Volume : x = job[w].vol
  BY <1>1
<1>3. UNCHANGED <<store, txn, placed, leftover, cache, online, queue, phase, opCache, promise>>
  BY DEF LockTxn, persistent
<1>4. Moved(w, "oldTxn")
  BY <1>1, GotoMoves, Places DEF LockTxn, Goto, IInv
<1>5. mutex' = [mutex EXCEPT ![x] = w]
  BY <1>2 DEF LockTxn, Vol
<1>6. Confined(w) /\ Guarded(w) /\ Others(w)
  BY <1>1, <1>3, <1>4, <1>5 DEF IInv, Types, Confined, Guarded, Others, Moved, Steps, Becomes
<1>7. WorkerOK(w)' /\ (Single => WorkerFine(w)')
  BY <1>1, <1>3, <1>4 DEF WorkerOK, JobOK, LoggedOK, DoneOK, AskedOK, WorkerFine, AbsentOK,
     SettledOK, Single, AInv, Moved, Steps, Becomes, Early, Adds, Dels
<1>8. \A u \in Worker : WorkerOK(u)' /\ (Single => WorkerFine(u)')
  BY <1>1, <1>6, <1>7, OtherWorkers
<1>9. \A u \in Worker : job[u].pc \notin Early => job'[u] = job[u]
  BY <1>1, <1>4 DEF Moved, Steps, Becomes, Early
<1>10. RecordOK(x)'
  BY <1>3, <1>9 DEF RecordOK, Early, IInv
<1>11. Single => MatchOK(x)'
  BY <1>3, <1>9 DEF MatchOK, Early, Single, AInv, VolumeFine
<1>12. Single => SoleOK(x)' /\ TracedOK(x)' /\ KeptOK(x)'
  BY <1>3 DEF SoleOK, TracedOK, KeptOK, Settled, Single, AInv, VolumeFine
<1>13. Single => UntoldOK(x)'
  BY <1>3, <1>9 DEF UntoldOK, Early, Single, AInv, VolumeFine, Worker
<1>14. \A v \in Volume : RecordOK(v)' /\ (Single => VolumeFine(v)')
  BY <1>1, <1>2, <1>3, <1>6, <1>10, <1>11, <1>12, <1>13, OtherVolumes DEF VolumeFine
<1>15. Phases'
  BY <1>1, <1>3, <1>6 DEF IInv, Phases, Others, Worker
<1>16. Owners'
  <2>1. ASSUME NEW u \in Worker, job'[u].pc \notin Early
        PROVE  mutex'[job'[u].vol] = u
    <3>1. CASE u = w
      BY <1>2, <1>4, <1>5, <3>1 DEF Moved, Steps, Becomes, IInv, Types
    <3>2. CASE u # w
      BY <1>1, <1>2, <1>5, <1>6, <2>1, <3>2, NoneAssumption
         DEF Others, IInv, Types, Owners, WorkerOK, JobOK, Early, Worker, Client
    <3>3. QED
      BY <3>1, <3>2
  <2>2. ASSUME NEW v \in Volume, mutex'[v] # None
        PROVE  job'[mutex'[v]].vol = v /\ job'[mutex'[v]].pc \notin Early
    <3>1. CASE v = x
      BY <1>2, <1>4, <1>5, <3>1 DEF Moved, Steps, Becomes, IInv, Types, Early
    <3>2. CASE v # x
      BY <1>1, <1>5, <1>6, <2>2, <3>2 DEF Others, IInv, Types, Owners, Early
    <3>3. QED
      BY <3>1, <3>2
  <2>3. QED
    BY <2>1, <2>2 DEF Owners
<1>17. Types' /\ Online' /\ job' \in [Worker -> Job]
  BY <1>3, <1>4, <1>6 DEF Confined, IInv, Online, Moved, Steps, Becomes
<1>18. QED
  BY <1>8, <1>14, <1>15, <1>16, <1>17 DEF Keeps, IInv, AInv

(* An older transaction is replayed first.                                 *)
LEMMA GetVolumeTransactionKeeps ==
  ASSUME IInv, NEW w \in Worker, GetVolumeTransaction(w)
  PROVE  Keeps
<1>1. job[w].pc = "oldTxn" /\ job[w].pc \notin Early
  BY DEF GetVolumeTransaction, At, Early
<1>2. Known(w) /\ job[w] \in Job
  BY <1>1, Knows DEF IInv
<1>3. PICK x \in Volume : x = job[w].vol
  BY <1>2 DEF Known
<1>4. UNCHANGED <<store, txn, placed, leftover, cache, online, queue>>
  BY DEF GetVolumeTransaction, persistent
<1>5. CASE txn[x] = "none" /\ Goto(w, "newTxn") /\ UNCHANGED requests
  <2>1. Moved(w, "newTxn")
    BY <1>5, GotoMoves, Places DEF Goto, IInv
  <2>2. UNCHANGED <<phase, mutex, opCache, promise>>
    BY <1>5 DEF requests
  <2>3. JobOK(w)'
    BY <1>1, <1>2, <1>3, <1>4, <1>5, <2>1, <2>2 DEF JobOK, Early, Adds, Dels,
       Steps, Moved, Becomes, Known, WorkerOK, WorkerFine
  <2>4. LoggedOK(w)'
    BY <1>1, <1>2, <1>3, <1>4, <1>5, <2>1, <2>2 DEF LoggedOK, Adds, Dels,
       JobOK, Steps, Moved, Becomes, Known, WorkerOK, WorkerFine
  <2>5. DoneOK(w)'
    BY <1>1, <1>2, <1>3, <1>4, <1>5, <2>1, <2>2 DEF DoneOK, Steps, Moved,
       Becomes, Known, WorkerOK, WorkerFine
  <2>6. Single => SettledOK(w)'
    BY <1>1, <1>2, <1>3, <1>4, <1>5, <2>1, <2>2 DEF SettledOK, Settled,
       Reachable, Steps, Moved, Becomes, Known, WorkerOK, WorkerFine
  <2>7. QED
    BY <1>1, <1>2, <1>3, <1>4, <1>5, <2>1, <2>2, <2>3, <2>4, <2>5, <2>6, Walks
       DEF Others, Steps, Moved, Becomes, Early
<1>6. CASE /\ txn[x] # "none" /\ UNCHANGED requests
           /\ job' = [job EXCEPT ![w].pc = "replay", ![w].old = txn[x]]
  <2>1. txn[x] \in Op
    BY DEF IInv, Types
  <2>2. Steps(w, "replay", txn[x], job[w].todo, job[w].left, job[w].on, job[w].fresh, job[w].err)
    BY <1>6, <2>1, OldMoves, Places DEF IInv
  <2>3. UNCHANGED <<phase, mutex, opCache, promise>>
    BY <1>6 DEF requests
  <2>4. JobOK(w)'
    BY <1>1, <1>2, <1>3, <1>4, <1>6, <2>2, <2>3 DEF JobOK, Early, Adds, Dels,
       Steps, Moved, Becomes, Known, WorkerOK, WorkerFine
  <2>5. LoggedOK(w)'
    BY <1>1, <1>2, <1>3, <1>4, <1>6, <2>2, <2>3 DEF LoggedOK, Adds, Dels,
       JobOK, Steps, Moved, Becomes, Known, WorkerOK, WorkerFine
  <2>6. DoneOK(w)'
    BY <1>1, <1>2, <1>3, <1>4, <1>6, <2>2, <2>3 DEF DoneOK, Steps, Moved,
       Becomes, Known, WorkerOK, WorkerFine
  <2>7. Single => SettledOK(w)'
    BY <1>1, <1>2, <1>3, <1>4, <1>6, <2>2, <2>3 DEF SettledOK, Settled,
       Reachable, Steps, Moved, Becomes, Known, WorkerOK, WorkerFine
  <2>8. QED
    BY <1>1, <1>2, <1>3, <1>4, <1>6, <2>2, <2>3, <2>4, <2>5, <2>6, <2>7, Walks
       DEF Others, Steps, Moved, Becomes, Early
<1>7. CASE Return(w, FALSE)
  <2>1. Quits(w)
    BY <1>1, <1>2, <1>7, QuitsReturn DEF Known, WorkerOK, JobOK, Early
  <2>2. QED
    BY <1>1, <1>3, <1>4, <2>1, GivesUp DEF IInv, Types
<1>8. QED
  BY <1>3, <1>5, <1>6, <1>7 DEF GetVolumeTransaction, Vol

(* A transaction is logged: what is on storage has a record or is left.    *)
LEMMA AddVolumeTransactionKeeps ==
  ASSUME IInv, NEW w \in Worker, AddVolumeTransaction(w)
  PROVE  Keeps
<1>1. job[w].pc = "newTxn" /\ job[w].pc \notin Early
  BY DEF AddVolumeTransaction, At, Early
<1>2. Known(w) /\ job[w] \in Job
  BY <1>1, Knows DEF IInv
<1>3. PICK x \in Volume : x = job[w].vol
  BY <1>2 DEF Known
<1>4. /\ UNCHANGED <<store, placed, leftover, cache, online, queue>> /\ w # boot
      /\ job[w].op \in {"add", "delete"}
  BY <1>1, <1>2 DEF AddVolumeTransaction, Known, WorkerOK, JobOK, Job, Op
<1>5. ASSUME Return(w, FALSE), txn' = txn \/ txn' = [txn EXCEPT ![x] = job[w].op]
      PROVE  Keeps
  <2>1. Quits(w)
    BY <1>1, <1>4, <1>5, QuitsReturn
  <2>2. /\ txn' \in [Volume -> Op] /\ txn'[x] \in {txn[x], job[w].op}
        /\ \A v \in Volume : v # x => txn'[v] = txn[v]
    BY <1>2, <1>4, <1>5 DEF IInv, Types, Op
  <2>3. QED
    BY <1>1, <1>3, <1>4, <2>1, <2>2, GivesUp DEF IInv, Types
<1>6. CASE /\ txn' = [txn EXCEPT ![x] = job[w].op] /\ UNCHANGED requests
           /\ job' = [job EXCEPT ![w].pc = IF job[w].op = "add" THEN "pick" ELSE "del",
                                 ![w].todo = Pool]
  <2> DEFINE p == IF job[w].op = "add" THEN "pick" ELSE "del"
  <2>1. Steps(w, p, job[w].old, Pool, job[w].left, job[w].on, job[w].fresh, job[w].err)
    <3>1. p \in PC
      BY Places
    <3>2. job' = [job EXCEPT ![w].pc = p, ![w].todo = Pool]
      BY <1>6
    <3> HIDE DEF p
    <3>3. QED
      BY <3>1, <3>2, TodoMoves DEF IInv
  <2>2. UNCHANGED <<phase, mutex, opCache, promise>>
    BY <1>6 DEF requests
  <2>3. /\ txn' \in [Volume -> Op] /\ txn'[x] = job[w].op
        /\ \A v \in Volume : v # x => txn'[v] = txn[v]
    BY <1>4, <1>6 DEF IInv, Types, Op
  <2>4. Types'
    BY <1>1, <1>2, <1>3, <1>4, <2>1, <2>2, <2>3 DEF Types, IInv, Steps, Moved,
       Becomes, Known, WorkerOK, WorkerFine
  <2>5. Confined(w)
    BY <1>1, <1>2, <1>3, <1>4, <2>1, <2>2, <2>3, <2>4 DEF Confined, Steps,
       Moved, Becomes, Known, WorkerOK, WorkerFine
  <2>6. Guarded(w)
    BY <1>1, <1>2, <1>3, <1>4, <2>1, <2>2, <2>3 DEF Guarded, Early, Steps,
       Moved, Becomes, Known, WorkerOK, WorkerFine
  <2>7. JobOK(w)'
    BY <1>1, <1>2, <1>3, <1>4, <2>1, <2>2, <2>3 DEF JobOK, Early, Adds, Dels,
       Steps, Moved, Becomes, Known, WorkerOK, WorkerFine
  <2>8. LoggedOK(w)'
    BY <1>1, <1>2, <1>3, <1>4, <2>1, <2>2, <2>3 DEF LoggedOK, Adds, Dels,
       Steps, Moved, Becomes, Known, WorkerOK, WorkerFine
  <2>9. DoneOK(w)'
    BY <1>1, <1>2, <1>3, <1>4, <2>1, <2>2, <2>3 DEF DoneOK, Steps, Moved,
       Becomes, Known, WorkerOK, WorkerFine
  <2>10. AskedOK(w)'
    BY <1>1, <1>2, <1>3, <1>4, <2>1, <2>2, <2>3 DEF AskedOK, Steps, Moved,
       Becomes, Known, WorkerOK, WorkerFine
  <2>11. RecordOK(x)'
    BY <1>1, <1>2, <1>3, <1>4, <2>1, <2>2, <2>3 DEF RecordOK, Steps, Moved,
       Becomes, Known, WorkerOK, WorkerFine
  <2>12. Single => AbsentOK(w)'
    BY <1>1, <1>2, <1>3, <1>4, <2>1, <2>2, <2>3 DEF AbsentOK, Steps, Moved,
       Becomes, Known, WorkerOK, WorkerFine
  <2>13. Single => SettledOK(w)'
    BY <1>1, <1>2, <1>3, <1>4, <2>1, <2>2, <2>3 DEF SettledOK, Settled,
       Reachable, TracedOK, LoggedOK, Steps, Moved, Becomes, Known, WorkerOK,
       WorkerFine
  <2>14. Single => MatchOK(x)'
    BY <1>1, <1>2, <1>3, <1>4, <2>1, <2>2, <2>3 DEF MatchOK, Steps, Moved,
       Becomes, Known, WorkerOK, WorkerFine
  <2>15. Single => SoleOK(x)'
    BY <1>1, <1>2, <1>3, <1>4, <2>1, <2>2, <2>3 DEF SoleOK, Reachable, Steps,
       Moved, Becomes, Known, WorkerOK, WorkerFine
  <2>16. Single => TracedOK(x)'
    BY <1>1, <1>2, <1>3, <1>4, <2>1, <2>2, <2>3 DEF TracedOK, Settled,
       Reachable, LoggedOK, Steps, Moved, Becomes, Known, WorkerOK, WorkerFine
  <2>17. Single => UntoldOK(x)'
    BY <1>1, <1>2, <1>3, <1>4, <2>1, <2>2, <2>3 DEF UntoldOK, Droppable,
       LoggedOK, Steps, Moved, Becomes, Known, WorkerOK, WorkerFine
  <2>18. Single => KeptOK(x)'
    BY <1>1, <1>2, <1>3, <1>4, <2>1, <2>2, <2>3, NoneAssumption DEF KeptOK,
       Droppable, AskedOK, AbsentOK, IInv, Types, Steps, Moved, Becomes, Known,
       WorkerOK, WorkerFine
  <2>19. QED
    BY <1>1, <1>2, <1>3, <1>4, <2>1, <2>2, <2>3, <2>4, <2>5, <2>6, <2>7, <2>8,
       <2>9, <2>10, <2>11, <2>12, <2>13, <2>14, <2>15, <2>16, <2>17, <2>18,
       WorksOn DEF VolumeFine, WorkerFine, WorkerOK, Others, Steps, Moved,
       Becomes, Early
<1>7. CASE job[w].op = "add" /\ txn' = [txn EXCEPT ![x] = "add"] /\ Return(w, FALSE)
  BY <1>5, <1>7
<1>8. CASE txn' \in AfterFailure(txn, [txn EXCEPT ![x] = job[w].op]) /\ Return(w, FALSE)
  BY <1>5, <1>8 DEF AfterFailure
<1>9. QED
  BY <1>3, <1>6, <1>7, <1>8 DEF AddVolumeTransaction, Vol

(* The candidate pools.                                                    *)
LEMMA PickPoolKeeps ==
  ASSUME IInv, NEW w \in Worker, PickPool(w)
  PROVE  Keeps
<1>1. job[w].pc = "pick" /\ job[w].pc \notin Early
  BY DEF PickPool, At, Early
<1>2. Known(w) /\ job[w] \in Job
  BY <1>1, Knows DEF IInv
<1>3. PICK x \in Volume : x = job[w].vol
  BY <1>2 DEF Known
<1>4. UNCHANGED <<store, txn, placed, leftover, cache, online, queue, phase, mutex, opCache, promise>>
  BY DEF PickPool, persistent, requests
<1>5. PICK q \in job[w].todo : job' = [job EXCEPT ![w].pc = "create", ![w].todo = @ \ {q},
                                                  ![w].on = Home[q]]
  BY DEF PickPool
<1>6. Home[q] \in Backend
  BY <1>2, HomeAssumption DEF Job
<1>7. Steps(w, "create", job[w].old, job[w].todo \ {q}, job[w].left, Home[q], job[w].fresh,
            job[w].err)
  <2>1. job[w].todo \ {q} \in SUBSET Pool
    BY <1>2 DEF Job
  <2>2. job' = [job EXCEPT ![w].pc = "create", ![w].todo = job[w].todo \ {q}, ![w].on = Home[q]]
    BY <1>5
  <2>3. QED
    BY <1>6, <2>1, <2>2, PickMoves, Places DEF IInv
<1>8. JobOK(w)'
  BY <1>1, <1>2, <1>3, <1>4, <1>6, <1>7 DEF JobOK, Early, Adds, Dels, Steps,
     Moved, Becomes, Known, WorkerOK, WorkerFine
<1>9. LoggedOK(w)'
  BY <1>1, <1>2, <1>3, <1>4, <1>6, <1>7 DEF LoggedOK, Adds, Dels, JobOK, Steps,
     Moved, Becomes, Known, WorkerOK, WorkerFine
<1>10. DoneOK(w)'
  BY <1>1, <1>2, <1>3, <1>4, <1>6, <1>7 DEF DoneOK, Steps, Moved, Becomes,
     Known, WorkerOK, WorkerFine
<1>11. Single => SettledOK(w)'
  BY <1>1, <1>2, <1>3, <1>4, <1>6, <1>7 DEF SettledOK, Settled, Reachable,
     Steps, Moved, Becomes, Known, WorkerOK, WorkerFine
<1>12. QED
  BY <1>1, <1>2, <1>3, <1>4, <1>6, <1>7, <1>8, <1>9, <1>10, <1>11, Walks DEF
     Others, Steps, Moved, Becomes, Early

LEMMA SkipPoolsKeeps ==
  ASSUME IInv, NEW w \in Worker, SkipPools(w)
  PROVE  Keeps
<1>1. job[w].pc = "pick" /\ job[w].pc \notin Early
  BY DEF SkipPools, At, Early
<1>2. Known(w) /\ job[w] \in Job
  BY <1>1, Knows DEF IInv
<1>3. PICK x \in Volume : x = job[w].vol
  BY <1>2 DEF Known
<1>4. UNCHANGED <<store, txn, placed, leftover, cache, online, queue, phase, mutex, opCache, promise>>
  BY DEF SkipPools, persistent, requests
<1>5. PICK d \in SUBSET Pool : job' = [job EXCEPT ![w].todo = d]
  <2>1. PICK p \in job[w].todo, whole \in BOOLEAN :
          job' = [job EXCEPT ![w].todo = @ \ {q \in @ : q = p \/ (whole /\ Home[q] = Home[p])}]
    BY DEF SkipPools
  <2> DEFINE d == job[w].todo \ {q \in job[w].todo : q = p \/ (whole /\ Home[q] = Home[p])}
  <2>2. d \in SUBSET Pool
    BY <1>2 DEF Job
  <2>3. job' = [job EXCEPT ![w].todo = d]
    BY <2>1
  <2>4. QED
    BY <2>2, <2>3
<1>6. Steps(w, job[w].pc, job[w].old, d, job[w].left, job[w].on, job[w].fresh, job[w].err)
  BY <1>5, SkipMoves DEF IInv
<1>7. JobOK(w)'
  BY <1>1, <1>2, <1>3, <1>4, <1>6 DEF JobOK, Early, Adds, Dels, Steps, Moved,
     Becomes, Known, WorkerOK, WorkerFine
<1>8. LoggedOK(w)'
  BY <1>1, <1>2, <1>3, <1>4, <1>6 DEF LoggedOK, Adds, Dels, JobOK, Steps,
     Moved, Becomes, Known, WorkerOK, WorkerFine
<1>9. DoneOK(w)'
  BY <1>1, <1>2, <1>3, <1>4, <1>6 DEF DoneOK, Steps, Moved, Becomes, Known,
     WorkerOK, WorkerFine
<1>10. Single => SettledOK(w)'
  BY <1>1, <1>2, <1>3, <1>4, <1>6 DEF SettledOK, Settled, Reachable, Steps,
     Moved, Becomes, Known, WorkerOK, WorkerFine
<1>11. QED
  BY <1>1, <1>2, <1>3, <1>4, <1>6, <1>7, <1>8, <1>9, <1>10, Walks DEF Others,
     Steps, Moved, Becomes, Early

LEMMA NoPoolLeftKeeps ==
  ASSUME IInv, NEW w \in Worker, NoPoolLeft(w)
  PROVE  Keeps
<1>1. job[w].pc = "pick" /\ job[w].pc \notin Early
  BY DEF NoPoolLeft, At, Early
<1>2. Known(w) /\ job[w] \in Job
  BY <1>1, Knows DEF IInv
<1>3. PICK x \in Volume : x = job[w].vol
  BY <1>2 DEF Known
<1>4. UNCHANGED <<store, txn, placed, leftover, cache, online, queue, phase, mutex, opCache, promise>>
  BY DEF NoPoolLeft, persistent, requests
<1>5. Steps(w, "endTxn", job[w].old, job[w].todo, job[w].left, job[w].on, job[w].fresh, TRUE)
  BY ErrMoves, Places DEF NoPoolLeft, IInv
<1>6. JobOK(w)'
  BY <1>1, <1>2, <1>3, <1>4, <1>5 DEF JobOK, Early, Adds, Dels, Steps, Moved,
     Becomes, Known, WorkerOK, WorkerFine
<1>7. LoggedOK(w)'
  BY <1>1, <1>2, <1>3, <1>4, <1>5 DEF LoggedOK, Adds, Dels, JobOK, Steps,
     Moved, Becomes, Known, WorkerOK, WorkerFine
<1>8. DoneOK(w)'
  BY <1>1, <1>2, <1>3, <1>4, <1>5 DEF DoneOK, Steps, Moved, Becomes, Known,
     WorkerOK, WorkerFine
<1>9. Single => SettledOK(w)'
  BY <1>1, <1>2, <1>3, <1>4, <1>5 DEF SettledOK, Settled, Reachable, Steps,
     Moved, Becomes, Known, WorkerOK, WorkerFine
<1>10. QED
  BY <1>1, <1>2, <1>3, <1>4, <1>5, <1>6, <1>7, <1>8, <1>9, Walks DEF Others,
     Steps, Moved, Becomes, Early

LEMMA NextPoolMoves ==
  ASSUME IInv, NEW w \in Worker, NextPool(w)
  PROVE  Steps(w, "pick", job[w].old, job[w].todo, job[w].left, None, job[w].fresh, job[w].err)
  BY OnMoves, Places DEF NextPool, IInv

(* The driver creates the volume, under a transaction.                     *)
LEMMA CreateKeeps ==
  ASSUME IInv, NEW w \in Worker, Create(w)
  PROVE  Keeps
<1>1. job[w].pc = "create" /\ job[w].pc \notin Early
  BY DEF Create, At, Early
<1>2. Known(w) /\ job[w] \in Job
  BY <1>1, Knows DEF IInv
<1>3. PICK x \in Volume : x = job[w].vol
  BY <1>2 DEF Known
<1>4. /\ UNCHANGED <<store, txn, cache, online, queue, phase, mutex, opCache, promise>>
      /\ job[w].on \in Backend
  BY <1>1, <1>2 DEF Create, requests, Known, WorkerOK, JobOK
<1>5. PICK b \in Backend : b = job[w].on
  BY <1>4
<1>6. CASE /\ placed' = placed \cup {<<x, b>>} /\ UNCHANGED leftover
           /\ \/ job' = [job EXCEPT ![w].pc = "followup", ![w].fresh = <<x, b>> \notin placed]
              \/ UNCHANGED job
  <2>1. /\ Types' /\ UNCHANGED leftover
        /\ \A v \in Volume, c \in Backend :
             <<v, c>> \in placed' <=> <<v, c>> \in placed \/ (v = x /\ c = b)
    BY <1>4, <1>6 DEF IInv, Types
  <2>2. CASE job' = [job EXCEPT ![w].pc = "followup", ![w].fresh = <<x, b>> \notin placed]
    <3> DEFINE f == <<x, b>> \notin placed
    <3>1. Steps(w, "followup", job[w].old, job[w].todo, job[w].left, job[w].on, f, job[w].err)
      <4>1. f \in BOOLEAN /\ job' = [job EXCEPT ![w].pc = "followup", ![w].fresh = f]
        BY <2>2
      <4> HIDE DEF f
      <4>2. QED
        BY <4>1, FreshMoves, Places DEF IInv
    <3>2. Types'
      BY <1>1, <1>2, <1>3, <1>4, <1>5, <2>1, <3>1 DEF Types, Steps, Moved,
         Becomes, Known, WorkerOK, WorkerFine
    <3>3. Confined(w)
      BY <1>1, <1>2, <1>3, <1>4, <1>5, <2>1, <3>1, <3>2 DEF Confined, Steps,
         Moved, Becomes, Known, WorkerOK, WorkerFine
    <3>4. Guarded(w)
      BY <1>1, <1>2, <1>3, <1>4, <1>5, <2>1, <3>1 DEF Guarded, Early, Steps,
         Moved, Becomes, Known, WorkerOK, WorkerFine
    <3>5. JobOK(w)'
      BY <1>1, <1>2, <1>3, <1>4, <1>5, <2>1, <3>1 DEF JobOK, Early, Adds, Dels,
         Steps, Moved, Becomes, Known, WorkerOK, WorkerFine
    <3>6. LoggedOK(w)'
      BY <1>1, <1>2, <1>3, <1>4, <1>5, <2>1, <3>1 DEF LoggedOK, Adds, Dels,
         JobOK, Steps, Moved, Becomes, Known, WorkerOK, WorkerFine
    <3>7. DoneOK(w)'
      BY <1>1, <1>2, <1>3, <1>4, <1>5, <2>1, <3>1 DEF DoneOK, IInv, Types,
         Steps, Moved, Becomes, Known, WorkerOK, WorkerFine
    <3>8. AskedOK(w)'
      BY <1>1, <1>2, <1>3, <1>4, <1>5, <2>1, <3>1 DEF AskedOK, Steps, Moved,
         Becomes, Known, WorkerOK, WorkerFine
    <3>9. RecordOK(x)'
      BY <1>1, <1>2, <1>3, <1>4, <1>5, <2>1, <3>1 DEF RecordOK, Steps, Moved,
         Becomes, Known, WorkerOK, WorkerFine
    <3>10. Single => AbsentOK(w)'
      BY <1>1, <1>2, <1>3, <1>4, <1>5, <2>1, <3>1 DEF AbsentOK, Steps, Moved,
         Becomes, Known, WorkerOK, WorkerFine
    <3>11. Single => SettledOK(w)'
      BY <1>1, <1>2, <1>3, <1>4, <1>5, <2>1, <3>1 DEF SettledOK, Settled,
         Reachable, Steps, Moved, Becomes, Known, WorkerOK, WorkerFine
    <3>12. Single => MatchOK(x)'
      BY <1>1, <1>2, <1>3, <1>4, <1>5, <2>1, <3>1 DEF MatchOK, Steps, Moved,
         Becomes, Known, WorkerOK, WorkerFine
    <3>13. Single => SoleOK(x)'
      BY <1>1, <1>2, <1>3, <1>4, <1>5, <2>1, <3>1 DEF SoleOK, Reachable,
         AbsentOK, JobOK, Adds, Steps, Moved, Becomes, Known, WorkerOK,
         WorkerFine
    <3>14. Single => TracedOK(x)'
      BY <1>1, <1>2, <1>3, <1>4, <1>5, <2>1, <3>1 DEF TracedOK, Settled,
         Reachable, LoggedOK, JobOK, Adds, Steps, Moved, Becomes, Known,
         WorkerOK, WorkerFine
    <3>15. Single => UntoldOK(x)'
      BY <1>1, <1>2, <1>3, <1>4, <1>5, <2>1, <3>1, NoneAssumption DEF UntoldOK,
         Droppable, LoggedOK, AbsentOK, JobOK, Steps, Moved, Becomes, Known,
         WorkerOK, WorkerFine
    <3>16. Single => KeptOK(x)'
      BY <1>1, <1>2, <1>3, <1>4, <1>5, <2>1, <3>1 DEF KeptOK, Droppable,
         LoggedOK, JobOK, Adds, Steps, Moved, Becomes, Known, WorkerOK,
         WorkerFine
    <3>17. QED
      BY <1>1, <1>2, <1>3, <1>4, <1>5, <2>1, <3>1, <3>2, <3>3, <3>4, <3>5,
         <3>6, <3>7, <3>8, <3>9, <3>10, <3>11, <3>12, <3>13, <3>14, <3>15,
         <3>16, WorksOn DEF VolumeFine, WorkerFine, WorkerOK, Others, Steps,
         Moved, Becomes, Early
  <2>3. CASE UNCHANGED job
    <3>1. Moved(w, "create")
      BY <1>1, <2>3 DEF Moved, Steps, Becomes, IInv
    <3>2. Types'
      BY <1>1, <1>2, <1>3, <1>4, <1>5, <2>1, <2>3, <3>1 DEF Types, Steps,
         Moved, Becomes, Known, WorkerOK, WorkerFine
    <3>3. Confined(w)
      BY <1>1, <1>2, <1>3, <1>4, <1>5, <2>1, <2>3, <3>1, <3>2 DEF Confined,
         Steps, Moved, Becomes, Known, WorkerOK, WorkerFine
    <3>4. Guarded(w)
      BY <1>1, <1>2, <1>3, <1>4, <1>5, <2>1, <2>3, <3>1 DEF Guarded, Early,
         Steps, Moved, Becomes, Known, WorkerOK, WorkerFine
    <3>5. JobOK(w)'
      BY <1>1, <1>2, <1>3, <1>4, <1>5, <2>1, <2>3, <3>1 DEF JobOK, Early, Adds,
         Dels, Steps, Moved, Becomes, Known, WorkerOK, WorkerFine
    <3>6. LoggedOK(w)'
      BY <1>1, <1>2, <1>3, <1>4, <1>5, <2>1, <2>3, <3>1 DEF LoggedOK, Adds,
         Dels, JobOK, Steps, Moved, Becomes, Known, WorkerOK, WorkerFine
    <3>7. DoneOK(w)'
      BY <1>1, <1>2, <1>3, <1>4, <1>5, <2>1, <2>3, <3>1 DEF DoneOK, Steps,
         Moved, Becomes, Known, WorkerOK, WorkerFine
    <3>8. AskedOK(w)'
      BY <1>1, <1>2, <1>3, <1>4, <1>5, <2>1, <2>3, <3>1 DEF AskedOK, Steps,
         Moved, Becomes, Known, WorkerOK, WorkerFine
    <3>9. RecordOK(x)'
      BY <1>1, <1>2, <1>3, <1>4, <1>5, <2>1, <2>3, <3>1 DEF RecordOK, Steps,
         Moved, Becomes, Known, WorkerOK, WorkerFine
    <3>10. Single => AbsentOK(w)'
      BY <1>1, <1>2, <1>3, <1>4, <1>5, <2>1, <2>3, <3>1 DEF AbsentOK, Steps,
         Moved, Becomes, Known, WorkerOK, WorkerFine
    <3>11. Single => SettledOK(w)'
      BY <1>1, <1>2, <1>3, <1>4, <1>5, <2>1, <2>3, <3>1 DEF SettledOK, Settled,
         Reachable, Steps, Moved, Becomes, Known, WorkerOK, WorkerFine
    <3>12. Single => MatchOK(x)'
      BY <1>1, <1>2, <1>3, <1>4, <1>5, <2>1, <2>3, <3>1 DEF MatchOK, Steps,
         Moved, Becomes, Known, WorkerOK, WorkerFine
    <3>13. Single => SoleOK(x)'
      BY <1>1, <1>2, <1>3, <1>4, <1>5, <2>1, <2>3, <3>1 DEF SoleOK, Reachable,
         AbsentOK, JobOK, Adds, Steps, Moved, Becomes, Known, WorkerOK, WorkerFine
    <3>14. Single => TracedOK(x)'
      BY <1>1, <1>2, <1>3, <1>4, <1>5, <2>1, <2>3, <3>1 DEF TracedOK, Settled,
         Reachable, LoggedOK, JobOK, Adds, Steps, Moved, Becomes, Known,
         WorkerOK, WorkerFine
    <3>15. Single => UntoldOK(x)'
      BY <1>1, <1>2, <1>3, <1>4, <1>5, <2>1, <2>3, <3>1, NoneAssumption DEF
         UntoldOK, Droppable, LoggedOK, AbsentOK, JobOK, Steps, Moved, Becomes,
         Known, WorkerOK, WorkerFine
    <3>16. Single => KeptOK(x)'
      BY <1>1, <1>2, <1>3, <1>4, <1>5, <2>1, <2>3, <3>1 DEF KeptOK, Droppable,
         LoggedOK, JobOK, Adds, Steps, Moved, Becomes, Known, WorkerOK,
         WorkerFine
    <3>17. QED
      BY <1>1, <1>2, <1>3, <1>4, <1>5, <2>1, <2>3, <3>1, <3>2, <3>3, <3>4,
         <3>5, <3>6, <3>7, <3>8, <3>9, <3>10, <3>11, <3>12, <3>13, <3>14,
         <3>15, <3>16, WorksOn DEF VolumeFine, WorkerFine, WorkerOK, Others,
         Steps, Moved, Becomes, Early
  <2>4. QED
    BY <1>6, <2>2, <2>3
<1>7. CASE NextPool(w) /\ UNCHANGED placed /\ leftover' = leftover \cup (placed \cap {<<x, b>>})
  <2>1. Steps(w, "pick", job[w].old, job[w].todo, job[w].left, None, job[w].fresh, job[w].err)
    BY <1>7, NextPoolMoves
  <2>3. /\ Types' /\ UNCHANGED placed
        /\ \A v \in Volume, c \in Backend : v # x \/ c # b =>
             <<v, c>> \in leftover' <=> <<v, c>> \in leftover
        /\ <<x, b>> \in placed => <<x, b>> \in leftover'
        /\ leftover \subseteq leftover'
    BY <1>4, <1>7 DEF IInv, Types
  <2>4. Types'
    BY <1>1, <1>2, <1>3, <1>4, <1>5, <2>1, <2>3 DEF Types, Steps, Moved,
       Becomes, Known, WorkerOK, WorkerFine
  <2>5. Confined(w)
    BY <1>1, <1>2, <1>3, <1>4, <1>5, <2>1, <2>3, <2>4 DEF Confined, Steps,
       Moved, Becomes, Known, WorkerOK, WorkerFine
  <2>6. Guarded(w)
    BY <1>1, <1>2, <1>3, <1>4, <1>5, <2>1, <2>3 DEF Guarded, Early, Steps,
       Moved, Becomes, Known, WorkerOK, WorkerFine
  <2>7. JobOK(w)'
    BY <1>1, <1>2, <1>3, <1>4, <1>5, <2>1, <2>3 DEF JobOK, Early, Adds, Dels,
       Steps, Moved, Becomes, Known, WorkerOK, WorkerFine
  <2>8. LoggedOK(w)'
    BY <1>1, <1>2, <1>3, <1>4, <1>5, <2>1, <2>3 DEF LoggedOK, Adds, Dels,
       JobOK, Steps, Moved, Becomes, Known, WorkerOK, WorkerFine
  <2>9. DoneOK(w)'
    BY <1>1, <1>2, <1>3, <1>4, <1>5, <2>1, <2>3 DEF DoneOK, Steps, Moved,
       Becomes, Known, WorkerOK, WorkerFine
  <2>10. AskedOK(w)'
    BY <1>1, <1>2, <1>3, <1>4, <1>5, <2>1, <2>3 DEF AskedOK, Steps, Moved,
       Becomes, Known, WorkerOK, WorkerFine
  <2>11. RecordOK(x)'
    BY <1>1, <1>2, <1>3, <1>4, <1>5, <2>1, <2>3 DEF RecordOK, Steps, Moved,
       Becomes, Known, WorkerOK, WorkerFine
  <2>12. Single => AbsentOK(w)'
    BY <1>1, <1>2, <1>3, <1>4, <1>5, <2>1, <2>3 DEF AbsentOK, Steps, Moved,
       Becomes, Known, WorkerOK, WorkerFine
  <2>13. Single => SettledOK(w)'
    BY <1>1, <1>2, <1>3, <1>4, <1>5, <2>1, <2>3 DEF SettledOK, Settled,
       Reachable, Steps, Moved, Becomes, Known, WorkerOK, WorkerFine
  <2>14. Single => MatchOK(x)'
    BY <1>1, <1>2, <1>3, <1>4, <1>5, <2>1, <2>3 DEF MatchOK, Steps, Moved,
       Becomes, Known, WorkerOK, WorkerFine
  <2>15. Single => SoleOK(x)'
    BY <1>1, <1>2, <1>3, <1>4, <1>5, <2>1, <2>3 DEF SoleOK, Reachable, Steps,
       Moved, Becomes, Known, WorkerOK, WorkerFine
  <2>16. Single => TracedOK(x)'
    BY <1>1, <1>2, <1>3, <1>4, <1>5, <2>1, <2>3 DEF TracedOK, Settled,
       Reachable, LoggedOK, JobOK, Adds, Steps, Moved, Becomes, Known,
       WorkerOK, WorkerFine
  <2>17. Single => UntoldOK(x)'
    BY <1>1, <1>2, <1>3, <1>4, <1>5, <2>1, <2>3, NoneAssumption DEF UntoldOK,
       Droppable, LoggedOK, AbsentOK, JobOK, Steps, Moved, Becomes, Known,
       WorkerOK, WorkerFine
  <2>18. Single => KeptOK(x)'
    BY <1>1, <1>2, <1>3, <1>4, <1>5, <2>1, <2>3 DEF KeptOK, Droppable,
       LoggedOK, JobOK, Adds, Steps, Moved, Becomes, Known, WorkerOK,
       WorkerFine
  <2>19. QED
    BY <1>1, <1>2, <1>3, <1>4, <1>5, <2>1, <2>3, <2>4, <2>5, <2>6, <2>7, <2>8,
       <2>9, <2>10, <2>11, <2>12, <2>13, <2>14, <2>15, <2>16, <2>17, <2>18,
       WorksOn DEF VolumeFine, WorkerFine, WorkerOK, Others, Steps, Moved,
       Becomes, Early
<1>8. QED
  BY <1>3, <1>5, <1>6, <1>7 DEF Create, Here

(* A volume that CreateFollowup fails on is removed or a left-over.        *)
LEMMA CreateFollowupKeeps ==
  ASSUME IInv, NEW w \in Worker, CreateFollowup(w)
  PROVE  Keeps
<1>1. job[w].pc = "followup" /\ job[w].pc \notin Early
  BY DEF CreateFollowup, At, Early
<1>2. Known(w) /\ job[w] \in Job
  BY <1>1, Knows DEF IInv
<1>3. PICK x \in Volume : x = job[w].vol
  BY <1>2 DEF Known
<1>4. /\ UNCHANGED <<store, txn, cache, online, queue, phase, mutex, opCache, promise>>
      /\ job[w].on \in Backend
  BY <1>1, <1>2 DEF CreateFollowup, requests, Known, WorkerOK, JobOK
<1>5. PICK b \in Backend : b = job[w].on
  BY <1>4
<1>6. CASE Goto(w, "persist") /\ UNCHANGED <<placed, leftover>>
  <2>1. Moved(w, "persist")
    BY <1>6, GotoMoves, Places DEF Goto, IInv
  <2>2. JobOK(w)'
    BY <1>1, <1>2, <1>3, <1>4, <1>6, <2>1 DEF JobOK, Early, Adds, Dels, Steps,
       Moved, Becomes, Known, WorkerOK, WorkerFine
  <2>3. LoggedOK(w)'
    BY <1>1, <1>2, <1>3, <1>4, <1>6, <2>1 DEF LoggedOK, Adds, Dels, JobOK,
       Steps, Moved, Becomes, Known, WorkerOK, WorkerFine
  <2>4. DoneOK(w)'
    BY <1>1, <1>2, <1>3, <1>4, <1>6, <2>1 DEF DoneOK, Steps, Moved, Becomes,
       Known, WorkerOK, WorkerFine
  <2>5. Single => SettledOK(w)'
    BY <1>1, <1>2, <1>3, <1>4, <1>6, <2>1 DEF SettledOK, Settled, Reachable,
       Steps, Moved, Becomes, Known, WorkerOK, WorkerFine
  <2>6. QED
    BY <1>1, <1>2, <1>3, <1>4, <1>6, <2>1, <2>2, <2>3, <2>4, <2>5, Walks DEF
       Others, Steps, Moved, Becomes, Early
<1>7. CASE /\ NextPool(w)
           /\ \/ job[w].fresh /\ placed' = placed \ {<<x, b>>} /\ UNCHANGED leftover
              \/ leftover' = leftover \cup {<<x, b>>} /\ UNCHANGED placed
  <2>1. Steps(w, "pick", job[w].old, job[w].todo, job[w].left, None, job[w].fresh, job[w].err)
    BY <1>7, NextPoolMoves
  <2>2. <<x, b>> \in placed /\ (job[w].fresh => <<x, b>> \notin leftover)
    BY <1>1, <1>2, <1>3, <1>5, <1>7 DEF Known, WorkerOK, DoneOK
  <2>3. /\ Types' /\ placed' \subseteq placed
        /\ \A v \in Volume, c \in Backend : v # x \/ c # b =>
             /\ <<v, c>> \in placed' <=> <<v, c>> \in placed
             /\ <<v, c>> \in leftover' <=> <<v, c>> \in leftover
        /\ <<x, b>> \in placed' => <<x, b>> \in leftover'
    BY <1>4, <1>7, <2>2 DEF IInv, Types
  <2>4. Types'
    BY <1>1, <1>2, <1>3, <1>4, <1>5, <2>1, <2>3 DEF Types, Steps, Moved,
       Becomes, Known, WorkerOK, WorkerFine
  <2>5. Confined(w)
    BY <1>1, <1>2, <1>3, <1>4, <1>5, <2>1, <2>3, <2>4 DEF Confined, Steps,
       Moved, Becomes, Known, WorkerOK, WorkerFine
  <2>6. Guarded(w)
    BY <1>1, <1>2, <1>3, <1>4, <1>5, <2>1, <2>3 DEF Guarded, Early, Steps,
       Moved, Becomes, Known, WorkerOK, WorkerFine
  <2>7. JobOK(w)'
    BY <1>1, <1>2, <1>3, <1>4, <1>5, <2>1, <2>3 DEF JobOK, Early, Adds, Dels,
       Steps, Moved, Becomes, Known, WorkerOK, WorkerFine
  <2>8. LoggedOK(w)'
    BY <1>1, <1>2, <1>3, <1>4, <1>5, <2>1, <2>3 DEF LoggedOK, Adds, Dels,
       JobOK, Steps, Moved, Becomes, Known, WorkerOK, WorkerFine
  <2>9. DoneOK(w)'
    BY <1>1, <1>2, <1>3, <1>4, <1>5, <2>1, <2>3 DEF DoneOK, Steps, Moved,
       Becomes, Known, WorkerOK, WorkerFine
  <2>10. AskedOK(w)'
    BY <1>1, <1>2, <1>3, <1>4, <1>5, <2>1, <2>3 DEF AskedOK, Steps, Moved,
       Becomes, Known, WorkerOK, WorkerFine
  <2>11. RecordOK(x)'
    BY <1>1, <1>2, <1>3, <1>4, <1>5, <2>1, <2>3 DEF RecordOK, Steps, Moved,
       Becomes, Known, WorkerOK, WorkerFine
  <2>12. Single => AbsentOK(w)'
    BY <1>1, <1>2, <1>3, <1>4, <1>5, <2>1, <2>3 DEF AbsentOK, Steps, Moved,
       Becomes, Known, WorkerOK, WorkerFine
  <2>13. Single => SettledOK(w)'
    BY <1>1, <1>2, <1>3, <1>4, <1>5, <2>1, <2>3 DEF SettledOK, Settled,
       Reachable, Steps, Moved, Becomes, Known, WorkerOK, WorkerFine
  <2>14. Single => MatchOK(x)'
    BY <1>1, <1>2, <1>3, <1>4, <1>5, <2>1, <2>3 DEF MatchOK, Steps, Moved,
       Becomes, Known, WorkerOK, WorkerFine
  <2>15. Single => SoleOK(x)'
    BY <1>1, <1>2, <1>3, <1>4, <1>5, <2>1, <2>3 DEF SoleOK, Reachable, Steps,
       Moved, Becomes, Known, WorkerOK, WorkerFine
  <2>16. Single => TracedOK(x)'
    BY <1>1, <1>2, <1>3, <1>4, <1>5, <2>1, <2>3 DEF TracedOK, Settled,
       Reachable, LoggedOK, JobOK, Adds, Steps, Moved, Becomes, Known,
       WorkerOK, WorkerFine
  <2>17. Single => UntoldOK(x)'
    BY <1>1, <1>2, <1>3, <1>4, <1>5, <2>1, <2>3, NoneAssumption DEF UntoldOK,
       Droppable, LoggedOK, AbsentOK, JobOK, Steps, Moved, Becomes, Known,
       WorkerOK, WorkerFine
  <2>18. Single => KeptOK(x)'
    BY <1>1, <1>2, <1>3, <1>4, <1>5, <2>1, <2>3 DEF KeptOK, Droppable,
       LoggedOK, JobOK, Adds, Steps, Moved, Becomes, Known, WorkerOK,
       WorkerFine
  <2>19. QED
    BY <1>1, <1>2, <1>3, <1>4, <1>5, <2>1, <2>3, <2>4, <2>5, <2>6, <2>7, <2>8,
       <2>9, <2>10, <2>11, <2>12, <2>13, <2>14, <2>15, <2>16, <2>17, <2>18,
       WorksOn DEF VolumeFine, WorkerFine, WorkerOK, Others, Steps, Moved,
       Becomes, Early
<1>8. QED
  BY <1>3, <1>5, <1>6, <1>7 DEF CreateFollowup, Here

(* The volume is recorded, and the rest of it is left-overs.               *)
LEMMA PersistKeeps ==
  ASSUME IInv, NEW w \in Worker, Persist(w)
  PROVE  Keeps
<1>1. job[w].pc = "persist" /\ job[w].pc \notin Early
  BY DEF Persist, At, Early
<1>2. Known(w) /\ job[w] \in Job
  BY <1>1, Knows DEF IInv
<1>3. PICK x \in Volume : x = job[w].vol
  BY <1>2 DEF Known
<1>4. /\ UNCHANGED <<txn, placed, cache, online, queue, phase, mutex, opCache, promise>>
      /\ job[w].on \in Backend
  BY <1>1, <1>2 DEF Persist, requests, Known, WorkerOK, JobOK
<1>5. PICK b \in Backend : b = job[w].on
  BY <1>4
<1>6. CASE /\ store' = [store EXCEPT ![x] = b] /\ leftover' = leftover \ {<<x, b>>}
           /\ Goto(w, "upsert")
  <2>1. Moved(w, "upsert")
    BY <1>6, GotoMoves, Places DEF Goto, IInv
  <2>2. /\ Types' /\ store'[x] = b /\ \A v \in Volume : v # x => store'[v] = store[v]
        /\ \A v \in Volume, c \in Backend :
             <<v, c>> \in leftover' <=> <<v, c>> \in leftover /\ (v # x \/ c # b)
    BY <1>4, <1>6 DEF IInv, Types
  <2>3. Types'
    BY <1>1, <1>2, <1>3, <1>4, <1>5, <2>1, <2>2 DEF Types, Steps, Moved,
       Becomes, Known, WorkerOK, WorkerFine
  <2>4. Confined(w)
    BY <1>1, <1>2, <1>3, <1>4, <1>5, <2>1, <2>2, <2>3 DEF Confined, Steps,
       Moved, Becomes, Known, WorkerOK, WorkerFine
  <2>5. Guarded(w)
    BY <1>1, <1>2, <1>3, <1>4, <1>5, <2>1, <2>2 DEF Guarded, Early, Steps,
       Moved, Becomes, Known, WorkerOK, WorkerFine
  <2>6. JobOK(w)'
    BY <1>1, <1>2, <1>3, <1>4, <1>5, <2>1, <2>2 DEF JobOK, Early, Adds, Dels,
       Steps, Moved, Becomes, Known, WorkerOK, WorkerFine
  <2>7. LoggedOK(w)'
    BY <1>1, <1>2, <1>3, <1>4, <1>5, <2>1, <2>2 DEF LoggedOK, Adds, Dels,
       JobOK, Steps, Moved, Becomes, Known, WorkerOK, WorkerFine
  <2>8. DoneOK(w)'
    BY <1>1, <1>2, <1>3, <1>4, <1>5, <2>1, <2>2 DEF DoneOK, Steps, Moved,
       Becomes, Known, WorkerOK, WorkerFine
  <2>9. AskedOK(w)'
    BY <1>1, <1>2, <1>3, <1>4, <1>5, <2>1, <2>2 DEF AskedOK, Steps, Moved,
       Becomes, Known, WorkerOK, WorkerFine
  <2>10. RecordOK(x)'
    BY <1>1, <1>2, <1>3, <1>4, <1>5, <2>1, <2>2 DEF RecordOK, Steps, Moved,
       Becomes, Known, WorkerOK, WorkerFine
  <2>11. Single => AbsentOK(w)'
    BY <1>1, <1>2, <1>3, <1>4, <1>5, <2>1, <2>2 DEF AbsentOK, Steps, Moved,
       Becomes, Known, WorkerOK, WorkerFine
  <2>12. Single => SettledOK(w)'
    BY <1>1, <1>2, <1>3, <1>4, <1>5, <2>1, <2>2, NoneAssumption DEF SettledOK,
       Settled, Reachable, AbsentOK, JobOK, Adds, Steps, Moved, Becomes, Known,
       WorkerOK, WorkerFine
  <2>13. Single => MatchOK(x)'
    BY <1>1, <1>2, <1>3, <1>4, <1>5, <2>1, <2>2 DEF MatchOK, Steps, Moved,
       Becomes, Known, WorkerOK, WorkerFine
  <2>14. Single => SoleOK(x)'
    BY <1>1, <1>2, <1>3, <1>4, <1>5, <2>1, <2>2, NoneAssumption DEF SoleOK,
       Reachable, AbsentOK, JobOK, Adds, SettledOK, Settled, Steps, Moved,
       Becomes, Known, WorkerOK, WorkerFine
  <2>15. Single => TracedOK(x)'
    BY <1>1, <1>2, <1>3, <1>4, <1>5, <2>1, <2>2 DEF TracedOK, Settled,
       Reachable, LoggedOK, JobOK, Adds, Steps, Moved, Becomes, Known,
       WorkerOK, WorkerFine
  <2>16. Single => UntoldOK(x)'
    BY <1>1, <1>2, <1>3, <1>4, <1>5, <2>1, <2>2, NoneAssumption DEF UntoldOK,
       Droppable, LoggedOK, AbsentOK, JobOK, Adds, Steps, Moved, Becomes,
       Known, WorkerOK, WorkerFine
  <2>17. Single => KeptOK(x)'
    BY <1>1, <1>2, <1>3, <1>4, <1>5, <2>1, <2>2 DEF KeptOK, Droppable,
       LoggedOK, JobOK, Adds, Steps, Moved, Becomes, Known, WorkerOK,
       WorkerFine
  <2>18. QED
    BY <1>1, <1>2, <1>3, <1>4, <1>5, <2>1, <2>2, <2>3, <2>4, <2>5, <2>6, <2>7,
       <2>8, <2>9, <2>10, <2>11, <2>12, <2>13, <2>14, <2>15, <2>16, <2>17,
       WorksOn DEF VolumeFine, WorkerFine, WorkerOK, Others, Steps, Moved,
       Becomes, Early
<1>7. CASE /\ store' = store \/ store' = [store EXCEPT ![x] = None]
           /\ UNCHANGED leftover /\ job' = [job EXCEPT ![w].pc = "cleanup", ![w].err = TRUE]
  <2>1. Steps(w, "cleanup", job[w].old, job[w].todo, job[w].left, job[w].on, job[w].fresh, TRUE)
    BY <1>7, ErrMoves, Places DEF IInv
  <2>2. /\ Types' /\ store'[x] \in {store[x], None}
        /\ \A v \in Volume : v # x => store'[v] = store[v]
    BY <1>4, <1>7 DEF IInv, Types
  <2>3. Types'
    BY <1>1, <1>2, <1>3, <1>4, <1>5, <1>7, <2>1, <2>2 DEF Types, Steps, Moved,
       Becomes, Known, WorkerOK, WorkerFine
  <2>4. Confined(w)
    BY <1>1, <1>2, <1>3, <1>4, <1>5, <1>7, <2>1, <2>2, <2>3 DEF Confined,
       Steps, Moved, Becomes, Known, WorkerOK, WorkerFine
  <2>5. Guarded(w)
    BY <1>1, <1>2, <1>3, <1>4, <1>5, <1>7, <2>1, <2>2 DEF Guarded, Early,
       Steps, Moved, Becomes, Known, WorkerOK, WorkerFine
  <2>6. JobOK(w)'
    BY <1>1, <1>2, <1>3, <1>4, <1>5, <1>7, <2>1, <2>2 DEF JobOK, Early, Adds,
       Dels, Steps, Moved, Becomes, Known, WorkerOK, WorkerFine
  <2>7. LoggedOK(w)'
    BY <1>1, <1>2, <1>3, <1>4, <1>5, <1>7, <2>1, <2>2 DEF LoggedOK, Adds, Dels,
       JobOK, Steps, Moved, Becomes, Known, WorkerOK, WorkerFine
  <2>8. DoneOK(w)'
    BY <1>1, <1>2, <1>3, <1>4, <1>5, <1>7, <2>1, <2>2 DEF DoneOK, Steps, Moved,
       Becomes, Known, WorkerOK, WorkerFine
  <2>9. AskedOK(w)'
    BY <1>1, <1>2, <1>3, <1>4, <1>5, <1>7, <2>1, <2>2 DEF AskedOK, Steps,
       Moved, Becomes, Known, WorkerOK, WorkerFine
  <2>10. RecordOK(x)'
    BY <1>1, <1>2, <1>3, <1>4, <1>5, <1>7, <2>1, <2>2 DEF RecordOK, Steps,
       Moved, Becomes, Known, WorkerOK, WorkerFine
  <2>11. Single => AbsentOK(w)'
    BY <1>1, <1>2, <1>3, <1>4, <1>5, <1>7, <2>1, <2>2 DEF AbsentOK, Steps,
       Moved, Becomes, Known, WorkerOK, WorkerFine
  <2>12. Single => SettledOK(w)'
    BY <1>1, <1>2, <1>3, <1>4, <1>5, <1>7, <2>1, <2>2, NoneAssumption DEF
       SettledOK, Settled, Reachable, AbsentOK, JobOK, Adds, Steps, Moved,
       Becomes, Known, WorkerOK, WorkerFine
  <2>13. Single => MatchOK(x)'
    BY <1>1, <1>2, <1>3, <1>4, <1>5, <1>7, <2>1, <2>2, NoneAssumption DEF
       MatchOK, AbsentOK, JobOK, Adds, SettledOK, Settled, Steps, Moved,
       Becomes, Known, WorkerOK, WorkerFine
  <2>14. Single => SoleOK(x)'
    BY <1>1, <1>2, <1>3, <1>4, <1>5, <1>7, <2>1, <2>2 DEF SoleOK, Reachable,
       Steps, Moved, Becomes, Known, WorkerOK, WorkerFine
  <2>15. Single => TracedOK(x)'
    BY <1>1, <1>2, <1>3, <1>4, <1>5, <1>7, <2>1, <2>2 DEF TracedOK, Settled,
       Reachable, LoggedOK, JobOK, Adds, Steps, Moved, Becomes, Known,
       WorkerOK, WorkerFine
  <2>16. Single => UntoldOK(x)'
    BY <1>1, <1>2, <1>3, <1>4, <1>5, <1>7, <2>1, <2>2, NoneAssumption DEF
       UntoldOK, Droppable, LoggedOK, AbsentOK, JobOK, Adds, Steps, Moved,
       Becomes, Known, WorkerOK, WorkerFine
  <2>17. Single => KeptOK(x)'
    BY <1>1, <1>2, <1>3, <1>4, <1>5, <1>7, <2>1, <2>2 DEF KeptOK, Droppable,
       LoggedOK, JobOK, Adds, Steps, Moved, Becomes, Known, WorkerOK,
       WorkerFine
  <2>18. QED
    BY <1>1, <1>2, <1>3, <1>4, <1>5, <1>7, <2>1, <2>2, <2>3, <2>4, <2>5, <2>6,
       <2>7, <2>8, <2>9, <2>10, <2>11, <2>12, <2>13, <2>14, <2>15, <2>16,
       <2>17, WorksOn DEF VolumeFine, WorkerFine, WorkerOK, Others, Steps,
       Moved, Becomes, Early
<1>8. QED
  BY <1>3, <1>5, <1>6, <1>7 DEF Persist, Vol, Here

(* The cache follows the record.                                           *)
LEMMA UpsertKeeps ==
  ASSUME IInv, NEW w \in Worker, Upsert(w)
  PROVE  Keeps
<1>1. job[w].pc = "upsert" /\ job[w].pc \notin Early
  BY DEF Upsert, At, Early
<1>2. Known(w) /\ job[w] \in Job
  BY <1>1, Knows DEF IInv
<1>3. PICK x \in Volume : x = job[w].vol
  BY <1>2 DEF Known
<1>4. /\ UNCHANGED <<store, txn, placed, leftover, online, queue, phase, mutex, opCache, promise>>
      /\ job[w].on \in Backend /\ store[x] = job[w].on /\ job[w].op = "add"
  BY <1>1, <1>2, <1>3 DEF Upsert, requests, persistent, Known, WorkerOK, JobOK, DoneOK, Adds
<1>5. PICK b \in Backend : b = job[w].on
  BY <1>4
<1>6. Moved(w, "endTxn")
  BY GotoMoves, Places DEF Upsert, Goto, IInv
<1>7. Types' /\ cache'[x] = b /\ \A v \in Volume : v # x => cache'[v] = cache[v]
  BY <1>3, <1>4, <1>5 DEF Upsert, Vol, IInv, Types
<1>8. Types'
  BY <1>1, <1>2, <1>3, <1>4, <1>5, <1>6, <1>7 DEF Types, Steps, Moved, Becomes,
     Known, WorkerOK, WorkerFine
<1>9. Confined(w)
  BY <1>1, <1>2, <1>3, <1>4, <1>5, <1>6, <1>7, <1>8 DEF Confined, Steps, Moved,
     Becomes, Known, WorkerOK, WorkerFine
<1>10. Guarded(w)
  BY <1>1, <1>2, <1>3, <1>4, <1>5, <1>6, <1>7 DEF Guarded, Early, Steps, Moved,
     Becomes, Known, WorkerOK, WorkerFine
<1>11. JobOK(w)'
  BY <1>1, <1>2, <1>3, <1>4, <1>5, <1>6, <1>7 DEF JobOK, Early, Adds, Dels,
     Steps, Moved, Becomes, Known, WorkerOK, WorkerFine
<1>12. LoggedOK(w)'
  BY <1>1, <1>2, <1>3, <1>4, <1>5, <1>6, <1>7 DEF LoggedOK, Adds, Dels, JobOK,
     Steps, Moved, Becomes, Known, WorkerOK, WorkerFine
<1>13. DoneOK(w)'
  BY <1>1, <1>2, <1>3, <1>4, <1>5, <1>6, <1>7 DEF DoneOK, Steps, Moved,
     Becomes, Known, WorkerOK, WorkerFine
<1>14. AskedOK(w)'
  BY <1>1, <1>2, <1>3, <1>4, <1>5, <1>6, <1>7 DEF AskedOK, Steps, Moved,
     Becomes, Known, WorkerOK, WorkerFine
<1>15. RecordOK(x)'
  BY <1>1, <1>2, <1>3, <1>4, <1>5, <1>6, <1>7 DEF RecordOK, Steps, Moved,
     Becomes, Known, WorkerOK, WorkerFine
<1>16. Single => AbsentOK(w)'
  BY <1>1, <1>2, <1>3, <1>4, <1>5, <1>6, <1>7 DEF AbsentOK, Steps, Moved,
     Becomes, Known, WorkerOK, WorkerFine
<1>17. Single => SettledOK(w)'
  BY <1>1, <1>2, <1>3, <1>4, <1>5, <1>6, <1>7 DEF SettledOK, Settled,
     Reachable, Steps, Moved, Becomes, Known, WorkerOK, WorkerFine
<1>18. Single => MatchOK(x)'
  BY <1>1, <1>2, <1>3, <1>4, <1>5, <1>6, <1>7 DEF MatchOK, Steps, Moved,
     Becomes, Known, WorkerOK, WorkerFine
<1>19. Single => SoleOK(x)'
  BY <1>1, <1>2, <1>3, <1>4, <1>5, <1>6, <1>7 DEF SoleOK, Reachable, Steps,
     Moved, Becomes, Known, WorkerOK, WorkerFine
<1>20. Single => TracedOK(x)'
  BY <1>1, <1>2, <1>3, <1>4, <1>5, <1>6, <1>7 DEF TracedOK, Settled, Reachable,
     LoggedOK, JobOK, Adds, Steps, Moved, Becomes, Known, WorkerOK, WorkerFine
<1>21. Single => UntoldOK(x)'
  BY <1>1, <1>2, <1>3, <1>4, <1>5, <1>6, <1>7, BootAssumption DEF UntoldOK,
     Droppable, LoggedOK, JobOK, Adds, Worker, Steps, Moved, Becomes, Known,
     WorkerOK, WorkerFine
<1>22. Single => KeptOK(x)'
  BY <1>1, <1>2, <1>3, <1>4, <1>5, <1>6, <1>7 DEF KeptOK, Droppable, LoggedOK,
     JobOK, Adds, Steps, Moved, Becomes, Known, WorkerOK, WorkerFine
<1>23. QED
  BY <1>1, <1>2, <1>3, <1>4, <1>5, <1>6, <1>7, <1>8, <1>9, <1>10, <1>11, <1>12,
     <1>13, <1>14, <1>15, <1>16, <1>17, <1>18, <1>19, <1>20, <1>21, <1>22,
     WorksOn DEF VolumeFine, WorkerFine, WorkerOK, Others, Steps, Moved,
     Becomes, Early

(* addVolumeCleanup takes the volume off its backend.                      *)
LEMMA CleanupKeeps ==
  ASSUME IInv, NEW w \in Worker, Cleanup(w)
  PROVE  Keeps
<1>1. job[w].pc = "cleanup" /\ job[w].pc \notin Early
  BY DEF Cleanup, At, Early
<1>2. Known(w) /\ job[w] \in Job
  BY <1>1, Knows DEF IInv
<1>3. PICK x \in Volume : x = job[w].vol
  BY <1>2 DEF Known
<1>4. /\ UNCHANGED <<store, txn, cache, online, queue>> /\ job[w].on \in Backend /\ w # boot
  BY <1>1, <1>2 DEF Cleanup, Known, WorkerOK, JobOK, Adds
<1>5. PICK b \in Backend : b = job[w].on
  BY <1>4
<1>6. CASE /\ placed' = placed \ {<<x, b>>} /\ leftover' = leftover \ {<<x, b>>}
           /\ Goto(w, "endTxn") /\ UNCHANGED requests
  <2>1. Moved(w, "endTxn")
    BY <1>6, GotoMoves, Places DEF Goto, IInv
  <2>2. UNCHANGED <<phase, mutex, opCache, promise>>
    BY <1>6 DEF requests
  <2>3. /\ Types'
        /\ \A v \in Volume, c \in Backend :
             /\ <<v, c>> \in placed' <=> <<v, c>> \in placed /\ (v # x \/ c # b)
             /\ <<v, c>> \in leftover' <=> <<v, c>> \in leftover /\ (v # x \/ c # b)
    BY <1>4, <1>6, <2>2 DEF IInv, Types
  <2>4. Types'
    BY <1>1, <1>2, <1>3, <1>4, <1>5, <2>1, <2>2, <2>3 DEF Types, Steps, Moved,
       Becomes, Known, WorkerOK, WorkerFine
  <2>5. Confined(w)
    BY <1>1, <1>2, <1>3, <1>4, <1>5, <2>1, <2>2, <2>3, <2>4 DEF Confined,
       Steps, Moved, Becomes, Known, WorkerOK, WorkerFine
  <2>6. Guarded(w)
    BY <1>1, <1>2, <1>3, <1>4, <1>5, <2>1, <2>2, <2>3 DEF Guarded, Early,
       Steps, Moved, Becomes, Known, WorkerOK, WorkerFine
  <2>7. JobOK(w)'
    BY <1>1, <1>2, <1>3, <1>4, <1>5, <2>1, <2>2, <2>3 DEF JobOK, Early, Adds,
       Dels, Steps, Moved, Becomes, Known, WorkerOK, WorkerFine
  <2>8. LoggedOK(w)'
    BY <1>1, <1>2, <1>3, <1>4, <1>5, <2>1, <2>2, <2>3 DEF LoggedOK, Adds, Dels,
       JobOK, Steps, Moved, Becomes, Known, WorkerOK, WorkerFine
  <2>9. DoneOK(w)'
    BY <1>1, <1>2, <1>3, <1>4, <1>5, <2>1, <2>2, <2>3 DEF DoneOK, JobOK, Adds,
       Steps, Moved, Becomes, Known, WorkerOK, WorkerFine
  <2>10. AskedOK(w)'
    BY <1>1, <1>2, <1>3, <1>4, <1>5, <2>1, <2>2, <2>3 DEF AskedOK, Steps,
       Moved, Becomes, Known, WorkerOK, WorkerFine
  <2>11. RecordOK(x)'
    BY <1>1, <1>2, <1>3, <1>4, <1>5, <2>1, <2>2, <2>3 DEF RecordOK, Steps,
       Moved, Becomes, Known, WorkerOK, WorkerFine
  <2>12. Single => AbsentOK(w)'
    BY <1>1, <1>2, <1>3, <1>4, <1>5, <2>1, <2>2, <2>3 DEF AbsentOK, Steps,
       Moved, Becomes, Known, WorkerOK, WorkerFine
  <2>13. Single => SettledOK(w)'
    BY <1>1, <1>2, <1>3, <1>4, <1>5, <2>1, <2>2, <2>3 DEF SettledOK, Settled,
       Reachable, Steps, Moved, Becomes, Known, WorkerOK, WorkerFine
  <2>14. Single => MatchOK(x)'
    BY <1>1, <1>2, <1>3, <1>4, <1>5, <2>1, <2>2, <2>3 DEF MatchOK, Steps,
       Moved, Becomes, Known, WorkerOK, WorkerFine
  <2>15. Single => SoleOK(x)'
    BY <1>1, <1>2, <1>3, <1>4, <1>5, <2>1, <2>2, <2>3 DEF SoleOK, Reachable,
       Steps, Moved, Becomes, Known, WorkerOK, WorkerFine
  <2>16. Single => TracedOK(x)'
    BY <1>1, <1>2, <1>3, <1>4, <1>5, <2>1, <2>2, <2>3 DEF TracedOK, Settled,
       Reachable, LoggedOK, JobOK, Adds, Steps, Moved, Becomes, Known,
       WorkerOK, WorkerFine
  <2>17. Single => UntoldOK(x)'
    BY <1>1, <1>2, <1>3, <1>4, <1>5, <2>1, <2>2, <2>3, NoneAssumption DEF
       UntoldOK, Droppable, LoggedOK, AbsentOK, JobOK, Adds, Steps, Moved,
       Becomes, Known, WorkerOK, WorkerFine
  <2>18. Single => KeptOK(x)'
    BY <1>1, <1>2, <1>3, <1>4, <1>5, <2>1, <2>2, <2>3 DEF KeptOK, Droppable,
       LoggedOK, JobOK, Adds, Steps, Moved, Becomes, Known, WorkerOK,
       WorkerFine
  <2>19. QED
    BY <1>1, <1>2, <1>3, <1>4, <1>5, <2>1, <2>2, <2>3, <2>4, <2>5, <2>6, <2>7,
       <2>8, <2>9, <2>10, <2>11, <2>12, <2>13, <2>14, <2>15, <2>16, <2>17,
       <2>18, WorksOn DEF VolumeFine, WorkerFine, WorkerOK, Others, Steps,
       Moved, Becomes, Early
<1>7. CASE Return(w, FALSE) /\ UNCHANGED <<placed, leftover>>
  <2>1. Quits(w)
    BY <1>1, <1>4, <1>7, QuitsReturn DEF Early
  <2>2. QED
    BY <1>1, <1>3, <1>4, <1>7, <2>1, GivesUp DEF IInv, Types, Early
<1>8. QED
  BY <1>3, <1>5, <1>6, <1>7 DEF Cleanup, Here

(* A request deletes its transaction, and nothing depends on it any more.  *)
LEMMA EndTxnKeeps ==
  ASSUME IInv, NEW w \in Worker, EndTxn(w)
  PROVE  Keeps
<1>1. job[w].pc = "endTxn" /\ job[w].pc \notin Early
  BY DEF EndTxn, At, Early
<1>2. Known(w) /\ job[w] \in Job
  BY <1>1, Knows DEF IInv
<1>3. PICK x \in Volume : x = job[w].vol
  BY <1>2 DEF Known
<1>4. /\ UNCHANGED <<store, placed, leftover, cache, online, queue>> /\ w # boot
      /\ job[w].op \in {"add", "delete"} /\ txn[x] = job[w].op /\ job[w].pc # "idle"
  BY <1>1, <1>2, <1>3 DEF EndTxn, Known, WorkerOK, JobOK, LoggedOK, Job, Op, Early
<1>5. ASSUME Return(w, FALSE), "txn" \in Fault \/ job[w].err,
             txn' = txn \/ txn' = [txn EXCEPT ![x] = "none"]
      PROVE  Keeps
  <2>1. Quits(w)
    BY <1>4, <1>5, QuitsReturn
  <2>2. Ended(w) /\ Released(w) /\ promise' = promise /\ phase' = phase /\ phase = "up"
    BY <1>2, <1>4, <2>1 DEF Quits, Known
  <2>3. /\ txn' \in [Volume -> Op] /\ txn'[x] \in {txn[x], "none"}
        /\ \A v \in Volume : v # x => txn'[v] = txn[v]
    BY <1>5 DEF IInv, Types, Op
  <2>4. Types'
    BY <1>1, <1>2, <1>3, <1>4, <1>5, <2>1, <2>2, <2>3 DEF Types, IInv, Quits,
       Released, Steps, Moved, Becomes, Known, WorkerOK, WorkerFine
  <2>5. Confined(w)
    BY <1>1, <1>2, <1>3, <1>4, <1>5, <2>1, <2>2, <2>3, <2>4 DEF Confined,
       Steps, Moved, Becomes, Known, WorkerOK, WorkerFine
  <2>6. Guarded(w)
    BY <1>1, <1>2, <1>3, <1>4, <1>5, <2>1, <2>2, <2>3 DEF Guarded, Early,
       Steps, Moved, Becomes, Known, WorkerOK, WorkerFine
  <2>7. RecordOK(x)'
    BY <1>1, <1>2, <1>3, <1>4, <1>5, <2>1, <2>2, <2>3 DEF RecordOK, Steps,
       Moved, Becomes, Known, WorkerOK, WorkerFine
  <2>8. Single => MatchOK(x)'
    BY <1>1, <1>2, <1>3, <1>4, <1>5, <2>1, <2>2, <2>3 DEF MatchOK, Definite,
       Steps, Moved, Becomes, Known, WorkerOK, WorkerFine
  <2>9. Single => SoleOK(x)'
    BY <1>1, <1>2, <1>3, <1>4, <1>5, <2>1, <2>2, <2>3 DEF SoleOK, Reachable,
       Steps, Moved, Becomes, Known, WorkerOK, WorkerFine
  <2>10. Single => TracedOK(x)'
    BY <1>1, <1>2, <1>3, <1>4, <1>5, <2>1, <2>2, <2>3 DEF TracedOK, Settled,
       Reachable, SettledOK, Steps, Moved, Becomes, Known, WorkerOK, WorkerFine
  <2>11. Single => UntoldOK(x)'
    BY <1>1, <1>2, <1>3, <1>4, <1>5, <2>1, <2>2, <2>3, NoneAssumption DEF
       UntoldOK, Droppable, AbsentOK, Steps, Moved, Becomes, Known, WorkerOK,
       WorkerFine
  <2>12. Single => KeptOK(x)'
    BY <1>1, <1>2, <1>3, <1>4, <1>5, <2>1, <2>2, <2>3 DEF KeptOK, Droppable,
       JobOK, Steps, Moved, Becomes, Known, WorkerOK, WorkerFine
  <2>13. QED
    BY <1>1, <1>2, <1>3, <1>4, <1>5, <2>1, <2>2, <2>3, <2>4, <2>5, <2>6, <2>7,
       <2>8, <2>9, <2>10, <2>11, <2>12, Finishes DEF VolumeFine
<1>6. CASE txn' = [txn EXCEPT ![x] = "none"] /\ Return(w, ~job[w].err) /\ ~job[w].err
  <2>1. Return(w, TRUE)
    BY <1>2, <1>6 DEF Job
  <2>2. Ended(w)
    BY <2>1, EndsMoves DEF Return, IInv
  <2>3. Released(w) /\ phase' = phase /\ phase = "up" /\ opCache' \subseteq Volume
    BY <1>2, <1>3, <1>4, <2>1 DEF Return, Released, IInv, Types, Vol, Known
  <2>4. promise' = [promise EXCEPT ![x] =
          IF job[w].op = "add" THEN IF @ = "none" THEN IF Deleting(x) THEN "doomed" ELSE "acked"
                                    ELSE @
          ELSE "none"]
    BY <1>3, <1>4, <2>1 DEF Return, Vol
  <2>5. /\ promise' \in [Volume -> {"none", "acked", "doomed"}]
        /\ \A v \in Volume : v # x => promise'[v] = promise[v]
        /\ job[w].op = "add" => promise'[x] # "none"
        /\ promise'[x] = "acked" => job[w].op = "add"
        /\ promise'[x] = "acked" => promise[x] = "acked" \/ ~Deleting(x)
    BY <1>4, <2>4 DEF IInv, Types
  <2>6. /\ txn' \in [Volume -> Op] /\ txn'[x] = "none"
        /\ \A v \in Volume : v # x => txn'[v] = txn[v]
    BY <1>6 DEF IInv, Types, Op
  <2>7. Types'
    BY <1>1, <1>2, <1>3, <1>4, <1>6, <2>2, <2>3, <2>5, <2>6 DEF Types, IInv,
       Released, Steps, Moved, Becomes, Known, WorkerOK, WorkerFine
  <2>8. Confined(w)
    BY <1>1, <1>2, <1>3, <1>4, <1>6, <2>2, <2>3, <2>5, <2>6, <2>7 DEF Confined,
       Steps, Moved, Becomes, Known, WorkerOK, WorkerFine
  <2>9. Guarded(w)
    BY <1>1, <1>2, <1>3, <1>4, <1>6, <2>2, <2>3, <2>5, <2>6 DEF Guarded, Early,
       Steps, Moved, Becomes, Known, WorkerOK, WorkerFine
  <2>10. RecordOK(x)'
    BY <1>1, <1>2, <1>3, <1>4, <1>6, <2>2, <2>3, <2>5, <2>6 DEF RecordOK,
       Steps, Moved, Becomes, Known, WorkerOK, WorkerFine
  <2>11. Single => MatchOK(x)'
    BY <1>1, <1>2, <1>3, <1>4, <1>6, <2>2, <2>3, <2>5, <2>6 DEF MatchOK,
       Definite, Steps, Moved, Becomes, Known, WorkerOK, WorkerFine
  <2>12. Single => SoleOK(x)'
    BY <1>1, <1>2, <1>3, <1>4, <1>6, <2>2, <2>3, <2>5, <2>6 DEF SoleOK,
       Reachable, Steps, Moved, Becomes, Known, WorkerOK, WorkerFine
  <2>13. Single => TracedOK(x)'
    BY <1>1, <1>2, <1>3, <1>4, <1>6, <2>2, <2>3, <2>5, <2>6 DEF TracedOK,
       Settled, Reachable, SettledOK, Steps, Moved, Becomes, Known, WorkerOK,
       WorkerFine
  <2>14. Single => UntoldOK(x)'
    BY <1>1, <1>2, <1>3, <1>4, <1>6, <2>2, <2>3, <2>5, <2>6, NoneAssumption DEF
       UntoldOK, Droppable, DoneOK, Steps, Moved, Becomes, Known, WorkerOK,
       WorkerFine
  <2>15. Single => KeptOK(x)'
    BY <1>1, <1>2, <1>3, <1>4, <1>6, <2>2, <2>3, <2>5, <2>6, NoneAssumption DEF
       KeptOK, Droppable, DoneOK, Steps, Moved, Becomes, Known, WorkerOK,
       WorkerFine
  <2>16. QED
    BY <1>1, <1>2, <1>3, <1>4, <1>6, <2>2, <2>3, <2>5, <2>6, <2>7, <2>8, <2>9,
       <2>10, <2>11, <2>12, <2>13, <2>14, <2>15, Finishes DEF VolumeFine
<1>7. QED
  <2>1. CASE "txn" \in Fault /\ Return(w, FALSE) /\ txn' \in AfterFailure(txn, [txn EXCEPT ![x] = "none"])
    BY <1>5, <2>1 DEF AfterFailure
  <2>2. CASE txn' = [txn EXCEPT ![x] = "none"] /\ Return(w, ~job[w].err) /\ job[w].err
    <3>1. Return(w, FALSE)
      BY <1>2, <2>2 DEF Job
    <3>2. QED
      BY <1>5, <2>2, <3>1
  <2>3. QED
    BY <1>2, <1>3, <1>6, <2>1, <2>2 DEF EndTxn, Vol, Job

(* deleteVolume stops before the cache entry is gone.                      *)
LEMMA DeleteStops ==
  ASSUME IInv, NEW w \in Worker, job[w].pc \in {"del", "remove", "unpersist"},
         NEW x \in Volume, x = job[w].vol, NEW res,
         res = "failed" \/ (res = "notFound" /\ cache[x] = None), DeleteEnds(w, res),
         UNCHANGED <<txn, placed, leftover, cache, online, queue>>,
         store' \in [Volume -> Backend \cup {None}],
         \A v \in Volume : v # x => store'[v] = store[v],
         \/ store'[x] = store[x]
         \/ store'[x] = None /\ job[w].pc = "unpersist" /\ ~Definite
  PROVE  Keeps
<1>1. job[w].pc \notin Early
  BY DEF Early
<1>2. Known(w) /\ job[w] \in Job
  BY <1>1, Knows DEF IInv
<1>3. job[w].old \in {"none", "add", "delete"}
  BY <1>2 DEF Job, Op
<1>4. CASE job[w].old = "add"
  <2>1. ReplayFails(w)
    BY <1>4 DEF DeleteEnds
  <2>2. Quits(w)
    BY <1>1, <2>1, QuitsReplay
  <2>3. QED
    BY <1>1, <2>2, GivesUp DEF IInv, Types, Early
<1>5. CASE job[w].old # "add"
  <2>1. /\ UNCHANGED <<phase, mutex, opCache, promise>>
        /\ \/ /\ job[w].old = "delete"
              /\ Moved(w, "dropTxn")
           \/ /\ job[w].old = "none" /\ job[w].op = "delete"
              /\ Steps(w, "endTxn", job[w].old, job[w].todo, job[w].left, job[w].on,
                       job[w].fresh, res = "failed")
    <3>1. CASE job[w].old = "none"
      <4>1. job' = [job EXCEPT ![w].pc = "endTxn", ![w].err = (res = "failed")]
        BY <3>1 DEF DeleteEnds
      <4>2. PICK e \in BOOLEAN : e = (res = "failed")
        OBVIOUS
      <4>3. Steps(w, "endTxn", job[w].old, job[w].todo, job[w].left, job[w].on, job[w].fresh, e)
        BY <4>1, <4>2, ErrMoves, Places DEF IInv
      <4>4. QED
        BY <1>2, <3>1, <4>2, <4>3 DEF DeleteEnds, requests, Known, WorkerOK, JobOK, Dels
    <3>2. CASE job[w].old = "delete"
      <4>1. Goto(w, "dropTxn") /\ UNCHANGED requests
        BY <3>2 DEF DeleteEnds
      <4>2. QED
        BY <3>2, <4>1, GotoMoves, Places DEF Goto, IInv, requests
    <3>3. QED
      BY <1>3, <1>5, <3>1, <3>2
  <2>2. txn[x] = "delete"
    BY <1>2, <2>1 DEF Known, WorkerOK, LoggedOK, Dels
  <2>3. ASSUME Single, Reachable, NEW c \in Backend, <<x, c>> \in placed
        PROVE  store'[x] = c \/ <<x, c>> \in leftover
    <3>1. store[x] = c \/ <<x, c>> \in leftover
      BY <1>2, <2>2, <2>3 DEF Known, TracedOK, Settled
    <3>2. store'[x] = store[x] \/ store[x] # c
      BY <1>2, <2>3, NoneAssumption DEF Known, WorkerOK, DoneOK
    <3>3. QED
      BY <3>1, <3>2
  <2>4. Types'
    BY <1>1, <1>2, <2>1, <2>2, <2>3 DEF Types, IInv, Steps, Moved, Becomes,
       Known, WorkerOK, WorkerFine
  <2>5. Confined(w)
    BY <1>1, <1>2, <2>1, <2>2, <2>3, <2>4 DEF Confined, Steps, Moved, Becomes,
       Known, WorkerOK, WorkerFine
  <2>6. Guarded(w)
    BY <1>1, <1>2, <2>1, <2>2, <2>3 DEF Guarded, Early, Steps, Moved, Becomes,
       Known, WorkerOK, WorkerFine
  <2>7. JobOK(w)'
    BY <1>1, <1>2, <2>1, <2>2, <2>3, <1>5 DEF JobOK, Early, Adds, Dels, Steps,
       Moved, Becomes, Known, WorkerOK, WorkerFine
  <2>8. LoggedOK(w)'
    BY <1>1, <1>2, <2>1, <2>2, <2>3 DEF LoggedOK, Adds, Dels, Steps, Moved,
       Becomes, Known, WorkerOK, WorkerFine
  <2>9. DoneOK(w)'
    BY <1>1, <1>2, <2>1, <2>2, <2>3 DEF DoneOK, Steps, Moved, Becomes, Known,
       WorkerOK, WorkerFine
  <2>10. AskedOK(w)'
    BY <1>1, <1>2, <2>1, <2>2, <2>3 DEF AskedOK, Steps, Moved, Becomes, Known,
       WorkerOK, WorkerFine
  <2>11. RecordOK(x)'
    BY <1>1, <1>2, <2>1, <2>2, <2>3 DEF RecordOK, Steps, Moved, Becomes, Known,
       WorkerOK, WorkerFine
  <2>12. Single => AbsentOK(w)'
    BY <1>1, <1>2, <2>1, <2>2, <2>3 DEF AbsentOK, Steps, Moved, Becomes, Known,
       WorkerOK, WorkerFine
  <2>13. Single => SettledOK(w)'
    BY <1>1, <1>2, <2>1, <2>2, <2>3 DEF SettledOK, Settled, Reachable, Steps,
       Moved, Becomes, Known, WorkerOK, WorkerFine
  <2>14. Single => MatchOK(x)'
    BY <1>1, <1>2, <2>1, <2>2, <2>3 DEF MatchOK, Definite, Steps, Moved,
       Becomes, Known, WorkerOK, WorkerFine
  <2>15. Single => SoleOK(x)'
    BY <1>1, <1>2, <2>1, <2>2, <2>3 DEF SoleOK, Reachable, Steps, Moved,
       Becomes, Known, WorkerOK, WorkerFine
  <2>16. Single => TracedOK(x)'
    BY <1>1, <1>2, <2>1, <2>2, <2>3 DEF TracedOK, Settled, Reachable, Steps,
       Moved, Becomes, Known, WorkerOK, WorkerFine
  <2>17. Single => UntoldOK(x)'
    BY <1>1, <1>2, <2>1, <2>2, <2>3 DEF UntoldOK, Droppable, Steps, Moved,
       Becomes, Known, WorkerOK, WorkerFine
  <2>18. Single => KeptOK(x)'
    BY <1>1, <1>2, <2>1, <2>2, <2>3 DEF KeptOK, Droppable, Steps, Moved,
       Becomes, Known, WorkerOK, WorkerFine
  <2>19. QED
    BY <1>1, <1>2, <2>1, <2>2, <2>3, <2>4, <2>5, <2>6, <2>7, <2>8, <2>9, <2>10,
       <2>11, <2>12, <2>13, <2>14, <2>15, <2>16, <2>17, <2>18, WorksOn DEF
       VolumeFine, WorkerFine, WorkerOK, Others, Steps, Moved, Becomes, Early
<1>6. QED
  BY <1>4, <1>5

(* deleteVolume reads the cache.                                           *)
LEMMA ReadVolumeKeeps ==
  ASSUME IInv, NEW w \in Worker, ReadVolume(w)
  PROVE  Keeps
<1>1. job[w].pc = "del" /\ job[w].pc \notin Early
  BY DEF ReadVolume, At, Early
<1>2. Known(w) /\ job[w] \in Job
  BY <1>1, Knows DEF IInv
<1>3. PICK x \in Volume : x = job[w].vol
  BY <1>2 DEF Known
<1>4. UNCHANGED <<store, txn, placed, leftover, cache, online, queue>>
  BY DEF ReadVolume, persistent
<1>5. CASE cache[x] = None
  BY <1>1, <1>3, <1>4, <1>5, DeleteStops DEF ReadVolume, Vol, IInv, Types
<1>6. CASE cache[x] # None
  <2>1. cache[x] \in Backend
    BY <1>6 DEF IInv, Types
  <2>2. job' = [job EXCEPT ![w].pc = "remove", ![w].on = cache[x]] /\ UNCHANGED requests
    BY <1>3, <1>6 DEF ReadVolume, Vol
  <2>3. Steps(w, "remove", job[w].old, job[w].todo, job[w].left, cache[x], job[w].fresh,
              job[w].err)
    BY <2>1, <2>2, OnMoves, Places DEF IInv
  <2>4. UNCHANGED <<phase, mutex, opCache, promise>>
    BY <2>2 DEF requests
  <2>5. JobOK(w)'
    BY <1>1, <1>2, <1>3, <1>4, <2>1, <2>3, <2>4 DEF JobOK, Early, Adds, Dels,
       Steps, Moved, Becomes, Known, WorkerOK, WorkerFine
  <2>6. LoggedOK(w)'
    BY <1>1, <1>2, <1>3, <1>4, <2>1, <2>3, <2>4 DEF LoggedOK, Adds, Dels,
       JobOK, Steps, Moved, Becomes, Known, WorkerOK, WorkerFine
  <2>7. DoneOK(w)'
    BY <1>1, <1>2, <1>3, <1>4, <2>1, <2>3, <2>4 DEF DoneOK, Steps, Moved,
       Becomes, Known, WorkerOK, WorkerFine
  <2>8. Single => SettledOK(w)'
    BY <1>1, <1>2, <1>3, <1>4, <2>1, <2>3, <2>4 DEF SettledOK, Settled,
       Reachable, Steps, Moved, Becomes, Known, WorkerOK, WorkerFine
  <2>9. QED
    BY <1>1, <1>2, <1>3, <1>4, <2>1, <2>3, <2>4, <2>5, <2>6, <2>7, <2>8, Walks
       DEF Others, Steps, Moved, Becomes, Early
<1>7. QED
  BY <1>5, <1>6

(* The driver deletes the volume before its record goes.                   *)
LEMMA RemoveVolumeKeeps ==
  ASSUME IInv, NEW w \in Worker, RemoveVolume(w)
  PROVE  Keeps
<1>1. job[w].pc = "remove" /\ job[w].pc \notin Early
  BY DEF RemoveVolume, At, Early
<1>2. Known(w) /\ job[w] \in Job
  BY <1>1, Knows DEF IInv
<1>3. PICK x \in Volume : x = job[w].vol
  BY <1>2 DEF Known
<1>4. UNCHANGED <<store, txn, cache, online, queue>> /\ job[w].on \in Backend
  BY <1>1, <1>2 DEF RemoveVolume, Known, WorkerOK, JobOK
<1>5. PICK b \in Backend : b = job[w].on
  BY <1>4
<1>6. CASE /\ placed' = placed \ {<<x, b>>} /\ leftover' = leftover \ {<<x, b>>}
           /\ Goto(w, "unpersist") /\ UNCHANGED requests
  <2>1. Moved(w, "unpersist")
    BY <1>6, GotoMoves, Places DEF Goto, IInv
  <2>2. UNCHANGED <<phase, mutex, opCache, promise>>
    BY <1>6 DEF requests
  <2>3. /\ Types'
        /\ \A v \in Volume, c \in Backend :
             /\ <<v, c>> \in placed' <=> <<v, c>> \in placed /\ (v # x \/ c # b)
             /\ <<v, c>> \in leftover' <=> <<v, c>> \in leftover /\ (v # x \/ c # b)
    BY <1>4, <1>6, <2>2 DEF IInv, Types
  <2>4. txn[x] # "none"
    BY <1>1, <1>2, <1>3 DEF Known, WorkerOK, LoggedOK, JobOK, Dels
  <2>5. Types'
    BY <1>1, <1>2, <1>3, <1>4, <1>5, <2>1, <2>2, <2>3, <2>4 DEF Types, Steps,
       Moved, Becomes, Known, WorkerOK, WorkerFine
  <2>6. Confined(w)
    BY <1>1, <1>2, <1>3, <1>4, <1>5, <2>1, <2>2, <2>3, <2>4, <2>5 DEF Confined,
       Steps, Moved, Becomes, Known, WorkerOK, WorkerFine
  <2>7. Guarded(w)
    BY <1>1, <1>2, <1>3, <1>4, <1>5, <2>1, <2>2, <2>3, <2>4 DEF Guarded, Early,
       Steps, Moved, Becomes, Known, WorkerOK, WorkerFine
  <2>8. JobOK(w)'
    BY <1>1, <1>2, <1>3, <1>4, <1>5, <2>1, <2>2, <2>3, <2>4 DEF JobOK, Early,
       Adds, Dels, Steps, Moved, Becomes, Known, WorkerOK, WorkerFine
  <2>9. LoggedOK(w)'
    BY <1>1, <1>2, <1>3, <1>4, <1>5, <2>1, <2>2, <2>3, <2>4 DEF LoggedOK, Adds,
       Dels, JobOK, Steps, Moved, Becomes, Known, WorkerOK, WorkerFine
  <2>10. DoneOK(w)'
    BY <1>1, <1>2, <1>3, <1>4, <1>5, <2>1, <2>2, <2>3, <2>4 DEF DoneOK, Steps,
       Moved, Becomes, Known, WorkerOK, WorkerFine
  <2>11. AskedOK(w)'
    BY <1>1, <1>2, <1>3, <1>4, <1>5, <2>1, <2>2, <2>3, <2>4 DEF AskedOK, Steps,
       Moved, Becomes, Known, WorkerOK, WorkerFine
  <2>12. RecordOK(x)'
    BY <1>1, <1>2, <1>3, <1>4, <1>5, <2>1, <2>2, <2>3, <2>4 DEF RecordOK,
       Steps, Moved, Becomes, Known, WorkerOK, WorkerFine
  <2>13. Single => AbsentOK(w)'
    BY <1>1, <1>2, <1>3, <1>4, <1>5, <2>1, <2>2, <2>3, <2>4 DEF AbsentOK,
       Steps, Moved, Becomes, Known, WorkerOK, WorkerFine
  <2>14. Single => SettledOK(w)'
    BY <1>1, <1>2, <1>3, <1>4, <1>5, <2>1, <2>2, <2>3, <2>4 DEF SettledOK,
       Settled, Reachable, Steps, Moved, Becomes, Known, WorkerOK, WorkerFine
  <2>15. Single => MatchOK(x)'
    BY <1>1, <1>2, <1>3, <1>4, <1>5, <2>1, <2>2, <2>3, <2>4 DEF MatchOK, Steps,
       Moved, Becomes, Known, WorkerOK, WorkerFine
  <2>16. Single => SoleOK(x)'
    BY <1>1, <1>2, <1>3, <1>4, <1>5, <2>1, <2>2, <2>3, <2>4 DEF SoleOK,
       Reachable, Steps, Moved, Becomes, Known, WorkerOK, WorkerFine
  <2>17. Single => TracedOK(x)'
    BY <1>1, <1>2, <1>3, <1>4, <1>5, <2>1, <2>2, <2>3, <2>4 DEF TracedOK,
       Settled, Reachable, Steps, Moved, Becomes, Known, WorkerOK, WorkerFine
  <2>18. Single => UntoldOK(x)'
    BY <1>1, <1>2, <1>3, <1>4, <1>5, <2>1, <2>2, <2>3, <2>4 DEF UntoldOK,
       Droppable, Steps, Moved, Becomes, Known, WorkerOK, WorkerFine
  <2>19. Single => KeptOK(x)'
    BY <1>1, <1>2, <1>3, <1>4, <1>5, <2>1, <2>2, <2>3, <2>4 DEF KeptOK,
       Droppable, Steps, Moved, Becomes, Known, WorkerOK, WorkerFine
  <2>20. QED
    BY <1>1, <1>2, <1>3, <1>4, <1>5, <2>1, <2>2, <2>3, <2>4, <2>5, <2>6, <2>7,
       <2>8, <2>9, <2>10, <2>11, <2>12, <2>13, <2>14, <2>15, <2>16, <2>17,
       <2>18, <2>19, WorksOn DEF VolumeFine, WorkerFine, WorkerOK, Others,
       Steps, Moved, Becomes, Early
<1>7. CASE DeleteEnds(w, "failed") /\ UNCHANGED <<placed, leftover>>
  BY <1>1, <1>3, <1>4, <1>7, DeleteStops DEF IInv, Types
<1>8. QED
  BY <1>3, <1>5, <1>6, <1>7 DEF RemoveVolume, Here

(* The record goes.                                                        *)
LEMMA UnpersistKeeps ==
  ASSUME IInv, NEW w \in Worker, Unpersist(w)
  PROVE  Keeps
<1>1. job[w].pc = "unpersist" /\ job[w].pc \notin Early
  BY DEF Unpersist, At, Early
<1>2. Known(w) /\ job[w] \in Job
  BY <1>1, Knows DEF IInv
<1>3. PICK x \in Volume : x = job[w].vol
  BY <1>2 DEF Known
<1>4. UNCHANGED <<txn, placed, leftover, cache, online, queue>> /\ job[w].on \in Backend
  BY <1>1, <1>2 DEF Unpersist, Known, WorkerOK, JobOK
<1>5. CASE store' = [store EXCEPT ![x] = None] /\ Goto(w, "uncache") /\ UNCHANGED requests
  <2>1. Moved(w, "uncache")
    BY <1>5, GotoMoves, Places DEF Goto, IInv
  <2>2. UNCHANGED <<phase, mutex, opCache, promise>>
    BY <1>5 DEF requests
  <2>3. /\ Types' /\ store'[x] = None
        /\ \A v \in Volume : v # x => store'[v] = store[v]
    BY <1>4, <1>5, <2>2 DEF IInv, Types
  <2>4. txn[x] # "none"
    BY <1>1, <1>2, <1>3 DEF Known, WorkerOK, LoggedOK, JobOK, Dels
  <2>5. ASSUME Single, Reachable, NEW c \in Backend, <<x, c>> \in placed, txn[x] # "add"
        PROVE  <<x, c>> \in leftover
    BY <1>1, <1>2, <1>3, <2>5, NoneAssumption
       DEF Known, TracedOK, Settled, WorkerOK, DoneOK
  <2>6. Types'
    BY <1>1, <1>2, <1>3, <1>4, <2>1, <2>2, <2>3, <2>4, <2>5 DEF Types, Steps,
       Moved, Becomes, Known, WorkerOK, WorkerFine
  <2>7. Confined(w)
    BY <1>1, <1>2, <1>3, <1>4, <2>1, <2>2, <2>3, <2>4, <2>5, <2>6 DEF Confined,
       Steps, Moved, Becomes, Known, WorkerOK, WorkerFine
  <2>8. Guarded(w)
    BY <1>1, <1>2, <1>3, <1>4, <2>1, <2>2, <2>3, <2>4, <2>5 DEF Guarded, Early,
       Steps, Moved, Becomes, Known, WorkerOK, WorkerFine
  <2>9. JobOK(w)'
    BY <1>1, <1>2, <1>3, <1>4, <2>1, <2>2, <2>3, <2>4, <2>5 DEF JobOK, Early,
       Adds, Dels, Steps, Moved, Becomes, Known, WorkerOK, WorkerFine
  <2>10. LoggedOK(w)'
    BY <1>1, <1>2, <1>3, <1>4, <2>1, <2>2, <2>3, <2>4, <2>5 DEF LoggedOK, Adds,
       Dels, JobOK, Steps, Moved, Becomes, Known, WorkerOK, WorkerFine
  <2>11. DoneOK(w)'
    BY <1>1, <1>2, <1>3, <1>4, <2>1, <2>2, <2>3, <2>4, <2>5 DEF DoneOK, Steps,
       Moved, Becomes, Known, WorkerOK, WorkerFine
  <2>12. AskedOK(w)'
    BY <1>1, <1>2, <1>3, <1>4, <2>1, <2>2, <2>3, <2>4, <2>5 DEF AskedOK, Steps,
       Moved, Becomes, Known, WorkerOK, WorkerFine
  <2>13. RecordOK(x)'
    BY <1>1, <1>2, <1>3, <1>4, <2>1, <2>2, <2>3, <2>4, <2>5 DEF RecordOK,
       Steps, Moved, Becomes, Known, WorkerOK, WorkerFine
  <2>14. Single => AbsentOK(w)'
    BY <1>1, <1>2, <1>3, <1>4, <2>1, <2>2, <2>3, <2>4, <2>5 DEF AbsentOK,
       Steps, Moved, Becomes, Known, WorkerOK, WorkerFine
  <2>15. Single => SettledOK(w)'
    BY <1>1, <1>2, <1>3, <1>4, <2>1, <2>2, <2>3, <2>4, <2>5 DEF SettledOK,
       Settled, Reachable, Steps, Moved, Becomes, Known, WorkerOK, WorkerFine
  <2>16. Single => MatchOK(x)'
    BY <1>1, <1>2, <1>3, <1>4, <2>1, <2>2, <2>3, <2>4, <2>5 DEF MatchOK, Steps,
       Moved, Becomes, Known, WorkerOK, WorkerFine
  <2>17. Single => SoleOK(x)'
    BY <1>1, <1>2, <1>3, <1>4, <2>1, <2>2, <2>3, <2>4, <2>5 DEF SoleOK,
       Reachable, Steps, Moved, Becomes, Known, WorkerOK, WorkerFine
  <2>18. Single => TracedOK(x)'
    BY <1>1, <1>2, <1>3, <1>4, <2>1, <2>2, <2>3, <2>4, <2>5 DEF TracedOK,
       Settled, Reachable, Steps, Moved, Becomes, Known, WorkerOK, WorkerFine
  <2>19. Single => UntoldOK(x)'
    BY <1>1, <1>2, <1>3, <1>4, <2>1, <2>2, <2>3, <2>4, <2>5 DEF UntoldOK,
       Droppable, Steps, Moved, Becomes, Known, WorkerOK, WorkerFine
  <2>20. Single => KeptOK(x)'
    BY <1>1, <1>2, <1>3, <1>4, <2>1, <2>2, <2>3, <2>4, <2>5 DEF KeptOK,
       Droppable, Steps, Moved, Becomes, Known, WorkerOK, WorkerFine
  <2>21. QED
    BY <1>1, <1>2, <1>3, <1>4, <2>1, <2>2, <2>3, <2>4, <2>5, <2>6, <2>7, <2>8,
       <2>9, <2>10, <2>11, <2>12, <2>13, <2>14, <2>15, <2>16, <2>17, <2>18,
       <2>19, <2>20, WorksOn DEF VolumeFine, WorkerFine, WorkerOK, Others,
       Steps, Moved, Becomes, Early
<1>6. CASE /\ "store" \in Fault /\ DeleteEnds(w, "failed")
           /\ store' \in AfterFailure(store, [store EXCEPT ![x] = None])
  <2>1. /\ store' \in [Volume -> Backend \cup {None}]
        /\ \A v \in Volume : v # x => store'[v] = store[v]
        /\ store'[x] = store[x] \/ (store'[x] = None /\ ~Definite)
    BY <1>6 DEF AfterFailure, Definite, IInv, Types
  <2>2. QED
    BY <1>1, <1>3, <1>4, <1>6, <2>1, DeleteStops
<1>7. QED
  BY <1>3, <1>5, <1>6 DEF Unpersist, Vol

(* And the cache entry.                                                    *)
LEMMA UncacheKeeps ==
  ASSUME IInv, NEW w \in Worker, Uncache(w)
  PROVE  Keeps
<1>1. job[w].pc = "uncache" /\ job[w].pc \notin Early
  BY DEF Uncache, At, Early
<1>2. Known(w) /\ job[w] \in Job
  BY <1>1, Knows DEF IInv
<1>3. PICK x \in Volume : x = job[w].vol
  BY <1>2 DEF Known
<1>4. UNCHANGED <<store, txn, placed, leftover, online, queue>> /\ job[w].on \in Backend
  BY <1>1, <1>2 DEF Uncache, persistent, Known, WorkerOK, JobOK
<1>5. /\ UNCHANGED <<phase, mutex, opCache, promise>>
      /\ \/ job[w].old # "none" /\ Moved(w, "dropTxn")
         \/ /\ job[w].old = "none" /\ job[w].op = "delete"
            /\ Steps(w, "endTxn", job[w].old, job[w].todo, job[w].left, job[w].on,
                     job[w].fresh, FALSE)
  <2>1. CASE job[w].old = "none"
    <3>1. job' = [job EXCEPT ![w].pc = "endTxn", ![w].err = FALSE] /\ UNCHANGED requests
      BY <2>1 DEF Uncache, DeleteEnds
    <3>2. Steps(w, "endTxn", job[w].old, job[w].todo, job[w].left, job[w].on, job[w].fresh, FALSE)
      BY <3>1, ErrMoves, Places DEF IInv
    <3>3. QED
      BY <1>1, <1>2, <2>1, <3>1, <3>2 DEF requests, Known, WorkerOK, JobOK, Dels
  <2>2. CASE job[w].old # "none"
    <3>1. Goto(w, "dropTxn") /\ UNCHANGED requests
      BY <2>2 DEF Uncache, DeleteEnds
    <3>2. QED
      BY <2>2, <3>1, GotoMoves, Places DEF Goto, IInv, requests
  <2>3. QED
    BY <2>1, <2>2
<1>6. Types' /\ cache'[x] = None /\ \A v \in Volume : v # x => cache'[v] = cache[v]
  BY <1>3, <1>4, <1>5 DEF Uncache, Vol, IInv, Types
<1>7. store[x] = None /\ <<x, job[w].on>> \notin placed /\ cache[x] = job[w].on /\ txn[x] # "none"
  BY <1>1, <1>2, <1>3 DEF Known, WorkerOK, DoneOK, LoggedOK, JobOK, Dels
<1>8. ASSUME Single, Reachable, NEW c \in Backend, <<x, c>> \in placed
      PROVE  <<x, c>> \in leftover
  BY <1>2, <1>3, <1>4, <1>7, <1>8, NoneAssumption DEF Known, SoleOK
<1>9. Types'
  BY <1>1, <1>2, <1>3, <1>4, <1>5, <1>6, <1>7, <1>8 DEF Types, Steps, Moved,
     Becomes, Known, WorkerOK, WorkerFine
<1>10. Confined(w)
  BY <1>1, <1>2, <1>3, <1>4, <1>5, <1>6, <1>7, <1>8, <1>9 DEF Confined, Steps,
     Moved, Becomes, Known, WorkerOK, WorkerFine
<1>11. Guarded(w)
  BY <1>1, <1>2, <1>3, <1>4, <1>5, <1>6, <1>7, <1>8 DEF Guarded, Early, Steps,
     Moved, Becomes, Known, WorkerOK, WorkerFine
<1>12. JobOK(w)'
  BY <1>1, <1>2, <1>3, <1>4, <1>5, <1>6, <1>7, <1>8 DEF JobOK, Early, Adds,
     Dels, Steps, Moved, Becomes, Known, WorkerOK, WorkerFine
<1>13. LoggedOK(w)'
  BY <1>1, <1>2, <1>3, <1>4, <1>5, <1>6, <1>7, <1>8 DEF LoggedOK, Adds, Dels,
     JobOK, Steps, Moved, Becomes, Known, WorkerOK, WorkerFine
<1>14. DoneOK(w)'
  BY <1>1, <1>2, <1>3, <1>4, <1>5, <1>6, <1>7, <1>8 DEF DoneOK, Steps, Moved,
     Becomes, Known, WorkerOK, WorkerFine
<1>15. AskedOK(w)'
  BY <1>1, <1>2, <1>3, <1>4, <1>5, <1>6, <1>7, <1>8 DEF AskedOK, Steps, Moved,
     Becomes, Known, WorkerOK, WorkerFine
<1>16. RecordOK(x)'
  BY <1>1, <1>2, <1>3, <1>4, <1>5, <1>6, <1>7, <1>8 DEF RecordOK, Steps, Moved,
     Becomes, Known, WorkerOK, WorkerFine
<1>17. Single => AbsentOK(w)'
  BY <1>1, <1>2, <1>3, <1>4, <1>5, <1>6, <1>7, <1>8 DEF AbsentOK, Steps, Moved,
     Becomes, Known, WorkerOK, WorkerFine
<1>18. Single => SettledOK(w)'
  BY <1>1, <1>2, <1>3, <1>4, <1>5, <1>6, <1>7, <1>8 DEF SettledOK, Settled,
     Reachable, Steps, Moved, Becomes, Known, WorkerOK, WorkerFine
<1>19. Single => MatchOK(x)'
  BY <1>1, <1>2, <1>3, <1>4, <1>5, <1>6, <1>7, <1>8 DEF MatchOK, Steps, Moved,
     Becomes, Known, WorkerOK, WorkerFine
<1>20. Single => SoleOK(x)'
  BY <1>1, <1>2, <1>3, <1>4, <1>5, <1>6, <1>7, <1>8 DEF SoleOK, Reachable,
     Steps, Moved, Becomes, Known, WorkerOK, WorkerFine
<1>21. Single => TracedOK(x)'
  BY <1>1, <1>2, <1>3, <1>4, <1>5, <1>6, <1>7, <1>8 DEF TracedOK, Settled,
     Reachable, Steps, Moved, Becomes, Known, WorkerOK, WorkerFine
<1>22. Single => UntoldOK(x)'
  BY <1>1, <1>2, <1>3, <1>4, <1>5, <1>6, <1>7, <1>8 DEF UntoldOK, Droppable,
     Steps, Moved, Becomes, Known, WorkerOK, WorkerFine
<1>23. Single => KeptOK(x)'
  BY <1>1, <1>2, <1>3, <1>4, <1>5, <1>6, <1>7, <1>8 DEF KeptOK, Droppable,
     Steps, Moved, Becomes, Known, WorkerOK, WorkerFine
<1>24. QED
  BY <1>1, <1>2, <1>3, <1>4, <1>5, <1>6, <1>7, <1>8, <1>9, <1>10, <1>11, <1>12,
     <1>13, <1>14, <1>15, <1>16, <1>17, <1>18, <1>19, <1>20, <1>21, <1>22,
     <1>23, WorksOn DEF VolumeFine, WorkerFine, WorkerOK, Others, Steps, Moved,
     Becomes, Early

(* handleFailedTransaction decides what to undo.                           *)
LEMMA ReplayKeeps ==
  ASSUME IInv, NEW w \in Worker, Replay(w)
  PROVE  Keeps
<1>1. job[w].pc = "replay" /\ job[w].pc \notin Early
  BY DEF Replay, At, Early
<1>2. Known(w) /\ job[w] \in Job
  BY <1>1, Knows DEF IInv
<1>3. PICK x \in Volume : x = job[w].vol
  BY <1>2 DEF Known
<1>4. UNCHANGED <<store, txn, placed, leftover, cache, online, queue, phase, mutex, opCache, promise>>
  BY DEF Replay, persistent, requests
<1>5. job[w].old \in {"add", "delete"} /\ txn[x] = job[w].old
  BY <1>1, <1>2, <1>3 DEF Known, WorkerOK, JobOK, LoggedOK, Job, Op
<1>6. CASE cache[x] # None
  <2>1. Moved(w, "del")
    BY <1>3, <1>6, GotoMoves, Places DEF Replay, Vol, IInv
  <2>2. JobOK(w)'
    BY <1>1, <1>2, <1>3, <1>4, <1>5, <1>6, <2>1 DEF JobOK, Early, Adds, Dels,
       Steps, Moved, Becomes, Known, WorkerOK, WorkerFine
  <2>3. LoggedOK(w)'
    BY <1>1, <1>2, <1>3, <1>4, <1>5, <1>6, <2>1 DEF LoggedOK, Adds, Dels,
       JobOK, Steps, Moved, Becomes, Known, WorkerOK, WorkerFine
  <2>4. DoneOK(w)'
    BY <1>1, <1>2, <1>3, <1>4, <1>5, <1>6, <2>1 DEF DoneOK, Steps, Moved,
       Becomes, Known, WorkerOK, WorkerFine
  <2>5. Single => SettledOK(w)'
    BY <1>1, <1>2, <1>3, <1>4, <1>5, <1>6, <2>1 DEF SettledOK, Settled,
       Reachable, Steps, Moved, Becomes, Known, WorkerOK, WorkerFine
  <2>6. QED
    BY <1>1, <1>2, <1>3, <1>4, <1>5, <1>6, <2>1, <2>2, <2>3, <2>4, <2>5, Walks
       DEF Others, Steps, Moved, Becomes, Early
<1>7. CASE cache[x] = None /\ job[w].old = "add"
  <2>1. job' = [job EXCEPT ![w].pc = "sweep", ![w].left = online] /\ online \subseteq Backend
    BY <1>3, <1>7 DEF Replay, Vol, IInv, Types
  <2>2. Steps(w, "sweep", job[w].old, job[w].todo, online, job[w].on, job[w].fresh, job[w].err)
    BY <2>1, LeftMoves, Places DEF IInv
  <2>3. Reachable => online = Backend
    BY DEF IInv, Online, Reachable
  <2>4. JobOK(w)'
    BY <1>1, <1>2, <1>3, <1>4, <1>5, <1>7, <2>2, <2>3 DEF JobOK, Early, Adds,
       Dels, Steps, Moved, Becomes, Known, WorkerOK, WorkerFine
  <2>5. LoggedOK(w)'
    BY <1>1, <1>2, <1>3, <1>4, <1>5, <1>7, <2>2, <2>3 DEF LoggedOK, Adds, Dels,
       JobOK, Steps, Moved, Becomes, Known, WorkerOK, WorkerFine
  <2>6. DoneOK(w)'
    BY <1>1, <1>2, <1>3, <1>4, <1>5, <1>7, <2>2, <2>3 DEF DoneOK, Steps, Moved,
       Becomes, Known, WorkerOK, WorkerFine
  <2>7. Single => SettledOK(w)'
    BY <1>1, <1>2, <1>3, <1>4, <1>5, <1>7, <2>2, <2>3 DEF SettledOK, Settled,
       Reachable, Steps, Moved, Becomes, Known, WorkerOK, WorkerFine
  <2>8. QED
    BY <1>1, <1>2, <1>3, <1>4, <1>5, <1>7, <2>2, <2>3, <2>4, <2>5, <2>6, <2>7,
       Walks DEF Others, Steps, Moved, Becomes, Early
<1>8. CASE cache[x] = None /\ job[w].old = "delete"
  <2>1. Moved(w, "dropTxn")
    BY <1>3, <1>8, GotoMoves, Places DEF Replay, Vol, IInv
  <2>2. JobOK(w)'
    BY <1>1, <1>2, <1>3, <1>4, <1>5, <1>8, <2>1 DEF JobOK, Early, Adds, Dels,
       Steps, Moved, Becomes, Known, WorkerOK, WorkerFine
  <2>3. LoggedOK(w)'
    BY <1>1, <1>2, <1>3, <1>4, <1>5, <1>8, <2>1 DEF LoggedOK, Adds, Dels,
       JobOK, Steps, Moved, Becomes, Known, WorkerOK, WorkerFine
  <2>4. DoneOK(w)'
    BY <1>1, <1>2, <1>3, <1>4, <1>5, <1>8, <2>1 DEF DoneOK, Steps, Moved,
       Becomes, Known, WorkerOK, WorkerFine
  <2>5. Single => SettledOK(w)'
    BY <1>1, <1>2, <1>3, <1>4, <1>5, <1>8, <2>1 DEF SettledOK, Settled,
       Reachable, TracedOK, Steps, Moved, Becomes, Known, WorkerOK, WorkerFine
  <2>6. QED
    BY <1>1, <1>2, <1>3, <1>4, <1>5, <1>8, <2>1, <2>2, <2>3, <2>4, <2>5, Walks
       DEF Others, Steps, Moved, Becomes, Early
<1>9. QED
  BY <1>5, <1>6, <1>7, <1>8

(* An add is rolled back on one backend after another.                     *)
LEMMA SweepKeeps ==
  ASSUME IInv, NEW w \in Worker, Sweep(w)
  PROVE  Keeps
<1>1. job[w].pc = "sweep" /\ job[w].pc \notin Early
  BY DEF Sweep, At, Early
<1>2. Known(w) /\ job[w] \in Job
  BY <1>1, Knows DEF IInv
<1>3. PICK x \in Volume : x = job[w].vol
  BY <1>2 DEF Known
<1>4. UNCHANGED <<store, txn, cache, online, queue>>
  BY DEF Sweep
<1>5. PICK b \in job[w].left :
        \/ /\ placed' = placed \ {<<x, b>>} /\ leftover' = leftover \ {<<x, b>>}
           /\ job' = [job EXCEPT ![w].left = @ \ {b}] /\ UNCHANGED requests
        \/ ReplayFails(w) /\ UNCHANGED <<placed, leftover>>
  BY <1>3 DEF Sweep, Vol
<1>6. CASE /\ placed' = placed \ {<<x, b>>} /\ leftover' = leftover \ {<<x, b>>}
           /\ job' = [job EXCEPT ![w].left = @ \ {b}] /\ UNCHANGED requests
  <2>1. Steps(w, job[w].pc, job[w].old, job[w].todo, job[w].left \ {b}, job[w].on, job[w].fresh,
              job[w].err)
    <3>1. job[w].left \ {b} \in SUBSET Backend
      BY <1>2 DEF Job
    <3>2. job' = [job EXCEPT ![w].left = job[w].left \ {b}]
      BY <1>6
    <3>3. QED
      BY <3>1, <3>2, SweepMoves DEF IInv
  <2>2. UNCHANGED <<phase, mutex, opCache, promise>> /\ b \in Backend
    BY <1>2, <1>6 DEF requests, Job
  <2>3. /\ Types'
        /\ \A v \in Volume, c \in Backend :
             /\ <<v, c>> \in placed' <=> <<v, c>> \in placed /\ (v # x \/ c # b)
             /\ <<v, c>> \in leftover' <=> <<v, c>> \in leftover /\ (v # x \/ c # b)
    BY <1>4, <1>6, <2>2 DEF IInv, Types
  <2>4. txn[x] = "add"
    BY <1>1, <1>2, <1>3 DEF Known, WorkerOK, LoggedOK, JobOK
  <2>5. Types'
    BY <1>1, <1>2, <1>3, <1>4, <2>1, <2>2, <2>3, <2>4 DEF Types, Steps, Moved,
       Becomes, Known, WorkerOK, WorkerFine
  <2>6. Confined(w)
    BY <1>1, <1>2, <1>3, <1>4, <2>1, <2>2, <2>3, <2>4, <2>5 DEF Confined,
       Steps, Moved, Becomes, Known, WorkerOK, WorkerFine
  <2>7. Guarded(w)
    BY <1>1, <1>2, <1>3, <1>4, <2>1, <2>2, <2>3, <2>4 DEF Guarded, Early,
       Steps, Moved, Becomes, Known, WorkerOK, WorkerFine
  <2>8. JobOK(w)'
    BY <1>1, <1>2, <1>3, <1>4, <2>1, <2>2, <2>3, <2>4 DEF JobOK, Early, Adds,
       Dels, Steps, Moved, Becomes, Known, WorkerOK, WorkerFine
  <2>9. LoggedOK(w)'
    BY <1>1, <1>2, <1>3, <1>4, <2>1, <2>2, <2>3, <2>4 DEF LoggedOK, Adds, Dels,
       Steps, Moved, Becomes, Known, WorkerOK, WorkerFine
  <2>10. DoneOK(w)'
    BY <1>1, <1>2, <1>3, <1>4, <2>1, <2>2, <2>3, <2>4 DEF DoneOK, Steps, Moved,
       Becomes, Known, WorkerOK, WorkerFine
  <2>11. AskedOK(w)'
    BY <1>1, <1>2, <1>3, <1>4, <2>1, <2>2, <2>3, <2>4 DEF AskedOK, Steps,
       Moved, Becomes, Known, WorkerOK, WorkerFine
  <2>12. RecordOK(x)'
    BY <1>1, <1>2, <1>3, <1>4, <2>1, <2>2, <2>3, <2>4 DEF RecordOK, Steps,
       Moved, Becomes, Known, WorkerOK, WorkerFine
  <2>13. Single => AbsentOK(w)'
    BY <1>1, <1>2, <1>3, <1>4, <2>1, <2>2, <2>3, <2>4 DEF AbsentOK, Steps,
       Moved, Becomes, Known, WorkerOK, WorkerFine
  <2>14. Single => SettledOK(w)'
    BY <1>1, <1>2, <1>3, <1>4, <2>1, <2>2, <2>3, <2>4 DEF SettledOK, Settled,
       Reachable, Steps, Moved, Becomes, Known, WorkerOK, WorkerFine
  <2>15. Single => MatchOK(x)'
    BY <1>1, <1>2, <1>3, <1>4, <2>1, <2>2, <2>3, <2>4 DEF MatchOK, Steps,
       Moved, Becomes, Known, WorkerOK, WorkerFine
  <2>16. Single => SoleOK(x)'
    BY <1>1, <1>2, <1>3, <1>4, <2>1, <2>2, <2>3, <2>4 DEF SoleOK, Reachable,
       Steps, Moved, Becomes, Known, WorkerOK, WorkerFine
  <2>17. Single => TracedOK(x)'
    BY <1>1, <1>2, <1>3, <1>4, <2>1, <2>2, <2>3, <2>4 DEF TracedOK, Settled,
       Reachable, Steps, Moved, Becomes, Known, WorkerOK, WorkerFine
  <2>18. Single => UntoldOK(x)'
    BY <1>1, <1>2, <1>3, <1>4, <2>1, <2>2, <2>3, <2>4 DEF UntoldOK, Droppable,
       Steps, Moved, Becomes, Known, WorkerOK, WorkerFine
  <2>19. Single => KeptOK(x)'
    BY <1>1, <1>2, <1>3, <1>4, <2>1, <2>2, <2>3, <2>4 DEF KeptOK, Droppable,
       Steps, Moved, Becomes, Known, WorkerOK, WorkerFine
  <2>20. QED
    BY <1>1, <1>2, <1>3, <1>4, <2>1, <2>2, <2>3, <2>4, <2>5, <2>6, <2>7, <2>8,
       <2>9, <2>10, <2>11, <2>12, <2>13, <2>14, <2>15, <2>16, <2>17, <2>18,
       <2>19, WorksOn DEF VolumeFine, WorkerFine, WorkerOK, Others, Steps,
       Moved, Becomes, Early
<1>7. CASE ReplayFails(w) /\ UNCHANGED <<placed, leftover>>
  <2>1. Quits(w)
    BY <1>1, <1>7, QuitsReplay
  <2>2. QED
    BY <1>1, <1>3, <1>4, <1>7, <2>1, GivesUp DEF IInv, Types
<1>8. QED
  BY <1>5, <1>6, <1>7

(* On all that are online.                                                 *)
LEMMA SweptKeeps ==
  ASSUME IInv, NEW w \in Worker, Swept(w)
  PROVE  Keeps
<1>1. job[w].pc = "sweep" /\ job[w].pc \notin Early
  BY DEF Swept, At, Early
<1>2. Known(w) /\ job[w] \in Job
  BY <1>1, Knows DEF IInv
<1>3. PICK x \in Volume : x = job[w].vol
  BY <1>2 DEF Known
<1>4. UNCHANGED <<store, txn, placed, leftover, cache, online, queue, phase, mutex, opCache, promise>>
  BY DEF Swept, persistent, requests
<1>5. Moved(w, "dropTxn") /\ job[w].left = {}
  BY GotoMoves, Places DEF Swept, Goto, IInv
<1>6. JobOK(w)'
  BY <1>1, <1>2, <1>3, <1>4, <1>5 DEF JobOK, Early, Adds, Dels, Steps, Moved,
     Becomes, Known, WorkerOK, WorkerFine
<1>7. LoggedOK(w)'
  BY <1>1, <1>2, <1>3, <1>4, <1>5 DEF LoggedOK, Adds, Dels, JobOK, Steps,
     Moved, Becomes, Known, WorkerOK, WorkerFine
<1>8. DoneOK(w)'
  BY <1>1, <1>2, <1>3, <1>4, <1>5 DEF DoneOK, Steps, Moved, Becomes, Known,
     WorkerOK, WorkerFine
<1>9. Single => SettledOK(w)'
  BY <1>1, <1>2, <1>3, <1>4, <1>5 DEF SettledOK, Settled, Reachable, Steps,
     Moved, Becomes, Known, WorkerOK, WorkerFine
<1>10. QED
  BY <1>1, <1>2, <1>3, <1>4, <1>5, <1>6, <1>7, <1>8, <1>9, Walks DEF Others,
     Steps, Moved, Becomes, Early

(* A replay deletes its transaction.                                       *)
LEMMA DropTxnKeeps ==
  ASSUME IInv, NEW w \in Worker, DropTxn(w)
  PROVE  Keeps
<1>1. job[w].pc = "dropTxn" /\ job[w].pc \notin Early
  BY DEF DropTxn, At, Early
<1>2. Known(w) /\ job[w] \in Job
  BY <1>1, Knows DEF IInv
<1>3. PICK x \in Volume : x = job[w].vol
  BY <1>2 DEF Known
<1>4. /\ UNCHANGED <<store, placed, leftover, cache, online, queue>>
      /\ job[w].old \in {"add", "delete"} /\ txn[x] = job[w].old /\ job[w].pc # "idle"
  BY <1>1, <1>2, <1>3 DEF DropTxn, Known, WorkerOK, JobOK, LoggedOK, Job, Op
<1>5. CASE txn' \in AfterFailure(txn, [txn EXCEPT ![x] = "none"]) /\ ReplayFails(w) /\ "txn" \in Fault
  <2>1. Quits(w)
    BY <1>1, <1>5, QuitsReplay
  <2>2. /\ txn' \in [Volume -> Op] /\ txn'[x] \in {txn[x], "none"}
        /\ \A v \in Volume : v # x => txn'[v] = txn[v]
    BY <1>5 DEF IInv, Types, Op, AfterFailure
  <2>3. QED
    BY <1>1, <1>3, <1>4, <1>5, <2>1, <2>2, GivesUp DEF IInv, Types, Droppable
<1>6. CASE /\ txn' = [txn EXCEPT ![x] = "none"]
           /\ CASE w = boot -> /\ job' = [job EXCEPT ![w] = Idle]
                               /\ mutex' = [mutex EXCEPT ![x] = None]
                               /\ UNCHANGED <<phase, opCache, promise>>
                [] w # boot /\ job[w].old = "delete" -> Return(w, FALSE)
                [] OTHER -> /\ job' = [job EXCEPT ![w].pc = "newTxn", ![w].old = "none",
                                                  ![w].on = None]
                            /\ UNCHANGED requests
  <2>1. /\ txn' \in [Volume -> Op] /\ txn'[x] = "none"
        /\ \A v \in Volume : v # x => txn'[v] = txn[v]
    BY <1>6 DEF IInv, Types, Op
  <2>2. CASE w # boot /\ job[w].old = "delete" /\ Return(w, FALSE)
    <3>1. Quits(w)
      BY <1>4, <2>2, QuitsReturn
    <3>2. QED
      BY <1>1, <1>3, <1>4, <2>1, <2>2, <3>1, GivesUp DEF IInv, Types
  <2>3. CASE /\ w = boot /\ job' = [job EXCEPT ![w] = Idle]
             /\ mutex' = [mutex EXCEPT ![x] = None] /\ UNCHANGED <<phase, opCache, promise>>
    <3>1. Ended(w)
      BY <2>3, EndsMoves DEF IInv
    <3>2. Released(w)
      BY <1>1, <1>3, <2>3 DEF Released, IInv, Types, Owners
    <3>3. phase' = phase /\ phase = "txns" /\ promise' = promise
      BY <1>2, <2>3 DEF Known
    <3>4. Types'
      BY <1>1, <1>2, <1>3, <1>4, <2>1, <2>3, <3>1, <3>2, <3>3 DEF Types, IInv,
         Released, Steps, Moved, Becomes, Known, WorkerOK, WorkerFine
    <3>5. Confined(w)
      BY <1>1, <1>2, <1>3, <1>4, <2>1, <2>3, <3>1, <3>2, <3>3, <3>4 DEF
         Confined, Steps, Moved, Becomes, Known, WorkerOK, WorkerFine
    <3>6. Guarded(w)
      BY <1>1, <1>2, <1>3, <1>4, <2>1, <2>3, <3>1, <3>2, <3>3 DEF Guarded,
         Early, Steps, Moved, Becomes, Known, WorkerOK, WorkerFine
    <3>7. RecordOK(x)'
      BY <1>1, <1>2, <1>3, <1>4, <2>1, <2>3, <3>1, <3>2, <3>3 DEF RecordOK,
         Steps, Moved, Becomes, Known, WorkerOK, WorkerFine
    <3>8. Single => MatchOK(x)'
      BY <1>1, <1>2, <1>3, <1>4, <2>1, <2>3, <3>1, <3>2, <3>3 DEF MatchOK,
         Steps, Moved, Becomes, Known, WorkerOK, WorkerFine
    <3>9. Single => SoleOK(x)'
      BY <1>1, <1>2, <1>3, <1>4, <2>1, <2>3, <3>1, <3>2, <3>3 DEF SoleOK,
         Reachable, Steps, Moved, Becomes, Known, WorkerOK, WorkerFine
    <3>10. Single => TracedOK(x)'
      BY <1>1, <1>2, <1>3, <1>4, <2>1, <2>3, <3>1, <3>2, <3>3 DEF TracedOK,
         Settled, Reachable, SettledOK, Steps, Moved, Becomes, Known, WorkerOK,
         WorkerFine
    <3>11. Single => UntoldOK(x)'
      BY <1>1, <1>2, <1>3, <1>4, <2>1, <2>3, <3>1, <3>2, <3>3 DEF UntoldOK,
         Droppable, DoneOK, Steps, Moved, Becomes, Known, WorkerOK, WorkerFine
    <3>12. Single => KeptOK(x)'
      BY <1>1, <1>2, <1>3, <1>4, <2>1, <2>3, <3>1, <3>2, <3>3 DEF KeptOK,
         Droppable, Steps, Moved, Becomes, Known, WorkerOK, WorkerFine
    <3>13. QED
      BY <1>1, <1>2, <1>3, <1>4, <2>1, <2>3, <3>1, <3>2, <3>3, <3>4, <3>5,
         <3>6, <3>7, <3>8, <3>9, <3>10, <3>11, <3>12, Finishes DEF VolumeFine
  <2>4. CASE /\ w # boot /\ job[w].old = "add" /\ UNCHANGED requests
             /\ job' = [job EXCEPT ![w].pc = "newTxn", ![w].old = "none", ![w].on = None]
    <3>1. Steps(w, "newTxn", "none", job[w].todo, job[w].left, None, job[w].fresh, job[w].err)
      BY <2>4, NewTxnMoves, Places DEF IInv, Op
    <3>2. UNCHANGED <<phase, mutex, opCache, promise>>
      BY <2>4 DEF requests
    <3>3. Types'
      BY <1>1, <1>2, <1>3, <1>4, <2>1, <2>4, <3>1, <3>2 DEF Types, IInv, Steps,
         Moved, Becomes, Known, WorkerOK, WorkerFine
    <3>4. Confined(w)
      BY <1>1, <1>2, <1>3, <1>4, <2>1, <2>4, <3>1, <3>2, <3>3 DEF Confined,
         Steps, Moved, Becomes, Known, WorkerOK, WorkerFine
    <3>5. Guarded(w)
      BY <1>1, <1>2, <1>3, <1>4, <2>1, <2>4, <3>1, <3>2 DEF Guarded, Early,
         Steps, Moved, Becomes, Known, WorkerOK, WorkerFine
    <3>6. JobOK(w)'
      BY <1>1, <1>2, <1>3, <1>4, <2>1, <2>4, <3>1, <3>2 DEF JobOK, Early, Adds,
         Dels, Steps, Moved, Becomes, Known, WorkerOK, WorkerFine
    <3>7. LoggedOK(w)'
      BY <1>1, <1>2, <1>3, <1>4, <2>1, <2>4, <3>1, <3>2 DEF LoggedOK, Adds,
         Dels, Steps, Moved, Becomes, Known, WorkerOK, WorkerFine
    <3>8. DoneOK(w)'
      BY <1>1, <1>2, <1>3, <1>4, <2>1, <2>4, <3>1, <3>2 DEF DoneOK, Steps,
         Moved, Becomes, Known, WorkerOK, WorkerFine
    <3>9. AskedOK(w)'
      BY <1>1, <1>2, <1>3, <1>4, <2>1, <2>4, <3>1, <3>2 DEF AskedOK, Steps,
         Moved, Becomes, Known, WorkerOK, WorkerFine
    <3>10. RecordOK(x)'
      BY <1>1, <1>2, <1>3, <1>4, <2>1, <2>4, <3>1, <3>2 DEF RecordOK, Steps,
         Moved, Becomes, Known, WorkerOK, WorkerFine
    <3>11. Single => AbsentOK(w)'
      BY <1>1, <1>2, <1>3, <1>4, <2>1, <2>4, <3>1, <3>2 DEF AbsentOK, Steps,
         Moved, Becomes, Known, WorkerOK, WorkerFine
    <3>12. Single => SettledOK(w)'
      BY <1>1, <1>2, <1>3, <1>4, <2>1, <2>4, <3>1, <3>2 DEF SettledOK, Settled,
         Reachable, Steps, Moved, Becomes, Known, WorkerOK, WorkerFine
    <3>13. Single => MatchOK(x)'
      BY <1>1, <1>2, <1>3, <1>4, <2>1, <2>4, <3>1, <3>2 DEF MatchOK, Steps,
         Moved, Becomes, Known, WorkerOK, WorkerFine
    <3>14. Single => SoleOK(x)'
      BY <1>1, <1>2, <1>3, <1>4, <2>1, <2>4, <3>1, <3>2 DEF SoleOK, Reachable,
         Steps, Moved, Becomes, Known, WorkerOK, WorkerFine
    <3>15. Single => TracedOK(x)'
      BY <1>1, <1>2, <1>3, <1>4, <2>1, <2>4, <3>1, <3>2 DEF TracedOK, Settled,
         Reachable, SettledOK, Steps, Moved, Becomes, Known, WorkerOK,
         WorkerFine
    <3>16. Single => UntoldOK(x)'
      BY <1>1, <1>2, <1>3, <1>4, <2>1, <2>4, <3>1, <3>2 DEF UntoldOK,
         Droppable, DoneOK, Steps, Moved, Becomes, Known, WorkerOK, WorkerFine
    <3>17. Single => KeptOK(x)'
      BY <1>1, <1>2, <1>3, <1>4, <2>1, <2>4, <3>1, <3>2 DEF KeptOK, Droppable,
         Steps, Moved, Becomes, Known, WorkerOK, WorkerFine
    <3>18. QED
      BY <1>1, <1>2, <1>3, <1>4, <2>1, <2>4, <3>1, <3>2, <3>3, <3>4, <3>5,
         <3>6, <3>7, <3>8, <3>9, <3>10, <3>11, <3>12, <3>13, <3>14, <3>15,
         <3>16, <3>17, WorksOn DEF VolumeFine, WorkerFine, WorkerOK, Others,
         Steps, Moved, Becomes, Early
  <2>5. QED
    BY <1>4, <1>6, <2>2, <2>3, <2>4
<1>7. QED
  BY <1>3, <1>5, <1>6 DEF DropTxn, Vol

(* Only the persistent state survives a crash.                             *)
LEMMA CrashKeeps ==
  ASSUME IInv, Crash
  PROVE  Keeps
<1> USE DEF IInv
<1>1. /\ UNCHANGED <<store, txn, placed, leftover, online, promise>>
      /\ phase' = "down" /\ mutex' = [v \in Volume |-> None] /\ cache' = [v \in Volume |-> None]
      /\ opCache' = {} /\ queue' = {} /\ phase # "down"
  BY DEF Crash, persistent
<1>2. job' \in [Worker -> Job] /\ \A w \in Worker : job'[w] = Idle
  BY IdleFields DEF Crash
<1>3. /\ \A w \in Worker : /\ job'[w].pc = "idle" /\ job'[w].op = "none" /\ job'[w].old = "none"
                           /\ job'[w].err = FALSE
      /\ boot \in Worker /\ Client \subseteq Worker
  BY <1>2, IdleFields DEF Worker
<1>4. Types' /\ Online'
  BY <1>1 DEF Types, Online
<1>5. \A w \in Worker : WorkerOK(w)' /\ WorkerFine(w)'
  BY <1>3 DEF WorkerOK, JobOK, LoggedOK, DoneOK, AskedOK, WorkerFine, AbsentOK, SettledOK,
     Early, Adds, Dels
<1>6. Phases' /\ Owners'
  BY <1>1, <1>3 DEF Phases, Owners, Early
<1>7. \A v \in Volume : RecordOK(v)' /\ MatchOK(v)'
  BY <1>1 DEF RecordOK, MatchOK
<1>8. Single => \A v \in Volume : SoleOK(v)' /\ TracedOK(v)' /\ UntoldOK(v)' /\ KeptOK(v)'
  BY <1>1 DEF Single, AInv, VolumeFine, SoleOK, TracedOK, UntoldOK, KeptOK, Settled
<1>9. QED
  BY <1>2, <1>4, <1>5, <1>6, <1>7, <1>8 DEF Keeps, AInv, VolumeFine

(* The cache is filled from the records.                                   *)
LEMMA BootstrapKeeps ==
  ASSUME IInv, Bootstrap
  PROVE  Keeps
<1> USE DEF IInv
<1>1. /\ UNCHANGED <<store, txn, placed, leftover, mutex, opCache, job, promise>>
      /\ phase = "down" /\ phase' = "txns" /\ cache' = store
      /\ queue' = {v \in Volume : txn[v] # "none"}
      /\ online' \subseteq Backend /\ ("offline" \notin Fault => online' = Backend)
  BY DEF Bootstrap, persistent
<1>2. \A w \in Worker : job[w].pc = "idle" /\ WorkerOK(w)
  BY <1>1 DEF Phases, Worker
<1>3. Types' /\ Online'
  BY <1>1 DEF Types, Online
<1>4. \A w \in Worker : WorkerOK(w)'
  BY <1>1, <1>2 DEF WorkerOK, JobOK, LoggedOK, DoneOK, AskedOK
<1>5. \A w \in Worker : WorkerFine(w)'
  BY <1>1, <1>2 DEF WorkerOK, JobOK, WorkerFine, AbsentOK, SettledOK
<1>6. Phases' /\ Owners'
  BY <1>1, <1>2 DEF Phases, Owners, Worker
<1>7. \A v \in Volume : RecordOK(v)' /\ MatchOK(v)'
  BY <1>1 DEF RecordOK, MatchOK
<1>8. Single => \A v \in Volume : SoleOK(v)' /\ TracedOK(v)' /\ UntoldOK(v)' /\ KeptOK(v)'
  BY <1>1 DEF Single, AInv, VolumeFine, SoleOK, TracedOK, UntoldOK, KeptOK, Settled
<1>9. QED
  BY <1>1, <1>3, <1>4, <1>5, <1>6, <1>7, <1>8 DEF Keeps, AInv, VolumeFine

(* The bootstrap replays a transaction; nobody else runs.                  *)
LEMMA BootstrapTxnKeeps ==
  ASSUME IInv, BootstrapTxn
  PROVE  Keeps
<1> USE DEF IInv
<1>1. PICK x \in queue :
        /\ queue' = queue \ {x} /\ mutex' = [mutex EXCEPT ![x] = boot]
        /\ job' = [job EXCEPT ![boot] = [Idle EXCEPT !.pc = "replay", !.vol = x, !.old = txn[x]]]
  BY DEF BootstrapTxn
<1>2. /\ UNCHANGED <<store, txn, placed, leftover, cache, online, phase, opCache, promise>>
      /\ phase = "txns" /\ boot \in Worker /\ x \in Volume /\ txn[x] \in Op
  BY DEF BootstrapTxn, persistent, Worker, Types
<1>3. \A u \in Worker : job[u].pc = "idle" /\ WorkerOK(u)
  BY <1>2 DEF Phases, Worker, BootstrapTxn, At
<1>4. Becomes(boot, "replay", "none", x, txn[x], {}, {}, None, FALSE, FALSE)
  BY <1>1, <1>2, ReplayMoves, Places
<1>5. Types' /\ Online'
  BY <1>1, <1>2 DEF Types, Online
<1>6. CASE txn[x] = "none"
  <2>1. FALSE
    BY <1>1, <1>2, <1>6 DEF Phases
  <2>2. QED
    BY <2>1
<1>7. CASE txn[x] # "none"
  <2>1. \A u \in Worker : u # boot => job'[u] = job[u]
    BY <1>4 DEF Becomes
  <2>2. ASSUME NEW u \in Worker, u # boot
        PROVE  WorkerOK(u)' /\ WorkerFine(u)'
    <3>1. job'[u] = job[u] /\ job[u].pc = "idle" /\ WorkerOK(u)
      BY <1>3, <2>1, <2>2
    <3>2. QED
      BY <1>2, <3>1
         DEF WorkerOK, JobOK, LoggedOK, DoneOK, AskedOK, WorkerFine, AbsentOK, SettledOK
  <2>3. WorkerOK(boot)' /\ WorkerFine(boot)'
    BY <1>2, <1>4, <1>7 DEF Becomes, WorkerOK, JobOK, LoggedOK, DoneOK, AskedOK, WorkerFine,
       AbsentOK, SettledOK, Early, Adds, Dels
  <2>4. Phases'
    BY <1>1, <1>2, <1>3, <1>4, <2>1, BootAssumption DEF Phases, Becomes, Worker, Client
  <2>5. Owners'
    <3>1. \A v \in Volume : mutex[v] = None
      BY <1>3 DEF Owners, Types, Early
    <3>2. QED
      BY <1>1, <1>2, <1>3, <1>4, <2>1, <3>1 DEF Owners, Types, Becomes, Early
  <2>6. ASSUME NEW v \in Volume
        PROVE  RecordOK(v)' /\ (Single => VolumeFine(v)')
    <3>1. RecordOK(v)'
      BY <1>2, <1>3 DEF RecordOK
    <3>2. Single => MatchOK(v)'
      BY <1>2, <1>3 DEF Single, AInv, VolumeFine, MatchOK
    <3>3. Single => SoleOK(v)' /\ TracedOK(v)' /\ UntoldOK(v)' /\ KeptOK(v)'
      BY <1>2 DEF Single, AInv, VolumeFine, SoleOK, TracedOK, UntoldOK, KeptOK, Settled
    <3>4. QED
      BY <3>1, <3>2, <3>3 DEF VolumeFine
  <2>7. QED
    BY <1>4, <1>5, <2>2, <2>3, <2>4, <2>5, <2>6 DEF Keeps, AInv, Becomes
<1>8. QED
  BY <1>6, <1>7

(* The bootstrap is done: no transaction is left.                          *)
LEMMA BootstrappedKeeps ==
  ASSUME IInv, Bootstrapped
  PROVE  Keeps
<1> USE DEF IInv
<1>1. /\ UNCHANGED <<store, txn, placed, leftover, cache, online, queue, mutex, opCache, job, promise>>
      /\ phase = "txns" /\ phase' = "up" /\ job[boot].pc = "idle" /\ queue = {}
  BY DEF Bootstrapped, persistent, At
<1>2. \A v \in Volume : txn[v] = "none"
  BY <1>1 DEF Phases
<1>3. Types' /\ Online' /\ Phases' /\ Owners'
  BY <1>1 DEF Types, Online, Phases, Owners
<1>4. \A w \in Worker : WorkerOK(w)'
  BY <1>1 DEF WorkerOK, JobOK, LoggedOK, DoneOK, AskedOK
<1>5. Single => \A w \in Worker : WorkerFine(w)'
  BY <1>1 DEF Single, AInv, WorkerFine, AbsentOK, SettledOK, Settled
<1>6. \A v \in Volume : RecordOK(v)'
  BY <1>1 DEF RecordOK
<1>7. Single => \A v \in Volume : MatchOK(v)'
  BY <1>1 DEF Single, AInv, VolumeFine, MatchOK
<1>8. Single => \A v \in Volume : SoleOK(v)' /\ TracedOK(v)' /\ KeptOK(v)'
  BY <1>1 DEF Single, AInv, VolumeFine, SoleOK, TracedOK, KeptOK, Settled
<1>9. Single => \A v \in Volume : UntoldOK(v)'
  BY <1>1, <1>2 DEF Single, AInv, VolumeFine, UntoldOK
<1>10. QED
  BY <1>1, <1>3, <1>4, <1>5, <1>6, <1>7, <1>8, <1>9 DEF Keeps, AInv, VolumeFine

(* A backend fails or recovers.                                            *)
LEMMA BackendStateKeeps ==
  ASSUME IInv, BackendState \/ UNCHANGED vars
  PROVE  Keeps
<1> USE DEF IInv
<1>1. UNCHANGED <<store, txn, placed, leftover, cache, phase, queue, mutex, opCache, job, promise>>
  BY DEF BackendState, persistent, vars
<1>2. Types' /\ Online'
  <2>1. online' = online \/ ("offline" \in Fault /\ online' \subseteq Backend)
    BY DEF BackendState, vars, Types
  <2>2. QED
    BY <1>1, <2>1 DEF Types, Online
<1>3. Phases' /\ Owners'
  BY <1>1 DEF Phases, Owners
<1>4. \A w \in Worker : WorkerOK(w)'
  BY <1>1 DEF WorkerOK, JobOK, LoggedOK, DoneOK, AskedOK
<1>5. Single => \A w \in Worker : WorkerFine(w)'
  BY <1>1 DEF Single, AInv, WorkerFine, AbsentOK, SettledOK, Settled
<1>6. \A v \in Volume : RecordOK(v)'
  BY <1>1 DEF RecordOK
<1>7. Single => \A v \in Volume : MatchOK(v)' /\ SoleOK(v)' /\ TracedOK(v)'
  BY <1>1 DEF Single, AInv, VolumeFine, MatchOK, SoleOK, TracedOK, Settled
<1>8. Single => \A v \in Volume : UntoldOK(v)' /\ KeptOK(v)'
  BY <1>1 DEF Single, AInv, VolumeFine, UntoldOK, KeptOK
<1>9. QED
  BY <1>1, <1>2, <1>3, <1>4, <1>5, <1>6, <1>7, <1>8 DEF Keeps, AInv, VolumeFine

-----------------------------------------------------------------------------
(* Both invariants hold at the beginning and every step keeps them.        *)
LEMMA StepKeeps ==
  ASSUME IInv, NEW w \in Worker, Step(w)
  PROVE  Keeps
  BY StoreOpKeeps, GetVolumeKeeps, CheckExistsKeeps, GetVolumeTransactionKeeps,
     AddVolumeTransactionKeeps, PickPoolKeeps, SkipPoolsKeeps, NoPoolLeftKeeps,
     CreateKeeps, CreateFollowupKeeps, PersistKeeps, UpsertKeeps, CleanupKeeps,
     EndTxnKeeps, ReadVolumeKeeps, RemoveVolumeKeeps, UnpersistKeeps,
     UncacheKeeps, ReplayKeeps, SweepKeeps, SweptKeeps, DropTxnKeeps DEF Step

LEMMA NextKeeps ==
  ASSUME IInv, [Next]_vars
  PROVE  Keeps
  BY CreateVolumeKeeps, DeleteVolumeKeeps, LockTxnKeeps, StepKeeps, CrashKeeps, BootstrapKeeps,
     BootstrapTxnKeeps, BootstrappedKeeps, BackendStateKeeps DEF Next

LEMMA InitHolds == Init => IInv /\ AInv
<1> SUFFICES ASSUME Init PROVE IInv /\ AInv
  OBVIOUS
<1>1. job \in [Worker -> Job] /\ \A w \in Worker : job[w] = Idle
  BY IdleFields DEF Init
<1>2. /\ \A w \in Worker : /\ job[w].pc = "idle" /\ job[w].op = "none" /\ job[w].old = "none"
                           /\ job[w].err = FALSE
      /\ boot \in Worker /\ Client \subseteq Worker
  BY <1>1, IdleFields DEF Worker
<1>3. Types /\ Online
  BY DEF Init, Types, Online, Op
<1>4. Phases /\ Owners
  BY <1>2 DEF Init, Phases, Owners, Early
<1>5. \A w \in Worker : WorkerOK(w) /\ WorkerFine(w)
  BY <1>2 DEF WorkerOK, JobOK, LoggedOK, DoneOK, AskedOK, WorkerFine, AbsentOK, SettledOK,
     Early, Adds, Dels
<1>6. \A v \in Volume : RecordOK(v) /\ VolumeFine(v)
  BY DEF Init, RecordOK, VolumeFine, MatchOK, SoleOK, TracedOK, UntoldOK, KeptOK, Settled
<1>7. QED
  BY <1>1, <1>3, <1>4, <1>5, <1>6 DEF IInv, AInv

(* IInv holds whatever fails, and however many requests run at once.       *)
THEOREM Invariance == Spec => []IInv
<1>1. Init => IInv
  BY InitHolds
<1>2. IInv /\ [Next]_vars => IInv'
  BY NextKeeps DEF Keeps
<1>3. QED
  BY <1>1, <1>2, PTL DEF Spec

(* AInv holds if no two requests create the same volume at once.           *)
THEOREM SingleInvariance == Spec /\ []NoTwoCreates => []AInv
<1>1. Init => AInv
  BY InitHolds
<1>2. IInv /\ AInv /\ NoTwoCreates /\ NoTwoCreates' /\ [Next]_vars => AInv'
  BY NextKeeps DEF Keeps, Single
<1>3. QED
  BY <1>1, <1>2, Invariance, PTL DEF Spec

(* The variables of the core keep their types, and what failed attempts    *)
(* have left is on a storage system, whatever fails.                       *)
THEOREM TypeCorrect == Spec => []TypeOK
<1>1. IInv => TypeOK
  BY DEF IInv, Types, TypeOK, WorkerOK, JobOK, At, Vol, Op
<1>2. QED
  BY <1>1, Invariance, PTL

(* If backends stay online, addVolume, deleteVolume and the replays lose   *)
(* track of no volume on a storage system, whatever else fails, but for    *)
(* what an attempt to create it left on the backend where it failed: after *)
(* VolumeCreatingError a retry finds the volume there, and AddVolume then  *)
(* destroys nothing, whatever follows.                                     *)
THEOREM VolumesTracked ==
  ASSUME Reachable
  PROVE  Spec /\ []NoTwoCreates => []Tracked
<1>1. IInv /\ AInv => Tracked
  <2>1. SUFFICES ASSUME IInv, AInv, NEW p \in placed
                 PROVE  store[p[1]] = p[2] \/ txn[p[1]] = "add" \/ p \in leftover
    BY DEF Tracked
  <2>2. PICK v \in Volume, b \in Backend : p = <<v, b>>
    BY <2>1 DEF IInv, Types
  <2>3. TracedOK(v)
    BY <2>1 DEF AInv, VolumeFine
  <2>4. QED
    BY <2>1, <2>2, <2>3 DEF TracedOK, Settled
<1>2. QED
  BY <1>1, Invariance, SingleInvariance, PTL

(* A volume whose creation was acknowledged stays until its deletion is    *)
(* requested, whatever fails but the deletion of transactions.             *)
THEOREM AcknowledgedKept ==
  ASSUME Droppable
  PROVE  Spec /\ []NoTwoCreates => []AckedKept
<1>1. IInv /\ AInv => AckedKept
  BY DEF AInv, VolumeFine, KeptOK, AckedKept
<1>2. QED
  BY <1>1, Invariance, SingleInvariance, PTL

(* When nobody holds the txnMutex of a volume, the cache shows its record, *)
(* unless a failed call of the store may have been applied.                *)
THEOREM CacheFollowsStore ==
  ASSUME Definite
  PROVE  Spec /\ []NoTwoCreates => []CacheMatchesStore
<1>1. IInv /\ AInv => CacheMatchesStore
  <2>1. SUFFICES ASSUME IInv, AInv, phase = "up", NEW v \in Volume, mutex[v] = None
                 PROVE  cache[v] = store[v]
    BY DEF CacheMatchesStore
  <2>2. \A w \in Worker : job[w].pc \notin Early => job[w].vol # v
    BY <2>1, NoneAssumption DEF IInv, Owners, Worker, Client
  <2>3. MatchOK(v)
    BY <2>1 DEF AInv, VolumeFine
  <2>4. QED
    BY <2>1, <2>2, <2>3 DEF MatchOK, Early
<1>2. QED
  BY <1>1, Invariance, SingleInvariance, PTL
=============================================================================
