------------------------ MODULE SnapshotLifecycleProofs ------------------------
(* Proofs about SnapshotLifecycle for any volumes, snapshots and clients.  *)
EXTENDS SnapshotLifecycle, TLAPS

Creates == {"lock", "snap", "persist", "undo", "endCreate"}
Deletes == {"dlock", "dsnap", "dstore"}
Removes == {"vlock", "vsoft", "vremove", "vstore", "vsource"}
Reading == {"snap", "persist", "undo", "endCreate", "dsnap", "dstore"}
Writing == {"vsoft", "vremove", "vstore"}

PC == {"idle", "mutex", "log", "replay", "sweep", "dropTxn", "pinned", "dups", "endDelete"}
        \cup Creates \cup Deletes \cup Removes
Op == {"none", "create", "delete"}
Txn == {"none", "addSnapshot", "deleteSnapshot", "deleteVolume"}
Job == [pc : PC, op : Op, key : Object \cup {None}, old : Txn, vol : Volume \cup {None},
        nested : BOOLEAN, dups : SUBSET Snapshot, err : BOOLEAN]

(* The types of everything but the requests.                               *)
Types ==
  /\ volRec \in [Volume -> {"none", "online", "deleting"}]
  /\ volCache \in [Volume -> {"none", "online", "deleting"}]
  /\ snapRec \subseteq Requested /\ snapCache \subseteq Requested
  /\ diskVol \subseteq Volume /\ diskSnap \subseteq Snapshot
  /\ torn \subseteq diskSnap \cap Requested
  /\ txn \in [Object -> Txn]
  /\ phase \in {"down", "txns", "up", "failed"}
  /\ queue \subseteq Object
  /\ mutex \in [Object -> Worker \cup {None}]
  /\ promise \in [Object -> {"none", "acked", "shaky", "doomed"}]
  /\ mishap \in BOOLEAN

(* Where the steps of each request are, and what it replays.               *)
JobOK(w) ==
  /\ job[w].pc = "idle" => job[w].key = None
  /\ job[w].pc # "idle" => job[w].key \in Volume \cup Requested
  /\ job[w].op = "none" <=> w = boot \/ job[w].pc = "idle"
  /\ job[w].op = "create" => job[w].key \in Requested
  /\ job[w].pc \in {"idle", "mutex", "log", "pinned", "dups", "endDelete"} \cup Creates
       => job[w].old = "none"
  /\ job[w].pc \in Creates => job[w].op = "create"
  /\ job[w].pc \in {"pinned", "dups", "endDelete"} => job[w].op = "delete"
  /\ job[w].pc \in {"mutex", "log"} => w # boot
  /\ job[w].pc \in {"pinned", "dups"} \cup Deletes => job[w].key \in Requested
  /\ job[w].pc \in Removes => job[w].vol \in Volume
  /\ job[w].pc \in Removes => job[w].old \in {"none", "deleteVolume"}
  /\ job[w].pc \in Deletes \cup Removes => job[w].old # "none" \/ job[w].op = "delete"
  /\ job[w].pc \in {"replay", "dropTxn", "sweep"} => job[w].old # "none"
  /\ job[w].pc = "sweep" => job[w].old = "addSnapshot"
  /\ job[w].err => job[w].pc \in {"undo", "endCreate", "endDelete"}
  /\ job[w].pc = "undo" => job[w].err
Jobs == job \in [Worker -> Job] /\ \A w \in Worker : JobOK(w)

(* Requests run in a process that is up, the bootstrap's replays before.   *)
(* The cache of a running process says what the records say.               *)
Phases ==
  /\ \A w \in Client : job[w].pc # "idle" => phase = "up"
  /\ job[boot].pc # "idle" => phase = "txns"
  /\ phase # "down" => volCache = volRec /\ snapCache = snapRec
  /\ phase = "txns" => \A x \in Object : txn[x] # "none" => x \in queue \/ job[boot].key = x
  /\ phase = "txns" => \A x \in queue : txn[x] # "none" /\ job[boot].key # x

(* txnMutex has one owner, which works on its key.                         *)
Owners ==
  /\ \A w \in Worker : job[w].pc \notin {"idle", "mutex"} => mutex[job[w].key] = w
  /\ \A x \in Object : mutex[x] # None =>
       job[mutex[x]].key = x /\ job[mutex[x]].pc \notin {"idle", "mutex"}

(* A request past its log has its transaction in the store.                *)
Logged ==
  /\ \A x \in Object : txn[x] \in {"addSnapshot", "deleteSnapshot"} => x \in Requested
  /\ \A x \in Object : txn[x] = "deleteVolume" => x \in Volume
  /\ \A w \in Worker :
       /\ job[w].old # "none" => txn[job[w].key] = job[w].old
       /\ job[w].pc \in Creates => txn[job[w].key] = "addSnapshot"
       /\ job[w].pc \in {"pinned", "dups", "endDelete"} \cup Deletes \cup Removes
            /\ job[w].old = "none" =>
          txn[job[w].key] = IF job[w].key \in Volume THEN "deleteVolume" ELSE "deleteSnapshot"

(* The cache locks of the volumes exclude one another.                     *)
Exclusion ==
  /\ \A u, w \in Worker : job[u].pc \in Reading /\ job[w].pc \in Writing
       => Parent[job[u].key] # job[w].vol
  /\ \A u, w \in Worker : u # w /\ job[u].pc \in Writing /\ job[w].pc \in Writing
       => job[u].vol # job[w].vol

(* What a request that makes a snapshot has done so far is still so.       *)
Making ==
  \A w \in Worker :
    LET k == job[w].key IN
    /\ job[w].pc \in {"lock", "endCreate"} => k \in snapRec \/ k \notin diskSnap \/ k \in torn
    /\ job[w].pc = "endCreate" /\ ~job[w].err => k \in snapRec /\ k \in diskSnap
    /\ job[w].pc = "snap" => k \notin diskSnap \/ k \in torn
    /\ job[w].pc \in {"snap", "persist", "undo"} => k \notin snapRec
    /\ job[w].pc = "persist" => k \in diskSnap /\ Parent[k] \in diskVol
    /\ job[w].pc \in {"snap", "persist"} => volRec[Parent[k]] # "none"

(* And so is what a request that deletes one has done.                     *)
Unmaking ==
  \A w \in Worker :
    LET k == job[w].key IN
    /\ job[w].pc = "dstore" => k \notin diskSnap
    /\ job[w].pc = "dropTxn" /\ job[w].old = "addSnapshot" =>
         k \notin snapRec /\ k \notin diskSnap
    /\ job[w].pc \in {"sweep", "pinned", "dups"} \cup Removes => k \notin snapRec
    /\ job[w].pc = "endDelete" /\ ~job[w].err => k \notin snapRec

(* deleteVolume has looked for snapshots under the write lock.             *)
Looked ==
  \A w \in Worker :
    /\ job[w].pc \in {"vremove", "vstore"} => \A s \in snapRec : Parent[s] # job[w].vol
    /\ job[w].pc = "vsoft" => \E s \in snapRec : Parent[s] = job[w].vol

(* Nothing that a client counts on is about to be deleted.                 *)
Asked ==
  /\ \A w \in Worker : job[w].op = "delete" => promise[job[w].key] # "acked"
  /\ \A w \in Worker : job[w].pc \in Removes => promise[job[w].vol] # "acked"
  /\ \A v \in Volume : txn[v] = "deleteVolume" => promise[v] # "acked"

VolumesKept ==
  \A v \in Volume : promise[v] = "acked" => volRec[v] = "online" /\ v \in diskVol

(* Nobody works on a snapshot that a client counts on.                     *)
SnapshotsQuiet ==
  \A s \in Snapshot : promise[s] = "acked" =>
    s \in snapRec /\ txn[s] = "none" /\ \A w \in Worker : job[w].key # s

(* The copies that deleteCloneSnapshots removes are nobody's snapshots.    *)
CopiesUnclaimed == \A e \in Twin : e[2] \notin Requested
SnapshotsKept ==
  CopiesUnclaimed => /\ \A w \in Worker : job[w].dups \cap Requested = {}
                     /\ \A s \in Snapshot : promise[s] = "acked" => s \in diskSnap

(* A recorded snapshot of which no client was told is still being made, or *)
(* its transaction will be replayed before the next request.               *)
Untold ==
  \A s \in snapRec : promise[s] = "none" =>
    /\ txn[s] = "addSnapshot"
    /\ phase = "up" => \E w \in Client : /\ job[w].key = s /\ job[w].pc = "endCreate"
                                         /\ ~job[w].err

(* As long as nothing fails no transaction is left behind, and a           *)
(* soft-deleted volume without snapshots has somebody who deletes it.      *)
Pending(x) == \E w \in Worker : job[w].key = x /\ job[w].pc \notin {"idle", "mutex", "log"}
Removing(v) ==
  \E w \in Worker : \/ job[w].pc = "pinned" /\ Parent[job[w].key] = v
                    \/ job[w].pc \in {"vlock", "vremove", "vstore"} /\ job[w].vol = v
Orderly ==
  ~mishap =>
    /\ phase = "up"
    /\ \A w \in Worker : job[w].old = "none"
    /\ \A x \in Object : txn[x] # "none" => Pending(x)
    /\ \A v \in Volume : volRec[v] = "deleting" /\ (\A s \in snapRec : Parent[s] # v)
         => Removing(v)

IInv ==
  /\ Types /\ Jobs /\ Phases /\ Owners /\ Logged /\ Exclusion
  /\ Making /\ Unmaking /\ Looked
  /\ SnapshotTracked /\ SnapshotHasVolume
  /\ Asked /\ VolumesKept /\ SnapshotsQuiet /\ SnapshotsKept /\ Untold /\ Orderly

-----------------------------------------------------------------------------
(* One request takes a step and the others stay where they are.            *)
Becomes(w, p, o, k, t, v, n, d, e) ==
  /\ job' \in [Worker -> Job]
  /\ \A u \in Worker : u # w => job'[u] = job[u]
  /\ job'[w].pc = p /\ job'[w].op = o /\ job'[w].key = k /\ job'[w].old = t
  /\ job'[w].vol = v /\ job'[w].nested = n /\ job'[w].dups = d /\ job'[w].err = e

Steps(w, p, t, v, n, d, e) == Becomes(w, p, job[w].op, job[w].key, t, v, n, d, e)
Moved(w, p) ==
  Steps(w, p, job[w].old, job[w].vol, job[w].nested, job[w].dups, job[w].err)
Ended(w) == Becomes(w, "idle", "none", None, "none", None, FALSE, {}, FALSE)

(* What the updates of a request's record leave in its fields.             *)
LEMMA Update ==
  ASSUME job \in [Worker -> Job], NEW w \in Worker, NEW r \in Job,
         job' = [job EXCEPT ![w] = r]
  PROVE  Becomes(w, r.pc, r.op, r.key, r.old, r.vol, r.nested, r.dups, r.err)
  BY DEF Becomes

LEMMA IdleFields ==
  /\ Idle \in Job
  /\ Idle.pc = "idle" /\ Idle.op = "none" /\ Idle.key = None /\ Idle.old = "none"
  /\ Idle.vol = None /\ Idle.nested = FALSE /\ Idle.dups = {} /\ Idle.err = FALSE
  BY DEF Idle, Job, PC, Op, Txn

LEMMA EndsMoves ==
  ASSUME job \in [Worker -> Job], NEW w \in Worker, job' = [job EXCEPT ![w] = Idle]
  PROVE  Ended(w)
  BY IdleFields, Update DEF Ended

LEMMA GotoMoves ==
  ASSUME job \in [Worker -> Job], NEW w \in Worker, NEW p \in PC,
         job' = [job EXCEPT ![w].pc = p]
  PROVE  Moved(w, p)
<1> DEFINE r == [job[w] EXCEPT !.pc = p]
<1>1. job[w] \in Job
  OBVIOUS
<1>2. /\ r \in Job /\ r.pc = p /\ r.op = job[w].op /\ r.key = job[w].key /\ r.old = job[w].old
      /\ r.vol = job[w].vol /\ r.nested = job[w].nested /\ r.dups = job[w].dups /\ r.err = job[w].err
  BY <1>1 DEF Job
<1>3. job' = [job EXCEPT ![w] = r]
  OBVIOUS
<1> HIDE DEF r
<1>4. QED
  BY <1>2, <1>3, Update DEF Steps, Moved

LEMMA VolMoves ==
  ASSUME job \in [Worker -> Job], NEW w \in Worker, NEW p \in PC, NEW v \in Volume \cup {None},
         job' = [job EXCEPT ![w].pc = p, ![w].vol = v]
  PROVE  Steps(w, p, job[w].old, v, job[w].nested, job[w].dups, job[w].err)
<1> DEFINE r == [job[w] EXCEPT !.pc = p, !.vol = v]
<1>1. job[w] \in Job
  OBVIOUS
<1>2. /\ r \in Job /\ r.pc = p /\ r.op = job[w].op /\ r.key = job[w].key /\ r.old = job[w].old
      /\ r.vol = v /\ r.nested = job[w].nested /\ r.dups = job[w].dups /\ r.err = job[w].err
  BY <1>1 DEF Job
<1>3. job' = [job EXCEPT ![w] = r]
  OBVIOUS
<1> HIDE DEF r
<1>4. QED
  BY <1>2, <1>3, Update DEF Steps

LEMMA OldMoves ==
  ASSUME job \in [Worker -> Job], NEW w \in Worker, NEW p \in PC, NEW t \in Txn,
         job' = [job EXCEPT ![w].pc = p, ![w].old = t]
  PROVE  Steps(w, p, t, job[w].vol, job[w].nested, job[w].dups, job[w].err)
<1> DEFINE r == [job[w] EXCEPT !.pc = p, !.old = t]
<1>1. job[w] \in Job
  OBVIOUS
<1>2. /\ r \in Job /\ r.pc = p /\ r.op = job[w].op /\ r.key = job[w].key /\ r.old = t
      /\ r.vol = job[w].vol /\ r.nested = job[w].nested /\ r.dups = job[w].dups /\ r.err = job[w].err
  BY <1>1 DEF Job
<1>3. job' = [job EXCEPT ![w] = r]
  OBVIOUS
<1> HIDE DEF r
<1>4. QED
  BY <1>2, <1>3, Update DEF Steps

LEMMA ErrMoves ==
  ASSUME job \in [Worker -> Job], NEW w \in Worker, NEW p \in PC, NEW e \in BOOLEAN,
         job' = [job EXCEPT ![w].pc = p, ![w].err = e]
  PROVE  Steps(w, p, job[w].old, job[w].vol, job[w].nested, job[w].dups, e)
<1> DEFINE r == [job[w] EXCEPT !.pc = p, !.err = e]
<1>1. job[w] \in Job
  OBVIOUS
<1>2. /\ r \in Job /\ r.pc = p /\ r.op = job[w].op /\ r.key = job[w].key /\ r.old = job[w].old
      /\ r.vol = job[w].vol /\ r.nested = job[w].nested /\ r.dups = job[w].dups /\ r.err = e
  BY <1>1 DEF Job
<1>3. job' = [job EXCEPT ![w] = r]
  OBVIOUS
<1> HIDE DEF r
<1>4. QED
  BY <1>2, <1>3, Update DEF Steps

LEMMA DupsMoves ==
  ASSUME job \in [Worker -> Job], NEW w \in Worker, NEW p \in PC, NEW d \in SUBSET Snapshot,
         job' = [job EXCEPT ![w].pc = p, ![w].dups = d]
  PROVE  Steps(w, p, job[w].old, job[w].vol, job[w].nested, d, job[w].err)
<1> DEFINE r == [job[w] EXCEPT !.pc = p, !.dups = d]
<1>1. job[w] \in Job
  OBVIOUS
<1>2. /\ r \in Job /\ r.pc = p /\ r.op = job[w].op /\ r.key = job[w].key /\ r.old = job[w].old
      /\ r.vol = job[w].vol /\ r.nested = job[w].nested /\ r.dups = d /\ r.err = job[w].err
  BY <1>1 DEF Job
<1>3. job' = [job EXCEPT ![w] = r]
  OBVIOUS
<1> HIDE DEF r
<1>4. QED
  BY <1>2, <1>3, Update DEF Steps

LEMMA NestedMoves ==
  ASSUME job \in [Worker -> Job], NEW w \in Worker, NEW p \in PC, NEW v \in Volume \cup {None}, NEW n \in BOOLEAN,
         job' = [job EXCEPT ![w].pc = p, ![w].vol = v, ![w].nested = n]
  PROVE  Steps(w, p, job[w].old, v, n, job[w].dups, job[w].err)
<1> DEFINE r == [job[w] EXCEPT !.pc = p, !.vol = v, !.nested = n]
<1>1. job[w] \in Job
  OBVIOUS
<1>2. /\ r \in Job /\ r.pc = p /\ r.op = job[w].op /\ r.key = job[w].key /\ r.old = job[w].old
      /\ r.vol = v /\ r.nested = n /\ r.dups = job[w].dups /\ r.err = job[w].err
  BY <1>1 DEF Job
<1>3. job' = [job EXCEPT ![w] = r]
  OBVIOUS
<1> HIDE DEF r
<1>4. QED
  BY <1>2, <1>3, Update DEF Steps

LEMMA DoneMoves ==
  ASSUME job \in [Worker -> Job], NEW w \in Worker, NEW p \in PC, NEW e \in BOOLEAN, NEW v \in Volume \cup {None}, NEW n \in BOOLEAN,
         job' = [job EXCEPT ![w].pc = p, ![w].err = e, ![w].vol = v, ![w].nested = n]
  PROVE  Steps(w, p, job[w].old, v, n, job[w].dups, e)
<1> DEFINE r == [job[w] EXCEPT !.pc = p, !.err = e, !.vol = v, !.nested = n]
<1>1. job[w] \in Job
  OBVIOUS
<1>2. /\ r \in Job /\ r.pc = p /\ r.op = job[w].op /\ r.key = job[w].key /\ r.old = job[w].old
      /\ r.vol = v /\ r.nested = n /\ r.dups = job[w].dups /\ r.err = e
  BY <1>1 DEF Job
<1>3. job' = [job EXCEPT ![w] = r]
  OBVIOUS
<1> HIDE DEF r
<1>4. QED
  BY <1>2, <1>3, Update DEF Steps

LEMMA RequestMoves ==
  ASSUME job \in [Worker -> Job], NEW w \in Worker, NEW p \in PC, NEW o \in Op, NEW k \in Object,
         job' = [job EXCEPT ![w] = [Idle EXCEPT !.pc = p, !.op = o, !.key = k]]
  PROVE  Becomes(w, p, o, k, "none", None, FALSE, {}, FALSE)
<1>1. ASSUME NEW j \in Job
      PROVE  LET r == [j EXCEPT !.pc = p, !.op = o, !.key = k]
             IN  /\ r \in Job /\ r.pc = p /\ r.op = o /\ r.key = k /\ r.old = j.old
                 /\ r.vol = j.vol /\ r.nested = j.nested /\ r.dups = j.dups /\ r.err = j.err
  BY DEF Job
<1> DEFINE r == [Idle EXCEPT !.pc = p, !.op = o, !.key = k]
<1>2. /\ r \in Job /\ r.pc = p /\ r.op = o /\ r.key = k /\ r.old = "none"
      /\ r.vol = None /\ r.nested = FALSE /\ r.dups = {} /\ r.err = FALSE
  BY <1>1, IdleFields
<1>3. job' = [job EXCEPT ![w] = r]
  OBVIOUS
<1> HIDE DEF r
<1>4. Becomes(w, r.pc, r.op, r.key, r.old, r.vol, r.nested, r.dups, r.err)
  BY <1>2, <1>3, Update, Zenon
<1>5. QED
  BY <1>2, <1>4, Zenon

LEMMA ReplayMoves ==
  ASSUME job \in [Worker -> Job], NEW w \in Worker, NEW p \in PC, NEW k \in Object, NEW t \in Txn,
         job' = [job EXCEPT ![w] = [Idle EXCEPT !.pc = p, !.key = k, !.old = t]]
  PROVE  Becomes(w, p, "none", k, t, None, FALSE, {}, FALSE)
<1>1. ASSUME NEW j \in Job
      PROVE  LET r == [j EXCEPT !.pc = p, !.key = k, !.old = t]
             IN  /\ r \in Job /\ r.pc = p /\ r.op = j.op /\ r.key = k /\ r.old = t
                 /\ r.vol = j.vol /\ r.nested = j.nested /\ r.dups = j.dups /\ r.err = j.err
  BY DEF Job
<1> DEFINE r == [Idle EXCEPT !.pc = p, !.key = k, !.old = t]
<1>2. /\ r \in Job /\ r.pc = p /\ r.op = "none" /\ r.key = k /\ r.old = t
      /\ r.vol = None /\ r.nested = FALSE /\ r.dups = {} /\ r.err = FALSE
  BY <1>1, IdleFields
<1>3. job' = [job EXCEPT ![w] = r]
  OBVIOUS
<1> HIDE DEF r
<1>4. Becomes(w, r.pc, r.op, r.key, r.old, r.vol, r.nested, r.dups, r.err)
  BY <1>2, <1>3, Update, Zenon
<1>5. QED
  BY <1>2, <1>4, Zenon

(* The end of a request releases txnMutex.                                 *)
Released(w) ==
  /\ mutex' \in [Object -> Worker \cup {None}]
  /\ \A x \in Object : mutex'[x] = IF x = job[w].key THEN None ELSE mutex[x]

LEMMA Releases ==
  ASSUME Types, NEW w \in Worker, mutex' = [mutex EXCEPT ![Key(w)] = None]
  PROVE  Released(w)
  BY DEF Types, Released, Key

(* A request that fails tells its client nothing.                          *)
LEMMA ReturnFalse ==
  ASSUME Types, Jobs, NEW w \in Worker, Return(w, FALSE)
  PROVE  Ended(w) /\ Released(w) /\ promise' = promise
<1>1. promise' = promise
  BY DEF Return, Types
<1>2. QED
  BY <1>1, EndsMoves, Releases DEF Return, Jobs

(* A request that succeeds tells its client so, unless a deletion is       *)
(* under way.                                                              *)
LEMMA ReturnTrue ==
  ASSUME Types, Jobs, NEW w \in Worker, Return(w, TRUE), job[w].key \in Object
  PROVE  /\ Ended(w) /\ Released(w)
         /\ promise' \in [Object -> {"none", "acked", "shaky", "doomed"}]
         /\ \A x \in Object : x # job[w].key => promise'[x] = promise[x]
         /\ job[w].op = "create" =>
              /\ promise'[job[w].key] # "none"
              /\ \/ promise'[job[w].key] = promise[job[w].key]
                 \/ promise'[job[w].key] # "acked"
                 \/ /\ txn'[job[w].key] = "none"
                    /\ \A u \in Client \ {w} : job[u].key = job[w].key
                                               => job[u].op \notin {"create", "delete"}
         /\ job[w].op = "delete" /\ job[w].key \in Snapshot => promise'[job[w].key] = "none"
         /\ job[w].op = "delete" /\ job[w].key \notin Snapshot => promise' = promise
<1>1. Ended(w) /\ Released(w)
  BY EndsMoves, Releases DEF Return, Jobs
<1>2. CASE job[w].op = "create"
  <2>1. promise' = [promise EXCEPT ![Key(w)] =
          IF @ = "none" THEN
            IF Deleting(Key(w)) THEN "doomed"
            ELSE IF txn'[Key(w)] = "none" /\ ~Creating(w, Key(w)) THEN "acked"
            ELSE "shaky"
          ELSE @]
    BY <1>2 DEF Return
  <2>2. QED
    BY <1>1, <1>2, <2>1 DEF Types, Key, Deleting, Creating
<1>3. CASE job[w].op # "create"
  <2>1. promise' = [promise EXCEPT ![Key(w)] =
          IF job[w].op = "delete" /\ Key(w) \in Snapshot THEN "none" ELSE @]
    BY <1>3 DEF Return
  <2>2. QED
    BY <1>1, <1>3, <2>1 DEF Types, Key
<1>4. QED
  BY <1>2, <1>3

LEMMA Places ==
  {"idle", "mutex", "log", "replay", "sweep", "dropTxn", "pinned", "dups", "endDelete",
   "lock", "snap", "persist", "undo", "endCreate", "dlock", "dsnap", "dstore",
   "vlock", "vsoft", "vremove", "vstore", "vsource"} \subseteq PC
  BY DEF PC, Creates, Deletes, Removes

(* The owner of a txnMutex is alone with its key.                          *)
LEMMA Alone ==
  ASSUME Owners, NEW w \in Worker, job[w].pc \notin {"idle", "mutex"}
  PROVE  \A u \in Worker : u # w /\ job[u].pc \notin {"idle", "mutex"} => job[u].key # job[w].key
  BY DEF Owners

LEMMA OwnersReleased ==
  ASSUME Types, Jobs, Owners, NEW w \in Worker, Ended(w), Released(w),
         job[w].pc \notin {"idle", "mutex"}
  PROVE  Owners'
<1>1. \A u \in Worker : job'[u].pc \notin {"idle", "mutex"} => mutex'[job'[u].key] = u
  <2>1. SUFFICES ASSUME NEW u \in Worker, job'[u].pc \notin {"idle", "mutex"}
                 PROVE  mutex'[job'[u].key] = u
    OBVIOUS
  <2>2. u # w /\ job'[u] = job[u] /\ job[u].key # job[w].key
    BY <2>1, Alone DEF Ended, Becomes
  <2>3. job[u].key \in Object
    BY <2>1, <2>2, RequestedAssumption DEF Jobs, JobOK, Object
  <2>4. QED
    BY <2>1, <2>2, <2>3 DEF Owners, Released
<1>2. ASSUME NEW x \in Object, mutex'[x] # None
      PROVE  job'[mutex'[x]].key = x /\ job'[mutex'[x]].pc \notin {"idle", "mutex"}
  <2>1. x # job[w].key /\ mutex'[x] = mutex[x] /\ mutex[x] \in Worker
    BY <1>2 DEF Released, Types
  <2>2. job[mutex[x]].key = x /\ job[mutex[x]].pc \notin {"idle", "mutex"}
    BY <1>2, <2>1 DEF Owners
  <2>3. QED
    BY <2>1, <2>2 DEF Ended, Becomes
<1>3. QED
  BY <1>1, <1>2 DEF Owners

(* A request fails, or a replay that ends the bootstrap.                   *)
LEMMA GivesUp ==
  ASSUME IInv, NEW w \in Worker, Ended(w), Released(w), mishap' = TRUE,
         job[w].pc \notin {"idle", "mutex"},
         job[w].pc = "endCreate" => job[w].err,
         IF w = boot THEN phase' = "failed" ELSE UNCHANGED phase,
         UNCHANGED <<volRec, snapRec, txn, diskVol, diskSnap, torn, volCache, snapCache, queue, promise>>
  PROVE  IInv'
<1> USE DEF IInv, Jobs, Becomes, Moved, Ended
<1> USE DEF Released
<1>0. \A u \in Worker : u # w /\ job[u].pc \notin {"idle", "mutex"} => job[u].key # job[w].key
  BY Alone
<1>1. Types'
  BY <1>0 DEF Types
<1>2. Jobs'
  BY <1>0 DEF JobOK, Creates, Deletes, Removes
<1>3. Phases'
  BY <1>0, DistinctAssumption DEF Phases, Worker, JobOK
<1>4. Owners'
  BY OwnersReleased
<1>5. Logged'
  BY <1>0 DEF Logged, Owners, JobOK, Creates, Deletes, Removes
<1>6. Exclusion'
  BY <1>0 DEF Exclusion, Reading, Writing
<1>7. Making'
  BY <1>0 DEF Making, Exclusion, Reading, Writing
<1>8. Unmaking'
  BY <1>0 DEF Unmaking, Removes
<1>9. Looked'
  BY <1>0 DEF Looked, Exclusion, Reading, Writing
<1>10. SnapshotTracked'
  BY <1>0 DEF SnapshotTracked
<1>11. SnapshotHasVolume'
  BY <1>0 DEF SnapshotHasVolume
<1>12. Asked'
  BY <1>0 DEF Asked, Removes
<1>13. VolumesKept'
  BY <1>0 DEF VolumesKept
<1>14. SnapshotsQuiet'
  BY <1>0, NoneAssumption DEF SnapshotsQuiet, Object
<1>15. SnapshotsKept'
  BY <1>0 DEF SnapshotsKept, SnapshotsQuiet
<1>16. Untold'
  BY <1>0 DEF Untold, Worker
<1>17. Orderly'
  BY <1>0 DEF Orderly, Pending, Removing
<1>18. QED
  BY <1>1, <1>2, <1>3, <1>4, <1>5, <1>6, <1>7, <1>8, <1>9, <1>10, <1>11, <1>12,
     <1>13, <1>14, <1>15, <1>16, <1>17

(* The transaction of a request is deleted.                                *)
TxnDropped(w) ==
  /\ txn' \in [Object -> Txn] /\ UNCHANGED mishap
  /\ \A x \in Object : txn'[x] = IF x = job[w].key THEN "none" ELSE txn[x]

LEMMA DropsTxn ==
  ASSUME Types, NEW w \in Worker, txn' = [txn EXCEPT ![Key(w)] = "none"], Works
  PROVE  TxnDropped(w)
  BY DEF Types, Txn, Key, Works, TxnDropped

LEMMA Objects ==
  ASSUME Jobs
  PROVE  /\ \A u \in Worker : job[u].op # "none" \/ job[u].old # "none" \/ job[u].pc # "idle"
                               => job[u].key \in Object
         /\ Requested \subseteq Object /\ Snapshot \subseteq Object /\ Volume \subseteq Object
         /\ \A v \in Volume : v \notin Snapshot /\ v \notin Requested
  BY RequestedAssumption, DistinctAssumption DEF Jobs, JobOK, Object, Creates

(* What a failed replay comes to.                                          *)
LEMMA ReplayFailed ==
  ASSUME Types, Jobs, NEW w \in Worker, ReplayFails(w)
  PROVE  /\ Ended(w) /\ Released(w) /\ promise' = promise
         /\ IF w = boot THEN phase' = "failed" ELSE UNCHANGED phase
  BY ReturnFalse, EndsMoves, Releases DEF ReplayFails, Jobs

(* What follows deleteSnapshot.                                            *)
LEMMA SnapshotDoneMoves ==
  ASSUME Types, Jobs, NEW w \in Worker, NEW res, SnapshotDone(w, res)
  PROVE  /\ UNCHANGED txn
         /\ \/ /\ job[w].old = "addSnapshot" /\ res # "ok"
               /\ Ended(w) /\ Released(w) /\ promise' = promise
               /\ IF w = boot THEN phase' = "failed" ELSE UNCHANGED phase
            \/ /\ job[w].old = "none"
               /\ Steps(w, IF res = "ok" THEN "pinned" ELSE "endDelete", job[w].old,
                        job[w].vol, job[w].nested, job[w].dups, (res = "failed"))
               /\ UNCHANGED <<phase, mutex, promise>>
            \/ /\ job[w].old # "none" /\ (job[w].old = "addSnapshot" => res = "ok")
               /\ Moved(w, "dropTxn") /\ UNCHANGED <<phase, mutex, promise>>
<1>1. CASE job[w].old = "addSnapshot" /\ res # "ok"
  BY <1>1, ReplayFailed DEF SnapshotDone
<1>2. CASE job[w].old = "none"
  BY <1>2, ErrMoves, Places DEF SnapshotDone, Jobs
<1>3. CASE job[w].old # "none" /\ (job[w].old = "addSnapshot" => res = "ok")
  BY <1>3, GotoMoves, Places DEF SnapshotDone, Jobs, Goto
<1>4. QED
  BY <1>1, <1>2, <1>3

(* What follows deleteVolume.                                              *)
LEMMA VolumeDoneMoves ==
  ASSUME Jobs, NEW w \in Worker, NEW res, VolumeDone(w, res)
  PROVE  Steps(w, IF job[w].old = "none" THEN "endDelete" ELSE "dropTxn", job[w].old, None,
               FALSE, job[w].dups, (res = "failed" /\ job[w].old = "none" /\ ~job[w].nested))
  BY DoneMoves, Places DEF VolumeDone, Jobs

(* deleteSnapshot fails, or finds nothing.                                 *)
LEMMA SnapshotFails ==
  ASSUME IInv, NEW w \in Worker, job[w].pc \in Deletes, NEW res \in {"notFound", "failed"},
         SnapshotDone(w, res),
         res = "notFound" => job[w].key \notin snapRec,
         mishap' = TRUE \/ (res = "notFound" /\ UNCHANGED mishap),
         UNCHANGED <<volRec, snapRec, diskVol, diskSnap, torn, volCache, snapCache, queue>>
  PROVE  IInv'
<1> USE DEF IInv, Jobs
<1>0. \A u \in Worker : u # w /\ job[u].pc \notin {"idle", "mutex"} => job[u].key # job[w].key
  BY Alone DEF Deletes
<1>1. /\ job[w].pc \in {"dlock", "dsnap", "dstore"} /\ job[w].key \in Requested
      /\ job[w].old # "none" \/ (job[w].op = "delete" /\ txn[job[w].key] = "deleteSnapshot")
      /\ job[w].old # "none" => mishap
      /\ w # boot => phase = "up"
  BY DistinctAssumption, RequestedAssumption DEF JobOK, Deletes, Logged, Orderly, Phases, Worker
<1>2. CASE /\ job[w].old # "none" /\ Ended(w) /\ Released(w) /\ promise' = promise
           /\ UNCHANGED txn
           /\ IF w = boot THEN phase' = "failed" ELSE UNCHANGED phase
  <2>1. mishap' = TRUE /\ job[w].pc \notin {"idle", "mutex", "endCreate"}
    BY <1>1, <1>2 DEF Deletes, Types
  <2>2. QED
    BY <1>2, <2>1, GivesUp
<1>3. CASE /\ job[w].old = "none" /\ UNCHANGED <<txn, phase, mutex, promise>>
           /\ Steps(w, "endDelete", job[w].old, job[w].vol, job[w].nested, job[w].dups,
                    (res = "failed"))
  <2> USE DEF Steps, Becomes
  <2>1. Types'
    BY <1>0, <1>1, <1>3 DEF Types
  <2>2. Jobs'
    BY <1>0, <1>1, <1>3 DEF JobOK, Creates, Deletes, Removes
  <2>3. Phases'
    BY <1>0, <1>1, <1>3, DistinctAssumption DEF Phases, Worker, JobOK
  <2>4. Owners'
    BY <1>0, <1>1, <1>3, NoneAssumption DEF Owners, Types, Worker
  <2>5. Logged'
    BY <1>0, <1>1, <1>3 DEF Logged, Owners, JobOK, Creates, Deletes, Removes
  <2>6. Exclusion'
    BY <1>0, <1>1, <1>3 DEF Exclusion, Reading, Writing
  <2>7. Making'
    BY <1>0, <1>1, <1>3 DEF Making, Exclusion, Reading, Writing
  <2>8. Unmaking'
    BY <1>0, <1>1, <1>3 DEF Unmaking, Removes
  <2>9. Looked'
    BY <1>0, <1>1, <1>3 DEF Looked, Exclusion, Reading, Writing
  <2>10. SnapshotTracked'
    BY <1>0, <1>1, <1>3 DEF SnapshotTracked
  <2>11. SnapshotHasVolume'
    BY <1>0, <1>1, <1>3 DEF SnapshotHasVolume
  <2>12. Asked'
    BY <1>0, <1>1, <1>3 DEF Asked, Removes
  <2>13. VolumesKept'
    BY <1>0, <1>1, <1>3 DEF VolumesKept
  <2>14. SnapshotsQuiet'
    BY <1>0, <1>1, <1>3, NoneAssumption DEF SnapshotsQuiet, Object
  <2>15. SnapshotsKept'
    BY <1>0, <1>1, <1>3 DEF SnapshotsKept, SnapshotsQuiet
  <2>16. Untold'
    BY <1>0, <1>1, <1>3 DEF Untold, Worker
  <2>17. Orderly'
    BY <1>0, <1>1, <1>3 DEF Orderly, Pending, Removing
  <2>18. QED
    BY <2>1, <2>2, <2>3, <2>4, <2>5, <2>6, <2>7, <2>8, <2>9, <2>10, <2>11,
       <2>12, <2>13, <2>14, <2>15, <2>16, <2>17
<1>4. CASE /\ job[w].old \notin {"none", "addSnapshot"} /\ Moved(w, "dropTxn")
           /\ UNCHANGED <<txn, phase, mutex, promise>>
  <2> USE DEF Moved, Steps, Becomes
  <2>1. Types'
    BY <1>0, <1>1, <1>4 DEF Types
  <2>2. Jobs'
    BY <1>0, <1>1, <1>4 DEF JobOK, Creates, Deletes, Removes
  <2>3. Phases'
    BY <1>0, <1>1, <1>4, DistinctAssumption DEF Phases, Worker, JobOK
  <2>4. Owners'
    BY <1>0, <1>1, <1>4, NoneAssumption DEF Owners, Types, Worker
  <2>5. Logged'
    BY <1>0, <1>1, <1>4 DEF Logged, Owners, JobOK, Creates, Deletes, Removes
  <2>6. Exclusion'
    BY <1>0, <1>1, <1>4 DEF Exclusion, Reading, Writing
  <2>7. Making'
    BY <1>0, <1>1, <1>4 DEF Making, Exclusion, Reading, Writing
  <2>8. Unmaking'
    BY <1>0, <1>1, <1>4 DEF Unmaking, Removes
  <2>9. Looked'
    BY <1>0, <1>1, <1>4 DEF Looked, Exclusion, Reading, Writing
  <2>10. SnapshotTracked'
    BY <1>0, <1>1, <1>4 DEF SnapshotTracked
  <2>11. SnapshotHasVolume'
    BY <1>0, <1>1, <1>4 DEF SnapshotHasVolume
  <2>12. Asked'
    BY <1>0, <1>1, <1>4 DEF Asked, Removes
  <2>13. VolumesKept'
    BY <1>0, <1>1, <1>4 DEF VolumesKept
  <2>14. SnapshotsQuiet'
    BY <1>0, <1>1, <1>4, NoneAssumption DEF SnapshotsQuiet, Object
  <2>15. SnapshotsKept'
    BY <1>0, <1>1, <1>4 DEF SnapshotsKept, SnapshotsQuiet
  <2>16. Untold'
    BY <1>0, <1>1, <1>4 DEF Untold, Worker
  <2>17. Orderly'
    BY <1>0, <1>1, <1>4 DEF Orderly, Pending, Removing
  <2>18. QED
    BY <2>1, <2>2, <2>3, <2>4, <2>5, <2>6, <2>7, <2>8, <2>9, <2>10, <2>11,
       <2>12, <2>13, <2>14, <2>15, <2>16, <2>17
<1>5. res # "ok"
  OBVIOUS
<1>6. QED
  BY <1>2, <1>3, <1>4, <1>5, SnapshotDoneMoves

(* deleteVolume ends without having deleted its volume, by an error or     *)
(* because the volume is gone.                                             *)
LEMMA VolumeStops ==
  ASSUME IInv, NEW w \in Worker, job[w].pc \in Removes, NEW res, VolumeDone(w, res),
         \/ mishap' = TRUE
         \/ UNCHANGED mishap /\ (job[w].pc = "vsource" \/ volRec[job[w].vol] # "deleting"),
         UNCHANGED <<volRec, snapRec, txn, diskVol, diskSnap, torn, volCache, snapCache, phase, queue, mutex, promise>>
  PROVE  IInv'
<1> USE DEF IInv, Jobs
<1>0. /\ \A u \in Worker : u # w /\ job[u].pc \notin {"idle", "mutex"} => job[u].key # job[w].key
      /\ job[w].pc \in {"vlock", "vsoft", "vremove", "vstore", "vsource"}
  BY Alone DEF Removes
<1>1. \/ /\ job[w].old = "none"
         /\ Steps(w, "endDelete", job[w].old, None, FALSE, job[w].dups,
                  (res = "failed" /\ job[w].old = "none" /\ ~job[w].nested))
      \/ /\ job[w].old # "none"
         /\ Steps(w, "dropTxn", job[w].old, None, FALSE, job[w].dups, FALSE)
  <2>1. (res = "failed" /\ job[w].old = "none" /\ ~job[w].nested) \in BOOLEAN
    OBVIOUS
  <2>2. QED
    BY <2>1, VolumeDoneMoves
<1> USE DEF Steps, Becomes
<1>2. Types'
  BY <1>0, <1>1 DEF Types
<1>3. Jobs'
  BY <1>0, <1>1 DEF JobOK, Creates, Deletes, Removes
<1>4. Phases'
  BY <1>0, <1>1, DistinctAssumption DEF Phases, Worker, JobOK
<1>5. Owners'
  BY <1>0, <1>1, NoneAssumption DEF Owners, Types, Worker
<1>6. Logged'
  BY <1>0, <1>1 DEF Logged, Owners, JobOK, Creates, Deletes, Removes
<1>7. Exclusion'
  BY <1>0, <1>1 DEF Exclusion, Reading, Writing
<1>8. Making'
  BY <1>0, <1>1 DEF Making, Exclusion, Reading, Writing
<1>9. Unmaking'
  BY <1>0, <1>1 DEF Unmaking, Removes, JobOK
<1>10. Looked'
  BY <1>0, <1>1 DEF Looked, Exclusion, Reading, Writing
<1>11. SnapshotTracked'
  BY <1>0, <1>1 DEF SnapshotTracked
<1>12. SnapshotHasVolume'
  BY <1>0, <1>1 DEF SnapshotHasVolume
<1>13. Asked'
  BY <1>0, <1>1 DEF Asked, Removes
<1>14. VolumesKept'
  BY <1>0, <1>1 DEF VolumesKept
<1>15. SnapshotsQuiet'
  BY <1>0, <1>1, NoneAssumption DEF SnapshotsQuiet, Object
<1>16. SnapshotsKept'
  BY <1>0, <1>1 DEF SnapshotsKept, SnapshotsQuiet
<1>17. Untold'
  BY <1>0, <1>1 DEF Untold, Worker
<1>18. Orderly'
  BY <1>0, <1>1 DEF Orderly, Pending, Removing
<1>19. QED
  BY <1>2, <1>3, <1>4, <1>5, <1>6, <1>7, <1>8, <1>9, <1>10, <1>11, <1>12, <1>13,
     <1>14, <1>15, <1>16, <1>17, <1>18

-----------------------------------------------------------------------------
(* CreateSnapshot takes a request, or answers from the cache: a snapshot   *)
(* there that no client was told of is still being made.                   *)
LEMMA CreateSnapshotStep ==
  ASSUME IInv, NEW w \in Client, CreateSnapshot(w)
  PROVE  IInv'
<1> USE DEF IInv, Jobs, Becomes, Moved, Ended
<1> USE DEF Steps
<1>1. /\ job[w].pc = "idle" /\ phase = "up" /\ w \in Worker /\ w # boot
      /\ volCache = volRec /\ snapCache = snapRec
      /\ UNCHANGED <<volRec, snapRec, txn, diskVol, diskSnap, torn, volCache, snapCache, phase, queue, mutex, mishap>>
  BY DistinctAssumption DEF CreateSnapshot, At, Worker, Phases, records, disk, cache, control
<1>2. /\ \A u \in Worker : job[u].op # "none" \/ job[u].old # "none" \/ job[u].pc # "idle"
                              => job[u].key \in Object
      /\ Requested \subseteq Object /\ Snapshot \subseteq Object /\ Volume \subseteq Object
      /\ \A v \in Volume : v \notin Snapshot /\ v \notin Requested
  BY Objects
<1>3. ASSUME NEW s \in Requested, s \notin snapRec,
             Becomes(w, "mutex", "create", s, "none", None, FALSE, {}, FALSE), UNCHANGED promise
      PROVE  IInv'
  <2>1. Types'
    BY <1>1, <1>2, <1>3 DEF Types
  <2>2. Jobs'
    BY <1>1, <1>2, <1>3 DEF JobOK, Creates, Deletes, Removes
  <2>3. Phases'
    BY <1>1, <1>2, <1>3, DistinctAssumption DEF Phases, Worker, JobOK
  <2>4. Owners'
    BY <1>1, <1>2, <1>3, NoneAssumption DEF Owners, Types, Worker
  <2>5. Logged'
    BY <1>1, <1>2, <1>3 DEF Logged, Owners, JobOK, Creates, Deletes, Removes
  <2>6. Exclusion'
    BY <1>1, <1>2, <1>3 DEF Exclusion, Reading, Writing
  <2>7. Making'
    BY <1>1, <1>2, <1>3 DEF Making, Exclusion, Reading, Writing
  <2>8. Unmaking'
    BY <1>1, <1>2, <1>3 DEF Unmaking, Removes
  <2>9. Looked'
    BY <1>1, <1>2, <1>3 DEF Looked, Exclusion, Reading, Writing
  <2>10. SnapshotTracked'
    BY <1>1, <1>2, <1>3 DEF SnapshotTracked
  <2>11. SnapshotHasVolume'
    BY <1>1, <1>2, <1>3 DEF SnapshotHasVolume
  <2>12. Asked'
    BY <1>1, <1>2, <1>3 DEF Asked, Removes
  <2>13. VolumesKept'
    BY <1>1, <1>2, <1>3 DEF VolumesKept
  <2>14. SnapshotsQuiet'
    BY <1>1, <1>2, <1>3, NoneAssumption DEF SnapshotsQuiet, Object
  <2>15. SnapshotsKept'
    BY <1>1, <1>2, <1>3 DEF SnapshotsKept, SnapshotsQuiet
  <2>16. Untold'
    BY <1>1, <1>2, <1>3 DEF Untold, Worker
  <2>17. Orderly'
    BY <1>1, <1>2, <1>3 DEF Orderly, Pending, Removing
  <2>18. QED
    BY <2>1, <2>2, <2>3, <2>4, <2>5, <2>6, <2>7, <2>8, <2>9, <2>10, <2>11,
       <2>12, <2>13, <2>14, <2>15, <2>16, <2>17
<1>4. ASSUME NEW s \in Requested, s \in snapRec, promise[s] = "none", UNCHANGED job,
             promise' = [promise EXCEPT ![s] =
               IF txn[s] = "none" /\ ~Creating(w, s) THEN "acked" ELSE "shaky"]
      PROVE  IInv'
  <2>1. txn[s] = "addSnapshot"
    BY <1>4 DEF Untold
  <2>2. /\ promise' \in [Object -> {"none", "acked", "shaky", "doomed"}] /\ UNCHANGED job
        /\ \A x \in Object : promise'[x] = IF x = s THEN "shaky" ELSE promise[x]
    BY <1>2, <1>4, <2>1 DEF Types
  <2>3. Types'
    BY <1>1, <1>2, <2>1, <2>2 DEF Types
  <2>4. Jobs'
    BY <1>1, <1>2, <2>1, <2>2 DEF JobOK, Creates, Deletes, Removes
  <2>5. Phases'
    BY <1>1, <1>2, <2>1, <2>2, DistinctAssumption DEF Phases, Worker, JobOK
  <2>6. Owners'
    BY <1>1, <1>2, <2>1, <2>2, NoneAssumption DEF Owners, Types, Worker
  <2>7. Logged'
    BY <1>1, <1>2, <2>1, <2>2 DEF Logged, Owners, JobOK, Creates, Deletes,
       Removes
  <2>8. Exclusion'
    BY <1>1, <1>2, <2>1, <2>2 DEF Exclusion, Reading, Writing
  <2>9. Making'
    BY <1>1, <1>2, <2>1, <2>2 DEF Making, Exclusion, Reading, Writing
  <2>10. Unmaking'
    BY <1>1, <1>2, <2>1, <2>2 DEF Unmaking, Removes
  <2>11. Looked'
    BY <1>1, <1>2, <2>1, <2>2 DEF Looked, Exclusion, Reading, Writing
  <2>12. SnapshotTracked'
    BY <1>1, <1>2, <2>1, <2>2 DEF SnapshotTracked
  <2>13. SnapshotHasVolume'
    BY <1>1, <1>2, <2>1, <2>2 DEF SnapshotHasVolume
  <2>14. Asked'
    BY <1>1, <1>2, <2>1, <2>2 DEF Asked, Removes, JobOK
  <2>15. VolumesKept'
    BY <1>1, <1>2, <2>1, <2>2 DEF VolumesKept
  <2>16. SnapshotsQuiet'
    BY <1>1, <1>2, <2>1, <2>2, NoneAssumption DEF SnapshotsQuiet, Object
  <2>17. SnapshotsKept'
    BY <1>1, <1>2, <2>1, <2>2 DEF SnapshotsKept, SnapshotsQuiet
  <2>18. Untold'
    BY <1>1, <1>2, <2>1, <2>2 DEF Untold, Worker, Types
  <2>19. Orderly'
    BY <1>1, <1>2, <2>1, <2>2 DEF Orderly, Pending, Removing
  <2>20. QED
    BY <2>3, <2>4, <2>5, <2>6, <2>7, <2>8, <2>9, <2>10, <2>11, <2>12, <2>13,
       <2>14, <2>15, <2>16, <2>17, <2>18, <2>19
<1>5. QED
  <2> HIDE DEF Becomes
  <2>1. PICK s \in Requested :
          IF s \in snapCache
            THEN /\ promise[s] = "none" /\ ~Deleting(s)
                 /\ promise' = [promise EXCEPT ![s] =
                      IF txn[s] = "none" /\ ~Creating(w, s) THEN "acked" ELSE "shaky"]
                 /\ UNCHANGED job
            ELSE /\ job' = [job EXCEPT ![w] = [Idle EXCEPT !.pc = "mutex",
                                                 !.op = "create", !.key = s]]
                 /\ UNCHANGED promise
    BY DEF CreateSnapshot
  <2>2. "create" \in Op /\ s \in Object
    BY <1>2 DEF Op
  <2>3. CASE s \in snapRec
    BY <1>1, <1>4, <2>1, <2>3
  <2>4. CASE s \notin snapRec
    <3>1. Becomes(w, "mutex", "create", s, "none", None, FALSE, {}, FALSE)
      BY <1>1, <2>1, <2>2, <2>4, RequestMoves, Places
    <3>2. QED
      BY <1>1, <1>3, <2>1, <2>4, <3>1
  <2>5. QED
    BY <2>3, <2>4

(* DeleteVolume or DeleteSnapshot takes a request; its client counts on    *)
(* the object no more.                                                     *)
LEMMA DeleteStep ==
  ASSUME IInv, NEW w \in Client, Delete(w)
  PROVE  IInv'
<1> USE DEF IInv, Jobs, Becomes, Moved, Ended
<1> USE DEF Steps
<1>1. /\ job[w].pc = "idle" /\ phase = "up" /\ w \in Worker /\ w # boot
      /\ volCache = volRec /\ snapCache = snapRec
      /\ UNCHANGED <<volRec, snapRec, txn, diskVol, diskSnap, torn, volCache, snapCache, phase, queue, mutex, mishap>>
  BY DistinctAssumption DEF Delete, At, Worker, Phases, records, disk, cache, control
<1>2. /\ \A u \in Worker : job[u].op # "none" \/ job[u].old # "none" \/ job[u].pc # "idle"
                              => job[u].key \in Object
      /\ Requested \subseteq Object /\ Snapshot \subseteq Object /\ Volume \subseteq Object
      /\ \A v \in Volume : v \notin Snapshot /\ v \notin Requested
  BY Objects
<1>3. ASSUME NEW x \in Volume \cup Requested, NEW a \in {"none", "doomed"},
             promise' = [promise EXCEPT ![x] = a], a = "none" => x \notin snapRec,
             \/ UNCHANGED job
             \/ Becomes(w, "mutex", "delete", x, "none", None, FALSE, {}, FALSE)
      PROVE  IInv'
  <2>1. /\ promise' \in [Object -> {"none", "acked", "shaky", "doomed"}]
        /\ \A y \in Object : promise'[y] = IF y = x THEN a ELSE promise[y]
        /\ x \in Object /\ (a = "none" => x \notin snapRec)
        /\ \/ UNCHANGED job
           \/ Becomes(w, "mutex", "delete", x, "none", None, FALSE, {}, FALSE)
    BY <1>2, <1>3 DEF Types
  <2>2. Types'
    BY <1>1, <1>2, <2>1 DEF Types
  <2>3. Jobs'
    BY <1>1, <1>2, <2>1 DEF JobOK, Creates, Deletes, Removes
  <2>4. Phases'
    BY <1>1, <1>2, <2>1, DistinctAssumption DEF Phases, Worker, JobOK
  <2>5. Owners'
    BY <1>1, <1>2, <2>1, NoneAssumption DEF Owners, Types, Worker
  <2>6. Logged'
    BY <1>1, <1>2, <2>1 DEF Logged, Owners, JobOK, Creates, Deletes, Removes
  <2>7. Exclusion'
    BY <1>1, <1>2, <2>1 DEF Exclusion, Reading, Writing
  <2>8. Making'
    BY <1>1, <1>2, <2>1 DEF Making, Exclusion, Reading, Writing
  <2>9. Unmaking'
    BY <1>1, <1>2, <2>1 DEF Unmaking, Removes
  <2>10. Looked'
    BY <1>1, <1>2, <2>1 DEF Looked, Exclusion, Reading, Writing
  <2>11. SnapshotTracked'
    BY <1>1, <1>2, <2>1 DEF SnapshotTracked
  <2>12. SnapshotHasVolume'
    BY <1>1, <1>2, <2>1 DEF SnapshotHasVolume
  <2>13. Asked'
    BY <1>1, <1>2, <2>1 DEF Asked, Removes, JobOK
  <2>14. VolumesKept'
    BY <1>1, <1>2, <2>1 DEF VolumesKept
  <2>15. SnapshotsQuiet'
    BY <1>1, <1>2, <2>1, NoneAssumption DEF SnapshotsQuiet, Object
  <2>16. SnapshotsKept'
    BY <1>1, <1>2, <2>1 DEF SnapshotsKept, SnapshotsQuiet
  <2>17. Untold'
    BY <1>1, <1>2, <2>1 DEF Untold, Worker, Types
  <2>18. Orderly'
    BY <1>1, <1>2, <2>1 DEF Orderly, Pending, Removing
  <2>19. QED
    BY <2>2, <2>3, <2>4, <2>5, <2>6, <2>7, <2>8, <2>9, <2>10, <2>11, <2>12,
       <2>13, <2>14, <2>15, <2>16, <2>17, <2>18
<1>4. QED
  <2> HIDE DEF Becomes
  <2>1. PICK x \in Volume \cup Requested :
          IF (IF x \in Volume THEN volCache[x] # "none" ELSE x \in snapCache)
            THEN /\ promise' = [promise EXCEPT ![x] = "doomed"]
                 /\ job' = [job EXCEPT ![w] = [Idle EXCEPT !.pc = "mutex",
                                                 !.op = "delete", !.key = x]]
            ELSE promise' = [promise EXCEPT ![x] = "none"] /\ UNCHANGED job
    BY DEF Delete
  <2>2. "delete" \in Op /\ x \in Object /\ (x \in Volume => x \notin snapRec)
    BY <1>2 DEF Op, Types
  <2>3. CASE IF x \in Volume THEN volCache[x] # "none" ELSE x \in snapCache
    <3>1. Becomes(w, "mutex", "delete", x, "none", None, FALSE, {}, FALSE)
      BY <1>1, <2>1, <2>2, <2>3, RequestMoves, Places
    <3>2. QED
      BY <1>3, <2>1, <2>3, <3>1
  <2>4. CASE ~(IF x \in Volume THEN volCache[x] # "none" ELSE x \in snapCache)
    BY <1>1, <1>3, <2>1, <2>2, <2>4
  <2>5. QED
    BY <2>3, <2>4

(* A request gets the txnMutex of its object.                              *)
LEMMA LockTxnStep ==
  ASSUME IInv, NEW w \in Worker, LockTxn(w)
  PROVE  IInv'
<1> USE DEF IInv, Jobs, Becomes, Moved, Ended
<1> USE DEF Steps
<1>1. /\ Moved(w, "log") /\ job[w].pc = "mutex" /\ job[w].key \in Object
      /\ mutex[job[w].key] = None /\ mutex' = [mutex EXCEPT ![job[w].key] = w]
      /\ UNCHANGED <<volRec, snapRec, txn, diskVol, diskSnap, torn, volCache, snapCache, phase, queue, promise, mishap>>
  <2>1. Moved(w, "log")
    <3> HIDE DEF Moved
    <3>1. QED
      BY GotoMoves, Places DEF LockTxn, Goto
  <2>2. QED
    BY <2>1, RequestedAssumption DEF LockTxn, At, Key, JobOK, Object, records, disk, cache, control
<1>2. Types'
  BY <1>1 DEF Types
<1>3. Jobs'
  BY <1>1 DEF JobOK, Creates, Deletes, Removes
<1>4. Phases'
  BY <1>1, DistinctAssumption DEF Phases, Worker, JobOK
<1>5. Owners'
  BY <1>1, NoneAssumption DEF Owners, Types, Worker
<1>6. Logged'
  BY <1>1 DEF Logged, Owners, JobOK, Creates, Deletes, Removes
<1>7. Exclusion'
  BY <1>1 DEF Exclusion, Reading, Writing
<1>8. Making'
  BY <1>1 DEF Making, Exclusion, Reading, Writing
<1>9. Unmaking'
  BY <1>1 DEF Unmaking, Removes
<1>10. Looked'
  BY <1>1 DEF Looked, Exclusion, Reading, Writing
<1>11. SnapshotTracked'
  BY <1>1 DEF SnapshotTracked
<1>12. SnapshotHasVolume'
  BY <1>1 DEF SnapshotHasVolume
<1>13. Asked'
  BY <1>1 DEF Asked, Removes
<1>14. VolumesKept'
  BY <1>1 DEF VolumesKept
<1>15. SnapshotsQuiet'
  BY <1>1, NoneAssumption DEF SnapshotsQuiet, Object
<1>16. SnapshotsKept'
  BY <1>1 DEF SnapshotsKept, SnapshotsQuiet
<1>17. Untold'
  BY <1>1 DEF Untold, Worker
<1>18. Orderly'
  BY <1>1 DEF Orderly, Pending, Removing
<1>19. QED
  BY <1>2, <1>3, <1>4, <1>5, <1>6, <1>7, <1>8, <1>9, <1>10, <1>11, <1>12, <1>13,
     <1>14, <1>15, <1>16, <1>17, <1>18

(* A transaction is logged, or an older one is found.  A snapshot that     *)
(* has no record and no transaction is not on the storage system.          *)
LEMMA AddVolumeTransactionStep ==
  ASSUME IInv, NEW w \in Worker, AddVolumeTransaction(w)
  PROVE  IInv'
<1> USE DEF IInv, Jobs, Becomes, Moved, Ended
<1> USE DEF Steps
<1>0. \A u \in Worker : u # w /\ job[u].pc \notin {"idle", "mutex"} => job[u].key # job[w].key
  BY Alone DEF AddVolumeTransaction, At
<1>1. /\ job[w].pc = "log" /\ job[w].key \in Object /\ job[w].key \in Volume \cup Requested
      /\ w \in Client /\ w # boot /\ phase = "up" /\ job[w].old = "none" /\ ~job[w].err
      /\ job[w].op \in {"create", "delete"} /\ (job[w].op = "create" => job[w].key \in Requested)
      /\ volCache = volRec /\ snapCache = snapRec
      /\ UNCHANGED <<volRec, snapRec, diskVol, diskSnap, torn, volCache, snapCache, phase, queue>>
  BY RequestedAssumption, DistinctAssumption DEF AddVolumeTransaction, At, JobOK, Worker, Object,
     Phases, Job, Op, records, disk, cache, control
<1>2. /\ \A u \in Worker : job[u].op # "none" \/ job[u].old # "none" \/ job[u].pc # "idle"
                              => job[u].key \in Object
      /\ Requested \subseteq Object /\ Snapshot \subseteq Object /\ Volume \subseteq Object
      /\ \A v \in Volume : v \notin Snapshot /\ v \notin Requested
  BY Objects
<1>3. CASE UNCHANGED txn /\ mishap' = TRUE /\ Return(w, FALSE)
  BY <1>1, <1>3, ReturnFalse, GivesUp
<1>4. CASE /\ txn[job[w].key] # "none" /\ UNCHANGED <<txn, mutex, promise, mishap>>
           /\ Steps(w, "replay", txn[job[w].key], job[w].vol, job[w].nested, job[w].dups,
                    job[w].err)
  <2>1. Types'
    BY <1>0, <1>1, <1>2, <1>4 DEF Types
  <2>2. Jobs'
    BY <1>0, <1>1, <1>2, <1>4 DEF JobOK, Creates, Deletes, Removes
  <2>3. Phases'
    BY <1>0, <1>1, <1>2, <1>4, DistinctAssumption DEF Phases, Worker, JobOK
  <2>4. Owners'
    BY <1>0, <1>1, <1>2, <1>4, NoneAssumption DEF Owners, Types, Worker
  <2>5. Logged'
    BY <1>0, <1>1, <1>2, <1>4 DEF Logged, Owners, JobOK, Creates, Deletes,
       Removes
  <2>6. Exclusion'
    BY <1>0, <1>1, <1>2, <1>4 DEF Exclusion, Reading, Writing
  <2>7. Making'
    BY <1>0, <1>1, <1>2, <1>4 DEF Making, Exclusion, Reading, Writing
  <2>8. Unmaking'
    BY <1>0, <1>1, <1>2, <1>4 DEF Unmaking, Removes
  <2>9. Looked'
    BY <1>0, <1>1, <1>2, <1>4 DEF Looked, Exclusion, Reading, Writing
  <2>10. SnapshotTracked'
    BY <1>0, <1>1, <1>2, <1>4 DEF SnapshotTracked
  <2>11. SnapshotHasVolume'
    BY <1>0, <1>1, <1>2, <1>4 DEF SnapshotHasVolume
  <2>12. Asked'
    BY <1>0, <1>1, <1>2, <1>4 DEF Asked, Removes
  <2>13. VolumesKept'
    BY <1>0, <1>1, <1>2, <1>4 DEF VolumesKept
  <2>14. SnapshotsQuiet'
    BY <1>0, <1>1, <1>2, <1>4, NoneAssumption DEF SnapshotsQuiet, Object
  <2>15. SnapshotsKept'
    BY <1>0, <1>1, <1>2, <1>4 DEF SnapshotsKept, SnapshotsQuiet
  <2>16. Untold'
    BY <1>0, <1>1, <1>2, <1>4 DEF Untold, Worker
  <2>17. Orderly'
    BY <1>0, <1>1, <1>2, <1>4 DEF Orderly, Pending, Removing
  <2>18. QED
    BY <2>1, <2>2, <2>3, <2>4, <2>5, <2>6, <2>7, <2>8, <2>9, <2>10, <2>11,
       <2>12, <2>13, <2>14, <2>15, <2>16, <2>17
<1>5. ASSUME NEW t \in Txn, NEW p \in PC, NEW v \in Volume \cup {None},
             txn[job[w].key] = "none", txn' = [txn EXCEPT ![job[w].key] = t],
             Steps(w, p, job[w].old, v, job[w].nested, job[w].dups, job[w].err),
             \/ /\ job[w].op = "create" /\ t = "addSnapshot" /\ p = "lock" /\ v = None
             \/ /\ job[w].op = "delete" /\ job[w].key \in Volume
                /\ t = "deleteVolume" /\ p = "vlock" /\ v = job[w].key
             \/ /\ job[w].op = "delete" /\ job[w].key \in Requested
                /\ t = "deleteSnapshot" /\ p = "dlock" /\ v = None,
             UNCHANGED <<mutex, promise, mishap>>
      PROVE  IInv'
  <2>1. /\ txn' \in [Object -> Txn]
        /\ \A x \in Object : txn'[x] = IF x = job[w].key THEN t ELSE txn[x]
    BY <1>1, <1>5 DEF Types
  <2>2. /\ UNCHANGED <<mutex, promise, mishap>> /\ txn[job[w].key] = "none"
        /\ Steps(w, p, job[w].old, v, job[w].nested, job[w].dups, job[w].err)
    BY <1>5
  <2>3. \/ /\ job[w].op = "create" /\ t = "addSnapshot" /\ p = "lock"
        \/ /\ job[w].op = "delete" /\ job[w].key \in Volume
           /\ t = "deleteVolume" /\ p = "vlock" /\ v = job[w].key
        \/ /\ job[w].op = "delete" /\ job[w].key \in Requested
           /\ t = "deleteSnapshot" /\ p = "dlock"
    BY <1>5
  <2>4. Types'
    BY <1>0, <1>1, <1>2, <2>1, <2>2, <2>3 DEF Types
  <2>5. Jobs'
    BY <1>0, <1>1, <1>2, <2>1, <2>2, <2>3 DEF JobOK, Creates, Deletes, Removes
  <2>6. Phases'
    BY <1>0, <1>1, <1>2, <2>1, <2>2, <2>3, DistinctAssumption DEF Phases,
       Worker, JobOK
  <2>7. Owners'
    BY <1>0, <1>1, <1>2, <2>1, <2>2, <2>3, NoneAssumption DEF Owners, Types,
       Worker
  <2>8. Logged'
    BY <1>0, <1>1, <1>2, <2>1, <2>2, <2>3 DEF Logged, Owners, JobOK, Creates,
       Deletes, Removes
  <2>9. Exclusion'
    BY <1>0, <1>1, <1>2, <2>1, <2>2, <2>3 DEF Exclusion, Reading, Writing
  <2>10. Making'
    BY <1>0, <1>1, <1>2, <2>1, <2>2, <2>3 DEF Making, Exclusion, Reading,
       Writing, SnapshotTracked
  <2>11. Unmaking'
    BY <1>0, <1>1, <1>2, <2>1, <2>2, <2>3 DEF Unmaking, Removes, Types
  <2>12. Looked'
    BY <1>0, <1>1, <1>2, <2>1, <2>2, <2>3 DEF Looked, Exclusion, Reading,
       Writing
  <2>13. SnapshotTracked'
    BY <1>0, <1>1, <1>2, <2>1, <2>2, <2>3 DEF SnapshotTracked, Types
  <2>14. SnapshotHasVolume'
    BY <1>0, <1>1, <1>2, <2>1, <2>2, <2>3 DEF SnapshotHasVolume
  <2>15. Asked'
    BY <1>0, <1>1, <1>2, <2>1, <2>2, <2>3 DEF Asked, Removes
  <2>16. VolumesKept'
    BY <1>0, <1>1, <1>2, <2>1, <2>2, <2>3 DEF VolumesKept
  <2>17. SnapshotsQuiet'
    BY <1>0, <1>1, <1>2, <2>1, <2>2, <2>3, NoneAssumption DEF SnapshotsQuiet,
       Object
  <2>18. SnapshotsKept'
    BY <1>0, <1>1, <1>2, <2>1, <2>2, <2>3 DEF SnapshotsKept, SnapshotsQuiet
  <2>19. Untold'
    BY <1>0, <1>1, <1>2, <2>1, <2>2, <2>3 DEF Untold, Worker, Types
  <2>20. Orderly'
    BY <1>0, <1>1, <1>2, <2>1, <2>2, <2>3 DEF Orderly, Pending, Removing
  <2>21. QED
    BY <2>4, <2>5, <2>6, <2>7, <2>8, <2>9, <2>10, <2>11, <2>12, <2>13, <2>14,
       <2>15, <2>16, <2>17, <2>18, <2>19, <2>20
<1>6. CASE /\ txn[Key(w)] = "none"
           /\ txn' = [txn EXCEPT ![Key(w)] =
                CASE job[w].op = "create" -> "addSnapshot"
                  [] Key(w) \in Volume -> "deleteVolume"
                  [] OTHER -> "deleteSnapshot"]
           /\ job' = [job EXCEPT ![w].pc = CASE job[w].op = "create" -> "lock"
                                             [] Key(w) \in Volume -> "vlock"
                                             [] OTHER -> "dlock",
                                 ![w].vol = IF Key(w) \in Volume THEN Key(w) ELSE None]
           /\ UNCHANGED <<mutex, promise, mishap>>
  <2> HIDE DEF Steps
  <2>1. {"addSnapshot", "deleteSnapshot", "deleteVolume"} \subseteq Txn
    BY DEF Txn
  <2>2. CASE job[w].op = "create"
    <3>1. /\ txn' = [txn EXCEPT ![job[w].key] = "addSnapshot"]
          /\ job' = [job EXCEPT ![w].pc = "lock", ![w].vol = None]
      BY <1>1, <1>2, <1>6, <2>2 DEF Key
    <3>2. QED
      BY <1>5, <1>6, <2>1, <2>2, <3>1, VolMoves, Places DEF Key
  <2>3. CASE job[w].op = "delete" /\ job[w].key \in Volume
    <3>1. /\ txn' = [txn EXCEPT ![job[w].key] = "deleteVolume"]
          /\ job' = [job EXCEPT ![w].pc = "vlock", ![w].vol = job[w].key]
      BY <1>1, <1>2, <1>6, <2>3 DEF Key
    <3>2. QED
      BY <1>5, <1>6, <2>1, <2>3, <3>1, VolMoves, Places DEF Key
  <2>4. CASE job[w].op = "delete" /\ job[w].key \in Requested
    <3>1. /\ txn' = [txn EXCEPT ![job[w].key] = "deleteSnapshot"]
          /\ job' = [job EXCEPT ![w].pc = "dlock", ![w].vol = None]
      BY <1>1, <1>2, <1>6, <2>4 DEF Key
    <3>2. QED
      BY <1>5, <1>6, <2>1, <2>4, <3>1, VolMoves, Places DEF Key
  <2>5. QED
    BY <1>1, <2>2, <2>3, <2>4
<1>7. CASE /\ txn[Key(w)] # "none" /\ UNCHANGED <<txn, mutex, promise, mishap>>
           /\ job' = [job EXCEPT ![w].pc = "replay", ![w].old = txn[Key(w)]]
  <2> HIDE DEF Steps
  <2>1. txn[Key(w)] \in Txn
    BY <1>1 DEF Types, Key
  <2>2. QED
    BY <1>4, <1>7, <2>1, OldMoves, Places DEF Key
<1>8. QED
  BY <1>3, <1>6, <1>7 DEF AddVolumeTransaction, Works, Fails

(* CreateSnapshot has its locks, so that nobody deletes the volume.        *)
LEMMA LockSnapshotStep ==
  ASSUME IInv, NEW w \in Worker, LockSnapshot(w)
  PROVE  IInv'
<1> USE DEF IInv, Jobs, Becomes, Moved, Ended
<1> USE DEF Steps
<1>0. \A u \in Worker : u # w /\ job[u].pc \notin {"idle", "mutex"} => job[u].key # job[w].key
  BY Alone DEF LockSnapshot, At
<1>1. /\ job[w].pc = "lock" /\ job[w].key \in Requested /\ job[w].key \in Snapshot
      /\ Parent[job[w].key] \in Volume /\ phase = "up" /\ volCache = volRec /\ snapCache = snapRec
      /\ volRec[Parent[job[w].key]] # "none"
      /\ UNCHANGED <<volRec, snapRec, txn, diskVol, diskSnap, torn, volCache, snapCache, phase, queue, mutex, promise, mishap>>
  BY RequestedAssumption, ParentAssumption DEF LockSnapshot, Works, At, Key, JobOK, Creates,
     Phases, Worker, Logged, records, disk, cache, control
<1>2. \A u \in Worker : job[u].pc \in Writing => job[u].vol # Parent[job[w].key]
  BY DEF LockSnapshot, Writers, Writing, At, Key
<1>3. \/ Steps(w, "endCreate", job[w].old, job[w].vol, job[w].nested, job[w].dups, TRUE)
      \/ Moved(w, "snap") /\ job[w].key \notin snapRec
  <2> HIDE DEF Steps, Moved
  <2>1. QED
    BY <1>1, GotoMoves, ErrMoves, Places DEF LockSnapshot, Goto, Key
<1>4. Types'
  BY <1>0, <1>1, <1>2, <1>3 DEF Types
<1>5. Jobs'
  BY <1>0, <1>1, <1>2, <1>3 DEF JobOK, Creates, Deletes, Removes
<1>6. Phases'
  BY <1>0, <1>1, <1>2, <1>3, DistinctAssumption DEF Phases, Worker, JobOK
<1>7. Owners'
  BY <1>0, <1>1, <1>2, <1>3, NoneAssumption DEF Owners, Types, Worker
<1>8. Logged'
  BY <1>0, <1>1, <1>2, <1>3 DEF Logged, Owners, JobOK, Creates, Deletes, Removes
<1>9. Exclusion'
  BY <1>0, <1>1, <1>2, <1>3 DEF Exclusion, Reading, Writing
<1>10. Making'
  BY <1>0, <1>1, <1>2, <1>3 DEF Making, Exclusion, Reading, Writing
<1>11. Unmaking'
  BY <1>0, <1>1, <1>2, <1>3 DEF Unmaking, Removes
<1>12. Looked'
  BY <1>0, <1>1, <1>2, <1>3 DEF Looked, Exclusion, Reading, Writing
<1>13. SnapshotTracked'
  BY <1>0, <1>1, <1>2, <1>3 DEF SnapshotTracked
<1>14. SnapshotHasVolume'
  BY <1>0, <1>1, <1>2, <1>3 DEF SnapshotHasVolume
<1>15. Asked'
  BY <1>0, <1>1, <1>2, <1>3 DEF Asked, Removes
<1>16. VolumesKept'
  BY <1>0, <1>1, <1>2, <1>3 DEF VolumesKept
<1>17. SnapshotsQuiet'
  BY <1>0, <1>1, <1>2, <1>3, NoneAssumption DEF SnapshotsQuiet, Object
<1>18. SnapshotsKept'
  BY <1>0, <1>1, <1>2, <1>3 DEF SnapshotsKept, SnapshotsQuiet
<1>19. Untold'
  BY <1>0, <1>1, <1>2, <1>3 DEF Untold, Worker
<1>20. Orderly'
  BY <1>0, <1>1, <1>2, <1>3 DEF Orderly, Pending, Removing
<1>21. QED
  BY <1>4, <1>5, <1>6, <1>7, <1>8, <1>9, <1>10, <1>11, <1>12, <1>13, <1>14,
     <1>15, <1>16, <1>17, <1>18, <1>19, <1>20

(* The storage system makes the snapshot, under a transaction.             *)
LEMMA SnapStep ==
  ASSUME IInv, NEW w \in Worker, Snap(w)
  PROVE  IInv'
<1> USE DEF IInv, Jobs, Becomes, Moved, Ended
<1> USE DEF Steps
<1>0. \A u \in Worker : u # w /\ job[u].pc \notin {"idle", "mutex"} => job[u].key # job[w].key
  BY Alone DEF Snap, At
<1>1. /\ job[w].pc = "snap" /\ job[w].key \in Requested /\ job[w].key \in Snapshot
      /\ Parent[job[w].key] \in Volume /\ phase = "up" /\ txn[job[w].key] = "addSnapshot"
      /\ UNCHANGED <<volRec, snapRec, txn, diskVol, volCache, snapCache, phase, queue, mutex, promise>>
  BY RequestedAssumption, ParentAssumption DEF Snap, At, JobOK, Creates,
     Phases, Worker, Logged, records, disk, cache, control
<1>2. \/ /\ Parent[job[w].key] \in diskVol /\ diskSnap' = diskSnap \cup {job[w].key}
         /\ torn' = torn \ {job[w].key} /\ Moved(w, "persist") /\ UNCHANGED mishap
      \/ /\ Steps(w, "endCreate", job[w].old, job[w].vol, job[w].nested, job[w].dups, TRUE)
         /\ mishap' = TRUE
         /\ \/ UNCHANGED <<diskSnap, torn>>
            \/ /\ diskSnap' = diskSnap \cup {job[w].key}
               /\ torn' = torn \cup {job[w].key}
  <2> HIDE DEF Steps, Moved
  <2>1. QED
    BY GotoMoves, ErrMoves, Places DEF Snap, Goto, Key, Works, Fails
<1>3. Types'
  BY <1>0, <1>1, <1>2 DEF Types
<1>4. Jobs'
  BY <1>0, <1>1, <1>2 DEF JobOK, Creates, Deletes, Removes
<1>5. Phases'
  BY <1>0, <1>1, <1>2, DistinctAssumption DEF Phases, Worker, JobOK
<1>6. Owners'
  BY <1>0, <1>1, <1>2, NoneAssumption DEF Owners, Types, Worker
<1>7. Logged'
  BY <1>0, <1>1, <1>2 DEF Logged, Owners, JobOK, Creates, Deletes, Removes
<1>8. Exclusion'
  BY <1>0, <1>1, <1>2 DEF Exclusion, Reading, Writing
<1>9. Making'
  BY <1>0, <1>1, <1>2 DEF Making, Exclusion, Reading, Writing
<1>10. Unmaking'
  BY <1>0, <1>1, <1>2 DEF Unmaking, Removes
<1>11. Looked'
  BY <1>0, <1>1, <1>2 DEF Looked, Exclusion, Reading, Writing
<1>12. SnapshotTracked'
  BY <1>0, <1>1, <1>2 DEF SnapshotTracked
<1>13. SnapshotHasVolume'
  BY <1>0, <1>1, <1>2 DEF SnapshotHasVolume
<1>14. Asked'
  BY <1>0, <1>1, <1>2 DEF Asked, Removes
<1>15. VolumesKept'
  BY <1>0, <1>1, <1>2 DEF VolumesKept
<1>16. SnapshotsQuiet'
  BY <1>0, <1>1, <1>2, NoneAssumption DEF SnapshotsQuiet, Object
<1>17. SnapshotsKept'
  BY <1>0, <1>1, <1>2 DEF SnapshotsKept, SnapshotsQuiet
<1>18. Untold'
  BY <1>0, <1>1, <1>2 DEF Untold, Worker
<1>19. Orderly'
  BY <1>0, <1>1, <1>2 DEF Orderly, Pending, Removing
<1>20. QED
  BY <1>3, <1>4, <1>5, <1>6, <1>7, <1>8, <1>9, <1>10, <1>11, <1>12, <1>13,
     <1>14, <1>15, <1>16, <1>17, <1>18, <1>19

(* The snapshot is recorded while its volume cannot go.                    *)
LEMMA PersistSnapshotStep ==
  ASSUME IInv, NEW w \in Worker, PersistSnapshot(w)
  PROVE  IInv'
<1> USE DEF IInv, Jobs, Becomes, Moved, Ended
<1> USE DEF Steps
<1>0. \A u \in Worker : u # w /\ job[u].pc \notin {"idle", "mutex"} => job[u].key # job[w].key
  BY Alone DEF PersistSnapshot, At
<1>1. /\ job[w].pc = "persist" /\ job[w].key \in Requested /\ job[w].key \in Snapshot
      /\ Parent[job[w].key] \in Volume /\ phase = "up" /\ txn[job[w].key] = "addSnapshot"
      /\ w \in Client
      /\ UNCHANGED <<volRec, txn, diskVol, diskSnap, torn, volCache, phase, queue, mutex, promise>>
  BY RequestedAssumption, ParentAssumption DEF PersistSnapshot, At, JobOK, Creates,
     Phases, Worker, Logged, records, disk, cache, control
<1>2. \/ /\ snapRec' = snapRec \cup {job[w].key} /\ snapCache' = snapCache \cup {job[w].key}
         /\ Moved(w, "endCreate") /\ UNCHANGED mishap
      \/ /\ Steps(w, "undo", job[w].old, job[w].vol, job[w].nested, job[w].dups, TRUE)
         /\ mishap' = TRUE /\ UNCHANGED <<snapRec, snapCache>>
  <2> HIDE DEF Steps, Moved
  <2>1. QED
    BY GotoMoves, ErrMoves, Places DEF PersistSnapshot, Goto, Key, Works, Fails
<1>3. Types'
  BY <1>0, <1>1, <1>2 DEF Types
<1>4. Jobs'
  BY <1>0, <1>1, <1>2 DEF JobOK, Creates, Deletes, Removes
<1>5. Phases'
  BY <1>1, <1>2, DistinctAssumption DEF Phases, Worker
<1>6. Owners'
  BY <1>0, <1>1, <1>2, NoneAssumption DEF Owners, Types, Worker
<1>7. Logged'
  BY <1>0, <1>1, <1>2 DEF Logged, Owners, JobOK, Creates, Deletes, Removes
<1>8. Exclusion'
  BY <1>0, <1>1, <1>2 DEF Exclusion, Reading, Writing
<1>9. Making'
  BY <1>0, <1>1, <1>2 DEF Making, Exclusion, Reading, Writing
<1>10. Unmaking'
  BY <1>0, <1>1, <1>2 DEF Unmaking, Removes
<1>11. Looked'
  BY <1>0, <1>1, <1>2 DEF Looked, Exclusion, Reading, Writing
<1>12. SnapshotTracked'
  BY <1>0, <1>1, <1>2 DEF SnapshotTracked
<1>13. SnapshotHasVolume'
  BY <1>0, <1>1, <1>2 DEF SnapshotHasVolume, Making
<1>14. Asked'
  BY <1>0, <1>1, <1>2 DEF Asked, Removes
<1>15. VolumesKept'
  BY <1>0, <1>1, <1>2 DEF VolumesKept
<1>16. SnapshotsQuiet'
  BY <1>0, <1>1, <1>2, NoneAssumption DEF SnapshotsQuiet, Object
<1>17. SnapshotsKept'
  BY <1>0, <1>1, <1>2 DEF SnapshotsKept, SnapshotsQuiet
<1>18. Untold'
  BY <1>0, <1>1, <1>2 DEF Untold, Worker, JobOK
<1>19. Orderly'
  BY <1>0, <1>1, <1>2 DEF Orderly, Pending, Removing
<1>20. QED
  BY <1>3, <1>4, <1>5, <1>6, <1>7, <1>8, <1>9, <1>10, <1>11, <1>12, <1>13,
     <1>14, <1>15, <1>16, <1>17, <1>18, <1>19

(* addSnapshotCleanup takes the snapshot off the storage system.           *)
LEMMA CleanupStep ==
  ASSUME IInv, NEW w \in Worker, Cleanup(w)
  PROVE  IInv'
<1> USE DEF IInv, Jobs, Becomes, Moved, Ended
<1> USE DEF Steps
<1>0. \A u \in Worker : u # w /\ job[u].pc \notin {"idle", "mutex"} => job[u].key # job[w].key
  BY Alone DEF Cleanup, At
<1>1. /\ job[w].pc = "undo" /\ job[w].key \in Requested /\ job[w].key \in Snapshot
      /\ w # boot /\ job[w].err /\ job[w].key \notin snapRec
      /\ UNCHANGED <<volRec, snapRec, txn, diskVol, volCache, snapCache, phase, queue>>
  BY RequestedAssumption DEF Cleanup, At, JobOK, Creates, Making, records, disk, cache, control
<1>2. CASE Return(w, FALSE) /\ mishap' = TRUE /\ UNCHANGED <<diskSnap, torn>>
  BY <1>1, <1>2, ReturnFalse, GivesUp
<1>3. CASE /\ Moved(w, "endCreate") /\ diskSnap' = diskSnap \ {job[w].key}
           /\ torn' = torn \ {job[w].key} /\ UNCHANGED <<mutex, promise, mishap>>
  <2>1. Types'
    BY <1>0, <1>1, <1>3 DEF Types
  <2>2. Jobs'
    BY <1>0, <1>1, <1>3 DEF JobOK, Creates, Deletes, Removes
  <2>3. Phases'
    BY <1>0, <1>1, <1>3, DistinctAssumption DEF Phases, Worker, JobOK
  <2>4. Owners'
    BY <1>0, <1>1, <1>3, NoneAssumption DEF Owners, Types, Worker
  <2>5. Logged'
    BY <1>0, <1>1, <1>3 DEF Logged, Owners, JobOK, Creates, Deletes, Removes
  <2>6. Exclusion'
    BY <1>0, <1>1, <1>3 DEF Exclusion, Reading, Writing
  <2>7. Making'
    BY <1>0, <1>1, <1>3 DEF Making, Exclusion, Reading, Writing
  <2>8. Unmaking'
    BY <1>0, <1>1, <1>3 DEF Unmaking, Removes
  <2>9. Looked'
    BY <1>0, <1>1, <1>3 DEF Looked, Exclusion, Reading, Writing
  <2>10. SnapshotTracked'
    BY <1>0, <1>1, <1>3 DEF SnapshotTracked
  <2>11. SnapshotHasVolume'
    BY <1>0, <1>1, <1>3 DEF SnapshotHasVolume
  <2>12. Asked'
    BY <1>0, <1>1, <1>3 DEF Asked, Removes
  <2>13. VolumesKept'
    BY <1>0, <1>1, <1>3 DEF VolumesKept
  <2>14. SnapshotsQuiet'
    BY <1>0, <1>1, <1>3, NoneAssumption DEF SnapshotsQuiet, Object
  <2>15. SnapshotsKept'
    BY <1>0, <1>1, <1>3 DEF SnapshotsKept, SnapshotsQuiet
  <2>16. Untold'
    BY <1>0, <1>1, <1>3 DEF Untold, Worker
  <2>17. Orderly'
    BY <1>0, <1>1, <1>3 DEF Orderly, Pending, Removing
  <2>18. QED
    BY <2>1, <2>2, <2>3, <2>4, <2>5, <2>6, <2>7, <2>8, <2>9, <2>10, <2>11,
       <2>12, <2>13, <2>14, <2>15, <2>16, <2>17
<1>4. (Goto(w, "endCreate") => Moved(w, "endCreate"))
  <2> HIDE DEF Moved
  <2>1. QED
    BY GotoMoves, Places DEF Goto
<1>5. QED
  BY <1>2, <1>3, <1>4 DEF Cleanup, Removed, Works, Fails, Key

(* CreateSnapshot ends: what it has made is recorded, what it has not      *)
(* recorded is gone or was reported as not made.                          *)
LEMMA EndCreateStep ==
  ASSUME IInv, NEW w \in Worker, EndCreate(w)
  PROVE  IInv'
<1> USE DEF IInv, Jobs, Becomes, Moved, Ended
<1> USE DEF Steps
<1>0. \A u \in Worker : u # w /\ job[u].pc \notin {"idle", "mutex"} => job[u].key # job[w].key
  BY Alone DEF EndCreate, At
<1>1. /\ job[w].pc = "endCreate" /\ job[w].key \in Requested /\ job[w].key \in Snapshot
      /\ w \in Client /\ job[w].op = "create" /\ job[w].err \in BOOLEAN /\ phase = "up"
      /\ job[w].key \in snapRec \/ job[w].key \notin diskSnap \/ job[w].key \in torn
      /\ txn[job[w].key] = "addSnapshot" /\ job[w].key \in Object /\ job[w].key \notin Volume
      /\ UNCHANGED <<volRec, snapRec, diskVol, diskSnap, torn, volCache, snapCache, phase, queue>>
  BY RequestedAssumption, DistinctAssumption DEF EndCreate, At, JobOK, Creates, Making, Job,
     Worker, Phases, Object, Logged, records, disk, cache, control
<1>2. TxnDropped(w) \/ (UNCHANGED txn /\ mishap' = TRUE)
  BY <1>1, DropsTxn DEF EndCreate, TxnFails, Works, Fails, Key
<1> USE DEF TxnDropped, Released
<1>3. Owners'
  <2>1. Ended(w) /\ Released(w)
    BY EndsMoves, Releases DEF EndCreate, Return
  <2>2. QED
    BY <1>1, <2>1, OwnersReleased
<1>4. /\ \A u \in Worker : job[u].op # "none" \/ job[u].old # "none" \/ job[u].pc # "idle"
                              => job[u].key \in Object
      /\ Requested \subseteq Object /\ Snapshot \subseteq Object /\ Volume \subseteq Object
      /\ \A v \in Volume : v \notin Snapshot /\ v \notin Requested
  BY Objects
<1>5. CASE job[w].err
  <2>1. Ended(w) /\ Released(w) /\ promise' = promise
    <3>1. Return(w, FALSE)
      BY <1>1, <1>5 DEF EndCreate, Return
    <3>2. QED
      BY <3>1, ReturnFalse
  <2>2. Types'
    BY <1>0, <1>1, <1>2, <1>4, <1>5, <2>1 DEF Types
  <2>3. Jobs'
    BY <1>0, <1>1, <1>2, <1>4, <1>5, <2>1 DEF JobOK, Creates, Deletes, Removes
  <2>4. Phases'
    BY <1>0, <1>1, <1>2, <1>4, <1>5, <2>1, DistinctAssumption DEF Phases,
       Worker, JobOK
  <2>5. Owners'
    BY <1>3
  <2>6. Logged'
    BY <1>0, <1>1, <1>2, <1>4, <1>5, <2>1 DEF Logged, Owners, JobOK, Creates,
       Deletes, Removes
  <2>7. Exclusion'
    BY <1>0, <1>1, <1>2, <1>4, <1>5, <2>1 DEF Exclusion, Reading, Writing
  <2>8. Making'
    BY <1>0, <1>1, <1>2, <1>4, <1>5, <2>1 DEF Making, Exclusion, Reading,
       Writing
  <2>9. Unmaking'
    BY <1>0, <1>1, <1>2, <1>4, <1>5, <2>1 DEF Unmaking, Removes
  <2>10. Looked'
    BY <1>0, <1>1, <1>2, <1>4, <1>5, <2>1 DEF Looked, Exclusion, Reading,
       Writing
  <2>11. SnapshotTracked'
    BY <1>0, <1>1, <1>2, <1>4, <1>5, <2>1 DEF SnapshotTracked
  <2>12. SnapshotHasVolume'
    BY <1>0, <1>1, <1>2, <1>4, <1>5, <2>1 DEF SnapshotHasVolume
  <2>13. Asked'
    BY <1>0, <1>1, <1>2, <1>4, <1>5, <2>1 DEF Asked, Removes
  <2>14. VolumesKept'
    BY <1>0, <1>1, <1>2, <1>4, <1>5, <2>1 DEF VolumesKept
  <2>15. SnapshotsQuiet'
    BY <1>0, <1>1, <1>2, <1>4, <1>5, <2>1, NoneAssumption DEF SnapshotsQuiet,
       Object
  <2>16. SnapshotsKept'
    BY <1>0, <1>1, <1>2, <1>4, <1>5, <2>1 DEF SnapshotsKept, SnapshotsQuiet
  <2>17. Untold'
    BY <1>0, <1>1, <1>2, <1>4, <1>5, <2>1 DEF Untold, Worker
  <2>18. Orderly'
    BY <1>0, <1>1, <1>2, <1>4, <1>5, <2>1 DEF Orderly, Pending, Removing
  <2>19. QED
    BY <2>2, <2>3, <2>4, <2>5, <2>6, <2>7, <2>8, <2>9, <2>10, <2>11, <2>12,
       <2>13, <2>14, <2>15, <2>16, <2>17, <2>18
<1>6. CASE ~job[w].err
  <2>1. /\ Ended(w) /\ Released(w)
        /\ promise' \in [Object -> {"none", "acked", "shaky", "doomed"}]
        /\ \A x \in Object : x # job[w].key => promise'[x] = promise[x]
        /\ promise'[job[w].key] # "none"
        /\ \/ promise'[job[w].key] = promise[job[w].key]
           \/ promise'[job[w].key] # "acked"
           \/ /\ txn'[job[w].key] = "none"
              /\ \A u \in Client \ {w} : job[u].key = job[w].key
                                         => job[u].op \notin {"create", "delete"}
    <3>1. Return(w, TRUE)
      BY <1>1, <1>6 DEF EndCreate, Return
    <3>2. QED
      BY <1>1, <3>1, ReturnTrue
  <2>2. job[w].key \in snapRec /\ job[w].key \in diskSnap
    BY <1>1, <1>6 DEF Making
  <2>3. Types'
    BY <1>0, <1>1, <1>2, <1>4, <2>1, <2>2 DEF Types
  <2>4. Jobs'
    BY <1>0, <1>1, <1>2, <1>4, <2>1, <2>2 DEF JobOK, Creates, Deletes, Removes
  <2>5. Phases'
    BY <1>0, <1>1, <1>2, <1>4, <2>1, <2>2, DistinctAssumption DEF Phases,
       Worker, JobOK
  <2>6. Owners'
    BY <1>3
  <2>7. Logged'
    BY <1>0, <1>1, <1>2, <1>4, <2>1, <2>2 DEF Logged, Owners, JobOK, Creates,
       Deletes, Removes
  <2>8. Exclusion'
    BY <1>0, <1>1, <1>2, <1>4, <2>1, <2>2 DEF Exclusion, Reading, Writing
  <2>9. Making'
    BY <1>0, <1>1, <1>2, <1>4, <2>1, <2>2 DEF Making, Exclusion, Reading,
       Writing
  <2>10. Unmaking'
    BY <1>0, <1>1, <1>2, <1>4, <2>1, <2>2 DEF Unmaking, Removes
  <2>11. Looked'
    BY <1>0, <1>1, <1>2, <1>4, <2>1, <2>2 DEF Looked, Exclusion, Reading,
       Writing
  <2>12. SnapshotTracked'
    BY <1>0, <1>1, <1>2, <1>4, <2>1, <2>2 DEF SnapshotTracked
  <2>13. SnapshotHasVolume'
    BY <1>0, <1>1, <1>2, <1>4, <2>1, <2>2 DEF SnapshotHasVolume
  <2>14. Asked'
    BY <1>0, <1>1, <1>2, <1>4, <2>1, <2>2 DEF Asked, Removes, JobOK, Worker
  <2>15. VolumesKept'
    BY <1>0, <1>1, <1>2, <1>4, <2>1, <2>2 DEF VolumesKept
  <2>16. SnapshotsQuiet'
    <3>1. \A u \in Worker : \/ job[u].key = None
                            \/ u \in Client /\ job[u].op \in {"create", "delete"}
      BY <1>1 DEF JobOK, Phases, Worker, Job, Op
    <3>2. QED
      BY <1>1, <1>2, <1>4, <2>1, <2>2, <3>1, NoneAssumption DEF SnapshotsQuiet, Object, Worker
  <2>17. SnapshotsKept'
    BY <1>0, <1>1, <1>2, <1>4, <2>1, <2>2 DEF SnapshotsKept, SnapshotsQuiet
  <2>18. Untold'
    BY <1>0, <1>1, <1>2, <1>4, <2>1, <2>2 DEF Untold, Worker, Types
  <2>19. Orderly'
    BY <1>0, <1>1, <1>2, <1>4, <2>1, <2>2 DEF Orderly, Pending, Removing
  <2>20. QED
    BY <2>3, <2>4, <2>5, <2>6, <2>7, <2>8, <2>9, <2>10, <2>11, <2>12, <2>13,
       <2>14, <2>15, <2>16, <2>17, <2>18, <2>19
<1>7. QED
  BY <1>1, <1>5, <1>6

(* deleteSnapshot has its locks.                                           *)
LEMMA LockDeleteSnapshotStep ==
  ASSUME IInv, NEW w \in Worker, LockDeleteSnapshot(w)
  PROVE  IInv'
<1> USE DEF IInv, Jobs, Becomes, Moved, Ended
<1> USE DEF Steps
<1>0. \A u \in Worker : u # w /\ job[u].pc \notin {"idle", "mutex"} => job[u].key # job[w].key
  BY Alone DEF LockDeleteSnapshot, At
<1>1. /\ job[w].pc = "dlock" /\ job[w].key \in Requested /\ job[w].key \in Snapshot
      /\ job[w].old # "none" \/ (job[w].op = "delete" /\ txn[job[w].key] = "deleteSnapshot")
      /\ phase # "down" /\ volCache = volRec /\ snapCache = snapRec /\ ~job[w].err
      /\ Parent[job[w].key] \in Volume
      /\ UNCHANGED <<volRec, snapRec, diskVol, diskSnap, torn, volCache, snapCache, queue, mishap>>
  BY RequestedAssumption, ParentAssumption, DistinctAssumption DEF LockDeleteSnapshot, Works, At, Key, JobOK,
     Deletes, Phases, Worker, Logged, records, disk, cache, control
<1>2. job[w].key \in snapRec =>
        \A u \in Worker : job[u].pc \in Writing => job[u].vol # Parent[job[w].key]
  BY <1>1 DEF LockDeleteSnapshot, Writers, Writing, At, Key
<1>3. CASE /\ job[w].key \in snapRec /\ Goto(w, "dsnap")
           /\ UNCHANGED <<txn, phase, mutex, promise>>
  <2>1. /\ job[w].key \in snapRec /\ Moved(w, "dsnap")
        /\ UNCHANGED <<txn, phase, mutex, promise>>
    <3> HIDE DEF Moved
    <3>1. QED
      BY <1>3, GotoMoves, Places DEF Goto
  <2>2. Types'
    BY <1>0, <1>1, <1>2, <2>1 DEF Types
  <2>3. Jobs'
    BY <1>0, <1>1, <1>2, <2>1 DEF JobOK, Creates, Deletes, Removes
  <2>4. Phases'
    BY <1>0, <1>1, <1>2, <2>1, DistinctAssumption DEF Phases, Worker, JobOK
  <2>5. Owners'
    BY <1>0, <1>1, <1>2, <2>1, NoneAssumption DEF Owners, Types, Worker
  <2>6. Logged'
    BY <1>0, <1>1, <1>2, <2>1 DEF Logged, Owners, JobOK, Creates, Deletes,
       Removes
  <2>7. Exclusion'
    BY <1>0, <1>1, <1>2, <2>1 DEF Exclusion, Reading, Writing
  <2>8. Making'
    BY <1>0, <1>1, <1>2, <2>1 DEF Making, Exclusion, Reading, Writing
  <2>9. Unmaking'
    BY <1>0, <1>1, <1>2, <2>1 DEF Unmaking, Removes
  <2>10. Looked'
    BY <1>0, <1>1, <1>2, <2>1 DEF Looked, Exclusion, Reading, Writing
  <2>11. SnapshotTracked'
    BY <1>0, <1>1, <1>2, <2>1 DEF SnapshotTracked
  <2>12. SnapshotHasVolume'
    BY <1>0, <1>1, <1>2, <2>1 DEF SnapshotHasVolume
  <2>13. Asked'
    BY <1>0, <1>1, <1>2, <2>1 DEF Asked, Removes
  <2>14. VolumesKept'
    BY <1>0, <1>1, <1>2, <2>1 DEF VolumesKept
  <2>15. SnapshotsQuiet'
    BY <1>0, <1>1, <1>2, <2>1, NoneAssumption DEF SnapshotsQuiet, Object
  <2>16. SnapshotsKept'
    BY <1>0, <1>1, <1>2, <2>1 DEF SnapshotsKept, SnapshotsQuiet
  <2>17. Untold'
    BY <1>0, <1>1, <1>2, <2>1 DEF Untold, Worker
  <2>18. Orderly'
    BY <1>0, <1>1, <1>2, <2>1 DEF Orderly, Pending, Removing
  <2>19. QED
    BY <2>2, <2>3, <2>4, <2>5, <2>6, <2>7, <2>8, <2>9, <2>10, <2>11, <2>12,
       <2>13, <2>14, <2>15, <2>16, <2>17, <2>18
<1>4. CASE job[w].key \notin snapRec /\ SnapshotDone(w, "notFound")
  BY <1>1, <1>4, SnapshotFails DEF Deletes
<1>5. QED
  BY <1>1, <1>3, <1>4 DEF LockDeleteSnapshot, Key, SnapshotHasVolume

(* The storage system deletes the snapshot before its record goes.         *)
LEMMA RemoveSnapshotStep ==
  ASSUME IInv, NEW w \in Worker, RemoveSnapshot(w)
  PROVE  IInv'
<1> USE DEF IInv, Jobs, Becomes, Moved, Ended
<1> USE DEF Steps
<1>0. \A u \in Worker : u # w /\ job[u].pc \notin {"idle", "mutex"} => job[u].key # job[w].key
  BY Alone DEF RemoveSnapshot, At
<1>1. /\ job[w].pc = "dsnap" /\ job[w].key \in Requested /\ job[w].key \in Snapshot
      /\ job[w].old # "none" \/ (job[w].op = "delete" /\ txn[job[w].key] = "deleteSnapshot")
      /\ phase # "down" /\ volCache = volRec /\ snapCache = snapRec /\ ~job[w].err
      /\ Parent[job[w].key] \in Volume
      /\ UNCHANGED <<volRec, snapRec, diskVol, volCache, snapCache, queue>>
  BY RequestedAssumption, ParentAssumption, DistinctAssumption DEF RemoveSnapshot, Works, At, Key, JobOK,
     Deletes, Phases, Worker, Logged, records, disk, cache, control
<1>2. CASE SnapshotDone(w, "failed") /\ mishap' = TRUE /\ UNCHANGED <<diskSnap, torn>>
  BY <1>1, <1>2, SnapshotFails DEF Deletes
<1>3. CASE /\ diskSnap' = diskSnap \ {job[w].key} /\ Moved(w, "dstore")
           /\ torn' = torn \ {job[w].key} /\ UNCHANGED <<txn, phase, mutex, promise, mishap>>
  <2>1. Types'
    BY <1>0, <1>1, <1>3 DEF Types
  <2>2. Jobs'
    BY <1>0, <1>1, <1>3 DEF JobOK, Creates, Deletes, Removes
  <2>3. Phases'
    BY <1>0, <1>1, <1>3, DistinctAssumption DEF Phases, Worker, JobOK
  <2>4. Owners'
    BY <1>0, <1>1, <1>3, NoneAssumption DEF Owners, Types, Worker
  <2>5. Logged'
    BY <1>0, <1>1, <1>3 DEF Logged, Owners, JobOK, Creates, Deletes, Removes
  <2>6. Exclusion'
    BY <1>0, <1>1, <1>3 DEF Exclusion, Reading, Writing
  <2>7. Making'
    BY <1>0, <1>1, <1>3 DEF Making, Exclusion, Reading, Writing
  <2>8. Unmaking'
    BY <1>0, <1>1, <1>3 DEF Unmaking, Removes
  <2>9. Looked'
    BY <1>0, <1>1, <1>3 DEF Looked, Exclusion, Reading, Writing
  <2>10. SnapshotTracked'
    BY <1>0, <1>1, <1>3 DEF SnapshotTracked
  <2>11. SnapshotHasVolume'
    BY <1>0, <1>1, <1>3 DEF SnapshotHasVolume
  <2>12. Asked'
    BY <1>0, <1>1, <1>3 DEF Asked, Removes
  <2>13. VolumesKept'
    BY <1>0, <1>1, <1>3 DEF VolumesKept
  <2>14. SnapshotsQuiet'
    BY <1>0, <1>1, <1>3, NoneAssumption DEF SnapshotsQuiet, Object
  <2>15. SnapshotsKept'
    BY <1>0, <1>1, <1>3 DEF SnapshotsKept, SnapshotsQuiet
  <2>16. Untold'
    BY <1>0, <1>1, <1>3 DEF Untold, Worker
  <2>17. Orderly'
    BY <1>0, <1>1, <1>3 DEF Orderly, Pending, Removing
  <2>18. QED
    BY <2>1, <2>2, <2>3, <2>4, <2>5, <2>6, <2>7, <2>8, <2>9, <2>10, <2>11,
       <2>12, <2>13, <2>14, <2>15, <2>16, <2>17
<1>4. (Goto(w, "dstore") => Moved(w, "dstore"))
  <2> HIDE DEF Moved
  <2>1. QED
    BY GotoMoves, Places DEF Goto
<1>5. QED
  BY <1>2, <1>3, <1>4 DEF RemoveSnapshot, Removed, Works, Fails, Key

(* The record goes, and somebody looks after the volume.                   *)
LEMMA UnpersistSnapshotStep ==
  ASSUME IInv, NEW w \in Worker, UnpersistSnapshot(w)
  PROVE  IInv'
<1> USE DEF IInv, Jobs, Becomes, Moved, Ended
<1> USE DEF Steps
<1>0. \A u \in Worker : u # w /\ job[u].pc \notin {"idle", "mutex"} => job[u].key # job[w].key
  BY Alone DEF UnpersistSnapshot, At
<1>1. /\ job[w].pc = "dstore" /\ job[w].key \in Requested /\ job[w].key \in Snapshot
      /\ job[w].old # "none" \/ (job[w].op = "delete" /\ txn[job[w].key] = "deleteSnapshot")
      /\ phase # "down" /\ volCache = volRec /\ snapCache = snapRec /\ ~job[w].err
      /\ Parent[job[w].key] \in Volume
      /\ UNCHANGED <<volRec, diskVol, diskSnap, torn, volCache, queue>>
  BY RequestedAssumption, ParentAssumption, DistinctAssumption DEF UnpersistSnapshot, Works, At, Key, JobOK,
     Deletes, Phases, Worker, Logged, records, disk, cache, control
<1>2. CASE SnapshotDone(w, "failed") /\ mishap' = TRUE /\ UNCHANGED <<snapRec, snapCache>>
  BY <1>1, <1>2, SnapshotFails DEF Deletes
<1>3. CASE /\ snapRec' = snapRec \ {job[w].key} /\ snapCache' = snapCache \ {job[w].key}
           /\ SnapshotDone(w, "ok") /\ UNCHANGED mishap
  <2>1. /\ \/ /\ job[w].old = "none"
              /\ Steps(w, "pinned", job[w].old, job[w].vol, job[w].nested, job[w].dups, FALSE)
           \/ job[w].old # "none" /\ Moved(w, "dropTxn")
        /\ UNCHANGED <<txn, phase, mutex, promise>>
    <3> HIDE DEF Steps, Moved, Ended, Becomes
    <3>1. QED
      BY <1>3, SnapshotDoneMoves
  <2>2. /\ snapRec' = snapRec \ {job[w].key} /\ snapCache' = snapCache \ {job[w].key}
        /\ UNCHANGED mishap
    BY <1>3
  <2>3. Types'
    BY <1>0, <1>1, <2>1, <2>2 DEF Types
  <2>4. Jobs'
    BY <1>0, <1>1, <2>1, <2>2 DEF JobOK, Creates, Deletes, Removes
  <2>5. Phases'
    BY <1>0, <1>1, <2>1, <2>2, DistinctAssumption DEF Phases, Worker, JobOK
  <2>6. Owners'
    BY <1>0, <1>1, <2>1, <2>2, NoneAssumption DEF Owners, Types, Worker
  <2>7. Logged'
    BY <1>0, <1>1, <2>1, <2>2 DEF Logged, Owners, JobOK, Creates, Deletes,
       Removes
  <2>8. Exclusion'
    BY <1>0, <1>1, <2>1, <2>2 DEF Exclusion, Reading, Writing
  <2>9. Making'
    BY <1>0, <1>1, <2>1, <2>2 DEF Making, Exclusion, Reading, Writing
  <2>10. Unmaking'
    BY <1>0, <1>1, <2>1, <2>2 DEF Unmaking, Removes
  <2>11. Looked'
    BY <1>0, <1>1, <2>1, <2>2 DEF Looked, Exclusion, Reading, Writing
  <2>12. SnapshotTracked'
    BY <1>0, <1>1, <2>1, <2>2 DEF SnapshotTracked, Unmaking
  <2>13. SnapshotHasVolume'
    BY <1>0, <1>1, <2>1, <2>2 DEF SnapshotHasVolume
  <2>14. Asked'
    BY <1>0, <1>1, <2>1, <2>2 DEF Asked, Removes
  <2>15. VolumesKept'
    BY <1>0, <1>1, <2>1, <2>2 DEF VolumesKept
  <2>16. SnapshotsQuiet'
    BY <1>0, <1>1, <2>1, <2>2, NoneAssumption DEF SnapshotsQuiet, Object
  <2>17. SnapshotsKept'
    BY <1>0, <1>1, <2>1, <2>2 DEF SnapshotsKept, SnapshotsQuiet
  <2>18. Untold'
    BY <1>0, <1>1, <2>1, <2>2 DEF Untold, Worker
  <2>19. Orderly'
    BY <1>0, <1>1, <2>1, <2>2 DEF Orderly, Pending, Removing
  <2>20. QED
    BY <2>3, <2>4, <2>5, <2>6, <2>7, <2>8, <2>9, <2>10, <2>11, <2>12, <2>13,
       <2>14, <2>15, <2>16, <2>17, <2>18, <2>19
<1>4. QED
  BY <1>2, <1>3 DEF UnpersistSnapshot, Works, Fails, Key

(* DeleteSnapshot looks for a soft-deleted volume or for copies.           *)
LEMMA PinnedStep ==
  ASSUME IInv, NEW w \in Worker, Pinned(w)
  PROVE  IInv'
<1> USE DEF IInv, Jobs, Becomes, Moved, Ended
<1> USE DEF Steps
<1>0. \A u \in Worker : u # w /\ job[u].pc \notin {"idle", "mutex"} => job[u].key # job[w].key
  BY Alone DEF Pinned, At
<1> DEFINE v == Parent[job[w].key]
<1>1. /\ job[w].pc = "pinned" /\ job[w].key \in Requested /\ job[w].key \in Snapshot
      /\ job[w].old = "none" /\ job[w].op = "delete" /\ phase = "up" /\ w # boot
      /\ Parent[job[w].key] \in Volume /\ volCache = volRec /\ snapCache = snapRec
      /\ UNCHANGED <<volRec, snapRec, txn, diskVol, diskSnap, torn, volCache, snapCache, phase, queue, mutex, promise, mishap>>
  BY RequestedAssumption, ParentAssumption DEF Pinned, At, JobOK, Phases, Worker, records, disk, cache, control
<1>2. \/ /\ volRec[v] = "deleting"
         /\ Steps(w, "vlock", job[w].old, v, job[w].nested, job[w].dups, job[w].err)
      \/ /\ volRec[v] # "deleting" \/ (\E s \in snapRec : Parent[s] = v)
         /\ \/ Moved(w, "endDelete")
            \/ \E d \in SUBSET Snapshot :
                 /\ \A t \in d : <<job[w].key, t>> \in Twin
                 /\ Steps(w, "dups", job[w].old, job[w].vol, job[w].nested, d, job[w].err)
  <2> DEFINE d == {t \in Snapshot \ snapCache :
                     <<Key(w), t>> \in Twin /\ volCache[Parent[t]] # "none"}
  <2>1. CASE volCache[v] = "deleting" /\ Of(v) \cap snapCache = {}
    <3>1. job' = [job EXCEPT ![w].pc = "vlock", ![w].vol = v]
      BY <2>1 DEF Pinned, Key
    <3> HIDE DEF Steps, Moved, v
    <3>2. QED
      BY <1>1, <2>1, <3>1, VolMoves, Places DEF v
  <2>2. CASE ~(volCache[v] = "deleting" /\ Of(v) \cap snapCache = {})
    <3>1. volRec[v] # "deleting" \/ (\E s \in snapRec : Parent[s] = v)
      BY <1>1, <2>2 DEF Of
    <3>2. CASE volCache[v] # "none" /\ d # {}
      <4>1. job' = [job EXCEPT ![w].pc = "dups", ![w].dups = d]
        BY <2>2, <3>2 DEF Pinned, Key
      <4>2. d \in SUBSET Snapshot /\ \A t \in d : <<job[w].key, t>> \in Twin
        BY DEF Key
      <4> HIDE DEF Steps, Moved, v, d
      <4>3. QED
        BY <3>1, <4>1, <4>2, DupsMoves, Places
    <3>3. CASE ~(volCache[v] # "none" /\ d # {})
      <4>1. job' = [job EXCEPT ![w].pc = "endDelete"]
        BY <2>2, <3>3 DEF Pinned, Key
      <4> HIDE DEF Steps, Moved, v
      <4>2. QED
        BY <3>1, <4>1, GotoMoves, Places
    <3>4. QED
      BY <3>2, <3>3
  <2>3. QED
    BY <2>1, <2>2
<1>3. Types'
  BY <1>0, <1>1, <1>2 DEF Types
<1>4. Jobs'
  BY <1>0, <1>1, <1>2 DEF JobOK, Creates, Deletes, Removes
<1>5. Phases'
  BY <1>0, <1>1, <1>2, DistinctAssumption DEF Phases, Worker, JobOK
<1>6. Owners'
  BY <1>0, <1>1, <1>2, NoneAssumption DEF Owners, Types, Worker
<1>7. Logged'
  BY <1>0, <1>1, <1>2 DEF Logged, Owners, JobOK, Creates, Deletes, Removes
<1>8. Exclusion'
  BY <1>0, <1>1, <1>2 DEF Exclusion, Reading, Writing
<1>9. Making'
  BY <1>0, <1>1, <1>2 DEF Making, Exclusion, Reading, Writing
<1>10. Unmaking'
  BY <1>0, <1>1, <1>2 DEF Unmaking, Removes
<1>11. Looked'
  BY <1>0, <1>1, <1>2 DEF Looked, Exclusion, Reading, Writing
<1>12. SnapshotTracked'
  BY <1>0, <1>1, <1>2 DEF SnapshotTracked
<1>13. SnapshotHasVolume'
  BY <1>0, <1>1, <1>2 DEF SnapshotHasVolume
<1>14. Asked'
  BY <1>0, <1>1, <1>2 DEF Asked, Removes, VolumesKept
<1>15. VolumesKept'
  BY <1>0, <1>1, <1>2 DEF VolumesKept
<1>16. SnapshotsQuiet'
  BY <1>0, <1>1, <1>2, NoneAssumption DEF SnapshotsQuiet, Object
<1>17. SnapshotsKept'
  <2>1. CopiesUnclaimed => job'[w].dups \cap Requested = {}
    <3>1. ASSUME CopiesUnclaimed, NEW t, <<job[w].key, t>> \in Twin
          PROVE  t \notin Requested
      BY <3>1 DEF CopiesUnclaimed
    <3>2. QED
      BY <1>2, <3>1 DEF SnapshotsKept
  <2>2. QED
    BY <1>1, <1>2, <2>1 DEF SnapshotsKept
<1>18. Untold'
  BY <1>0, <1>1, <1>2 DEF Untold, Worker
<1>19. Orderly'
  BY <1>0, <1>1, <1>2 DEF Orderly, Pending, Removing
<1>20. QED
  BY <1>3, <1>4, <1>5, <1>6, <1>7, <1>8, <1>9, <1>10, <1>11, <1>12, <1>13,
     <1>14, <1>15, <1>16, <1>17, <1>18, <1>19

(* deleteCloneSnapshots removes copies while nobody holds a volume.        *)
LEMMA DeleteCloneSnapshotsStep ==
  ASSUME IInv, NEW w \in Worker, DeleteCloneSnapshots(w)
  PROVE  IInv'
<1> USE DEF IInv, Jobs, Becomes, Moved, Ended
<1> USE DEF Steps
<1>0. \A u \in Worker : u # w /\ job[u].pc \notin {"idle", "mutex"} => job[u].key # job[w].key
  BY Alone DEF DeleteCloneSnapshots, At
<1>1. /\ job[w].pc = "dups" /\ job[w].key \in Requested /\ job[w].key \in Snapshot
      /\ job[w].old = "none" /\ job[w].op = "delete" /\ phase = "up" /\ w # boot
      /\ Parent[job[w].key] \in Volume /\ volCache = volRec /\ snapCache = snapRec
      /\ UNCHANGED <<volRec, snapRec, txn, diskVol, volCache, snapCache, phase, queue, mutex, promise, mishap>>
  BY RequestedAssumption, ParentAssumption DEF DeleteCloneSnapshots, At, JobOK, Phases, Worker,
     records, disk, cache, control
<1>2. Steps(w, "endDelete", job[w].old, job[w].vol, job[w].nested, {}, job[w].err)
  <2> HIDE DEF Steps
  <2>1. QED
    BY DupsMoves, Places DEF DeleteCloneSnapshots
<1>3. diskSnap' \subseteq diskSnap /\ diskSnap \ job[w].dups \subseteq diskSnap'
      /\ torn' = torn \cap diskSnap'
  BY DEF DeleteCloneSnapshots, Removed, Types
<1>4. \A u \in Worker : job[u].pc \notin Reading
  <2>1. SUFFICES ASSUME NEW u \in Worker, job[u].pc \in Reading PROVE FALSE
    OBVIOUS
  <2>2. job[u].key \in Snapshot /\ Parent[job[u].key] \in Volume
    BY <2>1, RequestedAssumption, ParentAssumption DEF JobOK, Reading, Creates, Deletes
  <2>3. u \in Readers(Parent[job[u].key])
    BY <2>1, <2>2 DEF Readers, Of, Reading, At, Key
  <2>4. QED
    BY <2>2, <2>3 DEF DeleteCloneSnapshots
<1>5. Types'
  BY <1>0, <1>1, <1>2, <1>3, <1>4 DEF Types
<1>6. Jobs'
  BY <1>0, <1>1, <1>2, <1>3, <1>4 DEF JobOK, Creates, Deletes, Removes
<1>7. Phases'
  BY <1>0, <1>1, <1>2, <1>3, <1>4, DistinctAssumption DEF Phases, Worker, JobOK
<1>8. Owners'
  BY <1>0, <1>1, <1>2, <1>3, <1>4, NoneAssumption DEF Owners, Types, Worker
<1>9. Logged'
  BY <1>0, <1>1, <1>2, <1>3, <1>4 DEF Logged, Owners, JobOK, Creates, Deletes,
     Removes
<1>10. Exclusion'
  BY <1>0, <1>1, <1>2, <1>3, <1>4 DEF Exclusion, Reading, Writing
<1>11. Making'
  BY <1>0, <1>1, <1>2, <1>3, <1>4 DEF Making, Exclusion, Reading, Writing
<1>12. Unmaking'
  BY <1>0, <1>1, <1>2, <1>3, <1>4 DEF Unmaking, Removes
<1>13. Looked'
  BY <1>0, <1>1, <1>2, <1>3, <1>4 DEF Looked, Exclusion, Reading, Writing
<1>14. SnapshotTracked'
  BY <1>0, <1>1, <1>2, <1>3, <1>4 DEF SnapshotTracked
<1>15. SnapshotHasVolume'
  BY <1>0, <1>1, <1>2, <1>3, <1>4 DEF SnapshotHasVolume
<1>16. Asked'
  BY <1>0, <1>1, <1>2, <1>3, <1>4 DEF Asked, Removes
<1>17. VolumesKept'
  BY <1>0, <1>1, <1>2, <1>3, <1>4 DEF VolumesKept
<1>18. SnapshotsQuiet'
  BY <1>0, <1>1, <1>2, <1>3, <1>4, NoneAssumption DEF SnapshotsQuiet, Object
<1>19. SnapshotsKept'
  BY <1>0, <1>1, <1>2, <1>3, <1>4 DEF SnapshotsKept, SnapshotsQuiet, Types
<1>20. Untold'
  BY <1>0, <1>1, <1>2, <1>3, <1>4 DEF Untold, Worker
<1>21. Orderly'
  BY <1>0, <1>1, <1>2, <1>3, <1>4 DEF Orderly, Pending, Removing
<1>22. QED
  BY <1>5, <1>6, <1>7, <1>8, <1>9, <1>10, <1>11, <1>12, <1>13, <1>14, <1>15,
     <1>16, <1>17, <1>18, <1>19, <1>20, <1>21

(* A deletion ends.                                                        *)
LEMMA EndDeleteStep ==
  ASSUME IInv, NEW w \in Worker, EndDelete(w)
  PROVE  IInv'
<1> USE DEF IInv, Jobs, Becomes, Moved, Ended
<1> USE DEF Steps
<1>0. \A u \in Worker : u # w /\ job[u].pc \notin {"idle", "mutex"} => job[u].key # job[w].key
  BY Alone DEF EndDelete, At
<1>1. /\ job[w].pc = "endDelete" /\ job[w].key \in Object /\ w \in Client /\ w # boot
      /\ job[w].op = "delete" /\ job[w].err \in BOOLEAN /\ phase = "up"
      /\ txn[job[w].key] # "addSnapshot" /\ (~job[w].err => job[w].key \notin snapRec)
      /\ UNCHANGED <<volRec, snapRec, diskVol, diskSnap, torn, volCache, snapCache, phase, queue>>
  BY RequestedAssumption, DistinctAssumption DEF EndDelete, At, JobOK, Unmaking, Job,
     Worker, Phases, Object, Logged, records, disk, cache, control
<1>2. /\ \A u \in Worker : job[u].op # "none" \/ job[u].old # "none" \/ job[u].pc # "idle"
                              => job[u].key \in Object
      /\ Requested \subseteq Object /\ Snapshot \subseteq Object /\ Volume \subseteq Object
      /\ \A v \in Volume : v \notin Snapshot /\ v \notin Requested
  BY Objects
<1>3. CASE UNCHANGED txn /\ mishap' = TRUE /\ Return(w, FALSE)
  BY <1>1, <1>3, ReturnFalse, GivesUp
<1>4. CASE TxnDropped(w) /\ Return(w, ~job[w].err)
  <2>1. TxnDropped(w)
    BY <1>4
  <2>2. Owners'
    <3>1. Ended(w) /\ Released(w)
      BY <1>4, EndsMoves, Releases DEF Return
    <3>2. QED
      BY <1>1, <3>1, OwnersReleased
  <2>3. /\ Ended(w) /\ Released(w)
        /\ promise' \in [Object -> {"none", "acked", "shaky", "doomed"}]
        /\ \A x \in Object : \/ promise'[x] = promise[x]
                             \/ promise'[x] = "none" /\ x \notin snapRec
    <3>1. CASE job[w].err
      <4>1. Return(w, FALSE)
        BY <1>1, <1>4, <3>1 DEF Return
      <4>2. QED
        BY <4>1, ReturnFalse DEF Types
    <3>2. CASE ~job[w].err
      <4>1. Return(w, TRUE)
        BY <1>1, <1>4, <3>2 DEF Return
      <4>2. QED
        BY <1>1, <3>2, <4>1, ReturnTrue DEF Types
    <3>3. QED
      BY <1>1, <3>1, <3>2
  <2> USE DEF TxnDropped, Released
  <2>4. Types'
    BY <1>0, <1>1, <1>2, <2>1, <2>3 DEF Types
  <2>5. Jobs'
    BY <1>0, <1>1, <1>2, <2>1, <2>3 DEF JobOK, Creates, Deletes, Removes
  <2>6. Phases'
    BY <1>0, <1>1, <1>2, <2>1, <2>3, DistinctAssumption DEF Phases, Worker,
       JobOK
  <2>7. Owners'
    BY <2>2
  <2>8. Logged'
    BY <1>0, <1>1, <1>2, <2>1, <2>3 DEF Logged, Owners, JobOK, Creates, Deletes,
       Removes
  <2>9. Exclusion'
    BY <1>0, <1>1, <1>2, <2>1, <2>3 DEF Exclusion, Reading, Writing
  <2>10. Making'
    BY <1>0, <1>1, <1>2, <2>1, <2>3 DEF Making, Exclusion, Reading, Writing
  <2>11. Unmaking'
    BY <1>0, <1>1, <1>2, <2>1, <2>3 DEF Unmaking, Removes
  <2>12. Looked'
    BY <1>0, <1>1, <1>2, <2>1, <2>3 DEF Looked, Exclusion, Reading, Writing
  <2>13. SnapshotTracked'
    BY <1>0, <1>1, <1>2, <2>1, <2>3 DEF SnapshotTracked
  <2>14. SnapshotHasVolume'
    BY <1>0, <1>1, <1>2, <2>1, <2>3 DEF SnapshotHasVolume
  <2>15. Asked'
    BY <1>0, <1>1, <1>2, <2>1, <2>3 DEF Asked, Removes, JobOK
  <2>16. VolumesKept'
    BY <1>0, <1>1, <1>2, <2>1, <2>3 DEF VolumesKept
  <2>17. SnapshotsQuiet'
    BY <1>0, <1>1, <1>2, <2>1, <2>3, NoneAssumption DEF SnapshotsQuiet, Object
  <2>18. SnapshotsKept'
    BY <1>0, <1>1, <1>2, <2>1, <2>3 DEF SnapshotsKept, SnapshotsQuiet
  <2>19. Untold'
    BY <1>0, <1>1, <1>2, <2>1, <2>3 DEF Untold, Worker, Types
  <2>20. Orderly'
    BY <1>0, <1>1, <1>2, <2>1, <2>3 DEF Orderly, Pending, Removing
  <2>21. QED
    BY <2>4, <2>5, <2>6, <2>7, <2>8, <2>9, <2>10, <2>11, <2>12, <2>13, <2>14,
       <2>15, <2>16, <2>17, <2>18, <2>19, <2>20
<1>5. QED
  BY <1>3, <1>4, DropsTxn DEF EndDelete, TxnFails, Fails

(* deleteVolume has the write lock and looks for snapshots.                *)
LEMMA LockVolumeStep ==
  ASSUME IInv, NEW w \in Worker, LockVolume(w)
  PROVE  IInv'
<1> USE DEF IInv, Jobs, Becomes, Moved, Ended
<1> USE DEF Steps
<1>0. \A u \in Worker : u # w /\ job[u].pc \notin {"idle", "mutex"} => job[u].key # job[w].key
  BY Alone DEF LockVolume, At
<1> DEFINE v == job[w].vol
<1>1. /\ job[w].pc = "vlock" /\ v \in Volume /\ volCache = volRec /\ snapCache = snapRec
      /\ UNCHANGED <<volRec, snapRec, txn, diskVol, diskSnap, torn, volCache, snapCache, phase, queue, mutex, promise, mishap>>
  BY DEF LockVolume, At, JobOK, Removes, Phases, Worker, records, disk, cache, control
<1>2. \A u \in Worker : /\ job[u].pc \in Reading => Parent[job[u].key] # v
                        /\ job[u].pc \in Writing => job[u].vol # v
  <2>1. \A u \in Worker : job[u].pc \in Reading => job[u].key \in Snapshot
    BY RequestedAssumption DEF JobOK, Reading, Creates, Deletes
  <2>2. QED
    BY <2>1 DEF LockVolume, Readers, Writers, Of, Reading, Writing, At, Key
<1>3. CASE volRec[v] = "none"
  BY <1>1, <1>3, VolumeStops DEF LockVolume, Removes
<1>4. CASE volRec[v] # "none"
  <2>1. \/ Moved(w, "vsoft") /\ \E s \in snapRec : Parent[s] = v
        \/ Moved(w, "vremove") /\ \A s \in snapRec : Parent[s] # v
    <3>1. CASE Of(v) \cap snapCache # {}
      <4>1. Goto(w, "vsoft")
        BY <1>1, <1>4, <3>1 DEF LockVolume
      <4> HIDE DEF Moved
      <4>2. QED
        BY <1>1, <3>1, <4>1, GotoMoves, Places DEF Goto, Of
    <3>2. CASE Of(v) \cap snapCache = {}
      <4>1. Goto(w, "vremove")
        BY <1>1, <1>4, <3>2 DEF LockVolume
      <4>2. \A s \in snapRec : Parent[s] # v
        BY <1>1, <3>2, RequestedAssumption DEF Of, Types
      <4> HIDE DEF Moved
      <4>3. QED
        BY <4>1, <4>2, GotoMoves, Places DEF Goto
    <3>3. QED
      BY <3>1, <3>2
  <2>2. Types'
    BY <1>0, <1>1, <1>2, <1>4, <2>1 DEF Types
  <2>3. Jobs'
    BY <1>0, <1>1, <1>2, <1>4, <2>1 DEF JobOK, Creates, Deletes, Removes
  <2>4. Phases'
    BY <1>0, <1>1, <1>2, <1>4, <2>1, DistinctAssumption DEF Phases, Worker,
       JobOK
  <2>5. Owners'
    BY <1>0, <1>1, <1>2, <1>4, <2>1, NoneAssumption DEF Owners, Types, Worker
  <2>6. Logged'
    BY <1>0, <1>1, <1>2, <1>4, <2>1 DEF Logged, Owners, JobOK, Creates, Deletes,
       Removes
  <2>7. Exclusion'
    BY <1>0, <1>1, <1>2, <1>4, <2>1 DEF Exclusion, Reading, Writing
  <2>8. Making'
    BY <1>0, <1>1, <1>2, <1>4, <2>1 DEF Making, Exclusion, Reading, Writing
  <2>9. Unmaking'
    BY <1>0, <1>1, <1>2, <1>4, <2>1 DEF Unmaking, Removes
  <2>10. Looked'
    BY <1>0, <1>1, <1>2, <1>4, <2>1 DEF Looked, Exclusion, Reading, Writing
  <2>11. SnapshotTracked'
    BY <1>0, <1>1, <1>2, <1>4, <2>1 DEF SnapshotTracked
  <2>12. SnapshotHasVolume'
    BY <1>0, <1>1, <1>2, <1>4, <2>1 DEF SnapshotHasVolume
  <2>13. Asked'
    BY <1>0, <1>1, <1>2, <1>4, <2>1 DEF Asked, Removes
  <2>14. VolumesKept'
    BY <1>0, <1>1, <1>2, <1>4, <2>1 DEF VolumesKept
  <2>15. SnapshotsQuiet'
    BY <1>0, <1>1, <1>2, <1>4, <2>1, NoneAssumption DEF SnapshotsQuiet, Object
  <2>16. SnapshotsKept'
    BY <1>0, <1>1, <1>2, <1>4, <2>1 DEF SnapshotsKept, SnapshotsQuiet
  <2>17. Untold'
    BY <1>0, <1>1, <1>2, <1>4, <2>1 DEF Untold, Worker
  <2>18. Orderly'
    BY <1>0, <1>1, <1>2, <1>4, <2>1 DEF Orderly, Pending, Removing
  <2>19. QED
    BY <2>2, <2>3, <2>4, <2>5, <2>6, <2>7, <2>8, <2>9, <2>10, <2>11, <2>12,
       <2>13, <2>14, <2>15, <2>16, <2>17, <2>18
<1>5. QED
  BY <1>3, <1>4

(* A volume with snapshots is marked.                                      *)
LEMMA SoftDeleteStep ==
  ASSUME IInv, NEW w \in Worker, SoftDelete(w)
  PROVE  IInv'
<1> USE DEF IInv, Jobs, Becomes, Moved, Ended
<1> USE DEF Steps
<1>0. \A u \in Worker : u # w /\ job[u].pc \notin {"idle", "mutex"} => job[u].key # job[w].key
  BY Alone DEF SoftDelete, At
<1>1. /\ job[w].pc = "vsoft" /\ job[w].vol \in Volume /\ volCache = volRec /\ snapCache = snapRec
      /\ phase \in {"up", "txns"}
      /\ UNCHANGED <<snapRec, txn, diskVol, diskSnap, torn, snapCache, phase, queue, mutex, promise>>
  BY DEF SoftDelete, At, JobOK, Removes, Phases, Worker, records, disk, cache, control
<1>2. CASE VolumeDone(w, "failed") /\ mishap' = TRUE /\ UNCHANGED <<volRec, volCache>>
  BY <1>1, <1>2, VolumeStops DEF Removes
<1>3. CASE /\ volRec' = [volRec EXCEPT ![job[w].vol] = "deleting"]
           /\ volCache' = [volCache EXCEPT ![job[w].vol] = "deleting"]
           /\ VolumeDone(w, "ok") /\ UNCHANGED mishap
  <2>1. \/ /\ job[w].old = "none"
           /\ Steps(w, "endDelete", job[w].old, None, FALSE, job[w].dups, FALSE)
        \/ /\ job[w].old # "none"
           /\ Steps(w, "dropTxn", job[w].old, None, FALSE, job[w].dups, FALSE)
    <3>1. ("ok" = "failed" /\ job[w].old = "none" /\ ~job[w].nested) = FALSE
      OBVIOUS
    <3> HIDE DEF Steps
    <3>2. Steps(w, IF job[w].old = "none" THEN "endDelete" ELSE "dropTxn", job[w].old, None,
                FALSE, job[w].dups, FALSE)
      BY <1>3, <3>1, VolumeDoneMoves
    <3>3. QED
      BY <3>2
  <2>2. /\ UNCHANGED mishap /\ volCache' = volRec'
        /\ volRec' \in [Volume -> {"none", "online", "deleting"}]
        /\ \A v \in Volume : volRec'[v] = IF v = job[w].vol THEN "deleting" ELSE volRec[v]
        /\ \E s \in snapRec : Parent[s] = job[w].vol
    BY <1>1, <1>3 DEF Types, Looked
  <2>3. \A s \in Requested : Parent[s] \in Volume
    BY RequestedAssumption, ParentAssumption
  <2>4. Types'
    BY <1>0, <1>1, <2>1, <2>2, <2>3 DEF Types
  <2>5. Jobs'
    BY <1>0, <1>1, <2>1, <2>2, <2>3 DEF JobOK, Creates, Deletes, Removes
  <2>6. Phases'
    BY <1>0, <1>1, <2>1, <2>2, <2>3, DistinctAssumption DEF Phases, Worker,
       JobOK
  <2>7. Owners'
    BY <1>0, <1>1, <2>1, <2>2, <2>3, NoneAssumption DEF Owners, Types, Worker
  <2>8. Logged'
    BY <1>0, <1>1, <2>1, <2>2, <2>3 DEF Logged, Owners, JobOK, Creates, Deletes,
       Removes
  <2>9. Exclusion'
    BY <1>0, <1>1, <2>1, <2>2, <2>3 DEF Exclusion, Reading, Writing
  <2>10. Making'
    <3>1. \A u \in Worker : job'[u].pc \in {"snap", "persist"} => job[u].key \in Requested
      BY <2>1 DEF JobOK, Creates
    <3>2. QED
      BY <1>0, <1>1, <2>1, <2>2, <2>3, <3>1 DEF Making
  <2>11. Unmaking'
    BY <1>0, <1>1, <2>1, <2>2, <2>3 DEF Unmaking, Removes, JobOK
  <2>12. Looked'
    BY <1>0, <1>1, <2>1, <2>2, <2>3 DEF Looked, Exclusion, Reading, Writing
  <2>13. SnapshotTracked'
    BY <1>0, <1>1, <2>1, <2>2, <2>3 DEF SnapshotTracked
  <2>14. SnapshotHasVolume'
    BY <1>0, <1>1, <2>1, <2>2, <2>3 DEF SnapshotHasVolume, Types
  <2>15. Asked'
    BY <1>0, <1>1, <2>1, <2>2, <2>3 DEF Asked, Removes
  <2>16. VolumesKept'
    BY <1>0, <1>1, <2>1, <2>2, <2>3 DEF VolumesKept, Asked, Removes
  <2>17. SnapshotsQuiet'
    BY <1>0, <1>1, <2>1, <2>2, <2>3, NoneAssumption DEF SnapshotsQuiet, Object
  <2>18. SnapshotsKept'
    BY <1>0, <1>1, <2>1, <2>2, <2>3 DEF SnapshotsKept, SnapshotsQuiet
  <2>19. Untold'
    BY <1>0, <1>1, <2>1, <2>2, <2>3 DEF Untold, Worker
  <2>20. Orderly'
    BY <1>0, <1>1, <2>1, <2>2, <2>3 DEF Orderly, Pending, Removing
  <2>21. QED
    BY <2>4, <2>5, <2>6, <2>7, <2>8, <2>9, <2>10, <2>11, <2>12, <2>13, <2>14,
       <2>15, <2>16, <2>17, <2>18, <2>19, <2>20
<1>4. QED
  BY <1>2, <1>3 DEF SoftDelete, Works, Fails

(* The storage system deletes a volume without recorded snapshots.         *)
LEMMA RemoveVolumeStep ==
  ASSUME IInv, NEW w \in Worker, RemoveVolume(w)
  PROVE  IInv'
<1> USE DEF IInv, Jobs, Becomes, Moved, Ended
<1> USE DEF Steps
<1>0. \A u \in Worker : u # w /\ job[u].pc \notin {"idle", "mutex"} => job[u].key # job[w].key
  BY Alone DEF RemoveVolume, At
<1>1. /\ job[w].pc = "vremove" /\ job[w].vol \in Volume /\ volCache = volRec /\ snapCache = snapRec
      /\ phase \in {"up", "txns"}
      /\ UNCHANGED <<volRec, snapRec, txn, volCache, snapCache, phase, queue, mutex, promise>>
  BY DEF RemoveVolume, At, JobOK, Removes, Phases, Worker, records, disk, cache, control
<1>2. CASE VolumeDone(w, "failed") /\ mishap' = TRUE /\ UNCHANGED <<diskVol, diskSnap, torn>>
  BY <1>1, <1>2, VolumeStops DEF Removes
<1>3. CASE /\ diskVol' = diskVol \ {job[w].vol} /\ diskSnap' = diskSnap \ Of(job[w].vol)
           /\ torn' = torn \ Of(job[w].vol) /\ Moved(w, "vstore") /\ UNCHANGED mishap
  <2>1. /\ diskVol' = diskVol \ {job[w].vol} /\ diskSnap' \subseteq diskSnap
        /\ \A s \in diskSnap : Parent[s] # job[w].vol => s \in diskSnap'
        /\ torn' = torn \cap diskSnap' /\ Moved(w, "vstore") /\ UNCHANGED mishap
    BY <1>3 DEF Of, Types
  <2>2. Types'
    BY <1>0, <1>1, <2>1 DEF Types
  <2>3. Jobs'
    BY <1>0, <1>1, <2>1 DEF JobOK, Creates, Deletes, Removes
  <2>4. Phases'
    BY <1>0, <1>1, <2>1, DistinctAssumption DEF Phases, Worker, JobOK
  <2>5. Owners'
    BY <1>0, <1>1, <2>1, NoneAssumption DEF Owners, Types, Worker
  <2>6. Logged'
    BY <1>0, <1>1, <2>1 DEF Logged, Owners, JobOK, Creates, Deletes, Removes
  <2>7. Exclusion'
    BY <1>0, <1>1, <2>1 DEF Exclusion, Reading, Writing
  <2>8. Making'
    BY <1>0, <1>1, <2>1 DEF Making, Exclusion, Reading, Writing
  <2>9. Unmaking'
    BY <1>0, <1>1, <2>1 DEF Unmaking, Removes
  <2>10. Looked'
    BY <1>0, <1>1, <2>1 DEF Looked, Exclusion, Reading, Writing
  <2>11. SnapshotTracked'
    BY <1>0, <1>1, <2>1 DEF SnapshotTracked
  <2>12. SnapshotHasVolume'
    BY <1>0, <1>1, <2>1 DEF SnapshotHasVolume, Looked
  <2>13. Asked'
    BY <1>0, <1>1, <2>1 DEF Asked, Removes
  <2>14. VolumesKept'
    BY <1>0, <1>1, <2>1 DEF VolumesKept, Asked, Removes
  <2>15. SnapshotsQuiet'
    BY <1>0, <1>1, <2>1, NoneAssumption DEF SnapshotsQuiet, Object
  <2>16. SnapshotsKept'
    BY <1>0, <1>1, <2>1 DEF SnapshotsKept, SnapshotsQuiet, Looked
  <2>17. Untold'
    BY <1>0, <1>1, <2>1 DEF Untold, Worker
  <2>18. Orderly'
    BY <1>0, <1>1, <2>1 DEF Orderly, Pending, Removing
  <2>19. QED
    BY <2>2, <2>3, <2>4, <2>5, <2>6, <2>7, <2>8, <2>9, <2>10, <2>11, <2>12,
       <2>13, <2>14, <2>15, <2>16, <2>17, <2>18
<1>4. (Goto(w, "vstore") => Moved(w, "vstore"))
  <2> HIDE DEF Moved
  <2>1. QED
    BY GotoMoves, Places DEF Goto
<1>5. QED
  BY <1>2, <1>3, <1>4 DEF RemoveVolume, Removed, Works, Fails, disk

(* The record of the volume goes.                                          *)
LEMMA UnpersistVolumeStep ==
  ASSUME IInv, NEW w \in Worker, UnpersistVolume(w)
  PROVE  IInv'
<1> USE DEF IInv, Jobs, Becomes, Moved, Ended
<1> USE DEF Steps
<1>0. \A u \in Worker : u # w /\ job[u].pc \notin {"idle", "mutex"} => job[u].key # job[w].key
  BY Alone DEF UnpersistVolume, At
<1>1. /\ job[w].pc = "vstore" /\ job[w].vol \in Volume /\ volCache = volRec /\ snapCache = snapRec
      /\ phase \in {"up", "txns"}
      /\ UNCHANGED <<snapRec, txn, diskVol, diskSnap, torn, snapCache, phase, queue, mutex, promise>>
  BY DEF UnpersistVolume, At, JobOK, Removes, Phases, Worker, records, disk, cache, control
<1>2. CASE VolumeDone(w, "failed") /\ mishap' = TRUE /\ UNCHANGED <<volRec, volCache>>
  BY <1>1, <1>2, VolumeStops DEF Removes
<1>3. CASE /\ volRec' = [volRec EXCEPT ![job[w].vol] = "none"]
           /\ volCache' = [volCache EXCEPT ![job[w].vol] = "none"]
           /\ Moved(w, "vsource") /\ UNCHANGED mishap
  <2>1. Moved(w, "vsource") /\ UNCHANGED mishap
    BY <1>3
  <2>2. /\ volCache' = volRec'
        /\ volRec' \in [Volume -> {"none", "online", "deleting"}]
        /\ \A v \in Volume : volRec'[v] = IF v = job[w].vol THEN "none" ELSE volRec[v]
    BY <1>1, <1>3 DEF Types
  <2>3. \A s \in Requested : Parent[s] \in Volume
    BY RequestedAssumption, ParentAssumption
  <2>4. Types'
    BY <1>0, <1>1, <2>1, <2>2, <2>3 DEF Types
  <2>5. Jobs'
    BY <1>0, <1>1, <2>1, <2>2, <2>3 DEF JobOK, Creates, Deletes, Removes
  <2>6. Phases'
    BY <1>0, <1>1, <2>1, <2>2, <2>3, DistinctAssumption DEF Phases, Worker,
       JobOK
  <2>7. Owners'
    BY <1>0, <1>1, <2>1, <2>2, <2>3, NoneAssumption DEF Owners, Types, Worker
  <2>8. Logged'
    BY <1>0, <1>1, <2>1, <2>2, <2>3 DEF Logged, Owners, JobOK, Creates, Deletes,
       Removes
  <2>9. Exclusion'
    BY <1>0, <1>1, <2>1, <2>2, <2>3 DEF Exclusion, Reading, Writing
  <2>10. Making'
    <3>1. \A u \in Worker : job'[u].pc \in {"snap", "persist"} =>
            job[u].key \in Requested /\ Parent[job[u].key] # job[w].vol
      BY <1>1, <2>1 DEF JobOK, Creates, Exclusion, Reading, Writing
    <3>2. QED
      BY <1>0, <1>1, <2>1, <2>2, <2>3, <3>1 DEF Making
  <2>11. Unmaking'
    BY <1>0, <1>1, <2>1, <2>2, <2>3 DEF Unmaking, Removes
  <2>12. Looked'
    BY <1>0, <1>1, <2>1, <2>2, <2>3 DEF Looked, Exclusion, Reading, Writing
  <2>13. SnapshotTracked'
    BY <1>0, <1>1, <2>1, <2>2, <2>3 DEF SnapshotTracked
  <2>14. SnapshotHasVolume'
    BY <1>0, <1>1, <2>1, <2>2, <2>3 DEF SnapshotHasVolume, Types, Looked
  <2>15. Asked'
    BY <1>0, <1>1, <2>1, <2>2, <2>3 DEF Asked, Removes
  <2>16. VolumesKept'
    BY <1>0, <1>1, <2>1, <2>2, <2>3 DEF VolumesKept, Asked, Removes
  <2>17. SnapshotsQuiet'
    BY <1>0, <1>1, <2>1, <2>2, <2>3, NoneAssumption DEF SnapshotsQuiet, Object
  <2>18. SnapshotsKept'
    BY <1>0, <1>1, <2>1, <2>2, <2>3 DEF SnapshotsKept, SnapshotsQuiet
  <2>19. Untold'
    BY <1>0, <1>1, <2>1, <2>2, <2>3 DEF Untold, Worker
  <2>20. Orderly'
    BY <1>0, <1>1, <2>1, <2>2, <2>3 DEF Orderly, Pending, Removing
  <2>21. QED
    BY <2>4, <2>5, <2>6, <2>7, <2>8, <2>9, <2>10, <2>11, <2>12, <2>13, <2>14,
       <2>15, <2>16, <2>17, <2>18, <2>19, <2>20
<1>4. (Goto(w, "vsource") => Moved(w, "vsource"))
  <2> HIDE DEF Moved
  <2>1. QED
    BY GotoMoves, Places DEF Goto
<1>5. QED
  BY <1>2, <1>3, <1>4 DEF UnpersistVolume, Works, Fails

(* The soft-deleted source of a clone is next.                             *)
LEMMA SourceVolumeStep ==
  ASSUME IInv, NEW w \in Worker, SourceVolume(w)
  PROVE  IInv'
<1> USE DEF IInv, Jobs, Becomes, Moved, Ended
<1> USE DEF Steps
<1>0. \A u \in Worker : u # w /\ job[u].pc \notin {"idle", "mutex"} => job[u].key # job[w].key
  BY Alone DEF SourceVolume, At
<1>1. /\ job[w].pc = "vsource" /\ job[w].vol \in Volume /\ volCache = volRec /\ snapCache = snapRec
      /\ phase \in {"up", "txns"}
      /\ UNCHANGED <<volRec, snapRec, txn, diskVol, diskSnap, torn, volCache, snapCache, phase, queue, mutex, promise, mishap>>
  BY DEF SourceVolume, At, JobOK, Removes, Phases, Worker, records, disk, cache, control
<1>2. CASE VolumeDone(w, "ok")
  BY <1>1, <1>2, VolumeStops DEF Removes
<1> DEFINE v == Parent[CloneFrom[job[w].vol]]
<1>3. CASE /\ CloneFrom[job[w].vol] # None /\ volCache[v] = "deleting"
           /\ job' = [job EXCEPT ![w].pc = "vlock", ![w].vol = v, ![w].nested = TRUE]
  <2>1. v \in Volume /\ volRec[v] = "deleting"
    BY <1>1, <1>3, CloneAssumption, ParentAssumption
  <2>2. Steps(w, "vlock", job[w].old, v, TRUE, job[w].dups, job[w].err)
    <3> HIDE DEF Steps, v
    <3>1. QED
      BY <1>3, <2>1, NestedMoves, Places
  <2> HIDE DEF v
  <2>3. Types'
    BY <1>0, <1>1, <2>1, <2>2 DEF Types
  <2>4. Jobs'
    BY <1>0, <1>1, <2>1, <2>2 DEF JobOK, Creates, Deletes, Removes
  <2>5. Phases'
    BY <1>0, <1>1, <2>1, <2>2, DistinctAssumption DEF Phases, Worker, JobOK
  <2>6. Owners'
    BY <1>0, <1>1, <2>1, <2>2, NoneAssumption DEF Owners, Types, Worker
  <2>7. Logged'
    BY <1>0, <1>1, <2>1, <2>2 DEF Logged, Owners, JobOK, Creates, Deletes,
       Removes
  <2>8. Exclusion'
    BY <1>0, <1>1, <2>1, <2>2 DEF Exclusion, Reading, Writing
  <2>9. Making'
    BY <1>0, <1>1, <2>1, <2>2 DEF Making, Exclusion, Reading, Writing
  <2>10. Unmaking'
    BY <1>0, <1>1, <2>1, <2>2 DEF Unmaking, Removes
  <2>11. Looked'
    BY <1>0, <1>1, <2>1, <2>2 DEF Looked, Exclusion, Reading, Writing
  <2>12. SnapshotTracked'
    BY <1>0, <1>1, <2>1, <2>2 DEF SnapshotTracked
  <2>13. SnapshotHasVolume'
    BY <1>0, <1>1, <2>1, <2>2 DEF SnapshotHasVolume
  <2>14. Asked'
    BY <1>0, <1>1, <2>1, <2>2 DEF Asked, Removes, VolumesKept
  <2>15. VolumesKept'
    BY <1>0, <1>1, <2>1, <2>2 DEF VolumesKept
  <2>16. SnapshotsQuiet'
    BY <1>0, <1>1, <2>1, <2>2, NoneAssumption DEF SnapshotsQuiet, Object
  <2>17. SnapshotsKept'
    BY <1>0, <1>1, <2>1, <2>2 DEF SnapshotsKept, SnapshotsQuiet
  <2>18. Untold'
    BY <1>0, <1>1, <2>1, <2>2 DEF Untold, Worker
  <2>19. Orderly'
    BY <1>0, <1>1, <2>1, <2>2 DEF Orderly, Pending, Removing
  <2>20. QED
    BY <2>3, <2>4, <2>5, <2>6, <2>7, <2>8, <2>9, <2>10, <2>11, <2>12, <2>13,
       <2>14, <2>15, <2>16, <2>17, <2>18, <2>19
<1>4. QED
  BY <1>2, <1>3 DEF SourceVolume

(* handleFailedTransaction decides what to undo.                           *)
LEMMA ReplayStep ==
  ASSUME IInv, NEW w \in Worker, Replay(w)
  PROVE  IInv'
<1> USE DEF IInv, Jobs, Becomes, Moved, Ended
<1> USE DEF Steps
<1>0. \A u \in Worker : u # w /\ job[u].pc \notin {"idle", "mutex"} => job[u].key # job[w].key
  BY Alone DEF Replay, At
<1>1. /\ job[w].pc = "replay" /\ job[w].key \in Volume \cup Requested
      /\ job[w].old # "none" /\ txn[job[w].key] = job[w].old /\ mishap
      /\ volCache = volRec /\ snapCache = snapRec
      /\ job[w].old = "deleteVolume" <=> job[w].key \in Volume
      /\ job[w].old # "deleteVolume" <=> job[w].key \in Requested
      /\ UNCHANGED <<volRec, snapRec, txn, diskVol, diskSnap, torn, volCache, snapCache, phase, queue, mutex, promise, mishap>>
  BY RequestedAssumption, DistinctAssumption DEF Replay, At, JobOK, Phases, Worker, Logged, Orderly,
     Types, Txn, Object, records, disk, cache, control
<1>2. \/ Moved(w, "dropTxn") /\ job[w].old = "deleteVolume"
      \/ /\ job[w].old = "deleteVolume"
         /\ Steps(w, "vlock", job[w].old, job[w].key, job[w].nested, job[w].dups, job[w].err)
      \/ Moved(w, "sweep") /\ job[w].old = "addSnapshot" /\ job[w].key \notin snapRec
      \/ Moved(w, "dlock") /\ job[w].old # "deleteVolume"
  <2>1. CASE job[w].old = "deleteVolume"
    <3>1. \/ job' = [job EXCEPT ![w].pc = "dropTxn"]
          \/ job' = [job EXCEPT ![w].pc = "vlock", ![w].vol = Key(w)]
      BY <2>1 DEF Replay
    <3> HIDE DEF Steps, Moved
    <3>2. QED
      BY <1>1, <2>1, <3>1, GotoMoves, VolMoves, Places DEF Key
  <2>2. CASE job[w].old # "deleteVolume"
    <3>1. \/ job' = [job EXCEPT ![w].pc = "sweep"] /\ job[w].old = "addSnapshot"
             /\ job[w].key \notin snapRec
          \/ job' = [job EXCEPT ![w].pc = "dlock"]
      BY <1>1, <2>2 DEF Replay, Key
    <3> HIDE DEF Steps, Moved
    <3>2. QED
      BY <2>2, <3>1, GotoMoves, Places
  <2>3. QED
    BY <2>1, <2>2
<1>3. Types'
  BY <1>0, <1>1, <1>2 DEF Types
<1>4. Jobs'
  BY <1>0, <1>1, <1>2 DEF JobOK, Creates, Deletes, Removes
<1>5. Phases'
  BY <1>0, <1>1, <1>2, DistinctAssumption DEF Phases, Worker, JobOK
<1>6. Owners'
  BY <1>0, <1>1, <1>2, NoneAssumption DEF Owners, Types, Worker
<1>7. Logged'
  BY <1>0, <1>1, <1>2 DEF Logged, Owners, JobOK, Creates, Deletes, Removes
<1>8. Exclusion'
  BY <1>0, <1>1, <1>2 DEF Exclusion, Reading, Writing
<1>9. Making'
  BY <1>0, <1>1, <1>2 DEF Making, Exclusion, Reading, Writing
<1>10. Unmaking'
  BY <1>0, <1>1, <1>2, DistinctAssumption DEF Unmaking, Removes, Types
<1>11. Looked'
  BY <1>0, <1>1, <1>2 DEF Looked, Exclusion, Reading, Writing
<1>12. SnapshotTracked'
  BY <1>0, <1>1, <1>2 DEF SnapshotTracked
<1>13. SnapshotHasVolume'
  BY <1>0, <1>1, <1>2 DEF SnapshotHasVolume
<1>14. Asked'
  BY <1>0, <1>1, <1>2 DEF Asked, Removes
<1>15. VolumesKept'
  BY <1>0, <1>1, <1>2 DEF VolumesKept
<1>16. SnapshotsQuiet'
  BY <1>0, <1>1, <1>2, NoneAssumption DEF SnapshotsQuiet, Object
<1>17. SnapshotsKept'
  BY <1>0, <1>1, <1>2 DEF SnapshotsKept, SnapshotsQuiet
<1>18. Untold'
  BY <1>0, <1>1, <1>2 DEF Untold, Worker
<1>19. Orderly'
  BY <1>0, <1>1, <1>2 DEF Orderly, Pending, Removing
<1>20. QED
  BY <1>3, <1>4, <1>5, <1>6, <1>7, <1>8, <1>9, <1>10, <1>11, <1>12, <1>13,
     <1>14, <1>15, <1>16, <1>17, <1>18, <1>19

(* A snapshot without a record is removed.                                 *)
LEMMA SweepStep ==
  ASSUME IInv, NEW w \in Worker, Sweep(w)
  PROVE  IInv'
<1> USE DEF IInv, Jobs, Becomes, Moved, Ended
<1> USE DEF Steps
<1>0. \A u \in Worker : u # w /\ job[u].pc \notin {"idle", "mutex"} => job[u].key # job[w].key
  BY Alone DEF Sweep, At
<1>1. /\ job[w].pc = "sweep" /\ job[w].key \in Object /\ job[w].old = "addSnapshot"
      /\ job[w].key \notin snapRec /\ snapCache = snapRec /\ mishap /\ mishap \in BOOLEAN
      /\ UNCHANGED <<volRec, snapRec, txn, diskVol, volCache, queue>>
  BY RequestedAssumption DEF Sweep, At, JobOK, Phases, Worker, Unmaking, Orderly,
     Types, Object, records, disk, cache, control
<1>2. CASE ReplayFails(w) /\ mishap' = TRUE /\ UNCHANGED <<diskSnap, torn, snapCache>>
  BY <1>1, <1>2, ReplayFailed, GivesUp
<1>3. CASE /\ diskSnap' = diskSnap \ {job[w].key} /\ snapCache' = snapCache \ {job[w].key}
           /\ torn' = torn \ {job[w].key} /\ Moved(w, "dropTxn") /\ UNCHANGED <<phase, mutex, promise, mishap>>
  <2>1. snapCache' = snapCache
    BY <1>1, <1>3
  <2>2. Types'
    BY <1>0, <1>1, <1>3, <2>1 DEF Types
  <2>3. Jobs'
    BY <1>0, <1>1, <1>3, <2>1 DEF JobOK, Creates, Deletes, Removes
  <2>4. Phases'
    BY <1>0, <1>1, <1>3, <2>1, DistinctAssumption DEF Phases, Worker, JobOK
  <2>5. Owners'
    BY <1>0, <1>1, <1>3, <2>1, NoneAssumption DEF Owners, Types, Worker
  <2>6. Logged'
    BY <1>0, <1>1, <1>3, <2>1 DEF Logged, Owners, JobOK, Creates, Deletes,
       Removes
  <2>7. Exclusion'
    BY <1>0, <1>1, <1>3, <2>1 DEF Exclusion, Reading, Writing
  <2>8. Making'
    BY <1>0, <1>1, <1>3, <2>1 DEF Making, Exclusion, Reading, Writing
  <2>9. Unmaking'
    BY <1>0, <1>1, <1>3, <2>1 DEF Unmaking, Removes
  <2>10. Looked'
    BY <1>0, <1>1, <1>3, <2>1 DEF Looked, Exclusion, Reading, Writing
  <2>11. SnapshotTracked'
    BY <1>0, <1>1, <1>3, <2>1 DEF SnapshotTracked
  <2>12. SnapshotHasVolume'
    BY <1>0, <1>1, <1>3, <2>1 DEF SnapshotHasVolume
  <2>13. Asked'
    BY <1>0, <1>1, <1>3, <2>1 DEF Asked, Removes
  <2>14. VolumesKept'
    BY <1>0, <1>1, <1>3, <2>1 DEF VolumesKept
  <2>15. SnapshotsQuiet'
    BY <1>0, <1>1, <1>3, <2>1, NoneAssumption DEF SnapshotsQuiet, Object
  <2>16. SnapshotsKept'
    BY <1>0, <1>1, <1>3, <2>1 DEF SnapshotsKept, SnapshotsQuiet
  <2>17. Untold'
    BY <1>0, <1>1, <1>3, <2>1 DEF Untold, Worker
  <2>18. Orderly'
    BY <1>0, <1>1, <1>3, <2>1 DEF Orderly, Pending, Removing
  <2>19. QED
    BY <2>2, <2>3, <2>4, <2>5, <2>6, <2>7, <2>8, <2>9, <2>10, <2>11, <2>12,
       <2>13, <2>14, <2>15, <2>16, <2>17, <2>18
<1>4. (Goto(w, "dropTxn") => Moved(w, "dropTxn"))
  <2> HIDE DEF Moved
  <2>1. QED
    BY GotoMoves, Places DEF Goto
<1>5. QED
  BY <1>2, <1>3, <1>4 DEF Sweep, Removed, Works, Fails, Key

(* A replay deletes its transaction, and nothing depends on it any more.   *)
LEMMA DropTxnStep ==
  ASSUME IInv, NEW w \in Worker, DropTxn(w)
  PROVE  IInv'
<1> USE DEF IInv, Jobs, Becomes, Moved, Ended
<1> USE DEF Steps
<1>0. \A u \in Worker : u # w /\ job[u].pc \notin {"idle", "mutex"} => job[u].key # job[w].key
  BY Alone DEF DropTxn, At
<1>1. /\ job[w].pc = "dropTxn" /\ job[w].key \in Object /\ job[w].old # "none"
      /\ mishap /\ mishap \in BOOLEAN /\ txn[job[w].key] = job[w].old
      /\ UNCHANGED <<volRec, snapRec, diskVol, diskSnap, torn, volCache, snapCache, queue>>
  BY RequestedAssumption DEF DropTxn, At, JobOK, Worker, Orderly, Types, Object, Logged, records, disk, cache, control
<1>2. /\ \A u \in Worker : job[u].op # "none" \/ job[u].old # "none" \/ job[u].pc # "idle"
                              => job[u].key \in Object
      /\ Requested \subseteq Object /\ Snapshot \subseteq Object /\ Volume \subseteq Object
      /\ \A v \in Volume : v \notin Snapshot /\ v \notin Requested
  BY Objects
<1>3. CASE UNCHANGED txn /\ mishap' = TRUE /\ ReplayFails(w)
  BY <1>1, <1>3, ReplayFailed, GivesUp
<1>4. CASE TxnDropped(w) /\ Ended(w) /\ Released(w) /\ UNCHANGED <<phase, promise>>
  <2>1. Owners'
    BY <1>1, <1>4, OwnersReleased
  <2> USE DEF TxnDropped, Released
  <2>2. Types'
    BY <1>0, <1>1, <1>2, <1>4 DEF Types
  <2>3. Jobs'
    BY <1>0, <1>1, <1>2, <1>4 DEF JobOK, Creates, Deletes, Removes
  <2>4. Phases'
    <3>1. CASE w = boot
      BY <1>1, <1>4, <3>1, NoneAssumption, DistinctAssumption DEF Phases, Worker, Types, Object
    <3>2. CASE w # boot
      BY <1>1, <1>4, <3>2, DistinctAssumption DEF Phases, Worker
    <3>3. QED
      BY <3>1, <3>2
  <2>5. Owners'
    BY <2>1
  <2>6. Logged'
    BY <1>0, <1>1, <1>2, <1>4 DEF Logged, Owners, JobOK, Creates, Deletes,
       Removes
  <2>7. Exclusion'
    BY <1>0, <1>1, <1>2, <1>4 DEF Exclusion, Reading, Writing
  <2>8. Making'
    BY <1>0, <1>1, <1>2, <1>4 DEF Making, Exclusion, Reading, Writing
  <2>9. Unmaking'
    BY <1>0, <1>1, <1>2, <1>4 DEF Unmaking, Removes
  <2>10. Looked'
    BY <1>0, <1>1, <1>2, <1>4 DEF Looked, Exclusion, Reading, Writing
  <2>11. SnapshotTracked'
    BY <1>0, <1>1, <1>2, <1>4 DEF SnapshotTracked, Unmaking
  <2>12. SnapshotHasVolume'
    BY <1>0, <1>1, <1>2, <1>4 DEF SnapshotHasVolume
  <2>13. Asked'
    BY <1>0, <1>1, <1>2, <1>4 DEF Asked, Removes
  <2>14. VolumesKept'
    BY <1>0, <1>1, <1>2, <1>4 DEF VolumesKept
  <2>15. SnapshotsQuiet'
    BY <1>0, <1>1, <1>2, <1>4, NoneAssumption DEF SnapshotsQuiet, Object
  <2>16. SnapshotsKept'
    BY <1>0, <1>1, <1>2, <1>4 DEF SnapshotsKept, SnapshotsQuiet
  <2>17. Untold'
    BY <1>0, <1>1, <1>2, <1>4 DEF Untold, Worker, Types, Unmaking
  <2>18. Orderly'
    BY <1>0, <1>1, <1>2, <1>4 DEF Orderly, Pending, Removing
  <2>19. QED
    BY <2>2, <2>3, <2>4, <2>5, <2>6, <2>7, <2>8, <2>9, <2>10, <2>11, <2>12,
       <2>13, <2>14, <2>15, <2>16, <2>17, <2>18
<1>5. CASE /\ TxnDropped(w) /\ UNCHANGED <<phase, mutex, promise>> /\ w # boot
           /\ Steps(w, "log", "none", job[w].vol, job[w].nested, job[w].dups, job[w].err)
  <2> USE DEF TxnDropped
  <2>1. Types'
    BY <1>0, <1>1, <1>2, <1>5 DEF Types
  <2>2. Jobs'
    BY <1>0, <1>1, <1>2, <1>5 DEF JobOK, Creates, Deletes, Removes
  <2>3. Phases'
    BY <1>0, <1>1, <1>2, <1>5, DistinctAssumption DEF Phases, Worker, JobOK
  <2>4. Owners'
    BY <1>0, <1>1, <1>2, <1>5, NoneAssumption DEF Owners, Types, Worker
  <2>5. Logged'
    BY <1>0, <1>1, <1>2, <1>5 DEF Logged, Owners, JobOK, Creates, Deletes,
       Removes
  <2>6. Exclusion'
    BY <1>0, <1>1, <1>2, <1>5 DEF Exclusion, Reading, Writing
  <2>7. Making'
    BY <1>0, <1>1, <1>2, <1>5 DEF Making, Exclusion, Reading, Writing
  <2>8. Unmaking'
    BY <1>0, <1>1, <1>2, <1>5 DEF Unmaking, Removes
  <2>9. Looked'
    BY <1>0, <1>1, <1>2, <1>5 DEF Looked, Exclusion, Reading, Writing
  <2>10. SnapshotTracked'
    BY <1>0, <1>1, <1>2, <1>5 DEF SnapshotTracked, Unmaking
  <2>11. SnapshotHasVolume'
    BY <1>0, <1>1, <1>2, <1>5 DEF SnapshotHasVolume
  <2>12. Asked'
    BY <1>0, <1>1, <1>2, <1>5 DEF Asked, Removes
  <2>13. VolumesKept'
    BY <1>0, <1>1, <1>2, <1>5 DEF VolumesKept
  <2>14. SnapshotsQuiet'
    BY <1>0, <1>1, <1>2, <1>5, NoneAssumption DEF SnapshotsQuiet, Object
  <2>15. SnapshotsKept'
    BY <1>0, <1>1, <1>2, <1>5 DEF SnapshotsKept, SnapshotsQuiet
  <2>16. Untold'
    BY <1>0, <1>1, <1>2, <1>5 DEF Untold, Worker, Types, Unmaking
  <2>17. Orderly'
    BY <1>0, <1>1, <1>2, <1>5 DEF Orderly, Pending, Removing
  <2>18. QED
    BY <2>1, <2>2, <2>3, <2>4, <2>5, <2>6, <2>7, <2>8, <2>9, <2>10, <2>11,
       <2>12, <2>13, <2>14, <2>15, <2>16, <2>17
<1>6. CASE TxnDropped(w) /\ UNCHANGED phase /\ ~(UNCHANGED txn /\ mishap' = TRUE /\ ReplayFails(w))
  <2> HIDE DEF Steps, Moved, Ended
  <2>1. CASE w = boot
    BY <1>4, <1>6, <2>1, EndsMoves, Releases DEF DropTxn, TxnFails, Fails
  <2>2. CASE w # boot /\ job[w].old # "addSnapshot"
    BY <1>4, <1>6, <2>2, ReturnFalse DEF DropTxn, TxnFails, Fails
  <2>3. CASE w # boot /\ job[w].old = "addSnapshot"
    <3>1. "none" \in Txn
      BY DEF Txn
    <3>2. QED
      BY <1>5, <1>6, <2>3, <3>1, OldMoves, Places DEF DropTxn, TxnFails, Fails
  <2>4. QED
    BY <2>1, <2>2, <2>3
<1>7. QED
  BY <1>3, <1>6, DropsTxn DEF DropTxn, TxnFails, Fails

(* A crash, or the nil volume of CreateSnapshot.                           *)
LEMMA DownStep ==
  ASSUME IInv, Down
  PROVE  IInv'
<1> USE DEF IInv, Jobs
<1>1. /\ job' \in [Worker -> Job]
      /\ \A w \in Worker :
           /\ job'[w].pc = "idle" /\ job'[w].op = "none" /\ job'[w].key = None
           /\ job'[w].old = "none" /\ ~job'[w].err /\ job'[w].dups = {}
  BY IdleFields DEF Down
<1>2. /\ phase' = "down" /\ queue' = {} /\ mishap' = TRUE /\ snapCache' = {}
      /\ volCache' = [v \in Volume |-> "none"] /\ mutex' = [x \in Object |-> None]
      /\ UNCHANGED <<volRec, snapRec, txn, diskVol, diskSnap, torn, promise>>
  BY DEF Down, Fails, records, disk
<1>3. boot \in Worker /\ Client \subseteq Worker
  BY DEF Worker
<1>4. Types'
  BY <1>1, <1>2, <1>3 DEF Types
<1>5. Jobs'
  BY <1>1, <1>2, <1>3 DEF JobOK, Creates, Deletes, Removes
<1>6. Phases'
  BY <1>1, <1>2, <1>3, DistinctAssumption DEF Phases, Worker, JobOK
<1>7. Owners'
  BY <1>1, <1>2, <1>3, NoneAssumption DEF Owners, Types, Worker
<1>8. Logged'
  BY <1>1, <1>2, <1>3 DEF Logged, Owners, JobOK, Creates, Deletes, Removes
<1>9. Exclusion'
  BY <1>1, <1>2, <1>3 DEF Exclusion, Reading, Writing
<1>10. Making'
  BY <1>1, <1>2, <1>3 DEF Making, Exclusion, Reading, Writing
<1>11. Unmaking'
  BY <1>1, <1>2, <1>3 DEF Unmaking, Removes
<1>12. Looked'
  BY <1>1, <1>2, <1>3 DEF Looked, Exclusion, Reading, Writing
<1>13. SnapshotTracked'
  BY <1>1, <1>2, <1>3 DEF SnapshotTracked
<1>14. SnapshotHasVolume'
  BY <1>1, <1>2, <1>3 DEF SnapshotHasVolume
<1>15. Asked'
  BY <1>1, <1>2, <1>3 DEF Asked, Removes
<1>16. VolumesKept'
  BY <1>1, <1>2, <1>3 DEF VolumesKept
<1>17. SnapshotsQuiet'
  BY <1>1, <1>2, <1>3, NoneAssumption DEF SnapshotsQuiet, Object
<1>18. SnapshotsKept'
  BY <1>1, <1>2, <1>3 DEF SnapshotsKept
<1>19. Untold'
  BY <1>1, <1>2, <1>3 DEF Untold, Worker
<1>20. Orderly'
  BY <1>1, <1>2, <1>3 DEF Orderly, Pending, Removing
<1>21. QED
  BY <1>4, <1>5, <1>6, <1>7, <1>8, <1>9, <1>10, <1>11, <1>12, <1>13, <1>14,
     <1>15, <1>16, <1>17, <1>18, <1>19, <1>20

(* The cache is filled from the records.                                   *)
LEMMA BootstrapStep ==
  ASSUME IInv, Bootstrap
  PROVE  IInv'
<1> USE DEF IInv, Jobs
<1>1. /\ phase = "down" /\ phase' = "txns" /\ volCache' = volRec /\ snapCache' = snapRec
      /\ queue' = {x \in Object : txn[x] # "none"} /\ mishap
      /\ UNCHANGED <<volRec, snapRec, txn, diskVol, diskSnap, torn, mutex, job, promise, mishap>>
  BY DEF Bootstrap, records, disk, Orderly
<1>2. \A w \in Worker : job[w].pc = "idle" /\ job[w].key = None
  BY <1>1 DEF Phases, Worker, JobOK
<1>3. Types'
  BY <1>1, <1>2 DEF Types
<1>4. Jobs'
  BY <1>1, <1>2 DEF JobOK, Creates, Deletes, Removes
<1>5. Phases'
  BY <1>1, <1>2, DistinctAssumption, NoneAssumption DEF Phases, Worker, JobOK,
     Object
<1>6. Owners'
  BY <1>1, <1>2, NoneAssumption DEF Owners, Types, Worker
<1>7. Logged'
  BY <1>1, <1>2 DEF Logged, Owners, JobOK, Creates, Deletes, Removes
<1>8. Exclusion'
  BY <1>1, <1>2 DEF Exclusion, Reading, Writing
<1>9. Making'
  BY <1>1, <1>2 DEF Making, Exclusion, Reading, Writing
<1>10. Unmaking'
  BY <1>1, <1>2 DEF Unmaking, Removes
<1>11. Looked'
  BY <1>1, <1>2 DEF Looked, Exclusion, Reading, Writing
<1>12. SnapshotTracked'
  BY <1>1, <1>2 DEF SnapshotTracked
<1>13. SnapshotHasVolume'
  BY <1>1, <1>2 DEF SnapshotHasVolume
<1>14. Asked'
  BY <1>1, <1>2 DEF Asked, Removes
<1>15. VolumesKept'
  BY <1>1, <1>2 DEF VolumesKept
<1>16. SnapshotsQuiet'
  BY <1>1, <1>2, NoneAssumption DEF SnapshotsQuiet, Object
<1>17. SnapshotsKept'
  BY <1>1, <1>2 DEF SnapshotsKept, SnapshotsQuiet
<1>18. Untold'
  BY <1>1, <1>2 DEF Untold, Worker
<1>19. Orderly'
  BY <1>1, <1>2 DEF Orderly, Pending, Removing
<1>20. QED
  BY <1>3, <1>4, <1>5, <1>6, <1>7, <1>8, <1>9, <1>10, <1>11, <1>12, <1>13,
     <1>14, <1>15, <1>16, <1>17, <1>18, <1>19

(* The bootstrap replays a transaction; nobody else runs.                  *)
LEMMA BootstrapTxnStep ==
  ASSUME IInv, BootstrapTxn
  PROVE  IInv'
<1> USE DEF IInv, Jobs
<1>1. /\ phase = "txns" /\ job[boot].pc = "idle" /\ boot \in Worker
      /\ \A w \in Worker : job[w].pc = "idle" /\ job[w].key = None
      /\ volCache = volRec /\ snapCache = snapRec /\ mishap
      /\ UNCHANGED <<volRec, snapRec, txn, diskVol, diskSnap, torn, volCache, snapCache, phase, promise, mishap>>
  BY DEF BootstrapTxn, At, Worker, Phases, JobOK, Orderly, records, disk, cache
<1>2. PICK x \in queue : /\ queue' = queue \ {x}
                         /\ mutex' = [mutex EXCEPT ![x] = boot]
                         /\ job' = [job EXCEPT ![boot] =
                              [Idle EXCEPT !.pc = "replay", !.key = x, !.old = txn[x]]]
  BY DEF BootstrapTxn
<1>3. /\ x \in Object /\ x \in Volume \cup Requested /\ txn[x] # "none" /\ txn[x] \in Txn
      /\ \A y \in Object : mutex[y] = None
  <2>1. x \in Object /\ txn[x] \in Txn /\ txn[x] # "none"
    BY <1>1 DEF Types, Phases
  <2>2. \A y \in Object : mutex[y] = None
    BY <1>1 DEF Owners, Types
  <2>3. QED
    BY <2>1, <2>2 DEF Logged, Txn
<1>4. Becomes(boot, "replay", "none", x, txn[x], None, FALSE, {}, FALSE)
  BY <1>1, <1>2, <1>3, ReplayMoves, Places
<1>5. queue' = queue \ {x} /\ mutex' = [mutex EXCEPT ![x] = boot]
  BY <1>2
<1> USE DEF Becomes
<1>6. Types'
  BY <1>1, <1>3, <1>4, <1>5 DEF Types
<1>7. Jobs'
  BY <1>1, <1>3, <1>4, <1>5 DEF JobOK, Creates, Deletes, Removes
<1>8. Phases'
  <2>1. queue \subseteq Object
    BY DEF Types
  <2>2. QED
    BY <1>1, <1>3, <1>4, <1>5, <2>1, DistinctAssumption, NoneAssumption DEF Phases, Worker, Object
<1>9. Owners'
  BY <1>1, <1>3, <1>4, <1>5, NoneAssumption DEF Owners, Types, Worker
<1>10. Logged'
  BY <1>1, <1>3, <1>4, <1>5 DEF Logged, Owners, JobOK, Creates, Deletes, Removes
<1>11. Exclusion'
  BY <1>1, <1>3, <1>4, <1>5 DEF Exclusion, Reading, Writing
<1>12. Making'
  BY <1>1, <1>3, <1>4, <1>5 DEF Making, Exclusion, Reading, Writing
<1>13. Unmaking'
  BY <1>1, <1>3, <1>4, <1>5 DEF Unmaking, Removes
<1>14. Looked'
  BY <1>1, <1>3, <1>4, <1>5 DEF Looked, Exclusion, Reading, Writing
<1>15. SnapshotTracked'
  BY <1>1, <1>3, <1>4, <1>5 DEF SnapshotTracked
<1>16. SnapshotHasVolume'
  BY <1>1, <1>3, <1>4, <1>5 DEF SnapshotHasVolume
<1>17. Asked'
  BY <1>1, <1>3, <1>4, <1>5 DEF Asked, Removes
<1>18. VolumesKept'
  BY <1>1, <1>3, <1>4, <1>5 DEF VolumesKept
<1>19. SnapshotsQuiet'
  BY <1>1, <1>3, <1>4, <1>5, NoneAssumption DEF SnapshotsQuiet, Object
<1>20. SnapshotsKept'
  BY <1>1, <1>3, <1>4, <1>5 DEF SnapshotsKept, SnapshotsQuiet
<1>21. Untold'
  BY <1>1, <1>3, <1>4, <1>5 DEF Untold, Worker
<1>22. Orderly'
  BY <1>1, <1>3, <1>4, <1>5 DEF Orderly, Pending, Removing
<1>23. QED
  BY <1>6, <1>7, <1>8, <1>9, <1>10, <1>11, <1>12, <1>13, <1>14, <1>15, <1>16,
     <1>17, <1>18, <1>19, <1>20, <1>21, <1>22

(* The bootstrap is done: no transaction is left.                          *)
LEMMA BootstrappedStep ==
  ASSUME IInv, Bootstrapped
  PROVE  IInv'
<1> USE DEF IInv, Jobs
<1>1. /\ phase = "txns" /\ phase' = "up" /\ queue = {} /\ mishap
      /\ UNCHANGED <<volRec, snapRec, txn, diskVol, diskSnap, torn, volCache, snapCache, queue, mutex,
                     job, promise, mishap>>
  BY DEF Bootstrapped, records, disk, cache, Orderly
<1>2. \A w \in Worker : job[w].pc = "idle" /\ job[w].key = None
  BY DEF Bootstrapped, At, Phases, Worker, JobOK
<1>3. \A x \in Object : txn[x] = "none"
  BY <1>1, <1>2, NoneAssumption DEF Phases, Worker, Object
<1>4. snapRec \subseteq Object
  BY RequestedAssumption DEF Types, Object
<1>5. Types'
  BY <1>1, <1>2, <1>3, <1>4 DEF Types
<1>6. Jobs'
  BY <1>1, <1>2, <1>3, <1>4 DEF JobOK, Creates, Deletes, Removes
<1>7. Phases'
  BY <1>1, <1>2, <1>3, <1>4, DistinctAssumption DEF Phases, Worker, JobOK
<1>8. Owners'
  BY <1>1, <1>2, <1>3, <1>4, NoneAssumption DEF Owners, Types, Worker
<1>9. Logged'
  BY <1>1, <1>2, <1>3, <1>4 DEF Logged, Owners, JobOK, Creates, Deletes, Removes
<1>10. Exclusion'
  BY <1>1, <1>2, <1>3, <1>4 DEF Exclusion, Reading, Writing
<1>11. Making'
  BY <1>1, <1>2, <1>3, <1>4 DEF Making, Exclusion, Reading, Writing
<1>12. Unmaking'
  BY <1>1, <1>2, <1>3, <1>4 DEF Unmaking, Removes
<1>13. Looked'
  BY <1>1, <1>2, <1>3, <1>4 DEF Looked, Exclusion, Reading, Writing
<1>14. SnapshotTracked'
  BY <1>1, <1>2, <1>3, <1>4 DEF SnapshotTracked
<1>15. SnapshotHasVolume'
  BY <1>1, <1>2, <1>3, <1>4 DEF SnapshotHasVolume
<1>16. Asked'
  BY <1>1, <1>2, <1>3, <1>4 DEF Asked, Removes
<1>17. VolumesKept'
  BY <1>1, <1>2, <1>3, <1>4 DEF VolumesKept
<1>18. SnapshotsQuiet'
  BY <1>1, <1>2, <1>3, <1>4, NoneAssumption DEF SnapshotsQuiet, Object
<1>19. SnapshotsKept'
  BY <1>1, <1>2, <1>3, <1>4 DEF SnapshotsKept, SnapshotsQuiet
<1>20. Untold'
  BY <1>1, <1>2, <1>3, <1>4 DEF Untold, Worker
<1>21. Orderly'
  BY <1>1, <1>2, <1>3, <1>4 DEF Orderly, Pending, Removing
<1>22. QED
  BY <1>5, <1>6, <1>7, <1>8, <1>9, <1>10, <1>11, <1>12, <1>13, <1>14, <1>15,
     <1>16, <1>17, <1>18, <1>19, <1>20, <1>21

-----------------------------------------------------------------------------
(* The invariant holds at the beginning and every step keeps it.           *)
LEMMA Initially ==
  ASSUME Init
  PROVE  IInv
<1>1. /\ job \in [Worker -> Job]
      /\ \A w \in Worker :
           /\ job[w].pc = "idle" /\ job[w].op = "none" /\ job[w].key = None
           /\ job[w].old = "none" /\ ~job[w].err /\ job[w].dups = {}
  BY IdleFields DEF Init
<1>2. boot \in Worker /\ Client \subseteq Worker
  BY DEF Worker
<1>3. Types /\ Jobs /\ Phases
  BY <1>1, <1>2, RequestedAssumption DEF Init, Types, Txn, Jobs, JobOK, Phases, Creates, Deletes,
     Removes
<1>4. Owners /\ Logged /\ Exclusion
  BY <1>1 DEF Init, Owners, Logged, Exclusion, Creates, Deletes, Removes, Reading, Writing
<1>5. Making /\ Unmaking /\ Looked
  BY <1>1 DEF Init, Making, Unmaking, Looked, Removes
<1>6. SnapshotTracked /\ SnapshotHasVolume
  BY DEF Init, SnapshotTracked, SnapshotHasVolume
<1>7. Asked /\ VolumesKept /\ SnapshotsQuiet /\ SnapshotsKept
  BY <1>1, DistinctAssumption DEF Init, Asked, VolumesKept, SnapshotsQuiet, SnapshotsKept, Object,
     Removes
<1>8. Untold /\ Orderly
  BY <1>1 DEF Init, Untold, Orderly
<1>9. QED
  BY <1>3, <1>4, <1>5, <1>6, <1>7, <1>8 DEF IInv

LEMMA Inductive ==
  ASSUME IInv, [Next]_vars
  PROVE  IInv'
<1>1. CASE UNCHANGED vars
  <2>1. UNCHANGED <<volRec, snapRec, txn, diskVol, diskSnap, torn, volCache, snapCache, phase, queue,
                    mutex, job, promise, mishap>>
    BY <1>1 DEF vars, records, disk, cache, control
  <2>2. Types' /\ Jobs' /\ Phases' /\ Owners' /\ Logged' /\ Exclusion'
    BY <2>1 DEF IInv, Types, Jobs, JobOK, Phases, Owners, Logged, Exclusion
  <2>3. Making' /\ Unmaking' /\ Looked' /\ SnapshotTracked' /\ SnapshotHasVolume'
    BY <2>1 DEF IInv, Making, Unmaking, Looked, SnapshotTracked, SnapshotHasVolume
  <2>4. Asked' /\ VolumesKept' /\ SnapshotsQuiet' /\ SnapshotsKept' /\ Untold'
    BY <2>1 DEF IInv, Asked, VolumesKept, SnapshotsQuiet, SnapshotsKept, Untold
  <2>5. Orderly'
    BY <2>1 DEF IInv, Orderly, Pending, Removing
  <2>6. QED
    BY <2>2, <2>3, <2>4, <2>5 DEF IInv
<1>2. ASSUME NEW w \in Worker, Step(w)
      PROVE  IInv'
  BY <1>2, AddVolumeTransactionStep, SnapStep, PersistSnapshotStep, CleanupStep, EndCreateStep,
     RemoveSnapshotStep, UnpersistSnapshotStep, PinnedStep, EndDeleteStep, SoftDeleteStep,
     RemoveVolumeStep, UnpersistVolumeStep, SourceVolumeStep, ReplayStep, SweepStep,
     DropTxnStep DEF Step
<1>3. ASSUME NEW w \in Worker, Wait(w)
      PROVE  IInv'
  BY <1>3, LockTxnStep, LockSnapshotStep, DownStep, LockDeleteSnapshotStep,
     DeleteCloneSnapshotsStep, LockVolumeStep DEF Wait, NilVolume
<1>4. ASSUME NEW w \in Client, CreateSnapshot(w) \/ Delete(w)
      PROVE  IInv'
  BY <1>4, CreateSnapshotStep, DeleteStep
<1>5. CASE Crash \/ Bootstrap \/ BootstrapTxn \/ Bootstrapped
  BY <1>5, DownStep, BootstrapStep, BootstrapTxnStep, BootstrappedStep DEF Crash
<1>6. QED
  BY <1>1, <1>2, <1>3, <1>4, <1>5 DEF Next

(* Every state of every behaviour satisfies the invariant.                 *)
THEOREM Invariance == Spec => []IInv
<1>1. Init => IInv
  BY Initially
<1>2. IInv /\ [Next]_vars => IInv'
  BY Inductive
<1>3. QED
  BY <1>1, <1>2, PTL DEF Spec

(* The requests and the bootstrap keep to the types of the state, and      *)
(* txnMutex of an object is held by a request about that object.           *)
THEOREM TypeCorrect == Spec => []TypeOK
<1>1. IInv => TypeOK
  <2>1. SUFFICES ASSUME IInv PROVE TypeOK
    OBVIOUS
  <2>2. \A w \in Worker : At(w, "idle") \/ Key(w) \in Object
    BY <2>1, RequestedAssumption DEF IInv, Jobs, JobOK, At, Key, Object
  <2>3. QED
    BY <2>1, <2>2 DEF IInv, Types, Txn, TypeOK, Owners, Key
<1>2. QED
  BY <1>1, Invariance, PTL

(* A snapshot that CreateSnapshot has put on the storage system is not     *)
(* forgotten: it has a record, or a transaction whose replay removes it,   *)
(* whatever fails and wherever the process crashes.  The one exception is  *)
(* a snapshot that the driver made and then reported as not made.          *)
THEOREM SnapshotsTracked == Spec => []SnapshotTracked
<1>1. IInv => SnapshotTracked
  BY DEF IInv
<1>2. QED
  BY <1>1, Invariance, PTL

(* deleteVolume, from wherever it is called, never takes a volume from     *)
(* under a recorded snapshot.                                              *)
THEOREM SnapshotsHaveVolumes == Spec => []SnapshotHasVolume
<1>1. IInv => SnapshotHasVolume
  BY DEF IInv
<1>2. QED
  BY <1>1, Invariance, PTL

(* Acknowledged volumes and snapshots stay until a client asks for their   *)
(* deletion, unless clients also own the copies of a snapshot that a clone *)
(* brings along and deleteCloneSnapshots removes.                          *)
THEOREM AcknowledgedKept ==
  ASSUME CopiesUnclaimed
  PROVE  Spec => []AckedKept
<1>1. IInv => AckedKept
  <2>1. SUFFICES ASSUME IInv, NEW x \in Object, promise[x] = "acked"
                 PROVE  Kept(x)
    BY DEF AckedKept
  <2>2. CASE x \in Volume
    BY <2>1, <2>2 DEF IInv, VolumesKept, Kept
  <2>3. CASE x \notin Volume
    BY <2>1, <2>3 DEF IInv, SnapshotsQuiet, SnapshotsKept, Kept, Object
  <2>4. QED
    BY <2>2, <2>3
<1>2. QED
  BY <1>1, Invariance, PTL

(* Unless something failed, whoever deletes the last snapshot of a         *)
(* soft-deleted volume deletes the volume.                                 *)
THEOREM SoftDeletesEnd == Spec => []NoneLeftBehind
<1>1. IInv => NoneLeftBehind
  <2>1. SUFFICES ASSUME IInv, ~mishap, \A w \in Worker : job[w].pc = "idle",
                        NEW v \in Volume, volCache[v] = "deleting"
                 PROVE  Of(v) \cap snapCache # {}
    BY DEF NoneLeftBehind, At
  <2>2. volRec[v] = "deleting" /\ snapCache = snapRec /\ ~Removing(v)
    BY <2>1 DEF IInv, Orderly, Phases, Removing
  <2>3. PICK s \in snapRec : Parent[s] = v
    BY <2>1, <2>2 DEF IInv, Orderly
  <2>4. QED
    BY <2>1, <2>2, <2>3, RequestedAssumption DEF IInv, Types, Of
<1>2. QED
  BY <1>1, Invariance, PTL
=============================================================================
