---------------------------- MODULE Publications ----------------------------
(***************************************************************************)
(* core/concurrent_core.go: publishing volumes to nodes, and the nodes     *)
(* that come, go and are force-detached meanwhile.  Nothing is logged in a *)
(* transaction: a publication is the access that the backend grants, the   *)
(* TridentVolumePublication record and the entry in the cache, made and    *)
(* undone one after the other.  A node that goes while volumes are         *)
(* published to it is only marked, and whoever unpublishes the last of     *)
(* them deletes it.                                                        *)
(*                                                                         *)
(* Every call of the backend and of the API server may fail, and the       *)
(* process may crash between any two.  There is one backend, online, with  *)
(* publish enforcement; the volumes exist throughout.  A step is a request *)
(* as far as its next call out of the process, under the locks it holds.   *)
(***************************************************************************)
EXTENDS Naturals, FiniteSets

CONSTANTS Volume, Node, Client, None,
          Wanted        \* the publications that the clients ask for

ASSUME WantedAssumption == Wanted \subseteq Volume \X Node

State == {"clean", "dirty", "cleanable"}
ASSUME NoneAssumption ==
  None \notin Volume \cup Node \cup [state : State, deleted : BOOLEAN]

VARIABLES node,      \* TridentNode records, and the cache of them: one locked
                     \* step changes both
          record,    \* TridentVolumePublication records
          cache,     \* volumePublications
          access,    \* what the backend lets the nodes reach
          policy,    \* the nodes in the access rules of the whole backend
          upToDate,  \* nodeAccessUpToDate of the backend
          phase,     \* up or down
          job,       \* what each client is doing
          leaked,    \* nodes whose lock was never released
          promise,   \* history: what the clients know of each publication
          present,   \* history: registered nodes that nobody has deleted since
          unsafe,    \* history: nodes made dirty and not cleaned since
          swept,     \* history: deleted with their last publication since the
                     \* last reconcile
          stray,     \* history: half-made publications
          mishap     \* history: whether a call has failed or the process crashed

backend == <<policy, upToDate>>
nodeHistory == <<present, unsafe, swept>>
vars == <<node, record, cache, access, backend, phase, job, leaked, promise,
          nodeHistory, stray, mishap>>

(* vol, node: what the request is about; deleted: the flag of the node it  *)
(* read under its locks.                                                   *)
Idle == [pc |-> "idle", op |-> "none", vol |-> None, node |-> None, deleted |-> FALSE]

Init ==
  /\ node = [n \in Node |-> None]
  /\ record = {} /\ cache = {} /\ access = {}
  /\ policy = {} /\ upToDate = FALSE
  /\ phase = "up"
  /\ job = [w \in Client |-> Idle]
  /\ leaked = {}
  /\ promise = [p \in Wanted |-> "none"]
  /\ present = {} /\ unsafe = {} /\ swept = {} /\ stray = {}
  /\ mishap = FALSE

-----------------------------------------------------------------------------
At(w, p) == job[w].pc = p
Pair(w) == <<job[w].vol, job[w].node>>
Goto(w, p) == job' = [job EXCEPT ![w].pc = p]
Works == UNCHANGED mishap
Fails == mishap' = TRUE
Busy(w, op) == \E u \in Client \ {w} : job[u].op = op /\ Pair(u) = Pair(w)
On(n) == {p \in cache : p[2] = n}
Marked(n) == node[n] \in [state : State, deleted : {TRUE}]
Known(p) == p \in record /\ p \in cache

(* Mutant: unpublishVolume keeps its locks while the node is deleted.      *)
HoldersTooLong ==
  {w \in Client : \/ At(w, "grant") \/ At(w, "record") \/ At(w, "save")
                  \/ At(w, "revoke") \/ At(w, "unrecord") \/ At(w, "unsave")
                  \/ At(w, "sweep")}

(* The locks of publishVolume and unpublishVolume: the volume to write,    *)
(* the node and the backend to read.                                       *)
Holders ==
  {w \in Client : \/ At(w, "grant") \/ At(w, "record") \/ At(w, "save")
                  \/ At(w, "revoke") \/ At(w, "unrecord") \/ At(w, "unsave")}
CanHold(w) ==
  /\ job[w].node \notin leaked
  /\ \A u \in Holders : job[u].vol # job[w].vol
CanWrite(n) == n \notin leaked /\ \A u \in Holders : job[u].node # n

(* A client relies on a publication that was acknowledged until it asks    *)
(* for its end, and on the end of it until it asks for it again.           *)
Settle(w) ==
  promise' = [promise EXCEPT ![Pair(w)] =
    CASE job[w].op = "publish" -> IF Busy(w, "unpublish") THEN "doomed" ELSE "published"
      [] job[w].op = "unpublish" -> IF Busy(w, "publish") THEN "none" ELSE "gone"]
Ends(w) == job' = [job EXCEPT ![w] = Idle] /\ UNCHANGED promise
Answer(w) == job' = [job EXCEPT ![w] = Idle] /\ Settle(w)

-----------------------------------------------------------------------------
(* Plugin.ControllerPublishVolume, which looks the node up first, and      *)
(* ControllerUnpublishVolume.                                              *)
Publish(w) ==
  /\ phase = "up" /\ At(w, "idle")
  /\ \E p \in Wanted :
       /\ node[p[2]] # None
       /\ job' = [job EXCEPT ![w] = [Idle EXCEPT !.pc = "lock", !.op = "publish",
                                                 !.vol = p[1], !.node = p[2]]]
       /\ promise' = [promise EXCEPT ![p] = IF @ = "gone" THEN "none" ELSE @]
  /\ UNCHANGED <<node, record, cache, access, backend, phase, leaked, nodeHistory,
                 stray, mishap>>

Unpublish(w) ==
  /\ phase = "up" /\ At(w, "idle")
  /\ \E p \in Wanted :
       /\ job' = [job EXCEPT ![w] = [Idle EXCEPT !.pc = "state", !.op = "unpublish",
                                                 !.vol = p[1], !.node = p[2]]]
       /\ promise' = [promise EXCEPT ![p] = "doomed"]
  /\ UNCHANGED <<node, record, cache, access, backend, phase, leaked, nodeHistory,
                 stray, mishap>>

(* The controller of TridentNodeRemediation, the node's own cleanup, the   *)
(* registration of a node, and the Kubernetes helper when a node is gone.  *)
NodeRequest(w, op, pc) ==
  /\ phase = "up" /\ At(w, "idle")
  /\ \E n \in Node :
       /\ job' = [job EXCEPT ![w] = [Idle EXCEPT !.pc = pc, !.op = op, !.node = n]]
       /\ present' = IF op = "delete" THEN present \ {n} ELSE present
  /\ UNCHANGED <<node, record, cache, access, backend, phase, leaked, promise, unsafe,
                 swept, stray, mishap>>

-----------------------------------------------------------------------------
(* publishVolume under its locks.                                          *)
LockPublish(w) ==
  LET n == node[job[w].node] IN
  /\ At(w, "lock") /\ CanHold(w)
  /\ IF n = None THEN Ends(w)
     ELSE IF n.state # "clean" THEN Ends(w)
     ELSE Goto(w, "grant") /\ UNCHANGED promise
  /\ UNCHANGED <<node, record, cache, access, backend, phase, leaked, nodeHistory,
                 stray, mishap>>

(* EnablePublishEnforcement and the driver's Publish; a failure may come   *)
(* after the access was granted.                                           *)
Grant(w) ==
  /\ At(w, "grant")
  /\ \/ /\ access' = access \cup {Pair(w)}
        /\ Goto(w, "record") /\ Works /\ UNCHANGED <<promise, stray>>
     \/ /\ access' \in {access, access \cup {Pair(w)}}
        /\ stray' = IF access' = access \/ Known(Pair(w)) THEN stray ELSE stray \cup {Pair(w)}
        /\ Ends(w) /\ Fails
  /\ UNCHANGED <<node, record, cache, backend, phase, leaked, nodeHistory>>

(* AddVolumePublication; a record that exists already will do.             *)
Record(w) ==
  /\ At(w, "record")
  /\ \/ /\ record' = record \cup {Pair(w)}
        /\ Goto(w, "save") /\ Works /\ UNCHANGED <<promise, stray>>
     \/ /\ stray' = IF Known(Pair(w)) THEN stray ELSE stray \cup {Pair(w)}
        /\ Ends(w) /\ Fails /\ UNCHANGED record
  /\ UNCHANGED <<node, cache, access, backend, phase, leaked, nodeHistory>>

(* updateVolumeInStoreAndCache, then the publication enters the cache.     *)
SavePublish(w) ==
  /\ At(w, "save")
  /\ \/ /\ cache' = cache \cup {Pair(w)} /\ stray' = stray \ {Pair(w)}
        /\ Answer(w) /\ Works
     \/ /\ stray' = IF Known(Pair(w)) THEN stray ELSE stray \cup {Pair(w)}
        /\ Ends(w) /\ Fails /\ UNCHANGED cache
  /\ UNCHANGED <<node, record, access, backend, phase, leaked, nodeHistory>>

-----------------------------------------------------------------------------
(* Mutant: two requests on one volume at a time.                           *)
LockUnpublishAnyway(w) ==
  /\ At(w, "unlock") /\ job[w].node \notin leaked
  /\ IF Pair(w) \notin cache \/ node[job[w].node] = None THEN Answer(w)
     ELSE job' = [job EXCEPT ![w].pc = "revoke",
                             ![w].deleted = node[job[w].node].deleted]
          /\ UNCHANGED promise
  /\ UNCHANGED <<node, record, cache, access, backend, phase, leaked, nodeHistory,
                 stray, mishap>>

(* unpublishVolume under its locks.  A publication that is not in the      *)
(* cache is nothing to do; a node that is gone is a NotFoundError, which   *)
(* ControllerUnpublishVolume takes for a success too.                      *)
LockUnpublish(w) ==
  LET n == node[job[w].node] IN
  /\ At(w, "unlock") /\ CanHold(w)
  /\ IF Pair(w) \notin cache \/ n = None THEN Answer(w)
     ELSE job' = [job EXCEPT ![w].pc = "revoke", ![w].deleted = n.deleted]
          /\ UNCHANGED promise
  /\ UNCHANGED <<node, record, cache, access, backend, phase, leaked, nodeHistory,
                 stray, mishap>>

(* Mutant: a failure of the driver is ignored.                             *)
RevokeIgnored(w) ==
  /\ At(w, "revoke")
  /\ access' \in {access, access \ {Pair(w)}} /\ stray' = stray \ {Pair(w)}
  /\ Goto(w, "unrecord")
  /\ UNCHANGED <<node, record, cache, backend, phase, leaked, promise, nodeHistory, mishap>>

(* The driver's Unpublish; other nodes keep their access.                  *)
Revoke(w) ==
  /\ At(w, "revoke")
  /\ \/ /\ access' = access \ {Pair(w)} /\ stray' = stray \ {Pair(w)}
        /\ Goto(w, "unrecord") /\ Works /\ UNCHANGED promise
     \/ /\ access' \in {access, access \ {Pair(w)}}
        /\ Ends(w) /\ Fails /\ UNCHANGED stray
  /\ UNCHANGED <<node, record, cache, backend, phase, leaked, nodeHistory>>

(* DeleteVolumePublication.  A record that an earlier try has deleted is a *)
(* NotFoundError: success to the client, and the cache keeps the entry.    *)
Unrecord(w) ==
  /\ At(w, "unrecord")
  /\ \/ /\ Pair(w) \in record
        /\ record' = record \ {Pair(w)}
        /\ Goto(w, "unsave") /\ Works /\ UNCHANGED promise
     \/ Pair(w) \notin record /\ Answer(w) /\ Works /\ UNCHANGED record
     \/ Ends(w) /\ Fails /\ UNCHANGED record
  /\ UNCHANGED <<node, cache, access, backend, phase, leaked, nodeHistory, stray>>

(* Mutant: a soft-deleted node is not looked after.                        *)
SaveUnpublishOnly(w) ==
  /\ At(w, "unsave")
  /\ cache' = cache \ {Pair(w)}
  /\ Answer(w)
  /\ UNCHANGED <<node, record, access, backend, phase, leaked, nodeHistory, stray, mishap>>

(* updateVolumeInStoreAndCache, then the publication leaves the cache.     *)
SaveUnpublish(w) ==
  /\ At(w, "unsave")
  /\ \/ /\ cache' = cache \ {Pair(w)} /\ Works
        /\ Settle(w)
        /\ job' = [job EXCEPT ![w] = IF @.deleted THEN [@ EXCEPT !.pc = "sweep"] ELSE Idle]
     \/ Ends(w) /\ Fails /\ UNCHANGED cache
  /\ UNCHANGED <<node, record, access, backend, phase, leaked, nodeHistory, stray>>

(* Mutant: the node that was read before is the one that is deleted.       *)
SweepUnchecked(w) ==
  LET n == job[w].node IN
  /\ At(w, "sweep") /\ CanWrite(n)
  /\ node' = IF On(n) = {} THEN [node EXCEPT ![n] = None] ELSE node
  /\ Ends(w)
  /\ swept' = IF On(n) = {} THEN swept \cup {n} ELSE swept
  /\ unsafe' = IF On(n) = {} THEN unsafe \ {n} ELSE unsafe
  /\ UNCHANGED <<record, cache, access, backend, phase, leaked, present, stray, mishap>>

(* tryDeleteSoftDeletedNode, which looks again under the write lock.  The  *)
(* backends are not told.                                                  *)
Sweep(w) ==
  LET n == job[w].node IN
  /\ At(w, "sweep") /\ CanWrite(n)
  /\ IF Marked(n) /\ On(n) = {}
       THEN \/ /\ node' = [node EXCEPT ![n] = None]
               /\ swept' = swept \cup {n} /\ unsafe' = unsafe \ {n}
               /\ Ends(w) /\ Works
            \/ Ends(w) /\ Fails /\ UNCHANGED <<node, swept, unsafe>>
       ELSE Ends(w) /\ Works /\ UNCHANGED <<node, swept, unsafe>>
  /\ UNCHANGED <<record, cache, access, backend, phase, leaked, present, stray>>

-----------------------------------------------------------------------------
(* Mutant: a registration makes the node clean.                            *)
RegisteredClean(old) == [state |-> "clean", deleted |-> FALSE]

(* AddNode: a registration keeps the publication state and clears the mark. *)
Registered(old) ==
  [state |-> IF old = None THEN "clean" ELSE old.state, deleted |-> FALSE]

AddNode(w) ==
  LET n == job[w].node IN
  /\ At(w, "add") /\ CanWrite(n)
  /\ \/ /\ node' = [node EXCEPT ![n] = Registered(@)]
        /\ present' = IF \E u \in Client : job[u].op = "delete" /\ job[u].node = n
                        THEN present ELSE present \cup {n}
        /\ swept' = swept \ {n}
        /\ Goto(w, "invalidate") /\ Works /\ UNCHANGED promise
     \/ Ends(w) /\ Fails /\ UNCHANGED <<node, present, swept>>
  /\ UNCHANGED <<record, cache, access, backend, phase, leaked, unsafe, stray>>

(* What the flags of UpdateNode may make of each state.                    *)
NextState(s) ==
  CASE s = "clean" -> {"clean", "dirty"}
    [] s = "cleanable" -> {"cleanable", "dirty", "clean"}
    [] s = "dirty" -> {"dirty", "cleanable"}

(* UpdateNode, and ControllerUnpublishVolume up to it: a node that is not  *)
(* known does not stop the latter.                                         *)
UpdateNode(w) ==
  LET n == job[w].node
      Done(ok) == IF ok /\ job[w].op = "unpublish" THEN Goto(w, "unlock") /\ UNCHANGED promise
                  ELSE Ends(w)
  IN
  /\ At(w, "state") /\ CanWrite(n)
  /\ \/ node[n] = None /\ Done(TRUE) /\ Works /\ UNCHANGED <<node, unsafe>>
     \/ /\ node[n] # None
        /\ \E s \in NextState(node[n].state) :
             /\ node' = [node EXCEPT ![n].state = s]
             /\ unsafe' = CASE s = "dirty" -> unsafe \cup {n}
                            [] s = "clean" -> unsafe \ {n}
                            [] OTHER -> unsafe
        /\ Done(TRUE) /\ Works
     \/ node[n] # None /\ Done(FALSE) /\ Fails /\ UNCHANGED <<node, unsafe>>
  /\ UNCHANGED <<record, cache, access, backend, phase, leaked, present, swept, stray>>

(* Mutant: the backends are not told.                                      *)
DeleteNodeQuietly(w) ==
  LET n == job[w].node IN
  /\ At(w, "delete") /\ CanWrite(n)
  /\ node' = IF node[n] = None \/ On(n) # {} THEN node ELSE [node EXCEPT ![n] = None]
  /\ unsafe' = IF node'[n] = None THEN unsafe \ {n} ELSE unsafe
  /\ Ends(w)
  /\ UNCHANGED <<record, cache, access, backend, phase, leaked, present, swept, stray, mishap>>

(* Mutant: publications do not keep the node.                              *)
DeleteNodeAtOnce(w) ==
  LET n == job[w].node IN
  /\ At(w, "delete") /\ n \notin leaked
  /\ node' = [node EXCEPT ![n] = None]
  /\ unsafe' = unsafe \ {n}
  /\ Goto(w, "invalidate")
  /\ UNCHANGED <<record, cache, access, backend, phase, leaked, promise, present, swept,
                 stray, mishap>>

(* DeleteNode.  For a node that is not known it returns without releasing  *)
(* the locks.                                                              *)
DeleteNode(w) ==
  LET n == job[w].node IN
  /\ At(w, "delete") /\ CanWrite(n)
  /\ \/ /\ node[n] = None
        /\ leaked' = leaked \cup {n}
        /\ Ends(w) /\ Works /\ UNCHANGED <<node, unsafe>>
     \/ /\ node[n] # None /\ On(n) # {}
        /\ node' = [node EXCEPT ![n].deleted = TRUE]
        /\ Ends(w) /\ Works /\ UNCHANGED <<leaked, unsafe>>
     \/ /\ node[n] # None /\ On(n) = {}
        /\ node' = [node EXCEPT ![n] = None] /\ unsafe' = unsafe \ {n}
        /\ Goto(w, "invalidate") /\ Works /\ UNCHANGED <<leaked, promise>>
     \/ node[n] # None /\ Ends(w) /\ Fails /\ UNCHANGED <<node, leaked, unsafe>>
  /\ UNCHANGED <<record, cache, access, backend, phase, present, swept, stray>>

-----------------------------------------------------------------------------
(* invalidateAllBackendNodeAccess, under the write lock of the backend.    *)
Invalidate(w) ==
  /\ At(w, "invalidate") /\ Holders = {}
  /\ upToDate' = FALSE
  /\ IF job[w].op = "delete" THEN Goto(w, "reconcile") /\ UNCHANGED promise
     ELSE Ends(w)
  /\ UNCHANGED <<node, record, cache, access, policy, phase, leaked, nodeHistory,
                 stray, mishap>>

(* The process ends, by a crash or a panic.                                *)
Stops ==
  /\ phase' = "down" /\ mishap' = TRUE
  /\ job' = [w \in Client |-> Idle]
  /\ leaked' = {} /\ cache' = {} /\ upToDate' = FALSE
  /\ stray' = stray \cup {Pair(w) : w \in {u \in Client :
                            /\ At(u, "grant") \/ At(u, "record") \/ At(u, "save")
                            /\ Pair(u) \in access /\ ~Known(Pair(u))}}
  /\ UNCHANGED <<node, record, access, policy, promise, nodeHistory>>

(* publishedNodesForBackend looks every node up, and the driver takes the  *)
(* name of a node that is not there.                                       *)
Unknown(pubs) == {p \in pubs : node[p[2]] = None}

(* reconcileNodeAccessOnBackend: the published nodes replace the rules of  *)
(* the backend, unless it is up to date or the driver fails.               *)
Reconcile(pubs) ==
  IF upToDate THEN UNCHANGED <<backend, swept, mishap>>
  ELSE \/ /\ policy' = {p[2] : p \in pubs} /\ upToDate' = TRUE
          /\ swept' = {} /\ Works
       \/ Fails /\ UNCHANGED <<backend, swept>>

(* The periodic reconcile, and the one that ends DeleteNode.               *)
ReconcileNodeAccess(w) ==
  /\ phase = "up" /\ (At(w, "idle") \/ At(w, "reconcile"))
  /\ Holders = {}
  /\ \/ /\ upToDate \/ Unknown(cache) = {}
        /\ Reconcile(cache)
        /\ Ends(w)
        /\ UNCHANGED <<node, record, cache, access, phase, leaked, present, unsafe, stray>>
     \/ ~upToDate /\ Unknown(cache) # {} /\ Stops

Crash == phase = "up" /\ Stops

(* bootstrapVolumePublications, bootstrapNodes.                            *)
Bootstrap ==
  /\ phase = "down"
  /\ IF Unknown(record) = {}
       THEN phase' = "up" /\ cache' = record /\ Reconcile(record)
       ELSE UNCHANGED <<phase, cache, backend, swept, mishap>>
  /\ UNCHANGED <<node, record, access, job, leaked, promise, present, unsafe, stray>>

-----------------------------------------------------------------------------
Step(w) ==
  \/ LockPublish(w) \/ Grant(w) \/ Record(w) \/ SavePublish(w)
  \/ LockUnpublish(w) \/ Revoke(w) \/ Unrecord(w) \/ SaveUnpublish(w) \/ Sweep(w)
  \/ AddNode(w) \/ UpdateNode(w) \/ DeleteNode(w) \/ Invalidate(w)
  \/ At(w, "reconcile") /\ ReconcileNodeAccess(w)

Request(w) ==
  \/ Publish(w) \/ Unpublish(w)
  \/ NodeRequest(w, "add", "add") \/ NodeRequest(w, "update", "state")
  \/ NodeRequest(w, "delete", "delete")
  \/ At(w, "idle") /\ ReconcileNodeAccess(w)

Next == (\E w \in Client : Request(w) \/ Step(w)) \/ Crash \/ Bootstrap
Spec == Init /\ [][Next]_vars

(* A goroutine that can go on does; locks are granted in the end.          *)
FairSpec == Spec /\ \A w \in Client : SF_vars(Step(w))

-----------------------------------------------------------------------------
(* Two requests never hold the lock of one volume.                         *)
TypeOK ==
  /\ node \in [Node -> {None} \cup [state : State, deleted : BOOLEAN]]
  /\ record \subseteq Wanted /\ cache \subseteq Wanted /\ access \subseteq Wanted
  /\ policy \subseteq Node /\ upToDate \in BOOLEAN
  /\ phase \in {"up", "down"}
  /\ leaked \subseteq Node
  /\ promise \in [Wanted -> {"none", "published", "doomed", "gone"}]
  /\ \A w \in Client : job[w].vol # None => Pair(w) \in Wanted
  /\ \A u, w \in Holders : u # w => job[u].vol # job[w].vol

(* What ControllerPublishVolume has answered holds until the end of the    *)
(* publication is asked for: the node has access, and the record and the   *)
(* cache say so, whatever fails and through every restart.  What           *)
(* ControllerUnpublishVolume has answered holds too, but for what failed   *)
(* attempts to publish have left: unpublishVolume goes by the cache, and   *)
(* does nothing about access that it does not find there.                  *)
AccessFollowsAnswers ==
  \A p \in Wanted :
    /\ promise[p] = "published" =>
         p \in access /\ p \in record /\ (phase = "up" => p \in cache)
    /\ promise[p] = "gone" /\ p \notin stray => p \notin access /\ p \notin record

(* A node is never deleted under an acknowledged publication, so the       *)
(* unpublish that will come finds its addresses: DeleteNode counts         *)
(* publications that publishVolume adds under a read lock of the node.     *)
NodeKept == \A p \in Wanted : promise[p] = "published" => node[p[2]] # None

(* A node that registers again after it was marked as deleted stays, even  *)
(* if an unpublish that saw the mark is about to delete it:                *)
(* tryDeleteSoftDeletedNode reads the mark again.                          *)
RegisteredKept == \A n \in present : node[n] # None /\ ~Marked(n)

(* Once a node is dirty it is given no volume until it has been cleaned,   *)
(* whether publishVolume is already under way or the node registers again. *)
CleanOnly ==
  [][\A p \in (record' \ record) \cup (access' \ access) : p[2] \notin unsafe]_vars

(* The rules of a backend that counts as up to date name no deleted node,  *)
(* unless its deletion is about to invalidate them: nodes are removed      *)
(* before nodeAccessUpToDate is cleared, so that no reconcile in between   *)
(* brings them back.  The nodes that tryDeleteSoftDeletedNode deletes are  *)
(* excepted, for it invalidates nothing.                                   *)
PolicyFollowsNodes ==
  upToDate => \A n \in policy :
    \/ node[n] # None \/ n \in swept
    \/ \E w \in Client : job[w].node = n /\ job[w].op = "delete" /\ At(w, "invalidate")

(* As long as nothing fails, the backend, the records and the cache agree  *)
(* whenever no request is under way, and every marked node still has a     *)
(* publication that will delete it.                                        *)
NoneLeft ==
  ~mishap /\ phase = "up" /\ (\A w \in Client : At(w, "idle")) =>
    /\ access = cache /\ record = cache
    /\ \A n \in Node : Marked(n) => On(n) # {}

(* Every request is answered, by an error at worst, or ends with the       *)
(* process.                                                                *)
EveryRequestEnds == \A w \in Client : ~At(w, "idle") ~> At(w, "idle")

(* As long as DeleteNode has not kept the lock of a node that it did not   *)
(* find, the requests under way never all wait: unpublishVolume lets go of *)
(* its locks before it deletes a marked node, and nobody asks for the      *)
(* backend while it holds a node.                                          *)
NoDeadlock ==
  leaked = {} /\ (\E w \in Client : ~At(w, "idle")) => \E w \in Client : ENABLED Step(w)
=============================================================================
