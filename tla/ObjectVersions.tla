-------------------------- MODULE ObjectVersions --------------------------
(***************************************************************************)
(* PUT, DELETE, HEAD and version listing of ONE object name of one bucket, *)
(* as api/layer and internal/frostfs/tree.go run them: every request is a  *)
(* goroutine of one gateway process that talks to two stores it cannot     *)
(* update together - FrostFS (payload objects) and the tree service (one   *)
(* node per version) - and to three caches shared by all goroutines.  One  *)
(* action is one remote call, or one uninterrupted piece of local work.    *)
(*                                                                         *)
(* A request makes at most one object (or delete-marker OID) and at most   *)
(* one tree node, both with fresh ids: request r calls them r.             *)
(***************************************************************************)
EXTENDS Naturals, FiniteSets

CONSTANTS
  Requests,    \* the requests of a behaviour, each made once
  None,        \* no node / no object / empty cache entry
  Ops,         \* the operations clients use in this instance
  Parallel,    \* bound: requests in flight at the same time
  MaxFaults,   \* bound: failed calls, lost replies and gateway crashes
  MaxToggles   \* bound: changes of the bucket's versioning state

Modes == {"Unversioned", "Enabled", "Suspended"}

ASSUME NoneIsNoRequest == None \notin Requests
ASSUME WordsAreNoRequests == Requests \cap {"latest", "null"} = {}
ASSUME BoundsAreNaturals ==
  Parallel \in Nat /\ MaxFaults \in Nat /\ MaxToggles \in Nat

VARIABLES
  versioning,  \* the bucket's versioning state (settings node)
  objects,     \* OIDs of the objects stored in FrostFS
  tree,        \* tree service: node id -> version node, for existing nodes
  clock,       \* tree service: adds and moves so far, stamps the nodes
  names,       \* namesCache: OID last known as the latest, or None
  objCache,    \* objCache: OIDs with cached object info
  lists,       \* listsCache: cached OIDs of all versions ({}: no entry)
  req,         \* req[r]: progress of request r
  faults,      \* faults so far
  toggles      \* versioning changes so far

vars == <<versioning, objects, tree, clock, names, objCache, lists, req,
          faults, toggles>>

stores == <<objects, tree, clock>>
caches == <<names, objCache, lists>>

---------------------------------------------------------------------------
(* Requests *)

(* op, vid: what the client asked for (vid "latest": no versionId given);  *)
(* mode: the bucket settings read when the request began; pc: what it does *)
(* next; node, oid: the version node it found; todo: nodes a listing has   *)
(* still to read; ans: OIDs a read returned; res: outcome; prior: requests *)
(* finished when it began (history only).                                  *)
Idle == [op |-> "none", vid |-> "latest", mode |-> "Unversioned", pc |-> "idle",
         node |-> None, oid |-> None, todo |-> {}, ans |-> {},
         res |-> "none", prior |-> {}]

At(r, p)  == req[r].pc = p
Active(r) == req[r].pc \notin {"idle", "done"}
Finished  == {r \in Requests : req[r].pc = "done"}
CanBegin  == Cardinality({r \in Requests : Active(r)}) < Parallel

WritesNull(r) == req[r].mode # "Enabled"   \* !bktSettings.VersioningEnabled()

(* Local progress, and a remote call whose reply arrived.                  *)
Step(r, next) == req' = [req EXCEPT ![r] = next] /\ UNCHANGED faults

To(r, p)      == [req[r] EXCEPT !.pc = p]
Done(r, x)    == [req[r] EXCEPT !.pc = "done", !.node = None, !.todo = {},
                               !.res = x]

(* Mutant: the error of RemoveVersion is swallowed.                        *)
FailedUnnoticed(r) == IF At(r, "remove") THEN To(r, "clean")
                                         ELSE Done(r, "error")

(* After an error every handler returns; only a DELETE whose RemoveVersion *)
(* failed still cleans the list cache (layer.go:577-579).                  *)
Failed(r) == IF At(r, "remove")
             THEN [req[r] EXCEPT !.pc = "clean", !.res = "error"]
             ELSE Done(r, "error")

Fault(r) == /\ faults < MaxFaults
            /\ faults' = faults + 1
            /\ req' = [req EXCEPT ![r] = Failed(r)]

(* A call that changed its store: the reply arrives, or is lost and the    *)
(* caller sees an error.                                                   *)
Replied(r, next) == Step(r, next) \/ Fault(r)

---------------------------------------------------------------------------
(* The tree service *)

Nodes     == DOMAIN tree
(* Mutant: getVersions without its onlyUnversioned filter.                 *)
AnyLatestNode == {n \in DOMAIN tree :
                    \A m \in DOMAIN tree : tree[m].ts <= tree[n].ts}

NullNodes == {n \in Nodes : tree[n].null}
Latest    == {n \in Nodes : \A m \in Nodes : tree[m].ts <= tree[n].ts}

(* GetUnversioned, GetLatestVersion, or the node with that OID.            *)
Named(vid) == CASE vid = "null" -> NullNodes
                [] vid = "latest"     -> Latest
                [] OTHER        -> {n \in Nodes : tree[n].oid = vid}

Upsert(n, node) ==
  [m \in Nodes \cup {n} |-> IF m = n THEN node ELSE tree[m]]

(* The node AddVersion writes for request r: a PUT's version or a DELETE's *)
(* delete marker.                                                          *)
NewNode(r) == [oid |-> r, null |-> WritesNull(r),
               marker |-> req[r].op = "delete", ts |-> clock + 1]

StoredOids == {tree[n].oid : n \in Nodes}

---------------------------------------------------------------------------
Init ==
  /\ versioning \in {"Unversioned", "Enabled"}
  /\ objects = {}
  /\ tree = [n \in {} |-> None]
  /\ clock = 0
  /\ names = None /\ objCache = {} /\ lists = {}
  /\ req = [r \in Requests |-> Idle]
  /\ faults = 0 /\ toggles = 0

Begin(r, op, vid, next) ==
  /\ op \in Ops
  /\ At(r, "idle")
  /\ CanBegin
  /\ req' = [req EXCEPT ![r] =
       [next EXCEPT !.op = op, !.vid = vid, !.mode = versioning,
                    !.prior = Finished]]
  /\ UNCHANGED <<versioning, stores, caches, faults, toggles>>

---------------------------------------------------------------------------
(* PutObject *)

BeginPut(r) == Begin(r, "put", "latest", To(r, "create"))

(* Mutants: addVersion replaces a null version for every request, or never.*)
CreateThenReplace(r) ==
  /\ At(r, "create")
  /\ objects' = objects \cup {r}
  /\ Replied(r, To(r, "getnull"))
  /\ UNCHANGED <<versioning, tree, clock, caches, toggles>>

CreateThenAdd(r) ==
  /\ At(r, "create")
  /\ objects' = objects \cup {r}
  /\ Replied(r, To(r, "add"))
  /\ UNCHANGED <<versioning, tree, clock, caches, toggles>>

CreateObject(r) ==
  /\ At(r, "create")
  /\ objects' = objects \cup {r}
  /\ Replied(r, To(r, IF WritesNull(r) THEN "getnull" ELSE "add"))
  /\ UNCHANGED <<versioning, tree, clock, caches, toggles>>

(* AddVersion of a null version looks for the node to replace first.       *)
FindNull(r) ==
  /\ At(r, "getnull")
  /\ IF Cardinality(NullNodes) > 1
     THEN Step(r, Done(r, "error"))
     ELSE IF NullNodes = {}
     THEN Step(r, To(r, "add"))
     ELSE \E n \in NullNodes :
            Step(r, [req[r] EXCEPT !.pc = "move", !.node = n])
  /\ UNCHANGED <<versioning, stores, caches, toggles>>

AfterAdd(r) == IF req[r].op = "put"
               THEN {To(r, "lock"), To(r, "cache")} \* with, without a lock
               ELSE {To(r, "cache")}

AddNode(r) ==
  /\ At(r, "add")
  /\ tree' = Upsert(r, NewNode(r))
  /\ clock' = clock + 1
  /\ \E next \in AfterAdd(r) : Replied(r, next)
  /\ UNCHANGED <<versioning, objects, caches, toggles>>

(* Replaces what the null node says and makes it the newest.  The tree     *)
(* service may refuse to move a node that was removed in the meantime or   *)
(* put it back.                                                            *)
MoveNode(r) ==
  /\ At(r, "move")
  /\ \/ /\ tree' = Upsert(req[r].node, NewNode(r))
        /\ clock' = clock + 1
        /\ Replied(r, To(r, "clear"))
     \/ /\ req[r].node \notin Nodes
        /\ Step(r, Done(r, "error"))
        /\ UNCHANGED <<tree, clock>>
  /\ UNCHANGED <<versioning, objects, caches, toggles>>

(* clearOutdatedVersionInfo: drops the tags of the replaced version.       *)
ClearOutdated(r) ==
  /\ At(r, "clear")
  /\ \E next \in AfterAdd(r) : Replied(r, next)
  /\ UNCHANGED <<versioning, stores, caches, toggles>>

PutLockInfo(r) ==
  /\ At(r, "lock")
  /\ Replied(r, To(r, "cache"))
  /\ UNCHANGED <<versioning, stores, caches, toggles>>

(* CleanListCacheEntriesContainingObject and PutObjectWithName.            *)
CachePut(r) ==
  /\ At(r, "cache") /\ req[r].op = "put"
  /\ names' = r
  /\ objCache' = objCache \cup {r}
  /\ lists' = {}
  /\ Step(r, Done(r, "ok"))
  /\ UNCHANGED <<versioning, stores, toggles>>

---------------------------------------------------------------------------
(* deleteObject *)

(* Version ids a client can know: of stored versions and of its own PUTs.  *)
KnownVersions ==
  StoredOids \cup {r \in Requests : req[r].op = "put" /\ req[r].res = "ok"}

BeginDelete(r) ==
  \E vid \in {"latest", "null"} \cup KnownVersions :
    Begin(r, "delete", vid,
          To(r, IF vid = "latest" /\ versioning = "Enabled"
                THEN "add" ELSE "find"))

(* What deleteObject asks the tree for: VersionID becomes "null" in a      *)
(* suspended bucket.                                                       *)
Target(r) == IF req[r].vid = "latest" /\ req[r].mode = "Suspended"
             THEN "null" ELSE req[r].vid

(* Mutant: the node of a deleted version is left behind.                   *)
KeepNode(r) == IF Target(r) = req[r].vid THEN "clean" ELSE "getnull"

(* After the old version: RemoveVersion, or (no version named, suspended)  *)
(* AddVersion of a null delete marker.                                     *)
AfterOld(r) == IF Target(r) = req[r].vid THEN "remove" ELSE "getnull"

(* getNodeVersionToDelete and the first half of removeOldVersion.  A       *)
(* missing version is success (dismissNotFoundError).                      *)
FindVersion(r) ==
  /\ At(r, "find") /\ req[r].op = "delete"
  /\ LET found == Named(Target(r)) IN
     IF Cardinality(found) > 1
     THEN Step(r, Done(r, "error"))
     ELSE IF found = {}
     THEN Step(r, Done(r, "ok"))
     ELSE \E n \in found :
            Step(r, [req[r] EXCEPT
                       !.node = n, !.oid = tree[n].oid,
                       !.pc = IF tree[n].marker THEN AfterOld(r)
                                                ELSE "evict"])
  /\ UNCHANGED <<versioning, stores, caches, toggles>>

(* Mutant: objectDelete leaves the object cache alone.                     *)
KeepCached(r) ==
  /\ At(r, "evict")
  /\ Step(r, To(r, "delete"))
  /\ UNCHANGED <<versioning, stores, caches, toggles>>

EvictObject(r) ==
  /\ At(r, "evict")
  /\ objCache' = objCache \ {req[r].oid}
  /\ Step(r, To(r, "delete"))
  /\ UNCHANGED <<versioning, stores, names, lists, toggles>>

(* FrostFS may refuse to delete an object that is already gone.            *)
DeleteObject(r) ==
  /\ At(r, "delete")
  /\ objects' = objects \ {req[r].oid}
  /\ \/ Replied(r, To(r, AfterOld(r)))
     \/ req[r].oid \notin objects /\ Step(r, Done(r, "error"))
  /\ UNCHANGED <<versioning, tree, clock, caches, toggles>>

(* The tree service may refuse to remove a node that is already gone.      *)
RemoveVersion(r) ==
  /\ At(r, "remove")
  /\ tree' = [n \in Nodes \ {req[r].node} |-> tree[n]]
  /\ \/ Replied(r, To(r, "clean"))
     \/ req[r].node \notin Nodes /\ Step(r, Failed(r))
  /\ UNCHANGED <<versioning, objects, clock, caches, toggles>>

CleanLists(r) ==
  /\ At(r, "clean")
  /\ lists' = {}
  /\ Step(r, Done(r, IF req[r].res = "error" THEN "error" ELSE "ok"))
  /\ UNCHANGED <<versioning, stores, names, objCache, toggles>>

(* Mutant: a delete marker invalidates the lists only.                     *)
DropListsOnly(r) ==
  /\ At(r, "cache") /\ req[r].op = "delete"
  /\ lists' = {}
  /\ Step(r, Done(r, "ok"))
  /\ UNCHANGED <<versioning, stores, names, objCache, toggles>>

(* DeleteObjectName, after a delete marker was added.                      *)
DropName(r) ==
  /\ At(r, "cache") /\ req[r].op = "delete"
  /\ names' = None
  /\ lists' = {}
  /\ Step(r, Done(r, "ok"))
  /\ UNCHANGED <<versioning, stores, objCache, toggles>>

---------------------------------------------------------------------------
(* headLastVersionIfNotDeleted and headVersion *)

Answered(r, oid) == [Done(r, "ok") EXCEPT !.ans = {oid}, !.oid = oid]

BeginHead(r) ==
  \/ /\ names \in objCache                      \* GetLastObject hits
     /\ Begin(r, "head", "latest", Answered(r, names))
  \/ /\ names \notin objCache
     /\ Begin(r, "head", "latest", To(r, "find"))
  \/ \E vid \in {"null"} \cup KnownVersions :
       Begin(r, "head", vid, To(r, "find"))

(* headVersion looks into objCache once it knows the node; it does not ask *)
(* whether the node is a delete marker, FrostFS has no object for one.     *)
FindToRead(r) ==
  /\ At(r, "find") /\ req[r].op = "head"
  /\ LET found == Named(req[r].vid) IN
     IF Cardinality(found) > 1
     THEN Step(r, Done(r, "error"))
     ELSE IF req[r].vid = "latest" /\ (\A n \in found : tree[n].marker)
     THEN Step(r, Done(r, "notfound"))
     ELSE IF found = {}
     THEN Step(r, Done(r, "notfound"))
     ELSE \E n \in found :
            LET oid == tree[n].oid IN
            IF req[r].vid # "latest" /\ oid \in objCache
            THEN Step(r, Answered(r, oid))
            ELSE Step(r, [req[r] EXCEPT !.pc = "head", !.oid = oid])
  /\ UNCHANGED <<versioning, stores, caches, toggles>>

HeadObject(r) ==
  /\ At(r, "head")
  /\ Step(r, IF req[r].oid \in objects THEN To(r, "fill")
                                       ELSE Done(r, "notfound"))
  /\ UNCHANGED <<versioning, stores, caches, toggles>>

CacheRead(r) ==
  /\ At(r, "fill") /\ req[r].op = "head"
  /\ objCache' = objCache \cup {req[r].oid}
  /\ names' = IF req[r].vid = "latest" THEN req[r].oid ELSE names
  /\ Step(r, Answered(r, req[r].oid))
  /\ UNCHANGED <<versioning, stores, lists, toggles>>

---------------------------------------------------------------------------
(* bucketNodeVersions: the version nodes a listing works on *)

BeginList(r) ==
  \/ /\ lists # {}
     /\ Begin(r, "list", "latest", [Done(r, "ok") EXCEPT !.ans = lists])
  \/ /\ lists = {}
     /\ Begin(r, "list", "latest", To(r, "find"))

(* getSubTreeByPrefix: one call for the nodes of the name ...              *)
FetchNodes(r) ==
  /\ At(r, "find") /\ req[r].op = "list"
  /\ Step(r, [req[r] EXCEPT !.pc = IF Nodes = {} THEN "fill" ELSE "nodes",
                            !.todo = Nodes])
  /\ UNCHANGED <<versioning, stores, caches, toggles>>

(* ... and getSubTreeVersions: one call for what each of them says by then.*)
(* A node removed in between yields nothing, or an error.                  *)
ReadNode(r) ==
  /\ At(r, "nodes")
  /\ \E n \in req[r].todo :
       \/ Step(r, [req[r] EXCEPT
                     !.pc = IF req[r].todo = {n} THEN "fill" ELSE "nodes",
                     !.todo = @ \ {n},
                     !.ans = @ \cup {tree[m].oid : m \in Nodes \cap {n}}])
       \/ n \notin Nodes /\ Step(r, Done(r, "error"))
  /\ UNCHANGED <<versioning, stores, caches, toggles>>

CacheList(r) ==
  /\ At(r, "fill") /\ req[r].op = "list"
  /\ lists' = req[r].ans
  /\ Step(r, Done(r, "ok"))
  /\ UNCHANGED <<versioning, stores, names, objCache, toggles>>

---------------------------------------------------------------------------
(* The environment *)

(* A call that fails without reaching its store.                           *)
CallFails(r) ==
  /\ req[r].pc \in {"create", "getnull", "add", "move", "clear", "lock",
                    "find", "delete", "remove", "head", "nodes"}
  /\ Fault(r)
  /\ UNCHANGED <<versioning, stores, caches, toggles>>

(* The gateway restarts: its caches and its requests are gone.             *)
Crash ==
  /\ faults < MaxFaults
  /\ faults' = faults + 1
  /\ req' = [r \in Requests |-> IF Active(r) THEN Done(r, "crashed")
                                             ELSE req[r]]
  /\ names' = None /\ objCache' = {} /\ lists' = {}
  /\ UNCHANGED <<versioning, stores, toggles>>

(* PutBucketVersioningHandler, a request of its own; a bucket never        *)
(* becomes unversioned again.                                              *)
SetVersioning ==
  /\ toggles < MaxToggles
  /\ CanBegin
  /\ versioning' \in {"Enabled", "Suspended"}
  /\ toggles' = toggles + 1
  /\ UNCHANGED <<stores, caches, req, faults>>

(* gcache drops entries by age and size at any time.                       *)
ExpireName ==
  /\ names # None
  /\ names' = None
  /\ UNCHANGED <<versioning, stores, objCache, lists, req, faults, toggles>>

ExpireObject ==
  /\ \E o \in objCache : objCache' = objCache \ {o}
  /\ UNCHANGED <<versioning, stores, names, lists, req, faults, toggles>>

ExpireList ==
  /\ lists # {}
  /\ lists' = {}
  /\ UNCHANGED <<versioning, stores, names, objCache, req, faults, toggles>>

---------------------------------------------------------------------------
PutStep(r) ==
  \/ CreateObject(r) \/ FindNull(r) \/ AddNode(r) \/ MoveNode(r)
  \/ ClearOutdated(r) \/ PutLockInfo(r) \/ CachePut(r)

DeleteStep(r) ==
  \/ FindVersion(r) \/ EvictObject(r) \/ DeleteObject(r)
  \/ RemoveVersion(r) \/ CleanLists(r) \/ DropName(r)

ReadStep(r) ==
  \/ FindToRead(r) \/ HeadObject(r) \/ CacheRead(r)
  \/ FetchNodes(r) \/ ReadNode(r) \/ CacheList(r)

BeginStep(r) ==
  BeginPut(r) \/ BeginDelete(r) \/ BeginHead(r) \/ BeginList(r)

RequestStep(r) == PutStep(r) \/ DeleteStep(r) \/ ReadStep(r)

Next ==
  \/ \E r \in Requests : BeginStep(r) \/ RequestStep(r) \/ CallFails(r)
  \/ Crash \/ SetVersioning
  \/ ExpireName \/ ExpireObject \/ ExpireList

Spec == Init /\ [][Next]_vars

---------------------------------------------------------------------------
(* Properties *)

Request ==
  [op : {"none", "put", "delete", "head", "list"},
   vid : {"latest", "null"} \cup Requests, mode : Modes,
   pc : {"idle", "create", "getnull", "add", "move", "clear", "lock", "cache",
         "find", "evict", "delete", "remove", "clean", "head", "nodes",
         "fill", "done"},
   node : Requests \cup {None}, oid : Requests \cup {None},
   todo : SUBSET Requests, ans : SUBSET Requests,
   res : {"none", "ok", "error", "notfound", "crashed"},
   prior : SUBSET Requests]

Node == [oid : Requests, null : BOOLEAN, marker : BOOLEAN, ts : Nat]

(* The tree is a partial function from node ids to version nodes, caches   *)
(* hold OIDs, every request is at a step of its handler (data.NodeVersion, *)
(* cache.ObjectsNameCache, cache.ObjectsCache, cache.ObjectsListCache).    *)
TypeOK ==
  /\ versioning \in Modes
  /\ objects \subseteq Requests
  /\ Nodes \subseteq Requests /\ tree \in [Nodes -> Node]
  /\ clock \in Nat
  /\ names \in Requests \cup {None}
  /\ objCache \subseteq Requests /\ lists \subseteq Requests
  /\ req \in [Requests -> Request]
  /\ faults \in Nat /\ toggles \in Nat

AckedPut(r) == req[r].op = "put" /\ req[r].res = "ok"

Stored(r) == r \in objects /\ r \in StoredOids

(* DELETE d may take away version r written in a versioned bucket: it      *)
(* names r, or it names none, read the settings while the bucket was still *)
(* unversioned, and was running when the PUT began.                        *)
MayDeleteVersion(d, r) ==
  /\ req[d].op = "delete"
  /\ \/ req[d].vid = r
     \/ /\ req[d].vid = "latest" /\ req[d].mode = "Unversioned"
        /\ d \notin req[r].prior

(* A version acknowledged by a bucket with versioning enabled stays, both  *)
(* its node and its object, until a DELETE takes that very version:        *)
(* no PUT, no delete marker, no null-version request, no crash or error of *)
(* any of them loses it (PutObject, addVersion, deleteObject).             *)
EnabledVersionSurvives ==
  \A r \in Requests :
    AckedPut(r) /\ ~WritesNull(r) =>
      Stored(r) \/ \E d \in Requests : MayDeleteVersion(d, r)

(* Request q writes or removes null versions, by "null" or by an OID one   *)
(* of them had.                                                            *)
TakesNull(q) ==
  \/ req[q].op = "put" /\ WritesNull(q)
  \/ /\ req[q].op = "delete"
     /\ \/ req[q].vid = "null"
        \/ req[q].vid = "latest" /\ WritesNull(q)
        \/ req[q].vid \in Requests /\ WritesNull(req[q].vid)

(* An acknowledged null version gives way only to a request on null        *)
(* versions that was still running, or not yet made, when its PUT began:   *)
(* a request that was over cannot undo a later PUT.  (A running DELETE can *)
(* even if it names the OID of the version before: addVersion moves the    *)
(* node, tree.go:1069, and RemoveVersion takes it by node id.)             *)
NullVersionSurvives ==
  \A r \in Requests :
    AckedPut(r) /\ WritesNull(r) =>
      \/ Stored(r)
      \/ \E q \in Requests \ (req[r].prior \cup {r}) : TakesNull(q)

(* A version whose DELETE was acknowledged has neither node nor object,    *)
(* whatever requests on other versions do, then or later.                  *)
DeletedStaysDeleted ==
  \A d \in Requests :
    req[d].op = "delete" /\ req[d].res = "ok" =>
      /\ req[d].vid \notin StoredOids
      /\ req[d].oid \notin objects /\ req[d].oid \notin StoredOids

(* A version node whose object is gone is the trace of a DELETE that       *)
(* deleted the object and is still running, failed or was interrupted:     *)
(* never of one that succeeded (removeOldVersion before RemoveVersion).    *)
DanglingOnlyByUnfinishedDelete ==
  \A n \in Nodes :
    ~tree[n].marker /\ tree[n].oid \notin objects =>
      \E d \in Requests : /\ req[d].op = "delete" /\ req[d].res # "ok"
                         /\ req[d].oid = tree[n].oid

(* A DELETE gives up the object before the node, so an interrupted DELETE  *)
(* of a version never leaves an object that nothing refers to.             *)
NoOrphanOfVersion ==
  \A r \in Requests :
    AckedPut(r) /\ ~WritesNull(r) /\ r \in objects => r \in StoredOids

(* Nodes and objects contradict each other only while a DELETE is not      *)
(* done with, or after one that was given up, and then by a dangling node. *)
NodesAndObjectsAgree == DanglingOnlyByUnfinishedDelete /\ NoOrphanOfVersion

(* Two requests were running at the same time.                             *)
Overlap(q, r) == q \notin req[r].prior /\ r \notin req[q].prior

(* Request f may have put object o into the object cache.                  *)
Fills(f, o) == /\ req[f].op \in {"put", "head"}
               /\ f = o \/ req[f].oid = o

Deletes(d, o) == req[d].op = "delete" /\ req[d].oid = o

(* The object cache still describes a deleted object only if the PUT or a  *)
(* HEAD that filled it ran at the same time as a DELETE of the object:     *)
(* objectDelete evicts before it deletes, so nobody else refills it.       *)
GhostOnlyByOverlap ==
  \A o \in objCache \ objects :
    \E f, d \in Requests :
      /\ req[f].op \in {"put", "head"} /\ (f = o \/ req[f].oid = o)
      /\ req[d].op = "delete" /\ req[d].oid = o
      /\ Overlap(f, d)

(* A cached listing misses a version, or a delete marker, only if some     *)
(* listing ran at the same time as the request that wrote it: everyone     *)
(* drops the cached lists after writing, nobody before                     *)
(* (CleanCacheEntriesContainingObject).                                    *)
StaleListOnlyByOverlap ==
  \A r \in Requests :
    req[r].res = "ok" /\ r \in StoredOids /\ lists # {} /\ r \notin lists =>
      \E f \in Requests : req[f].op = "list" /\ Overlap(f, r)


(* No cache contradicts the stores but after an overlap.                   *)
CachesStaleOnlyByOverlap == GhostOnlyByOverlap /\ StaleListOnlyByOverlap

(* There is at most one null version: tree.go:811 refuses to work with     *)
(* more.                                                                   *)
NullVersionUnique == Cardinality(NullNodes) <= 1

(* Two null versions come only from two requests at the same time that     *)
(* wrote them (addVersion), whatever fails or is interrupted.  The writers *)
(* count, not those the nodes are named after: a move that puts a removed  *)
(* node back makes it the twin of a node added long after.                 *)
NullTwinsOnlyByOverlap ==
  \A m, n \in NullNodes : m # n => Overlap(tree[m].oid, tree[n].oid)

---------------------------------------------------------------------------
(* The inductive invariant behind EnabledVersionSurvives                   *)

(* What the step a handler is at says of its request.                      *)
AtStep(x) ==
  /\ x.pc = "idle" => x = Idle
  /\ x.pc \in {"create", "lock"} => x.op = "put"
  /\ x.pc \in {"evict", "delete", "remove", "clean"} => x.op = "delete"
  /\ x.pc \in {"getnull", "move", "clear"} => x.mode # "Enabled"
  /\ x.pc = "move" => x.node \in Requests
  /\ x.pc \in {"head", "fill"} /\ x.op = "head" => x.oid \in Requests
  /\ x.pc = "head" => x.op = "head"
  /\ x.pc = "nodes" => x.op = "list"
  /\ x.pc = "find" /\ x.op = "delete" => x.vid # "latest" \/ x.mode # "Enabled"
  /\ x.pc # "done" => x.res \in {"none", "error"}

(* A node is named and written by requests of the same kind, and the node  *)
(* of a version written with versioning enabled never changes.             *)
NodesMatchWriters ==
  \A n \in Nodes :
    LET o == tree[n].oid IN
    /\ req[n].pc # "idle" /\ req[o].pc # "idle"
    /\ tree[n].null <=> WritesNull(n)
    /\ tree[n].null <=> WritesNull(o)
    /\ ~tree[n].null => o = n

(* The null node a request is about to move is one.                        *)
MovesNull(r) ==
  At(r, "move") => req[req[r].node].pc # "idle" /\ WritesNull(req[r].node)

(* A DELETE about to drop an object or a node of a version written with    *)
(* versioning enabled was asked to.                                        *)
DeletesNamed(d) ==
  req[d].pc \in {"evict", "delete", "remove"} =>
    LET n == req[d].node
        o == req[d].oid
    IN /\ n \in Requests /\ o \in Requests
       /\ req[n].pc # "idle" /\ req[o].pc # "idle"
       /\ ~WritesNull(n) => n = o
       /\ ~WritesNull(o) => \/ req[d].vid = o
                            \/ /\ req[d].vid = "latest"
                               /\ req[d].mode = "Unversioned"

(* From the moment it is written, version r is kept or was asked away.     *)
Kept(r) ==
  /\ req[r].op = "put" /\ ~WritesNull(r)
  /\ req[r].pc \in {"add", "lock", "cache"} \/ req[r].res = "ok"
  => \/ r \in objects /\ (~At(r, "add") => r \in Nodes)
     \/ \E d \in Requests : MayDeleteVersion(d, r)

PriorFinished(r) == \A q \in req[r].prior : At(q, "done")

(* All of them in every reachable state, whatever overlaps, fails or       *)
(* crashes; what makes EnabledVersionSurvives inductive: the tree tells    *)
(* null from versioned nodes as their writers do, and each handler carries *)
(* between its calls only nodes and objects it may touch.                  *)
IInv ==
  /\ TypeOK
  /\ NodesMatchWriters
  /\ \A r \in Requests :
       /\ AtStep(req[r])
       /\ MovesNull(r)
       /\ DeletesNamed(r)
       /\ Kept(r)
       /\ PriorFinished(r)

---------------------------------------------------------------------------
(* The invariants behind the other properties, inductive with IInv         *)

(* Request q has written its version node.                                 *)
Wrote(q) == /\ req[q].op \in {"put", "delete"}
            /\ req[q].pc \in {"clear", "lock", "cache", "done"}

(* A request writes its OID into the tree once, to one node.               *)
WrittenOnce ==
  /\ IsFiniteSet(Nodes)
  /\ \A n \in Nodes : LET o == tree[n].oid IN
       Wrote(o) /\ (tree[n].marker <=> req[o].op = "delete")
  /\ \A m, n \in Nodes : tree[m].oid = tree[n].oid => m = n
  /\ \A o \in objects : req[o].op = "put"

Replacing == {"getnull", "add", "move", "clear", "cache"}

(* DELETE x puts a null delete marker in the place of a null version.      *)
Replaces(x) == x.vid = "latest" /\ x.mode = "Suspended"

(* What a DELETE x carries from its look-up to its end.                    *)
Carries(x) ==
  /\ x.pc \in Replacing => x.op \in {"put", "delete"}
  /\ x.op = "delete" =>
       /\ x.vid \in Requests => Wrote(x.vid)
       /\ x.oid # None => Wrote(x.oid)
       /\ x.pc = "find" => x.oid = None
       /\ x.pc \in Replacing => x.vid = "latest"
       /\ x.pc \in Replacing /\ x.oid # None => Replaces(x) /\ WritesNull(x.oid)
       /\ x.pc \in {"evict", "delete", "remove", "clean"} /\ x.vid \in Requests =>
            x.oid = x.vid
       /\ x.pc \in {"evict", "delete", "remove"} =>
            /\ WritesNull(x.node) <=> WritesNull(x.oid)
            /\ x.vid = "latest" => x.mode # "Enabled"
            /\ Replaces(x) => WritesNull(x.oid)
       /\ x.pc = "remove" => ~Replaces(x)

(* It looks at the only node of its version, and leaves none.              *)
TakesTheNode(x) ==
  x.op = "delete" =>
    /\ x.pc \in {"evict", "delete", "remove", "move"} =>
         \A n \in Nodes : tree[n].oid = x.oid => n = x.node
    /\ \/ x.pc \in {"add", "clear", "cache"}
       \/ x.pc = "clean" /\ x.res # "error"
       \/ x.res = "ok"
       => x.oid \notin StoredOids
    /\ x.res = "ok" => x.vid \notin StoredOids

(* Nor does it leave the object, once it turns to the tree.                *)
TakesTheObject(x) ==
  x.op = "delete" /\ (x.pc \in Replacing \cup {"remove", "clean"} \/ x.res = "ok")
    => x.oid \notin objects

(* A PUT has stored its object before its node, and nobody takes them but  *)
(* as its kind of version allows.                                          *)
PutLasts(r) ==
  LET x == req[r] IN
  x.op = "put" =>
    /\ x.pc \in {"getnull", "add", "move"} => r \in objects
    /\ WritesNull(r) /\ (x.pc \in {"clear", "lock", "cache"} \/ x.res = "ok") =>
         Stored(r) \/ \E q \in Requests \ (x.prior \cup {r}) : TakesNull(q)
    /\ ~WritesNull(r) /\ (x.pc \in {"lock", "cache"} \/ x.res = "ok") =>
         (r \in objects => r \in StoredOids)

(* A request that is to add or move a null node has seen the null nodes    *)
(* there are, but those of requests that run with it.                      *)
NullsSeen(r) ==
  WritesNull(r) =>
    /\ At(r, "add") => \A n \in NullNodes : Overlap(tree[n].oid, r)
    /\ At(r, "move") =>
         \A n \in NullNodes : n # req[r].node => Overlap(tree[n].oid, r)

StoreInv ==
  /\ WrittenOnce
  /\ \A r \in Requests : /\ Carries(req[r]) /\ TakesTheNode(req[r])
                         /\ TakesTheObject(req[r])
                         /\ PutLasts(r) /\ NullsSeen(r)
  /\ DanglingOnlyByUnfinishedDelete
  /\ NullTwinsOnlyByOverlap

(* What a request is about to cache is there, or is being deleted; what a  *)
(* DELETE is about to drop is not cached, or is being read.                *)
CachedIsThere(r) ==
  LET x == req[r] IN
  /\ x.op = "head" /\ x.pc = "find" => x.oid = None
  /\ x.op = "put" /\ x.pc \in {"clear", "lock", "cache"} /\ r \notin objects =>
       \E d \in Requests : Deletes(d, r) /\ Overlap(r, d)
  /\ x.op = "head" /\ x.pc = "fill" /\ x.oid \notin objects =>
       \E d \in Requests : Deletes(d, x.oid) /\ Overlap(r, d)
  /\ x.pc = "delete" /\ x.oid \in objCache =>
       \E f \in Requests : Fills(f, x.oid) /\ Overlap(f, r)

(* A listing has, or is still to read, the version of every request that   *)
(* was over when it began.                                                 *)
ListsPrior(f) ==
  LET x == req[f] IN
  x.op = "list" =>
    /\ x.pc = "fill" => x.todo = {}
    /\ x.pc \in {"nodes", "fill"} =>
         \A n \in Nodes : tree[n].oid \in x.prior =>
           n \in x.todo \/ tree[n].oid \in x.ans

CacheInv ==
  /\ \A r \in Requests : CachedIsThere(r) /\ ListsPrior(r)
  /\ GhostOnlyByOverlap
  /\ StaleListOnlyByOverlap
=============================================================================
