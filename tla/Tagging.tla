------------------------------ MODULE Tagging ------------------------------
(***************************************************************************)
(* The tags of the versions of one object: PutObjectTagging,               *)
(* GetObjectTagging and DeleteObjectTagging of api/layer/tagging.go, the   *)
(* tags that come with a PUT, and the HEADs that ask for them, each as the *)
(* calls it makes.  Tags are a node below the version's node in the tree;  *)
(* they are cached by the object id of the version, as is, in the objects  *)
(* cache, the node of a version.  Without versioning a PUT moves the one   *)
(* node to the new object and then removes the tags below it.              *)
(*                                                                         *)
(* A request r makes at most one object, one version node and one tag      *)
(* node, with fresh ids: they are called r.  Versions are not deleted here *)
(* (see ObjectVersions).                                                   *)
(***************************************************************************)
EXTENDS Naturals, Sequences, FiniteSets, SequencesExt

CONSTANTS
  Requests,    \* the requests of a behaviour, each made once
  None,        \* no node, no tags, nothing cached
  First,       \* the version that is there at first, without tags
  TagSets,     \* the sets of tags that are put
  Parallel,    \* bound: requests in flight at the same time
  MaxFaults    \* bound: failed calls, lost replies and gateway crashes

VARIABLES
  versioned,   \* whether the bucket has versioning enabled
  nodes,       \* the version nodes, oldest first: [id, oid]
  tagNodes,    \* the tag nodes: [id, node, tags], of: the version meant, by:
               \* the request that put them (history)
  tagCache,    \* object id -> tags
  nodeCache,   \* object id -> the id of its version node
  req,         \* req[r]: progress of request r
  faults       \* faults so far

stores == <<versioned, nodes, tagNodes>>
caches == <<tagCache, nodeCache>>
vars   == <<stores, caches, req, faults>>

---------------------------------------------------------------------------
(* op, vid, tags: what is asked for, of which version; pc: what it does    *)
(* next; node, oid: the version; below: its tag node; got: its tags; res:  *)
(* outcome; alias: the node it goes by belongs to another version, prior:  *)
(* requests finished when it began (history).                              *)
Idle == [op |-> "none", vid |-> "latest", tags |-> None, pc |-> "idle", node |-> None,
         oid |-> None, below |-> None, got |-> None, res |-> "none",
         alias |-> FALSE, prior |-> {}]

At(r, p)  == req[r].pc = p
Active(r) == req[r].pc \notin {"idle", "done"}
Finished  == {r \in Requests : req[r].pc = "done"}
Objects   == Requests \cup {First}

Done(x, res)  == [x EXCEPT !.pc = "done", !.res = res]
Step(r, next) == req' = [req EXCEPT ![r] = next] /\ UNCHANGED faults

Fault(r, next) == /\ faults < MaxFaults
                  /\ faults' = faults + 1
                  /\ req' = [req EXCEPT ![r] = next]

(* A call that changed the tree: the reply arrives, or is lost.            *)
Replied(r, next) == Step(r, next) \/ Fault(r, Done(next, "error"))

---------------------------------------------------------------------------
Init ==
  /\ versioned \in BOOLEAN
  /\ nodes = <<[id |-> First, oid |-> First]>> /\ tagNodes = {}
  /\ tagCache = [o \in Objects |-> None]
  /\ nodeCache = [o \in Objects |-> None]
  /\ req = [r \in Requests |-> Idle]
  /\ faults = 0

Ids          == {n.id : n \in ToSet(nodes)}
OidOf(id)    == (CHOOSE n \in ToSet(nodes) : n.id = id).oid
NodeOf(vid)  == IF vid = "latest" THEN {Last(nodes)} ELSE {n \in ToSet(nodes) : n.oid = vid}
TagsBelow(n) == {t \in tagNodes : t.node = n}

(* Ids of versions that a client has seen, replaced ones among them.       *)
Known == {First} \cup {r \in Requests : req[r].op = "put" /\ req[r].node # None}

Begin(r, op, vid, tags, p) ==
  /\ At(r, "idle")
  /\ Cardinality({q \in Requests : Active(q)}) < Parallel
  /\ Step(r, [Idle EXCEPT !.op = op, !.vid = vid, !.tags = tags, !.pc = p, !.prior = Finished])
  /\ UNCHANGED <<stores, caches>>

BeginPut(r) == \E tags \in TagSets \cup {None} : Begin(r, "put", "latest", tags, "add")
BeginTag(r) == \E v \in Known \cup {"latest"}, tags \in TagSets : Begin(r, "tag", v, tags, "find")
BeginGet(r) == \E v \in Known \cup {"latest"} : Begin(r, "get", v, None, "find")
BeginUntag(r) == \E v \in Known \cup {"latest"} : Begin(r, "untag", v, None, "find")

---------------------------------------------------------------------------
(* Mutant: the tags of the version replaced are left where they are.       *)
AfterAddKept(x) == [x EXCEPT !.pc = "cacheobj"]

(* addVersion clears what lies below a node it moved.                      *)
AfterAdd(x) == [x EXCEPT !.pc = IF versioned THEN "cacheobj" ELSE "findold"]

(* AddVersion: a node of its own, or that of the version before.           *)
AddVersion(r) ==
  /\ At(r, "add")
  /\ nodes' = IF versioned THEN Append(nodes, [id |-> r, oid |-> r])
              ELSE [nodes EXCEPT ![1].oid = r]
  /\ Replied(r, AfterAdd([req[r] EXCEPT !.oid = r, !.node = IF versioned THEN r ELSE First]))
  /\ UNCHANGED <<versioned, tagNodes, caches>>

(* clearOutdatedVersionInfo.                                               *)
FindOutdated(r) ==
  /\ At(r, "findold")
  /\ \/ TagsBelow(req[r].node) = {} /\ Step(r, [req[r] EXCEPT !.pc = "cacheobj"])
     \/ \E t \in TagsBelow(req[r].node) :
          Step(r, [req[r] EXCEPT !.pc = "clear", !.below = t.id])
  /\ UNCHANGED <<stores, caches>>

ClearOutdated(r) ==
  /\ At(r, "clear")
  /\ tagNodes' = {t \in tagNodes : t.id # req[r].below}
  /\ Replied(r, [req[r] EXCEPT !.pc = "cacheobj", !.below = None])
  /\ UNCHANGED <<versioned, nodes, caches>>

(* The end of PutObject; PutObjectHandler then puts the tags.              *)
CacheObject(r) ==
  /\ At(r, "cacheobj")
  /\ nodeCache' = [nodeCache EXCEPT ![r] = req[r].node]
  /\ Step(r, IF req[r].tags = None THEN Done(req[r], "ok") ELSE [req[r] EXCEPT !.pc = "read"])
  /\ UNCHANGED <<stores, tagCache>>

---------------------------------------------------------------------------
(* GetObjectTagging by an id that is cached.                               *)
Cached(r) ==
  /\ At(r, "find") /\ req[r].op = "get" /\ req[r].vid # "latest"
  /\ tagCache[req[r].vid] # None
  /\ Step(r, [Done(req[r], "ok") EXCEPT !.got = tagCache[req[r].vid]])
  /\ UNCHANGED <<stores, caches>>

(* getNodeVersionFromCacheOrFrostfs; DeleteObjectTagging asks the tree     *)
(* only.  What is found may have its tags cached; a HEAD does without the  *)
(* cache when the locks aren't in it.                                      *)
FindVersion(r) ==
  LET x == req[r]
      hit == x.vid # "latest" /\ x.op # "untag" /\ nodeCache[x.vid] # None
      found == IF hit THEN {[id |-> nodeCache[x.vid], oid |-> x.vid]} ELSE NodeOf(x.vid)
  IN /\ At(r, "find")
     /\ \/ found = {} /\ Step(r, Done(x, "missing"))
        \/ \E n \in found :
             LET y == [x EXCEPT !.node = n.id, !.oid = n.oid, !.alias = OidOf(n.id) # n.oid]
             IN \/ Step(r, [y EXCEPT !.pc = "read"])
                \/ /\ x.op = "get" /\ tagCache[n.oid] # None
                   /\ Step(r, [Done(y, "ok") EXCEPT !.got = tagCache[n.oid]])
     /\ UNCHANGED <<stores, caches>>

AfterRead(x) ==
  [x EXCEPT !.pc = CASE x.op = "get" -> "cache"
                     [] x.op = "untag" -> IF x.below = None THEN "drop" ELSE "remove"
                     [] OTHER -> "write"]

(* getTreeNode: of several tag nodes, the tree service's first.            *)
ReadTags(r) ==
  /\ At(r, "read")
  /\ \/ TagsBelow(req[r].node) = {} /\ Step(r, AfterRead(req[r]))
     \/ \E t \in TagsBelow(req[r].node) :
          Step(r, AfterRead([req[r] EXCEPT !.below = t.id, !.got = t.tags]))
  /\ UNCHANGED <<stores, caches>>

(* The node that TreeClient.PutObjectTagging writes: a new one, or the one *)
(* it read.                                                                *)
Written(r) == IF req[r].below = None THEN r ELSE req[r].below

WriteTags(r) ==
  /\ At(r, "write")
  /\ tagNodes' = {t \in tagNodes : t.id # Written(r)} \cup
       {[id |-> Written(r), node |-> req[r].node, tags |-> req[r].tags,
         of |-> req[r].oid, by |-> r]}
  /\ Replied(r, [req[r] EXCEPT !.pc = "cache", !.got = req[r].tags])
  /\ UNCHANGED <<versioned, nodes, caches>>

(* What was written, or read; no tags are not cached.                      *)
CacheTags(r) ==
  /\ At(r, "cache")
  /\ tagCache' = [tagCache EXCEPT ![req[r].oid] = req[r].got]
  /\ Step(r, Done(req[r], "ok"))
  /\ UNCHANGED <<stores, nodeCache>>

RemoveTags(r) ==
  /\ At(r, "remove")
  /\ tagNodes' = {t \in tagNodes : t.id # req[r].below}
  /\ Replied(r, [req[r] EXCEPT !.pc = "drop"])
  /\ UNCHANGED <<versioned, nodes, caches>>

DropTags(r) ==
  /\ At(r, "drop")
  /\ tagCache' = [tagCache EXCEPT ![req[r].oid] = None]
  /\ Step(r, Done(req[r], "ok"))
  /\ UNCHANGED <<stores, nodeCache>>

---------------------------------------------------------------------------
(* A call that fails without effect.                                       *)
CallFails(r) ==
  /\ req[r].pc \in {"add", "findold", "clear", "find", "read", "write", "remove"}
  /\ Fault(r, Done(req[r], "error"))
  /\ UNCHANGED <<stores, caches>>

Expire ==
  /\ \E o \in Objects :
       \/ tagCache[o] # None /\ tagCache' = [tagCache EXCEPT ![o] = None]
                             /\ UNCHANGED nodeCache
       \/ nodeCache[o] # None /\ nodeCache' = [nodeCache EXCEPT ![o] = None]
                              /\ UNCHANGED tagCache
  /\ UNCHANGED <<stores, req, faults>>

(* The gateway restarts: its requests and its caches are gone.             *)
Crash ==
  /\ faults < MaxFaults
  /\ faults' = faults + 1
  /\ \E r \in Requests : Active(r)
  /\ req' = [r \in Requests |-> IF Active(r) THEN Done(req[r], "crashed") ELSE req[r]]
  /\ tagCache' = [o \in Objects |-> None]
  /\ nodeCache' = [o \in Objects |-> None]
  /\ UNCHANGED stores

---------------------------------------------------------------------------
RequestStep(r) ==
  \/ BeginPut(r) \/ BeginTag(r) \/ BeginGet(r) \/ BeginUntag(r)
  \/ AddVersion(r) \/ FindOutdated(r) \/ ClearOutdated(r) \/ CacheObject(r)
  \/ Cached(r) \/ FindVersion(r) \/ ReadTags(r) \/ WriteTags(r) \/ CacheTags(r)
  \/ RemoveTags(r) \/ DropTags(r) \/ CallFails(r)

Next == (\E r \in Requests : RequestStep(r)) \/ Expire \/ Crash

Spec == Init /\ [][Next]_vars

---------------------------------------------------------------------------
(* Properties *)

Request ==
  [op : {"none", "put", "tag", "get", "untag"}, vid : Objects \cup {"latest"},
   tags : TagSets \cup {None},
   pc : {"idle", "add", "findold", "clear", "cacheobj", "find", "read", "write",
         "cache", "remove", "drop", "done"},
   node : Objects \cup {None}, oid : Objects \cup {None}, below : Requests \cup {None},
   got : TagSets \cup {None}, res : {"none", "ok", "error", "missing", "crashed"},
   alias : BOOLEAN, prior : SUBSET Requests]

Node    == [id : Objects, oid : Objects]
TagNode == [id : Requests, node : Objects, tags : TagSets, of : Objects, by : Requests]

(* Tag nodes lie below version nodes; without versioning there is one.     *)
TypeOK ==
  /\ versioned \in BOOLEAN
  /\ nodes \in Seq(Node) /\ nodes # <<>> /\ (~versioned => Len(nodes) = 1)
  /\ tagNodes \subseteq TagNode
  /\ \A t \in tagNodes : \E n \in ToSet(nodes) : n.id = t.node
  /\ \A s, t \in tagNodes : s.id = t.id => s = t
  /\ tagCache \in [Objects -> TagSets \cup {None}]
  /\ nodeCache \in [Objects -> Objects \cup {None}]
  /\ req \in [Requests -> Request]
  /\ faults \in Nat

Acked(r)      == req[r].res = "ok"
Overlap(q, r) == q \notin req[r].prior /\ r \notin req[q].prior
Writes(r)     == req[r].op \in {"put", "tag", "untag"}
Writers(n)    == {r \in Requests : Writes(r) /\ req[r].node = n}

(* The tags below a node were changed one at a time.                       *)
Calm(n) == \A q, r \in Writers(n) : q = r \/ ~Overlap(q, r)

(* Changes one at a time: a version has no tags but those that were put on *)
(* it.  A version that replaced another inherits them only if a PUT failed *)
(* before they were cleared, or is about to clear them, or if they are put *)
(* later by a request that found the node of the replaced version in the   *)
(* cache.                                                                  *)
NoInheritedTags ==
  \A t \in tagNodes :
    Calm(t.node) /\ t.of # OidOf(t.node) =>
      \/ req[t.by].alias
      \/ \E q \in Writers(t.node) \ {t.by} : req[q].op = "put" /\ ~Acked(q)

(* Changes one at a time: when the last one is acknowledged, whatever      *)
(* became of those before it, the tags are the ones it put, or none if     *)
(* they were deleted or the version replaced.                              *)
LastTagsStand ==
  \A n \in Ids :
    Calm(n) =>
      \A r \in Writers(n) :
        Acked(r) /\ Writers(n) \ {r} \subseteq req[r].prior =>
          {t.tags : t \in TagsBelow(n)} = {req[r].tags} \ {None}

(* Requests one at a time, none of which failed: what is cached for a      *)
(* version that is there are its tags, unless they were put under the id   *)
(* of a version it replaced.                                               *)
StaleTagsOnlyByOverlapOrFailure ==
  /\ \A r \in Requests : ~Active(r) /\ req[r].res \notin {"error", "crashed"}
  /\ \A q, r \in Finished : q = r \/ ~Overlap(q, r)
  =>
    \A n \in ToSet(nodes) :
      \/ tagCache[n.oid] \in {t.tags : t \in TagsBelow(n.id)} \cup {None}
      \/ \E r \in Writers(n.id) : req[r].alias

TagsAreOfTheirVersion ==
  NoInheritedTags /\ LastTagsStand /\ StaleTagsOnlyByOverlapOrFailure

---------------------------------------------------------------------------
(* The inductive invariant behind the first two of these.                  *)

(* The words that stand for no version, and for the latest, are no ids.    *)
ConstantsDiffer ==
  /\ None \notin Objects \cup TagSets /\ First \notin Requests
  /\ "latest" \notin Objects
  /\ MaxFaults \in Nat /\ Parallel \in Nat

(* What a request r whose record is x knows at each of its calls.          *)
AtStep(r, x) ==
  /\ x.pc = "idle" <=> x.op = "none"
  /\ x.pc \in {"add", "findold", "clear", "cacheobj"} => x.op = "put"
  /\ x.pc = "find" => x.op \in {"tag", "get", "untag"}
  /\ x.pc \in {"remove", "drop"} => x.op = "untag"
  /\ x.pc = "write" => x.op \in {"put", "tag"}
  /\ x.pc = "cache" => x.op # "untag" /\ (x.op # "get" => x.got = x.tags)
  /\ x.op \in {"get", "untag"} => x.tags = None
  /\ x.op = "tag" \/ x.pc = "write" => x.tags # None
  /\ x.op = "put" /\ x.pc \in {"read", "cache"} => x.tags # None
  /\ x.node = None <=> x.oid = None
  /\ x.pc \in {"idle", "add", "find"} => x.node = None
  /\ x.pc \notin {"idle", "add", "find", "done"} => x.node # None
  /\ x.pc \in {"findold", "clear"} => ~versioned
  /\ x.pc \in {"clear", "remove"} => x.below # None
  /\ x.node = None \/ x.pc \in {"findold", "cacheobj", "read"} => x.below = None
  /\ x.op = "put" /\ x.node # None => x.oid = r
  /\ x.alias => x.op \in {"tag", "get"} /\ x.node # None
  /\ x.pc # "done" => x.res = "none"

(* A version and its id, wherever they are kept: ids are of versions that  *)
(* were made; without versioning all versions have the first one's node.   *)
Pair(id, oid) == oid \in Known /\ id = IF versioned THEN oid ELSE First

Placed(x) ==
  /\ x.node # None => Pair(x.node, x.oid)
  /\ x.vid \in Known \cup {"latest"}
  /\ x.below # None => req[x.below].node = x.node

(* A tag node stays below the node of the request that made it.            *)
TagPlaced(t) ==
  /\ req[t.id].node = t.node
  /\ req[t.by].op \in {"put", "tag"} /\ req[t.by].tags = t.tags
  /\ req[t.by].node = t.node /\ req[t.by].oid = t.of

(* The tags below n are those that r, as its record x says, put; none if   *)
(* it put none.                                                            *)
Stands(r, x, n) ==
  /\ x.tags = None <=> TagsBelow(n) = {}
  /\ \A t \in TagsBelow(n) : t.by = r

(* Without an overlap what a writer found is still there when it goes on.  *)
Sees(r, x, n) ==
  /\ x.alias \/ x.oid = OidOf(n)
  /\ x.pc \in {"clear", "write", "remove"} => \A t \in TagsBelow(n) : t.id = x.below
  /\ x.pc \in {"cacheobj"} \cup {p \in {"read", "write"} : x.op = "put"} => TagsBelow(n) = {}
  /\ x.pc \in {"cache", "drop"} => Stands(r, x, n)

Fits(t) ==
  \/ t.of = OidOf(t.node)
  \/ req[t.by].alias
  \/ \E q \in Writers(t.node) \ {t.by} : req[q].op = "put" /\ ~Acked(q)

Kept(n) ==
  Calm(n) =>
    /\ \A s, t \in TagsBelow(n) : s = t
    /\ \A t \in TagsBelow(n) : Fits(t)
    /\ \A r \in Writers(n) :
         /\ Active(r) => Sees(r, req[r], n)
         /\ Acked(r) /\ Writers(n) \ {r} \subseteq req[r].prior => Stands(r, req[r], n)

IInv ==
  /\ ConstantsDiffer /\ TypeOK
  /\ \A n \in ToSet(nodes) : Pair(n.id, n.oid)
  /\ \A o \in Known : \E n \in ToSet(nodes) : Pair(n.id, o)
  /\ \A r \in Requests :
       AtStep(r, req[r]) /\ Placed(req[r]) /\ req[r].prior \subseteq Finished
  /\ \A t \in tagNodes : TagPlaced(t)
  /\ \A o \in Objects : /\ tagCache[o] # None => o \in Known
                        /\ nodeCache[o] # None => Pair(nodeCache[o], o)
  /\ \A n \in Ids : Kept(n)

---------------------------------------------------------------------------
(* The invariant behind the last one, inductive with IInv.                 *)

(* Requests one at a time, none of which failed.                           *)
Smooth ==
  /\ \A q, r \in Requests :
       ~At(q, "idle") /\ ~At(r, "idle") => q = r \/ ~Overlap(q, r)
  /\ \A r \in Requests : req[r].res \notin {"error", "crashed"}

TagsOf(n) == {t.tags : t \in TagsBelow(n)}

(* What r, as its record x says, is to cache is right; its own version has *)
(* nothing cached before.                                                  *)
Works(r, x) ==
  /\ x.op = "put" => tagCache[r] = None
  /\ x.node # None => (x.alias <=> x.oid # OidOf(x.node))
  /\ x.op = "get" => x.got = None \/ (x.pc = "cache" /\ x.got \in TagsOf(x.node))

CachedRight(n) ==
  \/ tagCache[n.oid] \in TagsOf(n.id) \cup {None}
  \/ \E r \in Writers(n.id) :
       req[r].alias \/ (req[r].oid = n.oid /\ req[r].pc \in {"cache", "drop"})

FreshInv ==
  Smooth => /\ \A r \in Requests : Active(r) => Works(r, req[r])
            /\ \A n \in ToSet(nodes) : CachedRight(n)
=============================================================================
