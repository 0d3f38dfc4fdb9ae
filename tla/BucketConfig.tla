--------------------------- MODULE BucketConfig ---------------------------
(***************************************************************************)
(* What a bucket keeps in the system tree: its settings (versioning and    *)
(* lock configuration in one node), its CORS and its notification          *)
(* configuration (a node that names an object in FrostFS), and its tags (a *)
(* node).  A request finds the node by name, then adds it, or moves or     *)
(* removes the one it found (internal/frostfs/tree.go:273-495); the layer  *)
(* caches what it read or wrote (api/layer/system_object.go, cors.go,      *)
(* notifications.go, tagging.go).  Settings are changed by writing back    *)
(* all of what was read, from the cache as a rule.                         *)
(*                                                                         *)
(* The four kinds do not interact: a behaviour is about one of them.  A    *)
(* request r makes at most one node and one object, with fresh ids; they   *)
(* are called r, and r is also what the request wrote.                     *)
(***************************************************************************)
EXTENDS Naturals, FiniteSets

CONSTANTS
  Requests,    \* the requests of a behaviour, each made once
  None,        \* no node; nothing cached; a part that is not set
  Kinds,       \* some of "settings", "cors", "notifications", "tags"
  Parallel,    \* bound: requests in flight at the same time
  MaxFaults    \* bound: failed calls, lost replies and gateway crashes

ASSUME NoneIsNoRequest == None \notin Requests
ASSUME NoneIsNoConfiguration ==
  /\ None \notin [{"conf"} -> Requests \cup {None}]
  /\ None \notin [{"versioning", "lock"} -> Requests \cup {None}]
ASSUME KnownKinds == Kinds \subseteq {"settings", "cors", "notifications", "tags"}
ASSUME BoundsAreNaturals == Parallel \in Nat /\ MaxFaults \in Nat

VARIABLES
  kind,        \* what the behaviour is about
  nodes,       \* the tree service: node id -> what it says, None if no node
  objects,     \* configuration objects stored in FrostFS
  cache,       \* what the system cache says, None if nothing
  req,         \* req[r]: progress of request r
  faults       \* faults so far

stores == <<nodes, objects>>
vars   == <<kind, stores, cache, req, faults>>

---------------------------------------------------------------------------
(* What a node says: for each part who set it, None if it is not set.  The *)
(* part "conf" of CORS and notifications is the id of the object.          *)
Parts    == IF kind = "settings" THEN {"versioning", "lock"} ELSE {"conf"}
Contents == [Parts -> Requests \cup {None}]
Nothing  == [p \in Parts |-> None]

InObject == kind \in {"cors", "notifications"}

(* The requests of each kind; "create" is CreateBucket with object lock,   *)
(* which puts the first settings.                                          *)
Ops == IF kind = "settings" THEN {"create", "versioning", "lock", "get"}
       ELSE {"put", "get"} \cup {d \in {"delete"} : kind # "notifications"}

(* op: what is asked for; pc: what it does next; node: the node it found;  *)
(* was: what that said; val: what it read or writes; res: outcome; prior:  *)
(* requests finished when it began (history only).                         *)
Idle == [op |-> "none", pc |-> "idle", node |-> None, was |-> None,
         val |-> None, res |-> "none", prior |-> {}]

At(r, p)  == req[r].pc = p
Active(r) == req[r].pc \notin {"idle", "done"}
Finished  == {r \in Requests : req[r].pc = "done"}
Nodes     == {n \in Requests : nodes[n] # None}

To(r, p)      == [req[r] EXCEPT !.pc = p]
Done(r, x)    == [req[r] EXCEPT !.pc = "done", !.res = x]
Step(r, next) == req' = [req EXCEPT ![r] = next] /\ UNCHANGED <<kind, faults>>

Fault(r, next) == /\ faults < MaxFaults
                  /\ faults' = faults + 1
                  /\ req' = [req EXCEPT ![r] = next]
                  /\ UNCHANGED kind

(* A call that changed its store: the reply arrives, or is lost.           *)
Replied(r, next) == Step(r, next) \/ Fault(r, Done(r, "error"))

---------------------------------------------------------------------------
Init ==
  /\ kind \in Kinds
  /\ nodes = [n \in Requests |-> None] /\ objects = {}
  /\ cache = None
  /\ req = [r \in Requests |-> Idle]
  /\ faults = 0

Begin(r, op, next) ==
  /\ At(r, "idle") /\ op \in Ops
  /\ Cardinality({q \in Requests : Active(q)}) < Parallel
  /\ Step(r, [next EXCEPT !.op = op, !.prior = Finished])
  /\ UNCHANGED stores

PartsSetBy(op) ==
  {p \in Parts : kind = "settings" =>
                   p = (IF op = "create" THEN "versioning" ELSE op)}

(* Mutant: the parts that were not set are reset.                          *)
ChangedReset(r, op, read) ==
  [p \in Parts |-> IF p \in PartsSetBy(op) THEN r ELSE None]

(* The parts a request sets are its own; the others stay as it read them.  *)
Changed(r, op, read) ==
  [p \in Parts |-> IF p \in PartsSetBy(op) THEN r ELSE read[p]]

(* The bucket is there for others as soon as its container is.             *)
BeginCreate(r) ==
  /\ \A q \in Requests : At(q, "idle")
  /\ Begin(r, "create", [Idle EXCEPT !.pc = "find",
                                     !.val = Changed(r, "create", Nothing)])
  /\ UNCHANGED cache

(* GetBucketSettings, and then what changes in them.                       *)
BeginChange(r) ==
  /\ \E op \in {"versioning", "lock"} :
       Begin(r, op, IF cache = None THEN [Idle EXCEPT !.pc = "read"]
                    ELSE [Idle EXCEPT !.pc = "find",
                                      !.val = Changed(r, op, cache)])
  /\ UNCHANGED cache

BeginPut(r) ==
  /\ Begin(r, "put", [Idle EXCEPT !.pc = IF InObject THEN "put" ELSE "find",
                                  !.val = [p \in Parts |-> r]])
  /\ UNCHANGED cache

(* Tags leave the cache before their node is removed, CORS after.          *)
BeginDelete(r) ==
  /\ Begin(r, "delete", [Idle EXCEPT !.pc = "find"])
  /\ cache' = IF kind = "tags" THEN None ELSE cache

BeginGet(r) ==
  /\ Begin(r, "get", IF cache = None THEN [Idle EXCEPT !.pc = "read"]
                     ELSE [Idle EXCEPT !.pc = "done", !.val = cache,
                                       !.res = "ok"])
  /\ UNCHANGED cache

---------------------------------------------------------------------------
(* getNode refuses to choose between two nodes of one name.                *)
RefusesTwins(r) == Cardinality(Nodes) > 1 /\ Step(r, Done(r, "error"))

(* Without a node there are default settings and no notifications, which   *)
(* is cached, or no CORS and no tags, which is not.                        *)
NotFound(r) ==
  IF kind \in {"cors", "tags"} THEN Done(r, "ok")
  ELSE [req[r] EXCEPT !.pc = "fill", !.val = Nothing]

ReadNode(r) ==
  /\ At(r, "read")
  /\ \/ Nodes = {} /\ Step(r, NotFound(r))
     \/ \E n \in Nodes :
          /\ Nodes = {n}
          /\ Step(r, [req[r] EXCEPT !.val = nodes[n],
                        !.pc = IF InObject THEN "get" ELSE "fill"])
     \/ RefusesTwins(r)
  /\ UNCHANGED <<stores, cache>>

(* The object may be gone by now, with the node that named it.             *)
GetObject(r) ==
  /\ At(r, "get")
  /\ Step(r, IF req[r].val["conf"] \in objects THEN To(r, "fill")
             ELSE Done(r, "error"))
  /\ UNCHANGED <<stores, cache>>

(* What was read is cached; a change of the settings goes on from it.      *)
Fill(r) ==
  /\ At(r, "fill")
  /\ cache' = req[r].val
  /\ Step(r, IF req[r].op = "get" THEN Done(r, "ok")
             ELSE [req[r] EXCEPT !.pc = "find",
                     !.val = Changed(r, req[r].op, req[r].val)])
  /\ UNCHANGED stores

---------------------------------------------------------------------------
PutObject(r) ==
  /\ At(r, "put")
  /\ objects' = objects \cup {r}
  /\ Replied(r, To(r, "find"))
  /\ UNCHANGED <<nodes, cache>>

NothingFound(r) ==
  IF req[r].op # "delete" THEN To(r, "write")
  ELSE IF kind = "cors" THEN To(r, "cache")
  ELSE Done(r, "ok")

FindNode(r) ==
  /\ At(r, "find")
  /\ \/ Nodes = {} /\ Step(r, NothingFound(r))
     \/ \E n \in Nodes :
          /\ Nodes = {n}
          /\ Step(r, [req[r] EXCEPT !.node = n, !.was = nodes[n],
                        !.pc = IF req[r].op = "delete" THEN "remove"
                               ELSE "write"])
     \/ RefusesTwins(r)
  /\ UNCHANGED <<stores, cache>>

(* Mutant: the object that was replaced is kept.                           *)
WrittenKeepOld(r) == To(r, "cache")

(* The object of what was replaced or removed goes last.                   *)
Written(r) ==
  IF InObject /\ req[r].node # None THEN To(r, "drop") ELSE To(r, "cache")

(* Mutants: what the node named goes first; the node is always added.      *)
WriteNodeDropFirst(r) ==
  /\ At(r, "write")
  /\ LET n == IF req[r].node = None THEN r ELSE req[r].node
     IN \/ /\ nodes' = [nodes EXCEPT ![n] = req[r].val]
           /\ Replied(r, Written(r))
        \/ UNCHANGED nodes /\ Fault(r, Done(r, "error"))
  /\ objects' = IF InObject /\ req[r].node # None
                THEN objects \ {req[r].was["conf"]} ELSE objects
  /\ UNCHANGED cache
WriteNodeAdding(r) ==
  /\ At(r, "write")
  /\ nodes' = [nodes EXCEPT ![r] = req[r].val]
  /\ Replied(r, Written(r))
  /\ UNCHANGED <<objects, cache>>

(* addNode, or moveNode of the node that was found.  A node that was       *)
(* removed meanwhile comes back by the move, or the move is refused.       *)
WriteNode(r) ==
  /\ At(r, "write")
  /\ LET n == IF req[r].node = None THEN r ELSE req[r].node
     IN \/ /\ nodes' = [nodes EXCEPT ![n] = req[r].val]
           /\ Replied(r, Written(r))
        \/ /\ n # r /\ nodes[n] = None
           /\ Step(r, Done(r, "error"))
           /\ UNCHANGED nodes
  /\ UNCHANGED <<objects, cache>>

Removed(r) == IF kind = "tags" THEN Done(r, "ok") ELSE To(r, "drop")

(* Mutant: the error of removeNode is overlooked.                          *)
RemoveNodeAnyway(r) ==
  /\ At(r, "remove")
  /\ \/ /\ nodes' = [nodes EXCEPT ![req[r].node] = None]
        /\ Replied(r, Removed(r))
     \/ UNCHANGED nodes /\ Fault(r, Removed(r))
  /\ UNCHANGED <<objects, cache>>

RemoveNode(r) ==
  /\ At(r, "remove")
  /\ \/ /\ nodes' = [nodes EXCEPT ![req[r].node] = None]
        /\ Replied(r, Removed(r))
     \/ /\ nodes[req[r].node] = None
        /\ Step(r, Done(r, "error"))
        /\ UNCHANGED nodes
  /\ UNCHANGED <<objects, cache>>

(* A PUT only logs that the old object could not be deleted, a DELETE      *)
(* returns the error; an object that is gone may be refused or not.        *)
DropObject(r) ==
  /\ At(r, "drop")
  /\ LET o      == req[r].was["conf"]
         failed == IF req[r].op = "put" THEN To(r, "cache")
                   ELSE Done(r, "error")
     IN \/ objects' = objects \ {o} /\ Step(r, To(r, "cache"))
        \/ objects' \in {objects, objects \ {o}} /\ Fault(r, failed)
        \/ o \notin objects /\ UNCHANGED objects /\ Step(r, failed)
  /\ UNCHANGED <<nodes, cache>>

(* Mutant: what was written is not cached, what was removed stays.         *)
KeepCached(r) ==
  /\ At(r, "cache")
  /\ Step(r, Done(r, "ok"))
  /\ UNCHANGED <<stores, cache>>

CacheWritten(r) ==
  /\ At(r, "cache")
  /\ cache' = IF req[r].op = "delete" THEN None ELSE req[r].val
  /\ Step(r, Done(r, "ok"))
  /\ UNCHANGED stores

---------------------------------------------------------------------------
(* A call that fails without effect.                                       *)
CallFails(r) ==
  /\ req[r].pc \in {"read", "get", "put", "find", "write", "remove"}
  /\ Fault(r, Done(r, "error"))
  /\ UNCHANGED <<stores, cache>>

Expire ==
  /\ cache # None /\ cache' = None
  /\ UNCHANGED <<kind, stores, req, faults>>

(* The gateway restarts: its requests and its cache are gone.              *)
Crash ==
  /\ faults < MaxFaults
  /\ faults' = faults + 1
  /\ \E r \in Requests : Active(r)
  /\ req' = [r \in Requests |-> IF Active(r) THEN Done(r, "crashed")
                                             ELSE req[r]]
  /\ cache' = None
  /\ UNCHANGED <<kind, stores>>

---------------------------------------------------------------------------
BeginStep(r) ==
  \/ BeginCreate(r) \/ BeginChange(r) \/ BeginPut(r) \/ BeginDelete(r)
  \/ BeginGet(r)

RequestStep(r) ==
  \/ ReadNode(r) \/ GetObject(r) \/ Fill(r)
  \/ PutObject(r) \/ FindNode(r) \/ WriteNode(r) \/ RemoveNode(r)
  \/ DropObject(r) \/ CacheWritten(r)

Next ==
  \/ \E r \in Requests : BeginStep(r) \/ RequestStep(r) \/ CallFails(r)
  \/ Expire
  \/ Crash

Spec == Init /\ [][Next]_vars

---------------------------------------------------------------------------
(* Properties *)

Request ==
  [op : Ops \cup {"none"},
   pc : {"idle", "read", "get", "fill", "put", "find", "write", "remove",
         "drop", "cache", "done"},
   node : Requests \cup {None}, was : Contents \cup {None},
   val : Contents \cup {None},
   res : {"none", "ok", "error", "crashed"}, prior : SUBSET Requests]

(* Nodes, the cache and what requests carry are configurations of the      *)
(* kind, and objects are those of PUTs.                                    *)
TypeOK ==
  /\ kind \in Kinds
  /\ nodes \in [Requests -> Contents \cup {None}]
  /\ objects \subseteq {r \in Requests : InObject /\ req[r].op = "put"}
  /\ cache \in Contents \cup {None}
  /\ req \in [Requests -> Request]
  /\ faults \in Nat

Acked(r)      == req[r].res = "ok"
Overlap(q, r) == q \notin req[r].prior /\ r \notin req[q].prior
Overlapped(r) == \E q \in Requests \ {r} : req[q].op # "none" /\ Overlap(q, r)
Writes(r)     == req[r].op \notin {"none", "get"}
Later(r)      == {q \in Requests : r \in req[q].prior}

WritersOf(n) ==
  {n} \cup {r \in Requests : req[r].node = n /\ req[r].op # "delete"}

(* Two nodes of one name, which make all later requests on it fail         *)
(* (tree.go:1215), come only from two requests at the same time that added *)
(* them, or put one back that a DELETE had removed.                        *)
TwinsOnlyByOverlap ==
  \A m, n \in Nodes : m # n =>
    \E q \in WritersOf(m), r \in WritersOf(n) : q # r /\ Overlap(q, r)

(* The part of the configuration that a request sets.                      *)
Sets(r, p) == Writes(r) /\ req[r].op # "delete" /\ p \in PartsSetBy(req[r].op)

(* An acknowledged change that no other request overlapped is in the tree  *)
(* until a later request sets or deletes that part: a change of the other  *)
(* part of the settings, which writes back all of what it read, often from *)
(* the cache, does not undo it.                                            *)
ChangeLostOnlyByOverlap ==
  \A r \in Requests, p \in Parts :
    Sets(r, p) /\ Acked(r) /\ ~Overlapped(r) =>
      \/ Cardinality(Nodes) = 1 /\ \A n \in Nodes : nodes[n][p] = r
      \/ \E q \in Later(r) : Sets(q, p) \/ req[q].op = "delete"

(* An acknowledged DELETE that no other request overlapped leaves nothing. *)
DeletedConfigStaysDeleted ==
  \A r \in Requests :
    req[r].op = "delete" /\ Acked(r) /\ ~Overlapped(r) =>
      Nodes = {} \/ \E q \in Later(r) : req[q].op = "put"

(* The object that a node names is in FrostFS, whatever overlaps or fails: *)
(* it is put before the node and deleted after.                            *)
NamedObjectExists ==
  InObject => \A n \in Nodes : nodes[n]["conf"] \in objects

(* Without failures, the object of an acknowledged PUT is deleted when its *)
(* node no longer names it, unless some other request overlapped the PUT.  *)
OrphanOnlyByOverlap ==
  InObject /\ faults = 0 /\ (\A r \in Requests : ~Active(r)) =>
    \A o \in objects :
      \/ \E n \in Nodes : nodes[n]["conf"] = o
      \/ Overlapped(o) \/ ~Acked(o)

(* At rest the cache says what the tree says, unless a request that writes *)
(* was overlapped by another, or failed.                                   *)
StaleOnlyByOverlapOrFailure ==
  (\A r \in Requests : ~Active(r)) =>
    \/ cache = None
    \/ IF Nodes = {} THEN cache = Nothing
       ELSE \E n \in Nodes : cache = nodes[n]
    \/ \E r \in Requests : Writes(r) /\ (Overlapped(r) \/ ~Acked(r))

---------------------------------------------------------------------------
(* The inductive invariant behind NamedObjectExists                        *)

(* What the step a handler is at says of its request x.                    *)
AtStep(r, x) ==
  /\ x.pc = "idle" => x = Idle
  /\ x.op = "put" => x.val = [p \in Parts |-> r]
  /\ x.pc = "put" => x.op = "put" /\ InObject
  /\ x.pc \in {"read", "fill"} => x.op \in {"get", "versioning", "lock"}
  /\ x.pc = "get" => x.op = "get"
  /\ x.pc \in {"get", "fill"} => x.val \in Contents
  /\ x.pc \in {"read", "get", "fill", "put", "find"} => x.node = None
  /\ x.pc = "write" => x.op # "delete"
  /\ x.pc = "remove" => x.op = "delete"
  /\ x.pc = "drop" => x.op \in {"put", "delete"} /\ InObject
  /\ x.pc \in {"find", "write", "cache"} =>
       /\ x.op \notin {"get", "none"}
       /\ x.op # "delete" => x.val \in Contents
  /\ x.pc \in {"remove", "drop"} => x.node # None
  /\ x.pc \in {"write", "remove", "drop"} /\ x.node # None =>
       x.was \in Contents

(* A PUT that will not write its node any more.                            *)
PastWrite(x) == x.op = "put" /\ x.pc \in {"drop", "cache", "done"}

(* Object o is that of a PUT that is past writing its node.                *)
OfPast(o) == o \in Requests /\ PastWrite(req[o])

(* A node names an object that is stored, and no other node names it: its  *)
(* PUT wrote it once.                                                      *)
NamesStored(n) ==
  /\ OfPast(nodes[n]["conf"]) /\ nodes[n]["conf"] \in objects
  /\ \A m \in Nodes : nodes[m]["conf"] = nodes[n]["conf"] => m = n

(* Until its node is written the object of a PUT stays.                    *)
StoredFirst(r) ==
  req[r].op = "put" /\ req[r].pc \in {"find", "write"} => r \in objects

(* The object a handler is going to replace or delete is named, if at all, *)
(* by the node it found, and by no node when it deletes the object.        *)
Replaces(x) ==
  x.pc \in {"write", "remove", "drop"} /\ x.node # None =>
    /\ OfPast(x.was["conf"])
    /\ \A n \in Nodes : nodes[n]["conf"] = x.was["conf"] =>
         n = x.node /\ x.pc # "drop"

IInv ==
  /\ TypeOK
  /\ \A r \in Requests : AtStep(r, req[r])
  /\ InObject => /\ \A n \in Nodes : NamesStored(n)
                 /\ \A r \in Requests : StoredFirst(r) /\ Replaces(req[r])

---------------------------------------------------------------------------
(* The invariants behind the other properties, inductive with IInv         *)

Began(r) == ~At(r, "idle")

(* Request r is past writing its node.                                     *)
HasWritten(r) == req[r].pc \in {"drop", "cache", "done"}

(* An answer is the end of its request.                                    *)
Answered == \A r \in Requests : Acked(r) => At(r, "done")

(* A request that began has an operation, those before it are over, and    *)
(* nodes are named after requests that wrote one.                          *)
InOrder ==
  /\ Answered
  /\ \A r \in Requests :
       /\ Began(r) => req[r].op # "none"
       /\ \A q \in req[r].prior : At(q, "done")
       /\ req[r].node # None => HasWritten(req[r].node)
  /\ \A n \in Nodes : HasWritten(n)

(* A request that is to write a node knows of no other, but of those of    *)
(* requests that run with it.                                              *)
SeesNodes(r) ==
  At(r, "write") =>
    \A n \in Nodes : n # req[r].node =>
      \E q \in WritersOf(n) : q # r /\ Overlap(q, r)

TwinInv ==
  /\ InOrder
  /\ \A r \in Requests : SeesNodes(r)
  /\ TwinsOnlyByOverlap

(* What a request is going to write, or has written, has its own parts.    *)
OwnParts(r) ==
  LET x == req[r] IN
  Writes(r) /\ x.op # "delete" /\ x.pc \in {"find", "write", "drop", "cache"} =>
    \A p \in PartsSetBy(x.op) : x.val[p] = r

Only(n, v) == Nodes = {n} /\ nodes[n] = v

(* A request that nobody overlapped finds the tree as it saw and left it.  *)
Undisturbed(r) ==
  LET x == req[r] IN
  Writes(r) /\ ~Overlapped(r) =>
    /\ x.pc \in {"write", "remove"} =>
         IF x.node = None THEN Nodes = {} ELSE Only(x.node, x.was)
    /\ x.pc \in {"drop", "cache"} =>
         IF x.op = "delete" THEN Nodes = {}
         ELSE \E n \in Nodes : Only(n, x.val)

(* Part p is as r set it, and nobody has set or deleted it since.          *)
Settled(r, p) ==
  /\ Sets(r, p) /\ Acked(r) /\ ~Overlapped(r)
  /\ \A q \in Later(r) : ~Sets(q, p) /\ req[q].op # "delete"

(* Then the tree, the cache and all that is under way say so.              *)
CarriesOver(q, p, v) ==
  /\ req[q].pc \in {"get", "fill", "find", "write", "cache"} => req[q].val[p] = v
  /\ At(q, "write") => req[q].node \in Nodes

Lasts(r, p) ==
  Settled(r, p) =>
    /\ \E n \in Nodes : Nodes = {n} /\ nodes[n][p] = r
    /\ cache = None \/ cache[p] = r
    /\ \A q \in Requests : CarriesOver(q, p, r)

(* The object of such a PUT is named, or being dropped by whoever replaced *)
(* or removed the node that named it, having seen it there.                *)
HasKeeper(o) ==
  Acked(o) /\ ~Overlapped(o) =>
    /\ \A n \in Nodes : nodes[n]["conf"] = o =>
         \A q \in Requests :
           req[q].pc \in {"write", "remove"} /\ req[q].node = n =>
             req[q].was["conf"] = o
    /\ faults = 0 => \/ \E n \in Nodes : nodes[n]["conf"] = o
                    \/ \E q \in Requests : /\ At(q, "drop")
                                           /\ req[q].was["conf"] = o

(* No request that writes was overlapped, and none failed.                 *)
Calm == \A r \in Requests : Writes(r) =>
          ~Overlapped(r) /\ (At(r, "done") => Acked(r))

SaidByTree(v) == IF Nodes = {} THEN v = Nothing ELSE \E n \in Nodes : v = nodes[n]

(* Then the cache and what is about to be cached are as the tree says,     *)
(* until the tree is changed.                                              *)
FreshWhenCalm ==
  Calm =>
    /\ \/ \E r \in Requests : Writes(r) /\ req[r].pc \in {"drop", "cache"}
       \/ cache = None \/ SaidByTree(cache)
    /\ \A r \in Requests : req[r].pc \in {"get", "fill"} => SaidByTree(req[r].val)
    /\ kind = "tags" => \A r \in Requests : req[r].op = "delete" /\ Active(r) =>
                         cache = None

SerialInv ==
  /\ \A r \in Requests : /\ OwnParts(r) /\ Undisturbed(r)
                         /\ \A p \in Parts : Lasts(r, p)
  /\ DeletedConfigStaysDeleted
  /\ InObject => \A o \in objects : HasKeeper(o)
  /\ FreshWhenCalm
=============================================================================
