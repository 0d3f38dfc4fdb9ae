------------------------------ MODULE Buckets ------------------------------
(***************************************************************************)
(* A bucket and the containers behind it: created, looked up, written to   *)
(* and deleted through gates that cache what they know of it               *)
(* (api/handler/put.go, api/handler/delete.go, api/layer/container.go,     *)
(* api/layer/layer.go). One name; every container it ever had is kept.     *)
(***************************************************************************)
EXTENDS Naturals, FiniteSets

CONSTANTS
  Gates,
  Requests,
  None,
  MaxContainers,  \* bound: containers created
  MaxFaults       \* bound: calls to FrostFS that fail

VARIABLES
  cnr,     \* cnr[c]: a container, or None
  named,   \* the container the name stands for, or None
  info,    \* info[g]: what a gate has cached of the bucket
  lists,   \* lists[g]: the list of versions a gate has cached
  req,     \* req[r]
  faults

vars == <<cnr, named, info, lists, req, faults>>

Containers == 1 .. MaxContainers
Exists(c) == c # None /\ cnr[c] # None /\ cnr[c].there
New(c) == [there |-> TRUE, acl |-> FALSE, lock |-> FALSE, versioned |-> FALSE, objects |-> {}]

Idle == [pc |-> "idle", op |-> None, gate |-> None, lock |-> FALSE, cid |-> None,
         seen |-> {}, old |-> FALSE, overlap |-> FALSE, lost |-> {}]
SetReq(r, rec) == req' = [req EXCEPT ![r] = rec]
Go(r, pc) == SetReq(r, [req[r] EXCEPT !.pc = pc])
Running(q) == q.pc \notin {"idle", "done", "failed"}

Fault == faults < MaxFaults /\ faults' = faults + 1
NoFault == UNCHANGED faults
Store == UNCHANGED <<cnr, named>>
Caches == UNCHANGED <<info, lists>>

(* Whoever is running while the bucket changes has overlapped the change.  *)
Overlapped(r, rec) ==
  req' = [s \in Requests |-> IF s = r THEN [rec EXCEPT !.overlap = @ \/ \E q \in Requests \ {r} : Running(req[q])]
                             ELSE IF Running(req[s]) THEN [req[s] EXCEPT !.overlap = TRUE]
                             ELSE req[s]]

Arrive(r) ==
  /\ req[r].pc = "idle"
  /\ \E g \in Gates, op \in {"create", "delete", "put"}, lock \in BOOLEAN :
       /\ lock => op = "create"
       /\ SetReq(r, [Idle EXCEPT !.pc = "lookup", !.op = op, !.gate = g, !.lock = lock])
  /\ Store /\ Caches /\ NoFault

(* What follows when the bucket is found (or not).                         *)
Found(q, c) ==
  [q EXCEPT !.cid = c,
            !.pc = IF q.op = "create" THEN "failed" ELSE IF q.op = "delete" THEN "list" ELSE "object"]
Missing(q) == [q EXCEPT !.pc = IF q.op = "create" THEN "container" ELSE "failed"]

(* GetBucketInfo: the cache, or else the resolver, whose errors all mean   *)
(* that there is no such bucket.                                           *)
Lookup(r) ==
  LET q == req[r] IN
  /\ q.pc = "lookup"
  /\ \/ info[q.gate].cid # None /\ SetReq(r, Found(q, info[q.gate].cid)) /\ NoFault
     \/ /\ info[q.gate].cid = None /\ named # None /\ NoFault
        /\ SetReq(r, [q EXCEPT !.pc = "fetch", !.cid = named])
     \/ /\ info[q.gate].cid = None /\ SetReq(r, Missing(q))
        /\ IF named = None THEN NoFault ELSE Fault
  /\ Store /\ Caches

(* containerInfo: the container is read, then cached.                      *)
Fetch(r) ==
  LET q == req[r] IN
  /\ q.pc = "fetch"
  /\ \/ Exists(q.cid) /\ Go(r, "remember") /\ NoFault
     \/ ~Exists(q.cid) /\ SetReq(r, Missing(q)) /\ NoFault
     \/ Go(r, "failed") /\ Fault
  /\ Store /\ Caches

(* What is cached between the two halves of a deletion outlives it.        *)
Cached(q) == [cid |-> q.cid,
              old |-> q.overlap \/ \E s \in Requests : req[s].pc = "delete" /\ req[s].cid = q.cid]

Remember(r) ==
  LET q == req[r] IN
  /\ q.pc = "remember"
  /\ info' = [info EXCEPT ![q.gate] = Cached(q)]
  /\ SetReq(r, Found(q, q.cid)) /\ Store /\ UNCHANGED lists /\ NoFault

(* CreateContainer of FrostFS: it takes a name once.                       *)
CreateContainer(r) ==
  LET q == req[r] IN
  /\ q.pc = "container"
  /\ \/ \E c \in Containers :
          /\ named = None /\ cnr[c] = None /\ \A d \in Containers : d < c => cnr[d] # None
          /\ cnr' = [cnr EXCEPT ![c] = [New(c) EXCEPT !.lock = q.lock]] /\ named' = c
          /\ \/ Overlapped(r, [q EXCEPT !.pc = "acl", !.cid = c]) /\ NoFault
             \/ Overlapped(r, [q EXCEPT !.pc = "failed", !.cid = c]) /\ Fault  \* the answer is lost
     \/ named # None /\ Go(r, "failed") /\ Store /\ NoFault
     \/ Go(r, "failed") /\ Store /\ Fault
  /\ Caches

(* Mutant: the bucket is there once its container is.                      *)
AfterACLFailedDone == "done"
AfterACLFailed == "failed"

(* setContainerEACLTable, and the bucket is cached.                        *)
SetEACL(r) ==
  LET q == req[r] IN
  /\ q.pc = "acl"
  /\ \/ /\ Exists(q.cid) /\ cnr' = [cnr EXCEPT ![q.cid].acl = TRUE]
        /\ info' = [info EXCEPT ![q.gate] = Cached(q)]
        /\ Go(r, IF q.lock THEN "settings" ELSE "done") /\ NoFault
     \/ /\ Go(r, AfterACLFailed) /\ UNCHANGED <<cnr, info>>
        /\ IF Exists(q.cid) THEN Fault ELSE NoFault
  /\ UNCHANGED <<named, lists>>

(* A bucket with object lock is versioned, by CreateBucketHandler.         *)
PutSettings(r) ==
  LET q == req[r] IN
  /\ q.pc = "settings"
  /\ \/ /\ Exists(q.cid) /\ cnr' = [cnr EXCEPT ![q.cid].versioned = TRUE]
        /\ Go(r, "done") /\ NoFault
     \/ /\ Go(r, "failed") /\ UNCHANGED cnr
        /\ IF Exists(q.cid) THEN Fault ELSE NoFault
  /\ UNCHANGED named /\ Caches

(* What a write leaves of the cached lists: the gate that wrote drops its  *)
(* own.                                                                    *)
ListsAfterPut(g, c) ==
  [h \in Gates |-> IF lists[h].cid # c THEN lists[h]
                   ELSE IF h = g THEN [cid |-> None, seen |-> {}, old |-> FALSE]
                   ELSE [lists[h] EXCEPT !.old = TRUE]]

(* PutObject, as far as the bucket is concerned.                           *)
PutObject(r) ==
  LET q == req[r] IN
  /\ q.pc = "object"
  /\ \/ /\ Exists(q.cid) /\ cnr' = [cnr EXCEPT ![q.cid].objects = @ \cup {r}]
        /\ lists' = ListsAfterPut(q.gate, q.cid)
        /\ Overlapped(r, [q EXCEPT !.pc = "done"]) /\ NoFault
     \/ /\ ~Exists(q.cid) /\ Go(r, "failed") /\ UNCHANGED <<cnr, lists>> /\ NoFault
  /\ UNCHANGED <<named, info>>

(* bucketNodeVersions: the list of the cache, or of the tree.              *)
ListVersions(r) ==
  LET q == req[r]
      l == lists[q.gate] IN
  /\ q.pc = "list"
  /\ \/ /\ l.cid = q.cid /\ NoFault
        /\ SetReq(r, [q EXCEPT !.pc = "empty", !.seen = l.seen, !.old = l.old])
     \/ /\ l.cid # q.cid /\ Exists(q.cid) /\ NoFault
        /\ SetReq(r, [q EXCEPT !.pc = "keep", !.seen = cnr[q.cid].objects])
     \/ /\ l.cid # q.cid /\ Go(r, "failed")
        /\ IF Exists(q.cid) THEN Fault ELSE NoFault
  /\ Store /\ Caches

KeepList(r) ==
  LET q == req[r] IN
  /\ q.pc = "keep" /\ Go(r, "empty")
  /\ lists' = [lists EXCEPT ![q.gate] = [cid |-> q.cid, seen |-> q.seen, old |-> q.overlap]]
  /\ Store /\ UNCHANGED info /\ NoFault

Empty(q) == q.seen = {}

Forget(g) == [info EXCEPT ![g] = [cid |-> None, old |-> FALSE]]

(* DeleteBucket: forgotten by the gate, then deleted.                      *)
CheckEmpty(r) ==
  LET q == req[r] IN
  /\ q.pc = "empty"
  /\ IF Empty(q) THEN Go(r, "delete") /\ info' = Forget(q.gate)
     ELSE Go(r, "failed") /\ UNCHANGED info
  /\ Store /\ UNCHANGED lists /\ NoFault

DeleteContainer(r) ==
  LET q == req[r] IN
  /\ q.pc = "delete"
  /\ \/ /\ Exists(q.cid) /\ NoFault
        /\ cnr' = [cnr EXCEPT ![q.cid] = [@ EXCEPT !.there = FALSE]]
        /\ named' = IF named = q.cid THEN None ELSE named
        /\ Overlapped(r, [q EXCEPT !.pc = "done", !.lost = cnr[q.cid].objects])
        /\ info' = [g \in Gates |-> IF info[g].cid = q.cid /\ g # q.gate
                                    THEN [info[g] EXCEPT !.old = TRUE] ELSE info[g]]
     \/ /\ Go(r, "failed") /\ Store /\ UNCHANGED info
        /\ IF Exists(q.cid) THEN Fault ELSE NoFault
  /\ UNCHANGED lists

(* Entries of the caches run out.                                          *)
Expire(g) ==
  /\ \/ /\ info[g].cid # None /\ info' = [info EXCEPT ![g] = [cid |-> None, old |-> FALSE]]
        /\ UNCHANGED lists
     \/ /\ lists[g].cid # None /\ UNCHANGED info
        /\ lists' = [lists EXCEPT ![g] = [cid |-> None, seen |-> {}, old |-> FALSE]]
  /\ Store /\ UNCHANGED <<req, faults>>

Init ==
  /\ cnr = [c \in Containers |-> None] /\ named = None /\ faults = 0
  /\ info = [g \in Gates |-> [cid |-> None, old |-> FALSE]]
  /\ lists = [g \in Gates |-> [cid |-> None, seen |-> {}, old |-> FALSE]]
  /\ req = [r \in Requests |-> Idle]

Next ==
  \/ \E g \in Gates : Expire(g)
  \/ \E r \in Requests :
       \/ Arrive(r) \/ Lookup(r) \/ Fetch(r) \/ Remember(r)
       \/ CreateContainer(r) \/ SetEACL(r) \/ PutSettings(r)
       \/ PutObject(r) \/ ListVersions(r) \/ KeepList(r) \/ CheckEmpty(r) \/ DeleteContainer(r)

Spec == Init /\ [][Next]_vars

----------------------------------------------------------------------------
TypeOK ==
  /\ named \in Containers \cup {None} /\ faults \in 0 .. MaxFaults
  /\ \A g \in Gates : info[g].cid \in Containers \cup {None}
                      /\ lists[g].cid \in Containers \cup {None} /\ lists[g].seen \subseteq Requests
  /\ \A r \in Requests : req[r].seen \subseteq Requests /\ req[r].cid \in Containers \cup {None}

(* A bucket whose creation was acknowledged has its access table, and is   *)
(* versioned if it was made with object lock; a container that lacks them  *)
(* is one whose creator failed (put.go:671-752, container.go:109) - and    *)
(* stays so: creating the bucket again is refused.                         *)
HalfMadeOnlyByFailure ==
  \A c \in Containers : (Exists(c) /\ (~cnr[c].acl \/ cnr[c].lock # cnr[c].versioned)) =>
    \E r \in Requests : req[r].op = "create" /\ req[r].cid = c /\ req[r].pc # "done"

(* A bucket is deleted with what is in it only by a request that something *)
(* else overlapped, or that went by a cached list of before another gate   *)
(* wrote (layer.go:675).                                                   *)
LostOnlyByStaleList ==
  \A r \in Requests : req[r].lost # {} => req[r].overlap \/ req[r].old

(* A gate takes a deleted bucket for one that is there only if another     *)
(* gate deleted it, or a lookup overlapped the deletion (layer.go:688).    *)
GhostOnlyByRace ==
  \A g \in Gates : info[g].cid # None /\ ~Exists(info[g].cid) => info[g].old
=============================================================================
