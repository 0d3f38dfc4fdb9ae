-------------------------- MODULE Handlers_proofs --------------------------
(***************************************************************************)
(* Proofs about parts of the gateway in MCHandlers, for every value of     *)
(* their constants, whatever the bounds on their steps: the next-state     *)
(* relation of MCHandlers takes only steps of its parts.                   *)
(***************************************************************************)
EXTENDS MCHandlers, WellFoundedInduction, TLAPS

---------------------------------------------------------------------------
(* Buckets                                                                 *)

Container == [there : BOOLEAN, acl : BOOLEAN, lock : BOOLEAN, versioned : BOOLEAN,
              objects : SUBSET BucketRequests]

LEMMA NoneIsNothing == None \notin B!Containers /\ None \notin Container
BY BucketsAssumption DEF B!Containers, Container

BucketPcs == {"idle", "lookup", "fetch", "remember", "container", "acl", "settings", "object",
              "list", "keep", "empty", "delete", "done", "failed"}
Request == [pc : BucketPcs, op : {"create", "delete", "put", None}, gate : Gates \cup {None},
            lock : BOOLEAN, cid : B!Containers \cup {None}, seen : SUBSET BucketRequests,
            old : BOOLEAN, overlap : BOOLEAN, lost : SUBSET BucketRequests]
InfoEntry == [cid : B!Containers \cup {None}, old : BOOLEAN]
ListEntry == [cid : B!Containers \cup {None}, seen : SUBSET BucketRequests, old : BOOLEAN]

BucketTyped ==
  /\ cnr \in [B!Containers -> Container \cup {None}] /\ named \in B!Containers \cup {None}
  /\ info \in [Gates -> InfoEntry] /\ versions \in [Gates -> ListEntry]
  /\ bucket \in [BucketRequests -> Request] /\ bucketFaults \in 0 .. MaxFaults

(* A container that somebody knows of has been there.                      *)
Known(c) == c \in B!Containers /\ cnr[c] # None

AtStep(q) ==
  /\ q.pc # "idle" => q.gate \in Gates
  /\ q.pc \in {"fetch", "remember", "acl", "settings", "object", "list", "keep", "empty", "delete"}
       => Known(q.cid)
  /\ q.pc \in {"container", "acl", "settings"} => q.op = "create"
  /\ q.pc \in {"acl", "settings"} => cnr[q.cid].lock = q.lock
  /\ q.pc = "settings" => q.lock /\ cnr[q.cid].acl

(* Of the one who created a container: once he is done it has all it is    *)
(* to have.                                                                *)
MadeBy(q, c) ==
  /\ q.op = "create" /\ q.cid = c /\ q.pc \in {"acl", "settings", "failed", "done"}
  /\ q.pc = "done" => cnr[c].acl /\ cnr[c].lock = cnr[c].versioned

(* A list that nobody wrote past tells what is in the bucket: the one a    *)
(* gate has cached, and the one a deletion goes by.                        *)
TrueList(q) ==
  /\ q.old => q.pc \in {"empty", "delete", "done", "failed"}
  /\ q.pc \in {"keep", "empty", "delete"} /\ ~q.overlap /\ ~q.old => q.seen = cnr[q.cid].objects
  /\ q.pc = "delete" => q.seen = {}
  /\ q.lost # {} => q.overlap \/ q.old

(* A request about to cache a bucket that is gone was running when it      *)
(* went; and a gate that is deleting a bucket has forgotten it, unless it  *)
(* was told of it anew.                                                    *)
NoGhost(q) ==
  /\ q.pc = "remember" /\ ~B!Exists(q.cid) => q.overlap
  /\ q.pc = "delete" /\ info[q.gate].cid = q.cid => info[q.gate].old

NameKnown == named # None => Known(named)
InfoTrue(g) == info[g].cid # None => Known(info[g].cid) /\ (B!Exists(info[g].cid) \/ info[g].old)
ListTrue(g) ==
  versions[g].cid # None =>
    /\ Known(versions[g].cid)
    /\ ~versions[g].old => versions[g].seen = cnr[versions[g].cid].objects
LockedIfVersioned(c) == cnr[c].versioned => cnr[c].lock

BucketInv ==
  /\ BucketTyped /\ NameKnown
  /\ \A r \in BucketRequests : AtStep(bucket[r]) /\ TrueList(bucket[r]) /\ NoGhost(bucket[r])
  /\ \A c \in B!Containers : cnr[c] # None =>
       LockedIfVersioned(c) /\ \E r \in BucketRequests : MadeBy(bucket[r], c)
  /\ \A g \in Gates : InfoTrue(g) /\ ListTrue(g)

LEMMA BucketsStart == B!Init => BucketInv
<1> SUFFICES ASSUME B!Init PROVE BucketInv
  OBVIOUS
<1>1. \A r \in BucketRequests : bucket[r] = B!Idle
  BY DEF B!Init
<1>2. B!Idle \in Request /\ B!Idle.pc = "idle" /\ B!Idle.lost = {} /\ B!Idle.old = FALSE
  BY DEF B!Idle, Request, BucketPcs
<1>3. BucketTyped
  BY <1>2, BucketsAssumption, FaultsAssumption DEF B!Init, BucketTyped, InfoEntry, ListEntry
<1>4. \A r \in BucketRequests : AtStep(bucket[r]) /\ TrueList(bucket[r]) /\ NoGhost(bucket[r])
  BY <1>1, <1>2 DEF AtStep, TrueList, NoGhost
<1> QED
  BY <1>3, <1>4 DEF B!Init, BucketInv, NameKnown, InfoTrue, ListTrue

(* What a step leaves of the containers: they stay, and gain an access     *)
(* table or their versioning, if they are to have it.                      *)
ContainersGrow ==
  \A c \in B!Containers : cnr[c] # None =>
    /\ cnr'[c] # None /\ cnr'[c].lock = cnr[c].lock
    /\ cnr[c].acl => cnr'[c].acl
    /\ cnr'[c].versioned = cnr[c].versioned \/ (cnr'[c].versioned = TRUE /\ cnr[c].lock = TRUE)
SameObjects == \A c \in B!Containers : cnr[c] # None => cnr'[c].objects = cnr[c].objects
NoneGoes    == \A c \in B!Containers : B!Exists(c) => B!Exists(c)'

(* What it leaves of a request that it is not a step of.                   *)
Stays(s) == bucket'[s] = bucket[s]
Told(s)  ==
  bucket'[s] = IF B!Running(bucket[s]) THEN [bucket[s] EXCEPT !.overlap = TRUE] ELSE bucket[s]

(* What becomes of what a gate knows of the bucket: that it goes by        *)
(* something old is not forgotten, and nothing is learned of a bucket      *)
(* while it is deleted.                                                    *)
InfoKept ==
  \A g \in Gates :
    \/ info'[g].cid = info[g].cid /\ (info[g].old => info'[g].old)
    \/ info'[g].cid = None
    \/ \A s \in BucketRequests :
         bucket[s].pc = "delete" /\ bucket[s].cid = info'[g].cid => info'[g].old

LEMMA ToldFields ==
  ASSUME BucketInv, NEW s \in BucketRequests, Stays(s) \/ Told(s)
  PROVE  /\ bucket'[s] \in Request
         /\ bucket'[s].pc = bucket[s].pc /\ bucket'[s].op = bucket[s].op
         /\ bucket'[s].gate = bucket[s].gate /\ bucket'[s].lock = bucket[s].lock
         /\ bucket'[s].cid = bucket[s].cid /\ bucket'[s].seen = bucket[s].seen
         /\ bucket'[s].old = bucket[s].old /\ bucket'[s].lost = bucket[s].lost
         /\ bucket[s].overlap => bucket'[s].overlap
         /\ Told(s) /\ B!Running(bucket[s]) => bucket'[s].overlap
<1>1. bucket[s] \in Request
  BY DEF BucketInv, BucketTyped
<1>2. CASE bucket'[s] = bucket[s]
  BY <1>1, <1>2 DEF Told, Request
<1>3. CASE bucket'[s] = [bucket[s] EXCEPT !.overlap = TRUE]
  BY <1>1, <1>3 DEF Request
<1> QED
  BY <1>2, <1>3 DEF Stays, Told

(* A step of another request leaves what holds of a request, if the other  *)
(* changes no objects and removes no container without its being told.     *)
LEMMA OtherKeeps ==
  ASSUME BucketInv, NEW s \in BucketRequests, Stays(s) \/ Told(s), ContainersGrow, InfoKept,
         Told(s) \/ SameObjects, Told(s) \/ NoneGoes
  PROVE  (AtStep(bucket[s]) /\ TrueList(bucket[s]) /\ NoGhost(bucket[s]))'
<1>1. PICK q, p : q = bucket[s] /\ p = bucket'[s]
  OBVIOUS
<1>2. q \in Request /\ AtStep(q) /\ TrueList(q) /\ NoGhost(q)
  BY <1>1 DEF BucketInv, BucketTyped
<1>3. /\ p.pc = q.pc /\ p.op = q.op /\ p.gate = q.gate /\ p.lock = q.lock /\ p.cid = q.cid
      /\ p.seen = q.seen /\ p.old = q.old /\ p.lost = q.lost /\ (q.overlap => p.overlap)
  BY <1>1, ToldFields
<1>4. Told(s) /\ B!Running(q) => p.overlap
  BY <1>1, ToldFields
<1>5. B!Running(q) <=> q.pc \notin {"idle", "done", "failed"}
  BY DEF B!Running
<1>6. AtStep(p)'
  BY <1>2, <1>3 DEF AtStep, Known, ContainersGrow
<1>7. TrueList(p)'
  <2>1. q.pc \in {"keep", "empty", "delete"} => B!Running(q) /\ Known(q.cid)
    BY <1>2, <1>5 DEF AtStep
  <2>2. q.pc \in {"keep", "empty", "delete"} /\ ~p.overlap =>
          cnr'[q.cid].objects = cnr[q.cid].objects
    BY <1>4, <2>1 DEF SameObjects, Known
  <2> QED
    BY <1>2, <1>3, <2>2 DEF TrueList
<1>8. NoGhost(p)'
  <2>1. q.pc = "remember" /\ ~B!Exists(q.cid)' => p.overlap
    <3>1. q.pc = "remember" => B!Running(q) /\ Known(q.cid)
      BY <1>2, <1>5 DEF AtStep
    <3>2. q.pc = "remember" /\ ~B!Exists(q.cid)' /\ ~p.overlap => ~B!Exists(q.cid)
      BY <1>3, <1>4, <3>1 DEF NoneGoes, Known
    <3> QED
      BY <1>2, <1>3, <3>2 DEF NoGhost
  <2>2. q.pc = "delete" /\ info'[q.gate].cid = q.cid => info'[q.gate].old
    <3>1. q.pc = "delete" => q.gate \in Gates /\ q.cid # None
      BY <1>2, NoneIsNothing DEF AtStep, Known
    <3> QED
      BY <1>1, <1>2, <3>1 DEF NoGhost, InfoKept
  <2> QED
    BY <1>3, <2>1, <2>2 DEF NoGhost
<1> QED
  BY <1>1, <1>6, <1>7, <1>8 DEF AtStep, TrueList, NoGhost, Known, B!Exists

LEMMA MakerKeeps ==
  ASSUME BucketInv, NEW s \in BucketRequests, Stays(s) \/ Told(s), ContainersGrow,
         NEW c \in B!Containers, cnr[c] # None, MadeBy(bucket[s], c)
  PROVE  MadeBy(bucket[s], c)'
<1>1. bucket'[s].pc = bucket[s].pc /\ bucket'[s].op = bucket[s].op /\ bucket'[s].cid = bucket[s].cid
  BY ToldFields
<1>2. cnr[c] \in Container
  BY DEF BucketInv, BucketTyped
<1>3. /\ cnr'[c].lock = cnr[c].lock /\ (cnr[c].acl => cnr'[c].acl)
      /\ cnr'[c].versioned = cnr[c].versioned \/ (cnr'[c].versioned = TRUE /\ cnr[c].lock = TRUE)
  BY DEF ContainersGrow
<1> QED
  BY <1>1, <1>2, <1>3 DEF MadeBy, Container

---------------------------------------------------------------------------
(* One lemma per step. What is left to show of a step: types, its own      *)
(* request, the containers and the caches.                                 *)
LEMMA StepKeeps ==
  ASSUME BucketInv, NEW r \in BucketRequests, BucketTyped',
         \A s \in BucketRequests \ {r} : Stays(s) \/ Told(s),
         ContainersGrow, InfoKept,
         SameObjects \/ \A s \in BucketRequests \ {r} : Told(s),
         NoneGoes \/ \A s \in BucketRequests \ {r} : Told(s),
         (AtStep(bucket[r]) /\ TrueList(bucket[r]) /\ NoGhost(bucket[r]))',
         NameKnown',
         \A c \in B!Containers : cnr'[c] # None =>
           /\ LockedIfVersioned(c)'
           /\ MadeBy(bucket[r], c)' \/ (cnr[c] # None /\ ~MadeBy(bucket[r], c)),
         \A g \in Gates : (InfoTrue(g) /\ ListTrue(g))'
  PROVE  BucketInv'
<1>1. ASSUME NEW s \in BucketRequests
      PROVE  (AtStep(bucket[s]) /\ TrueList(bucket[s]) /\ NoGhost(bucket[s]))'
  BY OtherKeeps
<1>2. ASSUME NEW c \in B!Containers, cnr'[c] # None
      PROVE  LockedIfVersioned(c)' /\ \E s \in BucketRequests : MadeBy(bucket[s], c)'
  <2>1. CASE MadeBy(bucket[r], c)'
    BY <1>2, <2>1
  <2>2. CASE cnr[c] # None /\ ~MadeBy(bucket[r], c)
    <3>1. PICK s \in BucketRequests : MadeBy(bucket[s], c)
      BY <2>2 DEF BucketInv
    <3>2. s # r
      BY <2>2, <3>1
    <3>3. MadeBy(bucket[s], c)'
      BY <2>2, <3>1, <3>2, MakerKeeps
    <3> QED
      BY <1>2, <3>3
  <2> QED
    BY <1>2, <2>1, <2>2
<1> QED
  BY <1>1, <1>2 DEF BucketInv

LEMMA FaultsBounded ==
  ASSUME BucketInv, B!Fault \/ B!NoFault
  PROVE  bucketFaults' \in 0 .. MaxFaults
BY BucketsAssumption, FaultsAssumption DEF BucketInv, BucketTyped, B!Fault, B!NoFault

LEMMA OneRequest ==
  ASSUME BucketInv, NEW r \in BucketRequests, NEW x \in Request, B!SetReq(r, x)
  PROVE  /\ bucket' \in [BucketRequests -> Request] /\ bucket'[r] = x
         /\ \A s \in BucketRequests \ {r} : Stays(s)
BY DEF BucketInv, BucketTyped, B!SetReq, Stays

(* A step that only its request sees.                                      *)
LEMMA OwnStep ==
  ASSUME BucketInv, NEW r \in BucketRequests, NEW x \in Request, B!SetReq(r, x), B!Store, B!Caches,
         B!Fault \/ B!NoFault, AtStep(x), TrueList(x), NoGhost(x),
         \A c \in B!Containers : MadeBy(bucket[r], c) => MadeBy(x, c)
  PROVE  BucketInv'
<1>1. /\ bucket' \in [BucketRequests -> Request] /\ bucket'[r] = x
      /\ \A s \in BucketRequests \ {r} : Stays(s)
  BY OneRequest
<1>2. cnr' = cnr /\ named' = named /\ info' = info /\ versions' = versions
  BY DEF B!Store, B!Caches
<1>3. BucketTyped'
  BY <1>1, <1>2, FaultsBounded DEF BucketInv, BucketTyped
<1>4. ContainersGrow /\ InfoKept /\ SameObjects /\ NoneGoes
  BY <1>2 DEF ContainersGrow, InfoKept, SameObjects, NoneGoes, B!Exists
<1>5. (AtStep(bucket[r]) /\ TrueList(bucket[r]) /\ NoGhost(bucket[r]))'
  BY <1>1, <1>2 DEF AtStep, TrueList, NoGhost, Known, B!Exists
<1>6. NameKnown' /\ \A g \in Gates : (InfoTrue(g) /\ ListTrue(g))'
  BY <1>2 DEF BucketInv, NameKnown, InfoTrue, ListTrue, Known, B!Exists
<1>7. ASSUME NEW c \in B!Containers, cnr'[c] # None
      PROVE  /\ LockedIfVersioned(c)'
             /\ MadeBy(bucket[r], c)' \/ (cnr[c] # None /\ ~MadeBy(bucket[r], c))
  BY <1>1, <1>2, <1>7 DEF BucketInv, LockedIfVersioned, MadeBy
<1> QED
  BY <1>1, <1>3, <1>4, <1>5, <1>6, <1>7, StepKeeps

LEMMA BucketArriveKeeps ==
  ASSUME BucketInv, NEW r \in BucketRequests, B!Arrive(r)
  PROVE  BucketInv'
<1>1. PICK g \in Gates, op \in {"create", "delete", "put"}, lock \in BOOLEAN :
        B!SetReq(r, [B!Idle EXCEPT !.pc = "lookup", !.op = op, !.gate = g, !.lock = lock])
  BY DEF B!Arrive
<1>2. PICK x : x = [B!Idle EXCEPT !.pc = "lookup", !.op = op, !.gate = g, !.lock = lock]
  OBVIOUS
<1>3. /\ x \in Request /\ x.pc = "lookup" /\ x.gate \in Gates /\ x.lost = {} /\ x.old = FALSE
  BY <1>2 DEF B!Idle, Request, BucketPcs
<1>4. AtStep(x) /\ TrueList(x) /\ NoGhost(x)
  BY <1>3 DEF AtStep, TrueList, NoGhost
<1>5. \A c \in B!Containers : ~MadeBy(bucket[r], c)
  BY DEF B!Arrive, MadeBy
<1> QED
  BY <1>1, <1>2, <1>3, <1>4, <1>5, OwnStep DEF B!Arrive

(* What is known of a request at a step.                                   *)
LEMMA Here ==
  ASSUME BucketInv, NEW r \in BucketRequests
  PROVE  bucket[r] \in Request /\ AtStep(bucket[r]) /\ TrueList(bucket[r]) /\ NoGhost(bucket[r])
BY DEF BucketInv, BucketTyped

LEMMA OnTheWay ==
  ASSUME NEW q, q.pc \in {"lookup", "fetch", "remember", "container", "object", "list", "keep",
                          "empty", "delete"}
  PROVE  \A c \in B!Containers : ~MadeBy(q, c)
BY DEF MadeBy

(* A request that has found its bucket, or that there is none.             *)
LEMMA FoundFits ==
  ASSUME NEW q \in Request, NEW c \in B!Containers, AtStep(q), TrueList(q), Known(c),
         q.gate \in Gates,
         q.pc \notin {"empty", "delete", "done", "failed"}
  PROVE  /\ B!Found(q, c) \in Request /\ AtStep(B!Found(q, c)) /\ TrueList(B!Found(q, c))
         /\ NoGhost(B!Found(q, c))
<1>1. PICK x : x = B!Found(q, c)
  OBVIOUS
<1>2. /\ x \in Request /\ x.pc \in {"failed", "list", "object"} /\ x.cid = c /\ x.gate = q.gate
      /\ x.old = q.old /\ x.lost = q.lost /\ x.overlap = q.overlap
  BY <1>1 DEF B!Found, Request, BucketPcs
<1>3. AtStep(x) /\ TrueList(x) /\ NoGhost(x)
  BY <1>2 DEF AtStep, TrueList, NoGhost
<1> QED
  BY <1>1, <1>2, <1>3

LEMMA MissingFits ==
  ASSUME NEW q \in Request, AtStep(q), TrueList(q), q.gate \in Gates,
         q.pc \notin {"empty", "delete", "done", "failed"}
  PROVE  /\ B!Missing(q) \in Request /\ AtStep(B!Missing(q)) /\ TrueList(B!Missing(q))
         /\ NoGhost(B!Missing(q))
<1>1. PICK x : x = B!Missing(q)
  OBVIOUS
<1>2. /\ x \in Request /\ x.pc \in {"failed", "container"} /\ x.gate = q.gate /\ x.op = q.op
      /\ x.pc = "container" => q.op = "create"
  BY <1>1 DEF B!Missing, Request, BucketPcs
<1>3. x.old = q.old /\ x.lost = q.lost /\ x.overlap = q.overlap
  BY <1>1 DEF B!Missing, Request
<1>4. AtStep(x) /\ TrueList(x) /\ NoGhost(x)
  BY <1>2, <1>3 DEF AtStep, TrueList, NoGhost
<1> QED
  BY <1>1, <1>2, <1>4

(* A request that goes on with what it has.                                *)
LEMMA GoFields ==
  ASSUME NEW q \in Request, NEW next \in BucketPcs
  PROVE  LET x == [q EXCEPT !.pc = next]
         IN /\ x \in Request /\ x.pc = next /\ x.op = q.op /\ x.gate = q.gate /\ x.lock = q.lock
            /\ x.cid = q.cid /\ x.seen = q.seen /\ x.old = q.old /\ x.overlap = q.overlap
            /\ x.lost = q.lost
BY DEF Request

LEMMA FailedFits ==
  ASSUME NEW q \in Request, AtStep(q), TrueList(q), q.pc # "idle",
         NEW next \in {"failed", "done"}
  PROVE  LET x == [q EXCEPT !.pc = next]
         IN x \in Request /\ AtStep(x) /\ TrueList(x) /\ NoGhost(x)
<1>1. PICK x : x = [q EXCEPT !.pc = next]
  OBVIOUS
<1>2. /\ x \in Request /\ x.pc = next /\ x.gate = q.gate /\ x.old = q.old /\ x.lost = q.lost
      /\ x.overlap = q.overlap
  BY <1>1 DEF Request, BucketPcs
<1>3. AtStep(x) /\ TrueList(x) /\ NoGhost(x)
  BY <1>2 DEF AtStep, TrueList, NoGhost
<1> QED
  BY <1>1, <1>2, <1>3

LEMMA LookupKeeps ==
  ASSUME BucketInv, NEW r \in BucketRequests, B!Lookup(r)
  PROVE  BucketInv'
<1>1. PICK q : q = bucket[r]
  OBVIOUS
<1>2. /\ q \in Request /\ AtStep(q) /\ TrueList(q) /\ q.pc = "lookup" /\ q.gate \in Gates
      /\ \A c \in B!Containers : ~MadeBy(q, c)
  BY <1>1, Here, OnTheWay DEF B!Lookup, AtStep
<1>3. B!Store /\ B!Caches /\ (B!Fault \/ B!NoFault)
  BY DEF B!Lookup
<1>4. CASE info[q.gate].cid # None /\ B!SetReq(r, B!Found(q, info[q.gate].cid))
  <2>1. Known(info[q.gate].cid) /\ info[q.gate].cid \in B!Containers
    BY <1>2, <1>4 DEF BucketInv, InfoTrue, Known
  <2> QED
    BY <1>1, <1>2, <1>3, <1>4, <2>1, FoundFits, OwnStep
<1>5. CASE named # None /\ B!SetReq(r, [q EXCEPT !.pc = "fetch", !.cid = named])
  <2>1. PICK x : x = [q EXCEPT !.pc = "fetch", !.cid = named]
    OBVIOUS
  <2>2. Known(named) /\ named \in B!Containers
    BY <1>5 DEF BucketInv, NameKnown, Known
  <2>3. /\ x \in Request /\ x.pc = "fetch" /\ x.cid = named /\ x.gate = q.gate
        /\ x.old = q.old /\ x.lost = q.lost /\ x.overlap = q.overlap
    BY <1>2, <2>1, <2>2 DEF Request, BucketPcs
  <2>4. AtStep(x) /\ TrueList(x) /\ NoGhost(x)
    BY <1>2, <2>2, <2>3 DEF AtStep, TrueList, NoGhost
  <2> QED
    BY <1>1, <1>2, <1>3, <1>5, <2>1, <2>3, <2>4, OwnStep
<1>6. CASE B!SetReq(r, B!Missing(q))
  BY <1>1, <1>2, <1>3, <1>6, MissingFits, OwnStep
<1> QED
  BY <1>1, <1>4, <1>5, <1>6 DEF B!Lookup

LEMMA FetchKeeps ==
  ASSUME BucketInv, NEW r \in BucketRequests, B!Fetch(r)
  PROVE  BucketInv'
<1>1. PICK q : q = bucket[r]
  OBVIOUS
<1>2. /\ q \in Request /\ AtStep(q) /\ TrueList(q) /\ q.pc = "fetch" /\ q.gate \in Gates
      /\ \A c \in B!Containers : ~MadeBy(q, c)
  BY <1>1, Here, OnTheWay DEF B!Fetch, AtStep
<1>3. B!Store /\ B!Caches /\ (B!Fault \/ B!NoFault)
  BY DEF B!Fetch
<1>4. CASE B!Exists(q.cid) /\ B!SetReq(r, [q EXCEPT !.pc = "remember"])
  <2>1. PICK x : x = [q EXCEPT !.pc = "remember"]
    OBVIOUS
  <2>2. /\ x \in Request /\ x.pc = "remember" /\ x.cid = q.cid /\ x.gate = q.gate
        /\ x.old = q.old /\ x.lost = q.lost /\ x.overlap = q.overlap
    BY <1>2, <2>1 DEF Request, BucketPcs
  <2>3. AtStep(x) /\ TrueList(x) /\ NoGhost(x)
    BY <1>2, <1>4, <2>2 DEF AtStep, TrueList, NoGhost
  <2> QED
    BY <1>1, <1>2, <1>3, <1>4, <2>1, <2>2, <2>3, OwnStep
<1>5. CASE B!SetReq(r, B!Missing(q))
  BY <1>1, <1>2, <1>3, <1>5, MissingFits, OwnStep
<1>6. CASE B!SetReq(r, [q EXCEPT !.pc = "failed"])
  BY <1>1, <1>2, <1>3, <1>6, FailedFits, OwnStep
<1> QED
  BY <1>1, <1>4, <1>5, <1>6 DEF B!Fetch, B!Go

LEMMA ListVersionsKeeps ==
  ASSUME BucketInv, NEW r \in BucketRequests, B!ListVersions(r)
  PROVE  BucketInv'
<1>1. PICK q, l : q = bucket[r] /\ l = versions[q.gate]
  OBVIOUS
<1>2. /\ q \in Request /\ AtStep(q) /\ TrueList(q) /\ q.pc = "list" /\ q.gate \in Gates
      /\ Known(q.cid) /\ q.cid # None /\ q.old = FALSE
      /\ \A c \in B!Containers : ~MadeBy(q, c)
  BY <1>1, Here, OnTheWay, NoneIsNothing DEF B!ListVersions, AtStep, TrueList, Known, Request
<1>3. B!Store /\ B!Caches /\ (B!Fault \/ B!NoFault)
  BY DEF B!ListVersions
<1>4. l \in ListEntry /\ ListTrue(q.gate)
  BY <1>1, <1>2 DEF BucketInv, BucketTyped
<1>5. CASE l.cid = q.cid /\ B!SetReq(r, [q EXCEPT !.pc = "empty", !.seen = l.seen, !.old = l.old])
  <2>1. PICK x : x = [q EXCEPT !.pc = "empty", !.seen = l.seen, !.old = l.old]
    OBVIOUS
  <2>2. x \in Request
    BY <1>2, <1>4, <2>1 DEF Request, ListEntry, BucketPcs
  <2>3. /\ x.pc = "empty" /\ x.cid = q.cid /\ x.gate = q.gate /\ x.old = l.old
        /\ x.seen = l.seen /\ x.lost = q.lost /\ x.overlap = q.overlap
    BY <1>2, <2>1 DEF Request
  <2>4. ~l.old => l.seen = cnr[q.cid].objects
    BY <1>1, <1>2, <1>4, <1>5 DEF ListTrue
  <2>5. q.lost # {} => q.overlap
    BY <1>2 DEF TrueList
  <2>6. AtStep(x) /\ TrueList(x) /\ NoGhost(x)
    BY <1>2, <2>3, <2>4, <2>5 DEF AtStep, TrueList, NoGhost
  <2> QED
    BY <1>1, <1>2, <1>3, <1>5, <2>1, <2>2, <2>6, OwnStep
<1>6. CASE /\ l.cid # q.cid /\ B!Exists(q.cid)
           /\ B!SetReq(r, [q EXCEPT !.pc = "keep", !.seen = cnr[q.cid].objects])
  <2>1. PICK x : x = [q EXCEPT !.pc = "keep", !.seen = cnr[q.cid].objects]
    OBVIOUS
  <2>2. cnr[q.cid] \in Container
    BY <1>2 DEF BucketInv, BucketTyped, Known
  <2>3. x \in Request
    BY <1>2, <2>1, <2>2 DEF Request, Container, BucketPcs
  <2>4. /\ x.pc = "keep" /\ x.cid = q.cid /\ x.gate = q.gate /\ x.old = q.old
        /\ x.seen = cnr[q.cid].objects /\ x.lost = q.lost /\ x.overlap = q.overlap
    BY <1>2, <2>1 DEF Request
  <2>5. AtStep(x) /\ TrueList(x) /\ NoGhost(x)
    BY <1>2, <2>4 DEF AtStep, TrueList, NoGhost
  <2> QED
    BY <1>1, <1>2, <1>3, <1>6, <2>1, <2>3, <2>5, OwnStep
<1>7. CASE B!SetReq(r, [q EXCEPT !.pc = "failed"])
  BY <1>1, <1>2, <1>3, <1>7, FailedFits, OwnStep
<1> QED
  BY <1>1, <1>5, <1>6, <1>7 DEF B!ListVersions, B!Go

(* A step of a request that changes what its gate knows of a container,    *)
(* and nothing else.                                                       *)
LEMMA InfoStep ==
  ASSUME BucketInv, NEW r \in BucketRequests, NEW x \in Request, B!SetReq(r, x), B!Store,
         UNCHANGED versions, B!NoFault,
         NEW g \in Gates, NEW e \in InfoEntry, info' = [info EXCEPT ![g] = e],
         \/ e.cid = None
         \/ \A s \in BucketRequests : bucket[s].pc = "delete" /\ bucket[s].cid = e.cid => e.old,
         e.cid # None => Known(e.cid) /\ (B!Exists(e.cid) \/ e.old),
         AtStep(x), TrueList(x), NoGhost(x)',
         \A c \in B!Containers : ~MadeBy(bucket[r], c)
  PROVE  BucketInv'
<1>1. /\ bucket' \in [BucketRequests -> Request] /\ bucket'[r] = x
      /\ \A s \in BucketRequests \ {r} : Stays(s)
  BY OneRequest
<1>2. cnr' = cnr /\ named' = named /\ versions' = versions
  BY DEF B!Store
<1>3. /\ info' \in [Gates -> InfoEntry] /\ info'[g] = e
      /\ \A h \in Gates \ {g} : info'[h] = info[h]
  BY DEF BucketInv, BucketTyped
<1>4. BucketTyped'
  BY <1>1, <1>2, <1>3, FaultsBounded DEF BucketInv, BucketTyped
<1>5. ContainersGrow /\ SameObjects /\ NoneGoes
  BY <1>2 DEF ContainersGrow, SameObjects, NoneGoes, B!Exists
<1>6. InfoKept
  BY <1>3 DEF InfoKept
<1>7. (AtStep(bucket[r]) /\ TrueList(bucket[r]) /\ NoGhost(bucket[r]))'
  BY <1>1, <1>2 DEF AtStep, TrueList, NoGhost, Known, B!Exists
<1>8. NameKnown'
  BY <1>2 DEF BucketInv, NameKnown, Known
<1>9. ASSUME NEW h \in Gates PROVE (InfoTrue(h) /\ ListTrue(h))'
  BY <1>2, <1>3, <1>9 DEF BucketInv, InfoTrue, ListTrue, Known, B!Exists
<1>10. ASSUME NEW c \in B!Containers, cnr'[c] # None
       PROVE  /\ LockedIfVersioned(c)'
              /\ MadeBy(bucket[r], c)' \/ (cnr[c] # None /\ ~MadeBy(bucket[r], c))
  BY <1>2, <1>10 DEF BucketInv, LockedIfVersioned
<1> QED
  BY <1>1, <1>4, <1>5, <1>6, <1>7, <1>8, <1>9, <1>10, StepKeeps

LEMMA RememberKeeps ==
  ASSUME BucketInv, NEW r \in BucketRequests, B!Remember(r)
  PROVE  BucketInv'
<1>1. PICK q, e : q = bucket[r] /\ e = B!Cached(q)
  OBVIOUS
<1>2. /\ q \in Request /\ AtStep(q) /\ TrueList(q) /\ NoGhost(q) /\ q.pc = "remember"
      /\ q.gate \in Gates /\ Known(q.cid) /\ q.cid \in B!Containers
      /\ \A c \in B!Containers : ~MadeBy(q, c)
  BY <1>1, Here, OnTheWay DEF B!Remember, AtStep, Known
<1>3. /\ e \in InfoEntry /\ e.cid = q.cid
      /\ e.old <=> \/ q.overlap
                   \/ \E s \in BucketRequests : bucket[s].pc = "delete" /\ bucket[s].cid = q.cid
  BY <1>1, <1>2 DEF B!Cached, InfoEntry, Request
<1>4. /\ info' = [info EXCEPT ![q.gate] = e] /\ B!SetReq(r, B!Found(q, q.cid))
      /\ B!Store /\ UNCHANGED versions /\ B!NoFault
  BY <1>1 DEF B!Remember
<1>5. PICK x : x = B!Found(q, q.cid)
  OBVIOUS
<1>6. x \in Request /\ AtStep(x) /\ TrueList(x)
  BY <1>2, <1>5, FoundFits
<1>7. x.pc \in {"failed", "list", "object"}
  BY <1>2, <1>5 DEF B!Found, Request
<1>8. NoGhost(x)'
  BY <1>7 DEF NoGhost
<1>9. B!Exists(e.cid) \/ e.old
  BY <1>2, <1>3 DEF NoGhost
<1> QED
  BY <1>1, <1>2, <1>3, <1>4, <1>5, <1>6, <1>8, <1>9, InfoStep

LEMMA CheckEmptyKeeps ==
  ASSUME BucketInv, NEW r \in BucketRequests, B!CheckEmpty(r)
  PROVE  BucketInv'
<1>1. PICK q : q = bucket[r]
  OBVIOUS
<1>2. /\ q \in Request /\ AtStep(q) /\ TrueList(q) /\ q.pc = "empty" /\ q.gate \in Gates
      /\ Known(q.cid) /\ q.cid # None /\ \A c \in B!Containers : ~MadeBy(q, c)
  BY <1>1, Here, OnTheWay, NoneIsNothing DEF B!CheckEmpty, AtStep, Known
<1>3. B!Store /\ UNCHANGED versions /\ B!NoFault
  BY DEF B!CheckEmpty
<1>4. CASE B!Empty(q)
  <2>1. PICK x, e : x = [q EXCEPT !.pc = "delete"] /\ e = [cid |-> None, old |-> FALSE]
    OBVIOUS
  <2>2. B!SetReq(r, x) /\ info' = [info EXCEPT ![q.gate] = e]
    BY <1>1, <1>4, <2>1 DEF B!CheckEmpty, B!Go, B!Forget
  <2>3. /\ x \in Request /\ x.pc = "delete" /\ x.cid = q.cid /\ x.gate = q.gate
        /\ x.seen = q.seen /\ x.old = q.old /\ x.lost = q.lost /\ x.overlap = q.overlap
    BY <1>2, <2>1 DEF Request, BucketPcs
  <2>4. e \in InfoEntry /\ e.cid = None
    BY <2>1 DEF InfoEntry
  <2>5. AtStep(x) /\ TrueList(x)
    BY <1>2, <1>4, <2>3 DEF AtStep, TrueList, B!Empty
  <2>6. info'[q.gate] = e
    BY <1>2, <2>2 DEF BucketInv, BucketTyped
  <2>7. NoGhost(x)'
    BY <1>2, <2>3, <2>4, <2>6 DEF NoGhost
  <2> QED
    BY <1>1, <1>2, <1>3, <2>2, <2>3, <2>4, <2>5, <2>7, InfoStep
<1>5. CASE ~B!Empty(q)
  <2>1. B!SetReq(r, [q EXCEPT !.pc = "failed"]) /\ B!Caches
    BY <1>1, <1>3, <1>5 DEF B!CheckEmpty, B!Go, B!Caches
  <2> QED
    BY <1>1, <1>2, <1>3, <2>1, FailedFits, OwnStep
<1> QED
  BY <1>4, <1>5

LEMMA KeepListKeeps ==
  ASSUME BucketInv, NEW r \in BucketRequests, B!KeepList(r)
  PROVE  BucketInv'
<1>1. PICK q, x, e :
        /\ q = bucket[r] /\ x = [q EXCEPT !.pc = "empty"]
        /\ e = [cid |-> q.cid, seen |-> q.seen, old |-> q.overlap]
  OBVIOUS
<1>2. /\ q \in Request /\ AtStep(q) /\ TrueList(q) /\ q.pc = "keep" /\ q.gate \in Gates
      /\ Known(q.cid) /\ q.cid # None /\ \A c \in B!Containers : ~MadeBy(q, c)
  BY <1>1, Here, OnTheWay, NoneIsNothing DEF B!KeepList, AtStep, Known
<1>3. /\ B!SetReq(r, x) /\ versions' = [versions EXCEPT ![q.gate] = e]
      /\ cnr' = cnr /\ named' = named /\ info' = info /\ B!NoFault
  BY <1>1 DEF B!KeepList, B!Go, B!Store
<1>4. /\ x \in Request /\ x.pc = "empty" /\ x.cid = q.cid /\ x.gate = q.gate /\ x.seen = q.seen
      /\ x.old = q.old /\ x.lost = q.lost /\ x.overlap = q.overlap
  BY <1>1, <1>2 DEF Request, BucketPcs
<1>5. e \in ListEntry /\ e.cid = q.cid /\ e.seen = q.seen /\ e.old = q.overlap
  BY <1>1, <1>2 DEF Request, ListEntry
<1>6. /\ bucket' \in [BucketRequests -> Request] /\ bucket'[r] = x
      /\ \A s \in BucketRequests \ {r} : Stays(s)
  BY <1>3, <1>4, OneRequest
<1>7. /\ versions' \in [Gates -> ListEntry] /\ versions'[q.gate] = e
      /\ \A h \in Gates \ {q.gate} : versions'[h] = versions[h]
  BY <1>2, <1>3, <1>5 DEF BucketInv, BucketTyped
<1>8. BucketTyped'
  BY <1>3, <1>6, <1>7, FaultsBounded DEF BucketInv, BucketTyped
<1>9. ContainersGrow /\ SameObjects /\ NoneGoes /\ InfoKept
  BY <1>3 DEF ContainersGrow, SameObjects, NoneGoes, InfoKept, B!Exists
<1>10. AtStep(x) /\ TrueList(x) /\ NoGhost(x)
  BY <1>2, <1>4 DEF AtStep, TrueList, NoGhost
<1>11. (AtStep(bucket[r]) /\ TrueList(bucket[r]) /\ NoGhost(bucket[r]))'
  BY <1>3, <1>6, <1>10 DEF AtStep, TrueList, NoGhost, Known, B!Exists
<1>12. NameKnown'
  BY <1>3 DEF BucketInv, NameKnown, Known
<1>13. ~q.overlap => q.seen = cnr[q.cid].objects
  BY <1>2 DEF TrueList
<1>14. ASSUME NEW h \in Gates PROVE (InfoTrue(h) /\ ListTrue(h))'
  <2>1. CASE h = q.gate
    BY <1>2, <1>3, <1>5, <1>7, <1>13, <2>1 DEF BucketInv, InfoTrue, ListTrue, Known, B!Exists
  <2>2. CASE h # q.gate
    BY <1>3, <1>7, <1>14, <2>2 DEF BucketInv, InfoTrue, ListTrue, Known, B!Exists
  <2> QED
    BY <2>1, <2>2
<1>15. ASSUME NEW c \in B!Containers, cnr'[c] # None
       PROVE  /\ LockedIfVersioned(c)'
              /\ MadeBy(bucket[r], c)' \/ (cnr[c] # None /\ ~MadeBy(bucket[r], c))
  BY <1>1, <1>2, <1>3, <1>15 DEF BucketInv, LockedIfVersioned
<1> QED
  BY <1>6, <1>8, <1>9, <1>11, <1>12, <1>14, <1>15, StepKeeps

(* A step of the creator of a container, which only that container and its *)
(* gate's cache see.                                                       *)
LEMMA CreatorStep ==
  ASSUME BucketInv, NEW r \in BucketRequests, NEW x \in Request, B!SetReq(r, x),
         NEW d \in B!Containers,
         Known(d), bucket[r].pc \in {"acl", "settings"}, bucket[r].cid = d, B!NoFault,
         NEW n \in Container, cnr' = [cnr EXCEPT ![d] = n],
         n.there = cnr[d].there, n.lock = cnr[d].lock, n.objects = cnr[d].objects,
         cnr[d].acl => n.acl,
         n.versioned = cnr[d].versioned \/ (n.versioned = TRUE /\ n.lock = TRUE),
         UNCHANGED <<named, versions>>, info' \in [Gates -> InfoEntry], InfoKept,
         \A g \in Gates : info'[g] = info[g] \/ (info'[g].cid = d /\ B!Exists(d)),
         AtStep(x)', TrueList(x)', NoGhost(x)', MadeBy(x, d)'
  PROVE  BucketInv'
<1>1. /\ bucket' \in [BucketRequests -> Request] /\ bucket'[r] = x
      /\ \A s \in BucketRequests \ {r} : Stays(s)
  BY OneRequest
<1>2. /\ cnr' \in [B!Containers -> Container \cup {None}] /\ cnr'[d] = n
      /\ \A c \in B!Containers \ {d} : cnr'[c] = cnr[c]
  BY DEF BucketInv, BucketTyped
<1>3. n # None
  BY NoneIsNothing
<1>4. cnr[d] \in Container /\ cnr[d] # None /\ d # None
  BY NoneIsNothing DEF BucketInv, BucketTyped, Known
<1>5. BucketTyped'
  BY <1>1, <1>2, FaultsBounded DEF BucketInv, BucketTyped
<1>6. ContainersGrow
  BY <1>2, <1>3, <1>4 DEF ContainersGrow
<1>7. SameObjects
  BY <1>2 DEF SameObjects
<1>8. ASSUME NEW c
      PROVE  c \in B!Containers => (B!Exists(c) <=> B!Exists(c)') /\ (Known(c) => Known(c)')
  BY <1>2, <1>3, <1>4 DEF B!Exists, Known
<1>9. NoneGoes
  BY <1>8 DEF NoneGoes
<1>10. (AtStep(bucket[r]) /\ TrueList(bucket[r]) /\ NoGhost(bucket[r]))'
  BY <1>1 DEF AtStep, TrueList, NoGhost, Known, B!Exists
<1>11. NameKnown'
  BY <1>8 DEF BucketInv, NameKnown, Known
<1>12. ASSUME NEW h \in Gates PROVE (InfoTrue(h) /\ ListTrue(h))'
  <2>1. InfoTrue(h)'
    <3>1. CASE info'[h] = info[h]
      BY <1>8, <3>1 DEF BucketInv, InfoTrue, Known
    <3>2. CASE info'[h].cid = d /\ B!Exists(d)
      BY <1>4, <1>8, <3>2 DEF InfoTrue, Known
    <3> QED
      BY <3>1, <3>2
  <2>2. ListTrue(h)'
    BY <1>7, <1>8 DEF BucketInv, ListTrue, Known, SameObjects
  <2> QED
    BY <2>1, <2>2
<1>13. ASSUME NEW c \in B!Containers, cnr'[c] # None
       PROVE  /\ LockedIfVersioned(c)'
              /\ MadeBy(bucket[r], c)' \/ (cnr[c] # None /\ ~MadeBy(bucket[r], c))
  <2>1. CASE c = d
    BY <1>1, <1>2, <1>4, <2>1 DEF BucketInv, LockedIfVersioned, MadeBy
  <2>2. CASE c # d
    BY <1>2, <1>13, <2>2 DEF BucketInv, LockedIfVersioned, MadeBy
  <2> QED
    BY <2>1, <2>2
<1> QED
  BY <1>1, <1>5, <1>6, <1>7, <1>9, <1>10, <1>11, <1>12, <1>13, StepKeeps

LEMMA SetEACLKeeps ==
  ASSUME BucketInv, NEW r \in BucketRequests, B!SetEACL(r)
  PROVE  BucketInv'
<1>1. PICK q, d, e : q = bucket[r] /\ d = q.cid /\ e = B!Cached(q)
  OBVIOUS
<1>2. /\ q \in Request /\ AtStep(q) /\ TrueList(q) /\ q.pc = "acl" /\ q.gate \in Gates
      /\ q.op = "create" /\ Known(d) /\ d \in B!Containers /\ cnr[d] \in Container
      /\ cnr[d].lock = q.lock
  BY <1>1, Here DEF B!SetEACL, AtStep, Known, BucketInv, BucketTyped
<1>3. CASE /\ B!Exists(d) /\ cnr' = [cnr EXCEPT ![d].acl = TRUE]
           /\ info' = [info EXCEPT ![q.gate] = e]
           /\ B!Go(r, IF q.lock THEN "settings" ELSE "done") /\ B!NoFault
  <2>1. PICK x, n : /\ x = [q EXCEPT !.pc = IF q.lock THEN "settings" ELSE "done"]
                    /\ n = [cnr[d] EXCEPT !.acl = TRUE]
    OBVIOUS
  <2>2. B!SetReq(r, x) /\ cnr' = [cnr EXCEPT ![d] = n]
    BY <1>1, <1>2, <1>3, <2>1 DEF B!Go, BucketInv, BucketTyped
  <2>3. /\ x \in Request /\ x.pc = (IF q.lock THEN "settings" ELSE "done") /\ x.op = "create"
        /\ x.cid = d /\ x.gate = q.gate /\ x.lock = q.lock /\ x.old = q.old /\ x.lost = q.lost
        /\ x.overlap = q.overlap
    BY <1>1, <1>2, <2>1 DEF Request, BucketPcs
  <2>4. /\ n \in Container /\ n.acl = TRUE /\ n.there = cnr[d].there /\ n.lock = cnr[d].lock
        /\ n.objects = cnr[d].objects /\ n.versioned = cnr[d].versioned
    BY <1>2, <2>1 DEF Container
  <2>5. /\ e \in InfoEntry /\ e.cid = d
        /\ \A s \in BucketRequests : bucket[s].pc = "delete" /\ bucket[s].cid = d => e.old
    BY <1>1, <1>2 DEF B!Cached, InfoEntry, Request
  <2>6. /\ info' \in [Gates -> InfoEntry] /\ info'[q.gate] = e
        /\ \A h \in Gates \ {q.gate} : info'[h] = info[h]
    BY <1>2, <1>3, <2>5 DEF BucketInv, BucketTyped
  <2>7. InfoKept /\ \A g \in Gates : info'[g] = info[g] \/ (info'[g].cid = d /\ B!Exists(d))
    BY <1>3, <2>5, <2>6 DEF InfoKept
  <2>8. cnr'[d] = n /\ n # None
    BY <1>2, <2>2, <2>4, NoneIsNothing DEF BucketInv, BucketTyped
  <2>9. AtStep(x)'
    BY <1>2, <2>3, <2>4, <2>8 DEF AtStep, Known
  <2>10. TrueList(x)' /\ NoGhost(x)'
    BY <1>2, <2>3 DEF TrueList, NoGhost
  <2>11. ~q.lock => cnr[d].versioned = FALSE
    <3>1. LockedIfVersioned(d)
      BY <1>2 DEF BucketInv, Known
    <3> QED
      BY <1>2, <3>1 DEF LockedIfVersioned, Container
  <2>12. MadeBy(x, d)'
    <3>1. q.lock => x.pc = "settings"
      BY <2>3
    <3>2. ~q.lock => x.pc = "done" /\ n.lock = n.versioned
      <4>1. q.lock \in BOOLEAN /\ cnr[d].lock = q.lock
        BY <1>2 DEF Request, AtStep
      <4>2. ~q.lock => n.lock = FALSE /\ n.versioned = FALSE
        BY <2>4, <2>11, <4>1
      <4> QED
        BY <2>3, <4>2
    <3>3. n.acl = TRUE /\ x.op = "create" /\ x.cid = d
      BY <2>3, <2>4
    <3>4. MadeBy(x, d)' <=> (x.pc \in {"acl", "settings", "failed", "done"}
                              /\ (x.pc = "done" => n.lock = n.versioned))
      BY <2>8, <3>3 DEF MadeBy
    <3> QED
      BY <1>2, <3>1, <3>2, <3>4 DEF Request
  <2>13. UNCHANGED <<named, versions>> /\ B!NoFault
    BY <1>3 DEF B!SetEACL
  <2>14. bucket[r].pc \in {"acl", "settings"} /\ bucket[r].cid = d
    BY <1>1, <1>2
  <2>15. n.versioned = cnr[d].versioned \/ (n.versioned = TRUE /\ n.lock = TRUE)
    BY <2>4
  <2>16. cnr[d].acl => n.acl
    BY <2>4
  <2> QED
    BY <1>2, <2>2, <2>3, <2>4, <2>6, <2>7, <2>9, <2>10, <2>12, <2>13, <2>14, <2>15, <2>16,
       CreatorStep
<1>4. CASE B!Go(r, "failed") /\ UNCHANGED <<cnr, info>>
  <2>1. PICK x : x = [q EXCEPT !.pc = "failed"]
    OBVIOUS
  <2>2. x \in Request /\ AtStep(x) /\ TrueList(x) /\ NoGhost(x)
    BY <1>2, <2>1, FailedFits
  <2>3. x.op = q.op /\ x.cid = q.cid /\ x.pc = "failed"
    BY <1>2, <2>1 DEF Request
  <2>4. \A c \in B!Containers : MadeBy(q, c) => MadeBy(x, c)
    BY <2>3 DEF MadeBy
  <2>5. B!SetReq(r, x) /\ B!Store /\ B!Caches /\ (B!Fault \/ B!NoFault)
    BY <1>1, <1>4, <2>1 DEF B!SetEACL, B!Go, B!Store, B!Caches
  <2> QED
    BY <1>1, <2>2, <2>4, <2>5, OwnStep
<1> QED
  BY <1>1, <1>3, <1>4 DEF B!SetEACL, B!AfterACLFailed

LEMMA PutSettingsKeeps ==
  ASSUME BucketInv, NEW r \in BucketRequests, B!PutSettings(r)
  PROVE  BucketInv'
<1>1. PICK q, d : q = bucket[r] /\ d = q.cid
  OBVIOUS
<1>2. /\ q \in Request /\ AtStep(q) /\ TrueList(q) /\ q.pc = "settings" /\ q.gate \in Gates
      /\ q.op = "create" /\ Known(d) /\ d \in B!Containers /\ cnr[d] \in Container
      /\ cnr[d].lock = q.lock /\ q.lock = TRUE /\ cnr[d].acl = TRUE
  BY <1>1, Here DEF B!PutSettings, AtStep, Known, BucketInv, BucketTyped, Container, Request
<1>3. CASE /\ B!Exists(d) /\ cnr' = [cnr EXCEPT ![d].versioned = TRUE]
           /\ B!Go(r, "done") /\ B!NoFault
  <2>1. PICK x, n : x = [q EXCEPT !.pc = "done"] /\ n = [cnr[d] EXCEPT !.versioned = TRUE]
    OBVIOUS
  <2>2. B!SetReq(r, x) /\ cnr' = [cnr EXCEPT ![d] = n]
    BY <1>1, <1>2, <1>3, <2>1 DEF B!Go, BucketInv, BucketTyped
  <2>3. x \in Request /\ AtStep(x) /\ TrueList(x) /\ NoGhost(x)
    BY <1>2, <2>1, FailedFits
  <2>4. x.pc = "done" /\ x.op = "create" /\ x.cid = d /\ x.gate = q.gate
    BY <1>1, <1>2, <2>1 DEF Request
  <2>5. /\ n \in Container /\ n.acl = cnr[d].acl /\ n.there = cnr[d].there
        /\ n.lock = cnr[d].lock /\ n.objects = cnr[d].objects /\ n.versioned = TRUE
    BY <1>2, <2>1 DEF Container
  <2>6. cnr'[d] = n
    BY <1>2, <2>2 DEF BucketInv, BucketTyped
  <2>7. InfoKept /\ info' = info /\ info' \in [Gates -> InfoEntry] /\ UNCHANGED <<named, versions>>
    BY DEF B!PutSettings, B!Caches, InfoKept, BucketInv, BucketTyped
  <2>8. AtStep(x)' /\ TrueList(x)' /\ NoGhost(x)'
    BY <2>3, <2>4 DEF AtStep, TrueList, NoGhost
  <2>9. MadeBy(x, d)'
    BY <1>2, <2>4, <2>5, <2>6 DEF MadeBy
  <2>10. \A g \in Gates : info'[g] = info[g]
    BY <2>7
  <2> QED
    BY <1>1, <1>2, <1>3, <2>2, <2>3, <2>5, <2>7, <2>8, <2>9, <2>10, CreatorStep
<1>4. CASE B!Go(r, "failed") /\ UNCHANGED cnr
  <2>1. PICK x : x = [q EXCEPT !.pc = "failed"]
    OBVIOUS
  <2>2. x \in Request /\ AtStep(x) /\ TrueList(x) /\ NoGhost(x)
    BY <1>2, <2>1, FailedFits
  <2>3. x.op = q.op /\ x.cid = q.cid /\ x.pc = "failed"
    BY <1>2, <2>1 DEF Request
  <2>4. \A c \in B!Containers : MadeBy(q, c) => MadeBy(x, c)
    BY <2>3 DEF MadeBy
  <2>5. B!SetReq(r, x) /\ B!Store /\ B!Caches /\ (B!Fault \/ B!NoFault)
    BY <1>1, <1>4, <2>1 DEF B!PutSettings, B!Go, B!Store, B!Caches
  <2> QED
    BY <1>1, <2>2, <2>4, <2>5, OwnStep
<1> QED
  BY <1>1, <1>3, <1>4 DEF B!PutSettings

---------------------------------------------------------------------------
(* The steps that all who are running are told of.                         *)
LEMMA OverlappedFields ==
  ASSUME BucketInv, NEW r \in BucketRequests, NEW x \in Request, B!Overlapped(r, x)
  PROVE  /\ bucket' \in [BucketRequests -> Request]
         /\ \A s \in BucketRequests \ {r} : Told(s)
         /\ bucket'[r] \in Request /\ bucket'[r].pc = x.pc /\ bucket'[r].op = x.op
         /\ bucket'[r].gate = x.gate /\ bucket'[r].lock = x.lock /\ bucket'[r].cid = x.cid
         /\ bucket'[r].seen = x.seen /\ bucket'[r].old = x.old /\ bucket'[r].lost = x.lost
         /\ x.overlap => bucket'[r].overlap
<1> DEFINE y == [x EXCEPT !.overlap = @ \/ \E q \in BucketRequests \ {r} : B!Running(bucket[q])]
<1>1. /\ y \in Request /\ y.pc = x.pc /\ y.op = x.op /\ y.gate = x.gate /\ y.lock = x.lock
      /\ y.cid = x.cid /\ y.seen = x.seen /\ y.old = x.old /\ y.lost = x.lost
      /\ x.overlap => y.overlap
  BY DEF Request
<1>2. bucket' = [s \in BucketRequests |-> IF s = r THEN y
                                       ELSE IF B!Running(bucket[s])
                                            THEN [bucket[s] EXCEPT !.overlap = TRUE]
                                       ELSE bucket[s]]
  BY DEF B!Overlapped
<1> HIDE DEF y
<1>3. bucket'[r] = y /\ \A s \in BucketRequests \ {r} : Told(s)
  BY <1>2 DEF Told
<1>4. ASSUME NEW s \in BucketRequests PROVE bucket'[s] \in Request
  <2>1. bucket[s] \in Request
    BY DEF BucketInv, BucketTyped
  <2>2. [bucket[s] EXCEPT !.overlap = TRUE] \in Request
    BY <2>1 DEF Request
  <2> QED
    BY <1>1, <1>2, <2>1, <2>2
<1> QED
  BY <1>1, <1>2, <1>3, <1>4

(* FrostFS takes a name once, and containers in turn: the new one nobody   *)
(* has known.                                                              *)
LEMMA CreateContainerKeeps ==
  ASSUME BucketInv, NEW r \in BucketRequests, B!CreateContainer(r)
  PROVE  BucketInv'
<1>1. PICK q : q = bucket[r]
  OBVIOUS
<1>0. q \in Request /\ AtStep(q) /\ TrueList(q) /\ q.pc = "container"
  BY <1>1, Here DEF B!CreateContainer
<1>2. /\ q \in Request /\ AtStep(q) /\ TrueList(q) /\ q.pc = "container" /\ q.op = "create"
      /\ q.gate \in Gates /\ q.old = FALSE /\ \A c \in B!Containers : ~MadeBy(q, c)
  BY <1>0, OnTheWay DEF AtStep, TrueList, Request
<1>3. ASSUME NEW d \in B!Containers, named = None, cnr[d] = None, NEW next \in {"acl", "failed"},
             cnr' = [cnr EXCEPT ![d] = [B!New(d) EXCEPT !.lock = q.lock]], named' = d,
             B!Overlapped(r, [q EXCEPT !.pc = next, !.cid = d]), B!Fault \/ B!NoFault
      PROVE  BucketInv'
  <2>1. PICK x, n : x = [q EXCEPT !.pc = next, !.cid = d] /\ n = [B!New(d) EXCEPT !.lock = q.lock]
    OBVIOUS
  <2>2. /\ x \in Request /\ x.pc = next /\ x.cid = d /\ x.op = "create" /\ x.gate = q.gate
        /\ x.lock = q.lock /\ x.old = FALSE /\ x.lost = q.lost /\ x.overlap = q.overlap
    BY <1>2, <2>1 DEF Request, BucketPcs
  <2>3. /\ n \in Container /\ n # None /\ n.there = TRUE /\ n.lock = q.lock
        /\ n.versioned = FALSE
    BY <1>2, <2>1, NoneIsNothing DEF B!New, Container, Request
  <2>4. B!Overlapped(r, x) /\ cnr' = [cnr EXCEPT ![d] = n]
    BY <1>3, <2>1
  <2>5. PICK y : y = bucket'[r]
    OBVIOUS
  <2>6. /\ bucket' \in [BucketRequests -> Request] /\ \A s \in BucketRequests \ {r} : Told(s)
        /\ y.pc = next /\ y.op = "create" /\ y.gate = q.gate /\ y.lock = q.lock /\ y.cid = d
        /\ y.old = FALSE /\ y.lost = q.lost /\ (q.overlap => y.overlap)
    BY <2>2, <2>4, <2>5, OverlappedFields
  <2>7. /\ cnr' \in [B!Containers -> Container \cup {None}] /\ cnr'[d] = n
        /\ \A c \in B!Containers \ {d} : cnr'[c] = cnr[c]
    BY <2>3, <2>4 DEF BucketInv, BucketTyped
  <2>8. info' = info /\ versions' = versions
    BY DEF B!CreateContainer, B!Caches
  <2>9. BucketTyped'
    BY <1>3, <2>6, <2>7, <2>8, FaultsBounded DEF BucketInv, BucketTyped
  <2>10. \A c \in B!Containers : cnr[c] # None => c # d /\ cnr'[c] = cnr[c]
    BY <1>3, <2>7
  <2>11. ContainersGrow /\ SameObjects /\ InfoKept
    BY <2>8, <2>10 DEF ContainersGrow, SameObjects, InfoKept
  <2>12. ASSUME NEW c PROVE (B!Exists(c) => B!Exists(c)') /\ (Known(c) => Known(c)') 
    BY <2>10, <1>3, <2>7 DEF B!Exists, Known, BucketInv, BucketTyped
  <2>13. NoneGoes
    BY <2>10 DEF NoneGoes, B!Exists
  <2>14. AtStep(y)' /\ TrueList(y)' /\ NoGhost(y)'
    BY <1>2, <1>3, <2>3, <2>6, <2>7 DEF AtStep, TrueList, NoGhost, Known
  <2>15. (AtStep(bucket[r]) /\ TrueList(bucket[r]) /\ NoGhost(bucket[r]))'
    BY <2>5, <2>14 DEF AtStep, TrueList, NoGhost, Known, B!Exists
  <2>16. NameKnown'
    BY <1>3, <2>3, <2>7 DEF NameKnown, Known
  <2>17. ASSUME NEW g \in Gates PROVE (InfoTrue(g) /\ ListTrue(g))'
    <3>1. InfoTrue(g) /\ ListTrue(g)
      BY DEF BucketInv
    <3> QED
      BY <2>8, <2>10, <3>1 DEF InfoTrue, ListTrue, Known, B!Exists
  <2>18. ASSUME NEW c \in B!Containers, cnr'[c] # None
         PROVE  /\ LockedIfVersioned(c)'
                /\ MadeBy(bucket[r], c)' \/ (cnr[c] # None /\ ~MadeBy(bucket[r], c))
    <3>1. CASE c = d
      BY <2>3, <2>5, <2>6, <2>7, <3>1 DEF LockedIfVersioned, MadeBy
    <3>2. CASE c # d
      BY <1>1, <1>2, <2>7, <2>18, <3>2 DEF BucketInv, LockedIfVersioned
    <3> QED
      BY <3>1, <3>2
  <2> QED
    BY <2>6, <2>9, <2>11, <2>13, <2>15, <2>16, <2>17, <2>18, StepKeeps
<1>4. CASE B!Go(r, "failed") /\ B!Store /\ (B!Fault \/ B!NoFault)
  BY <1>1, <1>2, <1>4, FailedFits, OwnStep DEF B!CreateContainer, B!Go
<1> QED
  BY <1>1, <1>3, <1>4 DEF B!CreateContainer

LEMMA PutObjectKeeps ==
  ASSUME BucketInv, NEW r \in BucketRequests, B!PutObject(r)
  PROVE  BucketInv'
<1>1. PICK q, d : q = bucket[r] /\ d = q.cid
  OBVIOUS
<1>2. /\ q \in Request /\ AtStep(q) /\ TrueList(q) /\ q.pc = "object" /\ q.gate \in Gates
      /\ Known(d) /\ d \in B!Containers /\ cnr[d] \in Container
      /\ q.old = FALSE /\ \A c \in B!Containers : ~MadeBy(q, c)
  BY <1>1, Here, OnTheWay DEF B!PutObject, AtStep, TrueList, Known, BucketInv, BucketTyped, Request
<1>3. CASE /\ B!Exists(d) /\ cnr' = [cnr EXCEPT ![d].objects = @ \cup {r}]
           /\ versions' = B!ListsAfterPut(q.gate, d)
           /\ B!Overlapped(r, [q EXCEPT !.pc = "done"]) /\ B!NoFault
  <2>1. PICK x, n, y : /\ x = [q EXCEPT !.pc = "done"] /\ y = bucket'[r]
                       /\ n = [cnr[d] EXCEPT !.objects = @ \cup {r}]
    OBVIOUS
  <2>2. /\ x \in Request /\ x.pc = "done" /\ x.cid = d /\ x.op = q.op /\ x.gate = q.gate
        /\ x.old = FALSE /\ x.lost = q.lost /\ x.overlap = q.overlap
    BY <1>1, <1>2, <2>1 DEF Request, BucketPcs
  <2>3. /\ n \in Container /\ n # None /\ n.there = cnr[d].there /\ n.lock = cnr[d].lock
        /\ n.versioned = cnr[d].versioned /\ n.acl = cnr[d].acl
    BY <1>2, <2>1, NoneIsNothing DEF Container
  <2>4. B!Overlapped(r, x) /\ cnr' = [cnr EXCEPT ![d] = n]
    BY <1>2, <1>3, <2>1 DEF BucketInv, BucketTyped
  <2>5. /\ bucket' \in [BucketRequests -> Request] /\ \A s \in BucketRequests \ {r} : Told(s)
        /\ y.pc = "done" /\ y.op = q.op /\ y.gate = q.gate
        /\ y.old = FALSE /\ y.lost = q.lost /\ (q.overlap => y.overlap)
    BY <2>1, <2>2, <2>4, OverlappedFields
  <2>6. /\ cnr' \in [B!Containers -> Container \cup {None}] /\ cnr'[d] = n
        /\ \A c \in B!Containers \ {d} : cnr'[c] = cnr[c]
    BY <1>2, <2>3, <2>4 DEF BucketInv, BucketTyped
  <2>7. named' = named /\ info' = info
    BY DEF B!PutObject
  <2>8. ASSUME NEW g \in Gates
        PROVE  /\ versions'[g] \in ListEntry
               /\ \/ versions'[g].cid = None
                  \/ versions'[g].cid = versions[g].cid /\ versions'[g].old
                  \/ versions[g].cid # d /\ versions'[g] = versions[g]
    <3>1. versions[g] \in ListEntry
      BY DEF BucketInv, BucketTyped
    <3> QED
      BY <1>3, <3>1 DEF B!ListsAfterPut, ListEntry
  <2>9. versions' \in [Gates -> ListEntry]
    BY <1>3, <2>8 DEF B!ListsAfterPut
  <2>10. BucketTyped'
    BY <1>3, <2>5, <2>6, <2>7, <2>9, FaultsBounded DEF BucketInv, BucketTyped
  <2>11. ContainersGrow /\ InfoKept
    BY <1>2, <2>3, <2>6, <2>7 DEF ContainersGrow, InfoKept, Container
  <2>12. ASSUME NEW c \in B!Containers
         PROVE  (B!Exists(c) <=> B!Exists(c)') /\ (Known(c) => Known(c)')
    BY <1>2, <2>3, <2>6 DEF B!Exists, Known
  <2>13. NoneGoes
    BY <2>12 DEF NoneGoes
  <2>14. (AtStep(bucket[r]) /\ TrueList(bucket[r]) /\ NoGhost(bucket[r]))'
    BY <1>2, <2>1, <2>5 DEF AtStep, TrueList, NoGhost
  <2>15. NameKnown'
    BY <2>7, <2>12 DEF BucketInv, NameKnown, Known
  <2>16. ASSUME NEW g \in Gates PROVE (InfoTrue(g) /\ ListTrue(g))'
    <3>1. InfoTrue(g) /\ ListTrue(g)
      BY DEF BucketInv
    <3>2. InfoTrue(g)'
      BY <2>7, <2>12, <3>1 DEF InfoTrue, Known
    <3>3. ListTrue(g)'
      BY <2>6, <2>8, <2>12, <3>1 DEF ListTrue, Known
    <3> QED
      BY <3>2, <3>3
  <2>17. ASSUME NEW c \in B!Containers, cnr'[c] # None
         PROVE  /\ LockedIfVersioned(c)'
                /\ MadeBy(bucket[r], c)' \/ (cnr[c] # None /\ ~MadeBy(bucket[r], c))
    BY <1>1, <1>2, <2>3, <2>6, <2>17 DEF BucketInv, LockedIfVersioned, Known
  <2> QED
    BY <2>5, <2>10, <2>11, <2>13, <2>14, <2>15, <2>16, <2>17, StepKeeps
<1>4. CASE B!Go(r, "failed") /\ UNCHANGED <<cnr, versions>> /\ B!NoFault
  BY <1>1, <1>2, <1>4, FailedFits, OwnStep DEF B!PutObject, B!Go, B!Store, B!Caches
<1> QED
  BY <1>1, <1>3, <1>4 DEF B!PutObject

(* A deletion that nobody overlapped went by a true list, which was empty; *)
(* every other gate is left with what it knew, and its own gate knows the  *)
(* bucket only by one who was told of the deletion.                        *)
LEMMA DeleteContainerKeeps ==
  ASSUME BucketInv, NEW r \in BucketRequests, B!DeleteContainer(r)
  PROVE  BucketInv'
<1>1. PICK q, d : q = bucket[r] /\ d = q.cid
  OBVIOUS
<1>2. /\ q \in Request /\ AtStep(q) /\ TrueList(q) /\ NoGhost(q) /\ q.pc = "delete"
      /\ q.gate \in Gates /\ Known(d) /\ d \in B!Containers /\ cnr[d] \in Container
      /\ \A c \in B!Containers : ~MadeBy(q, c)
  BY <1>1, Here, OnTheWay DEF B!DeleteContainer, AtStep, Known, BucketInv, BucketTyped
<1>3. CASE /\ B!Exists(d) /\ B!NoFault
           /\ cnr' = [cnr EXCEPT ![d] = [@ EXCEPT !.there = FALSE]]
           /\ named' = IF named = d THEN None ELSE named
           /\ B!Overlapped(r, [q EXCEPT !.pc = "done", !.lost = cnr[d].objects])
           /\ info' = [g \in Gates |-> IF info[g].cid = d /\ g # q.gate
                                       THEN [info[g] EXCEPT !.old = TRUE] ELSE info[g]]
  <2>1. PICK x, n, y : /\ x = [q EXCEPT !.pc = "done", !.lost = cnr[d].objects] /\ y = bucket'[r]
                       /\ n = [cnr[d] EXCEPT !.there = FALSE]
    OBVIOUS
  <2>2. /\ x \in Request /\ x.pc = "done" /\ x.cid = d /\ x.op = q.op /\ x.gate = q.gate
        /\ x.old = q.old /\ x.lost = cnr[d].objects /\ x.overlap = q.overlap
    BY <1>1, <1>2, <2>1 DEF Request, BucketPcs, Container
  <2>3. /\ n \in Container /\ n # None /\ n.there = FALSE /\ n.lock = cnr[d].lock
        /\ n.versioned = cnr[d].versioned /\ n.acl = cnr[d].acl /\ n.objects = cnr[d].objects
    BY <1>2, <2>1, NoneIsNothing DEF Container
  <2>4. B!Overlapped(r, x) /\ cnr' = [cnr EXCEPT ![d] = n]
    BY <1>2, <1>3, <2>1 DEF BucketInv, BucketTyped
  <2>5. /\ bucket' \in [BucketRequests -> Request] /\ \A s \in BucketRequests \ {r} : Told(s)
        /\ y.pc = "done" /\ y.op = q.op /\ y.gate = q.gate
        /\ y.old = q.old /\ y.lost = cnr[d].objects /\ (q.overlap => y.overlap)
    BY <2>1, <2>2, <2>4, OverlappedFields
  <2>6. /\ cnr' \in [B!Containers -> Container \cup {None}] /\ cnr'[d] = n
        /\ \A c \in B!Containers \ {d} : cnr'[c] = cnr[c]
    BY <1>2, <2>3, <2>4 DEF BucketInv, BucketTyped
  <2>7. versions' = versions
    BY DEF B!DeleteContainer
  <2>8. ASSUME NEW g \in Gates
        PROVE  /\ info'[g] \in InfoEntry /\ info'[g].cid = info[g].cid
               /\ info[g].old => info'[g].old
               /\ info'[g].cid = d => info'[g].old
    <3>1. info[g] \in InfoEntry
      BY DEF BucketInv, BucketTyped
    <3>2. g = q.gate /\ info[g].cid = d => info[g].old
      BY <1>1, <1>2 DEF NoGhost
    <3> QED
      BY <1>3, <3>1, <3>2 DEF InfoEntry
  <2>9. info' \in [Gates -> InfoEntry]
    BY <1>3, <2>8
  <2>10. named' \in B!Containers \cup {None}
    BY <1>3 DEF BucketInv, BucketTyped
  <2>11. BucketTyped'
    BY <1>3, <2>5, <2>6, <2>7, <2>9, <2>10, FaultsBounded DEF BucketInv, BucketTyped
  <2>12. ContainersGrow /\ SameObjects /\ InfoKept
    BY <1>2, <2>3, <2>6, <2>8 DEF ContainersGrow, SameObjects, InfoKept, Container
  <2>13. ASSUME NEW c \in B!Containers
         PROVE  (Known(c) => Known(c)') /\ (c # d => (B!Exists(c) <=> B!Exists(c)'))
    BY <1>2, <2>3, <2>6 DEF B!Exists, Known
  <2>14. ~q.overlap /\ ~q.old => cnr[d].objects = {}
    BY <1>1, <1>2 DEF TrueList
  <2>15. (AtStep(bucket[r]) /\ TrueList(bucket[r]) /\ NoGhost(bucket[r]))'
    BY <1>2, <2>1, <2>5, <2>14 DEF AtStep, TrueList, NoGhost
  <2>16. NameKnown'
    BY <1>3, <2>13 DEF BucketInv, NameKnown, Known
  <2>17. ASSUME NEW g \in Gates PROVE (InfoTrue(g) /\ ListTrue(g))'
    <3>1. InfoTrue(g) /\ ListTrue(g)
      BY DEF BucketInv
    <3>2. InfoTrue(g)'
      BY <2>8, <2>13, <3>1 DEF InfoTrue, Known
    <3>3. ListTrue(g)'
      BY <2>7, <2>12, <2>13, <3>1 DEF ListTrue, Known, SameObjects
    <3> QED
      BY <3>2, <3>3
  <2>18. ASSUME NEW c \in B!Containers, cnr'[c] # None
         PROVE  /\ LockedIfVersioned(c)'
                /\ MadeBy(bucket[r], c)' \/ (cnr[c] # None /\ ~MadeBy(bucket[r], c))
    BY <1>1, <1>2, <2>3, <2>6, <2>18 DEF BucketInv, LockedIfVersioned, Known
  <2> QED
    BY <2>5, <2>11, <2>12, <2>15, <2>16, <2>17, <2>18, StepKeeps
<1>4. CASE B!Go(r, "failed") /\ B!Store /\ UNCHANGED info /\ (B!Fault \/ B!NoFault)
  BY <1>1, <1>2, <1>4, FailedFits, OwnStep DEF B!DeleteContainer, B!Go, B!Caches
<1> QED
  BY <1>1, <1>3, <1>4 DEF B!DeleteContainer

(* An entry that runs out, and a step of nobody.                           *)
LEMMA BucketNobodyKeeps ==
  ASSUME BucketInv, UNCHANGED B!vars \/ \E g \in Gates : B!Expire(g)
  PROVE  BucketInv'
<1>1. /\ cnr' = cnr /\ named' = named /\ bucket' = bucket /\ bucketFaults' = bucketFaults
  BY DEF B!vars, B!Expire, B!Store
<1>2. /\ info' \in [Gates -> InfoEntry] /\ versions' \in [Gates -> ListEntry]
      /\ \A g \in Gates : /\ info'[g] = info[g] \/ info'[g].cid = None
                          /\ versions'[g] = versions[g] \/ versions'[g].cid = None
  <2>1. /\ [cid |-> None, old |-> FALSE] \in InfoEntry
        /\ [cid |-> None, seen |-> {}, old |-> FALSE] \in ListEntry
    BY DEF InfoEntry, ListEntry
  <2>2. info \in [Gates -> InfoEntry] /\ versions \in [Gates -> ListEntry]
    BY DEF BucketInv, BucketTyped
  <2>3. CASE UNCHANGED B!vars
    BY <2>2, <2>3 DEF B!vars
  <2>4. ASSUME NEW g \in Gates, info' = [info EXCEPT ![g] = [cid |-> None, old |-> FALSE]],
               versions' = versions
        PROVE  /\ info' \in [Gates -> InfoEntry] /\ versions' \in [Gates -> ListEntry]
               /\ \A h \in Gates : info'[h] = info[h] \/ info'[h].cid = None
    BY <2>1, <2>2, <2>4
  <2>5. ASSUME NEW g \in Gates, info' = info,
               versions' = [versions EXCEPT ![g] = [cid |-> None, seen |-> {}, old |-> FALSE]]
        PROVE  /\ info' \in [Gates -> InfoEntry] /\ versions' \in [Gates -> ListEntry]
               /\ \A h \in Gates : versions'[h] = versions[h] \/ versions'[h].cid = None
    BY <2>1, <2>2, <2>5
  <2> QED
    BY <2>3, <2>4, <2>5 DEF B!Expire
<1>4. BucketTyped'
  BY <1>1, <1>2 DEF BucketInv, BucketTyped
<1>5. ContainersGrow /\ SameObjects /\ NoneGoes /\ InfoKept
  <2>1. ContainersGrow /\ SameObjects
    BY <1>1 DEF ContainersGrow, SameObjects
  <2>2. NoneGoes
    BY <1>1 DEF NoneGoes, B!Exists
  <2>3. InfoKept
    BY <1>2 DEF InfoKept
  <2> QED
    BY <2>1, <2>2, <2>3
<1>6. ASSUME NEW s \in BucketRequests
      PROVE  (AtStep(bucket[s]) /\ TrueList(bucket[s]) /\ NoGhost(bucket[s]))'
  BY <1>1, <1>5, OtherKeeps DEF Stays
<1>7. ASSUME NEW c \in B!Containers, cnr'[c] # None
      PROVE  LockedIfVersioned(c)' /\ \E s \in BucketRequests : MadeBy(bucket[s], c)'
  BY <1>1, <1>7 DEF BucketInv, LockedIfVersioned, MadeBy
<1>8. ASSUME NEW g \in Gates PROVE (InfoTrue(g) /\ ListTrue(g))'
  <2>1. InfoTrue(g) /\ ListTrue(g)
    BY DEF BucketInv
  <2>2. InfoTrue(g)'
    <3>1. CASE info'[g] = info[g]
      BY <1>1, <2>1, <3>1 DEF InfoTrue, Known, B!Exists
    <3>2. CASE info'[g].cid = None
      BY <3>2 DEF InfoTrue
    <3> QED
      BY <1>2, <3>1, <3>2
  <2>3. ListTrue(g)'
    <3>1. CASE versions'[g] = versions[g]
      BY <1>1, <2>1, <3>1 DEF ListTrue, Known
    <3>2. CASE versions'[g].cid = None
      BY <3>2 DEF ListTrue
    <3> QED
      BY <1>2, <3>1, <3>2
  <2> QED
    BY <2>2, <2>3
<1>9. NameKnown'
  BY <1>1 DEF BucketInv, NameKnown, Known
<1> QED
  BY <1>4, <1>6, <1>7, <1>8, <1>9 DEF BucketInv

LEMMA BucketsNextKeep ==
  ASSUME BucketInv, [B!Next]_B!vars
  PROVE  BucketInv'
<1>1. ASSUME NEW r \in BucketRequests,
             \/ B!Arrive(r) \/ B!Lookup(r) \/ B!Fetch(r) \/ B!Remember(r)
             \/ B!CreateContainer(r) \/ B!SetEACL(r) \/ B!PutSettings(r) \/ B!PutObject(r)
             \/ B!ListVersions(r) \/ B!KeepList(r) \/ B!CheckEmpty(r) \/ B!DeleteContainer(r)
      PROVE  BucketInv'
  BY <1>1, BucketArriveKeeps, LookupKeeps, FetchKeeps, RememberKeeps,
     CreateContainerKeeps, SetEACLKeeps, PutSettingsKeeps, PutObjectKeeps, ListVersionsKeeps,
     KeepListKeeps, CheckEmptyKeeps, DeleteContainerKeeps
<1>2. CASE UNCHANGED B!vars \/ \E g \in Gates : B!Expire(g)
  BY <1>2, BucketNobodyKeeps
<1> QED
  BY <1>1, <1>2 DEF B!Next

LEMMA BucketInvIsEnough ==
  ASSUME BucketInv
  PROVE  B!HalfMadeOnlyByFailure /\ B!LostOnlyByStaleList /\ B!GhostOnlyByRace
<1>1. ASSUME NEW c \in B!Containers, B!Exists(c), ~cnr[c].acl \/ cnr[c].lock # cnr[c].versioned
      PROVE  \E r \in BucketRequests :
               bucket[r].op = "create" /\ bucket[r].cid = c /\ bucket[r].pc # "done"
  BY <1>1 DEF BucketInv, B!Exists, MadeBy
<1>2. B!LostOnlyByStaleList
  BY DEF BucketInv, TrueList, B!LostOnlyByStaleList
<1>3. B!GhostOnlyByRace
  BY DEF BucketInv, InfoTrue, B!GhostOnlyByRace
<1> QED
  BY <1>1, <1>2, <1>3 DEF B!HalfMadeOnlyByFailure

(* Only by a failure a bucket lacks its access table or its versioning;    *)
(* only by an overlap or an old list objects are deleted with their        *)
(* bucket, and only by a race a gate knows a bucket that is gone.          *)
THEOREM BucketsHold == Spec => []BucketsAreWhole
<1>1. Init => BucketInv
  BY BucketsStart DEF Init
<1>2. BucketInv /\ [Next]_vars => BucketInv'
  <2> SUFFICES ASSUME BucketInv, [Next]_vars PROVE BucketInv'
    OBVIOUS
  <2>1. [B!Next]_B!vars
    BY DEF Next, vars, bucketVars, B!vars
  <2> QED
    BY <2>1, BucketsNextKeep
<1>3. BucketInv => BucketsAreWhole
  BY BucketInvIsEnough DEF BucketsAreWhole
<1> QED
  BY <1>1, <1>2, <1>3, PTL DEF Spec

---------------------------------------------------------------------------
(* Tags: what Tagging_proofs shows of any instance.                        *)

(* But for failures, overlaps and aliases a version has the tags that were *)
(* put last, none of those of the version it replaced, and no stale ones   *)
(* in the cache.                                                           *)
THEOREM TagsHold == Spec => []TagsAreOfTheirVersion
<1>1. Init => T!Init
  BY DEF Init
<1>2. [Next]_vars => [T!Next]_T!vars
  BY DEF Next, vars, tagVars, T!vars, T!stores, T!caches
<1>3. T!Spec => []T!TagsAreOfTheirVersion
  BY TagIdsDiffer, T!TagsKeptToVersions
<1>4. T!TagsAreOfTheirVersion => TagsAreOfTheirVersion
  BY DEF TagsAreOfTheirVersion
<1> QED
  BY <1>1, <1>2, <1>3, <1>4, PTL DEF Spec, T!Spec

---------------------------------------------------------------------------
(* CORS                                                                    *)

IsQuestion(a) ==
  /\ a = [level |-> a.level, method |-> a.method, queries |-> a.queries, header |-> a.header,
          origin |-> a.origin, headers |-> a.headers, signed |-> a.signed]
  /\ a.signed \in BOOLEAN
IsRoute(q) ==
  /\ q = [pc |-> q.pc, q |-> q.q, op |-> q.op, asked |-> q.asked, preflight |-> q.preflight,
          answer |-> q.answer, changed |-> q.changed, failed |-> q.failed]
  /\ IsQuestion(q.q) /\ q.changed \in BOOLEAN /\ q.failed \in BOOLEAN
  /\ q.pc \in {"idle", "preflight", "route", "done"}

(* A preflight was allowed by the configuration that was asked, which is   *)
(* still in force as long as the request is not told of a change.          *)
PreflightHolds(q) ==
  /\ q.pc \in {"idle", "preflight"} => q.asked = None /\ q.preflight = R!Silent
  /\ q.pc = "preflight" => q.q.level = "object" /\ q.q.method # "OPTIONS"
  /\ q.preflight # R!Silent =>
       /\ q.q.origin # None /\ q.q.level = "object" /\ q.q.method # "OPTIONS"
       /\ q.asked # None /\ R!Fitting(q.asked, q.q.origin, q.q.method) # {}
       /\ q.pc = "route" /\ ~q.changed => cors = q.asked

AnswerFits(q) ==
  q.pc = "done" /\ q.preflight # R!Silent /\ ~q.changed /\ ~q.failed =>
    \/ q.answer = [origin |-> q.q.origin, credentials |-> TRUE]
    \/ ~q.q.signed /\ q.answer.origin = R!Wildcard

RouteInv ==
  /\ route = [r \in RouteRequests |-> route[r]]
  /\ \A r \in RouteRequests :
       IsRoute(route[r]) /\ PreflightHolds(route[r]) /\ AnswerFits(route[r])

LEMMA RouteStart == R!Init => RouteInv
<1> SUFFICES ASSUME R!Init PROVE RouteInv
  OBVIOUS
<1>1. /\ route = [r \in RouteRequests |-> R!Idle] /\ IsRoute(R!Idle)
      /\ R!Idle.pc = "idle" /\ R!Idle.asked = None /\ R!Idle.preflight = R!Silent
  BY DEF R!Init, R!Idle, R!NoQuestion, IsRoute, IsQuestion
<1> QED
  BY <1>1 DEF RouteInv, PreflightHolds, AnswerFits

(* A step of a request changes nothing for another.                        *)
LEMMA RouteStep ==
  ASSUME RouteInv, NEW r \in RouteRequests, NEW x, R!Update(r, x), UNCHANGED cors,
         IsRoute(x), PreflightHolds(x), AnswerFits(x)
  PROVE  RouteInv'
<1>1. \A s \in RouteRequests : route'[s] = IF s = r THEN x ELSE route[s]
  BY DEF RouteInv, R!Update
<1>2. route' = [s \in RouteRequests |-> route'[s]]
  BY DEF RouteInv, R!Update
<1>3. ASSUME NEW s \in RouteRequests
      PROVE  (IsRoute(route[s]) /\ PreflightHolds(route[s]) /\ AnswerFits(route[s]))'
  <2>1. PICK y : y = route'[s] /\ IsRoute(y) /\ PreflightHolds(y) /\ AnswerFits(y)
    BY <1>1 DEF RouteInv
  <2>2. PreflightHolds(y)'
    BY <2>1 DEF PreflightHolds
  <2> QED
    BY <2>1, <2>2 DEF IsRoute, PreflightHolds, AnswerFits
<1> QED
  BY <1>2, <1>3 DEF RouteInv

LEMMA ArrivesOrBrowses ==
  ASSUME RouteInv, NEW r \in RouteRequests, R!Arrive(r) \/ R!Browse(r)
  PROVE  RouteInv'
<1>1. CASE R!Arrive(r)
  <2>1. PICK queries, level, method, header :
          R!Update(r, [R!Idle EXCEPT !.pc = "route",
            !.q = [R!NoQuestion EXCEPT !.level = level, !.method = method,
                                       !.queries = queries, !.header = header]])
    BY <1>1 DEF R!Arrive
  <2>2. PICK a, x : /\ x = [R!Idle EXCEPT !.pc = "route", !.q = a]
                    /\ a = [R!NoQuestion EXCEPT !.level = level, !.method = method,
                                                !.queries = queries, !.header = header]
    OBVIOUS
  <2>3. IsQuestion(a)
    BY <2>2 DEF R!NoQuestion, IsQuestion
  <2>4. IsRoute(x) /\ x.pc = "route" /\ x.preflight = R!Silent
    BY <2>2, <2>3 DEF R!Idle, IsRoute
  <2> QED
    BY <1>1, <2>1, <2>2, <2>4, RouteStep DEF R!Arrive, PreflightHolds, AnswerFits
<1>2. CASE R!Browse(r)
  <2>1. PICK method \in R!Methods \ {"OPTIONS"}, origin \in Origins \cup {None},
             sign \in BOOLEAN, headers \in {<<>>, <<"h">>, <<"h", "k">>} :
          R!Update(r, [R!Idle EXCEPT !.pc = "preflight",
            !.q = [R!NoQuestion EXCEPT !.level = "object", !.method = method, !.origin = origin,
                                       !.headers = headers, !.signed = sign]])
    BY <1>2 DEF R!Browse
  <2>2. PICK a, x : /\ x = [R!Idle EXCEPT !.pc = "preflight", !.q = a]
                    /\ a = [R!NoQuestion EXCEPT !.level = "object", !.method = method,
                              !.origin = origin, !.headers = headers, !.signed = sign]
    OBVIOUS
  <2>3. IsQuestion(a) /\ a.level = "object" /\ a.method # "OPTIONS"
    BY <2>2 DEF R!NoQuestion, IsQuestion
  <2>4. /\ IsRoute(x) /\ x.pc = "preflight" /\ x.q = a /\ x.asked = None
        /\ x.preflight = R!Silent
    BY <2>2, <2>3 DEF R!Idle, IsRoute
  <2> QED
    BY <1>2, <2>1, <2>2, <2>3, <2>4, RouteStep DEF R!Browse, PreflightHolds, AnswerFits
<1> QED
  BY <1>1, <1>2

LEMMA AskPreflightKeeps ==
  ASSUME RouteInv, NEW r \in RouteRequests, R!AskPreflight(r)
  PROVE  RouteInv'
<1>1. PICK q : q = route[r] /\ IsRoute(q) /\ PreflightHolds(q) /\ q.pc = "preflight"
  BY DEF RouteInv, R!AskPreflight
<1>2. CASE R!Update(r, [q EXCEPT !.pc = "route"])
  <2>1. PICK x : x = [q EXCEPT !.pc = "route"]
    OBVIOUS
  <2>2. IsRoute(x) /\ x.pc = "route" /\ x.preflight = R!Silent
    BY <1>1, <2>1 DEF IsRoute, PreflightHolds
  <2> QED
    BY <1>2, <2>1, <2>2, RouteStep DEF R!AskPreflight, PreflightHolds, AnswerFits
<1>3. CASE /\ cors # None
           /\ R!Update(r, [q EXCEPT !.pc = "route", !.asked = cors,
                                    !.preflight = R!Preflight(cors, q.q)])
  <2>1. PICK x, p : /\ p = R!Preflight(cors, q.q)
                    /\ x = [q EXCEPT !.pc = "route", !.asked = cors, !.preflight = p]
    OBVIOUS
  <2>2. IsRoute(x) /\ x.pc = "route" /\ x.preflight = p /\ x.asked = cors /\ x.q = q.q
    BY <1>1, <2>1 DEF IsRoute
  <2>3. p # R!Silent => q.q.origin # None /\ R!Fitting(cors, q.q.origin, q.q.method) # {}
    BY <2>1 DEF R!Preflight
  <2>4. PreflightHolds(x) /\ AnswerFits(x)
    BY <1>1, <1>3, <2>2, <2>3 DEF PreflightHolds, AnswerFits
  <2> QED
    BY <1>3, <2>1, <2>2, <2>4, RouteStep DEF R!AskPreflight
<1> QED
  BY <1>1, <1>2, <1>3 DEF R!AskPreflight

(* Who fits the rules for a preflight fits them for the answer.            *)
LEMMA ServeKeeps ==
  ASSUME RouteInv, NEW r \in RouteRequests, R!Serve(r)
  PROVE  RouteInv'
<1>1. PICK q : q = route[r] /\ IsRoute(q) /\ PreflightHolds(q) /\ q.pc = "route"
  BY DEF RouteInv, R!Serve
<1>2. PICK told, op, x :
        /\ told = (IF cors = None \/ q.q.origin = None \/ q.q.method = "OPTIONS"
                      \/ q.q.level = "root"
                   THEN R!Silent ELSE R!AppendCORSHeaders(cors, q.q))
        /\ R!Update(r, x)
        /\ \/ x = [q EXCEPT !.pc = "done", !.op = op, !.answer = told]
           \/ x = [q EXCEPT !.pc = "done", !.op = op, !.failed = TRUE]
  BY <1>1 DEF R!Serve
<1>3. /\ IsRoute(x) /\ x.pc = "done" /\ x.q = q.q /\ x.preflight = q.preflight
      /\ x.asked = q.asked /\ x.changed = q.changed /\ (x.failed \/ x.answer = told)
  BY <1>1, <1>2 DEF IsRoute
<1>4. PreflightHolds(x)
  BY <1>1, <1>3 DEF PreflightHolds
<1>5. ASSUME q.preflight # R!Silent, ~q.changed
      PROVE  \/ told = [origin |-> q.q.origin, credentials |-> TRUE]
             \/ ~q.q.signed /\ told.origin = R!Wildcard
  <2>1. /\ cors # None /\ q.q.origin # None /\ q.q.method # "OPTIONS" /\ q.q.level = "object"
        /\ R!Fitting(cors, q.q.origin, q.q.method) # {}
    BY <1>1, <1>5 DEF PreflightHolds
  <2>2. told = R!AppendCORSHeaders(cors, q.q)
    BY <1>2, <2>1
  <2> QED
    BY <2>1, <2>2 DEF R!AppendCORSHeaders
<1>6. AnswerFits(x)
  BY <1>3, <1>5 DEF AnswerFits
<1> QED
  BY <1>2, <1>3, <1>4, <1>6, RouteStep DEF R!Serve

(* Whoever has asked is told of a change.                                  *)
LEMMA PutCORSKeeps ==
  ASSUME RouteInv, R!PutCORS
  PROVE  RouteInv'
<1>1. ASSUME NEW r \in RouteRequests
      PROVE  (IsRoute(route[r]) /\ PreflightHolds(route[r]) /\ AnswerFits(route[r]))'
  <2>1. PICK q, x : /\ q = route[r] /\ IsRoute(q) /\ PreflightHolds(q) /\ AnswerFits(q)
                    /\ x = route'[r] /\ x = [q EXCEPT !.changed = @ \/ q.asked # None]
    BY DEF RouteInv, R!PutCORS
  <2>2. /\ IsRoute(x) /\ x.pc = q.pc /\ x.q = q.q /\ x.asked = q.asked /\ x.failed = q.failed
        /\ x.preflight = q.preflight /\ x.answer = q.answer
        /\ x.changed <=> (q.changed \/ q.asked # None)
    BY <2>1 DEF IsRoute
  <2>3. PreflightHolds(x)' /\ AnswerFits(x)
    BY <2>1, <2>2 DEF PreflightHolds, AnswerFits
  <2> QED
    BY <2>1, <2>2, <2>3 DEF IsRoute, PreflightHolds, AnswerFits
<1>2. route' = [r \in RouteRequests |-> route'[r]]
  BY DEF R!PutCORS
<1> QED
  BY <1>1, <1>2 DEF RouteInv

LEMMA RouteNextKeeps ==
  ASSUME RouteInv, [R!Next]_R!vars
  PROVE  RouteInv'
<1>1. CASE UNCHANGED R!vars
  BY <1>1 DEF R!vars, RouteInv, IsRoute, PreflightHolds, AnswerFits
<1> QED
  BY <1>1, ArrivesOrBrowses, AskPreflightKeeps, ServeKeeps, PutCORSKeeps DEF R!Next

(* What a preflight allowed, a browser can use.                            *)
THEOREM AllowedHolds == Spec => []AllowedIsUsable
<1>1. Init => RouteInv
  BY RouteStart DEF Init
<1>2. RouteInv /\ [Next]_vars => RouteInv'
  <2> SUFFICES ASSUME RouteInv, [Next]_vars PROVE RouteInv'
    OBVIOUS
  <2>1. [R!Next]_R!vars
    BY DEF Next, vars, routeVars, R!vars
  <2> QED
    BY <2>1, RouteNextKeeps
<1>3. RouteInv => AllowedIsUsable
  BY DEF RouteInv, AnswerFits, AllowedIsUsable, R!AllowedIsUsable
<1> QED
  BY <1>1, <1>2, <1>3, PTL DEF Spec

---------------------------------------------------------------------------
(* Notifications                                                           *)

IsConf(c) == DOMAIN c = 1 .. Len(c) /\ Len(c) \in Nat
Topics(q) == N!FilterSubjects(q.conf, q.event, q.obj)

IsEvent(q) ==
  /\ q = [op |-> q.op, pc |-> q.pc, conf |-> q.conf, i |-> q.i, event |-> q.event,
          obj |-> q.obj, todo |-> q.todo, lost |-> q.lost]
  /\ IsConf(q.conf) /\ q.i \in Nat
  /\ q.op \in {"none", "put", "send"} /\ (q.pc = "idle" => q.op = "none")
  /\ q.pc = "check" => q.op = "put"
  /\ q.op # "send" => q.todo = {}
  /\ q.pc = "publish" => q.op = "send"

(* The queues before the one that is looked at have had their test event.  *)
TestedSoFar(q) ==
  Enabled /\ q.pc = "check" => \A j \in DOMAIN q.conf : j < q.i => q.conf[j].queue \in tested

(* Who is told, is lost or is still to be told is a topic of the operation,*)
(* and every topic is one of them.                                         *)
ToldSoFar(r, q) ==
  /\ q.op # "send" => \A s \in sent : s.r # r
  /\ q.op = "send" => \A s \in sent : s.r = r => [id |-> s.id, queue |-> s.queue] \in Topics(q)
  /\ q.op = "send" /\ q.pc \in {"publish", "done"} =>
       \A t \in Topics(q) : \/ t \in q.todo \cup q.lost
                            \/ \E s \in sent : s.r = r /\ s.id = t.id /\ s.queue = t.queue
  /\ q.todo \subseteq Topics(q)
  /\ q.pc = "done" => q.todo = {}

EventInv ==
  /\ confReq = [r \in EventRequests |-> confReq[r]]
  /\ IsConf(conf) /\ N!SavedIsTested
  /\ \A r \in EventRequests :
       IsEvent(confReq[r]) /\ TestedSoFar(confReq[r]) /\ ToldSoFar(r, confReq[r])

LEMMA ConfsAreSequences == \A c \in Confs : IsConf(c)
BY ConfsAssumption DEF IsConf

LEMMA TopicForm ==
  ASSUME NEW q, NEW t \in Topics(q)
  PROVE  t = [id |-> t.id, queue |-> t.queue]
BY DEF Topics, N!FilterSubjects

LEMMA EventStart == N!Init => EventInv
<1> SUFFICES ASSUME N!Init PROVE EventInv
  OBVIOUS
<1>1. /\ N!Idle.pc = "idle" /\ N!Idle.op = "none" /\ N!Idle.todo = {} /\ N!Idle.conf = <<>>
      /\ N!Idle.i = 0
  BY DEF N!Idle
<1>2. IsConf(<<>>)
  BY DEF IsConf
<1>3. IsEvent(N!Idle)
  BY <1>1, <1>2 DEF N!Idle, IsEvent
<1>4. sent = {} /\ conf = <<>> /\ confReq = [r \in EventRequests |-> N!Idle]
  BY DEF N!Init
<1>5. N!SavedIsTested
  BY <1>4 DEF N!SavedIsTested
<1> QED
  BY <1>1, <1>2, <1>3, <1>4, <1>5 DEF EventInv, TestedSoFar, ToldSoFar

(* A step of a request, of which nobody else is told.                      *)
LEMMA EventStep ==
  ASSUME EventInv, NEW r \in EventRequests, NEW x, N!Step(r, x), IsEvent(x),
         TestedSoFar(x)', ToldSoFar(r, x)', tested \subseteq tested',
         \A s \in sent' : s \in sent \/ s.r = r, sent \subseteq sent',
         IsConf(conf)', N!SavedIsTested'
  PROVE  EventInv'
<1>1. \A s \in EventRequests : confReq'[s] = IF s = r THEN x ELSE confReq[s]
  BY DEF EventInv, N!Step
<1>2. confReq' = [s \in EventRequests |-> confReq'[s]]
  BY DEF EventInv, N!Step
<1>3. ASSUME NEW s \in EventRequests
      PROVE  (IsEvent(confReq[s]) /\ TestedSoFar(confReq[s]) /\ ToldSoFar(s, confReq[s]))'
  <2>1. PICK y : y = confReq'[s]
    OBVIOUS
  <2>2. CASE s = r
    BY <1>1, <2>2 DEF TestedSoFar, ToldSoFar, IsEvent, Topics
  <2>3. CASE s # r
    <3>1. y = confReq[s] /\ IsEvent(y) /\ TestedSoFar(y) /\ ToldSoFar(s, y)
      BY <1>1, <2>1, <2>3 DEF EventInv
    <3>2. TestedSoFar(y)'
      BY <3>1 DEF TestedSoFar
    <3>3. ToldSoFar(s, y)'
      BY <2>3, <3>1 DEF ToldSoFar
    <3> QED
      BY <2>1, <3>1, <3>2, <3>3 DEF IsEvent, TestedSoFar, ToldSoFar, Topics
  <2> QED
    BY <2>2, <2>3
<1> QED
  BY <1>2, <1>3 DEF EventInv

(* A request that puts a configuration tells nobody anything.              *)
LEMMA PutTellsNobody ==
  ASSUME EventInv, NEW r \in EventRequests, confReq[r].op # "send", UNCHANGED sent,
         NEW x, x.op = "put", x.todo = {}
  PROVE  ToldSoFar(r, x)'
<1>1. \A s \in sent : s.r # r
  BY DEF EventInv, ToldSoFar
<1> QED
  BY <1>1 DEF ToldSoFar

LEMMA BeginPutKeeps ==
  ASSUME EventInv, NEW r \in EventRequests, N!BeginPut(r)
  PROVE  EventInv'
<1>1. confReq[r].op = "none"
  BY DEF EventInv, IsEvent, N!BeginPut
<1>2. PICK c \in Confs :
        N!Step(r, [N!Idle EXCEPT !.op = "put", !.pc = "check", !.conf = c, !.i = 1])
  BY DEF N!BeginPut
<1>3. PICK x : x = [N!Idle EXCEPT !.op = "put", !.pc = "check", !.conf = c, !.i = 1]
  OBVIOUS
<1>4. /\ IsEvent(x) /\ x.op = "put" /\ x.pc = "check" /\ x.conf = c /\ x.i = 1 /\ x.todo = {}
  BY <1>3, ConfsAreSequences DEF N!Idle, IsEvent
<1>5. UNCHANGED <<conf, tested, sent>>
  BY DEF N!BeginPut
<1>6. TestedSoFar(x)'
  BY <1>4 DEF TestedSoFar, IsEvent, IsConf
<1>7. ToldSoFar(r, x)'
  BY <1>1, <1>4, <1>5, PutTellsNobody
<1>8. IsConf(conf)' /\ N!SavedIsTested'
  BY <1>5 DEF EventInv, IsConf, N!SavedIsTested
<1> QED
  BY <1>2, <1>3, <1>4, <1>5, <1>6, <1>7, <1>8, EventStep

LEMMA CheckQueueKeeps ==
  ASSUME EventInv, NEW r \in EventRequests, N!CheckQueue(r)
  PROVE  EventInv'
<1>1. PICK q, end, on :
        /\ q = confReq[r] /\ end = [q EXCEPT !.pc = "done"] /\ on = [q EXCEPT !.i = @ + 1]
  OBVIOUS
<1>2. /\ IsEvent(q) /\ TestedSoFar(q) /\ q.pc = "check" /\ q.op = "put" /\ q.todo = {}
      /\ q.i \in Nat /\ q.i <= Len(q.conf)
  BY <1>1 DEF EventInv, N!CheckQueue, IsEvent
<1>3. UNCHANGED <<conf, sent>> /\ tested \subseteq tested'
  BY <1>1 DEF N!CheckQueue
<1>4. IsConf(conf)' /\ N!SavedIsTested'
  BY <1>3 DEF EventInv, IsConf, N!SavedIsTested
<1>5. CASE N!Step(r, end)
  <2>1. IsEvent(end) /\ end.pc = "done" /\ end.op = "put" /\ end.todo = {}
    BY <1>1, <1>2 DEF IsEvent
  <2>2. TestedSoFar(end)'
    BY <2>1 DEF TestedSoFar
  <2>3. ToldSoFar(r, end)'
    BY <1>1, <1>2, <1>3, <2>1, PutTellsNobody
  <2> QED
    BY <1>3, <1>4, <1>5, <2>1, <2>2, <2>3, EventStep
<1>6. CASE /\ N!Step(r, on)
           /\ tested' = IF Enabled THEN tested \cup {q.conf[q.i].queue} ELSE tested
  <2>1. /\ IsEvent(on) /\ on.pc = "check" /\ on.op = "put" /\ on.todo = {}
        /\ on.i = q.i + 1 /\ on.conf = q.conf
    BY <1>1, <1>2 DEF IsEvent
  <2>2. TestedSoFar(on)'
    <3> SUFFICES ASSUME Enabled, NEW j \in DOMAIN q.conf, j < q.i + 1
                 PROVE  q.conf[j].queue \in tested'
      BY <2>1 DEF TestedSoFar
    <3>1. j = q.i \/ j < q.i
      BY <1>2 DEF IsEvent, IsConf
    <3> QED
      BY <1>2, <1>3, <1>6, <3>1 DEF TestedSoFar
  <2>3. ToldSoFar(r, on)'
    BY <1>1, <1>2, <1>3, <2>1, PutTellsNobody
  <2> QED
    BY <1>3, <1>4, <1>6, <2>1, <2>2, <2>3, EventStep
<1> QED
  BY <1>1, <1>5, <1>6 DEF N!CheckQueue

(* What is saved has been tested to its end.                               *)
LEMMA SaveKeeps ==
  ASSUME EventInv, NEW r \in EventRequests, N!Save(r)
  PROVE  EventInv'
<1>1. PICK q, end : q = confReq[r] /\ end = [q EXCEPT !.pc = "done"]
  OBVIOUS
<1>2. /\ IsEvent(q) /\ TestedSoFar(q) /\ q.pc = "check" /\ q.op = "put" /\ q.todo = {}
      /\ q.i \in Nat /\ q.i > Len(q.conf) /\ IsConf(q.conf)
  BY <1>1 DEF EventInv, N!Save, N!Checked, IsEvent
<1>3. UNCHANGED <<tested, sent>> /\ N!Step(r, end) /\ (conf' = q.conf \/ conf' = conf)
  BY <1>1 DEF N!Save
<1>4. IsEvent(end) /\ end.pc = "done" /\ end.op = "put" /\ end.todo = {}
  BY <1>1, <1>2 DEF IsEvent
<1>5. TestedSoFar(end)'
  BY <1>4 DEF TestedSoFar
<1>6. ToldSoFar(r, end)'
  BY <1>1, <1>2, <1>3, <1>4, PutTellsNobody
<1>7. Enabled => \A j \in DOMAIN q.conf : q.conf[j].queue \in tested
  BY <1>2 DEF TestedSoFar, IsConf
<1>8. IsConf(conf)' /\ N!SavedIsTested'
  BY <1>2, <1>3, <1>7 DEF EventInv, IsConf, N!SavedIsTested
<1> QED
  BY <1>3, <1>4, <1>5, <1>6, <1>8, EventStep

LEMMA SendNotificationsKeeps ==
  ASSUME EventInv, NEW r \in EventRequests, N!SendNotifications(r)
  PROVE  EventInv'
<1>1. UNCHANGED <<conf, tested, sent>> /\ confReq[r].op = "none" /\ IsConf(conf)
  BY DEF EventInv, IsEvent, N!SendNotifications
<1>2. \A s \in sent : s.r # r
  BY <1>1 DEF EventInv, ToldSoFar
<1>3. PICK event \in N!Types, obj \in EventObjects :
        \/ N!Step(r, [[N!Idle EXCEPT !.op = "send", !.event = event, !.obj = obj, !.conf = conf]
                      EXCEPT !.pc = "publish", !.todo = N!FilterSubjects(conf, event, obj)])
        \/ N!Step(r, [[N!Idle EXCEPT !.op = "send", !.event = event, !.obj = obj, !.conf = conf]
                      EXCEPT !.pc = "failed"])
  BY DEF N!SendNotifications
<1>4. PICK q, f, c :
        /\ c = conf /\ f = N!FilterSubjects(c, event, obj)
        /\ q = [N!Idle EXCEPT !.op = "send", !.event = event, !.obj = obj, !.conf = c]
  OBVIOUS
<1>5. /\ q = [op |-> "send", pc |-> "idle", conf |-> c, i |-> 0, event |-> event, obj |-> obj,
              todo |-> {}, lost |-> {}]
  BY <1>4 DEF N!Idle
<1>6. IsConf(conf)' /\ N!SavedIsTested'
  BY <1>1 DEF EventInv, IsConf, N!SavedIsTested
<1>7. PICK x : /\ N!Step(r, x)
               /\ \/ x = [q EXCEPT !.pc = "publish", !.todo = f]
                  \/ x = [q EXCEPT !.pc = "failed"]
  BY <1>3, <1>4
<1>8. /\ IsEvent(x) /\ x.op = "send" /\ x.pc \in {"publish", "failed"}
      /\ x.conf = c /\ x.event = event /\ x.obj = obj
      /\ x.todo = f \/ (x.todo = {} /\ x.pc = "failed")
  <2>1. \/ x = [op |-> "send", pc |-> "publish", conf |-> c, i |-> 0, event |-> event,
                obj |-> obj, todo |-> f, lost |-> {}]
        \/ x = [op |-> "send", pc |-> "failed", conf |-> c, i |-> 0, event |-> event,
                obj |-> obj, todo |-> {}, lost |-> {}]
    BY <1>5, <1>7
  <2> QED
    BY <1>1, <1>4, <2>1 DEF IsEvent
<1>9. Topics(x) = f
  BY <1>4, <1>8 DEF Topics
<1>10. ToldSoFar(r, x)'
  BY <1>1, <1>2, <1>8, <1>9 DEF ToldSoFar, Topics
<1>11. TestedSoFar(x)'
  BY <1>8 DEF TestedSoFar
<1> QED
  BY <1>1, <1>6, <1>7, <1>8, <1>10, <1>11, EventStep

(* A topic that is taken up has been told or is lost from then on.         *)
LEMMA PublishKeeps ==
  ASSUME EventInv, NEW r \in EventRequests, N!Publish(r)
  PROVE  EventInv'
<1>1. PICK q, F : q = confReq[r] /\ F = Topics(q)
  OBVIOUS
<1>2. /\ IsEvent(q) /\ ToldSoFar(r, q) /\ q.pc = "publish" /\ q.op = "send" /\ q.todo \subseteq F
  <2>1. IsEvent(q) /\ ToldSoFar(r, q)
    BY <1>1 DEF EventInv
  <2>2. q.pc = "publish"
    BY <1>1 DEF N!Publish
  <2> QED
    BY <1>1, <2>1, <2>2 DEF IsEvent, ToldSoFar
<1>3. UNCHANGED <<conf, tested>>
  BY DEF N!Publish
<1>4. IsConf(conf)' /\ N!SavedIsTested'
  BY <1>3 DEF EventInv, IsConf, N!SavedIsTested
<1>5. CASE q.todo = {} /\ N!Step(r, [q EXCEPT !.pc = "done"]) /\ UNCHANGED sent
  <2>1. PICK x : x = [q EXCEPT !.pc = "done"]
    OBVIOUS
  <2>2. /\ IsEvent(x) /\ x.pc = "done" /\ x.op = "send" /\ x.todo = {} /\ x.lost = q.lost
        /\ x.conf = q.conf /\ x.event = q.event /\ x.obj = q.obj
    <3>1. x = [op |-> q.op, pc |-> "done", conf |-> q.conf, i |-> q.i, event |-> q.event,
               obj |-> q.obj, todo |-> q.todo, lost |-> q.lost]
      BY <1>2, <2>1 DEF IsEvent
    <3> QED
      BY <1>2, <1>5, <3>1 DEF IsEvent
  <2>3. Topics(x) = F
    BY <1>1, <2>2 DEF Topics
  <2>4. ToldSoFar(r, x)
    BY <1>1, <1>2, <1>5, <2>2, <2>3 DEF ToldSoFar
  <2>5. ToldSoFar(r, x)' /\ TestedSoFar(x)'
    BY <1>5, <2>2, <2>4 DEF ToldSoFar, TestedSoFar, Topics
  <2> QED
    BY <1>3, <1>4, <1>5, <2>1, <2>2, <2>5, EventStep
<1>6. ASSUME NEW t \in q.todo, NEW x, N!Step(r, x),
             \/ /\ x = [q EXCEPT !.todo = q.todo \ {t}]
                /\ sent' = sent \cup {[r |-> r, id |-> t.id, queue |-> t.queue]}
             \/ /\ x = [q EXCEPT !.todo = q.todo \ {t}, !.lost = q.lost \cup {t}]
                /\ sent' = sent
      PROVE  EventInv'
  <2>1. /\ IsEvent(x) /\ x.pc = "publish" /\ x.op = "send" /\ x.todo = q.todo \ {t}
        /\ x.conf = q.conf /\ x.event = q.event /\ x.obj = q.obj
        /\ q.lost \subseteq x.lost /\ (t \in x.lost \/ t \notin x.lost)
    BY <1>2, <1>6 DEF IsEvent
  <2>2. Topics(x) = F /\ Topics(x)' = F
    BY <1>1, <2>1 DEF Topics
  <2>3. t \in F /\ t = [id |-> t.id, queue |-> t.queue]
    BY <1>1, <1>2, TopicForm
  <2>4. /\ sent \subseteq sent' /\ \A s \in sent' : s \in sent \/ s.r = r
        /\ \A s \in sent' : s \in sent \/ [id |-> s.id, queue |-> s.queue] = t
        /\ t \in x.lost \/ \E s \in sent' : s.r = r /\ s.id = t.id /\ s.queue = t.queue
    <3>1. CASE sent' = sent \cup {[r |-> r, id |-> t.id, queue |-> t.queue]}
      <4>1. PICK s : s = [r |-> r, id |-> t.id, queue |-> t.queue]
        OBVIOUS
      <4>2. s.r = r /\ s.id = t.id /\ s.queue = t.queue /\ [id |-> s.id, queue |-> s.queue] = t
        BY <2>3, <4>1
      <4>3. sent' = sent \cup {s}
        BY <3>1, <4>1
      <4> QED
        BY <4>2, <4>3
    <3>2. CASE sent' = sent /\ x = [q EXCEPT !.todo = q.todo \ {t}, !.lost = q.lost \cup {t}]
      BY <1>2, <3>2 DEF IsEvent
    <3> QED
      BY <1>6, <3>1, <3>2
  <2>5. ASSUME NEW u \in F
        PROVE  \/ u \in x.todo \cup x.lost
               \/ \E s \in sent' : s.r = r /\ s.id = u.id /\ s.queue = u.queue
    <3>1. \/ u \in q.todo \cup q.lost
          \/ \E s \in sent : s.r = r /\ s.id = u.id /\ s.queue = u.queue
      BY <1>1, <1>2, <2>5 DEF ToldSoFar
    <3> QED
      BY <2>1, <2>4, <3>1
  <2>6. \A s \in sent' : s.r = r => [id |-> s.id, queue |-> s.queue] \in F
    BY <1>1, <1>2, <2>3, <2>4 DEF ToldSoFar
  <2>7. ToldSoFar(r, x)' /\ TestedSoFar(x)'
    BY <1>2, <2>1, <2>2, <2>5, <2>6 DEF ToldSoFar, TestedSoFar
  <2> QED
    BY <1>3, <1>4, <1>6, <2>1, <2>4, <2>7, EventStep
<1>7. \/ q.todo = {} /\ N!Step(r, [q EXCEPT !.pc = "done"]) /\ UNCHANGED sent
      \/ \E t \in q.todo :
           \/ /\ sent' = sent \cup {[r |-> r, id |-> t.id, queue |-> t.queue]}
              /\ N!Step(r, [q EXCEPT !.todo = @ \ {t}])
           \/ /\ UNCHANGED sent
              /\ N!Step(r, [q EXCEPT !.todo = q.todo \ {t}, !.lost = @ \cup {t}])
  BY <1>1 DEF N!Publish, N!AfterFailure
<1> QED
  BY <1>5, <1>6, <1>7

LEMMA EventNextKeeps ==
  ASSUME EventInv, [N!Next]_N!vars
  PROVE  EventInv'
<1>1. CASE UNCHANGED N!vars
  BY <1>1 DEF N!vars, EventInv, N!SavedIsTested, TestedSoFar, ToldSoFar, IsEvent, IsConf, Topics
<1> QED
  BY <1>1, BeginPutKeeps, CheckQueueKeeps, SaveKeeps, SendNotificationsKeeps, PublishKeeps
     DEF N!Next

(* Every topic was asked for, and whoever asked is a topic, or has its id  *)
(* in common with one that comes after it.                                 *)
LEMMA TopicsAreThoseWhoAsked ==
  ASSUME NEW q, IsConf(q.conf)
  PROVE  /\ \A i \in DOMAIN q.conf : N!Asked(q.conf[i], q.event, q.obj) =>
              \/ [id |-> q.conf[i].id, queue |-> q.conf[i].queue] \in Topics(q)
              \/ \E j \in DOMAIN q.conf : j > i /\ q.conf[j].id = q.conf[i].id
         /\ \A t \in Topics(q) : \E i \in DOMAIN q.conf :
              /\ q.conf[i].id = t.id /\ q.conf[i].queue = t.queue
              /\ \/ N!Asked(q.conf[i], q.event, q.obj)
                 \/ q.event = "DeleteMarkerCreated" /\ N!Asked(q.conf[i], "Delete", q.obj)
<1> DEFINE asks == {j \in DOMAIN q.conf : /\ q.obj \in q.conf[j].names
                                          /\ \E e \in q.conf[j].events : N!Matches(q.event, e)}
<1>1. Topics(q) = {[id |-> q.conf[i].id, queue |-> q.conf[i].queue] : i \in
                     {j \in asks : \A k \in asks : q.conf[k].id = q.conf[j].id => k <= j}}
  BY DEF Topics, N!FilterSubjects
<1>2. ASSUME NEW i \in DOMAIN q.conf, N!Asked(q.conf[i], q.event, q.obj)
      PROVE  \/ [id |-> q.conf[i].id, queue |-> q.conf[i].queue] \in Topics(q)
             \/ \E j \in DOMAIN q.conf : j > i /\ q.conf[j].id = q.conf[i].id
  <2>1. i \in asks
    BY <1>2 DEF N!Asked, N!Matches
  <2>2. CASE \A k \in asks : q.conf[k].id = q.conf[i].id => k <= i
    BY <1>1, <2>1, <2>2
  <2>3. CASE \E k \in asks : q.conf[k].id = q.conf[i].id /\ ~(k <= i)
    BY <2>3 DEF IsConf
  <2> QED
    BY <2>2, <2>3
<1>3. ASSUME NEW t \in Topics(q)
      PROVE  \E i \in DOMAIN q.conf :
               /\ q.conf[i].id = t.id /\ q.conf[i].queue = t.queue
               /\ \/ N!Asked(q.conf[i], q.event, q.obj)
                  \/ q.event = "DeleteMarkerCreated" /\ N!Asked(q.conf[i], "Delete", q.obj)
  <2>1. PICK i \in asks : t = [id |-> q.conf[i].id, queue |-> q.conf[i].queue]
    BY <1>1, <1>3
  <2>2. \/ N!Asked(q.conf[i], q.event, q.obj)
        \/ q.event = "DeleteMarkerCreated" /\ N!Asked(q.conf[i], "Delete", q.obj)
    BY <2>1 DEF N!Asked, N!Matches
  <2> QED
    BY <2>1, <2>2
<1> QED
  BY <1>2, <1>3

LEMMA EventInvIsEnough == EventInv => N!ToldAreThoseWhoAsked
<1> SUFFICES ASSUME EventInv, NEW r \in EventRequests,
                    confReq[r].op = "send", confReq[r].pc = "done"
             PROVE
               /\ \A i \in DOMAIN confReq[r].conf :
                    N!Asked(confReq[r].conf[i], confReq[r].event, confReq[r].obj) =>
                      \/ \E s \in sent : /\ s.r = r /\ s.id = confReq[r].conf[i].id
                                         /\ s.queue = confReq[r].conf[i].queue
                      \/ [id |-> confReq[r].conf[i].id, queue |-> confReq[r].conf[i].queue]
                           \in confReq[r].lost
                      \/ \E j \in DOMAIN confReq[r].conf :
                           j > i /\ confReq[r].conf[j].id = confReq[r].conf[i].id
               /\ \A s \in sent : s.r = r => \E i \in DOMAIN confReq[r].conf :
                    LET t == confReq[r].conf[i] IN
                    /\ t.id = s.id /\ t.queue = s.queue
                    /\ \/ N!Asked(t, confReq[r].event, confReq[r].obj)
                       \/ /\ confReq[r].event = "DeleteMarkerCreated"
                          /\ N!Asked(t, "Delete", confReq[r].obj)
  BY DEF N!ToldAreThoseWhoAsked
<1>1. PICK q : q = confReq[r] /\ IsEvent(q) /\ ToldSoFar(r, q) /\ q.op = "send" /\ q.pc = "done"
  BY DEF EventInv
<1>2. /\ \A t \in Topics(q) : \/ t \in q.lost
                              \/ \E s \in sent : s.r = r /\ s.id = t.id /\ s.queue = t.queue
      /\ \A s \in sent : s.r = r => [id |-> s.id, queue |-> s.queue] \in Topics(q)
  BY <1>1 DEF ToldSoFar
<1>3. ASSUME NEW i \in DOMAIN q.conf, N!Asked(q.conf[i], q.event, q.obj)
      PROVE  \/ \E s \in sent : s.r = r /\ s.id = q.conf[i].id /\ s.queue = q.conf[i].queue
             \/ [id |-> q.conf[i].id, queue |-> q.conf[i].queue] \in q.lost
             \/ \E j \in DOMAIN q.conf : j > i /\ q.conf[j].id = q.conf[i].id
  <2>1. PICK t : t = [id |-> q.conf[i].id, queue |-> q.conf[i].queue]
    OBVIOUS
  <2>2. t \in Topics(q) \/ \E j \in DOMAIN q.conf : j > i /\ q.conf[j].id = q.conf[i].id
    BY <1>1, <1>3, <2>1, TopicsAreThoseWhoAsked DEF IsEvent
  <2> QED
    BY <1>2, <2>1, <2>2
<1>4. ASSUME NEW s \in sent, s.r = r
      PROVE  \E i \in DOMAIN q.conf :
               /\ q.conf[i].id = s.id /\ q.conf[i].queue = s.queue
               /\ \/ N!Asked(q.conf[i], q.event, q.obj)
                  \/ q.event = "DeleteMarkerCreated" /\ N!Asked(q.conf[i], "Delete", q.obj)
  <2>1. PICK t \in Topics(q) : t = [id |-> s.id, queue |-> s.queue]
    BY <1>2, <1>4
  <2> QED
    BY <1>1, <2>1, TopicsAreThoseWhoAsked DEF IsEvent
<1> QED
  BY <1>1, <1>3, <1>4

(* An operation tells the queues that asked to be told, and no other, and  *)
(* those took a test event before.                                         *)
THEOREM NotifiedHolds == Spec => []NotifiedAsConfigured
<1>1. Init => EventInv
  BY EventStart DEF Init
<1>2. EventInv /\ [Next]_vars => EventInv'
  <2> SUFFICES ASSUME EventInv, [Next]_vars PROVE EventInv'
    OBVIOUS
  <2>1. [N!Next]_N!vars
    BY DEF Next, vars, confVars, N!vars
  <2> QED
    BY <2>1, EventNextKeeps
<1>3. EventInv => NotifiedAsConfigured
  BY EventInvIsEnough DEF NotifiedAsConfigured, EventInv
<1> QED
  BY <1>1, <1>2, <1>3, PTL DEF Spec

---------------------------------------------------------------------------
(* Credentials                                                             *)

LEMMA LeastOf ==
  ASSUME NEW S, S \subseteq Nat, S # {}
  PROVE  \E x \in S : \A y \in S : x <= y
<1> DEFINE lt == {p \in Nat \X Nat : p[1] < p[2]}
<1>1. IsWellFoundedOn(lt, Nat)
  BY NatLessThanWellFounded DEF OpToRel
<1> HIDE DEF lt
<1>2. PICK x \in S : \A y \in S : <<y, x>> \notin lt
  BY <1>1, WFMin
<1>3. ASSUME NEW y \in S PROVE x <= y
  <2>1. x \in Nat /\ y \in Nat
    OBVIOUS
  <2>2. y < x => <<y, x>> \in lt
    BY <2>1 DEF lt
  <2> QED
    BY <1>2, <2>1, <2>2
<1> QED
  BY <1>3

LEMMA InEpoch ==
  ASSUME NEW n \in Nat
  PROVE  \E p \in Nat, s \in 0 .. EpochLength - 1 : p = C!Epoch(n) /\ n = EpochLength * p + s
<1>1. /\ n \div EpochLength \in Nat /\ n % EpochLength \in 0 .. EpochLength - 1
      /\ n = EpochLength * (n \div EpochLength) + (n % EpochLength)
  BY OptionsAssumption
<1> QED
  BY <1>1 DEF C!Epoch

(* TimeToEpoch rounds up, and an epoch is over with its last tick.         *)
LEMMA LastEpochLasts ==
  ASSUME clock \in Nat, NEW life \in Nat
  PROVE  /\ C!LastEpoch(life) \in Nat
         /\ (C!LastEpoch(life) + 1) * EpochLength > clock + life
         /\ (C!LastEpoch(life) + 1) * EpochLength <= clock + life + 2 * EpochLength
<1>0. EpochLength \in Nat /\ EpochLength >= 1
  BY OptionsAssumption
<1>1. PICK p \in Nat, s \in 0 .. EpochLength - 1 : p = C!Epoch(clock) /\ clock = EpochLength * p + s
  BY InEpoch
<1>2. PICK q, t : /\ q = life \div EpochLength /\ t = life % EpochLength
  OBVIOUS
<1>3. q \in Nat /\ t \in 0 .. EpochLength - 1 /\ life = EpochLength * q + t
  BY <1>0, <1>2
<1>4. PICK ep \in Nat, eq \in Nat, now \in Nat :
        ep = EpochLength * p /\ eq = EpochLength * q /\ now = clock
  BY <1>0, <1>3
<1>5. C!LastEpoch(life) = p + q + (IF t # 0 THEN 1 ELSE 0)
  BY <1>1, <1>2 DEF C!LastEpoch
<1>6. CASE t = 0
  <2>1. C!LastEpoch(life) = p + q
    BY <1>3, <1>5, <1>6
  <2>2. (p + q + 1) * EpochLength = ep + eq + EpochLength
    BY <1>0, <1>3, <1>4
  <2>3. ep + eq + EpochLength > now + life /\ ep + eq + EpochLength <= now + life + 2 * EpochLength
    BY <1>0, <1>1, <1>3, <1>4, <1>6
  <2> QED
    BY <1>3, <1>4, <2>1, <2>2, <2>3
<1>7. CASE t # 0
  <2>1. C!LastEpoch(life) = p + q + 1
    BY <1>3, <1>5, <1>7
  <2>2. (p + q + 1 + 1) * EpochLength = ep + eq + EpochLength + EpochLength
    BY <1>0, <1>3, <1>4
  <2>3. /\ ep + eq + EpochLength + EpochLength > now + life
        /\ ep + eq + EpochLength + EpochLength <= now + life + 2 * EpochLength
    BY <1>0, <1>1, <1>3, <1>4, <1>7
  <2> QED
    BY <1>3, <1>4, <2>1, <2>2, <2>3
<1> QED
  BY <1>6, <1>7

LEMMA AliveBeforeEnd ==
  ASSUME clock \in Nat, NEW b, b.exp \in Nat, C!Alive(b)
  PROVE  clock < C!Ends(b)
<1>0. EpochLength \in Nat /\ EpochLength >= 1
  BY OptionsAssumption
<1>1. PICK p \in Nat, s \in 0 .. EpochLength - 1 : p = C!Epoch(clock) /\ clock = EpochLength * p + s
  BY InEpoch
<1>2. PICK d \in Nat : b.exp + 1 = p + 1 + d
  <2>1. b.exp - p \in Nat /\ b.exp + 1 = p + 1 + (b.exp - p)
    BY <1>1 DEF C!Alive
  <2> QED
    BY <2>1
<1>3. PICK ep, ed : ep = EpochLength * p /\ ed = EpochLength * d
  OBVIOUS
<1>4. ep \in Nat /\ ed \in Nat /\ (p + 1 + d) * EpochLength = ep + EpochLength + ed
  BY <1>0, <1>3
<1>5. C!Ends(b) = ep + EpochLength + ed
  BY <1>2, <1>4 DEF C!Ends
<1> QED
  BY <1>0, <1>1, <1>3, <1>4, <1>5

---------------------------------------------------------------------------
(* The tokens of a gate in a box of that secret.                           *)
OwnTokens(d, secret, g) ==
  /\ d.secret = secret /\ d.bearer.gate = g /\ DOMAIN d.sessions \subseteq Nat
  /\ \A k \in DOMAIN d.sessions : d.sessions[k] \in SessionTokens /\ d.sessions[k].gate = g
  /\ C!HasVerb([k \in DOMAIN d.sessions |-> d.sessions[k].rule], "PUT")
       => C!HasVerb([k \in DOMAIN d.sessions |-> d.sessions[k].rule], "SETEACL")

IsBox(b) ==
  /\ b = [id |-> b.id, cnr |-> b.cnr, exp |-> b.exp, gates |-> b.gates, life |-> b.life,
          at |-> b.at]
  /\ b.id \in Nat /\ b.id <= minted /\ b.exp \in Nat /\ b.at \in Nat /\ b.life \in Nat
  /\ C!Ends(b) > b.at + b.life /\ C!Ends(b) <= b.at + b.life + 2 * EpochLength
  /\ DOMAIN b.gates \subseteq Nat
  /\ \A i \in DOMAIN b.gates : OwnTokens(b.gates[i].tokens, b.id, b.gates[i].gate)

(* A box that is being issued has a secret of its own.                     *)
Issuing(i) == issue[i].pc \in {"container", "put"}
IsIssue(i) ==
  /\ issue[i] = [pc |-> issue[i].pc, o |-> issue[i].o, box |-> issue[i].box]
  /\ Issuing(i) =>
       /\ IsBox(issue[i].box)
       /\ \A b \in boxes : b.id # issue[i].box.id
       /\ \A j \in Issuers \ {i} : Issuing(j) => issue[j].box.id # issue[i].box.id

(* What a gate caches it read while the box lived.                         *)
IsCached(g, e) ==
  /\ OwnTokens(e.data, e.box, g)
  /\ e.until \in Nat /\ e.delay \in Nat
  /\ \E b \in boxes : b.id = e.box /\ e.until < C!Ends(b) + CacheLife + e.delay

RequestFields == {"pc", "gate", "msg", "sent", "data", "read", "faulty", "known", "token", "rule"}
IsRequest(q) == q = [f \in RequestFields |-> q[f]]
IsSigned(q) ==
  /\ IsRequest(q)
  /\ q.pc \in {"idle", "box", "cache", "check", "accepted", "refused", "acted"}
  /\ q.data = None \/ OwnTokens(q.data, q.msg.box, q.gate)
  /\ q.pc \in {"cache", "check", "accepted", "acted"} => OwnTokens(q.data, q.msg.box, q.gate)
  /\ q.pc \in {"box", "cache"} => q.gate \in Gates /\ \E b \in boxes : b.id = q.msg.box
  /\ q.pc = "cache" =>
       /\ q.read \in Nat /\ q.read <= clock
       /\ \E b \in boxes : b.id = q.msg.box /\ q.read < C!Ends(b)
  /\ q.pc = "acted" => q.token = C!TokenFor(q.data, q.rule.verb)

AuthInv ==
  /\ clock \in Nat /\ minted \in Nat
  /\ issue = [i \in Issuers |-> issue[i]] /\ box = [g \in Gates |-> box[g]]
  /\ signed = [r \in AuthRequests |-> signed[r]]
  /\ \A b \in boxes : IsBox(b) /\ \A c \in boxes : b.id = c.id => b = c
  /\ \A i \in Issuers : IsIssue(i)
  /\ \A g \in Gates : \A e \in box[g] : IsCached(g, e)
  /\ \A r \in AuthRequests : \E q : q = signed[r] /\ IsSigned(q)

LEMMA NobodysRequest == IsRequest(C!NoRequest) /\ C!NoRequest.data = None /\ IsSigned(C!NoRequest)
<1>1. IsRequest(C!NoRequest)
  BY DEF C!NoRequest, IsRequest, RequestFields
<1>2. C!NoRequest.data = None /\ C!NoRequest.pc = "idle"
  BY DEF C!NoRequest
<1> QED
  BY <1>1, <1>2 DEF IsSigned

LEMMA AuthStart == C!Init => AuthInv
<1> SUFFICES ASSUME C!Init PROVE AuthInv
  OBVIOUS
<1>1. C!NoIssue = [pc |-> "idle", o |-> None, box |-> None]
  BY DEF C!NoIssue
<1>2. IsSigned(C!NoRequest)
  BY NobodysRequest
<1>3. \A i \in Issuers : IsIssue(i)
  BY <1>1 DEF C!Init, IsIssue, Issuing
<1> QED
  BY <1>2, <1>3 DEF C!Init, AuthInv

(* Rules that let PUT let SETEACL, too.                                    *)
LEMMA ContextHasBoth ==
  ASSUME NEW rules \in Seq(Rules)
  PROVE  /\ C!BuildContext(rules) \in Seq(Rules)
         /\ C!HasVerb(C!BuildContext(rules), "PUT") => C!HasVerb(C!BuildContext(rules), "SETEACL")
<1>1. ASSUME NEW verb \in {"PUT", "DELETE", "SETEACL"} PROVE C!Rule(verb, None) \in Rules
  BY DEF Rules, C!Rule
<1>2. CASE rules = <<>>
  <2> PICK put : put = C!Rule("PUT", None)
    OBVIOUS
  <2> PICK delete : delete = C!Rule("DELETE", None)
    OBVIOUS
  <2> PICK acl : acl = C!Rule("SETEACL", None)
    OBVIOUS
  <2>0. put \in Rules /\ delete \in Rules /\ acl \in Rules
    BY <1>1
  <2>1. PICK c : c = <<put, delete, acl>>
    OBVIOUS
  <2>2. c \in Seq(Rules) /\ 3 \in DOMAIN c /\ c[3].verb = "SETEACL"
    BY <2>0, <2>1 DEF C!Rule
  <2> QED
    BY <1>2, <2>0, <2>1, <2>2 DEF C!BuildContext, C!HasVerb
<1>3. CASE rules # <<>> /\ rules[1].verb = None
  BY <1>3 DEF C!BuildContext, C!HasVerb
<1>4. CASE /\ rules # <<>> /\ rules[1].verb # None
           /\ C!HasVerb(rules, "PUT") /\ ~C!HasVerb(rules, "SETEACL")
  <2> PICK acl : acl = C!Rule("SETEACL", None)
    OBVIOUS
  <2>0. acl \in Rules
    BY <1>1
  <2>1. PICK c : c = Append(rules, acl)
    OBVIOUS
  <2>2. c \in Seq(Rules) /\ Len(c) \in DOMAIN c /\ c[Len(c)] = acl
    <3>1. /\ c \in Seq(Rules) /\ Len(c) = Len(rules) + 1 /\ Len(rules) \in Nat
          /\ c[Len(rules) + 1] = acl
      BY <2>0, <2>1
    <3>2. DOMAIN c = 1 .. Len(c)
      BY <3>1
    <3> QED
      BY <3>1, <3>2
  <2>3. C!HasVerb(c, "SETEACL")
    BY <2>0, <2>2 DEF C!HasVerb, C!Rule
  <2> QED
    BY <1>4, <2>0, <2>1, <2>2, <2>3 DEF C!BuildContext
<1>5. CASE /\ rules # <<>> /\ rules[1].verb # None
           /\ ~(C!HasVerb(rules, "PUT") /\ ~C!HasVerb(rules, "SETEACL"))
  BY <1>5 DEF C!BuildContext
<1> QED
  BY <1>2, <1>3, <1>4, <1>5

LEMMA TokensAreOwn ==
  ASSUME NEW o \in Options, NEW i \in DOMAIN o.gates, NEW secret, NEW exp \in Nat
  PROVE  OwnTokens(C!TokensOf(o, i, secret, exp), secret, o.gates[i])
<1>1. PICK c : c = C!BuildContext(o.rules)
  OBVIOUS
<1>2. c \in Seq(Rules) /\ (C!HasVerb(c, "PUT") => C!HasVerb(c, "SETEACL"))
  BY <1>1, ContextHasBoth, OptionsAssumption
<1>3. PICK s : s = [k \in DOMAIN c |-> [rule |-> c[k], gate |-> o.gates[i], exp |-> exp]]
  OBVIOUS
<1>4. /\ DOMAIN s = DOMAIN c /\ DOMAIN s \subseteq Nat
      /\ \A k \in DOMAIN s : s[k].rule = c[k] /\ s[k].gate = o.gates[i] /\ s[k] \in SessionTokens
  <2>1. o.gates[i] \in Gates
    BY OptionsAssumption
  <2>2. DOMAIN c \subseteq Nat /\ \A k \in DOMAIN c : c[k] \in Rules
    BY <1>2
  <2> QED
    BY <1>3, <2>1, <2>2 DEF SessionTokens
<1>5. [k \in DOMAIN s |-> s[k].rule] = c
  BY <1>2, <1>4
<1>6. C!TokensOf(o, i, secret, exp) =
        [secret |-> secret, bearer |-> [gate |-> o.gates[i], exp |-> exp], sessions |-> s]
  BY <1>1, <1>3 DEF C!TokensOf
<1> QED
  BY <1>2, <1>4, <1>5, <1>6 DEF OwnTokens

---------------------------------------------------------------------------
(* Time goes on, secrets and boxes become more.                            *)
LEMMA EndsAreTicks ==
  ASSUME NEW b, b.exp \in Nat
  PROVE  C!Ends(b) \in Nat
BY OptionsAssumption DEF C!Ends

LEMMA BoxesGrow ==
  ASSUME AuthInv, clock' \in Nat, clock <= clock', minted' \in Nat, minted <= minted',
         boxes \subseteq boxes'
  PROVE  /\ \A b : IsBox(b) => IsBox(b)'
         /\ \A g, e : IsCached(g, e) => IsCached(g, e)'
         /\ \A q : IsSigned(q) => IsSigned(q)'
<1>0. clock \in Nat /\ minted \in Nat
  BY DEF AuthInv
<1>1. ASSUME NEW b, IsBox(b) PROVE IsBox(b)'
  BY <1>0, <1>1 DEF IsBox, OwnTokens
<1>2. ASSUME NEW g, NEW e, IsCached(g, e) PROVE IsCached(g, e)'
  <2>1. OwnTokens(e.data, e.box, g)'
    BY <1>2 DEF IsCached, OwnTokens
  <2>2. PICK b \in boxes' : b.id = e.box /\ e.until < C!Ends(b) + CacheLife + e.delay
    BY <1>2 DEF IsCached
  <2> QED
    BY <1>2, <2>1, <2>2 DEF IsCached
<1>3. ASSUME NEW q, IsSigned(q) PROVE IsSigned(q)'
  <2>1. /\ OwnTokens(q.data, q.msg.box, q.gate) => OwnTokens(q.data, q.msg.box, q.gate)'
        /\ C!TokenFor(q.data, q.rule.verb) = C!TokenFor(q.data, q.rule.verb)'
    BY DEF OwnTokens, C!TokenFor
  <2>2. q.pc \in {"box", "cache"} => \E b \in boxes' : b.id = q.msg.box
    BY <1>3 DEF IsSigned
  <2>3. q.pc = "cache" =>
          /\ q.read \in Nat /\ q.read <= clock'
          /\ \E b \in boxes' : b.id = q.msg.box /\ q.read < C!Ends(b)
    BY <1>0, <1>3 DEF IsSigned
  <2> QED
    BY <1>3, <2>1, <2>2, <2>3 DEF IsSigned
<1> QED
  BY <1>1, <1>2, <1>3

LEMMA WaitKeeps ==
  ASSUME AuthInv, clock' \in Nat, clock <= clock', UNCHANGED <<boxes, minted, issue, box, signed>>
  PROVE  AuthInv'
<1>1. clock \in Nat /\ minted \in Nat
  BY DEF AuthInv
<1>2. /\ \A b : IsBox(b) => IsBox(b)'
      /\ \A g, e : IsCached(g, e) => IsCached(g, e)'
      /\ \A q : IsSigned(q) => IsSigned(q)'
  BY <1>1, BoxesGrow
<1>3. \A i \in Issuers : IsIssue(i)'
  BY <1>1, <1>2 DEF AuthInv, IsIssue, Issuing
<1>4. \A r \in AuthRequests : \E q : q = signed'[r] /\ IsSigned(q)'
  <2> SUFFICES ASSUME NEW r \in AuthRequests PROVE \E q : q = signed'[r] /\ IsSigned(q)'
    OBVIOUS
  <2>1. PICK q : q = signed[r] /\ q = signed'[r] /\ IsSigned(q)
    BY DEF AuthInv
  <2> QED
    BY <1>2, <2>1
<1>5. \A g \in Gates : \A e \in box'[g] : IsCached(g, e)'
  BY <1>1, <1>2 DEF AuthInv
<1> QED
  BY <1>1, <1>2, <1>3, <1>4, <1>5 DEF AuthInv

(* A step of a run of the tool.                                            *)
LEMMA IssueStep ==
  ASSUME AuthInv, NEW i \in Issuers, NEW x, C!SetIssue(i, x),
         UNCHANGED <<clock, box, signed>>, minted' \in Nat, minted <= minted',
         boxes \subseteq boxes',
         \A b \in boxes' : IsBox(b)' /\ \A c \in boxes' : b.id = c.id => b = c,
         \A j \in Issuers : IsIssue(j)'
  PROVE  AuthInv'
<1>1. clock \in Nat /\ issue' = [j \in Issuers |-> issue'[j]]
  BY DEF AuthInv, C!SetIssue
<1>2. /\ \A g, e : IsCached(g, e) => IsCached(g, e)'
      /\ \A q : IsSigned(q) => IsSigned(q)'
  BY <1>1, BoxesGrow
<1>3. \A r \in AuthRequests : \E q : q = signed'[r] /\ IsSigned(q)'
  <2> SUFFICES ASSUME NEW r \in AuthRequests PROVE \E q : q = signed'[r] /\ IsSigned(q)'
    OBVIOUS
  <2>1. PICK q : q = signed[r] /\ q = signed'[r] /\ IsSigned(q)
    BY DEF AuthInv
  <2> QED
    BY <1>2, <2>1
<1>4. \A g \in Gates : \A e \in box'[g] : IsCached(g, e)'
  BY <1>2 DEF AuthInv
<1> QED
  BY <1>1, <1>3, <1>4 DEF AuthInv

LEMMA PackedAreOwn ==
  ASSUME NEW o \in Options, NEW secret, NEW exp \in Nat,
         NEW gates, gates = C!PackTokens(o, secret, exp)
  PROVE  /\ DOMAIN gates \subseteq Nat
         /\ \A i \in DOMAIN gates : OwnTokens(gates[i].tokens, secret, gates[i].gate)
<1>1. DOMAIN gates = DOMAIN o.gates /\ DOMAIN o.gates \subseteq Nat
  BY OptionsAssumption DEF C!PackTokens
<1>2. ASSUME NEW i \in DOMAIN o.gates
      PROVE  OwnTokens(gates[i].tokens, secret, gates[i].gate)
  <2>1. gates[i].tokens = C!TokensOf(o, i, secret, exp) /\ gates[i].gate = o.gates[i]
    BY DEF C!PackTokens
  <2> QED
    BY <2>1, TokensAreOwn
<1> QED
  BY <1>1, <1>2

(* A new secret is none of those there are.                                *)
LEMMA StartIssueKeeps ==
  ASSUME AuthInv, NEW i \in Issuers, C!StartIssue(i)
  PROVE  AuthInv'
<1>1. /\ clock \in Nat /\ minted \in Nat /\ minted' = minted + 1
      /\ UNCHANGED <<clock, boxes, box, signed>>
  BY DEF AuthInv, C!StartIssue
<1>2. PICK o \in Options : C!SetIssue(i, [pc |-> "container", o |-> o,
         box |-> [id |-> minted + 1, cnr |-> o.cnr, exp |-> C!LastEpoch(o.life),
                  gates |-> C!PackTokens(o, minted + 1, C!LastEpoch(o.life)),
                  life |-> o.life, at |-> clock]])
  BY DEF C!StartIssue
<1>3. PICK id, at, exp, gates : /\ id = minted + 1 /\ at = clock /\ exp = C!LastEpoch(o.life)
                                /\ gates = C!PackTokens(o, id, exp)
  OBVIOUS
<1>4. PICK b : b = [id |-> id, cnr |-> o.cnr, exp |-> exp, gates |-> gates,
                    life |-> o.life, at |-> at]
  OBVIOUS
<1>5. PICK x : x = [pc |-> "container", o |-> o, box |-> b]
  OBVIOUS
<1>6. C!SetIssue(i, x)
  BY <1>2, <1>3, <1>4, <1>5
<1>7. /\ exp \in Nat /\ (exp + 1) * EpochLength > at + o.life
      /\ (exp + 1) * EpochLength <= at + o.life + 2 * EpochLength
  BY <1>1, <1>3, OptionsAssumption, LastEpochLasts
<1>8. /\ DOMAIN gates \subseteq Nat
      /\ \A k \in DOMAIN gates : OwnTokens(gates[k].tokens, id, gates[k].gate)
  BY <1>3, <1>7, PackedAreOwn
<1>9. IsBox(b)'
  <2>1. /\ b.id = id /\ b.exp = exp /\ b.gates = gates /\ b.life = o.life /\ b.at = at
        /\ b = [id |-> b.id, cnr |-> b.cnr, exp |-> b.exp, gates |-> b.gates, life |-> b.life,
                at |-> b.at]
    BY <1>4
  <2>2. C!Ends(b) = (exp + 1) * EpochLength
    BY <2>1 DEF C!Ends
  <2>3. \A k \in DOMAIN b.gates : OwnTokens(b.gates[k].tokens, b.id, b.gates[k].gate)'
    BY <1>8, <2>1 DEF OwnTokens
  <2>4. b.id \in Nat /\ b.id <= minted' /\ b.exp \in Nat /\ b.at \in Nat /\ b.life \in Nat
    BY <1>1, <1>3, <1>7, <2>1, OptionsAssumption
  <2> QED
    BY <1>7, <1>8, <2>1, <2>2, <2>3, <2>4 DEF IsBox, C!Ends
<1>10. \A c : IsBox(c) => IsBox(c)'
  BY <1>1, BoxesGrow
<1>11. \A j \in Issuers : issue'[j] = IF j = i THEN x ELSE issue[j]
  BY <1>6 DEF C!SetIssue, AuthInv
<1>12. /\ \A c \in boxes : c.id # id
       /\ \A j \in Issuers : Issuing(j) => issue[j].box.id # id
  <2>1. \A c : IsBox(c) => c.id \in Nat /\ c.id <= minted
    BY DEF IsBox
  <2> QED
    BY <1>1, <1>3, <2>1 DEF AuthInv, IsIssue
<1>13. ASSUME NEW j \in Issuers PROVE IsIssue(j)'
  <2>1. CASE j = i
    BY <1>1, <1>4, <1>5, <1>9, <1>11, <1>12, <2>1 DEF IsIssue, Issuing
  <2>2. CASE j # i
    BY <1>1, <1>4, <1>5, <1>10, <1>11, <1>12, <2>2 DEF IsIssue, Issuing, AuthInv
  <2> QED
    BY <2>1, <2>2
<1> QED
  BY <1>1, <1>6, <1>10, <1>13, IssueStep DEF AuthInv

LEMMA CheckContainerKeeps ==
  ASSUME AuthInv, NEW i \in Issuers, C!CheckContainer(i)
  PROVE  AuthInv'
<1>1. PICK q : q = issue[i]
  OBVIOUS
<1>2. /\ minted \in Nat /\ UNCHANGED <<clock, boxes, minted, box, signed>>
      /\ q = [pc |-> "container", o |-> q.o, box |-> q.box] /\ Issuing(i) /\ IsBox(q.box)
  BY <1>1 DEF AuthInv, IsIssue, Issuing, C!CheckContainer
<1>3. PICK x : /\ C!SetIssue(i, x)
               /\ \/ x = [q EXCEPT !.pc = "put"]
                  \/ \E new : x = [q EXCEPT !.pc = "put", !.box.cnr = new]
                  \/ x = [q EXCEPT !.pc = "failed"]
  <2>1. \/ C!SetIssue(i, [issue[i] EXCEPT !.pc = "put"])
        \/ \E new : C!SetIssue(i, [issue[i] EXCEPT !.pc = "put", !.box.cnr = new])
        \/ C!SetIssue(i, [issue[i] EXCEPT !.pc = "failed"])
    BY DEF C!CheckContainer
  <2>2. CASE C!SetIssue(i, [issue[i] EXCEPT !.pc = "put"])
    <3>1. PICK x : x = [q EXCEPT !.pc = "put"]
      OBVIOUS
    <3> QED
      BY <1>1, <2>2, <3>1
  <2>3. ASSUME NEW new, C!SetIssue(i, [issue[i] EXCEPT !.pc = "put", !.box.cnr = new])
        PROVE  \E x, n : C!SetIssue(i, x) /\ x = [q EXCEPT !.pc = "put", !.box.cnr = n]
    <3>1. PICK x : x = [q EXCEPT !.pc = "put", !.box.cnr = new]
      OBVIOUS
    <3>2. C!SetIssue(i, x)
      BY <1>1, <2>3, <3>1
    <3> QED
      BY <3>1, <3>2
  <2>4. CASE C!SetIssue(i, [issue[i] EXCEPT !.pc = "failed"])
    <3>1. PICK x : x = [q EXCEPT !.pc = "failed"]
      OBVIOUS
    <3> QED
      BY <1>1, <2>4, <3>1
  <2> QED
    BY <2>1, <2>2, <2>3, <2>4
<1>4. /\ x = [pc |-> x.pc, o |-> x.o, box |-> x.box] /\ x.pc \in {"put", "failed"}
      /\ x.box.id = q.box.id /\ IsBox(x.box)
  <2>1. CASE x = [q EXCEPT !.pc = "put"] \/ x = [q EXCEPT !.pc = "failed"]
    BY <1>2, <2>1
  <2>2. ASSUME NEW new, x = [q EXCEPT !.pc = "put", !.box.cnr = new]
        PROVE  /\ x = [pc |-> x.pc, o |-> x.o, box |-> x.box] /\ x.pc \in {"put", "failed"}
               /\ x.box.id = q.box.id /\ IsBox(x.box)
    <3>1. PICK b : b = [q.box EXCEPT !.cnr = new]
      OBVIOUS
    <3>2. x = [pc |-> "put", o |-> q.o, box |-> b]
      BY <1>2, <2>2, <3>1
    <3>3. b = [id |-> q.box.id, cnr |-> new, exp |-> q.box.exp, gates |-> q.box.gates,
               life |-> q.box.life, at |-> q.box.at]
      BY <1>2, <3>1 DEF IsBox
    <3> QED
      BY <1>2, <3>2, <3>3 DEF IsBox, C!Ends
  <2> QED
    BY <1>3, <2>1, <2>2
<1>5. \A j \in Issuers : issue'[j] = IF j = i THEN x ELSE issue[j]
  BY <1>3 DEF C!SetIssue, AuthInv
<1>6. \A b : IsBox(b) => IsBox(b)'
  BY <1>2, BoxesGrow DEF AuthInv
<1>7. ASSUME NEW j \in Issuers PROVE IsIssue(j)'
  <2>1. \A k \in Issuers : Issuing(k)' => Issuing(k) /\ issue'[k].box.id = issue[k].box.id
    BY <1>1, <1>2, <1>4, <1>5 DEF Issuing
  <2>2. IsIssue(j)
    BY DEF AuthInv
  <2>3. /\ issue'[j] = [pc |-> issue'[j].pc, o |-> issue'[j].o, box |-> issue'[j].box]
        /\ Issuing(j)' => IsBox(issue'[j].box)
    BY <1>4, <1>5, <2>1, <2>2 DEF IsIssue
  <2>4. Issuing(j)' => \A b \in boxes' : b.id # issue'[j].box.id
    BY <1>2, <2>1, <2>2 DEF IsIssue
  <2>5. Issuing(j)' => \A k \in Issuers \ {j} : Issuing(k)' => issue'[k].box.id # issue'[j].box.id
    BY <2>1, <2>2 DEF IsIssue
  <2> QED
    BY <1>6, <2>3, <2>4, <2>5 DEF IsIssue
<1>8. \A b \in boxes' : IsBox(b)' /\ \A c \in boxes' : b.id = c.id => b = c
  BY <1>2, <1>6 DEF AuthInv
<1>9. /\ UNCHANGED <<clock, box, signed>> /\ minted' \in Nat /\ minted <= minted'
      /\ boxes \subseteq boxes'
  BY <1>2
<1>10. C!SetIssue(i, x)
  BY <1>3
<1> QED
  BY <1>7, <1>8, <1>9, <1>10, IssueStep

LEMMA StoreBoxKeeps ==
  ASSUME AuthInv, NEW i \in Issuers, C!StoreBox(i)
  PROVE  AuthInv'
<1>1. PICK q : q = issue[i]
  OBVIOUS
<1>2. /\ minted \in Nat /\ UNCHANGED <<clock, minted, box, signed>>
      /\ q = [pc |-> "put", o |-> q.o, box |-> q.box] /\ IsBox(q.box) /\ Issuing(i)
      /\ \A b \in boxes : b.id # q.box.id
      /\ \A j \in Issuers \ {i} : Issuing(j) => issue[j].box.id # q.box.id
  BY <1>1 DEF AuthInv, IsIssue, Issuing, C!StoreBox
<1>3. PICK x : /\ C!SetIssue(i, x) /\ (boxes' = boxes \cup {q.box} \/ boxes' = boxes)
               /\ x = [q EXCEPT !.pc = "printed"] \/ x = [q EXCEPT !.pc = "failed"]
  BY <1>1 DEF C!StoreBox
<1>4. x = [pc |-> x.pc, o |-> x.o, box |-> x.box] /\ x.pc \in {"printed", "failed"}
  BY <1>2, <1>3
<1>5. \A j \in Issuers : issue'[j] = IF j = i THEN x ELSE issue[j]
  BY <1>3 DEF C!SetIssue, AuthInv
<1>6. \A b : IsBox(b) => IsBox(b)'
  BY <1>2, <1>3, BoxesGrow DEF AuthInv
<1>7. ASSUME NEW j \in Issuers PROVE IsIssue(j)'
  <2>1. CASE j = i
    BY <1>4, <1>5, <2>1 DEF IsIssue, Issuing
  <2>2. CASE j # i
    <3>1. IsIssue(j) /\ issue'[j] = issue[j] /\ (Issuing(j)' <=> Issuing(j))
      BY <1>5, <2>2 DEF AuthInv, Issuing
    <3>2. Issuing(j) => \A b \in boxes' : b.id # issue[j].box.id
      BY <1>2, <1>3, <2>2, <3>1 DEF IsIssue
    <3>3. \A k \in Issuers : Issuing(k)' => Issuing(k) /\ issue'[k] = issue[k]
      BY <1>4, <1>5 DEF Issuing
    <3>4. Issuing(j)' => \A k \in Issuers \ {j} : Issuing(k)' => issue'[k].box.id # issue'[j].box.id
      BY <3>1, <3>3 DEF IsIssue
    <3> QED
      BY <1>6, <3>1, <3>2, <3>4 DEF IsIssue
  <2> QED
    BY <2>1, <2>2
<1>8. \A b \in boxes' : IsBox(b)' /\ \A c \in boxes' : b.id = c.id => b = c
  BY <1>2, <1>3, <1>6 DEF AuthInv
<1> QED
  BY <1>2, <1>3, <1>7, <1>8, IssueStep

---------------------------------------------------------------------------
(* A step of a request.                                                    *)
LEMMA AuthStep ==
  ASSUME AuthInv, NEW r \in AuthRequests, NEW x, C!SetReq(r, x), IsSigned(x),
         UNCHANGED <<clock, boxes, minted, issue>>,
         box' = [g \in Gates |-> box'[g]],
         \A g \in Gates : \A e \in box'[g] : IsCached(g, e)
  PROVE  AuthInv'
<1>1. /\ clock \in Nat /\ minted \in Nat
      /\ signed' = [s \in AuthRequests |-> signed'[s]]
      /\ \A s \in AuthRequests : signed'[s] = IF s = r THEN x ELSE signed[s]
  BY DEF AuthInv, C!SetReq
<1>2. /\ \A b : IsBox(b) => IsBox(b)'
      /\ \A g, e : IsCached(g, e) => IsCached(g, e)'
      /\ \A q : IsSigned(q) => IsSigned(q)'
  BY <1>1, BoxesGrow
<1>3. \A s \in AuthRequests : \E q : q = signed'[s] /\ IsSigned(q)'
  <2> SUFFICES ASSUME NEW s \in AuthRequests PROVE \E q : q = signed'[s] /\ IsSigned(q)'
    OBVIOUS
  <2>1. PICK q : q = signed'[s] /\ IsSigned(q)
    BY <1>1 DEF AuthInv
  <2> QED
    BY <1>2, <2>1
<1>4. \A i \in Issuers : IsIssue(i)'
  BY <1>2 DEF AuthInv, IsIssue, Issuing
<1>5. \A g \in Gates : \A e \in box'[g] : IsCached(g, e)'
  BY <1>2
<1> QED
  BY <1>1, <1>2, <1>3, <1>4, <1>5 DEF AuthInv

LEMMA CachesKept ==
  ASSUME AuthInv, UNCHANGED box
  PROVE  /\ box' = [g \in Gates |-> box'[g]]
         /\ \A g \in Gates : \A e \in box'[g] : IsCached(g, e)
BY DEF AuthInv

(* Nothing on its way touches the name of the box.                         *)
LEMMA AlteredKeepsBox ==
  ASSUME NEW m, m = [kind |-> m.kind, box |-> m.box, c |-> m.c, date |-> m.date,
                     expires |-> m.expires, fields |-> m.fields, signature |-> m.signature],
         NEW change
  PROVE  C!Altered(m, change).box = m.box
<1>1. "box" \in DOMAIN m
  BY SMT
<1>2. \A f : [m EXCEPT !.c = f].box = m.box
  BY <1>1
<1>3. change \in {"date", "expires"} => [m EXCEPT ![change] = m[change] + 1].box = m.box
  BY <1>1
<1> QED
  BY <1>1, <1>2, <1>3 DEF C!Altered

LEMMA ArriveKeeps ==
  ASSUME AuthInv, NEW r \in AuthRequests, C!Arrive(r)
  PROVE  AuthInv'
<1>1. UNCHANGED <<clock, boxes, minted, issue, box>>
  BY DEF C!Arrive
<1>2. PICK g, b, change, m, pc :
        /\ g \in Gates /\ b \in boxes /\ pc \in {"box", "refused"}
        /\ m = [kind |-> m.kind, box |-> b.id, c |-> m.c, date |-> m.date,
                expires |-> m.expires, fields |-> m.fields, signature |-> m.signature]
        /\ C!SetReq(r, [C!NoRequest EXCEPT !.pc = pc, !.gate = g, !.sent = m,
                                           !.msg = C!Altered(m, change)])
  <2>1. PICK g \in Gates, b \in boxes, x \in C!Sendings :
          LET names == (IF x.kind = "header" THEN {"sha"} ELSE {})
                         \cup (IF x.meta THEN {"meta"} ELSE {})
              c == [method |-> 0, path |-> 0, spaced |-> x.spaced, query |-> 0,
                    headers |-> [h \in names |-> 0]]
              s == C!SignedBy(x.kind, b.id, c, clock + x.ahead, EpochLength)
              sn == [kind |-> x.kind, box |-> b.id, c |-> c, date |-> clock + x.ahead,
                     expires |-> EpochLength, fields |-> s.fields, signature |-> s.signature]
          IN C!SetReq(r, [C!NoRequest EXCEPT
               !.pc = IF x.kind # "form" /\ Allowed[g] # {} /\ b.cnr \notin Allowed[g]
                      THEN "refused" ELSE "box",
               !.gate = g, !.sent = sn, !.msg = C!Altered(sn, x.change)])
    BY DEF C!Arrive
  <2> DEFINE names == (IF x.kind = "header" THEN {"sha"} ELSE {})
                        \cup (IF x.meta THEN {"meta"} ELSE {})
             c == [method |-> 0, path |-> 0, spaced |-> x.spaced, query |-> 0,
                   headers |-> [h \in names |-> 0]]
             s == C!SignedBy(x.kind, b.id, c, clock + x.ahead, EpochLength)
             out == IF x.kind # "form" /\ Allowed[g] # {} /\ b.cnr \notin Allowed[g]
                    THEN "refused" ELSE "box"
  <2>2. PICK m : m = [kind |-> x.kind, box |-> b.id, c |-> c, date |-> clock + x.ahead,
                      expires |-> EpochLength, fields |-> s.fields, signature |-> s.signature]
    OBVIOUS
  <2>3. PICK pc : pc = out
    OBVIOUS
  <2>4. C!SetReq(r, [C!NoRequest EXCEPT !.pc = pc, !.gate = g, !.sent = m,
                                        !.msg = C!Altered(m, x.change)])
    BY <2>1, <2>2, <2>3
  <2>5. pc \in {"box", "refused"}
    BY <2>3
  <2> HIDE DEF c, s, names, out
  <2>6. m = [kind |-> m.kind, box |-> b.id, c |-> m.c, date |-> m.date,
             expires |-> m.expires, fields |-> m.fields, signature |-> m.signature]
    BY <2>2
  <2> QED
    BY <2>4, <2>5, <2>6
<1>3. PICK msg : msg = C!Altered(m, change)
  OBVIOUS
<1>4. msg.box = b.id
  BY <1>2, <1>3, AlteredKeepsBox
<1>5. PICK x : x = [C!NoRequest EXCEPT !.pc = pc, !.gate = g, !.sent = m, !.msg = msg]
  OBVIOUS
<1>6. IsRequest(x) /\ x.pc = pc /\ x.gate = g /\ x.msg = msg /\ x.data = None
  BY <1>5, NobodysRequest DEF IsRequest, RequestFields
<1>7. x.msg.box = b.id
  BY <1>4, <1>6
<1>8. IsSigned(x)
  BY <1>2, <1>6, <1>7 DEF IsSigned
<1> QED
  BY <1>1, <1>2, <1>3, <1>5, <1>8, CachesKept, AuthStep

(* A gate gets the tokens of an entry that is its own.                     *)
LEMMA EntryIsOwn ==
  ASSUME NEW b, IsBox(b), NEW g, C!EntriesOf(b, g) # {}
  PROVE  OwnTokens(C!GetTokens(b, g), b.id, g)
<1>1. C!EntriesOf(b, g) \subseteq Nat /\ C!EntriesOf(b, g) \subseteq DOMAIN b.gates
  BY DEF IsBox, C!EntriesOf
<1>2. PICK i : i = CHOOSE j \in C!EntriesOf(b, g) : \A k \in C!EntriesOf(b, g) : j <= k
  OBVIOUS
<1>3. i \in C!EntriesOf(b, g)
  BY <1>1, <1>2, LeastOf
<1>4. C!GetTokens(b, g) = b.gates[i].tokens
  BY <1>2 DEF C!GetTokens
<1> QED
  BY <1>1, <1>3, <1>4 DEF IsBox, C!EntriesOf

(* A box that is read lives.                                               *)
LEMMA ReadWhileAlive ==
  ASSUME AuthInv, NEW r \in AuthRequests, NEW g, signed[r].pc = "box",
         C!Alive(C!BoxOf(r)), C!EntriesOf(C!BoxOf(r), g) # {}
  PROVE  \E b \in boxes : /\ b.id = signed[r].msg.box /\ clock < C!Ends(b)
                          /\ OwnTokens(C!GetTokens(C!BoxOf(r), g), b.id, g)
<1>1. \E b \in boxes : b.id = signed[r].msg.box
  BY DEF AuthInv, IsSigned
<1>2. PICK b \in boxes : b.id = signed[r].msg.box /\ b = C!BoxOf(r)
  BY <1>1 DEF C!BoxOf
<1>3. IsBox(b) /\ b.exp \in Nat
  BY DEF AuthInv, IsBox
<1>4. clock < C!Ends(b)
  BY <1>2, <1>3, AliveBeforeEnd DEF AuthInv
<1> QED
  BY <1>2, <1>3, <1>4, EntryIsOwn

LEMMA GetBoxKeeps ==
  ASSUME AuthInv, NEW r \in AuthRequests, C!GetBox(r)
  PROVE  AuthInv'
<1>1. PICK q, g, now, fresh, took :
        /\ q = signed[r] /\ g = q.gate /\ now = clock
        /\ fresh = {e \in box[g] : e.box = q.msg.box /\ clock < e.until}
        /\ took = C!GetTokens(C!BoxOf(r), g)
  OBVIOUS
<1>2. /\ UNCHANGED <<clock, boxes, minted, issue>> /\ IsSigned(q) /\ q.pc = "box"
      /\ g \in Gates /\ now \in Nat /\ IsRequest(q)
  <2>1. IsSigned(q) /\ now \in Nat
    BY <1>1 DEF AuthInv
  <2>2. UNCHANGED <<clock, boxes, minted, issue>> /\ q.pc = "box"
    BY <1>1 DEF C!GetBox
  <2> QED
    BY <1>1, <2>1, <2>2 DEF IsSigned
<1>3. ASSUME NEW e \in fresh,
             C!SetReq(r, [q EXCEPT !.pc = "check", !.data = e.data]),
             box' = [box EXCEPT ![g] = (box[g] \ {e}) \cup {e}]
      PROVE  AuthInv'
  <2>1. e \in box[g] /\ e.box = q.msg.box /\ OwnTokens(e.data, q.msg.box, g)
    BY <1>1, <1>2, <1>3 DEF AuthInv, IsCached
  <2>2. box' = [h \in Gates |-> box'[h]] /\ \A h \in Gates : box'[h] = box[h]
    BY <1>2, <1>3, <2>1 DEF AuthInv
  <2>3. PICK x : x = [q EXCEPT !.pc = "check", !.data = e.data]
    OBVIOUS
  <2>4. IsRequest(x) /\ x.pc = "check" /\ x.gate = q.gate /\ x.msg = q.msg /\ x.data = e.data
    BY <1>2, <2>3 DEF IsRequest, RequestFields
  <2>5. IsSigned(x)
    BY <1>1, <2>1, <2>4 DEF IsSigned
  <2>6. \A h \in Gates : \A f \in box'[h] : IsCached(h, f)
    BY <2>2 DEF AuthInv
  <2> QED
    BY <1>2, <1>3, <2>2, <2>3, <2>5, <2>6, AuthStep
<1>4. ASSUME C!Alive(C!BoxOf(r)), C!EntriesOf(C!BoxOf(r), g) # {},
             C!SetReq(r, [q EXCEPT !.pc = "cache", !.data = took, !.read = now]), UNCHANGED box
      PROVE  AuthInv'
  <2>1. PICK b \in boxes : /\ b.id = q.msg.box /\ now < C!Ends(b)
                           /\ OwnTokens(took, q.msg.box, g)
    <3>1. PICK b \in boxes : /\ b.id = signed[r].msg.box /\ clock < C!Ends(b)
                             /\ OwnTokens(C!GetTokens(C!BoxOf(r), g), b.id, g)
      BY <1>1, <1>2, <1>4, ReadWhileAlive
    <3> QED
      BY <1>1, <3>1
  <2>2. PICK x : x = [q EXCEPT !.pc = "cache", !.data = took, !.read = now]
    OBVIOUS
  <2>3. /\ IsRequest(x) /\ x.pc = "cache" /\ x.gate = q.gate /\ x.msg = q.msg /\ x.data = took
        /\ x.read = now
    BY <1>2, <2>2 DEF IsRequest, RequestFields
  <2>4. IsSigned(x)
    <3>1. x.read \in Nat /\ x.read <= clock
      BY <1>1, <1>2, <2>3
    <3> QED
      BY <1>1, <1>2, <2>1, <2>3, <3>1 DEF IsSigned
  <2> QED
    BY <1>2, <1>4, <2>2, <2>4, CachesKept, AuthStep
<1>5. ASSUME NEW x, C!SetReq(r, x), UNCHANGED box,
             \/ x = [q EXCEPT !.pc = "refused"]
             \/ x = [q EXCEPT !.pc = "refused", !.faulty = TRUE]
      PROVE  AuthInv'
  <2>1. /\ IsRequest(x) /\ x.pc = "refused" /\ x.gate = q.gate /\ x.msg = q.msg
        /\ x.data = q.data
    BY <1>2, <1>5 DEF IsRequest, RequestFields
  <2>2. IsSigned(x)
    <3>1. q.data = None \/ OwnTokens(q.data, q.msg.box, q.gate)
      BY <1>2 DEF IsSigned
    <3> QED
      BY <2>1, <3>1 DEF IsSigned
  <2> QED
    BY <1>2, <1>5, <2>2, CachesKept, AuthStep
<1>6. \/ \E e \in fresh : /\ C!SetReq(r, [q EXCEPT !.pc = "check", !.data = e.data])
                          /\ box' = [box EXCEPT ![g] = (box[g] \ {e}) \cup {e}]
      \/ /\ C!Alive(C!BoxOf(r)) /\ C!EntriesOf(C!BoxOf(r), g) # {} /\ UNCHANGED box
         /\ C!SetReq(r, [q EXCEPT !.pc = "cache", !.data = took, !.read = now])
      \/ C!SetReq(r, [q EXCEPT !.pc = "refused"]) /\ UNCHANGED box
      \/ C!SetReq(r, [q EXCEPT !.pc = "refused", !.faulty = TRUE]) /\ UNCHANGED box
  BY <1>1 DEF C!GetBox, C!Refuse, C!Hit
<1> QED
  BY <1>3, <1>4, <1>5, <1>6

(* What is cached late is kept for as much longer.                         *)
LEMMA CacheBoxKeeps ==
  ASSUME AuthInv, NEW r \in AuthRequests, C!CacheBox(r)
  PROVE  AuthInv'
<1>1. PICK q, g, now : q = signed[r] /\ g = q.gate /\ now = clock
  OBVIOUS
<1>2. /\ UNCHANGED <<clock, boxes, minted, issue>> /\ IsSigned(q) /\ q.pc = "cache"
      /\ g \in Gates /\ now \in Nat /\ q.read \in Nat /\ q.read <= now
      /\ OwnTokens(q.data, q.msg.box, g) /\ IsRequest(q)
  BY <1>1 DEF AuthInv, IsSigned, C!CacheBox
<1>3. PICK b \in boxes : b.id = q.msg.box /\ q.read < C!Ends(b)
  BY <1>2 DEF IsSigned
<1>4. C!Ends(b) \in Nat
  BY EndsAreTicks DEF AuthInv, IsBox
<1>5. PICK e : e = [box |-> q.msg.box, data |-> q.data, until |-> now + CacheLife,
                    delay |-> now - q.read]
  OBVIOUS
<1>6. IsCached(g, e)
  <2>1. /\ e.until \in Nat /\ e.delay \in Nat
        /\ e.until < C!Ends(b) + CacheLife + e.delay
    BY <1>2, <1>3, <1>4, <1>5, OptionsAssumption
  <2> QED
    BY <1>2, <1>3, <1>5, <2>1 DEF IsCached
<1>7. /\ C!SetReq(r, [q EXCEPT !.pc = "check"])
      /\ box' = [box EXCEPT ![g] = {f \in box[g] : f.box # q.msg.box} \cup {e}]
  BY <1>1, <1>5 DEF C!CacheBox
<1>8. box' = [h \in Gates |-> box'[h]] /\ \A h \in Gates : \A f \in box'[h] : IsCached(h, f)
  BY <1>2, <1>6, <1>7 DEF AuthInv
<1>9. PICK x : x = [q EXCEPT !.pc = "check"]
  OBVIOUS
<1>10. IsRequest(x) /\ x.pc = "check" /\ x.gate = q.gate /\ x.msg = q.msg /\ x.data = q.data
  BY <1>2, <1>9 DEF IsRequest, RequestFields
<1>11. IsSigned(x)
  BY <1>1, <1>2, <1>10 DEF IsSigned
<1> QED
  BY <1>2, <1>7, <1>8, <1>9, <1>11, AuthStep

LEMMA CheckSignKeeps ==
  ASSUME AuthInv, NEW r \in AuthRequests, C!CheckSign(r)
  PROVE  AuthInv'
<1>1. PICK q, in : q = signed[r] /\ in = C!InTime(q.msg)
  OBVIOUS
<1>2. /\ UNCHANGED <<clock, boxes, minted, issue, box>> /\ IsSigned(q) /\ q.pc = "check"
      /\ OwnTokens(q.data, q.msg.box, q.gate) /\ IsRequest(q)
  BY <1>1 DEF AuthInv, IsSigned, C!CheckSign
<1>3. PICK x : /\ C!SetReq(r, x)
               /\ \/ x = [q EXCEPT !.pc = "accepted"]
                  \/ x = [q EXCEPT !.pc = "refused", !.known = in]
  BY <1>1 DEF C!CheckSign
<1>4. /\ IsRequest(x) /\ x.pc \in {"accepted", "refused"} /\ x.gate = q.gate /\ x.msg = q.msg
      /\ x.data = q.data
  BY <1>2, <1>3 DEF IsRequest, RequestFields
<1>5. IsSigned(x)
  BY <1>2, <1>4 DEF IsSigned
<1> QED
  BY <1>2, <1>3, <1>5, CachesKept, AuthStep

LEMMA ActKeeps ==
  ASSUME AuthInv, NEW r \in AuthRequests, C!Act(r)
  PROVE  AuthInv'
<1>1. PICK q : q = signed[r]
  OBVIOUS
<1>2. /\ UNCHANGED <<clock, boxes, minted, issue, box>> /\ IsSigned(q) /\ q.pc = "accepted"
      /\ OwnTokens(q.data, q.msg.box, q.gate) /\ IsRequest(q)
  BY <1>1 DEF AuthInv, IsSigned, C!Act
<1>3. PICK verb, c : C!SetReq(r, [q EXCEPT !.pc = "acted", !.rule = C!Rule(verb, c),
                                           !.token = C!TokenFor(q.data, verb)])
  BY <1>1 DEF C!Act
<1>4. PICK rule, token, x : /\ rule = C!Rule(verb, c) /\ token = C!TokenFor(q.data, verb)
                            /\ x = [q EXCEPT !.pc = "acted", !.rule = rule, !.token = token]
  OBVIOUS
<1>5. /\ IsRequest(x) /\ x.pc = "acted" /\ x.gate = q.gate /\ x.msg = q.msg /\ x.data = q.data
      /\ x.token = token /\ x.rule = rule
  BY <1>2, <1>4 DEF IsRequest, RequestFields
<1>6. rule.verb = verb
  BY <1>4 DEF C!Rule
<1>7. IsSigned(x)
  BY <1>2, <1>4, <1>5, <1>6 DEF IsSigned
<1> QED
  BY <1>2, <1>3, <1>4, <1>7, CachesKept, AuthStep

LEMMA AuthFinishKeeps ==
  ASSUME AuthInv, NEW r \in AuthRequests, C!Finish(r)
  PROVE  AuthInv'
<1>1. IsSigned(C!NoRequest)
  BY NobodysRequest
<1>2. UNCHANGED <<clock, boxes, minted, issue, box>> /\ C!SetReq(r, C!NoRequest)
  BY DEF C!Finish
<1> QED
  BY <1>1, <1>2, CachesKept, AuthStep

LEMMA AuthNextKeeps ==
  ASSUME AuthInv, [C!Next]_C!vars
  PROVE  AuthInv'
<1>1. CASE UNCHANGED C!vars
  <2>1. clock' = clock /\ UNCHANGED <<boxes, minted, issue, box, signed>> /\ clock \in Nat
    BY <1>1 DEF C!vars, AuthInv
  <2> QED
    BY <2>1, WaitKeeps
<1>2. CASE C!Tick
  <2>1. clock \in Nat /\ clock' = clock + 1 /\ UNCHANGED <<boxes, minted, issue, box, signed>>
    BY <1>2 DEF AuthInv, C!Tick
  <2> QED
    BY <2>1, WaitKeeps
<1> QED
  BY <1>1, <1>2, StartIssueKeeps, CheckContainerKeeps, StoreBoxKeeps, ArriveKeeps,
     GetBoxKeeps, CacheBoxKeeps, CheckSignKeeps, ActKeeps, AuthFinishKeeps DEF C!Next

LEMMA AuthInvIsEnough ==
  AuthInv => C!GateGetsItsOwn /\ C!LivesAsAsked /\ C!ExpiredIsForgotten /\ C!SessionFits
<1> SUFFICES ASSUME AuthInv
             PROVE  C!GateGetsItsOwn /\ C!LivesAsAsked /\ C!ExpiredIsForgotten /\ C!SessionFits
  OBVIOUS
<1>1. C!GateGetsItsOwn
  <2> SUFFICES ASSUME NEW r \in AuthRequests, signed[r].data # None
               PROVE  OwnTokens(signed[r].data, signed[r].msg.box, signed[r].gate)
    BY DEF C!GateGetsItsOwn, OwnTokens
  <2> QED
    BY DEF AuthInv, IsSigned
<1>2. C!LivesAsAsked
  BY DEF AuthInv, IsBox, C!LivesAsAsked
<1>3. C!ExpiredIsForgotten
  BY DEF AuthInv, IsCached, C!ExpiredIsForgotten
<1>4. C!SessionFits
  <2> SUFFICES ASSUME NEW r \in AuthRequests, signed[r].pc = "acted",
                      NEW d, d = signed[r].data, NEW rule, rule = signed[r].rule,
                      NEW fit, fit = {k \in DOMAIN d.sessions :
                                        d.sessions[k].rule \in {rule, C!Rule(rule.verb, None)}},
                      fit # {}
               PROVE  \/ /\ signed[r].token # None
                         /\ signed[r].token.rule \in {rule, C!Rule(rule.verb, None)}
                      \/ \E k \in DOMAIN d.sessions :
                           /\ d.sessions[k].rule.verb = rule.verb
                           /\ ~(d.sessions[k].rule \in {rule, C!Rule(rule.verb, None)})
                           /\ \A j \in fit : k < j
    BY DEF C!SessionFits
  <2>1. IsSigned(signed[r])
    BY DEF AuthInv
  <2>2. /\ OwnTokens(d, signed[r].msg.box, signed[r].gate)
        /\ signed[r].token = C!TokenFor(d, rule.verb)
    BY <2>1 DEF IsSigned
  <2>3. /\ DOMAIN d.sessions \subseteq Nat
        /\ \A k \in DOMAIN d.sessions : d.sessions[k] \in SessionTokens
    BY <2>2 DEF OwnTokens
  <2>4. PICK able : able = {k \in DOMAIN d.sessions : d.sessions[k].rule.verb = rule.verb}
    OBVIOUS
  <2>5. C!Rule(rule.verb, None).verb = rule.verb
    BY DEF C!Rule
  <2>6. fit \subseteq able /\ able # {} /\ able \subseteq Nat
    BY <2>3, <2>4, <2>5
  <2>7. PICK m : m = CHOOSE k \in able : \A j \in able : k <= j
    OBVIOUS
  <2>8. m \in able /\ \A j \in able : m <= j
    BY <2>6, <2>7, LeastOf
  <2>9. signed[r].token = d.sessions[m]
    BY <2>2, <2>4, <2>6, <2>7 DEF C!TokenFor
  <2>10. signed[r].token # None
    BY <2>3, <2>4, <2>8, <2>9, OptionsAssumption
  <2>11. CASE m \in fit
    BY <2>9, <2>10, <2>11
  <2>12. CASE m \notin fit
    <3>1. ASSUME NEW j \in fit PROVE m < j
      <4>1. j \in Nat /\ m \in Nat /\ m <= j /\ m # j
        BY <2>6, <2>8, <2>12
      <4> QED
        BY <4>1
    <3>2. /\ m \in DOMAIN d.sessions /\ d.sessions[m].rule.verb = rule.verb
          /\ ~(d.sessions[m].rule \in {rule, C!Rule(rule.verb, None)})
      BY <2>4, <2>8, <2>12
    <3> QED
      BY <3>1, <3>2
  <2> QED
    BY <2>11, <2>12
<1> QED
  BY <1>1, <1>2, <1>3, <1>4

(* A gate gets the tokens of a box that are its own, for as long as was    *)
(* asked for and no longer, and uses the session that fits a request.      *)
THEOREM CredentialsHold == Spec => []CredentialsAsIssued
<1>1. Init => AuthInv
  BY AuthStart DEF Init
<1>2. AuthInv /\ [Next]_vars => AuthInv'
  <2> SUFFICES ASSUME AuthInv, [Next]_vars PROVE AuthInv'
    OBVIOUS
  <2>1. [C!Next]_C!vars
    BY DEF Next, vars, authVars, C!vars
  <2> QED
    BY <2>1, AuthNextKeeps
<1>3. AuthInv => CredentialsAsIssued
  BY AuthInvIsEnough DEF CredentialsAsIssued
<1> QED
  BY <1>1, <1>2, <1>3, PTL DEF Spec

---------------------------------------------------------------------------
(* Signatures. Calls and messages are records.                             *)
CallFields == {"method", "path", "spaced", "query", "headers"}
MessageFields == {"kind", "box", "c", "date", "expires", "fields", "signature"}
IsCall(c) == c = [f \in CallFields |-> c[f]]
IsMessage(m) == m = [f \in MessageFields |-> m[f]]

Named(x) == (IF x.kind = "header" THEN {"sha"} ELSE {}) \cup (IF x.meta THEN {"meta"} ELSE {})

(* What is sent in the way x, by a client that has the secret of its box.  *)
Sent(m, x) ==
  /\ IsMessage(m) /\ IsCall(m.c) /\ m.kind = x.kind
  /\ m.c.spaced = x.spaced /\ m.c.headers = [h \in Named(x) |-> 0]
  /\ m.fields = C!SignedBy(x.kind, m.box, m.c, m.date, m.expires).fields
  /\ m.signature = C!SignedBy(x.kind, m.box, m.c, m.date, m.expires).signature

(* An alteration leaves the kind, the secret, the fields and the signature *)
(* alone, and takes no header away.                                        *)
LEMMA AlteredParts ==
  ASSUME NEW m, IsMessage(m), IsCall(m.c), NEW change \in C!Changes,
         NEW msg, msg = C!Altered(m, change)
  PROVE  /\ IsMessage(msg) /\ IsCall(msg.c)
         /\ msg.kind = m.kind /\ msg.box = m.box /\ msg.fields = m.fields
         /\ msg.signature = m.signature
         /\ DOMAIN m.c.headers \subseteq DOMAIN msg.c.headers
<1>1. CASE change = "nothing"
  BY <1>1 DEF C!Altered
<1>2. ASSUME NEW h, msg = [m EXCEPT !.c.headers = h], DOMAIN m.c.headers \subseteq DOMAIN h
      PROVE  /\ IsMessage(msg) /\ IsCall(msg.c)
             /\ msg.kind = m.kind /\ msg.box = m.box /\ msg.fields = m.fields
             /\ msg.signature = m.signature
             /\ DOMAIN m.c.headers \subseteq DOMAIN msg.c.headers
  <2>1. PICK c : c = [m.c EXCEPT !.headers = h]
    OBVIOUS
  <2>2. IsCall(c) /\ c.headers = h
    BY <2>1 DEF IsCall, CallFields
  <2>3. msg = [m EXCEPT !.c = c]
    BY <1>2, <2>1
  <2>4. /\ IsMessage(msg) /\ msg.c = c /\ msg.kind = m.kind /\ msg.box = m.box
        /\ msg.fields = m.fields /\ msg.signature = m.signature
    BY <2>3 DEF IsMessage, MessageFields
  <2> QED
    BY <1>2, <2>2, <2>4
<1>3. CASE change = "agent"
  <2>1. PICK h : h = C!Over([a \in {"agent"} |-> 1], m.c.headers)
    OBVIOUS
  <2>2. DOMAIN m.c.headers \subseteq DOMAIN h
    BY <2>1 DEF C!Over
  <2>3. msg = [m EXCEPT !.c.headers = h]
    BY <1>3, <2>1 DEF C!Altered
  <2> QED
    BY <1>2, <2>2, <2>3
<1>4. CASE change = "meta"
  <2>1. PICK h : h = C!Over([a \in {"meta"} |-> 1], m.c.headers)
    OBVIOUS
  <2>2. DOMAIN m.c.headers \subseteq DOMAIN h
    BY <2>1 DEF C!Over
  <2>3. msg = [m EXCEPT !.c.headers = h]
    BY <1>4, <2>1 DEF C!Altered
  <2> QED
    BY <1>2, <2>2, <2>3
<1>5. CASE change \in {"date", "expires"}
  <2>1. msg = [m EXCEPT ![change] = @ + 1]
    BY <1>5 DEF C!Altered
  <2> QED
    BY <1>5, <2>1 DEF IsMessage, MessageFields
<1>6. CASE change \in {"method", "path", "query"}
  <2>1. PICK c : c = [m.c EXCEPT ![change] = 1]
    OBVIOUS
  <2>2. IsCall(c) /\ c.headers = m.c.headers
    BY <1>6, <2>1 DEF IsCall, CallFields
  <2>3. msg = [m EXCEPT !.c = c]
    BY <1>6, <2>1 DEF C!Altered
  <2>4. /\ IsMessage(msg) /\ msg.c = c /\ msg.kind = m.kind /\ msg.box = m.box
        /\ msg.fields = m.fields /\ msg.signature = m.signature
    BY <2>3 DEF IsMessage, MessageFields
  <2> QED
    BY <2>2, <2>4
<1> QED
  BY <1>1, <1>3, <1>4, <1>5, <1>6 DEF C!Changes

(* What Sign signs of a request with its headers, and of a presigned one.  *)
HeaderSignature(c, secret, date, expires) ==
  LET h == C!Over([a \in {"date"} |-> date], c.headers)
  IN <<secret, C!Canonical(c, h, {}, DOMAIN h \ {"auth"}, h["sha"], FALSE, FALSE,
                           date, expires)>>
PresignedSignature(c, secret, escape, date, expires) ==
  <<secret, C!Canonical(c, c.headers, {}, DOMAIN c.headers \ {"auth", "agent"}, 3, TRUE,
                        escape, date, expires)>>

LEMMA SignHeader ==
  ASSUME NEW c, "sha" \in DOMAIN c.headers, NEW secret, NEW date, NEW expires
  PROVE  C!Sign(c, secret, FALSE, FALSE, date, expires) =
           [fields |-> (({"date"} \cup DOMAIN c.headers) \ {"auth"}) \cup {"host"},
            signature |-> HeaderSignature(c, secret, date, expires)]
<1>1. PICK h : h = C!Over([a \in {"date"} |-> date], c.headers)
  OBVIOUS
<1>2. DOMAIN h = {"date"} \cup DOMAIN c.headers
  BY <1>1 DEF C!Over
<1>3. DOMAIN h \ {"auth"} = DOMAIN h \ ({} \cup C!Ignored(FALSE))
  BY DEF C!Ignored
<1>4. C!Sign(c, secret, FALSE, FALSE, date, expires) =
        [fields |-> (DOMAIN h \ {"auth"}) \cup {"host"},
         signature |-> HeaderSignature(c, secret, date, expires)]
  BY <1>1, <1>2, <1>3 DEF C!Sign, HeaderSignature
<1> QED
  BY <1>2, <1>4

LEMMA SignPresigned ==
  ASSUME NEW c, DOMAIN c.headers \cap {"sha", "date"} = {}, NEW secret,
         NEW escape, NEW date, NEW expires
  PROVE  C!Sign(c, secret, TRUE, escape, date, expires) =
           [fields |-> (DOMAIN c.headers \ {"auth", "agent"}) \cup {"host"},
            signature |-> PresignedSignature(c, secret, escape, date, expires)]
<1>1. C!Hoistable \cap DOMAIN c.headers = {}
  BY DEF C!Hoistable
<1>2. DOMAIN c.headers \ {"auth", "agent"} = DOMAIN c.headers \ ({} \cup C!Ignored(TRUE))
  BY DEF C!Ignored
<1> QED
  BY <1>1, <1>2 DEF C!Sign, PresignedSignature

(* What has the same signature has the same parts.                         *)
LEMMA PairTells ==
  ASSUME NEW a, NEW b, NEW p, NEW q, <<a, p>> = <<b, q>>
  PROVE  p = q
OBVIOUS

SameHeader(c, secret, date, expires, d, other, day, ends) ==
  HeaderSignature(c, secret, date, expires) = HeaderSignature(d, other, day, ends)
SamePresigned(c, secret, escape, date, expires, d, other, flee, day, ends) ==
  PresignedSignature(c, secret, escape, date, expires)
    = PresignedSignature(d, other, flee, day, ends)

LEMMA HeaderTells ==
  ASSUME NEW c, NEW secret, NEW date, NEW expires, NEW d, NEW other, NEW day, NEW ends,
         SameHeader(c, secret, date, expires, d, other, day, ends)
  PROVE  /\ c.method = d.method /\ c.path = d.path /\ c.query = d.query
         /\ date = day /\ expires = ends
         /\ \A a \in (DOMAIN c.headers \cap DOMAIN d.headers) \ {"auth", "date"} :
              c.headers[a] = d.headers[a]
<1>1. PICK h, i, k, l : /\ h = C!Over([a \in {"date"} |-> date], c.headers)
                        /\ i = C!Over([a \in {"date"} |-> day], d.headers)
                        /\ k = DOMAIN h \ {"auth"} /\ l = DOMAIN i \ {"auth"}
  OBVIOUS
<1>2. PICK p, q : /\ p = C!Canonical(c, h, {}, k, h["sha"], FALSE, FALSE, date, expires)
                  /\ q = C!Canonical(d, i, {}, l, i["sha"], FALSE, FALSE, day, ends)
  OBVIOUS
<1>3. /\ HeaderSignature(c, secret, date, expires) = <<secret, p>>
      /\ HeaderSignature(d, other, day, ends) = <<other, q>>
  BY <1>1, <1>2, Zenon DEF HeaderSignature
<1>4. p = q
  <2>1. <<secret, p>> = <<other, q>>
    BY <1>3, Zenon DEF SameHeader
  <2> QED
    BY <2>1, PairTells, Zenon
<1>5. PICK u, v, s, t : /\ u = <<c.path, c.spaced, FALSE /\ c.spaced>>
                        /\ v = <<d.path, d.spaced, FALSE /\ d.spaced>>
                        /\ s = <<FALSE, expires>> /\ t = <<FALSE, ends>>
  OBVIOUS
<1>6. PICK f, g : f = C!Among(h, k) /\ g = C!Among(i, l)
  OBVIOUS
<1>7. /\ p = [method |-> c.method, path |-> u, query |-> c.query, added |-> s, headers |-> f,
              digest |-> h["sha"], date |-> date]
      /\ q = [method |-> d.method, path |-> v, query |-> d.query, added |-> t, headers |-> g,
              digest |-> i["sha"], date |-> day]
  BY <1>2, <1>5, <1>6 DEF C!Canonical
<1>8. c.method = d.method /\ u = v /\ c.query = d.query /\ s = t /\ f = g /\ date = day
  <2>1. /\ p.method = c.method /\ p.path = u /\ p.query = c.query /\ p.added = s
        /\ p.headers = f /\ p.date = date
    BY <1>7
  <2>2. /\ q.method = d.method /\ q.path = v /\ q.query = d.query /\ q.added = t
        /\ q.headers = g /\ q.date = day
    BY <1>7
  <2> QED
    BY <1>4, <2>1, <2>2
<1>9. c.path = d.path /\ expires = ends
  BY <1>5, <1>8
<1>10. f = [a \in DOMAIN h \cap k |-> h[a]] /\ g = [a \in DOMAIN i \cap l |-> i[a]]
  BY <1>6 DEF C!Among
<1>11. ASSUME NEW a \in (DOMAIN c.headers \cap DOMAIN d.headers) \ {"auth", "date"}
       PROVE  c.headers[a] = d.headers[a]
  <2>1. a \in DOMAIN h /\ a \in DOMAIN i /\ h[a] = c.headers[a] /\ i[a] = d.headers[a]
    BY <1>1, <1>11 DEF C!Over
  <2>2. f[a] = h[a] /\ g[a] = i[a]
    BY <1>1, <1>10, <1>11, <2>1
  <2> QED
    BY <1>8, <2>1, <2>2
<1> QED
  BY <1>8, <1>9, <1>11

LEMMA PresignedTells ==
  ASSUME NEW c, NEW secret, NEW date, NEW expires, NEW d, NEW other, NEW day, NEW ends,
         NEW escape, NEW flee,
         SamePresigned(c, secret, escape, date, expires, d, other, flee, day, ends)
  PROVE  /\ c.method = d.method /\ c.path = d.path /\ c.query = d.query
         /\ date = day /\ expires = ends
         /\ DOMAIN c.headers \ {"auth", "agent"} = DOMAIN d.headers \ {"auth", "agent"}
<1>1. PICK h, i, k, l : /\ h = c.headers /\ k = DOMAIN h \ {"auth", "agent"}
                        /\ i = d.headers /\ l = DOMAIN i \ {"auth", "agent"}
  OBVIOUS
<1>2. PICK p, q : /\ p = C!Canonical(c, h, {}, k, 3, TRUE, escape, date, expires)
                  /\ q = C!Canonical(d, i, {}, l, 3, TRUE, flee, day, ends)
  OBVIOUS
<1>3. /\ PresignedSignature(c, secret, escape, date, expires) = <<secret, p>>
      /\ PresignedSignature(d, other, flee, day, ends) = <<other, q>>
  BY <1>1, <1>2, Zenon DEF PresignedSignature
<1>4. p = q
  <2>1. <<secret, p>> = <<other, q>>
    BY <1>3, Zenon DEF SamePresigned
  <2> QED
    BY <2>1, PairTells, Zenon
<1>5. PICK u, v, s, t : /\ u = <<c.path, c.spaced, escape /\ c.spaced>>
                        /\ v = <<d.path, d.spaced, flee /\ d.spaced>>
                        /\ s = <<TRUE, expires>> /\ t = <<TRUE, ends>>
  OBVIOUS
<1>6. PICK f, g : f = C!Among(h, k) /\ g = C!Among(i, l)
  OBVIOUS
<1>7. /\ p = [method |-> c.method, path |-> u, query |-> c.query, added |-> s, headers |-> f,
              digest |-> 3, date |-> date]
      /\ q = [method |-> d.method, path |-> v, query |-> d.query, added |-> t, headers |-> g,
              digest |-> 3, date |-> day]
  BY <1>2, <1>5, <1>6 DEF C!Canonical
<1>8. c.method = d.method /\ u = v /\ c.query = d.query /\ s = t /\ f = g /\ date = day
  <2>1. /\ p.method = c.method /\ p.path = u /\ p.query = c.query /\ p.added = s
        /\ p.headers = f /\ p.date = date
    BY <1>7
  <2>2. /\ q.method = d.method /\ q.path = v /\ q.query = d.query /\ q.added = t
        /\ q.headers = g /\ q.date = day
    BY <1>7
  <2> QED
    BY <1>4, <2>1, <2>2
<1>9. c.path = d.path /\ expires = ends
  BY <1>5, <1>8
<1>10. f = [a \in DOMAIN h \cap k |-> h[a]] /\ g = [a \in DOMAIN i \cap l |-> i[a]]
  BY <1>6 DEF C!Among
<1>11. DOMAIN h \cap k = DOMAIN i \cap l
  BY <1>8, <1>10
<1> QED
  BY <1>1, <1>8, <1>9, <1>11

(* The fields that a client signs, and its signature.                      *)
LEMMA SentSigned ==
  ASSUME NEW x \in C!Sendings, NEW m, Sent(m, x)
  PROVE  /\ m.kind = "header" =>
              /\ m.fields = {"date", "host"} \cup Named(x)
              /\ m.signature = HeaderSignature(m.c, m.box, m.date, m.expires)
         /\ m.kind = "presigned" =>
              /\ m.fields = {"host"} \cup Named(x)
              /\ m.signature = PresignedSignature(m.c, m.box, FALSE, m.date, m.expires)
         /\ m.kind = "tool" =>
              /\ m.fields = {"host"} /\ Named(x) = {}
              /\ m.signature = PresignedSignature(m.c, m.box, TRUE, m.date, m.expires)
         /\ m.kind = "form" => m.signature = C!FormSignature(m.box, m.date, m.c.query)
<1>1. /\ m.kind = x.kind /\ DOMAIN m.c.headers = Named(x)
      /\ m.fields = C!SignedBy(x.kind, m.box, m.c, m.date, m.expires).fields
      /\ m.signature = C!SignedBy(x.kind, m.box, m.c, m.date, m.expires).signature
  BY DEF Sent
<1>2. PICK s : s = C!SignedBy(m.kind, m.box, m.c, m.date, m.expires)
  OBVIOUS
<1>3. CASE m.kind = "header"
  <2>1. PICK t : t = C!Sign(m.c, m.box, FALSE, FALSE, m.date, m.expires)
    OBVIOUS
  <2>2. (m.kind # "header") = FALSE /\ (m.kind = "tool") = FALSE /\ m.kind # "form"
    BY <1>3
  <2>3. s = t
    BY <1>2, <2>1, <2>2 DEF C!SignedBy
  <2>4. Named(x) \subseteq {"sha", "meta"} /\ "sha" \in Named(x)
    BY <1>1, <1>3 DEF Named
  <2>5. "sha" \in DOMAIN m.c.headers
    BY <1>1, <2>4
  <2>6. t = [fields |-> (({"date"} \cup DOMAIN m.c.headers) \ {"auth"}) \cup {"host"},
             signature |-> HeaderSignature(m.c, m.box, m.date, m.expires)]
    BY <2>1, <2>5, SignHeader, Zenon
  <2> QED
    BY <1>1, <1>2, <1>3, <2>3, <2>4, <2>6
<1>4. ASSUME NEW escape \in BOOLEAN, m.kind \in {"presigned", "tool"},
             escape = (m.kind = "tool")
      PROVE  /\ m.fields = {"host"} \cup Named(x)
             /\ m.signature = PresignedSignature(m.c, m.box, escape, m.date, m.expires)
             /\ m.kind = "tool" => Named(x) = {}
  <2>1. PICK t : t = C!Sign(m.c, m.box, TRUE, escape, m.date, m.expires)
    OBVIOUS
  <2>2. (m.kind # "header") = TRUE /\ m.kind # "form"
    BY <1>4
  <2>3. s = t
    BY <1>2, <1>4, <2>1, <2>2 DEF C!SignedBy
  <2>4. Named(x) \subseteq {"meta"} /\ (m.kind = "tool" => Named(x) = {})
    BY <1>1, <1>4 DEF Named, C!Sendings
  <2>5. DOMAIN m.c.headers \cap {"sha", "date"} = {}
    BY <1>1, <2>4
  <2>6. t = [fields |-> (DOMAIN m.c.headers \ {"auth", "agent"}) \cup {"host"},
             signature |-> PresignedSignature(m.c, m.box, escape, m.date, m.expires)]
    BY <2>1, <2>5, SignPresigned, Zenon
  <2> QED
    BY <1>1, <1>2, <2>3, <2>4, <2>6
<1>5. CASE m.kind = "presigned"
  <2>1. FALSE = (m.kind = "tool")
    BY <1>5
  <2> QED
    BY <1>4, <1>5, <2>1
<1>6. CASE m.kind = "tool"
  <2>1. TRUE = (m.kind = "tool")
    BY <1>6
  <2> QED
    BY <1>4, <1>6, <2>1
<1>7. CASE m.kind = "form"
  BY <1>1, <1>7 DEF C!SignedBy
<1>8. m.kind \in {"header", "presigned", "tool", "form"}
  BY <1>1 DEF C!Sendings
<1> QED
  BY <1>3, <1>5, <1>6, <1>7, <1>8

(* The signature that a gate expects, and the request that it signs.       *)
LEMMA ExpectedSigned ==
  ASSUME NEW msg, NEW secret
  PROVE  /\ msg.kind = "header" /\ "sha" \in DOMAIN C!Cloned(msg).headers =>
              C!Expected(msg, secret) =
                HeaderSignature(C!Cloned(msg), secret, msg.date, msg.expires)
         /\ msg.kind \in {"presigned", "tool"}
              /\ DOMAIN C!Cloned(msg).headers \cap {"sha", "date"} = {} =>
              C!Expected(msg, secret) =
                PresignedSignature(C!Cloned(msg), secret, TRUE, msg.date, msg.expires)
         /\ msg.kind = "form" =>
              C!Expected(msg, secret) = C!FormSignature(secret, msg.date, msg.c.query)
<1>1. PICK d : d = C!Cloned(msg)
  OBVIOUS
<1>2. ASSUME msg.kind = "header", "sha" \in DOMAIN d.headers
      PROVE  C!Expected(msg, secret) = HeaderSignature(d, secret, msg.date, msg.expires)
  <2>1. PICK t : t = C!Sign(d, secret, FALSE, FALSE, msg.date, msg.expires)
    OBVIOUS
  <2>2. (msg.kind # "header") = FALSE /\ msg.kind # "form"
    BY <1>2
  <2>3. C!Expected(msg, secret) = t.signature
    BY <1>1, <2>1, <2>2 DEF C!Expected
  <2>4. t = [fields |-> (({"date"} \cup DOMAIN d.headers) \ {"auth"}) \cup {"host"},
             signature |-> HeaderSignature(d, secret, msg.date, msg.expires)]
    BY <1>2, <2>1, SignHeader, Zenon
  <2> QED
    BY <2>3, <2>4
<1>3. ASSUME msg.kind \in {"presigned", "tool"}, DOMAIN d.headers \cap {"sha", "date"} = {}
      PROVE  C!Expected(msg, secret) = PresignedSignature(d, secret, TRUE, msg.date, msg.expires)
  <2>1. PICK t : t = C!Sign(d, secret, TRUE, TRUE, msg.date, msg.expires)
    OBVIOUS
  <2>2. (msg.kind # "header") = TRUE /\ msg.kind # "form"
    BY <1>3
  <2>3. C!Expected(msg, secret) = t.signature
    BY <1>1, <2>1, <2>2 DEF C!Expected
  <2>4. t = [fields |-> (DOMAIN d.headers \ {"auth", "agent"}) \cup {"host"},
             signature |-> PresignedSignature(d, secret, TRUE, msg.date, msg.expires)]
    BY <1>3, <2>1, SignPresigned, Zenon
  <2> QED
    BY <2>3, <2>4
<1>4. msg.kind = "form" =>
        C!Expected(msg, secret) = C!FormSignature(secret, msg.date, msg.c.query)
  BY DEF C!Expected
<1> QED
  BY <1>1, <1>2, <1>3, <1>4

ClonedNames(msg) ==
  IF msg.kind = "header" THEN msg.fields ELSE {h \in msg.fields : msg.fields = {h}}

LEMMA ClonedParts ==
  ASSUME NEW msg, IsCall(msg.c)
  PROVE  /\ IsCall(C!Cloned(msg)) /\ C!Cloned(msg).method = msg.c.method
         /\ C!Cloned(msg).path = msg.c.path /\ C!Cloned(msg).spaced = msg.c.spaced
         /\ C!Cloned(msg).query = msg.c.query
         /\ C!Cloned(msg).headers =
              [h \in DOMAIN msg.c.headers \cap ClonedNames(msg) |-> msg.c.headers[h]]
<1>1. PICK f, d : f = C!Among(msg.c.headers, ClonedNames(msg)) /\ d = C!Cloned(msg)
  OBVIOUS
<1>2. d = [msg.c EXCEPT !.headers = f]
  BY <1>1 DEF C!Cloned, ClonedNames
<1>3. PICK c : c = msg.c
  OBVIOUS
<1>4. /\ IsCall(d) /\ d.method = c.method /\ d.path = c.path
      /\ d.spaced = c.spaced /\ d.query = c.query /\ d.headers = f
  BY <1>2, <1>3 DEF IsCall, CallFields
<1> QED
  BY <1>1, <1>3, <1>4 DEF C!Among

(* What was not touched is what the gate expects.                          *)
LEMMA UntouchedVerifies ==
  ASSUME NEW x \in C!Sendings, NEW m, Sent(m, x), NEW msg,
         msg = m \/ msg = C!Altered(m, "agent"),
         m.kind = "presigned" => m.fields = {"host"} /\ ~m.c.spaced
  PROVE  C!Expected(msg, msg.box) = msg.signature
<1>1. /\ IsMessage(m) /\ IsCall(m.c) /\ m.kind = x.kind /\ m.c.spaced = x.spaced
      /\ m.c.headers = [h \in Named(x) |-> 0] /\ Named(x) \subseteq {"sha", "meta"}
  BY DEF Sent, Named
<1>2. PICK s : s = m.c.headers
  OBVIOUS
<1>3. /\ msg.kind = m.kind /\ msg.box = m.box /\ msg.fields = m.fields
      /\ msg.signature = m.signature /\ msg.date = m.date /\ msg.expires = m.expires
      /\ IsCall(msg.c) /\ msg.c.method = m.c.method /\ msg.c.path = m.c.path
      /\ msg.c.spaced = m.c.spaced /\ msg.c.query = m.c.query
      /\ DOMAIN msg.c.headers \in {Named(x), Named(x) \cup {"agent"}}
      /\ \A h \in Named(x) : msg.c.headers[h] = 0
  <2>1. CASE msg = m
    BY <1>1, <2>1
  <2>2. CASE msg = C!Altered(m, "agent")
    <3>1. PICK h : h = C!Over([a \in {"agent"} |-> 1], s)
      OBVIOUS
    <3>2. DOMAIN h = Named(x) \cup {"agent"} /\ \A a \in Named(x) : h[a] = 0
      BY <1>1, <1>2, <3>1 DEF C!Over
    <3>3. msg = [m EXCEPT !.c.headers = h]
      BY <1>2, <2>2, <3>1 DEF C!Altered
    <3>4. PICK c : c = [m.c EXCEPT !.headers = h]
      OBVIOUS
    <3>5. /\ IsCall(c) /\ c.headers = h /\ c.method = m.c.method /\ c.path = m.c.path
          /\ c.spaced = m.c.spaced /\ c.query = m.c.query
      BY <1>1, <3>4 DEF IsCall, CallFields
    <3>6. msg = [m EXCEPT !.c = c]
      BY <3>3, <3>4
    <3>7. /\ msg.c = c /\ msg.kind = m.kind /\ msg.box = m.box /\ msg.fields = m.fields
          /\ msg.signature = m.signature /\ msg.date = m.date /\ msg.expires = m.expires
      BY <1>1, <3>6 DEF IsMessage, MessageFields
    <3> QED
      BY <3>2, <3>5, <3>7
  <2> QED
    BY <2>1, <2>2
<1>4. PICK d, names : d = C!Cloned(msg) /\ names = ClonedNames(msg)
  OBVIOUS
<1>5. /\ IsCall(d) /\ d.method = msg.c.method /\ d.path = msg.c.path
      /\ d.spaced = msg.c.spaced /\ d.query = msg.c.query
      /\ d.headers = [h \in DOMAIN msg.c.headers \cap names |-> msg.c.headers[h]]
  BY <1>3, <1>4, ClonedParts, Zenon
<1>6. ASSUME DOMAIN msg.c.headers \cap names = Named(x) PROVE d = m.c
  <2>1. d.headers = m.c.headers
    BY <1>1, <1>3, <1>5, <1>6
  <2>2. \A f \in CallFields : d[f] = m.c[f]
    BY <1>3, <1>5, <2>1 DEF CallFields
  <2> QED
    BY <1>1, <1>5, <2>2 DEF IsCall
<1>7. CASE m.kind = "header"
  <2>1. m.fields = {"date", "host"} \cup Named(x)
        /\ m.signature = HeaderSignature(m.c, m.box, m.date, m.expires)
    BY <1>7, SentSigned
  <2>2. d = m.c
    BY <1>1, <1>3, <1>4, <1>6, <1>7, <2>1 DEF ClonedNames
  <2>3. "sha" \in DOMAIN C!Cloned(msg).headers
    BY <1>1, <1>4, <1>7, <2>2 DEF Named
  <2>4. C!Expected(msg, msg.box)
          = HeaderSignature(C!Cloned(msg), msg.box, msg.date, msg.expires)
    BY <1>3, <1>7, <2>3, ExpectedSigned, Zenon
  <2> QED
    BY <1>3, <1>4, <2>1, <2>2, <2>4
<1>8. ASSUME m.kind \in {"presigned", "tool"}, m.fields = {"host"}, Named(x) = {}
      PROVE  C!Expected(msg, msg.box) = PresignedSignature(m.c, m.box, TRUE, m.date, m.expires)
  <2>1. d = m.c
    BY <1>3, <1>4, <1>6, <1>8 DEF ClonedNames
  <2>2. DOMAIN d.headers \cap {"sha", "date"} = {}
    BY <1>1, <1>8, <2>1
  <2> QED
    BY <1>3, <1>4, <1>8, <2>1, <2>2, ExpectedSigned, Zenon
<1>9. CASE m.kind = "presigned"
  <2>1. m.fields = {"host"} \cup Named(x)
        /\ m.signature = PresignedSignature(m.c, m.box, FALSE, m.date, m.expires)
    BY <1>9, SentSigned
  <2>2. Named(x) = {}
    BY <1>1, <1>9, <2>1
  <2>3. ~m.c.spaced
    BY <1>9
  <2>4. PresignedSignature(m.c, m.box, TRUE, m.date, m.expires) = m.signature
    <3>1. PICK c, secret, date, expires :
            c = m.c /\ secret = m.box /\ date = m.date /\ expires = m.expires
      OBVIOUS
    <3>2. (TRUE /\ c.spaced) = FALSE /\ (FALSE /\ c.spaced) = FALSE
      BY <2>3, <3>1
    <3>3. PICK ns : ns = DOMAIN c.headers \ {"auth", "agent"}
      OBVIOUS
    <3>4. C!Canonical(c, c.headers, {}, ns, 3, TRUE, TRUE, date, expires)
            = C!Canonical(c, c.headers, {}, ns, 3, TRUE, FALSE, date, expires)
      BY <3>2 DEF C!Canonical
    <3>5. PresignedSignature(c, secret, TRUE, date, expires)
            = PresignedSignature(c, secret, FALSE, date, expires)
      BY <3>3, <3>4 DEF PresignedSignature
    <3> QED
      BY <2>1, <3>1, <3>5, Zenon
  <2>5. C!Expected(msg, msg.box) = PresignedSignature(m.c, m.box, TRUE, m.date, m.expires)
    BY <1>8, <1>9, <2>2
  <2> QED
    BY <1>3, <2>4, <2>5, Zenon
<1>10. CASE m.kind = "tool"
  BY <1>3, <1>8, <1>10, SentSigned
<1>11. CASE m.kind = "form"
  <2>1. m.signature = C!FormSignature(m.box, m.date, m.c.query)
    BY <1>11, SentSigned, Zenon
  <2>2. C!Expected(msg, msg.box) = C!FormSignature(msg.box, msg.date, msg.c.query)
    BY <1>3, <1>11, ExpectedSigned, Zenon
  <2> QED
    BY <1>3, <2>1, <2>2
<1>12. m.kind \in {"header", "presigned", "tool", "form"}
  BY <1>1 DEF C!Sendings
<1> QED
  BY <1>7, <1>9, <1>10, <1>11, <1>12

(* What a gate expects is what was signed.                                 *)
LEMMA VerifiedIsSigned ==
  ASSUME NEW x \in C!Sendings, NEW m, Sent(m, x), NEW change \in C!Changes,
         NEW msg, msg = C!Altered(m, change),
         NEW secret, msg.signature = C!Expected(msg, secret)
  PROVE  /\ msg.kind = m.kind /\ msg.c.query = m.c.query /\ msg.date = m.date
         /\ msg.kind # "form" =>
              /\ msg.c.method = m.c.method /\ msg.c.path = m.c.path
              /\ \A h \in m.fields \ {"host", "date"} : msg.c.headers[h] = m.c.headers[h]
         /\ msg.kind \in {"presigned", "tool"} => msg.expires = m.expires
<1>1. /\ m.kind = x.kind /\ DOMAIN m.c.headers = Named(x)
      /\ IsMessage(m) /\ IsCall(m.c) /\ Named(x) \subseteq {"sha", "meta"}
      /\ (m.kind \in {"presigned", "tool"} => Named(x) \subseteq {"meta"})
  BY DEF Sent, Named
<1>2. /\ IsCall(msg.c) /\ msg.kind = m.kind /\ msg.fields = m.fields
      /\ msg.signature = m.signature /\ Named(x) \subseteq DOMAIN msg.c.headers
  BY <1>1, AlteredParts
<1>3. PICK d, names : d = C!Cloned(msg) /\ names = ClonedNames(msg)
  OBVIOUS
<1>4. /\ d.method = msg.c.method /\ d.path = msg.c.path /\ d.query = msg.c.query
      /\ d.headers = [h \in DOMAIN msg.c.headers \cap names |-> msg.c.headers[h]]
  BY <1>2, <1>3, ClonedParts, Zenon
<1>5. CASE m.kind = "header"
  <2>1. m.fields = {"date", "host"} \cup Named(x)
        /\ m.signature = HeaderSignature(m.c, m.box, m.date, m.expires)
    BY <1>5, SentSigned
  <2>2. "sha" \in Named(x) /\ names = m.fields
    BY <1>1, <1>2, <1>3, <1>5 DEF Named, ClonedNames
  <2>3. /\ "sha" \in DOMAIN d.headers /\ Named(x) \subseteq DOMAIN d.headers
        /\ \A h \in Named(x) : d.headers[h] = msg.c.headers[h]
    BY <1>2, <1>4, <2>1, <2>2
  <2>4. m.signature = HeaderSignature(d, secret, msg.date, msg.expires)
    BY <1>2, <1>3, <1>5, <2>3, ExpectedSigned
  <2>5. SameHeader(m.c, m.box, m.date, m.expires, d, secret, msg.date, msg.expires)
    BY <2>1, <2>4 DEF SameHeader
  <2>6. /\ m.c.method = d.method /\ m.c.path = d.path /\ m.c.query = d.query
        /\ m.date = msg.date /\ m.expires = msg.expires
        /\ \A a \in (DOMAIN m.c.headers \cap DOMAIN d.headers) \ {"auth", "date"} :
             m.c.headers[a] = d.headers[a]
    BY <2>5, HeaderTells
  <2>7. \A a \in Named(x) : msg.c.headers[a] = m.c.headers[a]
    BY <1>1, <2>3, <2>6
  <2> QED
    BY <1>2, <1>4, <1>5, <2>1, <2>6, <2>7
<1>6. ASSUME m.kind \in {"presigned", "tool"}, NEW escape,
             m.fields = {"host"} \cup Named(x),
             m.signature = PresignedSignature(m.c, m.box, escape, m.date, m.expires)
      PROVE  /\ msg.c.query = m.c.query /\ msg.date = m.date /\ msg.expires = m.expires
             /\ msg.c.method = m.c.method /\ msg.c.path = m.c.path
             /\ m.fields = {"host"}
  <2>1. names \subseteq {"host"}
    BY <1>1, <1>2, <1>3, <1>6 DEF ClonedNames
  <2>2. DOMAIN d.headers \subseteq {"host"} /\ DOMAIN d.headers \cap {"sha", "date"} = {}
    BY <1>4, <2>1
  <2>3. m.signature = PresignedSignature(d, secret, TRUE, msg.date, msg.expires)
    BY <1>2, <1>3, <1>6, <2>2, ExpectedSigned
  <2>4. PICK flee : SamePresigned(m.c, m.box, escape, m.date, m.expires,
                                  d, secret, flee, msg.date, msg.expires)
    BY <1>6, <2>3, Zenon DEF SamePresigned
  <2>5. /\ m.c.method = d.method /\ m.c.path = d.path /\ m.c.query = d.query
        /\ m.date = msg.date /\ m.expires = msg.expires
        /\ DOMAIN m.c.headers \ {"auth", "agent"} = DOMAIN d.headers \ {"auth", "agent"}
    BY <2>4, PresignedTells
  <2>6. Named(x) = {}
    BY <1>1, <1>6, <2>2, <2>5
  <2> QED
    BY <1>4, <1>6, <2>5, <2>6
<1>7. CASE m.kind = "presigned"
  <2>1. m.fields = {"host"} \cup Named(x)
        /\ m.signature = PresignedSignature(m.c, m.box, FALSE, m.date, m.expires)
    BY <1>7, SentSigned
  <2> QED
    BY <1>2, <1>6, <1>7, <2>1
<1>8. CASE m.kind = "tool"
  <2>1. m.fields = {"host"} \cup Named(x)
        /\ m.signature = PresignedSignature(m.c, m.box, TRUE, m.date, m.expires)
    BY <1>8, SentSigned
  <2> QED
    BY <1>2, <1>6, <1>8, <2>1
<1>9. CASE m.kind = "form"
  <2>1. C!FormSignature(m.box, m.date, m.c.query)
          = C!FormSignature(secret, msg.date, msg.c.query)
    BY <1>2, <1>9, SentSigned, ExpectedSigned
  <2>2. m.date = msg.date /\ m.c.query = msg.c.query
    BY <2>1 DEF C!FormSignature
  <2> QED
    BY <1>2, <1>9, <2>2
<1>10. m.kind \in {"header", "presigned", "tool", "form"}
  BY <1>1 DEF C!Sendings
<1> QED
  BY <1>5, <1>7, <1>8, <1>9, <1>10

---------------------------------------------------------------------------
(* A gate refuses for a reason, and accepts what it expects.               *)
LEMMA EpochsGoOn ==
  ASSUME NEW n \in Nat, NEW m \in Nat, n <= m
  PROVE  C!Epoch(n) \in Nat /\ C!Epoch(n) <= C!Epoch(m)
<1>0. EpochLength \in Nat /\ EpochLength >= 1
  BY OptionsAssumption
<1>1. PICK p \in Nat, s \in 0 .. EpochLength - 1 : p = C!Epoch(n) /\ n = EpochLength * p + s
  BY InEpoch
<1>2. PICK q \in Nat, t \in 0 .. EpochLength - 1 : q = C!Epoch(m) /\ m = EpochLength * q + t
  BY InEpoch
<1>3. ASSUME q < p PROVE FALSE
  <2>1. PICK d \in Nat : p = q + 1 + d
    <3>1. p - q - 1 \in Nat /\ p = q + 1 + (p - q - 1)
      BY <1>3
    <3> QED
      BY <3>1
  <2>2. PICK eq, ed : eq = EpochLength * q /\ ed = EpochLength * d
    OBVIOUS
  <2>3. eq \in Nat /\ ed \in Nat /\ EpochLength * (q + 1 + d) = eq + EpochLength + ed
    BY <1>0, <2>2
  <2>4. n = eq + EpochLength + ed + s /\ m = eq + t
    BY <1>1, <1>2, <2>1, <2>2, <2>3
  <2> QED
    BY <1>0, <2>3, <2>4
<1> QED
  BY <1>1, <1>2, <1>3

Turned(q) ==
  \/ q.faulty
  \/ \E b \in boxes :
       /\ b.id = q.msg.box
       /\ \/ C!EntriesOf(b, q.gate) = {}
          \/ ~C!Alive(b)
          \/ q.msg.kind # "form" /\ b.cnr \notin Allowed[q.gate] /\ Allowed[q.gate] # {}
  \/ q.msg.kind \in {"presigned", "tool"} /\ ~q.known
  \/ q.msg.signature # C!Expected(q.msg, q.msg.box)

OnItsWay(q) == \E x \in C!Sendings : Sent(q.sent, x) /\ q.msg = C!Altered(q.sent, x.change)

SignedSoFar(q) ==
  q.pc # "idle" =>
    /\ OnItsWay(q)
    /\ q.pc = "accepted" => q.msg.signature = C!Expected(q.msg, q.msg.box)
    /\ q.pc = "refused" => Turned(q)

SignedInv == AuthInv /\ \A r \in AuthRequests : \E q : q = signed[r] /\ SignedSoFar(q)

(* A box that does not live stays dead.                                    *)
LEMMA SignedGrows ==
  ASSUME AuthInv, clock' \in Nat, clock <= clock', boxes \subseteq boxes',
         NEW q, SignedSoFar(q)
  PROVE  SignedSoFar(q)'
<1>1. OnItsWay(q) => OnItsWay(q)'
  BY DEF OnItsWay, Sent, C!Sendings, C!Changes, C!Altered, C!SignedBy, C!Sign, C!Canonical,
         C!Over, C!Among, C!Ignored, C!Hoistable, C!FormSignature
<1>2. C!Expected(q.msg, q.msg.box) = C!Expected(q.msg, q.msg.box)'
  BY DEF C!Expected, C!Cloned, C!Sign, C!Canonical, C!Over, C!Among, C!Ignored, C!Hoistable,
         C!FormSignature
<1>3. ASSUME NEW b \in boxes PROVE /\ C!EntriesOf(b, q.gate) = C!EntriesOf(b, q.gate)'
                                   /\ ~C!Alive(b) => ~C!Alive(b)'
  <2>1. b.exp \in Nat /\ clock \in Nat
    BY DEF AuthInv, IsBox
  <2>2. PICK m, n : m = clock /\ n = clock'
    OBVIOUS
  <2>3. /\ m \in Nat /\ n \in Nat /\ m <= n
        /\ C!Epoch(m) \in Nat /\ C!Epoch(n) \in Nat /\ C!Epoch(m) <= C!Epoch(n)
    BY <2>1, <2>2, EpochsGoOn
  <2>4. (C!Alive(b) <=> C!Epoch(m) <= b.exp) /\ (C!Alive(b)' <=> C!Epoch(n) <= b.exp)
    BY <2>2 DEF C!Alive, C!Epoch
  <2>5. ~C!Alive(b) => ~C!Alive(b)'
    <3>1. PICK i, j : i = C!Epoch(m) /\ j = C!Epoch(n)
      OBVIOUS
    <3>2. i \in Nat /\ j \in Nat /\ i <= j /\ b.exp \in Nat
      BY <2>1, <2>3, <3>1
    <3>3. j <= b.exp => i <= b.exp
      BY <3>2
    <3> QED
      BY <2>4, <3>1, <3>3
  <2> QED
    BY <2>5 DEF C!EntriesOf
<1>4. Turned(q) => Turned(q)'
  BY <1>2, <1>3 DEF Turned
<1> QED
  BY <1>1, <1>2, <1>4 DEF SignedSoFar

LEMMA SignedStep ==
  ASSUME SignedInv, NEW r \in AuthRequests, NEW x, C!SetReq(r, x), SignedSoFar(x),
         UNCHANGED <<clock, boxes>>, AuthInv'
  PROVE  SignedInv'
<1>1. \A s \in AuthRequests : signed'[s] = IF s = r THEN x ELSE signed[s]
  BY DEF SignedInv, AuthInv, C!SetReq
<1>2. ASSUME NEW s \in AuthRequests PROVE \E q : q = signed'[s] /\ SignedSoFar(q)'
  <2>1. PICK q : q = signed'[s] /\ SignedSoFar(q)
    BY <1>1 DEF SignedInv
  <2>2. clock' \in Nat /\ clock <= clock' /\ boxes \subseteq boxes'
    BY DEF SignedInv, AuthInv
  <2> QED
    BY <2>1, <2>2, SignedGrows DEF SignedInv
<1> QED
  BY <1>2 DEF SignedInv

LEMMA OthersSigned ==
  ASSUME SignedInv, UNCHANGED signed, clock' \in Nat, clock <= clock', boxes \subseteq boxes',
         AuthInv'
  PROVE  SignedInv'
<1>1. ASSUME NEW s \in AuthRequests PROVE \E q : q = signed'[s] /\ SignedSoFar(q)'
  <2>1. PICK q : q = signed'[s] /\ SignedSoFar(q)
    BY DEF SignedInv
  <2> QED
    BY <2>1, SignedGrows DEF SignedInv
<1> QED
  BY <1>1 DEF SignedInv

LEMMA ArriveSigns ==
  ASSUME SignedInv, NEW r \in AuthRequests, C!Arrive(r)
  PROVE  SignedInv'
<1>1. AuthInv' /\ UNCHANGED <<clock, boxes>>
  <2>1. AuthInv
    BY DEF SignedInv
  <2>2. UNCHANGED <<clock, boxes>>
    BY DEF C!Arrive
  <2> QED
    BY <2>1, <2>2, ArriveKeeps
<1>2. PICK g, b, x, m, pc :
        /\ b \in boxes /\ x \in C!Sendings /\ Sent(m, x) /\ m.box = b.id
        /\ pc = (IF x.kind # "form" /\ Allowed[g] # {} /\ b.cnr \notin Allowed[g]
                 THEN "refused" ELSE "box")
        /\ C!SetReq(r, [C!NoRequest EXCEPT !.pc = pc, !.gate = g, !.sent = m,
                                           !.msg = C!Altered(m, x.change)])
  <2>1. PICK g \in Gates, b \in boxes, x \in C!Sendings :
          LET names == (IF x.kind = "header" THEN {"sha"} ELSE {})
                         \cup (IF x.meta THEN {"meta"} ELSE {})
              c == [method |-> 0, path |-> 0, spaced |-> x.spaced, query |-> 0,
                    headers |-> [h \in names |-> 0]]
              s == C!SignedBy(x.kind, b.id, c, clock + x.ahead, EpochLength)
              sn == [kind |-> x.kind, box |-> b.id, c |-> c, date |-> clock + x.ahead,
                     expires |-> EpochLength, fields |-> s.fields, signature |-> s.signature]
          IN C!SetReq(r, [C!NoRequest EXCEPT
               !.pc = IF x.kind # "form" /\ Allowed[g] # {} /\ b.cnr \notin Allowed[g]
                      THEN "refused" ELSE "box",
               !.gate = g, !.sent = sn, !.msg = C!Altered(sn, x.change)])
    BY DEF C!Arrive
  <2>2. PICK h, date : h = [a \in Named(x) |-> 0] /\ date = clock + x.ahead
    OBVIOUS
  <2>3. PICK c : c = [method |-> 0, path |-> 0, spaced |-> x.spaced, query |-> 0,
                      headers |-> h]
    OBVIOUS
  <2>4. PICK s : s = C!SignedBy(x.kind, b.id, c, date, EpochLength)
    OBVIOUS
  <2>5. PICK m : m = [kind |-> x.kind, box |-> b.id, c |-> c, date |-> date,
                      expires |-> EpochLength, fields |-> s.fields, signature |-> s.signature]
    OBVIOUS
  <2>6. PICK pc : pc = (IF x.kind # "form" /\ Allowed[g] # {} /\ b.cnr \notin Allowed[g]
                        THEN "refused" ELSE "box")
    OBVIOUS
  <2>7. C!SetReq(r, [C!NoRequest EXCEPT !.pc = pc, !.gate = g, !.sent = m,
                                        !.msg = C!Altered(m, x.change)])
    BY <2>1, <2>2, <2>3, <2>4, <2>5, <2>6 DEF Named
  <2>8. Sent(m, x) /\ m.box = b.id
    <3>1. IsCall(c) /\ c.spaced = x.spaced /\ c.headers = h
      BY <2>3 DEF IsCall, CallFields
    <3>2. /\ IsMessage(m) /\ m.kind = x.kind /\ m.c = c /\ m.box = b.id /\ m.date = date
          /\ m.expires = EpochLength /\ m.fields = s.fields /\ m.signature = s.signature
      BY <2>5 DEF IsMessage, MessageFields
    <3> QED
      BY <2>2, <2>4, <3>1, <3>2 DEF Sent
  <2> QED
    BY <2>1, <2>6, <2>7, <2>8
<1>3. PICK msg, q : /\ msg = C!Altered(m, x.change)
                    /\ q = [C!NoRequest EXCEPT !.pc = pc, !.gate = g, !.sent = m, !.msg = msg]
  OBVIOUS
<1>4. q.pc = pc /\ q.gate = g /\ q.sent = m /\ q.msg = msg
  BY <1>3, NobodysRequest DEF IsRequest, RequestFields
<1>5. OnItsWay(q)
  BY <1>2, <1>3, <1>4 DEF OnItsWay
<1>6. msg.kind = x.kind /\ msg.box = b.id
  <2>1. IsMessage(m) /\ IsCall(m.c) /\ m.kind = x.kind /\ x.change \in C!Changes
    BY <1>2 DEF Sent, C!Sendings
  <2> QED
    BY <1>2, <1>3, <2>1, AlteredParts
<1>7. q.pc # "accepted" /\ (q.pc = "refused" => Turned(q))
  BY <1>2, <1>4, <1>6 DEF Turned
<1>8. C!SetReq(r, q)
  BY <1>2, <1>3
<1>9. SignedSoFar(q)
  BY <1>5, <1>7 DEF SignedSoFar
<1> QED
  BY <1>1, <1>8, <1>9, SignedStep

(* A request keeps what was sent and what came until it is finished.       *)
LEMMA SameRequest ==
  ASSUME NEW q, SignedSoFar(q), q.pc # "idle",
         NEW x, x.sent = q.sent, x.msg = q.msg,
         x.pc = "accepted" => q.msg.signature = C!Expected(q.msg, q.msg.box),
         x.pc = "refused" => Turned(x)
  PROVE  SignedSoFar(x)
BY DEF SignedSoFar, OnItsWay

LEMMA GetBoxSigns ==
  ASSUME SignedInv, NEW r \in AuthRequests, C!GetBox(r)
  PROVE  SignedInv'
<1>1. AuthInv' /\ UNCHANGED <<clock, boxes>>
  <2>1. AuthInv
    BY DEF SignedInv
  <2>2. UNCHANGED <<clock, boxes>>
    BY DEF C!GetBox
  <2> QED
    BY <2>1, <2>2, GetBoxKeeps
<1>2. PICK q, g, now, took, own : /\ q = signed[r] /\ g = q.gate /\ now = clock
                                  /\ took = C!GetTokens(C!BoxOf(r), g) /\ own = C!BoxOf(r)
  OBVIOUS
<1>3. IsRequest(q) /\ IsSigned(q) /\ SignedSoFar(q) /\ q.pc = "box"
  <2>1. SignedSoFar(q)
    BY <1>2 DEF SignedInv
  <2>2. IsSigned(q)
    BY <1>2 DEF SignedInv, AuthInv
  <2>3. q.pc = "box"
    BY <1>2 DEF C!GetBox
  <2> QED
    BY <2>1, <2>2, <2>3 DEF IsSigned
<1>4. own \in boxes /\ own.id = q.msg.box
  <2>1. \E b \in boxes : b.id = q.msg.box
    BY <1>3 DEF IsSigned
  <2> QED
    BY <1>2, <2>1 DEF C!BoxOf
<1>5. PICK x :
        /\ C!SetReq(r, x)
        /\ \/ \E d : x = [q EXCEPT !.pc = "check", !.data = d]
           \/ x = [q EXCEPT !.pc = "cache", !.data = took, !.read = now]
           \/ /\ x = [q EXCEPT !.pc = "refused"]
              /\ ~(C!Alive(own) /\ C!EntriesOf(own, g) # {})
           \/ x = [q EXCEPT !.pc = "refused", !.faulty = TRUE]
  <2>1. \/ \E d : C!SetReq(r, [q EXCEPT !.pc = "check", !.data = d])
        \/ C!SetReq(r, [q EXCEPT !.pc = "cache", !.data = took, !.read = now])
        \/ /\ C!SetReq(r, [q EXCEPT !.pc = "refused"])
           /\ ~(C!Alive(own) /\ C!EntriesOf(own, g) # {})
        \/ C!SetReq(r, [q EXCEPT !.pc = "refused", !.faulty = TRUE])
    BY <1>2 DEF C!GetBox, C!Refuse
  <2> QED
    BY <2>1
<1>6. x.sent = q.sent /\ x.msg = q.msg /\ x.gate = q.gate /\ x.pc # "accepted"
  BY <1>3, <1>5 DEF IsRequest, RequestFields
<1>7. x.pc = "refused" => x.faulty \/ ~(C!Alive(own) /\ C!EntriesOf(own, g) # {})
  BY <1>3, <1>5 DEF IsRequest, RequestFields
<1>8. x.pc = "refused" => Turned(x)
  BY <1>2, <1>4, <1>6, <1>7 DEF Turned
<1>9. SignedSoFar(x)
  BY <1>3, <1>6, <1>8, SameRequest
<1> QED
  BY <1>1, <1>5, <1>9, SignedStep

LEMMA CacheBoxSigns ==
  ASSUME SignedInv, NEW r \in AuthRequests, C!CacheBox(r)
  PROVE  SignedInv'
<1>1. AuthInv' /\ UNCHANGED <<clock, boxes>>
  <2>1. AuthInv
    BY DEF SignedInv
  <2>2. UNCHANGED <<clock, boxes>>
    BY DEF C!CacheBox
  <2> QED
    BY <2>1, <2>2, CacheBoxKeeps
<1>2. PICK q : q = signed[r]
  OBVIOUS
<1>3. IsRequest(q) /\ SignedSoFar(q) /\ q.pc = "cache"
  <2>1. SignedSoFar(q)
    BY <1>2 DEF SignedInv
  <2>2. IsSigned(q)
    BY <1>2 DEF SignedInv, AuthInv
  <2>3. q.pc = "cache"
    BY <1>2 DEF C!CacheBox
  <2> QED
    BY <2>1, <2>2, <2>3 DEF IsSigned
<1>4. PICK x : x = [q EXCEPT !.pc = "check"] /\ C!SetReq(r, x)
  BY <1>2 DEF C!CacheBox
<1>5. x.sent = q.sent /\ x.msg = q.msg /\ x.pc = "check"
  BY <1>3, <1>4 DEF IsRequest, RequestFields
<1>6. SignedSoFar(x)
  BY <1>3, <1>5, SameRequest
<1> QED
  BY <1>1, <1>4, <1>6, SignedStep

(* The secret of the gate is that of the box, and only what is presigned   *)
(* can come too late.                                                      *)
LEMMA CheckSignSigns ==
  ASSUME SignedInv, NEW r \in AuthRequests, C!CheckSign(r)
  PROVE  SignedInv'
<1>1. AuthInv' /\ UNCHANGED <<clock, boxes>>
  <2>1. AuthInv
    BY DEF SignedInv
  <2>2. UNCHANGED <<clock, boxes>>
    BY DEF C!CheckSign
  <2> QED
    BY <2>1, <2>2, CheckSignKeeps
<1>2. PICK q, msg, in, ok : /\ q = signed[r] /\ msg = q.msg /\ in = C!InTime(msg)
                            /\ ok = C!Expected(msg, q.data.secret)
  OBVIOUS
<1>3. IsRequest(q) /\ SignedSoFar(q) /\ q.pc = "check" /\ OwnTokens(q.data, q.msg.box, q.gate)
  <2>1. SignedSoFar(q)
    BY <1>2 DEF SignedInv
  <2>2. IsSigned(q)
    BY <1>2 DEF SignedInv, AuthInv
  <2>3. q.pc = "check"
    BY <1>2 DEF C!CheckSign
  <2> QED
    BY <2>1, <2>2, <2>3 DEF IsSigned
<1>4. ok = C!Expected(msg, msg.box)
  BY <1>2, <1>3 DEF OwnTokens
<1>5. PICK x :
        /\ C!SetReq(r, x)
        /\ \/ msg.signature = ok /\ x = [q EXCEPT !.pc = "accepted"]
           \/ /\ ~(msg.kind = "form" \/ in) \/ msg.signature # ok
              /\ x = [q EXCEPT !.pc = "refused", !.known = in]
  <2>1. \/ msg.signature = ok /\ C!SetReq(r, [q EXCEPT !.pc = "accepted"])
        \/ /\ ~(msg.kind = "form" \/ in) \/ msg.signature # ok
           /\ C!SetReq(r, [q EXCEPT !.pc = "refused", !.known = in])
    BY <1>2 DEF C!CheckSign
  <2> QED
    BY <2>1
<1>6. msg.kind \in {"header", "presigned", "tool", "form"}
  <2>1. PICK y \in C!Sendings : Sent(q.sent, y) /\ msg = C!Altered(q.sent, y.change)
    BY <1>2, <1>3 DEF SignedSoFar, OnItsWay
  <2>2. /\ IsMessage(q.sent) /\ IsCall(q.sent.c) /\ q.sent.kind = y.kind
        /\ y.change \in C!Changes /\ y.kind \in {"header", "presigned", "tool", "form"}
    BY <2>1 DEF Sent, C!Sendings
  <2> QED
    BY <2>1, <2>2, AlteredParts
<1>7. CASE msg.signature = ok /\ x = [q EXCEPT !.pc = "accepted"]
  <2>1. x.sent = q.sent /\ x.msg = q.msg /\ x.pc = "accepted"
    BY <1>3, <1>7 DEF IsRequest, RequestFields
  <2>2. SignedSoFar(x)
    BY <1>2, <1>3, <1>4, <1>7, <2>1, SameRequest
  <2> QED
    BY <1>1, <1>5, <2>2, SignedStep
<1>8. CASE /\ ~(msg.kind = "form" \/ in) \/ msg.signature # ok
           /\ x = [q EXCEPT !.pc = "refused", !.known = in]
  <2>1. x.sent = q.sent /\ x.msg = q.msg /\ x.pc = "refused" /\ x.known = in
    BY <1>3, <1>8 DEF IsRequest, RequestFields
  <2>2. ~(msg.kind = "form" \/ in) => msg.kind \in {"presigned", "tool"} /\ ~in
    BY <1>2, <1>6 DEF C!InTime
  <2>3. \/ msg.kind \in {"presigned", "tool"} /\ ~in
        \/ msg.signature # C!Expected(msg, msg.box)
    BY <1>4, <1>8, <2>2
  <2>4. Turned(x)
    <3>1. x.msg = msg
      BY <1>2, <2>1
    <3>2. ~in => ~x.known
      BY <2>1
    <3> QED
      BY <2>3, <3>1, <3>2, Zenon DEF Turned
  <2>5. SignedSoFar(x)
    BY <1>3, <2>1, <2>4, SameRequest
  <2> QED
    BY <1>1, <1>5, <2>5, SignedStep
<1> QED
  BY <1>5, <1>7, <1>8

LEMMA ActSigns ==
  ASSUME SignedInv, NEW r \in AuthRequests, C!Act(r)
  PROVE  SignedInv'
<1>1. AuthInv' /\ UNCHANGED <<clock, boxes>>
  <2>1. AuthInv
    BY DEF SignedInv
  <2>2. UNCHANGED <<clock, boxes>>
    BY DEF C!Act
  <2> QED
    BY <2>1, <2>2, ActKeeps
<1>2. PICK q : q = signed[r]
  OBVIOUS
<1>3. IsRequest(q) /\ SignedSoFar(q) /\ q.pc = "accepted"
  <2>1. SignedSoFar(q)
    BY <1>2 DEF SignedInv
  <2>2. IsSigned(q)
    BY <1>2 DEF SignedInv, AuthInv
  <2>3. q.pc = "accepted"
    BY <1>2 DEF C!Act
  <2> QED
    BY <2>1, <2>2, <2>3 DEF IsSigned
<1>4. PICK x : /\ C!SetReq(r, x)
               /\ \E rule, token : x = [q EXCEPT !.pc = "acted", !.rule = rule, !.token = token]
  <2>1. PICK verb, c : C!SetReq(r, [q EXCEPT !.pc = "acted", !.rule = C!Rule(verb, c),
                                             !.token = C!TokenFor(q.data, verb)])
    BY <1>2 DEF C!Act
  <2>2. PICK rule, token, x : /\ rule = C!Rule(verb, c) /\ token = C!TokenFor(q.data, verb)
                              /\ x = [q EXCEPT !.pc = "acted", !.rule = rule, !.token = token]
    OBVIOUS
  <2>3. C!SetReq(r, x)
    BY <2>1, <2>2
  <2> QED
    BY <2>2, <2>3
<1>5. x.sent = q.sent /\ x.msg = q.msg /\ x.pc = "acted"
  BY <1>3, <1>4 DEF IsRequest, RequestFields
<1>6. SignedSoFar(x)
  BY <1>3, <1>5, SameRequest
<1> QED
  BY <1>1, <1>4, <1>6, SignedStep

LEMMA FinishSigns ==
  ASSUME SignedInv, NEW r \in AuthRequests, C!Finish(r)
  PROVE  SignedInv'
<1>1. AuthInv' /\ UNCHANGED <<clock, boxes>> /\ C!SetReq(r, C!NoRequest)
  BY AuthFinishKeeps DEF SignedInv, C!Finish
<1>2. SignedSoFar(C!NoRequest)
  BY DEF C!NoRequest, SignedSoFar
<1> QED
  BY <1>1, <1>2, SignedStep

LEMMA SignedNext ==
  ASSUME SignedInv, [C!Next]_C!vars
  PROVE  SignedInv'
<1>1. AuthInv' /\ clock \in Nat
  BY AuthNextKeeps DEF SignedInv, AuthInv
<1>2. CASE UNCHANGED C!vars
  <2>1. UNCHANGED <<signed, clock, boxes>>
    BY <1>2 DEF C!vars
  <2> QED
    BY <1>1, <2>1, OthersSigned
<1>3. CASE C!Tick
  <2>1. UNCHANGED <<signed, boxes>> /\ clock' \in Nat /\ clock <= clock'
    BY <1>1, <1>3 DEF C!Tick
  <2> QED
    BY <1>1, <2>1, OthersSigned
<1>4. ASSUME NEW i \in Issuers, C!StartIssue(i) \/ C!CheckContainer(i) \/ C!StoreBox(i)
      PROVE  SignedInv'
  <2>1. UNCHANGED <<signed, clock>> /\ boxes \subseteq boxes'
    BY <1>4 DEF C!StartIssue, C!CheckContainer, C!StoreBox
  <2> QED
    BY <1>1, <2>1, OthersSigned
<1> QED
  BY <1>2, <1>3, <1>4, ArriveSigns, GetBoxSigns, CacheBoxSigns, CheckSignSigns, ActSigns,
     FinishSigns DEF C!Next

LEMMA SignedInvIsEnough == SignedInv => C!SignedIsTaken /\ C!TakenIsSigned
<1> SUFFICES ASSUME SignedInv PROVE C!SignedIsTaken /\ C!TakenIsSigned
  OBVIOUS
<1>1. ASSUME NEW r \in AuthRequests, signed[r].pc = "refused",
             NEW msg, msg = signed[r].msg, NEW given, given = signed[r].sent
      PROVE  \/ signed[r].faulty
             \/ msg # given /\ msg # C!Altered(given, "agent")
             \/ C!EntriesOf(C!BoxOf(r), signed[r].gate) = {} \/ ~C!Alive(C!BoxOf(r))
             \/ /\ msg.kind # "form" /\ C!BoxOf(r).cnr \notin Allowed[signed[r].gate]
                /\ Allowed[signed[r].gate] # {}
             \/ msg.kind \in {"presigned", "tool"} /\ ~signed[r].known
             \/ msg.kind = "presigned" /\ (given.fields # {"host"} \/ given.c.spaced)
  <2>1. PICK q : q = signed[r]
    OBVIOUS
  <2>2. OnItsWay(q) /\ Turned(q)
    BY <1>1, <2>1 DEF SignedInv, SignedSoFar
  <2>3. PICK x \in C!Sendings : Sent(given, x) /\ msg = C!Altered(given, x.change)
    BY <1>1, <2>1, <2>2 DEF OnItsWay
  <2>4. ASSUME NEW b \in boxes, b.id = msg.box PROVE b = C!BoxOf(r)
    BY <1>1, <2>4 DEF SignedInv, AuthInv, C!BoxOf
  <2>5. ASSUME msg = given \/ msg = C!Altered(given, "agent"),
               given.kind = "presigned" => given.fields = {"host"} /\ ~given.c.spaced
        PROVE  msg.signature = C!Expected(msg, msg.box)
    BY <2>3, <2>5, UntouchedVerifies
  <2>6. msg.kind = given.kind
    BY <2>3, AlteredParts DEF Sent, C!Sendings
  <2> QED
    BY <1>1, <2>1, <2>2, <2>4, <2>5, <2>6 DEF Turned
<1>2. C!SignedIsTaken
  BY <1>1 DEF C!SignedIsTaken
<1>3. ASSUME NEW r \in AuthRequests, signed[r].pc = "accepted",
             NEW msg, msg = signed[r].msg, NEW given, given = signed[r].sent
      PROVE  /\ msg.c.query = given.c.query /\ msg.date = given.date
             /\ msg.kind # "form" =>
                  /\ msg.c.method = given.c.method /\ msg.c.path = given.c.path
                  /\ \A h \in given.fields \ {"host", "date"} :
                       msg.c.headers[h] = given.c.headers[h]
             /\ msg.kind \in {"presigned", "tool"} => msg.expires = given.expires
  <2>1. PICK q : q = signed[r]
    OBVIOUS
  <2>2. OnItsWay(q) /\ msg.signature = C!Expected(msg, msg.box)
    BY <1>3, <2>1 DEF SignedInv, SignedSoFar
  <2>3. PICK x \in C!Sendings : Sent(given, x) /\ msg = C!Altered(given, x.change)
    BY <1>3, <2>1, <2>2 DEF OnItsWay
  <2>4. x.change \in C!Changes
    BY DEF C!Sendings
  <2> QED
    BY <2>2, <2>3, <2>4, VerifiedIsSigned
<1>4. C!TakenIsSigned
  BY <1>3 DEF C!TakenIsSigned
<1> QED
  BY <1>2, <1>4

(* A request signed with a secret that lives is taken, and one that is     *)
(* taken is the one that was signed.                                       *)
THEOREM SignatureHolds == Spec => []SignatureDecides
<1>1. Init => SignedInv
  <2> SUFFICES ASSUME Init PROVE SignedInv
    OBVIOUS
  <2>1. AuthInv /\ C!Init
    BY AuthStart DEF Init
  <2>2. SignedSoFar(C!NoRequest)
    BY DEF C!NoRequest, SignedSoFar
  <2> QED
    BY <2>1, <2>2 DEF SignedInv, C!Init
<1>2. SignedInv /\ [Next]_vars => SignedInv'
  <2> SUFFICES ASSUME SignedInv, [Next]_vars PROVE SignedInv'
    OBVIOUS
  <2>1. [C!Next]_C!vars
    BY DEF Next, vars, authVars, C!vars
  <2> QED
    BY <2>1, SignedNext
<1>3. SignedInv => SignatureDecides
  BY SignedInvIsEnough DEF SignatureDecides
<1> QED
  BY <1>1, <1>2, <1>3, PTL DEF Spec
============================================================================
