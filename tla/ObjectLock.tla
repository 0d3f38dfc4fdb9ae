---------------------------- MODULE ObjectLock ----------------------------
(***************************************************************************)
(* The locks of the versions of one object, in a bucket with object lock   *)
(* enabled: PutObjectRetention, PutObjectLegalHold, a PUT with a lock, and *)
(* the reads, as PutLockInfo and GetLockInfo of api/layer/system_object.go *)
(* run them.  A lock is kept twice: as lock objects in FrostFS, which      *)
(* enforce it, and in a lock node below the version's node in the tree,    *)
(* which says what is locked and is read, changed and written back.  What  *)
(* was read or written is cached under the version id of the request.      *)
(*                                                                         *)
(* A request r makes at most one version, one lock node and a lock object  *)
(* of each kind, with fresh ids: they are called r.  Versions are not      *)
(* deleted here (see ObjectVersions).                                      *)
(***************************************************************************)
EXTENDS Naturals, Sequences, FiniteSets, SequencesExt

CONSTANTS
  Requests,    \* the requests of a behaviour, each made once
  None,        \* no node, no object, nothing cached
  First,       \* the version that is there at first, without a lock
  Dates,       \* retention dates, in the future
  Ops,         \* kinds of requests: some of "put", "retain", "hold", "get"
  AsLatest,    \* whether requests may leave out the version id
  Parallel,    \* bound: requests in flight at the same time
  MaxFaults    \* bound: failed calls, lost replies and gateway crashes

ASSUME IdsDiffer == {None, First} \cap Requests = {} /\ None # First
ASSUME LatestIsNoVersion == "latest" \notin Requests \cup {First}
ASSUME DatesArePositive == Dates \subseteq Nat \ {0}
ASSUME KnownOps == Ops \subseteq {"put", "retain", "hold", "get"}
ASSUME AsLatestIsBoolean == AsLatest \in BOOLEAN
ASSUME BoundsAreNaturals == Parallel \in Nat /\ MaxFaults \in Nat

VARIABLES
  versions,    \* the versions, oldest first
  lockNodes,   \* lock nodes: [id, version, lock]
  retObjs,     \* retention lock objects stored in FrostFS
  holdObjs,    \* legal hold lock objects stored in FrostFS
  lockCache,   \* version id as requested ("latest" for the latest) -> lock
  req,         \* req[r]: progress of request r
  faults       \* faults so far

stores == <<versions, lockNodes, retObjs, holdObjs>>
vars   == <<stores, lockCache, req, faults>>

---------------------------------------------------------------------------
(* data.LockInfo without the node's id: the lock object of the retention,  *)
(* its date and mode, and the lock object of the legal hold.               *)
NoLock == [ret |-> None, until |-> 0, compliance |-> FALSE, hold |-> None]

(* op, vid: what is asked for, of which version; until, compliance,        *)
(* bypass, hold: the lock asked for (until = 0: no retention, hold =       *)
(* "none": no change); pc: what it does next; node: the version; id: its   *)
(* lock node, None if it has none; lock: lockInfo; res: outcome; prior:    *)
(* requests finished when it began (history only).                         *)
Idle == [op |-> "none", vid |-> "latest", until |-> 0, compliance |-> FALSE,
         bypass |-> FALSE, hold |-> "none", pc |-> "idle", node |-> None,
         id |-> None, lock |-> NoLock, res |-> "none", prior |-> {}]

At(r, p)  == req[r].pc = p
Active(r) == req[r].pc \notin {"idle", "done"}
Finished  == {r \in Requests : req[r].pc = "done"}
Latest    == Last(versions)

To(r, p)      == [req[r] EXCEPT !.pc = p]
Done(r, x)    == [req[r] EXCEPT !.pc = "done", !.res = x]
Step(r, next) == req' = [req EXCEPT ![r] = next] /\ UNCHANGED faults

Fault(r, next) == /\ faults < MaxFaults
                  /\ faults' = faults + 1
                  /\ req' = [req EXCEPT ![r] = next]

(* A call that changed its store: the reply arrives, or is lost.           *)
Replied(r, next) == Step(r, next) \/ Fault(r, Done(r, "error"))

---------------------------------------------------------------------------
Init ==
  /\ versions = <<First>> /\ lockNodes = {} /\ retObjs = {} /\ holdObjs = {}
  /\ lockCache = [v \in Requests \cup {First, "latest"} |-> None]
  /\ req = [r \in Requests |-> Idle]
  /\ faults = 0

Begin(r, asked, p) ==
  /\ At(r, "idle") /\ asked.op \in Ops
  /\ Cardinality({q \in Requests : Active(q)}) < Parallel
  /\ Step(r, [asked EXCEPT !.pc = p, !.prior = Finished])
  /\ UNCHANGED <<stores, lockCache>>

Named == ToSet(versions) \cup {v \in {"latest"} : AsLatest}

(* formObjectLock: a retention, a legal hold, both, or none.               *)
BeginPut(r) ==
  \E d \in Dates \cup {0}, c \in BOOLEAN, h \in {"none", "on"} :
    (c => d > 0) /\ Begin(r, [Idle EXCEPT !.op = "put", !.vid = r, !.until = d,
                          !.compliance = c, !.hold = h], "add")

BeginRetain(r) ==
  \E v \in Named, d \in Dates, c, b \in BOOLEAN :
    Begin(r, [Idle EXCEPT !.op = "retain", !.vid = v, !.until = d,
                          !.compliance = c, !.bypass = b], "find")

BeginHold(r) ==
  \E v \in Named, h \in {"on", "off"} :
    Begin(r, [Idle EXCEPT !.op = "hold", !.vid = v, !.hold = h], "find")

(* The cache may answer; the HEAD and GET of an object ask the tree all    *)
(* the same when the tags of that version are not cached.                  *)
BeginGet(r) ==
  \E v \in Named :
    LET asked == [Idle EXCEPT !.op = "get", !.vid = v]
    IN \/ lockCache[v] # None /\ Begin(r, [asked EXCEPT !.res = "ok"], "done")
       \/ (lockCache[v] = None \/ v # "latest") /\ Begin(r, asked, "find")

---------------------------------------------------------------------------
(* PutObject up to PutLockInfo, which gets the node just added.            *)
AddVersion(r) ==
  /\ At(r, "add")
  /\ versions' = Append(versions, r)
  /\ Replied(r, IF req[r].until = 0 /\ req[r].hold = "none" THEN Done(r, "ok")
                ELSE [req[r] EXCEPT !.pc = "getlock", !.node = r])
  /\ UNCHANGED <<lockNodes, retObjs, holdObjs, lockCache>>

FindVersion(r) ==
  /\ At(r, "find")
  /\ Step(r, [req[r] EXCEPT !.pc = "getlock",
                !.node = IF req[r].vid = "latest" THEN Latest ELSE req[r].vid])
  /\ UNCHANGED <<stores, lockCache>>

NodesOf(v) == {n \in lockNodes : n.version = v}

(* Mutant: a bypassed retention may be made shorter.                       *)
MayRetainShorter(x, lock) ==
  lock.ret # None => ~lock.compliance /\ x.bypass

(* PutLockInfo's conditions for a retention over the one that is there.    *)
MayRetain(x, lock) ==
  lock.ret # None => /\ ~lock.compliance
                     /\ x.bypass
                     /\ lock.until <= x.until

ChangesHold(x, lock) == \/ x.hold = "on" /\ lock.hold = None
                        \/ x.hold = "off" /\ lock.hold # None

(* What PutLockInfo does once it knows the lock and, if a retention was    *)
(* asked for, has put its lock object.                                     *)
AfterRetention(x) ==
  [x EXCEPT !.pc = IF ChangesHold(x, x.lock) THEN "hold" ELSE "putlock"]

AfterGetLock(x) ==
  IF x.op = "get" THEN [x EXCEPT !.pc = "cache"]
  ELSE IF x.until = 0 THEN AfterRetention(x)
  ELSE IF MayRetain(x, x.lock) THEN [x EXCEPT !.pc = "retention"]
  ELSE [x EXCEPT !.pc = "done", !.res = "refused"]

(* Of several lock nodes of a version the tree service's first is read.    *)
GetLock(r) ==
  /\ At(r, "getlock")
  /\ IF NodesOf(req[r].node) = {} THEN Step(r, AfterGetLock(req[r]))
     ELSE \E n \in NodesOf(req[r].node) :
            Step(r, AfterGetLock([req[r] EXCEPT !.id = n.id,
                                                !.lock = n.lock]))
  /\ UNCHANGED <<stores, lockCache>>

Retained(x, r) == [x.lock EXCEPT !.ret = r, !.until = x.until,
                                 !.compliance = x.compliance]

PutRetentionObject(r) ==
  /\ At(r, "retention")
  /\ retObjs' = retObjs \cup {r}
  /\ Replied(r, AfterRetention([req[r] EXCEPT !.lock = Retained(req[r], r)]))
  /\ UNCHANGED <<versions, lockNodes, holdObjs, lockCache>>

(* Mutant: the error of putLockObject is overlooked.                       *)
ChangeHoldAnyway(r) ==
  /\ At(r, "hold")
  /\ Step(r, [req[r] EXCEPT !.pc = "putlock", !.lock.hold =
                IF req[r].hold = "on" THEN r ELSE None])
  /\ UNCHANGED <<stores, lockCache>>

(* A legal hold is set with a lock object, and reset by deleting it.       *)
ChangeHold(r) ==
  /\ At(r, "hold")
  /\ IF req[r].hold = "on"
     THEN /\ holdObjs' = holdObjs \cup {r}
          /\ Replied(r, [req[r] EXCEPT !.pc = "putlock", !.lock.hold = r])
     ELSE /\ holdObjs' = holdObjs \ {req[r].lock.hold}
          /\ Replied(r, [req[r] EXCEPT !.pc = "putlock", !.lock.hold = None])
  /\ UNCHANGED <<versions, lockNodes, retObjs, lockCache>>

(* PutLock adds the version's lock node, or writes over the one it read.   *)
PutLock(r) ==
  /\ At(r, "putlock")
  /\ LET id == IF req[r].id = None THEN r ELSE req[r].id
     IN lockNodes' = {n \in lockNodes : n.id # id} \cup
          {[id |-> id, version |-> req[r].node, lock |-> req[r].lock]}
  /\ Replied(r, To(r, "cache"))
  /\ UNCHANGED <<versions, retObjs, holdObjs, lockCache>>

(* Mutant: what was written is not cached.                                 *)
CacheReadsOnly(r) ==
  /\ At(r, "cache")
  /\ lockCache' = IF req[r].op # "get" THEN lockCache
                  ELSE [lockCache EXCEPT ![req[r].vid] = req[r].lock]
  /\ Step(r, Done(r, "ok"))
  /\ UNCHANGED stores

CacheLock(r) ==
  /\ At(r, "cache")
  /\ lockCache' = [lockCache EXCEPT ![req[r].vid] = req[r].lock]
  /\ Step(r, Done(r, "ok"))
  /\ UNCHANGED stores

---------------------------------------------------------------------------
(* A call that fails without effect, or that FrostFS refuses.              *)
CallFails(r) ==
  /\ req[r].pc \in {"add", "find", "getlock", "retention", "hold", "putlock"}
  /\ Fault(r, Done(r, "error"))
  /\ UNCHANGED <<stores, lockCache>>

Expire ==
  /\ \E v \in DOMAIN lockCache :
       /\ lockCache[v] # None
       /\ lockCache' = [lockCache EXCEPT ![v] = None]
  /\ UNCHANGED <<stores, req, faults>>

(* The gateway restarts: its requests and its cache are gone.              *)
Crash ==
  /\ faults < MaxFaults
  /\ faults' = faults + 1
  /\ \E r \in Requests : Active(r)
  /\ req' = [r \in Requests |-> IF Active(r) THEN Done(r, "crashed")
                                             ELSE req[r]]
  /\ lockCache' = [v \in DOMAIN lockCache |-> None]
  /\ UNCHANGED stores

---------------------------------------------------------------------------
BeginStep(r) == BeginPut(r) \/ BeginRetain(r) \/ BeginHold(r) \/ BeginGet(r)

RequestStep(r) ==
  \/ AddVersion(r) \/ FindVersion(r) \/ GetLock(r) \/ PutRetentionObject(r)
  \/ ChangeHold(r) \/ PutLock(r) \/ CacheLock(r)

Next ==
  \/ \E r \in Requests : BeginStep(r) \/ RequestStep(r) \/ CallFails(r)
  \/ Expire
  \/ Crash

Spec == Init /\ [][Next]_vars

---------------------------------------------------------------------------
(* Properties *)

Lock ==
  [ret : Requests \cup {None}, until : Dates \cup {0}, compliance : BOOLEAN,
   hold : Requests \cup {None}]

Request ==
  [op : {"none", "put", "retain", "hold", "get"},
   vid : Requests \cup {First, "latest"}, until : Dates \cup {0},
   compliance : BOOLEAN, bypass : BOOLEAN, hold : {"none", "on", "off"},
   pc : {"idle", "add", "find", "getlock", "retention", "hold", "putlock",
         "cache", "done"},
   node : Requests \cup {First, None}, id : Requests \cup {None},
   lock : Lock, res : {"none", "ok", "error", "refused", "crashed"},
   prior : SUBSET Requests]

(* Locks are data.LockInfo, lock nodes lie below versions and each is one  *)
(* node, lock objects are those of the requests that asked for them.       *)
TypeOK ==
  /\ versions \in Seq(Requests \cup {First}) /\ versions # <<>>
  /\ \A n \in lockNodes : /\ n.id \in Requests
                          /\ n.version \in ToSet(versions)
                          /\ n.lock \in Lock
  /\ \A m, n \in lockNodes : m.id = n.id => m = n
  /\ retObjs \subseteq {r \in Requests : req[r].op \in {"put", "retain"}}
  /\ holdObjs \subseteq {r \in Requests : req[r].op \in {"put", "hold"}}
  /\ lockCache \in [Requests \cup {First, "latest"} -> Lock \cup {None}]
  /\ req \in [Requests -> Request]
  /\ faults \in Nat

Acked(r)      == req[r].res = "ok"
Overlap(q, r) == q \notin req[r].prior /\ r \notin req[q].prior
Writes(r)     == req[r].op \in {"put", "retain", "hold"}
Writers(v)    == {r \in Requests : Writes(r) /\ req[r].node = v}
Raced(v)      == \E q, r \in Writers(v) : q # r /\ Overlap(q, r)

(* As long as no two requests change the lock of a version at the same     *)
(* time, an acknowledged lock is kept, whatever fails: there is one lock   *)
(* node, no retention became shorter, a compliance retention is the very   *)
(* one, and the legal hold is as the last request set it.                  *)
LockedAsAsked(r, lock) ==
  /\ req[r].until <= lock.until
  /\ req[r].until > 0 /\ req[r].compliance => lock.ret = r
  /\ req[r].hold # "none" =>
       \/ (lock.hold # None) = (req[r].hold = "on")
       \/ \E q \in Writers(req[r].node) :
            /\ r \in req[q].prior
            /\ req[q].hold \notin {"none", req[r].hold}

LocksLostOnlyByRace ==
  \A v \in ToSet(versions) : ~Raced(v) =>
    \A r \in Writers(v) : Acked(r) =>
      /\ Cardinality(NodesOf(v)) = 1
      /\ \A n \in NodesOf(v) : LockedAsAsked(r, n.lock)

(* What a lock node says is enforced: the lock object of its retention is  *)
(* in FrostFS, and that of its legal hold, too, unless a request to reset  *)
(* it failed, is on its way, or overlapped another.                        *)
ReportedIsEnforced ==
  \A n \in lockNodes :
    /\ n.lock.ret # None => n.lock.ret \in retObjs
    /\ n.lock.hold # None =>
         \/ n.lock.hold \in holdObjs
         \/ \E q \in Writers(n.version) :
              req[q].hold = "off" /\ (~Acked(q) \/ Raced(n.version))

Locks(v) == IF NodesOf(v) = {} THEN {NoLock}
            ELSE {n.lock : n \in NodesOf(v)}
Meant(v) == IF v = "latest" THEN Latest ELSE v

(* The lock of what v means was changed under another name, or by a        *)
(* request that failed.                                                    *)
Aliased(v) ==
  \E q \in Requests :
    /\ Writes(q)
    /\ Meant(v) \in {q, req[q].node}
    /\ req[q].vid # v \/ req[q].res \in {"error", "crashed"}

(* Requests one at a time: what is cached under a version id is the lock   *)
(* of that version, unless the lock was changed under another name of the  *)
(* version ("latest" or its id), by a PUT of a new one, or by a request    *)
(* that failed.                                                            *)
StaleLockOnlyByAlias ==
  /\ \A r \in Requests : ~Active(r)
  /\ \A q, r \in Finished : q = r \/ ~Overlap(q, r)
  =>
    \A v \in DOMAIN lockCache :
      lockCache[v] \in Locks(Meant(v)) \cup {None} \/ Aliased(v)

---------------------------------------------------------------------------
(* The inductive invariant behind the first two of these.                  *)

(* What a request r whose record is x knows at each of its calls.          *)
AtStep(r, x) ==
  /\ x.pc = "idle" <=> x.op = "none"
  /\ x.pc = "add" => x.op = "put"
  /\ x.op \in {"none", "get", "hold"} => x.until = 0
  /\ x.op \in {"none", "get", "retain"} => x.hold = "none"
  /\ x.pc \in {"add", "retention", "hold", "putlock"} => x.op # "get"
  /\ x.pc \in {"idle", "add", "find"} => x.node = None
  /\ x.pc \in {"getlock", "retention", "hold", "putlock", "cache"} => x.node # None
  /\ x.node = None \/ x.pc = "getlock" => x.id = None /\ x.lock = NoLock
  /\ x.pc = "retention" => x.until > 0 /\ MayRetain(x, x.lock)
  /\ x.pc = "hold" => ChangesHold(x, x.lock)
  /\ x.pc \in {"hold", "putlock", "cache"} /\ x.until > 0 =>
       x.lock.ret = r /\ x.lock.until = x.until /\ x.lock.compliance = x.compliance
  /\ x.pc \in {"putlock", "cache"} => /\ x.hold = "on" => x.lock.hold # None
                                      /\ x.hold = "off" => x.lock.hold = None
  /\ x.res = "ok" => x.pc = "done"

(* A version or a lock node, once a request has it, stays where it is: the *)
(* lock nodes of a version were made by requests for that version.         *)
MadeFor(id, v) == req[id].node = v /\ Writes(id) /\ req[id].pc \in {"cache", "done"}
Placed(x) ==
  /\ x.node # None => x.node \in ToSet(versions)
  /\ x.pc = "find" => x.vid \in ToSet(versions) \cup {"latest"}
  /\ x.id # None => MadeFor(x.id, x.node)

(* A lock, read or written, is what some request for the version made it:  *)
(* its retention has its lock object, its hold had one.                    *)
TrueLock(v, lock) ==
  /\ IF lock.ret = None THEN lock.until = 0
     ELSE /\ lock.ret \in retObjs /\ lock.until = req[lock.ret].until
          /\ lock.compliance = req[lock.ret].compliance /\ req[lock.ret].node = v
  /\ lock.hold # None => req[lock.hold].node = v

Resetting(q, v) == req[q].hold = "off" /\ (~Acked(q) \/ Raced(v))
HoldEnforced(v, lock) ==
  lock.hold # None =>
    lock.hold \in holdObjs \/ \E q \in Writers(v) : Resetting(q, v)

(* How the lock that x has made so far differs from the one it read.       *)
Follows(x, old) ==
  /\ IF x.pc = "retention" \/ x.until = 0
     THEN /\ x.lock.ret = old.ret /\ x.lock.until = old.until
          /\ x.lock.compliance = old.compliance
     ELSE MayRetain(x, old)
  /\ x.pc # "putlock" \/ x.hold = "none" => x.lock.hold = old.hold

(* Without a race what a request read is still there when it writes.       *)
Changing == {"retention", "hold", "putlock"}
Unraced(x, v) ==
  /\ x.pc \in Changing =>
       IF x.id = None THEN NodesOf(v) = {} /\ Follows(x, NoLock)
       ELSE \E n \in NodesOf(v) : n.id = x.id /\ Follows(x, n.lock)
  /\ x.pc = "cache" => \E n \in NodesOf(v) : n.lock = x.lock

AsAsked(r, v) ==
  NodesOf(v) # {} /\ \A n \in NodesOf(v) : LockedAsAsked(r, n.lock)

Kept(v) ==
  ~Raced(v) =>
    /\ \A m, n \in NodesOf(v) : m = n
    /\ \A r \in Writers(v) : Unraced(req[r], v) /\ (Acked(r) => AsAsked(r, v))

IInv ==
  /\ TypeOK
  /\ \A r \in Requests :
       /\ AtStep(r, req[r]) /\ Placed(req[r]) /\ req[r].prior \subseteq Finished
       /\ TrueLock(req[r].node, req[r].lock)
       /\ req[r].pc \in Changing => HoldEnforced(req[r].node, req[r].lock)
  /\ \A n \in lockNodes :
       /\ MadeFor(n.id, n.version)
       /\ TrueLock(n.version, n.lock) /\ HoldEnforced(n.version, n.lock)
  /\ \A v \in Requests \cup {First} : Kept(v)

---------------------------------------------------------------------------
(* The invariant behind StaleLockOnlyByAlias, inductive with IInv.         *)

(* Requests one at a time.                                                 *)
Serial ==
  \A q, r \in Requests :
    ~At(q, "idle") /\ ~At(r, "idle") => q = r \/ ~Overlap(q, r)

(* A handler works on the version that was meant; what it is to cache is   *)
(* the version's lock.                                                     *)
MeansIt(r) ==
  /\ req[r].pc \in Changing \cup {"getlock", "cache"} =>
       req[r].node = Meant(req[r].vid)
  /\ At(r, "cache") => req[r].lock \in Locks(req[r].node)

(* What is cached is right, but for an alias or a failure, or until the    *)
(* writer of the lock gets to cache it.                                    *)
CachedRight(v) ==
  \/ lockCache[v] \in Locks(Meant(v)) \cup {None}
  \/ Aliased(v)
  \/ \E r \in Requests : At(r, "cache") /\ Writes(r) /\ req[r].vid = v

FreshInv ==
  /\ \A r \in Requests : /\ req[r].op = "put" => req[r].vid = r
                         /\ Active(r) => req[r].res = "none"
  /\ \A v \in ToSet(versions) \ {First} : req[v].op = "put"
  /\ Serial => /\ \A r \in Requests : MeansIt(r)
               /\ \A v \in DOMAIN lockCache : CachedRight(v)

(* "Retention period can't be shortened, only extended."                   *)
(* (docs/aws_s3_compat.md:60)                                              *)
NeverShortened ==
  [][\A n \in lockNodes, m \in lockNodes' :
       n.id = m.id => n.lock.until <= m.lock.until]_vars
=============================================================================
