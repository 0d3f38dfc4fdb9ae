------------------------ MODULE BucketConfig_proofs ------------------------
(***************************************************************************)
(* Proofs about BucketConfig, for every kind of configuration, any number  *)
(* of requests, whatever is in flight at the same time, and any number of  *)
(* failures and crashes.                                                   *)
(***************************************************************************)
EXTENDS BucketConfig, TLAPS, FiniteSetTheorems

(* No step changes what a behaviour is about.                              *)
LEMMA SameKind ==
  ASSUME kind' = kind
  PROVE  /\ Parts' = Parts /\ Contents' = Contents /\ Nothing' = Nothing
         /\ InObject' = InObject /\ Ops' = Ops /\ Request' = Request
<1>1. Parts' = Parts /\ Ops' = Ops /\ InObject' = InObject
  BY DEF Parts, Ops, InObject
<1>2. Contents' = Contents /\ Nothing' = Nothing
  BY <1>1 DEF Contents, Nothing
<1> QED
  BY <1>1, <1>2 DEF Request

LEMMA AtStepRigid ==
  ASSUME kind' = kind, NEW r, NEW x
  PROVE  AtStep(r, x)' = AtStep(r, x)
BY SameKind DEF AtStep, Idle

LEMMA AtStepKeeps ==
  ASSUME kind' = kind, \A r \in Requests : AtStep(r, req'[r])
  PROVE  \A r \in Requests : AtStep(r, req[r])'
<1> SUFFICES ASSUME NEW r \in Requests PROVE AtStep(r, req[r])'
  OBVIOUS
<1>1. PICK x : x = req'[r]
  OBVIOUS
<1>2. AtStep(r, x)
  BY <1>1
<1>3. AtStep(r, x)'
  BY <1>2, AtStepRigid
<1> QED
  BY <1>1, <1>3 DEF AtStep

(* What the handler of request r may make of its record.                   *)
GoodRecord(r, x) ==
  /\ x \in Request /\ AtStep(r, x)
  /\ x.op = req[r].op \/ req[r].op = "none"
  /\ PastWrite(req[r]) => PastWrite(x)

LEMMA HandlerStep ==
  ASSUME IInv, NEW r \in Requests, NEW x, GoodRecord(r, x),
         req' = [req EXCEPT ![r] = x], kind' = kind, faults' \in Nat,
         cache' \in Contents \cup {None},
         nodes' \in [Requests -> Contents \cup {None}],
         objects' \subseteq objects \cup {r},
         r \in objects' => r \in objects \/ (InObject /\ x.op = "put")
  PROVE  /\ TypeOK'
         /\ \A q \in Requests : AtStep(q, req[q])'
         /\ req'[r] = x /\ \A q \in Requests \ {r} : req'[q] = req[q]
         /\ \A o : OfPast(o) => OfPast(o)'
<1>1. /\ req \in [Requests -> Request] /\ req'[r] = x
      /\ \A q \in Requests \ {r} : req'[q] = req[q]
  BY DEF IInv, TypeOK
<1>2. req' \in [Requests -> Request]
  BY <1>1 DEF GoodRecord
<1>3. objects' \subseteq {q \in Requests : InObject /\ req'[q].op = "put"}
  <2> SUFFICES ASSUME NEW o \in objects'
               PROVE  o \in Requests /\ InObject /\ req'[o].op = "put"
    OBVIOUS
  <2>1. CASE o \in objects
    <3>1. o \in Requests /\ InObject /\ req[o].op = "put"
      BY <2>1 DEF IInv, TypeOK
    <3> QED
      BY <3>1, <1>1 DEF GoodRecord
  <2>2. CASE o \notin objects
    BY <2>2, <1>1
  <2> QED
    BY <2>1, <2>2
<1>4. TypeOK'
  BY <1>2, <1>3, SameKind DEF IInv, TypeOK
<1>5. \A q \in Requests : AtStep(q, req'[q])
  BY <1>1 DEF IInv, GoodRecord
<1>6. \A q \in Requests : AtStep(q, req[q])'
  BY <1>5, AtStepKeeps
<1>7. \A o : OfPast(o) => OfPast(o)'
  BY <1>1 DEF OfPast, GoodRecord, PastWrite
<1> QED
  BY <1>1, <1>4, <1>6, <1>7

(* A step that leaves the nodes alone, and of the objects puts at most its *)
(* own.                                                                    *)
LEMMA LocalStep ==
  ASSUME IInv, NEW r \in Requests, NEW x, GoodRecord(r, x),
         req' = [req EXCEPT ![r] = x], kind' = kind, faults' \in Nat,
         cache' \in Contents \cup {None},
         nodes' = nodes,
         objects' = objects \/ objects' = objects \cup {r},
         r \in objects' => r \in objects \/ (InObject /\ x.op = "put"),
         InObject =>
           /\ Replaces(x)
           /\ x.op = "put" /\ x.pc \in {"find", "write"} => r \in objects'
  PROVE  IInv'
<1>1. /\ TypeOK'
      /\ \A q \in Requests : AtStep(q, req[q])'
      /\ req'[r] = x /\ \A q \in Requests \ {r} : req'[q] = req[q]
      /\ \A o : OfPast(o) => OfPast(o)'
  BY HandlerStep DEF IInv, TypeOK
<1>2. InObject' = InObject /\ Nodes' = Nodes
  BY SameKind DEF Nodes
<1> SUFFICES ASSUME InObject
             PROVE  /\ \A n \in Nodes' : NamesStored(n)'
                    /\ \A q \in Requests : StoredFirst(q)' /\ Replaces(req[q])'
  BY <1>1, <1>2 DEF IInv
<1>3. \A n \in Nodes' : NamesStored(n)'
  BY <1>1, <1>2 DEF IInv, NamesStored
<1>4. ASSUME NEW q \in Requests PROVE StoredFirst(q)'
  BY <1>1 DEF IInv, StoredFirst
<1>5. ASSUME NEW q \in Requests PROVE Replaces(req[q])'
  <2>1. Replaces(req'[q])
    BY <1>1 DEF IInv
  <2> QED
    BY <2>1, <1>1, <1>2 DEF Replaces
<1> QED
  BY <1>3, <1>4, <1>5

(* What the invariant says of one request, and of what it may write back.  *)
LEMMA OneRequest ==
  ASSUME IInv, NEW r \in Requests
  PROVE  /\ req \in [Requests -> Request]
         /\ req[r] \in Request /\ AtStep(r, req[r])
         /\ faults \in Nat /\ faults + 1 \in Nat
         /\ cache \in Contents \cup {None}
         /\ nodes \in [Requests -> Contents \cup {None}]
         /\ InObject => Replaces(req[r]) /\ StoredFirst(r)
         /\ \A n \in Nodes : n \in Requests /\ nodes[n] \in Contents
BY DEF IInv, TypeOK, Nodes

LEMMA ContentsOfRequest ==
  ASSUME NEW r \in Requests
  PROVE  /\ [p \in Parts |-> r] \in Contents /\ Nothing \in Contents
         /\ \A op : \A read \in Contents : Changed(r, op, read) \in Contents
<1>1. [p \in Parts |-> r] \in Contents /\ Nothing \in Contents
  BY DEF Contents, Nothing
<1>2. ASSUME NEW op, NEW read \in Contents
      PROVE  Changed(r, op, read) \in Contents
  <2>1. \A p \in Parts : read[p] \in Requests \cup {None}
    BY DEF Contents
  <2> QED
    BY <2>1 DEF Contents, Changed
<1> QED
  BY <1>1, <1>2

(* A request begins: its record was idle, and it has found no node yet.    *)
LEMMA BeginKeeps ==
  ASSUME IInv, NEW r \in Requests, NEW op, NEW next \in Request,
         Begin(r, op, next), cache' \in Contents \cup {None},
         next.node = None, next.pc \in {"read", "put", "find", "done"},
         op = "put" => next.val = [p \in Parts |-> r],
         next.pc = "read" => op \in {"get", "versioning", "lock"},
         next.pc = "put" => op = "put" /\ InObject,
         next.pc = "find" => /\ op # "get"
                             /\ op = "put" => ~InObject
                             /\ op # "delete" => next.val \in Contents
  PROVE  IInv'
<1>0. PICK x : x = [next EXCEPT !.op = op, !.prior = Finished]
  OBVIOUS
<1>1. /\ req[r] = Idle /\ op \in Ops
      /\ req' = [req EXCEPT ![r] = x] /\ kind' = kind /\ faults' = faults
      /\ nodes' = nodes /\ objects' = objects
  BY <1>0, OneRequest DEF Begin, At, Step, stores, AtStep
<1>2. x \in Request
  BY <1>0, <1>1 DEF Request, Finished
<1>3. x.pc = next.pc /\ x.node = None /\ x.val = next.val /\ x.op = op
  BY <1>0 DEF Request
<1>4. AtStep(r, x)
  BY <1>1, <1>3 DEF AtStep, Ops
<1>5. GoodRecord(r, x)
  BY <1>1, <1>2, <1>4 DEF GoodRecord, PastWrite, Idle
<1>6. InObject =>
        /\ Replaces(x)
        /\ x.op = "put" /\ x.pc \in {"find", "write"} => r \in objects'
  BY <1>3 DEF Replaces
<1>7. faults' \in Nat /\ nodes' = nodes /\ objects' = objects /\ kind' = kind
  BY <1>1, OneRequest
<1> QED
  BY <1>1, <1>5, <1>6, <1>7, LocalStep

LEMMA BeginStepKeeps ==
  ASSUME IInv, NEW r \in Requests, BeginStep(r)
  PROVE  IInv'
<1> USE OneRequest, ContentsOfRequest
<1>0. /\ cache # None => cache \in Contents
      /\ \A p, v : /\ p \in {"read", "find", "put", "done"}
                   /\ v \in Contents \cup {None}
                   => /\ [Idle EXCEPT !.pc = p, !.val = v] \in Request
                      /\ [Idle EXCEPT !.pc = p] \in Request
                      /\ [Idle EXCEPT !.pc = p, !.val = v, !.res = "ok"]
                           \in Request
  <2>1. Idle \in Request
    BY DEF Idle, Request
  <2>2. \A y \in Request :
          /\ \A p \in {"read", "find", "put", "done"} :
               [y EXCEPT !.pc = p] \in Request
          /\ \A v \in Contents \cup {None} : [y EXCEPT !.val = v] \in Request
          /\ [y EXCEPT !.res = "ok"] \in Request
    BY DEF Request
  <2>3. ASSUME NEW p \in {"read", "find", "put", "done"},
               NEW v \in Contents \cup {None}
        PROVE  /\ [Idle EXCEPT !.pc = p] \in Request
               /\ [[Idle EXCEPT !.pc = p] EXCEPT !.val = v] \in Request
               /\ [[[Idle EXCEPT !.pc = p] EXCEPT !.val = v]
                     EXCEPT !.res = "ok"] \in Request
    BY <2>1, <2>2
  <2>4. cache # None => cache \in Contents
    BY DEF Contents
  <2> QED
    BY <2>3, <2>4
<1>1. CASE BeginCreate(r)
  <2> DEFINE next == [Idle EXCEPT !.pc = "find",
                                  !.val = Changed(r, "create", Nothing)]
  <2>1. next \in Request /\ next.val \in Contents
    BY <1>0 DEF Idle
  <2> QED
    BY <1>1, <2>1, BeginKeeps DEF BeginCreate, Idle
<1>2. CASE BeginChange(r)
  <2>1. PICK op \in {"versioning", "lock"} :
          Begin(r, op, IF cache = None THEN [Idle EXCEPT !.pc = "read"]
                       ELSE [Idle EXCEPT !.pc = "find",
                                         !.val = Changed(r, op, cache)])
    BY <1>2 DEF BeginChange
  <2>2. CASE cache = None
    <3>1. [Idle EXCEPT !.pc = "read"] \in Request
      BY <1>0
    <3> QED
      BY <1>2, <2>1, <2>2, <3>1, BeginKeeps DEF BeginChange, Idle
  <2>3. CASE cache # None
    <3>1. Changed(r, op, cache) \in Contents
      BY <1>0, <2>3
    <3>2. [Idle EXCEPT !.pc = "find", !.val = Changed(r, op, cache)]
            \in Request
      BY <1>0, <3>1
    <3> QED
      BY <1>2, <2>1, <2>3, <3>1, <3>2, BeginKeeps DEF BeginChange, Idle
  <2> QED
    BY <2>2, <2>3
<1>3. CASE BeginPut(r)
  <2> DEFINE val == [p \in Parts |-> r]
  <2>1. CASE InObject
    <3>1. [Idle EXCEPT !.pc = "put", !.val = val] \in Request
      BY <1>0
    <3> QED
      BY <1>3, <2>1, <3>1, BeginKeeps DEF BeginPut, Idle
  <2>2. CASE ~InObject
    <3>1. [Idle EXCEPT !.pc = "find", !.val = val] \in Request
      BY <1>0
    <3> QED
      BY <1>3, <2>2, <3>1, BeginKeeps DEF BeginPut, Idle
  <2> QED
    BY <2>1, <2>2
<1>4. CASE BeginDelete(r)
  <2>1. [Idle EXCEPT !.pc = "find"] \in Request
    BY <1>0
  <2> QED
    BY <1>4, <2>1, BeginKeeps DEF BeginDelete, Idle
<1>5. CASE BeginGet(r)
  <2>1. CASE cache = None
    <3>1. [Idle EXCEPT !.pc = "read"] \in Request
      BY <1>0
    <3> QED
      BY <1>5, <2>1, <3>1, BeginKeeps DEF BeginGet, Idle
  <2>2. CASE cache # None
    <3>1. [Idle EXCEPT !.pc = "done", !.val = cache, !.res = "ok"] \in Request
      BY <1>0, <2>2
    <3> QED
      BY <1>5, <2>2, <3>1, BeginKeeps DEF BeginGet, Idle
  <2> QED
    BY <2>1, <2>2
<1> QED
  BY <1>1, <1>2, <1>3, <1>4, <1>5 DEF BeginStep

---------------------------------------------------------------------------
(* The steps that leave nodes and objects alone.                           *)
LEMMA QuietStep ==
  ASSUME IInv, NEW r \in Requests, NEW x \in Request,
         Step(r, x) \/ Fault(r, x), UNCHANGED stores,
         cache' \in Contents \cup {None},
         AtStep(r, x), x.op = req[r].op,
         PastWrite(req[r]) => PastWrite(x),
         InObject =>
           /\ Replaces(x)
           /\ x.op = "put" /\ x.pc \in {"find", "write"} => r \in objects
  PROVE  IInv'
<1>1. /\ req' = [req EXCEPT ![r] = x] /\ kind' = kind /\ faults' \in Nat
      /\ nodes' = nodes /\ objects' = objects
  BY OneRequest DEF Step, Fault, stores
<1>2. GoodRecord(r, x)
  BY DEF GoodRecord
<1> QED
  BY <1>1, <1>2, LocalStep

LEMMA EndedRecord ==
  ASSUME IInv, NEW r \in Requests, NEW res \in {"ok", "error"}
  PROVE  /\ Done(r, res) \in Request /\ AtStep(r, Done(r, res))
         /\ Done(r, res).op = req[r].op /\ Done(r, res).pc = "done"
         /\ PastWrite(req[r]) => PastWrite(Done(r, res))
         /\ Replaces(Done(r, res))
<1>1. /\ Done(r, res) \in Request
      /\ Done(r, res).op = req[r].op /\ Done(r, res).val = req[r].val
      /\ Done(r, res).pc = "done"
  BY OneRequest DEF Done, Request
<1> QED
  BY <1>1, OneRequest DEF AtStep, PastWrite, Replaces

LEMMA EndKeeps ==
  ASSUME IInv, NEW r \in Requests, NEW res \in {"ok", "error"},
         Step(r, Done(r, res)) \/ Fault(r, Done(r, res)),
         UNCHANGED stores, cache' \in Contents \cup {None}
  PROVE  IInv'
BY EndedRecord, QuietStep

LEMMA ReadNodeKeeps ==
  ASSUME IInv, NEW r \in Requests, ReadNode(r)
  PROVE  IInv'
<1>1. /\ UNCHANGED stores /\ cache' \in Contents \cup {None}
      /\ req[r].pc = "read" /\ req[r].op \in {"get", "versioning", "lock"}
      /\ req[r].node = None
  BY OneRequest DEF ReadNode, stores, At, AtStep
<1>2. ASSUME NEW v \in Contents, NEW p \in {"get", "fill"},
             p = "get" => InObject /\ kind \in Kinds,
             Step(r, [req[r] EXCEPT !.pc = p, !.val = v])
      PROVE  IInv'
  <2>1. PICK x : x = [req[r] EXCEPT !.pc = p, !.val = v]
    OBVIOUS
  <2>2. x \in Request /\ x.pc = p /\ x.op = req[r].op /\ x.val = v
        /\ x.node = None
    <3>1. [req[r] EXCEPT !.pc = p] \in Request
      BY <1>1, OneRequest DEF Request
    <3>2. \A y \in Request : [y EXCEPT !.val = v] \in Request
      BY DEF Request
    <3>3. [[req[r] EXCEPT !.pc = p] EXCEPT !.val = v] \in Request
      BY <3>1, <3>2
    <3>4. /\ x.pc = p /\ x.op = req[r].op /\ x.val = v
          /\ x.node = req[r].node
      BY <2>1, OneRequest DEF Request
    <3> QED
      BY <1>1, <2>1, <3>3, <3>4
  <2>3. InObject => req[r].op = "get"
    BY <1>1, OneRequest DEF Request, Ops, InObject
  <2>4. AtStep(r, x)
    BY <1>1, <1>2, <2>2, <2>3 DEF AtStep
  <2>5. ~PastWrite(req[r]) /\ Replaces(x)
    BY <1>1, <2>2 DEF PastWrite, Replaces
  <2> QED
    BY <1>1, <1>2, <2>1, <2>2, <2>4, <2>5, QuietStep
<1>3. CASE Step(r, NotFound(r))
  <2>1. CASE NotFound(r) = Done(r, "ok")
    BY <1>1, <1>3, <2>1, EndKeeps
  <2>2. CASE NotFound(r) = [req[r] EXCEPT !.pc = "fill", !.val = Nothing]
    BY <1>2, <1>3, <2>2, ContentsOfRequest
  <2> QED
    BY <2>1, <2>2 DEF NotFound
<1>4. ASSUME NEW n \in Nodes,
             Step(r, [req[r] EXCEPT !.val = nodes[n],
                        !.pc = IF InObject THEN "get" ELSE "fill"])
      PROVE  IInv'
  <2>1. nodes[n] \in Contents /\ kind \in Kinds
    BY OneRequest DEF IInv, TypeOK
  <2>2. \A p : [req[r] EXCEPT !.val = nodes[n], !.pc = p]
                 = [req[r] EXCEPT !.pc = p, !.val = nodes[n]]
    BY OneRequest DEF Request
  <2>3. CASE InObject
    BY <1>2, <1>4, <2>1, <2>2, <2>3
  <2>4. CASE ~InObject
    BY <1>2, <1>4, <2>1, <2>2, <2>4
  <2> QED
    BY <2>3, <2>4
<1>5. CASE RefusesTwins(r)
  BY <1>1, <1>5, EndKeeps DEF RefusesTwins
<1> QED
  BY <1>3, <1>4, <1>5 DEF ReadNode

LEMMA GetObjectKeeps ==
  ASSUME IInv, NEW r \in Requests, GetObject(r)
  PROVE  IInv'
<1>1. /\ UNCHANGED stores /\ cache' \in Contents \cup {None}
      /\ req[r].pc = "get" /\ req[r].op = "get" /\ req[r].val \in Contents
      /\ req[r].node = None
  BY OneRequest DEF GetObject, stores, At, AtStep
<1>2. CASE Step(r, To(r, "fill"))
  <2>1. /\ To(r, "fill") \in Request /\ To(r, "fill").pc = "fill"
        /\ To(r, "fill").op = "get" /\ To(r, "fill").val = req[r].val
        /\ To(r, "fill").node = None
    BY <1>1, OneRequest DEF To, Request
  <2>2. /\ AtStep(r, To(r, "fill")) /\ Replaces(To(r, "fill"))
        /\ ~PastWrite(req[r])
    BY <1>1, <2>1 DEF AtStep, Replaces, PastWrite
  <2> QED
    BY <1>1, <1>2, <2>1, <2>2, QuietStep
<1>3. CASE Step(r, Done(r, "error"))
  BY <1>1, <1>3, EndKeeps
<1> QED
  BY <1>2, <1>3 DEF GetObject

LEMMA FillKeeps ==
  ASSUME IInv, NEW r \in Requests, Fill(r)
  PROVE  IInv'
<1>1. /\ UNCHANGED stores /\ cache' \in Contents \cup {None}
      /\ req[r].pc = "fill" /\ req[r].val \in Contents
      /\ req[r].op \in {"get", "versioning", "lock"} /\ req[r].node = None
  BY OneRequest DEF Fill, At, AtStep
<1>2. CASE req[r].op = "get"
  <2>1. Step(r, Done(r, "ok"))
    BY <1>2 DEF Fill
  <2> QED
    BY <1>1, <2>1, EndKeeps
<1>3. CASE req[r].op # "get"
  <2>1. PICK x : x = [req[r] EXCEPT !.pc = "find",
                        !.val = Changed(r, req[r].op, req[r].val)]
    OBVIOUS
  <2>2. Step(r, x) /\ x.val \in Contents /\ x \in Request
    <3>1. Changed(r, req[r].op, req[r].val) \in Contents
      BY <1>1, ContentsOfRequest
    <3>2. Step(r, x)
      BY <1>3, <2>1 DEF Fill
    <3>3. x.val \in Contents /\ x \in Request
      BY <2>1, <3>1, OneRequest DEF Request
    <3> QED
      BY <3>2, <3>3
  <2>3. x.pc = "find" /\ x.op = req[r].op /\ x.node = None
    BY <1>1, <2>1, OneRequest DEF Request
  <2>4. AtStep(r, x) /\ Replaces(x) /\ ~PastWrite(req[r])
    BY <1>1, <1>3, <2>2, <2>3 DEF AtStep, Replaces, PastWrite
  <2> QED
    BY <1>1, <2>2, <2>3, <2>4, QuietStep
<1> QED
  BY <1>2, <1>3

LEMMA CacheWrittenKeeps ==
  ASSUME IInv, NEW r \in Requests, CacheWritten(r)
  PROVE  IInv'
<1>1. /\ Step(r, Done(r, "ok")) /\ UNCHANGED stores /\ req[r].pc = "cache"
      /\ cache' = IF req[r].op = "delete" THEN None ELSE req[r].val
  BY DEF CacheWritten, At
<1>2. cache' \in Contents \cup {None}
  BY <1>1, OneRequest DEF AtStep
<1> QED
  BY <1>1, <1>2, EndKeeps

LEMMA CallFailsKeeps ==
  ASSUME IInv, NEW r \in Requests, CallFails(r)
  PROVE  IInv'
BY EndKeeps, OneRequest DEF CallFails, stores

LEMMA FindNodeKeeps ==
  ASSUME IInv, NEW r \in Requests, FindNode(r)
  PROVE  IInv'
<1>1. /\ UNCHANGED stores /\ cache' \in Contents \cup {None}
      /\ req[r].pc = "find" /\ req[r].op # "get" /\ req[r].node = None
      /\ req[r].op # "delete" => req[r].val \in Contents
      /\ ~PastWrite(req[r])
      /\ InObject /\ req[r].op = "put" => r \in objects
  BY OneRequest DEF FindNode, stores, At, AtStep, PastWrite, StoredFirst
<1>2. CASE Step(r, NothingFound(r))
  <2>1. ASSUME NEW p \in {"write", "cache"}, NothingFound(r) = To(r, p),
               p = "write" => req[r].op # "delete"
        PROVE  IInv'
    <3>1. /\ To(r, p) \in Request /\ To(r, p).pc = p
          /\ To(r, p).op = req[r].op /\ To(r, p).val = req[r].val
          /\ To(r, p).node = None
      BY <1>1, OneRequest DEF To, Request
    <3>2. AtStep(r, To(r, p)) /\ Replaces(To(r, p))
      BY <1>1, <2>1, <3>1, OneRequest DEF AtStep, Replaces
    <3> QED
      BY <1>1, <1>2, <2>1, <3>1, <3>2, QuietStep
  <2>2. CASE NothingFound(r) = Done(r, "ok")
    BY <1>1, <1>2, <2>2, EndKeeps
  <2> QED
    BY <2>1, <2>2 DEF NothingFound
<1>3. ASSUME NEW n \in Nodes,
             Step(r, [req[r] EXCEPT !.node = n, !.was = nodes[n],
                        !.pc = IF req[r].op = "delete" THEN "remove"
                               ELSE "write"])
      PROVE  IInv'
  <2>0. PICK p \in {"remove", "write"} :
          p = IF req[r].op = "delete" THEN "remove" ELSE "write"
    OBVIOUS
  <2>1. PICK x : x = [req[r] EXCEPT !.node = n, !.was = nodes[n], !.pc = p]
    OBVIOUS
  <2>2. n \in Requests /\ nodes[n] \in Contents /\ n # None
    BY OneRequest, NoneIsNoRequest
  <2>3. /\ x \in Request /\ x.op = req[r].op /\ x.val = req[r].val
        /\ x.pc = p
        /\ x.node = n /\ x.was = nodes[n]
    BY <2>1, <2>2, OneRequest DEF Request
  <2>4. AtStep(r, x)
    BY <1>1, <2>0, <2>2, <2>3, OneRequest DEF AtStep
  <2>5. InObject => NamesStored(n)
    BY DEF IInv
  <2>6. InObject => Replaces(x)
    BY <2>3, <2>5 DEF Replaces, NamesStored
  <2> QED
    BY <1>1, <1>3, <2>0, <2>1, <2>3, <2>4, <2>6, QuietStep
<1>4. CASE RefusesTwins(r)
  BY <1>1, <1>4, EndKeeps DEF RefusesTwins
<1> QED
  BY <1>2, <1>3, <1>4 DEF FindNode

(* The object of a PUT is stored before anything names it.                 *)
LEMMA PutObjectKeeps ==
  ASSUME IInv, NEW r \in Requests, PutObject(r)
  PROVE  IInv'
<1>1. /\ req[r].pc = "put" /\ req[r].op = "put" /\ InObject
      /\ req[r].node = None /\ req[r].val = [p \in Parts |-> r]
      /\ nodes' = nodes /\ objects' = objects \cup {r} /\ cache' = cache
  BY OneRequest DEF PutObject, At, AtStep
<1>2. ASSUME NEW x, GoodRecord(r, x), Replaces(x), x.op = "put",
             req' = [req EXCEPT ![r] = x], kind' = kind, faults' \in Nat
      PROVE  IInv'
  BY <1>1, <1>2, LocalStep, OneRequest
<1>3. /\ kind' = kind /\ faults' \in Nat
      /\ \/ req' = [req EXCEPT ![r] = To(r, "find")]
         \/ req' = [req EXCEPT ![r] = Done(r, "error")]
  BY OneRequest DEF PutObject, Replied, Step, Fault
<1>4. /\ To(r, "find") \in Request /\ To(r, "find").pc = "find"
      /\ To(r, "find").op = "put" /\ To(r, "find").val = req[r].val
      /\ To(r, "find").node = None
  BY <1>1, OneRequest DEF To, Request
<1>5. GoodRecord(r, To(r, "find")) /\ Replaces(To(r, "find"))
  BY <1>1, <1>4, ContentsOfRequest
  DEF GoodRecord, AtStep, PastWrite, Replaces, Nothing
<1>6. /\ GoodRecord(r, Done(r, "error")) /\ Replaces(Done(r, "error"))
      /\ Done(r, "error").op = "put"
  BY <1>1, EndedRecord DEF GoodRecord
<1> QED
  BY <1>2, <1>3, <1>4, <1>5, <1>6

---------------------------------------------------------------------------
(* The steps that change nodes or delete objects: what holds of a kind     *)
(* that has no objects, and what is left to show of one that has.          *)
LEMMA StoreStep ==
  ASSUME IInv, NEW r \in Requests, NEW x, GoodRecord(r, x),
         req' = [req EXCEPT ![r] = x], kind' = kind, faults' \in Nat,
         cache' = cache,
         nodes' \in [Requests -> Contents \cup {None}],
         objects' \subseteq objects,
         InObject =>
           /\ \A n \in Nodes' : NamesStored(n)'
           /\ \A q \in Requests : StoredFirst(q)' /\ Replaces(req[q])'
  PROVE  IInv'
<1>1. /\ TypeOK' /\ \A q \in Requests : AtStep(q, req[q])'
  BY HandlerStep, OneRequest DEF IInv, TypeOK
<1> QED
  BY <1>1, SameKind DEF IInv

(* The node a PUT writes names its own object, which nothing named so far; *)
(* what the node named before, no node names any more.                     *)
LEMMA WrittenNode ==
  ASSUME IInv, NEW r \in Requests, NEW x, NEW n \in Requests, GoodRecord(r, x),
         req' = [req EXCEPT ![r] = x], kind' = kind, faults' \in Nat,
         UNCHANGED <<objects, cache>>,
         req[r].pc = "write",
         nodes' = [nodes EXCEPT ![n] = req[r].val],
         n = IF req[r].node = None THEN r ELSE req[r].node,
         x.pc \in {"drop", "cache", "done"},
         x.op = req[r].op, x.node = req[r].node, x.was = req[r].was,
         x.pc = "drop" => x.node # None
  PROVE  IInv'
<1>1. /\ req[r].val \in Contents /\ nodes \in [Requests -> Contents \cup {None}]
      /\ req[r].op \notin {"get", "delete", "none"}
  BY OneRequest DEF AtStep
<1>2. nodes' \in [Requests -> Contents \cup {None}]
  BY <1>1
<1>3. ASSUME InObject
      PROVE  /\ \A m \in Nodes' : NamesStored(m)'
             /\ \A q \in Requests : StoredFirst(q)' /\ Replaces(req[q])'
  <2>1. /\ req[r].op = "put" /\ req[r].val["conf"] = r /\ r \in objects
        /\ ~OfPast(r)
    <3>1. req[r].op \in Ops \cup {"none"} /\ (InObject => Parts = {"conf"})
      BY OneRequest DEF Request, Parts, InObject
    <3>2. req[r].op = "put"
      BY <1>1, <1>3, <3>1 DEF Ops, InObject
    <3>3. req[r].val = [p \in Parts |-> r]
      BY <3>2, OneRequest DEF AtStep
    <3>4. r \in objects
      BY <1>3, <3>2, OneRequest DEF StoredFirst
    <3> QED
      BY <1>3, <3>1, <3>2, <3>3, <3>4 DEF OfPast, PastWrite
  <2>2. /\ req'[r] = x /\ \A q \in Requests \ {r} : req'[q] = req[q]
        /\ \A o : OfPast(o) => OfPast(o)'
        /\ OfPast(r)' /\ objects' = objects
    <3>1. /\ req'[r] = x /\ \A q \in Requests \ {r} : req'[q] = req[q]
          /\ \A o : OfPast(o) => OfPast(o)'
      BY <1>2, HandlerStep, OneRequest DEF IInv, TypeOK
    <3> QED
      BY <2>1, <3>1 DEF OfPast, PastWrite
  <2>3. ASSUME NEW m \in Nodes', m # n
        PROVE  /\ m \in Nodes /\ nodes'[m] = nodes[m]
               /\ OfPast(nodes[m]["conf"]) /\ nodes[m]["conf"] # r
    <3>1. m \in Nodes /\ nodes'[m] = nodes[m]
      BY <1>1, <2>3 DEF Nodes
    <3> QED
      BY <1>3, <2>1, <3>1 DEF IInv, NamesStored
  <2>4. nodes'[n]["conf"] = r
    BY <1>1, <2>1
  <2>5. ASSUME NEW m \in Nodes' PROVE NamesStored(m)'
    <3>1. CASE m = n
      BY <2>1, <2>2, <2>3, <2>4, <3>1 DEF NamesStored
    <3>2. CASE m # n
      <4>1. m \in Nodes /\ NamesStored(m)
        BY <1>3, <2>3, <3>2 DEF IInv
      <4> QED
        BY <2>2, <2>3, <2>4, <3>2, <4>1 DEF NamesStored
    <3> QED
      BY <3>1, <3>2
  <2>6. ASSUME NEW q \in Requests PROVE StoredFirst(q)'
    BY <1>3, <2>2 DEF IInv, StoredFirst
  <2>7. ASSUME NEW q \in Requests PROVE Replaces(req[q])'
    <3>1. CASE q = r
      <4>1. ASSUME x.pc = "drop"
            PROVE  /\ OfPast(x.was["conf"])
                   /\ \A m \in Nodes' : nodes'[m]["conf"] # x.was["conf"]
        <5>1. /\ OfPast(x.was["conf"])
              /\ \A m \in Nodes : nodes[m]["conf"] = x.was["conf"] => m = n
          BY <1>3, <4>1, OneRequest DEF Replaces
        <5> QED
          BY <2>1, <2>3, <2>4, <5>1
      <4> QED
        BY <2>2, <3>1, <4>1 DEF Replaces
    <3>2. CASE q # r
      <4>1. Replaces(req[q]) /\ req'[q] = req[q]
        BY <1>3, <2>2, <3>2 DEF IInv
      <4> QED
        BY <2>1, <2>2, <2>3, <2>4, <4>1 DEF Replaces
    <3> QED
      BY <3>1, <3>2
  <2> QED
    BY <2>5, <2>6, <2>7
<1> QED
  BY <1>2, <1>3, StoreStep

LEMMA WriteNodeKeeps ==
  ASSUME IInv, NEW r \in Requests, WriteNode(r)
  PROVE  IInv'
<1> DEFINE n == IF req[r].node = None THEN r ELSE req[r].node
<1>1. /\ req[r].pc = "write" /\ req[r].op \notin {"none", "get", "delete"}
      /\ UNCHANGED <<objects, cache>> /\ n \in Requests
      /\ req[r].val \in Contents
      /\ InObject => req[r].op = "put"
  BY OneRequest DEF WriteNode, At, AtStep, Request, Ops, InObject
<1>2. \/ /\ nodes' = [nodes EXCEPT ![n] = req[r].val]
         /\ Replied(r, Written(r))
      \/ Step(r, Done(r, "error")) /\ UNCHANGED nodes
  BY DEF WriteNode
<1>3. CASE /\ nodes' = [nodes EXCEPT ![n] = req[r].val]
           /\ Replied(r, Written(r))
  <2>1. /\ kind' = kind /\ faults' \in Nat
        /\ \/ req' = [req EXCEPT ![r] = To(r, "drop")] /\ InObject
              /\ req[r].node # None
           \/ req' = [req EXCEPT ![r] = To(r, "cache")]
           \/ req' = [req EXCEPT ![r] = Done(r, "error")]
    BY <1>3, OneRequest DEF Replied, Step, Fault, Written
  <2>2. ASSUME NEW p \in {"drop", "cache"}
        PROVE  /\ To(r, p) \in Request /\ To(r, p).pc = p
               /\ To(r, p).op = req[r].op /\ To(r, p).val = req[r].val
               /\ To(r, p).node = req[r].node /\ To(r, p).was = req[r].was
    BY OneRequest DEF To, Request
  <2>3. GoodRecord(r, To(r, "cache"))
    BY <1>1, <2>2, OneRequest DEF GoodRecord, AtStep, PastWrite
  <2>4. InObject /\ req[r].node # None => GoodRecord(r, To(r, "drop"))
    BY <1>1, <2>2, OneRequest DEF GoodRecord, AtStep, PastWrite
  <2>5. /\ GoodRecord(r, Done(r, "error")) /\ Done(r, "error").pc = "done"
        /\ Done(r, "error").op = req[r].op
        /\ Done(r, "error").node = req[r].node
        /\ Done(r, "error").was = req[r].was
    <3>1. /\ Done(r, "error").op = req[r].op
          /\ Done(r, "error").node = req[r].node
          /\ Done(r, "error").was = req[r].was
      BY OneRequest DEF Done, Request
    <3> QED
      BY <3>1, EndedRecord DEF GoodRecord
  <2> QED
    BY <1>1, <1>3, <2>1, <2>2, <2>3, <2>4, <2>5, WrittenNode
<1>4. CASE Step(r, Done(r, "error")) /\ UNCHANGED nodes
  BY <1>1, <1>4, EndKeeps, OneRequest DEF stores
<1> QED
  BY <1>2, <1>3, <1>4

(* A node is removed, or an object that no node names is deleted: what the *)
(* other nodes name is as it was.                                          *)
LEMMA LessStored ==
  ASSUME IInv, NEW r \in Requests, NEW x, GoodRecord(r, x),
         req' = [req EXCEPT ![r] = x], kind' = kind, faults' \in Nat,
         cache' = cache,
         nodes' \in [Requests -> Contents \cup {None}],
         \A m \in Nodes' : m \in Nodes /\ nodes'[m] = nodes[m],
         objects' \subseteq objects,
         InObject => \A o \in objects \ objects' :
                       /\ OfPast(o)
                       /\ \A m \in Nodes' : nodes[m]["conf"] # o,
         x.pc \in {"drop", "cache", "done"},
         InObject /\ x.pc = "drop" =>
           /\ OfPast(x.was["conf"])
           /\ \A m \in Nodes' : nodes[m]["conf"] # x.was["conf"]
  PROVE  IInv'
<1>1. /\ req'[r] = x /\ \A q \in Requests \ {r} : req'[q] = req[q]
      /\ \A o : OfPast(o) => OfPast(o)'
  BY HandlerStep, OneRequest DEF IInv, TypeOK
<1>2. ASSUME InObject, NEW n \in Nodes' PROVE NamesStored(n)'
  <2>1. NamesStored(n) /\ n \in Nodes
    BY <1>2 DEF IInv
  <2>2. nodes[n]["conf"] \in objects'
    BY <1>2, <2>1 DEF NamesStored
  <2> QED
    BY <1>1, <1>2, <2>1, <2>2 DEF NamesStored
<1>3. ASSUME InObject, NEW q \in Requests PROVE StoredFirst(q)'
  BY <1>1, <1>3 DEF IInv, StoredFirst, OfPast, PastWrite
<1>4. ASSUME InObject, NEW q \in Requests PROVE Replaces(req[q])'
  <2>1. CASE q = r
    BY <1>1, <1>4, <2>1 DEF Replaces
  <2>2. CASE q # r
    <3>1. Replaces(req[q]) /\ req'[q] = req[q]
      BY <1>1, <1>4, <2>2 DEF IInv
    <3> QED
      BY <1>1, <3>1 DEF Replaces
  <2> QED
    BY <2>1, <2>2
<1> QED
  BY <1>2, <1>3, <1>4, StoreStep

LEMMA RemoveNodeKeeps ==
  ASSUME IInv, NEW r \in Requests, RemoveNode(r)
  PROVE  IInv'
<1>1. /\ req[r].pc = "remove" /\ req[r].op = "delete" /\ req[r].node # None
      /\ req[r].was \in Contents /\ UNCHANGED <<objects, cache>>
      /\ kind # "settings"
  BY OneRequest DEF RemoveNode, At, AtStep, Request, Ops
<1>2. \/ /\ nodes' = [nodes EXCEPT ![req[r].node] = None]
         /\ Replied(r, Removed(r))
      \/ Step(r, Done(r, "error")) /\ UNCHANGED nodes
  BY DEF RemoveNode
<1>3. CASE /\ nodes' = [nodes EXCEPT ![req[r].node] = None]
           /\ Replied(r, Removed(r))
  <2>1. /\ nodes' \in [Requests -> Contents \cup {None}]
        /\ \A m \in Nodes' : /\ m \in Nodes /\ nodes'[m] = nodes[m]
                             /\ m # req[r].node
    BY <1>3, OneRequest DEF Nodes
  <2>2. /\ kind' = kind /\ faults' \in Nat
        /\ \/ req' = [req EXCEPT ![r] = To(r, "drop")] /\ InObject
           \/ \E res \in {"ok", "error"} :
                req' = [req EXCEPT ![r] = Done(r, res)]
    <3>1. kind # "tags" => InObject
      BY <1>1, KnownKinds DEF IInv, TypeOK, InObject
    <3> QED
      BY <1>3, <3>1, OneRequest DEF Replied, Step, Fault, Removed
  <2>3. CASE req' = [req EXCEPT ![r] = To(r, "drop")] /\ InObject
    <3>1. /\ To(r, "drop") \in Request /\ To(r, "drop").pc = "drop"
          /\ To(r, "drop").op = "delete"
          /\ To(r, "drop").node = req[r].node
          /\ To(r, "drop").was = req[r].was
      BY <1>1, OneRequest DEF To, Request
    <3>2. GoodRecord(r, To(r, "drop"))
      BY <1>1, <2>3, <3>1 DEF GoodRecord, AtStep, PastWrite
    <3>3. /\ OfPast(req[r].was["conf"])
          /\ \A m \in Nodes' : nodes[m]["conf"] # req[r].was["conf"]
      BY <1>1, <2>1, <2>3, OneRequest DEF Replaces
    <3> QED
      BY <1>1, <2>1, <2>2, <2>3, <3>1, <3>2, <3>3, LessStored
  <2>4. ASSUME NEW res \in {"ok", "error"},
               req' = [req EXCEPT ![r] = Done(r, res)]
        PROVE  IInv'
    <3>1. GoodRecord(r, Done(r, res)) /\ Done(r, res).pc = "done"
      BY EndedRecord DEF GoodRecord
    <3> QED
      BY <1>1, <2>1, <2>2, <2>4, <3>1, LessStored
  <2> QED
    BY <2>2, <2>3, <2>4
<1>4. CASE Step(r, Done(r, "error")) /\ UNCHANGED nodes
  BY <1>1, <1>4, EndKeeps, OneRequest DEF stores
<1> QED
  BY <1>2, <1>3, <1>4

LEMMA DropObjectKeeps ==
  ASSUME IInv, NEW r \in Requests, DropObject(r)
  PROVE  IInv'
<1>1. /\ req[r].pc = "drop" /\ req[r].op \in {"put", "delete"} /\ InObject
      /\ req[r].node # None /\ UNCHANGED <<nodes, cache>>
      /\ nodes \in [Requests -> Contents \cup {None}]
      /\ req[r].op = "put" => req[r].val = [p \in Parts |-> r]
  BY OneRequest DEF DropObject, At, AtStep
<1>2. /\ OfPast(req[r].was["conf"])
      /\ \A m \in Nodes : nodes[m]["conf"] # req[r].was["conf"]
  BY <1>1, OneRequest DEF Replaces
<1>3. /\ objects' \subseteq objects
      /\ \A o \in objects \ objects' : o = req[r].was["conf"]
      /\ kind' = kind /\ faults' \in Nat
      /\ \/ req' = [req EXCEPT ![r] = To(r, "cache")]
         \/ req' = [req EXCEPT ![r] = Done(r, "error")]
  BY OneRequest DEF DropObject, Step, Fault
<1>4. /\ To(r, "cache") \in Request /\ To(r, "cache").pc = "cache"
      /\ To(r, "cache").op = req[r].op /\ To(r, "cache").val = req[r].val
  BY OneRequest DEF To, Request
<1>5. GoodRecord(r, To(r, "cache"))
  BY <1>1, <1>4, ContentsOfRequest DEF GoodRecord, AtStep, PastWrite
<1>6. GoodRecord(r, Done(r, "error")) /\ Done(r, "error").pc = "done"
  BY EndedRecord DEF GoodRecord
<1>7. Nodes' = Nodes
  BY <1>1 DEF Nodes
<1> QED
  BY <1>1, <1>2, <1>3, <1>4, <1>5, <1>6, <1>7, LessStored

(* A crash ends every request; it takes no PUT back before its write.      *)
LEMMA CrashKeeps ==
  ASSUME IInv, Crash
  PROVE  IInv'
<1>1. /\ nodes' = nodes /\ objects' = objects /\ kind' = kind
      /\ cache' = None /\ faults' \in Nat
      /\ req \in [Requests -> Request]
      /\ req' = [r \in Requests |-> IF Active(r) THEN Done(r, "crashed")
                                                 ELSE req[r]]
  BY DEF Crash, stores, IInv, TypeOK
<1>2. ASSUME NEW r \in Requests
      PROVE  /\ req'[r] \in Request /\ AtStep(r, req'[r])
             /\ req'[r].op = req[r].op
             /\ req'[r].pc \in {"idle", "done"}
             /\ PastWrite(req[r]) => PastWrite(req'[r])
  <2>1. CASE Active(r)
    <3>1. req'[r] = [req[r] EXCEPT !.pc = "done", !.res = "crashed"]
      BY <1>1, <2>1 DEF Done
    <3>2. /\ req'[r] \in Request /\ req'[r].pc = "done"
          /\ req'[r].op = req[r].op /\ req'[r].val = req[r].val
      BY <3>1, OneRequest DEF Request
    <3> QED
      BY <3>2, OneRequest DEF AtStep, PastWrite
  <2>2. CASE ~Active(r)
    BY <1>1, <2>2, OneRequest DEF Active
  <2> QED
    BY <2>1, <2>2
<1>3. TypeOK'
  <2>1. req' \in [Requests -> Request]
    BY <1>1, <1>2
  <2>2. objects' \subseteq {r \in Requests : InObject /\ req'[r].op = "put"}
    BY <1>1, <1>2 DEF IInv, TypeOK
  <2> QED
    BY <1>1, <2>1, <2>2, SameKind DEF IInv, TypeOK
<1>4. \A r \in Requests : AtStep(r, req[r])'
  BY <1>1, <1>2, AtStepKeeps
<1>5. InObject' = InObject /\ Nodes' = Nodes
  BY <1>1, SameKind DEF Nodes
<1>6. \A o : OfPast(o) => OfPast(o)'
  BY <1>2 DEF OfPast
<1>7. ASSUME InObject, NEW n \in Nodes' PROVE NamesStored(n)'
  BY <1>1, <1>5, <1>6, <1>7 DEF IInv, NamesStored
<1>8. ASSUME NEW r \in Requests PROVE StoredFirst(r)' /\ Replaces(req[r])'
  BY <1>2 DEF StoredFirst, Replaces
<1> QED
  BY <1>3, <1>4, <1>5, <1>7, <1>8 DEF IInv

(* What does not touch tree, objects or requests: expiry, and no step.     *)
LEMMA RestKeeps ==
  ASSUME IInv, UNCHANGED <<kind, stores, req, faults>>,
         cache' \in Contents \cup {None}
  PROVE  IInv'
<1>1. /\ TypeOK' /\ InObject' = InObject
  BY SameKind DEF IInv, TypeOK, stores
<1>2. \A r \in Requests : AtStep(r, req[r])'
  BY AtStepKeeps DEF IInv
<1>3. ASSUME InObject
      PROVE  /\ \A n \in Nodes' : NamesStored(n)'
             /\ \A r \in Requests : StoredFirst(r)' /\ Replaces(req[r])'
  BY <1>3 DEF IInv, NamesStored, StoredFirst, Replaces, OfPast, Nodes, stores
<1> QED
  BY <1>1, <1>2, <1>3 DEF IInv

---------------------------------------------------------------------------
LEMMA InitHolds == Init => IInv
<1> SUFFICES ASSUME Init PROVE IInv
  OBVIOUS
<1>1. Idle \in Request
  BY DEF Idle, Request
<1>2. TypeOK
  BY <1>1 DEF Init, TypeOK
<1>3. \A r \in Requests : AtStep(r, req[r])
  BY DEF Init, AtStep, Idle
<1>4. Nodes = {}
  BY DEF Init, Nodes
<1>5. \A r \in Requests : StoredFirst(r) /\ Replaces(req[r])
  BY DEF Init, Idle, StoredFirst, Replaces
<1> QED
  BY <1>2, <1>3, <1>4, <1>5 DEF IInv

LEMMA NextKeeps == IInv /\ [Next]_vars => IInv'
<1> SUFFICES ASSUME IInv, [Next]_vars PROVE IInv'
  OBVIOUS
<1>1. ASSUME NEW r \in Requests, BeginStep(r) PROVE IInv'
  BY <1>1, BeginStepKeeps
<1>2. ASSUME NEW r \in Requests, RequestStep(r) PROVE IInv'
  BY <1>2, ReadNodeKeeps, GetObjectKeeps, FillKeeps, PutObjectKeeps,
     FindNodeKeeps, WriteNodeKeeps, RemoveNodeKeeps, DropObjectKeeps,
     CacheWrittenKeeps
  DEF RequestStep
<1>3. ASSUME NEW r \in Requests, CallFails(r) PROVE IInv'
  BY <1>3, CallFailsKeeps
<1>4. CASE Expire
  BY <1>4, RestKeeps DEF Expire
<1>5. CASE Crash
  BY <1>5, CrashKeeps
<1>6. CASE UNCHANGED vars
  BY <1>6, RestKeeps DEF vars, IInv, TypeOK
<1> QED
  BY <1>1, <1>2, <1>3, <1>4, <1>5, <1>6 DEF Next

(* What the tree names is stored, and what a handler replaces or deletes   *)
(* nothing else names, in every reachable state: the invariant behind the  *)
(* order of the calls of PutBucketCORS and DeleteBucketCORS (cors.go).     *)
THEOREM InvariantHolds == Spec => []IInv
<1> QED
  BY InitHolds, NextKeeps, PTL DEF Spec

(* Nodes, cache and handlers carry configurations of the behaviour's kind. *)
THEOREM TypeCorrect == Spec => []TypeOK
<1>1. IInv => TypeOK
  BY DEF IInv
<1> QED
  BY <1>1, InvariantHolds, PTL

(* The object that a node of CORS or notifications names is in FrostFS,    *)
(* however requests interleave, fail and crash (PutBucketCORS puts the     *)
(* object first and deletes the old one last).                             *)
THEOREM NamedObjectsExist == Spec => []NamedObjectExists
<1>1. IInv => NamedObjectExists
  BY DEF IInv, NamesStored, NamedObjectExists
<1> QED
  BY <1>1, InvariantHolds, PTL

---------------------------------------------------------------------------
(* What a step may do, as the proofs below see it: x is the record the     *)
(* handler of request r leaves behind.                                     *)

SameAsk(x, y)  == x.op = y.op /\ x.prior = y.prior
SameFind(x, y) == x.node = y.node /\ x.was = y.was
Ends(x, e)     == x.pc = "done" /\ x.res = e
FailsAfter(x)  == Ends(x, "error") /\ faults' # 0

Fails(r, x) == /\ Ends(x, "error") /\ ~At(r, "drop")
               /\ SameFind(x, req[r]) /\ UNCHANGED <<stores, cache>>

Reads(r, x) ==
  /\ At(r, "read") /\ UNCHANGED <<stores, cache>> /\ SameFind(x, req[r])
  /\ \/ Nodes = {} /\ Ends(x, "ok") /\ req[r].op = "get"
     \/ Nodes = {} /\ x.pc = "fill" /\ x.val = Nothing
     \/ \E n \in Nodes : /\ Nodes = {n} /\ x.val = nodes[n]
                         /\ x.pc \in {"get", "fill"}

Gets(r, x) ==
  /\ At(r, "get") /\ UNCHANGED <<stores, cache>> /\ SameFind(x, req[r])
  /\ x.pc = "fill" /\ x.val = req[r].val

Fills(r, x) ==
  /\ At(r, "fill") /\ UNCHANGED stores /\ SameFind(x, req[r])
  /\ cache' = req[r].val
  /\ \/ req[r].op = "get" /\ Ends(x, "ok")
     \/ /\ req[r].op # "get" /\ x.pc = "find"
        /\ x.val = Changed(r, req[r].op, req[r].val)

Puts(r, x) ==
  /\ At(r, "put") /\ UNCHANGED <<nodes, cache>> /\ SameFind(x, req[r])
  /\ objects' = objects \cup {r}
  /\ (x.pc = "find" /\ x.val = req[r].val) \/ Ends(x, "error")

Finds(r, x) ==
  /\ At(r, "find") /\ UNCHANGED <<stores, cache>> /\ x.val = req[r].val
  /\ \/ /\ Nodes = {} /\ x.node = None
        /\ \/ x.pc = "write" /\ req[r].op # "delete"
           \/ x.pc = "cache" /\ req[r].op = "delete"
           \/ Ends(x, "ok") /\ req[r].op = "delete"
     \/ \E n \in Nodes : /\ Nodes = {n} /\ x.node = n /\ x.was = nodes[n]
                         /\ x.pc \in {"write", "remove"}

Target(r) == IF req[r].node = None THEN r ELSE req[r].node

WritesNode(r, x) ==
  /\ At(r, "write") /\ UNCHANGED <<objects, cache>> /\ SameFind(x, req[r])
  /\ nodes' = [nodes EXCEPT ![Target(r)] = req[r].val]
  /\ \/ x.pc = "drop" /\ x.val = req[r].val
     \/ /\ x.pc = "cache" /\ x.val = req[r].val
        /\ ~(InObject /\ req[r].node # None)
     \/ FailsAfter(x)

Removes(r, x) ==
  /\ At(r, "remove") /\ UNCHANGED <<objects, cache>> /\ SameFind(x, req[r])
  /\ nodes' = [nodes EXCEPT ![req[r].node] = None]
  /\ \/ x.pc = "drop" \/ (Ends(x, "ok") /\ kind = "tags") \/ FailsAfter(x)

Drops(r, x) ==
  /\ At(r, "drop") /\ UNCHANGED <<nodes, cache>> /\ SameFind(x, req[r])
  /\ (x.pc = "cache" /\ x.val = req[r].val) \/ Ends(x, "error")
  /\ objects' \subseteq objects
  /\ faults' # 0 \/ req[r].was["conf"] \notin objects'

Caches(r, x) ==
  /\ At(r, "cache") /\ UNCHANGED stores /\ SameFind(x, req[r])
  /\ Ends(x, "ok")
  /\ cache' = IF req[r].op = "delete" THEN None ELSE req[r].val

Did(r, x) ==
  \/ Fails(r, x) \/ Reads(r, x) \/ Gets(r, x) \/ Fills(r, x) \/ Puts(r, x)
  \/ Finds(r, x) \/ WritesNode(r, x) \/ Removes(r, x) \/ Drops(r, x)
  \/ Caches(r, x)

Alone(r, x) == req'[r] = x /\ \A q \in Requests \ {r} : req'[q] = req[q]

(* The handler of r took a step.                                           *)
Handled(r, x) ==
  /\ Active(r) /\ Alone(r, x) /\ SameAsk(x, req[r]) /\ x.pc # "idle"
  /\ Did(r, x)

(* Request r began.                                                        *)
Begun(r, x) ==
  /\ At(r, "idle") /\ Alone(r, x) /\ x.prior = Finished /\ UNCHANGED stores
  /\ x.op \in Ops /\ x.node = None
  /\ x.pc \in {"read", "put", "find", "done"} /\ (x.pc = "done" => x.op = "get")
  /\ cache' = IF x.op = "delete" /\ kind = "tags" THEN None ELSE cache
  /\ x.op = "create" => \A q \in Requests : At(q, "idle")
  /\ x.pc = "find" =>
       \/ x.op = "delete"
       \/ x.op = "put" /\ x.val = [p \in Parts |-> r]
       \/ x.op = "create" /\ x.val = Changed(r, "create", Nothing)
       \/ /\ x.op \in {"versioning", "lock"} /\ cache # None
          /\ x.val = Changed(r, x.op, cache)

(* The gateway restarted.                                                  *)
Crashed ==
  /\ UNCHANGED stores /\ cache' = None /\ faults' # 0
  /\ \A q \in Requests :
       \/ ~Active(q) /\ req'[q] = req[q]
       \/ /\ Active(q) /\ SameAsk(req'[q], req[q]) /\ Ends(req'[q], "crashed")
          /\ SameFind(req'[q], req[q])

(* Nothing happened but to the cache entry.                                *)
Rested == UNCHANGED <<stores, req>> /\ cache' \in {cache, None}

AnyStep == /\ IInv /\ IInv' /\ kind' = kind /\ (faults' = 0 => faults = 0)
           /\ (Answered => Answered')
           /\ \/ \E r \in Requests : Handled(r, req'[r]) \/ Begun(r, req'[r])
              \/ Crashed \/ Rested

(* The fields of the records the handlers leave behind.                    *)
LEMMA Fields ==
  ASSUME NEW r \in Requests, req[r] \in Request
  PROVE  /\ \A p : /\ To(r, p).pc = p /\ SameAsk(To(r, p), req[r])
                   /\ SameFind(To(r, p), req[r]) /\ To(r, p).val = req[r].val
         /\ \A e : /\ Ends(Done(r, e), e) /\ SameAsk(Done(r, e), req[r])
                   /\ SameFind(Done(r, e), req[r])
BY DEF To, Done, SameAsk, SameFind, Ends, Request

LEMMA HandlerDoes ==
  ASSUME IInv, NEW r \in Requests, RequestStep(r)
  PROVE  Handled(r, req'[r])
<1> PICK x : x = req'[r]
  OBVIOUS
<1> PICK y : y = req[r]
  OBVIOUS
<1>1. y \in Request /\ AtStep(r, y) /\ req \in [Requests -> Request]
  BY OneRequest
<1>2. /\ \A z : Step(r, z) => Alone(r, x) /\ x = z
      /\ \A z : Fault(r, z) => Alone(r, x) /\ x = z /\ faults' # 0
      /\ \A z : Replied(r, z) =>
                  Alone(r, x) /\ (x = z \/ (x = Done(r, "error") /\ faults' # 0))
  <2>1. \A z : req' = [req EXCEPT ![r] = z] => Alone(r, x) /\ x = z
    BY <1>1 DEF Alone
  <2>2. faults + 1 # 0
    BY OneRequest
  <2> QED
    BY <2>1, <2>2 DEF Step, Fault, Replied
<1>3. Active(r)
  BY DEF RequestStep, ReadNode, GetObject, Fill, PutObject, FindNode,
         WriteNode, RemoveNode, DropObject, CacheWritten, At, Active
<1>4. SUFFICES /\ Alone(r, x) /\ SameAsk(x, y) /\ x.pc # "idle" /\ Did(r, x)
  BY <1>3 DEF Handled
<1> DEFINE Fine == Alone(r, x) /\ SameAsk(x, y) /\ x.pc # "idle" /\ Did(r, x)
<1>5. ASSUME x = Done(r, "error"), Alone(r, x), ~At(r, "drop"),
             UNCHANGED <<stores, cache>>
      PROVE  Fine
  <2>1. Ends(x, "error") /\ SameAsk(x, y) /\ SameFind(x, y)
    BY <1>1, <1>5, Fields
  <2>2. x.pc # "idle"
    BY <2>1 DEF Ends
  <2> QED
    BY <1>5, <2>1, <2>2 DEF Did, Fails
<1>6. ASSUME ReadNode(r) PROVE Fine
  <2>1. y.pc = "read" /\ UNCHANGED <<stores, cache>> /\ y.op \in Ops \cup {"none"}
        /\ y.op \in {"get", "versioning", "lock"}
    BY <1>1, <1>6 DEF ReadNode, At, AtStep, Request
  <2>2. CASE Nodes = {} /\ Step(r, NotFound(r))
    <3>1. CASE kind \in {"cors", "tags"}
      <4>1. x = Done(r, "ok") /\ Alone(r, x) /\ y.op = "get"
        BY <1>2, <2>1, <2>2, <3>1 DEF NotFound, Ops
      <4>2. Ends(x, "ok") /\ SameAsk(x, y) /\ SameFind(x, y)
        BY <1>1, <4>1, Fields
      <4>3. x.pc # "idle"
        BY <4>2 DEF Ends
      <4> QED
        BY <2>1, <2>2, <4>1, <4>2, <4>3 DEF Did, Reads, At
    <3>2. CASE kind \notin {"cors", "tags"}
      <4>1. x = [y EXCEPT !.pc = "fill", !.val = Nothing] /\ Alone(r, x)
        BY <1>2, <2>2, <3>2 DEF NotFound
      <4>2. /\ x.pc = "fill" /\ x.val = Nothing /\ SameAsk(x, y)
            /\ SameFind(x, y)
        BY <1>1, <4>1 DEF Request, SameAsk, SameFind
      <4> QED
        BY <2>1, <2>2, <4>1, <4>2 DEF Did, Reads, At
    <3> QED
      BY <3>1, <3>2
  <2>3. ASSUME NEW n \in Nodes, Nodes = {n},
               Step(r, [y EXCEPT !.val = nodes[n],
                                 !.pc = IF InObject THEN "get" ELSE "fill"])
        PROVE  Fine
    <3>1. /\ x = [y EXCEPT !.val = nodes[n],
                           !.pc = IF InObject THEN "get" ELSE "fill"]
          /\ Alone(r, x)
      BY <1>2, <2>3
    <3>2. /\ x.pc \in {"get", "fill"} /\ x.val = nodes[n] /\ SameAsk(x, y)
          /\ SameFind(x, y)
      BY <1>1, <3>1 DEF Request, SameAsk, SameFind
    <3> QED
      BY <2>1, <2>3, <3>1, <3>2 DEF Did, Reads, At
  <2>4. CASE RefusesTwins(r)
    BY <1>2, <1>5, <2>1, <2>4 DEF RefusesTwins, At
  <2> QED
    BY <1>6, <2>2, <2>3, <2>4 DEF ReadNode
<1>7. ASSUME GetObject(r) PROVE Fine
  <2>1. y.pc = "get" /\ UNCHANGED <<stores, cache>>
    BY <1>7 DEF GetObject, At
  <2>2. (x = To(r, "fill") \/ x = Done(r, "error")) /\ Alone(r, x)
    BY <1>2, <1>7 DEF GetObject
  <2>3. CASE x = To(r, "fill")
    <3>1. x.pc = "fill" /\ SameAsk(x, y) /\ SameFind(x, y) /\ x.val = y.val
      BY <1>1, <2>3, Fields
    <3> QED
      BY <2>1, <2>2, <3>1 DEF Did, Gets, At
  <2> QED
    BY <1>5, <2>1, <2>2, <2>3 DEF At
<1>8. ASSUME Fill(r) PROVE Fine
  <2>1. y.pc = "fill" /\ UNCHANGED stores /\ cache' = y.val
    BY <1>8 DEF Fill, At
  <2>2. CASE y.op = "get"
    <3>1. x = Done(r, "ok") /\ Alone(r, x)
      BY <1>2, <1>8, <2>2 DEF Fill
    <3>2. Ends(x, "ok") /\ SameAsk(x, y) /\ SameFind(x, y)
      BY <1>1, <3>1, Fields
    <3>3. x.pc # "idle"
      BY <3>2 DEF Ends
    <3> QED
      BY <2>1, <2>2, <3>1, <3>2, <3>3 DEF Did, Fills, At
  <2>3. CASE y.op # "get"
    <3>1. /\ x = [y EXCEPT !.pc = "find", !.val = Changed(r, y.op, y.val)]
          /\ Alone(r, x)
      BY <1>2, <1>8, <2>3 DEF Fill
    <3>2. /\ x.pc = "find" /\ x.val = Changed(r, y.op, y.val)
          /\ SameAsk(x, y) /\ SameFind(x, y)
      BY <1>1, <3>1 DEF Request, SameAsk, SameFind
    <3> QED
      BY <2>1, <2>3, <3>1, <3>2 DEF Did, Fills, At
  <2> QED
    BY <2>2, <2>3
<1>9. ASSUME PutObject(r) PROVE Fine
  <2>1. /\ y.pc = "put" /\ UNCHANGED <<nodes, cache>>
        /\ objects' = objects \cup {r}
        /\ x = To(r, "find") \/ x = Done(r, "error")
        /\ Alone(r, x)
    BY <1>2, <1>9 DEF PutObject, At
  <2>2. /\ SameAsk(x, y) /\ SameFind(x, y)
        /\ (x.pc = "find" /\ x.val = y.val) \/ Ends(x, "error")
    BY <1>1, <2>1, Fields
  <2>3. x.pc # "idle"
    BY <2>2 DEF Ends
  <2> QED
    BY <2>1, <2>2, <2>3 DEF Did, Puts, At
<1>10. ASSUME FindNode(r) PROVE Fine
  <2>1. y.pc = "find" /\ UNCHANGED <<stores, cache>> /\ y.node = None
    BY <1>1, <1>10 DEF FindNode, At, AtStep
  <2>2. CASE Nodes = {} /\ Step(r, NothingFound(r))
    <3>1. /\ Alone(r, x)
          /\ \/ x = To(r, "write") /\ y.op # "delete"
             \/ x = To(r, "cache") /\ y.op = "delete"
             \/ x = Done(r, "ok") /\ y.op = "delete"
      BY <1>2, <2>2 DEF NothingFound
    <3>2. /\ SameAsk(x, y) /\ SameFind(x, y)
          /\ \/ x.pc = "write" /\ y.op # "delete"
             \/ x.pc = "cache" /\ y.op = "delete"
             \/ Ends(x, "ok") /\ y.op = "delete"
      BY <1>1, <3>1, Fields
    <3>3. x.val = y.val
      BY <1>1, <3>1 DEF To, Done, Request
    <3>4. x.pc # "idle" /\ x.node = None
      BY <2>1, <3>2 DEF Ends, SameFind
    <3>5. Finds(r, x)
      BY <2>1, <2>2, <3>2, <3>3, <3>4 DEF Finds, At
    <3> QED
      BY <3>1, <3>2, <3>4, <3>5 DEF Did
  <2>3. ASSUME NEW n \in Nodes, Nodes = {n},
               Step(r, [y EXCEPT !.node = n, !.was = nodes[n],
                          !.pc = IF y.op = "delete" THEN "remove" ELSE "write"])
        PROVE  Fine
    <3>1. /\ x = [y EXCEPT !.node = n, !.was = nodes[n],
                    !.pc = IF y.op = "delete" THEN "remove" ELSE "write"]
          /\ Alone(r, x)
      BY <1>2, <2>3
    <3>2. /\ x.pc \in {"write", "remove"} /\ x.val = y.val /\ SameAsk(x, y)
          /\ x.node = n /\ x.was = nodes[n]
      BY <1>1, <3>1 DEF Request, SameAsk
    <3> QED
      BY <2>1, <2>3, <3>1, <3>2 DEF Did, Finds, At
  <2>4. CASE RefusesTwins(r)
    BY <1>2, <1>5, <2>1, <2>4 DEF RefusesTwins, At
  <2> QED
    BY <1>10, <2>2, <2>3, <2>4 DEF FindNode
<1>11. ASSUME WriteNode(r) PROVE Fine
  <2>1. y.pc = "write" /\ UNCHANGED <<objects, cache>>
    BY <1>11 DEF WriteNode, At
  <2>2. CASE /\ nodes' = [nodes EXCEPT ![Target(r)] = y.val]
             /\ Replied(r, Written(r))
    <3>1. /\ Alone(r, x)
          /\ \/ x = To(r, "drop")
             \/ x = To(r, "cache") /\ ~(InObject /\ y.node # None)
             \/ x = Done(r, "error") /\ faults' # 0
      BY <1>2, <2>2 DEF Written
    <3>2. /\ SameAsk(x, y) /\ SameFind(x, y)
          /\ \/ x.pc = "drop" /\ x.val = y.val
             \/ /\ x.pc = "cache" /\ x.val = y.val
                /\ ~(InObject /\ y.node # None)
             \/ FailsAfter(x)
      BY <1>1, <3>1, Fields DEF FailsAfter
    <3>3. x.pc # "idle"
      BY <3>2 DEF Ends, FailsAfter
    <3> QED
      BY <2>1, <2>2, <3>1, <3>2, <3>3 DEF Did, WritesNode, At
  <2>3. CASE Step(r, Done(r, "error")) /\ UNCHANGED nodes
    BY <1>2, <1>5, <2>1, <2>3 DEF At, stores
  <2> QED
    BY <1>11, <2>2, <2>3 DEF WriteNode, Target
<1>12. ASSUME RemoveNode(r) PROVE Fine
  <2>1. y.pc = "remove" /\ UNCHANGED <<objects, cache>>
    BY <1>12 DEF RemoveNode, At
  <2>2. CASE /\ nodes' = [nodes EXCEPT ![y.node] = None]
             /\ Replied(r, Removed(r))
    <3>1. /\ Alone(r, x)
          /\ \/ x = To(r, "drop")
             \/ x = Done(r, "ok") /\ kind = "tags"
             \/ x = Done(r, "error") /\ faults' # 0
      BY <1>2, <2>2 DEF Removed
    <3>2. /\ SameAsk(x, y) /\ SameFind(x, y)
          /\ x.pc = "drop" \/ (Ends(x, "ok") /\ kind = "tags") \/ FailsAfter(x)
      BY <1>1, <3>1, Fields DEF FailsAfter
    <3>3. x.pc # "idle"
      BY <3>2 DEF Ends, FailsAfter
    <3> QED
      BY <2>1, <2>2, <3>1, <3>2, <3>3 DEF Did, Removes, At
  <2>3. CASE Step(r, Done(r, "error")) /\ UNCHANGED nodes
    BY <1>2, <1>5, <2>1, <2>3 DEF At, stores
  <2> QED
    BY <1>12, <2>2, <2>3 DEF RemoveNode
<1>13. ASSUME DropObject(r) PROVE Fine
  <2>1. /\ y.pc = "drop" /\ UNCHANGED <<nodes, cache>> /\ Alone(r, x)
        /\ x = To(r, "cache") \/ x = Done(r, "error")
        /\ objects' \subseteq objects
        /\ faults' # 0 \/ y.was["conf"] \notin objects'
    BY <1>2, <1>13 DEF DropObject, At
  <2>2. /\ SameAsk(x, y) /\ SameFind(x, y)
        /\ (x.pc = "cache" /\ x.val = y.val) \/ Ends(x, "error")
    BY <1>1, <2>1, Fields
  <2>3. x.pc # "idle"
    BY <2>2 DEF Ends
  <2> QED
    BY <2>1, <2>2, <2>3 DEF Did, Drops, At
<1>14. ASSUME CacheWritten(r) PROVE Fine
  <2>1. /\ y.pc = "cache" /\ UNCHANGED stores /\ Alone(r, x)
        /\ x = Done(r, "ok")
        /\ cache' = IF y.op = "delete" THEN None ELSE y.val
    BY <1>2, <1>14 DEF CacheWritten, At
  <2>2. SameAsk(x, y) /\ SameFind(x, y) /\ Ends(x, "ok")
    BY <1>1, <2>1, Fields
  <2>3. x.pc # "idle"
    BY <2>2 DEF Ends
  <2> QED
    BY <2>1, <2>2, <2>3 DEF Did, Caches, At
<1> QED
  BY <1>6, <1>7, <1>8, <1>9, <1>10, <1>11, <1>12, <1>13, <1>14
  DEF RequestStep

LEMMA FailureDoes ==
  ASSUME IInv, NEW r \in Requests, CallFails(r)
  PROVE  Handled(r, req'[r])
<1>1. req[r] \in Request /\ req \in [Requests -> Request]
  BY OneRequest
<1>2. /\ req[r].pc \in {"read", "get", "put", "find", "write", "remove"}
      /\ req'[r] = Done(r, "error") /\ Alone(r, req'[r])
      /\ UNCHANGED <<stores, cache>>
  BY <1>1 DEF CallFails, Fault, Alone
<1>3. /\ Ends(req'[r], "error") /\ SameAsk(req'[r], req[r])
      /\ SameFind(req'[r], req[r])
  BY <1>1, <1>2, Fields
<1>4. req'[r].pc # "idle"
  BY <1>3 DEF Ends
<1> QED
  BY <1>2, <1>3, <1>4 DEF Handled, Active, Did, Fails, At

LEMMA BeginDoes ==
  ASSUME IInv, NEW r \in Requests, BeginStep(r)
  PROVE  Begun(r, req'[r])
<1> PICK x : x = req'[r]
  OBVIOUS
<1> SUFFICES Begun(r, x)
  OBVIOUS
<1>1. req \in [Requests -> Request]
  BY OneRequest
<1>2. ASSUME NEW op, NEW next, Begin(r, op, next)
      PROVE  /\ At(r, "idle") /\ Alone(r, x) /\ UNCHANGED stores /\ op \in Ops
             /\ x = [next EXCEPT !.op = op, !.prior = Finished]
  BY <1>1, <1>2 DEF Begin, Step, Alone
<1>3. ASSUME NEW op, NEW p, Begin(r, op, [Idle EXCEPT !.pc = p])
      PROVE  /\ At(r, "idle") /\ Alone(r, x) /\ UNCHANGED stores /\ op \in Ops
             /\ x.op = op /\ x.pc = p /\ x.node = None /\ x.prior = Finished
  <2>1. x = [[Idle EXCEPT !.pc = p] EXCEPT !.op = op, !.prior = Finished]
    BY <1>2, <1>3
  <2>2. x.op = op /\ x.pc = p /\ x.node = None /\ x.prior = Finished
    BY <2>1 DEF Idle
  <2> QED
    BY <1>2, <1>3, <2>2
<1>4. ASSUME NEW op, NEW p, NEW v, Begin(r, op, [Idle EXCEPT !.pc = p, !.val = v])
      PROVE  /\ At(r, "idle") /\ Alone(r, x) /\ UNCHANGED stores /\ op \in Ops
             /\ x.op = op /\ x.pc = p /\ x.node = None /\ x.prior = Finished
             /\ x.val = v
  <2>1. x = [[Idle EXCEPT !.pc = p, !.val = v]
               EXCEPT !.op = op, !.prior = Finished]
    BY <1>2, <1>4
  <2>2. /\ x.op = op /\ x.pc = p /\ x.node = None /\ x.prior = Finished
        /\ x.val = v
    BY <2>1 DEF Idle
  <2> QED
    BY <1>2, <1>4, <2>2
<1>5. CASE BeginCreate(r)
  <2>1. /\ \A q \in Requests : At(q, "idle")
        /\ Begin(r, "create", [Idle EXCEPT !.pc = "find",
                                 !.val = Changed(r, "create", Nothing)])
        /\ cache' = cache
    BY <1>5 DEF BeginCreate
  <2>2. /\ At(r, "idle") /\ Alone(r, x) /\ UNCHANGED stores /\ "create" \in Ops
        /\ x.op = "create" /\ x.pc = "find" /\ x.node = None /\ x.prior = Finished
        /\ x.val = Changed(r, "create", Nothing)
    BY <1>4, <2>1
  <2> QED
    BY <2>1, <2>2 DEF Begun
<1>6. CASE BeginChange(r)
  <2>1. PICK op \in {"versioning", "lock"} :
          Begin(r, op, IF cache = None THEN [Idle EXCEPT !.pc = "read"]
                       ELSE [Idle EXCEPT !.pc = "find",
                                         !.val = Changed(r, op, cache)])
    BY <1>6 DEF BeginChange
  <2>2. cache' = cache
    BY <1>6 DEF BeginChange
  <2>3. CASE cache = None
    <3>1. Begin(r, op, [Idle EXCEPT !.pc = "read"])
      BY <2>1, <2>3
    <3>2. /\ At(r, "idle") /\ Alone(r, x) /\ UNCHANGED stores /\ op \in Ops
          /\ x.op = op /\ x.pc = "read" /\ x.node = None /\ x.prior = Finished
      BY <1>3, <3>1
    <3> QED
      BY <2>1, <2>2, <3>2 DEF Begun
  <2>4. CASE cache # None
    <3>1. Begin(r, op, [Idle EXCEPT !.pc = "find", !.val = Changed(r, op, cache)])
      BY <2>1, <2>4
    <3>2. /\ At(r, "idle") /\ Alone(r, x) /\ UNCHANGED stores /\ op \in Ops
          /\ x.op = op /\ x.pc = "find" /\ x.node = None /\ x.prior = Finished
          /\ x.val = Changed(r, op, cache)
      BY <1>4, <3>1
    <3> QED
      BY <2>1, <2>2, <2>4, <3>2 DEF Begun
  <2> QED
    BY <2>3, <2>4
<1>7. CASE BeginPut(r)
  <2>1. PICK p \in {"put", "find"} :
          Begin(r, "put", [Idle EXCEPT !.pc = p, !.val = [i \in Parts |-> r]])
    BY <1>7 DEF BeginPut
  <2>2. cache' = cache
    BY <1>7 DEF BeginPut
  <2>3. /\ At(r, "idle") /\ Alone(r, x) /\ UNCHANGED stores /\ "put" \in Ops
        /\ x.op = "put" /\ x.pc = p /\ x.node = None /\ x.prior = Finished
        /\ x.val = [i \in Parts |-> r]
    BY <1>4, <2>1
  <2> QED
    BY <2>1, <2>2, <2>3 DEF Begun
<1>8. CASE BeginDelete(r)
  <2>1. Begin(r, "delete", [Idle EXCEPT !.pc = "find"])
    BY <1>8 DEF BeginDelete
  <2>2. cache' = IF kind = "tags" THEN None ELSE cache
    BY <1>8 DEF BeginDelete
  <2>3. /\ At(r, "idle") /\ Alone(r, x) /\ UNCHANGED stores /\ "delete" \in Ops
        /\ x.op = "delete" /\ x.pc = "find" /\ x.node = None /\ x.prior = Finished
    BY <1>3, <2>1
  <2> QED
    BY <2>1, <2>2, <2>3 DEF Begun
<1>9. CASE BeginGet(r)
  <2>1. cache' = cache
    BY <1>9 DEF BeginGet
  <2>2. CASE cache = None
    <3>1. Begin(r, "get", [Idle EXCEPT !.pc = "read"])
      BY <1>9, <2>2 DEF BeginGet
    <3>2. /\ At(r, "idle") /\ Alone(r, x) /\ UNCHANGED stores /\ "get" \in Ops
          /\ x.op = "get" /\ x.pc = "read" /\ x.node = None /\ x.prior = Finished
      BY <1>3, <3>1
    <3> QED
      BY <2>1, <3>2 DEF Begun
  <2>3. CASE cache # None
    <3>1. Begin(r, "get", [Idle EXCEPT !.pc = "done", !.val = cache, !.res = "ok"])
      BY <1>9, <2>3 DEF BeginGet
    <3>2. x = [[Idle EXCEPT !.pc = "done", !.val = cache, !.res = "ok"]
                 EXCEPT !.op = "get", !.prior = Finished]
      BY <1>2, <3>1
    <3>3. /\ x.op = "get" /\ x.pc = "done" /\ x.node = None
          /\ x.prior = Finished
      BY <3>2 DEF Idle
    <3>4. At(r, "idle") /\ Alone(r, x) /\ UNCHANGED stores /\ "get" \in Ops
      BY <1>2, <3>1
    <3> QED
      BY <2>1, <3>3, <3>4 DEF Begun
  <2> QED
    BY <2>2, <2>3
<1> QED
  BY <1>5, <1>6, <1>7, <1>8, <1>9 DEF BeginStep

LEMMA CrashDoes ==
  ASSUME IInv, Crash
  PROVE  Crashed
<1>1. UNCHANGED stores /\ cache' = None /\ faults' # 0
  BY DEF Crash, stores, IInv, TypeOK
<1>2. ASSUME NEW q \in Requests
      PROVE  \/ ~Active(q) /\ req'[q] = req[q]
             \/ /\ Active(q) /\ SameAsk(req'[q], req[q])
                /\ Ends(req'[q], "crashed") /\ SameFind(req'[q], req[q])
  <2>1. req'[q] = IF Active(q) THEN Done(q, "crashed") ELSE req[q]
    BY DEF Crash
  <2>2. /\ Ends(Done(q, "crashed"), "crashed")
        /\ SameAsk(Done(q, "crashed"), req[q])
        /\ SameFind(Done(q, "crashed"), req[q])
    BY Fields, OneRequest
  <2> QED
    BY <2>1, <2>2
<1> QED
  BY <1>1, <1>2 DEF Crashed

LEMMA AnsweredKeeps ==
  ASSUME IInv, Answered, [Next]_vars
  PROVE  Answered'
<1> DEFINE Fine(z) == z.res = "ok" => z.pc = "done"
<1>1. /\ req \in [Requests -> Request]
      /\ \A q \in Requests : req[q] \in Request /\ Fine(req[q])
  BY DEF IInv, TypeOK, Answered, Acked, At
<1>2. ASSUME NEW r \in Requests, NEW z, Fine(z), req' = [req EXCEPT ![r] = z]
      PROVE  Answered'
  BY <1>1, <1>2 DEF Answered, Acked, At
<1>3. ASSUME NEW r \in Requests
      PROVE  /\ \A e : Fine(Done(r, e))
             /\ ~At(r, "done") =>
                  /\ \A p : Fine(To(r, p))
                  /\ \A p, v : Fine([req[r] EXCEPT !.pc = p, !.val = v])
                  /\ \A p, n, v : Fine([req[r] EXCEPT !.node = n, !.was = v,
                                         !.pc = p])
  BY <1>1 DEF Done, To, Request, At
<1>4. ASSUME NEW r \in Requests, NEW z,
             Step(r, z) \/ Fault(r, z) \/ Replied(r, z), Fine(z)
      PROVE  Answered'
  BY <1>2, <1>3, <1>4 DEF Step, Fault, Replied
<1>5. ASSUME NEW r \in Requests, BeginStep(r) PROVE Answered'
  <2>1. \A op, next : Begin(r, op, next) =>
          req' = [req EXCEPT ![r] = [next EXCEPT !.op = op, !.prior = Finished]]
    BY DEF Begin, Step
  <2>2. ASSUME NEW op, NEW p, NEW v
        PROVE  /\ Fine([[Idle EXCEPT !.pc = p]
                          EXCEPT !.op = op, !.prior = Finished])
               /\ Fine([[Idle EXCEPT !.pc = p, !.val = v]
                          EXCEPT !.op = op, !.prior = Finished])
               /\ Fine([[Idle EXCEPT !.pc = "done", !.val = v, !.res = "ok"]
                          EXCEPT !.op = op, !.prior = Finished])
    BY DEF Idle
  <2> HIDE DEF Fine
  <2>3. ASSUME NEW op, NEW next, Begin(r, op, next),
               Fine([next EXCEPT !.op = op, !.prior = Finished])
        PROVE  Answered'
    BY <1>2, <2>1, <2>3
  <2>5. ASSUME NEW op, NEW p, Begin(r, op, [Idle EXCEPT !.pc = p])
        PROVE  Answered'
    BY <2>2, <2>3, <2>5
  <2>6. ASSUME NEW op, NEW p, NEW v,
               Begin(r, op, [Idle EXCEPT !.pc = p, !.val = v])
        PROVE  Answered'
    BY <2>2, <2>3, <2>6
  <2>7. ASSUME NEW op, NEW v,
               Begin(r, op, [Idle EXCEPT !.pc = "done", !.val = v, !.res = "ok"])
        PROVE  Answered'
    BY <2>2, <2>3, <2>7
  <2>4. \/ \E op, p : Begin(r, op, [Idle EXCEPT !.pc = p])
        \/ \E op, p, v : Begin(r, op, [Idle EXCEPT !.pc = p, !.val = v])
        \/ \E op, v : Begin(r, op, [Idle EXCEPT !.pc = "done", !.val = v,
                                               !.res = "ok"])
    BY <1>5 DEF BeginStep, BeginCreate, BeginChange, BeginPut, BeginDelete,
       BeginGet
  <2> QED
    BY <2>4, <2>5, <2>6, <2>7
<1>6. ASSUME NEW r \in Requests, RequestStep(r) PROVE Answered'
  <2>1. ~At(r, "done")
    BY <1>6 DEF RequestStep, ReadNode, GetObject, Fill, PutObject, FindNode,
       WriteNode, RemoveNode, DropObject, CacheWritten, At
  <2> HIDE DEF Fine
  <2>2. CASE ReadNode(r)
    <3>1. CASE Step(r, NotFound(r))
      BY <1>3, <1>4, <2>1, <3>1 DEF NotFound
    <3>2. ASSUME NEW n \in Nodes, NEW p,
                 Step(r, [req[r] EXCEPT !.val = nodes[n], !.pc = p])
          PROVE  Answered'
      <4>1. [req[r] EXCEPT !.val = nodes[n], !.pc = p]
              = [req[r] EXCEPT !.pc = p, !.val = nodes[n]]
        BY <1>1 DEF Request
      <4>2. Fine([req[r] EXCEPT !.val = nodes[n], !.pc = p])
        BY <1>3, <2>1, <4>1
      <4> QED
        BY <1>4, <3>2, <4>2
    <3>3. CASE Step(r, Done(r, "error"))
      BY <1>3, <1>4, <3>3
    <3> QED
      BY <2>2, <3>1, <3>2, <3>3 DEF ReadNode, RefusesTwins
  <2>3. CASE GetObject(r)
    BY <1>3, <1>4, <2>1, <2>3 DEF GetObject
  <2>4. CASE Fill(r)
    BY <1>3, <1>4, <2>1, <2>4 DEF Fill
  <2>5. CASE PutObject(r)
    BY <1>3, <1>4, <2>1, <2>5 DEF PutObject
  <2>6. CASE FindNode(r)
    BY <1>3, <1>4, <2>1, <2>6 DEF FindNode, RefusesTwins, NothingFound
  <2>7. CASE WriteNode(r)
    BY <1>3, <1>4, <2>1, <2>7 DEF WriteNode, Written
  <2>8. CASE RemoveNode(r)
    BY <1>3, <1>4, <2>1, <2>8 DEF RemoveNode, Removed
  <2>9. CASE DropObject(r)
    BY <1>3, <1>4, <2>1, <2>9 DEF DropObject
  <2>10. CASE CacheWritten(r)
    BY <1>3, <1>4, <2>1, <2>10 DEF CacheWritten
  <2> QED
    BY <1>6, <2>2, <2>3, <2>4, <2>5, <2>6, <2>7, <2>8, <2>9, <2>10
    DEF RequestStep
<1>7. ASSUME NEW r \in Requests, CallFails(r) PROVE Answered'
  BY <1>3, <1>4, <1>7 DEF CallFails
<1>8. CASE Crash
  <2>1. \A r \in Requests : Fine(Done(r, "crashed"))
    BY <1>3
  <2>2. \A r \in Requests : Fine(req'[r])
    BY <1>1, <1>8, <2>1 DEF Crash
  <2> QED
    BY <2>2 DEF Answered, Acked, At
<1>9. CASE Expire \/ UNCHANGED vars
  BY <1>9 DEF Expire, vars, Answered, Acked, At
<1> QED
  BY <1>5, <1>6, <1>7, <1>8, <1>9 DEF Next

LEMMA NextDoes ==
  ASSUME IInv, [Next]_vars
  PROVE  AnyStep
<1>1. IInv'
  BY NextKeeps
<1>2. kind' = kind /\ (faults' = 0 => faults = 0)
  <2>1. ASSUME NEW r \in Requests, NEW z
        PROVE  /\ Step(r, z) => kind' = kind /\ faults' = faults
               /\ Fault(r, z) => kind' = kind /\ faults' # 0
               /\ Replied(r, z) => kind' = kind /\ (faults' = 0 => faults = 0)
    BY DEF Step, Fault, Replied, IInv, TypeOK
  <2>2. ASSUME NEW r \in Requests, BeginStep(r) PROVE kind' = kind /\ faults' = faults
    BY <2>1, <2>2 DEF BeginStep, BeginCreate, BeginChange, BeginPut,
       BeginDelete, BeginGet, Begin
  <2>3. ASSUME NEW r \in Requests, RequestStep(r)
        PROVE  kind' = kind /\ (faults' = 0 => faults = 0)
    BY <2>1, <2>3 DEF RequestStep, ReadNode, RefusesTwins, GetObject, Fill,
       PutObject, FindNode, WriteNode, RemoveNode, DropObject, CacheWritten
  <2>4. ASSUME NEW r \in Requests, CallFails(r) PROVE kind' = kind /\ faults' # 0
    BY <2>1, <2>4 DEF CallFails
  <2>5. Crash => kind' = kind /\ faults' # 0
    BY DEF Crash, IInv, TypeOK
  <2>6. Expire \/ UNCHANGED vars => kind' = kind /\ faults' = faults
    BY DEF Expire, vars
  <2> QED
    BY <2>2, <2>3, <2>4, <2>5, <2>6 DEF Next
<1>3. Expire \/ UNCHANGED vars => Rested
  BY DEF Expire, vars, Rested
<1> QED
  BY <1>1, <1>2, <1>3, AnsweredKeeps, HandlerDoes, FailureDoes, BeginDoes,
     CrashDoes
  DEF Next, AnyStep

---------------------------------------------------------------------------
(* What a crash leaves of an active request.                               *)
CutShort(q) ==
  /\ Active(q) /\ SameAsk(req'[q], req[q]) /\ Ends(req'[q], "crashed")
  /\ SameFind(req'[q], req[q]) /\ UNCHANGED stores /\ cache' = None
  /\ faults' # 0

LEMMA PerRequest ==
  ASSUME AnyStep, NEW q \in Requests
  PROVE  \/ req'[q] = req[q]
         \/ Handled(q, req'[q])
         \/ Begun(q, req'[q])
         \/ CutShort(q)
<1>1. ASSUME NEW r \in Requests, Handled(r, req'[r]) \/ Begun(r, req'[r])
      PROVE  q = r \/ req'[q] = req[q]
  BY <1>1 DEF Handled, Begun, Alone
<1>2. Crashed => CutShort(q) \/ req'[q] = req[q]
  BY DEF Crashed, CutShort
<1> QED
  BY <1>1, <1>2 DEF AnyStep, Rested

(* What a request that began keeps.                                        *)
LEMMA Steady ==
  ASSUME AnyStep, NEW q \in Requests, Began(q)
  PROVE  /\ Began(q)' /\ SameAsk(req'[q], req[q])
         /\ At(q, "done") => req'[q] = req[q]
         /\ HasWritten(q) => HasWritten(q)'
         /\ req[q].node # None => SameFind(req'[q], req[q])
<1>1. AtStep(q, req[q])
  BY OneRequest DEF AnyStep
<1>2. CASE req'[q] = req[q]
  BY <1>2 DEF Began, At, SameAsk, SameFind, HasWritten
<1>3. CASE Handled(q, req'[q])
  <2>1. /\ Active(q) /\ SameAsk(req'[q], req[q]) /\ req'[q].pc # "idle"
        /\ Did(q, req'[q])
    BY <1>3 DEF Handled
  <2>2. ~At(q, "done")
    BY <2>1 DEF Active, At
  <2>3. ASSUME HasWritten(q) PROVE HasWritten(q)'
    BY <2>1, <2>2, <2>3 DEF Did, Fails, Reads, Gets, Fills, Puts, Finds, WritesNode,
       Removes, Drops, Caches, At, HasWritten, Ends
  <2>4. ASSUME req[q].node # None PROVE SameFind(req'[q], req[q])
    <3>1. ~At(q, "find")
      BY <1>1, <2>4 DEF AtStep, At
    <3> QED
      BY <2>1, <3>1 DEF Did, Fails, Reads, Gets, Fills, Puts, Finds,
         WritesNode, Removes, Drops, Caches
  <2> QED
    BY <2>1, <2>2, <2>3, <2>4 DEF Began, At
<1>4. CASE Begun(q, req'[q])
  BY <1>4 DEF Begun, Began
<1>5. CASE CutShort(q)
  BY <1>5 DEF CutShort, Active, Began, At, HasWritten, Ends
<1> QED
  BY <1>2, <1>3, <1>4, <1>5, PerRequest

(* A request that did not begin has done and found nothing.                *)
LEMMA Unbegun ==
  ASSUME IInv, NEW q \in Requests, ~Began(q)
  PROVE  /\ req[q].op = "none" /\ req[q].prior = {} /\ req[q].node = None
         /\ req[q].res = "none"
BY OneRequest DEF Began, At, AtStep, Idle

(* So it still overlaps what it overlapped, and comes after what it did.   *)
LEMMA SameOrder ==
  ASSUME AnyStep, NEW q \in Requests, NEW r \in Requests, Began(q), Began(r)
  PROVE  /\ Overlap(q, r)' = Overlap(q, r)
         /\ q \in Later(r)' <=> q \in Later(r)
BY Steady DEF Overlap, Later, SameAsk

LEMMA StillOverlapped ==
  ASSUME AnyStep, NEW r \in Requests, Began(r), Overlapped(r)
  PROVE  Overlapped(r)'
<1>1. PICK q \in Requests \ {r} : req[q].op # "none" /\ Overlap(q, r)
  BY DEF Overlapped
<1>2. Began(q)
  BY <1>1, Unbegun DEF AnyStep
<1>3. Overlap(q, r)' /\ req'[q].op = req[q].op
  BY <1>1, <1>2, SameOrder, Steady DEF SameAsk
<1> QED
  BY <1>1, <1>3 DEF Overlapped

LEMMA StillSets ==
  ASSUME AnyStep, NEW r \in Requests, Began(r)
  PROVE  /\ Writes(r)' = Writes(r) /\ req'[r].op = req[r].op
         /\ \A p : Sets(r, p)' = Sets(r, p)
<1>1. req'[r].op = req[r].op
  BY Steady DEF SameAsk
<1>2. kind' = kind /\ Parts' = Parts
  BY SameKind DEF AnyStep
<1>3. PartsSetBy(req[r].op)' = PartsSetBy(req[r].op)
  BY <1>1, <1>2 DEF PartsSetBy
<1> QED
  BY <1>1, <1>3 DEF Writes, Sets

LEMMA StillLater ==
  ASSUME AnyStep, NEW r \in Requests, NEW q \in Later(r)
  PROVE  /\ q \in Requests /\ Began(q) /\ q \in Later(r)'
         /\ req'[q].op = req[q].op /\ \A p : Sets(q, p)' = Sets(q, p)
<1>1. q \in Requests /\ r \in req[q].prior
  BY DEF Later
<1>2. Began(q)
  BY <1>1, Unbegun DEF AnyStep
<1> QED
  BY <1>1, <1>2, Steady, StillSets DEF Later, SameAsk

---------------------------------------------------------------------------
(* The nodes change only in the steps that write or remove one.            *)
LEMMA NodeSteps ==
  ASSUME AnyStep
  PROVE  \/ nodes' = nodes
         \/ \E w \in Requests : Handled(w, req'[w]) /\ WritesNode(w, req'[w])
         \/ \E w \in Requests : Handled(w, req'[w]) /\ Removes(w, req'[w])
<1>1. ASSUME NEW w \in Requests, Handled(w, req'[w]), nodes' # nodes
      PROVE  WritesNode(w, req'[w]) \/ Removes(w, req'[w])
  <2>1. Did(w, req'[w])
    BY <1>1 DEF Handled
  <2> QED
    BY <1>1, <2>1 DEF Did, Fails, Reads, Gets, Fills, Puts, Finds, Drops,
       Caches, stores
<1>2. ASSUME NEW w \in Requests, Begun(w, req'[w]) PROVE nodes' = nodes
  BY <1>2 DEF Begun, stores
<1>3. Crashed \/ Rested => nodes' = nodes
  BY DEF Crashed, Rested, stores
<1> QED
  BY <1>1, <1>2, <1>3 DEF AnyStep

LEMMA Writing ==
  ASSUME AnyStep, NEW w \in Requests, Handled(w, req'[w]),
         WritesNode(w, req'[w])
  PROVE  /\ Target(w) \in Requests /\ req[w].val \in Contents
         /\ req[w].val # None /\ At(w, "write")
         /\ req[w].op \notin {"none", "get", "delete"}
         /\ nodes'[Target(w)] = req[w].val
         /\ \A n \in Requests \ {Target(w)} : nodes'[n] = nodes[n]
         /\ Nodes' = Nodes \cup {Target(w)}
         /\ HasWritten(w)' /\ w \in WritersOf(Target(w))
         /\ SameFind(req'[w], req[w])
<1>1. /\ req[w] \in Request /\ AtStep(w, req[w])
      /\ nodes \in [Requests -> Contents \cup {None}]
  BY OneRequest DEF AnyStep
<1>2. /\ At(w, "write") /\ SameFind(req'[w], req[w])
      /\ nodes' = [nodes EXCEPT ![Target(w)] = req[w].val]
      /\ req'[w].pc \in {"drop", "cache", "done"}
  BY DEF WritesNode, FailsAfter, Ends
<1>3. /\ req[w].op \notin {"none", "get", "delete"} /\ req[w].val \in Contents
  BY <1>1, <1>2 DEF At, AtStep
<1>4. Target(w) \in Requests
  BY <1>1 DEF Target, Request
<1>5. None \notin Contents
  <2>1. Parts = {"conf"} \/ Parts = {"versioning", "lock"}
    BY DEF Parts
  <2> QED
    BY <2>1, NoneIsNoConfiguration DEF Contents
<1>6. /\ nodes'[Target(w)] = req[w].val
      /\ \A n \in Requests \ {Target(w)} : nodes'[n] = nodes[n]
  BY <1>1, <1>2, <1>4
<1>7. Nodes' = Nodes \cup {Target(w)}
  BY <1>3, <1>4, <1>5, <1>6 DEF Nodes
<1>8. w \in WritersOf(Target(w))
  BY <1>3 DEF WritersOf, Target
<1> QED
  BY <1>2, <1>3, <1>4, <1>5, <1>6, <1>7, <1>8 DEF HasWritten

LEMMA Removing ==
  ASSUME AnyStep, NEW w \in Requests, Handled(w, req'[w]),
         Removes(w, req'[w])
  PROVE  /\ req[w].node \in Requests /\ At(w, "remove")
         /\ req[w].op = "delete"
         /\ \A n \in Requests \ {req[w].node} : nodes'[n] = nodes[n]
         /\ Nodes' = Nodes \ {req[w].node}
         /\ \A n \in Nodes' : nodes'[n] = nodes[n]
<1>1. /\ req[w] \in Request /\ AtStep(w, req[w])
      /\ nodes \in [Requests -> Contents \cup {None}]
  BY OneRequest DEF AnyStep
<1>2. At(w, "remove") /\ nodes' = [nodes EXCEPT ![req[w].node] = None]
  BY DEF Removes
<1>3. req[w].node \in Requests /\ req[w].op = "delete"
  BY <1>1, <1>2 DEF AtStep, At, Request
<1>4. /\ nodes'[req[w].node] = None
      /\ \A n \in Requests \ {req[w].node} : nodes'[n] = nodes[n]
  BY <1>1, <1>2, <1>3
<1>5. Nodes' = Nodes \ {req[w].node}
  BY <1>3, <1>4 DEF Nodes
<1> QED
  BY <1>2, <1>3, <1>4, <1>5 DEF Nodes

---------------------------------------------------------------------------
(* Two nodes of one name.                                                  *)

(* The node a request carries is the one it found.                         *)
LEMMA Found ==
  ASSUME AnyStep, NEW r \in Requests, req'[r].node # None
  PROVE  \/ SameFind(req'[r], req[r])
         \/ /\ At(r, "find") /\ UNCHANGED nodes
            /\ Nodes = {req'[r].node} /\ req'[r].was = nodes[req'[r].node]
<1>1. CASE req'[r] = req[r]
  BY <1>1 DEF SameFind
<1>2. CASE Handled(r, req'[r])
  <2>1. Did(r, req'[r])
    BY <1>2 DEF Handled
  <2>2. CASE Finds(r, req'[r])
    BY <2>2 DEF Finds, stores
  <2>3. CASE ~Finds(r, req'[r])
    BY <2>1, <2>3 DEF Did, Fails, Reads, Gets, Fills, Puts, WritesNode,
       Removes, Drops, Caches
  <2> QED
    BY <2>2, <2>3
<1>3. CASE Begun(r, req'[r])
  BY <1>3 DEF Begun
<1>4. CASE CutShort(r)
  BY <1>4 DEF CutShort
<1> QED
  BY <1>1, <1>2, <1>3, <1>4, PerRequest

LEMMA InOrderKeeps ==
  ASSUME AnyStep, InOrder
  PROVE  InOrder'
<1>1. ASSUME NEW q \in Requests, HasWritten(q) PROVE HasWritten(q)'
  BY <1>1, Steady DEF HasWritten, Began, At
<1>2. ASSUME NEW n \in Nodes' PROVE HasWritten(n)'
  <2>1. n \in Requests
    BY <1>2 DEF Nodes
  <2>2. CASE n \in Nodes
    BY <1>1, <2>1, <2>2 DEF InOrder
  <2>3. CASE n \notin Nodes
    <3>1. PICK w \in Requests : Handled(w, req'[w]) /\ WritesNode(w, req'[w])
      <4>1. nodes' = nodes => Nodes' = Nodes
        BY DEF Nodes
      <4> QED
        BY <1>2, <2>3, <4>1, NodeSteps, Removing
    <3>2. n = Target(w) /\ HasWritten(w)'
      BY <1>2, <2>3, <3>1, Writing
    <3>3. req[w].node # None => HasWritten(req[w].node)
      BY DEF InOrder
    <3> QED
      BY <1>1, <2>1, <3>2, <3>3 DEF Target
  <2> QED
    BY <2>2, <2>3
<1>3. ASSUME NEW r \in Requests, req'[r].node # None
      PROVE  HasWritten(req[r].node)'
  <2>0. PICK n : n = req'[r].node
    OBVIOUS
  <2>1. n \in Requests
    <3>1. IInv'
      BY DEF AnyStep
    <3>2. n \in Requests \cup {None}
      BY <2>0, <3>1 DEF IInv, TypeOK, Request
    <3> QED
      BY <1>3, <2>0, <3>2
  <2>2. HasWritten(n)
    BY <1>3, <2>0, <2>1, Found DEF InOrder, SameFind
  <2>3. HasWritten(n)'
    BY <1>1, <2>1, <2>2
  <2> QED
    BY <2>0, <2>3 DEF HasWritten
<1>4. ASSUME NEW r \in Requests
      PROVE  /\ Began(r)' => req'[r].op # "none"
             /\ \A q \in req'[r].prior : At(q, "done") /\ q \in Requests
  <2>1. req[r] \in Request
    BY OneRequest DEF AnyStep
  <2>2. CASE Began(r)
    BY <2>1, <2>2, Steady DEF InOrder, SameAsk, Request
  <2>3. CASE ~Began(r)
    <3>1. req'[r] = req[r] \/ Begun(r, req'[r])
      BY <2>3, PerRequest DEF Handled, CutShort, Active, Began, At
    <3>2. CASE req'[r] = req[r]
      BY <2>1, <2>3, <3>2 DEF InOrder, Began, At, Request
    <3>3. CASE Begun(r, req'[r])
      BY <3>3 DEF Begun, Finished, At, Ops
    <3> QED
      BY <3>1, <3>2, <3>3
  <2> QED
    BY <2>2, <2>3
<1>5. ASSUME NEW q \in Requests, At(q, "done") PROVE At(q, "done")'
  BY <1>5, Steady DEF Began, At
<1>6. ASSUME NEW r \in Requests
      PROVE  /\ Began(r)' => req'[r].op # "none"
             /\ \A q \in req'[r].prior : At(q, "done")'
             /\ req'[r].node # None => HasWritten(req[r].node)'
  BY <1>3, <1>4, <1>5
<1> QED
  BY <1>2, <1>6 DEF InOrder, AnyStep

(* The writers of a node go on being that.                                 *)
LEMMA StillWriters ==
  ASSUME AnyStep, InOrder, NEW n \in Requests, HasWritten(n), NEW q \in WritersOf(n)
  PROVE  q \in Requests /\ Began(q) /\ q \in WritersOf(n)'
<1>1. CASE q = n
  BY <1>1 DEF WritersOf, HasWritten, Began, At
<1>2. CASE q # n
  <2>1. q \in Requests /\ req[q].node = n /\ req[q].op # "delete" /\ n # None
    BY <1>2, NoneIsNoRequest DEF WritersOf
  <2>2. Began(q)
    BY <2>1, Unbegun DEF AnyStep
  <2>3. req'[q].node = n /\ req'[q].op # "delete"
    BY <2>1, <2>2, Steady DEF SameAsk, SameFind
  <2> QED
    BY <2>1, <2>2, <2>3 DEF WritersOf
<1> QED
  BY <1>1, <1>2

(* Two requests that are active at the same time overlap.                  *)
LEMMA ActiveOverlap ==
  ASSUME InOrder, NEW q \in Requests, NEW r \in Requests, Active(q), Active(r)
  PROVE  Overlap(q, r) /\ Overlap(r, q)
BY DEF InOrder, Overlap, Active, At

LEMMA SeesNodesKeeps ==
  ASSUME AnyStep, InOrder, NEW q \in Requests, SeesNodes(q)
  PROVE  SeesNodes(q)'
<1> SUFFICES ASSUME At(q, "write")', NEW n \in Nodes', n # req'[q].node
             PROVE  \E s \in WritersOf(n)' : s # q /\ Overlap(s, q)'
  BY DEF SeesNodes
<1>0. n \in Requests
  BY DEF Nodes
<1>1. CASE req'[q] = req[q]
  <2>1. At(q, "write") /\ Began(q)
    BY <1>1 DEF At, Began
  <2>2. CASE n \in Nodes
    <3>1. PICK s \in WritersOf(n) : s # q /\ Overlap(s, q)
      BY <1>1, <2>1, <2>2 DEF SeesNodes
    <3>2. s \in Requests /\ Began(s) /\ s \in WritersOf(n)'
      BY <1>0, <2>2, StillWriters DEF InOrder
    <3>3. Overlap(s, q)'
      BY <2>1, <3>1, <3>2, SameOrder
    <3> QED
      BY <3>1, <3>2, <3>3
  <2>3. CASE n \notin Nodes
    <3>1. PICK w \in Requests : Handled(w, req'[w]) /\ WritesNode(w, req'[w])
      <4>1. nodes' = nodes => Nodes' = Nodes
        BY DEF Nodes
      <4> QED
        BY <2>3, <4>1, NodeSteps, Removing
    <3>2. n = Target(w) /\ HasWritten(w)' /\ At(w, "write") /\ Began(w)
          /\ SameFind(req'[w], req[w]) /\ req'[w].op # "delete"
      <4>1. n = Target(w) /\ HasWritten(w)' /\ At(w, "write")
            /\ SameFind(req'[w], req[w]) /\ req[w].op # "delete"
        BY <2>3, <3>1, Writing
      <4> QED
        BY <4>1, Steady DEF SameAsk, Began, At
    <3>3. w # q
      BY <3>2 DEF HasWritten, At
    <3>4. Overlap(w, q)
      BY <2>1, <3>2, ActiveOverlap DEF Active, At
    <3>5. Overlap(w, q)'
      BY <2>1, <3>2, <3>4, SameOrder
    <3>6. w \in WritersOf(n)'
      BY <3>2 DEF WritersOf, Target, SameFind
    <3> QED
      BY <3>3, <3>5, <3>6
  <2> QED
    BY <2>2, <2>3
<1>2. CASE Handled(q, req'[q])
  <2>1. Finds(q, req'[q])
    BY <1>2 DEF Handled, Did, Fails, Reads, Gets, Fills, Puts, WritesNode,
       Removes, Drops, Caches, At, Ends, FailsAfter
  <2>2. Nodes' = Nodes
    BY <2>1 DEF Finds, stores, Nodes
  <2> QED
    BY <2>1, <2>2 DEF Finds
<1>3. CASE Begun(q, req'[q])
  BY <1>3 DEF Begun, At
<1>4. CASE CutShort(q)
  BY <1>4 DEF CutShort, At, Ends
<1> QED
  BY <1>1, <1>2, <1>3, <1>4, PerRequest

LEMMA TwinsKeep ==
  ASSUME AnyStep, TwinInv
  PROVE  TwinInv'
<1> USE DEF TwinInv
<1>1. InOrder'
  BY InOrderKeeps
<1>2. \A q \in Requests : SeesNodes(q)'
  BY SeesNodesKeeps
<1> DEFINE Apart(m, n) ==
  \E q \in WritersOf(m), r \in WritersOf(n) : q # r /\ Overlap(q, r)
<1>3. ASSUME NEW m \in Nodes, NEW n \in Nodes, m # n PROVE Apart(m, n)'
  <2>1. PICK q \in WritersOf(m), r \in WritersOf(n) : q # r /\ Overlap(q, r)
    BY <1>3 DEF TwinsOnlyByOverlap
  <2>2. m \in Requests /\ n \in Requests /\ HasWritten(m) /\ HasWritten(n)
    BY DEF Nodes, InOrder
  <2>3. /\ q \in Requests /\ Began(q) /\ q \in WritersOf(m)'
        /\ r \in Requests /\ Began(r) /\ r \in WritersOf(n)'
    BY <2>2, StillWriters
  <2>4. Overlap(q, r)'
    BY <2>1, <2>3, SameOrder
  <2> QED
    BY <2>1, <2>3, <2>4
<1>4. ASSUME NEW w \in Requests, Handled(w, req'[w]), WritesNode(w, req'[w]),
             NEW t, t = Target(w), NEW m \in Nodes, m # t
      PROVE  Apart(m, t)' /\ Apart(t, m)'
  <2>1. m \in Requests /\ HasWritten(m) /\ m # req[w].node /\ At(w, "write")
    BY <1>4, Writing, NoneIsNoRequest DEF Nodes, InOrder, Target
  <2>2. PICK q \in WritersOf(m) : q # w /\ Overlap(q, w)
    BY <2>1 DEF SeesNodes
  <2>3. q \in Requests /\ Began(q) /\ q \in WritersOf(m)'
    BY <2>1, StillWriters
  <2>4. Began(w) /\ w \in WritersOf(t)'
    <3>1. /\ Began(w) /\ req[w].op # "delete"
          /\ SameFind(req'[w], req[w])
      BY <1>4, <2>1, Writing DEF Began, At
    <3>2. req'[w].op # "delete"
      BY <3>1, Steady DEF SameAsk
    <3>3. w = t \/ req'[w].node = t
      BY <1>4, <3>1 DEF Target, SameFind
    <3> QED
      BY <1>4, <3>1, <3>2, <3>3 DEF WritersOf
  <2>5. Overlap(w, q)' /\ Overlap(q, w)'
    BY <2>2, <2>3, <2>4, SameOrder DEF Overlap
  <2> QED
    BY <2>2, <2>3, <2>4, <2>5
<1>5. ASSUME NEW m \in Nodes', NEW n \in Nodes', m # n PROVE Apart(m, n)'
  <2>1. CASE m \in Nodes /\ n \in Nodes
    BY <1>3, <1>5, <2>1
  <2>2. CASE m \notin Nodes \/ n \notin Nodes
    <3>1. PICK w \in Requests : Handled(w, req'[w]) /\ WritesNode(w, req'[w])
      <4>1. nodes' = nodes => Nodes' = Nodes
        BY DEF Nodes
      <4> QED
        BY <2>2, <4>1, NodeSteps, Removing
    <3>2. PICK t : t = Target(w)
      OBVIOUS
    <3>3. Nodes' = Nodes \cup {t}
      BY <3>1, <3>2, Writing
    <3>4. CASE m = t
      BY <1>4, <1>5, <2>2, <3>1, <3>2, <3>3, <3>4
    <3>5. CASE n = t
      BY <1>4, <1>5, <2>2, <3>1, <3>2, <3>3, <3>5
    <3> QED
      BY <2>2, <3>3, <3>4, <3>5
  <2> QED
    BY <2>1, <2>2
<1>6. TwinsOnlyByOverlap'
  BY <1>5 DEF TwinsOnlyByOverlap
<1> QED
  BY <1>1, <1>2, <1>6

---------------------------------------------------------------------------
(* Requests that nobody overlapped.                                        *)

LEMMA Solo ==
  ASSUME InOrder, NEW r \in Requests, NEW q \in Requests, q # r, Active(r),
         Active(q)
  PROVE  Overlapped(r) /\ Overlapped(q)
<1>1. req[q].op # "none" /\ req[r].op # "none"
  BY DEF InOrder, Began, At, Active
<1>2. Overlap(q, r) /\ Overlap(r, q)
  BY ActiveOverlap
<1> QED
  BY <1>1, <1>2 DEF Overlapped

(* While such a request is active, only its own handler does something.    *)
LEMMA SoloStep ==
  ASSUME AnyStep, InOrder, NEW r \in Requests, Active(r), ~Overlapped(r)'
  PROVE  /\ ~Overlapped(r)
         /\ Handled(r, req'[r]) \/ CutShort(r) \/ Rested
<1>1. Began(r)
  BY DEF Active, Began, At
<1>2. ~Overlapped(r)
  BY <1>1, StillOverlapped
<1>3. ASSUME NEW q \in Requests, Handled(q, req'[q]) PROVE q = r
  BY <1>2, <1>3, Solo DEF Handled
<1>4. ASSUME NEW q \in Requests, Begun(q, req'[q]) PROVE FALSE
  <2>1. /\ q # r /\ req'[q].prior = Finished /\ req'[q].op # "none"
        /\ req'[r] = req[r]
    BY <1>4 DEF Begun, Alone, Active, At, Ops
  <2>2. r \notin Finished /\ q \notin req[r].prior
    BY <1>4 DEF Finished, Active, InOrder, Begun, At
  <2>3. Overlap(q, r)'
    BY <2>1, <2>2 DEF Overlap
  <2> QED
    BY <2>1, <2>3 DEF Overlapped
<1>5. Crashed => CutShort(r)
  BY DEF Crashed, CutShort
<1> QED
  BY <1>2, <1>3, <1>4, <1>5 DEF AnyStep

(* What is active when such a request is over began later.                 *)
LEMMA AfterSolo ==
  ASSUME InOrder, NEW r \in Requests, At(r, "done"), ~Overlapped(r),
         NEW q \in Requests, Active(q)
  PROVE  q # r /\ q \in Later(r)
<1>1. q # r /\ req[q].op # "none"
  BY DEF Active, At, InOrder, Began
<1>2. q \notin req[r].prior
  BY DEF Active, At, InOrder
<1> QED
  BY <1>1, <1>2 DEF Overlapped, Overlap, Later

LEMMA UndisturbedKeeps ==
  ASSUME AnyStep, InOrder, NEW r \in Requests, Undisturbed(r)
  PROVE  Undisturbed(r)'
<1> PICK x : x = req'[r]
  OBVIOUS
<1> SUFFICES ASSUME Writes(r)', ~Overlapped(r)',
                    x.pc \in {"write", "remove", "drop", "cache"}
             PROVE  /\ x.pc \in {"write", "remove"} =>
                         IF x.node = None THEN Nodes' = {}
                         ELSE Only(x.node, x.was)'
                    /\ x.pc \in {"drop", "cache"} =>
                         IF x.op = "delete" THEN Nodes' = {}
                         ELSE \E n \in Nodes' : Only(n, x.val)'
  BY DEF Undisturbed, Only
<1>1. /\ req[r] \in Request /\ AtStep(r, req[r])
      /\ \A n \in Nodes : n \in Requests /\ n # None
      /\ nodes' = nodes => Nodes' = Nodes
  BY OneRequest, NoneIsNoRequest DEF AnyStep, Nodes
<1>2. Active(r)
  BY PerRequest, Steady DEF Active, Began, At, Begun, Handled, CutShort
<1>3. /\ ~Overlapped(r) /\ Writes(r) /\ x.op = req[r].op
      /\ Handled(r, x) \/ Rested
  BY <1>2, SoloStep, StillSets DEF CutShort, Ends, Active, Began, At
<1>4. CASE Rested
  BY <1>1, <1>3, <1>4 DEF Rested, Undisturbed, Only, stores
<1>5. CASE Handled(r, x)
  <2>1. Finds(r, x) \/ WritesNode(r, x) \/ Removes(r, x) \/ Drops(r, x)
    BY <1>5 DEF Handled, Did, Fails, Reads, Gets, Fills, Puts, Caches, Ends
  <2>2. CASE Finds(r, x)
    BY <1>1, <1>3, <2>2 DEF Finds, Only, stores, Ends
  <2>3. CASE WritesNode(r, x)
    <3>1. /\ At(r, "write") /\ Nodes' = Nodes \cup {Target(r)}
          /\ nodes'[Target(r)] = req[r].val /\ Target(r) \in Requests
          /\ x.pc \in {"drop", "cache"} /\ x.val = req[r].val
          /\ x.op # "delete"
      BY <1>3, <1>5, <2>3, Writing DEF WritesNode, FailsAfter, Ends
    <3>2. Nodes = {} \/ Nodes = {Target(r)}
      BY <1>3, <3>1 DEF Undisturbed, Only, At, Target
    <3>3. PICK t : t = Target(r)
      OBVIOUS
    <3>4. t \in Nodes' /\ Only(t, x.val)'
      BY <3>1, <3>2, <3>3 DEF Only
    <3> QED
      BY <3>1, <3>4
  <2>4. CASE Removes(r, x)
    <3>1. /\ At(r, "remove") /\ Nodes' = Nodes \ {req[r].node}
          /\ x.pc = "drop" /\ x.op = "delete" /\ req[r].node # None
      BY <1>1, <1>3, <1>5, <2>4, Removing, NoneIsNoRequest
      DEF Removes, FailsAfter, Ends
    <3>2. Nodes = {req[r].node}
      BY <1>3, <3>1 DEF Undisturbed, Only, At
    <3> QED
      BY <3>1, <3>2
  <2>5. CASE Drops(r, x)
    <3>1. /\ At(r, "drop") /\ nodes' = nodes /\ Nodes' = Nodes
          /\ x.pc = "cache" /\ x.val = req[r].val
      BY <1>1, <2>5 DEF Drops, Ends
    <3> QED
      BY <1>3, <3>1 DEF Undisturbed, Only, At
  <2> QED
    BY <2>1, <2>2, <2>3, <2>4, <2>5
<1> QED
  BY <1>3, <1>4, <1>5

LEMMA OwnPartsKeeps ==
  ASSUME AnyStep, InOrder, NEW r \in Requests, OwnParts(r)
  PROVE  OwnParts(r)'
<1> PICK x : x = req'[r]
  OBVIOUS
<1>1. PartsSetBy(x.op)' = PartsSetBy(x.op)
  BY SameKind DEF AnyStep, PartsSetBy
<1> SUFFICES ASSUME Writes(r)', x.op # "delete",
                    x.pc \in {"find", "write", "drop", "cache"},
                    NEW p \in PartsSetBy(x.op)
             PROVE  x.val[p] = r
  BY <1>1 DEF OwnParts
<1>2. p \in Parts
  BY DEF PartsSetBy
<1>3. \A read : Changed(r, x.op, read)[p] = r
  BY <1>2 DEF Changed
<1>4. AtStep(r, req[r])
  BY OneRequest DEF AnyStep
<1>5. CASE req'[r] = req[r]
  BY <1>5 DEF OwnParts, Writes
<1>6. CASE Begun(r, x)
  BY <1>2, <1>3, <1>6 DEF Begun
<1>7. CASE CutShort(r)
  BY <1>7 DEF CutShort, Ends
<1>8. CASE Handled(r, x)
  <2>1. x.op = req[r].op
    BY <1>8 DEF Handled, SameAsk
  <2>2. CASE Fills(r, x)
    BY <1>3, <2>1, <2>2 DEF Fills, Ends
  <2>3. CASE Puts(r, x)
    BY <1>2, <1>4, <2>3 DEF Puts, Ends, At, AtStep
  <2>4. CASE x.val = req[r].val /\ req[r].pc \in {"find", "write", "drop"}
    BY <2>1, <2>4 DEF OwnParts, Writes
  <2>5. CASE Removes(r, x)
    BY <1>4, <2>1, <2>5 DEF Removes, AtStep, At
  <2> QED
    BY <1>8, <2>2, <2>3, <2>4, <2>5 DEF Handled, Did, Fails, Reads, Gets,
       Finds, WritesNode, Drops, Caches, Ends, FailsAfter, At
<1> QED
  BY <1>5, <1>6, <1>7, <1>8, PerRequest

(* How a request comes to be acknowledged.                                 *)
LEMMA JustAcked ==
  ASSUME AnyStep, InOrder, NEW r \in Requests, ~Acked(r), Acked(r)', Writes(r)'
  PROVE  /\ Began(r) /\ Active(r) /\ Handled(r, req'[r])
         /\ \/ Finds(r, req'[r]) /\ Nodes = {} /\ req[r].op = "delete"
            \/ Removes(r, req'[r]) /\ kind = "tags"
            \/ Caches(r, req'[r])
<1> PICK x : x = req'[r]
  OBVIOUS
<1>1. x.pc = "done" /\ x.res = "ok"
  BY DEF AnyStep, InOrder, Answered, Acked, At
<1>2. Handled(r, x)
  BY <1>1, PerRequest DEF Acked, Begun, Writes, CutShort, Ends
<1>3. Active(r) /\ Did(r, x) /\ x.op = req[r].op /\ x.op # "get"
  BY <1>2 DEF Handled, SameAsk, Writes
<1>4. \/ Finds(r, x) /\ Nodes = {} /\ req[r].op = "delete"
      \/ Removes(r, x) /\ kind = "tags"
      \/ Caches(r, x)
  BY <1>1, <1>3 DEF Did, Fails, Reads, Gets, Fills, Puts, Finds, WritesNode,
     Removes, Drops, Ends, FailsAfter
<1> QED
  BY <1>2, <1>3, <1>4 DEF Active, Began, At

LEMMA DeletedKeeps ==
  ASSUME AnyStep, InOrder, DeletedConfigStaysDeleted,
         \A r \in Requests : Undisturbed(r)
  PROVE  DeletedConfigStaysDeleted'
<1> SUFFICES ASSUME NEW r \in Requests, req'[r].op = "delete", Acked(r)',
                    ~Overlapped(r)'
             PROVE  \/ Nodes' = {}
                    \/ \E q \in Later(r)' : req'[q].op = "put"
  BY DEF DeletedConfigStaysDeleted
<1>1. nodes' = nodes => Nodes' = Nodes
  BY DEF Nodes
<1>2. CASE Acked(r)
  <2>1. At(r, "done") /\ Began(r)
    BY <1>2 DEF InOrder, Answered, Began, At
  <2>2. ~Overlapped(r) /\ req[r].op = "delete"
    BY <2>1, StillOverlapped, StillSets
  <2>3. CASE Nodes = {}
    <3>1. ASSUME NEW w \in Requests, Handled(w, req'[w]),
                 WritesNode(w, req'[w])
          PROVE  \E q \in Later(r)' : req'[q].op = "put"
      <4>1. w \in Later(r)
        BY <2>1, <2>2, <3>1, AfterSolo DEF Handled
      <4>2. w \in Later(r)' /\ req'[w].op = req[w].op
        BY <4>1, StillLater
      <4>3. req[w].op \in Ops /\ req[r].op \in Ops \cup {"none"}
        <5>1. req[w] \in Request /\ req[r] \in Request
          BY OneRequest DEF AnyStep
        <5> QED
          BY <3>1, <5>1, Writing DEF Request
      <4>4. req[w].op = "put"
        BY <2>2, <3>1, <4>3, Writing DEF Ops
      <4> QED
        BY <4>2, <4>4
    <3>2. ASSUME NEW w \in Requests, Handled(w, req'[w]),
                 Removes(w, req'[w])
          PROVE  Nodes' = {}
      BY <2>3, <3>2, Removing
    <3> QED
      BY <1>1, <2>3, <3>1, <3>2, NodeSteps
  <2>4. CASE Nodes # {}
    <3>1. PICK q \in Later(r) : req[q].op = "put"
      BY <1>2, <2>2, <2>4 DEF DeletedConfigStaysDeleted
    <3> QED
      BY <3>1, StillLater
  <2> QED
    BY <2>3, <2>4
<1>3. CASE ~Acked(r)
  <2>1. /\ Began(r) /\ Active(r) /\ Handled(r, req'[r])
        /\ \/ Finds(r, req'[r]) /\ Nodes = {} /\ req[r].op = "delete"
           \/ Removes(r, req'[r]) /\ kind = "tags"
           \/ Caches(r, req'[r])
    BY <1>3, JustAcked DEF Writes
  <2>2. ~Overlapped(r) /\ req[r].op = "delete" /\ Writes(r)
    BY <2>1, StillOverlapped, StillSets DEF Writes
  <2>3. Undisturbed(r)
    OBVIOUS
  <2>4. CASE Finds(r, req'[r]) /\ Nodes = {}
    BY <1>1, <2>4 DEF Finds, stores
  <2>5. CASE Removes(r, req'[r])
    <3>1. At(r, "remove") /\ Nodes' = Nodes \ {req[r].node} /\ req[r].node # None
      BY <2>1, <2>5, Removing, NoneIsNoRequest
    <3> QED
      BY <2>2, <2>3, <3>1 DEF Undisturbed, Only, At
  <2>6. CASE Caches(r, req'[r])
    BY <1>1, <2>2, <2>3, <2>6 DEF Caches, stores, Undisturbed, At
  <2> QED
    BY <2>1, <2>4, <2>5, <2>6
<1> QED
  BY <1>2, <1>3

---------------------------------------------------------------------------
(* The part that a request set stays as it set it.                         *)

(* A later request that neither sets part p nor deletes it all.            *)
Spares(q, p) == ~Sets(q, p) /\ req[q].op # "delete"

LEMMA PutSetsAll ==
  ASSUME IInv, NEW q \in Requests, NEW p \in Parts, Spares(q, p),
         req[q].op \notin {"none", "get"}
  PROVE  /\ kind = "settings" /\ req[q].op \in {"create", "versioning", "lock"}
         /\ \A read : Changed(q, req[q].op, read)[p] = read[p]
<1>1. req[q] \in Request
  BY OneRequest
<1>2. p \notin PartsSetBy(req[q].op)
  BY DEF Spares, Sets, Writes
<1>3. kind = "settings"
  BY <1>2 DEF PartsSetBy
<1>4. req[q].op \in {"create", "versioning", "lock"}
  BY <1>1, <1>3 DEF Request, Ops
<1> QED
  BY <1>2, <1>3, <1>4 DEF Changed

(* A step of one request leaves what the others carry, as long as the node *)
(* they found is there.                                                    *)
LEMMA OthersCarry ==
  ASSUME NEW r \in Requests, Alone(r, req'[r]), NEW p, NEW v,
         \A q \in Requests : CarriesOver(q, p, v), Nodes \subseteq Nodes',
         /\ req'[r].pc \in {"get", "fill", "find", "write", "cache"} =>
              req'[r].val[p] = v
         /\ At(r, "write")' => req'[r].node \in Nodes'
  PROVE  \A q \in Requests : CarriesOver(q, p, v)'
<1> SUFFICES ASSUME NEW q \in Requests PROVE CarriesOver(q, p, v)'
  OBVIOUS
<1>1. CASE q = r
  BY <1>1 DEF CarriesOver, At
<1>2. CASE q # r
  <2>1. req'[q] = req[q] /\ CarriesOver(q, p, v)
    BY <1>2 DEF Alone
  <2> QED
    BY <2>1 DEF CarriesOver, At
<1> QED
  BY <1>1, <1>2

(* What part p says, in tree, cache and requests.                          *)
Says(p, v) ==
  /\ \E n \in Nodes : Nodes = {n} /\ nodes[n][p] = v
  /\ cache = None \/ cache[p] = v
  /\ \A q \in Requests : CarriesOver(q, p, v)

LEMMA LaterHandler ==
  ASSUME AnyStep, InOrder, NEW q \in Requests, Handled(q, req'[q]),
         NEW p \in Parts, NEW v, Says(p, v), Spares(q, p)
  PROVE  Says(p, v)'
<1> PICK x : x = req'[q]
  OBVIOUS
<1>1. PICK n \in Nodes : Nodes = {n} /\ nodes[n][p] = v
  BY DEF Says
<1>2. /\ n # None /\ n \in Requests /\ (nodes' = nodes => Nodes' = Nodes)
  BY NoneIsNoRequest DEF Nodes
<1>3. /\ Did(q, x) /\ x.op = req[q].op /\ Alone(q, x) /\ Active(q)
      /\ req[q].op \notin {"none", "delete"}
  BY DEF Handled, SameAsk, InOrder, Began, Active, At, Spares
<1>4. req[q].op # "get" =>
        /\ kind = "settings" /\ req[q].op \in {"create", "versioning", "lock"}
        /\ \A read : Changed(q, req[q].op, read)[p] = read[p]
  BY <1>3, PutSetsAll DEF AnyStep
<1>5. AtStep(q, req[q]) /\ CarriesOver(q, p, v)
  BY OneRequest DEF AnyStep, Says
<1> DEFINE Same == /\ Nodes' = {n} /\ nodes'[n][p] = v
                   /\ cache' = None \/ cache'[p] = v
           Mine == /\ x.pc \in {"get", "fill", "find", "write", "cache"} =>
                        x.val[p] = v
                   /\ x.pc = "write" => x.node \in Nodes'
<1>6. SUFFICES Same /\ Mine
  <2>1. ASSUME Same, Mine PROVE Says(p, v)'
    <3>1. \A s \in Requests : CarriesOver(s, p, v)
      BY DEF Says
    <3>2. \A s \in Requests : CarriesOver(s, p, v)'
      BY <1>1, <1>3, <2>1, <3>1, OthersCarry DEF At
    <3> QED
      BY <2>1, <3>2 DEF Says
  <2> QED
    BY <2>1
<1>7. cache = None \/ cache[p] = v
  BY DEF Says
<1>8. ASSUME UNCHANGED nodes, cache' = cache \/ cache'[p] = v PROVE Same
  BY <1>1, <1>2, <1>7, <1>8
<1>9. CASE Fails(q, x)
  BY <1>8, <1>9 DEF Fails, stores, Ends
<1>10. CASE Reads(q, x)
  BY <1>1, <1>8, <1>10 DEF Reads, stores, Ends
<1>11. CASE Gets(q, x)
  BY <1>5, <1>8, <1>11 DEF Gets, stores, CarriesOver, At
<1>12. CASE Fills(q, x)
  BY <1>4, <1>5, <1>8, <1>12 DEF Fills, stores, CarriesOver, At, Ends
<1>13. CASE Puts(q, x)
  <2>1. InObject /\ req[q].op = "put"
    BY <1>5, <1>13 DEF Puts, AtStep, At
  <2> QED
    BY <1>4, <2>1
<1>14. CASE Finds(q, x)
  <2>1. UNCHANGED <<nodes, cache>> /\ x.val = req[q].val /\ At(q, "find")
    BY <1>14 DEF Finds, stores
  <2>2. x.pc \in {"write", "remove"} /\ x.node = n
    BY <1>1, <1>3, <1>14 DEF Finds
  <2> QED
    BY <1>1, <1>2, <1>5, <1>8, <2>1, <2>2 DEF CarriesOver, At
<1>15. CASE WritesNode(q, x)
  <2>1. /\ At(q, "write") /\ Nodes' = Nodes \cup {Target(q)}
        /\ nodes'[Target(q)] = req[q].val /\ cache' = cache
    BY <1>15, Writing DEF WritesNode
  <2>2. req[q].val[p] = v /\ req[q].node = n
    BY <1>1, <1>5, <2>1 DEF CarriesOver, At
  <2>3. Target(q) = n
    BY <1>2, <2>2 DEF Target
  <2>4. x.pc # "write" /\ (x.pc \in {"get", "fill", "find", "cache"} =>
                             x.val = req[q].val)
    BY <1>15 DEF WritesNode, Ends, FailsAfter
  <2> QED
    BY <1>1, <1>7, <2>1, <2>2, <2>3, <2>4
<1>16. CASE Removes(q, x)
  BY <1>3, <1>16, Removing
<1>17. CASE Drops(q, x)
  BY <1>3, <1>4, <1>5, <1>17 DEF Drops, AtStep, At
<1>18. CASE Caches(q, x)
  BY <1>3, <1>5, <1>8, <1>18 DEF Caches, stores, CarriesOver, At, Ends
<1> QED
  BY <1>3, <1>9, <1>10, <1>11, <1>12, <1>13, <1>14, <1>15, <1>16, <1>17, <1>18
  DEF Did

LEMMA LaterBegins ==
  ASSUME AnyStep, InOrder, NEW q \in Requests, Begun(q, req'[q]),
         NEW p \in Parts, NEW v, Says(p, v), Spares(q, p)',
         \E r \in Requests : ~At(r, "idle")
  PROVE  Says(p, v)'
<1> PICK x : x = req'[q]
  OBVIOUS
<1>1. /\ nodes' = nodes /\ Nodes' = Nodes /\ Alone(q, x)
      /\ cache' = cache \/ cache' = None
      /\ x.pc \in {"read", "put", "find", "done"} /\ x.op \in Ops
  BY DEF Begun, stores, Nodes
<1>2. x.pc = "find" => x.val[p] = v
  <2> SUFFICES ASSUME x.pc = "find" PROVE x.val[p] = v
    OBVIOUS
  <2>1. x.op # "delete" /\ ~Sets(q, p)'
    BY DEF Spares
  <2>2. Parts' = Parts /\ PartsSetBy(x.op)' = PartsSetBy(x.op)
    BY SameKind DEF AnyStep, PartsSetBy
  <2>3. x.op # "get" /\ x.op # "none"
    BY DEF Begun, Ops
  <2>4. p \notin PartsSetBy(x.op)
    BY <2>1, <2>2, <2>3 DEF Sets, Writes
  <2>5. kind = "settings"
    BY <2>4 DEF PartsSetBy
  <2>6. /\ x.op \in {"versioning", "lock"} /\ cache # None
        /\ x.val = Changed(q, x.op, cache)
    BY <1>1, <2>1, <2>3, <2>5 DEF Begun, Ops
  <2>7. x.val[p] = cache[p]
    BY <2>4, <2>6 DEF Changed
  <2> QED
    BY <2>6, <2>7 DEF Says
<1>3. \A s \in Requests : CarriesOver(s, p, v)'
  <2>1. \A s \in Requests : CarriesOver(s, p, v)
    BY DEF Says
  <2> QED
    BY <1>1, <1>2, <2>1, OthersCarry DEF At
<1> QED
  BY <1>1, <1>3 DEF Says

LEMMA RestSays ==
  ASSUME AnyStep, Crashed \/ Rested, NEW p, NEW v, Says(p, v)
  PROVE  Says(p, v)'
<1>1. /\ nodes' = nodes /\ Nodes' = Nodes /\ cache' \in {cache, None}
      /\ \A q \in Requests : req'[q] = req[q] \/ Ends(req'[q], "crashed")
  BY DEF Crashed, Rested, stores, Nodes
<1>2. ASSUME NEW q \in Requests PROVE CarriesOver(q, p, v)'
  BY <1>1 DEF Says, CarriesOver, Ends, At
<1> QED
  BY <1>1, <1>2 DEF Says

(* An acknowledged change that nobody overlapped is what the tree says, and *)
(* what the cache says.                                                    *)
LEMMA AckedSays ==
  ASSUME AnyStep, InOrder, NEW r \in Requests, NEW p \in Parts,
         ~Acked(r), Settled(r, p)', Undisturbed(r), OwnParts(r)
  PROVE  Says(p, r)'
<1>1. /\ Acked(r)' /\ ~Overlapped(r)' /\ Sets(r, p)' /\ Writes(r)'
      /\ req'[r].op # "delete"
  BY DEF Settled, Sets
<1>2. /\ Began(r) /\ Active(r) /\ Handled(r, req'[r])
      /\ \/ Finds(r, req'[r]) /\ Nodes = {} /\ req[r].op = "delete"
         \/ Removes(r, req'[r]) /\ kind = "tags"
         \/ Caches(r, req'[r])
  BY <1>1, JustAcked
<1>3. ~Overlapped(r) /\ Sets(r, p) /\ Writes(r) /\ req[r].op # "delete"
  BY <1>1, <1>2, StillOverlapped, StillSets
<1>4. Caches(r, req'[r])
  BY <1>2, <1>3, Removing
<1>5. /\ At(r, "cache") /\ nodes' = nodes /\ Nodes' = Nodes
      /\ cache' = req[r].val /\ req'[r].pc = "done"
  BY <1>3, <1>4 DEF Caches, stores, Nodes, Ends
<1>6. req[r].val[p] = r
  BY <1>3, <1>5 DEF OwnParts, At, Sets
<1>7. PICK n \in Nodes : Nodes = {n} /\ nodes[n] = req[r].val
  BY <1>3, <1>5 DEF Undisturbed, Only, At
<1>8. ASSUME NEW q \in Requests PROVE CarriesOver(q, p, r)'
  <2>1. CASE q = r
    BY <1>5, <2>1 DEF CarriesOver, At
  <2>2. CASE q # r
    <3>1. ~Active(q) /\ req'[q] = req[q]
      BY <1>2, <1>3, <2>2, Solo DEF Handled, Alone
    <3> QED
      BY <3>1 DEF CarriesOver, At, Active
  <2> QED
    BY <2>1, <2>2
<1> QED
  BY <1>5, <1>6, <1>7, <1>8 DEF Says

LEMMA LastsKeeps ==
  ASSUME AnyStep, InOrder, NEW r \in Requests, NEW p \in Parts, Lasts(r, p),
         Undisturbed(r), OwnParts(r)
  PROVE  Lasts(r, p)'
<1> SUFFICES ASSUME Settled(r, p)' PROVE Says(p, r)'
  BY DEF Lasts, Says
<1>1. CASE ~Acked(r)
  BY <1>1, AckedSays
<1>2. CASE Acked(r)
  <2>1. At(r, "done") /\ Began(r)
    BY <1>2 DEF InOrder, Answered, Began, At
  <2>2. ~Overlapped(r) /\ Sets(r, p)
    BY <2>1, StillOverlapped, StillSets DEF Settled
  <2>3. ASSUME NEW q \in Later(r)
        PROVE  Spares(q, p)
    BY StillLater DEF Settled, Spares
  <2>4. Says(p, r)
    <3>1. Settled(r, p)
      BY <1>2, <2>2, <2>3 DEF Settled, Spares
    <3> QED
      BY <3>1 DEF Lasts, Says
  <2>5. ASSUME NEW q \in Requests, Handled(q, req'[q]) PROVE Says(p, r)'
    <3>1. q \in Later(r)
      BY <2>1, <2>2, <2>5, AfterSolo DEF Handled
    <3> QED
      BY <2>3, <2>4, <2>5, <3>1, LaterHandler
  <2>6. ASSUME NEW q \in Requests, Begun(q, req'[q]) PROVE Says(p, r)'
    <3>1. r \in req'[q].prior
      BY <2>1, <2>6 DEF Begun, Finished, At
    <3>2. q \in Later(r)'
      BY <3>1 DEF Later
    <3>3. Spares(q, p)'
      BY <3>2 DEF Settled, Spares
    <3>4. ~At(r, "idle")
      BY <2>1 DEF At
    <3> QED
      BY <2>4, <2>6, <3>3, <3>4, LaterBegins
  <2> QED
    BY <2>4, <2>5, <2>6, RestSays DEF AnyStep
<1> QED
  BY <1>1, <1>2

---------------------------------------------------------------------------
(* The object of a PUT that was replaced is dropped.                       *)

(* The objects in question are those of PUTs that were acknowledged, alone. *)
LEMMA KeptObject ==
  ASSUME AnyStep, InOrder, InObject, NEW o \in objects', Acked(o)',
         ~Overlapped(o)'
  PROVE  /\ o \in Requests /\ req[o].op = "put" /\ Began(o) /\ o \in objects
         /\ ~Overlapped(o) /\ Writes(o)
         /\ Acked(o) => At(o, "done")
<1>1. o \in Requests /\ req'[o].op = "put" /\ At(o, "done")'
  BY DEF AnyStep, IInv, TypeOK, InOrder, Answered
<1>2. Began(o)
  <2>1. ASSUME ~Began(o) PROVE FALSE
    <3>1. req[o].op = "none"
      BY <1>1, <2>1, Unbegun DEF AnyStep
    <3> QED
      BY <1>1, <2>1, <3>1, PerRequest DEF Begun, Handled, CutShort, Active,
         Began, At
  <2> QED
    BY <2>1
<1>3. req[o].op = "put" /\ ~Overlapped(o) /\ Writes(o)
  BY <1>1, <1>2, StillOverlapped, StillSets DEF Writes
<1>4. o \in objects
  <2>1. ASSUME NEW q \in Requests, Handled(q, req'[q]), o \notin objects
        PROVE  FALSE
    <3>1. Did(q, req'[q])
      BY <2>1 DEF Handled
    <3>2. Puts(q, req'[q])
      BY <2>1, <3>1 DEF Did, Fails, Reads, Gets, Fills, Finds, WritesNode,
         Removes, Drops, Caches, stores
    <3>3. q = o
      BY <2>1, <3>2 DEF Puts
    <3> QED
      BY <1>1, <3>2, <3>3 DEF Puts, Ends, Acked, At
  <2> QED
    BY <2>1 DEF AnyStep, Begun, Crashed, Rested, stores
<1>5. Acked(o) => At(o, "done")
  BY <1>1 DEF InOrder, Answered
<1> QED
  BY <1>1, <1>2, <1>3, <1>4, <1>5

(* Node n names o.                                                         *)
Names(n, o) == n \in Nodes /\ nodes[n]["conf"] = o

(* Whoever is to replace or remove the node that names o knows it does.    *)
Knows(q, o) ==
  req[q].pc \in {"write", "remove"} /\ Names(req[q].node, o) =>
    req[q].was["conf"] = o

DropsIt(q, o) == At(q, "drop") /\ req[q].was["conf"] = o

LEMMA HasKeeperSays ==
  ASSUME NEW o
  PROVE  /\ HasKeeper(o) <=>
              (Acked(o) /\ ~Overlapped(o) =>
                 /\ \A q \in Requests : Knows(q, o)
                 /\ faults = 0 => \/ \E n \in Nodes : Names(n, o)
                                 \/ \E q \in Requests : DropsIt(q, o))
         /\ HasKeeper(o)' <=>
              (Acked(o)' /\ ~Overlapped(o)' =>
                 /\ \A q \in Requests : Knows(q, o)'
                 /\ faults' = 0 => \/ \E n \in Nodes' : Names(n, o)'
                                  \/ \E q \in Requests : DropsIt(q, o)')
BY DEF HasKeeper, Knows, Names, DropsIt

(* The object has its node, or a handler that drops it.                    *)
Kept(o) == \/ \E n \in Nodes : Names(n, o)
           \/ \E q \in Requests : DropsIt(q, o)

LEMMA KeeperStep ==
  ASSUME AnyStep, InOrder, InObject, NEW o \in objects',
         NEW q \in Requests, Handled(q, req'[q]), q # o,
         \A s \in Requests : Knows(s, o), faults = 0 => Kept(o)
  PROVE  (\A s \in Requests : Knows(s, o)') /\ (faults' = 0 => Kept(o)')
<1> PICK x : x = req'[q]
  OBVIOUS
<1>1. /\ Did(q, x) /\ x.op = req[q].op /\ Active(q) /\ Knows(q, o)
      /\ \A s \in Requests \ {q} : req'[s] = req[s]
  BY DEF Handled, SameAsk, Alone
<1>2. AtStep(q, req[q]) /\ (faults' = 0 => faults = 0)
  BY OneRequest DEF AnyStep
<1>3. /\ \A n \in Nodes : n \in Requests /\ n # None /\ HasWritten(n)
      /\ nodes' = nodes => Nodes' = Nodes
  BY NoneIsNoRequest DEF Nodes, InOrder
<1>4. ASSUME nodes' = nodes,
             x.pc \in {"write", "remove"} /\ Names(x.node, o) =>
               x.was["conf"] = o,
             ~DropsIt(q, o) \/ faults' # 0
      PROVE  (\A s \in Requests : Knows(s, o)') /\ (faults' = 0 => Kept(o)')
  <2>1. \A n : Names(n, o)' <=> Names(n, o)
    BY <1>3, <1>4 DEF Names
  <2>2. ASSUME NEW s \in Requests PROVE Knows(s, o)'
    <3>1. CASE s = q
      BY <1>4, <2>1, <3>1 DEF Knows, Names
    <3>2. CASE s # q
      <4>1. req'[s] = req[s] /\ Knows(s, o)
        BY <1>1, <3>2
      <4> QED
        BY <1>3, <1>4, <4>1 DEF Knows, Names
    <3> QED
      BY <3>1, <3>2
  <2>3. ASSUME faults' = 0 PROVE Kept(o)'
    <3>1. CASE \E n \in Nodes : Names(n, o)
      BY <1>3, <1>4, <2>1, <3>1 DEF Kept
    <3>2. ASSUME NEW s \in Requests, DropsIt(s, o) PROVE DropsIt(s, o)'
      BY <1>1, <1>4, <2>3, <3>2 DEF DropsIt, At
    <3> QED
      BY <1>2, <2>3, <3>1, <3>2 DEF Kept
  <2> QED
    BY <2>2, <2>3
<1>5. ASSUME nodes' = nodes, x.pc \notin {"write", "remove"}, ~At(q, "drop")
      PROVE  (\A s \in Requests : Knows(s, o)') /\ (faults' = 0 => Kept(o)')
  BY <1>4, <1>5 DEF DropsIt
<1>6. CASE Finds(q, x)
  <2>1. nodes' = nodes /\ ~At(q, "drop")
    BY <1>6 DEF Finds, stores, At
  <2>2. x.pc \in {"write", "remove"} /\ Names(x.node, o) => x.was["conf"] = o
    BY <1>3, <1>6 DEF Finds, Names, Ends
  <2> QED
    BY <1>4, <2>1, <2>2 DEF DropsIt
<1>7. CASE Drops(q, x)
  <2>1. nodes' = nodes /\ x.pc \in {"cache", "done"}
    BY <1>7 DEF Drops, Ends
  <2>2. ~DropsIt(q, o) \/ faults' # 0
    BY <1>7 DEF Drops, DropsIt
  <2> QED
    BY <1>4, <2>1, <2>2
(* The node n that named o does not any more, or o was not named by it.    *)
<1>8. ASSUME NEW n \in Requests, req[q].node = n \/ n \notin Nodes,
             req[q].pc \in {"write", "remove"},
             \A m \in Requests \ {n} : nodes'[m] = nodes[m],
             n \in Nodes' => nodes'[n]["conf"] # o,
             x.pc \notin {"write", "remove"}, SameFind(x, req[q]),
             x.pc = "drop" \/ faults' # 0 \/ n \notin Nodes
      PROVE  (\A s \in Requests : Knows(s, o)') /\ (faults' = 0 => Kept(o)')
  <2>1. \A m : Names(m, o)' <=> Names(m, o) /\ m # n
    BY <1>8 DEF Names, Nodes
  <2>2. ASSUME NEW s \in Requests PROVE Knows(s, o)'
    <3>1. CASE s = q
      BY <1>8, <3>1 DEF Knows
    <3>2. CASE s # q
      <4>1. PICK y : y = req'[s]
        OBVIOUS
      <4>2. y = req[s] /\ Knows(s, o)
        BY <1>1, <3>2, <4>1
      <4>3. Names(y.node, o)' => Names(y.node, o)
        BY <2>1
      <4> QED
        BY <4>1, <4>2, <4>3 DEF Knows, Names
    <3> QED
      BY <3>1, <3>2
  <2>3. ASSUME faults' = 0 PROVE Kept(o)'
    <3>1. ASSUME NEW s \in Requests, DropsIt(s, o) PROVE DropsIt(s, o)'
      BY <1>1, <1>8, <3>1 DEF DropsIt, At
    <3>2. ASSUME NEW m \in Nodes, Names(m, o) PROVE Kept(o)'
      <4>1. CASE m # n
        BY <2>1, <3>2, <4>1 DEF Kept, Names
      <4>2. CASE m = n
        <5>1. req[q].was["conf"] = o
          BY <1>1, <1>8, <3>2, <4>2 DEF Knows
        <5>2. DropsIt(q, o)'
          BY <1>8, <2>3, <3>2, <4>2, <5>1 DEF DropsIt, At, SameFind
        <5> QED
          BY <5>2 DEF Kept
      <4> QED
        BY <4>1, <4>2
    <3> QED
      BY <1>2, <2>3, <3>1, <3>2 DEF Kept
  <2> QED
    BY <2>2, <2>3
<1>9. CASE WritesNode(q, x)
  <2>1. /\ Target(q) \in Requests /\ At(q, "write")
        /\ req[q].op \notin {"none", "get", "delete"}
        /\ nodes'[Target(q)] = req[q].val
        /\ \A n \in Requests \ {Target(q)} : nodes'[n] = nodes[n]
        /\ SameFind(x, req[q])
    BY <1>9, Writing
  <2>2. nodes'[Target(q)]["conf"] # o
    <3>1. req[q] \in Request
      BY OneRequest DEF AnyStep
    <3>2. req[q].op = "put" /\ "conf" \in Parts
      BY <2>1, <3>1 DEF Request, Ops, InObject, Parts
    <3> QED
      BY <1>2, <2>1, <3>2 DEF AtStep
  <2>3. req[q].node = Target(q) \/ (req[q].node = None /\ Target(q) \notin Nodes)
    BY <1>3, <2>1 DEF Target, HasWritten, At
  <2>4. /\ x.pc \notin {"write", "remove"}
        /\ x.pc = "drop" \/ faults' # 0 \/ req[q].node = None
    BY <1>9 DEF WritesNode, FailsAfter, Ends
  <2>5. PICK t : t = Target(q)
    OBVIOUS
  <2>6. /\ t \in Requests /\ req[q].pc = "write" /\ nodes'[t]["conf"] # o
        /\ \A m \in Requests \ {t} : nodes'[m] = nodes[m]
        /\ req[q].node = t \/ t \notin Nodes
        /\ x.pc = "drop" \/ faults' # 0 \/ t \notin Nodes
    BY <2>1, <2>2, <2>3, <2>4, <2>5, NoneIsNoRequest DEF At
  <2> QED
    BY <1>8, <2>1, <2>4, <2>6
<1>10. CASE Removes(q, x)
  <2>1. /\ req[q].node \in Requests /\ At(q, "remove")
        /\ \A n \in Requests \ {req[q].node} : nodes'[n] = nodes[n]
        /\ req[q].node \notin Nodes'
    BY <1>10, Removing
  <2>2. /\ x.pc \notin {"write", "remove"} /\ SameFind(x, req[q])
        /\ x.pc = "drop" \/ faults' # 0
    BY <1>10 DEF Removes, FailsAfter, Ends, InObject
  <2> QED
    BY <1>8, <2>1, <2>2 DEF At
<1>11. CASE Fails(q, x) \/ Reads(q, x) \/ Gets(q, x) \/ Fills(q, x) \/ Puts(q, x)
            \/ Caches(q, x)
  <2>1. nodes' = nodes
    BY <1>11 DEF Fails, Reads, Gets, Fills, Puts, Caches, stores
  <2>2. x.pc \notin {"write", "remove"} /\ ~At(q, "drop")
    BY <1>11 DEF Fails, Reads, Gets, Fills, Puts, Caches, At, Ends
  <2> QED
    BY <1>5, <2>1, <2>2
<1> QED
  BY <1>1, <1>6, <1>7, <1>9, <1>10, <1>11 DEF Did

LEMMA HasKeeperKeeps ==
  ASSUME AnyStep, InOrder, InObject, \A o \in objects : HasKeeper(o),
         \A r \in Requests : Undisturbed(r), NEW o \in objects'
  PROVE  HasKeeper(o)'
<1> SUFFICES ASSUME Acked(o)', ~Overlapped(o)'
             PROVE  (\A s \in Requests : Knows(s, o)') /\ (faults' = 0 => Kept(o)')
  BY HasKeeperSays DEF Kept
<1>1. /\ o \in Requests /\ req[o].op = "put" /\ Began(o) /\ o \in objects
      /\ ~Overlapped(o) /\ Writes(o)
      /\ Acked(o) => At(o, "done")
  BY KeptObject
<1>2. CASE Acked(o)
  <2>1. (\A s \in Requests : Knows(s, o)) /\ (faults = 0 => Kept(o))
    BY <1>1, <1>2, HasKeeperSays DEF Kept
  <2>2. ASSUME NEW q \in Requests, Handled(q, req'[q])
        PROVE  (\A s \in Requests : Knows(s, o)') /\ (faults' = 0 => Kept(o)')
    <3>1. q # o
      BY <1>1, <1>2, <2>2 DEF Handled, Active, At
    <3> QED
      BY <2>1, <2>2, <3>1, KeeperStep
  <2>3. ASSUME NEW q \in Requests, Begun(q, req'[q])
        PROVE  (\A s \in Requests : Knows(s, o)') /\ (faults' = 0 => Kept(o)')
    <3>1. /\ nodes' = nodes /\ Nodes' = Nodes
          /\ \A s \in Requests : s = q \/ req'[s] = req[s]
          /\ req[q].pc = "idle" /\ req'[q].pc \in {"read", "put", "find", "done"}
          /\ faults' = 0 => faults = 0
      BY <2>3 DEF Begun, Alone, stores, Nodes, At, AnyStep
    <3>2. \A n : Names(n, o)' = Names(n, o)
      BY <3>1 DEF Names
    <3>3. ASSUME NEW s \in Requests PROVE Knows(s, o)' /\ (DropsIt(s, o) => DropsIt(s, o)')
      BY <2>1, <3>1 DEF Knows, DropsIt, Names, At
    <3> QED
      BY <2>1, <3>1, <3>2, <3>3 DEF Kept
  <2>4. CASE Crashed
    <3>1. /\ nodes' = nodes /\ Nodes' = Nodes /\ faults' # 0
          /\ \A s \in Requests : req'[s].pc = "done" \/ req'[s] = req[s]
      BY <2>4 DEF Crashed, stores, Nodes, Ends
    <3> QED
      BY <2>1, <3>1 DEF Knows, Names
  <2>5. CASE Rested
    <3>1. nodes' = nodes /\ Nodes' = Nodes /\ req' = req /\ (faults' = 0 => faults = 0)
      BY <2>5 DEF Rested, stores, Nodes, AnyStep
    <3> QED
      BY <2>1, <3>1 DEF Knows, Names, Kept, DropsIt, At
  <2> QED
    BY <2>2, <2>3, <2>4, <2>5 DEF AnyStep
<1>3. CASE ~Acked(o)
  <2>1. /\ Active(o) /\ Handled(o, req'[o])
        /\ Caches(o, req'[o])
    <3>1. Writes(o)' /\ kind # "tags"
      BY <1>1, StillSets DEF InObject
    <3> QED
      BY <1>1, <1>3, <3>1, JustAcked
  <2>2. /\ nodes' = nodes /\ Nodes' = Nodes /\ At(o, "cache")
        /\ req'[o].pc = "done"
    BY <2>1 DEF Caches, stores, Nodes, Ends
  <2>3. PICK n \in Nodes : Nodes = {n} /\ nodes[n] = req[o].val
    BY <1>1, <2>2 DEF Undisturbed, Only, At
  <2>4. req[o].val["conf"] = o
    <3>1. AtStep(o, req[o]) /\ "conf" \in Parts
      BY <1>1, OneRequest DEF AnyStep, InObject, Parts
    <3> QED
      BY <1>1, <3>1 DEF AtStep
  <2>5. ASSUME NEW s \in Requests PROVE Knows(s, o)'
    <3>1. CASE s = o
      BY <2>2, <3>1 DEF Knows
    <3>2. CASE s # o
      <4>1. ~Active(s) /\ req'[s] = req[s]
        BY <1>1, <2>1, <3>2, Solo DEF Handled, Alone
      <4> QED
        BY <4>1 DEF Knows, Active
    <3> QED
      BY <3>1, <3>2
  <2>6. Kept(o)'
    <3>1. Names(n, o)'
      BY <2>2, <2>3, <2>4 DEF Names
    <3> QED
      BY <2>2, <3>1 DEF Kept
  <2> QED
    BY <2>5, <2>6
<1> QED
  BY <1>2, <1>3

---------------------------------------------------------------------------
(* The cache is as the tree says.                                          *)

LEMMA CalmBefore ==
  ASSUME AnyStep, InOrder, Calm'
  PROVE  Calm
<1> SUFFICES ASSUME NEW r \in Requests, Writes(r)
             PROVE  ~Overlapped(r) /\ (At(r, "done") => Acked(r))
  BY DEF Calm
<1>1. Began(r)
  BY Unbegun DEF AnyStep, Writes
<1>2. Writes(r)'
  BY <1>1, StillSets
<1>3. ~Overlapped(r)' /\ (At(r, "done")' => Acked(r)')
  BY <1>2 DEF Calm
<1>4. At(r, "done") => req'[r] = req[r]
  BY <1>1, Steady
<1> QED
  BY <1>1, <1>3, <1>4, StillOverlapped DEF At, Acked

(* A request that writes is the only one that is active.                   *)
LEMMA CalmSolo ==
  ASSUME InOrder, Calm, NEW q \in Requests, NEW r \in Requests, q # r,
         Active(q), Active(r)
  PROVE  ~Writes(q) /\ ~Writes(r)
BY Solo DEF Calm

LEMMA SameSaid ==
  ASSUME kind' = kind, nodes' = nodes, NEW v
  PROVE  SaidByTree(v)' = SaidByTree(v)
BY SameKind DEF SaidByTree, Nodes

(* What FreshWhenCalm says, part by part.                                  *)
Changing == \E r \in Requests : Writes(r) /\ req[r].pc \in {"drop", "cache"}
FreshCache == Changing \/ cache = None \/ SaidByTree(cache)
FreshRead(r) == req[r].pc \in {"get", "fill"} => SaidByTree(req[r].val)
NotCached(r) == kind = "tags" /\ req[r].op = "delete" /\ Active(r) => cache = None

LEMMA FreshHandler ==
  ASSUME AnyStep, InOrder, Calm, Calm', NEW q \in Requests,
         Handled(q, req'[q]), Undisturbed(q),
         FreshCache, \A r \in Requests : FreshRead(r) /\ NotCached(r)
  PROVE  FreshCache' /\ \A r \in Requests : FreshRead(r)' /\ NotCached(r)'
<1> PICK x : x = req'[q]
  OBVIOUS
<1>1. /\ Did(q, x) /\ x.op = req[q].op /\ Active(q) /\ Began(q)
      /\ \A s \in Requests \ {q} : req'[s] = req[s]
      /\ kind' = kind
  BY DEF Handled, SameAsk, Alone, Active, Began, At, AnyStep
<1>2. /\ AtStep(q, req[q]) /\ req[q].op # "none"
      /\ Writes(q) <=> req[q].op # "get"
  BY <1>1, OneRequest DEF AnyStep, InOrder, Writes
<1>3. Writes(q)' <=> Writes(q)
  BY <1>1, StillSets
(* The step does not end a change with an error.                           *)
<1>4. ~(Writes(q) /\ Ends(x, "error"))
  BY <1>3 DEF Calm, Ends, Acked, At
<1>5. ASSUME NEW s \in Requests, s # q, Active(s) \/ Active(s)'
      PROVE  req'[s] = req[s] /\ Active(s) /\ ~Writes(q) /\ ~Writes(s)
  <2>1. req'[s] = req[s] /\ Active(s)
    BY <1>1, <1>5 DEF Active
  <2> QED
    BY <1>1, <1>5, <2>1, CalmSolo
<1> DEFINE Others == \A s \in Requests \ {q} : FreshRead(s)' /\ NotCached(s)'
<1>6. ASSUME nodes' = nodes \/ Writes(q), cache' = cache \/ At(q, "fill") \/ Writes(q)
      PROVE  Others
  <2> SUFFICES ASSUME NEW s \in Requests, s # q
               PROVE  FreshRead(s)' /\ NotCached(s)'
    OBVIOUS
  <2>1. CASE ~Active(s)'
    BY <2>1 DEF FreshRead, NotCached, Active
  <2>2. CASE Active(s)'
    <3>1. req'[s] = req[s] /\ Active(s) /\ ~Writes(q) /\ ~Writes(s)
      BY <1>5, <2>2
    <3>2. nodes' = nodes /\ req[s].op # "delete"
      BY <1>6, <3>1 DEF Writes
    <3>3. FreshRead(s)'
      BY <1>1, <3>1, <3>2, SameSaid DEF FreshRead
    <3> QED
      BY <3>1, <3>2, <3>3 DEF NotCached
  <2> QED
    BY <2>1, <2>2
(* A step that changes neither tree nor cache.                             *)
<1>7. ASSUME UNCHANGED <<nodes, cache>>, ~(Writes(q) /\ req[q].pc \in {"drop", "cache"}),
             x.pc \in {"get", "fill"} => SaidByTree(x.val)
      PROVE  FreshCache' /\ \A r \in Requests : FreshRead(r)' /\ NotCached(r)'
  <2>1. Others
    BY <1>6, <1>7
  <2>2. FreshRead(q)'
    BY <1>1, <1>7, SameSaid DEF FreshRead
  <2>3. NotCached(q)'
    BY <1>1, <1>7 DEF NotCached
  <2>4. FreshCache'
    <3>1. ASSUME NEW s \in Requests, Writes(s), req[s].pc \in {"drop", "cache"}
          PROVE  Changing'
      <4>1. s # q
        BY <1>7, <3>1
      <4>2. req'[s] = req[s]
        BY <1>1, <4>1
      <4> QED
        BY <3>1, <4>2 DEF Changing, Writes
    <3>2. SaidByTree(cache)' = SaidByTree(cache)
      BY <1>1, <1>7 DEF SaidByTree, Nodes, Nothing, Parts
    <3> QED
      BY <1>7, <3>1, <3>2 DEF FreshCache, Changing
  <2> QED
    BY <2>1, <2>2, <2>3, <2>4
(* A step of a change that is on its way.                                  *)
<1>8. ASSUME Writes(q), cache' = cache, x.pc \in {"drop", "cache"}
      PROVE  FreshCache' /\ \A r \in Requests : FreshRead(r)' /\ NotCached(r)'
  <2>1. Others
    BY <1>6, <1>8
  <2>2. Changing'
    BY <1>3, <1>8 DEF Changing
  <2>3. FreshRead(q)' /\ NotCached(q)'
    BY <1>1, <1>8 DEF FreshRead, NotCached
  <2> QED
    BY <2>1, <2>2, <2>3 DEF FreshCache
<1>9. CASE Fails(q, x)
  <2>1. ~Writes(q) /\ UNCHANGED <<nodes, cache>> /\ x.pc = "done"
    BY <1>4, <1>9 DEF Fails, stores, Ends
  <2> QED
    BY <1>7, <2>1
<1>10. CASE Reads(q, x)
  <2>1. UNCHANGED <<nodes, cache>> /\ req[q].pc = "read"
    BY <1>10 DEF Reads, stores, At
  <2>2. x.pc \in {"get", "fill"} => SaidByTree(x.val)
    BY <1>10 DEF Reads, SaidByTree, Ends
  <2> QED
    BY <1>7, <2>1, <2>2
<1>11. CASE Gets(q, x)
  <2>1. UNCHANGED <<nodes, cache>> /\ req[q].pc = "get" /\ x.val = req[q].val
    BY <1>11 DEF Gets, stores, At
  <2>2. SaidByTree(x.val)
    BY <2>1 DEF FreshRead
  <2> QED
    BY <1>7, <2>1, <2>2
<1>12. CASE Fills(q, x)
  <2>1. /\ nodes' = nodes /\ req[q].pc = "fill" /\ cache' = req[q].val
        /\ x.pc \in {"done", "find"}
    BY <1>12 DEF Fills, stores, At, Ends
  <2>2. SaidByTree(req[q].val)
    BY <2>1 DEF FreshRead
  <2>3. SaidByTree(cache)'
    BY <1>1, <2>1, <2>2, SameKind DEF SaidByTree, Nodes
  <2>4. Others
    BY <1>6, <2>1 DEF At
  <2>5. FreshRead(q)' /\ NotCached(q)'
    BY <1>1, <1>2, <2>1 DEF FreshRead, NotCached, AtStep
  <2> QED
    BY <2>3, <2>4, <2>5 DEF FreshCache
<1>13. CASE Puts(q, x)
  <2>1. UNCHANGED <<nodes, cache>> /\ req[q].pc = "put" /\ x.pc \in {"find", "done"}
    BY <1>13 DEF Puts, At, Ends
  <2> QED
    BY <1>7, <2>1
<1>14. CASE Finds(q, x)
  <2>1. /\ UNCHANGED <<nodes, cache>> /\ req[q].pc = "find"
        /\ x.pc \in {"write", "cache", "remove", "done"}
    BY <1>14 DEF Finds, stores, At, Ends
  <2> QED
    BY <1>7, <2>1
<1>15. CASE WritesNode(q, x)
  <2>1. Writes(q)
    BY <1>2, <1>15 DEF WritesNode, At, AtStep
  <2>2. cache' = cache /\ x.pc \in {"drop", "cache"}
    BY <1>4, <1>15, <2>1 DEF WritesNode, FailsAfter
  <2> QED
    BY <1>8, <2>1, <2>2
<1>16. CASE Removes(q, x)
  <2>1. Writes(q) /\ req[q].op = "delete"
    BY <1>2, <1>16 DEF Removes, At, AtStep
  <2>2. cache' = cache /\ (x.pc = "drop" \/ (x.pc = "done" /\ kind = "tags"))
    BY <1>4, <1>16, <2>1 DEF Removes, FailsAfter, Ends
  <2>3. CASE x.pc = "done" /\ kind = "tags"
    <3>1. cache' = None
      BY <1>1, <2>1, <2>2, <2>3 DEF NotCached
    <3>2. Others
      BY <1>6, <2>1, <2>2
    <3>3. FreshRead(q)' /\ NotCached(q)'
      BY <2>3, <3>1 DEF FreshRead, NotCached
    <3> QED
      BY <3>1, <3>2, <3>3 DEF FreshCache
  <2> QED
    BY <1>8, <2>1, <2>2, <2>3
<1>17. CASE Drops(q, x)
  <2>1. Writes(q)
    BY <1>2, <1>17 DEF Drops, At, AtStep
  <2>2. cache' = cache /\ x.pc = "cache"
    BY <1>4, <1>17, <2>1 DEF Drops
  <2> QED
    BY <1>8, <2>1, <2>2
<1>18. CASE Caches(q, x)
  <2>1. Writes(q)
    BY <1>2, <1>18 DEF Caches, At, AtStep
  <2>2. /\ nodes' = nodes /\ Nodes' = Nodes /\ At(q, "cache") /\ x.pc = "done"
        /\ cache' = IF req[q].op = "delete" THEN None ELSE req[q].val
    BY <1>18 DEF Caches, stores, Nodes, Ends
  <2>3. Others
    BY <1>6, <2>1, <2>2
  <2>4. FreshRead(q)' /\ NotCached(q)'
    BY <2>2 DEF FreshRead, NotCached, Active
  <2>5. FreshCache'
    <3>1. CASE req[q].op = "delete"
      BY <2>2, <3>1 DEF FreshCache
    <3>2. CASE req[q].op # "delete"
      <4>1. PICK n \in Nodes : Nodes = {n} /\ nodes[n] = req[q].val
        BY <2>1, <2>2, <3>2 DEF Calm, Undisturbed, Only, At
      <4>2. SaidByTree(cache)'
        BY <2>2, <3>2, <4>1 DEF SaidByTree
      <4> QED
        BY <4>2 DEF FreshCache
    <3> QED
      BY <3>1, <3>2
  <2> QED
    BY <2>3, <2>4, <2>5
<1> QED
  BY <1>1, <1>9, <1>10, <1>11, <1>12, <1>13, <1>14, <1>15, <1>16, <1>17, <1>18
  DEF Did

LEMMA FreshKeeps ==
  ASSUME AnyStep, InOrder, FreshWhenCalm, \A r \in Requests : Undisturbed(r)
  PROVE  FreshWhenCalm'
<1> SUFFICES ASSUME Calm'
             PROVE  FreshCache' /\ \A r \in Requests : FreshRead(r)' /\ NotCached(r)'
  BY DEF FreshWhenCalm, FreshCache, FreshRead, NotCached, Changing
<1>1. Calm
  BY CalmBefore
<1>2. FreshCache /\ \A r \in Requests : FreshRead(r) /\ NotCached(r)
  BY <1>1 DEF FreshWhenCalm, FreshCache, FreshRead, NotCached, Changing
<1>3. kind' = kind
  BY DEF AnyStep
<1>4. ASSUME NEW q \in Requests, Handled(q, req'[q])
      PROVE  FreshCache' /\ \A r \in Requests : FreshRead(r)' /\ NotCached(r)'
  BY <1>1, <1>2, <1>4, FreshHandler
<1>5. ASSUME nodes' = nodes, cache' = cache \/ cache' = None, NEW q \in Requests,
             \A r \in Requests : r = q \/ req'[r] = req[r],
             ~Active(q), req'[q].pc \notin {"get", "fill"},
             kind = "tags" /\ req'[q].op = "delete" => cache' = None
      PROVE  FreshCache' /\ \A r \in Requests : FreshRead(r)' /\ NotCached(r)'
  <2>1. ASSUME NEW r \in Requests PROVE FreshRead(r)' /\ NotCached(r)'
    <3>1. CASE r = q
      BY <1>3, <1>5, <3>1 DEF FreshRead, NotCached
    <3>2. CASE r # q
      <4>1. req'[r] = req[r]
        BY <1>5, <3>2
      <4>2. FreshRead(r)'
        BY <1>2, <1>3, <1>5, <4>1, SameSaid DEF FreshRead
      <4>3. NotCached(r)'
        BY <1>2, <1>3, <1>5, <4>1 DEF NotCached, Active
      <4> QED
        BY <4>2, <4>3
    <3> QED
      BY <3>1, <3>2
  <2>2. FreshCache'
    <3>1. CASE cache' = None
      BY <3>1 DEF FreshCache
    <3>2. CASE cache' = cache
      <4>1. SaidByTree(cache)' = SaidByTree(cache)
        BY <1>3, <1>5, <3>2 DEF SaidByTree, Nodes, Nothing, Parts
      <4>2. Changing => Changing'
        <5>1. ASSUME NEW s \in Requests, Writes(s), req[s].pc \in {"drop", "cache"}
              PROVE  req'[s] = req[s]
          BY <1>5, <5>1 DEF Active
        <5> QED
          BY <5>1 DEF Changing, Writes
      <4> QED
        BY <1>2, <3>2, <4>1, <4>2 DEF FreshCache
    <3> QED
      BY <1>5, <3>1, <3>2
  <2> QED
    BY <2>1, <2>2
<1>6. ASSUME NEW q \in Requests, Begun(q, req'[q])
      PROVE  FreshCache' /\ \A r \in Requests : FreshRead(r)' /\ NotCached(r)'
  <2>1. /\ nodes' = nodes /\ (cache' = cache \/ cache' = None)
        /\ \A r \in Requests : r = q \/ req'[r] = req[r]
        /\ ~Active(q) /\ req'[q].pc \notin {"get", "fill"}
        /\ kind = "tags" /\ req'[q].op = "delete" => cache' = None
    BY <1>6 DEF Begun, Alone, stores, Active, At
  <2> QED
    BY <1>5, <2>1
<1>7. CASE Crashed
  <2>1. /\ nodes' = nodes /\ cache' = None
        /\ \A r \in Requests : req'[r].pc \notin {"get", "fill"}
    BY <1>7 DEF Crashed, stores, Ends, Active
  <2> QED
    BY <2>1 DEF FreshCache, FreshRead, NotCached
<1>8. CASE Rested
  <2>1. nodes' = nodes /\ req' = req /\ (cache' = cache \/ cache' = None)
    BY <1>8 DEF Rested, stores
  <2>2. \A r \in Requests : FreshRead(r)' /\ NotCached(r)'
    BY <1>2, <1>3, <2>1, SameSaid DEF FreshRead, NotCached, Active
  <2>3. SaidByTree(cache) /\ cache' = cache => SaidByTree(cache)'
    BY <1>3, <2>1 DEF SaidByTree, Nodes, Nothing, Parts
  <2>4. FreshCache'
    BY <1>2, <2>1, <2>3 DEF FreshCache, Changing, Writes
  <2> QED
    BY <2>2, <2>4
<1> QED
  BY <1>4, <1>6, <1>7, <1>8 DEF AnyStep

---------------------------------------------------------------------------
LEMMA SerialKeeps ==
  ASSUME AnyStep, TwinInv, SerialInv
  PROVE  SerialInv'
<1> USE DEF SerialInv
<1>1. InOrder /\ Parts' = Parts /\ InObject' = InObject
  BY SameKind DEF TwinInv, AnyStep
<1>2. \A r \in Requests : OwnParts(r)' /\ Undisturbed(r)'
  BY <1>1, OwnPartsKeeps, UndisturbedKeeps
<1>3. \A r \in Requests : \A p \in Parts' : Lasts(r, p)'
  BY <1>1, LastsKeeps
<1>4. DeletedConfigStaysDeleted'
  BY <1>1, DeletedKeeps
<1>5. InObject' => \A o \in objects' : HasKeeper(o)'
  BY <1>1, HasKeeperKeeps
<1>6. FreshWhenCalm'
  BY <1>1, FreshKeeps
<1> QED
  BY <1>2, <1>3, <1>4, <1>5, <1>6

LEMMA InitSerial ==
  ASSUME Init
  PROVE  TwinInv /\ SerialInv
<1>1. /\ Nodes = {} /\ objects = {} /\ cache = None
      /\ \A r \in Requests : req[r] = Idle
  BY DEF Init, Nodes
<1>2. /\ Idle.op = "none" /\ Idle.pc = "idle" /\ Idle.prior = {}
      /\ Idle.node = None /\ Idle.res = "none"
  BY DEF Idle
<1>3. TwinInv
  BY <1>1, <1>2 DEF TwinInv, InOrder, Answered, Acked, At, Began, SeesNodes,
     TwinsOnlyByOverlap
<1>4. \A r \in Requests : ~Writes(r) /\ ~Acked(r) /\ req[r].op # "delete"
  BY <1>1, <1>2 DEF Writes, Acked
<1>5. \A r \in Requests :
        OwnParts(r) /\ Undisturbed(r) /\ \A p \in Parts : Lasts(r, p)
  BY <1>4 DEF OwnParts, Undisturbed, Lasts, Settled
<1>6. DeletedConfigStaysDeleted
  BY <1>4 DEF DeletedConfigStaysDeleted
<1>7. FreshWhenCalm
  BY <1>1, <1>2, <1>4 DEF FreshWhenCalm
<1> QED
  BY <1>1, <1>3, <1>5, <1>6, <1>7 DEF SerialInv

(* In every reachable state requests are in order, each knows the nodes of *)
(* all but those that run with it, and what a request did that nobody      *)
(* overlapped is as it left it: the invariants behind the theorems below.  *)
THEOREM SerialInvariantHolds == Spec => [](TwinInv /\ SerialInv)
<1>1. Init => IInv /\ TwinInv /\ SerialInv
  BY InitHolds, InitSerial
<1>2. IInv /\ TwinInv /\ SerialInv /\ [Next]_vars
        => (IInv /\ TwinInv /\ SerialInv)'
  BY NextKeeps, NextDoes, TwinsKeep, SerialKeeps
<1> QED
  BY <1>1, <1>2, PTL DEF Spec

(* Two nodes of one name, which getNode refuses to choose between          *)
(* (tree.go:1215), come only from two requests that ran at the same time   *)
(* and wrote them.                                                         *)
THEOREM TwinsComeFromOverlap == Spec => []TwinsOnlyByOverlap
<1>1. TwinInv => TwinsOnlyByOverlap
  BY DEF TwinInv
<1> QED
  BY <1>1, SerialInvariantHolds, PTL

(* A part of the settings, a CORS or notification configuration or tags    *)
(* that a request set alone stay until a later request sets or deletes     *)
(* them: PutBucketSettings writes back all it read without undoing it.     *)
THEOREM ChangesLast == Spec => []ChangeLostOnlyByOverlap
<1>1. ASSUME SerialInv PROVE ChangeLostOnlyByOverlap
  <2> SUFFICES ASSUME NEW r \in Requests, NEW p \in Parts, Sets(r, p), Acked(r),
                      ~Overlapped(r),
                      ~ \E q \in Later(r) : Sets(q, p) \/ req[q].op = "delete"
               PROVE  Cardinality(Nodes) = 1 /\ \A n \in Nodes : nodes[n][p] = r
    BY DEF ChangeLostOnlyByOverlap
  <2>1. Settled(r, p)
    BY DEF Settled
  <2>2. PICK n \in Nodes : Nodes = {n} /\ nodes[n][p] = r
    BY <1>1, <2>1 DEF SerialInv, Lasts
  <2>3. Cardinality(Nodes) = 1
    BY <2>2, FS_Singleton
  <2> QED
    BY <2>2, <2>3
<1> QED
  BY <1>1, SerialInvariantHolds, PTL

(* What a DELETE that ran alone removed stays away until a later PUT.      *)
THEOREM DeletedConfigIsGone == Spec => []DeletedConfigStaysDeleted
<1>1. SerialInv => DeletedConfigStaysDeleted
  BY DEF SerialInv
<1> QED
  BY <1>1, SerialInvariantHolds, PTL

(* Without failures no object of an acknowledged PUT that ran alone stays  *)
(* behind when its node names another or is gone: whoever replaces or      *)
(* removes the node has seen what it names, and deletes that.              *)
THEOREM NoOrphans == Spec => []OrphanOnlyByOverlap
<1>1. ASSUME SerialInv, IInv PROVE OrphanOnlyByOverlap
  <2> SUFFICES ASSUME InObject, faults = 0, \A r \in Requests : ~Active(r),
                      NEW o \in objects, Acked(o), ~Overlapped(o)
               PROVE  \E n \in Nodes : nodes[n]["conf"] = o
    BY DEF OrphanOnlyByOverlap
  <2>1. HasKeeper(o)
    BY <1>1 DEF SerialInv
  <2> QED
    BY <2>1 DEF HasKeeper, Active, At
<1> QED
  BY <1>1, InvariantHolds, SerialInvariantHolds, PTL

(* At rest the cache says what the tree says, as long as no request that   *)
(* writes was overlapped by another or failed: the layer fills it from     *)
(* what it read or wrote, and a write changes both.                        *)
THEOREM CacheIsFresh == Spec => []StaleOnlyByOverlapOrFailure
<1>1. ASSUME SerialInv PROVE StaleOnlyByOverlapOrFailure
  <2> SUFFICES ASSUME \A r \in Requests : ~Active(r),
                      \A r \in Requests : Writes(r) => ~Overlapped(r) /\ Acked(r)
               PROVE  \/ cache = None
                      \/ IF Nodes = {} THEN cache = Nothing
                         ELSE \E n \in Nodes : cache = nodes[n]
    BY DEF StaleOnlyByOverlapOrFailure
  <2>1. Calm
    BY DEF Calm
  <2>2. ~ \E r \in Requests : Writes(r) /\ req[r].pc \in {"drop", "cache"}
    BY DEF Active
  <2> QED
    BY <1>1, <2>1, <2>2 DEF SerialInv, FreshWhenCalm, SaidByTree
<1> QED
  BY <1>1, SerialInvariantHolds, PTL
=============================================================================
