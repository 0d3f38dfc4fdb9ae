----------------------- MODULE ObjectVersions_proofs -----------------------
(***************************************************************************)
(* Proofs about ObjectVersions, for any number of requests, any number of  *)
(* them in flight, any number of failures and versioning changes.          *)
(***************************************************************************)
EXTENDS ObjectVersions, FiniteSetTheorems, TLAPS

USE DEF Modes

(* A request record stays one when a field takes another of its values.    *)
LEMMA FieldTypes ==
  ASSUME NEW y \in Request
  PROVE  /\ \A p \in {"create", "getnull", "add", "move", "clear", "lock",
                      "cache", "find", "evict", "delete", "remove", "clean",
                      "head", "nodes", "fill", "done"} :
              [y EXCEPT !.pc = p] \in Request
         /\ \A n \in Requests \cup {None} : [y EXCEPT !.node = n] \in Request
         /\ \A o \in Requests : [y EXCEPT !.oid = o] \in Request
         /\ \A S \in SUBSET Requests : [y EXCEPT !.todo = S] \in Request
         /\ \A S \in SUBSET Requests : [y EXCEPT !.ans = S] \in Request
         /\ \A x \in {"ok", "error", "notfound", "crashed"} :
              [y EXCEPT !.res = x] \in Request
         /\ \A o \in {"put", "delete", "head", "list"} :
              [y EXCEPT !.op = o] \in Request
         /\ \A v \in {"latest", "null"} \cup Requests :
              [y EXCEPT !.vid = v] \in Request
         /\ \A m \in Modes : [y EXCEPT !.mode = m] \in Request
         /\ \A S \in SUBSET Requests : [y EXCEPT !.prior = S] \in Request
<1>1. ASSUME NEW p \in {"create", "getnull", "add", "move", "clear", "lock",
                       "cache", "find", "evict", "delete", "remove", "clean",
                       "head", "nodes", "fill", "done"}
      PROVE  [y EXCEPT !.pc = p] \in Request
  BY DEF Request
<1>2. ASSUME NEW n \in Requests \cup {None}
      PROVE  [y EXCEPT !.node = n] \in Request
  BY DEF Request
<1>3. ASSUME NEW o \in Requests PROVE [y EXCEPT !.oid = o] \in Request
  BY DEF Request
<1>4. ASSUME NEW S \in SUBSET Requests
      PROVE  /\ [y EXCEPT !.todo = S] \in Request
             /\ [y EXCEPT !.ans = S] \in Request
             /\ [y EXCEPT !.prior = S] \in Request
  BY DEF Request
<1>5. ASSUME NEW x \in {"ok", "error", "notfound", "crashed"}
      PROVE  [y EXCEPT !.res = x] \in Request
  BY DEF Request
<1>6. ASSUME NEW o \in {"put", "delete", "head", "list"}
      PROVE  [y EXCEPT !.op = o] \in Request
  BY DEF Request
<1>7. ASSUME NEW v \in {"latest", "null"} \cup Requests
      PROVE  [y EXCEPT !.vid = v] \in Request
  BY DEF Request
<1>8. ASSUME NEW m \in Modes PROVE [y EXCEPT !.mode = m] \in Request
  BY DEF Request
<1> QED
  BY <1>1, <1>2, <1>3, <1>4, <1>5, <1>6, <1>7, <1>8

(* Every record a step gives a request is a request record.                *)
LEMMA RecordTypes ==
  ASSUME TypeOK, NEW r \in Requests
  PROVE  /\ \A p \in {"create", "getnull", "add", "move", "clear", "lock",
                      "cache", "find", "evict", "delete", "remove", "clean",
                      "head", "nodes", "fill", "done"} : To(r, p) \in Request
         /\ \A x \in {"ok", "error", "notfound", "crashed"} :
              Done(r, x) \in Request
         /\ Failed(r) \in Request
         /\ \A o \in Requests : Answered(r, o) \in Request
         /\ \A next \in AfterAdd(r) : next \in Request
<1>1. req[r] \in Request
  BY DEF TypeOK
<1>2. ASSUME NEW p \in {"create", "getnull", "add", "move", "clear", "lock",
                       "cache", "find", "evict", "delete", "remove", "clean",
                       "head", "nodes", "fill", "done"}
      PROVE  To(r, p) \in Request
  BY <1>1 DEF Request, To
<1>3. ASSUME NEW x \in {"ok", "error", "notfound", "crashed"}
      PROVE  Done(r, x) \in Request
  <2>1. [req[r] EXCEPT !.pc = "done"] \in Request
    BY <1>1, FieldTypes
  <2>2. [[req[r] EXCEPT !.pc = "done"] EXCEPT !.node = None] \in Request
    BY <2>1, FieldTypes
  <2>3. [[[req[r] EXCEPT !.pc = "done"] EXCEPT !.node = None]
           EXCEPT !.todo = {}] \in Request
    BY <2>2, FieldTypes
  <2>4. [[[[req[r] EXCEPT !.pc = "done"] EXCEPT !.node = None]
           EXCEPT !.todo = {}] EXCEPT !.res = x] \in Request
    BY <2>3, FieldTypes
  <2> QED
    BY <2>4 DEF Done
<1>4. Failed(r) \in Request
  <2>1. SUFFICES ASSUME At(r, "remove")
                 PROVE  [req[r] EXCEPT !.pc = "clean", !.res = "error"]
                          \in Request
    BY <1>3 DEF Failed
  <2> DEFINE x == [req[r] EXCEPT !.pc = "clean", !.res = "error"]
  <2>2. /\ x.op = req[r].op /\ x.vid = req[r].vid /\ x.mode = req[r].mode
        /\ x.node = req[r].node /\ x.oid = req[r].oid
        /\ x.todo = req[r].todo /\ x.ans = req[r].ans
        /\ x.prior = req[r].prior /\ x.pc = "clean" /\ x.res = "error"
    BY <1>1 DEF Request
  <2> QED
    BY <1>1, <2>2 DEF Request
<1>5. ASSUME NEW o \in Requests
      PROVE  Answered(r, o) \in Request
  <2>1. Done(r, "ok") \in Request
    BY <1>3
  <2> QED
    BY <2>1 DEF Request, Answered
<1>6. \A next \in AfterAdd(r) : next \in Request
  BY <1>2 DEF AfterAdd
<1> QED
  BY <1>2, <1>3, <1>4, <1>5, <1>6

---------------------------------------------------------------------------
(* The two parts of IInv that the tree decides, for one request record.    *)

SameAsk(x, y) == /\ x.op = y.op /\ x.vid = y.vid
                 /\ x.mode = y.mode /\ x.prior = y.prior

MoveOk(x) == x.pc = "move" => /\ x.node \in Requests
                              /\ req[x.node].pc # "idle"
                              /\ WritesNull(x.node)

DeleteOk(x) ==
  x.pc \in {"evict", "delete", "remove"} =>
    /\ x.node \in Requests /\ x.oid \in Requests
    /\ req[x.node].pc # "idle" /\ req[x.oid].pc # "idle"
    /\ ~WritesNull(x.node) => x.node = x.oid
    /\ ~WritesNull(x.oid) => \/ x.vid = x.oid
                             \/ x.vid = "latest" /\ x.mode = "Unversioned"

(* A record the handler of request r may leave behind.                     *)
GoodNext(r, x) ==
  /\ x \in Request /\ x.pc # "idle" /\ SameAsk(x, req[r])
  /\ AtStep(x) /\ MoveOk(x) /\ DeleteOk(x)

(* A step of request r's handler changes what the other requests asked,    *)
(* and what their history says, in no way.                                 *)
LEMMA HandlerFrame ==
  ASSUME IInv, NEW r \in Requests, Active(r), NEW x, GoodNext(r, x),
         req' = [req EXCEPT ![r] = x]
  PROVE  /\ req' \in [Requests -> Request]
         /\ \A q \in Requests :
              /\ AtStep(req[q])'
              /\ PriorFinished(q)'
              /\ WritesNull(q)' <=> WritesNull(q)
              /\ req'[q].pc = "idle" <=> req[q].pc = "idle"
              /\ MovesNull(q)'
              /\ DeletesNamed(q)'
         /\ \A d, q \in Requests :
              MayDeleteVersion(d, q)' <=> MayDeleteVersion(d, q)
<1> USE DEF GoodNext, SameAsk
<1>1. req \in [Requests -> Request]
  BY DEF IInv, TypeOK
<1>2. req' \in [Requests -> Request]
  BY <1>1
<1>3. req'[r] = x /\ \A q \in Requests \ {r} : req'[q] = req[q]
  BY <1>1
<1>4. \A q \in Requests : WritesNull(q)' <=> WritesNull(q)
  BY <1>3 DEF WritesNull
<1>5. \A q \in Requests : req'[q].pc = "idle" <=> req[q].pc = "idle"
  BY <1>3 DEF Active
<1>6. \A q \in Requests : AtStep(req[q])'
  <2>1. \A q \in Requests : AtStep(req'[q])
    BY <1>3 DEF IInv
  <2> QED
    BY <2>1 DEF AtStep, Idle
<1>7. \A q \in Requests : PriorFinished(q)'
  <2> TAKE q \in Requests
  <2>1. req'[q].prior = req[q].prior
    BY <1>3
  <2>2. \A p \in req[q].prior : p \in Requests /\ req[p].pc = "done"
    BY <1>1 DEF IInv, PriorFinished, At, Request
  <2>3. \A p \in req[q].prior : req'[p].pc = "done"
    <3> TAKE p \in req[q].prior
    <3>1. p # r
      BY <2>2 DEF Active
    <3> QED
      BY <3>1, <2>2, <1>3
  <2> QED
    BY <2>1, <2>3 DEF PriorFinished, At
<1>8. \A q \in Requests : MovesNull(q)'
  <2> TAKE q \in Requests
  <2>1. MoveOk(req'[q])
    BY <1>3, <1>1 DEF IInv, MovesNull, MoveOk, AtStep, At
  <2> QED
    BY <2>1, <1>4, <1>5 DEF MovesNull, MoveOk, At
<1>9. \A q \in Requests : DeletesNamed(q)'
  <2> TAKE q \in Requests
  <2>1. DeleteOk(req'[q])
    BY <1>3, <1>1 DEF IInv, DeletesNamed, DeleteOk
  <2> QED
    BY <2>1, <1>4, <1>5 DEF DeletesNamed, DeleteOk
<1>10. \A d, q \in Requests :
        MayDeleteVersion(d, q)' <=> MayDeleteVersion(d, q)
  BY <1>3 DEF MayDeleteVersion
<1> QED
  BY <1>2, <1>4, <1>5, <1>6, <1>7, <1>8, <1>9, <1>10

(* A handler's step that leaves both stores alone.                         *)
LEMMA LocalStep ==
  ASSUME IInv, NEW r \in Requests, Active(r), NEW x, GoodNext(r, x),
         req' = [req EXCEPT ![r] = x], faults' \in Nat,
         UNCHANGED <<versioning, stores, toggles>>,
         names' \in Requests \cup {None}, objCache' \subseteq Requests,
         lists' \subseteq Requests,
         x.op = "put" /\ ~WritesNull(r) =>
           (x.pc \in {"add", "lock", "cache"} \/ x.res = "ok" =>
              x.pc # "add" /\ req[r].pc \in {"lock", "cache"})
  PROVE  IInv'
<1>1. TypeOK'
  BY HandlerFrame DEF IInv, TypeOK, stores, Nodes
<1>2. NodesMatchWriters'
  BY HandlerFrame DEF IInv, NodesMatchWriters, TypeOK, Node, stores, Nodes
<1>3. ASSUME NEW q \in Requests PROVE Kept(q)'
  <2>1. CASE q = r
    <3>1. req'[r] = x /\ (WritesNull(r)' <=> WritesNull(r))
      BY HandlerFrame DEF IInv, TypeOK
    <3>2. Kept(r)
      BY DEF IInv
    <3> QED
      BY <2>1, <3>1, <3>2, HandlerFrame
      DEF Kept, stores, Nodes, At, GoodNext, SameAsk
  <2>2. CASE q # r
    <3>1. req'[q] = req[q] /\ Kept(q)
      BY <2>2 DEF IInv, TypeOK
    <3> QED
      BY <3>1, HandlerFrame DEF Kept, stores, Nodes, At
  <2> QED
    BY <2>1, <2>2
<1> QED
  BY <1>1, <1>2, <1>3, HandlerFrame DEF IInv

(* The records an error, an end or a next step leaves behind.              *)
LEMMA FailedIsGood ==
  ASSUME IInv, NEW r \in Requests, Active(r)
  PROVE  GoodNext(r, Failed(r)) /\ Failed(r).res = "error"
                               /\ Failed(r).pc \in {"done", "clean"}
<1>1. req[r] \in Request /\ AtStep(req[r]) /\ Failed(r) \in Request
  BY RecordTypes DEF IInv, TypeOK
<1>2. SameAsk(Failed(r), req[r]) /\ Failed(r).res = "error"
      /\ \/ Failed(r).pc = "done"
         \/ Failed(r).pc = "clean" /\ req[r].op = "delete"
  <2>1. CASE At(r, "remove")
    <3>1. Failed(r) = [req[r] EXCEPT !.pc = "clean", !.res = "error"]
      BY <2>1 DEF Failed
    <3>2. req[r].op = "delete"
      BY <1>1, <2>1 DEF AtStep, At
    <3> QED
      BY <1>1, <3>1, <3>2 DEF SameAsk, Request
  <2>2. CASE ~At(r, "remove")
    <3>1. Failed(r) = [req[r] EXCEPT !.pc = "done", !.node = None,
                                     !.todo = {}, !.res = "error"]
      BY <2>2 DEF Failed, Done
    <3> QED
      BY <1>1, <3>1 DEF SameAsk, Request
  <2> QED
    BY <2>1, <2>2
<1>3. AtStep(Failed(r))
  BY <1>2 DEF AtStep, SameAsk
<1> QED
  BY <1>1, <1>2, <1>3 DEF GoodNext, MoveOk, DeleteOk

(* A handler may end at any step, with any result.                         *)
LEMMA DoneIsGood ==
  ASSUME IInv, NEW r \in Requests, Active(r),
         NEW e \in {"ok", "error", "notfound", "crashed"}
  PROVE  GoodNext(r, Done(r, e)) /\ Done(r, e).res = e
                                /\ Done(r, e).pc = "done"
<1>1. req[r] \in Request /\ Done(r, e) \in Request
  BY RecordTypes DEF IInv, TypeOK
<1>2. SameAsk(Done(r, e), req[r]) /\ Done(r, e).res = e
      /\ Done(r, e).pc = "done"
  BY <1>1 DEF Done, SameAsk, Request
<1>3. AtStep(Done(r, e))
  BY <1>2 DEF AtStep
<1> QED
  BY <1>1, <1>2, <1>3 DEF GoodNext, MoveOk, DeleteOk

(* A handler that only goes on: to a step whose demands already hold.      *)
LEMMA ToIsGood ==
  ASSUME IInv, NEW r \in Requests, Active(r),
         NEW p \in {"create", "getnull", "add", "move", "clear", "lock",
                    "cache", "find", "evict", "delete", "remove", "clean",
                    "head", "fill"},
         AtStep(To(r, p)), MoveOk(To(r, p)), DeleteOk(To(r, p))
  PROVE  GoodNext(r, To(r, p)) /\ To(r, p).pc = p
                              /\ To(r, p).res = req[r].res
                              /\ To(r, p).op = req[r].op
<1>1. req[r] \in Request /\ To(r, p) \in Request
  BY RecordTypes DEF IInv, TypeOK
<1>2. SameAsk(To(r, p), req[r]) /\ To(r, p).pc = p
      /\ To(r, p).res = req[r].res /\ To(r, p).op = req[r].op
  BY <1>1 DEF To, SameAsk, Request
<1> QED
  BY <1>1, <1>2 DEF GoodNext

(* The steps of a handler that change no store.                            *)
LEMMA CallFailsKeeps ==
  ASSUME IInv, NEW r \in Requests, CallFails(r)
  PROVE  IInv'
<1>1. Active(r)
  BY DEF CallFails, Active
<1>2. GoodNext(r, Failed(r)) /\ Failed(r).res = "error"
      /\ Failed(r).pc \in {"done", "clean"}
  BY <1>1, FailedIsGood
<1>3. /\ req' = [req EXCEPT ![r] = Failed(r)] /\ faults' \in Nat
      /\ UNCHANGED <<versioning, stores, caches, toggles>>
  BY DEF CallFails, Fault, IInv, TypeOK
<1>4. /\ names' \in Requests \cup {None}
      /\ objCache' \subseteq Requests /\ lists' \subseteq Requests
  BY <1>3 DEF caches, IInv, TypeOK
<1> QED
  BY <1>1, <1>2, <1>3, <1>4, LocalStep

(* The caches stay typed by a step that leaves them alone.                 *)
LEMMA CachesTyped ==
  ASSUME IInv, UNCHANGED caches
  PROVE  /\ names' \in Requests \cup {None}
         /\ objCache' \subseteq Requests /\ lists' \subseteq Requests
BY DEF IInv, TypeOK, caches

(* GetUnversioned before AddVersion replaces a null version.               *)
LEMMA FindNullKeeps ==
  ASSUME IInv, NEW r \in Requests, FindNull(r)
  PROVE  IInv'
<1> DEFINE Moving(n) == [req[r] EXCEPT !.pc = "move", !.node = n]
<1>1. Active(r) /\ req[r] \in Request /\ req[r].mode # "Enabled"
      /\ AtStep(req[r]) /\ req[r].pc = "getnull"
  BY DEF FindNull, At, Active, IInv, TypeOK, AtStep
<1>2. GoodNext(r, Done(r, "error")) /\ Done(r, "error").res = "error"
      /\ Done(r, "error").pc = "done"
  BY <1>1, DoneIsGood
<1>3. GoodNext(r, To(r, "add")) /\ To(r, "add").res = req[r].res
      /\ To(r, "add").op = req[r].op
  <2>1. To(r, "add").pc = "add" /\ To(r, "add").res = req[r].res
    BY <1>1 DEF To, Request
  <2>2. AtStep(To(r, "add")) /\ MoveOk(To(r, "add")) /\ DeleteOk(To(r, "add"))
    BY <1>1, <2>1 DEF AtStep, MoveOk, DeleteOk
  <2> QED
    BY <1>1, <2>2, ToIsGood
<1>4. ASSUME NEW n \in NullNodes PROVE GoodNext(r, Moving(n))
  <2>1. n \in Requests /\ req[n].pc # "idle" /\ WritesNull(n)
    BY DEF NullNodes, IInv, TypeOK, NodesMatchWriters
  <2>2. /\ Moving(n) \in Request /\ SameAsk(Moving(n), req[r])
        /\ Moving(n).pc = "move" /\ Moving(n).node = n
        /\ Moving(n).res = req[r].res
    BY <1>1, <2>1 DEF Request, SameAsk
  <2>3. AtStep(Moving(n))
    BY <1>1, <2>1, <2>2 DEF AtStep, SameAsk
  <2> HIDE DEF Moving
  <2> QED
    BY <2>1, <2>2, <2>3 DEF GoodNext, MoveOk, DeleteOk
<1>5. PICK x : GoodNext(r, x) /\ Step(r, x)
  BY <1>2, <1>3, <1>4 DEF FindNull
<1>6. WritesNull(r)
  BY <1>1 DEF WritesNull
<1>7. /\ req' = [req EXCEPT ![r] = x] /\ faults' \in Nat
      /\ UNCHANGED <<versioning, stores, caches, toggles>>
  BY <1>5 DEF FindNull, Step, IInv, TypeOK
<1> QED
  BY <1>1, <1>5, <1>6, <1>7, CachesTyped, LocalStep

(* clearOutdatedVersionInfo and PutLockInfo go on to the cache, or fail.   *)
LEMMA AfterWriteKeeps ==
  ASSUME IInv, NEW r \in Requests, ClearOutdated(r) \/ PutLockInfo(r)
  PROVE  IInv'
<1>1. Active(r) /\ req[r] \in Request /\ AtStep(req[r])
      /\ \/ req[r].pc = "clear" /\ WritesNull(r)
         \/ req[r].pc = "lock"
  BY DEF ClearOutdated, PutLockInfo, At, Active, IInv, TypeOK, AtStep,
         WritesNull
<1>2. ASSUME NEW p \in {"lock", "cache"}, p = "lock" => req[r].op = "put"
      PROVE  GoodNext(r, To(r, p))
  <2>1. To(r, p).pc = p /\ To(r, p).res = req[r].res
        /\ To(r, p).op = req[r].op
    BY <1>1 DEF To, Request
  <2>2. AtStep(To(r, p)) /\ MoveOk(To(r, p)) /\ DeleteOk(To(r, p))
    BY <1>1, <1>2, <2>1 DEF AtStep, MoveOk, DeleteOk
  <2> QED
    BY <1>1, <2>2, ToIsGood
<1>3. GoodNext(r, Failed(r)) /\ Failed(r).res = "error"
      /\ Failed(r).pc \in {"done", "clean"}
  BY <1>1, FailedIsGood
<1>4. \A next \in AfterAdd(r) : GoodNext(r, next)
  BY <1>2 DEF AfterAdd
<1>5. PICK x : /\ GoodNext(r, x) /\ req' = [req EXCEPT ![r] = x]
               /\ \/ x = Failed(r)
                  \/ x \in {To(r, "lock"), To(r, "cache")}
               /\ faults' \in Nat
  BY <1>2, <1>3, <1>4
  DEF ClearOutdated, PutLockInfo, Replied, Step, Fault, AfterAdd,
      IInv, TypeOK
<1>6. x.pc # "add" /\ (x.res = "ok" => FALSE)
  BY <1>1, <1>3, <1>5 DEF To, AtStep, Request
<1>7. UNCHANGED <<versioning, stores, caches, toggles>>
  BY DEF ClearOutdated, PutLockInfo
<1> QED
  BY <1>1, <1>3, <1>5, <1>6, <1>7, CachesTyped, LocalStep

(* The cache updates that end a handler.                                   *)
LEMMA FinishKeeps ==
  ASSUME IInv, NEW r \in Requests,
         CachePut(r) \/ CleanLists(r) \/ DropName(r)
  PROVE  IInv'
<1>1. Active(r) /\ AtStep(req[r])
  BY DEF CachePut, CleanLists, DropName, At, Active, IInv
<1>2. PICK e \in {"ok", "error"} : Step(r, Done(r, e))
  BY DEF CachePut, CleanLists, DropName
<1>3. GoodNext(r, Done(r, e)) /\ Done(r, e).pc = "done"
  BY <1>1, DoneIsGood
<1>4. /\ req' = [req EXCEPT ![r] = Done(r, e)] /\ faults' \in Nat
      /\ UNCHANGED <<versioning, stores, toggles>>
  BY <1>2 DEF CachePut, CleanLists, DropName, Step, IInv, TypeOK, stores
<1>5. /\ names' \in Requests \cup {None}
      /\ objCache' \subseteq Requests /\ lists' \subseteq Requests
  BY DEF CachePut, CleanLists, DropName, IInv, TypeOK
<1>6. Done(r, e).op = "put" => req[r].pc = "cache"
  BY <1>1, <1>3 DEF CachePut, CleanLists, DropName, At, AtStep, GoodNext,
                    SameAsk
<1> QED
  BY <1>1, <1>3, <1>4, <1>5, <1>6, LocalStep

(* What a DELETE finds under the version id it was given.                  *)
LEMMA FoundIsNamed ==
  ASSUME IInv, NEW r \in Requests, At(r, "find"), req[r].op = "delete",
         NEW n \in Named(Target(r))
  PROVE  /\ n \in Requests /\ tree[n].oid \in Requests
         /\ req[n].pc # "idle" /\ req[tree[n].oid].pc # "idle"
         /\ ~WritesNull(n) => n = tree[n].oid
         /\ ~WritesNull(tree[n].oid) =>
              \/ req[r].vid = tree[n].oid
              \/ req[r].vid = "latest" /\ req[r].mode = "Unversioned"
<1>1. n \in Nodes
  BY DEF Named, NullNodes, Latest
<1>2. /\ n \in Requests /\ tree[n].oid \in Requests
      /\ req[n].pc # "idle" /\ req[tree[n].oid].pc # "idle"
      /\ tree[n].null <=> WritesNull(n)
      /\ tree[n].null <=> WritesNull(tree[n].oid)
      /\ ~tree[n].null => n = tree[n].oid
  BY <1>1 DEF IInv, TypeOK, Node, NodesMatchWriters
<1>3. ASSUME ~tree[n].null
      PROVE  \/ req[r].vid = tree[n].oid
             \/ req[r].vid = "latest" /\ req[r].mode = "Unversioned"
  <2>1. Target(r) # "null"
    BY <1>3 DEF Named, NullNodes
  <2>2. Target(r) = req[r].vid
    BY <2>1 DEF Target
  <2>3. CASE Target(r) = "latest"
    <3>1. req[r].mode # "Suspended"
      BY <2>1, <2>2, <2>3 DEF Target
    <3>2. req[r].mode # "Enabled"
      BY <2>2, <2>3 DEF IInv, AtStep, At
    <3>3. req[r].mode \in Modes
      BY DEF IInv, TypeOK, Request
    <3> QED
      BY <2>2, <2>3, <3>1, <3>2, <3>3
  <2>4. CASE Target(r) # "latest"
    BY <2>1, <2>2, <2>4 DEF Named
  <2> QED
    BY <2>3, <2>4
<1> QED
  BY <1>2, <1>3

(* getNodeVersionToDelete finds what the DELETE asked for.                 *)
LEMMA FindVersionKeeps ==
  ASSUME IInv, NEW r \in Requests, FindVersion(r)
  PROVE  IInv'
<1> DEFINE Found(n) ==
      [req[r] EXCEPT !.node = n, !.oid = tree[n].oid,
                     !.pc = IF tree[n].marker THEN AfterOld(r) ELSE "evict"]
<1>1. Active(r) /\ req[r] \in Request /\ AtStep(req[r])
      /\ req[r].pc = "find" /\ req[r].op = "delete" /\ At(r, "find")
  BY DEF FindVersion, At, Active, IInv, TypeOK
<1>2. ASSUME NEW n \in Named(Target(r))
      PROVE  GoodNext(r, Found(n)) /\ Found(n).op = "delete"
  <2>1. /\ n \in Requests /\ tree[n].oid \in Requests
        /\ req[n].pc # "idle" /\ req[tree[n].oid].pc # "idle"
        /\ ~WritesNull(n) => n = tree[n].oid
        /\ ~WritesNull(tree[n].oid) =>
             \/ req[r].vid = tree[n].oid
             \/ req[r].vid = "latest" /\ req[r].mode = "Unversioned"
    BY <1>1, FoundIsNamed
  <2>2. /\ AfterOld(r) \in {"remove", "getnull"}
        /\ AfterOld(r) = "getnull" => req[r].mode # "Enabled"
    BY <1>1 DEF AfterOld, Target
  <2>3. /\ Found(n) \in Request /\ SameAsk(Found(n), req[r])
        /\ Found(n).node = n /\ Found(n).oid = tree[n].oid
        /\ Found(n).res = req[r].res
        /\ Found(n).pc \in {"evict", AfterOld(r)}
    <3>1. [req[r] EXCEPT !.node = n] \in Request
      BY <1>1, <2>1, FieldTypes
    <3>2. [[req[r] EXCEPT !.node = n] EXCEPT !.oid = tree[n].oid] \in Request
      BY <2>1, <3>1, FieldTypes
    <3>3. ASSUME NEW p \in {"evict", AfterOld(r)}
          PROVE  [[[req[r] EXCEPT !.node = n] EXCEPT !.oid = tree[n].oid]
                    EXCEPT !.pc = p] \in Request
      BY <2>2, <3>2, FieldTypes
    <3>4. Found(n) \in Request
      BY <3>3
    <3>5. /\ SameAsk(Found(n), req[r])
          /\ Found(n).node = n /\ Found(n).oid = tree[n].oid
          /\ Found(n).res = req[r].res
          /\ Found(n).pc \in {"evict", AfterOld(r)}
      BY <1>1 DEF Request, SameAsk
    <3> QED
      BY <3>4, <3>5
  <2> HIDE DEF Found
  <2>4. AtStep(Found(n))
    BY <1>1, <2>2, <2>3 DEF AtStep, SameAsk
  <2>5. MoveOk(Found(n)) /\ DeleteOk(Found(n))
    BY <2>1, <2>2, <2>3 DEF MoveOk, DeleteOk, SameAsk
  <2> QED
    BY <1>1, <2>2, <2>3, <2>4, <2>5 DEF GoodNext, SameAsk
<1>3. /\ GoodNext(r, Done(r, "error")) /\ GoodNext(r, Done(r, "ok"))
  BY <1>1, DoneIsGood
<1>4. PICK x : GoodNext(r, x) /\ Step(r, x)
  BY <1>2, <1>3 DEF FindVersion
<1>5. /\ req' = [req EXCEPT ![r] = x] /\ faults' \in Nat
      /\ UNCHANGED <<versioning, stores, caches, toggles>>
      /\ x.op = "delete"
  BY <1>1, <1>4 DEF FindVersion, Step, IInv, TypeOK, GoodNext, SameAsk
<1> QED
  BY <1>1, <1>4, <1>5, CachesTyped, LocalStep

(* objectDelete evicts the cached object first.                            *)
LEMMA EvictObjectKeeps ==
  ASSUME IInv, NEW r \in Requests, EvictObject(r)
  PROVE  IInv'
<1>1. Active(r) /\ req[r] \in Request /\ AtStep(req[r])
      /\ req[r].pc = "evict" /\ req[r].op = "delete" /\ DeletesNamed(r)
  BY DEF EvictObject, At, Active, IInv, TypeOK, AtStep
<1>2. /\ To(r, "delete").pc = "delete" /\ SameAsk(To(r, "delete"), req[r])
      /\ To(r, "delete").node = req[r].node
      /\ To(r, "delete").oid = req[r].oid /\ To(r, "delete").res = req[r].res
  BY <1>1 DEF To, Request, SameAsk
<1>3. AtStep(To(r, "delete")) /\ MoveOk(To(r, "delete"))
      /\ DeleteOk(To(r, "delete"))
  BY <1>1, <1>2 DEF AtStep, MoveOk, DeleteOk, DeletesNamed, SameAsk
<1>4. GoodNext(r, To(r, "delete")) /\ To(r, "delete").op = "delete"
  BY <1>1, <1>3, ToIsGood
<1>5. /\ req' = [req EXCEPT ![r] = To(r, "delete")] /\ faults' \in Nat
      /\ UNCHANGED <<versioning, stores, toggles>>
      /\ names' \in Requests \cup {None}
      /\ objCache' \subseteq Requests /\ lists' \subseteq Requests
  BY DEF EvictObject, Step, IInv, TypeOK, stores
<1> QED
  BY <1>1, <1>4, <1>5, LocalStep

(* A read ends with an answer.                                             *)
LEMMA AnsweredIsGood ==
  ASSUME IInv, NEW r \in Requests, Active(r), NEW o \in Requests
  PROVE  GoodNext(r, Answered(r, o))
<1>1. Done(r, "ok") \in Request /\ Answered(r, o) \in Request
  BY RecordTypes DEF IInv
<1>2. SameAsk(Done(r, "ok"), req[r]) /\ Done(r, "ok").pc = "done"
  BY DoneIsGood DEF GoodNext
<1>3. SameAsk(Answered(r, o), req[r]) /\ Answered(r, o).pc = "done"
  BY <1>1, <1>2 DEF Answered, SameAsk, Request
<1> QED
  BY <1>1, <1>3 DEF GoodNext, AtStep, MoveOk, DeleteOk

(* HEAD and listings change caches only.                                   *)
LEMMA ReadKeeps ==
  ASSUME IInv, NEW r \in Requests, ReadStep(r)
  PROVE  IInv'
<1>1. Active(r) /\ req[r] \in Request /\ AtStep(req[r])
      /\ req[r].op \in {"head", "list"}
  BY DEF ReadStep, FindToRead, HeadObject, CacheRead, FetchNodes,
         ReadNode, CacheList, At, Active, IInv, TypeOK, AtStep
<1>2. \A e \in {"ok", "error", "notfound"} : GoodNext(r, Done(r, e))
  BY <1>1, DoneIsGood
<1>3. \A o \in Requests : GoodNext(r, Answered(r, o))
  BY <1>1, AnsweredIsGood
<1>4. CASE FindToRead(r)
  <2> DEFINE Read(n) == [req[r] EXCEPT !.pc = "head", !.oid = tree[n].oid]
  <2>1. ASSUME NEW n \in Nodes PROVE GoodNext(r, Read(n))
    <3>1. tree[n].oid \in Requests
      BY DEF IInv, TypeOK, Node
    <3>2. /\ Read(n) \in Request /\ SameAsk(Read(n), req[r])
          /\ Read(n).pc = "head" /\ Read(n).oid = tree[n].oid
          /\ Read(n).res = req[r].res
      <4>1. Read(n) \in Request
        BY <1>1, <3>1 DEF Request
      <4>2. /\ SameAsk(Read(n), req[r])
            /\ Read(n).pc = "head" /\ Read(n).oid = tree[n].oid
            /\ Read(n).res = req[r].res
        BY <1>1 DEF Request, SameAsk
      <4> QED
        BY <4>1, <4>2
    <3> HIDE DEF Read
    <3>3. req[r].op = "head" /\ req[r].res \in {"none", "error"}
      BY <1>1, <1>4 DEF FindToRead, AtStep, At
    <3>4. AtStep(Read(n))
      BY <3>1, <3>2, <3>3 DEF AtStep, SameAsk
    <3> QED
      BY <3>2, <3>4 DEF GoodNext, MoveOk, DeleteOk
  <2>2. \A n \in Named(req[r].vid) : n \in Nodes /\ tree[n].oid \in Requests
    BY DEF Named, NullNodes, Latest, IInv, TypeOK, Node
  <2>3. PICK x : GoodNext(r, x) /\ Step(r, x)
    BY <1>2, <1>3, <1>4, <2>1, <2>2 DEF FindToRead
  <2>4. /\ req' = [req EXCEPT ![r] = x] /\ faults' \in Nat
        /\ UNCHANGED <<versioning, stores, caches, toggles>>
        /\ x.op # "put"
    BY <1>1, <1>4, <2>3 DEF FindToRead, Step, IInv, TypeOK, GoodNext, SameAsk
  <2> QED
    BY <1>1, <2>3, <2>4, CachesTyped, LocalStep
<1>5. CASE HeadObject(r)
  <2>1. /\ To(r, "fill").pc = "fill" /\ SameAsk(To(r, "fill"), req[r])
        /\ To(r, "fill").oid = req[r].oid /\ To(r, "fill").res = req[r].res
    BY <1>1 DEF To, Request, SameAsk
  <2>2. req[r].pc = "head" /\ req[r].oid \in Requests
    BY <1>1, <1>5 DEF HeadObject, At, AtStep
  <2>3. AtStep(To(r, "fill")) /\ MoveOk(To(r, "fill"))
        /\ DeleteOk(To(r, "fill"))
    BY <1>1, <2>1, <2>2 DEF AtStep, MoveOk, DeleteOk, SameAsk
  <2>4. GoodNext(r, To(r, "fill"))
    BY <1>1, <2>3, ToIsGood
  <2>5. PICK x : GoodNext(r, x) /\ Step(r, x)
    BY <1>2, <1>5, <2>4 DEF HeadObject
  <2>6. /\ req' = [req EXCEPT ![r] = x] /\ faults' \in Nat
        /\ UNCHANGED <<versioning, stores, caches, toggles>>
        /\ x.op # "put"
    BY <1>1, <1>5, <2>5 DEF HeadObject, Step, IInv, TypeOK, GoodNext, SameAsk
  <2> QED
    BY <1>1, <2>5, <2>6, CachesTyped, LocalStep
<1>6. CASE CacheRead(r)
  <2>1. req[r].oid \in Requests
    BY <1>1, <1>6 DEF CacheRead, At, AtStep
  <2>2. /\ names' \in Requests \cup {None}
        /\ objCache' \subseteq Requests /\ lists' \subseteq Requests
    BY <1>6, <2>1 DEF CacheRead, IInv, TypeOK
  <2>3. PICK x : GoodNext(r, x) /\ Step(r, x)
    BY <1>3, <1>6, <2>1 DEF CacheRead
  <2>4. /\ req' = [req EXCEPT ![r] = x] /\ faults' \in Nat
        /\ UNCHANGED <<versioning, stores, toggles>>
        /\ x.op # "put"
    BY <1>1, <1>6, <2>3 DEF CacheRead, Step, IInv, TypeOK, GoodNext, SameAsk
  <2> QED
    BY <1>1, <2>2, <2>3, <2>4, LocalStep
<1>7. CASE FetchNodes(r)
  <2> DEFINE x == [req[r] EXCEPT !.pc = IF Nodes = {} THEN "fill" ELSE "nodes",
                                 !.todo = Nodes]
  <2>1. Nodes \subseteq Requests
    BY DEF IInv, TypeOK
  <2>2. x \in Request /\ SameAsk(x, req[r]) /\ x.pc \in {"fill", "nodes"}
        /\ x.res = req[r].res
    <3>1. ASSUME NEW p \in {"fill", "nodes"}
          PROVE  [[req[r] EXCEPT !.pc = p] EXCEPT !.todo = Nodes] \in Request
      BY <1>1, <2>1, FieldTypes
    <3>2. x \in Request
      BY <3>1
    <3>3. SameAsk(x, req[r]) /\ x.pc \in {"fill", "nodes"}
          /\ x.res = req[r].res
      BY <1>1 DEF Request, SameAsk
    <3> QED
      BY <3>2, <3>3
  <2>3. req[r].op = "list" /\ req[r].pc = "find"
        /\ req' = [req EXCEPT ![r] = x] /\ faults' \in Nat
        /\ UNCHANGED <<versioning, stores, caches, toggles>>
    BY <1>7 DEF FetchNodes, Step, At, IInv, TypeOK
  <2> HIDE DEF x
  <2>4. AtStep(x)
    BY <1>1, <2>2, <2>3 DEF AtStep, SameAsk
  <2>5. GoodNext(r, x) /\ x.op # "put"
    BY <2>2, <2>3, <2>4 DEF GoodNext, MoveOk, DeleteOk, SameAsk
  <2> QED
    BY <1>1, <2>3, <2>5, CachesTyped, LocalStep
<1>8. CASE ReadNode(r)
  <2> DEFINE After(n) ==
        [req[r] EXCEPT
           !.pc = IF req[r].todo = {n} THEN "fill" ELSE "nodes",
           !.todo = @ \ {n},
           !.ans = @ \cup {tree[m].oid : m \in Nodes \cap {n}}]
  <2>1. req[r].op = "list" /\ req[r].pc = "nodes"
    BY <1>1, <1>8 DEF ReadNode, At, AtStep
  <2>2. ASSUME NEW n \in req[r].todo PROVE GoodNext(r, After(n))
    <3>1. {tree[m].oid : m \in Nodes \cap {n}} \subseteq Requests
      BY DEF IInv, TypeOK, Node
    <3>2. /\ After(n) \in Request /\ SameAsk(After(n), req[r])
          /\ After(n).pc \in {"fill", "nodes"}
          /\ After(n).res = req[r].res
      <4> DEFINE seen == {tree[m].oid : m \in Nodes \cap {n}}
      <4>1. req[r].todo \ {n} \subseteq Requests
            /\ req[r].ans \cup seen \subseteq Requests
        BY <1>1, <3>1 DEF Request
      <4>2. ASSUME NEW p \in {"fill", "nodes"}
            PROVE  [[[req[r] EXCEPT !.pc = p] EXCEPT !.todo = req[r].todo \ {n}]
                      EXCEPT !.ans = req[r].ans \cup seen] \in Request
        <5>1. [req[r] EXCEPT !.pc = p] \in Request
          BY <1>1, FieldTypes
        <5>2. [[req[r] EXCEPT !.pc = p] EXCEPT !.todo = req[r].todo \ {n}]
                \in Request
          BY <4>1, <5>1, FieldTypes
        <5> QED
          BY <4>1, <5>2, FieldTypes
      <4>3. After(n) \in Request
        BY <1>1, <4>2 DEF Request
      <4>4. /\ SameAsk(After(n), req[r])
            /\ After(n).pc \in {"fill", "nodes"}
            /\ After(n).res = req[r].res
        BY <1>1 DEF Request, SameAsk
      <4> QED
        BY <4>3, <4>4
    <3> HIDE DEF After
    <3>3. AtStep(After(n))
      BY <1>1, <2>1, <3>2 DEF AtStep, SameAsk
    <3> QED
      BY <3>2, <3>3 DEF GoodNext, MoveOk, DeleteOk
  <2>3. PICK x : GoodNext(r, x) /\ Step(r, x)
    BY <1>2, <1>8, <2>2 DEF ReadNode
  <2>4. /\ req' = [req EXCEPT ![r] = x] /\ faults' \in Nat
        /\ UNCHANGED <<versioning, stores, caches, toggles>>
        /\ x.op # "put"
    BY <2>1, <1>8, <2>3 DEF ReadNode, Step, IInv, TypeOK, GoodNext, SameAsk
  <2> QED
    BY <1>1, <2>3, <2>4, CachesTyped, LocalStep
<1>9. CASE CacheList(r)
  <2>1. /\ names' \in Requests \cup {None}
        /\ objCache' \subseteq Requests /\ lists' \subseteq Requests
    BY <1>1, <1>9 DEF CacheList, IInv, TypeOK, Request
  <2>2. GoodNext(r, Done(r, "ok")) /\ Done(r, "ok").op # "put"
    BY <1>1, <1>2 DEF GoodNext, SameAsk
  <2>3. /\ req' = [req EXCEPT ![r] = Done(r, "ok")] /\ faults' \in Nat
        /\ UNCHANGED <<versioning, stores, toggles>>
    BY <1>9 DEF CacheList, Step, IInv, TypeOK
  <2> QED
    BY <1>1, <2>1, <2>2, <2>3, LocalStep
<1> QED
  BY <1>4, <1>5, <1>6, <1>7, <1>8, <1>9 DEF ReadStep

---------------------------------------------------------------------------
(* The calls that change a store.                                          *)

(* The object of a PUT is new: no store or other request knows it.         *)
LEMMA CreateObjectKeeps ==
  ASSUME IInv, NEW r \in Requests, CreateObject(r)
  PROVE  IInv'
<1> DEFINE p == IF WritesNull(r) THEN "getnull" ELSE "add"
<1>1. Active(r) /\ req[r] \in Request /\ AtStep(req[r])
      /\ req[r].pc = "create" /\ req[r].op = "put"
  BY DEF CreateObject, At, Active, IInv, TypeOK, AtStep
<1>2. To(r, p).pc = p /\ To(r, p).mode = req[r].mode
      /\ To(r, p).res = req[r].res
  BY <1>1 DEF To, Request
<1>3. AtStep(To(r, p)) /\ MoveOk(To(r, p)) /\ DeleteOk(To(r, p))
  BY <1>1, <1>2 DEF AtStep, MoveOk, DeleteOk, WritesNull
<1>4. GoodNext(r, To(r, p))
  BY <1>1, <1>3, ToIsGood
<1>5. GoodNext(r, Failed(r)) /\ Failed(r).res = "error"
      /\ Failed(r).pc \in {"done", "clean"}
  BY <1>1, FailedIsGood
<1>6. PICK x : /\ GoodNext(r, x) /\ req' = [req EXCEPT ![r] = x]
               /\ x = To(r, p) \/ x = Failed(r)
               /\ faults' \in Nat
  BY <1>4, <1>5 DEF CreateObject, Replied, Step, Fault, IInv, TypeOK
<1>7. /\ objects' = objects \cup {r}
      /\ UNCHANGED <<versioning, tree, clock, caches, toggles>>
  BY DEF CreateObject
<1>8. TypeOK'
  BY <1>1, <1>6, <1>7, HandlerFrame, CachesTyped DEF IInv, TypeOK, Nodes
<1>9. NodesMatchWriters'
  BY <1>1, <1>6, <1>7, HandlerFrame
  DEF IInv, NodesMatchWriters, TypeOK, Node, Nodes
<1>10. ASSUME NEW q \in Requests PROVE Kept(q)'
  <2>1. CASE q = r
    <3>1. x.pc \in {"add", "lock", "cache"} \/ x.res = "ok" => x.pc = "add"
      BY <1>1, <1>2, <1>5, <1>6 DEF AtStep
    <3>2. req'[r] = x
      BY <1>6 DEF IInv, TypeOK
    <3> QED
      BY <2>1, <3>1, <3>2, <1>7 DEF Kept, At
  <2>2. CASE q # r
    <3>1. req'[q] = req[q] /\ Kept(q)
      BY <1>6, <2>2 DEF IInv, TypeOK
    <3> QED
      BY <1>1, <1>6, <1>7, <3>1, HandlerFrame DEF Kept, Nodes, At
  <2> QED
    BY <2>1, <2>2
<1> QED
  BY <1>1, <1>6, <1>8, <1>9, <1>10, HandlerFrame DEF IInv

(* What AddVersion writes is a version node.                               *)
LEMMA NewNodeType ==
  ASSUME IInv, NEW r \in Requests
  PROVE  NewNode(r) \in Node
BY DEF IInv, TypeOK, NewNode, Node, WritesNull

(* Writing a node under r's own id, or over a null node, keeps the tree    *)
(* matched with the writers.                                               *)
LEMMA WriteKeeps ==
  ASSUME IInv, NEW r \in Requests, Active(r), NEW x, GoodNext(r, x),
         req' = [req EXCEPT ![r] = x], faults' \in Nat,
         UNCHANGED <<versioning, objects, caches, toggles>>,
         NEW n \in Requests, tree' = Upsert(n, NewNode(r)),
         clock' = clock + 1,
         req[n].pc # "idle", WritesNull(n) <=> WritesNull(r),
         ~WritesNull(r) => n = r,
         x.op = "put" /\ ~WritesNull(r) =>
           (x.pc \in {"add", "lock", "cache"} \/ x.res = "ok" =>
              x.pc # "add" /\ req[r].pc \in {"add", "lock", "cache"})
  PROVE  IInv'
<1>1. Nodes' = Nodes \cup {n} /\ tree' \in [Nodes' -> Node]
      /\ Nodes' \subseteq Requests
  <2>1. NewNode(r) \in Node
    BY NewNodeType
  <2> QED
    BY <2>1 DEF Upsert, Nodes, IInv, TypeOK
<1>2. TypeOK'
  <2>1. req' \in [Requests -> Request]
    BY HandlerFrame
  <2>2. /\ names' \in Requests \cup {None}
        /\ objCache' \subseteq Requests /\ lists' \subseteq Requests
    BY CachesTyped
  <2>3. /\ versioning' \in Modes /\ objects' \subseteq Requests
        /\ clock' \in Nat /\ toggles' \in Nat
    BY DEF IInv, TypeOK
  <2> QED
    BY <1>1, <2>1, <2>2, <2>3 DEF TypeOK
<1>3. /\ tree'[n] = NewNode(r)
      /\ \A m \in Nodes \ {n} : tree'[m] = tree[m]
  BY DEF Upsert
<1>4. NodesMatchWriters'
  <2>1. ASSUME NEW m \in Nodes'
        PROVE  /\ req'[m].pc # "idle" /\ req'[tree'[m].oid].pc # "idle"
               /\ tree'[m].null <=> req'[m].mode # "Enabled"
               /\ tree'[m].null <=> req'[tree'[m].oid].mode # "Enabled"
               /\ ~tree'[m].null => tree'[m].oid = m
    <3>1. CASE m = n
      <4>1. tree'[m].oid = r /\ (tree'[m].null <=> WritesNull(r))
        BY <1>3, <3>1 DEF NewNode
      <4>2. req'[n].pc # "idle" /\ req'[r].pc # "idle"
            /\ (WritesNull(n)' <=> WritesNull(n))
            /\ (WritesNull(r)' <=> WritesNull(r))
        BY HandlerFrame DEF Active
      <4>3. (WritesNull(n)' <=> req'[n].mode # "Enabled")
            /\ (WritesNull(r)' <=> req'[r].mode # "Enabled")
        BY DEF WritesNull
      <4> QED
        BY <3>1, <4>1, <4>2, <4>3
    <3>2. CASE m # n
      <4>1. m \in Nodes /\ m \in Requests /\ tree'[m] = tree[m]
            /\ tree[m].oid \in Requests
        BY <1>1, <1>3, <3>2 DEF IInv, TypeOK, Node
      <4>2. /\ req[m].pc # "idle" /\ req[tree[m].oid].pc # "idle"
            /\ tree[m].null <=> WritesNull(m)
            /\ tree[m].null <=> WritesNull(tree[m].oid)
            /\ ~tree[m].null => tree[m].oid = m
        BY <4>1 DEF IInv, NodesMatchWriters
      <4>3. \A q \in Requests :
              /\ req'[q].pc = "idle" <=> req[q].pc = "idle"
              /\ req'[q].mode # "Enabled" <=> WritesNull(q)
        BY HandlerFrame DEF WritesNull
      <4> QED
        BY <4>1, <4>2, <4>3
    <3> QED
      BY <3>1, <3>2
  <2> QED
    BY <2>1 DEF NodesMatchWriters, WritesNull
<1>5. ASSUME NEW q \in Requests PROVE Kept(q)'
  <2>1. CASE q = r
    <3>1. req'[r] = x /\ (WritesNull(r)' <=> WritesNull(r))
      BY HandlerFrame DEF IInv, TypeOK
    <3>2. Kept(r) /\ x.op = req[r].op
      BY DEF IInv, GoodNext, SameAsk
    <3>3. ~WritesNull(r) => r \in Nodes'
      BY <1>1
    <3> QED
      BY <2>1, <3>1, <3>2, <3>3, HandlerFrame DEF Kept, At
  <2>2. CASE q # r
    <3>1. req'[q] = req[q] /\ Kept(q)
      BY <2>2 DEF IInv, TypeOK
    <3> QED
      BY <1>1, <3>1, HandlerFrame DEF Kept, At
  <2> QED
    BY <2>1, <2>2
<1> QED
  BY <1>2, <1>4, <1>5, HandlerFrame DEF IInv

(* AddVersion adds a node under the fresh id of its request.               *)
LEMMA AddNodeKeeps ==
  ASSUME IInv, NEW r \in Requests, AddNode(r)
  PROVE  IInv'
<1>1. Active(r) /\ req[r] \in Request /\ AtStep(req[r])
      /\ req[r].pc = "add"
  BY DEF AddNode, At, Active, IInv, TypeOK
<1>2. ASSUME NEW p \in {"lock", "cache"}, p = "lock" => req[r].op = "put"
      PROVE  GoodNext(r, To(r, p))
  <2>1. To(r, p).pc = p /\ To(r, p).res = req[r].res
        /\ To(r, p).op = req[r].op
    BY <1>1 DEF To, Request
  <2>2. AtStep(To(r, p)) /\ MoveOk(To(r, p)) /\ DeleteOk(To(r, p))
    BY <1>1, <1>2, <2>1 DEF AtStep, MoveOk, DeleteOk
  <2> QED
    BY <1>1, <2>2, ToIsGood
<1>3. GoodNext(r, Failed(r)) /\ Failed(r).res = "error"
      /\ Failed(r).pc \in {"done", "clean"}
  BY <1>1, FailedIsGood
<1>4. \A next \in AfterAdd(r) : GoodNext(r, next)
  BY <1>2 DEF AfterAdd
<1>5. PICK x : /\ GoodNext(r, x) /\ req' = [req EXCEPT ![r] = x]
               /\ \/ x = Failed(r)
                  \/ x \in {To(r, "lock"), To(r, "cache")}
               /\ faults' \in Nat
  BY <1>3, <1>4 DEF AddNode, Replied, Step, Fault, AfterAdd, IInv, TypeOK
<1>6. x.pc # "add"
  BY <1>1, <1>3, <1>5 DEF To, Request
<1>7. /\ UNCHANGED <<versioning, objects, caches, toggles>>
      /\ tree' = Upsert(r, NewNode(r)) /\ clock' = clock + 1
  BY DEF AddNode
<1> QED
  BY <1>1, <1>5, <1>6, <1>7, WriteKeeps

(* AddVersion moves a null node, to another null version.                  *)
LEMMA MoveNodeKeeps ==
  ASSUME IInv, NEW r \in Requests, MoveNode(r)
  PROVE  IInv'
<1>1. Active(r) /\ req[r] \in Request /\ AtStep(req[r])
      /\ req[r].pc = "move" /\ WritesNull(r)
  BY DEF MoveNode, At, Active, IInv, TypeOK, AtStep, WritesNull
<1>2. req[r].node \in Requests /\ req[req[r].node].pc # "idle"
      /\ WritesNull(req[r].node)
  BY <1>1 DEF IInv, AtStep, MovesNull, At
<1>3. GoodNext(r, To(r, "clear"))
  <2>1. To(r, "clear").pc = "clear" /\ To(r, "clear").res = req[r].res
        /\ To(r, "clear").mode = req[r].mode
    BY <1>1 DEF To, Request
  <2>2. AtStep(To(r, "clear")) /\ MoveOk(To(r, "clear"))
        /\ DeleteOk(To(r, "clear"))
    BY <1>1, <2>1 DEF AtStep, MoveOk, DeleteOk, WritesNull
  <2> QED
    BY <1>1, <2>2, ToIsGood
<1>4. GoodNext(r, Failed(r)) /\ GoodNext(r, Done(r, "error"))
  BY <1>1, FailedIsGood, DoneIsGood
<1>5. PICK x : /\ GoodNext(r, x) /\ req' = [req EXCEPT ![r] = x]
               /\ faults' \in Nat
  BY <1>3, <1>4 DEF MoveNode, Replied, Step, Fault, IInv, TypeOK
<1>6. UNCHANGED <<versioning, objects, caches, toggles>>
  BY DEF MoveNode
<1>7. CASE tree' = Upsert(req[r].node, NewNode(r)) /\ clock' = clock + 1
  BY <1>1, <1>2, <1>5, <1>6, <1>7, WriteKeeps
<1>8. CASE UNCHANGED <<tree, clock>>
  <2>1. UNCHANGED <<versioning, stores, toggles>>
    BY <1>6, <1>8 DEF stores
  <2> QED
    BY <1>1, <1>5, <1>6, <2>1, CachesTyped, LocalStep
<1> QED
  BY <1>7, <1>8 DEF MoveNode

(* A DELETE past its look-up may delete the version it found.              *)
LEMMA DeleterNamed ==
  ASSUME IInv, NEW d \in Requests, NEW q \in Requests, Active(d),
         req[d].pc \in {"delete", "remove"}, ~WritesNull(q),
         q = req[d].oid \/ q = req[d].node
  PROVE  MayDeleteVersion(d, q)
<1>1. req[d].op = "delete" /\ q = req[d].oid
      /\ \/ req[d].vid = q
         \/ req[d].vid = "latest" /\ req[d].mode = "Unversioned"
  <2>1. AtStep(req[d]) /\ DeletesNamed(d)
    BY DEF IInv
  <2>2. req[d].op = "delete"
    BY <2>1 DEF AtStep
  <2>3. /\ ~WritesNull(req[d].node) => req[d].node = req[d].oid
        /\ ~WritesNull(req[d].oid) =>
             \/ req[d].vid = req[d].oid
             \/ req[d].vid = "latest" /\ req[d].mode = "Unversioned"
    BY <2>1 DEF DeletesNamed
  <2> QED
    BY <2>2, <2>3
<1>2. d \notin req[q].prior
  BY DEF IInv, PriorFinished, At, Active
<1> QED
  BY <1>1, <1>2 DEF MayDeleteVersion

(* After a call of DELETE r that took object o or node n away.             *)
LEMMA TakeKeeps ==
  ASSUME IInv, NEW r \in Requests, Active(r), NEW x, GoodNext(r, x),
         req[r].op = "delete", req[r].pc \in {"delete", "remove"},
         req' = [req EXCEPT ![r] = x], faults' \in Nat,
         UNCHANGED <<versioning, clock, caches, toggles>>,
         objects' \subseteq objects,
         objects \ objects' \subseteq {req[r].oid},
         tree' = [n \in Nodes' |-> tree[n]], Nodes' \subseteq Nodes,
         Nodes \ Nodes' \subseteq {req[r].node}
  PROVE  IInv'
<1>1. TypeOK'
  <2>1. req' \in [Requests -> Request]
    BY HandlerFrame
  <2>2. /\ names' \in Requests \cup {None}
        /\ objCache' \subseteq Requests /\ lists' \subseteq Requests
    BY CachesTyped
  <2>3. /\ versioning' \in Modes /\ objects' \subseteq Requests
        /\ clock' \in Nat /\ toggles' \in Nat
        /\ Nodes' \subseteq Requests /\ tree' \in [Nodes' -> Node]
    BY DEF IInv, TypeOK
  <2> QED
    BY <2>1, <2>2, <2>3 DEF TypeOK
<1>2. NodesMatchWriters'
  <2>1. ASSUME NEW m \in Nodes'
        PROVE  /\ req'[m].pc # "idle" /\ req'[tree'[m].oid].pc # "idle"
               /\ tree'[m].null <=> req'[m].mode # "Enabled"
               /\ tree'[m].null <=> req'[tree'[m].oid].mode # "Enabled"
               /\ ~tree'[m].null => tree'[m].oid = m
    <3>1. m \in Nodes /\ m \in Requests /\ tree'[m] = tree[m]
          /\ tree[m].oid \in Requests
      BY DEF IInv, TypeOK, Node
    <3>2. /\ req[m].pc # "idle" /\ req[tree[m].oid].pc # "idle"
          /\ tree[m].null <=> WritesNull(m)
          /\ tree[m].null <=> WritesNull(tree[m].oid)
          /\ ~tree[m].null => tree[m].oid = m
      BY <3>1 DEF IInv, NodesMatchWriters
    <3>3. \A q \in Requests :
            /\ req'[q].pc = "idle" <=> req[q].pc = "idle"
            /\ req'[q].mode # "Enabled" <=> WritesNull(q)
      BY HandlerFrame DEF WritesNull
    <3> QED
      BY <3>1, <3>2, <3>3
  <2> QED
    BY <2>1 DEF NodesMatchWriters, WritesNull
<1>3. ASSUME NEW q \in Requests PROVE Kept(q)'
  <2>1. CASE q = r
    <3>1. req'[r].op = "delete"
      BY DEF IInv, TypeOK, GoodNext, SameAsk
    <3> QED
      BY <2>1, <3>1 DEF Kept
  <2>2. CASE q # r
    <3>1. req'[q] = req[q] /\ Kept(q)
      BY <2>2 DEF IInv, TypeOK
    <3>2. CASE WritesNull(q) \/ (q # req[r].oid /\ q # req[r].node)
      BY <3>1, <3>2, HandlerFrame DEF Kept, At
    <3>3. CASE ~WritesNull(q) /\ (q = req[r].oid \/ q = req[r].node)
      <4>1. MayDeleteVersion(r, q)'
        BY <3>3, DeleterNamed, HandlerFrame
      <4> QED
        BY <4>1 DEF Kept
    <3> QED
      BY <3>2, <3>3
  <2> QED
    BY <2>1, <2>2
<1> QED
  BY <1>1, <1>2, <1>3, HandlerFrame DEF IInv

(* The FrostFS half of a DELETE.                                           *)
LEMMA DeleteObjectKeeps ==
  ASSUME IInv, NEW r \in Requests, DeleteObject(r)
  PROVE  IInv'
<1>1. Active(r) /\ req[r] \in Request /\ AtStep(req[r])
      /\ req[r].pc = "delete" /\ req[r].op = "delete" /\ DeletesNamed(r)
  BY DEF DeleteObject, At, Active, IInv, TypeOK, AtStep
<1>2. /\ AfterOld(r) \in {"remove", "getnull"}
      /\ AfterOld(r) = "getnull" => req[r].mode # "Enabled"
  BY <1>1 DEF AfterOld, Target
<1>3. GoodNext(r, To(r, AfterOld(r)))
  <2> DEFINE x == To(r, AfterOld(r))
  <2>1. /\ x.pc = AfterOld(r) /\ SameAsk(x, req[r])
        /\ x.node = req[r].node /\ x.oid = req[r].oid
        /\ x.res = req[r].res
    BY <1>1, <1>2 DEF To, Request, SameAsk
  <2>2. AtStep(x) /\ MoveOk(x) /\ DeleteOk(x)
    BY <1>1, <1>2, <2>1 DEF AtStep, MoveOk, DeleteOk, DeletesNamed, SameAsk
  <2> QED
    BY <1>1, <1>2, <2>2, ToIsGood
<1>4. GoodNext(r, Failed(r)) /\ GoodNext(r, Done(r, "error"))
  BY <1>1, FailedIsGood, DoneIsGood
<1>5. PICK x : /\ GoodNext(r, x) /\ req' = [req EXCEPT ![r] = x]
               /\ faults' \in Nat
  BY <1>3, <1>4 DEF DeleteObject, Replied, Step, Fault, IInv, TypeOK
<1>6. /\ UNCHANGED <<versioning, tree, clock, caches, toggles>>
      /\ objects' = objects \ {req[r].oid}
  BY DEF DeleteObject
<1>7. tree' = [n \in Nodes' |-> tree[n]] /\ Nodes' = Nodes
  BY <1>6 DEF Nodes, IInv, TypeOK
<1> QED
  BY <1>1, <1>5, <1>6, <1>7, TakeKeeps

(* The tree half of a DELETE.                                              *)
LEMMA RemoveVersionKeeps ==
  ASSUME IInv, NEW r \in Requests, RemoveVersion(r)
  PROVE  IInv'
<1>1. Active(r) /\ req[r] \in Request /\ AtStep(req[r])
      /\ req[r].pc = "remove" /\ req[r].op = "delete"
  BY DEF RemoveVersion, At, Active, IInv, TypeOK, AtStep
<1>2. GoodNext(r, To(r, "clean"))
  <2>1. To(r, "clean").pc = "clean" /\ To(r, "clean").res = req[r].res
        /\ To(r, "clean").op = req[r].op
    BY <1>1 DEF To, Request
  <2>2. AtStep(To(r, "clean")) /\ MoveOk(To(r, "clean"))
        /\ DeleteOk(To(r, "clean"))
    BY <1>1, <2>1 DEF AtStep, MoveOk, DeleteOk
  <2> QED
    BY <1>1, <2>2, ToIsGood
<1>3. GoodNext(r, Failed(r))
  BY <1>1, FailedIsGood
<1>4. PICK x : /\ GoodNext(r, x) /\ req' = [req EXCEPT ![r] = x]
               /\ faults' \in Nat
  BY <1>2, <1>3 DEF RemoveVersion, Replied, Step, Fault, IInv, TypeOK
<1>5. /\ UNCHANGED <<versioning, objects, clock, caches, toggles>>
      /\ tree' = [n \in Nodes \ {req[r].node} |-> tree[n]]
  BY DEF RemoveVersion
<1>6. Nodes' = Nodes \ {req[r].node}
  BY <1>5 DEF Nodes
<1> QED
  BY <1>1, <1>4, <1>5, <1>6, TakeKeeps

(* A new request: nothing refers to it yet.                                *)
LEMMA BeginKeeps ==
  ASSUME IInv, NEW r \in Requests, BeginStep(r)
  PROVE  IInv'
<1>1. PICK op \in {"put", "delete", "head", "list"},
           vid \in {"latest", "null"} \cup Requests,
           next \in Request :
        /\ Begin(r, op, vid, next)
        /\ next.pc \in {"create", "find", "add", "done"}
        /\ next.pc = "create" => op = "put"
        /\ next.pc = "add" => op = "delete"
        /\ next.pc = "done" => op # "put"
        /\ next.pc # "done" => next.res = "none"
        /\ next.pc = "find" /\ op = "delete" =>
             vid # "latest" \/ versioning # "Enabled"
  <2>1. req[r] \in Request /\ KnownVersions \subseteq Requests
        /\ (names \in objCache => names \in Requests)
    BY DEF IInv, TypeOK, KnownVersions, StoredOids, Node
  <2>2. \A p \in {"create", "find", "add"} :
          To(r, p) \in Request /\ To(r, p).pc = p /\ To(r, p).res = "none"
    <3>1. req[r].res = "none"
      <4>1. At(r, "idle")
        BY DEF BeginStep, BeginPut, BeginDelete, BeginHead, BeginList, Begin
      <4>2. req[r] = Idle
        BY <4>1 DEF IInv, AtStep, At
      <4>3. Idle.res = "none"
        BY DEF Idle
      <4> QED
        BY <4>2, <4>3
    <3>2. \A p \in {"create", "find", "add"} : To(r, p) \in Request
      BY RecordTypes DEF IInv
    <3>3. \A p \in {"create", "find", "add"} :
            To(r, p).pc = p /\ To(r, p).res = "none"
      BY <2>1, <3>1 DEF To, Request
    <3> QED
      BY <3>2, <3>3
  <2>3. LET listed == [Done(r, "ok") EXCEPT !.ans = lists]
        IN  /\ listed \in Request /\ listed.pc = "done"
            /\ \A o \in Requests : /\ Answered(r, o) \in Request
                                   /\ Answered(r, o).pc = "done"
    <3>1. /\ Done(r, "ok") \in Request
          /\ \A o \in Requests : Answered(r, o) \in Request
      BY RecordTypes DEF IInv
    <3>2. \A o \in Requests : Answered(r, o).pc = "done"
      BY <2>1 DEF Done, Answered, Request
    <3>3. /\ [Done(r, "ok") EXCEPT !.ans = lists] \in Request
          /\ [Done(r, "ok") EXCEPT !.ans = lists].pc = "done"
      <4>1. Done(r, "ok").pc = "done" /\ lists \in SUBSET Requests
        BY <2>1 DEF Done, IInv, TypeOK, Request
      <4>2. \A y \in Request : [y EXCEPT !.ans = lists] \in Request
        BY <4>1 DEF Request
      <4>3. \A y \in Request : [y EXCEPT !.ans = lists].pc = y.pc
        BY DEF Request
      <4> QED
        BY <3>1, <4>1, <4>2, <4>3
    <3> QED
      BY <3>1, <3>2, <3>3
  <2>4. CASE BeginPut(r)
    BY <2>2, <2>4 DEF BeginPut
  <2>5. CASE BeginDelete(r)
    BY <2>1, <2>2, <2>5 DEF BeginDelete
  <2>6. CASE BeginHead(r)
    BY <2>1, <2>2, <2>3, <2>6 DEF BeginHead
  <2>7. CASE BeginList(r)
    BY <2>2, <2>3, <2>7 DEF BeginList
  <2> QED
    BY <2>4, <2>5, <2>6, <2>7 DEF BeginStep
<1>2. req[r] = Idle /\ req[r].pc = "idle" /\ req[r].op = "none"
  <2>1. At(r, "idle") /\ AtStep(req[r])
    BY <1>1 DEF Begin, IInv
  <2>2. req[r] = Idle
    BY <2>1 DEF AtStep, At
  <2>3. Idle.pc = "idle" /\ Idle.op = "none"
    BY DEF Idle
  <2> QED
    BY <2>2, <2>3
<1> DEFINE x == [next EXCEPT !.op = op, !.vid = vid, !.mode = versioning,
                             !.prior = Finished]
<1>3. /\ req' = [req EXCEPT ![r] = x]
      /\ UNCHANGED <<versioning, stores, caches, faults, toggles>>
  BY <1>1 DEF Begin
<1>5. /\ x \in Request /\ x.op = op /\ x.vid = vid /\ x.mode = versioning
      /\ x.prior = Finished /\ x.pc = next.pc /\ x.res = next.res
  <2>1. Finished \in SUBSET Requests /\ versioning \in Modes
    BY DEF Finished, IInv, TypeOK
  <2>2. x \in Request
    <3>1. [next EXCEPT !.op = op] \in Request
      BY FieldTypes
    <3>2. [[next EXCEPT !.op = op] EXCEPT !.vid = vid] \in Request
      BY <3>1, FieldTypes
    <3>3. [[[next EXCEPT !.op = op] EXCEPT !.vid = vid]
             EXCEPT !.mode = versioning] \in Request
      BY <2>1, <3>2, FieldTypes
    <3>4. [[[[next EXCEPT !.op = op] EXCEPT !.vid = vid]
             EXCEPT !.mode = versioning] EXCEPT !.prior = Finished] \in Request
      BY <2>1, <3>3, FieldTypes
    <3> QED
      BY <3>4
  <2>3. /\ x.op = op /\ x.vid = vid /\ x.mode = versioning
        /\ x.prior = Finished /\ x.pc = next.pc /\ x.res = next.res
    BY DEF Request
  <2> QED
    BY <2>2, <2>3
<1> HIDE DEF x
<1>6. x.pc # "idle" /\ AtStep(x)
  BY <1>1, <1>5 DEF AtStep
<1>7. /\ req' \in [Requests -> Request] /\ req'[r] = x
      /\ \A q \in Requests \ {r} : req'[q] = req[q]
  BY <1>3, <1>5 DEF IInv, TypeOK
<1>8. /\ \A q \in Requests : req[q].pc # "idle" =>
           req'[q].pc # "idle" /\ (WritesNull(q)' <=> WritesNull(q))
      /\ \A q \in Requests : req[q].pc # "idle" => q # r
  BY <1>2, <1>7 DEF WritesNull
<1>9. TypeOK'
  BY <1>3, <1>7, CachesTyped DEF IInv, TypeOK, stores, Nodes
<1>10. NodesMatchWriters'
  <2>1. ASSUME NEW m \in Nodes'
        PROVE  /\ req'[m].pc # "idle" /\ req'[tree'[m].oid].pc # "idle"
               /\ tree'[m].null <=> req'[m].mode # "Enabled"
               /\ tree'[m].null <=> req'[tree'[m].oid].mode # "Enabled"
               /\ ~tree'[m].null => tree'[m].oid = m
    <3>1. m \in Nodes /\ m \in Requests /\ tree'[m] = tree[m]
          /\ tree[m].oid \in Requests
      BY <1>3 DEF IInv, TypeOK, Node, Nodes, stores
    <3>2. /\ req[m].pc # "idle" /\ req[tree[m].oid].pc # "idle"
          /\ tree[m].null <=> WritesNull(m)
          /\ tree[m].null <=> WritesNull(tree[m].oid)
          /\ ~tree[m].null => tree[m].oid = m
      BY <3>1 DEF IInv, NodesMatchWriters
    <3> QED
      BY <1>8, <3>1, <3>2 DEF WritesNull
  <2> QED
    BY <2>1 DEF NodesMatchWriters, WritesNull
<1>11. ASSUME NEW q \in Requests PROVE AtStep(req[q])'
  <2>1. AtStep(req'[q])
    BY <1>6, <1>7 DEF IInv
  <2> QED
    BY <2>1 DEF AtStep, Idle
<1>12. ASSUME NEW q \in Requests PROVE MovesNull(q)'
  <2>1. CASE q = r
    BY <1>1, <1>5, <1>7, <2>1 DEF MovesNull, At
  <2>2. CASE q # r
    <3>1. req'[q] = req[q] /\ MovesNull(q) /\ AtStep(req[q])
      BY <1>7, <2>2 DEF IInv
    <3> QED
      BY <1>8, <3>1 DEF MovesNull, At, AtStep
  <2> QED
    BY <2>1, <2>2
<1>13. ASSUME NEW q \in Requests PROVE DeletesNamed(q)'
  <2>1. CASE q = r
    BY <1>1, <1>5, <1>7, <2>1 DEF DeletesNamed
  <2>2. CASE q # r
    <3>1. req'[q] = req[q] /\ DeletesNamed(q)
      BY <1>7, <2>2 DEF IInv
    <3> QED
      BY <1>8, <3>1 DEF DeletesNamed
  <2> QED
    BY <2>1, <2>2
<1>14. ASSUME NEW q \in Requests PROVE Kept(q)'
  <2>1. CASE q = r
    BY <1>1, <1>5, <1>7, <2>1 DEF Kept
  <2>2. CASE q # r
    <3>1. req'[q] = req[q] /\ Kept(q)
      BY <1>7, <2>2 DEF IInv
    <3>2. ASSUME NEW d \in Requests, MayDeleteVersion(d, q)
          PROVE  MayDeleteVersion(d, q)'
      <4>1. d # r
        BY <1>2, <3>2 DEF MayDeleteVersion
      <4> QED
        BY <1>7, <3>1, <3>2, <4>1 DEF MayDeleteVersion
    <3> QED
      BY <1>3, <3>1, <3>2 DEF Kept, At, WritesNull, stores, Nodes
  <2> QED
    BY <2>1, <2>2
<1>15. ASSUME NEW q \in Requests PROVE PriorFinished(q)'
  <2>1. \A p \in req'[q].prior : p \in Requests /\ req[p].pc = "done"
    <3>1. CASE q = r
      BY <1>5, <1>7, <3>1 DEF Finished, At
    <3>2. CASE q # r
      <4>1. req'[q] = req[q] /\ PriorFinished(q) /\ req[q] \in Request
        BY <1>7, <3>2 DEF IInv, TypeOK
      <4> QED
        BY <4>1 DEF PriorFinished, At, Request
    <3> QED
      BY <3>1, <3>2
  <2>2. \A p \in req'[q].prior : req'[p].pc = "done"
    BY <1>2, <1>7, <2>1
  <2> QED
    BY <2>2 DEF PriorFinished, At
<1> QED
  BY <1>9, <1>10, <1>11, <1>12, <1>13, <1>14, <1>15 DEF IInv

(* A crash ends every running request and empties the caches.              *)
LEMMA CrashKeeps ==
  ASSUME IInv, Crash
  PROVE  IInv'
<1>1. /\ faults' \in Nat
      /\ UNCHANGED <<versioning, stores, toggles>>
      /\ names' = None /\ objCache' = {} /\ lists' = {}
      /\ req' = [r \in Requests |-> IF Active(r) THEN Done(r, "crashed")
                                                ELSE req[r]]
  BY DEF Crash, IInv, TypeOK
<1>2. ASSUME NEW q \in Requests
      PROVE  /\ req'[q] \in Request /\ SameAsk(req'[q], req[q])
             /\ AtStep(req'[q])
             /\ req'[q].pc \in {"idle", "done"}
             /\ req'[q].pc = "idle" <=> req[q].pc = "idle"
             /\ req[q].pc = "done" => req'[q] = req[q]
             /\ req'[q].res = "ok" => req'[q] = req[q]
  <2>1. CASE Active(q)
    <3>1. GoodNext(q, Done(q, "crashed")) /\ Done(q, "crashed").pc = "done"
          /\ Done(q, "crashed").res = "crashed"
      BY <2>1, DoneIsGood
    <3>2. req'[q] = Done(q, "crashed")
      BY <1>1, <2>1
    <3> QED
      BY <2>1, <3>1, <3>2 DEF Active, GoodNext
  <2>2. CASE ~Active(q)
    <3>1. req'[q] = req[q]
      BY <1>1, <2>2
    <3> QED
      BY <2>2, <3>1 DEF Active, SameAsk, IInv, TypeOK
  <2> QED
    BY <2>1, <2>2
<1>3. TypeOK'
  <2>1. req' \in [Requests -> Request]
    BY <1>1, <1>2
  <2> QED
    BY <1>1, <2>1 DEF IInv, TypeOK, stores, Nodes
<1>4. \A q \in Requests : req'[q].mode = req[q].mode
  BY <1>2 DEF SameAsk
<1>5. NodesMatchWriters'
  <2>1. ASSUME NEW m \in Nodes'
        PROVE  /\ req'[m].pc # "idle" /\ req'[tree'[m].oid].pc # "idle"
               /\ tree'[m].null <=> req'[m].mode # "Enabled"
               /\ tree'[m].null <=> req'[tree'[m].oid].mode # "Enabled"
               /\ ~tree'[m].null => tree'[m].oid = m
    <3>1. m \in Nodes /\ m \in Requests /\ tree'[m] = tree[m]
          /\ tree[m].oid \in Requests
      BY <1>1 DEF IInv, TypeOK, Node, Nodes, stores
    <3>2. /\ req[m].pc # "idle" /\ req[tree[m].oid].pc # "idle"
          /\ tree[m].null <=> WritesNull(m)
          /\ tree[m].null <=> WritesNull(tree[m].oid)
          /\ ~tree[m].null => tree[m].oid = m
      BY <3>1 DEF IInv, NodesMatchWriters
    <3> QED
      BY <1>2, <1>4, <3>1, <3>2 DEF WritesNull
  <2> QED
    BY <2>1 DEF NodesMatchWriters, WritesNull
<1>6. ASSUME NEW q \in Requests
      PROVE  AtStep(req[q])' /\ MovesNull(q)' /\ DeletesNamed(q)'
  BY <1>2 DEF AtStep, Idle, MovesNull, DeletesNamed, At
<1>7. ASSUME NEW q \in Requests PROVE Kept(q)'
  <2>1. Kept(q)
    BY DEF IInv
  <2>2. SUFFICES ASSUME req'[q].op = "put", ~WritesNull(q)',
                        \/ req'[q].pc \in {"add", "lock", "cache"}
                        \/ req'[q].res = "ok"
                 PROVE  \/ /\ q \in objects'
                           /\ req'[q].pc # "add" => q \in Nodes'
                        \/ \E d \in Requests : MayDeleteVersion(d, q)'
    BY DEF Kept, At
  <2>3. req'[q] = req[q] /\ req[q].pc \in {"idle", "done"}
    BY <1>2, <2>2
  <2>4. \/ q \in objects /\ q \in Nodes
        \/ \E d \in Requests : MayDeleteVersion(d, q)
    BY <2>1, <2>2, <2>3 DEF Kept, At, WritesNull
  <2>5. \A d \in Requests : MayDeleteVersion(d, q) => MayDeleteVersion(d, q)'
    BY <1>2 DEF MayDeleteVersion, SameAsk
  <2> QED
    BY <1>1, <2>4, <2>5 DEF stores, Nodes
<1>8. ASSUME NEW q \in Requests PROVE PriorFinished(q)'
  <2>1. /\ req'[q].prior = req[q].prior
        /\ \A p \in req[q].prior : p \in Requests /\ req[p].pc = "done"
    BY <1>2 DEF SameAsk, IInv, TypeOK, Request, PriorFinished, At
  <2>2. \A p \in req'[q].prior : req'[p].pc = "done"
    BY <1>2, <2>1
  <2> QED
    BY <2>2 DEF PriorFinished, At
<1> QED
  BY <1>3, <1>5, <1>6, <1>7, <1>8 DEF IInv

(* Steps that leave requests and stores alone: a change of the versioning  *)
(* state, the expiration of a cache entry, a stutter.                      *)
LEMMA RestKeeps ==
  ASSUME IInv, UNCHANGED <<stores, req>>, versioning' \in Modes,
         names' \in Requests \cup {None}, objCache' \subseteq Requests,
         lists' \subseteq Requests, faults' \in Nat, toggles' \in Nat
  PROVE  IInv'
<1>1. TypeOK'
  BY DEF IInv, TypeOK, stores, Nodes
<1>2. NodesMatchWriters'
  BY DEF IInv, NodesMatchWriters, stores, Nodes, WritesNull
<1>3. ASSUME NEW q \in Requests
      PROVE  /\ AtStep(req[q])' /\ MovesNull(q)' /\ DeletesNamed(q)'
             /\ Kept(q)' /\ PriorFinished(q)'
  <2>1. AtStep(req[q])' /\ PriorFinished(q)'
    BY DEF IInv, AtStep, Idle, PriorFinished, At
  <2>2. MovesNull(q)' /\ DeletesNamed(q)'
    BY DEF IInv, MovesNull, DeletesNamed, WritesNull, At
  <2>3. Kept(q)'
    BY DEF IInv, Kept, MayDeleteVersion, WritesNull, At, stores, Nodes
  <2> QED
    BY <2>1, <2>2, <2>3
<1> QED
  BY <1>1, <1>2, <1>3 DEF IInv

(* The initial states satisfy the invariant.                               *)
LEMMA InitIInv == Init => IInv
<1> SUFFICES ASSUME Init PROVE IInv
  OBVIOUS
<1>1. Idle \in Request
  BY DEF Idle, Request
<1>2. Idle.pc = "idle" /\ Idle.op = "none" /\ Idle.prior = {}
      /\ Idle.res = "none"
  BY DEF Idle
<1>3. Nodes = {} /\ \A r \in Requests : req[r] = Idle
  BY DEF Init, Nodes
<1>4. TypeOK
  BY <1>1, <1>3 DEF Init, TypeOK, Nodes
<1>5. \A r \in Requests : AtStep(req[r])
  BY <1>2, <1>3 DEF AtStep
<1>6. \A r \in Requests : /\ MovesNull(r) /\ DeletesNamed(r) /\ Kept(r)
                          /\ PriorFinished(r)
  BY <1>2, <1>3 DEF MovesNull, DeletesNamed, Kept, PriorFinished, At
<1> QED
  BY <1>3, <1>4, <1>5, <1>6 DEF IInv, NodesMatchWriters

(* Every step of the system preserves the inductive invariant.             *)
LEMMA NextKeeps == IInv /\ [Next]_vars => IInv'
<1> SUFFICES ASSUME IInv, [Next]_vars PROVE IInv'
  OBVIOUS
<1>1. ASSUME NEW r \in Requests, BeginStep(r) PROVE IInv'
  BY <1>1, BeginKeeps
<1>2. ASSUME NEW r \in Requests, PutStep(r) PROVE IInv'
  BY <1>2, CreateObjectKeeps, FindNullKeeps, AddNodeKeeps, MoveNodeKeeps,
     AfterWriteKeeps, FinishKeeps DEF PutStep
<1>3. ASSUME NEW r \in Requests, DeleteStep(r) PROVE IInv'
  BY <1>3, FindVersionKeeps, EvictObjectKeeps, DeleteObjectKeeps,
     RemoveVersionKeeps, FinishKeeps DEF DeleteStep
<1>4. ASSUME NEW r \in Requests, ReadStep(r) PROVE IInv'
  BY <1>4, ReadKeeps DEF ReadStep
<1>5. ASSUME NEW r \in Requests, CallFails(r) PROVE IInv'
  BY <1>5, CallFailsKeeps
<1>6. CASE Crash
  BY <1>6, CrashKeeps
<1>7. CASE SetVersioning
  <2>1. /\ UNCHANGED <<stores, req>> /\ versioning' \in Modes
        /\ faults' \in Nat /\ toggles' \in Nat /\ UNCHANGED caches
    BY <1>7 DEF SetVersioning, IInv, TypeOK
  <2> QED
    BY <2>1, CachesTyped, RestKeeps
<1>8. CASE ExpireName \/ ExpireObject \/ ExpireList
  <2>1. /\ UNCHANGED <<stores, req>> /\ versioning' \in Modes
        /\ faults' \in Nat /\ toggles' \in Nat
        /\ names' \in Requests \cup {None} /\ objCache' \subseteq Requests
        /\ lists' \subseteq Requests
    BY <1>8 DEF ExpireName, ExpireObject, ExpireList, IInv, TypeOK
  <2> QED
    BY <2>1, RestKeeps
<1>9. CASE UNCHANGED vars
  <2>1. /\ UNCHANGED <<stores, req>> /\ versioning' \in Modes
        /\ faults' \in Nat /\ toggles' \in Nat
        /\ names' \in Requests \cup {None} /\ objCache' \subseteq Requests
        /\ lists' \subseteq Requests
    BY <1>9 DEF vars, stores, IInv, TypeOK
  <2> QED
    BY <2>1, RestKeeps
<1> QED
  BY <1>1, <1>2, <1>3, <1>4, <1>5, <1>6, <1>7, <1>8, <1>9
  DEF Next, RequestStep

(* The inductive invariant holds in every reachable state.                 *)
THEOREM InvariantHolds == Spec => []IInv
BY InitIInv, NextKeeps, PTL DEF Spec

(* Type correctness of the stores, the caches and the request records,     *)
(* for any number of requests.                                             *)
THEOREM TypeCorrect == Spec => []TypeOK
<1>1. IInv => TypeOK
  BY DEF IInv
<1> QED
  BY <1>1, InvariantHolds, PTL

(* However many requests of whatever kind overlap, fail or are cut off by  *)
(* a crash, and however often the bucket's versioning state changes: a     *)
(* version acknowledged with versioning enabled keeps its node and its     *)
(* object until a DELETE takes that very version.                          *)
THEOREM EnabledVersionsSurvive == Spec => []EnabledVersionSurvives
<1>1. IInv => EnabledVersionSurvives
  <2> SUFFICES ASSUME IInv, NEW r \in Requests, AckedPut(r), ~WritesNull(r)
               PROVE  Stored(r) \/ \E d \in Requests : MayDeleteVersion(d, r)
    BY DEF EnabledVersionSurvives
  <2>1. AtStep(req[r]) /\ Kept(r)
    BY DEF IInv
  <2>2. ~At(r, "add")
    BY <2>1 DEF AckedPut, AtStep, At
  <2>3. \/ r \in objects /\ r \in Nodes
        \/ \E d \in Requests : MayDeleteVersion(d, r)
    BY <2>1, <2>2 DEF AckedPut, Kept
  <2>4. ASSUME r \in Nodes PROVE r \in StoredOids
    <3>1. ~tree[r].null /\ tree[r].oid = r
      BY <2>4 DEF IInv, NodesMatchWriters
    <3> QED
      BY <2>4, <3>1 DEF StoredOids
  <2> QED
    BY <2>3, <2>4 DEF Stored
<1> QED
  BY <1>1, InvariantHolds, PTL

---------------------------------------------------------------------------
(* What the two stores and the caches say of each other                    *)

(* The fields of the records the handlers leave behind.                    *)
LEMMA Fields ==
  ASSUME NEW r \in Requests, req[r] \in Request
  PROVE  /\ \A p : /\ To(r, p).pc = p /\ SameAsk(To(r, p), req[r])
                   /\ To(r, p).oid = req[r].oid /\ To(r, p).res = req[r].res
                   /\ To(r, p).node = req[r].node
         /\ \A e : /\ Done(r, e).pc = "done" /\ SameAsk(Done(r, e), req[r])
                   /\ Done(r, e).oid = req[r].oid /\ Done(r, e).res = e
         /\ \A o : /\ Answered(r, o).pc = "done"
                   /\ SameAsk(Answered(r, o), req[r])
                   /\ Answered(r, o).oid = o /\ Answered(r, o).res = "ok"
         /\ SameAsk(Failed(r), req[r])
         /\ Failed(r).oid = req[r].oid /\ Failed(r).res = "error"
         /\ Failed(r).pc = IF At(r, "remove") THEN "clean" ELSE "done"
<1>1. ASSUME NEW p
      PROVE  /\ To(r, p).pc = p /\ SameAsk(To(r, p), req[r])
             /\ To(r, p).oid = req[r].oid /\ To(r, p).res = req[r].res
             /\ To(r, p).node = req[r].node
  BY DEF To, SameAsk, Request
<1>2. ASSUME NEW e
      PROVE  /\ Done(r, e).pc = "done" /\ SameAsk(Done(r, e), req[r])
             /\ Done(r, e).oid = req[r].oid /\ Done(r, e).res = e
  BY DEF Done, SameAsk, Request
<1>3. ASSUME NEW o
      PROVE  /\ Answered(r, o).pc = "done" /\ SameAsk(Answered(r, o), req[r])
             /\ Answered(r, o).oid = o /\ Answered(r, o).res = "ok"
  BY DEF Answered, Done, SameAsk, Request
<1>4. CASE At(r, "remove")
  BY <1>1, <1>2, <1>3, <1>4 DEF Failed, SameAsk, Request
<1>5. CASE ~At(r, "remove")
  BY <1>1, <1>2, <1>3, <1>5 DEF Failed
<1> QED
  BY <1>4, <1>5

---------------------------------------------------------------------------
(* What a step may do, as the proofs see it: x is the record the handler   *)
(* of request r leaves behind.                                             *)

Keeps(r, x)   == x.oid = req[r].oid /\ x.res = req[r].res
GivesUp(r, x) == x.pc = "done" /\ x.res = "error" /\ x.oid = req[r].oid
EndsWell(r, x) == x.pc = "done" /\ x.res = "ok" /\ x.oid = req[r].oid

Creates(r, x) ==
  /\ At(r, "create") /\ req[r].op = "put"
  /\ objects' = objects \cup {r} /\ UNCHANGED <<tree, caches>>
  /\ \/ GivesUp(r, x)
     \/ Keeps(r, x) /\ x.pc = IF WritesNull(r) THEN "getnull" ELSE "add"

Writes(r, x, n) ==
  /\ tree' = Upsert(n, NewNode(r)) /\ UNCHANGED <<objects, caches>>
  /\ n \in Requests
  /\ \/ At(r, "add") /\ n = r
     \/ At(r, "move") /\ n = req[r].node
  /\ \/ GivesUp(r, x)
     \/ Keeps(r, x) /\ x.pc \in {"clear", "lock", "cache"}
  /\ x.pc = "clear" => At(r, "move")

Drops(r, x) ==
  /\ At(r, "delete")
  /\ objects' = objects \ {req[r].oid} /\ UNCHANGED <<tree, caches>>
  /\ \/ GivesUp(r, x)
     \/ Keeps(r, x) /\ x.pc = AfterOld(r) /\ x.node = req[r].node

Removes(r, x) ==
  /\ At(r, "remove")
  /\ tree' = [n \in Nodes \ {req[r].node} |-> tree[n]]
  /\ UNCHANGED <<objects, caches>>
  /\ x.pc = "clean" /\ x.oid = req[r].oid /\ x.res \in {req[r].res, "error"}

LooksForNull(r, x) ==
  /\ At(r, "getnull") /\ Keeps(r, x) /\ UNCHANGED caches
  /\ \/ x.pc = "add" /\ NullNodes = {}
     \/ x.pc = "move" /\ x.node \in NullNodes /\ NullNodes = {x.node}

GoesOn(r, x) ==
  /\ Keeps(r, x) /\ UNCHANGED caches
  /\ At(r, "clear") \/ At(r, "lock")
  /\ x.pc \in {"lock", "cache"} /\ (x.pc = "lock" => req[r].op = "put")

Caches(r, x) ==
  /\ At(r, "cache") /\ EndsWell(r, x) /\ lists' = {}
  /\ objCache' = IF req[r].op = "put" THEN objCache \cup {r} ELSE objCache

FindsNone(r, x) ==
  /\ At(r, "find") /\ req[r].op = "delete" /\ Named(Target(r)) = {}
  /\ EndsWell(r, x) /\ UNCHANGED caches

Finds(r, x) ==
  /\ At(r, "find") /\ req[r].op = "delete" /\ UNCHANGED caches
  /\ x.node \in Named(Target(r)) /\ x.oid = tree[x.node].oid
  /\ x.pc = (IF tree[x.node].marker THEN AfterOld(r) ELSE "evict")
  /\ x.res = req[r].res

Evicts(r, x) ==
  /\ At(r, "evict") /\ Keeps(r, x) /\ x.pc = "delete"
  /\ x.node = req[r].node
  /\ objCache' = objCache \ {req[r].oid} /\ lists' = lists

Cleans(r, x) ==
  /\ At(r, "clean") /\ x.pc = "done" /\ x.oid = req[r].oid
  /\ x.res = IF req[r].res = "error" THEN "error" ELSE "ok"
  /\ lists' = {} /\ objCache' = objCache

Fails(r, x) ==
  /\ UNCHANGED caches
  /\ \/ GivesUp(r, x)
     \/ /\ At(r, "remove") /\ x.pc = "clean" /\ x.oid = req[r].oid
        /\ x.res = "error"

ReadsHead(r, x) ==
  /\ req[r].op = "head"
  /\ \/ At(r, "find") /\ x.pc \in {"head", "done"} /\ UNCHANGED caches
     \/ /\ At(r, "head") /\ x.pc \in {"fill", "done"} /\ UNCHANGED caches
        /\ x.oid = req[r].oid
        /\ x.pc = "fill" => req[r].oid \in objects
     \/ /\ At(r, "fill") /\ x.pc = "done" /\ x.oid = req[r].oid
        /\ objCache' = objCache \cup {req[r].oid} /\ lists' = lists

ReadsList(r, x) ==
  /\ req[r].op = "list" /\ objCache' = objCache
  /\ \/ /\ At(r, "find") /\ lists' = lists /\ x.todo = Nodes
        /\ x.pc = IF Nodes = {} THEN "fill" ELSE "nodes"
     \/ /\ At(r, "nodes") /\ lists' = lists
        /\ \E n \in req[r].todo :
             /\ x.pc = IF req[r].todo = {n} THEN "fill" ELSE "nodes"
             /\ x.todo = req[r].todo \ {n}
             /\ x.ans = req[r].ans \cup {tree[m].oid : m \in Nodes \cap {n}}
     \/ At(r, "fill") /\ x.pc = "done" /\ lists' = req[r].ans

Local(r, x) ==
  /\ UNCHANGED <<objects, tree>>
  /\ \/ Fails(r, x) \/ LooksForNull(r, x) \/ GoesOn(r, x) \/ Caches(r, x)
     \/ FindsNone(r, x) \/ Finds(r, x) \/ Evicts(r, x) \/ Cleans(r, x)
     \/ ReadsHead(r, x) \/ ReadsList(r, x)

Did(r, x) == \/ Local(r, x) \/ Creates(r, x) \/ Drops(r, x) \/ Removes(r, x)
             \/ \E n \in Requests : Writes(r, x, n)

Alone(r, x) == req'[r] = x /\ \A q \in Requests \ {r} : req'[q] = req[q]

(* The handler of r took a step.                                           *)
Handled(r, x) ==
  /\ Active(r) /\ Alone(r, x) /\ SameAsk(x, req[r]) /\ x.pc # "idle"
  /\ Did(r, x)

(* Request r began.                                                        *)
Begins(r, x) ==
  /\ At(r, "idle") /\ Alone(r, x) /\ x.prior = Finished
  /\ UNCHANGED <<objects, tree, caches>>
  /\ \/ x.op = "put" /\ x.pc = "create"
     \/ x.op = "delete" /\ x.pc \in {"find", "add"}
     \/ x.op = "head" /\ x.pc \in {"find", "done"}
     \/ x.op = "list" /\ x.pc \in {"find", "done"}
  /\ x.pc # "done" => x.oid = None /\ x.res = "none"
  /\ x.pc = "add" => x.vid = "latest" /\ x.mode = "Enabled"
  /\ x.op = "delete" => x.vid \in {"latest", "null"} \cup KnownVersions

(* The gateway restarted.                                                  *)
Crashed ==
  /\ UNCHANGED <<objects, tree>> /\ objCache' = {} /\ lists' = {}
  /\ \A q \in Requests :
       \/ ~Active(q) /\ req'[q] = req[q]
       \/ /\ Active(q) /\ SameAsk(req'[q], req[q]) /\ req'[q].pc = "done"
          /\ req'[q].res = "crashed" /\ req'[q].oid = req[q].oid

(* Nothing happened but to the settings or to cache entries.               *)
Rested == /\ UNCHANGED <<objects, tree, req>>
          /\ objCache' \subseteq objCache /\ lists' \in {lists, {}}

(* The steps the invariants are carried over, with IInv before and after.  *)
AnyStep == /\ IInv /\ IInv'
           /\ \/ \E r \in Requests : Handled(r, req'[r]) \/ Begins(r, req'[r])
              \/ Crashed \/ Rested

(* The steps of a PUT, and those a DELETE shares with it.                  *)
LEMMA PutDoes ==
  ASSUME IInv, IsFiniteSet(Nodes), NEW r \in Requests, PutStep(r)
  PROVE  Handled(r, req'[r])
<1> DEFINE x == req'[r]
<1>1. req[r] \in Request /\ AtStep(req[r]) /\ req \in [Requests -> Request]
  BY DEF IInv, TypeOK
<1>2. \A y : Step(r, y) \/ req' = [req EXCEPT ![r] = y] => x = y /\ Alone(r, x)
  BY <1>1 DEF Step, Alone
<1>3. /\ \A y : Replied(r, y) => Alone(r, x) /\ x \in {y, Failed(r)}
      /\ Fault(r) => Alone(r, x) /\ x = Failed(r)
      /\ \A y : Step(r, y) => Alone(r, x) /\ x = y
  BY <1>2 DEF Replied, Fault
<1> HIDE DEF x
<1>4. CASE CreateObject(r)
  <2>1. req[r].pc = "create" /\ req[r].op = "put" /\ Active(r)
    BY <1>1, <1>4 DEF CreateObject, At, AtStep, Active
  <2>2. /\ Alone(r, x) /\ x \in {To(r, IF WritesNull(r) THEN "getnull" ELSE "add"),
                                 Failed(r)}
        /\ objects' = objects \cup {r} /\ UNCHANGED <<tree, caches>>
    BY <1>3, <1>4 DEF CreateObject
  <2>3. Creates(r, x) /\ SameAsk(x, req[r]) /\ x.pc # "idle"
    BY <1>1, <2>1, <2>2, Fields DEF Creates, GivesUp, Keeps, At
  <2> QED
    BY <2>1, <2>2, <2>3 DEF Handled, Did, x
<1>5. CASE FindNull(r)
  <2>1. req[r].pc = "getnull" /\ Active(r) /\ UNCHANGED <<objects, tree, caches>>
    BY <1>5 DEF FindNull, At, Active, stores
  <2>2. /\ Alone(r, x)
        /\ \/ x = Done(r, "error")
           \/ x = To(r, "add") /\ NullNodes = {}
           \/ \E n \in NullNodes : /\ x = [req[r] EXCEPT !.pc = "move", !.node = n]
                                   /\ ~(Cardinality(NullNodes) > 1)
    BY <1>3, <1>5 DEF FindNull
  <2>3. CASE x = Done(r, "error")
    <3>1. Local(r, x) /\ SameAsk(x, req[r]) /\ x.pc # "idle"
      BY <1>1, <2>1, <2>3, Fields DEF Local, Fails, GivesUp
    <3> QED
      BY <2>1, <2>2, <3>1 DEF Handled, Did, x
  <2>4. CASE x = To(r, "add") /\ NullNodes = {}
    <3>1. Local(r, x) /\ SameAsk(x, req[r]) /\ x.pc # "idle"
      BY <1>1, <2>1, <2>4, Fields DEF Local, LooksForNull, Keeps, At
    <3> QED
      BY <2>1, <2>2, <3>1 DEF Handled, Did, x
  <2>5. ASSUME NEW n \in NullNodes, ~(Cardinality(NullNodes) > 1),
               x = [req[r] EXCEPT !.pc = "move", !.node = n]
        PROVE  Handled(r, req'[r])
    <3>1. NullNodes = {n}
      <4>1. IsFiniteSet(NullNodes)
        BY FS_Subset DEF NullNodes
      <4>2. Cardinality(NullNodes) \in Nat /\ Cardinality(NullNodes) # 0
        BY <4>1, FS_CardinalityType, FS_EmptySet, <2>5
      <4>3. Cardinality(NullNodes) = 1
        BY <4>2, <2>5
      <4> QED
        BY <4>1, <4>3, FS_Singleton
    <3>2. /\ x.pc = "move" /\ x.node = n /\ SameAsk(x, req[r])
          /\ x.oid = req[r].oid /\ x.res = req[r].res
      BY <1>1, <2>5 DEF SameAsk, Request
    <3>3. Local(r, x)
      BY <2>1, <3>1, <3>2 DEF Local, LooksForNull, Keeps, At
    <3> QED
      BY <2>1, <2>2, <3>2, <3>3 DEF Handled, Did, x
  <2> QED
    BY <2>2, <2>3, <2>4, <2>5
<1>6. CASE AddNode(r)
  <2>1. req[r].pc = "add" /\ Active(r)
    BY <1>6 DEF AddNode, At, Active
  <2>2. /\ Alone(r, x) /\ x \in {To(r, "lock"), To(r, "cache"), Failed(r)}
        /\ tree' = Upsert(r, NewNode(r)) /\ UNCHANGED <<objects, caches>>
    BY <1>3, <1>6 DEF AddNode, AfterAdd
  <2>3. Writes(r, x, r) /\ SameAsk(x, req[r]) /\ x.pc # "idle"
    BY <1>1, <2>1, <2>2, Fields DEF Writes, GivesUp, Keeps, At
  <2> QED
    BY <2>1, <2>2, <2>3 DEF Handled, Did, x
<1>7. CASE MoveNode(r)
  <2>1. req[r].pc = "move" /\ Active(r) /\ req[r].node \in Requests
    BY <1>1, <1>7 DEF MoveNode, At, Active, AtStep
  <2>2. /\ Alone(r, x) /\ UNCHANGED <<objects, caches>>
        /\ \/ /\ x \in {To(r, "clear"), Failed(r)}
              /\ tree' = Upsert(req[r].node, NewNode(r))
           \/ x = Done(r, "error") /\ UNCHANGED tree
    BY <1>3, <1>7 DEF MoveNode
  <2>3. SameAsk(x, req[r]) /\ x.pc # "idle"
        /\ (Writes(r, x, req[r].node) \/ Local(r, x))
    BY <1>1, <2>1, <2>2, Fields DEF Writes, GivesUp, Keeps, At, Local, Fails
  <2> QED
    BY <2>1, <2>2, <2>3 DEF Handled, Did, x
<1>8. CASE ClearOutdated(r) \/ PutLockInfo(r)
  <2>1. /\ At(r, "clear") \/ At(r, "lock")
        /\ At(r, "lock") => req[r].op = "put"
        /\ Active(r) /\ UNCHANGED <<objects, tree, caches>>
    BY <1>1, <1>8 DEF ClearOutdated, PutLockInfo, At, Active, AtStep, stores
  <2>2. /\ Alone(r, x)
        /\ \/ x = To(r, "lock") /\ req[r].op = "put"
           \/ x = To(r, "cache")
           \/ x = Failed(r)
    BY <1>3, <1>8 DEF ClearOutdated, PutLockInfo, AfterAdd
  <2>3. Local(r, x) /\ SameAsk(x, req[r]) /\ x.pc # "idle"
    BY <1>1, <2>1, <2>2, Fields
    DEF Local, Fails, GoesOn, GivesUp, Keeps, At
  <2> QED
    BY <2>1, <2>2, <2>3 DEF Handled, Did, x
<1>9. CASE CachePut(r)
  <2>1. /\ req[r].pc = "cache" /\ req[r].op = "put" /\ Active(r)
        /\ UNCHANGED <<objects, tree>> /\ lists' = {}
        /\ objCache' = objCache \cup {r}
        /\ Alone(r, x) /\ x = Done(r, "ok")
    BY <1>3, <1>9 DEF CachePut, At, Active, stores
  <2>2. Local(r, x) /\ SameAsk(x, req[r]) /\ x.pc # "idle"
    BY <1>1, <2>1, Fields DEF Local, Caches, EndsWell, At
  <2> QED
    BY <2>1, <2>2 DEF Handled, Did, x
<1> QED
  BY <1>4, <1>5, <1>6, <1>7, <1>8, <1>9 DEF PutStep

(* The steps only a DELETE takes.                                          *)
LEMMA DeleteDoes ==
  ASSUME IInv, NEW r \in Requests, DeleteStep(r)
  PROVE  Handled(r, req'[r])
<1> DEFINE x == req'[r]
<1>1. req[r] \in Request /\ AtStep(req[r]) /\ req \in [Requests -> Request]
  BY DEF IInv, TypeOK
<1>2. \A y : Step(r, y) \/ req' = [req EXCEPT ![r] = y] => x = y /\ Alone(r, x)
  BY <1>1 DEF Step, Alone
<1>3. /\ \A y : Replied(r, y) => Alone(r, x) /\ x \in {y, Failed(r)}
      /\ \A y : Step(r, y) => Alone(r, x) /\ x = y
  BY <1>2 DEF Replied, Fault
<1> HIDE DEF x
<1>4. CASE FindVersion(r)
  <2>1. /\ At(r, "find") /\ req[r].op = "delete" /\ Active(r)
        /\ UNCHANGED <<objects, tree, caches>>
    BY <1>4 DEF FindVersion, At, Active, stores
  <2> DEFINE Found(n) ==
        [req[r] EXCEPT !.node = n, !.oid = tree[n].oid,
                       !.pc = IF tree[n].marker THEN AfterOld(r) ELSE "evict"]
  <2>2. /\ Alone(r, x)
        /\ \/ x = Done(r, "error")
           \/ x = Done(r, "ok") /\ Named(Target(r)) = {}
           \/ \E n \in Named(Target(r)) : x = Found(n)
    BY <1>3, <1>4 DEF FindVersion
  <2>3. CASE \/ x = Done(r, "error")
             \/ x = Done(r, "ok") /\ Named(Target(r)) = {}
    <3>1. Local(r, x) /\ SameAsk(x, req[r]) /\ x.pc # "idle"
      BY <1>1, <2>1, <2>3, Fields
      DEF Local, Fails, FindsNone, GivesUp, EndsWell
    <3> QED
      BY <2>1, <2>2, <3>1 DEF Handled, Did, x
  <2>4. ASSUME NEW n \in Named(Target(r)), x = Found(n)
        PROVE  Handled(r, req'[r])
    <3>1. /\ x.node = n /\ x.oid = tree[n].oid /\ SameAsk(x, req[r])
          /\ x.pc = (IF tree[n].marker THEN AfterOld(r) ELSE "evict")
          /\ x.res = req[r].res
      BY <1>1, <2>4 DEF SameAsk, Request
    <3>2. x.pc # "idle"
      BY <3>1 DEF AfterOld
    <3>3. Local(r, x)
      BY <2>1, <2>4, <3>1 DEF Local, Finds
    <3> QED
      BY <2>1, <2>2, <3>1, <3>2, <3>3 DEF Handled, Did, x
  <2> HIDE DEF Found
  <2> QED
    BY <2>2, <2>3, <2>4
<1>5. CASE EvictObject(r)
  <2>1. /\ At(r, "evict") /\ Active(r) /\ UNCHANGED <<objects, tree, lists>>
        /\ objCache' = objCache \ {req[r].oid}
        /\ Alone(r, x) /\ x = To(r, "delete")
    BY <1>3, <1>5 DEF EvictObject, At, Active, stores
  <2>2. Local(r, x) /\ SameAsk(x, req[r]) /\ x.pc # "idle"
    BY <1>1, <2>1, Fields DEF Local, Evicts, Keeps
  <2> QED
    BY <2>1, <2>2 DEF Handled, Did, x
<1>6. CASE DeleteObject(r)
  <2>1. /\ At(r, "delete") /\ Active(r) /\ UNCHANGED <<tree, caches>>
        /\ objects' = objects \ {req[r].oid}
        /\ Alone(r, x)
        /\ x \in {To(r, AfterOld(r)), Failed(r), Done(r, "error")}
    BY <1>3, <1>6 DEF DeleteObject, At, Active
  <2>2. Drops(r, x) /\ SameAsk(x, req[r])
    BY <1>1, <2>1, Fields DEF Drops, GivesUp, Keeps, At
  <2>3. x.pc # "idle"
    BY <2>2 DEF Drops, GivesUp, AfterOld
  <2> QED
    BY <2>1, <2>2, <2>3 DEF Handled, Did, x
<1>7. CASE RemoveVersion(r)
  <2>1. /\ At(r, "remove") /\ Active(r) /\ UNCHANGED <<objects, caches>>
        /\ tree' = [n \in Nodes \ {req[r].node} |-> tree[n]]
        /\ Alone(r, x) /\ x \in {To(r, "clean"), Failed(r)}
    BY <1>3, <1>7 DEF RemoveVersion, At, Active
  <2>2. Removes(r, x) /\ SameAsk(x, req[r]) /\ x.pc # "idle"
    BY <1>1, <2>1, Fields DEF Removes
  <2> QED
    BY <2>1, <2>2 DEF Handled, Did, x
<1>8. CASE CleanLists(r)
  <2>1. /\ At(r, "clean") /\ Active(r) /\ UNCHANGED <<objects, tree, objCache>>
        /\ lists' = {} /\ Alone(r, x)
        /\ x = Done(r, IF req[r].res = "error" THEN "error" ELSE "ok")
    BY <1>3, <1>8 DEF CleanLists, At, Active, stores
  <2>2. Local(r, x) /\ SameAsk(x, req[r]) /\ x.pc # "idle"
    BY <1>1, <2>1, Fields DEF Local, Cleans
  <2> QED
    BY <2>1, <2>2 DEF Handled, Did, x
<1>9. CASE DropName(r)
  <2>1. /\ At(r, "cache") /\ req[r].op = "delete" /\ Active(r)
        /\ UNCHANGED <<objects, tree, objCache>> /\ lists' = {}
        /\ Alone(r, x) /\ x = Done(r, "ok")
    BY <1>3, <1>9 DEF DropName, At, Active, stores
  <2>2. Local(r, x) /\ SameAsk(x, req[r]) /\ x.pc # "idle"
    BY <1>1, <2>1, Fields DEF Local, Caches, EndsWell
  <2> QED
    BY <2>1, <2>2 DEF Handled, Did, x
<1> QED
  BY <1>4, <1>5, <1>6, <1>7, <1>8, <1>9 DEF DeleteStep

(* The steps of a HEAD and of a listing.                                   *)
LEMMA ReadDoes ==
  ASSUME IInv, NEW r \in Requests, ReadStep(r)
  PROVE  Handled(r, req'[r])
<1> DEFINE x == req'[r]
<1>1. req[r] \in Request /\ AtStep(req[r]) /\ req \in [Requests -> Request]
  BY DEF IInv, TypeOK
<1>2. \A y : Step(r, y) => Alone(r, x) /\ x = y
  BY <1>1 DEF Step, Alone
<1>3. Active(r) /\ UNCHANGED <<objects, tree>>
  BY DEF ReadStep, FindToRead, HeadObject, CacheRead, FetchNodes, ReadNode,
         CacheList, At, Active, stores
<1> HIDE DEF x
<1>4. CASE FindToRead(r)
  <2>1. At(r, "find") /\ req[r].op = "head" /\ UNCHANGED caches
    BY <1>4 DEF FindToRead
  <2> DEFINE toHead(o) == [req[r] EXCEPT !.pc = "head", !.oid = o]
  <2>2. \/ Step(r, Done(r, "error")) \/ Step(r, Done(r, "notfound"))
        \/ \E n \in Named(req[r].vid) : \/ Step(r, Answered(r, tree[n].oid))
                                       \/ Step(r, toHead(tree[n].oid))
    BY <1>4 DEF FindToRead
  <2>3. /\ Alone(r, x) /\ x.pc \in {"head", "done"} /\ SameAsk(x, req[r])
    <3>1. \A o : toHead(o).pc = "head" /\ SameAsk(toHead(o), req[r])
      BY <1>1 DEF SameAsk, Request
    <3> HIDE DEF toHead
    <3>2. CASE Step(r, Done(r, "error")) \/ Step(r, Done(r, "notfound"))
      BY <1>1, <1>2, <3>2, Fields
    <3>3. ASSUME NEW n \in Named(req[r].vid),
                 \/ Step(r, Answered(r, tree[n].oid))
                 \/ Step(r, toHead(tree[n].oid))
          PROVE  Alone(r, x) /\ x.pc \in {"head", "done"} /\ SameAsk(x, req[r])
      BY <1>1, <1>2, <3>1, <3>3, Fields
    <3> QED
      BY <2>2, <3>2, <3>3
  <2>4. Local(r, x)
    BY <1>3, <2>1, <2>3 DEF Local, ReadsHead
  <2> QED
    BY <1>3, <2>3, <2>4 DEF Handled, Did, x
<1>5. CASE HeadObject(r)
  <2>1. /\ At(r, "head") /\ req[r].op = "head" /\ UNCHANGED caches
        /\ Alone(r, x)
        /\ x = IF req[r].oid \in objects THEN To(r, "fill")
                                         ELSE Done(r, "notfound")
    BY <1>1, <1>2, <1>5 DEF HeadObject, AtStep, At
  <2>2. Local(r, x) /\ SameAsk(x, req[r]) /\ x.pc # "idle"
    BY <1>1, <1>3, <2>1, Fields DEF Local, ReadsHead
  <2> QED
    BY <1>3, <2>1, <2>2 DEF Handled, Did, x
<1>6. CASE CacheRead(r)
  <2>1. /\ At(r, "fill") /\ req[r].op = "head" /\ lists' = lists
        /\ objCache' = objCache \cup {req[r].oid}
        /\ Alone(r, x) /\ x = Answered(r, req[r].oid)
    BY <1>2, <1>6 DEF CacheRead
  <2>2. Local(r, x) /\ SameAsk(x, req[r]) /\ x.pc # "idle"
    BY <1>1, <1>3, <2>1, Fields DEF Local, ReadsHead
  <2> QED
    BY <1>3, <2>1, <2>2 DEF Handled, Did, x
<1>7. CASE FetchNodes(r)
  <2> DEFINE y == [req[r] EXCEPT !.pc = IF Nodes = {} THEN "fill" ELSE "nodes",
                                 !.todo = Nodes]
  <2>1. /\ At(r, "find") /\ req[r].op = "list" /\ UNCHANGED caches
        /\ Alone(r, x) /\ x = y
    BY <1>2, <1>7 DEF FetchNodes
  <2>2. /\ y.pc = (IF Nodes = {} THEN "fill" ELSE "nodes") /\ y.todo = Nodes
        /\ SameAsk(y, req[r])
    BY <1>1 DEF SameAsk, Request
  <2> HIDE DEF y
  <2>3. Local(r, x) /\ SameAsk(x, req[r]) /\ x.pc # "idle"
    BY <1>3, <2>1, <2>2 DEF Local, ReadsList, caches
  <2> QED
    BY <1>3, <2>1, <2>3 DEF Handled, Did, x
<1>8. CASE ReadNode(r)
  <2>1. At(r, "nodes") /\ req[r].op = "list" /\ UNCHANGED caches
    BY <1>1, <1>8 DEF ReadNode, AtStep, At
  <2> DEFINE y(n) == [req[r] EXCEPT
                        !.pc = IF req[r].todo = {n} THEN "fill" ELSE "nodes",
                        !.todo = @ \ {n},
                        !.ans = @ \cup {tree[m].oid : m \in Nodes \cap {n}}]
  <2>2. PICK n \in req[r].todo : Step(r, y(n)) \/ Step(r, Done(r, "error"))
    BY <1>8 DEF ReadNode
  <2>3. Alone(r, x) /\ (x = y(n) \/ x = Done(r, "error"))
    BY <1>2, <2>2
  <2>4. /\ y(n).pc = IF req[r].todo = {n} THEN "fill" ELSE "nodes"
        /\ y(n).todo = req[r].todo \ {n} /\ SameAsk(y(n), req[r])
        /\ y(n).ans = req[r].ans \cup {tree[m].oid : m \in Nodes \cap {n}}
    BY <1>1 DEF SameAsk, Request
  <2> HIDE DEF y
  <2>5. CASE x = y(n)
    <3>1. ReadsList(r, x) /\ SameAsk(x, req[r]) /\ x.pc # "idle"
      BY <2>1, <2>4, <2>5 DEF ReadsList, caches
    <3> QED
      BY <1>3, <2>3, <3>1 DEF Handled, Did, x, Local
  <2>6. CASE x = Done(r, "error")
    <3>1. Fails(r, x) /\ SameAsk(x, req[r]) /\ x.pc # "idle"
      BY <1>1, <2>1, <2>6, Fields DEF Fails, GivesUp
    <3> QED
      BY <1>3, <2>3, <3>1 DEF Handled, Did, x, Local
  <2> QED
    BY <2>3, <2>5, <2>6
<1>9. CASE CacheList(r)
  <2>1. /\ At(r, "fill") /\ req[r].op = "list" /\ objCache' = objCache
        /\ lists' = req[r].ans /\ Alone(r, x) /\ x = Done(r, "ok")
    BY <1>2, <1>9 DEF CacheList
  <2>2. Local(r, x) /\ SameAsk(x, req[r]) /\ x.pc # "idle"
    BY <1>1, <1>3, <2>1, Fields DEF Local, ReadsList
  <2> QED
    BY <1>3, <2>1, <2>2 DEF Handled, Did, x
<1> QED
  BY <1>4, <1>5, <1>6, <1>7, <1>8, <1>9 DEF ReadStep

(* A call that fails.                                                      *)
LEMMA FailureDoes ==
  ASSUME IInv, NEW r \in Requests, CallFails(r)
  PROVE  Handled(r, req'[r])
<1>1. req[r] \in Request /\ req \in [Requests -> Request]
  BY DEF IInv, TypeOK
<1>2. /\ Active(r) /\ UNCHANGED <<objects, tree, caches>>
      /\ Alone(r, req'[r]) /\ req'[r] = Failed(r)
  BY <1>1 DEF CallFails, Fault, Active, Alone, stores
<1>3. Local(r, req'[r]) /\ SameAsk(req'[r], req[r]) /\ req'[r].pc # "idle"
  BY <1>1, <1>2, Fields DEF Local, Fails, GivesUp
<1> QED
  BY <1>2, <1>3 DEF Handled, Did

(* A new request.                                                          *)
LEMMA BeginDoes ==
  ASSUME IInv, NEW r \in Requests, BeginStep(r)
  PROVE  Begins(r, req'[r])
<1> DEFINE x == req'[r]
<1>1. req[r] \in Request /\ AtStep(req[r]) /\ req \in [Requests -> Request]
  BY DEF IInv, TypeOK
<1>2. At(r, "idle")
  BY DEF BeginStep, BeginPut, BeginDelete, BeginHead, BeginList, Begin
<1>3. req[r].oid = None /\ req[r].res = "none"
  <2>1. req[r] = Idle
    BY <1>1, <1>2 DEF AtStep, At
  <2>2. Idle.oid = None /\ Idle.res = "none"
    BY DEF Idle
  <2> QED
    BY <2>1, <2>2
<1>4. ASSUME NEW op, NEW vid, NEW next \in Request, Begin(r, op, vid, next)
      PROVE  /\ Alone(r, x) /\ x.op = op /\ x.vid = vid /\ x.mode = versioning
             /\ x.prior = Finished /\ x.pc = next.pc /\ x.oid = next.oid
             /\ x.res = next.res /\ UNCHANGED <<objects, tree, caches>>
  <2> DEFINE y == [next EXCEPT !.op = op, !.vid = vid, !.mode = versioning,
                               !.prior = Finished]
  <2>1. req' = [req EXCEPT ![r] = y] /\ UNCHANGED <<objects, tree, caches>>
    BY <1>4 DEF Begin, stores
  <2>2. /\ y.op = op /\ y.vid = vid /\ y.mode = versioning
        /\ y.prior = Finished /\ y.pc = next.pc /\ y.oid = next.oid
        /\ y.res = next.res
    BY DEF Request
  <2> HIDE DEF y
  <2> QED
    BY <1>1, <2>1, <2>2 DEF Alone
<1> HIDE DEF x
<1>5. /\ \A p \in {"create", "find", "add"} : To(r, p) \in Request
      /\ \A p : To(r, p).pc = p /\ To(r, p).oid = None /\ To(r, p).res = "none"
      /\ \A o \in Requests : Answered(r, o) \in Request
                             /\ Answered(r, o).pc = "done"
  BY <1>1, <1>3, RecordTypes, Fields DEF IInv
<1>6. CASE BeginPut(r)
  BY <1>2, <1>4, <1>5, <1>6 DEF BeginPut, Begins, x
<1>7. CASE BeginDelete(r)
  <2>1. PICK vid \in {"latest", "null"} \cup KnownVersions :
          Begin(r, "delete", vid,
                To(r, IF vid = "latest" /\ versioning = "Enabled"
                      THEN "add" ELSE "find"))
    BY <1>7 DEF BeginDelete
  <2>2. CASE vid = "latest" /\ versioning = "Enabled"
    BY <1>2, <1>4, <1>5, <2>1, <2>2 DEF Begins, x
  <2>3. CASE ~(vid = "latest" /\ versioning = "Enabled")
    BY <1>2, <1>4, <1>5, <2>1, <2>3 DEF Begins, x
  <2> QED
    BY <2>2, <2>3
<1>8. CASE BeginHead(r)
  <2>1. names \in objCache => names \in Requests
    BY DEF IInv, TypeOK
  <2> QED
    BY <1>2, <1>4, <1>5, <1>8, <2>1 DEF BeginHead, Begins, x
<1>9. CASE BeginList(r)
  <2> DEFINE y == [Done(r, "ok") EXCEPT !.ans = lists]
  <2>1. y \in Request /\ y.pc = "done"
    <3>1. Done(r, "ok") \in Request /\ Done(r, "ok").pc = "done"
      BY <1>1, RecordTypes, Fields DEF IInv
    <3>2. lists \in SUBSET Requests
      BY DEF IInv, TypeOK
    <3>3. \A z \in Request : /\ [z EXCEPT !.ans = lists] \in Request
                             /\ [z EXCEPT !.ans = lists].pc = z.pc
      BY <3>2 DEF Request
    <3> QED
      BY <3>1, <3>3
  <2>2. \/ Begin(r, "list", "latest", y) \/ Begin(r, "list", "latest", To(r, "find"))
    BY <1>9 DEF BeginList
  <2> HIDE DEF y
  <2> QED
    BY <1>2, <1>4, <1>5, <2>1, <2>2 DEF Begins, x
<1> QED
  BY <1>6, <1>7, <1>8, <1>9 DEF BeginStep

(* A restart.                                                              *)
LEMMA CrashDoes ==
  ASSUME IInv, Crash
  PROVE  Crashed
<1>1. \A q \in Requests : req[q] \in Request
  BY DEF IInv, TypeOK
<1>2. /\ UNCHANGED <<objects, tree>> /\ objCache' = {} /\ lists' = {}
      /\ \A q \in Requests : req'[q] = IF Active(q) THEN Done(q, "crashed")
                                                   ELSE req[q]
  BY DEF Crash, stores
<1> QED
  BY <1>1, <1>2, Fields DEF Crashed

(* Every step is one of these.                                             *)
LEMMA NextDoes ==
  ASSUME IInv, IsFiniteSet(Nodes), [Next]_vars
  PROVE  AnyStep
<1>1. IInv'
  BY NextKeeps
<1>2. ASSUME NEW r \in Requests, BeginStep(r) \/ RequestStep(r) \/ CallFails(r)
      PROVE  Handled(r, req'[r]) \/ Begins(r, req'[r])
  BY <1>2, BeginDoes, PutDoes, DeleteDoes, ReadDoes, FailureDoes
  DEF RequestStep
<1>3. ASSUME \/ SetVersioning \/ ExpireName \/ ExpireObject \/ ExpireList
             \/ UNCHANGED vars
      PROVE  Rested
  BY <1>3 DEF SetVersioning, ExpireName, ExpireObject, ExpireList, Rested,
              vars, stores, caches
<1> QED
  BY <1>1, <1>2, <1>3, CrashDoes DEF Next, AnyStep

---------------------------------------------------------------------------
(* What all steps have in common.                                          *)

(* Requests that began stay what they are, those that are over stay as     *)
(* they are, and what was written was written.                             *)
LEMMA Steady ==
  ASSUME AnyStep, NEW q \in Requests, req[q].pc # "idle"
  PROVE  /\ req'[q].pc # "idle" /\ SameAsk(req'[q], req[q])
         /\ req[q].pc = "done" => req'[q] = req[q]
         /\ Wrote(q) => Wrote(q)'
         /\ WritesNull(q)' <=> WritesNull(q)
         /\ Target(q)' = Target(q)
<1> DEFINE Same ==
             /\ req'[q].pc # "idle" /\ SameAsk(req'[q], req[q])
             /\ req[q].pc = "done" => req'[q] = req[q]
             /\ Wrote(q) => req'[q].pc \in {"clear", "lock", "cache", "done"}
<1>1. Same
  <2>1. ASSUME NEW r \in Requests, Handled(r, req'[r])
        PROVE  Same
    <3>1. CASE q # r
      BY <2>1, <3>1 DEF Handled, Alone, SameAsk, Wrote
    <3>2. CASE q = r
      <4>1. Wrote(r) => req[r].pc \in {"clear", "lock", "cache"}
        BY <2>1 DEF Handled, Wrote, Active
      <4>2. Wrote(r) => req'[r].pc \in {"clear", "lock", "cache", "done"}
        BY <2>1, <4>1
        DEF Handled, Did, Local, Creates, Drops, Removes, Writes, Fails,
            LooksForNull, GoesOn, Caches, FindsNone, Finds, Evicts, Cleans,
            ReadsHead, ReadsList, GivesUp, EndsWell, At, Wrote
      <4> QED
        BY <2>1, <3>2, <4>2 DEF Handled, Active
    <3> QED
      BY <3>1, <3>2
  <2>2. ASSUME NEW r \in Requests, Begins(r, req'[r])
        PROVE  Same
    BY <2>2 DEF Begins, Alone, At, SameAsk, Wrote
  <2>3. CASE Crashed
    BY <2>3 DEF Crashed, SameAsk, Wrote, Active
  <2>4. CASE Rested
    BY <2>4 DEF Rested, SameAsk, Wrote
  <2> QED
    BY <2>1, <2>2, <2>3, <2>4 DEF AnyStep
<1> QED
  BY <1>1 DEF Wrote, WritesNull, Target, SameAsk

(* What becomes of the nodes and of the objects.                           *)
Writer(w, n)  == Active(w) /\ Alone(w, req'[w]) /\ Writes(w, req'[w], n)
Remover(d, n) == Active(d) /\ Alone(d, req'[d]) /\ Removes(d, req'[d])
                 /\ n = req[d].node
Dropper(d, o) == Active(d) /\ Alone(d, req'[d]) /\ Drops(d, req'[d])
                 /\ o = req[d].oid

LEMMA StoreSteps ==
  ASSUME AnyStep
  PROVE  /\ \A n \in Nodes' :
              \/ n \in Nodes /\ tree'[n] = tree[n]
              \/ \E w \in Requests : Writer(w, n) /\ tree'[n] = NewNode(w)
         /\ \A n \in Nodes :
              \/ n \in Nodes' /\ tree'[n] = tree[n]
              \/ \E w \in Requests : Writer(w, n)
              \/ \E d \in Requests : Remover(d, n)
         /\ \A o \in objects' : 
              o \in objects \/ (At(o, "create") /\ req[o].op = "put")
         /\ \A o \in objects :
              o \in objects' \/ \E d \in Requests : Dropper(d, o)
<1> DEFINE Goal ==
         /\ \A n \in Nodes' :
              \/ n \in Nodes /\ tree'[n] = tree[n]
              \/ \E w \in Requests : Writer(w, n) /\ tree'[n] = NewNode(w)
         /\ \A n \in Nodes :
              \/ n \in Nodes' /\ tree'[n] = tree[n]
              \/ \E w \in Requests : Writer(w, n)
              \/ \E d \in Requests : Remover(d, n)
         /\ \A o \in objects' : 
              o \in objects \/ (At(o, "create") /\ req[o].op = "put")
         /\ \A o \in objects :
              o \in objects' \/ \E d \in Requests : Dropper(d, o)
<1>1. CASE UNCHANGED <<objects, tree>>
  BY <1>1 DEF Nodes
<1>2. ASSUME NEW r \in Requests, Handled(r, req'[r]) PROVE Goal
  <2>1. Active(r) /\ Alone(r, req'[r])
    BY <1>2 DEF Handled
  <2>2. CASE Local(r, req'[r])
    BY <1>1, <2>2 DEF Local
  <2>3. CASE Creates(r, req'[r])
    BY <2>3 DEF Creates, Nodes
  <2>4. CASE Drops(r, req'[r])
    BY <2>1, <2>4 DEF Drops, Dropper, Nodes
  <2>5. CASE Removes(r, req'[r])
    BY <2>1, <2>5 DEF Removes, Remover, Nodes
  <2>6. ASSUME NEW n \in Requests, Writes(r, req'[r], n) PROVE Goal
    BY <2>1, <2>6 DEF Writes, Writer, Nodes, Upsert
  <2> QED
    BY <1>2, <2>2, <2>3, <2>4, <2>5, <2>6 DEF Handled, Did
<1> QED
  BY <1>1, <1>2 DEF AnyStep, Begins, Crashed, Rested

(* An OID is written once.                                                 *)
LEMMA WrittenOnceKeeps ==
  ASSUME AnyStep, WrittenOnce, \A r \in Requests : Carries(req[r])
  PROVE  WrittenOnce'
<1>1. /\ \A n \in Nodes : tree[n].oid \in Requests
      /\ Nodes \subseteq Requests /\ objects \subseteq Requests
      /\ \A n \in Nodes' : tree'[n].oid \in Requests
  BY DEF AnyStep, IInv, TypeOK, Node
<1>2. IsFiniteSet(Nodes')
  <2> DEFINE Grown == Nodes' \subseteq Nodes \/ \E n : Nodes' = Nodes \cup {n}
  <2>1. Grown
    <3>1. CASE UNCHANGED <<objects, tree>>
      BY <3>1 DEF Nodes
    <3>2. ASSUME NEW r \in Requests, Handled(r, req'[r]) PROVE Grown
      <4>1. CASE UNCHANGED tree
        BY <4>1 DEF Nodes
      <4>2. CASE Removes(r, req'[r])
        BY <4>2 DEF Removes, Nodes
      <4>3. ASSUME NEW n \in Requests, Writes(r, req'[r], n) PROVE Grown
        BY <4>3 DEF Writes, Upsert, Nodes
      <4> QED
        BY <3>2, <4>1, <4>2, <4>3 DEF Handled, Did, Local, Creates, Drops
    <3> QED
      BY <3>1, <3>2 DEF AnyStep, Begins, Crashed, Rested
  <2> QED
    BY <2>1, FS_Subset, FS_AddElement DEF WrittenOnce
<1>3. ASSUME NEW w \in Requests, NEW n, Writer(w, n)
      PROVE  /\ Wrote(w)' /\ ~Wrote(w) /\ req'[w].op = req[w].op
             /\ NewNode(w).oid = w
             /\ NewNode(w).marker <=> req[w].op = "delete"
  <2>1. req[w].pc \in {"add", "move"}
    BY <1>3 DEF Writer, Writes, At
  <2>2. req[w].op \in {"put", "delete"} /\ req'[w].op = req[w].op
    BY <2>1, Steady DEF Carries, Replacing, SameAsk
  <2> QED
    BY <1>3, <2>1, <2>2 DEF Writer, Writes, GivesUp, Wrote, NewNode
<1>4. ASSUME NEW n \in Nodes'
      PROVE  /\ Wrote(tree[n].oid)'
             /\ tree'[n].marker <=> req'[tree'[n].oid].op = "delete"
  <2>1. CASE n \in Nodes /\ tree'[n] = tree[n]
    <3> PICK o : o = tree[n].oid
      OBVIOUS
    <3>1. Wrote(o) /\ (tree[n].marker <=> req[o].op = "delete") /\ o \in Requests
      BY <1>1, <2>1 DEF WrittenOnce
    <3>2. Wrote(o)' /\ req'[o].op = req[o].op
      BY <3>1, Steady DEF Wrote, SameAsk
    <3> QED
      BY <2>1, <3>1, <3>2 DEF Wrote
  <2>2. ASSUME NEW w \in Requests, Writer(w, n), tree'[n] = NewNode(w)
        PROVE  /\ Wrote(tree[n].oid)'
               /\ tree'[n].marker <=> req'[tree'[n].oid].op = "delete"
    BY <1>3, <2>2 DEF Wrote
  <2> QED
    BY <2>1, <2>2, StoreSteps
<1>5. ASSUME NEW m \in Nodes', NEW n \in Nodes', tree'[m].oid = tree'[n].oid
      PROVE  m = n
  <2>1. ASSUME NEW w \in Requests, NEW k \in Nodes', NEW l \in Nodes', Writer(w, k),
               tree'[k].oid = w, tree'[l].oid = w
        PROVE  k = l
    <3>1. CASE l \in Nodes /\ tree'[l] = tree[l]
      <4>1. Wrote(w)
        BY <2>1, <3>1 DEF WrittenOnce
      <4> QED
        BY <1>3, <2>1, <4>1
    <3>2. ASSUME NEW v \in Requests, Writer(v, l), tree'[l] = NewNode(v)
          PROVE  k = l
      <4>1. v = w
        BY <1>3, <2>1, <3>2
      <4> QED
        BY <2>1, <3>2, <4>1 DEF Writer, Writes, At
    <3> QED
      BY <3>1, <3>2, StoreSteps
  <2>2. ASSUME NEW w \in Requests, Writer(w, m), tree'[m] = NewNode(w)
        PROVE  m = n
    BY <1>3, <1>5, <2>1, <2>2
  <2>3. ASSUME NEW w \in Requests, Writer(w, n), tree'[n] = NewNode(w)
        PROVE  m = n
    BY <1>3, <1>5, <2>1, <2>3
  <2>4. CASE m \in Nodes /\ n \in Nodes /\ tree'[m] = tree[m] /\ tree'[n] = tree[n]
    BY <1>5, <2>4 DEF WrittenOnce
  <2> QED
    BY <2>2, <2>3, <2>4, StoreSteps
<1>6. ASSUME NEW o \in objects' PROVE req'[o].op = "put"
  <2>1. o \in Requests /\ req[o].op = "put"
    BY <1>1, StoreSteps DEF WrittenOnce, AnyStep, IInv, TypeOK
  <2>2. req[o].pc # "idle"
    <3>1. AtStep(req[o]) /\ Idle.op = "none"
      BY <2>1 DEF AnyStep, IInv, Idle
    <3> QED
      BY <2>1, <3>1 DEF AtStep
  <2> QED
    BY <2>1, <2>2, Steady DEF SameAsk
<1> QED
  BY <1>2, <1>4, <1>5, <1>6 DEF WrittenOnce

(* The ways of a single request.                                           *)
LEMMA RequestSteps ==
  ASSUME AnyStep, NEW q \in Requests
  PROVE  \/ Handled(q, req'[q])
         \/ Begins(q, req'[q])
         \/ req'[q] = req[q]
         \/ /\ Active(q) /\ SameAsk(req'[q], req[q]) /\ req'[q].pc = "done"
            /\ req'[q].res = "crashed" /\ req'[q].oid = req[q].oid
            /\ objCache' = {} /\ lists' = {} /\ UNCHANGED <<objects, tree>>
BY DEF AnyStep, Handled, Begins, Alone, Crashed, Rested

(* A version that left the tree or FrostFS never returns, and its node is  *)
(* the only one it is ever at.                                             *)
LEMMA GoneStays ==
  ASSUME AnyStep, WrittenOnce, NEW o \in Requests, Wrote(o)
  PROVE  /\ o \notin StoredOids => o \notin StoredOids'
         /\ o \notin objects => o \notin objects'
         /\ \A m : (\A n \in Nodes : tree[n].oid = o => n = m) =>
                     \A n \in Nodes' : tree'[n].oid = o => n = m
<1>1. ASSUME NEW n \in Nodes', tree'[n].oid = o
      PROVE  n \in Nodes /\ tree'[n] = tree[n]
  <2>1. ASSUME NEW w \in Requests, Writer(w, n), tree'[n] = NewNode(w)
        PROVE  FALSE
    BY <1>1, <2>1 DEF Writer, Writes, At, NewNode, Wrote
  <2> QED
    BY <2>1, StoreSteps
<1>2. o \notin objects => o \notin objects'
  BY StoreSteps DEF At, Wrote
<1> QED
  BY <1>1, <1>2 DEF StoredOids

(* A request begins with nothing to remember.                              *)
LEMMA KnownIsWritten ==
  ASSUME IInv, WrittenOnce, NEW v \in KnownVersions
  PROVE  v \in Requests /\ Wrote(v)
<1>1. \A n \in Nodes : tree[n].oid \in Requests
  BY DEF IInv, TypeOK, Node
<1>2. ASSUME NEW r \in Requests, req[r].op = "put", req[r].res = "ok"
      PROVE  Wrote(r)
  BY <1>2 DEF IInv, AtStep, Wrote
<1> QED
  BY <1>1, <1>2 DEF KnownVersions, StoredOids, WrittenOnce

(* What a record says of other requests' kinds stays true.                 *)
LEMMA KindsStay ==
  ASSUME AnyStep, NEW x, Carries(x),
         x.op = "delete" /\ x.pc \in {"evict", "delete", "remove"} =>
           /\ x.node \in Requests /\ x.oid \in Requests
           /\ req[x.node].pc # "idle" /\ req[x.oid].pc # "idle",
         x.oid \in Requests \cup {None}
  PROVE  Carries(x)'
<1>1. \A o \in Requests :
        /\ Wrote(o) => Wrote(o)' /\ (WritesNull(o)' <=> WritesNull(o))
        /\ req[o].pc # "idle" => (WritesNull(o)' <=> WritesNull(o))
  BY Steady DEF Wrote
<1>2. (x.op = "delete" /\ x.pc \in {"evict", "delete", "remove"}) =>
        /\ WritesNull(x.node)' <=> WritesNull(x.node)
        /\ WritesNull(x.oid)' <=> WritesNull(x.oid)
  BY <1>1
<1>3. x.op = "delete" /\ x.oid # None =>
        Wrote(x.oid)' /\ (WritesNull(x.oid)' <=> WritesNull(x.oid))
  BY <1>1 DEF Carries
<1>4. x.op = "delete" /\ x.vid \in Requests => Wrote(x.vid)'
  BY <1>1 DEF Carries
<1> QED
  BY <1>2, <1>3, <1>4 DEF Carries, Replaces

(* What a DELETE finds.                                                    *)
LEMMA FoundNode ==
  ASSUME IInv, WrittenOnce, NEW r \in Requests, NEW n \in Named(Target(r))
  PROVE  /\ n \in Nodes /\ n \in Requests /\ tree[n].oid \in Requests
         /\ req[n].pc # "idle" /\ Wrote(tree[n].oid)
         /\ WritesNull(n) <=> WritesNull(tree[n].oid)
         /\ req[r].vid \in Requests => tree[n].oid = req[r].vid
         /\ Replaces(req[r]) => WritesNull(n)
         /\ AfterOld(r) = IF Replaces(req[r]) THEN "getnull" ELSE "remove"
<1>1. n \in Nodes
  BY DEF Named, NullNodes, Latest
<1>2. /\ n \in Requests /\ tree[n].oid \in Requests /\ Wrote(tree[n].oid)
      /\ tree[n].null <=> WritesNull(n)
      /\ tree[n].null <=> WritesNull(tree[n].oid)
      /\ req[n].pc # "idle"
  BY <1>1 DEF IInv, TypeOK, Node, NodesMatchWriters, WrittenOnce
<1>3. req[r].vid \in Requests => tree[n].oid = req[r].vid
  <2>1. SUFFICES ASSUME req[r].vid \in Requests
                 PROVE  tree[n].oid = req[r].vid
    OBVIOUS
  <2>2. req[r].vid # "latest" /\ req[r].vid # "null"
    BY <2>1, WordsAreNoRequests
  <2> QED
    BY <2>2 DEF Named, Target
<1>4. Replaces(req[r]) => tree[n].null
  BY DEF Replaces, Target, Named, NullNodes
<1> QED
  BY <1>1, <1>2, <1>3, <1>4 DEF AfterOld, Target, Replaces

(* The nodes and versions a record names are of requests that began.       *)
Names(x) == x.op = "delete" /\ x.pc \in {"evict", "delete", "remove"} =>
              /\ x.node \in Requests /\ x.oid \in Requests
              /\ req[x.node].pc # "idle" /\ req[x.oid].pc # "idle"

LEMMA CarriesKeeps ==
  ASSUME AnyStep, StoreInv, NEW q \in Requests
  PROVE  Carries(req[q])'
<1> PICK x : x = req'[q]
  OBVIOUS
<1> PICK y : y = req[q]
  OBVIOUS
<1>1. /\ Carries(y) /\ AtStep(y) /\ Names(y) /\ WrittenOnce /\ IInv
      /\ y.oid \in Requests \cup {None} /\ x.oid \in Requests \cup {None}
  <2>1. IInv /\ req'[q] \in Request
    BY DEF AnyStep, IInv, TypeOK
  <2> QED
    BY <2>1 DEF StoreInv, IInv, TypeOK, Request, DeletesNamed, Names
<1>2. CASE x = y
  BY <1>1, <1>2, KindsStay DEF Names
<1>3. CASE Begins(q, x)
  <2>1. x.op = "delete" /\ x.vid \in Requests => Wrote(x.vid)
    BY <1>1, <1>3, KnownIsWritten, WordsAreNoRequests DEF Begins
  <2>2. Carries(x)
    BY <1>3, <2>1 DEF Begins, Carries, Replacing
  <2>3. Names(x)
    BY <1>3 DEF Begins, Names
  <2> QED
    BY <1>1, <2>2, <2>3, KindsStay DEF Names
<1>4. CASE Handled(q, x)
  <2>1. SameAsk(x, y) /\ Did(q, x)
    BY <1>4 DEF Handled
  <2> DEFINE Fits == Carries(x) /\ Names(x)
  <2>2. ASSUME x.pc = "done", x.oid = y.oid PROVE Fits
    BY <1>1, <2>1, <2>2 DEF Carries, SameAsk, Names, Replacing
  <2>3. ASSUME Fails(q, x) PROVE Fits
    BY <1>1, <2>1, <2>2, <2>3
    DEF Fails, GivesUp, SameAsk, Carries, Names, Replacing, Replaces, At
  <2>4. ASSUME LooksForNull(q, x) PROVE Fits
    BY <1>1, <2>1, <2>4
    DEF LooksForNull, Keeps, SameAsk, Carries, Names, Replacing, Replaces, At
  <2>5. ASSUME GoesOn(q, x) PROVE Fits
    BY <1>1, <2>1, <2>5
    DEF GoesOn, Keeps, SameAsk, Carries, Names, Replacing, Replaces, At, AtStep
  <2>6. ASSUME Caches(q, x) \/ FindsNone(q, x) \/ Cleans(q, x) PROVE Fits
    BY <2>2, <2>6 DEF Caches, FindsNone, Cleans, EndsWell
  <2>7. ASSUME Finds(q, x) PROVE Fits
    <3>1. x.node \in Named(Target(q)) /\ x.oid = tree[x.node].oid
          /\ x.pc = (IF tree[x.node].marker THEN AfterOld(q) ELSE "evict")
          /\ y.op = "delete" /\ y.pc = "find"
      BY <2>7 DEF Finds, At
    <3>2. /\ x.node \in Requests /\ x.oid \in Requests
          /\ req[x.node].pc # "idle" /\ Wrote(x.oid)
          /\ WritesNull(x.node) <=> WritesNull(x.oid)
          /\ x.vid \in Requests => x.oid = x.vid
          /\ Replaces(x) => WritesNull(x.node)
          /\ x.pc \in {IF Replaces(x) THEN "getnull" ELSE "remove", "evict"}
      BY <1>1, <2>1, <3>1, FoundNode DEF SameAsk, Replaces
    <3>3. req[x.oid].pc # "idle"
      BY <3>2 DEF Wrote
    <3>4. x.vid = "latest" => x.mode # "Enabled"
      BY <1>1, <2>1, <3>1 DEF AtStep, SameAsk
    <3> QED
      BY <1>1, <2>1, <3>1, <3>2, <3>3, <3>4
      DEF Carries, Names, SameAsk, Replacing, Replaces
  <2>8. ASSUME Evicts(q, x) PROVE Fits
    BY <1>1, <2>1, <2>8
    DEF Evicts, Keeps, SameAsk, Carries, Names, Replacing, Replaces, At, AtStep
  <2>9. ASSUME Drops(q, x) PROVE Fits
    <3>1. AfterOld(q) = IF Replaces(x) THEN "getnull" ELSE "remove"
      BY <2>1 DEF AfterOld, Target, Replaces, SameAsk
    <3>2. x.op = "delete" /\ y.pc = "delete" /\ x.oid = y.oid
          /\ (x.pc = "done" \/ (x.pc = AfterOld(q) /\ x.node = y.node))
      BY <1>1, <2>1, <2>9 DEF Drops, GivesUp, Keeps, SameAsk, At, AtStep
    <3> QED
      BY <1>1, <2>1, <3>1, <3>2
      DEF SameAsk, Carries, Names, Replacing, Replaces
  <2>10. ASSUME Removes(q, x) PROVE Fits
    BY <1>1, <2>1, <2>10
    DEF Removes, SameAsk, Carries, Names, Replacing, Replaces, At, AtStep
  <2>11. ASSUME Creates(q, x) PROVE Fits
    BY <1>1, <2>1, <2>11
    DEF Creates, GivesUp, Keeps, SameAsk, Carries, Names, Replacing, At
  <2>12. ASSUME NEW n \in Requests, Writes(q, x, n) PROVE Fits
    BY <1>1, <2>1, <2>12
    DEF Writes, GivesUp, Keeps, SameAsk, Carries, Names, Replacing, Replaces, At
  <2>13. ASSUME ReadsHead(q, x) \/ ReadsList(q, x) PROVE Fits
    BY <2>1, <2>13
    DEF ReadsHead, ReadsList, SameAsk, Carries, Names, Replacing
  <2>14. Fits
    BY <2>1, <2>3, <2>4, <2>5, <2>6, <2>7, <2>8, <2>9, <2>10, <2>11, <2>12, <2>13
    DEF Did, Local
  <2> QED
    BY <1>1, <2>14, KindsStay DEF Names
<1>5. CASE SameAsk(x, y) /\ x.pc = "done" /\ x.oid = y.oid
  <2>1. Carries(x) /\ Names(x)
    BY <1>1, <1>5 DEF Carries, SameAsk, Names, Replacing
  <2> QED
    BY <1>1, <2>1, KindsStay DEF Names
<1> QED
  BY <1>2, <1>3, <1>4, <1>5, RequestSteps

LEMMA NodeStays ==
  ASSUME AnyStep, WrittenOnce, NEW x, TakesTheNode(x), Carries(x),
         x.oid \in Requests \cup {None}
  PROVE  TakesTheNode(x)'
<1>1. StoredOids' \subseteq Requests /\ \A n \in Nodes' : tree'[n].oid \in Requests
  BY DEF AnyStep, IInv, TypeOK, Node, StoredOids
<1>2. CASE x.op # "delete"
  BY <1>2 DEF TakesTheNode
<1>3. CASE x.op = "delete"
  <2>1. x.vid \notin StoredOids => x.vid \notin StoredOids'
    BY <1>1, <1>3, GoneStays DEF Carries
  <2>2. /\ x.oid \notin StoredOids => x.oid \notin StoredOids'
        /\ (\A n \in Nodes : tree[n].oid = x.oid => n = x.node) =>
             \A n \in Nodes' : tree'[n].oid = x.oid => n = x.node
    <3>1. CASE x.oid = None
      <4>1. \A n \in Nodes' : tree'[n].oid # None
        BY <1>1, NoneIsNoRequest
      <4> QED
        BY <3>1, <4>1 DEF StoredOids
    <3>2. CASE x.oid \in Requests /\ Wrote(x.oid)
      BY <3>2, GoneStays
    <3> QED
      BY <1>3, <3>1, <3>2 DEF Carries
  <2> QED
    BY <2>1, <2>2 DEF TakesTheNode
<1> QED
  BY <1>2, <1>3

(* The record of a request before and after a step.                        *)
LEMMA Records ==
  ASSUME AnyStep, StoreInv, NEW q \in Requests
  PROVE  /\ req[q] \in Request /\ req'[q] \in Request
         /\ AtStep(req[q]) /\ Carries(req[q]) /\ WrittenOnce /\ IInv
         /\ StoredOids \subseteq Requests /\ objects \subseteq Requests
         /\ StoredOids' \subseteq Requests /\ objects' \subseteq Requests
         /\ Idle.op = "none" /\ (req[q].pc = "idle" => req[q] = Idle)
  BY DEF AnyStep, IInv, StoreInv, TypeOK, Node, StoredOids, AtStep, Idle

LEMMA TakesTheNodeKeeps ==
  ASSUME AnyStep, StoreInv, NEW q \in Requests
  PROVE  TakesTheNode(req[q])'
<1> PICK x : x = req'[q]
  OBVIOUS
<1> PICK y : y = req[q]
  OBVIOUS
<1>1. /\ y \in Request /\ x \in Request /\ AtStep(y) /\ Carries(y)
      /\ WrittenOnce /\ IInv /\ TakesTheNode(y)
      /\ StoredOids \subseteq Requests /\ StoredOids' \subseteq Requests
  BY Records DEF StoreInv
<1>2. x.oid \in Requests \cup {None} /\ y.oid \in Requests \cup {None}
  BY <1>1 DEF Request
<1>3. SUFFICES ASSUME x.op = "delete" PROVE TakesTheNode(x)'
  BY DEF TakesTheNode
<1>5. CASE x = y
  BY <1>1, <1>2, <1>5, NodeStays
<1>8. CASE Begins(q, x)
  <2>1. x.oid = None /\ x.res = "none" /\ x.pc \in {"find", "add"}
    BY <1>3, <1>8 DEF Begins
  <2> QED
    BY <1>1, <2>1, NoneIsNoRequest DEF TakesTheNode
<1>9. CASE Handled(q, x)
  <2>1. /\ SameAsk(x, y) /\ Did(q, x) /\ y.op = "delete" /\ Active(q)
        /\ Alone(q, req'[q])
    BY <1>3, <1>9 DEF Handled, SameAsk
  <2>2. y.pc # "done" /\ y.res \in {"none", "error"}
    BY <1>1, <2>1 DEF Active, AtStep
  <2>4. ASSUME UNCHANGED tree, TakesTheNode(x) PROVE TakesTheNode(x)'
    BY <2>4 DEF TakesTheNode, StoredOids, Nodes
  <2>5. ASSUME GivesUp(q, x) PROVE TakesTheNode(x)'
    BY <2>5 DEF GivesUp, TakesTheNode
  <2>6. ASSUME Local(q, x) PROVE TakesTheNode(x)
    <3>1. ASSUME Fails(q, x) PROVE TakesTheNode(x)
      BY <3>1 DEF Fails, GivesUp, TakesTheNode
    <3>2. ASSUME LooksForNull(q, x) PROVE TakesTheNode(x)
      <4>1. /\ y.pc = "getnull" /\ x.oid = y.oid /\ x.res = y.res
            /\ \/ x.pc = "add" /\ NullNodes = {}
               \/ x.pc = "move" /\ NullNodes = {x.node}
        BY <3>2 DEF LooksForNull, Keeps, At
      <4>2. x.oid # None => WritesNull(x.oid)
        BY <1>1, <2>1, <4>1 DEF Carries, Replacing
      <4>3. ASSUME NEW n \in Nodes, tree[n].oid = x.oid PROVE n \in NullNodes
        <5>1. x.oid # None
          BY <1>1, <4>3, NoneIsNoRequest DEF StoredOids
        <5>2. tree[n].null
          BY <1>1, <4>2, <4>3, <5>1 DEF IInv, NodesMatchWriters
        <5> QED
          BY <4>3, <5>2 DEF NullNodes
      <4> QED
        BY <2>2, <4>1, <4>3 DEF TakesTheNode, StoredOids
    <3>3. ASSUME GoesOn(q, x) PROVE TakesTheNode(x)
      BY <1>1, <2>1, <2>2, <3>3 DEF GoesOn, Keeps, TakesTheNode, At, AtStep
    <3>4. ASSUME Caches(q, x) PROVE TakesTheNode(x)
      <4>1. /\ y.pc = "cache" /\ x.pc = "done" /\ x.oid = y.oid
            /\ x.vid = "latest" /\ y.oid \notin StoredOids
        BY <1>1, <2>1, <3>4
        DEF Caches, EndsWell, At, Carries, Replacing, SameAsk, TakesTheNode
      <4> QED
        BY <1>1, <4>1, WordsAreNoRequests DEF TakesTheNode
    <3>5. ASSUME FindsNone(q, x) PROVE TakesTheNode(x)
      <4>1. y.pc = "find" /\ x.pc = "done" /\ x.oid = None /\ x.vid = y.vid
        BY <1>1, <2>1, <3>5 DEF FindsNone, EndsWell, At, Carries, SameAsk
      <4>2. y.vid \notin StoredOids
        <5>1. CASE y.vid \notin Requests
          BY <1>1, <5>1
        <5>2. CASE y.vid \in Requests
          <6>1. y.vid # "latest" /\ y.vid # "null"
            BY <5>2, WordsAreNoRequests
          <6>2. {n \in Nodes : tree[n].oid = y.vid} = {}
            BY <3>5, <6>1 DEF FindsNone, Named, Target
          <6> QED
            BY <6>2 DEF StoredOids
        <5> QED
          BY <5>1, <5>2
      <4> QED
        BY <1>1, <4>1, <4>2, NoneIsNoRequest DEF TakesTheNode
    <3>6. ASSUME Finds(q, x) PROVE TakesTheNode(x)
      <4>1. /\ x.node \in Nodes /\ x.oid = tree[x.node].oid
            /\ x.pc \in {"getnull", "remove", "evict"} /\ x.res = y.res
        BY <1>1, <3>6, FoundNode DEF Finds, AfterOld
      <4> QED
        BY <1>1, <2>2, <4>1 DEF TakesTheNode, WrittenOnce
    <3>7. ASSUME Evicts(q, x) PROVE TakesTheNode(x)
      BY <1>1, <2>1, <2>2, <3>7 DEF Evicts, Keeps, TakesTheNode, At
    <3>8. ASSUME Cleans(q, x) PROVE TakesTheNode(x)
      <4>1. /\ y.pc = "clean" /\ x.pc = "done" /\ x.oid = y.oid /\ x.vid = y.vid
            /\ x.res = "ok" => y.res # "error" /\ y.oid \notin StoredOids
        BY <1>1, <2>1, <3>8 DEF Cleans, At, SameAsk, TakesTheNode
      <4>2. y.vid \in Requests => y.vid = y.oid
        BY <1>1, <2>1, <4>1 DEF Carries
      <4> QED
        BY <1>1, <4>1, <4>2 DEF TakesTheNode
    <3> QED
      BY <2>1, <2>6, <3>1, <3>2, <3>3, <3>4, <3>5, <3>6, <3>7, <3>8
      DEF Local, ReadsHead, ReadsList
  <2>7. ASSUME Drops(q, x) PROVE TakesTheNode(x)'
    <3>1. CASE Keeps(q, x) /\ x.pc = AfterOld(q) /\ x.node = y.node
      BY <1>1, <2>1, <2>2, <2>4, <2>7, <3>1
      DEF Drops, Keeps, AfterOld, TakesTheNode, At
    <3> QED
      BY <2>5, <2>7, <3>1 DEF Drops
  <2>8. ASSUME Removes(q, x) PROVE TakesTheNode(x)'
    <3>1. /\ y.pc = "remove" /\ x.pc = "clean" /\ x.oid = y.oid /\ x.res # "ok"
          /\ tree' = [n \in Nodes \ {y.node} |-> tree[n]]
      BY <2>2, <2>8 DEF Removes, At
    <3>2. \A n \in Nodes : tree[n].oid = y.oid => n = y.node
      BY <1>1, <2>1, <3>1 DEF TakesTheNode
    <3>3. y.oid \notin StoredOids'
      BY <3>1, <3>2 DEF StoredOids, Nodes
    <3> QED
      BY <3>1, <3>3 DEF TakesTheNode
  <2>9. ASSUME NEW n \in Requests, Writes(q, x, n) PROVE TakesTheNode(x)'
    <3>1. /\ tree' = Upsert(n, NewNode(q))
          /\ y.pc = "add" \/ (y.pc = "move" /\ n = y.node)
          /\ x.pc \in {"clear", "lock", "cache", "done"} /\ x.oid = y.oid
          /\ x.res # "ok"
      BY <2>2, <2>9 DEF Writes, GivesUp, Keeps, At
    <3>2. /\ y.pc = "add" => y.oid \notin StoredOids
          /\ y.pc = "move" => \A m \in Nodes : tree[m].oid = y.oid => m = y.node
      BY <1>1, <2>1 DEF TakesTheNode
    <3>3. NewNode(q).oid = q /\ y.oid # q
      BY <1>1, <1>2, <2>1, <3>1, NoneIsNoRequest DEF NewNode, Carries, Wrote
    <3>4. y.oid \notin StoredOids'
      BY <3>1, <3>2, <3>3 DEF StoredOids, Nodes, Upsert
    <3> QED
      BY <3>1, <3>4 DEF TakesTheNode
  <2>10. ASSUME Creates(q, x) PROVE TakesTheNode(x)'
    BY <2>1, <2>10 DEF Creates
  <2> QED
    BY <2>1, <2>4, <2>6, <2>7, <2>8, <2>9, <2>10 DEF Did, Local
<1>10. CASE x.pc = "done" /\ x.res = "crashed"
  BY <1>10 DEF TakesTheNode
<1> QED
  BY <1>5, <1>8, <1>9, <1>10, RequestSteps

LEMMA TakesTheObjectKeeps ==
  ASSUME AnyStep, StoreInv, NEW q \in Requests
  PROVE  TakesTheObject(req[q])'
<1> PICK x : x = req'[q]
  OBVIOUS
<1> PICK y : y = req[q]
  OBVIOUS
<1>1. /\ y \in Request /\ x \in Request /\ AtStep(y) /\ Carries(y)
      /\ WrittenOnce /\ IInv /\ TakesTheObject(y)
      /\ objects \subseteq Requests /\ objects' \subseteq Requests
  BY Records DEF StoreInv
<1>2. y.oid \in Requests \cup {None}
  BY <1>1 DEF Request
<1>3. SUFFICES ASSUME x.op = "delete", x.pc \in Replacing \cup {"remove", "clean"}
                                       \/ x.res = "ok"
               PROVE  x.oid \notin objects'
  BY DEF TakesTheObject
<1>4. ASSUME y.op = "delete", y.oid \notin objects, x.oid = y.oid
      PROVE  x.oid \notin objects'
  BY <1>1, <1>2, <1>4, GoneStays, NoneIsNoRequest DEF Carries
<1>5. CASE x = y
  BY <1>1, <1>3, <1>4, <1>5 DEF TakesTheObject
<1>6. CASE Begins(q, x)
  <2>1. x.oid = None
    BY <1>3, <1>6 DEF Begins
  <2> QED
    BY <1>1, <2>1, NoneIsNoRequest
<1>7. CASE Handled(q, x)
  <2>1. SameAsk(x, y) /\ Did(q, x) /\ y.op = "delete" /\ Active(q)
    BY <1>3, <1>7 DEF Handled, SameAsk
  <2>2. y.pc # "done" /\ y.res \in {"none", "error"}
    BY <1>1, <2>1 DEF Active, AtStep
  <2>3. CASE y.pc \in Replacing \cup {"remove", "clean"}
    <3>1. x.oid = y.oid
      BY <2>1, <2>3
      DEF Did, Local, Creates, Drops, Removes, Writes, Fails, LooksForNull,
          GoesOn, Caches, FindsNone, Finds, Evicts, Cleans, ReadsHead,
          ReadsList, Keeps, GivesUp, EndsWell, At, Replacing
    <3> QED
      BY <1>1, <1>4, <2>1, <2>3, <3>1 DEF TakesTheObject
  <2>4. CASE y.pc = "find"
    <3>1. Local(q, x) /\ (Fails(q, x) \/ FindsNone(q, x) \/ Finds(q, x))
      BY <2>1, <2>4
      DEF Did, Local, Creates, Drops, Removes, Writes, LooksForNull,
          GoesOn, Caches, Evicts, Cleans, ReadsHead, ReadsList, At
    <3>2. CASE Fails(q, x)
      BY <1>3, <2>4, <3>2 DEF Fails, GivesUp, At, Replacing
    <3>3. CASE FindsNone(q, x)
      <4>1. x.oid = None
        BY <1>1, <2>1, <2>4, <3>3 DEF FindsNone, EndsWell, Carries
      <4> QED
        BY <1>1, <4>1, NoneIsNoRequest
    <3>4. CASE Finds(q, x)
      <4>1. x.node \in Nodes /\ x.oid = tree[x.node].oid /\ x.res = y.res
            /\ tree[x.node].marker
        BY <1>1, <1>3, <2>2, <3>4, FoundNode DEF Finds, Replacing
      <4>2. x.oid \notin objects
        BY <1>1, <4>1 DEF WrittenOnce
      <4> QED
        BY <3>1, <4>2 DEF Local
    <3> QED
      BY <3>1, <3>2, <3>3, <3>4
  <2>5. CASE y.pc = "evict"
    <3>1. Fails(q, x) \/ Evicts(q, x)
      BY <2>1, <2>5
      DEF Did, Local, Creates, Drops, Removes, Writes, LooksForNull, Finds,
          FindsNone, GoesOn, Caches, Cleans, ReadsHead, ReadsList, At
    <3> QED
      BY <1>3, <2>2, <2>5, <3>1 DEF Fails, GivesUp, Evicts, Keeps, At, Replacing
  <2>6. CASE y.pc = "delete"
    <3>1. Fails(q, x) \/ Drops(q, x)
      BY <2>1, <2>6
      DEF Did, Local, Creates, Removes, Writes, LooksForNull, Finds, Evicts,
          FindsNone, GoesOn, Caches, Cleans, ReadsHead, ReadsList, At
    <3> QED
      BY <1>3, <2>2, <2>6, <3>1
      DEF Fails, GivesUp, Drops, Keeps, At, Replacing
  <2>7. y.pc \in Replacing \cup {"remove", "clean", "find", "evict", "delete"}
    <3>1. y.pc \notin {"create", "lock", "head", "nodes", "idle", "done"}
      BY <1>1, <2>1 DEF AtStep, Active
    <3>2. y.pc # "fill"
      BY <1>3, <2>1
      DEF Did, Local, Creates, Removes, Writes, LooksForNull, Finds, Evicts,
          FindsNone, GoesOn, Caches, Cleans, ReadsHead, ReadsList, At, Fails,
          GivesUp, Drops, Replacing
    <3> QED
      BY <1>1, <3>1, <3>2 DEF Request, Replacing
  <2> QED
    BY <2>3, <2>4, <2>5, <2>6, <2>7
<1>8. CASE x.pc = "done" /\ x.res = "crashed"
  BY <1>3, <1>8 DEF Replacing
<1> QED
  BY <1>5, <1>6, <1>7, <1>8, RequestSteps

---------------------------------------------------------------------------
(* Who takes null versions, and who overlaps whom.                         *)
LEMMA TakesNullStays ==
  ASSUME AnyStep, StoreInv, NEW q \in Requests, TakesNull(q)
  PROVE  TakesNull(q)'
<1>1. /\ req[q] \in Request /\ Carries(req[q])
      /\ req[q].pc = "idle" => req[q].op = "none"
  BY Records
<1>2. req[q].pc # "idle"
  BY <1>1 DEF TakesNull
<1>3. SameAsk(req'[q], req[q]) /\ (WritesNull(q)' <=> WritesNull(q))
  BY <1>2, Steady
<1>4. ASSUME req[q].op = "delete", req[q].vid \in Requests
      PROVE  WritesNull(req[q].vid)' <=> WritesNull(req[q].vid)
  <2>1. Wrote(req[q].vid)
    BY <1>1, <1>4 DEF Carries
  <2> PICK v : v = req[q].vid
    OBVIOUS
  <2>2. WritesNull(v)' <=> WritesNull(v)
    BY <1>4, <2>1, Steady DEF Wrote
  <2>3. req'[q].vid = v
    BY <1>3 DEF SameAsk
  <2> QED
    BY <2>2, <2>3
<1> PICK v : v = req[q].vid
  OBVIOUS
<1>5. req'[q].vid = v /\ req'[q].op = req[q].op
  BY <1>3 DEF SameAsk
<1>6. req[q].op = "delete" /\ v \in Requests => (WritesNull(v)' <=> WritesNull(v))
  BY <1>4, <1>5
<1> QED
  BY <1>3, <1>5, <1>6 DEF TakesNull

(* A request under way was not over when another began.                    *)
LEMMA ActiveIsNotPrior ==
  ASSUME IInv, NEW q \in Requests, NEW r \in Requests, Active(q)
  PROVE  q \notin req[r].prior
BY DEF IInv, PriorFinished, At, Active

LEMMA OverlapStays ==
  ASSUME AnyStep, NEW q \in Requests, NEW r \in Requests,
         req[q].pc # "idle", req[r].pc # "idle", Overlap(q, r)
  PROVE  Overlap(q, r)'
BY Steady DEF Overlap, SameAsk

LEMMA BothActiveOverlap ==
  ASSUME AnyStep, NEW q \in Requests, NEW r \in Requests, Active(q), Active(r)
  PROVE  Overlap(q, r) /\ Overlap(q, r)'
<1>1. Overlap(q, r)
  BY ActiveIsNotPrior DEF Overlap, AnyStep
<1> QED
  BY <1>1, OverlapStays DEF Active

(* Request w, that writes a node over another, takes a null version.       *)
LEMMA WriterTakesNull ==
  ASSUME AnyStep, StoreInv, NEW w \in Requests, NEW n \in Nodes, Writer(w, n)
  PROVE  /\ Active(w) /\ ~Wrote(w) /\ n \in Requests
         /\ tree[n].null <=> WritesNull(n)
         /\ \/ WritesNull(w) /\ WritesNull(n) /\ TakesNull(w)
            \/ ~WritesNull(n) /\ n = w
<1>1. /\ Carries(req[w]) /\ AtStep(req[w]) /\ MovesNull(w)
      /\ n \in Requests /\ (tree[n].null <=> WritesNull(n))
  BY Records DEF AnyStep, IInv, NodesMatchWriters, TypeOK
<1>2. /\ Active(w) /\ req[w].pc \in {"add", "move"}
      /\ req[w].pc = "add" => n = w
      /\ req[w].pc = "move" => WritesNull(n) /\ WritesNull(w)
  BY <1>1 DEF Writer, Writes, At, MovesNull, AtStep, WritesNull
<1>3. /\ req[w].op \in {"put", "delete"} /\ ~Wrote(w)
      /\ req[w].op = "delete" => req[w].vid = "latest"
  BY <1>1, <1>2 DEF Carries, Replacing, Wrote
<1>4. WritesNull(w) => TakesNull(w)
  BY <1>3 DEF TakesNull
<1> QED
  BY <1>1, <1>2, <1>3, <1>4

(* DELETE d, that drops a null version or its node, takes a null version.  *)
LEMMA DeleterTakesNull ==
  ASSUME AnyStep, StoreInv, NEW d \in Requests, Active(d),
         At(d, "delete") \/ At(d, "remove")
  PROVE  /\ req[d].op = "delete" /\ req[d].node \in Requests
         /\ req[d].oid \in Requests /\ Wrote(req[d].oid)
         /\ WritesNull(req[d].node) <=> WritesNull(req[d].oid)
         /\ ~WritesNull(req[d].node) => req[d].node = req[d].oid
         /\ WritesNull(req[d].oid) => TakesNull(d)
<1>1. Carries(req[d]) /\ AtStep(req[d]) /\ DeletesNamed(d) /\ req[d] \in Request
  BY Records DEF AnyStep, IInv
<1>2. /\ req[d].op = "delete" /\ req[d].node \in Requests
      /\ req[d].oid \in Requests
      /\ ~WritesNull(req[d].node) => req[d].node = req[d].oid
  BY <1>1 DEF AtStep, DeletesNamed, At
<1>3. /\ Wrote(req[d].oid)
      /\ WritesNull(req[d].node) <=> WritesNull(req[d].oid)
      /\ req[d].vid = "latest" => req[d].mode # "Enabled"
      /\ req[d].vid \in Requests => req[d].oid = req[d].vid
  BY <1>1, <1>2, NoneIsNoRequest DEF Carries, At
<1>4. req[d].vid \in {"latest", "null"} \cup Requests
  BY <1>1 DEF Request
<1>5. WritesNull(req[d].oid) => TakesNull(d)
  BY <1>2, <1>3, <1>4 DEF TakesNull, WritesNull
<1> QED
  BY <1>2, <1>3, <1>5

(* A null version that was stored and is no more was taken.                *)
LEMMA NullTaken ==
  ASSUME AnyStep, StoreInv, NEW r \in Requests, req[r].op = "put", Wrote(r),
         WritesNull(r), Stored(r), ~Stored(r)'
  PROVE  \E q \in Requests \ (req[r].prior \cup {r}) : TakesNull(q)
<1>1. CASE r \notin objects'
  <2>1. PICK d \in Requests : Dropper(d, r)
    BY <1>1, StoreSteps DEF Stored
  <2>2. Active(d) /\ At(d, "delete") /\ r = req[d].oid
    BY <2>1 DEF Dropper, Drops
  <2>3. req[d].op = "delete" /\ TakesNull(d)
    BY <2>2, DeleterTakesNull
  <2>4. d \notin req[r].prior /\ d # r
    BY <2>2, <2>3, ActiveIsNotPrior DEF AnyStep
  <2> QED
    BY <2>3, <2>4
<1>2. CASE r \notin StoredOids'
  <2>1. PICK n \in Nodes : tree[n].oid = r
    BY DEF Stored, StoredOids
  <2>2. n \in Requests /\ (tree[n].null <=> WritesNull(n)) /\ tree[n].null
    BY <2>1 DEF AnyStep, IInv, TypeOK, NodesMatchWriters
  <2>3. ~(n \in Nodes' /\ tree'[n] = tree[n])
    BY <1>2, <2>1 DEF StoredOids
  <2>4. ASSUME NEW w \in Requests, Writer(w, n)
        PROVE  \E q \in Requests \ (req[r].prior \cup {r}) : TakesNull(q)
    <3>1. Active(w) /\ ~Wrote(w) /\ TakesNull(w)
      BY <2>2, <2>4, WriterTakesNull
    <3>2. w \notin req[r].prior /\ w # r
      BY <3>1, ActiveIsNotPrior DEF AnyStep
    <3> QED
      BY <3>1, <3>2
  <2>5. ASSUME NEW d \in Requests, Remover(d, n)
        PROVE  \E q \in Requests \ (req[r].prior \cup {r}) : TakesNull(q)
    <3>1. Active(d) /\ At(d, "remove") /\ n = req[d].node
      BY <2>5 DEF Remover, Removes
    <3>2. req[d].op = "delete" /\ TakesNull(d)
      BY <2>2, <3>1, DeleterTakesNull
    <3>3. d \notin req[r].prior /\ d # r
      BY <3>1, <3>2, ActiveIsNotPrior DEF AnyStep
    <3> QED
      BY <3>2, <3>3
  <2> QED
    BY <2>1, <2>3, <2>4, <2>5, StoreSteps
<1> QED
  BY <1>1, <1>2 DEF Stored

(* A version of a versioned bucket loses its node after its object.        *)
LEMMA NodeAfterObject ==
  ASSUME AnyStep, StoreInv, NEW r \in Requests, Wrote(r), ~WritesNull(r),
         r \in StoredOids, r \in objects
  PROVE  r \in StoredOids'
<1>1. PICK n \in Nodes : tree[n].oid = r
  BY DEF StoredOids
<1>2. /\ n = r /\ n \in Requests /\ ~tree[n].null
  BY <1>1 DEF AnyStep, IInv, TypeOK, NodesMatchWriters
<1>3. ASSUME NEW w \in Requests, Writer(w, n) PROVE FALSE
  BY <1>2, <1>3, WriterTakesNull
<1>4. ASSUME NEW d \in Requests, Remover(d, n) PROVE FALSE
  <2>1. Active(d) /\ At(d, "remove") /\ n = req[d].node
    BY <1>4 DEF Remover, Removes
  <2>2. req[d].op = "delete" /\ req[d].oid = r
    BY <1>2, <2>1, DeleterTakesNull
  <2>3. TakesTheObject(req[d])
    BY DEF StoreInv
  <2> QED
    BY <2>1, <2>2, <2>3 DEF TakesTheObject, At
<1>5. n \in Nodes' /\ tree'[n] = tree[n]
  BY <1>3, <1>4, StoreSteps
<1> QED
  BY <1>1, <1>5 DEF StoredOids

LEMMA PutLastsKeeps ==
  ASSUME AnyStep, StoreInv, NEW r \in Requests
  PROVE  PutLasts(r)'
<1> DEFINE Taken == \E q \in Requests \ (req[r].prior \cup {r}) : TakesNull(q)
<1> PICK x : x = req'[r]
  OBVIOUS
<1> PICK y : y = req[r]
  OBVIOUS
<1>1. /\ y \in Request /\ x \in Request /\ AtStep(y) /\ Carries(y)
      /\ WrittenOnce /\ IInv /\ PutLasts(r)
      /\ y.pc = "idle" => y.op = "none"
  BY Records DEF StoreInv
<1>2. SUFFICES ASSUME x.op = "put" PROVE PutLasts(r)'
  BY DEF PutLasts
<1>3. ASSUME y.op = "put", Wrote(r),
             WritesNull(r) => Stored(r) \/ Taken,
             ~WritesNull(r) => (r \in objects => r \in StoredOids),
             x.pc \notin {"getnull", "add", "move"}
      PROVE  PutLasts(r)'
  <2>1. /\ y.pc # "idle" /\ SameAsk(x, y) /\ (WritesNull(r)' <=> WritesNull(r))
    BY <1>3, Steady DEF Wrote
  <2>2. Stored(r) /\ WritesNull(r) /\ ~Stored(r)' => Taken
    BY <1>3, NullTaken
  <2>3. Taken => \E q \in Requests \ (x.prior \cup {r}) : TakesNull(q)'
    BY <2>1, TakesNullStays DEF SameAsk
  <2>4. ~WritesNull(r) => (r \in objects' => r \in StoredOids')
    <3>1. r \in objects' => r \in objects
      BY <1>1, <1>3, GoneStays
    <3> QED
      BY <1>3, <3>1, NodeAfterObject
  <2> QED
    BY <1>2, <1>3, <2>1, <2>2, <2>3, <2>4 DEF PutLasts
<1>4. ASSUME y.op = "put", x.pc \in {"clear", "lock", "cache"} \/ x.res = "ok",
             y.pc \in {"clear", "lock", "cache"} \/ y.res = "ok"
      PROVE  PutLasts(r)'
  <2>1. Wrote(r) /\ req[r].pc # "idle"
    BY <1>1, <1>4 DEF Wrote, AtStep
  <2>2. x.pc \in {"clear", "lock", "cache", "done"}
    BY <2>1, Steady DEF Wrote
  <2>3. y.pc # "clear" \/ WritesNull(r)
    BY <1>1 DEF AtStep, WritesNull
  <2>4. /\ WritesNull(r) => Stored(r) \/ Taken
        /\ ~WritesNull(r) => (r \in objects => r \in StoredOids)
    BY <1>1, <1>4, <2>3 DEF PutLasts
  <2> QED
    BY <1>3, <1>4, <2>1, <2>2, <2>4
<1>5. ASSUME x.pc \notin {"getnull", "add", "move", "clear", "lock", "cache"},
             x.res # "ok"
      PROVE  PutLasts(r)'
  BY <1>5 DEF PutLasts
<1>6. ASSUME x.pc \in {"getnull", "add", "move"}, x.res # "ok", r \in objects'
      PROVE  PutLasts(r)'
  BY <1>6 DEF PutLasts
<1>7. ASSUME y.op = "put", y.pc \in {"getnull", "add", "move"}
      PROVE  r \in objects'
  <2>1. r \in objects
    BY <1>1, <1>7 DEF PutLasts
  <2>2. ASSUME NEW d \in Requests, Dropper(d, r) PROVE FALSE
    <3>1. Active(d) /\ At(d, "delete") /\ r = req[d].oid
      BY <2>2 DEF Dropper, Drops
    <3>2. Wrote(r)
      BY <3>1, DeleterTakesNull
    <3> QED
      BY <1>7, <3>2 DEF Wrote
  <2> QED
    BY <2>1, <2>2, StoreSteps
<1>8. CASE x = y
  <2>1. CASE y.pc \in {"clear", "lock", "cache"} \/ y.res = "ok"
    BY <1>2, <1>4, <1>8, <2>1
  <2>2. CASE y.pc \notin {"clear", "lock", "cache"} /\ y.res # "ok"
    BY <1>2, <1>5, <1>6, <1>7, <1>8, <2>2
  <2> QED
    BY <2>1, <2>2
<1>9. CASE Begins(r, x)
  BY <1>2, <1>5, <1>9 DEF Begins
<1>10. CASE Handled(r, x)
  <2>1. SameAsk(x, y) /\ Did(r, x) /\ y.op = "put" /\ Active(r)
    BY <1>2, <1>10 DEF Handled, SameAsk
  <2>2. y.pc # "done" /\ y.res \in {"none", "error"} /\ y.pc # "idle"
    BY <1>1, <2>1 DEF Active, AtStep
  <2>3. CASE y.pc \in {"clear", "lock", "cache"}
    <3>1. x.pc \in {"clear", "lock", "cache", "done"}
      BY <2>1, <2>2, <2>3, Steady DEF Wrote
    <3>2. x.pc \in {"clear", "lock", "cache"} \/ x.res = "ok" => PutLasts(r)'
      BY <1>4, <2>1, <2>3
    <3>3. x.pc = "done" /\ x.res # "ok" => PutLasts(r)'
      BY <1>5
    <3> QED
      BY <3>1, <3>2, <3>3
  <2>4. CASE y.pc = "create"
    <3>1. Fails(r, x) \/ Creates(r, x)
      BY <2>1, <2>4
      DEF Did, Local, Drops, Removes, Writes, LooksForNull, Finds, Evicts,
          FindsNone, GoesOn, Caches, Cleans, ReadsHead, ReadsList, At
    <3>2. \/ x.pc = "done" /\ x.res = "error"
          \/ x.pc \in {"getnull", "add"} /\ x.res = y.res /\ r \in objects'
      BY <2>4, <3>1 DEF Fails, GivesUp, Creates, Keeps, At
    <3> QED
      BY <1>5, <1>6, <2>2, <3>2
  <2>5. CASE y.pc = "getnull"
    <3>1. Fails(r, x) \/ LooksForNull(r, x)
      BY <2>1, <2>5
      DEF Did, Local, Drops, Removes, Writes, Creates, Finds, Evicts,
          FindsNone, GoesOn, Caches, Cleans, ReadsHead, ReadsList, At
    <3>2. \/ x.pc = "done" /\ x.res = "error"
          \/ x.pc \in {"add", "move"} /\ x.res = y.res
      BY <2>5, <3>1 DEF Fails, GivesUp, LooksForNull, Keeps, At
    <3> QED
      BY <1>5, <1>6, <1>7, <2>1, <2>2, <2>5, <3>2
  <2>6. CASE y.pc \in {"add", "move"}
    <3>1. Fails(r, x) \/ \E n \in Requests : Writes(r, x, n)
      BY <2>1, <2>6
      DEF Did, Local, Drops, Removes, LooksForNull, Creates, Finds, Evicts,
          FindsNone, GoesOn, Caches, Cleans, ReadsHead, ReadsList, At
    <3>2. CASE Fails(r, x)
      BY <1>5, <2>6, <3>2 DEF Fails, GivesUp, At
    <3>3. ASSUME NEW n \in Requests, Writes(r, x, n) PROVE PutLasts(r)'
      <4>1. /\ tree' = Upsert(n, NewNode(r)) /\ objects' = objects
            /\ x.pc \in {"clear", "lock", "cache", "done"}
        BY <3>3 DEF Writes, GivesUp
      <4>2. r \in objects'
        BY <1>7, <2>1, <2>6
      <4>3. n \in Nodes' /\ tree'[n].oid = r
        BY <4>1 DEF Upsert, NewNode, Nodes
      <4>4. Stored(r)'
        BY <4>2, <4>3 DEF Stored, StoredOids
      <4> QED
        BY <4>1, <4>4 DEF PutLasts, Stored
    <3> QED
      BY <3>1, <3>2, <3>3
  <2>7. CASE y.pc \in {"find", "fill"}
    <3>1. Fails(r, x)
      BY <2>1, <2>7
      DEF Did, Local, Drops, Removes, LooksForNull, Creates, Finds, Evicts,
          FindsNone, GoesOn, Caches, Cleans, ReadsHead, ReadsList, At, Writes
    <3> QED
      BY <1>5, <2>7, <3>1 DEF Fails, GivesUp, At
  <2>8. y.pc \notin {"evict", "delete", "remove", "clean", "head", "nodes"}
    BY <1>1, <2>1 DEF AtStep
  <2> QED
    BY <1>1, <2>2, <2>3, <2>4, <2>5, <2>6, <2>7, <2>8 DEF Request
<1>11. CASE x.pc = "done" /\ x.res = "crashed"
  BY <1>5, <1>11
<1> QED
  BY <1>8, <1>9, <1>10, <1>11, RequestSteps

(* A DELETE keeps the version it found, once it has found one.             *)
LEMMA OidStays ==
  ASSUME AnyStep, StoreInv, NEW d \in Requests, req[d].op = "delete",
         req[d].oid # None
  PROVE  req'[d].oid = req[d].oid /\ req'[d].op = "delete"
<1>1. Carries(req[d]) /\ req[d].pc # "idle"
  BY Records
<1>2. req[d].pc # "find"
  BY <1>1 DEF Carries
<1>3. CASE Handled(d, req'[d])
  BY <1>2, <1>3
  DEF Handled, SameAsk, Did, Local, Creates, Drops, Removes, Writes, Fails,
      LooksForNull, GoesOn, Caches, FindsNone, Finds, Evicts, Cleans,
      ReadsHead, ReadsList, Keeps, GivesUp, EndsWell, At
<1>4. ~Begins(d, req'[d])
  BY <1>1 DEF Begins, At
<1> QED
  BY <1>3, <1>4, RequestSteps DEF SameAsk

LEMMA DanglingKeeps ==
  ASSUME AnyStep, StoreInv, \A d \in Requests : TakesTheNode(req[d])'
  PROVE  DanglingOnlyByUnfinishedDelete'
<1> SUFFICES ASSUME NEW n \in Nodes', ~tree'[n].marker,
                    tree'[n].oid \notin objects'
             PROVE  \E d \in Requests : /\ req'[d].op = "delete"
                                        /\ req'[d].res # "ok"
                                        /\ req'[d].oid = tree'[n].oid
  BY DEF DanglingOnlyByUnfinishedDelete
<1>1. ASSUME NEW w \in Requests, Writer(w, n), tree'[n] = NewNode(w)
      PROVE  FALSE
  <2>1. /\ req[w].pc \in {"add", "move"} /\ objects' = objects
        /\ tree'[n].oid = w /\ req[w].op # "delete"
    <3>1. NewNode(w).oid = w /\ (NewNode(w).marker <=> req[w].op = "delete")
      BY DEF NewNode
    <3>2. ~NewNode(w).marker
      BY <1>1
    <3> QED
      BY <1>1, <3>1, <3>2 DEF Writer, Writes, At
  <2>2. req[w].op = "put" /\ PutLasts(w)
    BY <2>1, Records DEF Carries, Replacing, StoreInv
  <2> QED
    BY <2>1, <2>2 DEF PutLasts
<1>2. n \in Nodes /\ tree'[n] = tree[n]
  BY <1>1, StoreSteps
<1> PICK o : o = tree[n].oid
  OBVIOUS
<1>3. o \in Requests /\ o # None
  BY <1>2, NoneIsNoRequest DEF AnyStep, IInv, TypeOK, Node
<1>4. PICK d \in Requests : req[d].op = "delete" /\ req[d].oid = o
  <2>1. CASE o \notin objects
    BY <1>2, <2>1 DEF StoreInv, DanglingOnlyByUnfinishedDelete
  <2>2. CASE o \in objects
    <3>1. PICK d \in Requests : Dropper(d, o)
      BY <1>2, <2>2, StoreSteps
    <3>2. Active(d) /\ At(d, "delete") /\ o = req[d].oid
      BY <3>1 DEF Dropper, Drops
    <3> QED
      BY <3>2, DeleterTakesNull
  <2> QED
    BY <2>1, <2>2
<1>5. req'[d].oid = o /\ req'[d].op = "delete"
  BY <1>3, <1>4, OidStays
<1>6. req'[d].res # "ok"
  <2>1. TakesTheNode(req[d])'
    OBVIOUS
  <2>2. req'[d].res = "ok" => req'[d].oid \notin StoredOids'
    BY <1>5, <2>1 DEF TakesTheNode
  <2> QED
    BY <1>2, <1>5, <2>2 DEF StoredOids
<1> QED
  BY <1>2, <1>5, <1>6

(* The writer of a stored version began.                                   *)
LEMMA StoredBegan ==
  ASSUME IInv, WrittenOnce, NEW n \in Nodes
  PROVE  tree[n].oid \in Requests /\ req[tree[n].oid].pc # "idle"
BY DEF IInv, TypeOK, Node, WrittenOnce, Wrote

LEMMA NullsSeenKeeps ==
  ASSUME AnyStep, StoreInv, NEW q \in Requests
  PROVE  NullsSeen(q)'
<1> PICK x : x = req'[q]
  OBVIOUS
<1> PICK y : y = req[q]
  OBVIOUS
<1>1. y \in Request /\ IInv /\ WrittenOnce /\ NullsSeen(q)
  BY Records DEF StoreInv
<1>2. SUFFICES ASSUME x.pc \in {"add", "move"}, WritesNull(q)' PROVE NullsSeen(q)'
  BY DEF NullsSeen, At
<1>3. CASE x = y
  <2>1. Active(q) /\ WritesNull(q)
    BY <1>2, <1>3 DEF Active, WritesNull
  <2>2. ASSUME NEW n \in NullNodes', x.pc = "move" => n # x.node
        PROVE  Overlap(tree[n].oid, q)'
    <3>1. ASSUME NEW w \in Requests, Writer(w, n), tree'[n] = NewNode(w)
          PROVE  Overlap(tree[n].oid, q)'
      <4>1. Active(w) /\ tree'[n].oid = w
        BY <3>1 DEF Writer, NewNode
      <4>2. Overlap(w, q)'
        BY <2>1, <4>1, BothActiveOverlap
      <4> QED
        BY <4>1, <4>2 DEF Overlap
    <3>2. CASE n \in Nodes /\ tree'[n] = tree[n]
      <4>1. n \in NullNodes
        BY <3>2 DEF NullNodes
      <4> PICK o : o = tree[n].oid
        OBVIOUS
      <4>2. Overlap(o, q)
        BY <1>1, <1>2, <1>3, <2>1, <2>2, <4>1 DEF NullsSeen, At
      <4>3. o \in Requests /\ req[o].pc # "idle"
        BY <1>1, <3>2, StoredBegan
      <4>4. Overlap(o, q)'
        BY <2>1, <4>2, <4>3, OverlapStays DEF Active
      <4> QED
        BY <3>2, <4>4 DEF Overlap
    <3> QED
      BY <3>1, <3>2, StoreSteps DEF NullNodes
  <2> QED
    BY <2>2 DEF NullsSeen, At
<1>4. CASE Begins(q, x)
  BY <1>2, <1>4 DEF Begins, WritesNull
<1>5. CASE Handled(q, x)
  <2>1. y.pc # "idle" /\ Did(q, x)
    BY <1>5 DEF Handled, Active
  <2>2. LooksForNull(q, x) /\ UNCHANGED tree
    <3>1. WritesNull(q)
      BY <1>2, <2>1, Steady
    <3>2. ~Creates(q, x)
      BY <1>2, <3>1 DEF Creates, GivesUp
    <3>3. ~Drops(q, x) /\ ~Finds(q, x)
      BY <1>2 DEF Drops, GivesUp, AfterOld, Finds
    <3> QED
      BY <1>2, <2>1, <3>2, <3>3
      DEF Did, Local, Removes, Writes, Fails, GoesOn, Caches, FindsNone,
          Evicts, Cleans, ReadsHead, ReadsList, GivesUp, EndsWell
  <2>3. NullNodes' = NullNodes
    BY <2>2 DEF NullNodes, Nodes
  <2> QED
    BY <2>2, <2>3 DEF LooksForNull, NullsSeen, At
<1> QED
  BY <1>2, <1>3, <1>4, <1>5, RequestSteps

LEMMA TwinsKeep ==
  ASSUME AnyStep, StoreInv
  PROVE  NullTwinsOnlyByOverlap'
<1> SUFFICES ASSUME NEW m \in NullNodes', NEW n \in NullNodes', m # n
             PROVE  Overlap(tree[m].oid, tree[n].oid)'
  BY DEF NullTwinsOnlyByOverlap
<1>1. m \in Nodes' /\ n \in Nodes' /\ tree'[m].null /\ tree'[n].null
  BY DEF NullNodes
<1> PICK o : o = tree'[m].oid
  OBVIOUS
<1> PICK p : p = tree'[n].oid
  OBVIOUS
<1>2. ASSUME NEW k \in Nodes, NEW w \in Requests, NEW l, tree[k].null,
             Writer(w, l), WritesNull(w), k # l
      PROVE  Overlap(tree[k].oid, w)
  <2>1. NullsSeen(w) /\ k \in NullNodes
    BY <1>2 DEF StoreInv, NullNodes
  <2> QED
    BY <1>2, <2>1 DEF Writer, Writes, NullsSeen, At
<1>3. ASSUME NEW k \in Nodes', NEW w \in Requests, Writer(w, k),
             tree'[k] = NewNode(w)
      PROVE  /\ tree'[k].oid = w /\ (tree'[k].null <=> WritesNull(w))
             /\ Active(w)
  BY <1>3 DEF NewNode, Writer
<1>4. WrittenOnce /\ IInv
  BY DEF StoreInv, AnyStep
<1>5. Overlap(o, p)'
  <2>1. CASE /\ m \in Nodes /\ tree'[m] = tree[m]
             /\ n \in Nodes /\ tree'[n] = tree[n]
    <3>1. Overlap(o, p)
      BY <1>1, <2>1 DEF StoreInv, NullTwinsOnlyByOverlap, NullNodes
    <3> QED
      BY <1>4, <2>1, <3>1, StoredBegan, OverlapStays
  <2>2. ASSUME m \in Nodes, tree'[m] = tree[m],
               NEW w \in Requests, Writer(w, n), tree'[n] = NewNode(w)
        PROVE  Overlap(o, p)'
    <3>1. Overlap(o, w) /\ p = w /\ Active(w)
      BY <1>1, <1>2, <1>3, <2>2
    <3> QED
      BY <1>4, <2>2, <3>1, StoredBegan, OverlapStays DEF Active
  <2>3. ASSUME n \in Nodes, tree'[n] = tree[n],
               NEW w \in Requests, Writer(w, m), tree'[m] = NewNode(w)
        PROVE  Overlap(o, p)'
    <3>1. Overlap(p, w) /\ o = w /\ Active(w)
      BY <1>1, <1>2, <1>3, <2>3
    <3>2. Overlap(o, p)
      BY <3>1 DEF Overlap
    <3> QED
      BY <1>4, <2>3, <3>1, <3>2, StoredBegan, OverlapStays DEF Active
  <2>4. ASSUME NEW v \in Requests, Writer(v, m), tree'[m] = NewNode(v),
               NEW w \in Requests, Writer(w, n), tree'[n] = NewNode(w)
        PROVE  Overlap(o, p)'
    BY <1>1, <1>3, <2>4, BothActiveOverlap
  <2> QED
    BY <1>1, <2>1, <2>2, <2>3, <2>4, StoreSteps
<1> QED
  BY <1>5 DEF Overlap

---------------------------------------------------------------------------
LEMMA StoreInvInit ==
  ASSUME Init
  PROVE  StoreInv
<1>1. /\ Nodes = {} /\ objects = {}
      /\ \A r \in Requests : /\ req[r].op = "none" /\ req[r].pc = "idle"
                             /\ req[r].res = "none"
  BY DEF Init, Nodes, Idle
<1>2. WrittenOnce
  BY <1>1, FS_EmptySet DEF WrittenOnce
<1>3. ASSUME NEW r \in Requests
      PROVE  /\ Carries(req[r]) /\ TakesTheNode(req[r])
             /\ TakesTheObject(req[r]) /\ PutLasts(r) /\ NullsSeen(r)
  BY <1>1 DEF Carries, TakesTheNode, TakesTheObject, PutLasts, NullsSeen, At,
              Replacing
<1>4. DanglingOnlyByUnfinishedDelete /\ NullTwinsOnlyByOverlap
  BY <1>1 DEF DanglingOnlyByUnfinishedDelete, NullTwinsOnlyByOverlap, NullNodes
<1> QED
  BY <1>2, <1>3, <1>4 DEF StoreInv

LEMMA StoreInvKeeps ==
  ASSUME IInv, StoreInv, [Next]_vars
  PROVE  StoreInv'
<1>1. AnyStep
  BY NextDoes DEF StoreInv, WrittenOnce
<1>2. WrittenOnce'
  BY <1>1, WrittenOnceKeeps DEF StoreInv
<1>3. \A r \in Requests : Carries(req[r])' /\ TakesTheNode(req[r])'
  BY <1>1, CarriesKeeps, TakesTheNodeKeeps
<1>4. \A r \in Requests : TakesTheObject(req[r])'
  BY <1>1, TakesTheObjectKeeps
<1>5. \A r \in Requests : PutLasts(r)' /\ NullsSeen(r)'
  BY <1>1, PutLastsKeeps, NullsSeenKeeps
<1>6. DanglingOnlyByUnfinishedDelete'
  BY <1>1, <1>3, DanglingKeeps
<1>7. NullTwinsOnlyByOverlap'
  BY <1>1, TwinsKeep
<1> QED
  BY <1>2, <1>3, <1>4, <1>5, <1>6, <1>7 DEF StoreInv

(* What the stores say of each other, in every reachable state: each       *)
(* request writes its version once, a DELETE leaves neither node nor       *)
(* object of the version it took, a PUT stores its object before its node, *)
(* and null twins and dangling nodes have their makers.                    *)
THEOREM StoreInvariantHolds == Spec => [](IInv /\ StoreInv)
<1>1. Init => IInv /\ StoreInv
  BY InitIInv, StoreInvInit
<1>2. IInv /\ StoreInv /\ [Next]_vars => (IInv /\ StoreInv)'
  BY NextKeeps, StoreInvKeeps
<1> QED
  BY <1>1, <1>2, PTL DEF Spec

(* An acknowledged null version gives way only to requests on null         *)
(* versions that were running, or not yet made, when its PUT began         *)
(* (PutObject, addVersion, deleteObject).                                  *)
THEOREM NullVersionLasts == Spec => []NullVersionSurvives
<1>1. IInv /\ StoreInv => NullVersionSurvives
  BY DEF StoreInv, PutLasts, NullVersionSurvives, AckedPut
<1> QED
  BY <1>1, StoreInvariantHolds, PTL

(* What an acknowledged DELETE took has neither node nor object, from then *)
(* on (removeOldVersion, RemoveVersion).                                   *)
THEOREM DeletedIsGone == Spec => []DeletedStaysDeleted
<1>1. IInv /\ StoreInv => DeletedStaysDeleted
  BY DEF StoreInv, TakesTheNode, TakesTheObject, DeletedStaysDeleted
<1> QED
  BY <1>1, StoreInvariantHolds, PTL

(* A node whose object is gone is the trace of an unfinished or failed     *)
(* DELETE, and no object of a versioned PUT outlives its node.             *)
THEOREM StoresAgree == Spec => []NodesAndObjectsAgree
<1>1. IInv /\ StoreInv => NodesAndObjectsAgree
  BY DEF StoreInv, PutLasts, NodesAndObjectsAgree, NoOrphanOfVersion, AckedPut
<1> QED
  BY <1>1, StoreInvariantHolds, PTL

(* Two null versions were written by two requests that ran at the same     *)
(* time (addVersion looks for the node to replace before it writes).       *)
THEOREM TwinsOverlap == Spec => []NullTwinsOnlyByOverlap
<1>1. IInv /\ StoreInv => NullTwinsOnlyByOverlap
  BY DEF StoreInv
<1> QED
  BY <1>1, StoreInvariantHolds, PTL

---------------------------------------------------------------------------
(* What the caches say of the stores.                                      *)

(* Who fills the caches.                                                   *)
Filler(f, o) ==
  /\ Active(f) /\ Fills(f, o) /\ UNCHANGED objects
  /\ \/ At(f, "cache") /\ req[f].op = "put" /\ f = o
     \/ At(f, "fill") /\ req[f].op = "head" /\ req[f].oid = o

Lister(f) ==
  /\ Active(f) /\ At(f, "fill") /\ req[f].op = "list" /\ lists' = req[f].ans
  /\ UNCHANGED tree /\ Alone(f, req'[f])

LEMMA CacheSteps ==
  ASSUME AnyStep
  PROVE  /\ \A o \in objCache' :
              o \in objCache \/ \E f \in Requests : Filler(f, o)
         /\ lists' \in {lists, {}} \/ \E f \in Requests : Lister(f)
<1> DEFINE Objects == \A o \in objCache' :
                        o \in objCache \/ \E f \in Requests : Filler(f, o)
           Lists == lists' \in {lists, {}} \/ \E f \in Requests : Lister(f)
<1>1. ASSUME NEW r \in Requests, Handled(r, req'[r])
      PROVE  Objects /\ Lists
  <2>1. CASE UNCHANGED caches
    BY <2>1 DEF caches
  <2>2. CASE Caches(r, req'[r]) /\ UNCHANGED objects
    BY <1>1, <2>2 DEF Handled, Caches, Filler, Fills
  <2>3. CASE Evicts(r, req'[r]) \/ Cleans(r, req'[r])
    BY <2>3 DEF Evicts, Cleans
  <2>4. CASE ReadsHead(r, req'[r]) /\ UNCHANGED objects
    BY <1>1, <2>1, <2>4 DEF Handled, ReadsHead, Filler, Fills
  <2>5. CASE ReadsList(r, req'[r]) /\ UNCHANGED tree
    BY <1>1, <2>5 DEF Handled, ReadsList, Lister
  <2>6. \/ UNCHANGED caches
        \/ /\ UNCHANGED <<objects, tree>>
           /\ \/ Caches(r, req'[r]) \/ Evicts(r, req'[r])
              \/ Cleans(r, req'[r]) \/ ReadsHead(r, req'[r])
              \/ ReadsList(r, req'[r])
    BY <1>1 DEF Handled, Did, Local, Creates, Drops, Removes, Writes, Fails,
                LooksForNull, GoesOn, FindsNone, Finds
  <2> QED
    BY <2>1, <2>2, <2>3, <2>4, <2>5, <2>6
<1>2. ASSUME NEW r \in Requests, Begins(r, req'[r])
      PROVE  Objects /\ Lists
  BY <1>2 DEF Begins, caches
<1>3. CASE Crashed \/ Rested
  BY <1>3 DEF Crashed, Rested
<1> QED
  BY <1>1, <1>2, <1>3 DEF AnyStep

(* A filler keeps the object it cached, a DELETE the one it drops.         *)
LEMMA FillsStays ==
  ASSUME AnyStep, StoreInv, CacheInv, NEW f \in Requests, NEW o \in Requests,
         Fills(f, o)
  PROVE  Fills(f, o)' /\ req[f].pc # "idle"
<1>1. req[f].pc # "idle"
  BY Records DEF Fills
<1>2. SameAsk(req'[f], req[f])
  BY <1>1, Steady
<1>3. req[f].oid = o => req'[f].oid = o
  <2>1. SUFFICES ASSUME req[f].oid = o PROVE req'[f].oid = req[f].oid
    OBVIOUS
  <2>2. ~(req[f].op = "head" /\ At(f, "find"))
    BY <2>1, NoneIsNoRequest DEF CacheInv, CachedIsThere, At
  <2>3. CASE Handled(f, req'[f])
    BY <2>2, <2>3
    DEF Handled, Did, Local, Creates, Drops, Removes, Writes, Fails, Fills,
        LooksForNull, GoesOn, Caches, FindsNone, Finds, Evicts, Cleans,
        ReadsHead, ReadsList, Keeps, GivesUp, EndsWell
  <2>4. ~Begins(f, req'[f])
    BY <1>1 DEF Begins, At
  <2> QED
    BY <2>3, <2>4, RequestSteps
<1> QED
  BY <1>1, <1>2, <1>3 DEF Fills, SameAsk

LEMMA DeletesStays ==
  ASSUME AnyStep, StoreInv, NEW d \in Requests, NEW o \in Requests, Deletes(d, o)
  PROVE  Deletes(d, o)' /\ req[d].pc # "idle"
<1>1. req[d].oid # None /\ req[d].op = "delete"
  BY NoneIsNoRequest DEF Deletes
<1>2. req[d].pc # "idle"
  BY <1>1, Records
<1> QED
  BY <1>1, <1>2, OidStays DEF Deletes

(* An object a request holds in hand goes only by a DELETE at that time.   *)
LEMMA GoneByOverlap ==
  ASSUME AnyStep, StoreInv, NEW r \in Requests, Active(r), NEW o \in Requests,
         o \notin objects',
         o \notin objects => \E d \in Requests : Deletes(d, o) /\ Overlap(r, d)
  PROVE  \E d \in Requests : Deletes(d, o)' /\ Overlap(r, d)'
<1>1. CASE o \notin objects
  <2>1. PICK d \in Requests : Deletes(d, o) /\ Overlap(r, d)
    BY <1>1
  <2>2. Deletes(d, o)' /\ Overlap(r, d)'
    BY <2>1, DeletesStays, OverlapStays DEF Active
  <2> QED
    BY <2>2
<1>2. CASE o \in objects
  <2>1. PICK d \in Requests : Dropper(d, o)
    BY <1>2, StoreSteps
  <2>2. Active(d) /\ At(d, "delete") /\ o = req[d].oid
    BY <2>1 DEF Dropper, Drops
  <2>3. Deletes(d, o)
    BY <2>2, DeleterTakesNull DEF Deletes
  <2>4. Deletes(d, o)' /\ Overlap(r, d)'
    BY <2>2, <2>3, DeletesStays, BothActiveOverlap
  <2> QED
    BY <2>4
<1> QED
  BY <1>1, <1>2

LEMMA CachedIsThereKeeps ==
  ASSUME AnyStep, StoreInv, CacheInv, NEW r \in Requests
  PROVE  CachedIsThere(r)'
<1> PICK x : x = req'[r]
  OBVIOUS
<1> PICK y : y = req[r]
  OBVIOUS
<1>1. /\ y \in Request /\ x \in Request /\ AtStep(y) /\ Carries(y)
      /\ PutLasts(r) /\ CachedIsThere(r)
      /\ y.pc = "idle" => y.op = "none"
  BY Records DEF StoreInv, CacheInv
<1>2. ASSUME x.op = "head", x.pc = "find" PROVE x.oid = None
  <2>1. ~Handled(r, x)
    BY <1>2
    DEF Handled, Did, Local, Creates, Drops, Removes, Writes, Fails,
        LooksForNull, GoesOn, Caches, FindsNone, Finds, Evicts, Cleans,
        ReadsHead, ReadsList, Keeps, GivesUp, EndsWell, AfterOld
  <2>2. Begins(r, x) => x.oid = None
    BY <1>2 DEF Begins
  <2>3. x = y => x.oid = None
    BY <1>1, <1>2 DEF CachedIsThere
  <2> QED
    BY <1>2, <2>1, <2>2, <2>3, RequestSteps
<1>3. ASSUME x.op = "put", x.pc \in {"clear", "lock", "cache"}, r \notin objects'
      PROVE  \E d \in Requests : Deletes(d, r)' /\ Overlap(r, d)'
  <2>1. CASE x = y
    BY <1>1, <1>3, <2>1, GoneByOverlap DEF CachedIsThere, Active
  <2>2. CASE Handled(r, x)
    <3>1. y.op = "put" /\ Active(r)
      BY <1>3, <2>2 DEF Handled, SameAsk
    <3>2. GoesOn(r, x) \/ \E n \in Requests : Writes(r, x, n)
      BY <1>3, <2>2, <3>1
      DEF Handled, Did, Local, Creates, Drops, Removes, Fails, LooksForNull,
          Caches, FindsNone, Finds, Evicts, Cleans, ReadsHead, ReadsList,
          GivesUp, EndsWell, AfterOld
    <3>3. CASE GoesOn(r, x)
      <4>1. y.pc \in {"clear", "lock"}
        BY <3>3 DEF GoesOn, At
      <4> QED
        BY <1>1, <1>3, <3>1, <4>1, GoneByOverlap DEF CachedIsThere
    <3>4. ASSUME NEW n \in Requests, Writes(r, x, n) PROVE FALSE
      <4>1. y.pc \in {"add", "move"} /\ objects' = objects
        BY <3>4 DEF Writes, At
      <4> QED
        BY <1>1, <1>3, <3>1, <4>1 DEF PutLasts
    <3> QED
      BY <3>2, <3>3, <3>4
  <2>3. ~Begins(r, x)
    BY <1>3 DEF Begins
  <2> QED
    BY <1>3, <2>1, <2>2, <2>3, RequestSteps
<1>4. ASSUME x.op = "head", x.pc = "fill", x.oid \notin objects'
      PROVE  \E d \in Requests : Deletes(d, x.oid)' /\ Overlap(r, d)'
  <2>1. CASE x = y
    <3>1. x.oid \in Requests
      BY <1>1, <1>4, <2>1 DEF AtStep
    <3>2. x.oid \notin objects =>
            \E d \in Requests : Deletes(d, x.oid) /\ Overlap(r, d)
      BY <1>1, <1>4, <2>1 DEF CachedIsThere
    <3>3. Active(r)
      BY <1>4, <2>1 DEF Active
    <3> PICK o : o = x.oid
      OBVIOUS
    <3> QED
      BY <1>4, <3>1, <3>2, <3>3, GoneByOverlap
  <2>2. ~Handled(r, x)
    <3>1. SUFFICES ASSUME Handled(r, x) PROVE FALSE
      OBVIOUS
    <3>2. y.op = "head" /\ UNCHANGED objects
      BY <1>4, <3>1
      DEF Handled, SameAsk, Did, Local, Creates, Drops, Removes, Writes,
          GivesUp, AfterOld
    <3>3. ReadsHead(r, x)
      BY <1>4, <3>1, <3>2
      DEF Handled, Did, Local, Creates, Drops, Removes, Writes, Fails,
          LooksForNull, GoesOn, Caches, FindsNone, Finds, Evicts, Cleans,
          ReadsList, Keeps, GivesUp, EndsWell, AfterOld
    <3> QED
      BY <1>4, <3>2, <3>3 DEF ReadsHead
  <2>3. ~Begins(r, x)
    BY <1>4 DEF Begins
  <2> QED
    BY <1>4, <2>1, <2>2, <2>3, RequestSteps
<1>5. ASSUME x.pc = "delete", x.oid \in objCache'
      PROVE  \E f \in Requests : Fills(f, x.oid)' /\ Overlap(f, r)'
  <2>1. CASE x = y
    <3>1. Active(r) /\ DeletesNamed(r)
      BY <1>5, <2>1 DEF Active, AnyStep, IInv
    <3>2. x.oid \in Requests
      BY <1>5, <2>1, <3>1 DEF DeletesNamed
    <3> PICK o : o = x.oid
      OBVIOUS
    <3>3. CASE o \in objCache
      <4>1. PICK f \in Requests : Fills(f, o) /\ Overlap(f, r)
        BY <1>1, <1>5, <2>1, <3>3 DEF CachedIsThere
      <4>2. Fills(f, o)' /\ Overlap(f, r)'
        BY <3>1, <3>2, <4>1, FillsStays, OverlapStays DEF Active
      <4> QED
        BY <4>2
    <3>4. CASE o \notin objCache
      <4>1. PICK f \in Requests : Filler(f, o)
        BY <1>5, <3>4, CacheSteps
      <4>2. Fills(f, o) /\ Active(f)
        BY <4>1 DEF Filler
      <4>3. Fills(f, o)' /\ Overlap(f, r)'
        BY <3>1, <3>2, <4>2, FillsStays, BothActiveOverlap
      <4> QED
        BY <4>3
    <3> QED
      BY <3>3, <3>4
  <2>2. ~Handled(r, x)
    <3>1. SUFFICES ASSUME Handled(r, x) PROVE FALSE
      OBVIOUS
    <3>2. Evicts(r, x)
      BY <1>5, <3>1
      DEF Handled, Did, Local, Creates, Drops, Removes, Writes, Fails,
          LooksForNull, GoesOn, Caches, FindsNone, Finds, Cleans, ReadsHead,
          ReadsList, Keeps, GivesUp, EndsWell, AfterOld
    <3> QED
      BY <1>5, <3>2 DEF Evicts, Keeps
  <2>3. ~Begins(r, x)
    BY <1>5 DEF Begins
  <2> QED
    BY <1>5, <2>1, <2>2, <2>3, RequestSteps
<1> QED
  BY <1>2, <1>3, <1>4, <1>5 DEF CachedIsThere, Deletes, Fills, Overlap

LEMMA GhostKeeps ==
  ASSUME AnyStep, StoreInv, CacheInv
  PROVE  GhostOnlyByOverlap'
<1> SUFFICES ASSUME NEW o \in objCache', o \notin objects'
             PROVE  \E f, d \in Requests :
                      Fills(f, o)' /\ Deletes(d, o)' /\ Overlap(f, d)'
  BY DEF GhostOnlyByOverlap, Fills, Deletes, Overlap
<1>1. o \in Requests
  BY DEF AnyStep, IInv, TypeOK
<1>2. ASSUME NEW f \in Requests, NEW d \in Requests, Fills(f, o),
             Deletes(d, o), Overlap(f, d)
      PROVE  \E g, e \in Requests :
               Fills(g, o)' /\ Deletes(e, o)' /\ Overlap(g, e)'
  <2>1. Fills(f, o)' /\ Deletes(d, o)' /\ Overlap(f, d)'
    BY <1>1, <1>2, FillsStays, DeletesStays, OverlapStays
  <2> QED
    BY <2>1
<1>3. CASE o \in objCache /\ o \notin objects
  <2>1. PICK f \in Requests, d \in Requests :
          Fills(f, o) /\ Deletes(d, o) /\ Overlap(f, d)
    BY <1>3 DEF CacheInv, GhostOnlyByOverlap, Fills, Deletes
  <2> QED
    BY <1>2, <2>1
<1>4. CASE o \in objCache /\ o \in objects
  <2>1. PICK d \in Requests : Dropper(d, o)
    BY <1>4, StoreSteps
  <2>2. Active(d) /\ At(d, "delete") /\ o = req[d].oid
    BY <2>1 DEF Dropper, Drops
  <2>3. Deletes(d, o)
    BY <2>2, DeleterTakesNull DEF Deletes
  <2>4. PICK f \in Requests : Fills(f, o) /\ Overlap(f, d)
    BY <1>4, <2>2 DEF CacheInv, CachedIsThere, At
  <2> QED
    BY <1>2, <2>3, <2>4
<1>5. CASE o \notin objCache
  <2>1. PICK f \in Requests : Filler(f, o)
    BY <1>5, CacheSteps
  <2>2. o \notin objects /\ Fills(f, o) /\ CachedIsThere(f)
    BY <2>1 DEF Filler, CacheInv
  <2>3. PICK d \in Requests : Deletes(d, o) /\ Overlap(f, d)
    BY <2>1, <2>2 DEF Filler, CachedIsThere, At
  <2> QED
    BY <1>2, <2>2, <2>3
<1> QED
  BY <1>3, <1>4, <1>5

LEMMA ListsPriorKeeps ==
  ASSUME AnyStep, StoreInv, CacheInv, NEW f \in Requests
  PROVE  ListsPrior(f)'
<1> PICK x : x = req'[f]
  OBVIOUS
<1> PICK y : y = req[f]
  OBVIOUS
<1>1. /\ y \in Request /\ x \in Request /\ ListsPrior(f)
      /\ y.pc = "idle" => y.op = "none"
  BY Records DEF CacheInv
<1>2. SUFFICES ASSUME x.op = "list", x.pc \in {"nodes", "fill"}
               PROVE  /\ x.pc = "fill" => x.todo = {}
                      /\ \A n \in Nodes' : tree'[n].oid \in x.prior =>
                           n \in x.todo \/ tree'[n].oid \in x.ans
  BY DEF ListsPrior
<1>3. ASSUME Active(f), x.prior = y.prior, NEW n \in Nodes',
             tree'[n].oid \in x.prior
      PROVE  n \in Nodes /\ tree'[n] = tree[n]
  <2>1. ASSUME NEW w \in Requests, Writer(w, n), tree'[n] = NewNode(w)
        PROVE  FALSE
    <3>1. Active(w) /\ tree'[n].oid = w
      BY <2>1 DEF Writer, NewNode
    <3> QED
      BY <1>3, <3>1, ActiveIsNotPrior DEF AnyStep
  <2> QED
    BY <2>1, StoreSteps
<1>4. CASE x = y
  <2>1. Active(f)
    BY <1>2, <1>4 DEF Active
  <2> QED
    BY <1>1, <1>2, <1>3, <1>4, <2>1 DEF ListsPrior
<1>5. CASE Handled(f, x)
  <2>1. y.op = "list" /\ Active(f) /\ x.prior = y.prior
    BY <1>2, <1>5 DEF Handled, SameAsk
  <2>2. ReadsList(f, x) /\ UNCHANGED tree
    BY <1>2, <1>5, <2>1
    DEF Handled, Did, Local, Creates, Drops, Removes, Writes, Fails,
        LooksForNull, GoesOn, Caches, FindsNone, Finds, Evicts, Cleans,
        ReadsHead, Keeps, GivesUp, EndsWell, AfterOld
  <2>3. Nodes' = Nodes
    BY <2>2 DEF Nodes
  <2>4. CASE x.todo = Nodes /\ x.pc = IF Nodes = {} THEN "fill" ELSE "nodes"
    BY <1>2, <2>3, <2>4
  <2>5. ASSUME y.pc = "nodes", NEW m \in y.todo,
               x.pc = IF y.todo = {m} THEN "fill" ELSE "nodes",
               x.todo = y.todo \ {m},
               x.ans = y.ans \cup {tree[k].oid : k \in Nodes \cap {m}}
        PROVE  /\ x.pc = "fill" => x.todo = {}
               /\ \A n \in Nodes' : tree'[n].oid \in x.prior =>
                    n \in x.todo \/ tree'[n].oid \in x.ans
    <3>1. x.pc = "fill" => x.todo = {}
      BY <2>5
    <3>2. ASSUME NEW n \in Nodes', tree'[n].oid \in x.prior
          PROVE  n \in x.todo \/ tree'[n].oid \in x.ans
      <4>1. n \in Nodes /\ tree'[n] = tree[n]
        BY <2>2, <2>3
      <4>2. n \in y.todo \/ tree[n].oid \in y.ans
        BY <1>1, <2>1, <2>5, <3>2, <4>1 DEF ListsPrior
      <4> QED
        BY <2>5, <4>1, <4>2
    <3> QED
      BY <3>1, <3>2
  <2> QED
    BY <1>2, <2>2, <2>4, <2>5 DEF ReadsList, At
<1>6. ~Begins(f, x)
  BY <1>2 DEF Begins
<1> QED
  BY <1>2, <1>4, <1>5, <1>6, RequestSteps

(* A request that wrote a version drops the cached lists as it succeeds.   *)
LEMMA SuccessDropsLists ==
  ASSUME AnyStep, StoreInv, NEW r \in Requests, r \in StoredOids',
         req'[r].res = "ok", req[r].res # "ok", Wrote(r)'
  PROVE  lists' = {}
<1> PICK x : x = req'[r]
  OBVIOUS
<1> PICK y : y = req[r]
  OBVIOUS
<1>1. x.op \in {"put", "delete"} /\ x.res = "ok" /\ y.res # "ok"
  BY DEF Wrote
<1>2. CASE Handled(r, x)
  <2>1. y.op \in {"put", "delete"} /\ Did(r, x)
    BY <1>1, <1>2 DEF Handled, SameAsk
  <2>2. ~FindsNone(r, x) \/ tree' # tree
    <3>1. SUFFICES ASSUME FindsNone(r, x), tree' = tree PROVE FALSE
      OBVIOUS
    <3>2. PICK n \in Nodes : tree[n].oid = r
      BY <3>1 DEF StoredOids, Nodes
    <3>3. Wrote(r)
      BY <3>2 DEF StoreInv, WrittenOnce
    <3> QED
      BY <3>1, <3>3 DEF FindsNone, At, Wrote
  <2>3. Caches(r, x) \/ Cleans(r, x)
    BY <1>1, <2>1, <2>2
    DEF Did, Local, Creates, Drops, Removes, Writes, Fails, LooksForNull,
        GoesOn, Finds, Evicts, ReadsHead, ReadsList, Keeps, GivesUp
  <2> QED
    BY <2>3 DEF Caches, Cleans
<1>3. ~Begins(r, x)
  BY <1>1 DEF Begins
<1> QED
  BY <1>1, <1>2, <1>3, RequestSteps

LEMMA StaleListKeeps ==
  ASSUME AnyStep, StoreInv, CacheInv, WrittenOnce'
  PROVE  StaleListOnlyByOverlap'
<1> SUFFICES ASSUME NEW r \in Requests, req'[r].res = "ok", r \in StoredOids',
                    lists' # {}, r \notin lists'
             PROVE  \E f \in Requests : req'[f].op = "list" /\ Overlap(f, r)'
  BY DEF StaleListOnlyByOverlap, Overlap
<1>1. Wrote(r)'
  BY DEF WrittenOnce, StoredOids
<1>2. req[r].res = "ok"
  BY <1>1, SuccessDropsLists
<1>3. /\ req[r].pc = "done" /\ req'[r] = req[r] /\ Wrote(r)
  <2>1. AtStep(req[r]) /\ (req[r].pc = "idle" => req[r] = Idle)
    BY Records
  <2>2. req[r].pc = "done"
    BY <1>2, <2>1 DEF AtStep
  <2>3. req'[r] = req[r]
    BY <2>2, Steady
  <2> QED
    BY <1>1, <2>2, <2>3 DEF Wrote
<1>4. r \in StoredOids
  BY <1>3, GoneStays DEF StoreInv
<1>5. ASSUME NEW f \in Requests, req[f].op = "list", Overlap(f, r)
      PROVE  req'[f].op = "list" /\ Overlap(f, r)'
  <2>1. req[f].pc # "idle"
    BY <1>5, Records
  <2> QED
    BY <1>3, <1>5, <2>1, Steady, OverlapStays DEF SameAsk
<1>6. CASE lists' = lists
  <2>1. PICK f \in Requests : req[f].op = "list" /\ Overlap(f, r)
    BY <1>2, <1>4, <1>6 DEF CacheInv, StaleListOnlyByOverlap
  <2> QED
    BY <1>5, <2>1
<1>7. ASSUME NEW f \in Requests, Lister(f)
      PROVE  \E g \in Requests : req'[g].op = "list" /\ Overlap(g, r)'
  <2>1. /\ Active(f) /\ At(f, "fill") /\ req[f].op = "list"
        /\ r \notin req[f].ans
    BY <1>7 DEF Lister
  <2>2. r \notin req[f].prior
    <3>1. ListsPrior(f)
      BY DEF CacheInv
    <3>2. PICK n \in Nodes : tree[n].oid = r
      BY <1>4 DEF StoredOids
    <3> QED
      BY <2>1, <3>1, <3>2 DEF ListsPrior, At
  <2>3. Overlap(f, r)
    BY <2>1, <2>2, ActiveIsNotPrior DEF Overlap, AnyStep
  <2> QED
    BY <1>5, <2>1, <2>3
<1> QED
  BY <1>6, <1>7, CacheSteps

LEMMA CacheInvInit ==
  ASSUME Init
  PROVE  CacheInv
<1>1. /\ objCache = {} /\ lists = {}
      /\ \A r \in Requests : req[r].op = "none" /\ req[r].pc = "idle"
  BY DEF Init, Idle
<1> QED
  BY <1>1 DEF CacheInv, CachedIsThere, ListsPrior, GhostOnlyByOverlap,
              StaleListOnlyByOverlap

LEMMA CacheInvKeeps ==
  ASSUME IInv, StoreInv, CacheInv, [Next]_vars
  PROVE  CacheInv'
<1>1. AnyStep
  BY NextDoes DEF StoreInv, WrittenOnce
<1>2. WrittenOnce'
  BY StoreInvKeeps DEF StoreInv
<1>3. \A r \in Requests : CachedIsThere(r)' /\ ListsPrior(r)'
  BY <1>1, CachedIsThereKeeps, ListsPriorKeeps
<1>4. GhostOnlyByOverlap' /\ StaleListOnlyByOverlap'
  BY <1>1, <1>2, GhostKeeps, StaleListKeeps
<1> QED
  BY <1>3, <1>4 DEF CacheInv

(* What a request is about to cache is there or is being deleted, and a    *)
(* listing has seen what was over when it began (CacheInv), on top of the  *)
(* invariants of the stores.                                               *)
THEOREM CacheInvariantHolds == Spec => [](IInv /\ StoreInv /\ CacheInv)
<1>1. Init => IInv /\ StoreInv /\ CacheInv
  BY InitIInv, StoreInvInit, CacheInvInit
<1>2. IInv /\ StoreInv /\ CacheInv /\ [Next]_vars
        => (IInv /\ StoreInv /\ CacheInv)'
  BY NextKeeps, StoreInvKeeps, CacheInvKeeps
<1> QED
  BY <1>1, <1>2, PTL DEF Spec

(* A cached object that FrostFS no longer has, or a cached list that       *)
(* misses a version, comes only from requests that ran at the same time    *)
(* (objectDelete, CleanListCacheEntriesContainingObject).                  *)
THEOREM CachesAreStaleOnlyByOverlap == Spec => []CachesStaleOnlyByOverlap
<1>1. IInv /\ StoreInv /\ CacheInv => CachesStaleOnlyByOverlap
  BY DEF CacheInv, CachesStaleOnlyByOverlap
<1> QED
  BY <1>1, CacheInvariantHolds, PTL
=============================================================================
